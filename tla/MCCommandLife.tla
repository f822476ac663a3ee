---- MODULE MCCommandLife ----
(* Two commands on a board of two channels, and a removal of a device.     *)
EXTENDS CommandLife
====
