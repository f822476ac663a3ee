---------------------------- MODULE MCPortManager ----------------------------
(* PortManager for TLC: two slots and two ports. *)
EXTENDS PortManager
=============================================================================
