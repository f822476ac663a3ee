---------------------------- MODULE MCConfigSync ----------------------------
(* ConfigSync against any peer, on two queue slots and a few numbers. *)
EXTENDS ConfigSync
=============================================================================
