--------------------------- MODULE MCRegisterLink ---------------------------
(* RegisterLink for TLC: the configurations differ in topics, faults, threads. *)
EXTENDS RegisterLink
=============================================================================
