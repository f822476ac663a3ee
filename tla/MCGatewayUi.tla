---------------------------- MODULE MCGatewayUi ----------------------------
(* One board of one channel and one slave that may be added, on one port. *)
EXTENDS GatewayUi
=============================================================================
