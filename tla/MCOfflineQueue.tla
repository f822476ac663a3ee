---------------------------- MODULE MCOfflineQueue ----------------------------
\* A run of messages for TLC: an alarm that waits behind latest points.
EXTENDS OfflineQueue

Kept2 == <<"changed", "alarm">>
=============================================================================
