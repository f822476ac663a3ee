---------------------------- MODULE MCPcRegistry ----------------------------
\* One device on one port: d1 and p1 are model values.
EXTENDS PcRegistry

CONSTANTS d1, p1

OnePort == [d \in Devices |-> p1]
=============================================================================
