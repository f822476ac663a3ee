------------------------------- MODULE MCPcUi -------------------------------
\* One device, which expects telemetry: d1 is a model value.
EXTENDS PcUi

CONSTANT d1
=============================================================================
