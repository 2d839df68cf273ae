------------------------------- MODULE MCSla -------------------------------
EXTENDS Sla, TLC
=============================================================================
