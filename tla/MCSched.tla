------------------------------- MODULE MCSched -------------------------------
EXTENDS Sched
=============================================================================
