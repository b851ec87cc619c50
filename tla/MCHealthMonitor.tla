--------------------------- MODULE MCHealthMonitor ---------------------------
(* HealthMonitor for TLC: ticks 2 apart, probes of 0 or 1, a window of 4   *)
(* ticks, and a broadcast channel that holds a single event.               *)
EXTENDS HealthMonitor, TLC
=============================================================================
