-------------------------- MODULE MCHealthMonitor --------------------------
(* HealthMonitor on small rings: DeadAfter is 2 probes instead of 12. *)
EXTENDS HealthMonitor, TLC

CONSTANTS Crashing, CrashBound

CrashBounds == [n \in Nodes |-> IF n \in Crashing THEN CrashBound ELSE 0]

\* The links that may lose probes.
NoLoss  == {}
OneLink == {<<1, 3>>}
=============================================================================
