------------------------- MODULE MCNotificationEngine -------------------------
(* NotificationEngine on small instances: two partitions, three methods.   *)
EXTENDS NotificationEngine, TLC

CONSTANTS p1, p2, m1, m2, m3

MCPartitions == {p1, p2}

\* m1 is sent periodically too, m2 is not, m3 is periodic and has no plugin.
MCMethods == {m1, m2, m3}
MCConfigured == {m1, m2}
MCPeriodic == {m1, m3}
MCActions == [a \in Alarms |-> IF a[1] = p1 THEN {m1, m2} ELSE {m3}]

EngineSymmetry == Permutations(Engines)
=============================================================================
