--------------------------- MODULE MCOrchestrator ---------------------------
(* Instances of Orchestrator: two or three lanes and short windows.         *)
EXTENDS Orchestrator

TwoSlots == {1, 2}
HalfEach == [s \in Slots |-> 20]
Lowest == [s \in Slots |-> 13]
Highest == [s \in Slots |-> 28]
Rule(s, m, pins, ticks) == [slot |-> s, metric |-> m, sustainPins |-> pins, cooldown |-> ticks]
MixedRules == <<Rule(1, "floor", 2, 1), Rule(1, "better_elsewhere", 2, 2),
                Rule(2, "floor", 2, 1), Rule(2, "gate_flip", 2, 1)>>
OneWait == [edge \in Slots \X Slots |-> IF edge[2] = 2 THEN 2 ELSE 0]
Reading(ref, zone, ok, risk) ==
    [ref |-> ref, zone |-> zone, eligible |-> ok, live |-> TRUE, riskAdj |-> risk,
     halfCapacity |-> 33]
MixedReadings == <<
    {Reading("new", "breaching", TRUE, 1), Reading("new", "safe", TRUE, 4),
     Reading("repin", "gap", TRUE, Unmeasured)},
    {Reading("new", "breaching", TRUE, 1), Reading("new", "safe", TRUE, 10),
     Reading("new", "gap", FALSE, 4), Reading("same", "safe", TRUE, 4)}>>
=============================================================================
