--------------------------- MODULE MCCounterTick ----------------------------
(* CounterTick with two workers and two milestones.                         *)
EXTENDS CounterTick

CONSTANTS r1, r2

MCReplicas == {r1, r2}
MCMilestones == <<1, 2>>
=============================================================================
