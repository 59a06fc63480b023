---------------------------- MODULE MCScheduler ----------------------------
(* Instances of Scheduler for TLC. *)
EXTENDS Scheduler

CONSTANT Short

\* One job comes round every tick, any other one every third.
TwoIntervals == [j \in Jobs |-> IF j = Short THEN 1 ELSE 3]
=============================================================================
