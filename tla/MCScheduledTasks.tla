-------------------------- MODULE MCScheduledTasks --------------------------
(* Instances of ScheduledTasks for TLC. *)
EXTENDS ScheduledTasks

\* No task's name finds another.
DistinctNames == {}
=============================================================================
