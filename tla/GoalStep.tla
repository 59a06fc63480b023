------------------------------ MODULE GoalStep ------------------------------
(***************************************************************************)
(* The goal record that the orchestrator keeps in Redis and what one step  *)
(* of the executor does to a copy of it (goal_orchestrator/executor.py,    *)
(* stability.py, budget.py and _try_replan of orchestrator.py).  Operators *)
(* only: GoalEngine says which process applies them, and when.             *)
(*                                                                         *)
(* Pairs of counters the code always changes together are one field:       *)
(* step_count and budget.steps_executed (with max_steps and                *)
(* budget.max_steps, equal from create_goal on), replan_count and          *)
(* budget.replans_used, also the length of stability.replan_timestamps     *)
(* before a replan is recorded.  stability.locked is not a field: nothing  *)
(* in production calls lock_goal.                                          *)
(***************************************************************************)
EXTENDS TaskGraph

CONSTANTS
  MaxSteps,          \* goal.max_steps
  MaxReplans,        \* goal.budget.max_replans
  StormCount,        \* REPLAN_STORM_COUNT
  FailureThreshold,  \* CONSECUTIVE_FAILURES_THRESHOLD
  MaxPlanSteps       \* MAX_PLAN_STEPS

ASSUME LimitsAssumption ==
  /\ MaxSteps \in Nat /\ MaxReplans \in Nat /\ StormCount \in Nat
  /\ FailureThreshold \in Nat \ {0} /\ MaxPlanSteps \in Nat \ {0}

GoalStates == {"absent", "planning", "active", "paused", "completed", "failed"}

Terminal == {"completed", "failed"}

Goal == [state        : GoalStates,
         graph        : Graph,
         steps        : Nat,       \* skill executions started
         replans      : Nat,       \* replans started
         planCalls    : Nat,       \* planner calls charged to the budget
         failures     : Nat,       \* stability.consecutive_failures
         backoff      : BOOLEAN,   \* stability.backoff_until is set
         exceeded     : BOOLEAN,   \* budget.budget_exceeded
         planLocked   : BOOLEAN,
         mode         : Modes,     \* autonomy_mode
         plain        : BOOLEAN]   \* history: no template, or one with a planner's ids

NewGoal(mode) ==
  [state |-> "planning", graph |-> EmptyGraph, steps |-> 0, replans |-> 0,
   planCalls |-> 0, failures |-> 0, backoff |-> FALSE, exceeded |-> FALSE,
   planLocked |-> FALSE, mode |-> mode, plain |-> TRUE]

\* The value of a Redis field that does not exist.
NoGoal == [NewGoal("semi") EXCEPT !.state = "absent"]

-----------------------------------------------------------------------------
(* Ends of a step that change the goal without running a task.             *)

Failed(goal) == [goal EXCEPT !.state = "failed"]
Paused(goal) == [goal EXCEPT !.state = "paused"]

\* The outcomes of a step that got past check_backoff, which forgets a backoff
\* whose time has passed.
Rest(goal, state) == [goal EXCEPT !.backoff = FALSE, !.state = state]

\* Mutant of Stopped: the step limit does not end the goal.
StoppedMutant(goal) ==
  IF goal.exceeded THEN Paused(goal) ELSE Rest(goal, goal.state)

\* A step that finds the budget flag set pauses the goal, one that finds the
\* step or the runtime limit reached fails it.
Stopped(goal) ==
  IF goal.exceeded THEN Paused(goal) ELSE Rest(goal, "failed")

\* Mutant of Rested: nothing left to run counts as completion.
RestedMutant(goal) ==
  Rest(goal, IF HasPermanentlyFailed(goal.graph) THEN "failed" ELSE "completed")

\* A step that finds no executable task.
Rested(goal) ==
  Rest(goal, CASE HasPermanentlyFailed(goal.graph) -> "failed"
               [] IsComplete(goal.graph)           -> "completed"
               [] OTHER                            -> goal.state)

\* Mutant of Blocked: the expired backoff is not forgotten first.
BlockedMutant(goal, t) ==
  [goal EXCEPT !.state = "paused", !.graph = Mark(goal.graph, t, "blocked")]

Blocked(goal, t) ==
  [goal EXCEPT !.backoff = FALSE,
               !.state   = "paused",
               !.graph   = Mark(goal.graph, t, "blocked")]

-----------------------------------------------------------------------------
(* Running a task.                                                         *)

\* Mutant of Started: the step is not counted.
StartedMutant(goal, t) ==
  [goal EXCEPT !.backoff = FALSE, !.graph = Mark(goal.graph, t, "running")]

Started(goal, t) ==
  [goal EXCEPT !.backoff = FALSE,
               !.graph   = Mark(goal.graph, t, "running"),
               !.steps   = goal.steps + 1]

\* apply_backoff_if_needed, after on_task_failure has counted one more.
BacksOff(goal) == goal.failures + 1 >= FailureThreshold

\* The intent gate or the placeholder scan refuses the task: no retry left.
Rejected(goal, t) ==
  [goal EXCEPT !.failures = goal.failures + 1,
               !.backoff  = BacksOff(goal),
               !.graph    = Attempted(goal.graph, t, "failed",
                                      goal.graph[t].maxRetries)]

\* A success also locks the plan (_tick_one, on "task_done").
Succeeded(goal, t) ==
  [goal EXCEPT !.graph      = Mark(goal.graph, t, "done"),
               !.failures   = 0,
               !.planLocked = TRUE]

CanRetry(goal, t) == goal.graph[t].retries + 1 < goal.graph[t].maxRetries

FailedOnce(goal, t) ==
  [goal EXCEPT !.failures = goal.failures + 1,
               !.backoff  = goal.backoff \/ BacksOff(goal),
               !.graph    = Attempted(goal.graph, t,
                                      IF CanRetry(goal, t) THEN "pending"
                                                           ELSE "failed",
                                      goal.graph[t].retries + 1)]

-----------------------------------------------------------------------------
(* Replanning.                                                             *)

\* The clock decides how many of the replans fall in the window: with fewer
\* than StormCount of them there is no storm, with more there may be one.
StormPossible(goal) == goal.replans + 1 >= StormCount

\* Mutant of ReplanSpent: one replan too many.
ReplanSpentMutant(goal) ==
  goal.replans > MaxReplans \/ goal.replans > MaxReplanCount

ReplanSpent(goal) ==
  goal.replans >= MaxReplans \/ goal.replans >= MaxReplanCount

\* Mutant of ReplanRefused: the goal goes on with its failed task.
ReplanRefusedMutant(goal, storm) == goal

\* check_replan raises before the hard cap is looked at, and marks the budget.
ReplanRefused(goal, storm) ==
  [goal EXCEPT !.state    = "failed",
               !.exceeded = goal.exceeded
                              \/ (~storm /\ goal.replans >= MaxReplans)]

\* A locked plan is left alone when no task has failed for good.
ReplanSkipped(goal) == goal.planLocked /\ ~HasPermanentlyFailed(goal.graph)

\* Mutant of ReplanStarted: the replan is not counted before its merge.
ReplanStartedMutant(goal) == goal

ReplanStarted(goal) == [goal EXCEPT !.replans = goal.replans + 1]

\* Mutant of Replanned: the new plan replaces the old graph.
ReplannedMutant(goal, plan) ==
  [goal EXCEPT !.graph = plan, !.planCalls = goal.planCalls + 1]

Replanned(goal, plan) ==
  [goal EXCEPT !.graph     = MergeReplan(goal.graph, goal.replans, plan),
               !.planCalls = goal.planCalls + 1]

\* The planner gave up; its tokens are charged all the same.
PlanningFailed(goal) ==
  [goal EXCEPT !.state = "failed", !.planCalls = goal.planCalls + 1]

-----------------------------------------------------------------------------
(* The end of create_goal.                                                 *)

\* The planner gives ids of generation 0; save_template also keeps the ids that
\* replans have made.
PlainIds(gr) == \A i \in Ids(gr) : i[1] = 0

\* From a template: no planner call, no validation, no truncation.
FromTemplate(goal, gr) ==
  [goal EXCEPT !.state = "active", !.graph = gr, !.plain = PlainIds(gr)]

Planned(goal, plan) ==
  [goal EXCEPT !.state     = "active",
               !.graph     = Truncate(plan, MaxPlanSteps),
               !.planCalls = goal.planCalls + 1]

=============================================================================
