------------------------------ MODULE TaskGraph ------------------------------
(***************************************************************************)
(* The plan of a goal: goal_orchestrator/types.py, class TaskGraph, with   *)
(* the autonomy matrix of autonomy.py.  No variables: these are operators  *)
(* on graphs, used by GoalStep and driven through plans by PlanHistory.    *)
(*                                                                         *)
(* A graph is a total function from TaskId to nodes; an id the plan does   *)
(* not use maps to AbsentNode.  The code keeps the nodes in a list, whose  *)
(* order matters only to get_next_task; pos is the place of a node in the  *)
(* plan that introduced it (only nodes of the latest plan can be pending). *)
(*                                                                         *)
(* A task id is a pair <<generation, name>>: the planner emits generation  *)
(* 0; _try_replan renames a colliding id "x" to "r<n>_x", here <<n, x>>.   *)
(***************************************************************************)
EXTENDS Integers, FiniteSets

CONSTANTS
  Names,            \* the ids a planner may give to tasks
  MaxReplanCount    \* hard cap on the replans of a goal (5 in the code)

ASSUME ReplanCapAssumption == MaxReplanCount \in Nat

\* A planner's answer is a finite list, and so are the answers of one goal.
ASSUME NamesAssumption == IsFiniteSet(Names)

TaskId == (0 .. MaxReplanCount) \X Names

Statuses == {"absent", "pending", "running", "done", "failed", "blocked"}
Risks    == {"low", "medium", "high", "critical"}
Modes    == {"assist", "semi", "full"}

\* What the gates before execution say of a task: its capability is outside
\* the agent's sandbox ("denied"), or the intent gate or the placeholder scan
\* refuses its arguments ("rejected").
Faults   == {"none", "denied", "rejected"}

Node == [status     : Statuses,
         deps       : SUBSET TaskId,
         retries    : Nat,
         maxRetries : Nat,
         pos        : Nat,
         risk       : Risks,
         dangerous  : BOOLEAN,   \* the skill is in _MINIMUM_HIGH_RISK_SKILLS
         fault      : Faults]

Graph == [TaskId -> Node]

AbsentNode == [status |-> "absent", deps |-> {}, retries |-> 0,
               maxRetries |-> 0, pos |-> 0, risk |-> "low",
               dangerous |-> FALSE, fault |-> "none"]

EmptyGraph == [i \in TaskId |-> AbsentNode]

-----------------------------------------------------------------------------
(* Queries of class TaskGraph.                                             *)

Ids(gr) == {i \in TaskId : gr[i].status # "absent"}

WithStatus(gr, s) == {i \in TaskId : gr[i].status = s}

DoneIds(gr) == WithStatus(gr, "done")

\* Mutant of Executable: a task waits only for the tasks still pending.
ExecutableMutant(gr) ==
  {i \in WithStatus(gr, "pending") :
     gr[i].deps \cap WithStatus(gr, "pending") = {}}

Executable(gr) ==
  {i \in WithStatus(gr, "pending") : gr[i].deps \subseteq DoneIds(gr)}

\* The head of get_executable_tasks, a set that is empty or a singleton when
\* positions are distinct.
NextTask(gr) ==
  {i \in Executable(gr) : \A j \in Executable(gr) : gr[i].pos <= gr[j].pos}

IsComplete(gr) == Ids(gr) # {} /\ Ids(gr) = DoneIds(gr)

HasPermanentlyFailed(gr) ==
  \E i \in WithStatus(gr, "failed") : gr[i].retries >= gr[i].maxRetries

\* The ids Kahn's algorithm has popped after n rounds of emptying its queue.
Popped(gr) ==
  LET round[n \in Nat] ==
        IF n = 0 THEN {}
        ELSE {i \in Ids(gr) : gr[i].deps \subseteq round[n - 1]}
  IN  round[Cardinality(Ids(gr))]

\* Mutant of ValidDag: unknown dependencies are caught, cycles are not.
ValidDagMutant(gr) == \A i \in Ids(gr) : gr[i].deps \subseteq Ids(gr)

ValidDag(gr) ==
  /\ \A i \in Ids(gr) : gr[i].deps \subseteq Ids(gr)
  /\ Popped(gr) = Ids(gr)

-----------------------------------------------------------------------------
(* The autonomy matrix.                                                    *)

EffectiveRisk(node) ==
  IF node.dangerous /\ node.risk \in {"low", "medium"} THEN "high" ELSE node.risk

NeedsConfirmation(node, mode) ==
  \/ EffectiveRisk(node) = "critical"
  \/ mode = "assist"
  \/ mode = "semi" /\ EffectiveRisk(node) = "high"

-----------------------------------------------------------------------------
(* What the executor and the orchestrator do to graphs.                    *)

Mark(gr, t, status) == [gr EXCEPT ![t] = [@ EXCEPT !.status = status]]

\* A failed attempt is counted with its outcome.
Attempted(gr, t, status, n) ==
  [gr EXCEPT ![t] = [@ EXCEPT !.status = status, !.retries = n]]

\* create_goal keeps the first n nodes of a plan, whatever they depend on.
Truncate(gr, n) ==
  [i \in TaskId |-> IF gr[i].pos <= n THEN gr[i] ELSE AbsentNode]

\* resume_goal gives blocked tasks back to the executor.
Unblock(gr) ==
  [i \in TaskId |-> IF gr[i].status = "blocked"
                    THEN [gr[i] EXCEPT !.status = "pending"]
                    ELSE gr[i]]

\* The id that task i of a new plan gets in the n-th replan of old.
Renamed(old, n, i) == IF i \in DoneIds(old) THEN <<n, i[2]>> ELSE i

\* Mutant of Relabelled: the tasks are renamed, their dependencies are not.
RelabelledMutant(old, n, plan) ==
  [j \in TaskId |->
     LET i == <<0, j[2]>> IN
     IF i \in Ids(plan) /\ Renamed(old, n, i) = j THEN plan[i] ELSE AbsentNode]

\* Mutant of Relabelled: every collision renames a task, only those with a
\* finished task rename its occurrences as a dependency.
RelabelledMutant2(old, n, plan) ==
  [j \in TaskId |->
     LET i == <<0, j[2]>>
         new == IF i \in Ids(old) THEN <<n, i[2]>> ELSE i
     IN
     IF i \in Ids(plan) /\ new = j
     THEN [plan[i] EXCEPT !.deps = {Renamed(old, n, d) : d \in plan[i].deps}]
     ELSE AbsentNode]

\* The tasks of the new plan under their final ids, without the old ones.
Relabelled(old, n, plan) ==
  [j \in TaskId |->
     LET i == <<0, j[2]>> IN
     IF i \in Ids(plan) /\ Renamed(old, n, i) = j
     THEN [plan[i] EXCEPT !.deps = {Renamed(old, n, d) : d \in plan[i].deps}]
     ELSE AbsentNode]

\* DONE tasks of the old graph followed by the new plan.
Merged(old, n, plan) ==
  [j \in TaskId |-> IF j \in DoneIds(old)
                    THEN old[j]
                    ELSE Relabelled(old, n, plan)[j]]

\* No id of the new plan is also one of a finished task: validate_dag counts the
\* nodes of the list, so that a list with an id twice is no dag.
Distinct(old, n, plan) == Ids(Relabelled(old, n, plan)) \cap DoneIds(old) = {}

\* The merge of _try_replan, with its fallback to the new plan alone.
MergeReplan(old, n, plan) ==
  IF Distinct(old, n, plan) /\ ValidDag(Merged(old, n, plan))
  THEN Merged(old, n, plan)
  ELSE Relabelled(old, n, plan)

-----------------------------------------------------------------------------
(* What the code's own validation and merge are measured by.               *)

\* The dependencies of all tasks exist.
Closed(gr) == \A i \in Ids(gr) : gr[i].deps \subseteq Ids(gr)

\* Every task of S waits for a task of S.
Stuck(gr, S) == S # {} /\ \A i \in S : gr[i].deps \cap S # {}

\* No task among T waits for itself, directly or through others of T.
Acyclic(gr, T) == \A S \in SUBSET T : ~ Stuck(gr, S)

\* What _try_replan needs to know of the finished tasks of a goal in its n-th
\* replan: they are of earlier generations, and they waited for each other only
\* and not in a circle.
Mergeable(old, n) ==
  /\ \A i \in DoneIds(old) : i[1] < n /\ old[i].deps \subseteq DoneIds(old)
  /\ Acyclic(old, DoneIds(old))

=============================================================================
