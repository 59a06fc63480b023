--------------------------- MODULE GoalProperties ---------------------------
(***************************************************************************)
(* What the Goal Engine promises of the records it keeps.                  *)
(***************************************************************************)
EXTENDS GoalEngine

\* The graphs, counters and copies have the shapes pydantic gives them.
TickState ==
  [pc   : {"idle", "load", "execute", "replan", "plan", "save"},
   goal : Goal, task : TaskId \cup {NoTask}, n : 0 .. StepsPerTick - 1]

MakerState == [pc : {"unborn", "planning", "done"}, goal : Goal]

CommandState ==
  [pc : {"idle", "save", "hdel"}, kind : CommandKinds \cup {"none"},
   id : Goals \cup {"none"}, goal : Goal]

TypeOK ==
  /\ store   \in [Goals -> Goal]
  /\ late    \in [Goals -> BOOLEAN]
  /\ maker   \in [Goals -> MakerState]
  /\ ticking \in [Drivers -> BOOLEAN]
  /\ tick    \in [Drivers -> [Goals -> TickState]]
  /\ command \in [Operators -> CommandState]
  /\ issued  \in 0 .. MaxCommands
  /\ faults  \in 0 .. MaxFaults
  /\ runs    \in [Goals -> Nat]

-----------------------------------------------------------------------------
(* Safety of single records.  They hold in every copy, so they survive any *)
(* interleaving of blind writes.                                           *)

Touched(node) ==
  \/ node.status \in {"running", "done", "failed", "blocked"}
  \/ node.status = "pending" /\ node.retries > 0

\* A task is run, refused or put to the user only after every task it depends
\* on is DONE, and these stay DONE through replans (get_executable_tasks, and
\* the merge of _try_replan).
DependenciesFirst(goal) ==
  \A i \in TaskId :
    Touched(goal.graph[i]) => goal.graph[i].deps \subseteq DoneIds(goal.graph)

\* A goal is COMPLETED only with all its tasks DONE.
CompletedMeansDone(goal) == goal.state = "completed" => IsComplete(goal.graph)

\* A task that failed for good never stays in a goal that goes on: either a
\* replan has replaced it or the goal has failed (_tick_one saves only after
\* _try_replan).  No task is left RUNNING by a write.
NoDeadTask(goal) ==
  /\ WithStatus(goal.graph, "running") = {}
  /\ goal.state # "failed" => WithStatus(goal.graph, "failed") = {}

\* A blocked task is one that waits for the user: the goal is paused (or was
\* cancelled), no other task is blocked with it, and no backoff is pending that
\* would let AgentRuntime reactivate the goal behind the user's back.
BlockedWaits(goal) ==
  \A i \in WithStatus(goal.graph, "blocked") :
    /\ goal.state \in {"paused", "failed"}
    /\ WithStatus(goal.graph, "blocked") = {i}
    /\ goal.state = "paused" => ~goal.backoff

\* The limits of the goal hold: steps, replans, and the budget flag, which only
\* a failed goal carries, so that no resume can ever clear it.
LimitsHold(goal) ==
  /\ goal.steps <= MaxSteps
  /\ goal.replans <= MaxReplans
  /\ goal.replans <= MaxReplanCount
  /\ goal.exceeded => goal.state = "failed"

\* The invariants, over what Redis holds.
StoredDependenciesFirst  == \A g \in Goals : DependenciesFirst(store[g])
StoredCompletedMeansDone == \A g \in Goals : CompletedMeansDone(store[g])
StoredNoDeadTask         == \A g \in Goals : NoDeadTask(store[g])
StoredBlockedWaits       == \A g \in Goals : BlockedWaits(store[g])
StoredLimitsHold         == \A g \in Goals : LimitsHold(store[g])

Sound(goal) ==
  /\ DependenciesFirst(goal)
  /\ CompletedMeansDone(goal)
  /\ NoDeadTask(goal)
  /\ BlockedWaits(goal)
  /\ LimitsHold(goal)

\* All of the above at once.
StoredGoalsSound == \A g \in Goals : Sound(store[g])

-----------------------------------------------------------------------------
(* Why they hold: blind writes are harmless to them because every copy on  *)
(* its way to Redis is sound by the time it is written.  A copy in the     *)
(* middle of a step is not; what it is depends on where the step is.       *)

Going(goal) ==
  /\ goal.state = "active"
  /\ WithStatus(goal.graph, "blocked") = {}
  /\ DependenciesFirst(goal)
  /\ LimitsHold(goal)

\* t is with its skill, and nothing is wrong with the other tasks.
Executing(goal, t) ==
  /\ Going(goal)
  /\ WithStatus(goal.graph, "running") = {t}
  /\ WithStatus(goal.graph, "failed") = {}

\* A task has failed, for good, and has not been replaced yet.
Replanning(goal) ==
  /\ Going(goal)
  /\ WithStatus(goal.graph, "running") = {}
  /\ \A i \in WithStatus(goal.graph, "failed") :
       goal.graph[i].retries >= goal.graph[i].maxRetries

SoundTick(here) ==
  /\ here.pc = "execute" => Executing(here.goal, here.task)
  /\ here.pc \in {"replan", "plan"} => Replanning(here.goal)
  /\ here.pc = "save" => Sound(here.goal)

SoundMaker(m) ==
  m.pc = "planning" => m.goal.state = "planning" /\ Sound(m.goal)

\* The inductive invariant behind StoredGoalsSound.
CopiesSound ==
  /\ StoredGoalsSound
  /\ \A g \in Goals : SoundMaker(maker[g])
  /\ \A w \in Drivers, g \in Goals : SoundTick(tick[w][g])
  /\ \A u \in Operators : command[u].pc = "save" => Sound(command[u].goal)

-----------------------------------------------------------------------------
(* Why a replan can keep what is finished: the n-th replan of a goal finds *)
(* tasks of earlier generations only, so the ids it makes up are new.  Not *)
(* so of a goal from a template that holds ids of earlier replans.         *)

Dated(goal, n) ==
  goal.plain => /\ n > 0
                /\ \A i \in Ids(goal.graph) : i[1] < n
                /\ Mergeable(goal.graph, n)

\* The replan to come is the next one.
Settled(goal) == Dated(goal, goal.replans + 1)

\* A step that awaits the planner has counted it already.
DatedTick(here) ==
  IF here.pc = "plan" THEN Dated(here.goal, here.goal.replans) ELSE Settled(here.goal)

\* In every copy of a goal with plain ids, whatever writes and ticks came
\* between, the next replan can merge a new plan with the finished tasks
\* (_try_replan).
CopiesDated ==
  /\ \A g \in Goals : Settled(store[g]) /\ Settled(maker[g].goal)
  /\ \A w \in Drivers, g \in Goals : DatedTick(tick[w][g])
  /\ \A u \in Operators : Settled(command[u].goal)

\* Whatever is written next, and by whom: it is sound, and if its ids are plain
\* its next replan finds ids that are new.
CopiesInOrder == CopiesSound /\ CopiesDated

-----------------------------------------------------------------------------
(* Properties of the undisturbed engine: one driver, and no command but    *)
(* resume, which needs a goal that no tick is stepping.  Restarts and      *)
(* raised exceptions are allowed.                                          *)

\* The processes that hold a copy of g they will write back.
Writers(g) ==
  {w \in Drivers : tick[w][g].pc \notin {"idle", "load"}}
    \cup {u \in Operators : command[u].id = g}
    \cup (IF maker[g].pc = "planning" THEN {g} ELSE {})

\* Nobody else can write a goal while a copy of it is out: what makes blind
\* write-back safe, and what an operator's pause or a second driver breaks.
OneWriter == \A g \in Goals : Cardinality(Writers(g)) <= 1

\* A finished task is never forgotten, by a replan, a restart or a late write,
\* unless the goal has its ids from a template of a replanned goal (see
\* FinishedWorkKept below).
DoneStaysDone ==
  [][\A g \in Goals :
       store[g].plain /\ store'[g].state # "absent"
         => DoneIds(store[g].graph) \subseteq DoneIds(store'[g].graph)]_vars

\* The skills run for a goal are bounded by its step limit; a restart or an
\* exception repeats at most one of them.
ExecutionsBounded == \A g \in Goals : runs[g] <= MaxSteps + faults

\* The lifecycle a goal shows: a goal pruned from Redis is not one that has yet
\* to be made.
PhaseOf ==
  [g \in Goals |-> IF store[g].state = "absent" /\ maker[g].pc = "done"
                   THEN "gone"
                   ELSE store[g].state]

DoneOf == [g \in Goals |-> DoneIds(store[g].graph)]

\* The goals whose finished tasks a replan may drop.
LooseOnes == {g \in Goals : ~store[g].plain}

L == INSTANCE GoalLifecycle
       WITH Tasks <- TaskId, phase <- PhaseOf, done <- DoneOf, loose <- LooseOnes

\* The undisturbed engine implements GoalLifecycle.
Lifecycle == L!Spec

-----------------------------------------------------------------------------
(* Statements of the repository that the code does not keep.               *)

\* dashboard/routes/goals.py:438 and 451: the delete route cancels the goal first "so
\* the runtime stops ticking it", then hard-deletes it "regardless of state".
DeletedStaysDeleted ==
  [][\A g \in Goals :
       maker[g].pc = "done" /\ store[g].state = "absent"
         => store'[g].state = "absent"]_vars

\* types.py:220: "One task per tick (enforced by scheduler)": no goal has two
\* tasks, or one task twice, in execution.
OneTaskAtATime ==
  \A g \in Goals :
    Cardinality({w \in Drivers : tick[w][g].pc = "execute"}) <= 1

\* orchestrator.py:344: the nodes kept by the truncation of a plan are closed
\* under dependencies ("topological order preserved by planner").
NoDanglingDependency ==
  \A g \in Goals : \A i \in Ids(store[g].graph) :
    store[g].graph[i].deps \subseteq Ids(store[g].graph)

\* orchestrator.py:766: "Merge: keep DONE nodes; replace rest with new nodes".
\* Of every goal, that is: the rename of a template's t1 gives its r1_t1 again,
\* the merge is no dag, and the new plan alone takes its place.
FinishedWorkKept ==
  [][\A g \in Goals :
       store'[g].state # "absent"
         => DoneIds(store[g].graph) \subseteq DoneIds(store'[g].graph)]_vars

\* orchestrator.py:4: "tracks and limits planning tokens".  With a budget worth
\* one planner call, a goal is charged for no more than one.
PlanningWithinBudget == \A g \in Goals : store[g].planCalls <= 1

=============================================================================
