-------------------------- MODULE GoalEngineProofs --------------------------
(***************************************************************************)
(* Proofs about GoalEngine: every copy of a goal on its way to Redis is    *)
(* sound by the time it is written (CopiesSound), for any number of goals, *)
(* drivers and operators, any plans and any limits.                        *)
(*                                                                         *)
(* First the operators on nodes and graphs, then the ones on goals, then   *)
(* the actions; next, that every copy is ready for its next replan         *)
(* (CopiesDated); last, what holds of the engine that nothing disturbs, up *)
(* to the refinement of GoalLifecycle.                                     *)
(***************************************************************************)
EXTENDS GoalProperties, TaskGraphProofs, FiniteSetTheorems, TLAPS

-----------------------------------------------------------------------------
(* Nodes and graphs.                                                       *)

\* A new status and a new number of retries leave a node a node.
LEMMA NodeUpdates ==
  ASSUME NEW n \in Node, NEW s \in Statuses, NEW r \in Nat
  PROVE  /\ [n EXCEPT !.status = s] \in Node
         /\ [n EXCEPT !.status = s, !.retries = r] \in Node
  BY DEF Node

\* Replacing a task leaves a graph a graph.
LEMMA GraphUpdates ==
  ASSUME NEW gr \in Graph, NEW t \in TaskId, NEW n \in Node
  PROVE  [gr EXCEPT ![t] = n] \in Graph
  BY DEF Graph

\* Setting the status of a task, or counting an attempt, leaves a graph a graph.
LEMMA Marks ==
  ASSUME NEW gr \in Graph, NEW t \in TaskId, NEW s \in Statuses, NEW r \in Nat
  PROVE  /\ Mark(gr, t, s) \in Graph
         /\ Attempted(gr, t, s, r) \in Graph
<1>1. gr[t] \in Node BY DEF Graph
<1> QED BY <1>1, NodeUpdates, GraphUpdates DEF Mark, Attempted

\* Nothing but task t changes, and of it neither the dependencies nor the limit
\* of its retries; its new status is status.
Changed(old, new, t, status) ==
  /\ new \in Graph
  /\ new[t].status = status
  /\ new[t].deps = old[t].deps
  /\ new[t].maxRetries = old[t].maxRetries
  /\ \A i \in TaskId : i # t => new[i] = old[i]

\* Setting a status or counting an attempt changes nothing else.
LEMMA MarksChange ==
  ASSUME NEW gr \in Graph, NEW t \in TaskId, NEW s \in Statuses, NEW r \in Nat
  PROVE  /\ Changed(gr, Mark(gr, t, s), t, s)
         /\ Changed(gr, Attempted(gr, t, s, r), t, s)
         /\ Attempted(gr, t, s, r)[t].retries = r
<1>1. gr[t] \in Node BY DEF Graph
<1>2. Mark(gr, t, s) \in Graph /\ Attempted(gr, t, s, r) \in Graph BY Marks
<1>3. Changed(gr, Mark(gr, t, s), t, s)
      BY <1>1, <1>2 DEF Changed, Mark, Graph, Node
<1>4. Changed(gr, Attempted(gr, t, s, r), t, s)
      BY <1>1, <1>2 DEF Changed, Attempted, Graph, Node
<1>5. Attempted(gr, t, s, r)[t].retries = r
      BY <1>1, <1>2 DEF Attempted, Graph, Node
<1> QED BY <1>3, <1>4, <1>5

\* Dependencies are respected by a graph.
Ordered(gr) ==
  \A i \in TaskId : Touched(gr[i]) => gr[i].deps \subseteq DoneIds(gr)

\* The order of the dependencies is a fact about the graph of a goal only.
LEMMA OrderedGoals ==
  ASSUME NEW goal
  PROVE  DependenciesFirst(goal) <=> Ordered(goal.graph)
  BY DEF DependenciesFirst, Ordered

\* A task all of whose dependencies are done may change, unless it was done
\* and others may rely on it.
LEMMA ChangeKeepsOrder ==
  ASSUME NEW gr \in Graph, NEW t \in TaskId, NEW s, NEW new, Changed(gr, new, t, s),
         Ordered(gr), gr[t].deps \subseteq DoneIds(gr), gr[t].status # "done"
  PROVE  Ordered(new)
<1>1. DoneIds(gr) \subseteq DoneIds(new) BY DEF Changed, DoneIds, WithStatus
<1> QED BY <1>1 DEF Changed, Ordered

\* Which tasks have which status after a change.
LEMMA ChangedStatus ==
  ASSUME NEW gr \in Graph, NEW t \in TaskId, NEW s, NEW new, Changed(gr, new, t, s)
  PROVE  /\ WithStatus(new, s) = WithStatus(gr, s) \cup {t}
         /\ \A x : x # s => WithStatus(new, x) = WithStatus(gr, x) \ {t}
  BY DEF Changed, WithStatus

\* resume_goal only gives back blocked tasks.
LEMMA Unblocks ==
  ASSUME NEW gr \in Graph, Ordered(gr)
  PROVE  /\ Unblock(gr) \in Graph
         /\ Ordered(Unblock(gr))
         /\ WithStatus(Unblock(gr), "blocked") = {}
         /\ \A x : x \notin {"blocked", "pending"} =>
              WithStatus(Unblock(gr), x) = WithStatus(gr, x)
<1>1. \A i \in TaskId : [gr[i] EXCEPT !.status = "pending"] \in Node
      BY NodeUpdates DEF Graph, Statuses
<1>2. Unblock(gr) \in Graph BY <1>1 DEF Unblock, Graph
<1>3. \A i \in TaskId :
        /\ gr[i].status = "blocked"
             => /\ Unblock(gr)[i].status = "pending"
                /\ Unblock(gr)[i].deps = gr[i].deps
        /\ gr[i].status # "blocked" => Unblock(gr)[i] = gr[i]
      BY DEF Unblock, Graph, Node
<1>4. \A x : x \notin {"blocked", "pending"} =>
        WithStatus(Unblock(gr), x) = WithStatus(gr, x)
      BY <1>3 DEF WithStatus
<1>5. WithStatus(Unblock(gr), "blocked") = {} BY <1>3 DEF WithStatus
<1>6. DoneIds(Unblock(gr)) = DoneIds(gr) BY <1>4 DEF DoneIds
<1>7. Ordered(Unblock(gr)) BY <1>3, <1>6 DEF Ordered, Touched
<1> QED BY <1>2, <1>4, <1>5, <1>7

\* A graph none of whose tasks has been touched.
Untouched(gr) ==
  \A i \in TaskId : gr[i].status \in {"absent", "pending"} /\ gr[i].retries = 0

\* A plan nobody has worked on respects its dependencies.
LEMMA UntouchedGraphs ==
  ASSUME NEW gr, Untouched(gr)
  PROVE  /\ Ordered(gr)
         /\ \A x : x \notin {"absent", "pending"} => WithStatus(gr, x) = {}
  BY DEF Untouched, Ordered, Touched, WithStatus

\* Every plan the planner can answer is one nobody has worked on.
LEMMA FreshPlans ==
  ASSUME NEW plan \in Plans
  PROVE  plan \in Graph /\ Untouched(plan)
  BY PlansAssumption DEF FreshPlan, Untouched, AbsentNode

\* ... and so is every template.
LEMMA Blueprints ==
  ASSUME NEW gr \in Templates
  PROVE  gr \in Graph /\ Untouched(gr)
  BY TemplatesAssumption DEF Blueprint, Untouched, AbsentNode

\* Cutting a plan at the limit of steps leaves a plan nobody has worked on.
LEMMA Truncated ==
  ASSUME NEW gr \in Graph, Untouched(gr), NEW n \in Nat
  PROVE  Truncate(gr, n) \in Graph /\ Untouched(Truncate(gr, n))
  BY EmptyGraphs DEF Truncate, Graph, Untouched, AbsentNode

\* The tasks of a new plan are fresh under their final ids.
LEMMA Relabels ==
  ASSUME NEW old \in Graph, NEW n \in 0 .. MaxReplanCount,
         NEW plan \in Graph, Untouched(plan)
  PROVE  Relabelled(old, n, plan) \in Graph /\ Untouched(Relabelled(old, n, plan))
<1>1. \A i \in TaskId : Renamed(old, n, i) \in TaskId
      BY ReplanCapAssumption DEF Renamed, TaskId
<1>2. \A i \in TaskId :
        [plan[i] EXCEPT !.deps = {Renamed(old, n, d) : d \in plan[i].deps}] \in Node
      BY <1>1 DEF Graph, Node
<1>3. \A j \in TaskId : <<0, j[2]>> \in TaskId
      BY ReplanCapAssumption DEF TaskId
<1> DEFINE new(j) == [plan[<<0, j[2]>>] EXCEPT !.deps =
                        {Renamed(old, n, d) : d \in plan[<<0, j[2]>>].deps}]
<1>4. \A j \in TaskId : Relabelled(old, n, plan)[j] \in {new(j), AbsentNode}
      BY DEF Relabelled
<1>5. \A j \in TaskId : new(j).status = plan[<<0, j[2]>>].status
                       /\ new(j).retries = plan[<<0, j[2]>>].retries
      BY <1>3 DEF Graph, Node
<1>6. \A j \in TaskId : new(j) \in Node BY <1>2, <1>3
<1> HIDE DEF new
<1>7. \A j \in TaskId : Relabelled(old, n, plan)[j] \in Node
      BY <1>4, <1>6, EmptyGraphs
<1>8. Relabelled(old, n, plan) \in Graph BY <1>7 DEF Relabelled, Graph
<1>9. ASSUME NEW j \in TaskId
      PROVE  /\ Relabelled(old, n, plan)[j].status \in {"absent", "pending"}
             /\ Relabelled(old, n, plan)[j].retries = 0
  <2>1. CASE Relabelled(old, n, plan)[j] = new(j)
        BY <1>3, <1>5, <2>1 DEF Untouched
  <2>2. CASE Relabelled(old, n, plan)[j] = AbsentNode BY <2>2 DEF AbsentNode
  <2> QED BY <1>4, <2>1, <2>2
<1> QED BY <1>8, <1>9 DEF Untouched

\* A replan keeps the order, and leaves no task running, failed or blocked.
LEMMA Merges ==
  ASSUME NEW old \in Graph, Ordered(old), NEW n \in 0 .. MaxReplanCount,
         NEW plan \in Graph, Untouched(plan)
  PROVE  /\ MergeReplan(old, n, plan) \in Graph
         /\ Ordered(MergeReplan(old, n, plan))
         /\ \A x \in {"running", "failed", "blocked"} :
              WithStatus(MergeReplan(old, n, plan), x) = {}
<1> DEFINE new == Relabelled(old, n, plan)
           both == Merged(old, n, plan)
<1>1. new \in Graph /\ Untouched(new) BY Relabels
<1> HIDE DEF new
<1>2. both \in Graph BY <1>1 DEF Merged, Graph, new
<1>3. \A j \in TaskId : both[j] = IF j \in DoneIds(old) THEN old[j] ELSE new[j]
      BY DEF Merged, new
<1>4. DoneIds(old) \subseteq DoneIds(both) BY <1>3 DEF DoneIds, WithStatus
<1>5. \A x \in {"running", "failed", "blocked"} : WithStatus(both, x) = {}
      BY <1>1, <1>3 DEF WithStatus, DoneIds, Untouched
<1>6. ASSUME NEW j \in TaskId, Touched(both[j])
      PROVE  both[j].deps \subseteq DoneIds(both)
  <2>1. j \in DoneIds(old) BY <1>1, <1>3, <1>6 DEF Touched, Untouched
  <2>2. both[j] = old[j] /\ Touched(old[j]) BY <1>3, <1>6, <2>1
  <2> QED BY <1>4, <2>2 DEF Ordered
<1>7. Ordered(both) BY <1>6 DEF Ordered
<1>8. MergeReplan(old, n, plan) \in {both, new} BY DEF MergeReplan, new
<1> HIDE DEF both
<1> QED BY <1>1, <1>2, <1>5, <1>7, <1>8, UntouchedGraphs

-----------------------------------------------------------------------------
(* Goals: what each operator of GoalStep does to a sound copy.             *)

\* The goal of create_goal, and the missing goal, are sound.
LEMMA FirstGoals ==
  /\ \A mode \in Modes : /\ NewGoal(mode) \in Goal
                          /\ NewGoal(mode).state = "planning"
                          /\ Sound(NewGoal(mode))
  /\ NoGoal \in Goal
  /\ Sound(NoGoal)
<1>1. \A mode \in Modes : NewGoal(mode) \in Goal
      BY EmptyGraphs DEF NewGoal, Goal, GoalStates
<1>2. NoGoal \in Goal BY EmptyGraphs DEF NoGoal, NewGoal, Goal, GoalStates, Modes
<1>3. Untouched(EmptyGraph) BY DEF Untouched, EmptyGraph, AbsentNode
<1>4. ASSUME NEW goal, goal.graph = EmptyGraph, goal.state \in {"absent", "planning"},
             goal.steps = 0, goal.replans = 0, goal.exceeded = FALSE
      PROVE  Sound(goal)
  <2>1. \A x \in {"running", "failed", "blocked"} : WithStatus(goal.graph, x) = {}
        BY <1>3, <1>4, UntouchedGraphs
  <2>2. DependenciesFirst(goal) BY <1>3, <1>4, UntouchedGraphs, OrderedGoals
  <2> QED BY <1>4, <2>1, <2>2, LimitsAssumption, ReplanCapAssumption
          DEF Sound, CompletedMeansDone, NoDeadTask, BlockedWaits, LimitsHold
<1> QED BY <1>1, <1>2, <1>4 DEF NewGoal, NoGoal

\* A sound goal that goes on has nothing running, failed or blocked.
LEMMA SoundActive ==
  ASSUME NEW goal \in Goal, Sound(goal), goal.state = "active"
  PROVE  /\ Replanning(goal)
         /\ WithStatus(goal.graph, "failed") = {}
         /\ ~goal.exceeded
  BY DEF Sound, NoDeadTask, BlockedWaits, LimitsHold, Replanning, Going, Goal

\* ... and the converse.
LEMMA ActiveSound ==
  ASSUME NEW goal \in Goal, Going(goal), WithStatus(goal.graph, "running") = {},
         WithStatus(goal.graph, "failed") = {}
  PROVE  Sound(goal)
  BY DEF Sound, CompletedMeansDone, NoDeadTask, BlockedWaits, Going

\* A goal that fails is sound as soon as no task is running.
LEMMA FailedSound ==
  ASSUME NEW goal \in Goal, Ordered(goal.graph), goal.state = "failed",
         WithStatus(goal.graph, "running") = {},
         WithStatus(goal.graph, "blocked") = {}, LimitsHold(goal)
  PROVE  Sound(goal)
  BY OrderedGoals
     DEF Sound, CompletedMeansDone, NoDeadTask, BlockedWaits

\* A task chosen for the next step is pending, its dependencies done.
LEMMA NextTasks ==
  ASSUME NEW gr, NEW t \in NextTask(gr)
  PROVE  /\ t \in TaskId
         /\ gr[t].status = "pending"
         /\ gr[t].deps \subseteq DoneIds(gr)
  BY DEF NextTask, Executable, WithStatus

\* Coming to rest changes the state of a goal and nothing the limits are about.
LEMMA RestTypes ==
  ASSUME NEW goal \in Goal, NEW s \in GoalStates
  PROVE  /\ Rest(goal, s) \in Goal
         /\ Rest(goal, s).state = s
         /\ Rest(goal, s).graph = goal.graph
         /\ (LimitsHold(goal) /\ ~goal.exceeded) => LimitsHold(Rest(goal, s))
  BY DEF Rest, Goal, LimitsHold

\* A goal stopped at its limits is sound.
LEMMA StoppedSound ==
  ASSUME NEW goal \in Goal, Sound(goal), goal.state = "active"
  PROVE  Stopped(goal) \in Goal /\ Sound(Stopped(goal))
<1>1. Stopped(goal) = Rest(goal, "failed") BY SoundActive DEF Stopped
<1>2. Ordered(goal.graph) BY OrderedGoals DEF Sound
<1> QED BY <1>1, <1>2, SoundActive, RestTypes, FailedSound
        DEF GoalStates, Replanning, Going

\* A goal with nothing to execute comes to rest in a sound state.
LEMMA RestedSound ==
  ASSUME NEW goal \in Goal, Sound(goal), goal.state = "active"
  PROVE  Rested(goal) \in Goal /\ Sound(Rested(goal))
<1>1. ~HasPermanentlyFailed(goal.graph)
      BY SoundActive DEF HasPermanentlyFailed
<1>2. ASSUME NEW t \in {"active", "completed"}, t = "completed" => IsComplete(goal.graph)
      PROVE  Rest(goal, t) \in Goal /\ Sound(Rest(goal, t))
  <2> DEFINE r == Rest(goal, t)
  <2>a. ~goal.exceeded /\ LimitsHold(goal)
        BY SoundActive DEF Sound
  <2>b. t \in GoalStates BY DEF GoalStates
  <2>1. /\ r \in Goal /\ r.state = t /\ r.graph = goal.graph
        /\ LimitsHold(r)
        BY <2>a, <2>b, RestTypes
  <2> HIDE DEF r
  <2>2. DependenciesFirst(r) BY <2>1, OrderedGoals DEF Sound
  <2>3. CompletedMeansDone(r) BY <1>2, <2>1 DEF CompletedMeansDone
  <2>4. NoDeadTask(r) /\ BlockedWaits(r)
        BY <2>1, SoundActive DEF NoDeadTask, BlockedWaits, Replanning, Going
  <2>5. Sound(r) BY <2>1, <2>2, <2>3, <2>4 DEF Sound
  <2> QED BY <2>1, <2>5 DEF r
<1>3. \/ Rested(goal) = Rest(goal, "active")
      \/ IsComplete(goal.graph) /\ Rested(goal) = Rest(goal, "completed")
      BY <1>1 DEF Rested
<1> QED BY <1>2, <1>3

\* The next task of a sound goal is started, put to the user or refused.
LEMMA NextChanged ==
  ASSUME NEW goal \in Goal, Sound(goal), goal.state = "active",
         NEW t \in NextTask(goal.graph), NEW s \in {"running", "failed", "blocked"},
         NEW new, Changed(goal.graph, new, t, s)
  PROVE  /\ new \in Graph
         /\ Ordered(new)
         /\ WithStatus(new, s) = {t}
         /\ \A x \in {"running", "failed", "blocked"} \ {s} : WithStatus(new, x) = {}
         /\ LimitsHold(goal) /\ ~goal.exceeded
<1> DEFINE gr == goal.graph
<1>1. gr \in Graph /\ t \in TaskId BY NextTasks DEF Goal
<1>2. /\ new \in Graph
      /\ WithStatus(new, s) = WithStatus(gr, s) \cup {t}
      /\ \A x : x # s => WithStatus(new, x) = WithStatus(gr, x) \ {t}
      BY <1>1, ChangedStatus DEF Changed
<1>3. Ordered(gr) /\ gr[t].deps \subseteq DoneIds(gr) /\ gr[t].status # "done"
      BY NextTasks, OrderedGoals DEF Sound
<1>4. Ordered(new) BY <1>1, <1>3, ChangeKeepsOrder
<1>5. LimitsHold(goal) /\ ~goal.exceeded BY SoundActive DEF Sound
<1>6. /\ WithStatus(gr, "blocked") = {} /\ WithStatus(gr, "running") = {}
      /\ WithStatus(gr, "failed") = {}
      BY SoundActive DEF Replanning, Going
<1> QED BY <1>2, <1>4, <1>5, <1>6

\* A goal paused for an approval waits for its one blocked task.
LEMMA BlockedSound ==
  ASSUME NEW goal \in Goal, Sound(goal), goal.state = "active",
         NEW t \in NextTask(goal.graph)
  PROVE  Blocked(goal, t) \in Goal /\ Sound(Blocked(goal, t))
<1> DEFINE new == Mark(goal.graph, t, "blocked")
           r   == Blocked(goal, t)
<1>1. /\ new \in Graph /\ Ordered(new) /\ WithStatus(new, "blocked") = {t}
      /\ WithStatus(new, "running") = {} /\ WithStatus(new, "failed") = {}
      /\ LimitsHold(goal) /\ ~goal.exceeded
  <2>1. Changed(goal.graph, new, t, "blocked")
        BY NextTasks, MarksChange, 0 \in Nat DEF Goal, Statuses
  <2> HIDE DEF new
  <2> QED BY <2>1, NextChanged
<1>2. /\ r \in Goal /\ r.graph = new /\ r.state = "paused" /\ ~r.backoff
      /\ r.steps = goal.steps /\ r.replans = goal.replans
      /\ r.exceeded = goal.exceeded
  <2>1. \A n \in Graph : [goal EXCEPT !.backoff = FALSE, !.state = "paused",
                                      !.graph = n] \in Goal
        BY DEF Goal, GoalStates
  <2> QED BY <1>1, <2>1 DEF Blocked, Goal
<1>3. LimitsHold(r) BY <1>1, <1>2 DEF LimitsHold
<1> HIDE DEF r, new
<1>4. NoDeadTask(r) /\ BlockedWaits(r) BY <1>1, <1>2 DEF NoDeadTask, BlockedWaits
<1>5. Sound(r) BY <1>1, <1>2, <1>3, <1>4, OrderedGoals DEF Sound, CompletedMeansDone
<1> QED BY <1>2, <1>5 DEF r

\* A step that starts holds one running task and no failed one.
LEMMA StartedExecuting ==
  ASSUME NEW goal \in Goal, Sound(goal), goal.state = "active",
         goal.steps < MaxSteps, NEW t \in NextTask(goal.graph)
  PROVE  Started(goal, t) \in Goal /\ Executing(Started(goal, t), t)
<1> DEFINE new == Mark(goal.graph, t, "running")
           r   == Started(goal, t)
<1>1. /\ new \in Graph /\ Ordered(new) /\ WithStatus(new, "running") = {t}
      /\ WithStatus(new, "blocked") = {} /\ WithStatus(new, "failed") = {}
      /\ LimitsHold(goal) /\ ~goal.exceeded
  <2>1. Changed(goal.graph, new, t, "running")
        BY NextTasks, MarksChange, 0 \in Nat DEF Goal, Statuses
  <2> HIDE DEF new
  <2> QED BY <2>1, NextChanged
<1>2. /\ r \in Goal /\ r.graph = new /\ r.state = "active"
      /\ r.steps = goal.steps + 1 /\ r.replans = goal.replans
      /\ r.exceeded = goal.exceeded
  <2>1. \A n \in Graph, k \in Nat : [goal EXCEPT !.backoff = FALSE, !.graph = n,
                                                !.steps = k] \in Goal
        BY DEF Goal
  <2>2. goal.steps + 1 \in Nat BY DEF Goal
  <2>3. r \in Goal BY <1>1, <2>1, <2>2 DEF Started
  <2> QED BY <2>3 DEF Started, Goal
<1>3. LimitsHold(r) BY <1>1, <1>2, LimitsAssumption DEF LimitsHold, Goal
<1> HIDE DEF r, new
<1>4. Executing(r, t) BY <1>1, <1>2, <1>3, OrderedGoals DEF Executing, Going
<1> QED BY <1>2, <1>4 DEF r

\* A task refused by the policy sends the goal to the replanner.
LEMMA RejectedReplanning ==
  ASSUME NEW goal \in Goal, Sound(goal), goal.state = "active",
         NEW t \in NextTask(goal.graph)
  PROVE  Rejected(goal, t) \in Goal /\ Replanning(Rejected(goal, t))
<1> DEFINE max == goal.graph[t].maxRetries
           new == Attempted(goal.graph, t, "failed", max)
           r   == Rejected(goal, t)
<1>0. max \in Nat /\ goal.graph[t] \in Node /\ t \in TaskId
      BY NextTasks DEF Goal, Graph, Node
<1> HIDE DEF max
<1>2. Changed(goal.graph, new, t, "failed") /\ new[t].retries = max
      BY <1>0, MarksChange DEF Goal, Statuses
<1>1. /\ new \in Graph /\ Ordered(new) /\ WithStatus(new, "failed") = {t}
      /\ WithStatus(new, "blocked") = {} /\ WithStatus(new, "running") = {}
      /\ LimitsHold(goal) /\ ~goal.exceeded
  <2> HIDE DEF new
  <2> QED BY <1>2, NextChanged
<1>3. /\ r \in Goal /\ r.graph = new /\ r.state = "active"
      /\ r.steps = goal.steps /\ r.replans = goal.replans
      /\ r.exceeded = goal.exceeded
  <2>1. \A n \in Graph, k \in Nat, b \in BOOLEAN :
          [goal EXCEPT !.failures = k, !.backoff = b, !.graph = n] \in Goal
        BY DEF Goal
  <2>2. goal.failures + 1 \in Nat /\ BacksOff(goal) \in BOOLEAN
        BY DEF Goal, BacksOff
  <2>3. r \in Goal BY <1>1, <2>1, <2>2 DEF Rejected, max
  <2> QED BY <2>3 DEF Rejected, Goal, max
<1>4. LimitsHold(r) BY <1>1, <1>3 DEF LimitsHold
<1> HIDE DEF r, new
<1>5. Replanning(r)
  <2>1. new[t].retries >= new[t].maxRetries BY <1>0, <1>2 DEF Changed, max
  <2> QED BY <1>1, <1>3, <1>4, <2>1, OrderedGoals DEF Replanning, Going
<1> QED BY <1>3, <1>5 DEF r

\* The task in execution ends, one way or the other.
LEMMA ExecutedTask ==
  ASSUME NEW goal \in Goal, NEW t, Executing(goal, t)
  PROVE  /\ t \in TaskId
         /\ goal.graph \in Graph
         /\ goal.graph[t] \in Node
         /\ goal.graph[t].status = "running"
  BY DEF Executing, WithStatus, Goal, Graph

\* The end of the running task leaves nothing running or blocked.
LEMMA ExecutedChanged ==
  ASSUME NEW goal \in Goal, NEW t, Executing(goal, t),
         NEW s \in {"pending", "done", "failed"},
         NEW new, Changed(goal.graph, new, t, s)
  PROVE  /\ new \in Graph
         /\ Ordered(new)
         /\ WithStatus(new, "running") = {}
         /\ WithStatus(new, "blocked") = {}
         /\ WithStatus(new, "failed") = IF s = "failed" THEN {t} ELSE {}
<1> DEFINE gr == goal.graph
<1>1. gr \in Graph /\ t \in TaskId /\ gr[t].status = "running" BY ExecutedTask
<1>2. /\ new \in Graph
      /\ WithStatus(new, s) = WithStatus(gr, s) \cup {t}
      /\ \A x : x # s => WithStatus(new, x) = WithStatus(gr, x) \ {t}
      BY <1>1, ChangedStatus DEF Changed
<1>3. Ordered(gr) BY OrderedGoals DEF Executing, Going
<1>4. gr[t].deps \subseteq DoneIds(gr) BY <1>1, <1>3 DEF Ordered, Touched
<1>5. Ordered(new) BY <1>1, <1>3, <1>4, ChangeKeepsOrder
<1> HIDE DEF gr
<1> QED BY <1>1, <1>2, <1>5 DEF Executing, Going, gr

\* A goal is sound after a task that succeeds.
LEMMA SucceededSound ==
  ASSUME NEW goal \in Goal, NEW t, Executing(goal, t)
  PROVE  Succeeded(goal, t) \in Goal /\ Sound(Succeeded(goal, t))
<1> DEFINE new == Mark(goal.graph, t, "done")
           r   == Succeeded(goal, t)
<1>1. /\ new \in Graph /\ Ordered(new) /\ WithStatus(new, "running") = {}
      /\ WithStatus(new, "blocked") = {} /\ WithStatus(new, "failed") = {}
  <2>1. Changed(goal.graph, new, t, "done")
        BY ExecutedTask, MarksChange, 0 \in Nat DEF Statuses
  <2> HIDE DEF new
  <2> QED BY <2>1, ExecutedChanged
<1>2. goal.state = "active" /\ LimitsHold(goal) BY DEF Executing, Going
<1>3. /\ r \in Goal /\ r.graph = new /\ r.state = "active"
      /\ r.steps = goal.steps /\ r.replans = goal.replans
      /\ r.exceeded = goal.exceeded
  <2>1. \A n \in Graph : [goal EXCEPT !.graph = n, !.failures = 0,
                                      !.planLocked = TRUE] \in Goal
        BY DEF Goal
  <2> QED BY <1>1, <1>2, <2>1 DEF Succeeded, Goal
<1>4. LimitsHold(r) BY <1>2, <1>3 DEF LimitsHold
<1> HIDE DEF r, new
<1>5. Going(r) BY <1>1, <1>3, <1>4, OrderedGoals DEF Going
<1>6. Sound(r) BY <1>1, <1>3, <1>5, ActiveSound
<1> QED BY <1>3, <1>6 DEF r

\* After a failed task the goal is sound, or goes to the replanner at the last retry.
LEMMA FailedOnceSound ==
  ASSUME NEW goal \in Goal, NEW t, Executing(goal, t)
  PROVE  /\ FailedOnce(goal, t) \in Goal
         /\ IF CanRetry(goal, t) THEN Sound(FailedOnce(goal, t))
                                 ELSE Replanning(FailedOnce(goal, t))
<1> DEFINE s   == IF CanRetry(goal, t) THEN "pending" ELSE "failed"
           k   == goal.graph[t].retries + 1
           new == Attempted(goal.graph, t, s, k)
           r   == FailedOnce(goal, t)
<1>1. t \in TaskId /\ goal.graph[t] \in Node /\ goal.graph \in Graph
      BY ExecutedTask
<1>2. k \in Nat BY <1>1 DEF Node
<1>3. s \in {"pending", "done", "failed"} /\ s \in Statuses BY DEF Statuses
<1>6. Changed(goal.graph, new, t, s) /\ new[t].retries = k
  <2> HIDE DEF s, k
  <2> QED BY <1>1, <1>2, <1>3, MarksChange
<1>4. /\ new \in Graph /\ Ordered(new) /\ WithStatus(new, "running") = {}
      /\ WithStatus(new, "blocked") = {}
      /\ WithStatus(new, "failed") = IF s = "failed" THEN {t} ELSE {}
  <2> HIDE DEF s, new
  <2> QED BY <1>3, <1>6, ExecutedChanged
<1>5. ~CanRetry(goal, t) => k >= goal.graph[t].maxRetries
      BY <1>1 DEF CanRetry, Node
<1>7. goal.state = "active" /\ LimitsHold(goal) BY DEF Executing, Going
<1>8. /\ r \in Goal /\ r.graph = new /\ r.state = "active"
      /\ r.steps = goal.steps /\ r.replans = goal.replans
      /\ r.exceeded = goal.exceeded
  <2>1. \A n \in Graph, i \in Nat, b \in BOOLEAN :
          [goal EXCEPT !.failures = i, !.backoff = b, !.graph = n] \in Goal
        BY DEF Goal
  <2>2. /\ goal.failures + 1 \in Nat
        /\ (goal.backoff \/ BacksOff(goal)) \in BOOLEAN
        BY DEF Goal, BacksOff
  <2>3. r \in Goal BY <1>4, <2>1, <2>2 DEF FailedOnce
  <2> QED BY <1>7, <2>3 DEF FailedOnce, Goal
<1>9. LimitsHold(r) BY <1>7, <1>8 DEF LimitsHold
<1> HIDE DEF r, new, k
<1>10. Going(r) BY <1>4, <1>8, <1>9, OrderedGoals DEF Going
<1>11. CASE CanRetry(goal, t)
  <2>1. WithStatus(new, "failed") = {} BY <1>4, <1>11
  <2> QED BY <1>4, <1>8, <1>10, <1>11, <2>1, ActiveSound DEF r
<1>12. CASE ~CanRetry(goal, t)
  <2>1. WithStatus(new, "failed") = {t} BY <1>4, <1>12
  <2>2. Replanning(r)
        BY <1>4, <1>5, <1>6, <1>8, <1>10, <1>12, <2>1 DEF Replanning, Changed
  <2> QED BY <1>8, <1>12, <2>2 DEF r
<1> QED BY <1>11, <1>12

-----------------------------------------------------------------------------
(* Replanning, and the end of create_goal.                                 *)

\* A goal whose replan is refused fails, and is sound.
LEMMA ReplanRefusedSound ==
  ASSUME NEW goal \in Goal, Replanning(goal), NEW storm \in BOOLEAN
  PROVE  ReplanRefused(goal, storm) \in Goal /\ Sound(ReplanRefused(goal, storm))
<1> DEFINE r == ReplanRefused(goal, storm)
<1>1. /\ r \in Goal /\ r.graph = goal.graph /\ r.state = "failed"
      /\ r.steps = goal.steps /\ r.replans = goal.replans
  <2>1. \A b \in BOOLEAN : [goal EXCEPT !.state = "failed", !.exceeded = b] \in Goal
        BY DEF Goal, GoalStates
  <2>2. (goal.exceeded \/ (~storm /\ goal.replans >= MaxReplans)) \in BOOLEAN
        BY DEF Goal
  <2> QED BY <2>1, <2>2 DEF ReplanRefused, Goal
<1>2. LimitsHold(r) BY <1>1 DEF LimitsHold, Replanning, Going
<1> HIDE DEF r
<1>3. Sound(r)
      BY <1>1, <1>2, FailedSound, OrderedGoals DEF Replanning, Going
<1> QED BY <1>1, <1>3 DEF r

\* A locked plan is only left alone when nothing is wrong with it.
LEMMA ReplanSkippedSound ==
  ASSUME NEW goal \in Goal, Replanning(goal), ReplanSkipped(goal)
  PROVE  Sound(goal)
<1>1. WithStatus(goal.graph, "failed") = {}
      BY DEF Replanning, ReplanSkipped, HasPermanentlyFailed
<1> QED BY <1>1, ActiveSound DEF Replanning

\* A replan that starts counts itself within the budget.
LEMMA ReplanStartedSound ==
  ASSUME NEW goal \in Goal, Replanning(goal), ~ReplanSpent(goal)
  PROVE  ReplanStarted(goal) \in Goal /\ Replanning(ReplanStarted(goal))
<1> DEFINE r == ReplanStarted(goal)
<1>1. /\ r \in Goal /\ r.graph = goal.graph /\ r.state = goal.state
      /\ r.steps = goal.steps /\ r.replans = goal.replans + 1
      /\ r.exceeded = goal.exceeded
  <2>1. \A k \in Nat : [goal EXCEPT !.replans = k] \in Goal BY DEF Goal
  <2>2. goal.replans + 1 \in Nat BY DEF Goal
  <2>3. r \in Goal BY <2>1, <2>2 DEF ReplanStarted
  <2> QED BY <2>3 DEF ReplanStarted, Goal
<1>2. LimitsHold(r)
      BY <1>1, LimitsAssumption, ReplanCapAssumption
      DEF LimitsHold, Replanning, Going, ReplanSpent, Goal
<1> HIDE DEF r
<1>3. Replanning(r) BY <1>1, <1>2, OrderedGoals DEF Replanning, Going
<1> QED BY <1>1, <1>3 DEF r

\* The merge of a new plan with the finished tasks is sound.
LEMMA ReplannedSound ==
  ASSUME NEW goal \in Goal, Replanning(goal), NEW plan \in Plans
  PROVE  Replanned(goal, plan) \in Goal /\ Sound(Replanned(goal, plan))
<1> DEFINE r   == Replanned(goal, plan)
           new == MergeReplan(goal.graph, goal.replans, plan)
<1>1. goal.state = "active" /\ Ordered(goal.graph) /\ LimitsHold(goal)
      BY OrderedGoals DEF Replanning, Going
<1>2. goal.graph \in Graph /\ goal.replans \in 0 .. MaxReplanCount
      BY <1>1, ReplanCapAssumption DEF LimitsHold, Goal
<1>3. plan \in Graph /\ Untouched(plan) BY FreshPlans
<1>4. /\ new \in Graph /\ Ordered(new) /\ WithStatus(new, "running") = {}
      /\ WithStatus(new, "failed") = {} /\ WithStatus(new, "blocked") = {}
      BY <1>1, <1>2, <1>3, Merges
<1> HIDE DEF new
<1>5. /\ r \in Goal /\ r.graph = new /\ r.state = "active"
      /\ r.steps = goal.steps /\ r.replans = goal.replans
      /\ r.exceeded = goal.exceeded
  <2>1. \A n \in Graph, k \in Nat :
          [goal EXCEPT !.graph = n, !.planCalls = k] \in Goal
        BY DEF Goal
  <2>2. goal.planCalls + 1 \in Nat BY DEF Goal
  <2>3. r \in Goal BY <1>4, <2>1, <2>2 DEF Replanned, new
  <2> QED BY <1>1, <2>3 DEF Replanned, Goal, new
<1>6. LimitsHold(r) BY <1>1, <1>5 DEF LimitsHold
<1> HIDE DEF r
<1>7. Sound(r) BY <1>4, <1>5, <1>6, ActiveSound, OrderedGoals DEF Going
<1> QED BY <1>5, <1>7 DEF r

\* The planner gives up, on a goal that is new or that wants another plan.
LEMMA PlanningFailedSound ==
  ASSUME NEW goal \in Goal,
         Replanning(goal) \/ (goal.state = "planning" /\ Sound(goal))
  PROVE  PlanningFailed(goal) \in Goal /\ Sound(PlanningFailed(goal))
<1> DEFINE r == PlanningFailed(goal)
<1>1. /\ r \in Goal /\ r.graph = goal.graph /\ r.state = "failed"
      /\ r.steps = goal.steps /\ r.replans = goal.replans
      /\ r.exceeded = goal.exceeded
  <2>1. \A k \in Nat : [goal EXCEPT !.state = "failed", !.planCalls = k] \in Goal
        BY DEF Goal, GoalStates
  <2>2. goal.planCalls + 1 \in Nat BY DEF Goal
  <2>3. r \in Goal BY <2>1, <2>2 DEF PlanningFailed
  <2> QED BY <2>3 DEF PlanningFailed, Goal
<1>2. LimitsHold(goal) /\ Ordered(goal.graph)
      BY OrderedGoals DEF Replanning, Going, Sound
<1>3. WithStatus(goal.graph, "running") = {} /\ WithStatus(goal.graph, "blocked") = {}
      BY DEF Replanning, Going, Sound, NoDeadTask, BlockedWaits
<1>4. LimitsHold(r) BY <1>1, <1>2 DEF LimitsHold
<1> HIDE DEF r
<1>5. Sound(r) BY <1>1, <1>2, <1>3, <1>4, FailedSound
<1> QED BY <1>1, <1>5 DEF r

\* A new goal gets its first graph.
LEMMA FirstPlans ==
  ASSUME NEW goal \in Goal, goal.state = "planning", Sound(goal)
  PROVE  /\ \A plan \in Plans : Planned(goal, plan) \in Goal /\ Sound(Planned(goal, plan))
         /\ \A gr \in Templates :
              FromTemplate(goal, gr) \in Goal /\ Sound(FromTemplate(goal, gr))
<1>1. LimitsHold(goal) /\ ~goal.exceeded BY DEF Sound, LimitsHold, Goal
<1>2. ASSUME NEW gr \in Graph, Untouched(gr), NEW r \in Goal, r.graph = gr,
             r.state = "active", r.steps = goal.steps, r.replans = goal.replans,
             r.exceeded = goal.exceeded
      PROVE  Sound(r)
  <2>1. LimitsHold(r) BY <1>1, <1>2 DEF LimitsHold
  <2>2. Ordered(gr) /\ (\A x \in {"running", "failed", "blocked"} : WithStatus(gr, x) = {})
        BY <1>2, UntouchedGraphs
  <2> QED BY <1>2, <2>1, <2>2, ActiveSound, OrderedGoals DEF Going
<1>3. ASSUME NEW gr \in Templates
      PROVE  FromTemplate(goal, gr) \in Goal /\ Sound(FromTemplate(goal, gr))
  <2>1. \A n \in Graph, p \in BOOLEAN :
          [goal EXCEPT !.state = "active", !.graph = n, !.plain = p] \in Goal
        BY DEF Goal, GoalStates
  <2>2. gr \in Graph /\ Untouched(gr) BY Blueprints
  <2>3. PlainIds(gr) \in BOOLEAN BY DEF PlainIds
  <2>4. FromTemplate(goal, gr) \in Goal BY <2>1, <2>2, <2>3 DEF FromTemplate
  <2> QED BY <1>2, <2>2, <2>4 DEF FromTemplate, Goal
<1>4. ASSUME NEW plan \in Plans
      PROVE  Planned(goal, plan) \in Goal /\ Sound(Planned(goal, plan))
  <2> DEFINE cut == Truncate(plan, MaxPlanSteps)
  <2>1. cut \in Graph /\ Untouched(cut) BY FreshPlans, Truncated, LimitsAssumption
  <2> HIDE DEF cut
  <2>2. \A n \in Graph, k \in Nat :
          [goal EXCEPT !.state = "active", !.graph = n, !.planCalls = k] \in Goal
        BY DEF Goal, GoalStates
  <2>3. goal.planCalls + 1 \in Nat BY DEF Goal
  <2>4. Planned(goal, plan) \in Goal BY <2>1, <2>2, <2>3 DEF Planned, cut
  <2> QED BY <1>2, <2>1, <2>4 DEF Planned, Goal, cut
<1> QED BY <1>3, <1>4

-----------------------------------------------------------------------------
(* Commands.                                                               *)

\* A command that leaves the graph, the counters and the budget flag alone.
LEMMA SameGraphSound ==
  ASSUME NEW goal \in Goal, Sound(goal), NEW r \in Goal, r.graph = goal.graph,
         r.steps = goal.steps, r.replans = goal.replans, r.exceeded = goal.exceeded,
         goal.state \notin Terminal,
         \/ r.state = goal.state /\ r.backoff = goal.backoff
         \/ r.state = "failed"
         \/ r.state \in {"active", "paused"} /\ WithStatus(goal.graph, "blocked") = {}
  PROVE  Sound(r)
<1>1. DependenciesFirst(r) BY OrderedGoals DEF Sound
<1>2. ~goal.exceeded BY DEF Sound, LimitsHold, Terminal, Goal
<1>3. LimitsHold(r) BY <1>2 DEF Sound, LimitsHold
<1>4. CompletedMeansDone(r) BY DEF CompletedMeansDone, Terminal
<1>5. NoDeadTask(r) BY DEF Sound, NoDeadTask, Terminal
<1>6. BlockedWaits(r) BY DEF Sound, BlockedWaits
<1> QED BY <1>1, <1>3, <1>4, <1>5, <1>6 DEF Sound

\* Each command leaves a sound goal sound where it applies.
LEMMA EffectSound ==
  ASSUME NEW goal \in Goal, Sound(goal), NEW kind \in CommandKinds,
         Applies(kind, goal)
  PROVE  Effect(kind, goal) \in Goal /\ Sound(Effect(kind, goal))
<1> DEFINE r == Effect(kind, goal)
<1>1. CASE kind \in {"pause", "reflect"}
  <2>1. goal.state = "active" /\ r = Paused(goal)
        BY <1>1 DEF Applies, Effect, Modes
  <2>2. WithStatus(goal.graph, "blocked") = {}
        BY <2>1, SoundActive DEF Replanning, Going
  <2>3. /\ r \in Goal /\ r.graph = goal.graph /\ r.steps = goal.steps
        /\ r.replans = goal.replans /\ r.exceeded = goal.exceeded
        /\ r.state = "paused"
        BY <2>1 DEF Paused, Goal, GoalStates
  <2> HIDE DEF r
  <2> QED BY <2>1, <2>2, <2>3, SameGraphSound DEF Terminal, r
<1>2. CASE kind = "resume"
  <2>1. /\ goal.state = "paused"
        /\ r = [goal EXCEPT !.state = "active", !.graph = Unblock(goal.graph),
                            !.exceeded = FALSE]
        BY <1>2 DEF Applies, Effect, Modes
  <2>2. /\ goal.graph \in Graph /\ Ordered(goal.graph) /\ LimitsHold(goal)
        /\ WithStatus(goal.graph, "running") = {}
        /\ WithStatus(goal.graph, "failed") = {}
        BY <2>1, OrderedGoals DEF Sound, NoDeadTask, Goal
  <2> DEFINE new == Unblock(goal.graph)
  <2>3. /\ new \in Graph /\ Ordered(new) /\ WithStatus(new, "blocked") = {}
        /\ WithStatus(new, "running") = {} /\ WithStatus(new, "failed") = {}
        BY <2>2, Unblocks
  <2> HIDE DEF new
  <2>4. \A n \in Graph : [goal EXCEPT !.state = "active", !.graph = n,
                                      !.exceeded = FALSE] \in Goal
        BY DEF Goal, GoalStates
  <2>5. r \in Goal BY <2>1, <2>3, <2>4 DEF new
  <2>6. /\ r.graph = new /\ r.state = "active" /\ r.steps = goal.steps
        /\ r.replans = goal.replans /\ ~r.exceeded
        BY <2>1, <2>5 DEF Goal, new
  <2> HIDE DEF r
  <2>7. LimitsHold(r) BY <2>2, <2>6 DEF LimitsHold
  <2>8. Sound(r) BY <2>3, <2>5, <2>6, <2>7, ActiveSound, OrderedGoals DEF Going
  <2> QED BY <2>5, <2>8 DEF r
<1>3. CASE kind = "unpause"
  <2>1. /\ goal.state = "paused" /\ goal.backoff
        /\ r = [goal EXCEPT !.state = "active", !.backoff = FALSE, !.failures = 0]
        BY <1>3 DEF Applies, Effect, Modes
  <2>2. WithStatus(goal.graph, "blocked") = {} BY <2>1 DEF Sound, BlockedWaits
  <2>3. /\ r \in Goal /\ r.graph = goal.graph /\ r.steps = goal.steps
        /\ r.replans = goal.replans /\ r.exceeded = goal.exceeded
        /\ r.state = "active"
    <3>1. [goal EXCEPT !.state = "active", !.backoff = FALSE, !.failures = 0] \in Goal
          BY DEF Goal, GoalStates
    <3>2. r \in Goal BY <2>1, <3>1
    <3> QED BY <2>1, <3>2 DEF Goal
  <2> HIDE DEF r
  <2> QED BY <2>1, <2>2, <2>3, SameGraphSound DEF Terminal, r
<1>4. CASE kind \in {"cancel", "delete"}
  <2>1. goal.state \notin Terminal /\ r = Failed(goal)
        BY <1>4 DEF Applies, Effect, Modes
  <2>2. /\ r \in Goal /\ r.graph = goal.graph /\ r.steps = goal.steps
        /\ r.replans = goal.replans /\ r.exceeded = goal.exceeded
        /\ r.state = "failed"
        BY <2>1 DEF Failed, Goal, GoalStates
  <2> HIDE DEF r
  <2> QED BY <2>1, <2>2, SameGraphSound DEF r
<1>5. CASE kind \in Modes
  <2>1. goal.state \notin Terminal /\ r = [goal EXCEPT !.mode = kind]
        BY <1>5 DEF Applies, Effect, Modes
  <2>2. /\ r \in Goal /\ r.graph = goal.graph /\ r.steps = goal.steps
        /\ r.replans = goal.replans /\ r.exceeded = goal.exceeded
        /\ r.state = goal.state /\ r.backoff = goal.backoff
    <3>1. \A m \in Modes : [goal EXCEPT !.mode = m] \in Goal BY DEF Goal
    <3>2. r \in Goal BY <1>5, <2>1, <3>1
    <3> QED BY <2>1, <3>2 DEF Goal
  <2> HIDE DEF r
  <2> QED BY <2>1, <2>2, SameGraphSound DEF r
<1> QED BY <1>1, <1>2, <1>3, <1>4, <1>5 DEF CommandKinds, Modes

-----------------------------------------------------------------------------
(* The actions.  IInv is inductive: TypeOK needs CopiesSound, since it is   *)
(* the replan limit that keeps the ids of a merged graph within TaskId.    *)

IInv == TypeOK /\ CopiesSound

\* Ticks and commands that hold no goal yet are sound.
LEMMA IdleTypes ==
  /\ IdleTick \in TickState /\ SoundTick(IdleTick)
  /\ \A n \in 0 .. StepsPerTick - 1 :
       LET loading == [IdleTick EXCEPT !.pc = "load", !.n = n] IN
       loading \in TickState /\ SoundTick(loading)
  /\ [IdleTick EXCEPT !.pc = "load"] \in TickState
  /\ SoundTick([IdleTick EXCEPT !.pc = "load"])
  /\ IdleCommand \in CommandState
<1>1. 0 \in 0 .. StepsPerTick - 1 BY EngineAssumption
<1> QED BY <1>1, FirstGoals DEF IdleTick, TickState, SoundTick, IdleCommand, CommandState

\* Moving a step along keeps the type of the tick.
LEMMA TickStates ==
  ASSUME NEW here \in TickState, NEW goal \in Goal, NEW t \in TaskId,
         NEW pc \in {"execute", "replan", "plan", "save"}
  PROVE  /\ [here EXCEPT !.pc = pc, !.goal = goal] \in TickState
         /\ [here EXCEPT !.pc = pc, !.goal = goal].pc = pc
         /\ [here EXCEPT !.pc = pc, !.goal = goal].goal = goal
         /\ [here EXCEPT !.pc = pc, !.task = t, !.goal = goal] \in TickState
         /\ [here EXCEPT !.pc = pc, !.task = t, !.goal = goal].pc = pc
         /\ [here EXCEPT !.pc = pc, !.task = t, !.goal = goal].task = t
         /\ [here EXCEPT !.pc = pc, !.task = t, !.goal = goal].goal = goal
  BY DEF TickState

\* A tick is sound when the goal it holds fits the place it is at.
LEMMA SoundStates ==
  ASSUME NEW here,
         \/ here.pc \in {"idle", "load"}
         \/ here.pc = "execute" /\ Executing(here.goal, here.task)
         \/ here.pc \in {"replan", "plan"} /\ Replanning(here.goal)
         \/ here.pc = "save" /\ Sound(here.goal)
  PROVE  SoundTick(here)
  BY DEF SoundTick

\* Tick states change one at a time.
LEMMA TickChanged ==
  ASSUME TypeOK, NEW w \in Drivers, NEW g \in Goals, NEW state \in TickState,
         tick' = [tick EXCEPT ![w][g] = state], SoundTick(state),
         \A x \in Drivers, h \in Goals : SoundTick(tick[x][h])
  PROVE  /\ tick' \in [Drivers -> [Goals -> TickState]]
         /\ \A x \in Drivers, h \in Goals : SoundTick(tick'[x][h])
<1>1. tick \in [Drivers -> [Goals -> TickState]] BY DEF TypeOK
<1>2. tick' \in [Drivers -> [Goals -> TickState]] BY <1>1
<1>3. \A x \in Drivers, h \in Goals : tick'[x][h] \in {state, tick[x][h]} BY <1>1
<1> QED BY <1>2, <1>3

\* A step of a driver to a sound tick preserves the invariant.
LEMMA MoveSound ==
  ASSUME IInv, NEW w \in Drivers, NEW g \in Goals, NEW state \in TickState,
         SoundTick(state), Move(w, g, state), runs' \in [Goals -> Nat]
  PROVE  IInv'
<1>1. /\ tick' \in [Drivers -> [Goals -> TickState]]
      /\ \A x \in Drivers, h \in Goals : SoundTick(tick'[x][h])
      BY TickChanged DEF Move, IInv, CopiesSound
<1>2. TypeOK' BY <1>1 DEF TypeOK, IInv, Move
<1>3. CopiesSound' BY <1>1 DEF CopiesSound, IInv, Move, StoredGoalsSound
<1> QED BY <1>2, <1>3 DEF IInv

\* A step that ends with a sound copy to write preserves the invariant.
LEMMA ToSaveSound ==
  ASSUME IInv, NEW w \in Drivers, NEW g \in Goals, NEW goal \in Goal, Sound(goal),
         ToSave(w, g, goal)
  PROVE  IInv'
<1> DEFINE state == [tick[w][g] EXCEPT !.pc = "save", !.goal = goal]
<1>1. tick[w][g] \in TickState BY DEF IInv, TypeOK
<1>2. state \in TickState /\ state.pc = "save" /\ state.goal = goal
      BY <1>1 DEF TickState
<1>3. Move(w, g, state) /\ runs' \in [Goals -> Nat] BY DEF ToSave, IInv, TypeOK
<1> HIDE DEF state
<1>4. SoundTick(state) BY <1>2, SoundStates
<1> QED BY <1>2, <1>3, <1>4, MoveSound

\* A record of Redis is replaced by a sound one, or is deleted.
LEMMA StoreChanged ==
  ASSUME TypeOK, StoredGoalsSound, NEW g \in Goals, NEW goal \in Goal, Sound(goal),
         store' = [store EXCEPT ![g] = goal]
  PROVE  store' \in [Goals -> Goal] /\ StoredGoalsSound'
  BY DEF TypeOK, StoredGoalsSound

\* What a driver or a command reads from Redis is sound.
LEMMA Loaded ==
  ASSUME IInv, NEW g \in Goals
  PROVE  store[g] \in Goal /\ Sound(store[g])
  BY DEF IInv, TypeOK, CopiesSound, StoredGoalsSound

\* The invariant holds before anything has run.
LEMMA InitSound == Init => IInv
<1> SUFFICES ASSUME Init PROVE IInv OBVIOUS
<1>1. /\ store \in [Goals -> Goal] /\ late \in [Goals -> BOOLEAN]
      /\ maker \in [Goals -> MakerState] /\ ticking \in [Drivers -> BOOLEAN]
      BY FirstGoals DEF Init, MakerState
<1>2. tick \in [Drivers -> [Goals -> TickState]] /\ command \in [Operators -> CommandState]
      BY IdleTypes DEF Init
<1>3. issued \in 0 .. MaxCommands /\ faults \in 0 .. MaxFaults /\ runs \in [Goals -> Nat]
      BY EngineAssumption DEF Init
<1>4. StoredGoalsSound BY FirstGoals DEF Init, StoredGoalsSound
<1>5. \A g \in Goals : SoundMaker(maker[g]) BY DEF Init, SoundMaker
<1>6. \A w \in Drivers, g \in Goals : SoundTick(tick[w][g]) BY IdleTypes DEF Init
<1>7. \A u \in Operators : command[u].pc # "save" BY DEF Init, IdleCommand
<1> QED BY <1>1, <1>2, <1>3, <1>4, <1>5, <1>6, <1>7 DEF IInv, TypeOK, CopiesSound

\* Creating a goal preserves the invariant.
LEMMA CreateSound ==
  ASSUME IInv, NEW g \in Goals, Create(g)
  PROVE  IInv'
<1> USE DEF IInv, TypeOK, CopiesSound
<1>1. ASSUME NEW goal \in Goal, Sound(goal), NEW m \in MakerState, SoundMaker(m),
             store' = [store EXCEPT ![g] = goal], maker' = [maker EXCEPT ![g] = m],
             UNCHANGED <<late, ticking, tick, command, issued, faults, runs>>
      PROVE  IInv'
  <2>1. store' \in [Goals -> Goal] /\ StoredGoalsSound' BY <1>1, StoreChanged
  <2>2. maker' \in [Goals -> MakerState] /\ (\A h \in Goals : SoundMaker(maker'[h]))
        BY <1>1
  <2> QED BY <1>1, <2>1, <2>2
<1>2. ASSUME NEW mode \in FirstModes, CreateGoal(g, mode) PROVE IInv'
  <2> DEFINE m == [pc |-> "planning", goal |-> NewGoal(mode)]
  <2>1. NewGoal(mode) \in Goal /\ NewGoal(mode).state = "planning" /\ Sound(NewGoal(mode))
        BY FirstGoals, EngineAssumption
  <2>2. m \in MakerState /\ SoundMaker(m) BY <2>1 DEF MakerState, SoundMaker
  <2> QED BY <1>1, <1>2, <2>1, <2>2 DEF CreateGoal
<1>3. ASSUME NEW goal \in Goal, Sound(goal), EndCreate(g, goal) PROVE IInv'
  <2> DEFINE m == [pc |-> "done", goal |-> NoGoal]
  <2>1. m \in MakerState /\ SoundMaker(m) BY FirstGoals DEF MakerState, SoundMaker
  <2> QED BY <1>1, <1>3, <2>1 DEF EndCreate
<1>4. ASSUME maker[g].pc = "planning"
      PROVE  /\ maker[g].goal \in Goal /\ maker[g].goal.state = "planning"
             /\ Sound(maker[g].goal)
      BY <1>4 DEF MakerState, SoundMaker
<1>5. ASSUME NEW plan \in Plans, PlanGoal(g, plan) PROVE IInv'
  <2>1. maker[g].pc = "planning" BY <1>5 DEF PlanGoal, EndCreate
  <2> QED BY <1>3, <1>4, <1>5, <2>1, FirstPlans DEF PlanGoal
<1>6. ASSUME NEW gr \in Templates, UseTemplate(g, gr) PROVE IInv'
  <2>1. maker[g].pc = "planning" BY <1>6 DEF UseTemplate, EndCreate
  <2> QED BY <1>3, <1>4, <1>6, <2>1, FirstPlans DEF UseTemplate
<1>7. ASSUME FailToPlan(g) PROVE IInv'
  <2>1. maker[g].pc = "planning" BY <1>7 DEF FailToPlan, EndCreate
  <2> QED BY <1>3, <1>4, <1>7, <2>1, PlanningFailedSound DEF FailToPlan
<1> QED BY <1>2, <1>5, <1>6, <1>7 DEF Create

\* The start and the end of a tick preserve the invariant.
LEMMA ScheduleSound ==
  ASSUME IInv, NEW w \in Drivers, StartTick(w) \/ EndTick(w)
  PROVE  IInv'
<1> USE DEF IInv, TypeOK, CopiesSound
<1>1. CASE StartTick(w)
  <2> DEFINE loading == [IdleTick EXCEPT !.pc = "load"]
  <2>1. PICK S \in SUBSET Goals :
          tick' = [tick EXCEPT ![w] = [g \in Goals |-> IF g \in S THEN loading
                                                                 ELSE IdleTick]]
        BY <1>1 DEF StartTick
  <2>2. /\ loading \in TickState /\ SoundTick(loading)
        /\ IdleTick \in TickState /\ SoundTick(IdleTick)
        BY IdleTypes
  <2> HIDE DEF loading
  <2>3. tick' \in [Drivers -> [Goals -> TickState]] BY <2>1, <2>2
  <2>4. \A x \in Drivers, h \in Goals : tick'[x][h] \in {loading, IdleTick, tick[x][h]}
        BY <2>1
  <2>5. \A x \in Drivers, h \in Goals : SoundTick(tick'[x][h]) BY <2>2, <2>4
  <2> QED BY <1>1, <2>3, <2>5 DEF StartTick, StoredGoalsSound
<1>2. CASE EndTick(w)
  <2>1. PICK old : store' = [g \in Goals |-> IF g \in old THEN NoGoal ELSE store[g]]
        BY <1>2 DEF EndTick
  <2>2. store' \in [Goals -> Goal] BY <2>1, FirstGoals
  <2>3. StoredGoalsSound' BY <2>1, FirstGoals DEF StoredGoalsSound
  <2> QED BY <1>2, <2>2, <2>3 DEF EndTick
<1> QED BY <1>1, <1>2

\* The guards of a step and what it leaves: one step per action of Compute.
LEMMA ComputeSound ==
  ASSUME IInv, NEW w \in Drivers, NEW g \in Goals, Compute(w, g)
  PROVE  IInv'
<1> DEFINE here == tick[w][g]
<1>1. store[g] \in Goal /\ Sound(store[g]) BY Loaded
<1>2. here \in TickState /\ SoundTick(here) /\ here.goal \in Goal
      BY DEF IInv, TypeOK, CopiesSound, TickState
<1>3. runs \in [Goals -> Nat] BY DEF IInv, TypeOK
<1>4. CASE LeaveGoal(w, g)
      BY <1>3, <1>4, IdleTypes, MoveSound DEF LeaveGoal
<1>5. CASE WaitBackoff(w, g) BY <1>1, <1>5, ToSaveSound DEF WaitBackoff
<1>6. CASE StopAtLimit(w, g)
      BY <1>1, <1>6, StoppedSound, ToSaveSound DEF StopAtLimit
<1>7. CASE FindNoTask(w, g)
      BY <1>1, <1>7, RestedSound, ToSaveSound DEF FindNoTask, MayStep
<1>8. CASE BlockTask(w, g)
  <2>1. PICK t \in NextTask(store[g].graph) : ToSave(w, g, Blocked(store[g], t))
        BY <1>8 DEF BlockTask
  <2>2. store[g].state = "active" BY <1>8 DEF BlockTask, MayStep
  <2> QED BY <1>1, <2>1, <2>2, BlockedSound, ToSaveSound
<1>9. CASE RejectTask(w, g)
  <2>1. PICK t \in NextTask(store[g].graph) :
          Move(w, g, [here EXCEPT !.pc = "replan", !.goal = Rejected(store[g], t)])
        BY <1>9 DEF RejectTask
  <2> DEFINE goal == Rejected(store[g], t)
             state == [here EXCEPT !.pc = "replan", !.goal = goal]
  <2>2. store[g].state = "active" /\ runs' = runs BY <1>9 DEF RejectTask, MayStep
  <2>3. goal \in Goal /\ Replanning(goal) BY <1>1, <2>1, <2>2, RejectedReplanning
  <2> HIDE DEF goal
  <2>4. state \in TickState /\ state.pc = "replan" /\ state.goal = goal
        BY <1>2, <2>3 DEF TickState
  <2> HIDE DEF state
  <2>5. SoundTick(state) BY <2>3, <2>4, SoundStates
  <2> QED BY <1>3, <2>1, <2>2, <2>4, <2>5, MoveSound DEF state, goal
<1>10. CASE ExecuteTask(w, g)
  <2>1. PICK t \in NextTask(store[g].graph) :
          Move(w, g, [here EXCEPT !.pc = "execute", !.task = t,
                                  !.goal = Started(store[g], t)])
        BY <1>10 DEF ExecuteTask
  <2> DEFINE goal == Started(store[g], t)
             state == [here EXCEPT !.pc = "execute", !.task = t, !.goal = goal]
  <2>2. /\ store[g].state = "active" /\ store[g].steps < MaxSteps
        /\ runs' = [runs EXCEPT ![g] = @ + 1]
        BY <1>10 DEF ExecuteTask, MayStep
  <2>3. goal \in Goal /\ Executing(goal, t) BY <1>1, <2>1, <2>2, StartedExecuting
  <2> HIDE DEF goal
  <2>4. t \in TaskId BY <2>1, NextTasks
  <2>5. /\ state \in TickState /\ state.pc = "execute" /\ state.goal = goal
        /\ state.task = t
        BY <1>2, <2>3, <2>4 DEF TickState
  <2> HIDE DEF state
  <2>6. SoundTick(state) BY <2>3, <2>5, SoundStates
  <2>7. runs' \in [Goals -> Nat] BY <1>3, <2>2
  <2> QED BY <2>1, <2>5, <2>6, <2>7, MoveSound DEF state, goal
<1>11. CASE RefuseReplan(w, g)
  <2>1. Replanning(here.goal) BY <1>2, <1>11 DEF RefuseReplan, SoundTick
  <2>2. PICK storm \in BOOLEAN :
          /\ storm \/ ReplanSpent(here.goal) \/ ReplanSkipped(here.goal)
          /\ ToSave(w, g, IF storm \/ ReplanSpent(here.goal)
                          THEN ReplanRefused(here.goal, storm)
                          ELSE here.goal)
        BY <1>11 DEF RefuseReplan
  <2>3. CASE storm \/ ReplanSpent(here.goal)
        BY <1>2, <2>1, <2>2, <2>3, ReplanRefusedSound, ToSaveSound
  <2>4. CASE ~(storm \/ ReplanSpent(here.goal))
        BY <1>2, <2>1, <2>2, <2>4, ReplanSkippedSound, ToSaveSound
  <2> QED BY <2>3, <2>4
<1>12. CASE AskPlanner(w, g)
  <2> DEFINE goal == ReplanStarted(here.goal)
             state == [here EXCEPT !.pc = "plan", !.goal = goal]
  <2>1. Replanning(here.goal) BY <1>2, <1>12 DEF AskPlanner, SoundTick
  <2>2. goal \in Goal /\ Replanning(goal)
        BY <1>2, <1>12, <2>1, ReplanStartedSound DEF AskPlanner
  <2> HIDE DEF goal
  <2>3. state \in TickState /\ state.pc = "plan" /\ state.goal = goal
        BY <1>2, <2>2 DEF TickState
  <2> HIDE DEF state
  <2>4. SoundTick(state) BY <2>2, <2>3, SoundStates
  <2>5. Move(w, g, state) /\ runs' = runs BY <1>12 DEF AskPlanner, state, goal
  <2> QED BY <1>3, <2>3, <2>4, <2>5, MoveSound
<1>13. CASE SaveStep(w, g)
  <2> DEFINE next == IF MoreSteps(here.goal, here.n)
                     THEN [IdleTick EXCEPT !.pc = "load", !.n = here.n + 1]
                     ELSE IdleTick
  <2>1. Sound(here.goal) BY <1>2, <1>13 DEF SaveStep, SoundTick
  <2>2. store' = [store EXCEPT ![g] = here.goal] /\ tick' = [tick EXCEPT ![w][g] = next]
        BY <1>13 DEF SaveStep
  <2>3. next \in TickState /\ SoundTick(next)
    <3>1. MoreSteps(here.goal, here.n) => here.n + 1 \in 0 .. StepsPerTick - 1
          BY <1>2, EngineAssumption DEF MoreSteps, TickState
    <3> QED BY <3>1, IdleTypes
  <2> HIDE DEF next
  <2>4. store' \in [Goals -> Goal] /\ StoredGoalsSound'
        BY <1>2, <2>1, <2>2, StoreChanged DEF IInv, CopiesSound
  <2>5. /\ tick' \in [Drivers -> [Goals -> TickState]]
        /\ \A x \in Drivers, h \in Goals : SoundTick(tick'[x][h])
        BY <2>2, <2>3, TickChanged DEF IInv, CopiesSound
  <2> QED BY <1>13, <2>4, <2>5 DEF SaveStep, IInv, TypeOK, CopiesSound
<1> QED BY <1>4, <1>5, <1>6, <1>7, <1>8, <1>9, <1>10, <1>11, <1>12, <1>13 DEF Compute

\* Every answer a step awaits, an exception among them, preserves the invariant.
LEMMA AnswerSound ==
  ASSUME IInv, NEW w \in Drivers, NEW g \in Goals, Answer(w, g) \/ StepRaises(w, g)
  PROVE  IInv'
<1> DEFINE here == tick[w][g]
<1>1. here \in TickState /\ SoundTick(here) /\ here.goal \in Goal
      BY DEF IInv, TypeOK, CopiesSound, TickState
<1>2. CASE TaskSucceeds(w, g)
      BY <1>1, <1>2, SucceededSound, ToSaveSound DEF TaskSucceeds, SoundTick
<1>3. CASE TaskFails(w, g)
  <2> DEFINE goal == FailedOnce(here.goal, here.task)
             pc == IF CanRetry(here.goal, here.task) THEN "save" ELSE "replan"
             state == [here EXCEPT !.pc = pc, !.goal = goal]
  <2>1. Executing(here.goal, here.task) BY <1>1, <1>3 DEF TaskFails, SoundTick
  <2>2. goal \in Goal /\ (IF pc = "save" THEN Sound(goal) ELSE Replanning(goal))
        BY <1>1, <2>1, FailedOnceSound
  <2>3. pc \in {"save", "replan"} OBVIOUS
  <2> HIDE DEF goal, pc
  <2>4. state \in TickState /\ state.pc = pc /\ state.goal = goal
        BY <1>1, <2>2, <2>3 DEF TickState
  <2> HIDE DEF state
  <2>5. SoundTick(state) BY <2>2, <2>3, <2>4, SoundStates
  <2>6. Move(w, g, state) /\ runs' \in [Goals -> Nat]
        BY <1>3 DEF TaskFails, state, goal, pc, IInv, TypeOK
  <2> QED BY <2>4, <2>5, <2>6, MoveSound
<1>4. CASE GetNoPlan(w, g)
      BY <1>1, <1>4, PlanningFailedSound, ToSaveSound DEF GetNoPlan, SoundTick
<1>5. ASSUME NEW plan \in Plans, AcceptPlan(w, g, plan) PROVE IInv'
      BY <1>1, <1>5, ReplannedSound, ToSaveSound DEF AcceptPlan, SoundTick
<1>6. CASE StepRaises(w, g)
  <2>1. /\ tick' \in [Drivers -> [Goals -> TickState]]
        /\ \A x \in Drivers, h \in Goals : SoundTick(tick'[x][h])
        BY <1>6, IdleTypes, TickChanged DEF StepRaises, IInv, CopiesSound
  <2>2. faults' \in 0 .. MaxFaults
        BY <1>6, EngineAssumption DEF StepRaises, IInv, TypeOK
  <2>3. TypeOK' BY <1>6, <2>1, <2>2 DEF StepRaises, IInv, TypeOK
  <2>4. CopiesSound'
        BY <1>6, <2>1 DEF StepRaises, IInv, CopiesSound, StoredGoalsSound
  <2> QED BY <2>3, <2>4 DEF IInv
<1> QED BY <1>2, <1>3, <1>4, <1>5, <1>6 DEF Answer

\* The read, the change and the write of a command preserve the invariant.
LEMMA OperateSound ==
  ASSUME IInv, NEW u \in Operators, Operate(u)
  PROVE  IInv'
<1> DEFINE here == command[u]
<1>1. here \in CommandState /\ here.goal \in Goal /\ (here.pc = "save" => Sound(here.goal))
      BY DEF IInv, TypeOK, CopiesSound, CommandState
<1>2. ASSUME NEW c \in CommandState, c.pc = "save" => Sound(c.goal),
             command' = [command EXCEPT ![u] = c]
      PROVE  /\ command' \in [Operators -> CommandState]
             /\ \A v \in Operators : command'[v].pc = "save" => Sound(command'[v].goal)
      BY <1>2 DEF IInv, TypeOK, CopiesSound
<1>3. ASSUME CanIssue(u, "delete") \/ issued < MaxCommands
      PROVE  issued + 1 \in 0 .. MaxCommands
      BY <1>3, EngineAssumption DEF CanIssue, IInv, TypeOK
<1>4. ASSUME NEW kind \in Commands, NEW g \in Goals, IssueCommand(u, kind, g) PROVE IInv'
  <2> DEFINE goal == Effect(kind, store[g])
             c == [pc |-> "save", kind |-> kind, id |-> g, goal |-> goal]
  <2>1. goal \in Goal /\ Sound(goal)
        BY <1>4, Loaded, EffectSound, EngineAssumption DEF IssueCommand
  <2>2. c \in CommandState /\ (c.pc = "save" => Sound(c.goal))
        BY <2>1, EngineAssumption DEF CommandState
  <2>3. /\ command' \in [Operators -> CommandState]
        /\ \A v \in Operators : command'[v].pc = "save" => Sound(command'[v].goal)
        BY <1>2, <1>4, <2>2 DEF IssueCommand
  <2>4. issued' \in 0 .. MaxCommands
        BY <1>3, <1>4 DEF IssueCommand, CanIssue, IInv, TypeOK
  <2>5. TypeOK' BY <1>4, <2>3, <2>4 DEF IssueCommand, IInv, TypeOK
  <2>6. CopiesSound'
        BY <1>4, <2>3 DEF IssueCommand, IInv, CopiesSound, StoredGoalsSound
  <2> QED BY <2>5, <2>6 DEF IInv
<1>5. ASSUME NEW g \in Goals, IssueDelete(u, g) PROVE IInv'
  <2> DEFINE c == [pc |-> "hdel", kind |-> "delete", id |-> g, goal |-> NoGoal]
  <2>1. c \in CommandState /\ (c.pc = "save" => Sound(c.goal))
        BY FirstGoals DEF CommandState, CommandKinds
  <2>2. /\ command' \in [Operators -> CommandState]
        /\ \A v \in Operators : command'[v].pc = "save" => Sound(command'[v].goal)
        BY <1>2, <1>5, <2>1 DEF IssueDelete
  <2>3. issued' \in 0 .. MaxCommands BY <1>3, <1>5 DEF IssueDelete
  <2>4. TypeOK' BY <1>5, <2>2, <2>3 DEF IssueDelete, IInv, TypeOK
  <2>5. CopiesSound'
        BY <1>5, <2>2 DEF IssueDelete, IInv, CopiesSound, StoredGoalsSound
  <2> QED BY <2>4, <2>5 DEF IInv
<1>6. ASSUME NEW g \in Goals, SaveCommand(u, g) PROVE IInv'
  <2> DEFINE c == IF here.kind = "delete"
                  THEN [here EXCEPT !.pc = "hdel", !.goal = NoGoal]
                  ELSE IdleCommand
  <2>1. c \in CommandState /\ (c.pc = "save" => Sound(c.goal))
    <3>1. [here EXCEPT !.pc = "hdel", !.goal = NoGoal] \in CommandState
          /\ [here EXCEPT !.pc = "hdel", !.goal = NoGoal].pc = "hdel"
          BY <1>1, FirstGoals DEF CommandState
    <3> QED BY <3>1, IdleTypes DEF IdleCommand
  <2>2. command' = [command EXCEPT ![u] = c] BY <1>6 DEF SaveCommand, IInv, TypeOK
  <2> HIDE DEF c
  <2>3. /\ command' \in [Operators -> CommandState]
        /\ \A v \in Operators : command'[v].pc = "save" => Sound(command'[v].goal)
        BY <1>2, <2>1, <2>2
  <2>4. store' \in [Goals -> Goal] /\ StoredGoalsSound'
        BY <1>1, <1>6, StoreChanged DEF SaveCommand, IInv, CopiesSound
  <2>5. TypeOK' BY <1>6, <2>3, <2>4 DEF SaveCommand, IInv, TypeOK
  <2>6. CopiesSound' BY <1>6, <2>3, <2>4 DEF SaveCommand, IInv, CopiesSound
  <2> QED BY <2>5, <2>6 DEF IInv
<1>7. ASSUME NEW g \in Goals, HardDelete(u, g) PROVE IInv'
  <2>1. /\ command' \in [Operators -> CommandState]
        /\ \A v \in Operators : command'[v].pc = "save" => Sound(command'[v].goal)
        BY <1>2, <1>7, IdleTypes DEF HardDelete, IdleCommand
  <2>2. store' \in [Goals -> Goal] /\ StoredGoalsSound'
        BY <1>7, FirstGoals, StoreChanged DEF HardDelete, IInv, CopiesSound
  <2>3. TypeOK' BY <1>7, <2>1, <2>2 DEF HardDelete, IInv, TypeOK
  <2>4. CopiesSound' BY <1>7, <2>1, <2>2 DEF HardDelete, IInv, CopiesSound
  <2> QED BY <2>3, <2>4 DEF IInv
<1> QED BY <1>4, <1>5, <1>6, <1>7 DEF Operate

\* A restart, and time that passes, preserve the invariant.
LEMMA EnvironmentSound ==
  ASSUME IInv, Restart \/ \E g \in Goals : RuntimeElapses(g)
  PROVE  IInv'
<1>1. CASE Restart
  <2>1. /\ maker' \in [Goals -> MakerState] /\ (\A g \in Goals : SoundMaker(maker'[g]))
        BY <1>1, FirstGoals
        DEF Restart, IInv, TypeOK, CopiesSound, MakerState, SoundMaker
  <2>2. /\ tick' \in [Drivers -> [Goals -> TickState]]
        /\ \A w \in Drivers, g \in Goals : SoundTick(tick'[w][g])
        BY <1>1, IdleTypes DEF Restart
  <2>3. /\ command' \in [Operators -> CommandState]
        /\ \A u \in Operators : command'[u].pc # "save"
        BY <1>1, IdleTypes DEF Restart, IdleCommand
  <2>4. faults' \in 0 .. MaxFaults /\ ticking' \in [Drivers -> BOOLEAN]
        BY <1>1, EngineAssumption DEF Restart, IInv, TypeOK
  <2>5. TypeOK' BY <1>1, <2>1, <2>2, <2>3, <2>4 DEF Restart, IInv, TypeOK
  <2>6. CopiesSound'
        BY <1>1, <2>1, <2>2, <2>3 DEF Restart, IInv, CopiesSound, StoredGoalsSound
  <2> QED BY <2>5, <2>6 DEF IInv
<1>2. ASSUME NEW g \in Goals, RuntimeElapses(g) PROVE IInv'
  <2>1. TypeOK' BY <1>2 DEF RuntimeElapses, IInv, TypeOK
  <2>2. CopiesSound' BY <1>2 DEF RuntimeElapses, IInv, CopiesSound, StoredGoalsSound
  <2> QED BY <2>1, <2>2 DEF IInv
<1> QED BY <1>1, <1>2

\* Every step preserves the invariant.
LEMMA NextSound == IInv /\ [Next]_vars => IInv'
<1> SUFFICES ASSUME IInv, [Next]_vars PROVE IInv' OBVIOUS
<1>1. ASSUME NEW g \in Goals, Create(g) PROVE IInv' BY <1>1, CreateSound
<1>2. ASSUME NEW w \in Drivers, StartTick(w) \/ EndTick(w) PROVE IInv'
      BY <1>2, ScheduleSound
<1>3. ASSUME NEW w \in Drivers, NEW g \in Goals, TickGoal(w, g) PROVE IInv'
      BY <1>3, ComputeSound, AnswerSound DEF TickGoal
<1>4. ASSUME NEW u \in Operators, Operate(u) PROVE IInv' BY <1>4, OperateSound
<1>5. ASSUME Restart \/ \E g \in Goals : RuntimeElapses(g) PROVE IInv'
      BY <1>5, EnvironmentSound
<1>6. CASE UNCHANGED vars
      BY <1>6 DEF vars, IInv, TypeOK, CopiesSound, StoredGoalsSound
<1> QED BY <1>1, <1>2, <1>3, <1>4, <1>5, <1>6 DEF Next

-----------------------------------------------------------------------------
(* The theorems.                                                           *)

\* Every copy of a goal on its way to Redis is sound by the time it is written.
THEOREM Inductive == Spec => []IInv
BY InitSound, NextSound, PTL DEF Spec

\* The records and the copies of the goals always have their shapes; a replan
\* never makes up an id outside the ones allowed for its generation.
THEOREM TypeCorrect == Spec => []TypeOK
BY Inductive, PTL DEF IInv

\* No interleaving of ticks, commands, faults and blind writes makes a copy
\* unsound.
THEOREM CopiesAlwaysSound == Spec => []CopiesSound
BY Inductive, PTL DEF IInv

\* What is said of the goals in Redis follows from their soundness.
LEMMA RecordsSound ==
  StoredGoalsSound => /\ StoredDependenciesFirst
                      /\ StoredCompletedMeansDone
                      /\ StoredNoDeadTask
                      /\ StoredBlockedWaits
                      /\ StoredLimitsHold
BY DEF StoredGoalsSound, Sound, StoredDependenciesFirst, StoredCompletedMeansDone,
       StoredNoDeadTask, StoredBlockedWaits, StoredLimitsHold

\* In Redis, after every replan and every late write, a task that was run,
\* refused or put to the user has all its dependencies DONE.
THEOREM AlwaysDependenciesFirst == Spec => []StoredDependenciesFirst
BY Inductive, RecordsSound, PTL DEF IInv, CopiesSound

\* A goal that Redis shows COMPLETED has a non-empty plan, all of it DONE.
THEOREM AlwaysCompletedMeansDone == Spec => []StoredCompletedMeansDone
BY Inductive, RecordsSound, PTL DEF IInv, CopiesSound

\* No write leaves a task RUNNING, or FAILED in a goal that goes on.
THEOREM NeverDeadTask == Spec => []StoredNoDeadTask
BY Inductive, RecordsSound, PTL DEF IInv, CopiesSound

\* A blocked task keeps its goal paused until somebody resumes or cancels it;
\* AgentRuntime never reactivates it by the expiry of a backoff.
THEOREM AlwaysBlockedWaits == Spec => []StoredBlockedWaits
BY Inductive, RecordsSound, PTL DEF IInv, CopiesSound

\* The step limit, the replan budget and the hard cap on replans are never
\* passed, whatever interleaving of drivers and commands writes the goal.
THEOREM AlwaysLimitsHold == Spec => []StoredLimitsHold
BY Inductive, RecordsSound, PTL DEF IInv, CopiesSound

-----------------------------------------------------------------------------
(* What becomes of the finished tasks.  Every outcome of a step keeps the  *)
(* tasks of the goal and what is finished of them, but a success, which    *)
(* finishes one more, and a replan, which keeps the finished ones because  *)
(* they can be merged (CopiesDated, and MergeIsValid of TaskGraphProofs).  *)

SameTasks(old, new) ==
  /\ Ids(new) = Ids(old)
  /\ DoneIds(new) = DoneIds(old)
  /\ \A i \in TaskId : new[i].deps = old[i].deps

\* r is the goal with its tasks as far as they were.
Keeps(goal, r) ==
  SameTasks(goal.graph, r.graph) /\ r.replans = goal.replans /\ r.plain = goal.plain

\* r is the goal with task t finished.
Finishes(goal, r, t) ==
  /\ t \in Ids(goal.graph) \ DoneIds(goal.graph)
  /\ goal.graph[t].deps \subseteq DoneIds(goal.graph)
  /\ Ids(r.graph) = Ids(goal.graph)
  /\ DoneIds(r.graph) = DoneIds(goal.graph) \cup {t}
  /\ \A i \in TaskId : r.graph[i].deps = goal.graph[i].deps
  /\ r.replans = goal.replans
  /\ r.plain = goal.plain

\* A task that is neither finished by a change nor was before changes nothing.
LEMMA ChangeKeepsTasks ==
  ASSUME NEW gr, NEW t \in TaskId, NEW s, NEW new, Changed(gr, new, t, s),
         gr[t].status \notin {"absent", "done"}, s \notin {"absent", "done"}
  PROVE  SameTasks(gr, new)
BY DEF Changed, SameTasks, Ids, DoneIds, WithStatus

\* A graph that is left alone keeps its tasks.
LEMMA GraphKeepsTasks ==
  ASSUME NEW goal, NEW r, r.graph = goal.graph, r.replans = goal.replans,
         r.plain = goal.plain
  PROVE  Keeps(goal, r)
BY DEF Keeps, SameTasks

\* The two ways in which a goal stays ready for its replans.
LEMMA KeepsDated ==
  ASSUME NEW goal, NEW r, NEW n, Dated(goal, n), Keeps(goal, r)
  PROVE  Dated(r, n)
<1> SUFFICES ASSUME r.plain PROVE Dated(r, n) BY DEF Dated
<1>1. /\ Ids(r.graph) = Ids(goal.graph) /\ DoneIds(r.graph) = DoneIds(goal.graph)
      /\ \A i \in TaskId : r.graph[i].deps = goal.graph[i].deps
      /\ goal.plain
      BY DEF Keeps, SameTasks
<1>2. DoneIds(goal.graph) \subseteq TaskId BY DEF DoneIds, WithStatus
<1>3. Acyclic(r.graph, DoneIds(r.graph))
  <2>1. Acyclic(goal.graph, DoneIds(goal.graph)) BY <1>1 DEF Dated, Mergeable
  <2>2. ASSUME NEW S \in SUBSET DoneIds(goal.graph), Stuck(r.graph, S) PROVE Stuck(goal.graph, S)
        BY <1>1, <1>2, <2>2 DEF Stuck
  <2> QED BY <1>1, <2>1, <2>2 DEF Acyclic
<1>4. Mergeable(r.graph, n) BY <1>1, <1>2, <1>3 DEF Dated, Mergeable
<1> QED BY <1>1, <1>4 DEF Dated

LEMMA FinishesDated ==
  ASSUME NEW goal, NEW r, NEW t, NEW n, Dated(goal, n), Finishes(goal, r, t)
  PROVE  Dated(r, n)
<1> SUFFICES ASSUME r.plain PROVE Dated(r, n) BY DEF Dated
<1>1. goal.plain BY DEF Finishes
<1>2. t \in TaskId /\ t[1] < n BY <1>1 DEF Finishes, Ids, Dated
<1>3. DoneIds(r.graph) \subseteq TaskId BY DEF DoneIds, WithStatus
<1>4. Mergeable(r.graph, n)
  <2>1. Mergeable(goal.graph, n) BY <1>1 DEF Dated
  <2>2. \A i \in DoneIds(r.graph) : r.graph[i].deps = goal.graph[i].deps
        BY <1>3 DEF Finishes
  <2> QED BY <1>2, <2>1, <2>2, FinishMergeable DEF Finishes
<1> QED BY <1>1, <1>4 DEF Dated, Finishes

\* Settled goals, along both ways.
LEMMA StaySettled ==
  ASSUME NEW goal, NEW r, Settled(goal), Keeps(goal, r) \/ \E t : Finishes(goal, r, t)
  PROVE  Settled(r)
<1>1. r.replans = goal.replans BY DEF Keeps, Finishes
<1> QED BY <1>1, KeepsDated, FinishesDated DEF Settled

\* A goal that is ready for a replan is ready for a later one.
LEMMA LaterDated ==
  ASSUME NEW goal \in Goal, Dated(goal, goal.replans)
  PROVE  Settled(goal)
<1> SUFFICES ASSUME goal.plain PROVE Settled(goal) BY DEF Settled, Dated
<1>1. goal.replans \in Nat BY DEF Goal
<1>2. \A i \in TaskId : i[1] \in Nat BY TaskIds
<1>3. \A i \in Ids(goal.graph) : i \in TaskId /\ i[1] < goal.replans + 1
      BY <1>1, <1>2 DEF Dated, Ids
<1>4. DoneIds(goal.graph) \subseteq Ids(goal.graph) BY DEF DoneIds, WithStatus, Ids
<1> QED BY <1>1, <1>3, <1>4 DEF Dated, Settled, Mergeable

\* The outcomes of a step before its task runs.
LEMMA StepsKeep ==
  ASSUME NEW goal \in Goal, Sound(goal), goal.state = "active"
  PROVE  /\ Keeps(goal, Stopped(goal)) /\ Stopped(goal).state = "failed"
         /\ Keeps(goal, Rested(goal)) /\ Rested(goal).state \in {"active", "completed"}
         /\ \A t \in NextTask(goal.graph) :
              /\ Keeps(goal, Blocked(goal, t)) /\ Blocked(goal, t).state = "paused"
              /\ Keeps(goal, Rejected(goal, t))
              /\ Keeps(goal, Started(goal, t))
<1>1. /\ ~goal.exceeded /\ ~HasPermanentlyFailed(goal.graph)
      /\ \A s \in GoalStates : /\ Keeps(goal, Rest(goal, s))
                               /\ Rest(goal, s).state = s
  <2>1. \A s \in GoalStates : /\ Rest(goal, s).graph = goal.graph
                              /\ Rest(goal, s).replans = goal.replans
                              /\ Rest(goal, s).plain = goal.plain
                              /\ Rest(goal, s).state = s
        BY DEF Rest, Goal
  <2> QED BY <2>1, SoundActive, GraphKeepsTasks DEF HasPermanentlyFailed
<1>2. Keeps(goal, Stopped(goal)) /\ Stopped(goal).state = "failed"
      BY <1>1 DEF Stopped, GoalStates
<1>3. Keeps(goal, Rested(goal)) /\ Rested(goal).state \in {"active", "completed"}
      BY <1>1 DEF Rested, GoalStates
<1>4. ASSUME NEW t \in NextTask(goal.graph)
      PROVE  /\ Keeps(goal, Blocked(goal, t)) /\ Blocked(goal, t).state = "paused"
             /\ Keeps(goal, Rejected(goal, t))
             /\ Keeps(goal, Started(goal, t))
  <2>1. t \in TaskId /\ goal.graph[t].status = "pending" /\ goal.graph \in Graph
        BY NextTasks DEF Goal
  <2>2. goal.graph[t].maxRetries \in Nat BY <2>1 DEF Graph, Node
  <2>3. /\ SameTasks(goal.graph, Mark(goal.graph, t, "blocked"))
        /\ SameTasks(goal.graph, Mark(goal.graph, t, "running"))
        BY <2>1, <2>2, MarksChange, ChangeKeepsTasks DEF Statuses
  <2>4. SameTasks(goal.graph, Attempted(goal.graph, t, "failed", goal.graph[t].maxRetries))
        BY <2>1, <2>2, MarksChange, ChangeKeepsTasks DEF Statuses
  <2>5. /\ Blocked(goal, t).graph = Mark(goal.graph, t, "blocked")
        /\ Blocked(goal, t).replans = goal.replans /\ Blocked(goal, t).state = "paused"
        /\ Blocked(goal, t).plain = goal.plain
        /\ Rejected(goal, t).graph = Attempted(goal.graph, t, "failed", goal.graph[t].maxRetries)
        /\ Rejected(goal, t).replans = goal.replans /\ Rejected(goal, t).plain = goal.plain
        /\ Started(goal, t).graph = Mark(goal.graph, t, "running")
        /\ Started(goal, t).replans = goal.replans /\ Started(goal, t).plain = goal.plain
        BY DEF Blocked, Rejected, Started, Goal
  <2> QED BY <2>3, <2>4, <2>5 DEF Keeps
<1> QED BY <1>2, <1>3, <1>4

\* The outcomes of a task.
LEMMA TasksKeep ==
  ASSUME NEW goal \in Goal, NEW t, Executing(goal, t)
  PROVE  /\ Keeps(goal, FailedOnce(goal, t)) /\ FailedOnce(goal, t).state = "active"
         /\ Finishes(goal, Succeeded(goal, t), t) /\ Succeeded(goal, t).state = "active"
<1>1. /\ t \in TaskId /\ goal.graph[t].status = "running" /\ goal.graph \in Graph
      /\ goal.state = "active" /\ DependenciesFirst(goal)
      BY ExecutedTask DEF Executing, Going
<1>2. goal.graph[t].retries + 1 \in Nat BY <1>1 DEF Graph, Node
<1> DEFINE s == IF CanRetry(goal, t) THEN "pending" ELSE "failed"
           marked == Mark(goal.graph, t, "done")
           tried == Attempted(goal.graph, t, s, goal.graph[t].retries + 1)
<1>3. s \in {"pending", "failed"} OBVIOUS
<1>4. /\ FailedOnce(goal, t).graph = tried /\ FailedOnce(goal, t).replans = goal.replans
      /\ FailedOnce(goal, t).state = goal.state /\ FailedOnce(goal, t).plain = goal.plain
      /\ Succeeded(goal, t).graph = marked /\ Succeeded(goal, t).replans = goal.replans
      /\ Succeeded(goal, t).state = goal.state /\ Succeeded(goal, t).plain = goal.plain
      BY DEF FailedOnce, Succeeded, Goal
<1> HIDE DEF s
<1>5. Changed(goal.graph, tried, t, s) BY <1>1, <1>2, <1>3, MarksChange DEF Statuses
<1>6. Changed(goal.graph, marked, t, "done")
      BY <1>1, MarksChange, 0 \in Nat DEF Statuses
<1> HIDE DEF marked, tried
<1>7. SameTasks(goal.graph, tried) BY <1>1, <1>3, <1>5, ChangeKeepsTasks
<1>8. /\ Ids(marked) = Ids(goal.graph) /\ DoneIds(marked) = DoneIds(goal.graph) \cup {t}
      /\ t \in Ids(goal.graph) \ DoneIds(goal.graph)
      /\ \A i \in TaskId : marked[i].deps = goal.graph[i].deps
      BY <1>1, <1>6 DEF Changed, Ids, DoneIds, WithStatus
<1>9. goal.graph[t].deps \subseteq DoneIds(goal.graph)
      BY <1>1 DEF DependenciesFirst, Touched
<1> QED BY <1>1, <1>4, <1>7, <1>8, <1>9 DEF Keeps, Finishes

\* The ends of a goal that wants another plan and gets none; the beginning of a
\* replan only counts it.
LEMMA ReplansKeep ==
  ASSUME NEW goal \in Goal, NEW storm \in BOOLEAN
  PROVE  /\ Keeps(goal, ReplanRefused(goal, storm))
         /\ ReplanRefused(goal, storm).state = "failed"
         /\ Keeps(goal, PlanningFailed(goal)) /\ PlanningFailed(goal).state = "failed"
         /\ ReplanStarted(goal).graph = goal.graph
         /\ ReplanStarted(goal).replans = goal.replans + 1
         /\ ReplanStarted(goal).plain = goal.plain
<1>1. /\ ReplanRefused(goal, storm).graph = goal.graph
      /\ ReplanRefused(goal, storm).replans = goal.replans
      /\ ReplanRefused(goal, storm).state = "failed"
      /\ ReplanRefused(goal, storm).plain = goal.plain
      BY DEF ReplanRefused, Goal
<1>2. /\ PlanningFailed(goal).graph = goal.graph
      /\ PlanningFailed(goal).replans = goal.replans /\ PlanningFailed(goal).state = "failed"
      /\ PlanningFailed(goal).plain = goal.plain
      BY DEF PlanningFailed, Goal
<1>3. /\ ReplanStarted(goal).graph = goal.graph
      /\ ReplanStarted(goal).replans = goal.replans + 1
      /\ ReplanStarted(goal).plain = goal.plain
      BY DEF ReplanStarted, Goal
<1> QED BY <1>1, <1>2, <1>3, GraphKeepsTasks

\* No command touches the tasks' dependencies or what is finished.
LEMMA CommandsKeep ==
  ASSUME NEW goal \in Goal, NEW kind \in CommandKinds
  PROVE  Keeps(goal, Effect(kind, goal))
<1>1. CASE kind = "resume"
  <2>1. /\ Effect(kind, goal).graph = Unblock(goal.graph)
        /\ Effect(kind, goal).replans = goal.replans /\ Effect(kind, goal).plain = goal.plain
        BY <1>1 DEF Effect, Goal, Modes
  <2>2. ASSUME NEW i \in TaskId
        PROVE  LET new == Unblock(goal.graph)[i] IN
               /\ new.deps = goal.graph[i].deps
               /\ new.status = IF goal.graph[i].status = "blocked" THEN "pending"
                                                                  ELSE goal.graph[i].status
    <3>1. goal.graph[i] \in Node BY DEF Goal, Graph
    <3>2. Unblock(goal.graph)[i] = IF goal.graph[i].status = "blocked"
                                   THEN [goal.graph[i] EXCEPT !.status = "pending"]
                                   ELSE goal.graph[i]
          BY DEF Unblock
    <3> QED BY <3>1, <3>2 DEF Node
  <2>3. SameTasks(goal.graph, Unblock(goal.graph))
        BY <2>2 DEF SameTasks, Ids, DoneIds, WithStatus
  <2> QED BY <2>1, <2>3 DEF Keeps
<1>2. CASE kind # "resume"
  <2>1. Effect(kind, goal) \in {Paused(goal), Failed(goal),
                                [goal EXCEPT !.state = "active", !.backoff = FALSE,
                                             !.failures = 0],
                                [goal EXCEPT !.mode = kind]}
        BY <1>2 DEF Effect, CommandKinds, Modes
  <2>2. /\ Effect(kind, goal).graph = goal.graph
        /\ Effect(kind, goal).replans = goal.replans /\ Effect(kind, goal).plain = goal.plain
        BY <2>1 DEF Paused, Failed, Goal
  <2> QED BY <2>2, GraphKeepsTasks
<1> QED BY <1>1, <1>2

\* The merge of a replan keeps what is finished, and dates the goal.
LEMMA ReplannedKeeps ==
  ASSUME NEW goal \in Goal, Replanning(goal), Dated(goal, goal.replans), goal.plain,
         NEW plan \in Plans
  PROVE  /\ Replanned(goal, plan).state = "active"
         /\ DoneIds(Replanned(goal, plan).graph) = DoneIds(goal.graph)
         /\ Settled(Replanned(goal, plan))
<1> DEFINE n == goal.replans
           old == goal.graph
           new == MergeReplan(old, n, plan)
           r == Replanned(goal, plan)
<1>1. r.graph = new /\ r.replans = n /\ r.state = goal.state /\ goal.state = "active"
      BY DEF Replanned, Goal, Replanning, Going
<1>2. old \in Graph /\ n \in Nat /\ n \in 1 .. MaxReplanCount /\ Mergeable(old, n)
      BY ReplanCapAssumption DEF Dated, Replanning, Going, LimitsHold, Goal
<1>3. PlainPlan(plan) BY PlansAssumption DEF FreshPlan, PlainPlan, Ids
<1>4. /\ new = Merged(old, n, plan)
      /\ Closed(Merged(old, n, plan)) /\ Acyclic(Merged(old, n, plan), Ids(Merged(old, n, plan)))
      BY <1>2, <1>3, MergeIsValid
<1>5. /\ \A i \in DoneIds(old) : new[i] = old[i]
      /\ \A j \in Ids(new) \ DoneIds(old) :
           <<0, j[2]>> \in Ids(plan) /\ j = Renamed(old, n, <<0, j[2]>>)
      /\ DoneIds(new) = DoneIds(old)
      BY <1>2, <1>3, <1>4, MergedTasks
<1> HIDE DEF new, old, n
<1>6. ASSUME NEW i \in Ids(new) PROVE i[1] < n + 1
  <2>1. i \in TaskId /\ i[1] \in Nat BY TaskIds DEF Ids
  <2>2. CASE i \in DoneIds(old)
    <3>1. i[1] < n BY <1>2, <2>2 DEF Mergeable
    <3> QED BY <1>2, <2>1, <3>1
  <2>3. CASE i \notin DoneIds(old)
    <3>1. i = Renamed(old, n, <<0, i[2]>>) BY <1>5, <2>3
    <3>2. Renamed(old, n, <<0, i[2]>>)[1] \in {0, n} BY DEF Renamed
    <3> QED BY <1>2, <3>1, <3>2
  <2> QED BY <2>2, <2>3
<1>7. Mergeable(new, n + 1)
  <2>1. DoneIds(new) \subseteq Ids(new) BY DEF DoneIds, WithStatus, Ids
  <2>2. Acyclic(new, DoneIds(new)) BY <1>4, <2>1 DEF Acyclic
  <2> QED BY <1>2, <1>5, <1>6, <2>1, <2>2 DEF Mergeable
<1> HIDE DEF r
<1>8. Settled(r) BY <1>1, <1>2, <1>6, <1>7 DEF Settled, Dated
<1> QED BY <1>1, <1>5, <1>8 DEF r, old

\* Of a goal with other ids a replan keeps all that is finished or nothing.
LEMMA ReplannedLooses ==
  ASSUME NEW goal \in Goal, Replanning(goal), NEW plan \in Plans
  PROVE  /\ Replanned(goal, plan).state = "active"
         /\ Replanned(goal, plan).plain = goal.plain
         /\ DoneIds(Replanned(goal, plan).graph) \in {DoneIds(goal.graph), {}}
<1> DEFINE n == goal.replans
           old == goal.graph
           new == Relabelled(old, n, plan)
           both == Merged(old, n, plan)
<1>1. old \in Graph /\ n \in 0 .. MaxReplanCount
      BY ReplanCapAssumption DEF Replanning, Going, LimitsHold, Goal
<1>2. Untouched(new) BY <1>1, FreshPlans, Relabels
<1>3. \A j \in TaskId : both[j] = IF j \in DoneIds(old) THEN old[j] ELSE new[j]
      BY DEF Merged
<1>4. /\ Replanned(goal, plan).graph \in {both, new}
      /\ Replanned(goal, plan).state = "active" /\ Replanned(goal, plan).plain = goal.plain
      BY DEF Replanned, MergeReplan, Goal, Replanning, Going
<1> HIDE DEF new, both, old
<1>5. DoneIds(new) = {} BY <1>2, UntouchedGraphs DEF DoneIds
<1>6. DoneIds(both) = DoneIds(old)
      BY <1>2, <1>3 DEF DoneIds, WithStatus, Untouched
<1> QED BY <1>4, <1>5, <1>6 DEF old

\* A goal whose tasks are of a planner's first answer, none of them done.
LEMMA UnstartedSettled ==
  ASSUME NEW r, r.replans \in Nat, DoneIds(r.graph) = {}, \A i \in Ids(r.graph) : i[1] = 0
  PROVE  Settled(r)
BY DEF Settled, Dated, Mergeable, Acyclic, Stuck

\* New goals, with and without their first graphs.
LEMMA FirstGoalsSettled ==
  /\ \A mode : /\ NewGoal(mode).graph = EmptyGraph /\ NewGoal(mode).plain
               /\ Settled(NewGoal(mode))
  /\ NoGoal.graph = EmptyGraph /\ NoGoal.state = "absent" /\ NoGoal.plain /\ Settled(NoGoal)
  /\ DoneIds(EmptyGraph) = {}
  /\ \A goal \in Goal, plan \in Plans :
       LET r == Planned(goal, plan) IN
       r.state = "active" /\ r.plain = goal.plain /\ DoneIds(r.graph) = {} /\ Settled(r)
  /\ \A goal \in Goal, gr \in Templates :
       LET r == FromTemplate(goal, gr) IN
       r.state = "active" /\ DoneIds(r.graph) = {} /\ Settled(r)
<1>1. DoneIds(EmptyGraph) = {} /\ Ids(EmptyGraph) = {}
      BY DEF DoneIds, WithStatus, Ids, EmptyGraph, AbsentNode
<1>2. \A mode : /\ NewGoal(mode).graph = EmptyGraph /\ NewGoal(mode).replans = 0
                /\ NewGoal(mode).plain
      BY DEF NewGoal
<1>3. /\ NoGoal.graph = EmptyGraph /\ NoGoal.state = "absent" /\ NoGoal.replans = 0
      /\ NoGoal.plain
      BY DEF NoGoal, NewGoal
<1>4. ASSUME NEW goal \in Goal, NEW plan \in Plans
      PROVE  /\ Planned(goal, plan).state = "active" /\ Planned(goal, plan).plain = goal.plain
             /\ DoneIds(Planned(goal, plan).graph) = {} /\ Settled(Planned(goal, plan))
  <2>1. /\ Planned(goal, plan).graph = Truncate(plan, MaxPlanSteps)
        /\ Planned(goal, plan).replans \in Nat
        /\ Planned(goal, plan).state = "active" /\ Planned(goal, plan).plain = goal.plain
        BY DEF Planned, Goal
  <2>2. DoneIds(plan) = {} /\ \A i \in Ids(plan) : i[1] = 0
        BY PlansAssumption DEF FreshPlan, DoneIds, WithStatus, Ids
  <2>3. \A i \in TaskId : Truncate(plan, MaxPlanSteps)[i] \in {plan[i], AbsentNode}
        BY DEF Truncate
  <2>4. /\ DoneIds(Truncate(plan, MaxPlanSteps)) = {}
        /\ \A i \in Ids(Truncate(plan, MaxPlanSteps)) : i[1] = 0
        BY <2>2, <2>3 DEF DoneIds, WithStatus, Ids, AbsentNode
  <2> QED BY <2>1, <2>4, UnstartedSettled
<1>5. ASSUME NEW goal \in Goal, NEW gr \in Templates
      PROVE  /\ FromTemplate(goal, gr).state = "active"
             /\ DoneIds(FromTemplate(goal, gr).graph) = {} /\ Settled(FromTemplate(goal, gr))
  <2>1. /\ FromTemplate(goal, gr).graph = gr /\ FromTemplate(goal, gr).replans \in Nat
        /\ FromTemplate(goal, gr).state = "active"
        /\ FromTemplate(goal, gr).plain = PlainIds(gr)
        BY DEF FromTemplate, Goal
  <2>2. DoneIds(gr) = {} BY Blueprints, UntouchedGraphs DEF DoneIds
  <2>3. CASE PlainIds(gr) BY <2>1, <2>2, <2>3, UnstartedSettled DEF PlainIds
  <2>4. CASE ~PlainIds(gr) BY <2>1, <2>2, <2>4 DEF Settled, Dated
  <2> QED BY <2>1, <2>2, <2>3, <2>4
<1>6. Settled(NoGoal) /\ \A mode : Settled(NewGoal(mode))
      BY <1>1, <1>2, <1>3, UnstartedSettled
<1> QED BY <1>1, <1>2, <1>3, <1>4, <1>5, <1>6

\* Moving a step along, up to the save, keeps every copy ready for its replans.
LEMMA MoveDated ==
  ASSUME IInv, CopiesDated, NEW w \in Drivers, NEW g \in Goals, NEW state,
         DatedTick(state), Move(w, g, state)
  PROVE  CopiesDated'
<1>1. \A x \in Drivers, h \in Goals : tick'[x][h] \in {state, tick[x][h]}
      BY DEF Move, IInv, TypeOK
<1> QED BY <1>1 DEF CopiesDated, Move

LEMMA ToSaveDated ==
  ASSUME IInv, CopiesDated, NEW w \in Drivers, NEW g \in Goals, NEW goal \in Goal,
         Settled(goal), ToSave(w, g, goal)
  PROVE  CopiesDated'
<1> DEFINE state == [tick[w][g] EXCEPT !.pc = "save", !.goal = goal]
<1>1. tick[w][g] \in TickState BY DEF IInv, TypeOK
<1>2. state.pc = "save" /\ state.goal = goal BY <1>1 DEF TickState
<1>3. Move(w, g, state) BY DEF ToSave
<1> HIDE DEF state
<1>4. DatedTick(state) BY <1>2 DEF DatedTick
<1> QED BY <1>3, <1>4, MoveDated

\* Creating a goal.
LEMMA CreateDated ==
  ASSUME IInv, CopiesDated, NEW g \in Goals, Create(g)
  PROVE  CopiesDated'
<1>1. ASSUME NEW goal, Settled(goal), NEW m, Settled(m.goal),
             store' = [store EXCEPT ![g] = goal], maker' = [maker EXCEPT ![g] = m],
             UNCHANGED <<tick, command>>
      PROVE  CopiesDated'
      BY <1>1 DEF CopiesDated, IInv, TypeOK
<1>2. maker[g].goal \in Goal /\ Settled(maker[g].goal)
      BY DEF IInv, TypeOK, MakerState, CopiesDated
<1>3. ASSUME NEW mode \in FirstModes, CreateGoal(g, mode) PROVE CopiesDated'
  <2> DEFINE m == [pc |-> "planning", goal |-> NewGoal(mode)]
  <2>1. Settled(NewGoal(mode)) /\ m.goal = NewGoal(mode) BY FirstGoalsSettled
  <2> QED BY <1>1, <1>3, <2>1 DEF CreateGoal
<1>4. ASSUME NEW goal, Settled(goal), EndCreate(g, goal) PROVE CopiesDated'
  <2> DEFINE m == [pc |-> "done", goal |-> NoGoal]
  <2>1. Settled(NoGoal) /\ m.goal = NoGoal BY FirstGoalsSettled
  <2> QED BY <1>1, <1>4, <2>1 DEF EndCreate
<1>5. ASSUME NEW plan \in Plans, PlanGoal(g, plan) PROVE CopiesDated'
  <2>1. Settled(Planned(maker[g].goal, plan)) BY <1>2, FirstGoalsSettled
  <2> QED BY <1>4, <1>5, <2>1 DEF PlanGoal
<1>6. ASSUME NEW gr \in Templates, UseTemplate(g, gr) PROVE CopiesDated'
  <2>1. Settled(FromTemplate(maker[g].goal, gr)) BY <1>2, FirstGoalsSettled
  <2> QED BY <1>4, <1>6, <2>1 DEF UseTemplate
<1>7. ASSUME FailToPlan(g) PROVE CopiesDated'
  <2>1. Settled(PlanningFailed(maker[g].goal)) BY <1>2, ReplansKeep, StaySettled
  <2> QED BY <1>4, <1>7, <2>1 DEF FailToPlan
<1> QED BY <1>3, <1>5, <1>6, <1>7 DEF Create

\* The steps of a driver, up to the save.
LEMMA StepDated ==
  ASSUME IInv, CopiesDated, NEW w \in Drivers, NEW g \in Goals,
         (Compute(w, g) /\ ~SaveStep(w, g)) \/ Answer(w, g)
  PROVE  CopiesDated'
<1> DEFINE here == tick[w][g]
<1>1. /\ store[g] \in Goal /\ Sound(store[g]) /\ Settled(store[g])
      /\ here \in TickState /\ here.goal \in Goal /\ SoundTick(here) /\ DatedTick(here)
      BY Loaded DEF IInv, TypeOK, CopiesSound, TickState, CopiesDated
<1>2. here.pc # "plan" => Settled(here.goal) BY <1>1 DEF DatedTick
<1>3. ASSUME NEW goal \in Goal, NEW r \in Goal, Settled(goal),
             Keeps(goal, r) \/ \E t : Finishes(goal, r, t), ToSave(w, g, r)
      PROVE  CopiesDated'
      BY <1>3, StaySettled, ToSaveDated
<1>4. CASE LeaveGoal(w, g)
  <2>1. DatedTick(IdleTick) BY FirstGoalsSettled DEF DatedTick, IdleTick
  <2> QED BY <1>4, <2>1, MoveDated DEF LeaveGoal
<1>5. CASE WaitBackoff(w, g) BY <1>1, <1>5, ToSaveDated DEF WaitBackoff
<1>6. CASE StopAtLimit(w, g)
      BY <1>1, <1>3, <1>6, StepsKeep, StoppedSound DEF StopAtLimit
<1>7. CASE FindNoTask(w, g)
      BY <1>1, <1>3, <1>7, StepsKeep, RestedSound DEF FindNoTask, MayStep
<1>8. CASE BlockTask(w, g)
  <2>1. PICK t \in NextTask(store[g].graph) : ToSave(w, g, Blocked(store[g], t))
        BY <1>8 DEF BlockTask
  <2>2. store[g].state = "active" BY <1>8 DEF BlockTask, MayStep
  <2>3. Blocked(store[g], t) \in Goal BY <1>1, <2>1, <2>2, BlockedSound
  <2>4. Keeps(store[g], Blocked(store[g], t)) BY <1>1, <2>1, <2>2, StepsKeep
  <2> QED BY <1>1, <1>3, <2>1, <2>3, <2>4
<1>9. CASE RejectTask(w, g)
  <2>1. PICK t \in NextTask(store[g].graph) :
          Move(w, g, [here EXCEPT !.pc = "replan", !.goal = Rejected(store[g], t)])
        BY <1>9 DEF RejectTask
  <2>2. store[g].state = "active" BY <1>9 DEF RejectTask, MayStep
  <2> DEFINE goal == Rejected(store[g], t)
             state == [here EXCEPT !.pc = "replan", !.goal = goal]
  <2>3. Settled(goal) BY <1>1, <2>1, <2>2, StepsKeep, StaySettled
  <2> HIDE DEF goal
  <2>4. state.pc = "replan" /\ state.goal = goal BY <1>1 DEF TickState
  <2>5. DatedTick(state) BY <2>3, <2>4 DEF DatedTick
  <2> QED BY <2>1, <2>5, MoveDated DEF goal
<1>10. CASE ExecuteTask(w, g)
  <2>1. PICK t \in NextTask(store[g].graph) :
          Move(w, g, [here EXCEPT !.pc = "execute", !.task = t,
                                  !.goal = Started(store[g], t)])
        BY <1>10 DEF ExecuteTask
  <2>2. store[g].state = "active" BY <1>10 DEF ExecuteTask, MayStep
  <2> DEFINE goal == Started(store[g], t)
             state == [here EXCEPT !.pc = "execute", !.task = t, !.goal = goal]
  <2>3. Settled(goal) BY <1>1, <2>1, <2>2, StepsKeep, StaySettled
  <2> HIDE DEF goal
  <2>4. state.pc = "execute" /\ state.goal = goal BY <1>1 DEF TickState
  <2>5. DatedTick(state) BY <2>3, <2>4 DEF DatedTick
  <2> QED BY <2>1, <2>5, MoveDated DEF goal
<1>11. CASE RefuseReplan(w, g)
  <2>1. Replanning(here.goal) /\ Settled(here.goal)
        BY <1>1, <1>2, <1>11 DEF RefuseReplan, SoundTick
  <2>2. PICK storm \in BOOLEAN :
          ToSave(w, g, IF storm \/ ReplanSpent(here.goal)
                       THEN ReplanRefused(here.goal, storm)
                       ELSE here.goal)
        BY <1>11 DEF RefuseReplan
  <2>3. ReplanRefused(here.goal, storm) \in Goal BY <1>1, <2>1, ReplanRefusedSound
  <2>4. Settled(ReplanRefused(here.goal, storm)) BY <1>1, <2>1, ReplansKeep, StaySettled
  <2> QED BY <1>1, <2>1, <2>2, <2>3, <2>4, ToSaveDated
<1>12. CASE AskPlanner(w, g)
  <2> DEFINE goal == ReplanStarted(here.goal)
             state == [here EXCEPT !.pc = "plan", !.goal = goal]
  <2>1. Settled(here.goal) /\ Move(w, g, state) BY <1>2, <1>12 DEF AskPlanner
  <2>2. Dated(goal, goal.replans) BY <1>1, <2>1, ReplansKeep DEF Settled, Dated
  <2> HIDE DEF goal
  <2>3. state.pc = "plan" /\ state.goal = goal BY <1>1 DEF TickState
  <2> HIDE DEF state
  <2>4. DatedTick(state) BY <2>2, <2>3 DEF DatedTick
  <2> QED BY <2>1, <2>4, MoveDated
<1>13. CASE TaskSucceeds(w, g)
  <2>1. /\ here.pc = "execute" /\ Executing(here.goal, here.task)
        /\ ToSave(w, g, Succeeded(here.goal, here.task))
        BY <1>1, <1>13 DEF TaskSucceeds, SoundTick
  <2> QED BY <1>1, <1>2, <1>3, <2>1, TasksKeep, SucceededSound
<1>14. CASE TaskFails(w, g)
  <2> DEFINE goal == FailedOnce(here.goal, here.task)
             pc == IF CanRetry(here.goal, here.task) THEN "save" ELSE "replan"
             state == [here EXCEPT !.pc = pc, !.goal = goal]
  <2>1. here.pc = "execute" /\ Executing(here.goal, here.task) /\ Move(w, g, state)
        BY <1>1, <1>14 DEF TaskFails, SoundTick
  <2>2. Settled(goal) BY <1>1, <1>2, <2>1, TasksKeep, StaySettled
  <2>3. pc # "plan" OBVIOUS
  <2> HIDE DEF goal, pc
  <2>4. state.pc = pc /\ state.goal = goal BY <1>1 DEF TickState
  <2> HIDE DEF state
  <2>5. DatedTick(state) BY <2>2, <2>3, <2>4 DEF DatedTick
  <2> QED BY <2>1, <2>5, MoveDated
<1>15. CASE GetNoPlan(w, g)
  <2>1. /\ here.pc = "plan" /\ Replanning(here.goal)
        /\ ToSave(w, g, PlanningFailed(here.goal))
        BY <1>1, <1>15 DEF GetNoPlan, SoundTick
  <2>2. Dated(here.goal, here.goal.replans) BY <1>1, <2>1 DEF DatedTick
  <2>3. Settled(here.goal) BY <1>1, <2>2, LaterDated
  <2> QED BY <1>1, <1>3, <2>1, <2>3, ReplansKeep, PlanningFailedSound
<1>16. ASSUME NEW plan \in Plans, AcceptPlan(w, g, plan) PROVE CopiesDated'
  <2>1. /\ here.pc = "plan" /\ Replanning(here.goal)
        /\ ToSave(w, g, Replanned(here.goal, plan))
        BY <1>1, <1>16 DEF AcceptPlan, SoundTick
  <2>2. Dated(here.goal, here.goal.replans) BY <1>1, <2>1 DEF DatedTick
  <2>3. CASE here.goal.plain
        BY <1>1, <2>1, <2>2, <2>3, ReplannedKeeps, ReplannedSound, ToSaveDated
  <2>4. CASE ~here.goal.plain
    <3>1. ~Replanned(here.goal, plan).plain BY <1>1, <2>1, <2>4, ReplannedLooses
    <3>2. Settled(Replanned(here.goal, plan)) BY <3>1 DEF Settled, Dated
    <3> QED BY <1>1, <2>1, <3>2, ReplannedSound, ToSaveDated
  <2> QED BY <2>3, <2>4
<1> QED BY <1>4, <1>5, <1>6, <1>7, <1>8, <1>9, <1>10, <1>11, <1>12, <1>13, <1>14, <1>15, <1>16
        DEF Compute, Answer

\* The save, and a step that raises.
LEMMA EndDated ==
  ASSUME IInv, CopiesDated, NEW w \in Drivers, NEW g \in Goals,
         SaveStep(w, g) \/ StepRaises(w, g)
  PROVE  CopiesDated'
<1>1. \A n : DatedTick([IdleTick EXCEPT !.pc = "load", !.n = n]) /\ DatedTick(IdleTick)
      BY FirstGoalsSettled DEF DatedTick, IdleTick
<1>2. CASE SaveStep(w, g)
  <2> DEFINE here == tick[w][g]
             next == IF MoreSteps(here.goal, here.n)
                     THEN [IdleTick EXCEPT !.pc = "load", !.n = here.n + 1]
                     ELSE IdleTick
  <2>1. /\ here.pc = "save" /\ store' = [store EXCEPT ![g] = here.goal]
        /\ tick' = [tick EXCEPT ![w][g] = next] /\ UNCHANGED <<maker, command>>
        BY <1>2 DEF SaveStep
  <2>2. Settled(here.goal) BY <2>1 DEF CopiesDated, DatedTick
  <2>3. DatedTick(next) BY <1>1
  <2> HIDE DEF next
  <2>4. \A x \in Drivers, h \in Goals : tick'[x][h] \in {next, tick[x][h]}
        BY <2>1 DEF IInv, TypeOK
  <2>5. \A h \in Goals : store'[h] \in {here.goal, store[h]} BY <2>1 DEF IInv, TypeOK
  <2> QED BY <2>1, <2>2, <2>3, <2>4, <2>5 DEF CopiesDated
<1>3. CASE StepRaises(w, g)
  <2>1. \A x \in Drivers, h \in Goals : tick'[x][h] \in {IdleTick, tick[x][h]}
        BY <1>3 DEF StepRaises, IInv, TypeOK
  <2>2. UNCHANGED <<store, maker, command>> BY <1>3 DEF StepRaises
  <2> QED BY <1>1, <2>1, <2>2 DEF CopiesDated
<1> QED BY <1>2, <1>3

\* Commands.
LEMMA OperateDated ==
  ASSUME IInv, CopiesDated, NEW u \in Operators, Operate(u)
  PROVE  CopiesDated'
<1>1. ASSUME NEW c, Settled(c.goal), command' = [command EXCEPT ![u] = c],
             \A g \in Goals : Settled(store'[g]), UNCHANGED <<maker, tick>>
      PROVE  CopiesDated'
      BY <1>1 DEF CopiesDated, IInv, TypeOK
<1>2. Settled(NoGoal) /\ Settled(IdleCommand.goal) BY FirstGoalsSettled DEF IdleCommand
<1>3. \A g \in Goals : Settled(store[g]) /\ store[g] \in Goal
      BY DEF CopiesDated, IInv, TypeOK
<1>4. ASSUME NEW kind \in Commands, NEW g \in Goals, IssueCommand(u, kind, g)
      PROVE  CopiesDated'
  <2> DEFINE c == [pc |-> "save", kind |-> kind, id |-> g, goal |-> Effect(kind, store[g])]
  <2>1. Settled(c.goal) BY <1>3, CommandsKeep, StaySettled, EngineAssumption
  <2> QED BY <1>1, <1>3, <1>4, <2>1 DEF IssueCommand
<1>5. ASSUME NEW g \in Goals, IssueDelete(u, g) PROVE CopiesDated'
  <2> DEFINE c == [pc |-> "hdel", kind |-> "delete", id |-> g, goal |-> NoGoal]
  <2>1. Settled(c.goal) BY <1>2
  <2> QED BY <1>1, <1>3, <1>5, <2>1 DEF IssueDelete
<1>6. ASSUME NEW g \in Goals, SaveCommand(u, g) PROVE CopiesDated'
  <2> DEFINE here == command[u]
             c == IF here.kind = "delete"
                  THEN [here EXCEPT !.pc = "hdel", !.goal = NoGoal]
                  ELSE IdleCommand
  <2>1. here \in CommandState /\ Settled(here.goal) BY DEF IInv, TypeOK, CopiesDated
  <2>2. Settled(c.goal) BY <1>2, <2>1 DEF CommandState
  <2>3. command' = [command EXCEPT ![u] = c] BY <1>6 DEF SaveCommand, IInv, TypeOK
  <2>4. \A h \in Goals : Settled(store'[h])
        BY <1>3, <1>6, <2>1 DEF SaveCommand, IInv, TypeOK
  <2> HIDE DEF c
  <2> QED BY <1>1, <1>6, <2>2, <2>3, <2>4 DEF SaveCommand
<1>7. ASSUME NEW g \in Goals, HardDelete(u, g) PROVE CopiesDated'
  <2>1. \A h \in Goals : Settled(store'[h])
        BY <1>2, <1>3, <1>7 DEF HardDelete, IInv, TypeOK
  <2> QED BY <1>1, <1>2, <1>7, <2>1 DEF HardDelete
<1> QED BY <1>4, <1>5, <1>6, <1>7 DEF Operate

\* Every step keeps every copy ready for its replans.
LEMMA NextDated == IInv /\ CopiesDated /\ [Next]_vars => CopiesDated'
<1> SUFFICES ASSUME IInv, CopiesDated, [Next]_vars PROVE CopiesDated' OBVIOUS
<1>1. Settled(NoGoal) /\ DatedTick(IdleTick) /\ DatedTick([IdleTick EXCEPT !.pc = "load"])
      BY FirstGoalsSettled DEF DatedTick, IdleTick
<1>2. ASSUME NEW w \in Drivers, StartTick(w) PROVE CopiesDated'
  <2> DEFINE loading == [IdleTick EXCEPT !.pc = "load"]
  <2>1. PICK S \in SUBSET Goals :
          tick' = [tick EXCEPT ![w] = [g \in Goals |-> IF g \in S THEN loading
                                                                 ELSE IdleTick]]
        BY <1>2 DEF StartTick
  <2>2. DatedTick(loading) BY <1>1
  <2> HIDE DEF loading
  <2>3. \A x \in Drivers, h \in Goals : tick'[x][h] \in {loading, IdleTick, tick[x][h]}
        BY <2>1 DEF IInv, TypeOK
  <2> QED BY <1>1, <1>2, <2>2, <2>3 DEF StartTick, CopiesDated
<1>3. ASSUME NEW w \in Drivers, EndTick(w) PROVE CopiesDated'
  <2>1. PICK old : store' = [g \in Goals |-> IF g \in old THEN NoGoal ELSE store[g]]
        BY <1>3 DEF EndTick
  <2> QED BY <1>1, <1>3, <2>1 DEF EndTick, CopiesDated
<1>4. CASE Restart
  <2>1. \A g \in Goals : maker'[g].goal \in {NoGoal, maker[g].goal}
        BY <1>4 DEF Restart
  <2>2. /\ store' = store /\ \A u \in Operators : command'[u].goal = NoGoal
        /\ \A w \in Drivers, g \in Goals : tick'[w][g] = IdleTick
        BY <1>4 DEF Restart, IdleCommand
  <2> QED BY <1>1, <2>1, <2>2 DEF CopiesDated
<1>5. ASSUME NEW g \in Goals, RuntimeElapses(g) PROVE CopiesDated'
      BY <1>5 DEF RuntimeElapses, CopiesDated
<1>6. CASE UNCHANGED vars BY <1>6 DEF vars, CopiesDated
<1>7. ASSUME NEW g \in Goals, Create(g) PROVE CopiesDated' BY <1>7, CreateDated
<1>8. ASSUME NEW w \in Drivers, NEW g \in Goals, TickGoal(w, g) PROVE CopiesDated'
      BY <1>8, StepDated, EndDated DEF TickGoal
<1>9. ASSUME NEW u \in Operators, Operate(u) PROVE CopiesDated' BY <1>9, OperateDated
<1> QED BY <1>2, <1>3, <1>4, <1>5, <1>6, <1>7, <1>8, <1>9 DEF Next

\* Whatever ticks, commands and faults interleave, a replan of a goal with plain
\* ids can always keep what is finished: no id it makes up is in use, and the
\* finished tasks are no obstacle to the validation of the merge.
THEOREM ReplansCanMerge == Spec => []CopiesDated
<1>1. Init => CopiesDated
      BY FirstGoalsSettled DEF Init, CopiesDated, DatedTick, IdleTick, IdleCommand
<1> QED BY <1>1, NextDated, Inductive, PTL DEF Spec

\* Both at once: whichever copy is written next, the record is sound, and if its
\* ids are plain its next replan can keep what is finished.
THEOREM CopiesStayInOrder == Spec => []CopiesInOrder
BY CopiesAlwaysSound, ReplansCanMerge, PTL DEF CopiesInOrder

-----------------------------------------------------------------------------
(* The engine that nothing disturbs: one driver, and one user who only     *)
(* resumes.  Then the state of a record in Redis says who may hold a copy  *)
(* of it: the driver of an active goal, the user of a paused one, the      *)
(* creator of one in planning.                                             *)

Undisturbed ==
  /\ \A v, w \in Drivers : v = w
  /\ \A u, v \in Operators : u = v
  /\ Commands \subseteq {"resume"}
  /\ "none" \notin Goals

Holding(w, g) == tick[w][g].pc \notin {"idle", "load"}

HolderFits ==
  /\ \A w \in Drivers, g \in Goals : tick[w][g].pc # "idle" => ticking[w]
  /\ \A w \in Drivers, g \in Goals : Holding(w, g) => store[g].state = "active"
  /\ \A u \in Operators, g \in Goals :
       command[u].id = g =>
         /\ store[g].state = "paused"
         /\ command[u].pc = "save" /\ command[u].kind = "resume"
         /\ command[u].goal.steps = store[g].steps
  /\ \A g \in Goals : maker[g].pc = "planning" => store[g].state = "planning"
  /\ \A g \in Goals : maker[g].pc = "unborn" => store[g].state = "absent"

\* Executions are counted in the copy first, then in Redis; a copy that is
\* lost has one more than Redis, and a fault to show for it.
RunsCounted ==
  /\ \A g \in Goals : runs[g] <= MaxSteps + faults
  /\ \A g \in Goals : maker[g].pc # "done" => runs[g] = 0
  /\ \A g \in Goals :
       store[g].state # "absent" /\ (\A w \in Drivers : ~Holding(w, g))
         => runs[g] <= store[g].steps + faults
  /\ \A w \in Drivers, g \in Goals :
       Holding(w, g) => /\ tick[w][g].goal.steps <= store[g].steps + 1
                        /\ runs[g] <= tick[w][g].goal.steps + faults

QInv == HolderFits /\ RunsCounted

\* The numbers in the invariant.
LEMMA Numbers ==
  ASSUME IInv
  PROVE  /\ MaxSteps \in Nat /\ faults \in Nat
         /\ \A g \in Goals : runs[g] \in Nat /\ store[g].steps \in Nat
         /\ \A w \in Drivers, g \in Goals : tick[w][g].goal.steps \in Nat
         /\ \A u \in Operators : command[u].goal.steps \in Nat
<1>1. MaxSteps \in Nat /\ faults \in Nat /\ runs \in [Goals -> Nat]
      BY LimitsAssumption, EngineAssumption DEF IInv, TypeOK
<1>2. \A g \in Goals : store[g] \in Goal BY DEF IInv, TypeOK
<1>3. \A w \in Drivers, g \in Goals : tick[w][g].goal \in Goal
      BY DEF IInv, TypeOK, TickState
<1>4. \A u \in Operators : command[u].goal \in Goal BY DEF IInv, TypeOK, CommandState
<1> QED BY <1>1, <1>2, <1>3, <1>4 DEF Goal

\* The driver goes from one place of its step to the next.
LEMMA HolderMoves ==
  ASSUME Undisturbed, IInv, IInv', QInv, NEW w \in Drivers, NEW g \in Goals,
         NEW state, Move(w, g, state), store[g].state = "active", tick[w][g].pc # "idle",
         state.pc \notin {"idle", "load"},
         \/ /\ state.goal.steps = IF Holding(w, g) THEN tick[w][g].goal.steps
                                                   ELSE store[g].steps
            /\ runs' = runs
         \/ /\ ~Holding(w, g) /\ store[g].steps < MaxSteps
            /\ state.goal.steps = store[g].steps + 1
            /\ runs' = [runs EXCEPT ![g] = @ + 1]
  PROVE  QInv'
<1>1. /\ UNCHANGED <<store, maker, ticking, command, faults>>
      /\ tick' = [tick EXCEPT ![w][g] = state]
      BY DEF Move
<1>2. \A v \in Drivers : v = w BY DEF Undisturbed
<1>3. /\ tick'[w][g] = state
      /\ \A h \in Goals \ {g} : tick'[w][h] = tick[w][h]
      BY <1>1 DEF IInv, TypeOK
<1>4. /\ Holding(w, g)'
      /\ \A h \in Goals \ {g} : Holding(w, h)' <=> Holding(w, h)
      BY <1>3 DEF Holding
<1>5. HolderFits' BY <1>1, <1>2, <1>4 DEF QInv, HolderFits
<1>6. /\ state.goal.steps <= store[g].steps + 1
      /\ runs'[g] <= state.goal.steps + faults
      /\ runs'[g] <= MaxSteps + faults
  <2>1. /\ Holding(w, g) => /\ tick[w][g].goal.steps <= store[g].steps + 1
                            /\ runs[g] <= tick[w][g].goal.steps + faults
        /\ ~Holding(w, g) => runs[g] <= store[g].steps + faults
        /\ runs[g] <= MaxSteps + faults
        BY <1>2 DEF QInv, RunsCounted
  <2>2. \/ runs'[g] = runs[g] /\ state.goal.steps = IF Holding(w, g) THEN tick[w][g].goal.steps
                                                                     ELSE store[g].steps
        \/ /\ runs'[g] = runs[g] + 1 /\ ~Holding(w, g) /\ store[g].steps < MaxSteps
           /\ state.goal.steps = store[g].steps + 1
        BY DEF IInv, TypeOK
  <2> QED BY <2>1, <2>2, Numbers
<1>7. \A h \in Goals \ {g} : runs'[h] = runs[h] BY DEF IInv, TypeOK
<1>8. maker[g].pc = "done"
      BY DEF QInv, HolderFits, IInv, TypeOK, MakerState
<1> QED BY <1>1, <1>2, <1>3, <1>4, <1>5, <1>6, <1>7, <1>8 DEF QInv, RunsCounted

\* The driver lets go of a goal it has not loaded.
LEMMA HolderLeaves ==
  ASSUME Undisturbed, IInv, QInv, NEW w \in Drivers, NEW g \in Goals, LeaveGoal(w, g)
  PROVE  QInv'
<1>1. /\ UNCHANGED <<store, maker, ticking, command, faults, runs>>
      /\ tick' = [tick EXCEPT ![w][g] = IdleTick] /\ ~Holding(w, g)
      BY DEF LeaveGoal, Move, Loading, Holding
<1>2. \A v \in Drivers, h \in Goals : (v = w /\ h = g) \/ tick'[v][h] = tick[v][h]
      BY <1>1 DEF IInv, TypeOK
<1>3. tick'[w][g].pc = "idle" BY <1>1 DEF IInv, TypeOK, IdleTick
<1>4. \A v \in Drivers, h \in Goals : Holding(v, h)' <=> Holding(v, h)
      BY <1>1, <1>2, <1>3 DEF Holding
<1>5. \A v \in Drivers, h \in Goals : Holding(v, h) => tick'[v][h] = tick[v][h]
      BY <1>1, <1>2, Zenon
<1>6. \A v \in Drivers, h \in Goals : tick'[v][h].pc # "idle" => tick[v][h].pc # "idle"
      BY <1>2, <1>3
<1> QED BY <1>1, <1>4, <1>5, <1>6 DEF QInv, HolderFits, RunsCounted

\* A goal the driver has not loaded is one it does not hold.
LEMMA LoadingHoldsNot == ASSUME NEW w, NEW g, Loading(w, g) PROVE ~Holding(w, g)
BY DEF Loading, Holding

\* A step of the driver that ends in a copy to be saved.
LEMMA HolderSaves ==
  ASSUME Undisturbed, IInv, IInv', QInv, NEW w \in Drivers, NEW g \in Goals,
         NEW goal \in Goal, ToSave(w, g, goal), store[g].state = "active",
         tick[w][g].pc # "idle",
         goal.steps = IF Holding(w, g) THEN tick[w][g].goal.steps ELSE store[g].steps
  PROVE  QInv'
<1> DEFINE state == [tick[w][g] EXCEPT !.pc = "save", !.goal = goal]
<1>1. tick[w][g] \in TickState BY DEF IInv, TypeOK
<1>2. state.pc = "save" /\ state.goal = goal BY <1>1 DEF TickState
<1>3. Move(w, g, state) /\ runs' = runs BY DEF ToSave
<1> HIDE DEF state
<1> QED BY <1>2, <1>3, HolderMoves

\* What the outcomes of a step that are not counted leave of the count.
LEMMA StepsKept ==
  ASSUME NEW goal \in Goal, NEW t \in TaskId, NEW storm \in BOOLEAN, NEW plan
  PROVE  /\ Stopped(goal).steps = goal.steps /\ Rested(goal).steps = goal.steps
         /\ Blocked(goal, t).steps = goal.steps /\ Rejected(goal, t).steps = goal.steps
         /\ Succeeded(goal, t).steps = goal.steps /\ FailedOnce(goal, t).steps = goal.steps
         /\ ReplanRefused(goal, storm).steps = goal.steps
         /\ ReplanStarted(goal).steps = goal.steps
         /\ Replanned(goal, plan).steps = goal.steps
         /\ PlanningFailed(goal).steps = goal.steps
         /\ Started(goal, t).steps = goal.steps + 1
BY DEF Stopped, Rested, Blocked, Rejected, Succeeded, FailedOnce, ReplanRefused, ReplanStarted,
       Replanned, PlanningFailed, Started, Rest, Paused, Goal

\* The steps of a driver that hold a copy, up to the save.
LEMMA HoldQuiet ==
  ASSUME Undisturbed, IInv, IInv', QInv, NEW w \in Drivers, NEW g \in Goals,
         (Compute(w, g) /\ ~SaveStep(w, g)) \/ Answer(w, g)
  PROVE  QInv'
<1> DEFINE here == tick[w][g]
<1>1. /\ store[g] \in Goal /\ store[g].steps \in Nat
      /\ here \in TickState /\ here.goal \in Goal /\ here.task \in TaskId \cup {NoTask}
      /\ SoundTick(here)
      BY DEF IInv, TypeOK, CopiesSound, TickState, Goal
<1>2. Loading(w, g) => ~Holding(w, g) /\ here.pc # "idle" BY LoadingHoldsNot DEF Loading
<1>3. here.pc \in {"execute", "replan", "plan"} =>
        Holding(w, g) /\ store[g].state = "active" /\ here.pc # "idle"
      BY DEF Holding, QInv, HolderFits
<1>4. CASE LeaveGoal(w, g) BY <1>4, HolderLeaves
<1>5. CASE WaitBackoff(w, g) BY <1>1, <1>2, <1>5, HolderSaves DEF WaitBackoff
<1>6. CASE StopAtLimit(w, g)
  <2>1. Stopped(store[g]) \in Goal /\ Stopped(store[g]).steps = store[g].steps
        BY <1>1 DEF Stopped, Rest, Paused, Goal, GoalStates
  <2> QED BY <1>2, <1>6, <2>1, HolderSaves DEF StopAtLimit
<1>7. CASE FindNoTask(w, g)
  <2>1. Rested(store[g]) \in Goal /\ Rested(store[g]).steps = store[g].steps
        BY <1>1 DEF Rested, Rest, Goal, GoalStates
  <2> QED BY <1>2, <1>7, <2>1, HolderSaves DEF FindNoTask, MayStep
<1>8. CASE BlockTask(w, g)
  <2>1. PICK t \in NextTask(store[g].graph) : ToSave(w, g, Blocked(store[g], t))
        BY <1>8 DEF BlockTask
  <2>2. store[g].state = "active" /\ Loading(w, g) BY <1>8 DEF BlockTask, MayStep
  <2>3. t \in TaskId BY <2>1, NextTasks
  <2>4. Blocked(store[g], t) \in Goal /\ Blocked(store[g], t).steps = store[g].steps
        BY <1>1, <2>1, <2>2, <2>3, BlockedSound, Loaded, StepsKept
  <2> QED BY <1>2, <2>1, <2>2, <2>4, HolderSaves
<1>9. CASE RejectTask(w, g)
  <2>1. PICK t \in NextTask(store[g].graph) :
          Move(w, g, [here EXCEPT !.pc = "replan", !.goal = Rejected(store[g], t)])
        BY <1>9, Zenon DEF RejectTask
  <2> DEFINE state == [here EXCEPT !.pc = "replan", !.goal = Rejected(store[g], t)]
  <2>2. store[g].state = "active" /\ Loading(w, g) /\ runs' = runs
        BY <1>9 DEF RejectTask, MayStep
  <2>3. t \in TaskId BY <2>1, NextTasks
  <2>4. state.pc = "replan" /\ state.goal.steps = store[g].steps
        BY <1>1, <2>3, StepsKept DEF TickState
  <2>5. Move(w, g, state) BY <2>1
  <2> HIDE DEF state
  <2> QED BY <1>2, <2>2, <2>4, <2>5, HolderMoves
<1>10. CASE ExecuteTask(w, g)
  <2>1. PICK t \in NextTask(store[g].graph) :
          Move(w, g, [here EXCEPT !.pc = "execute", !.task = t,
                                  !.goal = Started(store[g], t)])
        BY <1>10, Zenon DEF ExecuteTask
  <2> DEFINE state == [here EXCEPT !.pc = "execute", !.task = t,
                                   !.goal = Started(store[g], t)]
  <2>2. /\ store[g].state = "active" /\ Loading(w, g) /\ store[g].steps < MaxSteps
        /\ runs' = [runs EXCEPT ![g] = @ + 1]
        BY <1>10 DEF ExecuteTask, MayStep
  <2>3. t \in TaskId BY <2>1, NextTasks
  <2>4. state.pc = "execute" /\ state.goal.steps = store[g].steps + 1
        BY <1>1, <2>3, StepsKept DEF TickState
  <2>5. Move(w, g, state) BY <2>1
  <2> HIDE DEF state
  <2> QED BY <1>2, <2>2, <2>4, <2>5, HolderMoves
<1>11. CASE RefuseReplan(w, g)
  <2>1. PICK storm \in BOOLEAN :
          ToSave(w, g, IF storm \/ ReplanSpent(here.goal)
                       THEN ReplanRefused(here.goal, storm)
                       ELSE here.goal)
        BY <1>11 DEF RefuseReplan
  <2>2. ReplanRefused(here.goal, storm) \in Goal
        /\ ReplanRefused(here.goal, storm).steps = here.goal.steps
        BY <1>1 DEF ReplanRefused, Goal, GoalStates
  <2>3. here.pc = "replan" BY <1>11 DEF RefuseReplan
  <2> QED BY <1>1, <1>3, <2>1, <2>2, <2>3, HolderSaves
<1>12. CASE AskPlanner(w, g)
  <2> DEFINE state == [here EXCEPT !.pc = "plan", !.goal = ReplanStarted(here.goal)]
  <2>1. Move(w, g, state) /\ runs' = runs /\ here.pc = "replan" BY <1>12 DEF AskPlanner
  <2>2. state.pc = "plan" /\ state.goal.steps = here.goal.steps
        BY <1>1 DEF TickState, ReplanStarted, Goal
  <2> HIDE DEF state
  <2> QED BY <1>3, <2>1, <2>2, HolderMoves
<1>13. CASE TaskSucceeds(w, g)
  <2>1. here.pc = "execute" /\ ToSave(w, g, Succeeded(here.goal, here.task))
        BY <1>13 DEF TaskSucceeds
  <2>2. Executing(here.goal, here.task) BY <1>1, <2>1 DEF SoundTick
  <2>3. here.task \in TaskId BY <2>2 DEF Executing, WithStatus
  <2>4. /\ Succeeded(here.goal, here.task) \in Goal
        /\ Succeeded(here.goal, here.task).steps = here.goal.steps
        BY <1>1, <2>2, <2>3, SucceededSound, StepsKept
  <2> QED BY <1>3, <2>1, <2>4, HolderSaves
<1>14. CASE TaskFails(w, g)
  <2> DEFINE pc == IF CanRetry(here.goal, here.task) THEN "save" ELSE "replan"
             state == [here EXCEPT !.pc = pc, !.goal = FailedOnce(here.goal, here.task)]
  <2>1. here.pc = "execute" /\ Move(w, g, state) /\ runs' = runs BY <1>14 DEF TaskFails
  <2>2. Executing(here.goal, here.task) BY <1>1, <2>1 DEF SoundTick
  <2>3. here.task \in TaskId BY <2>2 DEF Executing, WithStatus
  <2>4. state.pc = pc /\ state.goal.steps = here.goal.steps
        BY <1>1, <2>3, StepsKept DEF TickState
  <2>5. state.pc \notin {"idle", "load"} BY <2>4
  <2> HIDE DEF state
  <2> QED BY <1>3, <2>1, <2>4, <2>5, HolderMoves
<1>15. CASE GetNoPlan(w, g)
  <2>1. here.pc = "plan" /\ ToSave(w, g, PlanningFailed(here.goal)) BY <1>15 DEF GetNoPlan
  <2>2. PlanningFailed(here.goal).steps = here.goal.steps BY <1>1 DEF PlanningFailed, Goal
  <2>3. Replanning(here.goal) BY <1>1, <2>1 DEF SoundTick
  <2>4. PlanningFailed(here.goal) \in Goal BY <1>1, <2>3, PlanningFailedSound
  <2> QED BY <1>3, <2>1, <2>2, <2>4, HolderSaves
<1>16. ASSUME NEW plan \in Plans, AcceptPlan(w, g, plan) PROVE QInv'
  <2>1. here.pc = "plan" /\ ToSave(w, g, Replanned(here.goal, plan)) BY <1>16 DEF AcceptPlan
  <2>2. Replanning(here.goal) BY <1>1, <2>1 DEF SoundTick
  <2>3. Replanned(here.goal, plan) \in Goal BY <1>1, <2>2, ReplannedSound
  <2>4. Replanned(here.goal, plan).steps = here.goal.steps BY <1>1 DEF Replanned, Goal
  <2> QED BY <1>3, <2>1, <2>3, <2>4, HolderSaves
<1> QED BY <1>4, <1>5, <1>6, <1>7, <1>8, <1>9, <1>10, <1>11, <1>12, <1>13, <1>14, <1>15, <1>16
        DEF Compute, Answer

\* The save takes the count to Redis, and the driver lets go.
LEMMA SaveQuiet ==
  ASSUME Undisturbed, IInv, IInv', QInv, NEW w \in Drivers, NEW g \in Goals, SaveStep(w, g)
  PROVE  QInv'
<1> DEFINE goal == tick[w][g].goal
<1>1. /\ store' = [store EXCEPT ![g] = goal]
      /\ UNCHANGED <<maker, ticking, command, faults, runs>>
      BY DEF SaveStep
<1>2. store'[g] = goal /\ \A h \in Goals \ {g} : store'[h] = store[h]
      BY <1>1 DEF IInv, TypeOK
<1>3. Holding(w, g) BY DEF SaveStep, Holding
<1>4. store[g].state = "active" BY <1>3 DEF QInv, HolderFits
<1>5. tick'[w][g].pc \in {"idle", "load"}
      BY DEF SaveStep, IInv, TypeOK, IdleTick
<1>6. \A h \in Goals \ {g} : tick'[w][h] = tick[w][h] BY DEF SaveStep, IInv, TypeOK
<1>7. /\ ~Holding(w, g)'
      /\ \A h \in Goals \ {g} : Holding(w, h)' <=> Holding(w, h)
      BY <1>5, <1>6 DEF Holding
<1>8. \A v \in Drivers : v = w BY DEF Undisturbed
<1>9. maker[g].pc = "done" /\ \A u \in Operators : command[u].id # g
  <2>1. maker[g].pc \in {"unborn", "planning", "done"} BY DEF IInv, TypeOK, MakerState
  <2> QED BY <1>4, <2>1 DEF QInv, HolderFits
<1>10. HolderFits'
  <2>1. tick[w][g].pc # "idle" BY <1>3 DEF Holding
  <2> QED BY <1>1, <1>2, <1>6, <1>7, <1>8, <1>9, <2>1 DEF QInv, HolderFits
<1>11. runs[g] <= goal.steps + faults BY <1>3 DEF QInv, RunsCounted
<1>12. RunsCounted'
       BY <1>1, <1>2, <1>6, <1>7, <1>8, <1>9, <1>11 DEF QInv, RunsCounted
<1> QED BY <1>10, <1>12 DEF QInv

\* When drivers drop their copies and a fault is counted, what Redis has is
\* behind by as much as the fault allows.
LEMMA DropQuiet ==
  ASSUME Undisturbed, IInv, IInv', QInv, UNCHANGED <<store, runs>>, faults' = faults + 1,
         \A w \in Drivers, g \in Goals : tick'[w][g] = tick[w][g] \/ ~Holding(w, g)',
         \A g \in Goals : maker'[g].pc = "done" \/ maker'[g] = maker[g]
  PROVE  RunsCounted'
<1>1. \A w \in Drivers, g \in Goals :
        Holding(w, g)' => tick'[w][g] = tick[w][g] /\ Holding(w, g)
      BY DEF Holding
<1>2. ASSUME NEW g \in Goals, store[g].state # "absent", \A w \in Drivers : ~Holding(w, g)'
      PROVE  runs[g] <= store[g].steps + faults'
  <2>1. CASE \A w \in Drivers : ~Holding(w, g)
        BY <1>2, <2>1, Numbers DEF QInv, RunsCounted
  <2>2. ASSUME NEW w \in Drivers, Holding(w, g) PROVE runs[g] <= store[g].steps + faults'
        BY <2>2, Numbers DEF QInv, RunsCounted
  <2> QED BY <2>1, <2>2
<1>3. \A g \in Goals : runs'[g] <= MaxSteps + faults' BY Numbers DEF QInv, RunsCounted
<1>4. \A w \in Drivers, g \in Goals :
        Holding(w, g)' => /\ tick'[w][g].goal.steps <= store'[g].steps + 1
                          /\ runs'[g] <= tick'[w][g].goal.steps + faults'
      BY <1>1, Numbers DEF QInv, RunsCounted
<1>5. \A g \in Goals : maker'[g].pc # "done" => runs'[g] = 0 BY DEF QInv, RunsCounted
<1> QED BY <1>2, <1>3, <1>4, <1>5 DEF RunsCounted

\* An exception.
LEMMA RaiseQuiet ==
  ASSUME Undisturbed, IInv, IInv', QInv, NEW w \in Drivers, NEW g \in Goals, StepRaises(w, g)
  PROVE  QInv'
<1>1. \A v \in Drivers, h \in Goals : tick'[v][h] = tick[v][h] \/ tick'[v][h].pc = "idle"
      BY DEF StepRaises, IInv, TypeOK, IdleTick
<1>2. \A v \in Drivers, h \in Goals : tick'[v][h] = tick[v][h] \/ ~Holding(v, h)'
      BY <1>1 DEF Holding
<1>3. /\ UNCHANGED <<store, maker, ticking, command, runs>> /\ faults' = faults + 1
      BY DEF StepRaises
<1>4. \A v \in Drivers, h \in Goals : Holding(v, h)' => Holding(v, h)
      BY <1>2 DEF Holding
<1>5. HolderFits' BY <1>1, <1>3, <1>4 DEF QInv, HolderFits
<1>6. RunsCounted' BY <1>2, <1>3, DropQuiet
<1> QED BY <1>5, <1>6 DEF QInv

\* A restart.
LEMMA RestartQuiet ==
  ASSUME Undisturbed, IInv, IInv', QInv, Restart
  PROVE  QInv'
<1>1. /\ UNCHANGED <<store, runs>> /\ faults' = faults + 1
      /\ \A w \in Drivers, g \in Goals : tick'[w][g] = IdleTick
      /\ \A u \in Operators : command'[u] = IdleCommand
      BY DEF Restart
<1>2. \A w \in Drivers, g \in Goals : ~Holding(w, g)' BY <1>1 DEF Holding, IdleTick
<1>3. \A g \in Goals : maker'[g].pc = "done" \/ maker'[g] = maker[g] BY DEF Restart, IInv, TypeOK
<1>4. \A g \in Goals : maker'[g].pc # "planning" BY DEF Restart, IInv, TypeOK
<1>5. \A u \in Operators, g \in Goals : command'[u].id # g
      BY <1>1 DEF IdleCommand, Undisturbed
<1>6. HolderFits' BY <1>1, <1>2, <1>3, <1>4, <1>5 DEF QInv, HolderFits, IdleTick
<1>7. RunsCounted' BY <1>1, <1>2, <1>3, DropQuiet
<1> QED BY <1>6, <1>7 DEF QInv

\* A tick begins and ends, and prunes goals that nobody holds.
LEMMA ScheduleQuiet ==
  ASSUME Undisturbed, IInv, IInv', QInv, NEW w \in Drivers, StartTick(w) \/ EndTick(w)
  PROVE  QInv'
<1>1. \A v \in Drivers : v = w BY DEF Undisturbed
<1>2. UNCHANGED <<maker, command, faults, runs>> BY DEF StartTick, EndTick
<1>3. \A g \in Goals : tick[w][g].pc = "idle"
      BY DEF StartTick, EndTick, QInv, HolderFits
<1>4. \A g \in Goals : ~Holding(w, g) BY <1>3 DEF Holding
<1>5. CASE StartTick(w)
  <2>1. /\ store' = store
        /\ ticking'[w] /\ \A g \in Goals : tick'[w][g].pc \in {"idle", "load"}
        BY <1>5 DEF StartTick, IInv, TypeOK, IdleTick
  <2>2. \A g \in Goals : ~Holding(w, g)' BY <2>1 DEF Holding
  <2>3. HolderFits' BY <1>1, <1>2, <2>1, <2>2 DEF QInv, HolderFits
  <2>4. RunsCounted' BY <1>1, <1>2, <1>4, <2>1, <2>2 DEF QInv, RunsCounted
  <2> QED BY <2>3, <2>4 DEF QInv
<1>6. CASE EndTick(w)
  <2>1. tick' = tick BY <1>6 DEF EndTick
  <2>2. \A g \in Goals : ~Holding(w, g)' BY <1>4, <2>1 DEF Holding
  <2>3. \A g \in Goals :
          \/ store'[g] = store[g]
          \/ store'[g] = NoGoal /\ store[g].state \in Terminal
        BY <1>6 DEF EndTick, TerminalGoals
  <2>4. NoGoal.state = "absent" BY DEF NoGoal, NewGoal
  <2>5. HolderFits'
        BY <1>1, <1>2, <1>3, <2>1, <2>2, <2>3, <2>4 DEF QInv, HolderFits, Terminal
  <2>6. RunsCounted' BY <1>1, <1>2, <1>4, <2>2, <2>3, <2>4 DEF QInv, RunsCounted
  <2> QED BY <2>5, <2>6 DEF QInv
<1> QED BY <1>5, <1>6

\* The creator saves, at its beginning and at its end.
LEMMA CreateQuiet ==
  ASSUME Undisturbed, IInv, IInv', QInv, NEW g \in Goals, Create(g)
  PROVE  QInv'
<1>1. /\ UNCHANGED <<ticking, tick, command, faults, runs>>
      /\ maker[g].pc \in {"unborn", "planning"}
      /\ \A h \in Goals \ {g} : store'[h] = store[h] /\ maker'[h] = maker[h]
      BY DEF Create, CreateGoal, PlanGoal, UseTemplate, FailToPlan, EndCreate, IInv, TypeOK
<1>2. \/ maker'[g].pc = "planning" /\ store'[g].state = "planning"
      \/ maker'[g].pc = "done"
  <2>1. ASSUME NEW mode, CreateGoal(g, mode)
        PROVE  maker'[g].pc = "planning" /\ store'[g].state = "planning"
        BY <2>1 DEF CreateGoal, NewGoal, IInv, TypeOK
  <2>2. ASSUME NEW goal, EndCreate(g, goal) PROVE maker'[g].pc = "done"
        BY <2>2 DEF EndCreate, IInv, TypeOK
  <2> QED BY <2>1, <2>2 DEF Create, PlanGoal, UseTemplate, FailToPlan
<1>3. store[g].state \in {"absent", "planning"} BY <1>1 DEF QInv, HolderFits
<1>4. /\ \A w \in Drivers : ~Holding(w, g)
      /\ \A u \in Operators : command[u].id # g
      BY <1>3 DEF QInv, HolderFits
<1>5. \A w \in Drivers, h \in Goals : Holding(w, h)' <=> Holding(w, h) BY <1>1 DEF Holding
<1>6. HolderFits' BY <1>1, <1>2, <1>4, <1>5 DEF QInv, HolderFits
<1>7. runs[g] = 0 BY <1>1 DEF QInv, RunsCounted
<1>8. store'[g].steps \in Nat /\ faults \in Nat
      BY DEF IInv, TypeOK, Goal
<1>9. RunsCounted' BY <1>1, <1>4, <1>5, <1>7, <1>8 DEF QInv, RunsCounted
<1> QED BY <1>6, <1>9 DEF QInv

\* The user resumes: reads a paused goal, and saves it.
LEMMA OperateQuiet ==
  ASSUME Undisturbed, IInv, IInv', QInv, NEW u \in Operators, Operate(u)
  PROVE  QInv'
<1>1. \A v \in Operators : v = u BY DEF Undisturbed
<1>2. ASSUME NEW kind \in Commands, NEW g \in Goals, IssueCommand(u, kind, g) PROVE QInv'
  <2>1. kind = "resume" BY DEF Undisturbed
  <2>2. UNCHANGED <<store, maker, ticking, tick, faults, runs>> BY <1>2 DEF IssueCommand
  <2>3. store[g].state = "paused"
    <3>1. Applies("resume", store[g]) BY <1>2, <2>1 DEF IssueCommand
    <3> QED BY <3>1 DEF Applies, Modes
  <2>4. /\ command'[u].id = g /\ command'[u].pc = "save" /\ command'[u].kind = "resume"
        /\ command'[u].goal = Effect("resume", store[g])
        BY <1>2, <2>1 DEF IssueCommand, IInv, TypeOK
  <2>5. Effect("resume", store[g]).steps = store[g].steps
        BY Loaded DEF Effect, Goal
  <2>6. \A w \in Drivers, h \in Goals : Holding(w, h)' <=> Holding(w, h)
        BY <2>2 DEF Holding
  <2>7. HolderFits' BY <1>1, <2>2, <2>3, <2>4, <2>5, <2>6 DEF QInv, HolderFits
  <2>8. RunsCounted' BY <2>2, <2>6 DEF QInv, RunsCounted
  <2> QED BY <2>7, <2>8 DEF QInv
<1>3. ASSUME NEW g \in Goals, IssueDelete(u, g) PROVE QInv'
      BY <1>3 DEF IssueDelete, Undisturbed
<1>4. ASSUME NEW g \in Goals, SaveCommand(u, g) PROVE QInv'
  <2>1. /\ command[u].kind = "resume" /\ store[g].state = "paused"
        /\ command[u].goal.steps = store[g].steps
        BY <1>4 DEF SaveCommand, QInv, HolderFits
  <2>2. /\ UNCHANGED <<maker, ticking, tick, faults, runs>>
        /\ store'[g] = command[u].goal
        /\ \A h \in Goals \ {g} : store'[h] = store[h]
        /\ command'[u] = IdleCommand
        BY <1>4, <2>1 DEF SaveCommand, IInv, TypeOK
  <2>3. \A h \in Goals : command'[u].id # h BY <2>2 DEF IdleCommand, Undisturbed
  <2>4. \A w \in Drivers, h \in Goals : Holding(w, h)' <=> Holding(w, h)
        BY <2>2 DEF Holding
  <2>5. /\ \A w \in Drivers : ~Holding(w, g)
        /\ maker[g].pc = "done"
    <3>1. maker[g].pc \in {"unborn", "planning", "done"} BY DEF IInv, TypeOK, MakerState
    <3> QED BY <2>1, <3>1 DEF QInv, HolderFits
  <2>6. HolderFits' BY <1>1, <2>2, <2>3, <2>4, <2>5 DEF QInv, HolderFits
  <2>7. RunsCounted' BY <2>1, <2>2, <2>4, <2>5 DEF QInv, RunsCounted
  <2> QED BY <2>6, <2>7 DEF QInv
<1>5. ASSUME NEW g \in Goals, HardDelete(u, g) PROVE QInv'
      BY <1>5 DEF HardDelete, QInv, HolderFits
<1> QED BY <1>2, <1>3, <1>4, <1>5 DEF Operate

\* Every step of the undisturbed engine preserves the invariant.
LEMMA NextQuiet == Undisturbed /\ IInv /\ IInv' /\ QInv /\ [Next]_vars => QInv'
<1> SUFFICES ASSUME Undisturbed, IInv, IInv', QInv, [Next]_vars PROVE QInv' OBVIOUS
<1>1. ASSUME NEW g \in Goals, Create(g) PROVE QInv' BY <1>1, CreateQuiet
<1>2. ASSUME NEW g \in Goals, RuntimeElapses(g) PROVE QInv'
      BY <1>2 DEF RuntimeElapses, QInv, HolderFits, RunsCounted, Holding
<1>3. ASSUME NEW w \in Drivers, StartTick(w) \/ EndTick(w) PROVE QInv'
      BY <1>3, ScheduleQuiet
<1>4. ASSUME NEW w \in Drivers, NEW g \in Goals, TickGoal(w, g) PROVE QInv'
      BY <1>4, HoldQuiet, SaveQuiet, RaiseQuiet DEF TickGoal
<1>5. ASSUME NEW u \in Operators, Operate(u) PROVE QInv' BY <1>5, OperateQuiet
<1>6. CASE Restart BY <1>6, RestartQuiet
<1>7. CASE UNCHANGED vars BY <1>7 DEF vars, QInv, HolderFits, RunsCounted, Holding
<1> QED BY <1>1, <1>2, <1>3, <1>4, <1>5, <1>6, <1>7 DEF Next

\* It holds at first.
LEMMA InitQuiet == Undisturbed /\ Init => QInv
<1> SUFFICES ASSUME Undisturbed, Init PROVE QInv OBVIOUS
<1>1. \A w \in Drivers, g \in Goals : tick[w][g].pc = "idle" /\ ~Holding(w, g)
      BY DEF Init, IdleTick, Holding
<1>2. \A u \in Operators, g \in Goals : command[u].id # g
      BY DEF Init, IdleCommand, Undisturbed
<1>3. \A g \in Goals : maker[g].pc = "unborn" /\ store[g].state = "absent" /\ runs[g] = 0
      BY DEF Init, NoGoal, NewGoal
<1>4. MaxSteps \in Nat /\ faults = 0 BY LimitsAssumption DEF Init
<1> QED BY <1>1, <1>2, <1>3, <1>4 DEF QInv, HolderFits, RunsCounted

LEMMA Quiet == Undisturbed /\ Spec => []QInv
<1>1. CASE Undisturbed
  <2>1. IInv /\ IInv' /\ QInv /\ [Next]_vars => QInv' BY <1>1, NextQuiet
  <2>2. Init => QInv BY <1>1, InitQuiet
  <2> QED BY <2>1, <2>2, Inductive, PTL DEF Spec
<1> QED BY <1>1

\* With one driver and a user who only resumes, a goal never has two processes
\* that will write it back: its state in Redis says who may.
THEOREM AlwaysOneWriter == Undisturbed /\ Spec => []OneWriter
<1>1. Undisturbed /\ QInv => OneWriter
  <2> SUFFICES ASSUME Undisturbed, QInv, NEW g \in Goals
               PROVE  Cardinality(Writers(g)) <= 1
      BY DEF OneWriter
  <2> DEFINE byTick  == {w \in Drivers : tick[w][g].pc \notin {"idle", "load"}}
             byHand  == {u \in Operators : command[u].id = g}
             byMaker == IF maker[g].pc = "planning" THEN {g} ELSE {}
  <2>1. byTick # {} => store[g].state = "active" BY DEF QInv, HolderFits, Holding
  <2>2. byHand # {} => store[g].state = "paused" BY DEF QInv, HolderFits
  <2>3. byMaker # {} => store[g].state = "planning" BY DEF QInv, HolderFits
  <2>4. Writers(g) \in {{}, byTick, byHand, byMaker}
        BY <2>1, <2>2, <2>3 DEF Writers
  <2>5. \A x, y \in Writers(g) : x = y BY <2>4 DEF Undisturbed
  <2>6. Writers(g) = {} \/ \E x : Writers(g) = {x} BY <2>5
  <2>7. Writers(g) = {} => Cardinality(Writers(g)) = 0 BY FS_EmptySet
  <2>8. ASSUME NEW x, Writers(g) = {x} PROVE Cardinality(Writers(g)) = 1 BY <2>8, FS_Singleton
  <2>9. Cardinality(Writers(g)) \in {0, 1} BY <2>6, <2>7, <2>8
  <2> QED BY <2>9
<1>2. CASE Undisturbed
  <2>1. QInv => OneWriter BY <1>1, <1>2
  <2> QED BY <1>2, <2>1, Quiet, PTL
<1> QED BY <1>2

\* With one driver and a user who only resumes, the skills run for a goal never
\* exceed its step limit by more than the restarts and exceptions there were.
THEOREM ExecutionsAreBounded == Undisturbed /\ Spec => []ExecutionsBounded
<1>1. QInv => ExecutionsBounded BY DEF QInv, RunsCounted, ExecutionsBounded
<1> QED BY <1>1, Quiet, PTL

-----------------------------------------------------------------------------
(* What the undisturbed engine keeps: nobody else writes a goal while a    *)
(* copy of it is out, so a copy to be saved is one step ahead of Redis.    *)

\* The same tasks are finished, and the ids are as plain.
SameWork(old, new) ==
  /\ new.plain = old.plain
  /\ DoneIds(new.graph) = DoneIds(old.graph)

\* The goal may go from old to new in one step; only one whose ids are not plain
\* may start over.
Successor(old, new) ==
  \/ /\ new.state \in {"active", "paused", "failed", "completed"}
     /\ SameWork(old, new)
  \/ /\ new.state = "active" /\ new.plain = old.plain
     /\ \E t \in TaskId \ DoneIds(old.graph) :
          DoneIds(new.graph) = DoneIds(old.graph) \cup {t}
  \/ /\ new.state = "active" /\ ~old.plain /\ ~new.plain
     /\ DoneIds(new.graph) = {}

\* A goal without its first plan.
Unplanned(goal) == goal.plain /\ DoneIds(goal.graph) = {}

KeptTick(old, here) ==
  /\ here.pc \in {"execute", "replan", "plan"} =>
       here.goal.state = "active" /\ SameWork(old, here.goal)
  /\ here.pc = "save" => Successor(old, here.goal)

WorkKept ==
  /\ \A w \in Drivers, g \in Goals : KeptTick(store[g], tick[w][g])
  /\ \A u \in Operators, g \in Goals :
       command[u].id = g => /\ command[u].goal.state = "active"
                            /\ SameWork(store[g], command[u].goal)
  /\ \A g \in Goals :
       /\ maker[g].pc = "planning" => Unplanned(maker[g].goal)
       /\ store[g].state \in {"absent", "planning"} => Unplanned(store[g])

\* An outcome that keeps the tasks is a successor.
LEMMA KeepsSucceed ==
  ASSUME NEW old, NEW new,
         \/ Keeps(old, new) /\ new.state \in {"active", "paused", "failed", "completed"}
         \/ \E t : Finishes(old, new, t) /\ new.state = "active"
  PROVE  Successor(old, new)
BY DEF Keeps, SameTasks, Finishes, Successor, SameWork, Ids

\* Moving a step along.
LEMMA MoveKept ==
  ASSUME IInv, WorkKept, NEW w \in Drivers, NEW g \in Goals, NEW state,
         KeptTick(store[g], state), Move(w, g, state)
  PROVE  WorkKept'
<1>1. \A x \in Drivers, h \in Goals :
        \/ tick'[x][h] = tick[x][h]
        \/ h = g /\ tick'[x][h] = state
      BY DEF Move, IInv, TypeOK
<1>2. UNCHANGED <<store, maker, command>> BY DEF Move
<1>3. \A x \in Drivers, h \in Goals : KeptTick(store[h], tick'[x][h])
      BY <1>1 DEF WorkKept
<1>4. \A x \in Drivers, h \in Goals : KeptTick(store[h], tick[x][h])'
      BY <1>2, <1>3 DEF KeptTick, Successor, SameWork
<1> QED BY <1>2, <1>4 DEF WorkKept

LEMMA ToSaveKept ==
  ASSUME IInv, WorkKept, NEW w \in Drivers, NEW g \in Goals, NEW goal \in Goal,
         Successor(store[g], goal), ToSave(w, g, goal)
  PROVE  WorkKept'
<1> DEFINE state == [tick[w][g] EXCEPT !.pc = "save", !.goal = goal]
<1>1. tick[w][g] \in TickState BY DEF IInv, TypeOK
<1>2. state.pc = "save" /\ state.goal = goal BY <1>1 DEF TickState
<1>3. Move(w, g, state) BY DEF ToSave
<1> HIDE DEF state
<1>4. KeptTick(store[g], state) BY <1>2 DEF KeptTick
<1> QED BY <1>3, <1>4, MoveKept

\* A step to a place where the copy is still worked on.
LEMMA GoOnKept ==
  ASSUME IInv, WorkKept, NEW w \in Drivers, NEW g \in Goals, NEW state, Move(w, g, state),
         state.pc \in {"execute", "replan", "plan"}, state.goal.state = "active",
         SameWork(store[g], state.goal)
  PROVE  WorkKept'
<1>1. KeptTick(store[g], state) BY DEF KeptTick
<1> QED BY <1>1, MoveKept

\* The steps of a driver, up to the save.
LEMMA StepKept ==
  ASSUME IInv, QInv, CopiesDated, WorkKept, NEW w \in Drivers, NEW g \in Goals,
         (Compute(w, g) /\ ~SaveStep(w, g)) \/ Answer(w, g)
  PROVE  WorkKept'
<1> DEFINE here == tick[w][g]
           old == store[g]
<1>1. /\ old \in Goal /\ Sound(old)
      /\ here \in TickState /\ here.goal \in Goal /\ SoundTick(here) /\ DatedTick(here)
      /\ KeptTick(old, here)
      BY Loaded DEF IInv, TypeOK, CopiesSound, TickState, CopiesDated, WorkKept
<1>2. here.pc \in {"execute", "replan", "plan"} =>
        here.goal.state = "active" /\ SameWork(old, here.goal)
      BY <1>1 DEF KeptTick
<1>3. ASSUME NEW r \in Goal, Keeps(old, r),
             r.state \in {"active", "paused", "failed", "completed"}, ToSave(w, g, r)
      PROVE  WorkKept'
      BY <1>3, KeepsSucceed, ToSaveKept
<1>4. ASSUME here.pc \in {"execute", "replan", "plan"}, NEW r \in Goal,
             Keeps(here.goal, r) /\ r.state \in {"active", "failed"}, ToSave(w, g, r)
      PROVE  WorkKept'
  <2>1. SameWork(old, r) BY <1>2, <1>4 DEF Keeps, SameTasks, SameWork
  <2>2. Successor(old, r) BY <1>4, <2>1 DEF Successor
  <2> QED BY <1>4, <2>2, ToSaveKept
<1>5. CASE LeaveGoal(w, g)
  <2>1. KeptTick(old, IdleTick) BY DEF KeptTick, IdleTick
  <2> QED BY <1>5, <2>1, MoveKept DEF LeaveGoal
<1>6. CASE WaitBackoff(w, g)
      BY <1>1, <1>3, <1>6, GraphKeepsTasks DEF WaitBackoff
<1>7. CASE StopAtLimit(w, g)
      BY <1>1, <1>3, <1>7, StepsKeep, StoppedSound DEF StopAtLimit
<1>8. CASE FindNoTask(w, g)
      BY <1>1, <1>3, <1>8, StepsKeep, RestedSound DEF FindNoTask, MayStep
<1>9. CASE BlockTask(w, g)
  <2>1. PICK t \in NextTask(old.graph) : ToSave(w, g, Blocked(old, t))
        BY <1>9 DEF BlockTask
  <2>2. old.state = "active" BY <1>9 DEF BlockTask, MayStep
  <2>3. Blocked(old, t) \in Goal BY <1>1, <2>1, <2>2, BlockedSound
  <2>4. Keeps(old, Blocked(old, t)) /\ Blocked(old, t).state = "paused"
        BY <1>1, <2>1, <2>2, StepsKeep
  <2> QED BY <1>3, <2>1, <2>3, <2>4
<1>10. CASE RejectTask(w, g)
  <2>1. PICK t \in NextTask(old.graph) :
          Move(w, g, [here EXCEPT !.pc = "replan", !.goal = Rejected(old, t)])
        BY <1>10 DEF RejectTask
  <2>2. old.state = "active" BY <1>10 DEF RejectTask, MayStep
  <2> DEFINE goal == Rejected(old, t)
             state == [here EXCEPT !.pc = "replan", !.goal = goal]
  <2>3. Keeps(old, goal) /\ Replanning(goal)
        BY <1>1, <2>1, <2>2, StepsKeep, RejectedReplanning
  <2> HIDE DEF goal
  <2>4. state.pc = "replan" /\ state.goal = goal BY <1>1 DEF TickState
  <2>5. goal.state = "active" /\ SameWork(old, goal)
        BY <2>3 DEF Keeps, SameTasks, SameWork, Replanning, Going
  <2>6. Move(w, g, state) BY <2>1 DEF goal
  <2> HIDE DEF state
  <2> QED BY <2>4, <2>5, <2>6, GoOnKept
<1>11. CASE ExecuteTask(w, g)
  <2>1. PICK t \in NextTask(old.graph) :
          Move(w, g, [here EXCEPT !.pc = "execute", !.task = t, !.goal = Started(old, t)])
        BY <1>11 DEF ExecuteTask
  <2>2. old.state = "active" /\ old.steps < MaxSteps BY <1>11 DEF ExecuteTask, MayStep
  <2> DEFINE goal == Started(old, t)
             state == [here EXCEPT !.pc = "execute", !.task = t, !.goal = goal]
  <2>3. Keeps(old, goal) /\ Executing(goal, t)
        BY <1>1, <2>1, <2>2, StepsKeep, StartedExecuting
  <2> HIDE DEF goal
  <2>4. state.pc = "execute" /\ state.goal = goal BY <1>1 DEF TickState
  <2>5. goal.state = "active" /\ SameWork(old, goal)
        BY <2>3 DEF Keeps, SameTasks, SameWork, Executing, Going
  <2>6. Move(w, g, state) BY <2>1 DEF goal
  <2> HIDE DEF state
  <2> QED BY <2>4, <2>5, <2>6, GoOnKept
<1>12. CASE RefuseReplan(w, g)
  <2>1. here.pc = "replan" /\ Replanning(here.goal) BY <1>1, <1>12 DEF RefuseReplan, SoundTick
  <2>2. PICK storm \in BOOLEAN :
          ToSave(w, g, IF storm \/ ReplanSpent(here.goal)
                       THEN ReplanRefused(here.goal, storm)
                       ELSE here.goal)
        BY <1>12 DEF RefuseReplan
  <2>3. /\ ReplanRefused(here.goal, storm) \in Goal
        /\ Keeps(here.goal, ReplanRefused(here.goal, storm))
        /\ ReplanRefused(here.goal, storm).state = "failed"
        BY <1>1, <2>1, ReplanRefusedSound, ReplansKeep
  <2>4. Keeps(here.goal, here.goal) BY GraphKeepsTasks
  <2> QED BY <1>1, <1>2, <1>4, <2>1, <2>2, <2>3, <2>4
<1>13. CASE AskPlanner(w, g)
  <2> DEFINE goal == ReplanStarted(here.goal)
             state == [here EXCEPT !.pc = "plan", !.goal = goal]
  <2>1. here.pc = "replan" /\ Move(w, g, state) BY <1>13 DEF AskPlanner
  <2>2. /\ goal.state = here.goal.state /\ goal.graph = here.goal.graph
        /\ goal.plain = here.goal.plain
        BY <1>1 DEF ReplanStarted, Goal
  <2> HIDE DEF goal
  <2>4. goal.state = "active" /\ SameWork(old, goal) BY <1>2, <2>1, <2>2 DEF SameWork
  <2>3. state.pc = "plan" /\ state.goal = goal BY <1>1 DEF TickState
  <2> HIDE DEF state
  <2> QED BY <2>1, <2>3, <2>4, GoOnKept
<1>14. CASE TaskSucceeds(w, g)
  <2> DEFINE r == Succeeded(here.goal, here.task)
  <2>1. here.pc = "execute" /\ Executing(here.goal, here.task) /\ ToSave(w, g, r)
        BY <1>1, <1>14 DEF TaskSucceeds, SoundTick
  <2>2. r \in Goal /\ Finishes(here.goal, r, here.task) /\ r.state = "active"
        BY <1>1, <2>1, TasksKeep, SucceededSound
  <2> HIDE DEF r
  <2>3. here.task \in TaskId BY <2>1, ExecutedTask, <1>1
  <2>4. Successor(old, r) BY <1>2, <2>1, <2>2, <2>3 DEF Successor, SameWork, Finishes
  <2> QED BY <2>1, <2>2, <2>4, ToSaveKept
<1>15. CASE TaskFails(w, g)
  <2> DEFINE goal == FailedOnce(here.goal, here.task)
             pc == IF CanRetry(here.goal, here.task) THEN "save" ELSE "replan"
             state == [here EXCEPT !.pc = pc, !.goal = goal]
  <2>1. here.pc = "execute" /\ Executing(here.goal, here.task) /\ Move(w, g, state)
        BY <1>1, <1>15 DEF TaskFails, SoundTick
  <2>2. Keeps(here.goal, goal) /\ goal.state = "active" BY <1>1, <2>1, TasksKeep
  <2>3. pc \in {"save", "replan"} OBVIOUS
  <2> HIDE DEF goal, pc
  <2>4. state.pc = pc /\ state.goal = goal BY <1>1 DEF TickState
  <2>5. SameWork(old, goal) BY <1>2, <2>1, <2>2 DEF Keeps, SameTasks, SameWork
  <2> HIDE DEF state
  <2>6. KeptTick(old, state) BY <2>2, <2>3, <2>4, <2>5 DEF KeptTick, Successor
  <2> QED BY <2>1, <2>6, MoveKept
<1>16. CASE GetNoPlan(w, g)
  <2>1. /\ here.pc = "plan" /\ Replanning(here.goal)
        /\ ToSave(w, g, PlanningFailed(here.goal))
        BY <1>1, <1>16 DEF GetNoPlan, SoundTick
  <2>2. /\ PlanningFailed(here.goal) \in Goal
        /\ Keeps(here.goal, PlanningFailed(here.goal))
        /\ PlanningFailed(here.goal).state = "failed"
        BY <1>1, <2>1, ReplansKeep, PlanningFailedSound
  <2> QED BY <1>4, <2>1, <2>2
<1>17. ASSUME NEW plan \in Plans, AcceptPlan(w, g, plan) PROVE WorkKept'
  <2> DEFINE r == Replanned(here.goal, plan)
  <2>1. here.pc = "plan" /\ Replanning(here.goal) /\ ToSave(w, g, r)
        BY <1>1, <1>17 DEF AcceptPlan, SoundTick
  <2>2. Dated(here.goal, here.goal.replans) BY <1>1, <2>1 DEF DatedTick
  <2>3. /\ r \in Goal /\ r.state = "active" /\ r.plain = here.goal.plain
        /\ DoneIds(r.graph) \in {DoneIds(here.goal.graph), {}}
        BY <1>1, <2>1, ReplannedLooses, ReplannedSound
  <2>4. here.goal.plain => DoneIds(r.graph) = DoneIds(here.goal.graph)
        BY <1>1, <2>1, <2>2, ReplannedKeeps
  <2> HIDE DEF r
  <2>5. Successor(old, r) BY <1>2, <2>1, <2>3, <2>4 DEF Successor, SameWork
  <2> QED BY <2>1, <2>3, <2>5, ToSaveKept
<1> QED BY <1>5, <1>6, <1>7, <1>8, <1>9, <1>10, <1>11, <1>12, <1>13, <1>14, <1>15, <1>16, <1>17
        DEF Compute, Answer

\* Records that nobody holds a copy of may be replaced, as long as they have no
\* finished tasks before they are planned.
LEMMA WriteKept ==
  ASSUME WorkKept, NEW S \in SUBSET Goals,
         \A h \in Goals \ S :
           store'[h] = store[h] /\ (maker'[h] = maker[h] \/ maker'[h].pc # "planning"),
         \A w \in Drivers, h \in Goals : tick'[w][h] = tick[w][h] \/ ~Holding(w, h)',
         \A u \in Operators, h \in Goals : command'[u] = command[u] \/ command'[u].id # h,
         \A g \in S :
           /\ \A w \in Drivers : ~Holding(w, g)'
           /\ \A u \in Operators : command'[u].id # g
           /\ maker'[g].pc = "planning" => Unplanned(maker'[g].goal)
           /\ store'[g].state \in {"absent", "planning"} => Unplanned(store'[g])
  PROVE  WorkKept'
<1>1. ASSUME NEW w \in Drivers, NEW h \in Goals PROVE KeptTick(store'[h], tick'[w][h])
  <2>1. CASE ~Holding(w, h)' BY <2>1 DEF Holding, KeptTick
  <2>2. CASE Holding(w, h)'
    <3>1. h \notin S /\ store'[h] = store[h] /\ tick'[w][h] = tick[w][h] BY <2>2
    <3> QED BY <3>1 DEF WorkKept
  <2> QED BY <2>1, <2>2
<1>2. ASSUME NEW u \in Operators, NEW h \in Goals, command'[u].id = h
      PROVE  /\ command'[u].goal.state = "active"
             /\ SameWork(store'[h], command'[u].goal)
  <2>1. h \notin S /\ command'[u] = command[u] /\ store'[h] = store[h] BY <1>2
  <2> QED BY <1>2, <2>1 DEF WorkKept
<1>3. ASSUME NEW h \in Goals
      PROVE  /\ maker'[h].pc = "planning" => Unplanned(maker'[h].goal)
             /\ store'[h].state \in {"absent", "planning"} => Unplanned(store'[h])
  <2>1. CASE h \in S BY <2>1
  <2>2. CASE h \notin S BY <2>2 DEF WorkKept
  <2> QED BY <2>1, <2>2
<1>4. \A w \in Drivers, h \in Goals : KeptTick(store[h], tick[w][h])'
      BY <1>1 DEF KeptTick, Successor, SameWork
<1> QED BY <1>2, <1>3, <1>4 DEF WorkKept

\* The driver saves.
LEMMA SaveKept ==
  ASSUME Undisturbed, IInv, QInv, WorkKept, NEW w \in Drivers, NEW g \in Goals, SaveStep(w, g)
  PROVE  WorkKept'
<1> DEFINE here == tick[w][g]
<1>1. /\ Holding(w, g) /\ store[g].state = "active"
      /\ \A u \in Operators : command[u].id # g
      /\ maker[g].pc # "planning"
      BY DEF SaveStep, Holding, QInv, HolderFits
<1>2. Successor(store[g], here.goal) BY DEF SaveStep, WorkKept, KeptTick
<1>3. /\ UNCHANGED <<maker, command>>
      /\ store'[g] = here.goal /\ \A h \in Goals \ {g} : store'[h] = store[h]
      BY DEF SaveStep, IInv, TypeOK
<1>4. /\ tick'[w][g].pc \in {"idle", "load"}
      /\ \A v \in Drivers, h \in Goals : tick'[v][h] = tick[v][h] \/ (v = w /\ h = g)
      BY DEF SaveStep, IdleTick, IInv, TypeOK
<1>5. /\ \A v \in Drivers : ~Holding(v, g)'
      /\ \A v \in Drivers, h \in Goals : tick'[v][h] = tick[v][h] \/ ~Holding(v, h)'
      BY <1>4 DEF Undisturbed, Holding
<1>6. store'[g].state \notin {"absent", "planning"} BY <1>2, <1>3 DEF Successor
<1>7. {g} \in SUBSET Goals OBVIOUS
<1> QED BY <1>1, <1>3, <1>5, <1>6, <1>7, WriteKept

\* A restart, or an exception.
LEMMA FaultKept ==
  ASSUME Undisturbed, IInv, WorkKept,
         Restart \/ \E w \in Drivers, g \in Goals : StepRaises(w, g)
  PROVE  WorkKept'
<1>1. \A v \in Drivers, h \in Goals : tick'[v][h] = tick[v][h] \/ tick'[v][h].pc = "idle"
      BY DEF StepRaises, Restart, IInv, TypeOK, IdleTick
<1>2. \A v \in Drivers, h \in Goals : tick'[v][h] = tick[v][h] \/ ~Holding(v, h)'
      BY <1>1 DEF Holding
<1>3. store' = store BY DEF StepRaises, Restart
<1>4. \A h \in Goals : maker'[h] = maker[h] \/ maker'[h].pc # "planning"
      BY DEF StepRaises, Restart, IInv, TypeOK
<1>5. \A u \in Operators, h \in Goals : command'[u] = command[u] \/ command'[u].id # h
      BY DEF StepRaises, Restart, IdleCommand, Undisturbed
<1>6. {} \in SUBSET Goals OBVIOUS
<1> QED BY <1>2, <1>3, <1>4, <1>5, <1>6, WriteKept

\* A tick begins, or ends and prunes.
LEMMA ScheduleKept ==
  ASSUME Undisturbed, IInv, QInv, WorkKept, NEW w \in Drivers, StartTick(w) \/ EndTick(w)
  PROVE  WorkKept'
<1>1. UNCHANGED <<maker, command>> BY DEF StartTick, EndTick
<1>2. CASE StartTick(w)
  <2>1. /\ store' = store
        /\ \A v \in Drivers, h \in Goals :
             tick'[v][h] = tick[v][h] \/ tick'[v][h].pc \in {"idle", "load"}
        BY <1>2 DEF StartTick, IInv, TypeOK, IdleTick
  <2>2. \A v \in Drivers, h \in Goals : tick'[v][h] = tick[v][h] \/ ~Holding(v, h)'
        BY <2>1 DEF Holding
  <2>3. {} \in SUBSET Goals OBVIOUS
  <2> QED BY <1>1, <2>1, <2>2, <2>3, WriteKept
<1>3. CASE EndTick(w)
  <2> DEFINE S == {h \in Goals : store'[h] # store[h]}
  <2>1. tick' = tick BY <1>3 DEF EndTick
  <2>2. \A h \in S : store'[h] = NoGoal /\ store[h].state \in Terminal
        BY <1>3 DEF EndTick, TerminalGoals
  <2>3. ASSUME NEW h \in S
        PROVE  /\ \A v \in Drivers : ~Holding(v, h)'
               /\ \A u \in Operators : command'[u].id # h
               /\ maker'[h].pc # "planning" /\ Unplanned(store'[h])
    <3>1. /\ \A v \in Drivers : ~Holding(v, h)
          /\ \A u \in Operators : command[u].id # h
          /\ maker[h].pc # "planning"
          BY <2>2 DEF QInv, HolderFits, Terminal
    <3>2. \A v \in Drivers : ~Holding(v, h)' BY <2>1, <3>1 DEF Holding
    <3> QED BY <1>1, <2>2, <3>1, <3>2, FirstGoalsSettled DEF Unplanned
  <2>4. S \in SUBSET Goals /\ \A h \in Goals \ S : store'[h] = store[h] OBVIOUS
  <2> HIDE DEF S
  <2> QED BY <1>1, <2>1, <2>3, <2>4, WriteKept
<1> QED BY <1>2, <1>3

\* The creator saves.
LEMMA CreateKept ==
  ASSUME Undisturbed, IInv, QInv, WorkKept, NEW g \in Goals, Create(g)
  PROVE  WorkKept'
<1>1. /\ UNCHANGED <<tick, command>>
      /\ maker[g].pc \in {"unborn", "planning"}
      /\ \A h \in Goals \ {g} : store'[h] = store[h] /\ maker'[h] = maker[h]
      BY DEF Create, CreateGoal, PlanGoal, UseTemplate, FailToPlan, EndCreate, IInv, TypeOK
<1>2. /\ maker'[g].pc = "planning" => Unplanned(maker'[g].goal)
      /\ store'[g].state \in {"absent", "planning"} => Unplanned(store'[g])
  <2>1. ASSUME NEW mode, CreateGoal(g, mode)
        PROVE  Unplanned(maker'[g].goal) /\ Unplanned(store'[g])
    <3>1. maker'[g].goal = NewGoal(mode) /\ store'[g] = NewGoal(mode)
          BY <2>1 DEF CreateGoal, IInv, TypeOK
    <3> QED BY <3>1, FirstGoalsSettled DEF Unplanned
  <2>2. ASSUME NEW goal, EndCreate(g, goal)
        PROVE  maker'[g].pc = "done" /\ store'[g] = goal
        BY <2>2 DEF EndCreate, IInv, TypeOK
  <2>3. ASSUME (\E plan \in Plans : PlanGoal(g, plan))
                 \/ (\E gr \in Templates : UseTemplate(g, gr))
        PROVE  maker'[g].pc = "done" /\ store'[g].state = "active"
    <3>1. maker[g].goal \in Goal BY DEF IInv, TypeOK, MakerState
    <3> QED BY <2>2, <2>3, <3>1, FirstGoalsSettled DEF PlanGoal, UseTemplate
  <2>4. ASSUME FailToPlan(g) PROVE maker'[g].pc = "done" /\ store'[g].state = "failed"
    <3>1. maker[g].goal \in Goal BY DEF IInv, TypeOK, MakerState
    <3>2. PlanningFailed(maker[g].goal).state = "failed" BY <3>1, ReplansKeep
    <3> QED BY <2>2, <2>4, <3>2 DEF FailToPlan
  <2> QED BY <2>1, <2>3, <2>4, FirstGoalsSettled DEF Create
<1>3. /\ \A w \in Drivers : ~Holding(w, g)'
      /\ \A u \in Operators : command'[u].id # g
  <2>1. store[g].state \in {"absent", "planning"} BY <1>1 DEF QInv, HolderFits
  <2>2. /\ \A w \in Drivers : ~Holding(w, g)
        /\ \A u \in Operators : command[u].id # g
        BY <2>1 DEF QInv, HolderFits
  <2> QED BY <1>1, <2>2 DEF Holding
<1>4. {g} \in SUBSET Goals OBVIOUS
<1> QED BY <1>1, <1>2, <1>3, <1>4, WriteKept

\* A resume is applied to the copy: the goal is active, its tasks are the same.
LEMMA ResumeKeeps ==
  ASSUME NEW goal \in Goal
  PROVE  /\ Effect("resume", goal).state = "active"
         /\ SameWork(goal, Effect("resume", goal))
<1>1. "resume" \in CommandKinds BY DEF CommandKinds
<1>2. Effect("resume", goal).state = "active" BY DEF Effect, Goal, Modes
<1> QED BY <1>1, <1>2, CommandsKeep DEF Keeps, SameTasks, SameWork

\* The user resumes.
LEMMA OperateKept ==
  ASSUME Undisturbed, IInv, QInv, WorkKept, NEW u \in Operators, Operate(u)
  PROVE  WorkKept'
<1>1. ASSUME NEW kind \in Commands, NEW g \in Goals, IssueCommand(u, kind, g) PROVE WorkKept'
  <2>1. kind = "resume" BY DEF Undisturbed
  <2>2. UNCHANGED <<store, maker, tick>> BY <1>1 DEF IssueCommand
  <2>3. /\ command'[u].id = g /\ command'[u].goal = Effect("resume", store[g])
        /\ \A v \in Operators : v = u
        BY <1>1, <2>1 DEF IssueCommand, IInv, TypeOK, Undisturbed
  <2>4. /\ command'[u].goal.state = "active"
        /\ SameWork(store[g], command'[u].goal)
        BY <2>3, Loaded, ResumeKeeps
  <2>5. \A v \in Operators, h \in Goals :
          command'[v].id = h =>
            /\ command'[v].goal.state = "active"
            /\ SameWork(store'[h], command'[v].goal)
        BY <2>2, <2>3, <2>4
  <2>6. \A w \in Drivers, h \in Goals : KeptTick(store[h], tick[w][h])'
        BY <2>2 DEF WorkKept, KeptTick, Successor, SameWork
  <2>7. \A h \in Goals :
          /\ maker'[h].pc = "planning" => Unplanned(maker'[h].goal)
          /\ store'[h].state \in {"absent", "planning"} => Unplanned(store'[h])
        BY <2>2 DEF WorkKept
  <2> QED BY <2>5, <2>6, <2>7 DEF WorkKept
<1>2. ASSUME NEW g \in Goals, IssueDelete(u, g) PROVE WorkKept'
      BY <1>2 DEF IssueDelete, Undisturbed
<1>3. ASSUME NEW g \in Goals, SaveCommand(u, g) PROVE WorkKept'
  <2>1. /\ command[u].kind = "resume" /\ store[g].state = "paused"
        BY <1>3 DEF SaveCommand, QInv, HolderFits
  <2>2. /\ UNCHANGED <<maker, tick>>
        /\ store'[g] = command[u].goal
        /\ \A h \in Goals \ {g} : store'[h] = store[h]
        /\ command'[u] = IdleCommand
        BY <1>3, <2>1 DEF SaveCommand, IInv, TypeOK
  <2>3. \A v \in Operators, h \in Goals : command'[v].id # h
        BY <2>2 DEF IdleCommand, Undisturbed
  <2>4. /\ \A w \in Drivers : ~Holding(w, g) /\ maker[g].pc # "planning"
        BY <2>1 DEF QInv, HolderFits
  <2>5. \A w \in Drivers : ~Holding(w, g)' BY <2>2, <2>4 DEF Holding
  <2>6. store'[g].state = "active" BY <1>3, <2>2 DEF WorkKept, SaveCommand
  <2>7. {g} \in SUBSET Goals /\ maker'[g].pc # "planning"
        BY <2>1, <2>2 DEF QInv, HolderFits
  <2> QED BY <2>2, <2>3, <2>5, <2>6, <2>7, WriteKept
<1>4. ASSUME NEW g \in Goals, HardDelete(u, g) PROVE WorkKept'
      BY <1>4 DEF HardDelete, QInv, HolderFits
<1> QED BY <1>1, <1>2, <1>3, <1>4 DEF Operate

\* Every step of the undisturbed engine preserves the invariant.
LEMMA NextKept == Undisturbed /\ IInv /\ QInv /\ CopiesDated /\ WorkKept /\ [Next]_vars => WorkKept'
<1> SUFFICES ASSUME Undisturbed, IInv, QInv, CopiesDated, WorkKept, [Next]_vars PROVE WorkKept'
    OBVIOUS
<1>1. ASSUME NEW g \in Goals, Create(g) PROVE WorkKept' BY <1>1, CreateKept
<1>2. ASSUME UNCHANGED <<store, maker, tick, command>> PROVE WorkKept'
  <2>1. \A w \in Drivers, h \in Goals : KeptTick(store[h], tick[w][h])'
        BY <1>2 DEF WorkKept, KeptTick, Successor, SameWork
  <2> QED BY <1>2, <2>1 DEF WorkKept
<1>3. ASSUME NEW g \in Goals, RuntimeElapses(g) PROVE WorkKept'
      BY <1>2, <1>3 DEF RuntimeElapses
<1>4. ASSUME NEW w \in Drivers, StartTick(w) \/ EndTick(w) PROVE WorkKept'
      BY <1>4, ScheduleKept
<1>5. ASSUME NEW w \in Drivers, NEW g \in Goals, TickGoal(w, g) PROVE WorkKept'
      BY <1>5, StepKept, SaveKept, FaultKept DEF TickGoal
<1>6. ASSUME NEW u \in Operators, Operate(u) PROVE WorkKept' BY <1>6, OperateKept
<1>7. CASE Restart BY <1>7, FaultKept
<1>8. CASE UNCHANGED vars BY <1>2, <1>8 DEF vars
<1> QED BY <1>1, <1>3, <1>4, <1>5, <1>6, <1>7, <1>8 DEF Next

\* It holds at first.
LEMMA InitKept == Undisturbed /\ Init => WorkKept
<1> SUFFICES ASSUME Undisturbed, Init PROVE WorkKept OBVIOUS
<1>1. \A w \in Drivers, g \in Goals : tick[w][g].pc = "idle" BY DEF Init, IdleTick
<1>2. \A w \in Drivers, g \in Goals : KeptTick(store[g], tick[w][g]) BY <1>1 DEF KeptTick
<1>3. \A u \in Operators, g \in Goals : command[u].id # g
      BY DEF Init, IdleCommand, Undisturbed
<1>4. \A g \in Goals : Unplanned(store[g]) /\ maker[g].pc = "unborn"
      BY FirstGoalsSettled DEF Init, Unplanned
<1> QED BY <1>2, <1>3, <1>4 DEF WorkKept

LEMMA Kept == Undisturbed /\ Spec => []WorkKept
<1>1. CASE Undisturbed
  <2>1. IInv /\ QInv /\ CopiesDated /\ WorkKept /\ [Next]_vars => WorkKept' BY <1>1, NextKept
  <2>2. Init => WorkKept BY <1>1, InitKept
  <2>3. Spec => []QInv BY <1>1, Quiet
  <2> QED BY <2>1, <2>2, <2>3, Inductive, ReplansCanMerge, PTL DEF Spec
<1> QED BY <1>1

-----------------------------------------------------------------------------
(* The refinement of GoalLifecycle: a write shows as one step of it, and   *)
(* the rest of the engine does not show.                                   *)

\* What is shown of a goal depends on its record and its creator.
LEMMA Shown ==
  ASSUME NEW g \in Goals
  PROVE  /\ PhaseOf[g] = IF store[g].state = "absent" /\ maker[g].pc = "done"
                         THEN "gone" ELSE store[g].state
         /\ DoneOf[g] = DoneIds(store[g].graph)
         /\ g \in LooseOnes <=> ~store[g].plain
         /\ PhaseOf'[g] = IF store'[g].state = "absent" /\ maker'[g].pc = "done"
                          THEN "gone" ELSE store'[g].state
         /\ DoneOf'[g] = DoneIds(store'[g].graph)
         /\ g \in LooseOnes' <=> ~store'[g].plain
BY DEF PhaseOf, DoneOf, LooseOnes

\* Nothing is shown to change of h.
Unmoved(h) ==
  /\ PhaseOf'[h] = PhaseOf[h] /\ DoneOf'[h] = DoneOf[h]
  /\ h \in LooseOnes' <=> h \in LooseOnes

LEMMA RestUnmoved ==
  ASSUME NEW g \in Goals,
         \A h \in Goals \ {g} : store'[h] = store[h] /\ maker'[h] = maker[h]
  PROVE  \A h \in Goals \ {g} : Unmoved(h)
BY Shown DEF Unmoved

\* Whether goals are loose, after a step that leaves all but g alone.
LEMMA LooseMoves ==
  ASSUME NEW g \in Goals, \A h \in Goals \ {g} : Unmoved(h)
  PROVE  /\ (g \in LooseOnes' <=> g \in LooseOnes) => LooseOnes' = LooseOnes
         /\ g \in LooseOnes' => LooseOnes' = LooseOnes \cup {g}
<1>1. LooseOnes \subseteq Goals /\ LooseOnes' \subseteq Goals BY DEF LooseOnes
<1>2. \A h \in Goals \ {g} : h \in LooseOnes' <=> h \in LooseOnes BY DEF Unmoved
<1> QED BY <1>1, <1>2

\* A write that moves one goal along its lifecycle is a step of it.
LEMMA MoveShows ==
  ASSUME NEW g \in Goals,
         \A h \in Goals \ {g} : Unmoved(h), DoneOf'[g] = DoneOf[g],
         \/ g \in LooseOnes' <=> g \in LooseOnes
         \/ PhaseOf[g] = "planning" /\ PhaseOf'[g] = "active" /\ g \in LooseOnes',
         \/ PhaseOf'[g] = PhaseOf[g]
         \/ PhaseOf[g] = "absent" /\ PhaseOf'[g] = "planning"
         \/ PhaseOf[g] = "planning" /\ PhaseOf'[g] \in {"active", "failed"}
         \/ PhaseOf[g] = "active" /\ PhaseOf'[g] \in {"paused", "failed"}
         \/ PhaseOf[g] = "active" /\ PhaseOf'[g] = "completed" /\ DoneOf[g] # {}
         \/ PhaseOf[g] = "paused" /\ PhaseOf'[g] = "active"
  PROVE  [L!Next]_<<PhaseOf, DoneOf, LooseOnes>>
<1>1. /\ PhaseOf = [h \in Goals |-> PhaseOf[h]] /\ PhaseOf' = [h \in Goals |-> PhaseOf'[h]]
      /\ DoneOf = [h \in Goals |-> DoneOf[h]] /\ DoneOf' = [h \in Goals |-> DoneOf'[h]]
      BY DEF PhaseOf, DoneOf
<1> DEFINE to == PhaseOf'[g]
<1>2. DoneOf' = DoneOf BY <1>1 DEF Unmoved
<1>3. PhaseOf' = [PhaseOf EXCEPT ![g] = to] BY <1>1 DEF Unmoved
<1>4. LooseOnes' = LooseOnes \/ LooseOnes' = LooseOnes \cup {g} BY LooseMoves
<1>5. LooseOnes' = LooseOnes \/ (PhaseOf[g] = "planning" /\ to = "active") BY LooseMoves
<1>6. CASE PhaseOf'[g] = PhaseOf[g]
  <2>1. PhaseOf' = PhaseOf BY <1>1, <1>6 DEF Unmoved
  <2> QED BY <1>2, <1>5, <1>6, <2>1
<1>7. CASE PhaseOf[g] = "absent" /\ to = "planning"
  <2>1. L!Create(g) BY <1>2, <1>3, <1>5, <1>7 DEF L!Create, L!Goto
  <2> QED BY <2>1 DEF L!Next
<1>8. CASE PhaseOf[g] = "planning" /\ to = "active"
  <2>1. L!Activate(g) BY <1>2, <1>3, <1>4, <1>8 DEF L!Activate, L!Goto
  <2> QED BY <2>1 DEF L!Next
<1>9. CASE PhaseOf[g] \in {"planning", "active"} /\ to = "failed"
  <2>1. L!Abort(g) BY <1>2, <1>3, <1>5, <1>9 DEF L!Abort, L!Goto
  <2> QED BY <2>1 DEF L!Next
<1>10. CASE PhaseOf[g] = "active" /\ to = "paused"
  <2>1. L!Pause(g) BY <1>2, <1>3, <1>5, <1>10 DEF L!Pause, L!Goto
  <2> QED BY <2>1 DEF L!Next
<1>11. CASE PhaseOf[g] = "active" /\ to = "completed" /\ DoneOf[g] # {}
  <2>1. L!Complete(g) BY <1>2, <1>3, <1>5, <1>11 DEF L!Complete, L!Goto
  <2> QED BY <2>1 DEF L!Next
<1>12. CASE PhaseOf[g] = "paused" /\ to = "active"
  <2>1. L!Resume(g) BY <1>2, <1>3, <1>5, <1>12 DEF L!Resume, L!Goto
  <2> QED BY <2>1 DEF L!Next
<1> QED BY <1>6, <1>7, <1>8, <1>9, <1>10, <1>11, <1>12

\* A write that changes the finished tasks of an active goal is a step of it: it
\* adds one, or a loose goal starts over.
LEMMA FinishShows ==
  ASSUME NEW g \in Goals, \A h \in Goals \ {g} : Unmoved(h),
         PhaseOf[g] = "active", PhaseOf'[g] = "active",
         g \in LooseOnes' <=> g \in LooseOnes,
         \/ \E t \in TaskId \ DoneOf[g] : DoneOf'[g] = DoneOf[g] \cup {t}
         \/ g \in LooseOnes /\ DoneOf'[g] = {}
  PROVE  [L!Next]_<<PhaseOf, DoneOf, LooseOnes>>
<1>1. /\ PhaseOf = [h \in Goals |-> PhaseOf[h]] /\ PhaseOf' = [h \in Goals |-> PhaseOf'[h]]
      /\ DoneOf = [h \in Goals |-> DoneOf[h]] /\ DoneOf' = [h \in Goals |-> DoneOf'[h]]
      BY DEF PhaseOf, DoneOf
<1>2. PhaseOf' = PhaseOf BY <1>1 DEF Unmoved
<1>3. LooseOnes' = LooseOnes BY LooseMoves
<1>4. ASSUME NEW t \in TaskId \ DoneOf[g], DoneOf'[g] = DoneOf[g] \cup {t}
      PROVE  L!Next
  <2>1. DoneOf' = [DoneOf EXCEPT ![g] = @ \cup {t}] BY <1>1, <1>4 DEF Unmoved
  <2>2. L!Finish(g, t) BY <1>2, <1>3, <2>1 DEF L!Finish
  <2> QED BY <2>2 DEF L!Next
<1>5. ASSUME g \in LooseOnes, DoneOf'[g] = {} PROVE L!Next
  <2>1. DoneOf' = [DoneOf EXCEPT ![g] = {}] BY <1>1, <1>5 DEF Unmoved
  <2>2. L!StartOver(g) BY <1>2, <1>3, <1>5, <2>1 DEF L!StartOver
  <2> QED BY <2>2 DEF L!Next
<1> QED BY <1>4, <1>5

\* A step that writes no record does not show.
LEMMA NothingShows ==
  ASSUME store' = store,
         \A g \in Goals : maker'[g].pc = maker[g].pc \/ store[g].state # "absent"
  PROVE  [L!Next]_<<PhaseOf, DoneOf, LooseOnes>>
<1>1. PhaseOf' = PhaseOf /\ DoneOf' = DoneOf /\ LooseOnes' = LooseOnes
      BY DEF PhaseOf, DoneOf, LooseOnes
<1> QED BY <1>1

\* The driver's save.
LEMMA SaveShows ==
  ASSUME IInv, QInv, WorkKept, NEW w \in Drivers, NEW g \in Goals, SaveStep(w, g)
  PROVE  [L!Next]_<<PhaseOf, DoneOf, LooseOnes>>
<1> DEFINE goal == tick[w][g].goal
<1>1. /\ maker' = maker /\ store'[g] = goal
      /\ \A h \in Goals \ {g} : store'[h] = store[h]
      BY DEF SaveStep, IInv, TypeOK
<1>2. store[g].state = "active"
  <2>1. Holding(w, g) BY DEF SaveStep, Holding
  <2> QED BY <2>1 DEF QInv, HolderFits
<1>3. Successor(store[g], goal) BY DEF SaveStep, WorkKept, KeptTick
<1>4. Sound(goal) BY DEF SaveStep, IInv, CopiesSound, SoundTick
<1>5. \A h \in Goals \ {g} : Unmoved(h) BY <1>1, RestUnmoved
<1>6. PhaseOf[g] = "active" /\ DoneOf[g] = DoneIds(store[g].graph)
      BY <1>2, Shown
<1>7. /\ goal.state \in {"active", "paused", "failed", "completed"}
      /\ goal.plain <=> store[g].plain
      BY <1>3 DEF Successor, SameWork
<1>8. /\ PhaseOf'[g] = goal.state /\ DoneOf'[g] = DoneIds(goal.graph)
      /\ g \in LooseOnes' <=> g \in LooseOnes
      BY <1>1, <1>7, Shown
<1>9. CASE DoneIds(goal.graph) = DoneIds(store[g].graph)
  <2>1. goal.state = "completed" => DoneIds(goal.graph) # {}
        BY <1>4 DEF Sound, CompletedMeansDone, IsComplete
  <2> HIDE DEF goal
  <2> QED BY <1>5, <1>6, <1>7, <1>8, <1>9, <2>1, MoveShows
<1>10. ASSUME goal.state = "active",
              \/ \E t \in TaskId \ DoneIds(store[g].graph) :
                   DoneIds(goal.graph) = DoneIds(store[g].graph) \cup {t}
              \/ ~store[g].plain /\ DoneIds(goal.graph) = {}
       PROVE  [L!Next]_<<PhaseOf, DoneOf, LooseOnes>>
  <2>1. g \in LooseOnes <=> ~store[g].plain BY Shown
  <2> HIDE DEF goal
  <2> QED BY <1>5, <1>6, <1>8, <1>10, <2>1, FinishShows
<1> QED BY <1>3, <1>9, <1>10 DEF Successor, SameWork

\* The creator's saves.
LEMMA CreateShows ==
  ASSUME IInv, QInv, WorkKept, NEW g \in Goals, Create(g)
  PROVE  [L!Next]_<<PhaseOf, DoneOf, LooseOnes>>
<1>1. /\ \A h \in Goals \ {g} : store'[h] = store[h] /\ maker'[h] = maker[h]
      /\ maker[g].pc \in {"unborn", "planning"} /\ maker[g].goal \in Goal
      BY DEF Create, CreateGoal, PlanGoal, UseTemplate, FailToPlan, EndCreate, IInv, TypeOK,
             MakerState
<1>2. \A h \in Goals \ {g} : Unmoved(h) BY <1>1, RestUnmoved
<1>3. /\ store[g].state = IF maker[g].pc = "unborn" THEN "absent" ELSE "planning"
      /\ PhaseOf[g] = store[g].state /\ DoneOf[g] = {} /\ g \notin LooseOnes
  <2>1. store[g].state = IF maker[g].pc = "unborn" THEN "absent" ELSE "planning"
        BY <1>1 DEF QInv, HolderFits
  <2>2. DoneIds(store[g].graph) = {} /\ store[g].plain BY <2>1 DEF WorkKept, Unplanned
  <2>3. maker[g].pc # "done" BY <1>1
  <2>4. PhaseOf[g] = store[g].state BY <2>3, Shown
  <2> QED BY <2>1, <2>2, <2>4, Shown
<1>4. ASSUME NEW mode \in FirstModes, CreateGoal(g, mode)
      PROVE  [L!Next]_<<PhaseOf, DoneOf, LooseOnes>>
  <2>1. maker[g].pc = "unborn" /\ store'[g] = NewGoal(mode)
        BY <1>4 DEF CreateGoal, IInv, TypeOK
  <2>2. NewGoal(mode).state = "planning" BY DEF NewGoal
  <2>3. DoneIds(NewGoal(mode).graph) = {} /\ NewGoal(mode).plain BY FirstGoalsSettled
  <2>4. PhaseOf'[g] = "planning" /\ DoneOf'[g] = {} /\ g \notin LooseOnes'
        BY <2>1, <2>2, <2>3, Shown
  <2>5. PhaseOf[g] = "absent" BY <1>3, <2>1
  <2> QED BY <1>2, <1>3, <2>4, <2>5, MoveShows
<1>5. ASSUME NEW goal, EndCreate(g, goal), DoneIds(goal.graph) = {},
             goal.state = "active" \/ (goal.state = "failed" /\ goal.plain)
      PROVE  [L!Next]_<<PhaseOf, DoneOf, LooseOnes>>
  <2>1. maker[g].pc = "planning" /\ store'[g] = goal BY <1>5 DEF EndCreate, IInv, TypeOK
  <2>2. /\ PhaseOf'[g] = goal.state /\ DoneOf'[g] = {}
        /\ g \in LooseOnes' <=> ~goal.plain
        BY <1>5, <2>1, Shown
  <2>3. PhaseOf[g] = "planning" BY <1>3, <2>1
  <2> QED BY <1>2, <1>3, <1>5, <2>2, <2>3, MoveShows
<1>6. ASSUME (\E plan \in Plans : PlanGoal(g, plan))
               \/ (\E gr \in Templates : UseTemplate(g, gr))
      PROVE  [L!Next]_<<PhaseOf, DoneOf, LooseOnes>>
      BY <1>1, <1>5, <1>6, FirstGoalsSettled DEF PlanGoal, UseTemplate
<1>7. CASE FailToPlan(g)
  <2>1. maker[g].pc = "planning" BY <1>7 DEF FailToPlan, EndCreate
  <2>2. /\ PlanningFailed(maker[g].goal).state = "failed"
        /\ DoneIds(PlanningFailed(maker[g].goal).graph) = DoneIds(maker[g].goal.graph)
        /\ PlanningFailed(maker[g].goal).plain = maker[g].goal.plain
        BY <1>1, ReplansKeep DEF Keeps, SameTasks
  <2>3. DoneIds(maker[g].goal.graph) = {} /\ maker[g].goal.plain BY <2>1 DEF WorkKept, Unplanned
  <2> QED BY <1>5, <1>7, <2>2, <2>3 DEF FailToPlan
<1> QED BY <1>4, <1>6, <1>7 DEF Create

\* The end of a tick forgets the oldest terminal goals.
LEMMA PruneShows ==
  ASSUME IInv, QInv, NEW w \in Drivers, EndTick(w)
  PROVE  [L!Next]_<<PhaseOf, DoneOf, LooseOnes>>
<1>1. PICK old \in SUBSET TerminalGoals :
        store' = [g \in Goals |-> IF g \in old THEN NoGoal ELSE store[g]]
      BY DEF EndTick
<1>2. maker' = maker BY DEF EndTick
<1>3. old \in SUBSET Goals /\ \A g \in old : store[g].state \in Terminal
      BY DEF TerminalGoals
<1>4. \A g \in old : maker[g].pc = "done"
      BY <1>3 DEF QInv, HolderFits, Terminal, IInv, TypeOK, MakerState
<1>5. \A g \in old : PhaseOf[g] \in {"completed", "failed"}
      BY <1>3, Shown DEF Terminal
<1>6. \A g \in old : PhaseOf'[g] = "gone" /\ DoneOf'[g] = {} /\ g \notin LooseOnes'
  <2> TAKE g \in old
  <2>1. g \in Goals /\ store'[g] = NoGoal /\ maker'[g].pc = "done" BY <1>1, <1>2, <1>3, <1>4
  <2> QED BY <2>1, FirstGoalsSettled, Shown
<1>7. \A g \in Goals \ old : Unmoved(g) BY <1>1, <1>2, Shown DEF Unmoved
<1>8. PhaseOf' = [g \in Goals |-> IF g \in old THEN "gone" ELSE PhaseOf[g]]
  <2>1. PhaseOf' = [g \in Goals |-> PhaseOf'[g]] BY DEF PhaseOf
  <2> QED BY <1>6, <1>7, <2>1 DEF Unmoved
<1>9. DoneOf' = [g \in Goals |-> IF g \in old THEN {} ELSE DoneOf[g]]
  <2>1. DoneOf' = [g \in Goals |-> DoneOf'[g]] BY DEF DoneOf
  <2> QED BY <1>6, <1>7, <2>1 DEF Unmoved
<1>10. LooseOnes' = LooseOnes \ old
  <2>1. LooseOnes \subseteq Goals /\ LooseOnes' \subseteq Goals BY DEF LooseOnes
  <2> QED BY <1>6, <1>7, <2>1 DEF Unmoved
<1>11. L!Forget(old) BY <1>5, <1>8, <1>9, <1>10 DEF L!Forget
<1> QED BY <1>3, <1>11 DEF L!Next

\* The user's save.
LEMMA OperateShows ==
  ASSUME Undisturbed, IInv, QInv, WorkKept, NEW u \in Operators, Operate(u)
  PROVE  [L!Next]_<<PhaseOf, DoneOf, LooseOnes>>
<1>1. ASSUME NEW kind \in Commands, NEW g \in Goals, IssueCommand(u, kind, g)
      PROVE  [L!Next]_<<PhaseOf, DoneOf, LooseOnes>>
      BY <1>1, NothingShows DEF IssueCommand
<1>2. ASSUME NEW g \in Goals, IssueDelete(u, g) PROVE [L!Next]_<<PhaseOf, DoneOf, LooseOnes>>
      BY <1>2, NothingShows DEF IssueDelete
<1>3. ASSUME NEW g \in Goals, SaveCommand(u, g) PROVE [L!Next]_<<PhaseOf, DoneOf, LooseOnes>>
  <2>1. /\ maker' = maker /\ store'[g] = command[u].goal
        /\ \A h \in Goals \ {g} : store'[h] = store[h]
        BY <1>3 DEF SaveCommand, IInv, TypeOK
  <2>2. /\ store[g].state = "paused" /\ command[u].goal.state = "active"
        /\ DoneIds(command[u].goal.graph) = DoneIds(store[g].graph)
        /\ command[u].goal.plain = store[g].plain
        BY <1>3 DEF SaveCommand, QInv, HolderFits, WorkKept, SameWork
  <2>3. \A h \in Goals \ {g} : Unmoved(h) BY <2>1, RestUnmoved
  <2>4. /\ PhaseOf[g] = "paused" /\ PhaseOf'[g] = "active" /\ DoneOf'[g] = DoneOf[g]
        /\ g \in LooseOnes' <=> g \in LooseOnes
        BY <2>1, <2>2, Shown
  <2> QED BY <2>3, <2>4, MoveShows
<1>4. ASSUME NEW g \in Goals, HardDelete(u, g) PROVE [L!Next]_<<PhaseOf, DoneOf, LooseOnes>>
      BY <1>4 DEF HardDelete, QInv, HolderFits
<1> QED BY <1>1, <1>2, <1>3, <1>4 DEF Operate

\* Every step of the undisturbed engine shows as a step of the lifecycle.
LEMMA NextShows ==
  Undisturbed /\ IInv /\ QInv /\ WorkKept /\ [Next]_vars => [L!Next]_<<PhaseOf, DoneOf, LooseOnes>>
<1> SUFFICES ASSUME Undisturbed, IInv, QInv, WorkKept, [Next]_vars
             PROVE  [L!Next]_<<PhaseOf, DoneOf, LooseOnes>>
    OBVIOUS
<1>1. ASSUME NEW g \in Goals, Create(g) PROVE [L!Next]_<<PhaseOf, DoneOf, LooseOnes>>
      BY <1>1, CreateShows
<1>2. ASSUME UNCHANGED <<store, maker>> PROVE [L!Next]_<<PhaseOf, DoneOf, LooseOnes>>
      BY <1>2, NothingShows
<1>3. ASSUME NEW g \in Goals, RuntimeElapses(g) PROVE [L!Next]_<<PhaseOf, DoneOf, LooseOnes>>
      BY <1>2, <1>3 DEF RuntimeElapses
<1>4. ASSUME NEW w \in Drivers, StartTick(w) PROVE [L!Next]_<<PhaseOf, DoneOf, LooseOnes>>
      BY <1>2, <1>4 DEF StartTick
<1>5. ASSUME NEW w \in Drivers, EndTick(w) PROVE [L!Next]_<<PhaseOf, DoneOf, LooseOnes>>
      BY <1>5, PruneShows
<1>6. ASSUME NEW w \in Drivers, NEW g \in Goals, TickGoal(w, g)
      PROVE  [L!Next]_<<PhaseOf, DoneOf, LooseOnes>>
  <2>1. CASE SaveStep(w, g) BY <2>1, SaveShows
  <2>2. CASE ~SaveStep(w, g)
    <3>1. UNCHANGED <<store, maker>>
          BY <1>6, <2>2 DEF TickGoal, Compute, Answer, StepRaises, LeaveGoal, WaitBackoff,
             StopAtLimit, FindNoTask, BlockTask, RejectTask, ExecuteTask, RefuseReplan,
             AskPlanner, TaskSucceeds, TaskFails, GetNoPlan, AcceptPlan, ToSave, Move
    <3> QED BY <1>2, <3>1
  <2> QED BY <2>1, <2>2
<1>7. ASSUME NEW u \in Operators, Operate(u) PROVE [L!Next]_<<PhaseOf, DoneOf, LooseOnes>>
      BY <1>7, OperateShows
<1>8. CASE Restart
  <2>1. store' = store /\ \A g \in Goals : maker'[g].pc = maker[g].pc \/ maker[g].pc = "planning"
        BY <1>8 DEF Restart
  <2>2. \A g \in Goals : maker[g].pc = "planning" => store[g].state # "absent"
        BY DEF QInv, HolderFits
  <2> QED BY <2>1, <2>2, NothingShows
<1>9. CASE UNCHANGED vars BY <1>2, <1>9 DEF vars
<1> QED BY <1>1, <1>3, <1>4, <1>5, <1>6, <1>7, <1>8, <1>9 DEF Next

\* Nothing has been made at first.
LEMMA InitShows == Init => L!Init
<1> SUFFICES ASSUME Init PROVE L!Init OBVIOUS
<1>1. \A g \in Goals :
        /\ maker[g].pc = "unborn" /\ store[g].state = "absent"
        /\ DoneIds(store[g].graph) = {} /\ store[g].plain
      BY FirstGoalsSettled DEF Init
<1> QED BY <1>1 DEF L!Init, PhaseOf, DoneOf, LooseOnes

\* The engine with one driver and a user who only resumes implements the
\* lifecycle: a goal goes through planning once, finishes a task at a time and
\* only while it is active, completes with something done, and never comes back
\* from a terminal state or from being pruned.  Only a goal from a template with
\* ids of earlier replans ever loses finished tasks, and then all of them.
THEOREM ImplementsLifecycle == Undisturbed /\ Spec => Lifecycle
<1>1. CASE Undisturbed
  <2>1. IInv /\ QInv /\ WorkKept /\ [Next]_vars => [L!Next]_<<PhaseOf, DoneOf, LooseOnes>>
        BY <1>1, NextShows
  <2>2. Spec => []QInv /\ []WorkKept BY <1>1, Quiet, Kept, PTL
  <2> QED BY <2>1, <2>2, InitShows, Inductive, PTL DEF Spec, Lifecycle, L!Spec
<1> QED BY <1>1

\* With one driver and a user who only resumes, a finished task of a goal with
\* plain ids is never forgotten while the goal exists: whatever is lost to a
\* restart or an exception, what Redis says is done stays done, through replans
\* too.  Empty plans and dangling dependencies from templates do not change that.
THEOREM FinishedWorkStays == Undisturbed /\ Spec => DoneStaysDone
<1>1. ASSUME IInv', [L!Next]_<<PhaseOf, DoneOf, LooseOnes>>
      PROVE  \A g \in Goals :
               store[g].plain /\ store'[g].state # "absent"
                 => DoneIds(store[g].graph) \subseteq DoneIds(store'[g].graph)
  <2> SUFFICES ASSUME NEW g \in Goals, store[g].plain, store'[g].state # "absent"
               PROVE  DoneOf[g] \subseteq DoneOf'[g]
      BY Shown
  <2>1. PhaseOf'[g] # "gone" /\ g \notin LooseOnes
    <3>1. store'[g] \in Goal BY <1>1 DEF IInv, TypeOK
    <3>2. store'[g].state # "gone" BY <3>1 DEF Goal, GoalStates
    <3> QED BY <3>2, Shown
  <2>2. CASE UNCHANGED <<PhaseOf, DoneOf, LooseOnes>> BY <2>2
  <2>3. ASSUME NEW S \in SUBSET Goals, L!Forget(S) PROVE DoneOf[g] \subseteq DoneOf'[g]
        BY <2>1, <2>3 DEF L!Forget
  <2>4. ASSUME NEW h \in Goals, NEW t, L!Finish(h, t) PROVE DoneOf[g] \subseteq DoneOf'[g]
    <3>1. DoneOf' = [DoneOf EXCEPT ![h] = @ \cup {t}] BY <2>4 DEF L!Finish
    <3>2. DoneOf = [k \in Goals |-> DoneOf[k]] BY DEF DoneOf
    <3> QED BY <3>1, <3>2
  <2>5. ASSUME NEW h \in Goals, L!StartOver(h) PROVE DoneOf[g] \subseteq DoneOf'[g]
    <3>1. DoneOf' = [DoneOf EXCEPT ![h] = {}] /\ h # g BY <2>1, <2>5 DEF L!StartOver
    <3>2. DoneOf = [k \in Goals |-> DoneOf[k]] BY DEF DoneOf
    <3> QED BY <3>1, <3>2
  <2>6. ASSUME DoneOf' = DoneOf PROVE DoneOf[g] \subseteq DoneOf'[g] BY <2>6
  <2> QED BY <1>1, <2>2, <2>3, <2>4, <2>5, <2>6
          DEF L!Next, L!Goto, L!Create, L!Activate, L!Abort, L!Pause, L!Resume, L!Complete
<1>2. CASE Undisturbed
  <2>1. /\ IInv /\ IInv' /\ QInv /\ WorkKept /\ [Next]_vars
        => [\A g \in Goals : store[g].plain /\ store'[g].state # "absent"
              => DoneIds(store[g].graph) \subseteq DoneIds(store'[g].graph)]_vars
        BY <1>1, <1>2, NextShows
  <2>2. Spec => []QInv /\ []WorkKept BY <1>2, Quiet, Kept, PTL
  <2> QED BY <2>1, <2>2, Inductive, PTL DEF Spec, DoneStaysDone
<1> QED BY <1>2

=============================================================================
