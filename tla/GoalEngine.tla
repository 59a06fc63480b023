----------------------------- MODULE GoalEngine -----------------------------
(***************************************************************************)
(* The Goal Engine (goal_orchestrator/): goals live in one Redis hash as   *)
(* whole JSON records; every process that touches one loads the record,    *)
(* works on its copy across awaits and writes the whole copy back, with no *)
(* version check and no lock.  The processes are                           *)
(*   - create_goal, one per goal;                                          *)
(*   - drivers: GoalOrchestrator.tick, run by the scheduler's loop and by  *)
(*     Scheduler.trigger.  A tick advances several goals concurrently      *)
(*     (asyncio.gather), up to StepsPerTick steps each;                    *)
(*   - operators: dashboard commands, the meta-reflection job and          *)
(*     AgentRuntime.tick, which pause, resume, cancel, delete or           *)
(*     reconfigure a goal.                                                 *)
(* Code between two awaits is one action, since asyncio runs it alone.     *)
(***************************************************************************)
EXTENDS GoalStep

CONSTANTS
  Goals,            \* goal ids
  Plans,            \* graphs the planner or the critic may give
  Templates,        \* graphs a template may hold
  FirstModes,       \* autonomy modes goals are created with
  Drivers,          \* sources of ticks
  Operators,        \* processes that issue commands
  Commands,         \* the commands they may issue
  Priority,         \* goal.priority
  MaxConcurrent,    \* goals per tick
  StepsPerTick,     \* MAX_STEPS_PER_TICK
  KeepTerminal,     \* MAX_TERMINAL_GOALS
  FailureCluster,   \* consecutive failures that make a goal anomalous
  StagnationSteps,  \* steps without a done task that make a goal anomalous
  BlockRateSteps,   \* steps after which policy blocks count as anomalous
  MaxCommands,      \* bound: commands other than resume
  MaxFaults         \* bound: restarts of the process and exceptions

CommandKinds ==
  {"pause", "resume", "cancel", "delete", "assist", "semi", "full",
   "reflect", "unpause"}

\* What planner._validate_and_build_graph lets through: a non-empty valid dag
\* of fresh tasks with plain ids, numbered in list order.
FreshPlan(plan) ==
  /\ plan \in Graph
  /\ Ids(plan) # {}
  /\ \A i \in TaskId : IF plan[i].status = "absent"
                       THEN plan[i] = AbsentNode
                       ELSE /\ plan[i].status = "pending"
                            /\ plan[i].retries = 0
                            /\ plan[i].pos \in 1 .. Cardinality(Ids(plan))
                            /\ i[1] = 0
  /\ \A i, j \in Ids(plan) : plan[i].pos = plan[j].pos => i = j
  /\ ValidDag(plan)

ASSUME PlansAssumption == \A plan \in Plans : FreshPlan(plan)

\* What GoalTemplate.load_task_graph gives back: the graph of any goal, at any
\* time of its life, with all its tasks PENDING.  Nothing is validated: the
\* graph may be empty, a truncated plan with dangling dependencies, or have
\* ids that replans have made.
Blueprint(gr) ==
  /\ gr \in Graph
  /\ \A i \in TaskId : IF gr[i].status = "absent"
                       THEN gr[i] = AbsentNode
                       ELSE gr[i].status = "pending" /\ gr[i].retries = 0
  /\ \A i, j \in Ids(gr) : gr[i].pos = gr[j].pos => i = j

ASSUME TemplatesAssumption == \A gr \in Templates : Blueprint(gr)

ASSUME EngineAssumption ==
  /\ FirstModes \subseteq Modes
  /\ Commands \subseteq CommandKinds
  /\ Priority \in [Goals -> Nat]
  /\ MaxConcurrent \in Nat \ {0} /\ StepsPerTick \in Nat \ {0}
  /\ KeepTerminal \in Nat /\ MaxCommands \in Nat /\ MaxFaults \in Nat
  /\ FailureCluster \in Nat /\ StagnationSteps \in Nat /\ BlockRateSteps \in Nat

VARIABLES
  store,     \* the Redis hash: goal id -> record
  late,      \* goals older than max_runtime_seconds
  maker,     \* create_goal of each goal: where it is, with its copy
  ticking,   \* drivers inside tick()
  tick,      \* _tick_one of each driver and goal: where it is, with its copy
  command,   \* the command each operator is executing, with its copy
  issued,    \* number of bounded commands issued so far
  faults,    \* number of restarts and raised exceptions so far
  runs       \* history: skill executions started for each goal

vars == <<store, late, maker, ticking, tick, command, issued, faults, runs>>

NoTask == <<0, "none">>

IdleTick == [pc |-> "idle", goal |-> NoGoal, task |-> NoTask, n |-> 0]

IdleCommand == [pc |-> "idle", kind |-> "none", id |-> "none", goal |-> NoGoal]

Init ==
  /\ store   = [g \in Goals |-> NoGoal]
  /\ late    = [g \in Goals |-> FALSE]
  /\ maker   = [g \in Goals |-> [pc |-> "unborn", goal |-> NoGoal]]
  /\ ticking = [w \in Drivers |-> FALSE]
  /\ tick    = [w \in Drivers |-> [g \in Goals |-> IdleTick]]
  /\ command = [u \in Operators |-> IdleCommand]
  /\ issued  = 0
  /\ faults  = 0
  /\ runs    = [g \in Goals |-> 0]

-----------------------------------------------------------------------------
(* create_goal.  An id is a fresh uuid: it is born once.                   *)

CreateGoal(g, mode) ==
  /\ maker[g].pc = "unborn"
  /\ store' = [store EXCEPT ![g] = NewGoal(mode)]
  /\ maker' = [maker EXCEPT ![g] = [pc |-> "planning", goal |-> NewGoal(mode)]]
  /\ UNCHANGED <<late, ticking, tick, command, issued, faults, runs>>

\* The write that ends create_goal, of its own copy.
EndCreate(g, goal) ==
  /\ maker[g].pc = "planning"
  /\ store' = [store EXCEPT ![g] = goal]
  /\ maker' = [maker EXCEPT ![g] = [pc |-> "done", goal |-> NoGoal]]
  /\ UNCHANGED <<late, ticking, tick, command, issued, faults, runs>>

PlanGoal(g, plan)  == EndCreate(g, Planned(maker[g].goal, plan))
UseTemplate(g, gr) == EndCreate(g, FromTemplate(maker[g].goal, gr))
FailToPlan(g)      == EndCreate(g, PlanningFailed(maker[g].goal))

\* max_runtime_seconds have passed since started_at.
RuntimeElapses(g) ==
  /\ store[g].state \in {"active", "paused"}
  /\ ~late[g]
  /\ late' = [late EXCEPT ![g] = TRUE]
  /\ UNCHANGED <<store, maker, ticking, tick, command, issued, faults, runs>>

-----------------------------------------------------------------------------
(* A tick: list the active goals, take the first MaxConcurrent by priority *)
(* (ties in any order), step them concurrently, and prune the terminal     *)
(* goals when all are through.                                             *)

ActiveGoals == {g \in Goals : store[g].state = "active"}

Selection(S) ==
  /\ S \subseteq ActiveGoals
  /\ \/ S = ActiveGoals /\ Cardinality(S) <= MaxConcurrent
     \/ Cardinality(S) = MaxConcurrent
  /\ \A g \in S, h \in ActiveGoals \ S : Priority[g] >= Priority[h]

StartTick(w) ==
  /\ ~ticking[w]
  /\ ActiveGoals # {}
  /\ \E S \in SUBSET Goals :
       /\ Selection(S)
       /\ tick' = [tick EXCEPT ![w] =
                     [g \in Goals |-> IF g \in S
                                      THEN [IdleTick EXCEPT !.pc = "load"]
                                      ELSE IdleTick]]
  /\ ticking' = [ticking EXCEPT ![w] = TRUE]
  /\ UNCHANGED <<store, late, maker, command, issued, faults, runs>>

TerminalGoals == {g \in Goals : store[g].state \in Terminal}

EndTick(w) ==
  /\ ticking[w]
  /\ \A g \in Goals : tick[w][g].pc = "idle"
  /\ \E old \in SUBSET TerminalGoals :
       /\ IF Cardinality(TerminalGoals) <= KeepTerminal
          THEN old = {}
          ELSE Cardinality(TerminalGoals \ old) = KeepTerminal
       /\ store' = [g \in Goals |-> IF g \in old THEN NoGoal ELSE store[g]]
  /\ ticking' = [ticking EXCEPT ![w] = FALSE]
  /\ UNCHANGED <<late, maker, tick, command, issued, faults, runs>>

-----------------------------------------------------------------------------
(* _tick_one: load, then the guards of GoalStepExecutor.step in order.     *)
(* Every outcome but the first leaves a copy that will be saved.           *)

Move(w, g, state) ==
  /\ tick' = [tick EXCEPT ![w][g] = state]
  /\ UNCHANGED <<store, late, maker, ticking, command, issued, faults>>

\* The step is over: goal is what _tick_one will save.
ToSave(w, g, goal) ==
  /\ Move(w, g, [tick[w][g] EXCEPT !.pc = "save", !.goal = goal])
  /\ UNCHANGED runs

Loading(w, g) == tick[w][g].pc = "load"

\* The loaded goal is active and no limit stops it.  That a backoff is over is
\* for the clock to say, so the steps below do not ask.
MayStep(w, g) ==
  /\ Loading(w, g)
  /\ store[g].state = "active"
  /\ ~store[g].exceeded
  /\ store[g].steps < MaxSteps
  /\ ~late[g]

LeaveGoal(w, g) ==
  /\ Loading(w, g)
  /\ store[g].state # "active"
  /\ Move(w, g, IdleTick)
  /\ UNCHANGED runs

WaitBackoff(w, g) ==
  /\ Loading(w, g)
  /\ store[g].state = "active"
  /\ ~store[g].exceeded
  /\ store[g].backoff
  /\ ToSave(w, g, store[g])

StopAtLimit(w, g) ==
  /\ Loading(w, g)
  /\ store[g].state = "active"
  /\ store[g].exceeded \/ store[g].steps >= MaxSteps \/ late[g]
  /\ ToSave(w, g, Stopped(store[g]))

FindNoTask(w, g) ==
  /\ MayStep(w, g)
  /\ Executable(store[g].graph) = {}
  /\ ToSave(w, g, Rested(store[g]))

MustAsk(goal, t) == NeedsConfirmation(goal.graph[t], goal.mode)

BlockTask(w, g) ==
  /\ MayStep(w, g)
  /\ \E t \in NextTask(store[g].graph) :
       /\ MustAsk(store[g], t) \/ store[g].graph[t].fault = "denied"
       /\ ToSave(w, g, Blocked(store[g], t))

RejectTask(w, g) ==
  /\ MayStep(w, g)
  /\ \E t \in NextTask(store[g].graph) :
       /\ ~MustAsk(store[g], t)
       /\ store[g].graph[t].fault = "rejected"
       /\ Move(w, g, [tick[w][g] EXCEPT !.pc = "replan",
                                        !.goal = Rejected(store[g], t)])
  /\ UNCHANGED runs

ExecuteTask(w, g) ==
  /\ MayStep(w, g)
  /\ \E t \in NextTask(store[g].graph) :
       /\ ~MustAsk(store[g], t)
       /\ store[g].graph[t].fault = "none"
       /\ Move(w, g, [tick[w][g] EXCEPT !.pc = "execute", !.task = t,
                                        !.goal = Started(store[g], t)])
  /\ runs' = [runs EXCEPT ![g] = @ + 1]

-----------------------------------------------------------------------------
(* The skill answers; a task that failed for good asks for a new plan.     *)

TaskSucceeds(w, g) ==
  /\ tick[w][g].pc = "execute"
  /\ ToSave(w, g, Succeeded(tick[w][g].goal, tick[w][g].task))

TaskFails(w, g) ==
  LET here == tick[w][g] IN
  /\ here.pc = "execute"
  /\ Move(w, g, [here EXCEPT
                   !.pc   = IF CanRetry(here.goal, here.task) THEN "save"
                                                              ELSE "replan",
                   !.goal = FailedOnce(here.goal, here.task)])
  /\ UNCHANGED runs

\* A storm, the budget or the hard cap ends the goal; a locked plan without a
\* task that failed for good is kept.
RefuseReplan(w, g) ==
  LET goal == tick[w][g].goal IN
  /\ tick[w][g].pc = "replan"
  /\ \E storm \in BOOLEAN :
       /\ storm => StormPossible(goal)
       /\ storm \/ ReplanSpent(goal) \/ ReplanSkipped(goal)
       /\ ToSave(w, g, IF storm \/ ReplanSpent(goal)
                       THEN ReplanRefused(goal, storm)
                       ELSE goal)

AskPlanner(w, g) ==
  LET goal == tick[w][g].goal IN
  /\ tick[w][g].pc = "replan"
  /\ ~ReplanSpent(goal)
  /\ ~ReplanSkipped(goal)
  /\ Move(w, g, [tick[w][g] EXCEPT !.pc = "plan", !.goal = ReplanStarted(goal)])
  /\ UNCHANGED runs

AcceptPlan(w, g, plan) ==
  /\ tick[w][g].pc = "plan"
  /\ ToSave(w, g, Replanned(tick[w][g].goal, plan))

GetNoPlan(w, g) ==
  /\ tick[w][g].pc = "plan"
  /\ ToSave(w, g, PlanningFailed(tick[w][g].goal))

\* Mutant of MoreSteps: one step too many in a tick.
MoreStepsMutant(goal, n) == goal.state = "active" /\ n + 1 <= StepsPerTick

\* The loop of tick() over the steps of one goal.
MoreSteps(goal, n) == goal.state = "active" /\ n + 1 < StepsPerTick

\* save_goal of the copy, whatever the hash holds by now; then the next step
\* of the same tick if the copy is still active.
SaveStep(w, g) ==
  LET here == tick[w][g] IN
  /\ here.pc = "save"
  /\ store' = [store EXCEPT ![g] = here.goal]
  /\ tick'  = [tick EXCEPT ![w][g] =
                 IF MoreSteps(here.goal, here.n)
                 THEN [IdleTick EXCEPT !.pc = "load", !.n = here.n + 1]
                 ELSE IdleTick]
  /\ UNCHANGED <<late, maker, ticking, command, issued, faults, runs>>

\* An exception during the step (the planner, a skill, Redis): nothing saved.
StepRaises(w, g) ==
  /\ tick[w][g].pc \in {"execute", "plan", "save"}
  /\ faults < MaxFaults
  /\ tick'   = [tick EXCEPT ![w][g] = IdleTick]
  /\ faults' = faults + 1
  /\ UNCHANGED <<store, late, maker, ticking, command, issued, runs>>

-----------------------------------------------------------------------------
(* Commands: each loads the record, checks its state and later saves its   *)
(* modified copy.  "assist", "semi" and "full" are set_autonomy_mode,      *)
(* "reflect" is the meta-reflection job, which holds its copy while an LLM *)
(* answers, "unpause" is AgentRuntime.tick on a paused goal whose backoff  *)
(* has expired.                                                            *)

Anomalous(goal) ==
  \/ goal.failures >= FailureCluster
  \/ goal.steps >= StagnationSteps /\ DoneIds(goal.graph) = {}
  \/ goal.steps > BlockRateSteps

\* Mutant of Applies: resume does not ask whether the goal is paused.
AppliesMutant(kind, goal) ==
  CASE kind = "resume"               -> goal.state \in {"active", "paused"}
    [] kind = "unpause"              -> goal.state = "paused" /\ goal.backoff
    [] kind \in {"cancel", "delete"}
         \cup Modes                  -> goal.state \notin Terminal \cup {"absent"}
    [] OTHER                         -> goal.state = "active"

Applies(kind, goal) ==
  CASE kind = "pause"               -> goal.state = "active"
    [] kind = "reflect"             -> goal.state = "active" /\ Anomalous(goal)
    [] kind = "resume"              -> goal.state = "paused"
    [] kind = "unpause"             -> goal.state = "paused" /\ goal.backoff
    [] kind \in {"cancel", "delete"}
         \cup Modes                 -> goal.state \notin Terminal \cup {"absent"}

Effect(kind, goal) ==
  CASE kind \in {"pause", "reflect"} -> Paused(goal)
    [] kind = "resume"               -> [goal EXCEPT !.state = "active",
                                                     !.graph = Unblock(goal.graph),
                                                     !.exceeded = FALSE]
    [] kind = "unpause"              -> [goal EXCEPT !.state = "active",
                                                     !.backoff = FALSE,
                                                     !.failures = 0]
    [] kind \in {"cancel", "delete"} -> Failed(goal)
    [] kind \in Modes                -> [goal EXCEPT !.mode = kind]

CanIssue(u, kind) ==
  /\ command[u].pc = "idle"
  /\ kind = "resume" \/ issued < MaxCommands

IssueCommand(u, kind, g) ==
  /\ CanIssue(u, kind)
  /\ Applies(kind, store[g])
  /\ command' = [command EXCEPT ![u] = [pc |-> "save", kind |-> kind, id |-> g,
                                        goal |-> Effect(kind, store[g])]]
  /\ issued' = IF kind = "resume" THEN issued ELSE issued + 1
  /\ UNCHANGED <<store, late, maker, ticking, tick, faults, runs>>

\* delete_goal of the dashboard skips the refused cancel and goes on to hdel.
IssueDelete(u, g) ==
  /\ "delete" \in Commands
  /\ CanIssue(u, "delete")
  /\ store[g].state \in Terminal
  /\ command' = [command EXCEPT ![u] = [pc |-> "hdel", kind |-> "delete", id |-> g,
                                        goal |-> NoGoal]]
  /\ issued' = issued + 1
  /\ UNCHANGED <<store, late, maker, ticking, tick, faults, runs>>

SaveCommand(u, g) ==
  /\ command[u].pc = "save"
  /\ command[u].id = g
  /\ store'   = [store EXCEPT ![g] = command[u].goal]
  /\ command' = [command EXCEPT ![u] =
                   IF @.kind = "delete"
                   THEN [@ EXCEPT !.pc = "hdel", !.goal = NoGoal]
                   ELSE IdleCommand]
  /\ UNCHANGED <<late, maker, ticking, tick, issued, faults, runs>>

HardDelete(u, g) ==
  /\ command[u].pc = "hdel"
  /\ command[u].id = g
  /\ store'   = [store EXCEPT ![g] = NoGoal]
  /\ command' = [command EXCEPT ![u] = IdleCommand]
  /\ UNCHANGED <<late, maker, ticking, tick, issued, faults, runs>>

-----------------------------------------------------------------------------
\* The process restarts: Redis keeps the records, every copy is gone.
Restart ==
  /\ faults < MaxFaults
  /\ maker'   = [g \in Goals |-> IF maker[g].pc = "planning"
                                 THEN [pc |-> "done", goal |-> NoGoal]
                                 ELSE maker[g]]
  /\ ticking' = [w \in Drivers |-> FALSE]
  /\ tick'    = [w \in Drivers |-> [g \in Goals |-> IdleTick]]
  /\ command' = [u \in Operators |-> IdleCommand]
  /\ faults'  = faults + 1
  /\ UNCHANGED <<store, late, issued, runs>>

Create(g) ==
  \/ \E mode \in FirstModes : CreateGoal(g, mode)
  \/ \E plan \in Plans : PlanGoal(g, plan)
  \/ \E gr \in Templates : UseTemplate(g, gr)
  \/ FailToPlan(g)

\* The steps that need no outside answer.
Compute(w, g) ==
  \/ LeaveGoal(w, g) \/ WaitBackoff(w, g) \/ StopAtLimit(w, g)
  \/ FindNoTask(w, g) \/ BlockTask(w, g) \/ RejectTask(w, g)
  \/ ExecuteTask(w, g) \/ RefuseReplan(w, g) \/ AskPlanner(w, g)
  \/ SaveStep(w, g)

\* The skill and the planner, which answer within their own timeouts.
Answer(w, g) ==
  \/ TaskSucceeds(w, g) \/ TaskFails(w, g) \/ GetNoPlan(w, g)
  \/ \E plan \in Plans : AcceptPlan(w, g, plan)

TickGoal(w, g) == Compute(w, g) \/ Answer(w, g) \/ StepRaises(w, g)

Operate(u) ==
  \E g \in Goals :
    \/ \E kind \in Commands : IssueCommand(u, kind, g)
    \/ IssueDelete(u, g) \/ SaveCommand(u, g) \/ HardDelete(u, g)

Next ==
  \/ \E g \in Goals : Create(g) \/ RuntimeElapses(g)
  \/ \E w \in Drivers : StartTick(w) \/ EndTick(w)
  \/ \E w \in Drivers, g \in Goals : TickGoal(w, g)
  \/ \E u \in Operators : Operate(u)
  \/ Restart

Spec == Init /\ [][Next]_vars

=============================================================================
