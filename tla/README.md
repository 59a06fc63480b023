# A TLA+ model of Agent WASP

Agent WASP is a self-hosted agent: a chat pipeline, a Goal Engine that plans and runs multi-step
goals, a scheduler, integrations, a Telegram bridge and a privileged broker, all around one Redis.
This directory models the parts whose correctness depends on state, order and failure rather than on
text, checks them with TLC on small instances, and proves the safety of each of them with TLAPS for
all values of its constants. Paths below are relative to `src/containers/agent-core/src/` unless
they start with `src/`.

    tlc -config goal_all.cfg MCGoalEngine.tla        # a run: see "Runs"
    tlapm GoalEngineProofs.tla                       # a proof: see "Proofs"

## 1. The system

| Component | State | Operations | How it interacts |
|---|---|---|---|
| **Goal Engine** (`goal_orchestrator/orchestrator.py`, `executor.py`, `store.py`, `types.py`, `stability.py`, `budget.py`, `job.py`) | Redis hash of whole JSON goals: state, task graph, counters, stability, budget | create, tick (up to 3 steps of each of the most important active goals), replan, pause, resume, cancel, set mode, prune | ticked by the Scheduler; commanded by dashboard, Telegram, agents, reflection job; calls skills and the planner |
| **Task graph** (`types.py`) | nodes with status, dependencies, retries | validate_dag, get_next_task, replan merge | inside a goal |
| **Autonomy matrix** (`autonomy.py`) | none | needs_confirmation | gate of the executor |
| **Planner, critic, templates** (`planner.py`, `plan_validator.py`, `templates.py`) | templates in Redis | generate, validate; store the graph of a goal, load it | called at creation and replan; a template's graph is used as it is |
| **Meta-reflection job** (`reflection_job.py`) | none of its own | pause anomalous goals | writes goals it listed before its LLM calls |
| **Scheduler** (`scheduler/scheduler.py`) | jobs in memory, pause state and last run in one Redis key | loops, trigger, pause, resume, restore | runs every periodic job |
| **User's scheduled tasks** (`scheduler/custom_tasks.py`, `scheduler/jobs.py`, `events/handlers.py`) | Redis hash of whole JSON records | create, run when due, write the outcome back, edit, delete | the runner job publishes a trigger, the consumer loop runs it and saves the outcome |
| **Chat execution loop** (`EventHandler._run_llm_loop` in `events/handlers.py`, `events/control_layer.py`, `validation/recovery_engine.py`) | flags and counters of one request | call the model, sift its calls, execute, correct, replan, close; validate, recover, correct a scheduled task | runs inside the handler of a message; calls models and skills |
| **Agent manager** (`agent_manager/`) | agents in Redis, their goal ids, team runs | create, pause, archive, delete, tick; team supervisor | creates and reactivates goals |
| **Resource governor** (`governance/governor.py`) | Redis counters | check_allow, record_action, release_slot | asked by create_goal and by the chat's handlers, released by ticks before they save |
| **Circuit breaker** (`integrations/circuit_breaker.py`) | state, failure count, last failure; copy in Redis | call, restore, reset | wraps every integration call (`integrations/registry.py`) |
| **Event bus, consumer loop** (`events/bus.py`, `main.py`) | Redis streams and groups | publish, consume, ack, group recovery, pending sweep | between bridge and chat pipeline |
| **Telegram bridge** (`src/containers/agent-telegram/src/bridge.py`) | pending requests, delivered ids, albums | publish, deliver, timeout fallback | users on one side, the bus on the other |
| **Broker** (`src/containers/agent-broker/src/main.py`, `health/broker_client.py`, `health/repair.py`) | two streams | send_command, execute, respond, heal | restarts containers |
| **The rest of the chat pipeline, skills, memory, models, connectors, dashboard** | conversations, documents, vectors | text processing and I/O | use all of the above |

What makes it hard. Nothing in the Goal Engine locks: each process loads a whole record, works on
the copy across awaits (a skill, an LLM, a notification) and writes the whole copy back. The same
shape returns in the scheduler's persisted state, the agent records and the breaker's copy. Around it
there are restarts at any await, exceptions that skip the save, concurrent goals in one tick, a manual
trigger beside the scheduler's loop, timeouts that race late answers, streams whose consumers stop
between delivery and acknowledgement, and counters for retries, replans, storms, budgets and
backoff that must stop the engine but never strand a goal.

What makes each component correct:

- *Goal Engine*: a task runs only after its dependencies, completion means all tasks done, no failed or
  running task is stranded, a task waiting for the user keeps waiting, limits hold, an active goal
  comes to rest, finished work is never forgotten; and, in the absence of other writers, the
  lifecycle a user sees.
- *Task graph*: validation accepts exactly the dags; no replan loses finished or new work; a graph
  without failure always has a next task until it is complete.
- *Breaker*: an open breaker knows why, a failed probe reopens it, a probe comes, and a restart does not
  let calls through.
- *Scheduler*: no job falls behind however often the host restarts, a restart does not run one before
  its interval is over, no rewrite of the shared record invents a run; a pause survives.
- *Scheduled tasks*: an enabled task is triggered again and again, the breaker trips on failures that
  happened, a task that never worked is never reported as a success.
- *Execution loop*: what a request costs is bounded, validation and recovery included, the loop runs only
  vetted calls, the answer knows the last results.
- *Bridge and bus*: no answer is delivered twice, every request ends with an answer or the fallback
  (an album under the request's own id does not, see the findings).
- *Broker*: a command is executed at most once, and a caller gets the response to its own command.
- *Governor*: no more goals than the limit but for those that callers at once, an early release or the
  expiry of the key let through, and every slot given back once.

`PROJECT.json` lists every component with what is left out, and every hazard at its line.

## 2. Modules

| Module | Stands for |
|---|---|
| `TaskGraph` | class `TaskGraph` and the merge of `_try_replan`; the autonomy matrix. Operators only |
| `GoalStep` | the goal record, and what each outcome of `GoalStepExecutor.step` and `_try_replan` does to a copy |
| `GoalEngine` | the processes that load, hold and write records: creation, ticks, commands, restarts |
| `GoalProperties` | type invariant, safety invariants, the inductive invariants, action properties, the refinement mapping to `GoalLifecycle`, statements the code does not keep |
| `GoalLifecycle` | abstract specification: the state machine of a goal, up to its being forgotten, and its set of finished tasks |
| `MCGoalEngine` | plans, priorities, fairness |
| `PlanHistory`, `MCPlanHistory` | one graph through every answer of the planner, completions, failures and replans |
| `CircuitBreaker` | the breaker of one integration, with concurrent calls, resets and restarts |
| `RedisStream` | a stream with its consumer group, as bus, bridge and broker use it. Operators only |
| `TelegramChannel`, `MCTelegram` | bridge, both streams of the event bus, and the core's consumer loop, composed |
| `AgentLoop` | the execution loop of one chat request, and the validation, recovery and correction of its answer |
| `Scheduler`, `MCScheduler` | the loops of the jobs, manual runs, pauses, and the one Redis key they all rewrite |
| `ScheduledTasks`, `MCScheduledTasks` | runner, consumer and edits over the records of the user's tasks |
| `Governor`, `MCGovernor` | the limit on active goals, with the creation of goals from chat and elsewhere, and what gives their slots back |
| `BrokerChannel` | client, two streams and broker, composed |
| `TaskGraphProofs`, `GoalEngineProofs`, `OutboundProofs`, `TelegramChannelProofs`, `AgentLoopProofs`, `SchedulerProofs`, `ScheduledTasksProofs`, `GovernorProofs` | the theorems; `OutboundProofs` has those of `CircuitBreaker` and `BrokerChannel` |

`PlanHistory` and `CircuitBreaker` name their specifications apart (`HistorySpec`, `BreakerSpec`), because
a proof module extends them together with another specification.

Everywhere, an action is the code from one await to the next, because asyncio runs it alone.

### GoalEngine and the code

The variables:

- `store` is the hash `goals` of `store.py`; `NoGoal` is a missing field.
- `maker[g]` is `create_goal` while it waits for planner and critic, with its copy. `CreateGoal` is
  the first save; `PlanGoal`, `UseTemplate` and `FailToPlan` the last one.
- `tick[w][g]` is `_tick_one` for driver `w`: `load` (about to load), `execute` (the skill runs),
  `replan` (the step ended in `task_failed`), `plan` (the planner runs), `save` (about to save). A driver
  is a source of `tick()`: the scheduler's loop, or `Scheduler.trigger`. One tick steps several
  goals at once (`asyncio.gather`); `EndTick` is the pruning that follows.
- `command[u]` is an operator: dashboard, Telegram, the reflection job ("reflect"), `AgentRuntime.tick`
  ("unpause"). Each loads, tests the state and later saves its copy; delete is a cancel and then `hdel`.
- The guards of `step` are tested in the order of the code: budget flag, backoff, step limit,
  runtime, next task, confirmation, sandbox, intent gate and placeholders, execution. Each outcome is
  an action: `WaitBackoff`, `StopAtLimit`, `FindNoTask`, `BlockTask`, `RejectTask`, `ExecuteTask`.
- `Restart` drops every copy; `StepRaises` is the `except` at the end of `_tick_one`, without a save.

A graph is a total function from task ids to nodes, absent ones included. An id is a pair of a replan
number and a name, for the renaming `"x"` to `"r<n>_x"`. The planner is taken to give ids of the first
form, which its prompt asks for (`planner.py:286` would accept any text); templates are not.
The place of a node in its plan replaces the list order.

A template holds what `make_template_from_goal` found in a goal of any age and state, and `create_goal` uses
it without `validate_dag`: `Blueprint` only says that all tasks are PENDING. The graph may be empty,
have dependencies that a truncation has left dangling, or hold ids that replans have made. The last is what
tells goals apart later: `UseTemplate` notes in the history field `plain` whether the ids are a planner's. If
they are not, the rename of a later replan can give an id that is in use; then `validate_dag` counts fewer ids
than nodes (`Distinct`), the merge is refused, and `MergeReplan` falls back to the new plan alone, as the code.

Abstractions and what they leave out:

- *Time*. A backoff is in force or over by choice; `late` says the runtime limit has passed; replans
  within the storm window are a choice once there are enough of them. Every order the clock allows is
  there, and some it does not.
- *Planner and critic* answer with any plan of the constant `Plans`, or none. `FreshPlan` states what
  the code's validation guarantees of these. Of `Templates` it says nothing.
- *Counters changed together* are one field (`step_count` and `budget.steps_executed`,
  `replan_count` and `budget.replans_used`). `check_steps` can then never raise first, as the two
  limits are equal from creation. `stability.locked` is not modelled: nothing in production sets it.
- *Unreachable guards are kept* (the budget flag in `StopAtLimit`, the plan lock in `RefuseReplan`,
  a failed task in `Rested`); the theorems say they are unreachable for goals the engine made.
- *Pruning* lists and deletes in one action and may take any of the terminal goals over the limit.
- Telemetry, progress, notifications, event sourcing, governor slots and duplicate detection are not
  there. `runs` and `planCalls` count executions and planner calls for the properties; `issued` and
  `faults` count commands and faults so that `MaxCommands` and `MaxFaults` can bound them.

`Lifecycle` maps a goal to its state and its DONE tasks (`PhaseOf`, `DoneOf`); a goal whose creation is over
and that is not in the hash is "gone", so that pruning shows as `Forget` and is not mistaken for a goal
still to be created. A goal from a template of a replanned goal is `loose` (`LooseOnes`): it may start over with
nothing done, which no other may. That is all a user can see without reading graphs, and it holds only as long
as nobody else writes: a pause that lands in a step is overwritten, which `GoalLifecycle` does not allow.

### CircuitBreaker and the code

`mem` and `restored` are the fields of the object, `saved` the Redis key, `proc[c]` a call of
`IntegrationRegistry.execute` inside `call`: `load` and `loaded` are the two awaits of `restore`, `call`
the connector, `write` the `SETEX` of `_persist` with the payload it read before. A reset has a task
of its own, which reads the fields only when it starts. `last` keeps the last failure's time as far
as the code asks: never, or before or after the recovery timeout. On a restore the age is a choice:
the code compares `time.monotonic()` of two processes, which a reboot sets back.
`Leave` is a cancelled call or a `CircuitBreakerOpenError` from below, which record nothing. A read
may find nothing (expired, Redis down), a write may be lost: `_persist` and `restore` never raise.

### TelegramChannel and the code

The model is the composition of two processes over two streams. `incoming` and `outgoing` are the streams of
`events/bus.py` and `bridge.py` (`RedisStream`: all consumers read `>` only and never process their pending
entries again, so a message delivered has left for good; a group that vanished is made again at `$`, which
skips the backlog). `coreReq`, `corePhase` and `todo` are the consumer loop of `main.py` inside `handle()`;
`Interrupt` is its `wait_for` timeout or an exception, at any point of a reply. In the bridge, `pending` and
`expiring` are the timeout guards before and after their sleep, `typing` the indicator tasks, `remembered`
and `marked` the two halves of the delivery mark, `batch`, `phase` and `tries` the listener, `album` the
buffer of a media group. `Look`, `Mark`, `SendText`, `SendPhotos` and `Acknowledge` are the listener between
its awaits; `BridgeRestart`, `CoreRestart` and `Wipe` (a factory reset) may come between any two steps. A
reply takes any of the paths of the core: text, photos, screenshots, an album. Of an album that is sent
under the request's own id the first photo makes the second a duplicate (`Stranded`): the user sees nothing,
without any fault. Left out: what is in a message, downloads, progress events (the code drops them), and the
lifetime of marks (500 in memory, 600 s in Redis: longer than any reply is under way). `answers`, `unsure`,
`settled` and `forgotten` record what happened, for the properties.

### AgentLoop and the code

`stage` is the place in a round of `_run_llm_loop`, `round` and `used` its two counters, `ctx` the flags of
`_LoopContext`, `calls` the skill calls that are left after each gate. A call is one of four sorts, by the gate
that stops it: without a URL (the router), with a side effect nobody asked for (the intent gate), foreign to
the request (the guard before execution), or fine. An answer without calls is what the five corrections ask
of it. The model may return any set of calls and any answer, skills any result; that is the environment.
`Corrections` has the order of the code, and its fourth and fifth wait for a terminal state that is
never set for a committed request (see the findings); they are kept as they are in the code.

After the loop: `Close` are the gates on the answer, which put a text of their own in place of what they
refuse, by patterns or by a model; none is taken to catch anything, so that nothing is said about the truth
of an answer. `Validate` is the `ResponseValidator`, `Redirect` the rewriting of an answer that has drifted,
`Recover`, `Mend`, `Synthesize` and `GiveUp` the attempts of `attempt_recovery`, `Correct`, `CorrectionRuns`
and `Summarize` the corrective round of a scheduled task, `Send` what is left of the handler. These call the
model outside the budget and run skills through neither router nor gate nor guard; `CallsBounded` and
`AnswerSeesResults` cover them, `OnlyVetted` and `NoRoundAfterToolError` are about the loop, and say so.
`fresh` says whether the answer at hand was written after the last execution. Left out: prompts, the lock on
a site, artifacts, wording.

### Scheduler and ScheduledTasks and the code

`Scheduler`: `stage["loop"][j]` is `_run_loop` of job `j` (`boot` the first delay, `asleep`, then the
callback, the GET and the SET of `_persist_state`), `stage["hand"][j]` is `trigger`; both may be inside a
run of the same job. `paused` and `age` are `JobState`, `saved` the Redis key, `copy` what a run has read
and merged but not yet written, `snapshot` what `pause` or `resume` writes blindly. Time is a `Tick` that
waits for every loop that is ready; ages stop at the interval, beyond which the code does not distinguish
them.

`ScheduledTasks`: `tasks` is the hash, `listed`, `visiting` and `saving` the runner job with the records it
listed before publishing, `queue` the stream of triggers, `edit` the dashboard, chat and skill with the copy
each will save. `running`, `stage` and `outcome` are the consumer: the run (`running`), then
`_writeback_task_outcome` after its GET (`saving`) and after its save (`notifying`: metrics and a notice for
which a model is called). All of it is inside the `wait_for` of 180 s, so that `Interrupt`, the timeout or
an exception, may come at any of these places (`inTime`); the handler then writes the outcome once more, as
a failure (`cut`), though the first may be saved. `failed` counts failed runs, `cut` those second
writebacks, `Charged` both. `Drop` is a trigger for a busy chat, or one the handler answers early, without
an outcome. `Finds` is the lookup by id, then by name. A time of day is an interval; parsing is left out.
Left out too: records without `next_run`, or without a chat when there is no default one, which the runner
skips for ever (`jobs.py:1008-1029`).

### Governor and the code

`count` is the Redis counter, `pc` the steps of `create_goal` and of the chat's handlers around it: check in
the handler, check in `create_goal`, list for duplicates, save, record, plan, and the handler's second
record. `tick[g]` is a tick on goal `g`, as far as its slot goes: at work, `release_slot` (a DECR, a GET,
and a SET to 0), and the save of its end, in this order: the slot is free while Redis still shows the goal
active. `TickSaves` is the save of a goal that goes on or has used up its budget, `Pause` and `Resume` are
the user's (a paused goal keeps its slot and is resumed without a new record), `EndsByHand` is a cancel or
delete, which releases nothing, `Expire` the end of the key 24 h after the last record, `Crash` a restart at
any await. What else a goal does is `GoalEngine`'s. For the properties, `held` are the goals the counter
shows, `givenBack` those whose slot was released or has expired, `debt` the slots taken from the counter by
goals that held none: released twice, or after the expiry.

### BrokerChannel and the code

`call[c]` is one `send_command`, `got[c]` the responses it has read and not yet looked at: all calls share
one consumer name, so each may read what another waits for. `inHand`, `stage` and `result` are the broker's
loop, with its allowlist (`Forbidden`). `CoreRestarts` are the commands that restart the process that
called. What Docker does is success or failure.

## 3. Runs

All configurations say `CHECK_DEADLOCK FALSE`: every system here may stop, when all goals are terminal
or all requests answered, and the bounded commands and faults are spent.

| Run | Question | Instance |
|---|---|---|
| `goal_all` | Does any interleaving of blind writes leave an unsound record, or a copy in flight that is unsound or cannot be replanned? | 1 goal, 2 drivers, 1 operator with every command, plans and truncated, denied and risky templates, resumes and 1 other command, 1 fault |
| `goal_quiet` | With one driver and a user who only resumes: one writer, nothing forgotten, executions bounded, lifecycle implemented? | 2 replans, 2 faults, templates of any stored graph, no terminal goal kept, so that pruning happens |
| `goal_fair` | Do two goals competing for one slot both come to rest? | 2 goals, priorities 8 and 3, a plan or an empty template, fairness below |
| `plan_history` | Are validation, next task and replan merge right on every small plan? | all dependency relations on 3 names, 2 replans |
| `breaker` | Does an open breaker know why, reopen after a failed probe, and let a probe come? | 2 calls, 1 reset task, threshold 2, 1 restart |
| `telegram` | Is a request answered once, its indicator guarded, its guard stood down, and does it end in something the user sees? | 2 messages of 1 chat, the first answered on any path, albums included, batches of 2, 2 attempts, 1 trouble of any kind |
| `agent_loop` | Is the cost of a request bounded, does the loop run only vetted calls, is the answer from the last results, recovery and correction included? | every sort of request, 6 rounds, budgets 5 and 10, caps 3, 2, 3, 2 attempts of the recovery |
| `scheduler` | Is no job late, none early, and does no stale write invent a run? | intervals 1 and 3 on a host that may restart every 2 ticks, 2 commands, 1 trouble |
| `tasks` | Do breaker and outcome rest on real runs, and is a task triggered again? | 1 task, threshold 2, warning at 1, 2 failures, 2 waiting triggers, 1 edit, 1 trouble |
| `governor` | How far can the limit be passed? | 2 callers, 3 goals, limit 1, 1 goal ticked at a time, 1 slot given back twice, 1 failing call, any crashes and expiries |
| `broker` | Is a command executed once and answered truly, and does each call return? | 3 calls at once, one forbidden, one that restarts the caller, batches of 2, 1 trouble |
| `find_terminal` | Does the loop notice that a committed request is fulfilled? (No: see the findings.) | the real 8 rounds and budgets |

Why these bounds. The record properties speak of one goal, and goals meet only in the choice of what to tick
and in pruning, so one goal suffices for them and two for the competition. Two tasks make every status pair
and a dependency; a third name is needed only for renaming chains and cycles that do not close at once,
which `plan_history` has. One replan shows a merge, two a name that collides with a renamed one. A plan cap
of 1 makes truncation happen with two tasks, a failure threshold of 2 makes backoff happen with one retry
and one failure, a step limit of 2 or 3 ends a goal in the middle of a plan. `goal_all` reads with the
constants lowered (10 steps without a finished task become 2) so that the reflection job acts; the proofs do
not depend on them. Its two drivers do the same, so that they are a symmetry, and its `VIEW` leaves out
`runs`, which no guard and no property of that run reads; one step per tick suffices, as the next tick may
follow at once. With two drivers it stays small by a step limit of 2 and one replan; `goal_quiet` has more
of both, without commands that write. Two callers are the least that can race a restore; threshold 2 keeps a
failure that does not open.

There is one trouble (a failing call, a restart or a reset, at any await) in each of the channels, so the
runs do not show what two in one life do to liveness; for safety the proofs hold with any number of them.
Two messages of one chat share indicator and batch; any path for one of them is enough, as paths meet only
in these. In `scheduler` the long interval exceeds the uptime, the case the catch-up is for, and two jobs
are needed to overwrite each other's entry. In `tasks` two triggers of one task can wait at once; tasks meet
only through names that resemble each other, which is the assumption `NamesDiffer` of the proofs (and
without it a finding). In `governor` two callers race one slot and a third goal follows, after an early
release or an expiry; one slot too many given back lets one goal more pass. In `agent_loop` one budget ends
before the rounds and one after; caps of 3 and 2 and two attempts of the recovery are the real ones, and no
bound limits what the model says.

Fairness (`goal_fair`). The scheduler's loop comes back (weak fairness of `StartTick`, `EndTick`), asyncio
runs what is ready (`Compute`), skills and planner answer within their timeouts (`Answer`, `PlanGoal`). A
backoff lasts 300 s at most, so a goal ticked for ever is not in backoff at every load: strong fairness of
the actions past it. That the CPU guard does not skip every tick is an assumption about the host. Nothing is
assumed of users or the outcome of a task. The runtime limit is relied on only for a goal whose template is
empty, which no step, retry or replan ever ends; a goal with tasks comes to rest without it. `MaxPlanSteps`
covers the plan there: a truncated plan with a dangling dependency is stopped only by the runtime limit, see
the findings. `breaker`: the clock runs, calls keep coming (the promise is about a breaker somebody uses),
connectors have timeouts. `telegram`: a guard's sleep ends, a send answers or raises, the listener goes on;
nothing is assumed of the core, which may hang or never restart. `scheduler`: asyncio runs a loop that is
ready, and time passes. `tasks`: the scheduler starts the runner, the consumer goes on, a begun save ends,
time passes. `broker`: both loops go on and a call reaches its deadline; faults are never due.

Every property of a passing run has a mutant, a plausible bug kept in the module as
`<Definition>Mutant` beside the definition it changes, under which the run fails.

### Findings

`find_terminal` ends with a counterexample. `handlers.py:9140` says of each round "TERMINAL —
_check_action_terminal_state() detects completion", and `control_layer.py:3236` that the layers of phase 8
require a detected terminal state. The detection (`handlers.py:9959`) is in the branch of the requests
*without* commitment, for which it returns False at once: it never finds one. Goal lock and spec override
wait for it and never act; a committed request that is done goes on until the model stops. What is left to
keep its answer honest is the exhaustion guard, of which `control_layer.py:3240` says that it "ensures no
hallucinated completion claims reach the user" and fails closed. It refuses only text that matches a list of
patterns (`control_layer.py:3249`), an exception in it lets the answer pass (`handlers.py:10655`), and the
answer that `attempt_recovery` writes later never comes before it. So no property here says that an answer
is true.

The following statements of the repository do not hold of the code either. Each was refuted by TLC in the
module named, where most are still stated; they have no run of their own.

| Module, statement | The repository | The code |
|---|---|---|
| `MCGoalEngine`, `ResumedTaskRuns` | `autonomy.py:12`: a blocked task waits for review "and then Resume" | resume makes it pending without a mark of approval, the next step blocks it again, for ever |
| `GoalProperties`, `FinishedWorkKept` | `orchestrator.py:766`: "Merge: keep DONE nodes; replace rest with new nodes" | a template saved from a replanned goal holds `t1` and `r1_t1`; the first replan of the new goal renames a `t1` to `r1_t1` as well, `validate_dag` refuses the merge, and the fallback (`orchestrator.py:784`) drops the finished tasks |
| `GoalProperties`, `DeletedStaysDeleted` | `dashboard/routes/goals.py:438`: "Hard-delete a goal from Redis regardless of state" | the save of a step in flight writes it back |
| `GoalProperties`, `NoDanglingDependency` | `orchestrator.py:344`: "topological order preserved by planner" | the planner checks for cycles, not the order; truncation can strand a task |
| `GoalProperties`, `OneTaskAtATime` | `types.py:220`: "One task per tick (enforced by scheduler)" | `Scheduler.trigger` does not look whether the job is running |
| `GoalProperties`, `PlanningWithinBudget` | `orchestrator.py:4`: "tracks and limits planning tokens" | checked once, when nothing is spent; replans are charged, not checked |
| `CircuitBreaker`, `StaysOpenAcrossRestart` | `circuit_breaker.py:44`: "will stay open across deployments" | `_restored` is set before the read is awaited: a second call passes |
| `TelegramChannel`, `AlbumsComplete` | `bridge.py:465`: photos are buffered until all of the album are there | the second photo under the request's own id is taken for a duplicate (`bridge.py:490`), so the album of `handlers.py:6138` is never sent; `EveryRequestServed` excepts exactly this (`Stranded`) |
| `Scheduler`, `PausesSurvive` | `scheduler.py:53`: "manual pauses survive container restarts" | a run of another job that is between its GET and its SET writes back the entry it read before the pause |
| `Scheduler`, `ToldTruly` | `handlers.py:8844`, `8852`: "paused" is reported if the scheduler says so | the coroutine is never awaited, and a coroutine is true |
| `ScheduledTasks`, `OneWarning` | `handlers.py:3768`: "a single early warning", "each new streak gets one notification" | one before each failure short of the threshold, and again when the runner's or an edit's save brings the old count back |
| `ScheduledTasks`, `TripsOnFailedRuns` | `handlers.py:3751`: "auto-disable after 5 consecutive failures" | a timeout after the save of a failure, during the notices, writes back a second one for the same run (`handlers.py:4200`) |
| `Governor`, `LimitKept` | `governor.py:4`: the number of active goals is limited | two callers pass one slot; the slot of an ending goal is free before its end is saved (`orchestrator.py:489`, `541`), and for good if the core stops between the two; the key expires under a paused goal, which is resumed without a record |
| `Governor`, `SlotsReturn` | `governor.py:4`: the counter is the number of active goals | a goal made from the chat is recorded in `create_goal` (`orchestrator.py:247`) and again by the handler (`handlers.py:6470`, `11352`) and released once (`orchestrator.py:489`); a cancelled or deleted one never |
| `BrokerChannel`, `NoStolenResponse` | `broker_client.py`: "wait for the response" | concurrent calls share a consumer and acknowledge each other's responses; the other times out |
| `ScheduledTasks`, `HonestOutcome` with similar names | the outcome is written to the task that ran | if that task was deleted meanwhile, it is looked up by name and may be another |

Differences without a model: `goal-engine.md:129` says a locked plan is not regenerated, but `Replanned`
replaces all its unfinished tasks; `types.py:211` says an exceeded budget pauses the goal, but `_try_replan`
fails it; `goal-engine.md:16` says a graph has at most 8 nodes, but a merge is not truncated; `types.py:241`
and `stability.py:7` speak of a pause after 4 replans in 5 minutes, the code fails the goal after
`REPLAN_STORM_COUNT` in its window; `circuit_breaker.py:6` allows one call through half open, the code
admits every one. `recovery_engine.py:314` says that `recovered=True` means the new response passed
validation, but one rewritten for drift is never validated again; for a screenshot request without a URL the
recovery runs the skills that the loop has just refused to run, and also those of a request in planning
mode. In the execution loop, `max_rounds_override` (`handlers.py:7146`) is set and never read; the
correction of the intent gate is appended although the loop ends when all calls are dropped; replans of the
guard are not counted as corrections, against `handlers.py:3106`. `integrations/connectors/cron.py:109`
calls `pause_job`, which the scheduler does not have. `MetaSupervisor` asks `goal_orchestrator.load_goal`,
which does not exist either, so it sees every goal as unknown for its ten minutes, and it creates agents in
the order of its list, not of their dependencies. The goals of a paused agent keep running, because the tick
takes every active goal. Calls of skills made at once all pass the cooldown and the hourly limit, which are
counted only after the skill, and only if it succeeds.

## 4. Proofs

All proof modules are checked to the last leaf, with no axioms beside the assumptions named in the modules:
typing and positivity of constants, a finite set of names for tasks (`NamesAssumption`: a planner's answer
is a finite list) and different places for different names in it (`PlaceAssumption`, of `PlanHistory` only:
the goal proofs never cite it), finite sets of callers and goals in `Governor`, that plans are what the
validation lets through (`PlansAssumption`) and templates graphs of pending tasks (`TemplatesAssumption`),
that the host stays up longer than the first delay of a loop (`UptimeAssumption`: otherwise no job would
ever run), and `NamesDiffer` in `ScheduledTasksProofs`.

**Task graph** (`TaskGraphProofs`). For any finite set of names, any answers of the planner and any number
of replans: `DagsAreAccepted`, `WorkIsAlwaysReachable`, `ReplansLoseNothing`. What Kahn's loop pops in n
rounds is defined by recursion over n; `Repetition` gives the sequence of the rounds and `SetInduction` the
facts about all of them, both from the library's first-order theorems about well-founded relations. A set of
tasks that wait for each other is never popped (`StuckStays`); rounds that grow would outnumber the tasks,
so some round adds nothing (`RoundsEnd`), and what is left is such a set. Hence `KahnIsRight`: a graph is
accepted if and only if its dependencies exist and no set of its tasks waits for itself. `MergeIsValid` is
the reason why `_try_replan` does not take its fallback for a goal with a planner's ids: if the finished
tasks are of earlier generations and depend on finished tasks only (`Mergeable`), the renamed plan cannot
collide or close a circle with them. The invariant `History` of `PlanHistory` keeps that through
completions, failures and replans; a graph without a failed task then has a task that waits for finished
ones only, and the different places make the next one unique.

**Goal Engine** (`GoalEngineProofs`). For any sets of goals, drivers, operators, commands, plans and
templates and any limits: `TypeCorrect`, `CopiesAlwaysSound`, `AlwaysDependenciesFirst`,
`AlwaysCompletedMeansDone`, `NeverDeadTask`, `AlwaysBlockedWaits`, `AlwaysLimitsHold`. The stored records
alone are not inductive: what is stored next is a copy some process took earlier. The inductive invariant is
`TypeOK /\ CopiesSound`: every record in Redis is sound, and every copy is what its process makes of a sound
one at this point (`Executing`, `Replanning`, sound when about to be saved). Then a late write can only
replace a sound record by another, whoever wins. Typing and soundness need each other: the limit on replans
keeps renamed ids among `TaskId`. Lemma `Merges` carries dependency order through a replan, `Unblocks`
through a resume, `EffectSound` covers the commands; each outcome of a step has its lemma, and `NextSound`
goes through the actions.

What this does not say: `LimitsHold` is about each record. A write that overwrites another driver's also
overwrites its step count, so the executions that really happened can exceed the limit when two drivers
tick. `AlwaysOneWriter` and `ExecutionsAreBounded` are about the engine of `goal_quiet`: they assume
`Undisturbed`, one driver and one user who only resumes, for any goals, plans, limits and faults (the
constants of `goal_quiet` are an instance). Their invariant says that the state of a record in Redis decides
who may hold a copy of it (an active goal the driver, a paused one the user, one in planning its creator),
so that no two can; and that a copy which is lost is ahead of Redis by one execution at most, for which
there is a fault to count.

`ReplansCanMerge` (together with soundness, `CopiesStayInOrder`) carries `Mergeable` into the engine, for
goals with plain ids, templates that are empty, cut or dangling included; of others the findings show the
opposite. In Redis and in every copy, whatever ticks, commands and faults interleave, the next replan makes
up ids that are not in use and its merge is valid (`CopiesDated`). The generation of a task is at most the
replans counted in the same record, so a late write that sets the counter back sets the tasks back with it;
a copy that waits for the planner has counted its replan already, which is why `DatedTick` depends on the
place.

`ImplementsLifecycle` and `FinishedWorkStays` assume `Undisturbed` again. Beside the invariant of
`AlwaysOneWriter` they need `WorkKept`: a copy about to be saved differs from Redis by one step of the
lifecycle (`Successor`: the same tasks done, or one more and the goal active, or none any more if its ids
are not plain), a copy that is still worked on not at all (`SameWork`). A merge either is valid and keeps
what is done, or is the fallback, with nothing done, which is `StartOver` and for a plain goal impossible.
Each outcome of a step and each command keeps the tasks (`StepsKeep`, `TasksKeep`, `ReplansKeep`,
`CommandsKeep`), and a replan keeps the finished ones by `MergeIsValid` (`ReplannedKeeps`). Then a save is
one step of `GoalLifecycle` (`SaveShows`, `CreateShows`, `OperateShows`), pruning is `Forget`
(`PruneShows`), and what writes no record does not show. That finished work stays follows from the
refinement: no step of the lifecycle but `Forget` and the `StartOver` of a loose goal takes a task out of
`done`, and what it forgets is not in Redis.

**Circuit breaker** (`OutboundProofs`). For any number of calls and reset tasks and any
threshold: `BreakerTypeCorrect`, `AlwaysForAReason`, `FailedProbesReopen`. The invariant covers the object,
the record and all payloads under way, so it is inductive with the types; the action property
follows because the count of a half-open breaker is at the threshold already.

**Telegram channel** (`TelegramChannelProofs`). For any requests, chats, batches and faults: `TypeCorrect`,
`RequestAnsweredOnce`, `IndicatorIsGuarded`, `NoFallbackAfterAnswer`. One answer per request is no property of
one process: fallback and answer are two messages of the core, and a restart of the bridge
forgets the first. The invariant relates them through the marks: a request that is neither
forgotten nor marked has no answer, the listener about to mark it has found it unmarked, and what it sends
is marked already. The type invariant is strengthened by "every message on its way is about a request
that was asked", so that a later `Ask` cannot arm a guard behind its own answer.

**Execution loop** (`AgentLoopProofs`). For any limits: `TypeCorrect`, `CallsAreBounded`,
`CorrectionsAreBounded`, `NothingUnvettedRuns`, `AnswersSeeResults`, `ToolErrorEndsRounds`. The invariant
ties calls of the model to rounds, budget, attempts and stage, so that what recovery and correction add is
counted by where they are, and says which sorts of call are left after each gate. An answer that is not
`fresh` exists only between an execution and the next call of the model, or after one of the reasons the
property names.

**Scheduler** (`SchedulerProofs`). `TypeCorrect`, `RecordsNeverAhead`, `JobsNeverLate`, `NoRunIsEarly`.
`NeverAhead` must hold of all records at once, in memory, in Redis and on their way: each write then only
replaces one that is not ahead by another, whatever it overwrites. `JobsNeverLate` needs that the remaining
sleep and the lateness never exceed interval and first delay together, in each place of the loop, over
restarts that hand a loop a record as old as it likes. Where `NoRunIsEarly` fails, the record had lost a run
(`stale`).

**Scheduled tasks** (`ScheduledTasksProofs`). `TypeCorrect`, `FailuresAreReal`, `OutcomesAreHonest`, if no
name finds another task. The invariant extends both to the runner's listing, the outcome and the edit on
their way: a lost update brings back an old count, never a larger one than was charged. What is charged is a
failed run, or the second writeback of a run that was timed out; `TripsOnFailedRuns`, which counts the first
only, is refuted. `OutcomesAreHonest` is about a task that never worked: a stale success after a first true
one is not excluded.

**Broker channel** (`OutboundProofs`). `TypeCorrect`, `CommandsExecutedOnce`, `SuccessReportedTruly`. A
command that is in the stream occurs there once and has not been executed; one in hand is no longer in the
stream, and a response on its way with success is that of a command that succeeded.

**Governor** (`GovernorProofs`). `TypeCorrect`, `GoalsAreLimited`, for any number of callers and goals:
while no call failed, the goals that hold a slot and the callers let pass are together at most the limit,
one for each other caller and the `debt`; the counter and the debt are together never below the goals that
hold a slot. Every goal that runs, is paused or is ticked holds a slot or has given one back (`Recorded`),
and the goal of a creator is recorded once (`Owned`). The debt is what the code owes: a slot released again
after a crash, or after the key expired, or a record lost between the GET and the SET of the floor at 0.
With no debt and nothing given back early the bound is the one of callers at once. The proof counts with the
library's theorems about cardinality.

Every invariant and every action property that a run checks is also proved. Only model-checked is liveness
(`ActiveComesToRest`, `ProbeComes`, `EveryRequestServed`, `KeepsRunning`, `TriggeredAgain`,
`EveryCallReturns`): it rests on `ENABLED`, which is out of the prover's reach. The finding of
`find_terminal` is a counterexample of TLC, and so is each refuted statement of section 3.

## 5. Plan

What the first plan named is modelled, and its safety is proved. Left to do, in this order:

1. `GoalEngine` with commands other than resume: what of `GoalLifecycle` remains when an operator writes
between the load and the save of a step (a state, but no order of states; tasks that may be undone). 2.
`Governor` composed with `GoalEngine`: `Governor` has the pause, the resume and the late save of one goal,
not the limit on ticked goals by priority nor two ticks of one goal, which release its slot twice. 3. Agent
records, once a property of them holds beyond "what the last writer left".

### Not modelled

- *Agent manager*: ticks, commands and creations each save a whole record without a check, and a goal
  runs whatever the status of its agent. Nothing relates the records to the goals but the last
  write; the reactivation of paused goals is the command `unpause` of `GoalEngine`.
- *Meta-supervisor of agent teams*: see the differences above; there is no protocol in it.
- *Self healing*: a caller of the broker with a cooldown in memory.
- *Other scheduled jobs* (autonomous goals, dreams, perception, subscriptions): each reads, asks a model and
  writes keys no other component reads; the goals one of them creates are goals as any other.
- *Goal backends, event sourcing*: forwarding, and notifications no state depends on.
- *The chat pipeline before its loop*, flow state, intent and policy gates: a long switch over texts; their
  effect on the loop is in `AgentLoop`, their wording is the subject of tests. Whether an answer is true is
  a question about texts, too.
- *Skills, memory, embeddings, models, connectors, advisory engines, dashboard pages, database,
  installer*: I/O, text, and stateless code. Most of the lines of the repository are here, which is why
  the map covers a small part of them.
