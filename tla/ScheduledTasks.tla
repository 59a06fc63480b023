--------------------------- MODULE ScheduledTasks ---------------------------
(***************************************************************************)
(* The user's scheduled tasks: a Redis hash of records (custom_tasks.py),  *)
(* the job that publishes a trigger for every due task (jobs.py), the      *)
(* consumer that runs the triggers and writes their outcome back           *)
(* (_writeback_task_outcome), and the edits of the chat, the skill and the *)
(* dashboard.  Every one of them reads a record, changes its copy and      *)
(* saves all of it; an action is the code between two awaits.              *)
(***************************************************************************)
EXTENDS Naturals, Sequences

CONSTANTS
    Tasks,
    NoTask,
    Period,        \* ticks between two runs of a task
    Threshold,     \* failures in a row that disable a task
    WarnAt,        \* failures in a row that warn of it
    Alike,         \* pairs of tasks of which one's name finds the other
    MaxFailures,   \* bound: failures counted of a task
    MaxQueue,      \* bound: triggers waiting
    MaxEdits,      \* bound: edits
    MaxTroubles    \* bound: failing calls and crashes

ASSUME TaskAssumption == NoTask \notin Tasks /\ Alike \subseteq Tasks \X Tasks

ASSUME ThresholdAssumption ==
    /\ Period \in Nat \ {0}
    /\ WarnAt \in Nat \ {0}
    /\ Threshold \in Nat
    /\ WarnAt < Threshold

ASSUME BoundAssumption ==
    /\ {MaxFailures, MaxQueue, MaxEdits, MaxTroubles} \subseteq Nat
    /\ MaxQueue > 0

VARIABLES
    tasks,         \* the hash: a record per task, or Gone
    visiting,      \* tasks the runner has still to look at
    listed,        \* their records as its listing had them
    saving,        \* the task it has triggered and not yet saved
    queue,         \* triggers in the stream
    running,       \* the task whose trigger the consumer runs
    stage,         \* where the run and the writeback of its outcome are
    inTime,        \* neither the timeout nor an exception has ended the run
    outcome,       \* the record it has to save, or Gone before the GET
    edit,          \* the record an edit has to save, with its task
    failed,        \* failed runs of each task, ever
    cut,           \* runs the timeout ended when their outcome was being written
    worked,        \* tasks of which a run succeeded, ever
    tripped,       \* tasks the breaker has disabled, ever
    edits, troubles

runner  == <<visiting, listed, saving>>
handler == <<running, stage, inTime, outcome>>
history == <<failed, cut, worked, tripped>>
vars    == <<tasks, runner, queue, handler, edit, history, edits, troubles>>

Gone == [exists |-> FALSE]

Record == [enabled : BOOLEAN, wait : 0 .. Period, failures : Nat, warned : Nat,
           success : {"unknown", "yes", "no"}]

\* make_task
NewTask == [enabled |-> TRUE, wait |-> Period, failures |-> 0, warned |-> 0, success |-> "unknown"]

Unlisted == [t \in Tasks |-> Gone]

NoEdit == [task |-> NoTask, record |-> Gone]

NoOutcome == [task |-> NoTask, record |-> Gone, trips |-> FALSE]

TypeOK ==
    /\ tasks \in [Tasks -> Record \cup {Gone}]
    /\ visiting \subseteq Tasks
    /\ listed \in [Tasks -> Record \cup {Gone}]
    /\ \A t \in visiting : listed[t] # Gone
    /\ saving \in Tasks \cup {NoTask}
    /\ saving # NoTask => listed[saving] # Gone
    /\ queue \in Seq(Tasks)
    /\ running \in Tasks \cup {NoTask}
    /\ stage \in {"idle", "running", "cut", "saving", "notifying"}
    /\ stage # "idle" => running \in Tasks
    /\ inTime \in BOOLEAN
    /\ outcome \in [task : Tasks \cup {NoTask}, record : Record \cup {Gone}, trips : BOOLEAN]
    /\ outcome.task # NoTask => outcome.record # Gone
    /\ edit \in [task : Tasks \cup {NoTask}, record : Record \cup {Gone}]
    /\ edit.task # NoTask => edit.record # Gone
    /\ failed \in [Tasks -> Nat]
    /\ cut \in [Tasks -> Nat]
    /\ worked \subseteq Tasks
    /\ tripped \subseteq Tasks
    /\ edits \in 0 .. MaxEdits
    /\ troubles \in 0 .. MaxTroubles

Init ==
    /\ tasks = [t \in Tasks |-> Gone]
    /\ visiting = {}
    /\ listed = tasks
    /\ saving = NoTask
    /\ queue = <<>>
    /\ running = NoTask
    /\ stage = "idle"
    /\ inTime = TRUE
    /\ outcome = NoOutcome
    /\ edit = NoEdit
    /\ failed = [t \in Tasks |-> 0]
    /\ cut = failed
    /\ worked = {}
    /\ tripped = {}
    /\ edits = 0
    /\ troubles = 0

Goes == UNCHANGED troubles
Fails == troubles < MaxTroubles /\ troubles' = troubles + 1

----------------------------------------------------------------------------
(* CustomTaskRunnerJob.                                                    *)

\* mutant: a task is not due while its last run has no outcome
DueMutant(record) == record.enabled /\ record.wait = 0 /\ record.success # "unknown"

Due(record) == record.enabled /\ record.wait = 0

List ==
    /\ visiting = {}
    /\ saving = NoTask
    /\ \E t \in Tasks : tasks[t] # Gone
    /\ visiting' = {t \in Tasks : tasks[t] # Gone}
    /\ listed' = tasks
    /\ UNCHANGED <<tasks, saving, queue, handler, edit, history, edits, troubles>>

\* A task that was not due when it was listed is passed over; for one that
\* was, the trigger is published, and a failing XADD ends the listing.
Visit(t) ==
    /\ saving = NoTask
    /\ t \in visiting
    /\ \/ /\ ~ Due(listed[t])
          /\ visiting' = visiting \ {t}
          /\ listed' = [listed EXCEPT ![t] = Gone]
          /\ UNCHANGED <<saving, queue, troubles>>
       \/ /\ Due(listed[t])
          /\ Goes
          /\ Len(queue) < MaxQueue
          /\ queue' = Append(queue, t)
          /\ saving' = t
          /\ visiting' = visiting \ {t}
          /\ UNCHANGED listed
       \/ /\ Due(listed[t])
          /\ Fails
          /\ visiting' = {}
          /\ listed' = Unlisted
          /\ UNCHANGED <<saving, queue>>
    /\ UNCHANGED <<tasks, handler, edit, history, edits>>

\* mutant: the trigger counts as a success until its outcome is written
TriggeredMutant(record) == [record EXCEPT !.wait = Period, !.success = "yes"]

\* What the runner makes of a record once its trigger is out.
Triggered(record) == [record EXCEPT !.wait = Period, !.success = "unknown"]

SaveTriggered ==
    /\ saving # NoTask
    /\ \/ Goes /\ tasks' = [tasks EXCEPT ![saving] = Triggered(listed[saving])]
          /\ listed' = [listed EXCEPT ![saving] = Gone]
          /\ UNCHANGED visiting
       \/ Fails /\ visiting' = {} /\ listed' = Unlisted /\ UNCHANGED tasks
    /\ saving' = NoTask
    /\ UNCHANGED <<queue, handler, edit, history, edits>>

----------------------------------------------------------------------------
(* The consumer and the writeback of an outcome.                           *)

Run ==
    /\ stage = "idle"
    /\ queue # <<>>
    /\ running' = Head(queue)
    /\ queue' = Tail(queue)
    /\ stage' = "running"
    /\ UNCHANGED <<tasks, runner, inTime, outcome, edit, history, edits, troubles>>

Ended ==
    /\ running' = NoTask
    /\ stage' = "idle"
    /\ inTime' = TRUE
    /\ outcome' = NoOutcome

\* The chat is busy, or the handler answers early: no outcome is written.
Drop ==
    /\ stage = "running"
    /\ inTime
    /\ Ended
    /\ UNCHANGED <<tasks, runner, queue, edit, history, edits, troubles>>

\* The failures a record of t may count.
Charged(t) == failed[t] + cut[t]

\* The timeout of wait_for, or an exception of the run: the outcome is written
\* once more, as a failure, whatever the first writeback has done.
Interrupt ==
    /\ stage # "idle"
    /\ inTime
    /\ Charged(running) < MaxFailures
    /\ inTime' = FALSE
    /\ stage' = IF stage = "running" THEN "running" ELSE "cut"
    /\ outcome' = NoOutcome
    /\ UNCHANGED <<tasks, runner, queue, running, edit, history, edits, troubles>>

\* The record an outcome is written to: by id, else by name.
Finds(t) ==
    IF tasks[t] # Gone THEN {t} ELSE {u \in Tasks : tasks[u] # Gone /\ <<t, u>> \in Alike}

Succeeded(record) == [record EXCEPT !.success = "yes", !.failures = 0, !.warned = 0]

Counted(record) == [record EXCEPT !.success = "no", !.failures = @ + 1]

Trips(record) == record.failures >= Threshold /\ record.enabled

Warns(record) ==
    /\ record.failures \in WarnAt .. Threshold - 1
    /\ record.failures > record.warned
    /\ record.enabled

\* mutant: a task is disabled when its failures are one short of the threshold
FailedMutant(record) ==
    LET r == Counted(record)
    IN CASE r.failures >= Threshold - 1 /\ r.enabled -> [r EXCEPT !.enabled = FALSE]
         [] Warns(r) -> [r EXCEPT !.warned = r.failures]
         [] OTHER    -> r

\* A failure: the breaker, else the early warning.
Failed(record) ==
    LET r == Counted(record)
    IN CASE Trips(r) -> [r EXCEPT !.enabled = FALSE]
         [] Warns(r) -> [r EXCEPT !.warned = r.failures]
         [] OTHER    -> r

\* What the run was, and whether it is the first to be said of it.
Judged(ok) ==
    /\ ok => inTime
    /\ IF ok
       THEN worked' = worked \cup {running} /\ UNCHANGED <<failed, cut>>
       ELSE /\ Charged(running) < MaxFailures
            /\ UNCHANGED worked
            /\ IF stage = "cut"
               THEN cut' = [cut EXCEPT ![running] = @ + 1] /\ UNCHANGED failed
               ELSE failed' = [failed EXCEPT ![running] = @ + 1] /\ UNCHANGED cut

\* The run is over and its record is read; if there is none, or the GET fails,
\* nothing is written.
ReadOutcome(ok) ==
    /\ stage \in {"running", "cut"}
    /\ Judged(ok)
    /\ \/ Finds(running) = {} /\ Goes /\ Ended
       \/ Fails /\ Ended
       \/ /\ Goes
          /\ \E t \in Finds(running) :
                LET r == IF ok THEN Succeeded(tasks[t]) ELSE Failed(tasks[t])
                IN outcome' = [task |-> t, record |-> r,
                               trips |-> tasks[t].enabled /\ ~ r.enabled]
          /\ stage' = "saving"
          /\ UNCHANGED <<running, inTime>>
    /\ UNCHANGED <<tasks, runner, queue, edit, tripped, edits>>

SaveOutcome ==
    /\ stage = "saving"
    /\ \/ /\ Goes
          /\ tasks' = [tasks EXCEPT ![outcome.task] = outcome.record]
          /\ tripped' = IF outcome.trips THEN tripped \cup {outcome.task} ELSE tripped
          /\ stage' = "notifying"
          /\ UNCHANGED <<running, inTime, outcome>>
       \/ Fails /\ Ended /\ UNCHANGED <<tasks, tripped>>
    /\ UNCHANGED <<runner, queue, edit, failed, cut, worked, edits>>

\* The metrics and a notice, which takes a call of the model: what fails here
\* is swallowed, but the time it takes is the run's.
Notify ==
    /\ stage = "notifying"
    /\ Ended
    /\ UNCHANGED <<tasks, runner, queue, edit, history, edits, troubles>>

----------------------------------------------------------------------------
(* Edits.                                                                  *)

Edit == edits < MaxEdits /\ edits' = edits + 1

Create(t) ==
    /\ tasks[t] = Gone
    /\ Charged(t) = 0 /\ t \notin worked      \* a new task has a new id
    /\ \A i \in 1 .. Len(queue) : queue[i] # t
    /\ t \notin visiting \cup {saving, running, edit.task}
    /\ tasks' = [tasks EXCEPT ![t] = NewTask]
    /\ UNCHANGED <<runner, queue, handler, edit, history, edits, troubles>>

Delete(t) ==
    /\ Edit
    /\ tasks[t] # Gone
    /\ tasks' = [tasks EXCEPT ![t] = Gone]
    /\ UNCHANGED <<runner, queue, handler, edit, history, troubles>>

\* Pause, resume, run now, new interval.
Edited(record) ==
    {[record EXCEPT !.enabled = FALSE], [record EXCEPT !.enabled = TRUE],
     [record EXCEPT !.wait = 0], [record EXCEPT !.wait = Period]}

ReadEdit(t) ==
    /\ Edit
    /\ edit = NoEdit
    /\ tasks[t] # Gone
    /\ \E r \in Edited(tasks[t]) : edit' = [task |-> t, record |-> r]
    /\ UNCHANGED <<tasks, runner, queue, handler, history, troubles>>

SaveEdit ==
    /\ edit # NoEdit
    /\ \/ Goes /\ tasks' = [tasks EXCEPT ![edit.task] = edit.record]
       \/ Fails /\ UNCHANGED tasks
    /\ edit' = NoEdit
    /\ UNCHANGED <<runner, queue, handler, history, edits>>

----------------------------------------------------------------------------
(* Time, and a crash of the core: the run in hand is not delivered again.  *)

Tick ==
    /\ \E t \in Tasks : tasks[t] # Gone /\ tasks[t].wait > 0
    /\ tasks' = [t \in Tasks |->
          IF tasks[t] # Gone /\ tasks[t].wait > 0
          THEN [tasks[t] EXCEPT !.wait = @ - 1]
          ELSE tasks[t]]
    /\ UNCHANGED <<runner, queue, handler, edit, history, edits, troubles>>

Crash ==
    /\ Fails
    /\ visiting' = {}
    /\ saving' = NoTask
    /\ Ended
    /\ edit' = NoEdit
    /\ listed' = Unlisted
    /\ UNCHANGED <<tasks, queue, history, edits>>

Runner == List \/ (\E t \in Tasks : Visit(t)) \/ SaveTriggered

Handler == Run \/ Drop \/ (\E ok \in BOOLEAN : ReadOutcome(ok)) \/ SaveOutcome \/ Notify

Next ==
    \/ Runner
    \/ Handler
    \/ Interrupt
    \/ \E t \in Tasks : Create(t) \/ Delete(t) \/ ReadEdit(t)
    \/ SaveEdit
    \/ Tick
    \/ Crash

Spec == Init /\ [][Next]_vars

\* The scheduler starts the runner again and again, the consumer loop runs
\* what is in the stream, time passes.
FairSpec ==
    /\ Spec
    /\ WF_vars(Runner)
    /\ WF_vars(Handler)
    /\ WF_vars(SaveEdit)
    /\ WF_vars(Tick)

----------------------------------------------------------------------------
(* The failures a record counts have happened, whichever copies the saves  *)
(* of the runner, the outcomes and the edits undo: each is of a run that   *)
(* failed, or one more for a run that the timeout ended when its outcome   *)
(* was being written.  The breaker trips only after as many of these as    *)
(* its threshold says.                                                     *)
FailuresReal ==
    /\ \A t \in Tasks : tasks[t] # Gone => tasks[t].failures <= Charged(t)
    /\ \A t \in tripped : Charged(t) >= Threshold

(* "auto-disable after 5 consecutive failures": no task is disabled after  *)
(* fewer failed runs.  Not so when a run is counted twice.                 *)
TripsOnFailedRuns == \A t \in tripped : failed[t] >= Threshold

(* A record says success only of a task of which a run did succeed ("never *)
(* mark optimistic last_success=True"), in every copy that may be saved.   *)
HonestOutcome ==
    \A t \in Tasks \ worked :
        /\ tasks[t] # Gone => tasks[t].success # "yes"
        /\ outcome.task = t => outcome.record.success # "yes"

(* A task that stays enabled is triggered again and again: no crash, lost  *)
(* outcome or failing call leaves it waiting for ever.                     *)
TriggeredAgain ==
    \A t \in Tasks : []<>(saving = t \/ tasks[t] = Gone \/ ~ tasks[t].enabled)

(* One warning for a row of failures, before the breaker ("a single early  *)
(* warning", "so each new streak gets one notification").  Not so: each    *)
(* failure between the two thresholds is a new one to warn of.             *)
OneWarning ==
    [][\A t \in Tasks : tasks[t] # Gone /\ tasks'[t] # Gone /\ tasks[t].warned > 0
        => tasks'[t].warned \in {0, tasks[t].warned}]_vars
=============================================================================
