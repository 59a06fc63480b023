----------------------- MODULE ScheduledTasksProofs -----------------------
(***************************************************************************)
(* Theorems about ScheduledTasks, for any tasks, period and thresholds, as *)
(* long as no task is found by another's name.  The records that matter    *)
(* are those a save may still put into the hash: what the listing, the     *)
(* outcome and the edit hold is related to the task's history, not only    *)
(* what the hash holds.                                                    *)
(***************************************************************************)
EXTENDS ScheduledTasks, TLAPS

USE TaskAssumption, ThresholdAssumption, BoundAssumption

\* A task's record is found by the name of that task only.
NamesDiffer == Alike \subseteq {<<t, t>> : t \in Tasks}

\* Each copy of a record that a save may put into the hash, by its task.
CountsReal ==
    /\ \A t \in Tasks : tasks[t] # Gone => tasks[t].failures <= Charged(t)
    /\ \A t \in Tasks : listed[t] # Gone => listed[t].failures <= Charged(t)
    /\ \A t \in Tasks : outcome.task = t => outcome.record.failures <= Charged(t)
    /\ \A t \in Tasks : edit.task = t => edit.record.failures <= Charged(t)

TripsReal ==
    /\ outcome.trips => outcome.task \in Tasks /\ outcome.record.failures >= Threshold
    /\ \A t \in tripped : Charged(t) >= Threshold

\* The runner's copy needs no such bound: its save says "unknown".
CopiesHonest ==
    /\ HonestOutcome
    /\ \A t \in Tasks \ worked : edit.task = t => edit.record.success # "yes"

Inv == TypeOK /\ saving \notin visiting /\ CountsReal /\ TripsReal /\ CopiesHonest

----------------------------------------------------------------------------
\* What becomes of a record, and what of it matters here.

LEMMA GoneIsNoRecord == Gone \notin Record
BY DEF Gone, Record

LEMMA TriggeredRecord ==
    ASSUME NEW r \in Record
    PROVE  /\ Triggered(r) \in Record
           /\ Triggered(r).failures = r.failures
           /\ Triggered(r).success = "unknown"
<1>1. Period \in 0 .. Period
    OBVIOUS
<1> QED
    BY <1>1 DEF Triggered, Record

LEMMA SucceededRecord ==
    ASSUME NEW r \in Record
    PROVE  /\ Succeeded(r) \in Record
           /\ Succeeded(r).failures = 0
           /\ Succeeded(r).enabled = r.enabled
BY DEF Succeeded, Record

LEMMA FailedRecord ==
    ASSUME NEW r \in Record
    PROVE  /\ Failed(r) \in Record
           /\ Failed(r).failures = r.failures + 1
           /\ Failed(r).success = "no"
           /\ r.enabled /\ ~ Failed(r).enabled => r.failures + 1 >= Threshold
<1> DEFINE c == Counted(r)
<1>1. c \in Record /\ c.failures = r.failures + 1 /\ c.success = "no" /\ c.enabled = r.enabled
    <2>1. r.failures + 1 \in Nat
        BY DEF Record
    <2> QED
        BY <2>1 DEF Counted, Record
<1> HIDE DEF c
<1>2. \/ Trips(c) /\ Failed(r) = [c EXCEPT !.enabled = FALSE]
      \/ Failed(r) = [c EXCEPT !.warned = c.failures]
      \/ Failed(r) = c
    BY DEF Failed, c
<1> QED
    BY <1>1, <1>2 DEF Record, Trips

LEMMA EditedRecord ==
    ASSUME NEW r \in Record, NEW e \in Edited(r)
    PROVE  e \in Record /\ e.failures = r.failures /\ e.success = r.success
<1>1. Period \in 0 .. Period /\ 0 \in 0 .. Period
    OBVIOUS
<1> QED
    BY <1>1 DEF Edited, Record

LEMMA NewRecord == NewTask \in Record /\ NewTask.failures = 0 /\ NewTask.success # "yes"
BY DEF NewTask, Record

----------------------------------------------------------------------------
\* The steps of Next, one by one.
LEMMA Steps ==
    ASSUME [Next]_vars
    PROVE  \/ UNCHANGED vars
           \/ List \/ (\E t \in Tasks : Visit(t)) \/ SaveTriggered
           \/ Run \/ Drop \/ (\E ok \in BOOLEAN : ReadOutcome(ok)) \/ SaveOutcome \/ Notify
           \/ Interrupt
           \/ (\E t \in Tasks : Create(t) \/ Delete(t) \/ ReadEdit(t))
           \/ SaveEdit \/ Tick \/ Crash
BY DEF Next, Runner, Handler

\* Failing calls stay within their bound.
LEMMA TroublesBounded ==
    ASSUME troubles \in 0 .. MaxTroubles, Goes \/ Fails PROVE troubles' \in 0 .. MaxTroubles
BY DEF Goes, Fails

\* What is charged to a task does not change unless a run is judged.
LEMMA ChargedStays ==
    ASSUME UNCHANGED history PROVE \A t : Charged(t)' = Charged(t)
BY DEF history, Charged

LEMMA ChargedNat == TypeOK => \A t \in Tasks : Charged(t) \in Nat
BY DEF TypeOK, Charged

\* With different names the outcome of a run goes to the task that ran.
LEMMA FindsItself ==
    ASSUME NamesDiffer, NEW t \in Tasks, NEW u \in Finds(t)
    PROVE  u = t /\ tasks[t] # Gone
BY DEF NamesDiffer, Finds

LEMMA InvInit == Init => Inv
<1> SUFFICES ASSUME Init PROVE Inv
    OBVIOUS
<1>1. TypeOK
    BY DEF Init, TypeOK, NoOutcome, NoEdit
<1> QED
    BY <1>1, ChargedNat, NoTask \notin Tasks DEF Init, Inv, CountsReal, TripsReal, CopiesHonest,
       HonestOutcome, NoOutcome, NoEdit

LEMMA ListStep == Inv /\ List => Inv'
BY ChargedStays DEF Inv, List, TypeOK, CountsReal, TripsReal, CopiesHonest, HonestOutcome,
   handler, history

LEMMA VisitStep == ASSUME Inv, NEW t \in Tasks, Visit(t) PROVE Inv'
<1>1. TypeOK'
    <2>1. troubles' \in 0 .. MaxTroubles
        BY TroublesBounded DEF Inv, TypeOK, Visit, Goes
    <2>2. queue' \in Seq(Tasks)
        <3>1. queue \in Seq(Tasks) /\ Append(queue, t) \in Seq(Tasks)
            BY DEF Inv, TypeOK
        <3> QED
            BY <3>1 DEF Visit
    <2>3. listed' \in [Tasks -> Record \cup {Gone}] /\ \A u \in visiting' : listed'[u] # Gone
        BY DEF Inv, TypeOK, Visit, Unlisted
    <2>4. saving' \in Tasks \cup {NoTask} /\ (saving' # NoTask => listed'[saving'] # Gone)
        BY DEF Inv, TypeOK, Visit
    <2> QED
        BY <2>1, <2>2, <2>3, <2>4 DEF Inv, Visit, TypeOK, handler, history
<1>2. (saving \notin visiting)'
    BY DEF Inv, Visit
<1>3. CountsReal'
    <2>1. \A u \in Tasks : listed'[u] # Gone => listed'[u] = listed[u]
        BY DEF Inv, TypeOK, Visit, Unlisted
    <2> QED
        BY <2>1, ChargedStays DEF Inv, Visit, CountsReal, handler, history
<1> QED
    BY <1>1, <1>2, <1>3, ChargedStays DEF Inv, Visit, TripsReal, CopiesHonest, HonestOutcome,
       handler, history

LEMMA SaveTriggeredStep == Inv /\ SaveTriggered => Inv'
<1> SUFFICES ASSUME Inv, SaveTriggered PROVE Inv'
    OBVIOUS
<1>1. listed[saving] \in Record /\ saving \in Tasks
    BY DEF Inv, SaveTriggered, TypeOK
<1>2. /\ tasks \in [Tasks -> Record \cup {Gone}]
      /\ Triggered(listed[saving]) \in Record
      /\ \/ tasks' = [tasks EXCEPT ![saving] = Triggered(listed[saving])]
         \/ UNCHANGED tasks
    BY <1>1, TriggeredRecord DEF Inv, TypeOK, SaveTriggered
<1>3. TypeOK'
    <2>1. troubles' \in 0 .. MaxTroubles
        BY TroublesBounded DEF Inv, TypeOK, SaveTriggered
    <2>2. tasks' \in [Tasks -> Record \cup {Gone}]
        BY <1>1, <1>2
    <2>3. listed' \in [Tasks -> Record \cup {Gone}] /\ \A u \in visiting' : listed'[u] # Gone
        <3>1. saving \notin visiting \/ visiting' = {}
            BY DEF Inv
        <3> QED
            BY <3>1 DEF Inv, TypeOK, SaveTriggered, Unlisted
    <2> QED
        BY <2>1, <2>2, <2>3 DEF Inv, SaveTriggered, TypeOK, handler, history
<1>4. CountsReal'
    <2>1. \A t \in Tasks : tasks'[t] # Gone => tasks'[t].failures <= Charged(t)
        <3>1. Triggered(listed[saving]).failures <= Charged(saving)
            <4>1. listed[saving] # Gone
                BY <1>1, GoneIsNoRecord
            <4> QED
                BY <1>1, <4>1, TriggeredRecord DEF Inv, CountsReal
        <3> QED
            BY <1>1, <1>2, <3>1 DEF Inv, CountsReal
    <2>2. \A t \in Tasks : listed'[t] # Gone => listed'[t].failures <= Charged(t)
        BY DEF Inv, TypeOK, SaveTriggered, CountsReal, Unlisted
    <2> QED
        BY <2>1, <2>2, ChargedStays DEF Inv, SaveTriggered, CountsReal, handler, history
<1>5. TripsReal'
    BY ChargedStays DEF Inv, SaveTriggered, TripsReal, handler, history
<1>6. CopiesHonest'
    BY <1>1, <1>2, TriggeredRecord
       DEF Inv, SaveTriggered, TypeOK, CopiesHonest, HonestOutcome, handler, history
<1>7. (saving \notin visiting)'
    BY <1>1 DEF Inv, SaveTriggered, TypeOK
<1> QED
    BY <1>3, <1>4, <1>5, <1>6, <1>7 DEF Inv

LEMMA RunStep == Inv /\ Run => Inv'
<1> SUFFICES ASSUME Inv, Run PROVE Inv'
    OBVIOUS
<1>1. running' \in Tasks /\ queue' \in Seq(Tasks)
    BY DEF Inv, Run, TypeOK
<1>2. UNCHANGED <<tasks, runner, inTime, outcome, edit, history, edits, troubles>>
    BY DEF Run
<1>3. TypeOK'
    BY <1>1, <1>2 DEF Inv, Run, TypeOK, runner, history
<1>4. CountsReal'
    BY <1>2, ChargedStays DEF Inv, CountsReal, runner
<1>5. TripsReal'
    BY <1>2, ChargedStays DEF Inv, TripsReal, TypeOK, history
<1> QED
    BY <1>2, <1>3, <1>4, <1>5 DEF Inv, CopiesHonest, HonestOutcome, runner, history

\* A run that is over, judged or not, leaves no record to save.
LEMMA EndStep ==
    ASSUME Inv, Ended \/ (outcome' = NoOutcome /\ stage' \in {"running", "cut"} /\ inTime' = FALSE
                          /\ UNCHANGED running /\ stage # "idle"),
           UNCHANGED <<tasks, runner, queue, edit, history, edits, troubles>>
    PROVE  Inv'
<1>1. TypeOK'
    <2>1. /\ running' \in Tasks \cup {NoTask} /\ inTime' \in BOOLEAN
          /\ stage' \in {"idle", "running", "cut"} /\ (stage' # "idle" => running' \in Tasks)
        BY DEF Inv, TypeOK, Ended
    <2>2. outcome' = [task |-> NoTask, record |-> Gone, trips |-> FALSE]
        BY DEF Ended, NoOutcome
    <2> QED
        BY <2>1, <2>2 DEF Inv, TypeOK, runner, history
<1>2. CountsReal'
    BY ChargedStays DEF Inv, CountsReal, Ended, runner, NoOutcome
<1>3. TripsReal'
    BY ChargedStays DEF Inv, TripsReal, TypeOK, Ended, history, NoOutcome
<1> QED
    BY <1>1, <1>2, <1>3 DEF Inv, CopiesHonest, HonestOutcome, Ended, runner, history, NoOutcome

LEMMA DropStep == Inv /\ Drop => Inv'
BY EndStep DEF Drop

LEMMA NotifyStep == Inv /\ Notify => Inv'
BY EndStep DEF Notify

LEMMA InterruptStep == Inv /\ Interrupt => Inv'
BY EndStep DEF Interrupt

\* The outcome of a run: a count is one more than the record's, what is charged
\* to the task is one more than it was.
LEMMA ReadOutcomeStep ==
    ASSUME NamesDiffer, Inv, NEW ok \in BOOLEAN, ReadOutcome(ok) PROVE Inv'
<1> DEFINE r == IF ok THEN Succeeded(tasks[running]) ELSE Failed(tasks[running])
<1>0. PICK u \in Tasks : u = running
    BY DEF Inv, ReadOutcome, TypeOK
<1>1. running \in Tasks
    BY <1>0
<1>2. UNCHANGED <<tasks, runner, queue, edit, tripped, edits>>
    BY DEF ReadOutcome
<1>3. /\ failed' \in [Tasks -> Nat] /\ cut' \in [Tasks -> Nat]
      /\ \A t \in Tasks : Charged(t) \in Nat /\ Charged(t)' \in Nat /\ Charged(t) <= Charged(t)'
      /\ ~ ok => Charged(u)' = Charged(u) + 1
      /\ worked \subseteq worked' /\ worked' \subseteq Tasks
    <2>1. failed \in [Tasks -> Nat] /\ cut \in [Tasks -> Nat] /\ worked \subseteq Tasks
        BY DEF Inv, TypeOK
    <2>2. \/ UNCHANGED <<failed, cut>> /\ ok
          \/ failed' = [failed EXCEPT ![running] = @ + 1] /\ UNCHANGED cut
          \/ cut' = [cut EXCEPT ![running] = @ + 1] /\ UNCHANGED failed
        BY DEF ReadOutcome, Judged
    <2>3. worked' = worked \/ worked' = worked \cup {running}
        BY DEF ReadOutcome, Judged
    <2>4. failed' \in [Tasks -> Nat] /\ cut' \in [Tasks -> Nat]
        BY <1>1, <2>1, <2>2
    <2>5. \A t \in Tasks : /\ failed[t] + cut[t] \in Nat /\ failed'[t] + cut'[t] \in Nat
                           /\ failed[t] + cut[t] <= failed'[t] + cut'[t]
        BY <1>1, <2>1, <2>2, <2>4
    <2>6. ~ ok => failed'[running] + cut'[running] = failed[running] + cut[running] + 1
        BY <1>1, <2>1, <2>2
    <2>7. \A t \in Tasks : Charged(t) \in Nat /\ Charged(t)' \in Nat /\ Charged(t) <= Charged(t)'
        BY <2>5 DEF Charged
    <2>8. ~ ok => Charged(u)' = Charged(u) + 1
        BY <1>0, <2>6 DEF Charged
    <2> QED
        BY <1>1, <2>1, <2>3, <2>4, <2>7, <2>8
<1>4. /\ \A t \in Tasks : tasks'[t] # Gone => tasks'[t].failures <= Charged(t)'
      /\ \A t \in Tasks : listed'[t] # Gone => listed'[t].failures <= Charged(t)'
      /\ \A t \in Tasks : edit'.task = t => edit'.record.failures <= Charged(t)'
      /\ \A t \in tripped' : Charged(t)' >= Threshold
    <2>1. \A x \in Record, m, n \in Nat : x.failures <= m /\ m <= n => x.failures <= n
        BY DEF Record
    <2>2. \A t \in Tasks : tasks[t] # Gone => tasks[t] \in Record
        BY DEF Inv, TypeOK
    <2>3. \A t \in Tasks : listed[t] # Gone => listed[t] \in Record
        BY DEF Inv, TypeOK
    <2>4. \A t \in Tasks : edit.task = t => edit.record \in Record
        BY DEF Inv, TypeOK
    <2>6. \A m, n \in Nat : m >= Threshold /\ m <= n => n >= Threshold
        OBVIOUS
    <2>7. tripped \subseteq Tasks
        BY DEF Inv, TypeOK
    <2> QED
        BY <1>2, <1>3, <2>1, <2>2, <2>3, <2>4, <2>6, <2>7 DEF Inv, CountsReal, TripsReal, runner
<1>5. /\ \A t \in Tasks \ worked' : tasks'[t] # Gone => tasks'[t].success # "yes"
      /\ \A t \in Tasks \ worked' : edit'.task = t => edit'.record.success # "yes"
      /\ (saving \notin visiting)'
    BY <1>2, <1>3 DEF Inv, CopiesHonest, HonestOutcome, runner
<1>6. troubles' \in 0 .. MaxTroubles
    BY TroublesBounded DEF Inv, TypeOK, ReadOutcome
<1>7. CASE Ended
    <2>1. TypeOK'
        BY <1>2, <1>3, <1>6, <1>7 DEF Inv, TypeOK, runner, Ended, NoOutcome
    <2> QED
        BY <1>4, <1>5, <1>7, <2>1
           DEF Inv, CountsReal, TripsReal, CopiesHonest, HonestOutcome, Ended, NoOutcome
<1>8. CASE /\ tasks[running] # Gone
           /\ outcome' = [task |-> running, record |-> r,
                          trips |-> tasks[running].enabled /\ ~ r.enabled]
           /\ stage' = "saving"
           /\ UNCHANGED <<running, inTime>>
    <2>1. tasks[running] \in Record /\ tasks[running].enabled \in BOOLEAN
        BY <1>1, <1>8 DEF Inv, TypeOK, Record
    <2>2. r \in Record /\ r # Gone /\ r.enabled \in BOOLEAN
        <3>1. r \in Record
            BY <2>1, SucceededRecord, FailedRecord
        <3> QED
            BY <3>1, GoneIsNoRecord DEF Record
    <2>3. /\ outcome'.task = running /\ outcome'.record = r
          /\ (outcome'.trips <=> tasks[running].enabled /\ ~ r.enabled)
        BY <1>8
    <2>4. outcome' \in [task : Tasks \cup {NoTask}, record : Record \cup {Gone}, trips : BOOLEAN]
        BY <1>1, <1>8, <2>2
    <2>5. TypeOK'
        BY <1>1, <1>2, <1>3, <1>6, <1>8, <2>2, <2>3, <2>4 DEF Inv, TypeOK, runner
    <2>6. r.failures <= Charged(u)' /\ (outcome'.trips => r.failures >= Threshold)
        <3>1. tasks[running].failures <= Charged(running) /\ tasks[running].failures \in Nat
            BY <1>1, <1>8, <2>1 DEF Inv, CountsReal, Record
        <3>2. CASE ok
            BY <1>0, <1>3, <2>1, <2>3, <3>1, <3>2, SucceededRecord
        <3>3. CASE ~ ok
            <4>1. r.failures = tasks[running].failures + 1
                BY <2>1, <3>3, FailedRecord
            <4>2. r.failures <= Charged(u)'
                BY <1>0, <1>3, <3>1, <3>3, <4>1
            <4> QED
                BY <2>1, <2>3, <3>3, <4>1, <4>2, FailedRecord
        <3> QED
            BY <3>2, <3>3
    <2>7. running \in worked' \/ r.success # "yes"
        BY <2>1, FailedRecord DEF ReadOutcome, Judged
    <2> HIDE DEF r
    <2>8. CountsReal' /\ TripsReal'
        BY <1>0, <1>4, <2>3, <2>6 DEF CountsReal, TripsReal
    <2>9. CopiesHonest'
        BY <1>5, <2>3, <2>7 DEF CopiesHonest, HonestOutcome
    <2> QED
        BY <1>5, <2>5, <2>8, <2>9 DEF Inv
<1> QED
    BY <1>1, <1>7, <1>8, FindsItself DEF ReadOutcome

\* A save puts into the hash what was known of the record before.
LEMMA SaveOutcomeStep == Inv /\ SaveOutcome => Inv'
<1> SUFFICES ASSUME Inv, SaveOutcome PROVE Inv'
    OBVIOUS
<1> DEFINE t == outcome.task
<1>1. t \in Tasks => outcome.record \in Record /\ outcome.record # Gone
    BY DEF Inv, TypeOK
<1>2. tasks \in [Tasks -> Record \cup {Gone}] /\ t \in Tasks \cup {NoTask}
    BY DEF Inv, TypeOK
<1>3. tasks' = [tasks EXCEPT ![t] = outcome.record] \/ UNCHANGED tasks
    BY DEF SaveOutcome
<1>4. tasks' \in [Tasks -> Record \cup {Gone}]
    BY <1>1, <1>2, <1>3
<1>5. \A u \in Tasks : tasks'[u] = tasks[u] \/ (u = t /\ tasks'[u] = outcome.record)
    BY <1>2, <1>3
<1>6. /\ UNCHANGED <<runner, queue, edit, failed, cut, worked, edits>>
      /\ outcome' = outcome \/ outcome' = NoOutcome
    BY DEF SaveOutcome, Ended
<1>7. \A u \in Tasks : Charged(u)' = Charged(u) /\ Charged(u) \in Nat
    BY <1>6, ChargedNat DEF Charged, Inv
<1>8. TypeOK'
    <2>1. troubles' \in 0 .. MaxTroubles
        BY TroublesBounded DEF Inv, TypeOK, SaveOutcome
    <2>2. tripped' \subseteq Tasks
        BY DEF Inv, TypeOK, TripsReal, SaveOutcome
    <2>3. NoOutcome \in [task : Tasks \cup {NoTask}, record : Record \cup {Gone}, trips : BOOLEAN]
        BY DEF NoOutcome
    <2>4. /\ running' \in Tasks \cup {NoTask} /\ stage' \in {"idle", "notifying"}
          /\ inTime' \in BOOLEAN
          /\ stage' # "idle" => running' \in Tasks
        BY DEF Inv, TypeOK, SaveOutcome, Ended
    <2> QED
        BY <1>4, <1>6, <2>1, <2>2, <2>3, <2>4 DEF Inv, TypeOK, runner, NoOutcome
<1>9. CountsReal'
    BY <1>5, <1>6, <1>7 DEF Inv, CountsReal, runner, NoOutcome
<1>10. TripsReal'
    <2>1. outcome.trips => t \in Tasks /\ Charged(t) >= Threshold
        <3>1. ASSUME outcome.trips PROVE t \in Tasks /\ Charged(t) >= Threshold
            <4>1. t \in Tasks /\ outcome.record.failures >= Threshold
                  /\ outcome.record.failures <= Charged(t)
                BY <3>1 DEF Inv, TripsReal, CountsReal
            <4>2. outcome.record.failures \in Nat /\ Charged(t) \in Nat
                BY <1>1, <1>7, <4>1 DEF Record
            <4> QED
                BY <4>1, <4>2
        <3> QED
            BY <3>1
    <2>2. tripped' \subseteq tripped \cup {u \in {t} : outcome.trips} /\ tripped \subseteq Tasks
        BY DEF SaveOutcome, Inv, TypeOK
    <2>3. \A u \in tripped' : Charged(u)' >= Threshold
        BY <1>7, <2>1, <2>2 DEF Inv, TripsReal
    <2> QED
        BY <1>6, <2>3 DEF Inv, TripsReal, NoOutcome
<1>11. CopiesHonest'
    BY <1>5, <1>6 DEF Inv, CopiesHonest, HonestOutcome, NoOutcome
<1> QED
    BY <1>6, <1>8, <1>9, <1>10, <1>11 DEF Inv, runner

LEMMA CreateStep == ASSUME Inv, NEW t \in Tasks, Create(t) PROVE Inv'
<1>1. tasks' = [tasks EXCEPT ![t] = NewTask]
      /\ UNCHANGED <<runner, queue, handler, edit, history, edits, troubles>>
    BY DEF Create
<1>2. tasks' \in [Tasks -> Record \cup {Gone}]
    BY <1>1, NewRecord DEF Inv, TypeOK
<1>3. \A u \in Tasks : tasks'[u] = tasks[u] \/ (u = t /\ tasks'[u] = NewTask)
    BY <1>1 DEF Inv, TypeOK
<1>4. TypeOK'
    BY <1>1, <1>2 DEF Inv, TypeOK, runner, handler, history
<1>5. CountsReal'
    <2>1. NewTask.failures <= Charged(t)
        BY NewRecord, ChargedNat DEF Inv
    <2> QED
        BY <1>1, <1>3, <2>1, ChargedStays DEF Inv, CountsReal, runner, handler, history
<1>6. CopiesHonest'
    BY <1>1, <1>3, NewRecord DEF Inv, CopiesHonest, HonestOutcome, handler, history
<1> QED
    BY <1>1, <1>4, <1>5, <1>6, ChargedStays DEF Inv, TripsReal, runner, handler, history

LEMMA DeleteStep == ASSUME Inv, NEW t \in Tasks, Delete(t) PROVE Inv'
<1>1. /\ tasks' = [tasks EXCEPT ![t] = Gone]
      /\ UNCHANGED <<runner, queue, handler, edit, history, troubles>>
    BY DEF Delete
<1>2. edits' \in 0 .. MaxEdits
    BY DEF Inv, TypeOK, Delete, Edit
<1>3. /\ tasks' \in [Tasks -> Record \cup {Gone}]
      /\ \A u \in Tasks : tasks'[u] # Gone => tasks'[u] = tasks[u]
    BY <1>1 DEF Inv, TypeOK
<1>4. TypeOK'
    BY <1>1, <1>2, <1>3 DEF Inv, TypeOK, runner, handler, history
<1>5. CountsReal'
    BY <1>1, <1>3, ChargedStays DEF Inv, CountsReal, runner, handler, history
<1>6. CopiesHonest'
    BY <1>1, <1>3 DEF Inv, CopiesHonest, HonestOutcome, handler, history
<1> QED
    BY <1>1, <1>4, <1>5, <1>6, ChargedStays DEF Inv, TripsReal, runner, handler, history

LEMMA ReadEditStep == ASSUME Inv, NEW t \in Tasks, ReadEdit(t) PROVE Inv'
<1>1. UNCHANGED <<tasks, runner, queue, handler, history, troubles>>
    BY DEF ReadEdit
<1>2. edits' \in 0 .. MaxEdits
    BY DEF Inv, TypeOK, ReadEdit, Edit
<1>3. tasks[t] \in Record /\ tasks[t] # Gone
    BY DEF Inv, TypeOK, ReadEdit
<1>4. PICK r \in Edited(tasks[t]) : edit' = [task |-> t, record |-> r]
    BY DEF ReadEdit
<1>5. r \in Record /\ r # Gone /\ r.failures = tasks[t].failures /\ r.success = tasks[t].success
    BY <1>3, EditedRecord, GoneIsNoRecord
<1>6. edit'.task = t /\ edit'.record = r
    BY <1>4
<1>7. TypeOK'
    BY <1>1, <1>2, <1>4, <1>5, <1>6 DEF Inv, TypeOK, runner, handler, history
<1>8. CountsReal'
    BY <1>1, <1>3, <1>5, <1>6, ChargedStays DEF Inv, CountsReal, runner, handler, history
<1>9. CopiesHonest'
    BY <1>1, <1>3, <1>5, <1>6 DEF Inv, CopiesHonest, HonestOutcome, handler, history
<1> QED
    BY <1>1, <1>7, <1>8, <1>9, ChargedStays DEF Inv, TripsReal, runner, handler, history

LEMMA SaveEditStep == Inv /\ SaveEdit => Inv'
<1> SUFFICES ASSUME Inv, SaveEdit PROVE Inv'
    OBVIOUS
<1> DEFINE t == edit.task
<1>1. t \in Tasks => edit.record \in Record /\ edit.record # Gone
    BY DEF Inv, TypeOK
<1>2. tasks \in [Tasks -> Record \cup {Gone}] /\ t \in Tasks \cup {NoTask}
    BY DEF Inv, TypeOK
<1>3. tasks' = [tasks EXCEPT ![t] = edit.record] \/ UNCHANGED tasks
    BY DEF SaveEdit
<1>4. tasks' \in [Tasks -> Record \cup {Gone}]
    BY <1>1, <1>2, <1>3
<1>5. \A u \in Tasks : tasks'[u] = tasks[u] \/ (u = t /\ tasks'[u] = edit.record)
    BY <1>2, <1>3
<1>6. UNCHANGED <<runner, queue, handler, history, edits>> /\ edit' = NoEdit
    BY DEF SaveEdit
<1>7. TypeOK'
    <2>1. troubles' \in 0 .. MaxTroubles
        BY TroublesBounded DEF Inv, TypeOK, SaveEdit
    <2> QED
        BY <1>4, <1>6, <2>1 DEF Inv, TypeOK, runner, handler, history, NoEdit
<1>8. CountsReal'
    BY <1>5, <1>6, ChargedStays DEF Inv, CountsReal, runner, handler, history, NoEdit
<1>9. CopiesHonest'
    BY <1>5, <1>6 DEF Inv, CopiesHonest, HonestOutcome, handler, history, NoEdit
<1> QED
    BY <1>6, <1>7, <1>8, <1>9, ChargedStays DEF Inv, TripsReal, runner, handler, history

LEMMA TickStep == Inv /\ Tick => Inv'
<1> SUFFICES ASSUME Inv, Tick PROVE Inv'
    OBVIOUS
<1>1. UNCHANGED <<runner, queue, handler, edit, history, edits, troubles>>
    BY DEF Tick
<1>2. ASSUME NEW r \in Record, r.wait > 0
      PROVE  /\ [r EXCEPT !.wait = @ - 1] \in Record
             /\ [r EXCEPT !.wait = @ - 1].failures = r.failures
             /\ [r EXCEPT !.wait = @ - 1].success = r.success
    <2>1. r.wait - 1 \in 0 .. Period
        BY <1>2 DEF Record
    <2> QED
        BY <2>1 DEF Record
<1>3. \A t \in Tasks : tasks[t] # Gone =>
        tasks'[t] \in Record /\ tasks'[t].failures = tasks[t].failures
        /\ tasks'[t].success = tasks[t].success
    BY <1>2 DEF Inv, TypeOK, Tick
<1>4. \A t \in Tasks : tasks[t] = Gone => tasks'[t] = Gone
    BY DEF Tick
<1>5. tasks' \in [Tasks -> Record \cup {Gone}]
    <2>1. \A t \in Tasks : tasks'[t] \in Record \cup {Gone}
        BY <1>3, <1>4
    <2> QED
        BY <2>1 DEF Tick
<1>6. TypeOK'
    BY <1>1, <1>5 DEF Inv, TypeOK, runner, handler, history
<1>7. CountsReal'
    BY <1>1, <1>3, <1>4, ChargedStays DEF Inv, CountsReal, runner, handler, history
<1>8. CopiesHonest'
    BY <1>1, <1>3, <1>4 DEF Inv, CopiesHonest, HonestOutcome, handler, history
<1> QED
    BY <1>1, <1>6, <1>7, <1>8, ChargedStays DEF Inv, TripsReal, runner, handler, history

LEMMA CrashStep == Inv /\ Crash => Inv'
<1> SUFFICES ASSUME Inv, Crash PROVE Inv'
    OBVIOUS
<1>1. TypeOK'
    <2>1. troubles' \in 0 .. MaxTroubles
        BY TroublesBounded DEF Inv, TypeOK, Crash
    <2> QED
        BY <2>1 DEF Inv, TypeOK, Crash, Ended, history, Unlisted, NoOutcome, NoEdit
<1> QED
    BY <1>1, ChargedStays
       DEF Inv, Crash, Ended, CountsReal, TripsReal, CopiesHonest, HonestOutcome, history, Unlisted,
           NoOutcome, NoEdit

LEMMA InvStep == NamesDiffer /\ Inv /\ [Next]_vars => Inv'
<1> SUFFICES ASSUME NamesDiffer, Inv, [Next]_vars PROVE Inv'
    OBVIOUS
<1>1. CASE UNCHANGED vars
    BY <1>1, ChargedStays DEF Inv, vars, runner, handler, history, TypeOK, CountsReal, TripsReal,
       CopiesHonest,
       HonestOutcome
<1> QED
    BY Steps, <1>1, ListStep, VisitStep, SaveTriggeredStep, RunStep, DropStep,
       ReadOutcomeStep, SaveOutcomeStep, NotifyStep, InterruptStep, CreateStep, DeleteStep,
       ReadEditStep, SaveEditStep, TickStep, CrashStep

LEMMA Invariant == NamesDiffer /\ Spec => []Inv
<1>1. NamesDiffer /\ Inv /\ [Next]_vars => Inv'
    BY InvStep
<1>2. CASE NamesDiffer
    <2>1. Inv /\ [Next]_vars => Inv'
        BY <1>1, <1>2
    <2> QED
        BY <2>1, InvInit, PTL DEF Spec
<1> QED
    BY <1>2

(* The records keep their type through every interleaving of saves.        *)
THEOREM TypeCorrect == NamesDiffer /\ Spec => []TypeOK
BY Invariant, PTL DEF Inv

(* A count of failures that any save can restore is of runs that failed or *)
(* were cut short in their writeback, and no task is disabled before there *)
(* were as many of these as the threshold says.                            *)
THEOREM FailuresAreReal == NamesDiffer /\ Spec => []FailuresReal
<1>1. Inv => FailuresReal
    BY DEF Inv, CountsReal, TripsReal, FailuresReal
<1> QED
    BY <1>1, Invariant, PTL

(* No save writes a success that never happened, the runner's optimistic   *)
(* one included, whose record says "unknown".                              *)
THEOREM OutcomesAreHonest == NamesDiffer /\ Spec => []HonestOutcome
<1>1. Inv => HonestOutcome
    BY DEF Inv, CopiesHonest
<1> QED
    BY <1>1, Invariant, PTL
=============================================================================
