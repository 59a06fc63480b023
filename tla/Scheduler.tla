----------------------------- MODULE Scheduler -----------------------------
(***************************************************************************)
(* The job scheduler of the agent core (scheduler/scheduler.py): one loop  *)
(* per job in memory, and one Redis key with the state of all the jobs,    *)
(* which a run rewrites with a GET and a SET, and a pause with a blind SET *)
(* of everything in memory.  An action is the code between two awaits.     *)
(*                                                                         *)
(* Time advances in ticks, and only when no loop has something to do now.  *)
(* An age is the time since a last_run, counted up to the interval of the  *)
(* job: an older last_run, and none at all, mean the same to the code.     *)
(* The counters of runs and failures and the notices are left out.         *)
(***************************************************************************)
EXTENDS Naturals

CONSTANTS
    Jobs,
    Interval,      \* ticks between two runs of each job
    BootDelay,     \* ticks a loop waits before its first check
    MinUptime,     \* the environment keeps the host up at least this long
    MaxCommands,   \* bound: manual runs, pauses and resumes together
    MaxTroubles,   \* bound: failing calls of Redis
    ChatCommands   \* whether the chat's /schedule pause and resume are used

ASSUME IntervalAssumption == Interval \in [Jobs -> Nat \ {0}]

ASSUME UptimeAssumption ==
    /\ BootDelay \in Nat
    /\ MinUptime \in Nat
    /\ BootDelay < MinUptime

ASSUME BoundAssumption ==
    /\ MaxCommands \in Nat
    /\ MaxTroubles \in Nat
    /\ ChatCommands \in BOOLEAN

VARIABLES
    paused, age,   \* JobState of each job
    stage,         \* where the loop, and a manual run, of each job is
    left,          \* ticks the loop of each job still sleeps
    copy,          \* what a run has built and not yet SET
    snapshot,      \* what a pause or resume has built and not yet SET
    saved,         \* scheduler:job_state in Redis
    uptime,        \* ticks since the start, up to MinUptime
    told,          \* whether the user was last told that a job is paused
    since,         \* ticks since the loop last completed a run, up to Interval
    ran,           \* the same since anyone completed a run
    late,          \* ticks for which a job has neither run nor been paused
    stale,         \* jobs started from a record older than their last run
    commands, troubles

memory == <<paused, age>>
ghosts == <<told, since, ran, late, stale>>
vars   == <<memory, stage, left, copy, snapshot, saved, uptime, ghosts, commands, troubles>>

Drivers == {"loop", "hand"}

\* A run, or a pause, that holds nothing to write.
Nothing == [j \in {} |-> j]

Oldest(j) == [paused |-> FALSE, age |-> Interval[j]]

Records == {f \in [Jobs -> [paused : BOOLEAN, age : Nat]] : \A j \in Jobs : f[j].age <= Interval[j]}

Memory == [j \in Jobs |-> [paused |-> paused[j], age |-> age[j]]]

MostLate(j) == Interval[j] + BootDelay

TypeOK ==
    /\ paused \in [Jobs -> BOOLEAN]
    /\ age \in [Jobs -> Nat]
    /\ \A j \in Jobs : age[j] <= Interval[j]
    /\ stage \in [Drivers -> [Jobs -> {"off", "boot", "asleep", "calling", "reading", "writing"}]]
    /\ left \in [Jobs -> Nat]
    /\ copy \in [Drivers -> [Jobs -> Records \cup {Nothing}]]
    /\ \A d \in Drivers, j \in Jobs : stage[d][j] = "writing" => copy[d][j] \in Records
    /\ snapshot \in Records \cup {Nothing}
    /\ saved \in Records
    /\ uptime \in 0 .. MinUptime
    /\ told \in [Jobs -> BOOLEAN]
    /\ since \in [Jobs -> Nat]
    /\ ran \in [Jobs -> Nat]
    /\ late \in [Jobs -> Nat]
    /\ stale \subseteq Jobs
    /\ commands \in 0 .. MaxCommands
    /\ troubles \in 0 .. MaxTroubles

Init ==
    /\ paused = [j \in Jobs |-> FALSE]
    /\ age = Interval
    /\ stage = [d \in Drivers |-> [j \in Jobs |-> IF d = "loop" THEN "boot" ELSE "off"]]
    /\ left = [j \in Jobs |-> BootDelay]
    /\ copy = [d \in Drivers |-> [j \in Jobs |-> Nothing]]
    /\ snapshot = Nothing
    /\ saved = [j \in Jobs |-> Oldest(j)]
    /\ uptime = 0
    /\ told = paused
    /\ since = Interval
    /\ ran = Interval
    /\ late = [j \in Jobs |-> 0]
    /\ stale = {}
    /\ commands = 0
    /\ troubles = 0

Command == commands < MaxCommands /\ commands' = commands + 1

\* A call goes well, or fails within the bound.
Goes == UNCHANGED troubles
Fails == troubles < MaxTroubles /\ troubles' = troubles + 1

----------------------------------------------------------------------------
(* The loop of a job.                                                      *)

\* mutant: every start waits a whole interval
FirstSleepMutant(j) == Interval[j]

\* mutant: a start runs every job at once, due or not
FirstSleepMutant2(j) == 0

\* After the initial delay: how long the loop waits for its first run.
FirstSleep(j) == Interval[j] - age[j]

Booted(j) ==
    /\ stage["loop"][j] = "boot"
    /\ left[j] = 0
    /\ stage' = [stage EXCEPT !["loop"][j] = "asleep"]
    /\ left' = [left EXCEPT ![j] = FirstSleep(j)]
    /\ UNCHANGED <<memory, copy, snapshot, saved, uptime, ghosts, commands, troubles>>

\* The loop wakes: it calls the job, or sleeps again if that is paused.
Wake(j) ==
    /\ stage["loop"][j] = "asleep"
    /\ left[j] = 0
    /\ \/ /\ paused[j]
          /\ left' = [left EXCEPT ![j] = Interval[j]]
          /\ UNCHANGED <<stage, ghosts>>
       \/ /\ ~ paused[j]
          /\ stage' = [stage EXCEPT !["loop"][j] = "calling"]
          /\ late' = [late EXCEPT ![j] = 0]
          /\ stale' = stale \ {j}
          /\ UNCHANGED <<left, told, since, ran>>
    /\ UNCHANGED <<memory, copy, snapshot, saved, uptime, commands, troubles>>

----------------------------------------------------------------------------
(* A run, whoever drives it: the callback, a GET, a SET.                   *)

\* The callback returns or raises: either way the run is over.
Called(d, j) ==
    /\ stage[d][j] = "calling"
    /\ age' = [age EXCEPT ![j] = 0]
    /\ stage' = [stage EXCEPT ![d][j] = "reading"]
    /\ since' = IF d = "loop" THEN [since EXCEPT ![j] = 0] ELSE since
    /\ ran' = [ran EXCEPT ![j] = 0]
    /\ late' = [late EXCEPT ![j] = 0]
    /\ UNCHANGED <<paused, left, copy, snapshot, saved, uptime, told, stale, commands, troubles>>

\* The end of a run: the loop sleeps an interval.
Rest(d, j) ==
    /\ stage' = [stage EXCEPT ![d][j] = IF d = "loop" THEN "asleep" ELSE "off"]
    /\ left' = IF d = "loop" THEN [left EXCEPT ![j] = Interval[j]] ELSE left
    /\ copy' = [copy EXCEPT ![d][j] = Nothing]

\* The GET: the others' records as they are saved, the job's own from memory.
Read(d, j) ==
    /\ stage[d][j] = "reading"
    /\ \/ /\ Goes
          /\ stage' = [stage EXCEPT ![d][j] = "writing"]
          /\ copy' = [copy EXCEPT ![d][j] = [saved EXCEPT ![j] = Memory[j]]]
          /\ UNCHANGED left
       \/ Fails /\ Rest(d, j)
    /\ UNCHANGED <<memory, snapshot, saved, uptime, ghosts, commands>>

\* The SET, whose failure is swallowed.
Write(d, j) ==
    /\ stage[d][j] = "writing"
    /\ \/ Goes /\ saved' = copy[d][j]
       \/ Fails /\ UNCHANGED saved
    /\ Rest(d, j)
    /\ UNCHANGED <<memory, snapshot, uptime, ghosts, commands>>

Trigger(j) ==
    /\ Command
    /\ stage["hand"][j] = "off"
    /\ stage' = [stage EXCEPT !["hand"][j] = "calling"]
    /\ UNCHANGED <<memory, left, copy, snapshot, saved, uptime, ghosts, troubles>>

----------------------------------------------------------------------------
(* Pause and resume.                                                       *)

\* The dashboard's: the flag and the whole state in memory, then the SET.
SetPaused(j, b) ==
    /\ Command
    /\ snapshot = Nothing
    /\ paused' = [paused EXCEPT ![j] = b]
    /\ snapshot' = [Memory EXCEPT ![j].paused = b]
    /\ late' = [late EXCEPT ![j] = 0]
    /\ UNCHANGED <<age, stage, left, copy, saved, uptime, told, since, ran, stale, troubles>>

Persist ==
    /\ snapshot # Nothing
    /\ \/ Goes /\ saved' = snapshot
       \/ Fails /\ UNCHANGED saved
    /\ snapshot' = Nothing
    /\ told' = paused
    /\ UNCHANGED <<memory, stage, left, copy, uptime, since, ran, late, stale, commands>>

\* The chat's: the coroutine is made, found true, and never awaited.
ChatSetPaused(j, b) ==
    /\ ChatCommands
    /\ Command
    /\ snapshot = Nothing
    /\ told' = [told EXCEPT ![j] = b]
    /\ UNCHANGED <<memory, stage, left, copy, snapshot, saved, uptime, since, ran, late, stale, troubles>>

----------------------------------------------------------------------------
(* Time and restarts.                                                      *)

\* Something is to be done before time advances; a callback may take long.
Urgent(j) ==
    \/ stage["loop"][j] \in {"boot", "asleep"} /\ left[j] = 0
    \/ \E d \in Drivers : stage[d][j] \in {"reading", "writing"}

Older(f) == [j \in Jobs |-> IF f[j] < Interval[j] THEN f[j] + 1 ELSE f[j]]

Later(j) ==
    IF paused[j] \/ stage["loop"][j] \in {"calling", "reading", "writing"} \/ late[j] > MostLate(j)
    THEN late[j]
    ELSE late[j] + 1

Tick ==
    /\ \A j \in Jobs : ~ Urgent(j)
    /\ snapshot = Nothing
    /\ uptime' = IF uptime < MinUptime THEN uptime + 1 ELSE uptime
    /\ left' = [j \in Jobs |-> IF left[j] > 0 THEN left[j] - 1 ELSE 0]
    /\ age' = Older(age)
    /\ since' = Older(since)
    /\ ran' = Older(ran)
    /\ late' = [j \in Jobs |-> Later(j)]
    /\ saved' = [j \in Jobs |->
          [paused |-> saved[j].paused, age |-> Older([k \in Jobs |-> saved[k].age])[j]]]
    /\ UNCHANGED <<paused, stage, copy, snapshot, told, stale, commands, troubles>>

\* mutant: a start counts as a run
RestoreMutant(record) ==
    /\ paused' = [j \in Jobs |-> record[j].paused]
    /\ age' = [j \in Jobs |-> 0]

\* What a start restores: the flag, if it was saved as set, and the last run.
Restore(record) ==
    /\ paused' = [j \in Jobs |-> record[j].paused]
    /\ age' = [j \in Jobs |-> record[j].age]

\* A stop or a crash, at any await, and the next start.
Restart ==
    /\ uptime = MinUptime
    /\ \/ Goes /\ Restore(saved)
       \/ Fails /\ Restore([j \in Jobs |-> Oldest(j)])
    /\ stage' = [d \in Drivers |-> [j \in Jobs |-> IF d = "loop" THEN "boot" ELSE "off"]]
    /\ left' = [j \in Jobs |-> BootDelay]
    /\ copy' = [d \in Drivers |-> [j \in Jobs |-> Nothing]]
    /\ snapshot' = Nothing
    /\ uptime' = 0
    /\ stale' = {j \in Jobs : age'[j] > ran[j]}
    /\ UNCHANGED <<saved, told, since, ran, late, commands>>

Step(j) ==
    \/ Booted(j)
    \/ Wake(j)
    \/ \E d \in Drivers : Called(d, j) \/ Read(d, j) \/ Write(d, j)

Next ==
    \/ \E j \in Jobs :
        \/ Step(j)
        \/ Trigger(j)
        \/ \E b \in BOOLEAN : SetPaused(j, b) \/ ChatSetPaused(j, b)
    \/ Persist
    \/ Tick
    \/ Restart

Spec == Init /\ [][Next]_vars

\* The event loop runs what is ready, and time passes.
FairSpec ==
    /\ Spec
    /\ \A j \in Jobs : WF_vars(Step(j))
    /\ WF_vars(Persist)
    /\ WF_vars(Tick)

----------------------------------------------------------------------------
(* The longest a job that is not paused goes without a run is its interval *)
(* and the delay of a start, however often the host restarts in between:   *)
(* the catch-up of _run_loop, which must hold with lost and stale records. *)
NeverLate == \A j \in Jobs : late[j] <= MostLate(j)

(* A record in Redis never claims a later run than there was: whatever     *)
(* order the rewrites of the shared key land in, a start can only find a   *)
(* job due too early, never too late.                                      *)
NeverAhead ==
    /\ \A j \in Jobs : age[j] >= ran[j] /\ saved[j].age >= ran[j]
    /\ \A d \in Drivers, j, k \in Jobs :
        stage[d][j] = "writing" => copy[d][j][k].age >= ran[k]
    /\ snapshot # Nothing => \A k \in Jobs : snapshot[k].age >= ran[k]

(* A restart does not make a loop run a job again before its interval is   *)
(* over (the sleep of the remaining time in _run_loop), unless the record  *)
(* it started from had lost the last run.                                  *)
NoEarlyRun ==
    [][\A j \in Jobs :
        stage["loop"][j] = "asleep" /\ stage'["loop"][j] = "calling"
            => since[j] = Interval[j] \/ j \in stale]_vars

(* Every job runs again and again unless it is paused, on a host that      *)
(* restarts for ever and more often than the job's interval.               *)
KeepsRunning == \A j \in Jobs : []<>(paused[j] \/ stage["loop"][j] = "calling")

(* A pause is still there after a restart: what Redis holds once nothing   *)
(* is being written is what the scheduler was last told.                   *)
Quiet == snapshot = Nothing /\ \A d \in Drivers, j \in Jobs : stage[d][j] # "writing"
PausesSurvive == Quiet /\ troubles = 0 => \A j \in Jobs : saved[j].paused = paused[j]

(* What the user was last told of a job is so.                             *)
ToldTruly == snapshot = Nothing /\ troubles = 0 => \A j \in Jobs : told[j] = paused[j]
=============================================================================
