--------------------------- MODULE CircuitBreaker ---------------------------
(***************************************************************************)
(* The circuit breaker of one integration (integrations/circuit_breaker.py)*)
(* shared by concurrent calls of IntegrationRegistry.execute, with the     *)
(* copy of its state in Redis that the first call after a restart loads.   *)
(*                                                                         *)
(* Time is kept as far as the code asks about it: last says whether a      *)
(* failure was ever recorded and whether recovery_timeout has passed since *)
(* it.  What the clock says of a failure recorded before a restart is left *)
(* open: the code compares readings of time.monotonic of two processes.    *)
(***************************************************************************)
EXTENDS Naturals

CONSTANTS
  Callers,       \* concurrent calls of the integration
  Admins,        \* the background tasks that persist a manual reset
  Threshold,     \* failure_threshold
  MaxFailures,   \* bound: failures in a row
  MaxRestarts    \* bound: restarts of agent-core

ASSUME BreakerAssumption ==
  /\ Admins \cap Callers = {}
  /\ Threshold \in Nat \ {0}
  /\ MaxFailures \in Nat /\ MaxRestarts \in Nat

Breaker == [state    : {"closed", "open", "half_open"},
            failures : Nat,
            last     : {"never", "recent", "old"}]

Fresh == [state |-> "closed", failures |-> 0, last |-> "never"]

\* The value of the Redis key when it does not exist.
NoRecord == [Fresh EXCEPT !.state = "none"]

VARIABLES
  mem,       \* the fields of the CircuitBreaker object
  restored,  \* _restored
  saved,     \* the record in Redis
  proc,      \* where each call (and the reset task) is, with what it will write
  restarts   \* number of restarts so far

breakerVars == <<mem, restored, saved, proc, restarts>>

Processes == Callers \cup Admins

At(pc) == [pc |-> pc, payload |-> Fresh]

Writing(b) == [pc |-> "write", payload |-> b]

BreakerInit ==
  /\ mem = Fresh
  /\ restored = FALSE
  /\ saved = NoRecord
  /\ proc = [c \in Processes |-> At("idle")]
  /\ restarts = 0

-----------------------------------------------------------------------------
(* What happens to the fields.                                             *)

\* The property "state": an open breaker turns half open when it is looked at
\* after the timeout.
Observed(b) ==
  IF b.state = "open" /\ b.last = "old" THEN [b EXCEPT !.state = "half_open"] ELSE b

\* Mutant of Succeeded: the count is reset, the state is not.
SucceededMutant(b) == [b EXCEPT !.failures = 0]

Succeeded(b) == [b EXCEPT !.state = "closed", !.failures = 0]

\* Mutant of Failed: only the failure that reaches the threshold opens.
FailedMutant(b) ==
  [state    |-> IF b.failures + 1 = Threshold THEN "open" ELSE b.state,
   failures |-> b.failures + 1,
   last     |-> "recent"]

Failed(b) ==
  [state    |-> IF b.failures + 1 >= Threshold THEN "open" ELSE b.state,
   failures |-> b.failures + 1,
   last     |-> "recent"]

\* Mutant of Loaded: the time of the last failure is not restored.
LoadedMutant(b, last) == [b EXCEPT !.last = "never"]

Loaded(b, last) ==
  [b EXCEPT !.last = IF b.last = "never" THEN "never" ELSE last]

-----------------------------------------------------------------------------
(* call: restore once, look at the state, run the function or refuse.      *)

Enter(c, b) ==
  /\ mem' = Observed(b)
  /\ proc' = [proc EXCEPT ![c] = At(IF Observed(b).state = "open" THEN "idle"
                                                                 ELSE "call")]

\* The first call marks the breaker restored and then waits for Redis.
FirstCall(c) ==
  /\ proc[c].pc = "idle"
  /\ ~restored
  /\ restored' = TRUE
  /\ proc' = [proc EXCEPT ![c] = At("load")]
  /\ UNCHANGED <<mem, saved, restarts>>

\* Redis answers: the record, or none (never written, expired, Redis down).
Read(c) ==
  /\ proc[c].pc = "load"
  /\ \E b \in {saved, NoRecord} :
       proc' = [proc EXCEPT ![c] = [pc |-> "loaded", payload |-> b]]
  /\ UNCHANGED <<mem, restored, saved, restarts>>

\* The record replaces the fields, whatever other calls did to them meanwhile.
Load(c) ==
  /\ proc[c].pc = "loaded"
  /\ IF proc[c].payload = NoRecord
     THEN Enter(c, mem)
     ELSE \E last \in {"recent", "old"} : Enter(c, Loaded(proc[c].payload, last))
  /\ UNCHANGED <<restored, saved, restarts>>

Call(c) ==
  /\ proc[c].pc = "idle"
  /\ restored
  /\ Enter(c, mem)
  /\ UNCHANGED <<restored, saved, restarts>>

\* The function returns or raises; the fields change at once, and are written
\* to Redis as they are now, but later.
Record(c, b) ==
  /\ proc[c].pc = "call"
  /\ mem' = b
  /\ proc' = [proc EXCEPT ![c] = Writing(b)]
  /\ UNCHANGED <<restored, saved, restarts>>

Succeed(c) == Record(c, Succeeded(mem))

Fail(c) == mem.failures < MaxFailures /\ Record(c, Failed(mem))

\* Cancelled, or refused by a breaker further down: nothing is recorded.
Leave(c) ==
  /\ proc[c].pc = "call"
  /\ proc' = [proc EXCEPT ![c] = At("idle")]
  /\ UNCHANGED <<mem, restored, saved, restarts>>

\* _persist never raises: the record is written or the write is lost.
Write(c) ==
  /\ proc[c].pc = "write"
  /\ saved' \in {saved, proc[c].payload}
  /\ proc' = [proc EXCEPT ![c] = At("idle")]
  /\ UNCHANGED <<mem, restored, restarts>>

-----------------------------------------------------------------------------
(* The administrator, the clock and restarts.                              *)

\* reset leaves the write to a task of its own.
Reset(a) ==
  /\ proc[a].pc = "idle"
  /\ mem' = Fresh
  /\ restored' = TRUE
  /\ proc' = [proc EXCEPT ![a] = At("scheduled")]
  /\ UNCHANGED <<saved, restarts>>

\* That task starts: only now it reads what it will write.
StartPersist(a) ==
  /\ proc[a].pc = "scheduled"
  /\ proc' = [proc EXCEPT ![a] = Writing(mem)]
  /\ UNCHANGED <<mem, restored, saved, restarts>>

\* to_dict, for the dashboard.
Inspect ==
  /\ mem # Observed(mem)
  /\ mem' = Observed(mem)
  /\ UNCHANGED <<restored, saved, proc, restarts>>

\* recovery_timeout has passed since the last failure.
CoolDown ==
  /\ mem.last = "recent"
  /\ mem' = [mem EXCEPT !.last = "old"]
  /\ UNCHANGED <<restored, saved, proc, restarts>>

Restart ==
  /\ restarts < MaxRestarts
  /\ mem' = Fresh
  /\ restored' = FALSE
  /\ proc' = [c \in Processes |-> At("idle")]
  /\ restarts' = restarts + 1
  /\ UNCHANGED saved

\* The outcomes of the function a call runs.
Finish(c) == Succeed(c) \/ Fail(c) \/ Leave(c)

BreakerNext ==
  \/ \E c \in Callers :
       FirstCall(c) \/ Read(c) \/ Load(c) \/ Call(c) \/ Finish(c)
  \/ \E c \in Processes : Write(c)
  \/ \E a \in Admins : Reset(a) \/ StartPersist(a)
  \/ Inspect \/ CoolDown \/ Restart

BreakerSpec == BreakerInit /\ [][BreakerNext]_breakerVars

\* The clock runs, calls keep coming, and what they wait for ends: the network
\* calls of a connector have timeouts.
FairBreakerSpec ==
  /\ BreakerSpec
  /\ WF_breakerVars(CoolDown)
  /\ \A c \in Callers :
       /\ WF_breakerVars(FirstCall(c) \/ Call(c))
       /\ WF_breakerVars(Read(c) \/ Load(c))
       /\ WF_breakerVars(Finish(c))
       /\ WF_breakerVars(Write(c))

-----------------------------------------------------------------------------
(* Properties.                                                             *)

\* The fields, the record in Redis and the records on their way to it.
BreakerTypeOK ==
  /\ mem \in Breaker
  /\ restored \in BOOLEAN
  /\ saved \in Breaker \cup {NoRecord}
  /\ proc \in [Processes ->
       [pc : {"idle", "load", "loaded", "call", "scheduled", "write"},
        payload : Breaker \cup {NoRecord}]]
  /\ restarts \in 0 .. MaxRestarts

\* What a breaker that is not closed must know: the failures that opened it, and
\* when the last one was, without which it would never let a probe through.
Evidence(b) ==
  b.state \in {"open", "half_open"} => b.failures >= Threshold /\ b.last # "never"

\* An open breaker has its evidence, whatever restores, resets and late writes of
\* other calls have done to it: the object, the record in Redis, and the records
\* on their way to and from it (restore, _on_failure, reset, _persist).
OpenForAReason ==
  /\ Evidence(mem) /\ Evidence(saved)
  /\ \A c \in Processes : Evidence(proc[c].payload)

\* A call is about to persist a failure.
CallFails(c) ==
  /\ proc[c].pc = "call" /\ proc'[c].pc = "write"
  /\ proc'[c].payload.failures > 0

\* "HALF_OPEN -> OPEN on failure" (circuit_breaker.py:12).  _on_failure does not
\* look at the state: it is the count, kept since before the breaker opened,
\* that must send it back.
FailedProbeReopens ==
  [][\A c \in Callers :
       mem.state = "half_open" /\ CallFails(c) => mem'.state = "open"]_breakerVars

\* An open breaker does not stay open while calls keep coming: the failures of
\* calls that were under way when it opened cannot postpone the probe for ever.
ProbeComes == mem.state = "open" ~> mem.state # "open"

\* circuit_breaker.py:44-45: an open breaker "will stay open across deployments
\* until it actually recovers": no call passes as through a closed breaker while
\* the record that says it is open is on its way from Redis.
StaysOpenAcrossRestart ==
  [][\A c \in Callers :
       proc[c].pc = "idle" /\ proc'[c].pc = "call" /\ mem'.state = "closed"
         => ~ \E d \in Callers : /\ proc[d].pc = "loaded"
                                 /\ proc[d].payload.state = "open"]_breakerVars

=============================================================================
