--------------------------- MODULE OutboundProofs ---------------------------
(***************************************************************************)
(* Theorems about the calls that leave agent-core.                         *)
(*                                                                         *)
(* CircuitBreaker, for any number of calls and resets, any threshold: the  *)
(* invariant is OpenForAReason itself, which speaks of all the places a    *)
(* state can be restored from or written to, so it needs no strengthening. *)
(*                                                                         *)
(* BrokerChannel, for any calls and any number of faults: a command is in  *)
(* one place at most, in the stream, or in the broker's hand, or done; and *)
(* every response that says success, wherever it is, follows a command     *)
(* that succeeded.                                                         *)
(***************************************************************************)
EXTENDS CircuitBreaker, BrokerChannel, TLAPS

-----------------------------------------------------------------------------
(* The circuit breaker.                                                    *)

BreakerInv == BreakerTypeOK /\ OpenForAReason

\* The readings and updates of the fields keep them typed and in evidence.
LEMMA FieldsOK ==
  ASSUME NEW b \in Breaker, Evidence(b)
  PROVE  /\ Observed(b) \in Breaker /\ Evidence(Observed(b))
         /\ Succeeded(b) \in Breaker /\ Evidence(Succeeded(b))
         /\ Failed(b) \in Breaker /\ Evidence(Failed(b))
         /\ \A last \in {"recent", "old"} :
              Loaded(b, last) \in Breaker /\ Evidence(Loaded(b, last))
<1>0. Threshold \in Nat \ {0} BY BreakerAssumption
<1>1. Observed(b) \in Breaker /\ Evidence(Observed(b))
  BY DEF Breaker, Evidence, Observed
<1>2. Succeeded(b) \in Breaker /\ Evidence(Succeeded(b))
  BY DEF Breaker, Evidence, Succeeded
<1>3. Failed(b) \in Breaker /\ Evidence(Failed(b))
  BY <1>0 DEF Breaker, Evidence, Failed
<1>4. ASSUME NEW last \in {"recent", "old"}
      PROVE  Loaded(b, last) \in Breaker /\ Evidence(Loaded(b, last))
  BY DEF Breaker, Evidence, Loaded
<1>q. QED BY <1>1, <1>2, <1>3, <1>4

\* The constant records are typed and closed.
LEMMA FreshOK ==
  /\ Fresh \in Breaker /\ Evidence(Fresh)
  /\ NoRecord \notin Breaker /\ Evidence(NoRecord)
BY DEF Fresh, NoRecord, Breaker, Evidence

\* The invariant holds before the first call.
LEMMA BreakerInitInv == BreakerInit => BreakerInv
<1> SUFFICES ASSUME BreakerInit PROVE BreakerInv
  OBVIOUS
<1>1. \A c \in Processes : proc[c] = [pc |-> "idle", payload |-> Fresh]
  BY DEF BreakerInit, At
<1>2. proc \in [Processes ->
        [pc : {"idle", "load", "loaded", "call", "scheduled", "write"},
         payload : Breaker \cup {NoRecord}]]
  BY FreshOK DEF BreakerInit, At
<1>3. restarts \in 0 .. MaxRestarts BY BreakerAssumption DEF BreakerInit
<1>4. BreakerTypeOK BY <1>2, <1>3, FreshOK DEF BreakerInit, BreakerTypeOK
<1>5. OpenForAReason BY <1>1, FreshOK DEF BreakerInit, OpenForAReason
<1>q. QED BY <1>4, <1>5 DEF BreakerInv

\* What it takes to preserve the invariant when one process moves.
LEMMA OneMoves ==
  ASSUME BreakerInv, NEW c \in Processes,
         mem' \in Breaker, Evidence(mem'),
         saved' \in Breaker \cup {NoRecord}, Evidence(saved'),
         restored' \in BOOLEAN, restarts' = restarts,
         NEW pc \in {"idle", "load", "loaded", "call", "scheduled", "write"},
         NEW b \in Breaker \cup {NoRecord}, Evidence(b),
         proc' = [proc EXCEPT ![c] = [pc |-> pc, payload |-> b]]
  PROVE  BreakerInv'
<1>1. BreakerTypeOK'
  BY DEF BreakerInv, BreakerTypeOK
<1>2. ASSUME NEW d \in Processes
      PROVE  Evidence(proc[d].payload)'
  BY DEF BreakerInv, BreakerTypeOK, OpenForAReason, Evidence
<1>q. QED BY <1>1, <1>2 DEF BreakerInv, OpenForAReason, Evidence

\* Entering the breaker with fields that are typed and in evidence.
LEMMA EnterOK ==
  ASSUME BreakerInv, NEW c \in Processes, NEW b \in Breaker, Evidence(b),
         Enter(c, b), restored' = restored, saved' = saved, restarts' = restarts
  PROVE  BreakerInv'
<1> DEFINE pc == IF Observed(b).state = "open" THEN "idle" ELSE "call"
<1>1. Observed(b) \in Breaker /\ Evidence(Observed(b)) BY FieldsOK
<1>2. proc' = [proc EXCEPT ![c] = [pc |-> pc, payload |-> Fresh]]
  BY DEF Enter, At
<1>3. mem' = Observed(b) BY DEF Enter
<1>4. mem' \in Breaker /\ Evidence(mem') BY <1>1, <1>3
<1>5. /\ saved' \in Breaker \cup {NoRecord} /\ Evidence(saved')
      /\ restored' \in BOOLEAN
  BY DEF BreakerInv, BreakerTypeOK, OpenForAReason, Evidence
<1>6. pc \in {"idle", "load", "loaded", "call", "scheduled", "write"} OBVIOUS
<1> HIDE DEF pc
<1>q. QED BY <1>2, <1>4, <1>5, <1>6, OneMoves, FreshOK

\* Every step preserves the invariant.
LEMMA BreakerStep == BreakerInv /\ [BreakerNext]_breakerVars => BreakerInv'
<1> SUFFICES ASSUME BreakerInv, [BreakerNext]_breakerVars PROVE BreakerInv'
  OBVIOUS
<1>0. /\ mem \in Breaker /\ Evidence(mem) /\ saved \in Breaker \cup {NoRecord}
      /\ Evidence(saved) /\ restored \in BOOLEAN
      /\ \A c \in Processes : /\ proc[c].payload \in Breaker \cup {NoRecord}
                              /\ Evidence(proc[c].payload)
  BY DEF BreakerInv, BreakerTypeOK, OpenForAReason
<1>p. Callers \subseteq Processes /\ Admins \subseteq Processes BY DEF Processes
<1>1. ASSUME NEW c \in Callers, FirstCall(c) PROVE BreakerInv'
  BY <1>0, <1>1, <1>p, FreshOK, OneMoves DEF FirstCall, At, Evidence
<1>2. ASSUME NEW c \in Callers, Read(c) PROVE BreakerInv'
  <2>1. PICK b \in {saved, NoRecord} :
          proc' = [proc EXCEPT ![c] = [pc |-> "loaded", payload |-> b]]
    BY <1>2 DEF Read
  <2>2. b \in Breaker \cup {NoRecord} /\ Evidence(b) BY <1>0, <2>1, FreshOK
  <2>q. QED BY <1>0, <1>2, <1>p, <2>1, <2>2, OneMoves DEF Read, Evidence
<1>3. ASSUME NEW c \in Callers, Load(c) PROVE BreakerInv'
  <2>0. restored' = restored /\ saved' = saved /\ restarts' = restarts
    BY <1>3 DEF Load
  <2>1. CASE proc[c].payload = NoRecord
    BY <1>0, <1>3, <1>p, <2>0, <2>1, EnterOK DEF Load
  <2>2. CASE proc[c].payload # NoRecord
    <3>1. proc[c].payload \in Breaker /\ Evidence(proc[c].payload)
      BY <1>0, <1>p, <2>2
    <3>2. PICK last \in {"recent", "old"} : Enter(c, Loaded(proc[c].payload, last))
      BY <1>3, <2>2 DEF Load
    <3>3. /\ Loaded(proc[c].payload, last) \in Breaker
          /\ Evidence(Loaded(proc[c].payload, last))
      BY <3>1, FieldsOK
    <3>q. QED BY <1>p, <2>0, <3>2, <3>3, EnterOK
  <2>q. QED BY <2>1, <2>2
<1>4. ASSUME NEW c \in Callers, Call(c) PROVE BreakerInv'
  BY <1>0, <1>4, <1>p, EnterOK DEF Call
<1>5. ASSUME NEW c \in Callers, NEW b \in Breaker, Evidence(b), Record(c, b)
      PROVE  BreakerInv'
  BY <1>0, <1>5, <1>p, OneMoves DEF Record, Writing, Evidence
<1>6. ASSUME NEW c \in Callers, Finish(c) PROVE BreakerInv'
  <2>1. CASE Succeed(c) BY <1>0, <1>5, <2>1, FieldsOK DEF Succeed
  <2>2. CASE Fail(c) BY <1>0, <1>5, <2>2, FieldsOK DEF Fail
  <2>3. CASE Leave(c)
    BY <1>0, <1>p, <2>3, FreshOK, OneMoves DEF Leave, At, Evidence
  <2>q. QED BY <1>6, <2>1, <2>2, <2>3 DEF Finish
<1>7. ASSUME NEW c \in Processes, Write(c) PROVE BreakerInv'
  <2>1. saved' \in Breaker \cup {NoRecord} /\ Evidence(saved')
    BY <1>0, <1>7 DEF Write, Evidence
  <2>q. QED BY <1>0, <1>7, <2>1, FreshOK, OneMoves DEF Write, At, Evidence
<1>8. ASSUME NEW a \in Admins, Reset(a) PROVE BreakerInv'
  <2>1. mem' \in Breaker /\ Evidence(mem') BY <1>8, FreshOK DEF Reset
  <2>q. QED BY <1>0, <1>8, <1>p, <2>1, FreshOK, OneMoves DEF Reset, At, Evidence
<1>9. ASSUME NEW a \in Admins, StartPersist(a) PROVE BreakerInv'
  BY <1>0, <1>9, <1>p, OneMoves DEF StartPersist, Writing, Evidence
<1>10. ASSUME mem' \in Breaker, Evidence(mem'),
              UNCHANGED <<restored, saved, proc, restarts>>
       PROVE  BreakerInv'
  BY <1>10 DEF BreakerInv, BreakerTypeOK, OpenForAReason, Evidence
<1>11. CASE Inspect
  BY <1>0, <1>10, <1>11, FieldsOK DEF Inspect
<1>12. CASE CoolDown
  <2>1. mem' \in Breaker /\ Evidence(mem')
    BY <1>0, <1>12 DEF CoolDown, Breaker, Evidence
  <2>q. QED BY <1>10, <1>12, <2>1 DEF CoolDown
<1>13. CASE Restart
  <2>1. restarts' \in 0 .. MaxRestarts
    BY <1>13, BreakerAssumption DEF Restart, BreakerInv, BreakerTypeOK
  <2>2. BreakerTypeOK'
    BY <1>0, <1>13, <2>1, FreshOK DEF Restart, At, BreakerTypeOK
  <2>3. OpenForAReason'
    BY <1>0, <1>13, FreshOK DEF Restart, At, OpenForAReason, Evidence
  <2>q. QED BY <2>2, <2>3 DEF BreakerInv
<1>14. CASE UNCHANGED breakerVars
  BY <1>14 DEF breakerVars, BreakerInv, BreakerTypeOK, OpenForAReason, Evidence
<1>q. QED
  BY <1>1, <1>2, <1>3, <1>4, <1>6, <1>7, <1>8, <1>9, <1>11, <1>12, <1>13, <1>14
     DEF BreakerNext

-----------------------------------------------------------------------------
\* In every run of the breaker the types hold and an open state has evidence.
THEOREM BreakerInvariance == BreakerSpec => []BreakerInv
BY BreakerInitInv, BreakerStep, PTL DEF BreakerSpec

\* The fields and records keep their types.
THEOREM BreakerTypeCorrect == BreakerSpec => []BreakerTypeOK
<1>1. BreakerInv => BreakerTypeOK BY DEF BreakerInv
<1>q. QED BY <1>1, BreakerInvariance, PTL

\* A breaker that is open or half open, in memory, in Redis or under way, has at
\* least failure_threshold failures and the time of the last.
THEOREM AlwaysForAReason == BreakerSpec => []OpenForAReason
<1>1. BreakerInv => OpenForAReason BY DEF BreakerInv
<1>q. QED BY <1>1, BreakerInvariance, PTL

\* The failure of a call made half open, or found half open when it ends, opens
\* the breaker again: the count that opened it is still there.
THEOREM FailedProbesReopen == BreakerSpec => FailedProbeReopens
<1> DEFINE A == \A c \in Callers :
                  mem.state = "half_open" /\ CallFails(c) => mem'.state = "open"
<1>1. BreakerInv /\ [BreakerNext]_breakerVars => [A]_breakerVars
  <2> SUFFICES ASSUME BreakerInv, [BreakerNext]_breakerVars, NEW c \in Callers,
                      mem.state = "half_open", CallFails(c)
               PROVE  mem'.state = "open"
    OBVIOUS
  <2>0. /\ mem \in Breaker /\ mem.failures >= Threshold /\ Threshold \in Nat
        /\ proc[c].pc = "call" /\ proc'[c].pc = "write"
        /\ proc'[c].payload.failures > 0
    BY BreakerAssumption DEF BreakerInv, BreakerTypeOK, OpenForAReason, Evidence, CallFails
  <2>1. proc \in [Processes ->
          [pc : {"idle", "load", "loaded", "call", "scheduled", "write"},
           payload : Breaker \cup {NoRecord}]] /\ c \in Processes
    BY DEF BreakerInv, BreakerTypeOK, Processes
  <2>3. ASSUME NEW d \in Callers, NEW b \in Breaker, Record(d, b)
        PROVE  mem' = b /\ d = c /\ b.failures > 0
    BY <2>0, <2>1, <2>3 DEF Record, Writing, Processes
  <2>e. Evidence(mem) BY DEF BreakerInv, OpenForAReason
  <2>f. Succeeded(mem) \in Breaker /\ Failed(mem) \in Breaker
    BY <2>0, <2>e, FieldsOK
  <2>g. Succeeded(mem).failures = 0 BY <2>0 DEF Succeeded, Breaker
  <2>h. Failed(mem).state = "open" BY <2>0 DEF Failed, Breaker
  <2>4. CASE \E d \in Callers : Succeed(d)
    BY <2>3, <2>4, <2>f, <2>g DEF Succeed
  <2>5. CASE \E d \in Callers : Fail(d)
    BY <2>3, <2>5, <2>f, <2>h DEF Fail
  <2>6. CASE \E d \in Callers : FirstCall(d) \/ Read(d) \/ Load(d) \/ Call(d) \/ Leave(d)
    BY <2>0, <2>1, <2>6 DEF FirstCall, Read, Load, Call, Leave, Enter, At, Processes
  <2>7. CASE \E d \in Processes : Write(d)
    BY <2>0, <2>1, <2>7 DEF Write, At
  <2>8. CASE \E a \in Admins : Reset(a) \/ StartPersist(a)
    BY <2>0, <2>1, <2>8, BreakerAssumption
       DEF Reset, StartPersist, At, Writing, Processes
  <2>9. CASE Inspect \/ CoolDown \/ Restart \/ UNCHANGED breakerVars
    BY <2>0, <2>1, <2>9 DEF Inspect, CoolDown, Restart, At, breakerVars
  <2>q. QED BY <2>4, <2>5, <2>6, <2>7, <2>8, <2>9 DEF BreakerNext, Finish
<1>q. QED BY <1>1, BreakerInvariance, PTL DEF FailedProbeReopens, BreakerSpec

-----------------------------------------------------------------------------
(* The channel to the broker.                                              *)

USE CallAssumption, NumberAssumption

\* The commands in the stream are of different calls, sent and not executed.
Queued ==
    /\ \A i \in 1 .. Len(commands.backlog) :
        LET c == commands.backlog[i] IN call[c] # "new" /\ executed[c] = 0
    /\ \A i, j \in 1 .. Len(commands.backlog) :
        commands.backlog[i] = commands.backlog[j] => i = j

\* The command in hand is in the stream no more, and executed once at most.
InHand ==
    /\ stage # "reading" =>
        /\ call[inHand] # "new"
        /\ \A i \in 1 .. Len(commands.backlog) : commands.backlog[i] # inHand
    /\ stage = "executing" => executed[inHand] = 0
    /\ \A c \in Calls : call[c] = "new" => executed[c] = 0
    /\ ExecutedOnce

\* What says success is true: a response, and the result in the broker's hand.
Truthful ==
    /\ \A i \in 1 .. Len(responses.backlog) :
        responses.backlog[i].success => responses.backlog[i].call \in succeeded
    /\ \A c \in Calls : \A i \in 1 .. Len(got[c]) :
        got[c][i].success => got[c][i].call \in succeeded
    /\ stage = "responding" /\ result => inHand \in succeeded
    /\ ReportedTruly

Inv == TypeOK /\ Queued /\ InHand /\ Truthful

----------------------------------------------------------------------------
\* The streams: what is read is what was first, what stays keeps its order.

LEMMA PublishedStream ==
    ASSUME NEW M, NEW s \in Streams(M), NEW m \in M
    PROVE  /\ Published(s, m) \in Streams(M)
           /\ Len(Published(s, m).backlog) = Len(s.backlog) + 1
           /\ Published(s, m).backlog[Len(s.backlog) + 1] = m
           /\ \A i \in 1 .. Len(s.backlog) : Published(s, m).backlog[i] = s.backlog[i]
<1>1. s.backlog \in Seq(M) /\ s.group \in BOOLEAN
    BY DEF Streams
<1>2. Published(s, m).backlog = Append(s.backlog, m) /\ Published(s, m).group = s.group
    BY DEF Published, Streams
<1>3. Append(s.backlog, m) \in Seq(M)
    BY <1>1
<1>4. Published(s, m) \in Streams(M)
    BY <1>1, <1>3 DEF Published, Streams
<1> QED
    BY <1>1, <1>2, <1>4

LEMMA BatchOfStream ==
    ASSUME NEW M, NEW s \in Streams(M), NEW n \in Nat
    PROVE  /\ Batch(s, n) \in Seq(M)
           /\ Len(Batch(s, n)) \in 0 .. Len(s.backlog)
           /\ \A i \in 1 .. Len(Batch(s, n)) : Batch(s, n)[i] = s.backlog[i]
<1>1. s.backlog \in Seq(M) /\ Len(s.backlog) \in Nat
    BY DEF Streams
<1> DEFINE k == IF Len(s.backlog) < n THEN Len(s.backlog) ELSE n
<1>2. k \in 0 .. Len(s.backlog)
    BY <1>1
<1>3. Batch(s, n) = SubSeq(s.backlog, 1, k)
    BY DEF Batch
<1> HIDE DEF k
<1>4. SubSeq(s.backlog, 1, k) \in Seq(M) /\ Len(SubSeq(s.backlog, 1, k)) = k
    BY <1>1, <1>2
<1>5. \A i \in 1 .. k : SubSeq(s.backlog, 1, k)[i] = s.backlog[i]
    BY <1>1, <1>2
<1> QED
    BY <1>2, <1>3, <1>4, <1>5

LEMMA RestOfStream ==
    ASSUME NEW M, NEW s \in Streams(M), NEW n \in Nat
    PROVE  /\ AfterBatch(s, n) \in Streams(M)
           /\ Len(AfterBatch(s, n).backlog) = Len(s.backlog) - Len(Batch(s, n))
           /\ \A i \in 1 .. Len(AfterBatch(s, n).backlog) :
                /\ i + Len(Batch(s, n)) \in 1 .. Len(s.backlog)
                /\ AfterBatch(s, n).backlog[i] = s.backlog[i + Len(Batch(s, n))]
<1>1. s.backlog \in Seq(M) /\ Len(s.backlog) \in Nat /\ s.group \in BOOLEAN
    BY DEF Streams
<1> DEFINE k == Len(Batch(s, n))
           t == SubSeq(s.backlog, k + 1, Len(s.backlog))
<1>2. k \in 0 .. Len(s.backlog)
    BY BatchOfStream
<1>3. AfterBatch(s, n) = [s EXCEPT !.backlog = t]
    BY DEF AfterBatch
<1> HIDE DEF k
<1>4. t \in Seq(M) /\ Len(t) = Len(s.backlog) - k
    BY <1>1, <1>2
<1>5. \A i \in 1 .. Len(t) : i + k \in 1 .. Len(s.backlog) /\ t[i] = s.backlog[i + k]
    BY <1>1, <1>2, <1>4
<1> HIDE DEF t
<1>6. AfterBatch(s, n).backlog = t /\ AfterBatch(s, n) \in Streams(M)
    BY <1>1, <1>3, <1>4 DEF Streams
<1> QED
    BY <1>4, <1>5, <1>6 DEF k

\* A start, and a reset, of a stream.
LEMMA OtherStreams ==
    ASSUME NEW M, NEW s \in Streams(M)
    PROVE  /\ Ensured(s) \in Streams(M) /\ Ensured(s).backlog = s.backlog
           /\ NewStream \in Streams(M) /\ NewStream.backlog = <<>>
           /\ WipedStream \in Streams(M) /\ WipedStream.backlog = <<>>
<1>1. <<>> \in Seq(M)
    OBVIOUS
<1> QED
    BY <1>1 DEF Ensured, NewStream, WipedStream, Streams

----------------------------------------------------------------------------
LEMMA TroublesBounded ==
    ASSUME troubles \in 0 .. MaxTroubles, Goes \/ Fails PROVE troubles' \in 0 .. MaxTroubles
BY DEF Goes, Fails

LEMMA InvInit == Init => Inv
<1> SUFFICES ASSUME Init PROVE Inv
    OBVIOUS
<1>1. /\ commands \in Streams(Calls) /\ commands.backlog = <<>>
      /\ responses \in Streams(Response) /\ responses.backlog = <<>>
    BY OtherStreams DEF Init, NewStream, Streams
<1>2. \A c \in Calls : got[c] = <<>>
    BY DEF Init
<1>3. TypeOK
    <2>1. <<>> \in Seq(Response)
        OBVIOUS
    <2>2. got \in [Calls -> Seq(Response)]
        BY <2>1 DEF Init
    <2>3. /\ call \in [Calls -> {"new"}] /\ executed \in [Calls -> {0}] /\ stage = "reading"
          /\ inHand = NoCall /\ result = FALSE /\ succeeded = {} /\ lost = {} /\ troubles \in 0 .. MaxTroubles
        BY DEF Init
    <2>4. \A c \in Calls : call[c] = "new"
        BY <2>3
    <2>5. call \in [Calls -> {"new", "waiting", "success", "failure", "timeout", "raised", "gone"}]
          /\ executed \in [Calls -> Nat]
        BY <2>3
    <2>6. /\ inHand \in Calls \cup {NoCall} /\ result \in BOOLEAN
          /\ stage \in {"reading", "executing", "responding", "acking"}
          /\ stage # "reading" => inHand \in Calls
        BY <2>3
    <2> QED
        BY <1>1, <1>2, <2>2, <2>3, <2>4, <2>5, <2>6 DEF TypeOK
<1>4. Queued /\ InHand
    BY <1>1 DEF Init, Queued, InHand, ExecutedOnce
<1>5. Truthful
    BY <1>1, <1>2 DEF Init, Truthful, ReportedTruly
<1> QED
    BY <1>3, <1>4, <1>5 DEF Inv

\* Nothing moves that the broker's side of the invariant speaks of.
LEMMA QueueUntouched ==
    ASSUME Inv, UNCHANGED <<commands, broker, executed>>,
           \A c \in Calls : call'[c] = "new" <=> call[c] = "new"
    PROVE  Queued' /\ InHand'
<1>1. \A i \in 1 .. Len(commands.backlog) : commands.backlog[i] \in Calls
    BY DEF Inv, TypeOK, Streams
<1>2. stage # "reading" => inHand \in Calls
    BY DEF Inv, TypeOK
<1>3. Queued'
    BY <1>1 DEF Inv, Queued
<1>4. InHand'
    BY <1>2 DEF Inv, InHand, ExecutedOnce, broker
<1> QED
    BY <1>3, <1>4

----------------------------------------------------------------------------
\* The client.

\* What a call that returns leaves.
LEMMA Returned ==
    ASSUME TypeOK, NEW c \in Calls,
           NEW how \in {"success", "failure", "timeout", "raised"}, Return(c, how)
    PROVE  /\ call' \in [Calls -> {"new", "waiting", "success", "failure", "timeout", "raised", "gone"}]
           /\ got' \in [Calls -> Seq(Response)]
           /\ call'[c] = how /\ got'[c] = <<>>
           /\ \A d \in Calls \ {c} : call'[d] = call[d] /\ got'[d] = got[d]
<1>1. <<>> \in Seq(Response)
    OBVIOUS
<1> QED
    BY <1>1 DEF TypeOK, Return

LEMMA ReturnTruthful ==
    ASSUME Inv, NEW c \in Calls, UNCHANGED <<responses, broker, succeeded>>,
           got'[c] = <<>>, call'[c] = "success" => c \in succeeded,
           \A d \in Calls \ {c} : call'[d] = call[d] /\ got'[d] = got[d]
    PROVE  Truthful'
<1>1. \A d \in Calls : \A i \in 1 .. Len(got'[d]) : got'[d][i].success => got'[d][i].call \in succeeded
    <2> TAKE d \in Calls
    <2>1. CASE d = c
        BY <2>1
    <2>2. CASE d # c
        BY <2>2 DEF Inv, Truthful
    <2> QED
        BY <2>1, <2>2
<1> QED
    BY <1>1 DEF Inv, Truthful, ReportedTruly, broker

LEMMA SendStep == ASSUME Inv, NEW c \in Calls, Send(c) PROVE Inv'
<1>1. UNCHANGED <<responses, broker, executed, succeeded, lost>> /\ call[c] = "new"
    BY DEF Send
<1>2. troubles' \in 0 .. MaxTroubles
    BY TroublesBounded DEF Inv, TypeOK, Send
<1>3. CASE Return(c, "raised") /\ UNCHANGED commands
    <2>1. /\ call' \in [Calls -> {"new", "waiting", "success", "failure", "timeout", "raised", "gone"}]
          /\ got' \in [Calls -> Seq(Response)]
          /\ call'[c] = "raised" /\ got'[c] = <<>>
          /\ \A d \in Calls \ {c} : call'[d] = call[d] /\ got'[d] = got[d]
        BY <1>3, Returned DEF Inv
    <2>2. TypeOK'
        BY <1>1, <1>2, <1>3, <2>1 DEF Inv, TypeOK, broker
    <2>3. Queued'
        <3>1. \A i \in 1 .. Len(commands.backlog) : commands.backlog[i] \in Calls
            BY DEF Inv, TypeOK, Streams
        <3> QED
            BY <1>1, <1>3, <2>1, <3>1 DEF Inv, Queued
    <2>4. InHand'
        BY <1>1, <1>3, <2>1 DEF Inv, InHand, ExecutedOnce, TypeOK, broker
    <2>5. Truthful'
        BY <1>1, <2>1, ReturnTruthful DEF broker
    <2> QED
        BY <2>2, <2>3, <2>4, <2>5 DEF Inv
<1>4. CASE /\ commands' = Published(commands, c)
           /\ call' = [call EXCEPT ![c] = "waiting"]
           /\ UNCHANGED got
    <2> DEFINE n == Len(commands.backlog)
    <2>1. /\ commands' \in Streams(Calls) /\ Len(commands'.backlog) = n + 1
          /\ commands'.backlog[n + 1] = c
          /\ \A i \in 1 .. n : commands'.backlog[i] = commands.backlog[i]
        BY <1>4, PublishedStream DEF Inv, TypeOK
    <2>2. n \in Nat /\ \A i \in 1 .. n : commands.backlog[i] \in Calls
        BY DEF Inv, TypeOK, Streams
    <2> HIDE DEF n
    <2>3. call'[c] = "waiting" /\ \A d \in Calls \ {c} : call'[d] = call[d]
        BY <1>4 DEF Inv, TypeOK
    <2>4. got[c] = <<>> /\ executed[c] = 0
        BY <1>1 DEF Inv, TypeOK, InHand
    <2>5. TypeOK'
        BY <1>1, <1>2, <1>4, <2>1, <2>3, <2>4 DEF Inv, TypeOK, broker
    <2>6. \A i \in 1 .. n : commands.backlog[i] # c
        BY <1>1 DEF Inv, Queued, n
    <2>7. \A i \in 1 .. n + 1 : i \in 1 .. n \/ i = n + 1
        BY <2>2
    <2>8. Queued'
        <3>1. \A i \in 1 .. n + 1 : call'[commands'.backlog[i]] # "new" /\ executed[commands'.backlog[i]] = 0
            BY <2>1, <2>2, <2>3, <2>4, <2>6, <2>7 DEF Inv, Queued, n
        <3>2. \A i, j \in 1 .. n + 1 : commands'.backlog[i] = commands'.backlog[j] => i = j
            BY <2>1, <2>6, <2>7 DEF Inv, Queued, n
        <3> QED
            BY <1>1, <2>1, <3>1, <3>2 DEF Queued
    <2>9. InHand'
        <3>1. stage # "reading" => inHand # c
            BY <1>1 DEF Inv, InHand
        <3>2. stage # "reading" => \A i \in 1 .. n + 1 : commands'.backlog[i] # inHand
            BY <2>1, <2>7, <3>1 DEF Inv, InHand, n
        <3> QED
            BY <1>1, <2>1, <2>3, <3>1, <3>2 DEF Inv, InHand, ExecutedOnce, TypeOK, broker
    <2>10. Truthful'
        BY <1>1, <1>4, <2>3 DEF Inv, Truthful, ReportedTruly, broker
    <2> QED
        BY <2>5, <2>8, <2>9, <2>10 DEF Inv
<1> QED
    BY <1>3, <1>4 DEF Send

LEMMA ReceiveStep == ASSUME Inv, NEW c \in Calls, Receive(c) PROVE Inv'
<1>1. UNCHANGED <<commands, call, broker, executed, succeeded, lost, troubles>> /\ call[c] = "waiting"
    BY DEF Receive
<1> DEFINE b == Batch(responses, BatchSize)
<1>2. /\ b \in Seq(Response) /\ Len(b) \in 0 .. Len(responses.backlog)
      /\ \A i \in 1 .. Len(b) : b[i] = responses.backlog[i]
    BY BatchOfStream DEF Inv, TypeOK
<1>3. /\ responses' \in Streams(Response)
      /\ \A i \in 1 .. Len(responses'.backlog) :
            /\ i + Len(b) \in 1 .. Len(responses.backlog)
            /\ responses'.backlog[i] = responses.backlog[i + Len(b)]
    <2>1. responses \in Streams(Response) /\ BatchSize \in Nat /\ responses' = AfterBatch(responses, BatchSize)
        BY DEF Inv, TypeOK, Receive
    <2> QED
        BY <2>1, RestOfStream
<1>4. got' = [got EXCEPT ![c] = b]
    BY DEF Receive
<1> HIDE DEF b
<1>5. got' \in [Calls -> Seq(Response)] /\ got'[c] = b /\ \A d \in Calls \ {c} : got'[d] = got[d]
    BY <1>2, <1>4 DEF Inv, TypeOK
<1>6. TypeOK'
    BY <1>1, <1>3, <1>5 DEF Inv, TypeOK, broker
<1>7. Queued' /\ InHand'
    BY <1>1, QueueUntouched
<1>8. Truthful'
    <2>1. Len(responses.backlog) \in Nat
        BY DEF Inv, TypeOK, Streams
    <2>2. \A i \in 1 .. Len(b) : i \in 1 .. Len(responses.backlog)
        BY <1>2, <2>1
    <2>3. \A i \in 1 .. Len(b) : b[i].success => b[i].call \in succeeded
        BY <1>2, <2>2 DEF Inv, Truthful
    <2>4. \A d \in Calls : \A i \in 1 .. Len(got'[d]) : got'[d][i].success => got'[d][i].call \in succeeded
        BY <1>5, <2>3 DEF Inv, Truthful
    <2>5. \A i \in 1 .. Len(responses'.backlog) :
            responses'.backlog[i].success => responses'.backlog[i].call \in succeeded
        BY <1>3 DEF Inv, Truthful
    <2> QED
        BY <1>1, <2>4, <2>5 DEF Inv, Truthful, ReportedTruly, broker
<1> QED
    BY <1>6, <1>7, <1>8 DEF Inv

LEMMA LookAtStep == ASSUME Inv, NEW c \in Calls, LookAt(c) PROVE Inv'
<1>1. UNCHANGED <<commands, responses, broker, executed, succeeded, lost>> /\ got[c] # <<>>
    BY DEF LookAt
<1>2. troubles' \in 0 .. MaxTroubles
    BY TroublesBounded DEF Inv, TypeOK, LookAt
<1>3. call[c] = "waiting" /\ got[c] \in Seq(Response) /\ Len(got[c]) \in Nat \ {0}
    BY <1>1 DEF Inv, TypeOK
<1> DEFINE r == Head(got[c])
<1>4. r \in Response /\ (r.success => r.call \in succeeded)
    <2>1. r = got[c][1] /\ 1 \in 1 .. Len(got[c]) /\ r \in Response
        BY <1>3
    <2> QED
        BY <2>1 DEF Inv, Truthful
<1>5. CASE \E how \in {"success", "failure", "raised"} :
            Return(c, how) /\ (how = "success" => r.success /\ r.call = c)
    <2>1. PICK how \in {"success", "failure", "raised"} :
            Return(c, how) /\ (how = "success" => r.success /\ r.call = c)
        BY <1>5
    <2> HIDE DEF r
    <2>2. /\ call' \in [Calls -> {"new", "waiting", "success", "failure", "timeout", "raised", "gone"}]
          /\ got' \in [Calls -> Seq(Response)]
          /\ call'[c] = how /\ got'[c] = <<>>
          /\ \A d \in Calls \ {c} : call'[d] = call[d] /\ got'[d] = got[d]
        BY <2>1, Returned DEF Inv
    <2>3. TypeOK'
        BY <1>1, <1>2, <2>2 DEF Inv, TypeOK, broker
    <2>4. Queued' /\ InHand'
        BY <1>1, <1>3, <2>1, <2>2, QueueUntouched
    <2>5. Truthful'
        BY <1>1, <1>4, <2>1, <2>2, ReturnTruthful
    <2> QED
        BY <2>3, <2>4, <2>5 DEF Inv
<1>6. CASE got' = [got EXCEPT ![c] = Tail(@)] /\ UNCHANGED call
    <2> DEFINE rest == Tail(got[c])
    <2>1. /\ rest \in Seq(Response) /\ Len(rest) = Len(got[c]) - 1
          /\ \A i \in 1 .. Len(rest) : rest[i] = got[c][i + 1] /\ i + 1 \in 1 .. Len(got[c])
        BY <1>3
    <2> HIDE DEF rest
    <2>2. got' \in [Calls -> Seq(Response)] /\ got'[c] = rest /\ \A d \in Calls \ {c} : got'[d] = got[d]
        BY <1>6, <2>1 DEF Inv, TypeOK, rest
    <2>3. TypeOK'
        BY <1>1, <1>2, <1>3, <1>6, <2>2 DEF Inv, TypeOK, broker
    <2>4. Queued' /\ InHand'
        BY <1>1, <1>6, QueueUntouched
    <2>5. Truthful'
        BY <1>1, <1>6, <2>1, <2>2 DEF Inv, Truthful, ReportedTruly, broker
    <2> QED
        BY <2>3, <2>4, <2>5 DEF Inv
<1> QED
    BY <1>5, <1>6 DEF LookAt, IsOwn

LEMMA TimeOutStep == ASSUME Inv, NEW c \in Calls, TimeOut(c) PROVE Inv'
<1>1. /\ UNCHANGED <<commands, responses, broker, executed, succeeded, lost, troubles>>
      /\ call[c] = "waiting" /\ Return(c, "timeout")
    BY DEF TimeOut
<1>2. /\ call' \in [Calls -> {"new", "waiting", "success", "failure", "timeout", "raised", "gone"}]
      /\ got' \in [Calls -> Seq(Response)]
      /\ call'[c] = "timeout" /\ got'[c] = <<>>
      /\ \A d \in Calls \ {c} : call'[d] = call[d] /\ got'[d] = got[d]
    BY <1>1, Returned DEF Inv
<1>3. TypeOK'
    BY <1>1, <1>2 DEF Inv, TypeOK, broker
<1>4. Queued' /\ InHand'
    BY <1>1, <1>2, QueueUntouched
<1>5. Truthful'
    BY <1>1, <1>2, ReturnTruthful
<1> QED
    BY <1>3, <1>4, <1>5 DEF Inv

\* A start of the core, or its stop: no call is new that was not.
LEMMA CoreGoneCalls ==
    ASSUME TypeOK, CoreGone
    PROVE  /\ call' \in [Calls -> {"new", "waiting", "success", "failure", "timeout", "raised", "gone"}]
           /\ got' \in [Calls -> Seq(Response)]
           /\ \A c \in Calls :
                /\ got'[c] = <<>> /\ Len(got'[c]) = 0
                /\ call'[c] = "new" <=> call[c] = "new"
                /\ call'[c] = "success" <=> call[c] = "success"
                /\ call'[c] # "waiting"
<1>1. <<>> \in Seq(Response) /\ Len(<<>>) = 0
    OBVIOUS
<1> QED
    BY <1>1 DEF TypeOK, CoreGone

----------------------------------------------------------------------------
\* The broker.

LEMMA BrokerReadsStep == Inv /\ BrokerReads => Inv'
<1> SUFFICES ASSUME Inv, BrokerReads PROVE Inv'
    OBVIOUS
<1>1. UNCHANGED <<responses, client, result, executed, succeeded, lost, troubles>> /\ stage' = "executing"
    BY DEF BrokerReads
<1> DEFINE q == commands.backlog
           t == commands'.backlog
<1>2. q \in Seq(Calls) /\ q # <<>> /\ Len(q) \in Nat \ {0} /\ commands \in Streams(Calls)
    BY DEF Inv, TypeOK, BrokerReads, Readable, Streams
<1>3. inHand' = q[1] /\ 1 \in 1 .. Len(q) /\ q[1] \in Calls
    BY <1>2 DEF BrokerReads
<1>4. Len(Batch(commands, 1)) = 1
    <2>1. (IF Len(q) < 1 THEN Len(q) ELSE 1) = 1
        BY <1>2
    <2>2. Batch(commands, 1) = SubSeq(q, 1, 1)
        BY <2>1 DEF Batch
    <2> QED
        BY <1>2, <2>2
<1>5. /\ commands' \in Streams(Calls)
      /\ \A i \in 1 .. Len(t) : i + 1 \in 1 .. Len(q) /\ t[i] = q[i + 1]
    <2>1. commands' = AfterBatch(commands, 1)
        BY DEF BrokerReads, Taken
    <2>2. /\ AfterBatch(commands, 1) \in Streams(Calls)
          /\ \A i \in 1 .. Len(AfterBatch(commands, 1).backlog) :
                /\ i + Len(Batch(commands, 1)) \in 1 .. Len(q)
                /\ AfterBatch(commands, 1).backlog[i] = q[i + Len(Batch(commands, 1))]
        BY <1>2, RestOfStream
    <2> QED
        BY <1>4, <2>1, <2>2
<1>6. Len(t) \in Nat
    BY <1>5 DEF Streams
<1>7. \A i \in 1 .. Len(q) : call[q[i]] # "new" /\ executed[q[i]] = 0
    BY DEF Inv, Queued
<1>8. \A i, j \in 1 .. Len(q) : q[i] = q[j] => i = j
    BY DEF Inv, Queued
<1>9. TypeOK'
    BY <1>1, <1>3, <1>5 DEF Inv, TypeOK, client
<1> HIDE DEF q, t
<1>10. /\ \A i \in 1 .. Len(t) : call[t[i]] # "new" /\ executed[t[i]] = 0
       /\ \A i, j \in 1 .. Len(t) : t[i] = t[j] => i = j
       /\ \A i \in 1 .. Len(t) : t[i] # q[1]
    <2>1. \A i, j \in 1 .. Len(t) : i + 1 = j + 1 => i = j
        BY <1>6
    <2>2. \A i \in 1 .. Len(t) : i + 1 # 1
        BY <1>6
    <2>3. \A i \in 1 .. Len(t) : i + 1 \in 1 .. Len(q) /\ t[i] = q[i + 1]
        BY <1>5 DEF q, t
    <2>4. \A i \in 1 .. Len(t) : call[t[i]] # "new" /\ executed[t[i]] = 0
        BY <1>7, <2>3 DEF q
    <2>5. \A i, j \in 1 .. Len(t) : t[i] = t[j] => i = j
        BY <1>8, <2>1, <2>3 DEF q
    <2>6. \A i \in 1 .. Len(t) : t[i] # q[1]
        BY <1>3, <1>8, <2>2, <2>3 DEF q
    <2> QED
        BY <2>4, <2>5, <2>6
<1>11. Queued'
    BY <1>1, <1>10 DEF Queued, client, t
<1>12. InHand'
    BY <1>1, <1>3, <1>7, <1>10 DEF Inv, InHand, ExecutedOnce, client, t
<1>13. Truthful'
    BY <1>1 DEF Inv, Truthful, ReportedTruly, client
<1> QED
    BY <1>9, <1>11, <1>12, <1>13 DEF Inv

LEMMA ExecuteStep == Inv /\ Execute => Inv'
<1> SUFFICES ASSUME Inv, Execute PROVE Inv'
    OBVIOUS
<1>1. UNCHANGED <<commands, inHand, lost, troubles>> /\ stage = "executing" /\ stage' = "responding"
    BY DEF Execute
<1>2. inHand \in Calls /\ executed[inHand] = 0 /\ call[inHand] # "new" /\ executed \in [Calls -> Nat]
    BY <1>1 DEF Inv, TypeOK, InHand
<1>3. /\ executed' \in [Calls -> Nat]
      /\ \A c \in Calls : c # inHand => executed'[c] = executed[c]
      /\ executed'[inHand] <= 1 /\ (inHand \in Forbidden => executed'[inHand] = 0)
    <2>1. \/ executed' = executed
          \/ executed' = [executed EXCEPT ![inHand] = @ + 1] /\ inHand \notin Forbidden
        BY DEF Execute
    <2> QED
        BY <1>2, <2>1
<1>4. /\ result' \in BOOLEAN /\ succeeded \subseteq succeeded' /\ succeeded' \subseteq Calls
      /\ result' => inHand \in succeeded'
    BY <1>2 DEF Inv, TypeOK, Execute
<1>5. UNCHANGED <<responses, client>> \/ (CoreGone /\ responses' = Ensured(responses))
    BY DEF Execute
<1>6. responses' \in Streams(Response) /\ responses'.backlog = responses.backlog
    BY <1>5, OtherStreams DEF Inv, TypeOK
<1>7. /\ call' \in [Calls -> {"new", "waiting", "success", "failure", "timeout", "raised", "gone"}]
      /\ got' \in [Calls -> Seq(Response)]
      /\ \A c \in Calls :
            /\ call'[c] = "new" <=> call[c] = "new"
            /\ call'[c] = "success" <=> call[c] = "success"
            /\ got'[c] = got[c] \/ Len(got'[c]) = 0
            /\ call'[c] # "waiting" => got'[c] = <<>>
    BY <1>5, CoreGoneCalls DEF Inv, TypeOK, client
<1>8. TypeOK'
    BY <1>1, <1>2, <1>3, <1>4, <1>6, <1>7 DEF Inv, TypeOK
<1>9. \A i \in 1 .. Len(commands.backlog) : commands.backlog[i] \in Calls /\ commands.backlog[i] # inHand
    BY <1>1 DEF Inv, TypeOK, Streams, InHand
<1>10. Queued'
    BY <1>1, <1>3, <1>7, <1>9 DEF Inv, Queued
<1>11. InHand'
    BY <1>1, <1>2, <1>3, <1>7, <1>9 DEF Inv, InHand, ExecutedOnce
<1>12. Truthful'
    <2>1. ASSUME NEW c \in Calls, NEW i \in 1 .. Len(got'[c]), got'[c][i].success
          PROVE  got'[c][i].call \in succeeded'
        <3>1. got'[c] = got[c]
            <4>1. \A n \in 1 .. 0 : FALSE
                OBVIOUS
            <4> QED
                BY <1>7, <2>1, <4>1
        <3> QED
            BY <1>4, <2>1, <3>1 DEF Inv, Truthful
    <2>2. \A i \in 1 .. Len(responses'.backlog) :
            responses'.backlog[i].success => responses'.backlog[i].call \in succeeded'
        BY <1>4, <1>6 DEF Inv, Truthful
    <2>3. ReportedTruly'
        BY <1>4, <1>7 DEF Inv, Truthful, ReportedTruly
    <2> QED
        BY <1>1, <1>4, <2>1, <2>2, <2>3 DEF Truthful
<1> QED
    BY <1>8, <1>10, <1>11, <1>12 DEF Inv

\* The broker goes on to the next command, with or without the last one's
\* response.
LEMMA BrokerMovesOn ==
    ASSUME Inv, UNCHANGED <<client, executed, succeeded>>, NextCommand \/ UNCHANGED <<inHand, result>>,
           stage' \in {"reading", "acking"}, stage' = "acking" => stage = "responding" /\ UNCHANGED inHand,
           commands' \in Streams(Calls), commands'.backlog = commands.backlog,
           responses' \in Streams(Response),
           \A i \in 1 .. Len(responses'.backlog) :
                responses'.backlog[i].success => responses'.backlog[i].call \in succeeded,
           lost' \subseteq Calls, troubles' \in 0 .. MaxTroubles
    PROVE  Inv'
<1>1. /\ inHand' \in Calls \cup {NoCall} /\ result' \in BOOLEAN
      /\ stage' # "reading" => inHand' \in Calls
    BY DEF Inv, TypeOK, NextCommand
<1>2. TypeOK'
    BY <1>1 DEF Inv, TypeOK, client
<1>3. Queued'
    BY DEF Inv, Queued, client
<1>4. InHand'
    BY DEF Inv, InHand, ExecutedOnce, client
<1>5. Truthful'
    BY DEF Inv, Truthful, ReportedTruly, client
<1> QED
    BY <1>2, <1>3, <1>4, <1>5 DEF Inv

LEMMA RespondStep == Inv /\ Respond => Inv'
<1> SUFFICES ASSUME Inv, Respond PROVE Inv'
    OBVIOUS
<1>1. UNCHANGED <<commands, client, executed, succeeded>> /\ stage = "responding" /\ inHand \in Calls
    BY DEF Inv, TypeOK, Respond
<1>2. troubles' \in 0 .. MaxTroubles
    BY TroublesBounded DEF Inv, TypeOK, Respond
<1>3. \A i \in 1 .. Len(responses.backlog) :
        responses.backlog[i].success => responses.backlog[i].call \in succeeded
    BY DEF Inv, Truthful
<1>4. CASE NextCommand /\ lost' = lost \cup {inHand} /\ UNCHANGED responses
    <2>1. lost' \subseteq Calls /\ stage' = "reading"
        BY <1>1, <1>4 DEF Inv, TypeOK, NextCommand
    <2> QED
        BY <1>1, <1>2, <1>3, <1>4, <2>1, BrokerMovesOn DEF Inv, TypeOK
<1>5. CASE /\ responses' = Published(responses, [call |-> inHand, success |-> result])
           /\ stage' = "acking" /\ UNCHANGED <<inHand, result, lost>>
    <2> DEFINE r == [call |-> inHand, success |-> result]
               n == Len(responses.backlog)
    <2>1. r \in Response /\ (r.success => r.call \in succeeded)
        BY <1>1 DEF Inv, TypeOK, Truthful, Response
    <2> HIDE DEF r
    <2>2. /\ responses' \in Streams(Response) /\ Len(responses'.backlog) = n + 1
          /\ responses'.backlog[n + 1] = r
          /\ \A i \in 1 .. n : responses'.backlog[i] = responses.backlog[i]
        BY <1>5, <2>1, PublishedStream DEF Inv, TypeOK, r
    <2>3. n \in Nat /\ \A i \in 1 .. n + 1 : i \in 1 .. n \/ i = n + 1
        BY DEF Inv, TypeOK, Streams
    <2>4. \A i \in 1 .. Len(responses'.backlog) :
            responses'.backlog[i].success => responses'.backlog[i].call \in succeeded
        BY <1>3, <2>1, <2>2, <2>3
    <2>5. lost' \subseteq Calls
        BY <1>5 DEF Inv, TypeOK
    <2> QED
        BY <1>1, <1>2, <1>5, <2>2, <2>4, <2>5, BrokerMovesOn DEF Inv, TypeOK
<1> QED
    BY <1>4, <1>5 DEF Respond, GiveUp

LEMMA AcknowledgeStep == Inv /\ Acknowledge => Inv'
<1> SUFFICES ASSUME Inv, Acknowledge PROVE Inv'
    OBVIOUS
<1>1. UNCHANGED <<commands, responses, client, executed, succeeded, lost>> /\ NextCommand
    BY DEF Acknowledge, GiveUp
<1>2. troubles' \in 0 .. MaxTroubles
    BY TroublesBounded DEF Inv, TypeOK, Acknowledge
<1>3. \A i \in 1 .. Len(responses.backlog) :
        responses.backlog[i].success => responses.backlog[i].call \in succeeded
    BY DEF Inv, Truthful
<1>4. stage' = "reading" /\ lost' \subseteq Calls
    BY <1>1 DEF NextCommand, Inv, TypeOK
<1> QED
    BY <1>1, <1>2, <1>3, <1>4, BrokerMovesOn DEF Inv, TypeOK

----------------------------------------------------------------------------
\* Faults.

LEMMA BrokerRestartsStep == Inv /\ BrokerRestarts => Inv'
<1> SUFFICES ASSUME Inv, BrokerRestarts PROVE Inv'
    OBVIOUS
<1>1. UNCHANGED <<responses, client, executed, succeeded>> /\ NextCommand
    BY DEF BrokerRestarts
<1>2. troubles' \in 0 .. MaxTroubles
    BY TroublesBounded DEF Inv, TypeOK, BrokerRestarts
<1>3. \A i \in 1 .. Len(responses.backlog) :
        responses.backlog[i].success => responses.backlog[i].call \in succeeded
    BY DEF Inv, Truthful
<1>4. stage' = "reading" /\ lost' \subseteq Calls
    BY DEF BrokerRestarts, NextCommand, Inv, TypeOK
<1>5. commands' \in Streams(Calls) /\ commands'.backlog = commands.backlog
    BY OtherStreams DEF Inv, TypeOK, BrokerRestarts
<1> QED
    BY <1>1, <1>2, <1>3, <1>4, <1>5, BrokerMovesOn DEF Inv, TypeOK

LEMMA CoreStopsStep == Inv /\ CoreStops => Inv'
<1> SUFFICES ASSUME Inv, CoreStops PROVE Inv'
    OBVIOUS
<1>1. UNCHANGED <<commands, broker, executed, succeeded, lost>> /\ responses' = Ensured(responses)
    BY DEF CoreStops
<1>2. troubles' \in 0 .. MaxTroubles
    BY TroublesBounded DEF Inv, TypeOK, CoreStops
<1>3. responses' \in Streams(Response) /\ responses'.backlog = responses.backlog
    BY <1>1, OtherStreams DEF Inv, TypeOK
<1>4. /\ call' \in [Calls -> {"new", "waiting", "success", "failure", "timeout", "raised", "gone"}]
      /\ got' \in [Calls -> Seq(Response)]
      /\ \A c \in Calls :
            /\ got'[c] = <<>> /\ Len(got'[c]) = 0
            /\ call'[c] = "new" <=> call[c] = "new"
            /\ call'[c] = "success" <=> call[c] = "success"
            /\ call'[c] # "waiting"
    BY CoreGoneCalls DEF Inv, CoreStops
<1>5. TypeOK'
    BY <1>1, <1>2, <1>3, <1>4 DEF Inv, TypeOK, broker
<1>6. Queued' /\ InHand'
    BY <1>1, <1>4, QueueUntouched
<1>7. Truthful'
    <2>1. \A c \in Calls : \A i \in 1 .. Len(got'[c]) : FALSE
        BY <1>4
    <2> QED
        BY <1>1, <1>3, <1>4, <2>1 DEF Inv, Truthful, ReportedTruly, broker
<1> QED
    BY <1>5, <1>6, <1>7 DEF Inv

LEMMA WipeStep == Inv /\ Wipe => Inv'
<1> SUFFICES ASSUME Inv, Wipe PROVE Inv'
    OBVIOUS
<1>1. UNCHANGED <<client, broker, executed, succeeded>>
    BY DEF Wipe
<1>2. troubles' \in 0 .. MaxTroubles
    BY TroublesBounded DEF Inv, TypeOK, Wipe
<1>3. /\ commands' \in Streams(Calls) /\ commands'.backlog = <<>> /\ Len(commands'.backlog) = 0
      /\ responses' \in Streams(Response) /\ responses'.backlog = <<>> /\ Len(responses'.backlog) = 0
    <2>1. WipedStream \in Streams(Calls) /\ WipedStream \in Streams(Response)
          /\ WipedStream.backlog = <<>> /\ Len(<<>>) = 0
        BY OtherStreams DEF Inv, TypeOK
    <2> QED
        BY <2>1 DEF Wipe
<1>4. lost' \subseteq Calls
    BY DEF Inv, TypeOK, Wipe
<1>5. TypeOK'
    BY <1>1, <1>2, <1>3, <1>4 DEF Inv, TypeOK, client, broker
<1>6. \A i \in 1 .. 0 : FALSE
    OBVIOUS
<1>7. Queued'
    BY <1>3, <1>6 DEF Queued
<1>8. InHand'
    BY <1>1, <1>3, <1>6 DEF Inv, InHand, ExecutedOnce, client, broker
<1>9. Truthful'
    BY <1>1, <1>3, <1>6 DEF Inv, Truthful, ReportedTruly, client, broker
<1> QED
    BY <1>5, <1>7, <1>8, <1>9 DEF Inv

----------------------------------------------------------------------------
LEMMA InvStep == Inv /\ [Next]_vars => Inv'
<1> SUFFICES ASSUME Inv, [Next]_vars PROVE Inv'
    OBVIOUS
<1>1. CASE UNCHANGED vars
    BY <1>1 DEF Inv, vars, client, broker, TypeOK, Queued, InHand, ExecutedOnce, Truthful, ReportedTruly
<1> QED
    BY <1>1, SendStep, ReceiveStep, LookAtStep, TimeOutStep, BrokerReadsStep, ExecuteStep, RespondStep,
       AcknowledgeStep, BrokerRestartsStep, CoreStopsStep, WipeStep DEF Next, Client, Broker

LEMMA Invariant == Spec => []Inv
BY InvInit, InvStep, PTL DEF Spec

(* The two streams, the calls and the broker's hand keep their types.      *)
THEOREM TypeCorrect == Spec => []TypeOK
BY Invariant, PTL DEF Inv

(* No fault between the reading of a command and its acknowledgement makes *)
(* the broker carry it out twice, and validation is never passed by.       *)
THEOREM CommandsExecutedOnce == Spec => []ExecutedOnce
BY Invariant, PTL DEF Inv, InHand

(* A call is told of a success only if its own command succeeded.          *)
THEOREM SuccessReportedTruly == Spec => []ReportedTruly
BY Invariant, PTL DEF Inv, Truthful
=============================================================================
