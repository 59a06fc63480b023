--------------------------- MODULE BrokerChannel ---------------------------
(***************************************************************************)
(* Commands for Docker on their way to the broker and back: the client in  *)
(* the agent core (health/broker_client.py), the streams broker:commands   *)
(* and broker:responses, and the broker's loop (agent-broker/src/main.py). *)
(* The calls of the core share one client, hence one consumer of the       *)
(* responses.  An action is the code between two awaits.                   *)
(***************************************************************************)
EXTENDS Naturals, Sequences, RedisStream

CONSTANTS
    Calls,         \* calls of send_command, with their correlation ids
    NoCall,
    Forbidden,     \* calls whose command is not on the allowlist
    CoreRestarts,  \* calls whose command restarts the agent core
    BatchSize,     \* responses a call reads at once
    MaxTroubles    \* bound: failing calls of Redis, restarts, resets of Redis

ASSUME CallAssumption ==
    /\ NoCall \notin Calls
    /\ Forbidden \subseteq Calls
    /\ CoreRestarts \subseteq Calls \ Forbidden

ASSUME NumberAssumption == BatchSize \in Nat \ {0} /\ MaxTroubles \in Nat

VARIABLES
    commands, responses,
    call,          \* where each call is, or what it returned
    got,           \* responses a call has read and not looked at
    inHand,        \* the command the broker works on
    stage,         \* and how far it is
    result,        \* what came of it
    executed,      \* times the command of a call was carried out
    succeeded,     \* calls whose command succeeded
    lost,          \* calls whose command or response a fault has lost
    troubles

client == <<call, got>>
broker == <<inHand, stage, result>>
vars   == <<commands, responses, client, broker, executed, succeeded, lost, troubles>>

Response == [call : Calls, success : BOOLEAN]

TypeOK ==
    /\ commands \in Streams(Calls)
    /\ responses \in Streams(Response)
    /\ call \in [Calls -> {"new", "waiting", "success", "failure", "timeout", "raised", "gone"}]
    /\ got \in [Calls -> Seq(Response)]
    /\ \A c \in Calls : call[c] # "waiting" => got[c] = <<>>
    /\ inHand \in Calls \cup {NoCall}
    /\ stage \in {"reading", "executing", "responding", "acking"}
    /\ stage # "reading" => inHand \in Calls
    /\ result \in BOOLEAN
    /\ executed \in [Calls -> Nat]
    /\ succeeded \cup lost \subseteq Calls
    /\ troubles \in 0 .. MaxTroubles

Init ==
    /\ commands = NewStream
    /\ responses = NewStream
    /\ call = [c \in Calls |-> "new"]
    /\ got = [c \in Calls |-> <<>>]
    /\ inHand = NoCall
    /\ stage = "reading"
    /\ result = FALSE
    /\ executed = [c \in Calls |-> 0]
    /\ succeeded = {}
    /\ lost = {}
    /\ troubles = 0

Goes == UNCHANGED troubles
Fails == troubles < MaxTroubles /\ troubles' = troubles + 1

----------------------------------------------------------------------------
(* The client.                                                             *)

\* A call is over: what it had read and not looked at is dropped.
Return(c, how) ==
    /\ call' = [call EXCEPT ![c] = how]
    /\ got' = [got EXCEPT ![c] = <<>>]

Send(c) ==
    /\ call[c] = "new"
    /\ \/ Goes
          /\ commands' = Published(commands, c)
          /\ call' = [call EXCEPT ![c] = "waiting"]
          /\ UNCHANGED got
       \/ Fails /\ Return(c, "raised") /\ UNCHANGED commands
    /\ UNCHANGED <<responses, broker, executed, succeeded, lost>>

\* A failing read is tried again until the deadline, and changes nothing.
Receive(c) ==
    /\ call[c] = "waiting"
    /\ got[c] = <<>>
    /\ Readable(responses)
    /\ got' = [got EXCEPT ![c] = Batch(responses, BatchSize)]
    /\ responses' = AfterBatch(responses, BatchSize)
    /\ UNCHANGED <<commands, call, broker, executed, succeeded, lost, troubles>>

\* mutant: the first response is taken for the call's own
IsOwnMutant(c, r) == TRUE

IsOwn(c, r) == r.call = c

\* A response is acknowledged, whoever it is for, and then compared.
LookAt(c) ==
    /\ got[c] # <<>>
    /\ LET r == Head(got[c])
       IN \/ /\ Goes
             /\ IF IsOwn(c, r)
                THEN Return(c, IF r.success THEN "success" ELSE "failure")
                ELSE got' = [got EXCEPT ![c] = Tail(@)] /\ UNCHANGED call
          \/ Fails /\ Return(c, "raised")
    /\ UNCHANGED <<commands, responses, broker, executed, succeeded, lost>>

TimeOut(c) ==
    /\ call[c] = "waiting"
    /\ got[c] = <<>>
    /\ Return(c, "timeout")
    /\ UNCHANGED <<commands, responses, broker, executed, succeeded, lost, troubles>>

\* What a start of the core leaves: no call, and the group of the responses.
CoreGone ==
    /\ call' = [c \in Calls |-> IF call[c] = "waiting" THEN "gone" ELSE call[c]]
    /\ got' = [c \in Calls |-> <<>>]

----------------------------------------------------------------------------
(* The broker.                                                             *)

\* Each failure in the loop is logged, and the loop reads the next command:
\* the one in hand stays unacknowledged and is never read again.
NextCommand == stage' = "reading" /\ inHand' = NoCall /\ result' = FALSE

\* mutant: a failure leaves the loop
GiveUpMutant == stage' = "stopped" /\ UNCHANGED <<inHand, result>>

GiveUp == NextCommand

\* mutant: the command stays in the stream until it is acknowledged
TakenMutant == UNCHANGED commands

Taken == commands' = AfterBatch(commands, 1)

BrokerReads ==
    /\ stage = "reading"
    /\ Readable(commands)
    /\ inHand' = Head(commands.backlog)
    /\ Taken
    /\ stage' = "executing"
    /\ UNCHANGED <<responses, client, result, executed, succeeded, lost, troubles>>

\* Validated, and carried out if allowed, with or without success.
Execute ==
    /\ stage = "executing"
    /\ \/ /\ inHand \in Forbidden
          /\ result' = FALSE
          /\ UNCHANGED <<responses, client, executed, succeeded>>
       \/ /\ inHand \notin Forbidden
          /\ executed' = [executed EXCEPT ![inHand] = @ + 1]
          /\ \/ /\ result' = TRUE
                /\ succeeded' = succeeded \cup {inHand}
                /\ IF inHand \in CoreRestarts
                   THEN CoreGone /\ responses' = Ensured(responses)
                   ELSE UNCHANGED <<responses, client>>
             \/ result' = FALSE /\ UNCHANGED <<responses, client, succeeded>>
    /\ stage' = "responding"
    /\ UNCHANGED <<commands, inHand, lost, troubles>>

Respond ==
    /\ stage = "responding"
    /\ \/ /\ Goes
          /\ responses' = Published(responses, [call |-> inHand, success |-> result])
          /\ stage' = "acking"
          /\ UNCHANGED <<inHand, result, lost>>
       \/ Fails /\ GiveUp /\ lost' = lost \cup {inHand} /\ UNCHANGED responses
    /\ UNCHANGED <<commands, client, executed, succeeded>>

\* Trim and acknowledge: what the stream still holds does not change.
Acknowledge ==
    /\ stage = "acking"
    /\ \/ Goes  /\ NextCommand
       \/ Fails /\ GiveUp
    /\ UNCHANGED <<commands, responses, client, executed, succeeded, lost>>

----------------------------------------------------------------------------
(* Restarts, and a reset of Redis that empties both streams.               *)

BrokerRestarts ==
    /\ Fails
    /\ lost' = IF stage \in {"executing", "responding"} THEN lost \cup {inHand} ELSE lost
    /\ NextCommand
    /\ commands' = Ensured(commands)
    /\ UNCHANGED <<responses, client, executed, succeeded>>

CoreStops ==
    /\ Fails
    /\ CoreGone
    /\ responses' = Ensured(responses)
    /\ UNCHANGED <<commands, broker, executed, succeeded, lost>>

Wipe ==
    /\ Fails
    /\ commands' = WipedStream
    /\ responses' = WipedStream
    /\ lost' = lost \cup {c \in Calls : call[c] # "new"}
    /\ UNCHANGED <<client, broker, executed, succeeded>>

Client(c) == Receive(c) \/ LookAt(c) \/ TimeOut(c)

Broker == BrokerReads \/ Execute \/ Respond \/ Acknowledge

Next ==
    \/ \E c \in Calls : Send(c) \/ Client(c)
    \/ Broker
    \/ BrokerRestarts \/ CoreStops \/ Wipe

Spec == Init /\ [][Next]_vars

\* Both loops go on, and a call has a deadline; faults are never due.
FairSpec ==
    /\ Spec
    /\ \A c \in Calls : WF_vars(Client(c))
    /\ WF_vars(Broker)

----------------------------------------------------------------------------
(* A command is carried out at most once, across restarts of the broker    *)
(* and resets of Redis, and one that is not allowed never.                 *)
ExecutedOnce ==
    /\ \A c \in Calls : executed[c] <= 1
    /\ \A c \in Forbidden : executed[c] = 0

(* A call that returns success was carried out with success: it is never   *)
(* answered with the response to another.                                  *)
ReportedTruly == \A c \in Calls : call[c] = "success" => c \in succeeded

(* Every call returns, and the command of one that was sent is carried out *)
(* or rejected unless a fault lost it or the broker's group is gone.       *)
EveryCallReturns ==
    \A c \in Calls :
        /\ (call[c] = "waiting") ~> (call[c] # "waiting")
        /\ (call[c] = "waiting") ~>
                (executed[c] > 0 \/ c \in lost \cup Forbidden \/ ~ commands.group)

(* A call whose response was published gets it ("Send a command to the     *)
(* broker and wait for the response").                                     *)
NoStolenResponse ==
    troubles = 0 =>
        ~ \E c, d \in Calls :
            /\ c # d /\ call[c] = "waiting"
            /\ got[d] # <<>> /\ Head(got[d]).call = c
=============================================================================
