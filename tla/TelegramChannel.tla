-------------------------- MODULE TelegramChannel --------------------------
(***************************************************************************)
(* A user's message on its way to the agent core and back: the bridge      *)
(* (containers/agent-telegram), the two streams of the event bus, and the  *)
(* core's consumer loop with the part of its handler that publishes.       *)
(*                                                                         *)
(* The bridge runs three kinds of coroutine on one loop: the handler of an *)
(* incoming message, one timeout guard per request, and the listener of    *)
(* outgoing messages.  An action is the code between two awaits.  What the *)
(* model of the chat pipeline decides is left open: a reply takes one of   *)
(* the Paths, or is cut short by the handler's timeout or an exception.    *)
(***************************************************************************)
EXTENDS Naturals, Sequences, RedisStream

CONSTANTS
    Requests,      \* the messages users send, with their correlation ids
    NoRequest,
    Chats,
    ChatOf,        \* the chat of each request
    Paths,         \* the ways a handler may reply to each request
    BatchSize,     \* messages the listener reads at once
    SendAttempts,  \* times _send_with_retry tries
    MaxTroubles    \* bound: failing calls, restarts and resets of Redis together

AllPaths == {"text", "photos", "screenshot", "screenshots"}

ASSUME RequestAssumption ==
    /\ NoRequest \notin Requests
    /\ ChatOf \in [Requests -> Chats]
    /\ Paths \in [Requests -> SUBSET AllPaths]

ASSUME NumberAssumption ==
    /\ BatchSize \in Nat \ {0}
    /\ SendAttempts \in Nat \ {0}
    /\ MaxTroubles \in Nat

VARIABLES
    asked,         \* requests the bridge has taken
    incoming,      \* the stream to the core
    outgoing,      \* the stream to the bridge
    coreReq,       \* the request the consumer loop is handling
    corePhase,
    todo,          \* messages the handler has still to publish
    pending,       \* requests whose timeout guard sleeps
    expiring,      \* requests whose guard is sending the fallback
    typing,        \* chats that show the typing indicator
    remembered,    \* correlation ids in _delivered
    marked,        \* correlation ids with a key bridge:delivered in Redis
    batch,         \* messages the listener has read and not acknowledged
    phase,         \* where the listener is with the first of them
    tries,
    album,         \* photos buffered for the album of a request
    answers,       \* text answers the user was shown, per request
    unsure,        \* of these, the ones whose send raised all the same
    settled,       \* requests with a photo or the fallback shown, and those
                   \* a restart of the bridge or a failing last send gave up
    forgotten,     \* requests whose delivery mark was lost or not seen
    troubles

core    == <<coreReq, corePhase, todo>>
guards  == <<pending, expiring, typing>>
dedup   == <<remembered, marked, forgotten>>
listen  == <<batch, phase, tries, album>>
user    == <<answers, unsure, settled>>
vars    == <<asked, incoming, outgoing, core, guards, dedup, listen, user, troubles>>

----------------------------------------------------------------------------
(* Messages to the bridge.  A message carries the correlation id of its    *)
(* request (part 0) or a fresh one; photo is 0 for a text, else its index. *)

Message ==
    {m \in [req : Requests, part : 0 .. 2, photo : 0 .. 2, grouped : BOOLEAN] :
        m.photo = 0 => m.part = 0 /\ ~m.grouped}

Cid(m) == <<m.req, m.part>>
Cids == Requests \X (0 .. 2)

Text(r) == [req |-> r, part |-> 0, photo |-> 0, grouped |-> FALSE]

Photo(r, part, i, grouped) == [req |-> r, part |-> part, photo |-> i, grouped |-> grouped]

\* What a handler publishes: a text; a text and an album with fresh ids (the
\* main path); a screenshot, or an album, under the request's own id (the
\* path that answers a request for screenshots without the LLM).
Reply(path, r) ==
    CASE path = "text"        -> <<Text(r)>>
      [] path = "photos"      -> <<Text(r), Photo(r, 1, 1, TRUE), Photo(r, 2, 2, TRUE)>>
      [] path = "screenshot"  -> <<Photo(r, 0, 1, FALSE)>>
      [] path = "screenshots" -> <<Photo(r, 0, 1, TRUE), Photo(r, 0, 2, TRUE)>>

TypeOK ==
    /\ asked \subseteq Requests
    /\ incoming \in Streams(Requests)
    /\ outgoing \in Streams(Message)
    /\ coreReq \in Requests \cup {NoRequest}
    /\ corePhase \in {"idle", "replying", "apologising"}
    /\ corePhase # "idle" => coreReq \in Requests
    /\ todo \in Seq(Message)
    /\ pending \subseteq Requests
    /\ expiring \subseteq Requests
    /\ typing \subseteq Chats
    /\ remembered \subseteq Cids
    /\ marked \subseteq Cids
    /\ batch \in Seq(Message)
    /\ phase \in {"idle", "marking", "sending", "done"}
    /\ phase # "idle" => batch # <<>>
    /\ tries \in 0 .. SendAttempts - 1
    /\ album \in [Requests -> SUBSET (1 .. 2)]
    /\ answers \in [Requests -> Nat]
    /\ unsure \in [Requests -> Nat]
    /\ settled \cup forgotten \subseteq Requests
    /\ troubles \in 0 .. MaxTroubles

Init ==
    /\ asked = {}
    /\ incoming = NewStream
    /\ outgoing = NewStream
    /\ coreReq = NoRequest
    /\ corePhase = "idle"
    /\ todo = <<>>
    /\ pending = {}
    /\ expiring = {}
    /\ typing = {}
    /\ remembered = {}
    /\ marked = {}
    /\ batch = <<>>
    /\ phase = "idle"
    /\ tries = 0
    /\ album = [r \in Requests |-> {}]
    /\ answers = [r \in Requests |-> 0]
    /\ unsure = [r \in Requests |-> 0]
    /\ settled = {}
    /\ forgotten = {}
    /\ troubles = 0

\* One more failing call, restart or reset.
Trouble ==
    /\ troubles < MaxTroubles
    /\ troubles' = troubles + 1

----------------------------------------------------------------------------
(* The bridge takes a message: indicator and guard first, then the XADD,   *)
(* whose exception goes to the caller and leaves the guard running.        *)

Ask(r) ==
    /\ r \notin asked
    /\ asked' = asked \cup {r}
    /\ typing' = typing \cup {ChatOf[r]}
    /\ pending' = pending \cup {r}
    /\ \/ incoming' = Published(incoming, r) /\ UNCHANGED troubles
       \/ Trouble /\ UNCHANGED incoming
    /\ UNCHANGED <<outgoing, core, expiring, dedup, listen, user>>

----------------------------------------------------------------------------
(* The core's consumer loop: one message at a time, through its handler,   *)
(* then acknowledged.                                                      *)

Take ==
    /\ corePhase = "idle"
    /\ Readable(incoming)
    /\ coreReq' = Head(incoming.backlog)
    /\ incoming' = AfterBatch(incoming, 1)
    /\ \E path \in Paths[coreReq'] : todo' = Reply(path, coreReq')
    /\ corePhase' = "replying"
    /\ UNCHANGED <<asked, outgoing, guards, dedup, listen, user, troubles>>

\* consume() meets NOGROUP, creates the group at $ and reads again.
CoreRegroup ==
    /\ corePhase = "idle"
    /\ ~incoming.group
    /\ incoming' = Regrouped(incoming)
    /\ UNCHANGED <<asked, outgoing, core, guards, dedup, listen, user, troubles>>

\* The handler publishes its next message.  A text goes through
\* _safe_publish_response, which swallows an exception of the bus.
Say ==
    /\ corePhase \in {"replying", "apologising"}
    /\ todo # <<>>
    /\ todo' = Tail(todo)
    /\ \/ outgoing' = Published(outgoing, Head(todo)) /\ UNCHANGED troubles
       \/ Head(todo).photo = 0 /\ Trouble /\ UNCHANGED outgoing
    /\ UNCHANGED <<asked, incoming, coreReq, corePhase, guards, dedup, listen, user>>

\* The timeout of asyncio.wait_for, or an exception, at any point of the
\* handler: a fallback text is published under the request's own id.
Interrupt ==
    /\ corePhase = "replying"
    /\ corePhase' = "apologising"
    /\ todo' = <<Text(coreReq)>>
    /\ UNCHANGED <<asked, incoming, outgoing, coreReq, guards, dedup, listen, user, troubles>>

Finish ==
    /\ corePhase \in {"replying", "apologising"}
    /\ todo = <<>>
    /\ corePhase' = "idle"
    /\ coreReq' = NoRequest
    /\ UNCHANGED <<asked, incoming, outgoing, todo, guards, dedup, listen, user, troubles>>

\* A restart forgets the request in hand: the entries found pending at start
\* are acknowledged without being handled.
CoreRestart ==
    /\ Trouble
    /\ coreReq' = NoRequest
    /\ corePhase' = "idle"
    /\ todo' = <<>>
    /\ incoming' = Ensured(incoming)
    /\ UNCHANGED <<asked, outgoing, guards, dedup, listen, user>>

----------------------------------------------------------------------------
(* The bridge's listener.                                                  *)

Listen ==
    /\ batch = <<>>
    /\ Readable(outgoing)
    /\ batch' = Batch(outgoing, BatchSize)
    /\ outgoing' = AfterBatch(outgoing, BatchSize)
    /\ UNCHANGED <<asked, incoming, core, guards, dedup, phase, tries, album, user, troubles>>

BridgeRegroup ==
    /\ batch = <<>>
    /\ ~outgoing.group
    /\ outgoing' = Regrouped(outgoing)
    /\ UNCHANGED <<asked, incoming, core, guards, dedup, listen, user, troubles>>

DeliveredMutant(m) == Cid(m) \in remembered   \* mutant: no mark in Redis

Delivered(m) == Cid(m) \in remembered \cup marked

\* _is_delivered, and the memory half of _mark_delivered.
Look ==
    /\ phase = "idle"
    /\ batch # <<>>
    /\ LET m == Head(batch)
       IN  \/ /\ Delivered(m)
              /\ phase' = "done"
              /\ UNCHANGED <<remembered, forgotten>>
           \/ /\ ~Delivered(m)
              /\ phase' = "marking"
              /\ remembered' = remembered \cup {Cid(m)}
              /\ UNCHANGED forgotten
           \/ /\ Cid(m) \in marked \ remembered   \* EXISTS raises: not delivered
              /\ phase' = "marking"
              /\ remembered' = remembered \cup {Cid(m)}
              /\ forgotten' = forgotten \cup {m.req}
    /\ UNCHANGED <<asked, incoming, outgoing, core, guards, marked, batch, tries, album, user,
                   troubles>>

\* mutant: the guard is left running
CompletedMutant(m) == pending \ (IF m.photo = 0 THEN {} ELSE {m.req})

\* The guard of the request with this correlation id is cancelled.
Completed(m) == pending \ (IF m.part = 0 THEN {m.req} ELSE {})

\* Photo m joins the buffer of its album.
Buffered(m) == album[m.req] \cup {m.photo}

\* The SETEX has answered or failed.  Guard and indicator stop, then a photo
\* of an album waits in the buffer until the album is whole.
Mark ==
    /\ phase = "marking"
    /\ LET m == Head(batch)
       IN  /\ \/ /\ marked' = marked \cup {Cid(m)}
                 /\ UNCHANGED <<forgotten, troubles>>
              \/ /\ Trouble
                 /\ forgotten' = forgotten \cup {m.req}
                 /\ UNCHANGED marked
           /\ pending' = Completed(m)
           /\ typing' = typing \ {ChatOf[m.req]}
           /\ \/ /\ m.grouped
                 /\ Buffered(m) # 1 .. 2
                 /\ album' = [album EXCEPT ![m.req] = Buffered(m)]
                 /\ phase' = "done"
              \/ /\ m.grouped
                 /\ Buffered(m) = 1 .. 2
                 /\ album' = [album EXCEPT ![m.req] = {}]
                 /\ phase' = "sending"
              \/ /\ ~m.grouped
                 /\ phase' = "sending"
                 /\ UNCHANGED album
    /\ UNCHANGED <<asked, incoming, outgoing, core, expiring, remembered, batch, tries, user>>

\* A text is sent, and sent again after an exception, which also follows a
\* message that did arrive when only its confirmation was lost.
SendText ==
    /\ phase = "sending"
    /\ LET r == Head(batch).req
       IN  /\ Head(batch).photo = 0
           /\ \/ /\ answers' = [answers EXCEPT ![r] = @ + 1]
                 /\ phase' = "done"
                 /\ tries' = 0
                 /\ UNCHANGED <<unsure, settled, troubles>>
              \/ /\ Trouble
                 /\ \/ UNCHANGED <<answers, unsure>>
                    \/ /\ answers' = [answers EXCEPT ![r] = @ + 1]
                       /\ unsure' = [unsure EXCEPT ![r] = @ + 1]
                 /\ IF tries + 1 < SendAttempts
                    THEN tries' = tries + 1 /\ UNCHANGED <<phase, settled>>
                    ELSE /\ tries' = 0
                         /\ phase' = "done"
                         /\ settled' = settled \cup {r}
    /\ UNCHANGED <<asked, incoming, outgoing, core, guards, dedup, batch, album>>

\* A photo or an album is sent once; an album that fails is tried photo by
\* photo.  An exception of the last send is logged.
SendPhotos ==
    /\ phase = "sending"
    /\ LET r == Head(batch).req
       IN  /\ Head(batch).photo # 0
           /\ settled' = settled \cup {r}
           /\ UNCHANGED troubles \/ Trouble
    /\ phase' = "done"
    /\ UNCHANGED <<asked, incoming, outgoing, core, guards, dedup, batch, tries, album,
                   answers, unsure>>

\* The XACK.  When it raises, the listener drops the rest of its batch.
Acknowledge ==
    /\ phase = "done"
    /\ phase' = "idle"
    /\ \/ batch' = Tail(batch) /\ UNCHANGED troubles
       \/ Trouble /\ batch' = <<>>
    /\ UNCHANGED <<asked, incoming, outgoing, core, guards, dedup, tries, album, user>>

----------------------------------------------------------------------------
(* The timeout guard of a request.                                         *)

ExpireMutant(r) ==   \* mutant: the indicator is left running
    /\ r \in pending
    /\ pending' = pending \ {r}
    /\ expiring' = expiring \cup {r}
    /\ UNCHANGED <<asked, incoming, outgoing, core, typing, dedup, listen, user, troubles>>

ExpireMutant2(r) ==   \* mutant: the guard sends no fallback
    /\ r \in pending
    /\ pending' = pending \ {r}
    /\ typing' = typing \ {ChatOf[r]}
    /\ UNCHANGED <<asked, incoming, outgoing, core, expiring, dedup, listen, user, troubles>>

Expire(r) ==
    /\ r \in pending
    /\ pending' = pending \ {r}
    /\ expiring' = expiring \cup {r}
    /\ typing' = typing \ {ChatOf[r]}
    /\ UNCHANGED <<asked, incoming, outgoing, core, dedup, listen, user, troubles>>

SendFallback(r) ==
    /\ r \in expiring
    /\ expiring' = expiring \ {r}
    /\ settled' = settled \cup {r}
    /\ \/ UNCHANGED <<typing, troubles>>
       \/ Trouble /\ typing' = typing \ {ChatOf[r]}
    /\ UNCHANGED <<asked, incoming, outgoing, core, pending, dedup, listen, answers, unsure>>

----------------------------------------------------------------------------
(* The bridge restarts: what it holds in memory is gone, its batch too.    *)

BridgeRestart ==
    /\ Trouble
    /\ outgoing' = Ensured(outgoing)
    /\ pending' = {}
    /\ expiring' = {}
    /\ typing' = {}
    /\ remembered' = {}
    /\ batch' = <<>>
    /\ phase' = "idle"
    /\ tries' = 0
    /\ album' = [r \in Requests |-> {}]
    /\ settled' = settled \cup asked
    /\ UNCHANGED <<asked, incoming, core, marked, forgotten, answers, unsure>>

\* A factory reset empties Redis under both processes.
Wipe ==
    /\ Trouble
    /\ incoming' = WipedStream
    /\ outgoing' = WipedStream
    /\ marked' = {}
    /\ forgotten' = forgotten \cup {c[1] : c \in marked}
    /\ UNCHANGED <<asked, core, guards, remembered, listen, user>>

----------------------------------------------------------------------------

CoreStep == Take \/ CoreRegroup \/ Say \/ Finish

ListenerStep ==
    Listen \/ BridgeRegroup \/ Look \/ Mark \/ SendText \/ SendPhotos \/ Acknowledge

GuardStep(r) == Expire(r) \/ SendFallback(r)

Next ==
    \/ \E r \in Requests : Ask(r) \/ GuardStep(r)
    \/ CoreStep
    \/ Interrupt
    \/ ListenerStep
    \/ CoreRestart
    \/ BridgeRestart
    \/ Wipe

Spec == Init /\ [][Next]_vars

\* The guard's sleep ends, a send answers or raises, and the listener's loop
\* goes on.  Nothing is assumed of the core: its handler may take for ever.
FairSpec ==
    /\ Spec
    /\ WF_vars(ListenerStep)
    /\ \A r \in Requests : WF_vars(GuardStep(r))

----------------------------------------------------------------------------
(* Properties.                                                             *)

\* A user is shown one answer to a request at most, and one more for each send
\* that raised although it had arrived: the handler may publish a fallback
\* after the answer, and the bridge may restart in between, but one of the
\* two delivery marks holds it back unless Redis lost or refused the mark.
AnsweredOnce ==
    \A r \in Requests \ forgotten : answers[r] <= 1 + unsure[r]

\* The indicator shows in a chat only while one of its requests still has a
\* guard that will stop it, whatever order messages and timeouts come in.
TypingIsGuarded ==
    \A c \in typing : \E r \in pending : ChatOf[r] = c

\* Once an answer to a request is being sent, or was shown, no guard can go
\* off for it any more.
GuardStandsDown ==
    /\ phase = "sending" /\ Head(batch).part = 0 => Head(batch).req \notin pending
    /\ \A r \in pending : answers[r] = 0

\* A photo of an album that came under the request's own id is kept for the
\* album: the other one has the same id, and is dropped as a duplicate.
Stranded(r) == album[r] # {} /\ <<r, 0>> \in remembered

\* Every request ends in something the user sees, an answer, a photo or the
\* fallback of its guard, unless the bridge restarted or the last send failed;
\* or unless it is answered with an album under its own id, of which the user
\* sees nothing although nothing has failed.
EveryRequestServed ==
    \A r \in Requests :
        r \in asked ~> answers[r] > 0 \/ r \in settled \/ Stranded(r)

\* When nothing is on its way, no album waits for photos: they were buffered
\* until all arrived, then sent.  Not so in the code: see Stranded.
AlbumsComplete ==
    corePhase = "idle" /\ outgoing.backlog = <<>> /\ batch = <<>>
        => \A r \in Requests : album[r] = {}
=============================================================================
