----------------------- MODULE TelegramChannelProofs -----------------------
(***************************************************************************)
(* Theorems about TelegramChannel, for any requests, chats, batches and    *)
(* any number of faults.  What the listener does to the first message of   *)
(* its batch is tied to the two delivery marks; a guard is tied to the     *)
(* request it was started for, which is asked once.                        *)
(***************************************************************************)
EXTENDS TelegramChannel, SequenceTheorems, TLAPS

USE RequestAssumption, NumberAssumption

\* Messages are about requests that users have asked.
About(R) == {m \in Message : m.req \in R}

Asked ==
    /\ incoming \in Streams(asked)
    /\ coreReq \in asked \cup {NoRequest}
    /\ todo \in Seq(About(asked))
    /\ outgoing \in Streams(About(asked))
    /\ batch \in Seq(About(asked))
    /\ \A r \in Requests \ asked : answers[r] = 0

\* The state of the listener, and what of it is marked in Redis.
Marks ==
    /\ \A r \in Requests \ forgotten : <<r, 0>> \notin marked => answers[r] = 0
    /\ phase = "marking" =>
        Cid(Head(batch)) \notin marked \/ Head(batch).req \in forgotten
    /\ phase = "sending" =>
        Cid(Head(batch)) \in marked \/ Head(batch).req \in forgotten
    /\ phase = "sending" /\ Head(batch).photo = 0 =>
        LET r == Head(batch).req IN r \in forgotten \/ answers[r] <= unsure[r]
    /\ AnsweredOnce

\* What is left of TypeOK when Asked holds.
Types ==
    /\ asked \subseteq Requests
    /\ corePhase \in {"idle", "replying", "apologising"}
    /\ corePhase # "idle" => coreReq \in Requests
    /\ pending \subseteq Requests
    /\ expiring \subseteq Requests
    /\ typing \subseteq Chats
    /\ remembered \subseteq Cids
    /\ marked \subseteq Cids
    /\ phase \in {"idle", "marking", "sending", "done"}
    /\ phase # "idle" => batch # <<>>
    /\ tries \in 0 .. SendAttempts - 1
    /\ album \in [Requests -> SUBSET (1 .. 2)]
    /\ answers \in [Requests -> Nat]
    /\ unsure \in [Requests -> Nat]
    /\ settled \cup forgotten \subseteq Requests
    /\ troubles \in 0 .. MaxTroubles

Inv == Types /\ Asked /\ Marks /\ TypingIsGuarded /\ GuardStandsDown

----------------------------------------------------------------------------
\* Streams and sequences of messages.

LEMMA MessageParts ==
    ASSUME NEW m \in Message
    PROVE  /\ m.req \in Requests /\ m.part \in 0 .. 2 /\ m.photo \in 0 .. 2
           /\ m.photo = 0 => m.part = 0 /\ ~m.grouped
           /\ Cid(m) \in Cids
           /\ Cid(m)[1] = m.req
           /\ m.photo = 0 => Cid(m) = <<m.req, 0>>
<1>1. /\ m.req \in Requests /\ m.part \in 0 .. 2 /\ m.photo \in 0 .. 2
      /\ m.photo = 0 => m.part = 0 /\ ~m.grouped
    BY DEF Message
<1> QED
    BY <1>1 DEF Cid, Cids

LEMMA StreamTypes ==
    ASSUME NEW M, NEW s \in Streams(M), NEW m \in M, NEW n \in Nat \ {0}
    PROVE  /\ Published(s, m) \in Streams(M)
           /\ Batch(s, n) \in Seq(M)
           /\ AfterBatch(s, n) \in Streams(M)
           /\ s.backlog \in Seq(M)
           /\ s.backlog # <<>> => Head(s.backlog) \in M /\ Batch(s, n) # <<>>
<1>1. s.backlog \in Seq(M) /\ Len(s.backlog) \in Nat /\ s.group \in BOOLEAN
    BY DEF Streams
<1>2. Published(s, m) \in Streams(M)
    <2>1. Append(s.backlog, m) \in Seq(M)
        BY <1>1
    <2> QED
        BY <1>1, <2>1 DEF Published, Streams
<1> DEFINE k == IF Len(s.backlog) < n THEN Len(s.backlog) ELSE n
<1>3. k \in 0 .. Len(s.backlog) /\ (Len(s.backlog) # 0 => k # 0)
    BY <1>1
<1>4. Batch(s, n) = SubSeq(s.backlog, 1, k)
    BY DEF Batch
<1> HIDE DEF k
<1>5. Batch(s, n) \in Seq(M) /\ Len(Batch(s, n)) = k
    BY <1>1, <1>3, <1>4
<1>6. AfterBatch(s, n) \in Streams(M)
    <2>1. SubSeq(s.backlog, k + 1, Len(s.backlog)) \in Seq(M)
        BY <1>1, <1>3
    <2> QED
        BY <1>1, <1>5, <2>1 DEF AfterBatch, Streams
<1>7. s.backlog # <<>> => Head(s.backlog) \in M /\ Batch(s, n) # <<>>
    <2>1. s.backlog # <<>> => Len(s.backlog) # 0 /\ Head(s.backlog) \in M
        BY <1>1
    <2> QED
        BY <1>3, <1>5, <2>1
<1> QED
    BY <1>1, <1>2, <1>5, <1>6, <1>7

LEMMA OtherStreams ==
    ASSUME NEW M, NEW s \in Streams(M)
    PROVE  /\ Ensured(s) \in Streams(M) /\ Regrouped(s) \in Streams(M)
           /\ NewStream \in Streams(M) /\ WipedStream \in Streams(M)
<1>1. <<>> \in Seq(M)
    OBVIOUS
<1> QED
    BY <1>1 DEF Ensured, Regrouped, NewStream, WipedStream, Streams

LEMMA WiderStream ==
    ASSUME NEW M, NEW N, M \subseteq N, NEW s \in Streams(M) PROVE s \in Streams(N)
<1>1. s.backlog \in Seq(M) /\ s.group \in BOOLEAN /\ s = [backlog |-> s.backlog, group |-> s.group]
    BY DEF Streams
<1>2. s.backlog \in Seq(N)
    BY <1>1, SeqMonotonic
<1> QED
    BY <1>1, <1>2 DEF Streams

\* A reply is about its request.
LEMMA ReplyType ==
    ASSUME NEW R \in SUBSET Requests, NEW r \in R, NEW path \in AllPaths
    PROVE  Reply(path, r) \in Seq(About(R))
<1>1. Text(r) \in About(R)
    <2>1. r \in Requests /\ 0 \in 0 .. 2 /\ FALSE \in BOOLEAN
        OBVIOUS
    <2> QED
        BY <2>1 DEF Text, About, Message
<1>2. ASSUME NEW part \in 0 .. 2, NEW i \in 0 .. 2, NEW grouped \in BOOLEAN, i # 0
      PROVE  Photo(r, part, i, grouped) \in About(R)
    BY <1>2 DEF Photo, About, Message
<1>3. 0 \in 0 .. 2 /\ 1 \in 0 .. 2 /\ 2 \in 0 .. 2 /\ 1 # 0 /\ 2 # 0
    OBVIOUS
<1>4. Photo(r, 1, 1, TRUE) \in About(R) /\ Photo(r, 2, 2, TRUE) \in About(R)
    BY <1>2, <1>3
<1>5. Photo(r, 0, 1, FALSE) \in About(R)
    BY <1>2, <1>3
<1>6. Photo(r, 0, 1, TRUE) \in About(R) /\ Photo(r, 0, 2, TRUE) \in About(R)
    BY <1>2, <1>3
<1> HIDE DEF About
<1>7. ASSUME NEW S, NEW x \in S, NEW y \in S, NEW z \in S
      PROVE  <<x>> \in Seq(S) /\ <<x, y>> \in Seq(S) /\ <<x, y, z>> \in Seq(S)
    OBVIOUS
<1>8. path = "text" => Reply(path, r) \in Seq(About(R))
    BY <1>1, <1>7 DEF Reply
<1>9. path = "photos" => Reply(path, r) \in Seq(About(R))
    BY <1>1, <1>4, <1>7 DEF Reply
<1>10. path = "screenshot" => Reply(path, r) \in Seq(About(R))
    BY <1>5, <1>7 DEF Reply
<1>11. path = "screenshots" => Reply(path, r) \in Seq(About(R))
    BY <1>6, <1>7 DEF Reply
<1> QED
    BY <1>8, <1>9, <1>10, <1>11 DEF AllPaths

LEMMA TroubleBounded ==
    ASSUME troubles \in 0 .. MaxTroubles, UNCHANGED troubles \/ Trouble PROVE troubles' \in 0 .. MaxTroubles
BY DEF Trouble

\* The first message of the batch is one of a request that was asked.
LEMMA HeadAsked ==
    ASSUME Inv, batch # <<>>
    PROVE  /\ Head(batch) \in Message
           /\ Head(batch).req \in asked
           /\ Head(batch).req \in Requests
           /\ Tail(batch) \in Seq(About(asked))
<1>1. Head(batch) \in About(asked) /\ Tail(batch) \in Seq(About(asked))
    BY DEF Inv, Asked
<1> QED
    BY <1>1 DEF About, Inv, Types

LEMMA TypesSuffice == Inv => TypeOK
<1> SUFFICES ASSUME Inv PROVE TypeOK
    OBVIOUS
<1>1. asked \subseteq Requests /\ About(asked) \subseteq Message
    BY DEF Inv, Types, About
<1>2. incoming \in Streams(Requests) /\ outgoing \in Streams(Message)
    BY <1>1, WiderStream DEF Inv, Asked
<1>3. todo \in Seq(Message) /\ batch \in Seq(Message)
    BY <1>1, SeqMonotonic DEF Inv, Asked
<1>4. coreReq \in Requests \cup {NoRequest}
    BY <1>1 DEF Inv, Asked
<1> QED
    BY <1>2, <1>3, <1>4 DEF Inv, Types, TypeOK

----------------------------------------------------------------------------

LEMMA InitInv == Init => Inv
<1> SUFFICES ASSUME Init PROVE Inv
    OBVIOUS
<1>1. Types
    <2>1. 0 \in 0 .. SendAttempts - 1 /\ 0 \in 0 .. MaxTroubles /\ 0 \in Nat
        OBVIOUS
    <2> QED
        BY <2>1 DEF Init, Types
<1>2. Asked
    <2>1. <<>> \in Seq(About(asked))
        OBVIOUS
    <2>2. NewStream \in Streams(asked) /\ NewStream \in Streams(About(asked))
        <3>1. \A M : NewStream \in Streams(M)
            <4> TAKE M
            <4>1. <<>> \in Seq(M)
                OBVIOUS
            <4> QED
                BY <4>1 DEF NewStream, Streams
        <3> QED
            BY <3>1
    <2> QED
        BY <2>1, <2>2 DEF Init, Asked
<1>3. Marks
    BY DEF Init, Marks, AnsweredOnce
<1> QED
    BY <1>1, <1>2, <1>3 DEF Init, Inv, TypingIsGuarded, GuardStandsDown

\* Steps that leave the listener's message, the marks, the guards and the
\* answers alone keep Marks and the two properties of guards.
Untouched == UNCHANGED <<phase, marked, forgotten, answers, unsure, pending, typing>>

LEMMA Frame ==
    ASSUME Marks, TypingIsGuarded, GuardStandsDown, Untouched,
           Head(batch') = Head(batch) \/ phase = "idle"
    PROVE  Marks' /\ TypingIsGuarded' /\ GuardStandsDown'
<1>1. Marks'
    BY DEF Marks, AnsweredOnce, Untouched, Cid
<1>2. TypingIsGuarded'
    BY DEF TypingIsGuarded, Untouched
<1>3. GuardStandsDown'
    BY DEF GuardStandsDown, Untouched
<1> QED
    BY <1>1, <1>2, <1>3

LEMMA AskInv == ASSUME Inv, NEW r \in Requests, Ask(r) PROVE Inv'
<1> DEFINE f == /\ UNCHANGED <<batch, phase, marked, forgotten, answers, unsure>>
<1>0. f /\ r \notin asked /\ asked' = asked \cup {r} /\ asked \subseteq asked' /\ r \in asked'
    BY DEF Ask, core, guards, dedup, listen, user
<1> HIDE DEF f
<1>1. Types'
    <2>1. troubles' \in 0 .. MaxTroubles
        BY TroubleBounded DEF Inv, Types, Ask
    <2> QED
        BY <2>1 DEF Inv, Types, Ask, core, guards, dedup, listen, user
<1>2. Asked'
    <2>1. About(asked) \subseteq About(asked')
        BY <1>0 DEF About
    <2>2. incoming' \in Streams(asked')
        <3>1. incoming \in Streams(asked')
            BY <1>0, WiderStream DEF Inv, Asked
        <3>2. Published(incoming, r) \in Streams(asked')
            BY <1>0, <3>1, StreamTypes
        <3> QED
            BY <3>1, <3>2 DEF Ask
    <2>3. outgoing' \in Streams(About(asked'))
        <3>1. outgoing \in Streams(About(asked'))
            BY <2>1, WiderStream DEF Inv, Asked
        <3> QED
            BY <3>1 DEF Ask
    <2>4. todo' \in Seq(About(asked')) /\ batch' \in Seq(About(asked'))
        <3>1. todo \in Seq(About(asked')) /\ batch \in Seq(About(asked'))
            BY <2>1, SeqMonotonic DEF Inv, Asked
        <3> QED
            BY <3>1 DEF Ask, core, listen
    <2>5. coreReq' \in asked' \cup {NoRequest}
        BY <1>0 DEF Inv, Asked, Ask, core
    <2>6. \A q \in Requests \ asked' : answers'[q] = 0
        BY <1>0 DEF f, Inv, Asked
    <2> QED
        BY <2>2, <2>3, <2>4, <2>5, <2>6 DEF Asked
<1>3. Marks'
    BY <1>0 DEF f, Inv, Marks, AnsweredOnce, Cid
<1>4. TypingIsGuarded'
    BY DEF Inv, TypingIsGuarded, Ask
<1>5. GuardStandsDown'
    <2>1. pending' = pending \cup {r}
        BY DEF Ask
    <2>2. answers[r] = 0
        BY <1>0 DEF Inv, Asked
    <2>3. phase = "sending" => Head(batch).req \in asked
        BY HeadAsked DEF Inv, Types
    <2> QED
        BY <1>0, <2>1, <2>2, <2>3 DEF f, Inv, GuardStandsDown
<1> QED
    BY <1>1, <1>2, <1>3, <1>4, <1>5 DEF Inv

\* The steps of the core.
LEMMA TakeInv == ASSUME Inv, Take PROVE Inv'
<1>1. incoming.backlog # <<>> /\ incoming \in Streams(asked) /\ 1 \in Nat \ {0}
    BY DEF Inv, Asked, Take, Readable
<1>2. coreReq' \in asked /\ incoming' \in Streams(asked)
    <2>1. PICK q \in asked : q = Head(incoming.backlog)
        <3>1. incoming.backlog \in Seq(asked)
            BY <1>1 DEF Streams
        <3> QED
            BY <1>1, <3>1
    <2> QED
        BY <1>1, <2>1, StreamTypes DEF Take
<1>3. coreReq' \in Requests
    BY <1>2 DEF Inv, Types
<1>4. todo' \in Seq(About(asked))
    <2>1. PICK path \in Paths[coreReq'] : todo' = Reply(path, coreReq')
        BY DEF Take
    <2>2. path \in AllPaths /\ asked \in SUBSET Requests
        BY <1>3 DEF Inv, Types
    <2> QED
        BY <1>2, <2>1, <2>2, ReplyType
<1>5. Types'
    BY <1>3 DEF Inv, Types, Take, guards, dedup, listen, user
<1>6. Asked'
    BY <1>2, <1>4 DEF Inv, Asked, Take, listen, user
<1>7. Untouched /\ batch' = batch
    BY DEF Untouched, Take, guards, dedup, listen, user
<1> QED
    BY <1>5, <1>6, <1>7, Frame DEF Inv

LEMMA CoreRegroupInv == ASSUME Inv, CoreRegroup PROVE Inv'
<1>1. incoming' \in Streams(asked)
    BY OtherStreams DEF Inv, Asked, CoreRegroup
<1>2. Types'
    BY DEF Inv, Types, CoreRegroup, core, guards, dedup, listen, user
<1>3. Asked'
    BY <1>1 DEF Inv, Asked, CoreRegroup, core, listen, user
<1>4. Untouched /\ batch' = batch
    BY DEF Untouched, CoreRegroup, guards, dedup, listen, user
<1> QED
    BY <1>2, <1>3, <1>4, Frame DEF Inv

LEMMA SayInv == ASSUME Inv, Say PROVE Inv'
<1>1. todo' \in Seq(About(asked)) /\ Head(todo) \in About(asked)
    BY DEF Inv, Asked, Say
<1>2. outgoing' \in Streams(About(asked))
    <2>1. outgoing \in Streams(About(asked))
        BY DEF Inv, Asked
    <2>2. Published(outgoing, Head(todo)) \in Streams(About(asked))
        BY <1>1, <2>1, StreamTypes
    <2> QED
        BY <2>1, <2>2 DEF Say
<1>3. Types'
    <2>1. troubles' \in 0 .. MaxTroubles
        BY TroubleBounded DEF Inv, Types, Say
    <2> QED
        BY <2>1 DEF Inv, Types, Say, guards, dedup, listen, user
<1>4. Asked'
    BY <1>1, <1>2 DEF Inv, Asked, Say, listen, user
<1>5. Untouched /\ batch' = batch
    BY DEF Untouched, Say, guards, dedup, listen, user
<1> QED
    BY <1>3, <1>4, <1>5, Frame DEF Inv

LEMMA InterruptInv == ASSUME Inv, Interrupt PROVE Inv'
<1>1. coreReq \in asked /\ coreReq \in Requests
    BY DEF Inv, Types, Asked, Interrupt
<1>2. todo' \in Seq(About(asked))
    <2>1. "text" \in AllPaths /\ asked \in SUBSET Requests
        BY DEF AllPaths, Inv, Types
    <2>2. Reply("text", coreReq) \in Seq(About(asked))
        BY <1>1, <2>1, ReplyType
    <2> QED
        BY <2>2 DEF Interrupt, Reply
<1>3. Types'
    BY DEF Inv, Types, Interrupt, guards, dedup, listen, user
<1>4. Asked'
    BY <1>2 DEF Inv, Asked, Interrupt, listen, user
<1>5. Untouched /\ batch' = batch
    BY DEF Untouched, Interrupt, guards, dedup, listen, user
<1> QED
    BY <1>3, <1>4, <1>5, Frame DEF Inv

LEMMA FinishInv == ASSUME Inv, Finish PROVE Inv'
<1>1. Types'
    BY DEF Inv, Types, Finish, guards, dedup, listen, user
<1>2. Asked'
    BY DEF Inv, Asked, Finish, listen, user
<1>3. Untouched /\ batch' = batch
    BY DEF Untouched, Finish, guards, dedup, listen, user
<1> QED
    BY <1>1, <1>2, <1>3, Frame DEF Inv

LEMMA CoreRestartInv == ASSUME Inv, CoreRestart PROVE Inv'
<1>1. incoming' \in Streams(asked) /\ todo' \in Seq(About(asked))
    <2>1. <<>> \in Seq(About(asked))
        OBVIOUS
    <2> QED
        BY <2>1, OtherStreams DEF Inv, Asked, CoreRestart
<1>2. Types'
    <2>1. troubles' \in 0 .. MaxTroubles
        BY TroubleBounded DEF Inv, Types, CoreRestart
    <2> QED
        BY <2>1 DEF Inv, Types, CoreRestart, guards, dedup, listen, user
<1>3. Asked'
    BY <1>1 DEF Inv, Asked, CoreRestart, listen, user
<1>4. Untouched /\ batch' = batch
    BY DEF Untouched, CoreRestart, guards, dedup, listen, user
<1> QED
    BY <1>2, <1>3, <1>4, Frame DEF Inv

----------------------------------------------------------------------------
\* The steps of the listener.

LEMMA ListenInv == ASSUME Inv, Listen PROVE Inv'
<1>1. outgoing \in Streams(About(asked)) /\ BatchSize \in Nat \ {0} /\ outgoing.backlog # <<>>
    BY DEF Inv, Asked, Listen, Readable
<1>2. batch' \in Seq(About(asked)) /\ outgoing' \in Streams(About(asked))
    <2>1. PICK m \in About(asked) : m = Head(outgoing.backlog)
        <3>1. outgoing.backlog \in Seq(About(asked))
            BY <1>1 DEF Streams
        <3> QED
            BY <1>1, <3>1
    <2> QED
        BY <1>1, <2>1, StreamTypes DEF Listen
<1>3. phase = "idle"
    BY DEF Inv, Types, Listen
<1>4. Types'
    BY <1>3 DEF Inv, Types, Listen, core, guards, dedup, user
<1>5. Asked'
    BY <1>2 DEF Inv, Asked, Listen, core, user
<1>6. Untouched
    BY DEF Untouched, Listen, guards, dedup, user
<1> QED
    BY <1>3, <1>4, <1>5, <1>6, Frame DEF Inv

LEMMA BridgeRegroupInv == ASSUME Inv, BridgeRegroup PROVE Inv'
<1>1. outgoing' \in Streams(About(asked))
    BY OtherStreams DEF Inv, Asked, BridgeRegroup
<1>2. Types'
    BY DEF Inv, Types, BridgeRegroup, core, guards, dedup, listen, user
<1>3. Asked'
    BY <1>1 DEF Inv, Asked, BridgeRegroup, core, listen, user
<1>4. Untouched /\ batch' = batch
    BY DEF Untouched, BridgeRegroup, guards, dedup, listen, user
<1> QED
    BY <1>2, <1>3, <1>4, Frame DEF Inv

LEMMA LookInv == ASSUME Inv, Look PROVE Inv'
<1> DEFINE m == Head(batch)
<1>1. batch # <<>> /\ phase = "idle" /\ batch' = batch
    BY DEF Look
<1>2. m \in Message /\ Cid(m) \in Cids /\ m.req \in Requests
    BY <1>1, HeadAsked, MessageParts
<1>3. UNCHANGED <<marked, answers, unsure, pending, typing, asked, incoming, outgoing, coreReq, corePhase, todo>>
    BY DEF Look, core, guards, user
<1>4. forgotten \subseteq forgotten' /\ forgotten' \subseteq Requests
    BY <1>2 DEF Look, Inv, Types
<1>5. phase' # "sending" /\ (phase' = "marking" => Cid(m) \notin marked \/ m.req \in forgotten')
    BY DEF Look, Delivered
<1>6. Types'
    BY <1>1, <1>2, <1>4 DEF Inv, Types, Look, core, guards, user
<1>7. Asked'
    BY <1>1, <1>3 DEF Inv, Asked
<1>8. Marks'
    BY <1>1, <1>3, <1>4, <1>5 DEF Inv, Marks, AnsweredOnce, Cid
<1>9. TypingIsGuarded' /\ GuardStandsDown'
    BY <1>3, <1>5 DEF Inv, TypingIsGuarded, GuardStandsDown
<1> QED
    BY <1>6, <1>7, <1>8, <1>9 DEF Inv

LEMMA MarkInv == ASSUME Inv, Mark PROVE Inv'
<1> DEFINE m == Head(batch)
<1>1. batch # <<>> /\ phase = "marking" /\ batch' = batch
    BY DEF Mark, Inv, Types
<1>2. m \in Message /\ Cid(m) \in Cids /\ m.req \in Requests /\ m.photo \in 0 .. 2
      /\ (m.photo = 0 => m.part = 0 /\ ~m.grouped /\ Cid(m) = <<m.req, 0>>)
    BY <1>1, HeadAsked, MessageParts
<1>3. UNCHANGED <<answers, unsure, asked, incoming, outgoing, coreReq, corePhase, todo, expiring, remembered,
                  settled, tries>>
    BY DEF Mark, core, user
<1>4. \/ marked' = marked \cup {Cid(m)} /\ forgotten' = forgotten
      \/ marked' = marked /\ forgotten' = forgotten \cup {m.req}
    BY DEF Mark
<1>5. pending' = Completed(m) /\ typing' = typing \ {ChatOf[m.req]}
    BY DEF Mark
<1>6. phase' \in {"sending", "done"}
    BY DEF Mark
<1>7. Types'
    <2>1. troubles' \in 0 .. MaxTroubles
        BY TroubleBounded DEF Inv, Types, Mark
    <2>2. album' \in [Requests -> SUBSET (1 .. 2)]
        <3>1. CASE album' = album
            BY <3>1 DEF Inv, Types
        <3>2. CASE album' = [album EXCEPT ![m.req] = {}]
            BY <3>2 DEF Inv, Types
        <3>3. CASE m.grouped /\ album' = [album EXCEPT ![m.req] = Buffered(m)]
            <4>1. CASE m.photo = 0
                BY <3>3, <4>1, <1>2
            <4>2. CASE m.photo # 0
                <5>1. Buffered(m) \in SUBSET (1 .. 2)
                    BY <4>2, <1>2 DEF Buffered, Inv, Types
                <5> QED
                    BY <3>3, <5>1 DEF Inv, Types
            <4> QED
                BY <4>1, <4>2
        <3> QED
            BY <3>1, <3>2, <3>3 DEF Mark
    <2>3. pending' \subseteq Requests /\ typing' \subseteq Chats
        BY <1>5 DEF Completed, Inv, Types
    <2>4. marked' \subseteq Cids /\ settled' \cup forgotten' \subseteq Requests
        BY <1>2, <1>3, <1>4 DEF Inv, Types
    <2> QED
        BY <1>1, <1>3, <1>6, <2>1, <2>2, <2>3, <2>4 DEF Inv, Types
<1>8. Asked'
    BY <1>1, <1>3 DEF Inv, Asked
<1>9. Marks'
    <2>1. \A r \in Requests \ forgotten' : <<r, 0>> \notin marked' => answers'[r] = 0
        BY <1>3, <1>4 DEF Inv, Marks
    <2>2. Cid(m) \in marked' \/ m.req \in forgotten'
        BY <1>4
    <2>3. m.photo = 0 => m.req \in forgotten' \/ answers'[m.req] <= unsure'[m.req]
        <3> SUFFICES ASSUME m.photo = 0, m.req \notin forgotten'
                     PROVE  answers'[m.req] <= unsure'[m.req]
            OBVIOUS
        <3>1. m.req \in Requests \ forgotten /\ <<m.req, 0>> \notin marked
            BY <1>1, <1>2, <1>4 DEF Inv, Marks
        <3>2. answers[m.req] = 0 /\ unsure[m.req] \in Nat
            BY <3>1 DEF Inv, Types, Marks
        <3> QED
            BY <1>3, <3>2
    <2>4. AnsweredOnce'
        BY <1>3, <1>4 DEF Inv, Marks, AnsweredOnce
    <2> QED
        BY <1>1, <1>6, <2>1, <2>2, <2>3, <2>4 DEF Marks, Cid
<1>10. TypingIsGuarded'
    BY <1>5 DEF Inv, TypingIsGuarded, Completed
<1>11. GuardStandsDown'
    BY <1>1, <1>3, <1>5 DEF Inv, GuardStandsDown, Completed
<1> QED
    BY <1>7, <1>8, <1>9, <1>10, <1>11 DEF Inv

LEMMA SendTextInv == ASSUME Inv, SendText PROVE Inv'
<1> DEFINE r == Head(batch).req
<1>1. batch # <<>> /\ phase = "sending" /\ batch' = batch /\ Head(batch).photo = 0
    BY DEF SendText, Inv, Types, listen
<1>2. Head(batch) \in Message /\ r \in Requests /\ r \in asked /\ Head(batch).part = 0 /\ Cid(Head(batch)) = <<r, 0>>
    BY <1>1, HeadAsked, MessageParts
<1>3. UNCHANGED <<asked, incoming, outgoing, coreReq, corePhase, todo, expiring, pending, typing,
                  remembered, marked, forgotten, album>>
    BY DEF SendText, core, guards, dedup
<1>4. answers \in [Requests -> Nat] /\ unsure \in [Requests -> Nat]
    BY DEF Inv, Types
<1>5. <<r, 0>> \in marked \/ r \in forgotten
    BY <1>1, <1>2 DEF Inv, Marks
<1>6. r \in forgotten \/ answers[r] <= unsure[r]
    BY <1>1 DEF Inv, Marks
<1>7. r \notin pending
    BY <1>1, <1>2 DEF Inv, GuardStandsDown
<1>8. /\ answers' \in [Requests -> Nat] /\ unsure' \in [Requests -> Nat]
      /\ \A q \in Requests \ {r} : answers'[q] = answers[q] /\ unsure'[q] = unsure[q]
      /\ \/ phase' = "done" /\ answers'[r] = answers[r] + 1 /\ unsure'[r] = unsure[r]
         \/ answers'[r] = answers[r] /\ unsure'[r] = unsure[r]
         \/ answers'[r] = answers[r] + 1 /\ unsure'[r] = unsure[r] + 1
    <2>1. answers[r] \in Nat /\ answers[r] + 1 \in Nat /\ unsure[r] \in Nat /\ unsure[r] + 1 \in Nat
        BY <1>2, <1>4
    <2>2. CASE /\ phase' = "done" /\ answers' = [answers EXCEPT ![r] = @ + 1] /\ unsure' = unsure
        BY <1>2, <1>4, <2>1, <2>2
    <2>3. CASE answers' = answers /\ unsure' = unsure
        BY <1>4, <2>3
    <2>4. CASE answers' = [answers EXCEPT ![r] = @ + 1] /\ unsure' = [unsure EXCEPT ![r] = @ + 1]
        BY <1>2, <1>4, <2>1, <2>4
    <2> QED
        BY <2>2, <2>3, <2>4 DEF SendText
<1>9. phase' \in {"sending", "done"}
    BY <1>1 DEF SendText
<1>10. Types'
    <2>1. troubles' \in 0 .. MaxTroubles
        BY TroubleBounded DEF Inv, Types, SendText
    <2>2. tries' \in 0 .. SendAttempts - 1
        BY DEF SendText, Inv, Types
    <2>3. settled' \subseteq Requests
        BY <1>2 DEF SendText, Inv, Types
    <2> QED
        BY <1>1, <1>3, <1>8, <1>9, <2>1, <2>2, <2>3 DEF Inv, Types
<1>11. Asked'
    BY <1>1, <1>2, <1>3, <1>8 DEF Inv, Types, Asked
<1>12. Marks'
    <2>1. \A q \in Requests \ forgotten' : <<q, 0>> \notin marked' => answers'[q] = 0
        BY <1>3, <1>5, <1>8 DEF Inv, Marks
    <2>2. phase' = "sending" => (r \in forgotten' \/ answers'[r] <= unsure'[r])
        <3>1. answers[r] \in Nat /\ unsure[r] \in Nat
            BY <1>2, <1>4
        <3> QED
            BY <1>3, <1>6, <1>8, <3>1
    <2>3. AnsweredOnce'
        <3> SUFFICES ASSUME NEW q \in Requests \ forgotten PROVE answers'[q] <= 1 + unsure'[q]
            BY <1>3 DEF AnsweredOnce
        <3>1. answers[q] <= 1 + unsure[q] /\ answers[q] \in Nat /\ unsure[q] \in Nat
            BY <1>4 DEF Inv, Marks, AnsweredOnce
        <3>2. CASE q = r
            BY <1>6, <1>8, <3>1, <3>2
        <3>3. CASE q # r
            BY <1>8, <3>1, <3>3
        <3> QED
            BY <3>2, <3>3
    <2>4. Cid(Head(batch))' = Cid(Head(batch))
        BY <1>1 DEF Cid
    <2> QED
        BY <1>1, <1>2, <1>3, <1>5, <1>9, <2>1, <2>2, <2>3, <2>4 DEF Marks
<1>13. TypingIsGuarded'
    BY <1>3 DEF Inv, TypingIsGuarded
<1>14. GuardStandsDown'
    <2>1. pending \subseteq Requests
        BY DEF Inv, Types
    <2> QED
        BY <1>1, <1>3, <1>7, <1>8, <2>1 DEF Inv, GuardStandsDown
<1> QED
    BY <1>10, <1>11, <1>12, <1>13, <1>14 DEF Inv

LEMMA SendPhotosInv == ASSUME Inv, SendPhotos PROVE Inv'
<1>1. batch # <<>> /\ batch' = batch /\ phase' = "done"
    BY DEF SendPhotos, Inv, Types
<1>2. Head(batch).req \in Requests
    BY <1>1, HeadAsked
<1>3. Types'
    <2>1. troubles' \in 0 .. MaxTroubles
        BY TroubleBounded DEF Inv, Types, SendPhotos
    <2>2. settled' \subseteq Requests
        BY <1>2 DEF SendPhotos, Inv, Types
    <2> QED
        BY <1>1, <2>1, <2>2 DEF Inv, Types, SendPhotos, core, guards, dedup
<1>4. Asked'
    BY DEF Inv, Asked, SendPhotos, core
<1>5. UNCHANGED <<marked, forgotten, answers, unsure, pending, typing>>
    BY DEF SendPhotos, guards, dedup
<1>6. Marks'
    BY <1>1, <1>5 DEF Inv, Marks, AnsweredOnce
<1>7. TypingIsGuarded' /\ GuardStandsDown'
    BY <1>1, <1>5 DEF Inv, TypingIsGuarded, GuardStandsDown
<1> QED
    BY <1>3, <1>4, <1>6, <1>7 DEF Inv

LEMMA AcknowledgeInv == ASSUME Inv, Acknowledge PROVE Inv'
<1>1. batch # <<>> /\ phase' = "idle"
    BY DEF Acknowledge, Inv, Types
<1>2. batch' \in Seq(About(asked))
    <2>1. <<>> \in Seq(About(asked))
        OBVIOUS
    <2> QED
        BY <1>1, <2>1, HeadAsked DEF Acknowledge
<1>3. Types'
    <2>1. troubles' \in 0 .. MaxTroubles
        BY TroubleBounded DEF Inv, Types, Acknowledge
    <2> QED
        BY <1>1, <2>1 DEF Inv, Types, Acknowledge, core, guards, dedup, user
<1>4. Asked'
    BY <1>2 DEF Inv, Asked, Acknowledge, core, user
<1>5. UNCHANGED <<marked, forgotten, answers, unsure, pending, typing>>
    BY DEF Acknowledge, guards, dedup, user
<1>6. Marks'
    BY <1>1, <1>5 DEF Inv, Marks, AnsweredOnce
<1>7. TypingIsGuarded' /\ GuardStandsDown'
    BY <1>1, <1>5 DEF Inv, TypingIsGuarded, GuardStandsDown
<1> QED
    BY <1>3, <1>4, <1>6, <1>7 DEF Inv

----------------------------------------------------------------------------
\* The guards, the restart of the bridge and the reset of Redis.

LEMMA ExpireInv == ASSUME Inv, NEW r \in Requests, Expire(r) PROVE Inv'
<1>1. UNCHANGED <<batch, phase, marked, forgotten, answers, unsure>>
    BY DEF Expire, dedup, listen, user
<1>2. Types'
    BY DEF Inv, Types, Expire, core, dedup, listen, user
<1>3. Asked'
    BY DEF Inv, Asked, Expire, core, listen, user
<1>4. Marks'
    BY <1>1 DEF Inv, Marks, AnsweredOnce, Cid
<1>5. TypingIsGuarded'
    BY DEF Inv, TypingIsGuarded, Expire
<1>6. GuardStandsDown'
    BY <1>1 DEF Inv, GuardStandsDown, Expire
<1> QED
    BY <1>2, <1>3, <1>4, <1>5, <1>6 DEF Inv

LEMMA SendFallbackInv == ASSUME Inv, NEW r \in Requests, SendFallback(r) PROVE Inv'
<1>1. UNCHANGED <<batch, phase, marked, forgotten, answers, unsure, pending>>
    BY DEF SendFallback, dedup, listen
<1>2. Types'
    <2>1. troubles' \in 0 .. MaxTroubles
        BY TroubleBounded DEF Inv, Types, SendFallback
    <2> QED
        BY <2>1 DEF Inv, Types, SendFallback, core, dedup, listen
<1>3. Asked'
    BY DEF Inv, Asked, SendFallback, core, listen
<1>4. Marks'
    BY <1>1 DEF Inv, Marks, AnsweredOnce, Cid
<1>5. TypingIsGuarded'
    BY <1>1 DEF Inv, TypingIsGuarded, SendFallback
<1>6. GuardStandsDown'
    BY <1>1 DEF Inv, GuardStandsDown
<1> QED
    BY <1>2, <1>3, <1>4, <1>5, <1>6 DEF Inv

LEMMA BridgeRestartInv == ASSUME Inv, BridgeRestart PROVE Inv'
<1>1. /\ phase' = "idle" /\ pending' = {} /\ typing' = {}
      /\ UNCHANGED <<asked, incoming, coreReq, corePhase, todo, marked, forgotten, answers, unsure>>
    BY DEF BridgeRestart, core
<1>2. Types'
    <2>1. troubles' \in 0 .. MaxTroubles
        BY TroubleBounded DEF Inv, Types, BridgeRestart
    <2>2. 0 \in 0 .. SendAttempts - 1
        OBVIOUS
    <2> QED
        BY <1>1, <2>1, <2>2 DEF Inv, Types, BridgeRestart
<1>3. Asked'
    <2>1. <<>> \in Seq(About(asked))
        OBVIOUS
    <2>2. outgoing' \in Streams(About(asked))
        BY OtherStreams DEF Inv, Asked, BridgeRestart
    <2> QED
        BY <1>1, <2>1, <2>2 DEF Inv, Asked, BridgeRestart
<1>4. Marks'
    BY <1>1 DEF Inv, Marks, AnsweredOnce
<1>5. TypingIsGuarded' /\ GuardStandsDown'
    BY <1>1 DEF TypingIsGuarded, GuardStandsDown
<1> QED
    BY <1>2, <1>3, <1>4, <1>5 DEF Inv

LEMMA WipeInv == ASSUME Inv, Wipe PROVE Inv'
<1>1. UNCHANGED <<asked, batch, phase, answers, unsure, pending, typing, coreReq, corePhase, todo>>
    BY DEF Wipe, core, guards, listen, user
<1>2. marked' = {} /\ forgotten \subseteq forgotten' /\ \A c \in marked : c[1] \in forgotten'
    BY DEF Wipe
<1>3. Types'
    <2>1. troubles' \in 0 .. MaxTroubles
        BY TroubleBounded DEF Inv, Types, Wipe
    <2>2. forgotten' \subseteq Requests
        <3>1. \A c \in Cids : c[1] \in Requests
            BY DEF Cids
        <3> QED
            BY <3>1 DEF Inv, Types, Wipe
    <2> QED
        BY <1>1, <1>2, <2>1, <2>2 DEF Inv, Types, Wipe, core, guards, listen, user
<1>4. Asked'
    <2>1. \A M : WipedStream \in Streams(M)
        <3> TAKE M
        <3>1. <<>> \in Seq(M)
            OBVIOUS
        <3> QED
            BY <3>1 DEF WipedStream, Streams
    <2> QED
        BY <1>1, <2>1 DEF Inv, Asked, Wipe
<1>5. Marks'
    <2>1. \A r \in Requests \ forgotten' : answers'[r] = 0
        <3> SUFFICES ASSUME NEW r \in Requests \ forgotten' PROVE answers[r] = 0
            BY <1>1
        <3>1. <<r, 0>> \notin marked
            BY <1>2
        <3> QED
            BY <1>2, <3>1 DEF Inv, Marks
    <2>2. phase = "sending" => Head(batch).req \in forgotten'
        <3>1. phase = "sending" => batch # <<>>
            BY DEF Inv, Types
        <3>2. phase = "sending" => Cid(Head(batch))[1] = Head(batch).req
            BY <3>1, HeadAsked, MessageParts
        <3> QED
            BY <1>2, <3>2 DEF Inv, Marks
    <2>3. AnsweredOnce'
        BY <1>1, <1>2 DEF Inv, Marks, AnsweredOnce
    <2> QED
        BY <1>1, <1>2, <2>1, <2>2, <2>3 DEF Marks
<1>6. TypingIsGuarded' /\ GuardStandsDown'
    BY <1>1 DEF Inv, TypingIsGuarded, GuardStandsDown
<1> QED
    BY <1>3, <1>4, <1>5, <1>6 DEF Inv

LEMMA StutterInv == ASSUME Inv, UNCHANGED vars PROVE Inv'
<1>1. Types'
    BY DEF Inv, Types, vars, core, guards, dedup, listen, user
<1>2. Asked'
    BY DEF Inv, Asked, vars, core, guards, dedup, listen, user
<1>3. Untouched /\ batch' = batch
    BY DEF Untouched, vars, guards, dedup, listen, user
<1> QED
    BY <1>1, <1>2, <1>3, Frame DEF Inv

\* Every reachable state satisfies the invariant.
LEMMA Invariant == Spec => []Inv
<1>1. ASSUME Inv, [Next]_vars PROVE Inv'
    <2>1. CASE \E r \in Requests : Ask(r) \/ GuardStep(r)
        BY <1>1, <2>1, AskInv, ExpireInv, SendFallbackInv DEF GuardStep
    <2>2. CASE CoreStep
        BY <1>1, <2>2, TakeInv, CoreRegroupInv, SayInv, FinishInv DEF CoreStep
    <2>3. CASE Interrupt
        BY <1>1, <2>3, InterruptInv
    <2>4. CASE ListenerStep
        BY <1>1, <2>4, ListenInv, BridgeRegroupInv, LookInv, MarkInv, SendTextInv, SendPhotosInv,
           AcknowledgeInv DEF ListenerStep
    <2>5. CASE CoreRestart
        BY <1>1, <2>5, CoreRestartInv
    <2>6. CASE BridgeRestart
        BY <1>1, <2>6, BridgeRestartInv
    <2>7. CASE Wipe
        BY <1>1, <2>7, WipeInv
    <2>8. CASE UNCHANGED vars
        BY <1>1, <2>8, StutterInv
    <2> QED
        BY <1>1, <2>1, <2>2, <2>3, <2>4, <2>5, <2>6, <2>7, <2>8 DEF Next
<1> QED
    BY <1>1, InitInv, PTL DEF Spec

----------------------------------------------------------------------------

\* Both streams, the batch and the delivery marks of the bridge keep their
\* types, whatever fails.
THEOREM TypeCorrect == Spec => []TypeOK
BY Invariant, TypesSuffice, PTL

\* A user is shown one answer to a request, and one more for each send that
\* raised although it had arrived, as long as Redis kept the delivery mark.
THEOREM RequestAnsweredOnce == Spec => []AnsweredOnce
<1>1. Inv => AnsweredOnce
    BY DEF Inv, Marks
<1> QED
    BY <1>1, Invariant, PTL

\* No typing indicator outlives the guards that would stop it.
THEOREM IndicatorIsGuarded == Spec => []TypingIsGuarded
<1>1. Inv => TypingIsGuarded
    BY DEF Inv
<1> QED
    BY <1>1, Invariant, PTL

\* No guard can send its fallback once an answer is being sent or was shown.
THEOREM NoFallbackAfterAnswer == Spec => []GuardStandsDown
<1>1. Inv => GuardStandsDown
    BY DEF Inv
<1> QED
    BY <1>1, Invariant, PTL
=============================================================================
