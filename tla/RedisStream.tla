---------------------------- MODULE RedisStream ----------------------------
(***************************************************************************)
(* A Redis stream with the one consumer group that reads it, as the event  *)
(* bus, the Telegram bridge and the broker use theirs.                     *)
(*                                                                         *)
(* Every consumer asks XREADGROUP for ">" only, and what is left in the    *)
(* pending entries list is at most acknowledged, never processed again: a  *)
(* message that was delivered has left the stream for good.  So a stream   *)
(* is its backlog, the messages published and not delivered yet, and       *)
(* whether its group exists.  A group is missing only after the database   *)
(* was emptied, when every message of the stream is still in the backlog.  *)
(***************************************************************************)
EXTENDS Naturals, Sequences

Streams(M) == [backlog : Seq(M), group : BOOLEAN]

NewStream == [backlog |-> <<>>, group |-> TRUE]

\* FLUSHDB, a factory reset: the stream and its group are gone.
WipedStream == [backlog |-> <<>>, group |-> FALSE]

Published(s, m) == [s EXCEPT !.backlog = Append(@, m)]

Readable(s) == s.group /\ s.backlog # <<>>

\* XREADGROUP with COUNT n returns what there is, at most n messages.
Batch(s, n) == SubSeq(s.backlog, 1, IF Len(s.backlog) < n THEN Len(s.backlog) ELSE n)

AfterBatch(s, n) ==
    [s EXCEPT !.backlog = SubSeq(@, Len(Batch(s, n)) + 1, Len(@))]

\* XGROUP CREATE at id 0 when a process starts; an existing group is kept.
Ensured(s) == [s EXCEPT !.group = TRUE]

\* XGROUP CREATE at id $ after a NOGROUP error: the backlog is skipped.
Regrouped(s) == [backlog |-> <<>>, group |-> TRUE]
=============================================================================
