----------------------------- MODULE MCTelegram -----------------------------
(* Instances of TelegramChannel for TLC. *)
EXTENDS TelegramChannel

CONSTANT First

OneChat == [r \in Requests |-> CHOOSE c \in Chats : TRUE]

\* The first request may be answered in any way, any other one with a text.
AnyAndText == [r \in Requests |-> IF r = First THEN AllPaths ELSE {"text"}]
=============================================================================
