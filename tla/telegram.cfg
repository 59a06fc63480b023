\* Two messages in one chat; failing calls, restarts and a reset of Redis.
SPECIFICATION FairSpec
CONSTANTS
  Requests = {r1, r2}
  First = r1
  NoRequest = none
  Chats = {chat}
  ChatOf <- OneChat
  Paths <- AnyAndText
  BatchSize = 2
  SendAttempts = 2
  MaxTroubles = 1
INVARIANTS
  AnsweredOnce
  TypingIsGuarded
  GuardStandsDown
PROPERTIES
  EveryRequestServed
CHECK_DEADLOCK FALSE
