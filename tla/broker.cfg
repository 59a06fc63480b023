\* Three calls at once: one restarts the core, one is not allowed.
SPECIFICATION FairSpec
CONSTANTS
  Calls = {s1, s2, s3}
  NoCall = none
  Forbidden = {s2}
  CoreRestarts = {s1}
  BatchSize = 2
  MaxTroubles = 1
INVARIANTS
  ExecutedOnce
  ReportedTruly
PROPERTIES
  EveryCallReturns
CHECK_DEADLOCK FALSE
