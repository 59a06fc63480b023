\* One task, its breaker at the real thresholds scaled down; edits, crashes and failing calls.
SPECIFICATION FairSpec
CONSTANTS
  Tasks = {t1}
  NoTask = none
  Period = 1
  Threshold = 2
  WarnAt = 1
  Alike <- DistinctNames
  MaxFailures = 2
  MaxQueue = 2
  MaxEdits = 1
  MaxTroubles = 1
INVARIANTS
  FailuresReal
  HonestOutcome
PROPERTIES
  TriggeredAgain
CHECK_DEADLOCK FALSE
