\* A committed request whose skills succeed.
SPECIFICATION Spec
CONSTANTS
  MaxRounds = 8
  BudgetCaps = {10, 20, 36}
  MaxCorrections = 3
  MaxAlike = 2
  StreakCap = 3
  MaxRetries = 2
INVARIANTS
  CompletionDetected
CHECK_DEADLOCK FALSE
