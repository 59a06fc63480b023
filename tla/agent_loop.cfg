\* One request of any sort, with rounds and budgets scaled down: the
\* smaller budget ends before the rounds do, the larger one does not.
SPECIFICATION Spec
CONSTANTS
  MaxRounds = 6
  BudgetCaps = {5, 10}
  MaxCorrections = 3
  MaxAlike = 2
  StreakCap = 3
  MaxRetries = 2
INVARIANTS
  CallsBounded
  CorrectionsBounded
  OnlyVetted
  AnswerSeesResults
PROPERTIES
  NoRoundAfterToolError
CHECK_DEADLOCK FALSE
