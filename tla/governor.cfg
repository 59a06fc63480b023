\* Two callers at once, more goals than they may have; cancelled and deleted
\* goals, failing calls, crashes.
SPECIFICATION Spec
CONSTANTS
  Creators = {c1, c2}
  Goals = {g1, g2, g3}
  NoGoal = none
  Limit = 1
  MaxConcurrent = 1
  MaxTroubles = 1
  MaxDebt = 1
SYMMETRY Alikes
INVARIANTS
  ActiveBounded
CHECK_DEADLOCK FALSE
