\* Every plan on three names, two replans.
SPECIFICATION HistorySpec
CONSTANTS
  Names = {"a", "b", "c"}
  MaxReplanCount = 2
  Place <- Listed
INVARIANTS
  AcceptsExactlyDags
  WorkRemainsReachable
PROPERTIES
  ReplanLosesNothing
CHECK_DEADLOCK FALSE
