\* One goal, two sources of ticks, one operator with every kind of command, one fault.
SPECIFICATION Spec
CONSTANTS
  Goals = {g1}
  Drivers = {loop, trigger}
  Operators = {u1}
  Names = {"a", "b"}
  MaxReplanCount = 1
  MaxReplans = 1
  MaxSteps = 2
  StormCount = 2
  FailureThreshold = 2
  MaxPlanSteps = 1
  Plans <- PlansChain
  Templates <- TemplatesShort
  FirstModes = {"semi"}
  Commands = {"pause", "resume", "cancel", "delete", "assist", "reflect", "unpause"}
  Priority <- OnePriority
  MaxConcurrent = 1
  StepsPerTick = 1
  KeepTerminal = 1
  FailureCluster = 1
  StagnationSteps = 2
  BlockRateSteps = 5
  MaxCommands = 1
  MaxFaults = 1
INVARIANTS
  TypeOK
  StoredDependenciesFirst
  StoredCompletedMeansDone
  StoredNoDeadTask
  StoredBlockedWaits
  StoredLimitsHold
  CopiesInOrder
CHECK_DEADLOCK FALSE
SYMMETRY TwoDrivers
VIEW WithoutRuns
