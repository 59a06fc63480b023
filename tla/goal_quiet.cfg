\* One driver, restarts and exceptions, a user who only resumes.
SPECIFICATION Spec
CONSTANTS
  Goals = {g1}
  Drivers = {loop}
  Operators = {u1}
  Names = {"a", "b"}
  MaxReplanCount = 2
  MaxReplans = 2
  MaxSteps = 3
  StormCount = 2
  FailureThreshold = 2
  MaxPlanSteps = 1
  Plans <- PlansAll
  Templates <- TemplatesAll
  FirstModes = {"semi"}
  Commands = {"resume"}
  Priority <- OnePriority
  MaxConcurrent = 1
  StepsPerTick = 2
  KeepTerminal = 0
  FailureCluster = 1
  StagnationSteps = 2
  BlockRateSteps = 5
  MaxCommands = 0
  MaxFaults = 2
INVARIANTS
  OneWriter
  ExecutionsBounded
PROPERTIES
  DoneStaysDone
  Lifecycle
CHECK_DEADLOCK FALSE
