\* Two goals compete for one slot; steps, retries and replans run out without the clock.
SPECIFICATION FairSpec
CONSTANTS
  Goals = {g1, g2}
  Drivers = {loop}
  Operators = {}
  Names = {"a", "b"}
  MaxReplanCount = 1
  MaxReplans = 1
  MaxSteps = 2
  StormCount = 2
  FailureThreshold = 2
  MaxPlanSteps = 2
  Plans <- PlansChain
  Templates <- TemplatesFair
  FirstModes = {"full"}
  Commands = {}
  Priority <- TwoPriorities
  MaxConcurrent = 1
  StepsPerTick = 1
  KeepTerminal = 1
  FailureCluster = 1
  StagnationSteps = 2
  BlockRateSteps = 5
  MaxCommands = 0
  MaxFaults = 0
PROPERTIES
  ActiveComesToRest
CHECK_DEADLOCK FALSE
