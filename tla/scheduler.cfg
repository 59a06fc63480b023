\* A short and a long job on a host that restarts more often than the long
\* interval; pauses, manual runs, failing calls of Redis.
SPECIFICATION FairSpec
CONSTANTS
  Jobs = {short, long}
  Short = short
  Interval <- TwoIntervals
  BootDelay = 1
  MinUptime = 2
  MaxCommands = 2
  MaxTroubles = 1
  ChatCommands = TRUE
INVARIANTS
  NeverLate
  NeverAhead
PROPERTIES
  NoEarlyRun
  KeepsRunning
CHECK_DEADLOCK FALSE
