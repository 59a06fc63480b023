\* Two calls, a restart, resets, and the clock.
SPECIFICATION FairBreakerSpec
CONSTANTS
  Callers = {c1, c2}
  Admins = {admin}
  Threshold = 2
  MaxFailures = 3
  MaxRestarts = 1
INVARIANTS
  OpenForAReason
PROPERTIES
  FailedProbeReopens
  ProbeComes
CHECK_DEADLOCK FALSE
