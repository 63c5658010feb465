SPECIFICATION FairSpec
CONSTANTS
  Workers = {1}
  Limits <- NoRestart
  Backoff = FALSE
  AfterStart = FALSE
  Parallel = FALSE
  RacingReplacement = FALSE
  LagPods = TRUE
  MaxUid = 2
  MaxRevision = 1
  MaxFaults = 1
  MaxAborts = 0
  MaxEdits = 1
PROPERTIES TeardownCompletes
CHECK_DEADLOCK FALSE
