SPECIFICATION FairSpec
CONSTANTS
  Workers = {1}
  Limits <- UpToOneRestart
  Backoff = FALSE
  AfterStart = TRUE
  Parallel = TRUE
  RacingReplacement = FALSE
  LagPods = FALSE
  MaxUid = 2
  MaxRevision = 1
  MaxFaults = 1
  MaxAborts = 1
  MaxEdits = 2
PROPERTIES FailureHandled RecoveryCompletes
CHECK_DEADLOCK FALSE
