SPECIFICATION Spec
CONSTANTS
  Workers = {1}
  Limits <- OneRestart
  Backoff = TRUE
  AfterStart = FALSE
  Parallel = FALSE
  RacingReplacement = FALSE
  LagPods = FALSE
  MaxUid = 3
  MaxRevision = 2
  MaxFaults = 2
  MaxAborts = 1
  MaxEdits = 2
INVARIANTS RecreationsCharged WithinBudget ChargedPerFailure NoOrphanFinalizer
CHECK_DEADLOCK FALSE
