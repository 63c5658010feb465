SPECIFICATION Spec
CONSTANTS
  MaxReplicas = 3
  MaxTemplate = 2
  MaxNumber = 5
  Budgets <- MCBudgets
  Partitions = {0, 1}
  MaxEdits = 2
  MaxFailures = 1
  LagSets <- NoLag
  Owners = {FALSE}
CHECK_DEADLOCK FALSE
INVARIANTS StsHasRevision KeyNamesContent
PROPERTIES HealthyBudgetRespected BatchBounded PartitionMovesDown RolloutStartsAtTop SurgeBounded
