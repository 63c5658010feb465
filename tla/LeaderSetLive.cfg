SPECIFICATION FairSpec
CONSTANTS
  MaxReplicas = 2
  MaxTemplate = 2
  MaxNumber = 5
  Budgets <- SmallBudgets
  Partitions = {0}
  MaxEdits = 2
  MaxFailures = 1
  LagSets <- AnyLag
  Owners = {TRUE, FALSE}
CHECK_DEADLOCK FALSE
PROPERTIES RolloutSettles
