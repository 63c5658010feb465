SPECIFICATION Spec
CONSTANTS
  MaxReplicas = 3
  MaxTemplate = 2
  MaxNumber = 3
  Budgets <- TwoUnavailable
  Partitions = {0}
  MaxEdits = 1
  MaxFailures = 0
  LagSets <- NoLag
  Owners = {FALSE}
CHECK_DEADLOCK FALSE
PROPERTIES BudgetRespected
