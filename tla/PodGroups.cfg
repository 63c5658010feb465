SPECIFICATION Spec
CONSTANTS
  Setups <- MCSetups
  Indices <- MCIndices
  Ids <- MCIds
CHECK_DEADLOCK FALSE
INVARIANTS PrerequisitesFirst
PROPERTIES WholeGang GroupsStart
