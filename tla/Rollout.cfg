SPECIFICATION FairSpec
CONSTANTS
  Roles <- MCRoles
  Revisions <- MCRevisions
  Setups <- MCSetups
  Targets <- MCTargets
  Policies <- MCPolicies
  MaxEvents = 2
INVARIANTS NoWorsening AvailabilityKept RenamedServed SurgeBounded
PROPERTIES RolloutNotForgotten RolloutCompletes
CHECK_DEADLOCK FALSE
