SPECIFICATION Spec
CONSTANTS
    Ids <- MCIds
    Templates <- MCTemplates
    Setups <- MCSetups
INVARIANTS
    BudgetShared
    CapacityBounded
    AvailableHonest
PROPERTIES
    HeldUntilReleased
    Settles
CHECK_DEADLOCK FALSE
