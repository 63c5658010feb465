SPECIFICATION FairSpec
CONSTANTS
  Keys <- MCKeys
  Counts <- MCCounts
  Goals <- MCKeys
  None = None
  Plans <- MCPlans
  Start <- MCStart
  MaxFaults = 1
  MaxRestarts = 1
  MaxEvents = 1
INVARIANTS BudgetKept
PROPERTIES AtomicSteps Settles
CHECK_DEADLOCK FALSE
