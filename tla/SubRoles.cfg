SPECIFICATION FairSpec
CONSTANTS
  NumSubRoles = 2
  Slots <- MCSlots
  Setups <- MCSetups
  Initials <- MCInitials
  Requests <- MCRequests
  Costs = {"own"}
INVARIANTS AnnotationsReadable CreditSurvives
PROPERTIES FloorsKept VictimsUnrouted RequestSettles
CHECK_DEADLOCK FALSE
