SPECIFICATION FairSpec
CONSTANTS
  Contents <- MCContents
  First = "x"
  Sizes <- MCSizes
  None = None
  MaxEvents = 2
INVARIANTS SameGeneration 
PROPERTIES StatusSettles
CHECK_DEADLOCK FALSE
