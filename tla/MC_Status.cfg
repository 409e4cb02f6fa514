CONSTANTS
  Gates = {"E0-03", "E0-05", "E0-07"}
  Minimum <- MCMinimum
  Required <- MCRequired
  Default <- MCDefault
  OtherFills <- MCOtherFills
  Good <- MCGood
  Measured <- MCMeasured
  Specimens <- MCSpecimens
  MaxEdits = 3
SPECIFICATION FairSpec
INVARIANTS
  PromotedIsGenuine
  
  StatusHonest
PROPERTIES
  EvidenceIsPinned
  GuidancePromotes
CHECK_DEADLOCK FALSE
