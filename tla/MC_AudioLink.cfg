CONSTANTS
  Capacity = 1
  TransferTime = 1
  HoldTime = 1
  MaxFrames = 2
  MaxRestarts = 1
SPECIFICATION FairSpec
INVARIANTS
  WaitingIsAnnounced
  
PROPERTIES
  ArrivesInOrderOnce
  WaitingLeaves
