CONSTANTS
  MaxVersion = 4
  MaxAttempts = 3
  Soak = 2
  Chunks = 2
  MaxSession = 2
  MaxBadReads = 1
  TrialUpdates = FALSE
SPECIFICATION FairSpec
INVARIANTS
  
  
  NoRollback
  TrialsAreBounded
 
