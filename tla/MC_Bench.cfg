CONSTANTS
  A = A
  B = B
  Boards = {A, B}
  Packets = 2
  Injected = 1
  ReportEvery = 2
  ProbesRun = {"smoke", "retention", "capacity", "powerSweep", "packets", "autorole",
               "recovery", "pressure", "forcedReset", "malformed", "watermark",
               "overflowRecovery", "scheduled", "txAt", "tone", "noTone", "fault"}
  MaxSequence = 3
  MaxProbes = 2
  MaxMishaps = 1
SYMMETRY BoardSymmetry
SPECIFICATION Spec
INVARIANTS
  PassIsGenuine
  
  RetentionAgrees
  BoardsLeftAtRest
CHECK_DEADLOCK FALSE
