CONSTANTS
  Scenarios <- MCScenarios
  FirstHeartbeat = 16
SPECIFICATION Spec
INVARIANTS
  FramesAccounted
  CollidedIffOverlapping
  LeaderReplaced
  EstimateDecides
PROPERTY RunEnds
CHECK_DEADLOCK FALSE
