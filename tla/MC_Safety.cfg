CONSTANTS
  HeartbeatTimeout = 2
  ResetHold = 1
  BootWait = 2
  PowerCycleWait = 1
  MaxAttempts = 2
  RailTimeout = 1
  ProcessorTimeout = 2
  CriticalGrace = 2
  MaxDelay = 2
SPECIFICATION FairSpec
INVARIANTS
  VoiceNeedsRadio
  ResetsAreBounded
PROPERTIES
  LatchedStaysShut
  ResetEnds
