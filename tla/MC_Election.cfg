CONSTANTS
  Member = {1, 2}
  InitialCoordinator = 2
  Managed = {1}
  Interval = 1
  Timeout = 1
  Delay = 1
  RxHeld = 2
  MaxEpoch = 2
SPECIFICATION Spec
INVARIANTS
  CanElectItself
  TransmitsOnlyInSchedule
PROPERTIES
  ClaimNeverGoesBack
  YieldsOnlyToBetterClaim
