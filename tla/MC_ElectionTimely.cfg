CONSTANTS
  Member = {1, 2, 3}
  InitialCoordinator = 1
  Managed = {}
  Interval = 2
  Timeout = 6
  Delay = 1
  RxHeld = 3
  MaxEpoch = 9
  OutageLimit = 10
  MaxFaults = 4
SPECIFICATION TSpec
INVARIANTS
  ReplacedInTime
PROPERTIES
  Converges
