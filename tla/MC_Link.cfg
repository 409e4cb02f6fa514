CONSTANTS
  Session = {s1, s2}
  None = None
  MaxBoot = 2
  MaxPacket = 4
  Half = 4
  Window = 3
SPECIFICATION Spec
INVARIANTS
  NonceFresh
  DeliveredOnce
  InWindowIsDelivered
SYMMETRY Symmetric
CHECK_DEADLOCK FALSE
