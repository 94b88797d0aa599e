SPECIFICATION FairSpec
CONSTANTS
  w1 = w1
  w2 = w2
  k1 = k1
  k2 = k2
  k3 = k3
  k4 = k4
  Worker = {w1, w2}
  Token = {k1, k2, k3, k4}
  Capacity = 2
  Free = Free
  Ttl = 2
  Faults = {"redis", "cancel", "create", "crash"}
INVARIANTS
  AttendedWithinCapacity
PROPERTIES
  IsSlotPool
  KeysComeBack
