SPECIFICATION FairSpec
CHECK_DEADLOCK FALSE
CONSTANTS
  t1 = t1
  t2 = t2
  Task = {t1, t2}
  Retries = 3
  Faults = {"kill", "host", "send", "redeliver"}
  MaxFaults = 1
INVARIANTS
  FailedIsCovered
PROPERTIES
  DeliveryEnds
