SPECIFICATION FairSpec
CHECK_DEADLOCK FALSE
CONSTANTS
  t1 = t1
  t2 = t2
  b1 = b1
  b2 = b2
  g1 = g1
  g2 = g2
  g3 = g3
  Task = {t1, t2}
  Workers = 1
  MaxRetries = 1
  Batch = {b1, b2}
  Gen = {g1, g2, g3}
  Kind = "av"
  RetryFrom = {"chunk", "embed"}
  Faults = {"kill", "timeout"}
  MaxFaults = 1
INVARIANTS
  IndexNeverStale
  ReadyIsSearchable
PROPERTIES
  EmbedMetaIsKept
  Settles
