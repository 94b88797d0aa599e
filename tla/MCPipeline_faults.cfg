SPECIFICATION Spec
CHECK_DEADLOCK FALSE
SYMMETRY Symmetry
CONSTANTS
  t1 = t1
  t2 = t2
  b1 = b1
  g1 = g1
  g2 = g2
  g3 = g3
  Task = {t1, t2}
  Workers = 2
  MaxRetries = 1
  Batch = {b1}
  Gen = {g1, g2, g3}
  Kind = "document"
  RetryFrom = {"chunk"}
  Faults = {"send", "kill", "host", "timeout", "db", "milvus"}
  MaxFaults = 1
INVARIANTS
  MarksKeepTheirRows
  StallIsAccounted
PROPERTY
  IsAssetLifecycle
