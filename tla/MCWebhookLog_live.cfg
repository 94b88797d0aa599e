SPECIFICATION FairSpec
CONSTANTS
  d1 = d1
  d2 = d2
  Dispatcher = {d1, d2}
  MaxEvents = 4
  MaxLen = 3
  Batch = 2
  MaxKills = 1
PROPERTIES
  CursorCatchesUp
