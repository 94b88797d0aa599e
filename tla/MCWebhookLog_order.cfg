SPECIFICATION Spec
SYMMETRY Symmetry
CONSTANTS
  d1 = d1
  Dispatcher = {d1}
  MaxEvents = 2
  MaxLen = 3
  Batch = 2
  MaxKills = 0
INVARIANTS
  ReadMeansDispatched
