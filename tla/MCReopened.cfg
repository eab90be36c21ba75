SPECIFICATION Spec
CONSTANTS
  a = a
  b = b
  c = c
  Paths = {a}
  Start = a
  Existing = {a}
  Openable = {}
  Capacity = 1
  None = None
  Foreign = Foreign
  Faults = {"open"}
  MaxWork = 1
  MaxAsks = 4
  MaxReopens = 2
INVARIANTS
  AnExistingCloseHasDrained
CHECK_DEADLOCK FALSE
