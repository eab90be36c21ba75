SPECIFICATION FairSpec
CONSTANTS
  a = a
  b = b
  c = c
  Paths = {a, b, c}
  Start = a
  Existing = {a, b}
  Openable = {b}
  Capacity = 1
  None = None
  Foreign = Foreign
  Faults = {"drain", "export", "open", "copy", "panic", "start", "update", "foreign"}
  MaxWork = 1
  MaxAsks = 3
  MaxReopens = 1
INVARIANTS
  WorkIsKept
PROPERTIES
  CopiesAreWhole
  EverythingIsAnswered
CHECK_DEADLOCK FALSE
