SPECIFICATION FairSpec
CONSTANTS
  Backlog = 2
  Queue = 1
  Completions = 1
  Fails = TRUE
  MaxStrokes = 3
  MaxEdits = 1
  MaxSaves = 2
INVARIANTS
  StrokesSettleInOrder
  ShownIsDurable
  CleanMeansExported
  CloseLosesNothing
PROPERTIES
  CloseCompletes
