SPECIFICATION GraphSpec
CONSTANTS
  HistoryLimit = 3
  MaxNode = 5
  GraphRoots = {"blank", "ink"}
  GraphStart = "blank"
INVARIANTS
  GraphStaysLoadable
  UndoSurvivesRetention
  RetentionIsTheLoop
CHECK_DEADLOCK FALSE
