SPECIFICATION WitnessSpec
CONSTANTS
  HistoryLimit = 2
  MaxId = 4
  Roots = {"blank", "ink", "wash"}
  EmptyRoot = "blank"
  Objects = {"t1", "t2"}
  ObjectsOf <- SharedObjects
  Trees = {"tree1"}
  DefaultTree = "tree0"
  Pages = {"page1"}
  DefaultPage = "page0"
  Timelines = {"cels"}
  Selections = {TRUE, FALSE}
  Absent = Absent
INVARIANTS
  SessionIsTheProject
  ContentIsExactlyReferenced
  EveryDurableStateOpens
  NextIdIsFresh
  UndoRestoresWhatWasMade
PROPERTIES
  SchemaNeverGoesBack
  OnlyAFullHistoryForgets
  ImplementsDurableArtwork
ACTION_CONSTRAINT WithinBounds
CHECK_DEADLOCK FALSE
