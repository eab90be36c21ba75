SPECIFICATION Spec
CONSTANTS
  MaxDepth = 3
  PageTiles = {0}
  SparseTiles = {0}
  Slots = 5
  None = None
  FirstTree <- MCTree
  FirstArt <- MCArt
  FirstLayer = 1
  Commands <- MCCommands
  MaxId = 5
  Batches = {{0}}
  Looks <- MCLooks
  Selected = {3}
  Soloed = {3}
  MaxWork = 3
INVARIANTS
  FrameIsTheArtwork
  CachesAreCurrent
PROPERTIES
  LayersAreWhole
CHECK_DEADLOCK FALSE
