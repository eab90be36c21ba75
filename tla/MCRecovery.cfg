SPECIFICATION FairSpec
CONSTANTS
  tile = tile
  Tiles = {tile}
  Files <- MCFiles
  Hashes = {0, 1, 2}
  None = None
  MaxHistory = 1
  MaxGeneration = 2
  MaxEpoch = 2
  MaxOperations = 3
INVARIANTS
  SavedMeansStored
  RebuiltIsCaptured
PROPERTIES
  HistoryIsKept
  EventuallySaved
