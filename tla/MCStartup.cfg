SPECIFICATION FairSpec
CONSTANTS
  Processes = {1, 2, 3}
  Openers = {1, 2, 3}
  None = None
  NoCopy = NoCopy
  Tries = 2
  Pending = 1
  Guarded = {"raw"}
  Shared = {"missing", "container", "raw", "stored", "unmarked", "foreign"}
  Solo = {1, 2}
  MaxMade = 2
  MaxKills = 1
  Errors = {"container"}
INVARIANTS
  OnePrimary
  RoutedOnce
PROPERTIES
  WorkKeepsItsName
  EveryoneEnds
CHECK_DEADLOCK FALSE
