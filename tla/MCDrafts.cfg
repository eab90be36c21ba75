SPECIFICATION FairSpec
CONSTANTS
  None = None
  Refused = Refused
  Same = Same
  Values = {v1}
  Limits = TRUE
  MaxAsks = 3
  MaxContacts = 2
  MaxMoves = 1
  MaxLayers = 2
INVARIANTS
  NothingChangesUnderADraft
  BothSidesAgree
PROPERTIES
  CommitIsWhatWasSeen
  WaitsEnd
