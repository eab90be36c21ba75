SPECIFICATION Spec
CONSTANTS
  None = None
  Refused = Refused
  Same = Same
  Values = {v1}
  Limits = FALSE
  MaxAsks = 3
  MaxContacts = 1
  MaxMoves = 1
  MaxLayers = 2
INVARIANTS
  CancelIsNotRefused
