\* Every device at once, each with one gesture after another for ever, and one
\* message whose data is lost or one move without room at any moment.
SPECIFICATION Spec
CONSTANTS
  Fingers = {f1}
  NoFinger = none
  MaxFaults = 1
INVARIANTS
  GesturesStayWhole
  NothingIsHeldBack
