\* One sample to each lane, so that any gesture overflows them, a Move is evicted
\* for an End, and what follows a loss, an edit or a Save As can take two
\* gestures more.
SPECIFICATION FairSpec
CONSTANTS
  Capacity = 1
  MaxGestures = 3
  MaxMoves = 1
INVARIANTS
  AcceptedGesturesClose
  StrokesAreWholeGestures
  PausedBetweenStrokes
PROPERTIES
  PenIsHeardAgain
