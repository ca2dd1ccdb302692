INIT CaptureInit
NEXT CaptureNext
CONSTANTS
  Path = {a, b}
  MaxMoves = 3
INVARIANT CommitIsExact
CHECK_DEADLOCK FALSE
