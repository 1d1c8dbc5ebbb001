SPECIFICATION PaneSpec
CONSTANTS
  MaxRuns = 1
  MaxPieces = 3
  StreamLimit = 9
  TailLimit = 2
  BufferLimit = 9
  EventBuffer = 9
  UpdateBuffer = 9
  MaxLosses = 1
  MaxVisits = 1
INVARIANTS
  PaneNeverSplices
CHECK_DEADLOCK FALSE
