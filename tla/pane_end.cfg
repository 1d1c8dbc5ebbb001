SPECIFICATION PaneSpec
CONSTANTS
  MaxRuns = 1
  MaxPieces = 2
  StreamLimit = 1
  TailLimit = 2
  BufferLimit = 9
  EventBuffer = 9
  UpdateBuffer = 9
  MaxLosses = 0
  MaxVisits = 1
INVARIANTS
  EndIsShown
CHECK_DEADLOCK FALSE
