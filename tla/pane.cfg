SPECIFICATION PaneSpec
CONSTANTS
  MaxRuns = 1
  MaxPieces = 4
  StreamLimit = 3
  TailLimit = 2
  BufferLimit = 2
  EventBuffer = 1
  UpdateBuffer = 1
  MaxLosses = 1
  MaxVisits = 2
INVARIANTS
  ReportsAreComplete
  HeardMeansUnspliced
CHECK_DEADLOCK FALSE
