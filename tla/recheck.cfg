SPECIFICATION RecheckFairSpec
CONSTANTS
  MaxWrites = 2
  MaxCommands = 2
  MaxDrops = 1
  MaxFailures = 1
INVARIANTS
  NothingSkippedUnseen
PROPERTIES
  Quiesces
  ChangesAreReported
  CatchesUp
  PromisesAreKept
