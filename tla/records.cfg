SPECIFICATION FairSpec
CONSTANTS
  MaxCommands = 1
  MaxTime = 3
  MaxTroubles = 2
  QueueCap = 1
INVARIANTS
  RebootedMeansBooted
  CurrentUnlessRaced
  ShownMeansLogged
PROPERTIES
  RebootsAreNoticed
