SPECIFICATION BenchFairSpec
CONSTANTS
  HostCount = 3
  Loaded = {1}
  MaxAge = 4
  RetryAfter = 3
  SeenWithin = 1
  MinInterval = 2
  OldestAge = 5
  MaxPresses = 1
  MaxChanges = 1
INVARIANTS
  ScheduledApart
PROPERTIES
  EveryHostIsMeasured
