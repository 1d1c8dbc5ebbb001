SPECIFICATION RegistrarFairSpec
CONSTANTS
  Services = {muc, nats}
  Reassert = 3
  MaxRetry = 4
  MaxFaults = 3
INVARIANTS
  StoppedStaysOut
  DelayIsBounded
PROPERTIES
  StaysDiscoverable
CHECK_DEADLOCK FALSE
