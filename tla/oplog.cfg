SPECIFICATION PageSpec
CONSTANTS
  Hosts = {h1, h2}
  AllHosts = AllHosts
  Kept = 3
  MaxAppends = 4
  PageSize = 2
  MaxInFlight = 2
  MaxSwitches = 1
  MaxFailures = 1
INVARIANTS
  KeepsTheNewest
  PagesAreExact
  OrderlyTable
