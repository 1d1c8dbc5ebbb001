SPECIFICATION GroupsSpec
CONSTANTS
  Systems = {h1, h2}
  Clients = {c1, c2}
  NoName = NoName
  MaxRequests = 4
  prod = prod
  Prod = Prod
  dev = dev
  os_fedora = os_fedora
  s = s
  long_s = long_s
  Names <- AsciiNames
  Derived = {os_fedora}
  Lower <- AsciiLower
  Folded <- AsciiLower
INVARIANTS
  NoLookalikes
PROPERTIES
  OnlyDeletesLoseGroups
  EvictedUnlessRaced
SYMMETRY Symmetry
