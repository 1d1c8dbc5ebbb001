SPECIFICATION GroupsSpec
CONSTANTS
  Systems = {h1}
  Clients = {c1, c2}
  NoName = NoName
  MaxRequests = 2
  prod = prod
  Prod = Prod
  dev = dev
  os_fedora = os_fedora
  s = s
  long_s = long_s
  Names <- FoldNames
  Derived = {}
  Lower <- FoldLower
  Folded <- FoldFolded
INVARIANTS
  NoLookalikes
SYMMETRY Symmetry
