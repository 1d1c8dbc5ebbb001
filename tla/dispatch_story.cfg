SPECIFICATION Spec
CONSTANTS
  Hosts = {h1}
  Requests = {r1}
  Actions = {"update"}
  MaxChanges = 0
  MaxLosses = 0
INVARIANTS
  RequestedComesFirst
SYMMETRY Symmetry
CHECK_DEADLOCK FALSE
