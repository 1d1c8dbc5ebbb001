SPECIFICATION Spec
CONSTANTS
  r1 = r1
  r2 = r2
  q1 = q1
  Runs = {r1, r2}
  Reboots = {q1}
  MaxCommands = 2
  MaxRestarts = 0
  MaxBoots = 1
SYMMETRY Symmetry
INVARIANTS
  NoRebootUnderAnUpdate
CHECK_DEADLOCK FALSE
