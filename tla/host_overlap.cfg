SPECIFICATION Spec
CONSTANTS
  r1 = r1
  r2 = r2
  q1 = q1
  Runs = {r1, r2}
  Reboots = {q1}
  MaxCommands = 2
  MaxRestarts = 1
  MaxBoots = 0
SYMMETRY Symmetry
INVARIANTS
  OneRunAtATime
CHECK_DEADLOCK FALSE
