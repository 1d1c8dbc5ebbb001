SPECIFICATION FairSpec
CONSTANTS
  r1 = r1
  q1 = q1
  Runs = {r1}
  Reboots = {q1}
  MaxCommands = 2
  MaxRestarts = 0
  MaxBoots = 0
PROPERTIES
  NoRunKeepsTheSlot
CHECK_DEADLOCK FALSE
