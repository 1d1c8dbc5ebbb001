SPECIFICATION Spec
CONSTANTS
  MaxCommands = 1
  MaxTime = 0
  MaxTroubles = 0
  QueueCap = 1
PROPERTIES
  EndedRunsStayEnded
