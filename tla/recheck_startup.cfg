SPECIFICATION RecheckFairSpec
CONSTANTS
  MaxWrites = 1
  MaxCommands = 0
  MaxDrops = 0
  MaxFailures = 0
PROPERTIES
  ChangesAreReportedPromptly
