SPECIFICATION FairSpec
CONSTANTS
  r1 = r1
  r2 = r2
  q1 = q1
  q2 = q2
  Runs = {r1, r2}
  Reboots = {q1, q2}
  MaxCommands = 2
  MaxRestarts = 1
  MaxBoots = 1
INVARIANTS
  OverlapHasACause
  RecordsAreHonest
  RebootSparesRunsItSaw
PROPERTIES
  UpdatesAreServedOnce
  RunsFreeTheSlot
CHECK_DEADLOCK FALSE
