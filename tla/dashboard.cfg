SPECIFICATION FairSpec
CONSTANTS
  ChannelCap = 1
  Kinds = {"checkin", "update", "reboot"}
  MaxSaves = 3
  MaxPresses = 1
  MaxTroubles = 1
INVARIANTS
  RowsAgree
  ChecksAreReleased
  OneRebootAtATime
PROPERTY
  ControlsComeBack
CHECK_DEADLOCK FALSE
