SPECIFICATION LiveSpec
CONSTANTS
  Paths = {p1, p2}
  MaxEvents = 2
  MaxFaults = 1
  MaxOps = 2
INVARIANTS
  SavedIsInFirmware
  OnlyTouchpadWritten
  DaemonFollowsConfig
  DescriptorsAccounted
  PublishedIsDispatched
PROPERTIES
  Reconnects
CHECK_DEADLOCK FALSE
