SPECIFICATION LiveSpec
CONSTANTS
  Requests = {"maLock"}
  Faults = {"readTimeout"}
  MaxOps = 1
  MaxBoots = 1
PROPERTIES
  OverrideEnds
CHECK_DEADLOCK FALSE
