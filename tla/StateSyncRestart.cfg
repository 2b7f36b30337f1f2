SPECIFICATION LiveSpec
CONSTANTS
  Faults = {"restart"}
  MAX_COALESCED_REFRESHES = 2
  MaxSeq = 2
  MaxRuns = 2
  MaxTimeouts = 0
PROPERTIES
  Converges
CHECK_DEADLOCK FALSE
