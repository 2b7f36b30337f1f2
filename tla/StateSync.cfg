SPECIFICATION LiveSpec
CONSTANTS
  Faults = {"timeout", "listener", "outage"}
  MAX_COALESCED_REFRESHES = 2
  MaxSeq = 4
  MaxRuns = 2
  MaxTimeouts = 1
INVARIANTS
  FetchesCover
PROPERTIES
  SignalsAreFollowed
  Converges
  OutageIsShown
CHECK_DEADLOCK FALSE
