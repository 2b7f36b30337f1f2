SPECIFICATION LiveSpec
CONSTANTS
  Requests = {"stLock", "cuLock", "maLock", "reLock", "stop"}
  Faults = {"fanTimeout", "crash"}
  MaxOps = 1
  MaxBoots = 1
PROPERTIES
  ManualExpires
  PendingClears
  UseCasesEnd
  StopRestoresAuto
CHECK_DEADLOCK FALSE
