SPECIFICATION Spec
CONSTANTS
  Requests = {"stLock", "cuLock", "maLock", "reLock", "refresh", "stop"}
  Faults = {"readTimeout", "fanTimeout", "reject", "autoReject", "disk", "crash"}
  MaxOps = 2
  MaxBoots = 2
INVARIANTS
  ManualIsGuarded
  SnapshotNeverHidesManual
  PendingIsBacked
  ShutdownIsHonest
  InheritedIsGuarded
CHECK_DEADLOCK FALSE
