SPECIFICATION LiveSpec
CONSTANTS
  Callers = {c1, c2, c3}
  NoCaller = NoCaller
  MaxItems = 4
INVARIANTS
  OneOutstandingCommand
  AbandonedHasRecovery
  PoisonCoversUnfinished
PROPERTIES
  ImplementsSerialHardware
  CallsAnswered
  PoisonClears
  ReservedRecoveryRuns
CHECK_DEADLOCK FALSE
