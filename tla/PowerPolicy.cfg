SPECIFICATION MCSpec
CONSTANTS
  Builtin = {balanced}
  Custom = {compile}
  Defs <- MCDefs
  NoProfile = NoProfile
  Unknown = Unknown
  MaxOps = 1
  MaxSwitches = 1
  MaxFaults = 2
INVARIANTS
  PublishedProfileIsReal
PROPERTIES
  HookOncePerChange
  ApplyIsAllOrNothing
  AutoSwitchFollows
CHECK_DEADLOCK FALSE
