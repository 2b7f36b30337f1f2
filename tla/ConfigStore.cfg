SPECIFICATION Spec
CONSTANTS
  States = {s0, s1, s2}
  Default = s0
  Missing = Missing
  Corrupt = Corrupt
  Faults = {"disk", "dirOpen", "dirSync", "kill", "power", "edit"}
INVARIANTS
  AckedSurvives
  HealthTellsDivergence
PROPERTIES
  LiveStateOutranksBackup
CHECK_DEADLOCK FALSE
