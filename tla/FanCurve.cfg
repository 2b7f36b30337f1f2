SPECIFICATION Spec
CONSTANTS
  Curves <- MCCurves
  Readings = {0, 41375, 55000, 90000, 91000, 92000, 96000}
  Speeds = {20, 100, 101}
  Profiles = {"default", "silent"}
  MaxOps = 3
INVARIANTS
  SpeedFollowsHeat
  SpeedFitsDecision
  PublishedTargetIsReal
