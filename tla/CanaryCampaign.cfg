SPECIFICATION Spec
CONSTANTS
  s1 = s1
  s2 = s2
  Sessions = {s1, s2}
  Top = 2
  Required = 1
  MinSamples = 1
  MaxFaults = 1
SYMMETRY Symmetry
INVARIANTS ClosedStagesStand HeadsBehindCampaign PairsCountedOnce
PROPERTY StageEarned
CHECK_DEADLOCK FALSE
