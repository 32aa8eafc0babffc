SPECIFICATION Spec
CONSTANTS
  s1 = s1
  s2 = s2
  Sessions = {s1, s2}
  Top = 1
  Required = 1
  MinSamples = 2
  MaxFaults = 0
PROPERTY DeferGoesOn
CHECK_DEADLOCK FALSE
