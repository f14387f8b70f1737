SPECIFICATION FairSpec
CONSTANTS
  p1 = p1
  p2 = p2
  Proc = {p1}
  Options <- AllOptions
  ProbeResults <- AllProbes
  Faults <- AllFaults
  Rotates = TRUE
  Lifetime = 2
  RefreshBuffer = 1
  MaxTime = 4
  MaxGrants = 3
PROPERTY LaunchResolves
