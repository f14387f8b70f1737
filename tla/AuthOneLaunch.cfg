SPECIFICATION Spec
CONSTANTS
  p1 = p1
  p2 = p2
  Proc = {p1}
  Options <- AllOptions
  ProbeResults <- AllProbes
  Faults = {}
  Rotates = TRUE
  Lifetime = 3
  RefreshBuffer = 2
  MaxTime = 6
  MaxGrants = 4
INVARIANT TypeOK
INVARIANT StoredTimeGenuine
INVARIANT StoreHoldsLiveGrant
PROPERTY FreshMeansUnexpired
PROPERTY ResetForcesFreshFlow
