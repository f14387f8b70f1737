SPECIFICATION Spec
CONSTANTS
  p1 = p1
  p2 = p2
  Proc = {p1, p2}
  Options = {}
  ProbeResults = {"required"}
  Faults = {}
  Rotates = TRUE
  Lifetime = 3
  RefreshBuffer = 2
  MaxTime = 5
  MaxGrants = 4
SYMMETRY Interchangeable
INVARIANT StoreHoldsLiveGrant
