SPECIFICATION ResponsiveSpec
CONSTANTS
  Kind = {"roots", "sampling"}
  c1 = c1
  Call = {c1}
  MaxAsk = 1
  MaxChange = 1
CHECK_DEADLOCK FALSE
INVARIANT TypeOK
INVARIANT InitializedOnceAndFirst
INVARIANT NoCallIsRefused
INVARIANT RootsNotStale
INVARIANT NoChangeIsLost
PROPERTY EveryAskEnds
PROPERTY NestedCallsReturn
PROPERTY HostGoneMeansExit
