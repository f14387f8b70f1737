SPECIFICATION FairSpec
CONSTANTS
  r1 = r1
  r2 = r2
  r3 = r3
  Request = {r1, r2, r3}
  FlowCanFail = TRUE
CHECK_DEADLOCK FALSE
INVARIANT TypeOK
INVARIANT AnswerIsFirstCallback
INVARIANT NobodyCutOff
PROPERTY TimeoutMeansSilence
PROPERTY WaitReturns
PROPERTY ImplementsPromise
