SPECIFICATION FairSpec
CONSTANTS
  MaxRequest = 2
  MaxPing = 1
  Pings = TRUE
  Cancels = TRUE
  Breaks = TRUE
CHECK_DEADLOCK FALSE
INVARIANT TypeOK
INVARIANT OneHandshake
INVARIANT RemoteSeesOnlyPermitted
INVARIANT AnswerOnItsWay
PROPERTY EveryRequestAnswered
PROPERTY PingerEndsWithService
