SPECIFICATION Spec
CONSTANTS
  MaxRequest = 2
  MaxPing = 1
  Pings = FALSE
  Cancels = TRUE
  Breaks = FALSE
CHECK_DEADLOCK FALSE
PROPERTY CancelHitsItsTarget
