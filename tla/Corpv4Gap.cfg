SPECIFICATION Spec
CONSTANTS
  Resume = TRUE
  RECONNECT_LIMIT = 3
  MaxLen = 1
  MaxUp = 2
  MaxDown = 0
  MaxDrops = 1
  ServerFaulty = FALSE
CHECK_DEADLOCK FALSE
INVARIANT UpstreamNoGap
