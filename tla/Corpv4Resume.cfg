SPECIFICATION FairSpec
CONSTANTS
  Resume = TRUE
  RECONNECT_LIMIT = 2
  MaxLen = 1
  MaxUp = 2
  MaxDown = 2
  MaxDrops = 2
  ServerFaulty = TRUE
CHECK_DEADLOCK FALSE
INVARIANTS DownstreamInv UpstreamInv
PROPERTIES DownSpec ClosedIsFinal LostIsResumedOrClosed DataMoves
