SPECIFICATION Spec
CONSTANTS
  MaxMessage = 1
  Wrap = 3
  MaxUp = 2
  MaxDown = 0
  MaxFailures = 1
INVARIANT UpstreamNoGap
CHECK_DEADLOCK FALSE
