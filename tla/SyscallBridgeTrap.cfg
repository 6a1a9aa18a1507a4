SPECIFICATION FairSpec
CONSTANTS
  MaxCalls = 1
  Statuses = {0, 1}
  LateNotify = FALSE
PROPERTIES TrapIsReported
CHECK_DEADLOCK FALSE
