SPECIFICATION Spec
CONSTANTS
  MaxCalls = 2
  Statuses = {0, 1}
  LateNotify = TRUE
INVARIANTS WaitBlocksWhileLocked
CHECK_DEADLOCK FALSE
