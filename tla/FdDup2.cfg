SPECIFICATION Spec
CONSTANTS
  MaxFds = 6
  MaxTarget = 6
  MaxHandles = 6
  MaxCalls = 5
PROPERTIES Dup2Doubles
CHECK_DEADLOCK FALSE
