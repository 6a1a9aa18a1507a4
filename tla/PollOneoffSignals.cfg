SPECIFICATION Spec
CONSTANTS
  Sockets = {"sock"}
  SLEEP = 2
  MaxTime = 2
  MaxBytes = 1
  MaxSignals = 1
  MaxPolls = 1
  MaxIovs = 1
INVARIANTS SignalsEndPoll
CHECK_DEADLOCK FALSE
