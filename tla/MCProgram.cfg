SPECIFICATION MCSpec
CONSTANTS
  MaxCalls = 4
  Statuses = {0, 1}
  LateNotify = FALSE
  Sockets = {"sock"}
  SLEEP = 1
  MaxTime = 1
  MaxBytes = 2
  MaxSignals = 2
  MaxIovs = 1
  MaxClients = 2
CHECK_DEADLOCK FALSE
INVARIANTS TypesOK BridgeInv PollsAreTrue ReachesProgram SocketsInOrder
PROPERTIES AnswersMatchCalls SettledStays CallsEnd PollsEnd SocketAwaitsEnd
