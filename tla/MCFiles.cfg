SPECIFICATION MCSpec
CONSTANTS
  Transfers = {1}
  readChunkSize = 2
  FileSize = 3
  SmallFile = 1
  MaxAsks = 1
  Pieces = {1}
  LIMITS = TRUE
  Words = {"rm", "copy", "list", "mget", "put", "quit"}
  MaxKeys = 3
  MaxHistory = 2
  Requests = {"copy", "remove", "list", "open", "truncate", "close", "write", "read", "move", "mkdir"}
  Chunks = 2
  MaxRequests = 2
  MaxConnections = 3
CHECK_DEADLOCK FALSE
INVARIANTS TypesOK ChunksInOrder PromptMeansIdle ChainsAreSound ExitLeavesNothing
PROPERTIES NothingAfterCancel RequestsEnd PromptComesBack EndIsReported
