CONSTANTS
  Conns = {c1, c2}
  Threads = {t1, t2}
  NPosts = 3
  NStats = 2
  Pieces <- MCPieces
  Script <- MCScript
  MaxSize = 1
  CountedSize = TRUE
  ConnectResults = {"CONNECT_SUCCESS", "FATAL_CONNECT_ERROR"}
  PostResults = {"POST_SUCCESS", "POSTING_NOT_PERMITTED", "POST_FAILURE", "POST_FAILURE_CONNECTION_ERROR"}
  StatResults = {"ARTICLE_EXISTS", "CONNECTION_ERROR"}
  None = None
SPECIFICATION Spec
SYMMETRY MCSymmetry
INVARIANTS ConnectionsAccountedFor CommandsAccountedFor NothingStartedAfterStop NoLostWakeup ExitZeroMeansFinished QueueOverrunIsBounded
PROPERTIES ImplementsDelivery OperationsLeftAlone
CHECK_DEADLOCK FALSE
