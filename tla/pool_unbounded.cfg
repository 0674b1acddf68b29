CONSTANTS
  Conns = {c1, c2, c3}
  Threads = {t1, t2}
  NPosts = 3
  NStats = 1
  Pieces <- MCPieces
  Script <- MCScript
  MaxSize = 0
  CountedSize = FALSE
  ConnectResults = {"CONNECT_SUCCESS", "FATAL_CONNECT_ERROR"}
  PostResults = {"POST_SUCCESS", "POSTING_NOT_PERMITTED", "POST_FAILURE", "POST_FAILURE_CONNECTION_ERROR"}
  StatResults = {"ARTICLE_EXISTS"}
  None = None
SPECIFICATION Spec
SYMMETRY MCSymmetry
INVARIANTS TypeOK NoStrandedWork ExitOneMeansNoConnection
