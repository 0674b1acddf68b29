CONSTANTS
  Conns = {c1}
  Threads = {t1}
  NPosts = 1
  NStats = 0
  Pieces <- MCPieces
  Script <- MCScript
  MaxSize = 0
  CountedSize = FALSE
  ConnectResults = {"CONNECT_SUCCESS"}
  PostResults = {"POST_SUCCESS", "POSTING_NOT_PERMITTED", "POST_FAILURE", "POST_FAILURE_CONNECTION_ERROR"}
  StatResults = {}
  None = None
SPECIFICATION Spec
SYMMETRY MCSymmetry
INVARIANT NoHandlerAfterErase
