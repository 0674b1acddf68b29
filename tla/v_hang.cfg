CONSTANTS
  Conns = {c1}
  Threads = {t1}
  NumPieces = 2
  Validate = FALSE
  Pieces <- PieceIds
  Script <- MainScript
  MaxSize = 1
  CountedSize = FALSE
  ConnectResults = {"CONNECT_SUCCESS", "FATAL_CONNECT_ERROR", "INVALID_CREDENTIALS"}
  PostResults = {"POST_SUCCESS", "POSTING_NOT_PERMITTED", "POST_FAILURE", "POST_FAILURE_CONNECTION_ERROR"}
  StatResults = {}
  None = None
SPECIFICATION AnsweringSpec
PROPERTY Termination
CHECK_DEADLOCK FALSE
