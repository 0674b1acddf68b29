CONSTANTS
  Conns = {c1, c2}
  Threads = {t1}
  NumPieces = 2
  Validate = TRUE
  Pieces <- PieceIds
  Script <- MainScript
  MaxSize = 1
  CountedSize = FALSE
  ConnectResults = {"CONNECT_SUCCESS", "FATAL_CONNECT_ERROR"}
  PostResults = {"POST_SUCCESS"}
  StatResults = {"ARTICLE_EXISTS", "INVALID_ARTICLE", "CONNECTION_ERROR"}
  None = None
SPECIFICATION AnsweringSpec
PROPERTY WorkProgresses
CHECK_DEADLOCK FALSE
