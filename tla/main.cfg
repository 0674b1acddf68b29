CONSTANTS
  Conns = {c1, c2}
  Threads = {t1}
  NumPieces = 2
  Validate = TRUE
  Pieces <- PieceIds
  Script <- MainScript
  MaxSize = 1
  CountedSize = TRUE
  ConnectResults = {"CONNECT_SUCCESS", "FATAL_CONNECT_ERROR"}
  PostResults = {"POST_SUCCESS", "POSTING_NOT_PERMITTED", "POST_FAILURE", "POST_FAILURE_CONNECTION_ERROR"}
  StatResults = {"ARTICLE_EXISTS"}
  None = None
SPECIFICATION FairMainSpec
INVARIANTS MainTypeOK NzbListsStoredArticles FreshIdOnEverySend NoFourthAttempt ProgressIsExact
PROPERTY EndsUnlessAbandoned
CHECK_DEADLOCK FALSE
