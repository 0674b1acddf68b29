CONSTANTS
  Threads = {t1}
  Items = {a1}
  Tls = TRUE
  None = None
SPECIFICATION PromptSpec
PROPERTY PostsTimeOut
