CONSTANTS
  Threads = {t1}
  Items = {a1}
  Tls = TRUE
  None = None
SPECIFICATION Spec
INVARIANT TimersEndNoProgram
