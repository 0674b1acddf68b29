CONSTANTS
  Threads = {t1}
  Items = {a1, a2}
  Tls = TRUE
  None = None
SPECIFICATION FairSpec
INVARIANTS ConnectionTypeOK OneContinuation UsableWhenIdle AnswersInStep AnswersAreTrue OnlyStaleTimersCrash
PROPERTIES OperationsEnd ImplementsSession
