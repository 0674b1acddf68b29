----------------------------- MODULE MainProofs -----------------------------
(***************************************************************************)
(* Theorems about the program of module Post2Usenet: its steps are steps   *)
(* of the pool, so that what is proved of the pool holds in it; and what   *)
(* its callbacks make of message ids, retries and the progress count.      *)
(***************************************************************************)
EXTENDS Post2Usenet, DeliveryProofs, FiniteSetTheorems

-----------------------------------------------------------------------------
(* The program and the pool.                                                *)

LEMMA MainStepIsPoolStep == [MainNext]_allVars => [Next]_vars
<1> SUFFICES ASSUME [MainNext]_allVars PROVE [Next]_vars
  OBVIOUS
<1>1. CASE PoolStep
  BY <1>1 DEF PoolStep, Next, Main, Complete, Proceed
<1>2. ASSUME NEW t \in Threads, NEW c \in Conns, PostReachesServer(t, c) PROVE Next
  BY <1>2 DEF PostReachesServer, Next, Complete
<1>3. ASSUME NEW t \in Threads,
             RetryUnderNewId(t) \/ TooManyRetries(t) \/ CountPosted(t) \/ PrintChecked(t)
      PROVE  Next
  BY <1>3 DEF RetryUnderNewId, PutBack, TooManyRetries, CountPosted, PrintChecked, Next, Proceed
<1>4. CASE ExitMain
  BY <1>4 DEF ExitMain, Next, Main
<1>5. CASE UNCHANGED allVars
  BY <1>5 DEF allVars
<1> QED
  BY <1>1, <1>2, <1>3, <1>4, <1>5 DEF MainNext

\* The program uses the pool as the pool's own specification says, so every theorem
\* about Spec holds in it (main.cc:157-330 against usenet.cc).
THEOREM MainIsPool == MainSpec => Spec
<1>1. MainInit => Init
  BY DEF MainInit
<1> QED
  BY <1>1, MainStepIsPoolStep, PTL DEF MainSpec, Spec

\* Once the process has ended nothing changes.
LEMMA OnlyRunningSteps ==
  ASSUME [MainNext]_allVars, proc # "running"
  PROVE  UNCHANGED allVars
<1>1. CASE PoolStep
  <2>1. CASE Ended
    BY <1>1, <2>1 DEF PoolStep, Ended, allVars
  <2>2. CASE ~Ended
    BY <1>1, <2>2
    DEF PoolStep, EnqueueNow, StartWaiting, WakeAndPush, WaitAgain, StopReads, StopResets, MainAt,
        OnConnected, OnStatFinished, OnQuitWritten, CanRun, BecomeReady, DispatchOrQueue, IoExit, At,
        StartOnSentinel
  <2> QED
    BY <2>1, <2>2
<1>2. ~\E t \in Threads, c \in Conns : PostReachesServer(t, c)
  BY DEF PostReachesServer, OnPostFinished, CanRun
<1>3. ~\E t \in Threads : RetryUnderNewId(t) \/ TooManyRetries(t) \/ CountPosted(t) \/ PrintChecked(t)
  BY DEF RetryUnderNewId, TooManyRetries, Abort, CountPosted, PrintChecked, At
<1>4. ~ExitMain
  BY DEF ExitMain, JoinAndExit, MainAt
<1> QED
  BY <1>1, <1>2, <1>3, <1>4 DEF MainNext

-----------------------------------------------------------------------------
(* Message ids.  While the program runs, a piece has as many failures as    *)
(* its nonce says, and went out under no later nonce.                       *)

Ids == PieceIds \X Nonces

IdInv ==
  /\ msgid_retries \in [PieceIds -> 0..MaxRetries]
  /\ header_nonce \in [PieceIds -> 0..(MaxRetries - 1)]
  /\ msgid_exceptions = header_nonce
  /\ proc = "running" => msgid_retries = header_nonce
  /\ sent \subseteq Ids
  /\ \A id \in sent : id[2] <= header_nonce[id[1]]
  /\ stored \subseteq sent
  /\ checked \subseteq PieceIds \X {"ARTICLE_EXISTS", "INVALID_ARTICLE"}
  /\ num_posted \in Nat
  /\ nzb \in {None, msgid_exceptions}
  /\ nzb # None => proc = "exit0"

\* What the commands on connections and in handlers are for main.
LEMMA CommandsOfMain ==
  ASSUME TypeOK
  PROVE  /\ \A cmd \in Commands : cmd.piece \in PieceIds
         /\ \A t \in Threads :
              /\ thread[t].at \in {"post_failed", "dispatch_or_queue", "finish_post"} =>
                   thread[t].cmd \in Posts /\ thread[t].cmd = ToPost(thread[t].cmd.piece)
              /\ thread[t].at = "finish_stat" =>
                   /\ thread[t].cmd \in Stats
                   /\ thread[t].result \in {"ARTICLE_EXISTS", "INVALID_ARTICLE"}
         /\ \A c \in Conns : conn[c].op = "post" =>
              conn[c].cmd \in Posts /\ conn[c].cmd = ToPost(conn[c].cmd.piece)
         /\ Posts \subseteq Commands /\ Stats \subseteq Commands
<1>1. /\ \A cmd \in Commands : cmd.piece \in PieceIds
      /\ Posts \subseteq Commands /\ Stats \subseteq Commands
      /\ \A cmd \in Posts : cmd = ToPost(cmd.piece)
  BY MainAssumption DEF Commands, Posts, Stats, ToPost
<1>2. \A t \in Threads :
        /\ thread[t].at \in {"post_failed", "dispatch_or_queue", "finish_post"} => thread[t].cmd \in Posts
        /\ thread[t].at = "finish_stat" =>
             thread[t].cmd \in Stats /\ thread[t].result \in {"ARTICLE_EXISTS", "INVALID_ARTICLE"}
  <2> SUFFICES ASSUME NEW t \in Threads
               PROVE  thread[t].at = "finish_stat" => thread[t].result \in {"ARTICLE_EXISTS", "INVALID_ARTICLE"}
    BY ThreadTypes
  <2>1. thread[t] \in ThreadStates
    BY DEF TypeOK
  <2> QED
    BY <2>1 DEF ThreadStates, Running, Exited
<1>3. \A c \in Conns : conn[c].op = "post" => conn[c].cmd \in Posts
  BY PostsAndStats
<1> QED
  BY <1>1, <1>2, <1>3

LEMMA InitIds == MainInit => IdInv
<1> SUFFICES ASSUME MainInit PROVE IdInv
  OBVIOUS
<1>1. 0 \in 0..(MaxRetries - 1) /\ 0 \in 0..MaxRetries
  BY DEF MaxRetries
<1> QED
  BY <1>1 DEF MainInit, IdInv

LEMMA SendsKeepIds ==
  ASSUME TypeOK, IdInv, NEW t \in Threads, NEW c \in Conns, PostReachesServer(t, c)
  PROVE  IdInv'
<1> DEFINE p == conn[c].cmd.piece
           id == <<p, header_nonce[p]>>
<1>1. conn[c].op = "post" /\ proc = "running" /\ UNCHANGED <<mainVars, checked>>
  BY DEF PostReachesServer, OnPostFinished, CanRun
<1>2. p \in PieceIds
  BY <1>1, CommandsOfMain
<1>3. header_nonce[p] \in Nonces /\ header_nonce[p] <= header_nonce[p]
  BY <1>2 DEF IdInv, Nonces, MaxRetries
<1>4. id \in Ids /\ id[1] = p /\ id[2] = header_nonce[p]
  BY <1>2, <1>3 DEF Ids
<1>5. \/ UNCHANGED <<sent, stored>>
      \/ sent' = sent \cup {id} /\ stored' \in {stored, stored \cup {id}}
  BY DEF PostReachesServer
<1>6. sent' \subseteq Ids /\ (\A i \in sent' : i[2] <= header_nonce[i[1]]) /\ stored' \subseteq sent'
  BY <1>3, <1>4, <1>5 DEF IdInv
<1>7. nzb = None
  BY <1>1 DEF IdInv
<1> QED
  BY <1>1, <1>6, <1>7 DEF IdInv, mainVars

LEMMA CallbacksKeepIds ==
  ASSUME TypeOK, IdInv, NEW t \in Threads,
         RetryUnderNewId(t) \/ TooManyRetries(t) \/ CountPosted(t) \/ PrintChecked(t)
  PROVE  IdInv'
<1> DEFINE p == thread[t].cmd.piece
<1>1. proc = "running" /\ nzb = None /\ UNCHANGED nzb
  BY DEF RetryUnderNewId, PutBack, TooManyRetries, Abort, CountPosted, PrintChecked, At, IdInv, mainVars
<1>2. thread[t].at \in {"post_failed", "finish_stat"} => p \in PieceIds
  BY CommandsOfMain
<1>3. CASE RetryUnderNewId(t)
  <2>1. p \in PieceIds /\ Failures(t) = header_nonce[p] + 1 /\ Failures(t) < MaxRetries
    BY <1>1, <1>2, <1>3 DEF RetryUnderNewId, At, Failures, IdInv
  <2>2. Failures(t) \in 0..(MaxRetries - 1) /\ Failures(t) \in 0..MaxRetries
    BY <2>1 DEF IdInv, MaxRetries
  <2>3. /\ msgid_retries' = [header_nonce EXCEPT ![p] = Failures(t)]
        /\ msgid_exceptions' = [header_nonce EXCEPT ![p] = Failures(t)]
        /\ header_nonce' = [header_nonce EXCEPT ![p] = Failures(t)]
        /\ UNCHANGED <<num_posted, serverVars>>
    BY <1>1, <1>3 DEF RetryUnderNewId, PutBack, IdInv
  <2>4. ASSUME NEW id \in sent PROVE id[2] <= header_nonce'[id[1]]
    <3>1. id[1] \in PieceIds /\ id[2] \in Nat /\ id[2] <= header_nonce[id[1]]
      BY <2>4 DEF IdInv, Ids, Nonces
    <3>2. header_nonce[id[1]] \in Nat /\ header_nonce[id[1]] <= header_nonce'[id[1]]
      BY <2>1, <2>2, <2>3, <3>1 DEF IdInv
    <3> QED
      BY <2>2, <2>3, <3>1, <3>2 DEF IdInv
  <2>5. header_nonce' \in [PieceIds -> 0..(MaxRetries - 1)]
    BY <2>2, <2>3 DEF IdInv
  <2>6. msgid_retries' \in [PieceIds -> 0..MaxRetries]
    BY <2>5, <2>3 DEF MaxRetries
  <2> QED
    BY <1>1, <2>3, <2>4, <2>5, <2>6 DEF IdInv, serverVars
<1>4. CASE TooManyRetries(t)
  <2>1. p \in PieceIds /\ Failures(t) = header_nonce[p] + 1
    BY <1>1, <1>2, <1>4 DEF TooManyRetries, Abort, At, Failures, IdInv
  <2>2. Failures(t) \in 0..MaxRetries
    BY <2>1 DEF IdInv, MaxRetries
  <2>3. msgid_retries' = [msgid_retries EXCEPT ![p] = Failures(t)] /\ proc' = "aborted"
    BY <1>4 DEF TooManyRetries, Abort
  <2>4. UNCHANGED <<msgid_exceptions, header_nonce, num_posted, serverVars>>
    BY <1>4 DEF TooManyRetries
  <2> QED
    BY <1>1, <2>2, <2>3, <2>4 DEF IdInv, serverVars
<1>5. CASE CountPosted(t)
  BY <1>1, <1>5 DEF CountPosted, Finish, pool, IdInv, serverVars
<1>6. CASE PrintChecked(t)
  <2>1. <<p, thread[t].result>> \in PieceIds \X {"ARTICLE_EXISTS", "INVALID_ARTICLE"}
    BY <1>2, <1>6, CommandsOfMain DEF PrintChecked, At
  <2> QED
    BY <1>1, <1>6, <2>1 DEF PrintChecked, Finish, pool, IdInv, mainVars
<1> QED
  BY <1>3, <1>4, <1>5, <1>6

LEMMA NextKeepsIds ==
  ASSUME TypeOK, IdInv, [MainNext]_allVars
  PROVE  IdInv'
<1>1. CASE UNCHANGED <<mainVars, serverVars>>
  <2>1. CASE proc = "running"
    BY <1>1, <2>1 DEF IdInv, mainVars, serverVars
  <2>2. CASE proc # "running"
    BY <2>2, OnlyRunningSteps DEF IdInv, allVars, vars, mainVars, serverVars
  <2> QED
    BY <2>1, <2>2
<1>2. CASE ExitMain
  BY <1>2 DEF ExitMain, JoinAndExit, MainAt, IdInv, serverVars
<1> QED
  BY <1>1, <1>2, SendsKeepIds, CallbacksKeepIds DEF MainNext, PoolStep, allVars

LEMMA IdsInvariant == MainSpec => [](TypeOK /\ IdInv)
<1>1. MainSpec => []TypeOK
  BY MainIsPool, TypeCorrect, PTL
<1>2. TypeOK /\ IdInv /\ [MainNext]_allVars => IdInv'
  BY NextKeepsIds
<1> QED
  BY <1>1, <1>2, InitIds, PTL DEF MainSpec

\* Every variable of main and of the servers keeps its type, for any number of pieces.
THEOREM MainTypeCorrect == MainSpec => []MainTypeOK
<1>1. TypeOK /\ IdInv => MainTypeOK
  <2> SUFFICES ASSUME IdInv PROVE MainTypeOK
    OBVIOUS
  <2>1. header_nonce \in [PieceIds -> Nonces]
    BY DEF IdInv, Nonces, MaxRetries
  <2> QED
    BY <2>1 DEF IdInv, MainTypeOK, Ids
<1> QED
  BY <1>1, IdsInvariant, PTL

\* No piece is sent a fourth time, whatever fails (main.cc:196-228).
THEOREM ThreeAttempts == MainSpec => []NoFourthAttempt
<1>1. IdInv => NoFourthAttempt
  <2> SUFFICES ASSUME IdInv, NEW p \in PieceIds
               PROVE  Cardinality({id \in sent : id[1] = p}) <= MaxRetries
    BY DEF NoFourthAttempt
  <2> DEFINE ids == {<<p, 0>>, <<p, 1>>, <<p, 2>>}
  <2>1. {id \in sent : id[1] = p} \subseteq ids
    <3> SUFFICES ASSUME NEW id \in sent, id[1] = p PROVE id \in ids
      OBVIOUS
    <3>1. id \in PieceIds \X Nonces /\ id[2] <= header_nonce[p] /\ header_nonce[p] \in 0..2
      BY DEF IdInv, Ids, MaxRetries
    <3>2. id = <<id[1], id[2]>> /\ id[2] \in {0, 1, 2}
      BY <3>1 DEF Nonces, MaxRetries
    <3> QED
      BY <3>2
  <2>2. IsFiniteSet({<<p, 0>>}) /\ Cardinality({<<p, 0>>}) = 1
    BY FS_Singleton
  <2> DEFINE two == {<<p, 0>>} \cup {<<p, 1>>}
  <2>3. IsFiniteSet(two) /\ Cardinality(two) \in Nat /\ Cardinality(two) <= 2
    BY <2>2, FS_AddElement
  <2>4. IsFiniteSet(two \cup {<<p, 2>>}) /\ Cardinality(two \cup {<<p, 2>>}) \in 0..3
    <3> HIDE DEF two
    <3> QED
      BY <2>3, FS_AddElement
  <2>5. ids = two \cup {<<p, 2>>}
    OBVIOUS
  <2>6. IsFiniteSet(ids) /\ Cardinality(ids) \in 0..3
    BY <2>4, <2>5
  <2> DEFINE ofP == {id \in sent : id[1] = p}
  <2>7. Cardinality(ofP) <= Cardinality(ids) /\ Cardinality(ofP) \in Nat
    <3> HIDE DEF ids, ofP
    <3> QED
      BY <2>1, <2>6, FS_Subset, FS_CardinalityType DEF ofP
  <2> HIDE DEF ids, ofP
  <2>8. Cardinality(ofP) <= 3
    BY <2>6, <2>7
  <2> QED
    BY <2>8 DEF MaxRetries, ofP
<1> QED
  BY <1>1, IdsInvariant, PTL
-----------------------------------------------------------------------------
(* Where a piece is, against the ids it was sent and stored under.          *)

\* The current id of p was sent only if its post is finished or its answer is being
\* handled; it is stored once the post has succeeded.
AnswerAt(t, p) == thread[t].at \in {"post_failed", "finish_post"} /\ thread[t].cmd = ToPost(p)
SuccessAt(t, p) == thread[t].at = "finish_post" /\ thread[t].cmd = ToPost(p)

CurrentId(p) == <<p, header_nonce[p]>>

SentInv ==
  \A p \in PieceIds :
    CurrentId(p) \in sent => ToPost(p) \in finished \/ \E t \in Threads : AnswerAt(t, p)

StoredInv ==
  \A p \in PieceIds :
    ToPost(p) \in finished \/ (\E t \in Threads : SuccessAt(t, p)) => CurrentId(p) \in stored

Posted == {p \in PieceIds : ToPost(p) \in finished}

CountInv == num_posted = Cardinality(Posted)

PieceInv == SentInv /\ StoredInv /\ CountInv

MainInv == TypeOK /\ CommandsAccountedFor /\ IdInv /\ PieceInv

LEMMA InitPieces == MainInit => PieceInv
<1> SUFFICES ASSUME MainInit PROVE PieceInv
  OBVIOUS
<1>1. sent = {} /\ finished = {} /\ num_posted = 0 /\ \A t \in Threads : thread[t] = Running
  BY DEF MainInit, Init
<1>2. SentInv /\ StoredInv
  BY <1>1 DEF SentInv, StoredInv, SuccessAt, Running
<1>3. Posted = {}
  BY <1>1 DEF Posted
<1> QED
  BY <1>1, <1>2, <1>3, FS_EmptySet DEF PieceInv, CountInv

\* A step that touches neither ids nor finished commands and takes no answer away.
LEMMA PiecesStay ==
  ASSUME PieceInv, UNCHANGED <<finished, header_nonce, num_posted, sent, stored>>,
         \A u \in Threads : thread[u].at \in {"post_failed", "finish_post"} => thread'[u] = thread[u],
         \A u \in Threads : thread'[u].at = "finish_post" => thread'[u] = thread[u]
  PROVE  PieceInv'
<1>1. \A u \in Threads, p \in PieceIds : AnswerAt(u, p) => AnswerAt(u, p)'
  BY DEF AnswerAt
<1>2. \A u \in Threads, p \in PieceIds : SuccessAt(u, p)' => SuccessAt(u, p)
  BY DEF SuccessAt
<1>3. \A p \in PieceIds : CurrentId(p)' = CurrentId(p)
  BY DEF CurrentId
<1>4. Posted' = Posted
  BY DEF Posted
<1> QED
  BY <1>1, <1>2, <1>3, <1>4 DEF PieceInv, SentInv, StoredInv, CountInv

LEMMA PoolStepKeepsPieces ==
  ASSUME TypeOK, PieceInv, PoolStep
  PROVE  PieceInv'
<1>1. thread \in [Threads -> ThreadStates] /\ Running.at = "run" /\ Exited.at = "exited"
  BY DEF TypeOK, Running, Exited
<1>2. UNCHANGED <<header_nonce, num_posted, sent, stored>>
  BY DEF PoolStep, mainVars, serverVars
<1>3. ASSUME NEW t \in Threads, thread' = [thread EXCEPT ![t] = Running] \/ thread' = [thread EXCEPT ![t] = Exited],
             thread[t].at \notin {"post_failed", "finish_post"}, UNCHANGED finished
      PROVE  PieceInv'
  BY <1>1, <1>2, <1>3, PiecesStay
<1>4. CASE UNCHANGED <<thread, finished>>
  BY <1>2, <1>4, PiecesStay
<1>5. ASSUME NEW t \in Threads, NEW c \in Conns, OnStatFinished(t, c)
      PROVE  PieceInv'
  <2>1. thread[t] = Running /\ UNCHANGED finished
    BY <1>5 DEF OnStatFinished, CanRun
  <2>2. CASE UNCHANGED thread
    BY <1>4, <2>1, <2>2
  <2>3. ASSUME NEW result, Continue(t, "finish_stat", None, conn[c].cmd, result) PROVE PieceInv'
    BY <1>1, <1>2, <2>1, <2>3, PiecesStay DEF Continue
  <2> QED
    BY <1>5, <2>2, <2>3 DEF OnStatFinished, StatConnectionError
<1>6. ASSUME NEW t \in Threads, BecomeReady(t) \/ DispatchOrQueue(t) \/ IoExit(t)
      PROVE  PieceInv'
  BY <1>1, <1>3, <1>6 DEF BecomeReady, DispatchOrQueue, IoExit, At, Return
<1>7. CASE EnqueueNow \/ StartWaiting \/ WakeAndPush \/ WaitAgain \/ StopReads \/ StopResets
  BY <1>4, <1>7 DEF EnqueueNow, StartWaiting, WakeAndPush, WaitAgain, StopReads, StopResets
<1>8. ASSUME NEW t \in Threads, NEW c \in Conns, OnConnected(t, c) \/ OnQuitWritten(t, c)
      PROVE  PieceInv'
  BY <1>4, <1>8 DEF OnConnected, OnQuitWritten
<1>9. CASE StartOnSentinel \/ Ended
  BY <1>4, <1>9 DEF StartOnSentinel, Ended, vars
<1> QED
  BY <1>5, <1>6, <1>7, <1>8, <1>9 DEF PoolStep

LEMMA SendsKeepPieces ==
  ASSUME TypeOK, PieceInv, NEW t \in Threads, NEW c \in Conns, PostReachesServer(t, c)
  PROVE  PieceInv'
<1> DEFINE p == conn[c].cmd.piece
           result == thread'[t].result
<1>1. conn[c].cmd = ToPost(p)
  BY CommandsOfMain DEF PostReachesServer, OnPostFinished
<1>2. /\ thread[t] = Running /\ thread \in [Threads -> ThreadStates]
      /\ UNCHANGED <<finished, header_nonce, num_posted>>
  BY DEF PostReachesServer, OnPostFinished, CanRun, TypeOK, mainVars
<1>3. /\ thread'[t].cmd = ToPost(p)
      /\ \/ thread'[t].at = "dispatch_or_queue" /\ result = "POSTING_NOT_PERMITTED"
         \/ thread'[t].at = "post_failed" /\ result \in {"POST_FAILURE", "POST_FAILURE_CONNECTION_ERROR"}
         \/ thread'[t].at = "finish_post" /\ result = "POST_SUCCESS"
      /\ \A u \in Threads : u # t => thread'[u] = thread[u]
  BY <1>1, <1>2
  DEF PostReachesServer, OnPostFinished, PostNotPermitted, PostFailure, PostConnectionError, PostSuccess,
      Continue
<1>4. /\ sent' = sent \/ (sent' = sent \cup {CurrentId(p)} /\ thread'[t].at \in {"post_failed", "finish_post"})
      /\ stored \subseteq stored'
      /\ thread'[t].at = "finish_post" => CurrentId(p) \in stored'
  BY <1>3 DEF PostReachesServer, CurrentId
<1>5. \A q \in PieceIds : CurrentId(q)' = CurrentId(q) /\ (CurrentId(q) = CurrentId(p) => q = p)
  BY <1>2 DEF CurrentId
<1>6. Running.at = "run"
  BY DEF Running
<1>7. SentInv'
  <2> SUFFICES ASSUME NEW q \in PieceIds, CurrentId(q) \in sent', ToPost(q) \notin finished
               PROVE  \E u \in Threads : AnswerAt(u, q)'
    BY <1>2, <1>5 DEF SentInv
  <2>1. CASE CurrentId(q) \in sent
    <3>1. PICK u \in Threads : AnswerAt(u, q)
      BY <2>1 DEF PieceInv, SentInv
    <3>2. u # t
      BY <3>1, <1>2, <1>6 DEF AnswerAt
    <3> QED
      BY <3>1, <3>2, <1>3 DEF AnswerAt
  <2>2. CASE CurrentId(q) \notin sent
    BY <2>2, <1>3, <1>4, <1>5 DEF AnswerAt
  <2> QED
    BY <2>1, <2>2
<1>8. StoredInv'
  <2> SUFFICES ASSUME NEW q \in PieceIds,
                      ToPost(q) \in finished \/ \E u \in Threads : SuccessAt(u, q)'
               PROVE  CurrentId(q) \in stored'
    BY <1>2, <1>5 DEF StoredInv
  <2>1. CASE SuccessAt(t, q)'
    <3>1. q = p
      BY <2>1, <1>3 DEF SuccessAt, ToPost
    <3> QED
      BY <2>1, <3>1, <1>4 DEF SuccessAt
  <2>2. ASSUME NEW u \in Threads, u # t, SuccessAt(u, q)' PROVE SuccessAt(u, q)
    BY <2>2, <1>3 DEF SuccessAt
  <2> QED
    BY <2>1, <2>2, <1>4 DEF PieceInv, StoredInv
<1>9. CountInv'
  BY <1>2 DEF PieceInv, CountInv, Posted
<1> QED
  BY <1>7, <1>8, <1>9 DEF PieceInv

\* No other handler has the command of this one, and it is not finished.
LEMMA OnlyHere ==
  ASSUME TypeOK, CommandsAccountedFor, NEW t \in Threads, thread[t].cmd \in Commands
  PROVE  /\ thread[t].cmd \notin finished
         /\ \A u \in Threads : thread[u].cmd = thread[t].cmd => u = t
         /\ thread[t].cmd \notin Queued \cup OnConns
<1>1. None \notin Commands
  BY PoolAssumption
<1>2. thread[t].cmd \in InThreads
  BY <1>1 DEF InThreads
<1> QED
  BY <1>1, <1>2 DEF CommandsAccountedFor

LEMMA RetryKeepsPieces ==
  ASSUME TypeOK, CommandsAccountedFor, IdInv, PieceInv, NEW t \in Threads, RetryUnderNewId(t)
  PROVE  PieceInv'
<1>1. thread[t].at = "post_failed" /\ proc = "running"
  BY DEF RetryUnderNewId, At
<1>2. PICK p \in PieceIds : thread[t].cmd = ToPost(p)
  BY <1>1, CommandsOfMain
<1>3. thread[t].cmd \in Commands /\ thread[t].cmd.piece = p
  BY <1>1, <1>2, CommandsOfMain DEF ToPost
<1>4. /\ UNCHANGED <<finished, num_posted, sent, stored>>
      /\ header_nonce' = [header_nonce EXCEPT ![p] = Failures(t)]
  BY <1>3 DEF RetryUnderNewId, PutBack, Requeue, serverVars
<1>5. /\ header_nonce \in [PieceIds -> 0..(MaxRetries - 1)]
      /\ Failures(t) = header_nonce[p] + 1
      /\ \A id \in sent : id[2] <= header_nonce[id[1]]
  BY <1>1, <1>3 DEF IdInv, Failures
<1>6. \A u \in Threads : u # t => thread'[u] = thread[u]
  BY DEF RetryUnderNewId, PutBack, Requeue, Continue, Return, TypeOK
<1>7. thread'[t].at # "finish_post"
  <2>1. thread'[t] = Running \/ thread'[t].at = "becomes_ready"
    BY DEF RetryUnderNewId, PutBack, Requeue, Continue, Return, TypeOK
  <2> QED
    BY <2>1 DEF Running
<1>8. /\ CurrentId(p)' = <<p, header_nonce[p] + 1>>
      /\ \A q \in PieceIds : q # p => CurrentId(q)' = CurrentId(q)
  BY <1>1, <1>4, <1>5 DEF CurrentId
<1>9. CurrentId(p)' \notin sent
  <2> SUFFICES ASSUME <<p, header_nonce[p] + 1>> \in sent PROVE FALSE
    BY <1>8
  <2>1. header_nonce[p] + 1 <= header_nonce[p]
    BY <1>5
  <2>2. header_nonce[p] \in Int
    BY <1>1, <1>5 DEF MaxRetries
  <2> QED
    BY <2>1, <2>2
<1>10. SentInv'
  <2> SUFFICES ASSUME NEW q \in PieceIds, CurrentId(q)' \in sent, ToPost(q) \notin finished
               PROVE  \E u \in Threads : AnswerAt(u, q)'
    BY <1>4 DEF SentInv
  <2>1. q # p
    BY <1>9
  <2>2. PICK u \in Threads : AnswerAt(u, q)
    BY <1>8, <2>1 DEF PieceInv, SentInv
  <2>3. u # t
    BY <1>2, <2>1, <2>2 DEF AnswerAt, ToPost
  <2> QED
    BY <2>2, <2>3, <1>6 DEF AnswerAt
<1>11. StoredInv'
  <2> SUFFICES ASSUME NEW q \in PieceIds,
                      ToPost(q) \in finished \/ \E u \in Threads : SuccessAt(u, q)'
               PROVE  CurrentId(q)' \in stored
    BY <1>4 DEF StoredInv
  <2>1. ToPost(q) \in finished \/ \E u \in Threads : u # t /\ SuccessAt(u, q)
    BY <1>6, <1>7 DEF SuccessAt
  <2>2. q # p
    BY <1>2, <1>3, <2>1, OnlyHere DEF SuccessAt
  <2> QED
    BY <1>8, <2>1, <2>2 DEF PieceInv, StoredInv
<1>12. CountInv'
  BY <1>4 DEF PieceInv, CountInv, Posted
<1> QED
  BY <1>10, <1>11, <1>12 DEF PieceInv

LEMMA PiecesAreFinite == IsFiniteSet(PieceIds) /\ Cardinality(PieceIds) = NumPieces
<1>1. NumPieces \in Nat
  BY MainAssumption
<1> QED
  BY <1>1, FS_Interval DEF PieceIds

LEMMA PendingCommands ==
  ASSUME TypeOK
  PROVE  \A cmd \in Queued \cup OnConns : cmd \in Commands
<1>1. Queued \subseteq Commands
  BY PendingTypes
<1>2. ASSUME NEW c \in Conns, conn[c].cmd # None PROVE conn[c].cmd \in Commands
  <2>1. conn[c] \in ConnStates
    BY DEF TypeOK, PoolTypeOK
  <2> QED
    BY <1>2, <2>1 DEF ConnStates, Connecting, Idle, Quitting, Closed, Dead, Doing
<1> QED
  BY <1>1, <1>2 DEF OnConns

LEMMA Concatenation ==
  ASSUME NEW n \in Nat, NEW f, NEW g, f = [i \in 1..n |-> ToPost(i)],
         g = <<>> \/ g = [i \in 1..n |-> ToStat(i)]
  PROVE  \A i \in 1..n : i \in DOMAIN (f \o g) /\ (f \o g)[i] = ToPost(i)
<1>1. f \in Seq({ToPost(i) : i \in 1..n}) /\ Len(f) = n
  OBVIOUS
<1>2. g \in Seq({ToStat(i) : i \in 1..n})
  <2>1. CASE g = <<>>
    BY <2>1
  <2>2. CASE g = [i \in 1..n |-> ToStat(i)]
    BY <2>2
  <2> QED
    BY <2>1, <2>2
<1> QED
  BY <1>1, <1>2

LEMMA FinishKeepsPieces ==
  ASSUME TypeOK, CommandsAccountedFor, IdInv, PieceInv, NEW t \in Threads, CountPosted(t) \/ PrintChecked(t)
  PROVE  PieceInv'
<1>1. /\ thread' = [thread EXCEPT ![t] = Running] /\ finished' = finished \cup {thread[t].cmd}
      /\ UNCHANGED <<header_nonce, sent, stored>>
  BY DEF CountPosted, PrintChecked, Finish, Return, mainVars, serverVars
<1>2. /\ \A u \in Threads : u # t => thread'[u] = thread[u]
      /\ thread'[t].at = "run"
  BY <1>1 DEF TypeOK, Running
<1>3. \A q \in PieceIds : CurrentId(q)' = CurrentId(q)
  BY <1>1 DEF CurrentId
<1>4. SentInv'
  <2> SUFFICES ASSUME NEW q \in PieceIds, CurrentId(q) \in sent, ToPost(q) \notin finished'
               PROVE  \E u \in Threads : AnswerAt(u, q)'
    BY <1>1, <1>3 DEF SentInv
  <2>1. PICK u \in Threads : AnswerAt(u, q)
    BY <1>1 DEF PieceInv, SentInv
  <2>2. u # t
    BY <1>1, <2>1 DEF AnswerAt
  <2> QED
    BY <1>2, <2>1, <2>2 DEF AnswerAt
<1>5. ASSUME NEW q \in PieceIds, \E u \in Threads : SuccessAt(u, q)'
      PROVE  \E u \in Threads : SuccessAt(u, q)
  BY <1>2, <1>5 DEF SuccessAt
<1>6. CASE CountPosted(t)
  <2>1. PICK p \in PieceIds : thread[t].cmd = ToPost(p)
    BY <1>6, CommandsOfMain DEF CountPosted, At
  <2>2. SuccessAt(t, p) /\ ToPost(p) \notin finished
    BY <1>6, <2>1, CommandsOfMain, OnlyHere DEF CountPosted, At, SuccessAt
  <2>3. \A q \in PieceIds : ToPost(q) \in finished' <=> ToPost(q) \in finished \/ q = p
    BY <1>1, <2>1 DEF ToPost
  <2>4. StoredInv'
    BY <1>1, <1>3, <1>5, <2>2, <2>3 DEF PieceInv, StoredInv
  <2>5. Posted' = Posted \cup {p} /\ p \notin Posted
    BY <2>2, <2>3 DEF Posted
  <2>6. IsFiniteSet(Posted)
    BY PiecesAreFinite, FS_Subset DEF Posted
  <2>7. CountInv'
    BY <1>6, <2>5, <2>6, FS_AddElement DEF CountPosted, PieceInv, CountInv
  <2> QED
    BY <1>4, <2>4, <2>7 DEF PieceInv
<1>7. CASE PrintChecked(t)
  <2>1. thread[t].cmd.kind = "stat"
    BY <1>7, CommandsOfMain DEF PrintChecked, At, Stats
  <2>2. \A q \in PieceIds : ToPost(q) \in finished' <=> ToPost(q) \in finished
    BY <1>1, <2>1 DEF ToPost
  <2>3. StoredInv'
    BY <1>1, <1>3, <1>5, <2>2 DEF PieceInv, StoredInv
  <2>4. Posted' = Posted /\ num_posted' = num_posted
    BY <1>7, <2>2 DEF Posted, PrintChecked, mainVars
  <2> QED
    BY <1>4, <2>3, <2>4 DEF PieceInv, CountInv
<1> QED
  BY <1>6, <1>7

LEMMA NextKeepsPieces ==
  ASSUME TypeOK, CommandsAccountedFor, IdInv, PieceInv, [MainNext]_allVars
  PROVE  PieceInv'
<1>1. ASSUME NEW t \in Threads,
             RetryUnderNewId(t) \/ TooManyRetries(t) \/ CountPosted(t) \/ PrintChecked(t)
      PROVE  PieceInv'
  <2>1. CASE TooManyRetries(t)
    <3>1. UNCHANGED <<thread, finished, header_nonce, num_posted, sent, stored>>
      BY <2>1 DEF TooManyRetries, Abort, serverVars
    <3> QED
      BY <3>1, PiecesStay
  <2> QED
    BY <1>1, <2>1, RetryKeepsPieces, FinishKeepsPieces
<1>2. CASE ExitMain \/ UNCHANGED allVars
  <2>1. UNCHANGED <<thread, finished, header_nonce, num_posted, sent, stored>>
    BY <1>2 DEF ExitMain, JoinAndExit, allVars, vars, mainVars, serverVars
  <2> QED
    BY <2>1, PiecesStay
<1> QED
  BY <1>1, <1>2, PoolStepKeepsPieces, SendsKeepPieces DEF MainNext

LEMMA MainInvariant == MainSpec => []MainInv
<1>1. MainSpec => []CommandsAccountedFor
  BY MainIsPool, NothingIsLost, PTL
<1>2. TypeOK /\ CommandsAccountedFor /\ IdInv /\ PieceInv /\ [MainNext]_allVars => PieceInv'
  BY NextKeepsPieces
<1> QED
  BY <1>1, <1>2, IdsInvariant, InitPieces, PTL DEF MainSpec, MainInv

\* Whatever fails in whatever order, an article is never sent again under an id that
\* a server has seen (main.cc:196-252, usenet.cc:186-264).
THEOREM NoIdIsReused == MainSpec => []FreshIdOnEverySend
<1>1. MainInv => FreshIdOnEverySend
  <2> SUFFICES ASSUME MainInv, NEW cmd \in AwaitingSend, <<cmd.piece, header_nonce[cmd.piece]>> \in sent
               PROVE  FALSE
    BY DEF FreshIdOnEverySend
  <2>1. cmd \in Posts /\ cmd \notin finished /\ \A t \in Threads : ~AnswerAt(t, cmd.piece)
    <3>1. CASE cmd \in Queued \cup OnConns /\ cmd.kind = "post"
      <4>1. cmd \in Commands
        BY <3>1, PendingCommands DEF MainInv
      <4>2. cmd \notin InThreads \cup finished /\ cmd # None
        BY <3>1, <4>1, PoolAssumption DEF MainInv, CommandsAccountedFor
      <4>3. cmd = ToPost(cmd.piece)
        BY <3>1, <4>1 DEF Commands, ToPost
      <4> QED
        BY <3>1, <4>1, <4>2, <4>3 DEF AnswerAt, InThreads, Posts
    <3>2. ASSUME NEW u \in Threads, thread[u].at = "dispatch_or_queue", cmd = thread[u].cmd
          PROVE  cmd \in Posts /\ cmd \notin finished /\ \A t \in Threads : ~AnswerAt(t, cmd.piece)
      <4>1. cmd \in Posts /\ cmd \in Commands /\ cmd = ToPost(cmd.piece)
        BY <3>2, CommandsOfMain DEF MainInv
      <4> QED
        BY <3>2, <4>1, OnlyHere DEF AnswerAt, MainInv
    <3> QED
      BY <3>1, <3>2 DEF AwaitingSend
  <2>2. cmd.piece \in PieceIds /\ cmd = ToPost(cmd.piece)
    BY <2>1, MainAssumption DEF Posts, Commands, ToPost
  <2> QED
    BY <2>1, <2>2 DEF MainInv, PieceInv, SentInv, CurrentId
<1> QED
  BY <1>1, MainInvariant, PTL

LEMMA AllPostsAtExit ==
  ASSUME ExitZeroMeansFinished, proc = "exit0"
  PROVE  \A p \in PieceIds : ToPost(p) \in finished
<1> SUFFICES ASSUME NEW p \in PieceIds PROVE ToPost(p) \in finished
  OBVIOUS
<1>1. NumPieces \in Nat /\ Script = MainScript
  BY MainAssumption
<1>2. p \in DOMAIN Script /\ Script[p] = ToPost(p)
  BY <1>1, Concatenation DEF MainScript, PieceIds
<1> QED
  BY <1>2 DEF ExitZeroMeansFinished, Elements

\* What the nzb file lists was taken by the servers, for any number of pieces,
\* connections and failures (main.cc:59-90 and 335-355).
THEOREM NzbIsTrue == MainSpec => []NzbListsStoredArticles
<1>1. MainSpec => []ExitZeroMeansFinished
  BY MainIsPool, ExitZeroIsTrue, PTL
<1>2. MainInv /\ ExitZeroMeansFinished => NzbListsStoredArticles
  <2> SUFFICES ASSUME MainInv, ExitZeroMeansFinished, nzb # None, NEW p \in PieceIds
               PROVE  <<p, nzb[p]>> \in stored
    BY DEF NzbListsStoredArticles
  <2>1. proc = "exit0" /\ nzb = header_nonce
    BY DEF MainInv, IdInv
  <2>2. ToPost(p) \in finished
    BY <2>1, AllPostsAtExit
  <2> QED
    BY <2>1, <2>2 DEF MainInv, PieceInv, StoredInv, CurrentId
<1> QED
  BY <1>1, <1>2, MainInvariant, PTL

\* The percentage that is printed never exceeds 100 and the remaining pieces never
\* wrap below zero; at exit status 0 all are counted (main.cc:254-285).
THEOREM ProgressIsTrue == MainSpec => []ProgressIsExact
<1>1. MainSpec => []ExitZeroMeansFinished
  BY MainIsPool, ExitZeroIsTrue, PTL
<1>2. MainInv /\ ExitZeroMeansFinished => ProgressIsExact
  <2> SUFFICES ASSUME MainInv, ExitZeroMeansFinished PROVE ProgressIsExact
    OBVIOUS
  <2>1. IsFiniteSet(PieceIds) /\ Cardinality(PieceIds) = NumPieces
    BY PiecesAreFinite
  <2>2. num_posted = Cardinality(Posted) /\ Posted \subseteq PieceIds
    BY DEF MainInv, PieceInv, CountInv, Posted
  <2>3. num_posted <= NumPieces
    BY <2>1, <2>2, FS_Subset
  <2>4. proc = "exit0" => Posted = PieceIds
    BY AllPostsAtExit DEF Posted
  <2> QED
    BY <2>1, <2>2, <2>3, <2>4 DEF ProgressIsExact
<1> QED
  BY <1>1, <1>2, MainInvariant, PTL
=============================================================================
