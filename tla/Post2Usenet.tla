----------------------------- MODULE Post2Usenet -----------------------------
(***************************************************************************)
(* The program of src/src/main.cc on top of the pool of module Usenet: it  *)
(* posts every piece of every file, optionally asks for each of them with  *)
(* STAT, retries failed posts under a new message id, counts progress and  *)
(* writes the nzb file.                                                    *)
(*                                                                         *)
(* A message id <nonce.file.piece@domain> is the pair of a piece and a     *)
(* nonce: 0 is the nonce of the run, n > 0 the one that get_run_nonce drew *)
(* for the n-th retry of that piece (draws are taken to be distinct).      *)
(***************************************************************************)
EXTENDS Usenet

CONSTANTS NumPieces,   \* total_parts: the pieces of all the files together
          Validate     \* cfg.validate_posts

PieceIds == 1..NumPieces
ToPost(p) == [kind |-> "post", piece |-> p]
ToStat(p) == [kind |-> "stat", piece |-> p]

\* The order in which main calls enqueue_post and enqueue_stat.
MainScript ==
  [p \in PieceIds |-> ToPost(p)] \o IF Validate THEN [p \in PieceIds |-> ToStat(p)] ELSE <<>>

ASSUME MainAssumption ==
  /\ NumPieces \in Nat
  /\ Validate \in BOOLEAN
  /\ Pieces = PieceIds
  /\ Script = MainScript
  /\ Cardinality(Threads) = 1    \* its callbacks are written for one (main.cc:173)

MaxRetries == 3        \* main.cc:196

Nonces == 0..MaxRetries

VARIABLES
  msgid_retries,     \* the map's value for each piece; 0 when it has none
  msgid_exceptions,  \* likewise, the nonce that replaces the one of the run
  header_nonce,      \* the nonce in the header of each article object
  num_posted,
  nzb,               \* the nonce written for each piece; None: no file written
  sent,              \* ids under which an article went out to a server
  stored,            \* ids of the articles the servers have taken
  checked            \* pairs of a piece and the result its STAT brought

mainVars == <<msgid_retries, msgid_exceptions, header_nonce, num_posted, nzb>>
serverVars == <<sent, stored, checked>>
allVars == <<vars, mainVars, serverVars>>

MainInit ==
  /\ Init
  /\ msgid_retries = [p \in PieceIds |-> 0]
  /\ msgid_exceptions = [p \in PieceIds |-> 0]
  /\ header_nonce = [p \in PieceIds |-> 0]
  /\ num_posted = 0
  /\ nzb = None
  /\ sent = {}
  /\ stored = {}
  /\ checked = {}

-----------------------------------------------------------------------------
(* The servers: what became of an article, told by the result of its post.  *)

\* A post cut off by the connection may have been sent or not, and taken or not.
PostReachesServer(t, c) ==
  /\ OnPostFinished(t, c)
  /\ LET p == conn[c].cmd.piece
         id == <<p, header_nonce[p]>>
         result == thread'[t].result
     IN \/ /\ result = "POSTING_NOT_PERMITTED"
           /\ UNCHANGED <<sent, stored>>
        \/ /\ result \in {"POST_FAILURE", "POST_FAILURE_CONNECTION_ERROR"}
           /\ sent' = sent \cup {id}
           /\ UNCHANGED stored
        \/ /\ result \in {"POST_SUCCESS", "POST_FAILURE_CONNECTION_ERROR"}
           /\ sent' = sent \cup {id}
           /\ stored' = stored \cup {id}
        \/ /\ result = "POST_FAILURE_CONNECTION_ERROR"
           /\ UNCHANGED <<sent, stored>>
  /\ UNCHANGED <<mainVars, checked>>

-----------------------------------------------------------------------------
(* The callbacks of main.                                                   *)

Failures(t) == msgid_retries[thread[t].cmd.piece] + 1

\* The article goes back to the pool, past the queue limit.
PutBack(t, tries, exception, header) ==
  LET p == thread[t].cmd.piece
  IN /\ Requeue(t)
     /\ msgid_retries' = [msgid_retries EXCEPT ![p] = tries]
     /\ msgid_exceptions' = [msgid_exceptions EXCEPT ![p] = exception]
     /\ header_nonce' = [header_nonce EXCEPT ![p] = header]
     /\ UNCHANGED <<num_posted, nzb, serverVars>>

\* Defect: one failure more is forgiven.
RetryOnceMore(t) ==
  /\ At(t, "post_failed")
  /\ Failures(t) <= MaxRetries
  /\ PutBack(t, Failures(t), Failures(t), Failures(t))

\* Defect: the new id does not get into the header of the article.
RetryUnderOldId(t) ==
  /\ At(t, "post_failed")
  /\ Failures(t) < MaxRetries
  /\ PutBack(t, Failures(t), Failures(t), 0)

\* Defect: the new id is not recorded as an exception.
RetryUnrecorded(t) ==
  /\ At(t, "post_failed")
  /\ Failures(t) < MaxRetries
  /\ PutBack(t, Failures(t), 0, Failures(t))

\* Defect: failures are not added up.
RetryUncounted(t) ==
  /\ At(t, "post_failed")
  /\ Failures(t) < MaxRetries
  /\ PutBack(t, 1, 1, 1)

\* set_post_failed_callback: the failure is counted and the article gets a new
\* message id, which is recorded as an exception.
RetryUnderNewId(t) ==
  /\ At(t, "post_failed")
  /\ Failures(t) < MaxRetries
  /\ PutBack(t, Failures(t), Failures(t), Failures(t))

\* ... until it has failed too often: the article is dumped and the program exits.
TooManyRetries(t) ==
  /\ Abort(t)
  /\ Failures(t) >= MaxRetries
  /\ msgid_retries' = [msgid_retries EXCEPT ![thread[t].cmd.piece] = Failures(t)]
  /\ UNCHANGED <<msgid_exceptions, header_nonce, num_posted, nzb, serverVars>>

\* set_post_finished_callback.
CountPosted(t) ==
  /\ At(t, "finish_post")
  /\ Finish(t)
  /\ num_posted' = num_posted + 1
  /\ UNCHANGED <<msgid_retries, msgid_exceptions, header_nonce, nzb, serverVars>>

\* Defect: a piece that was checked is counted like one that was posted.
CountChecked(t) ==
  /\ At(t, "finish_stat")
  /\ Finish(t)
  /\ num_posted' = num_posted + 1
  /\ checked' = checked \cup {<<thread[t].cmd.piece, thread[t].result>>}
  /\ UNCHANGED <<msgid_retries, msgid_exceptions, header_nonce, nzb, sent, stored>>

\* set_stat_finished_callback: the result is printed, and that is all.
PrintChecked(t) ==
  /\ At(t, "finish_stat")
  /\ Finish(t)
  /\ checked' = checked \cup {<<thread[t].cmd.piece, thread[t].result>>}
  /\ UNCHANGED <<mainVars, sent, stored>>

\* The end of main: the nzb file names every piece by the exception's nonce if
\* there is one.  No file was asked for, or it cannot be opened: none is written.
ExitMain ==
  /\ JoinAndExit
  /\ nzb' \in IF proc' = "exit0" THEN {None, msgid_exceptions} ELSE {None}
  /\ UNCHANGED <<msgid_retries, msgid_exceptions, header_nonce, num_posted, serverVars>>

\* The steps of the pool that main does not see.
PoolStep ==
  /\ \/ EnqueueNow \/ StartWaiting \/ WakeAndPush \/ WaitAgain \/ StopReads \/ StopResets
     \/ \E t \in Threads, c \in Conns :
          OnConnected(t, c) \/ OnStatFinished(t, c) \/ OnQuitWritten(t, c)
     \/ \E t \in Threads : BecomeReady(t) \/ DispatchOrQueue(t) \/ IoExit(t)
     \/ StartOnSentinel
     \/ Ended
  /\ UNCHANGED <<mainVars, serverVars>>

MainNext ==
  \/ PoolStep
  \/ \E t \in Threads, c \in Conns : PostReachesServer(t, c)
  \/ \E t \in Threads :
       RetryUnderNewId(t) \/ TooManyRetries(t) \/ CountPosted(t) \/ PrintChecked(t)
  \/ ExitMain

MainSpec == MainInit /\ [][MainNext]_allVars

\* The calling thread, without spurious wakeups of m_queuecv.
MainThread ==
  \/ /\ EnqueueNow \/ StartWaiting \/ (notified /\ WakeAndPush) \/ WaitAgain
          \/ StopReads \/ StopResets
     /\ UNCHANGED <<mainVars, serverVars>>
  \/ ExitMain

IoThread(t) ==
  \/ RetryUnderNewId(t) \/ TooManyRetries(t) \/ CountPosted(t) \/ PrintChecked(t)
  \/ (BecomeReady(t) \/ DispatchOrQueue(t) \/ IoExit(t)) /\ UNCHANGED <<mainVars, serverVars>>

\* Some io thread begins the completion handler of connection c.
CompletionOf(c) ==
  \E t \in Threads :
    \/ PostReachesServer(t, c)
    \/ /\ OnConnected(t, c) \/ OnStatFinished(t, c) \/ OnQuitWritten(t, c)
       /\ UNCHANGED <<mainVars, serverVars>>

\* The threads are scheduled, and a thread goes on inside a handler until it
\* returns.  No operation of a connection is assumed to end, but the write of QUIT:
\* its connection is erased at once, which ends it.
Fairness ==
  /\ WF_allVars(MainThread)
  /\ \A t \in Threads : WF_allVars(IoThread(t))
  /\ WF_allVars(StartOnSentinel /\ UNCHANGED <<mainVars, serverVars>>)
  /\ \A c \in Conns :
       SF_allVars(\E t \in Threads : OnQuitWritten(t, c) /\ UNCHANGED <<mainVars, serverVars>>)

FairMainSpec == MainSpec /\ Fairness

\* The same in a world where every operation ends and no handler is passed over
\* for ever: what goes wrong here goes wrong with the best of servers.
AnsweringSpec == FairMainSpec /\ \A c \in Conns : SF_allVars(CompletionOf(c))

-----------------------------------------------------------------------------
(* Properties.                                                              *)

\* Every variable of main and of the servers has its type.
MainTypeOK ==
  /\ msgid_retries \in [PieceIds -> 0..MaxRetries]
  /\ msgid_exceptions \in [PieceIds -> Nonces]
  /\ header_nonce \in [PieceIds -> Nonces]
  /\ num_posted \in Nat
  /\ nzb \in {None, msgid_exceptions}
  /\ sent \subseteq PieceIds \X Nonces
  /\ stored \subseteq sent
  /\ checked \subseteq PieceIds \X {"ARTICLE_EXISTS", "INVALID_ARTICLE"}

\* The nzb file written at exit status 0 names, for every piece, an id under which
\* the servers have taken it, whatever failed and was retried on the way
\* (main.cc:72-74 against main.cc:254-255).
NzbListsStoredArticles == nzb # None => \A p \in PieceIds : <<p, nzb[p]>> \in stored

AwaitingSend ==
  {cmd \in Queued \cup OnConns : cmd.kind = "post"}
    \cup {thread[t].cmd : t \in {u \in Threads : thread[u].at = "dispatch_or_queue"}}

\* "Try changing the message id and restarting" (main.cc:232): an article that is
\* about to be sent has an id it was never sent under, so a server that took it
\* before the connection broke sees no second article with that id.
FreshIdOnEverySend ==
  \A cmd \in AwaitingSend : <<cmd.piece, header_nonce[cmd.piece]>> \notin sent

\* A piece goes out at most MaxRetries times, over all connections and all kinds of
\* failure: the third failure ends the program (main.cc:196-228).
NoFourthAttempt ==
  \A p \in PieceIds : Cardinality({id \in sent : id[1] = p}) <= MaxRetries

\* total_parts - num_posted is computed in size_t (main.cc:277): it does not wrap,
\* and no piece is missing from the count when the program ends well.
ProgressIsExact ==
  /\ num_posted <= NumPieces
  /\ proc = "exit0" => num_posted = NumPieces

\* Nobody is left to notify the caller, who waits for room in the queue.
CallerAbandoned == main_at = "waiting" /\ \A c \in Conns : conn[c] = Dead

\* From some time on connection c waits for the end of one operation: its timeout
\* was lost (PostsTimeOut of module Connection), or it resolves, with no timeout.
NeverAnswered(c) ==
  \E s \in {Connecting} \cup {Doing(ToPost(p)) : p \in PieceIds} \cup {Doing(ToStat(p)) : p \in PieceIds} :
    <>[](conn[c] = s)

\* Whatever connect or post fails, the program posts everything or gives up.  The only ways not to
\* end are to lose the last connection while main waits on m_queuecv, and an
\* operation that is never answered, for which join() waits for ever (usenet.cc:88-95
\* and 112-115, main.cc:196-228 and 329-355, connection.cc:76-83 and 206).
EndsUnlessAbandoned ==
  <>(proc # "running" \/ CallerAbandoned) \/ \E c \in Conns : NeverAnswered(c)

\* What the one mutex is for: otherwise "we will end up with a connection that moves
\* to the free list and a remaining item in the queue. No work will progress."
\* (usenet.hpp:61-89): that state, should it arise, does not last.
WorkProgresses ==
  m_ready # <<>> /\ m_queue # <<>> ~> m_ready = <<>> \/ m_queue = <<>> \/ proc # "running"

\* main reaches its end even when the program "prematurely stopped"
\* (main.cc:332-333): it says that the workers died and exits.
Termination == <>(proc # "running")
=============================================================================
