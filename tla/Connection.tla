----------------------------- MODULE Connection -----------------------------
(***************************************************************************)
(* One object of class connection (src/src/nntp/connection.{hpp,cc}): its  *)
(* chain of callbacks, its timer and its socket, the io_service that runs  *)
(* its handlers, the server at the other end, and the pool that owns it    *)
(* and uses it the way the handlers of usenet.cc do.                       *)
(*                                                                         *)
(* An asynchronous operation is pending in op until the reactor queues its *)
(* handler in handlers, from which the io threads take them in order.  A   *)
(* composed operation (async_write, async_read_until) may need several     *)
(* turns: the result "some" puts it back into op.  A connection answers    *)
(* what it was asked by posting one more handler, which calls the pool.    *)
(* Definitions with a comment that begins with "Defect" are not part of    *)
(* the model: they are the same code with one mistake.                     *)
(***************************************************************************)
EXTENDS Naturals, Sequences, FiniteSets

CONSTANTS Threads,   \* the threads that run the io_service
          Items,     \* articles and message ids
          Tls,       \* conn.tls
          None

ASSUME ConnectionAssumption ==
  /\ IsFiniteSet(Threads) /\ Threads # {}
  /\ Tls \in BOOLEAN
  /\ None \notin Items

VARIABLES
  m_state,     \* member of the same name
  m_article, m_msgid, m_readbuf,
  sock,        \* m_sock: is it open?
  peer,        \* what the kernel knows of the other end
  wire,        \* lines from the server that have not been read
  owed,        \* the answer the server has to give next
  received,    \* the article it was sent whole since the last async_post
  stored,      \* the article it took on this socket since then
  op,          \* the operation that is pending
  timer,       \* a wait on m_timer is pending
  handlers,    \* handlers ready to run, in order
  thread,      \* which member an io thread has still to clear
  use,         \* what the pool has the connection do
  asked,       \* the article or message id it was given for that
  proc

object  == <<m_state, m_article, m_msgid, m_readbuf>>
network == <<sock, peer, wire, owed, received, stored>>
service == <<op, timer, handlers>>
owner   == <<use, asked>>
vars == <<object, network, service, owner, thread, proc>>

-----------------------------------------------------------------------------
(* The operations, in the order the callbacks chain them.                   *)

ConnectOps == {"resolve", "connect", "handshake", "greeting", "user", "user_answer",
               "pass", "pass_answer"}
PostOps    == {"post", "post_answer", "article", "article_answer"}
StatOps    == {"stat", "stat_answer"}

ASSUME OpsAssumption == None \notin ConnectOps \cup PostOps \cup StatOps

Reads  == {"greeting", "user_answer", "pass_answer", "post_answer", "article_answer",
           "stat_answer"}
Writes == {"user", "pass", "post", "article", "stat"}

\* Operations that may take several turns; a command fits in one write.
Composed == Reads \cup {"article", "handshake"}

AnswerTo == [user |-> "user_answer", pass |-> "pass_answer", post |-> "post_answer",
             article |-> "article_answer", stat |-> "stat_answer"]

\* First digits (381 for itself) of what a server answers.
Codes == [greeting |-> {"2", "4"}, user_answer |-> {"381", "2", "4"}, pass_answer |-> {"2", "4"},
          post_answer |-> {"3", "4"}, article_answer |-> {"2", "4"}, stat_answer |-> {"2", "4"}]

\* What the callback of a read makes of the line: the next operation or a result.
Reaction(read, code) ==
  CASE read = "greeting"       -> IF code = "2" THEN "user" ELSE "FATAL_CONNECT_ERROR"
    [] read = "user_answer" /\ code = "381" -> "pass"
    [] read \in {"user_answer", "pass_answer"} /\ code # "381" ->
                                  IF code = "2" THEN "CONNECT_SUCCESS" ELSE "INVALID_CREDENTIALS"
    [] read = "post_answer"    -> IF code = "4" THEN "POSTING_NOT_PERMITTED" ELSE "article"
    [] read = "article_answer" -> IF code = "2" THEN "POST_SUCCESS" ELSE "POST_FAILURE"
    [] read = "stat_answer"    -> IF code = "2" THEN "ARTICLE_EXISTS" ELSE "INVALID_ARTICLE"
    [] OTHER                   -> "INVALID_CREDENTIALS"

\* Defect: a STAT that failed is answered with the result of a post.
FailureUnsorted(o) ==
  IF o \in ConnectOps THEN "FATAL_CONNECT_ERROR" ELSE "POST_FAILURE_CONNECTION_ERROR"

\* What the callback of an operation that failed answers.
FailureOf(o) ==
  CASE o \in ConnectOps -> "FATAL_CONNECT_ERROR"
    [] o \in PostOps    -> "POST_FAILURE_CONNECTION_ERROR"
    [] o \in StatOps    -> "CONNECTION_ERROR"

Handler(kind, what, result, item) ==
  [kind |-> kind, what |-> what, result |-> result, item |-> item]
Do(what)         == Handler("do", what, None, None)
Io(o, result)    == Handler("io", o, result, None)
Expired          == Handler("expired", None, None, None)

Init ==
  /\ m_state = "DISCONNECTED"
  /\ m_article = None /\ m_msgid = None /\ m_readbuf = None
  /\ sock = "closed" /\ peer = "none" /\ wire = <<>> /\ owed = None
  /\ received = None /\ stored = None
  /\ op = None /\ timer = FALSE /\ handlers = <<Do("connect")>>
  /\ thread = [t \in Threads |-> None]
  /\ use = "connecting" /\ asked = None
  /\ proc = "running"

-----------------------------------------------------------------------------
(* The server and the network.                                              *)

ServerAnswers ==
  /\ proc = "running" /\ peer = "up" /\ owed # None
  /\ \E code \in Codes[owed] :
       /\ wire' = Append(wire, [to |-> owed, code |-> code])
       /\ stored' = IF owed = "article_answer" /\ code = "2" THEN received ELSE stored
  /\ owed' = None
  /\ UNCHANGED <<object, sock, peer, received, service, owner, thread, proc>>

\* It may say goodbye first, as servers do to idle connections.
ServerCloses ==
  /\ proc = "running" /\ peer = "up"
  /\ peer' = "fin"
  /\ wire' \in {wire, Append(wire, [to |-> "goodbye", code |-> "4"])}
  /\ owed' = None
  /\ UNCHANGED <<object, sock, received, stored, service, owner, thread, proc>>

ConnectionReset ==
  /\ proc = "running" /\ peer \in {"up", "fin"}
  /\ peer' = "rst"
  /\ wire' = <<>>
  /\ owed' = None
  /\ UNCHANGED <<object, sock, received, stored, service, owner, thread, proc>>

-----------------------------------------------------------------------------
(* The reactor: a pending operation gets its result.                        *)

Completes(result) ==
  /\ handlers' = Append(handlers, Io(op, result))
  /\ op' = None
  /\ UNCHANGED <<m_state, m_article, m_msgid, sock, stored, timer, owner, thread, proc>>

ResolveEnds ==
  /\ proc = "running" /\ op = "resolve"
  /\ \E result \in {"error", "all"} : Completes(result)
  /\ UNCHANGED <<m_readbuf, peer, wire, owed, received>>

\* connect() on a socket that was connected before and never closed fails.
ConnectEnds ==
  /\ proc = "running" /\ op = "connect"
  /\ \/ Completes("error") /\ UNCHANGED <<peer, owed>>
     \/ /\ peer = "none"
        /\ Completes("all")
        /\ peer' = "up"
        /\ owed' = IF Tls THEN None ELSE "greeting"
  /\ UNCHANGED <<m_readbuf, wire, received>>

HandshakeEnds ==
  /\ proc = "running" /\ op = "handshake"
  /\ \/ Completes("error") /\ UNCHANGED owed
     \/ peer = "up" /\ Completes("some") /\ UNCHANGED owed
     \/ peer = "up" /\ Completes("all") /\ owed' = "greeting"
  /\ UNCHANGED <<m_readbuf, peer, wire, received>>

WriteEnds ==
  /\ proc = "running" /\ op \in Writes
  /\ \/ peer # "up" /\ Completes("error") /\ UNCHANGED <<owed, received>>
     \/ peer # "rst" /\ op \in Composed /\ Completes("some") /\ UNCHANGED <<owed, received>>
     \/ /\ peer # "rst"
        /\ Completes("all")
        /\ owed' = IF peer = "up" THEN AnswerTo[op] ELSE None
        /\ received' = IF op = "article" THEN m_article ELSE received
  /\ UNCHANGED <<m_readbuf, peer, wire>>

\* A line arrives in one piece or in several; what has come of it is in m_readbuf.
ReadEnds ==
  /\ proc = "running" /\ op \in Reads
  /\ \/ peer # "up" /\ wire = <<>> /\ Completes("error") /\ UNCHANGED <<m_readbuf, wire>>
     \/ /\ wire # <<>>
        /\ m_readbuf' = IF m_readbuf = None THEN Head(wire) ELSE m_readbuf
        /\ \/ Completes("some") /\ UNCHANGED wire
           \/ Completes("all") /\ wire' = Tail(wire)
  /\ UNCHANGED <<peer, owed, received>>

TimerExpires ==
  /\ proc = "running" /\ timer
  /\ timer' = FALSE
  /\ handlers' = Append(handlers, Expired)
  /\ UNCHANGED <<object, network, op, owner, thread, proc>>

-----------------------------------------------------------------------------
(* The io threads: the first of handlers runs.                              *)

Runs(t, kind, whats, results) ==
  /\ proc = "running"
  /\ thread[t] = None
  /\ use # "gone"
  /\ handlers # <<>>
  /\ LET h == Head(handlers)
     IN h.kind = kind /\ h.what \in whats /\ h.result \in results

Running == Head(handlers)

\* timeout_next_async_operation, then the operation.  Setting the timer again
\* takes back a wait that is pending, not an expiry that is queued.
Begin(o) ==
  /\ op' = o
  /\ timer' = TRUE
  /\ handlers' = Tail(handlers)

\* do_connect, do_post and do_stat.
RunDo(t) ==
  /\ \/ /\ Runs(t, "do", {"connect"}, {None})
        /\ m_state' = "CONNECTING"
        /\ op' = "resolve"
        /\ handlers' = Tail(handlers)
        /\ UNCHANGED timer
     \/ /\ Runs(t, "do", {"post", "stat"}, {None})
        /\ m_state' = "BUSY"
        /\ Begin(Running.what)
  /\ UNCHANGED <<m_article, m_msgid, m_readbuf, network, owner, thread, proc>>

\* A composed operation has not done all it has to: it is started again.
IoGoesOn(t) ==
  /\ Runs(t, "io", Composed, {"some"})
  /\ op' = Running.what
  /\ handlers' = Tail(handlers)
  /\ UNCHANGED <<object, network, timer, owner, thread, proc>>

\* Defect: it is forgotten to mark the connection as usable.
AnswerWithoutState(t, o, result) ==
  /\ handlers' = Append(Tail(handlers), Handler("answer", "connecting", result, None))
  /\ op' = None
  /\ UNCHANGED <<m_state, thread>>

\* Defect: one way out of the callbacks does not answer.
InvalidUnanswered(t, o, result) ==
  /\ handlers' = IF result = "INVALID_CREDENTIALS" THEN Tail(handlers)
                 ELSE Append(Tail(handlers), Handler("answer", "connecting", result, None))
  /\ op' = None
  /\ m_state' = IF result = "CONNECT_SUCCESS" THEN "CONNECTED_AND_AUTHENTICATED" ELSE m_state
  /\ UNCHANGED thread

\* connect_handler_callback, with the state check_authinfo_result sets.
AnswerConnect(t, o, result) ==
  /\ handlers' = Append(Tail(handlers), Handler("answer", "connecting", result, None))
  /\ op' = None
  /\ m_state' = IF result = "CONNECT_SUCCESS" THEN "CONNECTED_AND_AUTHENTICATED" ELSE m_state
  /\ UNCHANGED thread

\* Defect: the callback answers and starts the next operation as well.
AnswerAndGoOn(t, what, item, result) ==
  /\ handlers' = Append(Tail(handlers), Handler("answer", what, result, item))
  /\ op' = IF result = "POSTING_NOT_PERMITTED" THEN "article" ELSE None
  /\ m_state' = "CONNECTED_AND_AUTHENTICATED"
  /\ thread' = [thread EXCEPT ![t] = what]

\* Defect: the handler reads the member when it runs, after it was cleared.
AnswerFromMember(t, what, item, result) ==
  /\ handlers' = Append(Tail(handlers), Handler("answer", what, result, None))
  /\ op' = None
  /\ m_state' = "CONNECTED_AND_AUTHENTICATED"
  /\ thread' = [thread EXCEPT ![t] = what]

\* post_handler_callback and stat_handler_callback, up to the clearing of the
\* member, which comes after the handler was posted.
AnswerCommand(t, what, item, result) ==
  /\ handlers' = Append(Tail(handlers), Handler("answer", what, result, item))
  /\ op' = None
  /\ m_state' = "CONNECTED_AND_AUTHENTICATED"
  /\ thread' = [thread EXCEPT ![t] = what]

Answer(t, o, result) ==
  \/ o \in ConnectOps /\ AnswerConnect(t, o, result)
  \/ o \in PostOps /\ AnswerCommand(t, "post", m_article, result)
  \/ o \in StatOps /\ AnswerCommand(t, "stat", m_msgid, result)

Clear(t) ==
  /\ proc = "running"
  /\ thread[t] # None
  /\ m_article' = IF thread[t] = "post" THEN None ELSE m_article
  /\ m_msgid' = IF thread[t] = "stat" THEN None ELSE m_msgid
  /\ thread' = [thread EXCEPT ![t] = None]
  /\ proc' \in IF use = "gone" THEN {"running", "crashed"} ELSE {proc}
  /\ UNCHANGED <<m_state, m_readbuf, network, service, owner>>

\* Only a write takes the timer back when it fails.
IoFails(t) ==
  /\ Runs(t, "io", ConnectOps \cup PostOps \cup StatOps, {"error"})
  /\ Answer(t, Running.what, FailureOf(Running.what))
  /\ timer' = (timer /\ Running.what \notin Writes)
  /\ UNCHANGED <<m_article, m_msgid, m_readbuf, network, owner, proc>>

\* resolve, connect, handshake and the writes: the next operation of the chain.
Following(o) ==
  CASE o = "resolve"   -> "connect"
    [] o = "connect"   -> IF Tls THEN "handshake" ELSE "greeting"
    [] o = "handshake" -> "greeting"
    [] o \in Writes    -> AnswerTo[o]

StepSucceeds(t) ==
  /\ Runs(t, "io", {"resolve", "connect", "handshake"} \cup Writes, {"all"})
  /\ Begin(Following(Running.what))
  /\ sock' = IF Running.what = "resolve" THEN "open" ELSE sock
  /\ UNCHANGED <<object, peer, wire, owed, received, stored, owner, thread, proc>>

\* read_line: the timer is taken back, the line is consumed and looked at.  To
\* send an article that is no longer there crashes the program.
LineIsRead(t) ==
  /\ Runs(t, "io", Reads, {"all"})
  /\ LET next == Reaction(Running.what, m_readbuf.code)
     IN \/ /\ next \in Writes
           /\ Begin(next)
           /\ proc' = IF next = "article" /\ m_article = None THEN "crashed" ELSE proc
           /\ UNCHANGED <<m_state, thread>>
        \/ /\ next \notin Writes
           /\ Answer(t, Running.what, next)
           /\ timer' = FALSE
           /\ UNCHANGED proc
  /\ m_readbuf' = None
  /\ UNCHANGED <<m_article, m_msgid, network, owner>>

\* Defect: the wait handler tells the pool itself, and the operation it cancels again.
ExpiredAnswersToo(t) ==
  /\ Runs(t, "expired", {None}, {None})
  /\ IF op \notin {None, "resolve"}
     THEN /\ handlers' = Tail(handlers) \o <<Handler("answer", use, FailureOf(op), asked), Io(op, "error")>>
          /\ op' = None
     ELSE handlers' = Tail(handlers) /\ UNCHANGED op
  /\ proc' = IF sock = "closed" THEN "crashed" ELSE proc
  /\ UNCHANGED <<object, network, timer, owner, thread>>

\* The wait handler: m_sock.cancel() ends the pending operation of the socket.  On
\* a socket that is not open it throws, through run() and out of the thread.
RunExpired(t) ==
  /\ Runs(t, "expired", {None}, {None})
  /\ IF op \notin {None, "resolve"}
     THEN handlers' = Append(Tail(handlers), Io(op, "error")) /\ op' = None
     ELSE handlers' = Tail(handlers) /\ UNCHANGED op
  /\ proc' = IF sock = "closed" THEN "crashed" ELSE proc
  /\ UNCHANGED <<object, network, timer, owner, thread>>

\* A handler of a connection that has been destroyed.
RunOnDestroyed(t) ==
  /\ proc = "running" /\ thread[t] = None /\ use = "gone" /\ handlers # <<>>
  /\ handlers' = Tail(handlers)
  /\ proc' \in {"running", "crashed"}
  /\ UNCHANGED <<object, network, op, timer, owner, thread>>

-----------------------------------------------------------------------------
(* The pool: what its handlers and enqueue functions do to the connection.  *)

\* Defect: what was read of a line stays in the buffer.
CloseKeepsBuffer ==
  /\ IF peer = "rst" THEN UNCHANGED <<sock, peer>> ELSE sock' = "closed" /\ peer' = "none"
  /\ wire' = <<>> /\ owed' = None
  /\ m_state' = "DISCONNECTED"
  /\ UNCHANGED m_readbuf

\* close().  After a reset shutdown() throws, and the socket is left as it is.
Close ==
  /\ IF peer = "rst" THEN UNCHANGED <<sock, peer>> ELSE sock' = "closed" /\ peer' = "none"
  /\ wire' = <<>> /\ owed' = None
  /\ m_state' = "DISCONNECTED"
  /\ m_readbuf' = None

\* The object is destroyed: its socket is closed, its wait and operations aborted.
Destroy ==
  /\ use' = "gone" /\ asked' = None
  /\ sock' = "closed" /\ peer' = "none" /\ wire' = <<>> /\ owed' = None
  /\ timer' = FALSE

\* on_connected, on_post_finished, on_stat_finished.
BecomesReady(t) ==
  /\ Runs(t, "answer", {"connecting", "post", "stat"},
          {"CONNECT_SUCCESS", "POST_SUCCESS", "POST_FAILURE", "ARTICLE_EXISTS", "INVALID_ARTICLE"})
  /\ handlers' = Tail(handlers)
  /\ use' = "idle" /\ asked' = None
  /\ UNCHANGED <<object, network, op, timer, thread, proc>>

IsDiscarded(t) ==
  /\ Runs(t, "answer", {"connecting", "post"},
          {"FATAL_CONNECT_ERROR", "INVALID_CREDENTIALS", "POSTING_NOT_PERMITTED"})
  /\ handlers' = Tail(handlers)
  /\ Destroy
  /\ UNCHANGED <<object, op, received, stored, thread, proc>>

Reconnects(t) ==
  /\ Runs(t, "answer", {"post", "stat"}, {"POST_FAILURE_CONNECTION_ERROR", "CONNECTION_ERROR"})
  /\ Close
  /\ handlers' = Append(Tail(handlers), Do("connect"))
  /\ use' = "connecting" /\ asked' = None
  /\ UNCHANGED <<m_article, m_msgid, received, stored, op, timer, thread, proc>>

\* Defect: the article is not remembered for when the server permits to send it.
StartUnremembered ==
  /\ proc = "running" /\ use = "idle"
  /\ \E what \in {"post", "stat"}, item \in Items :
       /\ use' = what /\ asked' = item
       /\ received' = None /\ stored' = None
       /\ m_msgid' = IF what = "stat" THEN item ELSE m_msgid
       /\ handlers' = Append(handlers, Do(what))
  /\ UNCHANGED <<m_state, m_article, m_readbuf, sock, peer, wire, owed, op, timer, thread, proc>>

\* async_post and async_stat: they do nothing unless the connection is usable, and
\* the pool does not look at what they return.
StartCommand ==
  /\ proc = "running" /\ use = "idle"
  /\ \E what \in {"post", "stat"}, item \in Items :
       /\ use' = what /\ asked' = item
       /\ received' = None /\ stored' = None
       /\ IF m_state = "CONNECTED_AND_AUTHENTICATED"
          THEN /\ m_article' = IF what = "post" THEN item ELSE m_article
               /\ m_msgid' = IF what = "stat" THEN item ELSE m_msgid
               /\ handlers' = Append(handlers, Do(what))
          ELSE UNCHANGED <<m_article, m_msgid, handlers>>
  /\ UNCHANGED <<m_state, m_readbuf, sock, peer, wire, owed, op, timer, thread, proc>>

\* async_graceful_disconnect, then erase.
Quit ==
  /\ proc = "running" /\ use = "idle"
  /\ m_state' = "BUSY"
  /\ handlers' = Append(handlers, Io("quit", "error"))
  /\ Destroy
  /\ UNCHANGED <<m_article, m_msgid, m_readbuf, received, stored, op, thread, proc>>

\* Nothing is left to be done.
Ended ==
  /\ proc = "crashed" \/ (use = "gone" /\ handlers = <<>> /\ \A t \in Threads : thread[t] = None)
  /\ UNCHANGED vars

-----------------------------------------------------------------------------
Reactor == ResolveEnds \/ ConnectEnds \/ HandshakeEnds \/ WriteEnds \/ ReadEnds

Run(t) == RunDo(t) \/ IoGoesOn(t) \/ IoFails(t) \/ StepSucceeds(t) \/ LineIsRead(t)
            \/ RunExpired(t) \/ RunOnDestroyed(t) \/ Clear(t)
            \/ BecomesReady(t) \/ IsDiscarded(t) \/ Reconnects(t)

Next ==
  \/ ServerAnswers \/ ServerCloses \/ ConnectionReset
  \/ Reactor \/ TimerExpires
  \/ \E t \in Threads : Run(t)
  \/ StartCommand \/ Quit
  \/ Ended

Spec == Init /\ [][Next]_vars

\* The threads run the handlers, the resolver answers, and time passes.  Nothing is
\* expected of the server and the network.
Fairness ==
  /\ \A t \in Threads : WF_vars(Run(t))
  /\ WF_vars(ResolveEnds)
  /\ WF_vars(TimerExpires)

FairSpec == Spec /\ Fairness

\* The same, and what is pending on a connection that has ended gets its result.
Settles == peer \in {"fin", "rst"} /\ Reactor /\ \E o \in Reads \cup Writes \cup {"handshake"} :
             handlers' \in {Append(handlers, Io(o, "all")), Append(handlers, Io(o, "error"))}

PromptSpec == FairSpec /\ SF_vars(Settles)

-----------------------------------------------------------------------------
(* Properties.                                                              *)

Waiting == use \in {"connecting", "post", "stat"}

Results(what) ==
  CASE what = "connecting" -> {"CONNECT_SUCCESS", "FATAL_CONNECT_ERROR", "INVALID_CREDENTIALS"}
    [] what = "post" -> {"POST_SUCCESS", "POSTING_NOT_PERMITTED", "POST_FAILURE",
                         "POST_FAILURE_CONNECTION_ERROR"}
    [] what = "stat" -> {"ARTICLE_EXISTS", "INVALID_ARTICLE", "CONNECTION_ERROR"}

\* Every variable has its type; an answer has one of the results of what it is for.
ConnectionTypeOK ==
  /\ m_state \in {"DISCONNECTED", "CONNECTING", "CONNECTED_AND_AUTHENTICATED", "BUSY"}
  /\ {m_article, m_msgid, asked, received, stored} \subseteq Items \cup {None}
  /\ sock \in {"closed", "open"}
  /\ peer \in {"none", "up", "fin", "rst"}
  /\ sock = "closed" => peer = "none"
  /\ owed \in Reads \cup {None}
  /\ op \in ConnectOps \cup PostOps \cup StatOps \cup {None}
  /\ timer \in BOOLEAN
  /\ use \in {"connecting", "idle", "post", "stat", "gone"}
  /\ thread \in [Threads -> {"post", "stat", None}]
  /\ \A i \in DOMAIN handlers :
       handlers[i].kind = "answer" => handlers[i].result \in Results(handlers[i].what)

Continuations == {i \in DOMAIN handlers : handlers[i].kind # "expired"}

\* Whatever fails or times out, an operation is carried on in exactly one place: it
\* is pending once, or one handler is queued that goes on with it or answers it; a
\* connection that is not asked for anything has none.  So each async_connect,
\* async_post and async_stat is answered by one call, never two, which is what
\* the handlers of usenet.cc take for granted.
OneContinuation ==
  proc = "running" /\ use # "gone" =>
    Cardinality(Continuations) + (IF op = None THEN 0 ELSE 1) = IF Waiting THEN 1 ELSE 0

\* A connection that the pool has put in m_ready can be used: async_post and
\* async_stat do not return false, which start_async_post would not notice
\* (usenet.cc:32 and 39), and no assertion fails (connection.cc:454 and 518).
UsableWhenIdle ==
  proc = "running" /\ use = "idle" => m_state = "CONNECTED_AND_AUTHENTICATED"

\* The line a callback looks at is the answer to what was sent before it on the
\* same socket, or the server's goodbye: timeouts and reconnects do not put the
\* answers out of step (connection.cc:480-485).
AnswersInStep ==
  proc = "running" /\ use # "gone" =>
    \A i \in DOMAIN handlers :
      handlers[i].what \in Reads /\ handlers[i].result = "all" =>
        m_readbuf.to \in {handlers[i].what, "goodbye"}

\* An answer is about the article or id of the operation, and except for a
\* connection error it tells what the server did: the article is stored if and
\* only if POST_SUCCESS is answered (connection.cc:265-278 and 390-406).  "Number of
\* IO threads to use" (program_config.cc:164) should not change that, but it does.
AnswersAreTrue ==
  \A i \in DOMAIN handlers :
    LET h == handlers[i]
    IN h.kind = "answer" /\ h.what # "connecting" =>
         /\ h.item = asked
         /\ h.result = "POST_SUCCESS" => stored = asked
         /\ h.result \in {"POST_FAILURE", "POSTING_NOT_PERMITTED"} => stored = None

\* The timer expired between two turns of a composed operation: it had nothing to
\* cancel, and nothing sets it again for the turns that follow.
TimeoutLost ==
  op \in Composed /\ ~timer /\ ~\E i \in DOMAIN handlers : handlers[i].kind = "expired"

\* The timer that a failed read left running expires when close() has closed the
\* socket and the name is resolved again: cancel() of a closed socket throws, out of
\* run() and of the program.
StaleTimerCrash == proc = "crashed" /\ use = "connecting" /\ sock = "closed"

\* Only such a timer crashes the program while it owns the connection: there always is
\* an article to send when a server permits to post (connection.cc:277 and 316-327),
\* and a timeout of a post or STAT never finds the socket closed (connection.cc:81).
OnlyStaleTimersCrash == proc = "crashed" /\ use # "gone" => StaleTimerCrash

\* With an operation timeout, every operation is answered although servers and
\* networks may stay silent, unless its timeout is lost or a stale timer crashes the
\* program (connection.cc:68-84 and connection.hpp:138-183).
OperationsEnd ==
  \A u \in {"connecting", "post", "stat"} :
    use = u ~> (use # u \/ TimeoutLost \/ StaleTimerCrash)

\* The "logic that 'times out' a news post" (main.cc:243-244) is there to try the post
\* again ("Try changing the message id and restarting", main.cc:232), on a connection
\* that connects again: no timer ends the program and loses what is still to be posted.
TimersEndNoProgram == ~StaleTimerCrash

\* "the entire reason why I have logic that 'times out' a news post"
\* (main.cc:243-244): a post that the server does not answer times out, unless the
\* program crashed.
PostsTimeOut == use = "post" ~> (use # "post" \/ proc = "crashed")

-----------------------------------------------------------------------------
(* What the connection implements.                                          *)

AnswersIn(hs) ==
  {[result |-> hs[i].result, item |-> hs[i].item] : i \in {j \in DOMAIN hs : hs[j].kind = "answer"}}

Contract == INSTANCE Session WITH answers <- AnswersIn(handlers)

\* What the pool relies on: however the server, the network, the timer and the io
\* thread interleave, it is answered once to each call and about what it gave; the
\* server takes on this socket only the article of that call, once, never before it was
\* given nor after it was refused; and where it takes it behind the back of the
\* connection, the pool is told of a connection error (connection.hpp:30-50 and
\* 200-212, usenet.cc:143-267).
ImplementsSession == Contract!Spec
=============================================================================
