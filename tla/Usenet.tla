------------------------------- MODULE Usenet -------------------------------
(***************************************************************************)
(* The connection pool of src/src/nntp/usenet.{hpp,cc}: the lists m_ready  *)
(* and m_busy, the command queue m_queue with its condition variable, the  *)
(* io_service threads that run the completion handlers, and the thread     *)
(* that calls enqueue_post, enqueue_stat, stop, join and get_queue_size in *)
(* the order main.cc does.                                                 *)
(*                                                                         *)
(* m_bfm is held for whole functions, so one action is one critical        *)
(* section, and a handler that takes the mutex twice, or calls its client  *)
(* between two critical sections, keeps its place in thread[t].at.  A      *)
(* connection is what the pool sees of it: an operation is started and is  *)
(* later answered by one call of its handler, with any of the results the  *)
(* environment produces (ConnectResults, PostResults, StatResults).        *)
(***************************************************************************)
EXTENDS Naturals, Sequences, FiniteSets

CONSTANTS Conns,           \* the connections add_connections creates
          Threads,         \* m_iothreads
          Pieces,          \* names of the articles
          Script,          \* the commands the calling thread enqueues, in order
          MaxSize,         \* m_maxsize; 0 is an unbounded queue
          CountedSize,     \* std::list::size() reads a stored count (C++11 ABI)
          ConnectResults,  \* the results the servers and the network produce
          PostResults,
          StatResults,
          None

Elements(s) == {s[i] : i \in DOMAIN s}
Distinct(s) == \A i, j \in DOMAIN s : s[i] = s[j] => i = j

Commands == [kind : {"post", "stat"}, piece : Pieces]

ASSUME PoolAssumption ==
  /\ IsFiniteSet(Conns)
  /\ IsFiniteSet(Threads) /\ Threads # {}
  /\ Script \in Seq(Commands)
  /\ Distinct(Script)
  /\ MaxSize \in Nat
  /\ CountedSize \in BOOLEAN
  /\ ConnectResults \subseteq {"CONNECT_SUCCESS", "FATAL_CONNECT_ERROR", "INVALID_CREDENTIALS"}
  /\ PostResults \subseteq {"POST_SUCCESS", "POSTING_NOT_PERMITTED", "POST_FAILURE",
                            "POST_FAILURE_CONNECTION_ERROR"}
  /\ StatResults \subseteq {"ARTICLE_EXISTS", "INVALID_ARTICLE", "CONNECTION_ERROR"}
  /\ None \notin Commands \cup Conns

VARIABLES
  m_ready,     \* sequence of connections, begin() first
  m_busy,      \* set of connections: the order of this list is never read
  m_queue,     \* sequence of commands
  m_work,      \* is m_work non-null?
  stale_size,  \* m_ready.size() counts an element erased through m_busy
  conn,        \* what each connection is doing: [op, cmd]
  thread,      \* where each io thread is: [at, conn, cmd, result]
  stopped,     \* the io_service ran out of work: run() returns everywhere
  main_at,     \* where the calling thread is
  next,        \* the next command of Script it enqueues
  notified,    \* it was notified while it waits on m_queuecv
  seen_work,   \* what m_work.reset() in stop() read
  finished,    \* commands whose finish callback has run
  proc         \* the process: running, or how it ended

pool == <<m_ready, m_busy, m_queue, m_work, stale_size, conn, notified, proc>>
caller == <<main_at, next, seen_work>>
vars == <<m_ready, m_busy, m_queue, m_work, stale_size, conn, thread, stopped,
          main_at, next, notified, seen_work, finished, proc>>

-----------------------------------------------------------------------------
Connecting == [op |-> "connecting", cmd |-> None]
Idle       == [op |-> "idle", cmd |-> None]     \* connected, nothing in progress
Quitting   == [op |-> "quit", cmd |-> None]     \* destroyed with QUIT being written
Closed     == [op |-> "closed", cmd |-> None]   \* ... and the write has ended
Dead       == [op |-> "dead", cmd |-> None]     \* discarded
Doing(cmd) == [op |-> cmd.kind, cmd |-> cmd]    \* start_async_post, start_async_stat

Running == [at |-> "run", conn |-> None, cmd |-> None, result |-> None]
Exited  == [Running EXCEPT !.at = "exited"]

\* The io_service has something to do: its run() calls do not return.
HasWork ==
  \/ m_work
  \/ \E c \in Conns : conn[c].op \in {"connecting", "post", "stat", "quit"}
  \/ \E t \in Threads : thread[t] \notin {Running, Exited}

Init ==
  /\ m_ready = <<>>
  /\ m_busy = Conns
  /\ m_queue = <<>>
  /\ m_work = TRUE
  /\ stale_size = FALSE
  /\ conn = [c \in Conns |-> Connecting]
  /\ thread = [t \in Threads |-> Running]
  /\ stopped = FALSE
  /\ main_at = "enqueue"
  /\ next = 1
  /\ notified = FALSE
  /\ seen_work = FALSE
  /\ finished = {}
  /\ proc = "running"

\* The last conjunct of every action: the io_service stops for good as soon as
\* its outstanding work ends.
IoServiceStops == stopped' = (stopped \/ ~HasWork')

-----------------------------------------------------------------------------
(* The critical sections.  Each determines every variable of pool.          *)

ReadySizePositive == m_ready # <<>> \/ stale_size

QueueHasRoom == MaxSize = 0 \/ Len(m_queue) < MaxSize

\* Defect: begin() starts the command but stays out of the busy list.
StartWithoutSplice(cmd) ==
  /\ m_ready # <<>>
  /\ m_ready' = Tail(m_ready)
  /\ conn' = [conn EXCEPT ![Head(m_ready)] = Doing(cmd)]
  /\ UNCHANGED <<m_busy, m_queue, m_work, stale_size, notified, proc>>

\* Defect: begin() is copied to the busy list, where splice would move it.
StartWithCopy(cmd) ==
  /\ m_ready # <<>>
  /\ m_busy' = m_busy \cup {Head(m_ready)}
  /\ conn' = [conn EXCEPT ![Head(m_ready)] = Doing(cmd)]
  /\ UNCHANGED <<m_ready, m_queue, m_work, stale_size, notified, proc>>

\* m_ready.size() > 0: begin() goes to the busy list and starts the command.
StartOnReady(cmd) ==
  /\ m_ready # <<>>
  /\ m_ready' = Tail(m_ready)
  /\ m_busy' = m_busy \cup {Head(m_ready)}
  /\ conn' = [conn EXCEPT ![Head(m_ready)] = Doing(cmd)]
  /\ UNCHANGED <<m_queue, m_work, stale_size, notified, proc>>

PushBack(cmd) ==
  /\ m_queue' = Append(m_queue, cmd)
  /\ UNCHANGED <<m_ready, m_busy, m_work, stale_size, conn, notified, proc>>

\* Defect: a retried command is queued without a look at m_ready.
AlwaysQueue(cmd) == PushBack(cmd)

\* dispatch_or_queue, and enqueue_post with bypass_wait.
StartOrQueue(cmd) ==
  \/ StartOnReady(cmd)
  \/ ~ReadySizePositive /\ PushBack(cmd)

\* Defect: the caller is not notified that the queue has room.
TakeWithoutNotify(c) ==
  /\ m_queue # <<>>
  /\ m_queue' = Tail(m_queue)
  /\ conn' = [conn EXCEPT ![c] = Doing(Head(m_queue))]
  /\ UNCHANGED <<m_ready, m_busy, m_work, stale_size, notified, proc>>

\* The queue has a command: the connection takes it and stays busy.
TakeNextCommand(c) ==
  /\ m_queue # <<>>
  /\ m_queue' = Tail(m_queue)
  /\ notified' = (notified \/ (MaxSize # 0 /\ main_at = "waiting"))
  /\ conn' = [conn EXCEPT ![c] = Doing(Head(m_queue))]
  /\ UNCHANGED <<m_ready, m_busy, m_work, stale_size, proc>>

\* Nothing queued and the caller may still enqueue: the connection waits.
JoinReady(c) ==
  /\ m_queue = <<>>
  /\ m_work
  /\ m_ready' = Append(m_ready, c)
  /\ m_busy' = m_busy \ {c}
  /\ conn' = [conn EXCEPT ![c] = Idle]
  /\ UNCHANGED <<m_queue, m_work, stale_size, notified, proc>>

\* Nothing queued and stop() was called: QUIT is written on this connection and
\* on every ready one, and all of them are erased.  This one is erased from
\* m_ready through m_busy, which a counting list books on the wrong list.
ShutDownReady(c) ==
  /\ m_queue = <<>>
  /\ ~m_work
  /\ m_ready' = <<>>
  /\ m_busy' = m_busy \ {c}
  /\ conn' = [d \in Conns |-> IF d = c \/ d \in Elements(m_ready) THEN Quitting ELSE conn[d]]
  /\ stale_size' = CountedSize
  /\ UNCHANGED <<m_queue, m_work, notified, proc>>

OnConnBecomesReady(c) ==
  \/ TakeNextCommand(c)
  \/ JoinReady(c)
  \/ ShutDownReady(c)

\* Defect: m_work is given up although there are ready connections.
DiscardForgetsReady(c) ==
  /\ m_busy' = m_busy \ {c}
  /\ conn' = [conn EXCEPT ![c] = Dead]
  /\ m_work' = (m_work /\ m_busy' # {})
  /\ UNCHANGED <<m_ready, m_queue, stale_size, notified, proc>>

\* The counts read here are those of the lists: when they are not (stale_size),
\* m_work is already null.
DiscardConnection(c) ==
  /\ m_busy' = m_busy \ {c}
  /\ conn' = [conn EXCEPT ![c] = Dead]
  /\ m_work' = (m_work /\ (m_busy' # {} \/ m_ready # <<>>))
  /\ UNCHANGED <<m_ready, m_queue, stale_size, notified, proc>>

-----------------------------------------------------------------------------
(* The completion handlers, run by an io thread.                            *)

CanRun(t) == proc = "running" /\ ~stopped /\ thread[t] = Running

OnConnected(t, c) ==
  /\ CanRun(t)
  /\ conn[c].op = "connecting"
  /\ \E result \in ConnectResults :
       IF result = "CONNECT_SUCCESS" THEN OnConnBecomesReady(c) ELSE DiscardConnection(c)
  /\ UNCHANGED <<thread, finished, caller>>
  /\ IoServiceStops

\* on_post_finished up to its first call of the client or its second critical
\* section; Continue says where the thread goes on.
Continue(t, where, c, cmd, result) ==
  thread' = [thread EXCEPT ![t] = [at |-> where, conn |-> c, cmd |-> cmd, result |-> result]]

\* Defect: the article of the discarded connection is not put back.
NotPermittedForgets(t, c) == DiscardConnection(c) /\ UNCHANGED thread

PostNotPermitted(t, c) ==
  /\ DiscardConnection(c)
  /\ Continue(t, "dispatch_or_queue", None, conn[c].cmd, "POSTING_NOT_PERMITTED")

\* Defect: the connection is forgotten while the client is called.
FailureForgetsConnection(t, c) ==
  /\ conn' = [conn EXCEPT ![c] = Idle]
  /\ Continue(t, "post_failed", None, conn[c].cmd, "POST_FAILURE")
  /\ UNCHANGED <<m_ready, m_busy, m_queue, m_work, stale_size, notified, proc>>

PostFailure(t, c) ==
  /\ conn' = [conn EXCEPT ![c] = Idle]
  /\ Continue(t, "post_failed", c, conn[c].cmd, "POST_FAILURE")
  /\ UNCHANGED <<m_ready, m_busy, m_queue, m_work, stale_size, notified, proc>>

PostConnectionError(t, c) ==
  /\ conn' = [conn EXCEPT ![c] = Connecting]
  /\ Continue(t, "post_failed", None, conn[c].cmd, "POST_FAILURE_CONNECTION_ERROR")
  /\ UNCHANGED <<m_ready, m_busy, m_queue, m_work, stale_size, notified, proc>>

PostSuccess(t, c) ==
  /\ OnConnBecomesReady(c)
  /\ Continue(t, "finish_post", None, conn[c].cmd, "POST_SUCCESS")

OnPostFinished(t, c) ==
  /\ CanRun(t)
  /\ conn[c].op = "post"
  /\ \E result \in PostResults :
       \/ result = "POSTING_NOT_PERMITTED" /\ PostNotPermitted(t, c)
       \/ result = "POST_FAILURE" /\ PostFailure(t, c)
       \/ result = "POST_FAILURE_CONNECTION_ERROR" /\ PostConnectionError(t, c)
       \/ result = "POST_SUCCESS" /\ PostSuccess(t, c)
  /\ UNCHANGED <<finished, caller>>
  /\ IoServiceStops

\* Defect: the STAT that was cut off is not asked again.
StatErrorForgets(c) ==
  /\ conn' = [conn EXCEPT ![c] = Connecting]
  /\ UNCHANGED <<m_ready, m_busy, m_queue, m_work, stale_size, notified, proc, thread>>

\* A STAT cut off by the connection goes to the queue, even past ready
\* connections, and this connection reconnects.
StatConnectionError(c) ==
  /\ m_queue' = Append(m_queue, conn[c].cmd)
  /\ conn' = [conn EXCEPT ![c] = Connecting]
  /\ UNCHANGED <<m_ready, m_busy, m_work, stale_size, notified, proc, thread>>

OnStatFinished(t, c) ==
  /\ CanRun(t)
  /\ conn[c].op = "stat"
  /\ \E result \in StatResults :
       IF result = "CONNECTION_ERROR"
       THEN StatConnectionError(c)
       ELSE OnConnBecomesReady(c) /\ Continue(t, "finish_stat", None, conn[c].cmd, result)
  /\ UNCHANGED <<finished, caller>>
  /\ IoServiceStops

\* The end of the write of QUIT.  Its handler cancels the timer and closes the
\* socket of an object that m_busy.erase or m_ready.erase has destroyed: it may
\* crash the program.
OnQuitWritten(t, c) ==
  /\ CanRun(t)
  /\ conn[c].op = "quit"
  /\ conn' = [conn EXCEPT ![c] = Closed]
  /\ proc' \in {"running", "crashed"}
  /\ UNCHANGED <<m_ready, m_busy, m_queue, m_work, stale_size, notified, thread, finished, caller>>
  /\ IoServiceStops

-----------------------------------------------------------------------------
(* The rest of on_post_finished and on_stat_finished.                       *)

At(t, where) == proc = "running" /\ thread[t].at = where

Return(t) == thread' = [thread EXCEPT ![t] = Running]

\* m_slot_post_failed: the client puts the article back with bypass_wait.
Requeue(t) ==
  /\ At(t, "post_failed")
  /\ StartOrQueue(thread[t].cmd)
  /\ IF thread[t].result = "POST_FAILURE"
     THEN Continue(t, "becomes_ready", thread[t].conn, None, None)
     ELSE Return(t)
  /\ UNCHANGED <<finished, caller>>
  /\ IoServiceStops

\* ... or calls std::exit.
Abort(t) ==
  /\ At(t, "post_failed")
  /\ proc' = "aborted"
  /\ UNCHANGED <<m_ready, m_busy, m_queue, m_work, stale_size, conn, notified>>
  /\ UNCHANGED <<thread, finished, caller>>
  /\ IoServiceStops

BecomeReady(t) ==
  /\ At(t, "becomes_ready")
  /\ OnConnBecomesReady(thread[t].conn)
  /\ Return(t)
  /\ UNCHANGED <<finished, caller>>
  /\ IoServiceStops

DispatchOrQueue(t) ==
  /\ At(t, "dispatch_or_queue")
  /\ StartOrQueue(thread[t].cmd)
  /\ Return(t)
  /\ UNCHANGED <<finished, caller>>
  /\ IoServiceStops

\* m_slot_finish_post and m_slot_finish_stat.
Finish(t) ==
  /\ At(t, "finish_post") \/ At(t, "finish_stat")
  /\ finished' = finished \cup {thread[t].cmd}
  /\ Return(t)
  /\ UNCHANGED <<pool, caller>>
  /\ IoServiceStops

\* m_iosvc.run() returns.
IoExit(t) ==
  /\ proc = "running"
  /\ stopped
  /\ thread[t] = Running
  /\ thread' = [thread EXCEPT ![t] = Exited]
  /\ UNCHANGED <<pool, finished, caller>>
  /\ IoServiceStops

-----------------------------------------------------------------------------
(* The calling thread.                                                      *)

MainAt(where) == proc = "running" /\ main_at = where

\* enqueue_post and enqueue_stat, up to the wait on m_queuecv.
EnqueueNow ==
  /\ MainAt("enqueue")
  /\ next <= Len(Script)
  /\ \/ StartOnReady(Script[next])
     \/ ~ReadySizePositive /\ QueueHasRoom /\ PushBack(Script[next])
  /\ next' = next + 1
  /\ UNCHANGED <<main_at, seen_work, thread, finished>>
  /\ IoServiceStops

StartWaiting ==
  /\ MainAt("enqueue")
  /\ next <= Len(Script)
  /\ ~ReadySizePositive
  /\ ~QueueHasRoom
  /\ main_at' = "waiting"
  /\ UNCHANGED <<pool, next, seen_work, thread, finished>>
  /\ IoServiceStops

\* Defect: a wakeup of m_queuecv is taken for room in the queue.
WakeUnchecked ==
  /\ MainAt("waiting")
  /\ m_queue' = Append(m_queue, Script[next])
  /\ notified' = FALSE
  /\ main_at' = "enqueue"
  /\ next' = next + 1
  /\ UNCHANGED <<m_ready, m_busy, m_work, stale_size, conn, proc, seen_work, thread, finished>>
  /\ IoServiceStops

\* The wait ends, notified or spuriously, with the predicate true: the command
\* is pushed, without a second look at m_ready.
WakeAndPush ==
  /\ MainAt("waiting")
  /\ QueueHasRoom
  /\ m_queue' = Append(m_queue, Script[next])
  /\ notified' = FALSE
  /\ main_at' = "enqueue"
  /\ next' = next + 1
  /\ UNCHANGED <<m_ready, m_busy, m_work, stale_size, conn, proc, seen_work, thread, finished>>
  /\ IoServiceStops

\* It was notified, but the queue is full again.
WaitAgain ==
  /\ MainAt("waiting")
  /\ notified
  /\ ~QueueHasRoom
  /\ notified' = FALSE
  /\ UNCHANGED <<m_ready, m_busy, m_queue, m_work, stale_size, conn, proc, thread, finished, caller>>
  /\ IoServiceStops

\* stop() resets m_work without the mutex: it reads the pointer, then clears it
\* and deletes what it read.
StopReads ==
  /\ MainAt("enqueue")
  /\ next > Len(Script)
  /\ seen_work' = m_work
  /\ main_at' = "reset"
  /\ UNCHANGED <<pool, next, thread, finished>>
  /\ IoServiceStops

\* When discard_connection deleted it in between, it is deleted twice.
StopResets ==
  /\ MainAt("reset")
  /\ m_work' = FALSE
  /\ main_at' = "join"
  /\ proc' \in IF seen_work /\ ~m_work THEN {"running", "crashed"} ELSE {"running"}
  /\ UNCHANGED <<m_ready, m_busy, m_queue, stale_size, conn, notified>>
  /\ UNCHANGED <<next, seen_work, thread, finished>>
  /\ IoServiceStops

\* Defect: the queue is not looked at after join().
ExitWithZero ==
  /\ MainAt("join")
  /\ \A t \in Threads : thread[t] = Exited
  /\ proc' = "exit0"
  /\ UNCHANGED <<m_ready, m_busy, m_queue, m_work, stale_size, conn, notified>>
  /\ UNCHANGED <<thread, finished, caller>>
  /\ IoServiceStops

\* join() returns, and main exits with what get_queue_size() tells.
JoinAndExit ==
  /\ MainAt("join")
  /\ \A t \in Threads : thread[t] = Exited
  /\ proc' = IF m_queue = <<>> THEN "exit0" ELSE "exit1"
  /\ UNCHANGED <<m_ready, m_busy, m_queue, m_work, stale_size, conn, notified>>
  /\ UNCHANGED <<thread, finished, caller>>
  /\ IoServiceStops

-----------------------------------------------------------------------------
\* m_ready.size() is read by someone who has a command to start.
ReadsReadySize ==
  \/ \E t \in Threads : thread[t].at \in {"post_failed", "dispatch_or_queue"}
  \/ main_at = "enqueue" /\ next <= Len(Script)

\* Only the stale count says that there is a ready connection: begin() is the
\* sentinel of the empty list, and the program dereferences it.
StartOnSentinel ==
  /\ proc = "running"
  /\ m_ready = <<>>
  /\ stale_size
  /\ ReadsReadySize
  /\ proc' = "crashed"
  /\ UNCHANGED <<m_ready, m_busy, m_queue, m_work, stale_size, conn, notified>>
  /\ UNCHANGED <<thread, finished, caller>>
  /\ IoServiceStops

Main == EnqueueNow \/ StartWaiting \/ WakeAndPush \/ WaitAgain
          \/ StopReads \/ StopResets \/ JoinAndExit

\* A completion handler of connection c begins.
Complete(t, c) == OnConnected(t, c) \/ OnPostFinished(t, c) \/ OnStatFinished(t, c)
                    \/ OnQuitWritten(t, c)

\* Thread t goes on inside a handler.
Proceed(t) == Requeue(t) \/ Abort(t) \/ BecomeReady(t) \/ DispatchOrQueue(t) \/ Finish(t)

\* The process has ended.
Ended == proc # "running" /\ UNCHANGED vars

Next ==
  \/ Main
  \/ \E t \in Threads : \E c \in Conns : Complete(t, c)
  \/ \E t \in Threads : Proceed(t)
  \/ \E t \in Threads : IoExit(t)
  \/ StartOnSentinel
  \/ Ended

Spec == Init /\ [][Next]_vars
-----------------------------------------------------------------------------
(* Type correctness.                                                        *)

Posts == {cmd \in Commands : cmd.kind = "post"}
Stats == {cmd \in Commands : cmd.kind = "stat"}

ConnStates == {Connecting, Idle, Quitting, Closed, Dead} \cup {Doing(cmd) : cmd \in Commands}

ThreadStates ==
  {Running, Exited}
    \cup [at : {"post_failed"}, conn : Conns, cmd : Posts, result : {"POST_FAILURE"}]
    \cup [at : {"post_failed"}, conn : {None}, cmd : Posts,
          result : {"POST_FAILURE_CONNECTION_ERROR"}]
    \cup [at : {"becomes_ready"}, conn : Conns, cmd : {None}, result : {None}]
    \cup [at : {"dispatch_or_queue"}, conn : {None}, cmd : Posts,
          result : {"POSTING_NOT_PERMITTED"}]
    \cup [at : {"finish_post"}, conn : {None}, cmd : Posts, result : {"POST_SUCCESS"}]
    \cup [at : {"finish_stat"}, conn : {None}, cmd : Stats,
          result : {"ARTICLE_EXISTS", "INVALID_ARTICLE"}]

PoolTypeOK ==
  /\ m_ready \in Seq(Conns)
  /\ m_busy \subseteq Conns
  /\ m_queue \in Seq(Commands)
  /\ m_work \in BOOLEAN
  /\ stale_size \in BOOLEAN
  /\ conn \in [Conns -> ConnStates]
  /\ notified \in BOOLEAN
  /\ proc \in {"running", "exit0", "exit1", "aborted", "crashed"}

CallerTypeOK ==
  /\ main_at \in {"enqueue", "waiting", "reset", "join"}
  /\ next \in 1..(Len(Script) + 1)
  /\ main_at = "waiting" => next <= Len(Script)
  /\ seen_work \in BOOLEAN

\* Every variable has its type; in particular a thread inside a handler has the
\* parameters that the rest of that handler uses.
TypeOK ==
  /\ PoolTypeOK
  /\ CallerTypeOK
  /\ thread \in [Threads -> ThreadStates]
  /\ stopped \in BOOLEAN
  /\ finished \subseteq Commands

-----------------------------------------------------------------------------
(* Safety.                                                                  *)

Holds(t, c) == thread[t].at \in {"post_failed", "becomes_ready"} /\ thread[t].conn = c

ReadyAreIdle ==
  /\ Distinct(m_ready)
  /\ \A c \in Elements(m_ready) : c \notin m_busy /\ conn[c] = Idle

BusyAreExpected ==
  \A c \in m_busy : \/ conn[c].op \in {"connecting", "post", "stat"}
                    \/ conn[c] = Idle /\ \E t \in Threads : Holds(t, c)

OthersAreErased ==
  \A c \in Conns : c \in m_busy \/ c \in Elements(m_ready) \/ conn[c] \in {Quitting, Closed, Dead}

HeldByOneHandler ==
  \A t \in Threads, c \in Conns :
    Holds(t, c) => /\ c \in m_busy /\ conn[c] = Idle
                   /\ \A u \in Threads : Holds(u, c) => u = t

\* No connection is lost between the two lists: one in m_ready has nothing in
\* progress; one in m_busy has an operation whose handler will come, or exactly
\* one thread is inside its handler and will make it ready; any other one has
\* been erased (usenet.hpp:92-99, the splices of usenet.cc).
ConnectionsAccountedFor ==
  /\ ReadyAreIdle
  /\ BusyAreExpected
  /\ OthersAreErased
  /\ HeldByOneHandler

Issued    == {Script[i] : i \in 1..(next - 1)}
Queued    == Elements(m_queue)
OnConns   == {conn[c].cmd : c \in Conns} \ {None}
InThreads == {thread[t].cmd : t \in Threads} \ {None}

\* Every command that was enqueued is, until its finish callback has run, in one
\* and only one place: once in m_queue, on one connection, or in one handler.
\* Nothing is posted twice at a time and nothing is dropped, whatever fails.
CommandsAccountedFor ==
  /\ Issued = Queued \cup OnConns \cup InThreads \cup finished
  /\ Queued \cap (OnConns \cup InThreads \cup finished) = {}
  /\ OnConns \cap (InThreads \cup finished) = {}
  /\ InThreads \cap finished = {}
  /\ Distinct(m_queue)
  /\ \A c, d \in Conns : conn[c].cmd = conn[d].cmd => c = d \/ conn[c].cmd = None
  /\ \A s, t \in Threads : thread[s].cmd = thread[t].cmd => s = t \/ thread[s].cmd = None

\* A connection with an operation in progress is left alone by everything but the
\* handler of that operation, and one that was erased by everything.  So async_post,
\* async_stat and async_graceful_disconnect are called only on one that is idle or has
\* just been answered, as module Connection takes for granted: the pool ignores what
\* they return (usenet.cc:28-40 and 125-135, connection.cc:375-382, 450-456, 506-519).
OperationsLeftAlone ==
  [][\A c \in Conns : conn[c] # Idle /\ conn'[c] # conn[c] => \E t \in Threads : Complete(t, c)]_vars

\* Nothing is started on an io_service that has stopped: m_work is given up only
\* when stop() was called or no connection is left (usenet.cc:219-224), so a
\* ready connection always finds threads to run its handlers.
NothingStartedAfterStop == stopped => ~HasWork

\* The scenario of usenet.hpp:61-89: "a connection that moves to the free list
\* and a remaining item in the queue. No work will progress".
NoStrandedWork == ~(m_ready # <<>> /\ m_queue # <<>>)

\* No wakeup is lost: when the caller waits on m_queuecv although the queue has
\* room again, a notification is on its way (usenet.cc:60-63 and 90-94 against
\* notify_one in 112-115).
NoLostWakeup == main_at = "waiting" /\ QueueHasRoom => notified

\* m_maxsize bounds the memory the articles take only in part: retries bypass it.
\* Still the queue never exceeds it by more than one command for each connection
\* and each io thread but one (usenet.cc:88-97, 186-210).
QueueOverrunIsBounded ==
  MaxSize # 0 => Len(m_queue) < MaxSize + Cardinality(Conns) + Cardinality(Threads)

\* get_queue_size() == 0 after join() tells that the work is done
\* (usenet.hpp:181-185, main.cc:332-349): exit status 0 is given only when the
\* finish callback has run for every command.
ExitZeroMeansFinished == proc = "exit0" => finished = Elements(Script)

\* "A queue size that is >0 means that the async workers all died"
\* (usenet.hpp:182-184): at exit status 1 no connection is left that could have
\* taken the command.
ExitOneMeansNoConnection == proc = "exit1" => \A c \in Conns : conn[c] \in {Closed, Dead}

-----------------------------------------------------------------------------
(* What comments of the code say of it, and the code does not keep.         *)

\* m_ready holds "connections (that are connected and are ready to start
\* posting)" (usenet.hpp:92-93): when its size is positive for someone who has a
\* command to start, there is one.
PositiveSizeMeansReady ==
  proc = "running" /\ ReadsReadySize /\ ReadySizePositive => m_ready # <<>>

\* The pool "manages connection lifetimes" (usenet.hpp:8): an object that was
\* erased from both lists has no handler left to run.
NoHandlerAfterErase ==
  \A c \in Conns : c \notin m_busy \cup Elements(m_ready) => conn[c].op # "quit"

-----------------------------------------------------------------------------
(* What the pool implements.                                                *)

Service == INSTANCE Delivery WITH submitted <- next - 1, outcome <- proc

\* Every behaviour of the pool is one of the service that usenet.hpp promises:
\* no command is reported twice and the exit status never lies, although both are
\* computed from lists, callbacks and a queue size.
ImplementsDelivery == Service!Spec
=============================================================================
