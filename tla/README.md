# post2usenet in TLA+

post2usenet cuts files into articles, posts them over several connections to
one or more news servers, retries what fails, and writes an nzb file that names
the articles. This directory holds models of it in TLA+, the TLC configurations
that check them, and proofs of their main properties for TLAPS. Paths of source
files are given from the root of the repository (`src/nntp/usenet.cc`, ...).

## The system

| part | source | state it keeps | operations | modelled by |
|------|--------|----------------|------------|-------------|
| connection pool, class `usenet` | `src/nntp/usenet.{hpp,cc}` | lists `m_ready`, `m_busy`; queue `m_queue` with `m_maxsize` and `m_queuecv`; `m_work`; the io threads | `enqueue_post`, `enqueue_stat`, `start`, `stop`, `join`, `get_queue_size`; the handlers `on_connected`, `on_post_finished`, `on_stat_finished` | `Usenet`, `Delivery` |
| the program | `src/main.cc` | `msgid_retries`, `msgid_exceptions`, `num_posted`, the article headers, the nzb file | the loops that enqueue, three callbacks, the exit status | `Post2Usenet` |
| NNTP connection, class `connection` | `src/nntp/connection.{hpp,cc}`, `src/util/asio_helpers.hpp` | `m_state`, socket, `m_timer`, `m_article`, `m_msgid`, `m_readbuf` | `async_connect`, `async_post`, `async_stat`, `close`, `async_graceful_disconnect`; one callback per answer | `Connection`, `Session`; `Usenet` has its interface |
| yEnc encoder | `src/yenc/` | none | `encode_block`, `needs_escaping` | `Yenc` |
| parts of files | `src/util/yencgenerator.*`, `src/fileset.*` | size and number of parts, file position and stream state | `num_parts`, `get_part`, message ids and their keys | `Articles` |
| articles | `src/nntp/message.*` | header, payload | the lines that are sent | `Articles`, without the text of headers |
| configuration | `src/program_config.*` | the parsed values | `load_program_config` | `Configuration`, `Articles` |
| server records, `make_unique` | `src/nntp/connection_info.*`, `src/util/` | five fields; none | equality and hash, which nothing calls; a library function | not modelled |
| dummy server | `misc/dummy_usenet/` | its connections | takes the lines of an article | `Articles!LinesTaken` only |
| tests | `test/`, `src/nntp/test.cc` | | | not modelled |

How they interact. `main` creates the pool, which creates the connections and
starts connecting them; `start()` makes the io threads, which run the io_service.
`main` enqueues one post per piece and, with `--validate`, one STAT per piece. A
command starts at once on a ready connection and waits in `m_queue` otherwise;
if the queue is full `main` waits on `m_queuecv`. A connection answers every
operation by one call of a handler on an io thread. The handlers take `m_bfm`
one or more times, and call back into `main`, whose callback for a failed post
enqueues the article again from inside the handler. `stop()` gives up `m_work`,
so that the io_service ends when it has nothing left to do, `join()` waits for
the threads, and `get_queue_size()` decides the exit status.

What is hard about it:

- *Concurrency.* The calling thread and the io threads share the lists and the
  queue. Critical sections follow each other in one handler with the mutex free
  in between, the client is called without it, `m_queuecv.wait` gives it up in
  the middle of `enqueue_post`, and `stop()` does not take it at all.
- *Failure.* A connect can fail (the connection is discarded), a server may
  refuse to take posts (discarded, the article moves on), refuse an article
  (retried on any connection), or the connection breaks in mid-operation
  (reconnected, the article retried although it may have arrived).
- *Timeouts.* A connection is a chain of callbacks with one timer. It may expire
  while the handler of the operation it is for is already queued, be left running
  by an operation that failed, and fire into the next one.
- *Files that change.* Sizes and part numbers are those of the moment a file was
  opened; each part is read later, from a stream whose failbit is never cleared.
- *Boundaries.* Lines end after one or two characters more; parts end where the
  bytes do; numbers of the configuration are ints that become size_t.
- *Ending.* Whether the io_service ends at the right time, neither before the
  work is done nor never, depends on `m_work`, on the connections left and on
  the queue.

What makes it correct: no command is lost or carried out twice at a time; no
connection is lost; work and a ready connection do not wait for each other; the
io_service does not stop under a command; the caller is woken; the exit status
tells the truth; the nzb file lists ids that were taken; retries end; the
program ends; a connection answers each operation once, truly, and at last; what
a reader decodes from the articles is the file, whatever bytes it has; and what the
nzb file says of an article is so.

## Modules

- **`Usenet`** – the pool with the thread that uses it.
- **`Delivery`** – what the class promises its user, without lists, queue,
  threads or connections; `Usenet` implements it.
- **`Post2Usenet`** – extends `Usenet` by the callbacks of `main`, the message
  ids, and what the servers have received and taken.
- **`Connection`** – one connection with its socket and timer, the io_service, the
  server and the network, and the pool as the one that uses it.
- **`Session`** – what class `connection` promises the pool, without sockets, lines,
  timers or handlers; `Connection` implements it.
- **`Yenc`** – the encoder, a byte or an end of line at a time, and a decoder.
- **`Configuration`** – which command lines and configuration files are refused, and
  what becomes of the others.
- **`Articles`** – extends both: the rest of `main`, from the configuration over the
  walk and the parts of each file to the nzb file, while others change the files
  and posts are retried. The pool is left out: what an article is does not depend
  on when it is sent.
- **`MCUsenet`**, **`MCPost2Usenet`**, **`MCConnection`**, **`MCArticles`** – instances
  for TLC.
- **`PoolProofs`** (types, lists, stop, wakeups, stranded work, the
  pool's side of a connection), **`DeliveryProofs`**
  (commands, exit status, the refinement), **`QueueProofs`** (the queue's length),
  **`MainProofs`** (the program on top of the pool), **`ArticlesProofs`** (the encoder,
  the parts, the nzb file), **`ReaderProofs`** (what a server and a reader make of the
  articles, the order of the nzb file, the walk), **`ConnectionProofs`** (the chain of
  callbacks), **`AnswersProofs`** (the lines of the server and what the pool is told of
  them, the contract of a connection) – theorems.

### `Usenet` and the code

| variable | in the code |
|----------|-------------|
| `m_ready`, `m_queue` | as there; sequences, front first |
| `m_busy` | the list of that name; a set, since its order is never read |
| `m_work` | whether the pointer is non-null |
| `stale_size` | `m_ready.size()` is larger than the list: `on_conn_becomes_ready` splices an element to `m_ready` and then calls `m_busy.erase` for it, so a `std::list` that stores its size books the erasure on the wrong list. `CountedSize` says whether it stores one |
| `conn[c]` | the operation in progress on connection `c`, and its command |
| `thread[t]` | where an io thread is inside `on_post_finished` / `on_stat_finished`, with the parameters the rest of it uses |
| `stopped` | the io_service has run out of work |
| `main_at`, `next`, `seen_work` | where the calling thread is; the next command; what `m_work.reset()` in `stop()` read |
| `notified` | the caller was notified while it waits |
| `finished` | the commands whose finish callback has run |
| `proc` | the process: running, ended with a status, ended by `std::exit`, or crashed |

One action is one critical section of `m_bfm`, because the code holds it for whole
functions:

| action | code |
|--------|------|
| `EnqueueNow`, `StartWaiting`, `WakeAndPush`, `WaitAgain` | `enqueue_post` / `enqueue_stat`: the part before the wait, and the part after |
| `OnConnected` | `on_connected` with `on_conn_becomes_ready` or `discard_connection` |
| `OnPostFinished` | `on_post_finished` up to the call of the client or the next critical section |
| `Requeue`, `Abort` | the client's callback for a failed post: `enqueue_post` with `bypass_wait`, or `std::exit` |
| `BecomeReady`, `DispatchOrQueue` | the next critical section |
| `OnStatFinished`, `Finish` | `on_stat_finished`; the finish callbacks |
| `OnQuitWritten` | the end of the write `async_graceful_disconnect` starts; the object is gone by then, so the process may crash |
| `StopReads`, `StopResets` | `m_work.reset()` in `stop()`, without the mutex: a read of the pointer and a write; a reset by `discard_connection` in between is a double delete |
| `IoExit`, `JoinAndExit` | `run()` returns; `join()`, `get_queue_size()`, exit status |
| `StartOnSentinel` | a positive `m_ready.size()` with nothing in the list: `begin()` is dereferenced |

Every action ends with `IoServiceStops`: asio's io_service stops for good as
soon as no work object, no pending operation and no handler is left.

`Post2Usenet` joins `Requeue` to the retry bookkeeping of `main.cc:184-261`,
`Finish` to the other two callbacks, and `JoinAndExit` to the writing of the nzb
file. A message id is a pair of a piece and a nonce; nonces are drawn at random
in the code and taken to be distinct. `PostReachesServer` says what became of an
article: a post cut off by the connection may or may not have arrived. The
callbacks are written for one io thread (`main.cc:173`), so this module assumes
one; `Usenet` has any number.

### `Connection` and the code

| variable | in the code |
|----------|-------------|
| `m_state`, `m_article`, `m_msgid` | the members |
| `m_readbuf` | the line of which something has been read, if any |
| `sock` | is `m_sock` open |
| `peer`, `wire`, `owed` | the other end: what the kernel knows of it, the lines it has sent, the answer it is to give next |
| `received`, `stored` | the article the server was sent whole since the last `async_post`, and the one it took on this socket |
| `op` | the asynchronous operation that is pending |
| `timer` | a wait on `m_timer` is pending |
| `handlers` | the handlers the io_service has to run, in order |
| `thread[t]` | the member an io thread has still to clear, after it has posted an answer |
| `use`, `asked` | what the pool has the connection do, and for which article or id |
| `proc` | the process runs or has crashed |

| action | code |
|--------|------|
| `RunDo` | `do_connect`, `do_post`, `do_stat` |
| `StepSucceeds`, `LineIsRead`, `IoFails` | the callbacks of the chain `resolve`, `connect`, `handshake`, greeting, AUTHINFO USER and PASS, and of POST, the article and STAT: the next operation or an answer |
| `Clear` | `m_article.reset()`, `m_msgid.clear()`, which come after the answer was posted |
| `TimerExpires`, `RunExpired` | the wait handler is queued, and runs: `m_sock.cancel()` |
| `IoGoesOn` | a composed operation (`async_write` of an article, `async_read_until`, the handshake) takes one more turn |
| `ResolveEnds`, `ConnectEnds`, `HandshakeEnds`, `WriteEnds`, `ReadEnds` | the reactor: the pending operation has a result |
| `ServerAnswers`, `ServerCloses`, `ConnectionReset` | the other end |
| `BecomesReady`, `IsDiscarded`, `Reconnects` | the handlers of `usenet.cc`, as far as they touch the connection; `Reconnects` has `close()` |
| `StartCommand`, `Quit` | `async_post` / `async_stat` from `m_ready`; `async_graceful_disconnect` and the erasure that follows |
| `RunOnDestroyed` | a handler runs whose connection has been erased |

What an answer means is its first digit. A server gives the answers RFC 3977 has
for the command, closes the connection (perhaps after a line), or is silent. The
model has an operation timeout; without one (`operationtimeout` 0) a silent server
blocks a connection for ever by design. Two things it does not decide: whether a
TLS handshake succeeds on the SSL object of an earlier connection, which is up to
the library, and what a handler does on a destroyed object, which may crash.

### `Articles` and the code

| variable | in the code |
|----------|-------------|
| `given` | the command line, the configuration file and the file system the program starts with, and how often anything disturbs it |
| `tree`, `disk`, `changed` | what a path is and has under it; the bytes of the files; what others removed or changed since |
| `stage`, `walked`, `file`, `piece` | where `main` is: how far in the named paths, at which piece of which file |
| `todo`, `found` | what the iterator over a directory has yet to show; the regular file it is at |
| `cfg` | the `prog_config` |
| `files` | `fileset` and its `yencgenerator`s: size, number of parts, is the stream good |
| `part`; `input`, `line`, `lines` | the locals of `get_part`; those of `encode_block`, with what it has written |
| `articles`, `piece_sizes`, `exceptions`, `nzb` | what was enqueued; the maps; the segments that were written |

| action | code |
|--------|------|
| `LoadConfig` | `load_program_config`, the subject `main` chooses and the name of the nzb file |
| `NextPath` | the next named path: `is_directory`, `is_regular_file`, the warning |
| `EnterDirectory`, `NextEntry`, `PathDone` | the `recursive_directory_iterator`: its constructor, one entry with `is_regular_file`, its end |
| `AddPostitem` | `add_postitem`: `add_file` with the constructor of `yencgenerator`, `file_size` |
| `StartPool` | `add_connections` and `start`, as far as their numbers matter |
| `NextFile`, `ReadPart`, `EncodePart`, `EnqueueArticle` | the loop over files and pieces: `get_part` up to `encode_block`, a byte or line of it, and the article made of it |
| `OutgrowMemory` | the payload outgrows what `get_part` reserved, and twice as much is not to be had |
| `Retry` | the callback for a failed post: `get_key_from_message_id`, the exception and the new id |
| `End` | `write_nzb` |
| `RemovePath`, `RemoveEntry`, `ChangeFile` | somebody else: a named path vanishes or becomes unreachable, something within a directory vanishes, an opened file changes |

`Message`, `LinesTaken`, `Restored` say what becomes of an article outside: the lines
`send_article` writes, what a server takes of them, what a reader decodes. A line is
the sequence of its bytes without CRLF, a message id a sequence of tokens.

## What the runs check

| run | instance | shows |
|-----|----------|-------|
| `pool_unbounded` | 3 connections, 2 io threads, 3 posts, 1 STAT, no queue limit | types; no command waits beside a ready connection; exit status 1 only if no connection is left |
| `pool_bounded` | 2 connections, 2 io threads, 3 posts, 2 STATs, limit 1, STATs cut off | every connection and every command is in exactly one place; nothing is started on a stopped io_service; no wakeup is lost; exit status 0 only when all is done; retries exceed the queue limit by less than the number of connections and threads; nothing but the handler of an operation touches the connection that carries it; `Usenet` implements `Delivery` |
| `main` | 2 connections, 1 io thread, 2 pieces with STATs, limit 1, with fairness of the threads alone | the nzb file lists ids that servers took; no id is sent twice; no piece is sent four times; the progress count is exact; the program ends, unless its last connection is discarded while `main` waits for room, or some operation is never answered |
| `connection` | 1 io thread, TLS, 2 articles or ids, with fairness | each operation is carried on in one place and answered once; a connection in `m_ready` is usable; no line is taken for the answer to another command; answers tell what the server did; every operation ends, unless its timeout is lost or the timer of a failed read crashes the program; nothing else at the connection crashes it; `Connection` implements `Session` |
| `articles` | files of up to 4 bytes that become special characters, in parts of 1 to 5; several files that change while they are posted and retried; directories with something unreadable in them or under which things vanish while they are walked; command lines and configurations with something wrong | lines are safe and full; a server takes whole articles; they decode to what they claim; parts of a file never overlap, and restore it; the nzb file lists the articles under their last ids; no file is left out that is still there; only unchecked numbers, too little memory for a part, a missing HOME, and paths that vanish or cannot be looked at or read crash the program |

Runs that TLC must find violated, each a disagreement of the code with its own
comments (quoted in `PROJECT.json`, "findings"):

| run | what happens |
|-----|--------------|
| `no_work_progresses` | a STAT cut off is queued beside a ready connection while `main` waits for room; `main` finds the queue full again and the reconnect fails: nobody is left to run a handler, with a ready connection and a queued command, which is what `usenet.hpp:61-89` means to exclude |
| `blank_at_end` | the last line of a part ends in a TAB that is not escaped: the encoder takes the end of a line to be at `linelength - 1` (`yenc.cc:9-18`) |
| `stale_size` | after `stop()` the first idle connection disconnects all ready ones; `m_ready.size()` is 1 then and the list is empty when a retry reads it |
| `quit_handler` | a connection is destroyed while its QUIT is being written |
| `hang` | with a bounded queue, the last connection is discarded while `main` waits on `m_queuecv`: nobody notifies it |
| `post_hangs` | the timer expires while the handler between two turns of a read or write is queued: `m_sock.cancel()` finds nothing to cancel, and the rest of the operation has no timeout. The post of a server that falls silent then is never answered |
| `stale_timer` | a read fails and leaves its timer running; the pool closes the connection and connects it again, the timer expires while the address is being resolved, and `m_sock.cancel()` throws on the closed socket: the program ends |

*Bounds.* The script (number of posts and STATs), connections, threads and the
queue limit are the constants of a run; nothing else is bounded, since
`Post2Usenet` stops retrying by itself and a run of `Usenet` with endless retries
has finitely many states. Two connections are the least number with one ready
while the other fails; three let two of them disagree about a third. Two threads
suffice to put a second handler between any two sections of a first. A limit of
1 fills the queue with two commands. `Connection` has no bound but one io thread and
two articles, enough to tell the one asked for from an earlier one; its queue of
handlers is finite by itself. One thread is the default of `--iothreads`; with two,
`AnswersAreTrue` does not hold: `m_article.reset()` runs after the answer was posted and may
clear the article of the next post. Nor does `ExitOneMeansNoConnection` hold with a queue
limit: `main` is woken and pushes its command without another look at `m_ready`, where a
connection may have arrived meanwhile (`usenet.cc:88-95`). `Articles` has `LineLength` 3, so
that a column can be first, last, both neighbours of an escape, or beyond the end;
`SizeT` 64, so that -1 becomes a huge size; `Memory` 24, so that the part sizes that are
posted fit, one fits only until the payload outgrows it, and one does not; and `bound`, the number of
disturbances: none while every short file is encoded, one while configurations
are tried, two while directories are walked and several files are posted. Each of the
four sets of inputs (`EncodingInputs`, `PostingInputs`, `WalkingInputs`, `ConfigInputs`)
serves its own properties. No STAT is cut off in `main`: that would meet the state of `no_work_progresses`, and nothing limits how often a
STAT that is cut off is asked again; `pool_bounded` has such STATs, and so have the theorems
about `MainSpec`. Connections and threads are
interchangeable, so the runs without liveness use their symmetry.

*Deadlock.* `CHECK_DEADLOCK FALSE` stands in the runs with a bounded queue only,
where the program can really stop: the states of runs `hang` and `no_work_progresses`.

*Fairness* (`Post2Usenet!Fairness`). The operating system runs the calling
thread and every io thread (weak fairness of their steps; spurious wakeups are
possible but not promised), an invalid access ends the program (`StartOnSentinel`), and
the write of a QUIT ends, as its connection is destroyed and the socket with it. No
operation of a connection is assumed to end, since class `connection` does not see to
it: a timeout can be lost (run `post_hangs`), and the resolver is not timed. `EndsUnlessAbandoned` therefore leaves out the behaviours in
which from some time on one connection stays in one operation for ever
(`NeverAnswered`), for which `join()` waits for ever. Runs `hang` and
`no_work_progresses` do assume that every operation ends and that the io_service passes
no handler over for ever (`AnsweringSpec`, strong fairness per connection, since a
thread inside a handler disables the others now and then): what goes wrong there
is not the fault of a server. `Connection!Fairness`
expects nothing of servers and networks: threads run handlers, the resolver answers
(it is not timed), and the timer expires. Two things keep an operation from ending
all the same, and `OperationsEnd` names them: a timer that expired between two turns
(`TimeoutLost`), and the crash of the program by the timer of a failed read
(`StaleTimerCrash`); `OnlyStaleTimersCrash` says that there is no other crash while the
pool owns the connection. Run `post_hangs` also assumes that what is
pending on a closed or reset connection gets its result (`PromptSpec`), so that the
counterexample is one of a silent server.

Every property is also run against a variant of the code with one plausible bug
(the definitions commented `Defect:`, named in `PROJECT.json`, "mutants"), which it must
reject.

## What is proved

For all values of the constants that satisfy `PoolAssumption`, so for any number of
connections, threads and commands and any queue limit:

- `TypeCorrect`: `Spec => []TypeOK`. A thread inside a handler has the parameters
  that the rest of the handler uses. `TypeOK` is inductive as it stands.
- `ListsAreConsistent`: `Spec => []ConnectionsAccountedFor`. Inductive together with
  `TypeOK`; its four parts (`ReadyAreIdle`, `BusyAreExpected`, `OthersAreErased`,
  `HeldByOneHandler`) need each other: a section may use a connection because it
  is busy with an operation, and no other handler can hold it for that reason.
- `StopIsFinal`: `Spec => [](NothingStartedAfterStop /\ WorkIsKept /\ ThreadsLeaveWhenStopped)`.
  The strengthening `WorkIsKept` says that `m_work` is given up only by `stop()` or
  when no connection is left; with the lists consistent, a stopped io_service then
  has no ready connection on which a command could be started before `stop()`.
- `WakeupsArrive`: `Spec => []NoLostWakeup`. Every section that makes room while the
  caller waits notifies it; the others leave the queue as long, or make it longer.
- `NothingIsStranded`: with no queue limit and no STAT cut off,
  `Spec => []NoStrandedWork`; the two conditions are those the code needs.
- `NothingInterrupts`: `Spec => OperationsLeftAlone`, from the same invariant. It is the
  pool's side of the seam between `Usenet` and `Connection`: module `Connection` takes for
  granted that the pool calls a connection only when it is idle or has just been answered
  (`StartCommand`, `Quit`, `BecomesReady`, `IsDiscarded`, `Reconnects`).
- `NothingIsLost`: `Spec => []CommandsAccountedFor`. Inductive with the consistency of the
  lists, because a section that starts a command must find its connection idle. The
  places are summed up as `Pending` (queue and connections), the handlers and
  `finished`, and a step moves at most one command between two of them.
- `ExitZeroIsTrue`: `Spec => []ExitZeroMeansFinished`. Threads have left only when the
  io_service has stopped, so no connection and no handler has a command, and what
  is not in the queue is finished.
- `PoolIsDelivery`: `Spec => ImplementsDelivery`, every step of the pool is one of
  module `Delivery` or leaves its variables alone.
- `ExitOneIsTrue`: under the conditions of `NothingIsStranded`,
  `Spec => []ExitOneMeansNoConnection`.
- `OverrunIsBounded`: `Spec => []QueueOverrunIsBounded`, for a bounded queue. What counts is
  the load: the commands in the queue, the connections that carry one or are ready, and
  the handlers that hold one. Only the caller adds to it, when the queue has room
  (`LoadInv`); and not every connection is occupied while every thread holds a
  command (`SlackInv`), which makes the bound strict.

For the program, under `MainAssumption` besides (one io thread, any number of pieces,
with or without STATs):

- `MainIsPool`: `MainSpec => Spec`. Every step of the program is a step of the pool, so
  the theorems above hold in it.
- `MainTypeCorrect`, `ThreeAttempts`: `MainSpec => []MainTypeOK` and
  `[]NoFourthAttempt`, from `IdInv`: while the program runs, the failures of a piece,
  its exception and the nonce in its header are one number below `MaxRetries`, and it
  went out under no later nonce. `OnlyRunningSteps` is needed because the failure that
  ends the program breaks that equality.
- `NoIdIsReused`, `NzbIsTrue`, `ProgressIsTrue`: `MainSpec => []FreshIdOnEverySend`,
  `[]NzbListsStoredArticles`, `[]ProgressIsExact`, from `PieceInv`: the current id of a
  piece was sent only if its post is finished or its answer is being handled
  (`SentInv`), it is stored once the post has succeeded (`StoredInv`), and `num_posted`
  is the number of pieces finished (`CountInv`). A retry moves a piece to an id above
  all it was sent under; that no other handler and no earlier success has the same
  piece is `NothingIsLost`, and that all pieces are finished at exit status 0 is
  `ExitZeroIsTrue`.

For one connection, with or without TLS, any number of io threads and any articles and
ids (`OpsAssumption`: the mark of "nothing" is not the name of an operation):

- `ConnectionTypeCorrect`, `OneAnswerEach`, `ReadyIsUsable`: `Spec => []ConnectionTypeOK`,
  `[]OneContinuation`, `[]UsableWhenIdle`, from `ConnInv`. Its core is `ChainInv`, which says
  what the pool's use of the connection, `m_state`, the pending operation and the queued
  handlers have to do with each other: the one handler that is not the timer's belongs to
  that use, and if it is an answer that keeps the connection, `m_state` is already
  what `async_post` asks for. That part cannot be left out, since the pool makes a
  connection idle long after the callback has set its state.
- `LinesAreAnswers`: `Spec => []AnswersInStep`, from `LinesInv`, which says for each place
  of the chain what may be on the wire: nothing before a connect (`Fresh`), at most the
  goodbye of a server that has closed before a command is written (`Quiet`), and then one
  answer, and only the one awaited (`Awaiting`). An operation that failed promises nothing, which
  is why `Close` has to empty the wire and the buffer.
- `AnswersTell`: `Spec => []AnswersAreTrue` with one io thread, from `TruthInv`: what the
  server has stored agrees with the first line on the wire, then with the line in the buffer,
  then with the answer. With two threads it is false: the one that answered clears
  `m_article` after the other has been given the next article.
- `CrashesAreStaleTimers`: `Spec => []OnlyStaleTimersCrash` with one io thread, from `SocketInv`: the
  socket is closed only while the connection is connecting, and then at most the address is being
  resolved, or a failure is on its way to the pool; so the wait handler of a post or STAT finds it
  open, and the only one that does not is left from an operation before. With `TruthInv`, the article
  of a post is there until its answer is posted.
- `ContractIsKept`: `Spec => ImplementsSession` with one io thread, the connection's side of the
  seam: every step of the server, the network, the timer and the callbacks is a step of
  `Session` or leaves it alone. The actions of the pool give and conclude, the
  callback that ends a chain replies, the server's 240 takes, and everything else
  stutters. The mapping needs the invariants above, and `SentInv` besides: when the server
  owes the answer to an article, a post is going on, the article it `received` is
  the one asked for, and it has taken none yet. One io thread is needed for the reason
  given with `AnswersTell`. What a server takes of an article after the pool has closed the
  socket is not told to anybody and not tracked by `stored`; that it may have taken
  it is why `Post2Usenet` sends each retry under a new id.

For the articles, under `InputAssumption` (files are sequences of bytes, what is named is in
the tree, numbers are integers), `MemoryAssumption` (an allocation has less than half of what
`size_t` can say) and for every line length, article size and number of files, which may change
or vanish at any time:

- `ArticlesTypeCorrect`: `Spec => []ArticlesTypeOK`. The walk only finds files that exist,
  and what `SizeT` wraps is a size again.
- `LinesStaySafe`: `Spec => []LinesAreSafe`, from `SafeSoFar`, the invariant of a line while
  it is written. That a line is never a lone `=` is part of it: what follows an `=` in
  the first column is one of seven characters, none of them a `y` (`EncodedByte`).
- `PartsAreDisjoint`: `Spec => []PartsDoNotOverlap`, from `PartsInv`: articles are in the
  order of the loop, and a part ends before its `(piece + 1) * article_size`.
- `KeyIsParsedBack`: `get_key_from_message_id` undoes `get_usenet_message_id` for any domain.
- `NzbIsComplete`: `Spec => []NzbMatches`. Segments and articles correspond one to one, with
  the sizes and the last ids. A retry finds its key by `KeyIsParsedBack` and changes no other
  article's, because no two have the same (`KeysDiffer`, from the order in `PartsInv`);
  `PostedSoFar` has the loop leave nothing out.
- `NzbIsInOrder`: `Spec => []NzbListsArticles`, the same with the order, from `OrderInv`: the
  articles of a file, in the order in which they were made, are its pieces 0, 1, and so on
  without a gap, as many as the loop has got to.
- `CrashesHaveCauses`: `Spec => []CrashesAreExplained`. What the walk has at hand is from the path under way
  as the program found it (`SearchInv`), so what a crash at one of its calls met has gone since or was
  unreadable from the start (`WalkCrashes`); that the status of every named path could be had then
  is `AcceptedInv`. Before the walk only HOME, the configuration and the output path can throw; after
  it the files are open, and only numbers and memory are left.
- `ArticlesAreDecoded`, `ArticlesAreTakenWhole`: `Spec => []ArticlesDecode`,
  `[]ArticlesArriveWhole`, from `WholeInv`: an article's payload is the keyword lines around
  lines that are harmless and decode to the data of its part. While a part is encoded this
  is `Carries`: the lines written, the line begun and the input that is left decode to the
  part. It needs `SafeSoFar`, since only a line that does not end in the middle of an
  escape can be decoded by itself.
- `FilesComeBack`: `Spec => []FilesAreRestored`, from `DataInv` (a part is its slice of the file,
  if that file has not changed) and `FilesInv` (size and number of parts are those of the
  file, and its stream is good as long as there are pieces to be read: only the last
  read can be short, and that is the one which ends the stream). The slices make up the
  file because there are as many as it takes to cover it (`PartsCover`, `SlicesMakeUp`).
- `NothingIsLeftOut`: `Spec => []NothingLeftOut`, from `WalkInv`: what is still under the paths
  that were walked is in the fileset, and what is under the one that is being walked is in the
  fileset, still to be shown, or the file that is about to be added.

`ReaderProofs` is about functions that are defined by recursion over sequences: the decoder,
the flattening of lines and parts, the choice of articles in order. Its facts about them are
by induction on sets of numbers: a set that contains 0 and the successor of each of its elements
contains every number (`SetInduction`), and a non-empty set of numbers has a least element
(`SmallestOfSet`), both from the well-foundedness of `<` on the naturals. The library's
induction rules, whose premise is an operator, are not used.

Only model-checked: liveness (`EndsUnlessAbandoned`, `OperationsEnd`), which is out of TLAPS'
reach, and what the runs with a violation show. Every other property of the passing runs is stated
by a theorem.

## What is not modelled

The text of headers and of the nzb file (whose escaping of names leaves `&` as it
is, `main.cc:31-40`), of what is printed and dumped;
what others add to a directory or put in place of an entry while it is walked; memory that is used up by
anything but the vectors of a part; no io threads at all (`--iothreads 0`: nothing runs); destruction of
static objects by `std::exit` while other threads run. `get_run_nonce` is taken never
to repeat. Several configured servers differ only in their answers, so each
connection may get any answer. "Repost articles if bad" (`program_config.cc:172`) is
not there to be modelled: the result of a STAT is printed, and the rest is a TODO
(`main.cc:177-181`).

## Plan

1. A composition of `Usenet` with one `Session` for each connection, in place of the pool's
   own interface: both sides of the seam are proved, each in its own module.
2. The news server's side: answers to POST outside RFC 3977, several servers with
   different articles.
