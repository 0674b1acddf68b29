----------------------------- MODULE PoolProofs -----------------------------
(***************************************************************************)
(* Theorems about the connection pool of module Usenet, for every number   *)
(* of connections, threads and commands and every bound of the queue:      *)
(* types, the two lists of connections, the end of the io_service and the  *)
(* wait on m_queuecv.                                                      *)
(***************************************************************************)
EXTENDS Usenet, TLAPS

-----------------------------------------------------------------------------
(* Type correctness: one lemma for each critical section, then one step for *)
(* each action.                                                             *)

LEMMA InitType == Init => TypeOK
<1> SUFFICES ASSUME Init PROVE TypeOK
  OBVIOUS
<1>1. PoolTypeOK
  <2>1. m_work \in BOOLEAN /\ stale_size \in BOOLEAN /\ notified \in BOOLEAN
    BY DEF Init
  <2>2. m_ready \in Seq(Conns) /\ m_queue \in Seq(Commands)
    BY DEF Init
  <2>3. conn \in [Conns -> ConnStates]
    BY DEF Init, ConnStates
  <2> QED
    BY <2>1, <2>2, <2>3 DEF Init, PoolTypeOK
<1>2. CallerTypeOK
  <2>1. Len(Script) \in Nat
    BY PoolAssumption
  <2>2. seen_work \in BOOLEAN
    BY DEF Init
  <2>3. main_at = "enqueue" /\ next = 1
    BY DEF Init
  <2> QED
    BY <2>1, <2>2, <2>3 DEF CallerTypeOK
<1>3. thread \in [Threads -> ThreadStates]
  BY DEF Init, ThreadStates
<1> QED
  BY <1>1, <1>2, <1>3 DEF Init, TypeOK

\* The sequence operators the pool uses keep the type of the sequence.
LEMMA SeqTypes ==
  ASSUME NEW S, NEW s \in Seq(S)
  PROVE  /\ \A e \in S : Append(s, e) \in Seq(S)
         /\ s # <<>> => Head(s) \in S /\ Tail(s) \in Seq(S)
         /\ \A i \in DOMAIN s : s[i] \in S
  OBVIOUS

LEMMA StartOnReadyType ==
  ASSUME TypeOK, NEW cmd \in Commands, StartOnReady(cmd)
  PROVE  PoolTypeOK'
<1>1. Head(m_ready) \in Conns /\ Tail(m_ready) \in Seq(Conns)
  BY SeqTypes DEF TypeOK, PoolTypeOK, StartOnReady
<1>2. Doing(cmd) \in ConnStates
  BY DEF ConnStates
<1> QED
  BY <1>1, <1>2 DEF TypeOK, PoolTypeOK, StartOnReady

LEMMA PushBackType ==
  ASSUME TypeOK, NEW cmd \in Commands, PushBack(cmd)
  PROVE  PoolTypeOK'
  BY SeqTypes DEF TypeOK, PoolTypeOK, PushBack

LEMMA StartOrQueueType ==
  ASSUME TypeOK, NEW cmd \in Commands, StartOrQueue(cmd)
  PROVE  PoolTypeOK'
  BY StartOnReadyType, PushBackType DEF StartOrQueue

LEMMA OnConnBecomesReadyType ==
  ASSUME TypeOK, NEW c \in Conns, OnConnBecomesReady(c)
  PROVE  PoolTypeOK'
<1>1. CASE TakeNextCommand(c)
  <2>1. Head(m_queue) \in Commands /\ Tail(m_queue) \in Seq(Commands)
    BY <1>1, SeqTypes DEF TypeOK, PoolTypeOK, TakeNextCommand
  <2>2. Doing(Head(m_queue)) \in ConnStates
    BY <2>1 DEF ConnStates
  <2> QED
    BY <1>1, <2>1, <2>2 DEF TypeOK, PoolTypeOK, TakeNextCommand
<1>2. CASE JoinReady(c)
  BY <1>2, SeqTypes DEF TypeOK, PoolTypeOK, JoinReady, ConnStates
<1>3. CASE ShutDownReady(c)
  <2>1. conn' \in [Conns -> ConnStates]
    BY <1>3 DEF TypeOK, PoolTypeOK, ShutDownReady, ConnStates
  <2> QED
    BY <1>3, <2>1, PoolAssumption DEF TypeOK, PoolTypeOK, ShutDownReady
<1> QED
  BY <1>1, <1>2, <1>3 DEF OnConnBecomesReady

LEMMA DiscardConnectionType ==
  ASSUME TypeOK, NEW c \in Conns, DiscardConnection(c)
  PROVE  PoolTypeOK'
  BY DEF TypeOK, PoolTypeOK, DiscardConnection, ConnStates

\* What a connection that carries out a command is known to carry.
LEMMA DoingType ==
  ASSUME TypeOK, NEW c \in Conns, conn[c].op \in {"post", "stat"}
  PROVE  /\ conn[c].cmd \in Commands
         /\ conn[c].cmd.kind = conn[c].op
         /\ conn[c] = Doing(conn[c].cmd)
<1>1. PICK cmd \in Commands : conn[c] = Doing(cmd)
  BY DEF TypeOK, PoolTypeOK, ConnStates, Connecting, Idle, Quitting, Closed, Dead
<1> QED
  BY <1>1 DEF Doing

LEMMA PostsAndStats ==
  ASSUME TypeOK, NEW c \in Conns
  PROVE  /\ conn[c].op = "post" => conn[c].cmd \in Posts
         /\ conn[c].op = "stat" => conn[c].cmd \in Stats
  BY DoingType DEF Posts, Stats

LEMMA ThreadTypes ==
  ASSUME TypeOK, NEW t \in Threads
  PROVE  /\ thread[t].at = "post_failed" =>
              /\ thread[t].cmd \in Posts
              /\ thread[t].result \in {"POST_FAILURE", "POST_FAILURE_CONNECTION_ERROR"}
              /\ thread[t].result = "POST_FAILURE" => thread[t].conn \in Conns
         /\ thread[t].at = "becomes_ready" => thread[t].conn \in Conns
         /\ thread[t].at = "dispatch_or_queue" => thread[t].cmd \in Posts
         /\ thread[t].at = "finish_post" => thread[t].cmd \in Posts
         /\ thread[t].at = "finish_stat" => thread[t].cmd \in Stats
<1>1. thread[t] \in ThreadStates
  BY DEF TypeOK
<1> QED
  BY <1>1 DEF ThreadStates, Running, Exited

LEMMA ContinueType ==
  ASSUME TypeOK, NEW t \in Threads, NEW where, NEW c, NEW cmd, NEW result,
         [at |-> where, conn |-> c, cmd |-> cmd, result |-> result] \in ThreadStates,
         Continue(t, where, c, cmd, result)
  PROVE  thread' \in [Threads -> ThreadStates]
  BY DEF TypeOK, Continue

LEMMA ReturnType ==
  ASSUME TypeOK, NEW t \in Threads, Return(t)
  PROVE  thread' \in [Threads -> ThreadStates]
  BY DEF TypeOK, Return, ThreadStates

\* What an action leaves alone keeps its type, and so does stopped.
LEMMA SameCaller == TypeOK /\ UNCHANGED caller => CallerTypeOK'
  BY DEF TypeOK, CallerTypeOK, caller

LEMMA SamePool == TypeOK /\ UNCHANGED pool => PoolTypeOK'
  BY DEF TypeOK, PoolTypeOK, pool

LEMMA StoppedType == IoServiceStops => stopped' \in BOOLEAN
  BY DEF IoServiceStops

-----------------------------------------------------------------------------
LEMMA OnConnectedType ==
  ASSUME TypeOK, NEW t \in Threads, NEW c \in Conns, OnConnected(t, c)
  PROVE  TypeOK'
<1>1. PoolTypeOK'
  BY OnConnBecomesReadyType, DiscardConnectionType DEF OnConnected
<1> QED
  BY <1>1, SameCaller, StoppedType DEF OnConnected, TypeOK

LEMMA OnPostFinishedType ==
  ASSUME TypeOK, NEW t \in Threads, NEW c \in Conns, OnPostFinished(t, c)
  PROVE  TypeOK'
<1>1. conn[c].cmd \in Posts
  BY PostsAndStats DEF OnPostFinished
<1>2. PoolTypeOK' /\ thread' \in [Threads -> ThreadStates]
  <2>1. CASE PostNotPermitted(t, c)
    BY <1>1, <2>1, DiscardConnectionType, ContinueType DEF PostNotPermitted, ThreadStates
  <2>2. CASE PostFailure(t, c)
    <3>1. PoolTypeOK'
      BY <2>2 DEF TypeOK, PoolTypeOK, PostFailure, ConnStates
    <3> QED
      BY <1>1, <2>2, <3>1, ContinueType DEF PostFailure, ThreadStates
  <2>3. CASE PostConnectionError(t, c)
    <3>1. PoolTypeOK'
      BY <2>3 DEF TypeOK, PoolTypeOK, PostConnectionError, ConnStates
    <3> QED
      BY <1>1, <2>3, <3>1, ContinueType DEF PostConnectionError, ThreadStates
  <2>4. CASE PostSuccess(t, c)
    BY <1>1, <2>4, OnConnBecomesReadyType, ContinueType DEF PostSuccess, ThreadStates
  <2> QED
    BY <2>1, <2>2, <2>3, <2>4 DEF OnPostFinished
<1> QED
  BY <1>2, SameCaller, StoppedType DEF OnPostFinished, TypeOK

LEMMA OnStatFinishedType ==
  ASSUME TypeOK, NEW t \in Threads, NEW c \in Conns, OnStatFinished(t, c)
  PROVE  TypeOK'
<1>1. conn[c].cmd \in Stats /\ Stats \subseteq Commands
  BY PostsAndStats DEF OnStatFinished, Stats
<1>2. PICK result \in StatResults :
        IF result = "CONNECTION_ERROR"
        THEN StatConnectionError(c)
        ELSE OnConnBecomesReady(c) /\ Continue(t, "finish_stat", None, conn[c].cmd, result)
  BY DEF OnStatFinished
<1>3. PoolTypeOK' /\ thread' \in [Threads -> ThreadStates]
  <2>1. CASE result = "CONNECTION_ERROR"
    <3>1. StatConnectionError(c)
      BY <1>2, <2>1
    <3>2. m_queue' \in Seq(Commands)
      BY <1>1, <3>1, SeqTypes DEF StatConnectionError, TypeOK, PoolTypeOK
    <3> QED
      BY <3>1, <3>2 DEF TypeOK, PoolTypeOK, StatConnectionError, ConnStates
  <2>2. CASE result # "CONNECTION_ERROR"
    <3>1. result \in {"ARTICLE_EXISTS", "INVALID_ARTICLE"}
      BY <2>2, PoolAssumption
    <3>2. [at |-> "finish_stat", conn |-> None, cmd |-> conn[c].cmd, result |-> result]
            \in ThreadStates
      BY <1>1, <3>1 DEF ThreadStates
    <3> QED
      BY <1>2, <2>2, <3>2, OnConnBecomesReadyType, ContinueType
  <2> QED
    BY <2>1, <2>2
<1> QED
  BY <1>3, SameCaller, StoppedType DEF OnStatFinished, TypeOK

LEMMA OnQuitWrittenType ==
  ASSUME TypeOK, NEW t \in Threads, NEW c \in Conns, OnQuitWritten(t, c)
  PROVE  TypeOK'
<1>1. PoolTypeOK'
  BY DEF OnQuitWritten, TypeOK, PoolTypeOK, ConnStates
<1> QED
  BY <1>1, SameCaller, StoppedType DEF OnQuitWritten, TypeOK

LEMMA ProceedType ==
  ASSUME TypeOK, NEW t \in Threads, Proceed(t)
  PROVE  TypeOK'
<1> USE DEF At
<1>1. Posts \subseteq Commands /\ Stats \subseteq Commands
  BY DEF Posts, Stats
<1>2. CASE Requeue(t)
  <2>1. PoolTypeOK'
    BY <1>1, <1>2, ThreadTypes, StartOrQueueType DEF Requeue
  <2>2. thread' \in [Threads -> ThreadStates]
    <3>1. CASE thread[t].result = "POST_FAILURE"
      BY <1>2, <3>1, ThreadTypes, ContinueType DEF Requeue, ThreadStates
    <3>2. CASE thread[t].result # "POST_FAILURE"
      BY <1>2, <3>2, ReturnType DEF Requeue
    <3> QED
      BY <3>1, <3>2
  <2> QED
    BY <1>2, <2>1, <2>2, SameCaller, StoppedType DEF Requeue, TypeOK
<1>3. CASE Abort(t)
  <2>1. PoolTypeOK'
    BY <1>3 DEF Abort, TypeOK, PoolTypeOK
  <2> QED
    BY <1>3, <2>1, SameCaller, StoppedType DEF Abort, TypeOK
<1>4. CASE BecomeReady(t)
  <2>1. PoolTypeOK'
    BY <1>4, ThreadTypes, OnConnBecomesReadyType DEF BecomeReady
  <2> QED
    BY <1>4, <2>1, ReturnType, SameCaller, StoppedType DEF BecomeReady, TypeOK
<1>5. CASE DispatchOrQueue(t)
  <2>1. PoolTypeOK'
    BY <1>1, <1>5, ThreadTypes, StartOrQueueType DEF DispatchOrQueue
  <2> QED
    BY <1>5, <2>1, ReturnType, SameCaller, StoppedType DEF DispatchOrQueue, TypeOK
<1>6. CASE Finish(t)
  <2>1. finished' \subseteq Commands
    BY <1>1, <1>6, ThreadTypes DEF Finish, TypeOK
  <2> QED
    BY <1>6, <2>1, ReturnType, SamePool, SameCaller, StoppedType DEF Finish, TypeOK
<1> QED
  BY <1>2, <1>3, <1>4, <1>5, <1>6 DEF Proceed

LEMMA IoExitType ==
  ASSUME TypeOK, NEW t \in Threads, IoExit(t)
  PROVE  TypeOK'
<1>1. thread' \in [Threads -> ThreadStates]
  BY DEF IoExit, TypeOK, ThreadStates
<1> QED
  BY <1>1, SamePool, SameCaller, StoppedType DEF IoExit, TypeOK

LEMMA MainType ==
  ASSUME TypeOK, Main
  PROVE  TypeOK'
<1> USE DEF MainAt
<1>1. Len(Script) \in Nat /\ \A i \in 1..Len(Script) : Script[i] \in Commands
  BY PoolAssumption
<1>2. next \in 1..(Len(Script) + 1)
  BY DEF TypeOK, CallerTypeOK
<1>3. CASE EnqueueNow
  <2>1. Script[next] \in Commands
    BY <1>1, <1>2, <1>3 DEF EnqueueNow
  <2>2. PoolTypeOK'
    BY <1>3, <2>1, StartOnReadyType, PushBackType DEF EnqueueNow
  <2>3. next' \in 1..(Len(Script) + 1)
    BY <1>1, <1>2, <1>3 DEF EnqueueNow
  <2> QED
    BY <1>3, <2>2, <2>3, StoppedType DEF EnqueueNow, TypeOK, CallerTypeOK
<1>4. CASE StartWaiting
  BY <1>4, SamePool, StoppedType DEF StartWaiting, TypeOK, CallerTypeOK
<1>5. CASE WakeAndPush
  <2>1. next <= Len(Script) /\ Script[next] \in Commands
    BY <1>1, <1>2, <1>5 DEF WakeAndPush, TypeOK, CallerTypeOK
  <2>2. m_queue' \in Seq(Commands)
    BY <1>5, <2>1, SeqTypes DEF WakeAndPush, TypeOK, PoolTypeOK
  <2>3. PoolTypeOK'
    BY <1>5, <2>2 DEF WakeAndPush, TypeOK, PoolTypeOK
  <2>4. next' \in 1..(Len(Script) + 1)
    BY <1>1, <1>2, <1>5, <2>1 DEF WakeAndPush
  <2> QED
    BY <1>5, <2>3, <2>4, StoppedType DEF WakeAndPush, TypeOK, CallerTypeOK
<1>6. CASE WaitAgain
  <2>1. PoolTypeOK'
    BY <1>6 DEF WaitAgain, TypeOK, PoolTypeOK
  <2> QED
    BY <1>6, <2>1, SameCaller, StoppedType DEF WaitAgain, TypeOK
<1>7. CASE StopReads
  <2>1. seen_work' \in BOOLEAN
    BY <1>7 DEF StopReads, TypeOK, PoolTypeOK
  <2> QED
    BY <1>7, <2>1, SamePool, StoppedType DEF StopReads, TypeOK, CallerTypeOK
<1>8. CASE StopResets
  <2>1. PoolTypeOK'
    BY <1>8 DEF StopResets, TypeOK, PoolTypeOK
  <2> QED
    BY <1>8, <2>1, StoppedType DEF StopResets, TypeOK, CallerTypeOK
<1>9. CASE JoinAndExit
  <2>1. PoolTypeOK'
    BY <1>9 DEF JoinAndExit, TypeOK, PoolTypeOK
  <2> QED
    BY <1>9, <2>1, SameCaller, StoppedType DEF JoinAndExit, TypeOK
<1> QED
  BY <1>3, <1>4, <1>5, <1>6, <1>7, <1>8, <1>9 DEF Main

LEMMA StartOnSentinelType ==
  ASSUME TypeOK, StartOnSentinel
  PROVE  TypeOK'
<1>1. PoolTypeOK'
  BY DEF StartOnSentinel, TypeOK, PoolTypeOK
<1> QED
  BY <1>1, SameCaller, StoppedType DEF StartOnSentinel, TypeOK

LEMMA StutterType == TypeOK /\ UNCHANGED vars => TypeOK'
<1> SUFFICES ASSUME TypeOK, UNCHANGED vars PROVE TypeOK'
  OBVIOUS
<1>1. UNCHANGED pool /\ UNCHANGED caller
  BY DEF vars, pool, caller
<1> QED
  BY <1>1, SamePool, SameCaller DEF vars, TypeOK

LEMMA NextType == TypeOK /\ [Next]_vars => TypeOK'
<1> SUFFICES ASSUME TypeOK, [Next]_vars PROVE TypeOK'
  OBVIOUS
<1>1. ASSUME NEW t \in Threads, NEW c \in Conns, Complete(t, c) PROVE TypeOK'
  BY <1>1, OnConnectedType, OnPostFinishedType, OnStatFinishedType, OnQuitWrittenType DEF Complete
<1>2. CASE Ended \/ UNCHANGED vars
  BY <1>2, StutterType DEF Ended
<1> QED
  BY <1>1, <1>2, MainType, ProceedType, IoExitType, StartOnSentinelType DEF Next

\* Every variable keeps its type, and every thread inside a handler the parameters
\* the rest of the handler uses: dispatch_or_queue and the callbacks always have a
\* command, on_conn_becomes_ready always a connection (usenet.cc:227-267).
THEOREM TypeCorrect == Spec => []TypeOK
  BY InitType, NextType, PTL DEF Spec
-----------------------------------------------------------------------------
(* Sequences without repetition, as the lists and the queue are.            *)

LEMMA TailElements ==
  ASSUME NEW S, NEW s \in Seq(S), s # <<>>, Distinct(s)
  PROVE  /\ Head(s) \in Elements(s)
         /\ Elements(Tail(s)) = Elements(s) \ {Head(s)}
         /\ Distinct(Tail(s))
<1>1. /\ Len(s) \in Nat \ {0}
      /\ DOMAIN s = 1..Len(s)
      /\ Head(s) = s[1]
      /\ DOMAIN Tail(s) = 1..(Len(s) - 1)
      /\ \A i \in 1..(Len(s) - 1) : Tail(s)[i] = s[i + 1]
  OBVIOUS
<1>2. Head(s) \in Elements(s)
  BY <1>1 DEF Elements
<1>3. Elements(Tail(s)) \subseteq Elements(s) \ {Head(s)}
  BY <1>1 DEF Elements, Distinct
<1>4. ASSUME NEW e \in Elements(s) \ {Head(s)} PROVE e \in Elements(Tail(s))
  <2>1. PICK i \in 1..Len(s) : e = s[i]
    BY <1>1 DEF Elements
  <2>2. i # 1 /\ i - 1 \in 1..(Len(s) - 1)
    BY <1>1, <1>4, <2>1
  <2>3. Tail(s)[i - 1] = e
    BY <1>1, <2>1, <2>2
  <2> QED
    BY <1>1, <2>2, <2>3 DEF Elements
<1>5. Distinct(Tail(s))
  BY <1>1 DEF Distinct
<1> QED
  BY <1>2, <1>3, <1>4, <1>5

LEMMA AppendElements ==
  ASSUME NEW S, NEW s \in Seq(S), NEW e \in S
  PROVE  /\ Elements(Append(s, e)) = Elements(s) \cup {e}
         /\ Distinct(s) /\ e \notin Elements(s) => Distinct(Append(s, e))
<1>1. /\ Len(s) \in Nat
      /\ DOMAIN s = 1..Len(s)
      /\ DOMAIN Append(s, e) = 1..(Len(s) + 1)
      /\ \A i \in 1..Len(s) : Append(s, e)[i] = s[i]
      /\ Append(s, e)[Len(s) + 1] = e
  OBVIOUS
<1>2. Elements(Append(s, e)) \subseteq Elements(s) \cup {e}
  BY <1>1 DEF Elements
<1>3. Elements(s) \cup {e} \subseteq Elements(Append(s, e))
  BY <1>1 DEF Elements
<1>4. ASSUME Distinct(s), e \notin Elements(s) PROVE Distinct(Append(s, e))
  BY <1>1, <1>4 DEF Distinct, Elements
<1> QED
  BY <1>2, <1>3, <1>4

LEMMA EmptyElements == Elements(<<>>) = {} /\ Distinct(<<>>)
  BY DEF Elements, Distinct

LEMMA NonEmptyElements ==
  ASSUME NEW S, NEW s \in Seq(S)
  PROVE  /\ Elements(s) \subseteq S
         /\ s # <<>> => Head(s) \in Elements(s)
         /\ s = <<>> <=> Elements(s) = {}
<1>1. Len(s) \in Nat /\ DOMAIN s = 1..Len(s) /\ \A i \in 1..Len(s) : s[i] \in S
  OBVIOUS
<1>2. Elements(s) \subseteq S
  BY <1>1 DEF Elements
<1>3. ASSUME s # <<>> PROVE Head(s) \in Elements(s)
  <2>1. Head(s) = s[1] /\ 1 \in 1..Len(s)
    BY <1>3
  <2> QED
    BY <1>1, <2>1 DEF Elements
<1> QED
  BY <1>2, <1>3, EmptyElements

-----------------------------------------------------------------------------
(* The lists.  ConnectionsAccountedFor is inductive: one lemma for each     *)
(* critical section, given what becomes of the threads inside handlers.     *)

SameHolders == \A t \in Threads, d \in Conns : Holds(t, d)' <=> Holds(t, d)

NobodyHolds(c) == \A t \in Threads : ~Holds(t, c)

LEMMA StartOnReadyEffect ==
  ASSUME TypeOK, ConnectionsAccountedFor, NEW cmd, StartOnReady(cmd)
  PROVE  \E d \in Elements(m_ready) :
           /\ d \in Conns
           /\ Elements(m_ready)' = Elements(m_ready) \ {d}
           /\ Distinct(m_ready)'
           /\ m_busy' = m_busy \cup {d}
           /\ conn' = [conn EXCEPT ![d] = Doing(cmd)]
<1>1. m_ready \in Seq(Conns) /\ m_ready # <<>> /\ Distinct(m_ready)
  BY DEF TypeOK, PoolTypeOK, ConnectionsAccountedFor, ReadyAreIdle, StartOnReady
<1>2. /\ Head(m_ready) \in Elements(m_ready)
      /\ Elements(Tail(m_ready)) = Elements(m_ready) \ {Head(m_ready)}
      /\ Distinct(Tail(m_ready))
  BY <1>1, TailElements
<1>3. Head(m_ready) \in Conns
  BY <1>1, SeqTypes
<1> QED
  BY <1>2, <1>3 DEF StartOnReady

LEMMA SameReady ==
  UNCHANGED m_ready => /\ Elements(m_ready)' = Elements(m_ready)
                       /\ Distinct(m_ready)' <=> Distinct(m_ready)
  BY DEF Elements, Distinct

LEMMA BusyAreConns == TypeOK => m_busy \subseteq Conns
  BY DEF TypeOK, PoolTypeOK

LEMMA SameLists ==
  ASSUME TypeOK, ConnectionsAccountedFor, SameHolders, UNCHANGED <<m_ready, m_busy, conn>>
  PROVE  ConnectionsAccountedFor'
<1>1. ReadyAreIdle' /\ OthersAreErased'
  BY SameReady DEF ConnectionsAccountedFor, ReadyAreIdle, OthersAreErased
<1>2. BusyAreExpected' /\ HeldByOneHandler'
  BY BusyAreConns DEF ConnectionsAccountedFor, BusyAreExpected, HeldByOneHandler, SameHolders
<1> QED
  BY <1>1, <1>2 DEF ConnectionsAccountedFor

LEMMA StartOrQueueKeepsLists ==
  ASSUME TypeOK, ConnectionsAccountedFor, NEW cmd \in Commands, SameHolders,
         StartOrQueue(cmd)
  PROVE  ConnectionsAccountedFor'
<1>1. CASE StartOnReady(cmd)
  <2>1. PICK d \in Elements(m_ready) :
           /\ d \in Conns
           /\ Elements(m_ready)' = Elements(m_ready) \ {d}
           /\ Distinct(m_ready)'
           /\ m_busy' = m_busy \cup {d}
           /\ conn' = [conn EXCEPT ![d] = Doing(cmd)]
    BY <1>1, StartOnReadyEffect
  <2>2. Doing(cmd).op \in {"post", "stat"}
    BY DEF Doing, Commands
  <2>3. conn \in [Conns -> ConnStates] /\ Elements(m_ready) \subseteq Conns /\ m_busy \subseteq Conns
    BY NonEmptyElements DEF TypeOK, PoolTypeOK
  <2>4. ReadyAreIdle' /\ OthersAreErased' /\ HeldByOneHandler'
    BY <2>1, <2>2, <2>3
    DEF ConnectionsAccountedFor, ReadyAreIdle, OthersAreErased, HeldByOneHandler, SameHolders
  <2>5. BusyAreExpected'
    BY <2>1, <2>2, <2>3 DEF ConnectionsAccountedFor, ReadyAreIdle, BusyAreExpected, SameHolders
  <2> QED
    BY <2>4, <2>5 DEF ConnectionsAccountedFor
<1>2. CASE PushBack(cmd)
  <2>1. UNCHANGED <<m_ready, m_busy, conn>>
    BY <1>2 DEF PushBack
  <2> QED
    BY <2>1, SameLists
<1> QED
  BY <1>1, <1>2 DEF StartOrQueue

LEMMA BecomesReadyKeepsLists ==
  ASSUME TypeOK, ConnectionsAccountedFor, NEW c \in Conns, c \in m_busy,
         OnConnBecomesReady(c),
         \A t \in Threads, d \in Conns : Holds(t, d)' <=> Holds(t, d) /\ d # c
  PROVE  ConnectionsAccountedFor'
<1>1. conn \in [Conns -> ConnStates] /\ m_ready \in Seq(Conns) /\ m_queue \in Seq(Commands)
  BY DEF TypeOK, PoolTypeOK
<1>2. CASE TakeNextCommand(c)
  <2>1. Head(m_queue) \in Commands
    BY <1>1, <1>2, SeqTypes DEF TakeNextCommand
  <2>2. Doing(Head(m_queue)).op \in {"post", "stat"}
    BY <2>1 DEF Doing, Commands
  <2>3. ReadyAreIdle' /\ OthersAreErased'
    BY <1>1, <1>2, <2>2, SameReady
    DEF ConnectionsAccountedFor, ReadyAreIdle, OthersAreErased, TakeNextCommand
  <2>4. BusyAreExpected' /\ HeldByOneHandler'
    BY <1>1, <1>2, <2>2, BusyAreConns
    DEF ConnectionsAccountedFor, BusyAreExpected, HeldByOneHandler, TakeNextCommand
  <2> QED
    BY <2>3, <2>4 DEF ConnectionsAccountedFor
<1>3. CASE JoinReady(c)
  <2>1. c \notin Elements(m_ready)
    BY DEF ConnectionsAccountedFor, ReadyAreIdle
  <2>2. Elements(m_ready)' = Elements(m_ready) \cup {c} /\ Distinct(m_ready)'
    BY <1>1, <1>3, <2>1, AppendElements DEF JoinReady, ConnectionsAccountedFor, ReadyAreIdle
  <2>3. ReadyAreIdle' /\ OthersAreErased'
    BY <1>1, <1>3, <2>1, <2>2 DEF ConnectionsAccountedFor, ReadyAreIdle, OthersAreErased, JoinReady
  <2>4. BusyAreExpected' /\ HeldByOneHandler'
    BY <1>1, <1>3, BusyAreConns
    DEF ConnectionsAccountedFor, BusyAreExpected, HeldByOneHandler, JoinReady
  <2> QED
    BY <2>3, <2>4 DEF ConnectionsAccountedFor
<1>4. CASE ShutDownReady(c)
  <2>1. Elements(m_ready)' = {} /\ Distinct(m_ready)'
    BY <1>4, EmptyElements DEF ShutDownReady
  <2>2. ReadyAreIdle' /\ OthersAreErased'
    BY <1>1, <1>4, <2>1 DEF ConnectionsAccountedFor, ReadyAreIdle, OthersAreErased, ShutDownReady
  <2>3. BusyAreExpected' /\ HeldByOneHandler'
    BY <1>1, <1>4, BusyAreConns
    DEF ConnectionsAccountedFor, ReadyAreIdle, BusyAreExpected, HeldByOneHandler, ShutDownReady
  <2> QED
    BY <2>2, <2>3 DEF ConnectionsAccountedFor
<1> QED
  BY <1>2, <1>3, <1>4 DEF OnConnBecomesReady

LEMMA DiscardKeepsLists ==
  ASSUME TypeOK, ConnectionsAccountedFor, NEW c \in Conns, c \in m_busy, NobodyHolds(c),
         SameHolders, DiscardConnection(c)
  PROVE  ConnectionsAccountedFor'
<1>1. conn \in [Conns -> ConnStates] /\ UNCHANGED m_ready
  BY DEF TypeOK, PoolTypeOK, DiscardConnection
<1>2. ReadyAreIdle' /\ OthersAreErased'
  BY <1>1, SameReady DEF ConnectionsAccountedFor, ReadyAreIdle, OthersAreErased, DiscardConnection
<1>3. BusyAreExpected' /\ HeldByOneHandler'
  BY <1>1, BusyAreConns
  DEF ConnectionsAccountedFor, BusyAreExpected, HeldByOneHandler, DiscardConnection,
      NobodyHolds, SameHolders
<1> QED
  BY <1>2, <1>3 DEF ConnectionsAccountedFor

\* A connection whose handler begins is busy and not held by another handler.
LEMMA CompletingIsBusy ==
  ASSUME ConnectionsAccountedFor, NEW c \in Conns,
         conn[c].op \in {"connecting", "post", "stat"}
  PROVE  c \in m_busy /\ c \notin Elements(m_ready) /\ NobodyHolds(c)
  BY DEF ConnectionsAccountedFor, ReadyAreIdle, OthersAreErased, HeldByOneHandler, NobodyHolds,
         Idle, Quitting, Closed, Dead

LEMMA ReconnectKeepsLists ==
  ASSUME TypeOK, ConnectionsAccountedFor, NEW c \in Conns, c \in m_busy, NobodyHolds(c),
         SameHolders, UNCHANGED <<m_ready, m_busy>>, conn' = [conn EXCEPT ![c] = Connecting]
  PROVE  ConnectionsAccountedFor'
<1>1. conn \in [Conns -> ConnStates]
  BY DEF TypeOK, PoolTypeOK
<1>2. ReadyAreIdle' /\ OthersAreErased'
  BY <1>1, SameReady DEF ConnectionsAccountedFor, ReadyAreIdle, OthersAreErased
<1>3. BusyAreExpected' /\ HeldByOneHandler'
  BY <1>1, BusyAreConns
  DEF ConnectionsAccountedFor, BusyAreExpected, HeldByOneHandler, NobodyHolds, SameHolders,
      Connecting
<1> QED
  BY <1>2, <1>3 DEF ConnectionsAccountedFor

LEMMA OnConnectedKeepsLists ==
  ASSUME TypeOK, ConnectionsAccountedFor, NEW t \in Threads, NEW c \in Conns, OnConnected(t, c)
  PROVE  ConnectionsAccountedFor'
<1>1. c \in m_busy /\ NobodyHolds(c) /\ SameHolders
  BY CompletingIsBusy DEF OnConnected, SameHolders, Holds
<1> QED
  BY <1>1, BecomesReadyKeepsLists, DiscardKeepsLists DEF OnConnected, NobodyHolds, SameHolders

LEMMA OnPostFinishedKeepsLists ==
  ASSUME TypeOK, ConnectionsAccountedFor, NEW t \in Threads, NEW c \in Conns,
         OnPostFinished(t, c)
  PROVE  ConnectionsAccountedFor'
<1>1. c \in m_busy /\ c \notin Elements(m_ready) /\ NobodyHolds(c)
  BY CompletingIsBusy DEF OnPostFinished
<1>2. thread \in [Threads -> ThreadStates] /\ conn \in [Conns -> ConnStates]
  BY DEF TypeOK, PoolTypeOK
<1>3. None \notin Conns
  BY PoolAssumption
<1>4. \A d \in Conns : ~Holds(t, d)
  BY DEF OnPostFinished, CanRun, Running, Holds
<1>5. CASE PostNotPermitted(t, c)
  <2>1. SameHolders
    BY <1>2, <1>4, <1>5 DEF PostNotPermitted, Continue, SameHolders, Holds
  <2> QED
    BY <1>1, <1>5, <2>1, DiscardKeepsLists DEF PostNotPermitted
<1>6. CASE PostFailure(t, c)
  <2>1. \A u \in Threads, d \in Conns : Holds(u, d)' <=> Holds(u, d) \/ (u = t /\ d = c)
    BY <1>2, <1>4, <1>6 DEF PostFailure, Continue, Holds
  <2>2. UNCHANGED <<m_ready, m_busy>> /\ conn' = [conn EXCEPT ![c] = Idle]
    BY <1>6 DEF PostFailure
  <2>3. ReadyAreIdle' /\ OthersAreErased'
    BY <1>1, <1>2, <2>2, SameReady DEF ConnectionsAccountedFor, ReadyAreIdle, OthersAreErased
  <2>4. BusyAreExpected' /\ HeldByOneHandler'
    BY <1>1, <1>2, <2>1, <2>2, BusyAreConns
    DEF ConnectionsAccountedFor, BusyAreExpected, HeldByOneHandler, NobodyHolds
  <2> QED
    BY <2>3, <2>4 DEF ConnectionsAccountedFor
<1>7. CASE PostConnectionError(t, c)
  <2>1. SameHolders
    BY <1>2, <1>3, <1>4, <1>7 DEF PostConnectionError, Continue, SameHolders, Holds
  <2>2. UNCHANGED <<m_ready, m_busy>> /\ conn' = [conn EXCEPT ![c] = Connecting]
    BY <1>7 DEF PostConnectionError
  <2> QED
    BY <1>1, <2>1, <2>2, ReconnectKeepsLists
<1>8. CASE PostSuccess(t, c)
  <2>1. \A u \in Threads, d \in Conns : Holds(u, d)' <=> Holds(u, d) /\ d # c
    BY <1>1, <1>2, <1>4, <1>8 DEF PostSuccess, Continue, NobodyHolds, Holds
  <2> QED
    BY <1>1, <1>8, <2>1, BecomesReadyKeepsLists DEF PostSuccess
<1> QED
  BY <1>5, <1>6, <1>7, <1>8 DEF OnPostFinished

LEMMA OnStatFinishedKeepsLists ==
  ASSUME TypeOK, ConnectionsAccountedFor, NEW t \in Threads, NEW c \in Conns,
         OnStatFinished(t, c)
  PROVE  ConnectionsAccountedFor'
<1>1. c \in m_busy /\ c \notin Elements(m_ready) /\ NobodyHolds(c)
  BY CompletingIsBusy DEF OnStatFinished
<1>2. thread \in [Threads -> ThreadStates] /\ conn \in [Conns -> ConnStates]
  BY DEF TypeOK, PoolTypeOK
<1>3. \A d \in Conns : ~Holds(t, d)
  BY DEF OnStatFinished, CanRun, Running, Holds
<1>4. CASE StatConnectionError(c)
  <2>1. SameHolders
    BY <1>4 DEF StatConnectionError, SameHolders, Holds
  <2>2. UNCHANGED <<m_ready, m_busy>> /\ conn' = [conn EXCEPT ![c] = Connecting]
    BY <1>4 DEF StatConnectionError
  <2> QED
    BY <1>1, <2>1, <2>2, ReconnectKeepsLists
<1>5. ASSUME NEW result, OnConnBecomesReady(c), Continue(t, "finish_stat", None, conn[c].cmd, result)
      PROVE  ConnectionsAccountedFor'
  <2>1. \A u \in Threads, d \in Conns : Holds(u, d)' <=> Holds(u, d) /\ d # c
    BY <1>1, <1>2, <1>3, <1>5 DEF Continue, NobodyHolds, Holds
  <2> QED
    BY <1>1, <1>5, <2>1, BecomesReadyKeepsLists
<1> QED
  BY <1>4, <1>5 DEF OnStatFinished

LEMMA OnQuitWrittenKeepsLists ==
  ASSUME TypeOK, ConnectionsAccountedFor, NEW t \in Threads, NEW c \in Conns,
         OnQuitWritten(t, c)
  PROVE  ConnectionsAccountedFor'
<1>1. c \notin m_busy /\ c \notin Elements(m_ready) /\ NobodyHolds(c)
  BY DEF OnQuitWritten, ConnectionsAccountedFor, ReadyAreIdle, BusyAreExpected, HeldByOneHandler,
         NobodyHolds, Idle
<1>2. conn \in [Conns -> ConnStates] /\ SameHolders
  BY DEF OnQuitWritten, TypeOK, PoolTypeOK, SameHolders, Holds
<1>3. UNCHANGED <<m_ready, m_busy>> /\ conn' = [conn EXCEPT ![c] = Closed]
  BY DEF OnQuitWritten
<1>4. ReadyAreIdle' /\ OthersAreErased'
  BY <1>1, <1>2, <1>3, SameReady DEF ConnectionsAccountedFor, ReadyAreIdle, OthersAreErased
<1>5. BusyAreExpected' /\ HeldByOneHandler'
  BY <1>1, <1>2, <1>3, BusyAreConns
  DEF ConnectionsAccountedFor, BusyAreExpected, HeldByOneHandler, NobodyHolds, SameHolders
<1> QED
  BY <1>4, <1>5 DEF ConnectionsAccountedFor

LEMMA ProceedKeepsLists ==
  ASSUME TypeOK, ConnectionsAccountedFor, NEW t \in Threads, Proceed(t)
  PROVE  ConnectionsAccountedFor'
<1> USE DEF At
<1>1. thread \in [Threads -> ThreadStates] /\ Posts \subseteq Commands /\ None \notin Conns
  BY PoolAssumption DEF TypeOK, Posts
<1>2. CASE Requeue(t)
  <2>1. SameHolders
    <3>1. CASE thread[t].result = "POST_FAILURE"
      BY <1>1, <1>2, <3>1 DEF Requeue, Continue, SameHolders, Holds
    <3>2. CASE thread[t].result # "POST_FAILURE"
      <4>1. thread[t].conn = None
        <5>1. thread[t] \in ThreadStates /\ thread[t].at = "post_failed"
          BY <1>1, <1>2 DEF Requeue
        <5> QED
          BY <3>2, <5>1 DEF ThreadStates, Running, Exited
      <4> QED
        BY <1>1, <1>2, <3>2, <4>1 DEF Requeue, Return, Running, SameHolders, Holds
    <3> QED
      BY <3>1, <3>2
  <2> QED
    BY <1>1, <1>2, <2>1, ThreadTypes, StartOrQueueKeepsLists DEF Requeue
<1>3. CASE Abort(t)
  BY <1>3, SameLists DEF Abort, SameHolders, Holds
<1>4. CASE BecomeReady(t)
  <2> DEFINE c == thread[t].conn
  <2>1. c \in Conns /\ Holds(t, c)
    BY <1>4, ThreadTypes DEF BecomeReady, Holds
  <2>2. c \in m_busy /\ \A u \in Threads : Holds(u, c) => u = t
    BY <2>1 DEF ConnectionsAccountedFor, HeldByOneHandler
  <2>3. \A u \in Threads, d \in Conns : Holds(u, d)' <=> Holds(u, d) /\ d # c
    BY <1>1, <1>4, <2>1, <2>2 DEF BecomeReady, Return, Running, Holds
  <2> QED
    BY <1>4, <2>1, <2>2, <2>3, BecomesReadyKeepsLists DEF BecomeReady
<1>5. CASE DispatchOrQueue(t)
  <2>1. SameHolders
    BY <1>1, <1>5 DEF DispatchOrQueue, Return, Running, SameHolders, Holds
  <2> QED
    BY <1>1, <1>5, <2>1, ThreadTypes, StartOrQueueKeepsLists DEF DispatchOrQueue
<1>6. CASE Finish(t)
  <2>1. SameHolders
    BY <1>1, <1>6 DEF Finish, Return, Running, SameHolders, Holds
  <2> QED
    BY <1>6, <2>1, SameLists DEF Finish, pool
<1> QED
  BY <1>2, <1>3, <1>4, <1>5, <1>6 DEF Proceed

LEMMA MainKeepsLists ==
  ASSUME TypeOK, ConnectionsAccountedFor, Main
  PROVE  ConnectionsAccountedFor'
<1>1. SameHolders
  BY DEF Main, EnqueueNow, StartWaiting, WakeAndPush, WaitAgain, StopReads, StopResets,
         JoinAndExit, SameHolders, Holds
<1>2. CASE EnqueueNow
  <2>1. Script[next] \in Commands
    BY <1>2, PoolAssumption DEF EnqueueNow, TypeOK, CallerTypeOK
  <2>2. StartOrQueue(Script[next])
    BY <1>2 DEF EnqueueNow, StartOrQueue
  <2> QED
    BY <1>1, <2>1, <2>2, StartOrQueueKeepsLists
<1>3. CASE ~EnqueueNow
  <2>1. UNCHANGED <<m_ready, m_busy, conn>>
    BY <1>3 DEF Main, StartWaiting, WakeAndPush, WaitAgain, StopReads, StopResets, JoinAndExit, pool
  <2> QED
    BY <1>1, <2>1, SameLists
<1> QED
  BY <1>2, <1>3

LEMMA NextKeepsLists ==
  TypeOK /\ ConnectionsAccountedFor /\ [Next]_vars => ConnectionsAccountedFor'
<1> SUFFICES ASSUME TypeOK, ConnectionsAccountedFor, [Next]_vars
             PROVE  ConnectionsAccountedFor'
  OBVIOUS
<1>1. ASSUME NEW t \in Threads, NEW c \in Conns, Complete(t, c)
      PROVE  ConnectionsAccountedFor'
  BY <1>1, OnConnectedKeepsLists, OnPostFinishedKeepsLists, OnStatFinishedKeepsLists,
     OnQuitWrittenKeepsLists DEF Complete
<1>2. ASSUME NEW t \in Threads, IoExit(t)
      PROVE  ConnectionsAccountedFor'
  <2>1. thread \in [Threads -> ThreadStates]
    BY DEF TypeOK
  <2>2. SameHolders
    BY <1>2, <2>1 DEF IoExit, Running, Exited, SameHolders, Holds
  <2> QED
    BY <1>2, <2>2, SameLists DEF IoExit, pool
<1>3. CASE StartOnSentinel
  BY <1>3, SameLists DEF StartOnSentinel, SameHolders, Holds
<1>4. CASE Ended \/ UNCHANGED vars
  BY <1>4, SameLists DEF Ended, vars, SameHolders, Holds
<1> QED
  BY <1>1, <1>2, <1>3, <1>4, MainKeepsLists, ProceedKeepsLists DEF Next

LEMMA InitLists == Init => ConnectionsAccountedFor
<1> SUFFICES ASSUME Init PROVE ConnectionsAccountedFor
  OBVIOUS
<1>1. ReadyAreIdle
  BY EmptyElements DEF Init, ReadyAreIdle
<1>2. BusyAreExpected /\ OthersAreErased
  BY DEF Init, BusyAreExpected, OthersAreErased, Connecting
<1>3. HeldByOneHandler
  BY DEF Init, HeldByOneHandler, Holds, Running
<1> QED
  BY <1>1, <1>2, <1>3 DEF ConnectionsAccountedFor

\* No connection is lost between m_ready and m_busy, or used by two handlers,
\* whatever the order in which the handlers run (usenet.cc, every splice and erase).
THEOREM ListsAreConsistent == Spec => []ConnectionsAccountedFor
<1>1. TypeOK /\ ConnectionsAccountedFor /\ [Next]_vars => ConnectionsAccountedFor'
  BY NextKeepsLists
<1> QED
  BY <1>1, InitLists, TypeCorrect, PTL DEF Spec

-----------------------------------------------------------------------------
(* Operations in progress.                                                  *)

LeavesOthersAlone(S) == \A d \in Conns : conn[d] # Idle /\ conn'[d] # conn[d] => d \in S

LEMMA StartsOnIdle ==
  ASSUME TypeOK, ConnectionsAccountedFor, NEW cmd, StartOrQueue(cmd)
  PROVE  LeavesOthersAlone({})
<1>1. conn \in [Conns -> ConnStates]
  BY DEF TypeOK, PoolTypeOK
<1>2. CASE StartOnReady(cmd)
  <2>1. PICK d \in Elements(m_ready) : d \in Conns /\ conn' = [conn EXCEPT ![d] = Doing(cmd)]
    BY <1>2, StartOnReadyEffect
  <2>2. conn[d] = Idle
    BY DEF ConnectionsAccountedFor, ReadyAreIdle
  <2> QED
    BY <1>1, <2>1, <2>2 DEF LeavesOthersAlone
<1>3. CASE PushBack(cmd)
  BY <1>3 DEF PushBack, LeavesOthersAlone
<1> QED
  BY <1>2, <1>3 DEF StartOrQueue

LEMMA ReadyLeavesOthersAlone ==
  ASSUME TypeOK, ConnectionsAccountedFor, NEW c \in Conns, OnConnBecomesReady(c)
  PROVE  LeavesOthersAlone({c})
<1>1. conn \in [Conns -> ConnStates] /\ \A d \in Elements(m_ready) : conn[d] = Idle
  BY DEF TypeOK, PoolTypeOK, ConnectionsAccountedFor, ReadyAreIdle
<1>2. CASE TakeNextCommand(c) \/ JoinReady(c)
  BY <1>1, <1>2 DEF TakeNextCommand, JoinReady, LeavesOthersAlone
<1>3. CASE ShutDownReady(c)
  BY <1>1, <1>3 DEF ShutDownReady, LeavesOthersAlone
<1> QED
  BY <1>2, <1>3 DEF OnConnBecomesReady

LEMMA CompleteLeavesOthersAlone ==
  ASSUME TypeOK, ConnectionsAccountedFor, NEW t \in Threads, NEW c \in Conns, Complete(t, c)
  PROVE  LeavesOthersAlone({c})
<1>1. CASE OnConnBecomesReady(c)
  BY <1>1, ReadyLeavesOthersAlone
<1>2. CASE \E state : conn' = [conn EXCEPT ![c] = state]
  BY <1>2 DEF TypeOK, PoolTypeOK, LeavesOthersAlone
<1>3. OnConnBecomesReady(c) \/ \E state : conn' = [conn EXCEPT ![c] = state]
  <2>1. CASE OnConnected(t, c)
    BY <2>1 DEF OnConnected, DiscardConnection
  <2>2. CASE OnPostFinished(t, c)
    BY <2>2 DEF OnPostFinished, PostNotPermitted, DiscardConnection, PostFailure, PostConnectionError,
                PostSuccess
  <2>3. CASE OnStatFinished(t, c)
    BY <2>3 DEF OnStatFinished, StatConnectionError
  <2>4. CASE OnQuitWritten(t, c)
    BY <2>4 DEF OnQuitWritten
  <2> QED
    BY <2>1, <2>2, <2>3, <2>4 DEF Complete
<1> QED
  BY <1>1, <1>2, <1>3

LEMMA ProceedLeavesAlone ==
  ASSUME TypeOK, ConnectionsAccountedFor, NEW t \in Threads, Proceed(t)
  PROVE  LeavesOthersAlone({})
<1>1. CASE Requeue(t) \/ DispatchOrQueue(t)
  BY <1>1, StartsOnIdle DEF Requeue, DispatchOrQueue
<1>2. CASE BecomeReady(t)
  <2> DEFINE c == thread[t].conn
  <2>1. c \in Conns /\ Holds(t, c)
    BY <1>2, ThreadTypes DEF BecomeReady, Holds, At
  <2>2. conn[c] = Idle
    BY <2>1 DEF ConnectionsAccountedFor, HeldByOneHandler
  <2>3. LeavesOthersAlone({c})
    BY <1>2, <2>1, ReadyLeavesOthersAlone DEF BecomeReady
  <2> HIDE DEF c
  <2> QED
    BY <2>2, <2>3 DEF LeavesOthersAlone
<1>3. CASE Abort(t) \/ Finish(t)
  BY <1>3 DEF Abort, Finish, pool, LeavesOthersAlone
<1> QED
  BY <1>1, <1>2, <1>3 DEF Proceed

LEMMA MainLeavesAlone ==
  ASSUME TypeOK, ConnectionsAccountedFor, Main
  PROVE  LeavesOthersAlone({})
<1>1. CASE EnqueueNow
  BY <1>1, StartsOnIdle DEF EnqueueNow, StartOrQueue
<1>2. CASE ~EnqueueNow
  BY <1>2 DEF Main, StartWaiting, WakeAndPush, WaitAgain, StopReads, StopResets, JoinAndExit, pool,
              LeavesOthersAlone
<1> QED
  BY <1>1, <1>2

LEMMA NextLeavesAlone ==
  ASSUME TypeOK, ConnectionsAccountedFor, [Next]_vars,
         NEW d \in Conns, conn[d] # Idle, conn'[d] # conn[d]
  PROVE  \E t \in Threads : Complete(t, d)
<1>1. ASSUME NEW t \in Threads, NEW c \in Conns, Complete(t, c) PROVE Complete(t, d)
  BY <1>1, CompleteLeavesOthersAlone DEF LeavesOthersAlone
<1>2. ~LeavesOthersAlone({})
  BY DEF LeavesOthersAlone
<1>3. ~Main /\ \A t \in Threads : ~Proceed(t)
  BY <1>2, MainLeavesAlone, ProceedLeavesAlone
<1>4. /\ conn' # conn
      /\ \A t \in Threads : ~IoExit(t)
      /\ ~StartOnSentinel /\ ~Ended /\ ~UNCHANGED vars
  BY DEF IoExit, StartOnSentinel, Ended, vars, pool
<1> QED
  BY <1>1, <1>3, <1>4 DEF Next

\* A connection that is doing something is touched by nothing but the handler of what it
\* does, and an erased one by nothing, although m_busy, m_ready and the iterators that
\* the handlers carry are shared by all io threads (usenet.cc:101-140 and 143-267).
THEOREM NothingInterrupts == Spec => OperationsLeftAlone
<1>1. TypeOK /\ ConnectionsAccountedFor /\ [Next]_vars =>
        [\A c \in Conns : conn[c] # Idle /\ conn'[c] # conn[c] => \E t \in Threads : Complete(t, c)]_vars
  BY NextLeavesAlone
<1> QED
  BY <1>1, TypeCorrect, ListsAreConsistent, PTL DEF Spec, OperationsLeftAlone

-----------------------------------------------------------------------------
(* The end of the io_service.                                               *)

\* m_work is given up only by stop() or when no connection is left.
WorkIsKept == ~m_work => main_at = "join" \/ (m_ready = <<>> /\ m_busy = {})

ThreadsLeaveWhenStopped == \A t \in Threads : thread[t] = Exited => stopped

StopInv == NothingStartedAfterStop /\ WorkIsKept /\ ThreadsLeaveWhenStopped

LEMMA StartOrQueueKeepsWork ==
  ASSUME WorkIsKept, UNCHANGED main_at, NEW cmd, StartOrQueue(cmd)
  PROVE  WorkIsKept'
  BY DEF WorkIsKept, StartOrQueue, StartOnReady, PushBack

LEMMA BecomesReadyKeepsWork ==
  ASSUME WorkIsKept, UNCHANGED main_at, NEW c \in m_busy, OnConnBecomesReady(c)
  PROVE  WorkIsKept'
  BY DEF WorkIsKept, OnConnBecomesReady, TakeNextCommand, JoinReady, ShutDownReady

LEMMA DiscardKeepsWork ==
  ASSUME WorkIsKept, UNCHANGED main_at, NEW c \in m_busy, DiscardConnection(c)
  PROVE  WorkIsKept'
  BY DEF WorkIsKept, DiscardConnection

LEMMA CompleteKeepsWork ==
  ASSUME TypeOK, ConnectionsAccountedFor, WorkIsKept, NEW t \in Threads, NEW c \in Conns,
         Complete(t, c)
  PROVE  WorkIsKept'
<1>1. CASE OnConnected(t, c)
  BY <1>1, CompletingIsBusy, BecomesReadyKeepsWork, DiscardKeepsWork DEF OnConnected, caller
<1>2. CASE OnPostFinished(t, c)
  <2>1. c \in m_busy /\ UNCHANGED main_at
    BY <1>2, CompletingIsBusy DEF OnPostFinished, caller
  <2>2. CASE PostNotPermitted(t, c) \/ PostSuccess(t, c)
    BY <2>1, <2>2, DiscardKeepsWork, BecomesReadyKeepsWork DEF PostNotPermitted, PostSuccess
  <2>3. CASE PostFailure(t, c) \/ PostConnectionError(t, c)
    BY <2>1, <2>3 DEF PostFailure, PostConnectionError, WorkIsKept
  <2> QED
    BY <1>2, <2>2, <2>3 DEF OnPostFinished
<1>3. CASE OnStatFinished(t, c)
  <2>1. c \in m_busy /\ UNCHANGED main_at
    BY <1>3, CompletingIsBusy DEF OnStatFinished, caller
  <2>2. CASE StatConnectionError(c)
    BY <2>1, <2>2 DEF StatConnectionError, WorkIsKept
  <2> QED
    BY <1>3, <2>1, <2>2, BecomesReadyKeepsWork DEF OnStatFinished
<1>4. CASE OnQuitWritten(t, c)
  BY <1>4 DEF OnQuitWritten, caller, WorkIsKept
<1> QED
  BY <1>1, <1>2, <1>3, <1>4 DEF Complete

LEMMA ProceedKeepsWork ==
  ASSUME TypeOK, ConnectionsAccountedFor, WorkIsKept, NEW t \in Threads, Proceed(t)
  PROVE  WorkIsKept'
<1>1. CASE Requeue(t) \/ DispatchOrQueue(t)
  BY <1>1, StartOrQueueKeepsWork DEF Requeue, DispatchOrQueue, caller
<1>2. CASE BecomeReady(t)
  <2>1. thread[t].conn \in m_busy
    BY <1>2, ThreadTypes DEF BecomeReady, At, Holds, ConnectionsAccountedFor, HeldByOneHandler
  <2> QED
    BY <1>2, <2>1, BecomesReadyKeepsWork DEF BecomeReady, caller
<1>3. CASE Abort(t) \/ Finish(t)
  BY <1>3 DEF Abort, Finish, pool, caller, WorkIsKept
<1> QED
  BY <1>1, <1>2, <1>3 DEF Proceed

LEMMA MainKeepsWork ==
  ASSUME TypeOK, WorkIsKept, Main
  PROVE  WorkIsKept'
<1> USE DEF MainAt, WorkIsKept
<1>1. CASE EnqueueNow
  BY <1>1 DEF EnqueueNow, StartOnReady, PushBack
<1>2. CASE StartWaiting \/ StopReads
  BY <1>2 DEF StartWaiting, StopReads, pool
<1>3. CASE WakeAndPush \/ WaitAgain
  BY <1>3 DEF WakeAndPush, WaitAgain, caller
<1>4. CASE StopResets \/ JoinAndExit
  BY <1>4 DEF StopResets, JoinAndExit, caller
<1> QED
  BY <1>1, <1>2, <1>3, <1>4 DEF Main

LEMMA NextKeepsWork ==
  ASSUME TypeOK, ConnectionsAccountedFor, WorkIsKept, [Next]_vars
  PROVE  WorkIsKept'
<1>1. CASE \E t \in Threads : IoExit(t)
  BY <1>1 DEF IoExit, pool, caller, WorkIsKept
<1>2. CASE StartOnSentinel \/ Ended \/ UNCHANGED vars
  BY <1>2 DEF StartOnSentinel, Ended, vars, caller, WorkIsKept
<1> QED
  BY <1>1, <1>2, CompleteKeepsWork, ProceedKeepsWork, MainKeepsWork DEF Next

\* Once the io_service has stopped, only the caller's steps and the exits of the
\* threads are left, and none of them starts anything.
LEMMA StoppedStaysIdle ==
  ASSUME TypeOK, WorkIsKept, stopped, ~HasWork, Next
  PROVE  ~HasWork'
<1>1. /\ ~m_work
      /\ \A c \in Conns : conn[c].op \notin {"connecting", "post", "stat", "quit"}
      /\ \A t \in Threads : thread[t] \in {Running, Exited}
  BY DEF HasWork
<1>2. thread \in [Threads -> ThreadStates]
  BY DEF TypeOK
<1>3. CASE Main
  <2>1. ~m_work' /\ UNCHANGED <<conn, thread>>
    <3>1. CASE EnqueueNow
      BY <1>1, <3>1 DEF WorkIsKept, EnqueueNow, MainAt, StartOnReady, PushBack
    <3>2. CASE StartWaiting \/ StopReads
      BY <1>1, <3>2 DEF StartWaiting, StopReads, pool
    <3>3. CASE WakeAndPush \/ WaitAgain
      BY <1>1, <3>3 DEF WakeAndPush, WaitAgain
    <3>4. CASE StopResets \/ JoinAndExit
      BY <1>1, <3>4 DEF StopResets, JoinAndExit
    <3> QED
      BY <1>3, <3>1, <3>2, <3>3, <3>4 DEF Main
  <2> QED
    BY <1>1, <2>1 DEF HasWork
<1>4. ASSUME NEW t \in Threads, NEW c \in Conns, Complete(t, c) PROVE FALSE
  BY <1>4 DEF Complete, OnConnected, OnPostFinished, OnStatFinished, OnQuitWritten, CanRun
<1>5. ASSUME NEW t \in Threads, Proceed(t) PROVE FALSE
  BY <1>1, <1>5
  DEF Proceed, Requeue, Abort, BecomeReady, DispatchOrQueue, Finish, At, Running, Exited
<1>6. ASSUME NEW t \in Threads, IoExit(t) PROVE ~HasWork'
  BY <1>1, <1>2, <1>6 DEF IoExit, pool, HasWork
<1>7. CASE StartOnSentinel
  BY <1>1, <1>7 DEF StartOnSentinel, HasWork
<1>8. CASE Ended
  BY <1>1, <1>8 DEF Ended, vars, HasWork
<1> QED
  BY <1>3, <1>4, <1>5, <1>6, <1>7, <1>8 DEF Next

LEMMA NextStops ==
  ASSUME TypeOK, ConnectionsAccountedFor, StopInv, [Next]_vars
  PROVE  StopInv'
<1>1. WorkIsKept'
  BY NextKeepsWork DEF StopInv
<1>2. NothingStartedAfterStop'
  <2>1. CASE UNCHANGED vars
    BY <2>1 DEF StopInv, NothingStartedAfterStop, HasWork, vars
  <2>2. CASE Ended
    BY <2>2 DEF StopInv, NothingStartedAfterStop, HasWork, vars, Ended
  <2>3. CASE Next /\ ~Ended
    <3>1. IoServiceStops
      BY <2>3 DEF Next, Main, Complete, Proceed, EnqueueNow, StartWaiting, WakeAndPush, WaitAgain,
           StopReads, StopResets, JoinAndExit, OnConnected, OnPostFinished, OnStatFinished,
           OnQuitWritten, Requeue, Abort, BecomeReady, DispatchOrQueue, Finish, IoExit,
           StartOnSentinel
    <3> QED
      BY <2>3, <3>1, StoppedStaysIdle DEF StopInv, NothingStartedAfterStop, IoServiceStops
  <2> QED
    BY <2>1, <2>2, <2>3
<1>3. ThreadsLeaveWhenStopped'
  <2>1. stopped => stopped'
    BY DEF Next, Main, Complete, Proceed, EnqueueNow, StartWaiting, WakeAndPush, WaitAgain,
           StopReads, StopResets, JoinAndExit, OnConnected, OnPostFinished, OnStatFinished,
           OnQuitWritten, Requeue, Abort, BecomeReady, DispatchOrQueue, Finish, IoExit,
           StartOnSentinel, Ended, vars, IoServiceStops
  <2>2. \A t \in Threads : thread'[t] = Exited => thread[t] = Exited \/ stopped
    BY DEF Next, Main, Complete, Proceed, EnqueueNow, StartWaiting, WakeAndPush, WaitAgain,
           StopReads, StopResets, JoinAndExit, OnConnected, OnPostFinished, OnStatFinished,
           OnQuitWritten, Requeue, Abort, BecomeReady, DispatchOrQueue, Finish, IoExit,
           StartOnSentinel, Ended, vars, PostNotPermitted, PostFailure, PostConnectionError,
           PostSuccess, StatConnectionError, Continue, Return, Running, Exited, TypeOK
  <2> QED
    BY <2>1, <2>2 DEF StopInv, ThreadsLeaveWhenStopped
<1> QED
  BY <1>1, <1>2, <1>3 DEF StopInv

LEMMA InitStop == Init => StopInv
  BY DEF Init, StopInv, NothingStartedAfterStop, HasWork, WorkIsKept, ThreadsLeaveWhenStopped,
         Running, Exited

\* Once the io_service has run out of work nothing is started on it any more,
\* although its work object is reset by two threads without the mutex and commands
\* are started under it (usenet.cc:70-98, 190-224, 277-280).
THEOREM StopIsFinal == Spec => [](NothingStartedAfterStop /\ WorkIsKept /\ ThreadsLeaveWhenStopped)
<1>1. TypeOK /\ ConnectionsAccountedFor /\ StopInv /\ [Next]_vars => StopInv'
  BY NextStops
<1>2. Spec => []StopInv
  BY <1>1, InitStop, TypeCorrect, ListsAreConsistent, PTL DEF Spec
<1> QED
  BY <1>2 DEF StopInv

-----------------------------------------------------------------------------
(* The wait on m_queuecv.                                                   *)

WakeupInv == NoLostWakeup /\ (main_at = "waiting" => MaxSize # 0)

LEMMA QueueLengths ==
  ASSUME TypeOK
  PROVE  /\ Len(m_queue) \in Nat
         /\ \A cmd \in Commands : Len(Append(m_queue, cmd)) = Len(m_queue) + 1
         /\ m_queue # <<>> => Len(Tail(m_queue)) = Len(m_queue) - 1 /\ Len(m_queue) > 0
  BY DEF TypeOK, PoolTypeOK

\* While the caller waits a section either leaves the queue as long as it was, or
\* longer, or notifies the caller.
QueueIsLongerOrNotified ==
  \/ notified' = TRUE
  \/ notified' = notified /\ Len(m_queue') \in Nat /\ Len(m_queue') >= Len(m_queue)

LEMMA LongerOrNotified ==
  ASSUME TypeOK, WakeupInv, UNCHANGED main_at, QueueIsLongerOrNotified
  PROVE  WakeupInv'
  BY PoolAssumption, QueueLengths
  DEF TypeOK, PoolTypeOK, WakeupInv, NoLostWakeup, QueueHasRoom, QueueIsLongerOrNotified

LEMMA SameQueueWakes ==
  ASSUME TypeOK, WakeupInv, UNCHANGED <<main_at, m_queue, notified>>
  PROVE  WakeupInv'
  BY DEF WakeupInv, NoLostWakeup, QueueHasRoom

LEMMA StartOrQueueWakes ==
  ASSUME TypeOK, NEW cmd \in Commands, StartOrQueue(cmd)
  PROVE  QueueIsLongerOrNotified
  BY QueueLengths DEF StartOrQueue, StartOnReady, PushBack, QueueIsLongerOrNotified

LEMMA BecomesReadyWakes ==
  ASSUME TypeOK, WakeupInv, NEW c, OnConnBecomesReady(c), UNCHANGED main_at
  PROVE  WakeupInv'
<1>1. CASE TakeNextCommand(c)
  <2>1. main_at = "waiting" => notified' = TRUE
    BY <1>1 DEF TakeNextCommand, WakeupInv, TypeOK, PoolTypeOK
  <2> QED
    BY <2>1 DEF WakeupInv, NoLostWakeup
<1>2. CASE JoinReady(c) \/ ShutDownReady(c)
  <2>1. QueueIsLongerOrNotified
    BY <1>2, QueueLengths DEF JoinReady, ShutDownReady, QueueIsLongerOrNotified
  <2> QED
    BY <2>1, LongerOrNotified
<1> QED
  BY <1>1, <1>2 DEF OnConnBecomesReady

LEMMA CompleteWakes ==
  ASSUME TypeOK, WakeupInv, NEW t \in Threads, NEW c \in Conns, Complete(t, c)
  PROVE  WakeupInv'
<1>1. UNCHANGED main_at
  BY DEF Complete, OnConnected, OnPostFinished, OnStatFinished, OnQuitWritten, caller
<1>2. CASE OnConnected(t, c)
  <2>1. CASE DiscardConnection(c)
    BY <1>1, <2>1, QueueLengths, LongerOrNotified DEF DiscardConnection, QueueIsLongerOrNotified
  <2> QED
    BY <1>1, <1>2, <2>1, BecomesReadyWakes DEF OnConnected
<1>3. CASE OnPostFinished(t, c)
  <2>1. CASE PostNotPermitted(t, c) \/ PostFailure(t, c) \/ PostConnectionError(t, c)
    <3>1. UNCHANGED <<m_queue, notified>>
      BY <2>1 DEF PostNotPermitted, DiscardConnection, PostFailure, PostConnectionError
    <3> QED
      BY <1>1, <3>1, SameQueueWakes
  <2>2. CASE PostSuccess(t, c)
    BY <1>1, <2>2, BecomesReadyWakes DEF PostSuccess
  <2> QED
    BY <1>3, <2>1, <2>2 DEF OnPostFinished
<1>4. CASE OnStatFinished(t, c)
  <2>1. CASE StatConnectionError(c)
    <3>1. conn[c].cmd \in Commands
      BY <1>4, DoingType DEF OnStatFinished
    <3>2. notified' = notified /\ m_queue' = Append(m_queue, conn[c].cmd)
      BY <2>1 DEF StatConnectionError
    <3>3. QueueIsLongerOrNotified
      BY <3>1, <3>2, QueueLengths DEF QueueIsLongerOrNotified
    <3> QED
      BY <1>1, <3>3, LongerOrNotified
  <2> QED
    BY <1>1, <1>4, <2>1, BecomesReadyWakes DEF OnStatFinished
<1>5. CASE OnQuitWritten(t, c)
  BY <1>1, <1>5, QueueLengths, LongerOrNotified DEF OnQuitWritten, QueueIsLongerOrNotified
<1> QED
  BY <1>2, <1>3, <1>4, <1>5 DEF Complete

LEMMA ProceedWakes ==
  ASSUME TypeOK, WakeupInv, NEW t \in Threads, Proceed(t)
  PROVE  WakeupInv'
<1>1. UNCHANGED main_at
  BY DEF Proceed, Requeue, Abort, BecomeReady, DispatchOrQueue, Finish, caller
<1>2. CASE Requeue(t) \/ DispatchOrQueue(t)
  <2>1. thread[t].cmd \in Commands /\ StartOrQueue(thread[t].cmd)
    BY <1>2, ThreadTypes DEF Requeue, DispatchOrQueue, At, Posts
  <2> QED
    BY <1>1, <2>1, StartOrQueueWakes, LongerOrNotified
<1>3. CASE BecomeReady(t)
  BY <1>1, <1>3, BecomesReadyWakes DEF BecomeReady
<1>4. CASE Abort(t) \/ Finish(t)
  <2>1. UNCHANGED <<m_queue, notified>>
    BY <1>4 DEF Abort, Finish, pool
  <2> QED
    BY <1>1, <2>1, SameQueueWakes
<1> QED
  BY <1>2, <1>3, <1>4 DEF Proceed

LEMMA MainWakes ==
  ASSUME TypeOK, WakeupInv, Main
  PROVE  WakeupInv'
<1>1. CASE EnqueueNow \/ WakeAndPush \/ StopReads \/ StopResets
  <2>1. main_at' # "waiting"
    BY <1>1 DEF EnqueueNow, WakeAndPush, StopReads, StopResets, MainAt
  <2> QED
    BY <2>1 DEF WakeupInv, NoLostWakeup
<1>2. CASE StartWaiting
  BY <1>2 DEF StartWaiting, pool, WakeupInv, NoLostWakeup, QueueHasRoom
<1>3. CASE WaitAgain
  BY <1>3 DEF WaitAgain, caller, WakeupInv, NoLostWakeup, QueueHasRoom
<1>4. CASE JoinAndExit
  BY <1>4 DEF JoinAndExit, caller, MainAt, WakeupInv, NoLostWakeup, QueueHasRoom
<1> QED
  BY <1>1, <1>2, <1>3, <1>4 DEF Main

LEMMA NextWakes ==
  ASSUME TypeOK, WakeupInv, [Next]_vars
  PROVE  WakeupInv'
<1>1. CASE (\E t \in Threads : IoExit(t)) \/ StartOnSentinel \/ Ended \/ UNCHANGED vars
  <2>1. UNCHANGED <<m_queue, notified, main_at>>
    BY <1>1 DEF IoExit, StartOnSentinel, Ended, vars, pool, caller
  <2> QED
    BY <2>1, SameQueueWakes
<1> QED
  BY <1>1, CompleteWakes, ProceedWakes, MainWakes DEF Next

\* No wakeup of the caller is lost (usenet.cc:60-63 and 90-94 against 112-115).
THEOREM WakeupsArrive == Spec => []NoLostWakeup
<1>1. Init => WakeupInv
  BY DEF Init, WakeupInv, NoLostWakeup
<1>2. TypeOK /\ WakeupInv /\ [Next]_vars => WakeupInv'
  BY NextWakes
<1>3. WakeupInv => NoLostWakeup
  BY DEF WakeupInv
<1> QED
  BY <1>1, <1>2, <1>3, TypeCorrect, PTL DEF Spec

-----------------------------------------------------------------------------
(* Work and connections never wait for each other, as long as the queue is  *)
(* not bounded and no STAT is cut off.  A caller woken on m_queuecv is the   *)
(* exception that the run stranded_by_wakeup shows; a STAT that was cut off *)
(* is put in the queue beside ready connections as well.                    *)

NothingCutsIn == MaxSize = 0 /\ "CONNECTION_ERROR" \notin StatResults

StrandInv == NoStrandedWork /\ main_at # "waiting"

LEMMA SectionsStrandNothing ==
  ASSUME TypeOK, StrandInv, UNCHANGED main_at,
         \/ \E cmd \in Commands : StartOrQueue(cmd)
         \/ \E c \in Conns : OnConnBecomesReady(c) \/ DiscardConnection(c)
         \/ UNCHANGED <<m_ready, m_queue>>
  PROVE  StrandInv'
<1>1. ASSUME NEW cmd \in Commands, StartOrQueue(cmd) PROVE StrandInv'
  <2>1. m_ready # <<>> => m_queue = <<>>
    BY DEF StrandInv, NoStrandedWork
  <2>2. CASE StartOnReady(cmd)
    BY <2>1, <2>2 DEF StartOnReady, StrandInv, NoStrandedWork
  <2>3. CASE ~ReadySizePositive /\ PushBack(cmd)
    BY <2>3 DEF PushBack, ReadySizePositive, StrandInv, NoStrandedWork
  <2> QED
    BY <1>1, <2>2, <2>3 DEF StartOrQueue
<1>2. ASSUME NEW c \in Conns, OnConnBecomesReady(c) PROVE StrandInv'
  BY <1>2 DEF OnConnBecomesReady, TakeNextCommand, JoinReady, ShutDownReady, StrandInv,
              NoStrandedWork
<1>3. ASSUME NEW c \in Conns, DiscardConnection(c) PROVE StrandInv'
  BY <1>3 DEF DiscardConnection, StrandInv, NoStrandedWork
<1>4. CASE UNCHANGED <<m_ready, m_queue>>
  BY <1>4 DEF StrandInv, NoStrandedWork
<1> QED
  BY <1>1, <1>2, <1>3, <1>4

LEMMA NextStrandsNothing ==
  ASSUME NothingCutsIn, TypeOK, StrandInv, [Next]_vars
  PROVE  StrandInv'
<1>1. ASSUME NEW t \in Threads, NEW c \in Conns, Complete(t, c) PROVE StrandInv'
  <2>1. UNCHANGED main_at
    BY <1>1 DEF Complete, OnConnected, OnPostFinished, OnStatFinished, OnQuitWritten, caller
  <2>2. CASE OnConnected(t, c)
    BY <2>1, <2>2, SectionsStrandNothing DEF OnConnected
  <2>3. CASE OnPostFinished(t, c)
    BY <2>1, <2>3, SectionsStrandNothing
    DEF OnPostFinished, PostNotPermitted, PostFailure, PostConnectionError, PostSuccess
  <2>4. CASE OnStatFinished(t, c)
    BY <2>1, <2>4, SectionsStrandNothing DEF OnStatFinished, NothingCutsIn
  <2>5. CASE OnQuitWritten(t, c)
    BY <2>1, <2>5, SectionsStrandNothing DEF OnQuitWritten
  <2> QED
    BY <1>1, <2>2, <2>3, <2>4, <2>5 DEF Complete
<1>2. ASSUME NEW t \in Threads, Proceed(t) PROVE StrandInv'
  <2>1. UNCHANGED main_at
    BY <1>2 DEF Proceed, Requeue, Abort, BecomeReady, DispatchOrQueue, Finish, caller
  <2>2. CASE Requeue(t) \/ DispatchOrQueue(t)
    <3>1. thread[t].cmd \in Commands /\ StartOrQueue(thread[t].cmd)
      BY <2>2, ThreadTypes DEF Requeue, DispatchOrQueue, At, Posts
    <3> QED
      BY <2>1, <3>1, SectionsStrandNothing
  <2>3. CASE BecomeReady(t)
    <3>1. thread[t].conn \in Conns /\ OnConnBecomesReady(thread[t].conn)
      BY <2>3, ThreadTypes DEF BecomeReady, At
    <3> QED
      BY <2>1, <3>1, SectionsStrandNothing
  <2>4. CASE Abort(t) \/ Finish(t)
    BY <2>1, <2>4, SectionsStrandNothing DEF Abort, Finish, pool
  <2> QED
    BY <1>2, <2>2, <2>3, <2>4 DEF Proceed
<1>3. CASE Main
  <2>1. CASE EnqueueNow
    <3>1. Script[next] \in Commands
      BY <2>1, PoolAssumption DEF EnqueueNow, TypeOK, CallerTypeOK
    <3>2. StartOrQueue(Script[next]) /\ UNCHANGED main_at
      BY <2>1 DEF EnqueueNow, StartOrQueue
    <3> QED
      BY <3>1, <3>2, SectionsStrandNothing
  <2>2. CASE StartWaiting \/ WakeAndPush \/ WaitAgain
    BY <2>2 DEF StartWaiting, WakeAndPush, WaitAgain, QueueHasRoom, NothingCutsIn, MainAt, StrandInv
  <2>3. CASE StopReads \/ StopResets \/ JoinAndExit
    BY <2>3 DEF StopReads, StopResets, JoinAndExit, pool, caller, StrandInv, NoStrandedWork
  <2> QED
    BY <1>3, <2>1, <2>2, <2>3 DEF Main
<1>4. CASE (\E t \in Threads : IoExit(t)) \/ StartOnSentinel \/ Ended \/ UNCHANGED vars
  <2>1. UNCHANGED <<m_ready, m_queue, main_at>>
    BY <1>4 DEF IoExit, StartOnSentinel, Ended, vars, pool, caller
  <2> QED
    BY <2>1, SectionsStrandNothing
<1> QED
  BY <1>1, <1>2, <1>3, <1>4 DEF Next

\* The scenario of usenet.hpp:61-89, a connection in the free list and an item in
\* the queue, cannot occur when the queue is unbounded and no STAT is cut off.
THEOREM NothingIsStranded ==
  ASSUME MaxSize = 0, "CONNECTION_ERROR" \notin StatResults
  PROVE  Spec => []NoStrandedWork
<1>1. NothingCutsIn
  BY DEF NothingCutsIn
<1>2. Init => StrandInv
  BY DEF Init, StrandInv, NoStrandedWork
<1>3. TypeOK /\ StrandInv /\ [Next]_vars => StrandInv'
  BY <1>1, NextStrandsNothing
<1>4. StrandInv => NoStrandedWork
  BY DEF StrandInv
<1> QED
  BY <1>2, <1>3, <1>4, TypeCorrect, PTL DEF Spec
=============================================================================
