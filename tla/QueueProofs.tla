----------------------------- MODULE QueueProofs -----------------------------
(***************************************************************************)
(* By how much retries can exceed the limit of the queue (usenet.cc:88-97, *)
(* 186-210): a theorem about module Usenet.                                *)
(***************************************************************************)
EXTENDS PoolProofs, FiniteSetTheorems

-----------------------------------------------------------------------------
(* The load: what is queued, the connections that may put a command back,   *)
(* and the handlers that are about to.                                      *)

Occupied == {c \in Conns : conn[c].op \in {"post", "stat"}} \cup {c \in Conns : c \in Elements(m_ready)}

Holding == {t \in Threads : thread[t].at \in {"post_failed", "dispatch_or_queue"}}

Load == Len(m_queue) + Cardinality(Occupied) + Cardinality(Holding)

Limit == MaxSize + Cardinality(Conns) + Cardinality(Threads)

\* A thread that holds a command has left a connection without one, and while every
\* thread holds one nobody gives that connection the next.
SlackInv == ~(Occupied = Conns /\ Holding = Threads)

LoadInv == MaxSize # 0 => Load < Limit

OverrunInv == SlackInv /\ LoadInv

LEMMA Sizes ==
  ASSUME NEW S, IsFiniteSet(S), NEW T, T \subseteq S
  PROVE  /\ Cardinality(S) \in Nat /\ Cardinality(T) \in Nat /\ Cardinality(T) <= Cardinality(S)
         /\ \A x : x \in S /\ x \notin T => Cardinality(T) <= Cardinality(S) - 1
<1>1. IsFiniteSet(T) /\ Cardinality(T) <= Cardinality(S) /\ Cardinality(S) \in Nat /\ Cardinality(T) \in Nat
  BY FS_Subset, FS_CardinalityType
<1>2. ASSUME NEW x, x \in S, x \notin T PROVE Cardinality(T) <= Cardinality(S) - 1
  <2>1. Cardinality(S) = Cardinality(T) => S = T
    BY FS_Subset
  <2> QED
    BY <1>1, <1>2, <2>1
<1> QED
  BY <1>1, <1>2

LEMMA SizeOfOneMore ==
  ASSUME NEW S, IsFiniteSet(S), NEW x, NEW T, T \subseteq S \cup {x}
  PROVE  Cardinality(T) <= Cardinality(S) + 1
<1>1. IsFiniteSet(S \cup {x}) /\ Cardinality(S \cup {x}) <= Cardinality(S) + 1 /\ Cardinality(S) \in Nat
  BY FS_AddElement, FS_CardinalityType
<1>2. Cardinality(T) <= Cardinality(S \cup {x}) /\ Cardinality(T) \in Nat /\ Cardinality(S \cup {x}) \in Nat
  BY <1>1, Sizes
<1> QED
  BY <1>1, <1>2

LEMMA LoadTypes ==
  ASSUME TypeOK
  PROVE  /\ Occupied \subseteq Conns /\ Holding \subseteq Threads
         /\ IsFiniteSet(Occupied) /\ IsFiniteSet(Holding) /\ IsFiniteSet(Conns) /\ IsFiniteSet(Threads)
         /\ Cardinality(Occupied) \in Nat /\ Cardinality(Holding) \in Nat
         /\ Cardinality(Conns) \in Nat /\ Cardinality(Threads) \in Nat
         /\ Len(m_queue) \in Nat /\ MaxSize \in Nat
<1>1. Occupied \subseteq Conns /\ Holding \subseteq Threads
  BY DEF Occupied, Holding
<1>2. IsFiniteSet(Conns) /\ IsFiniteSet(Threads) /\ MaxSize \in Nat
  BY PoolAssumption
<1>3. IsFiniteSet(Occupied) /\ IsFiniteSet(Holding)
  BY <1>1, <1>2, FS_Subset
<1>4. Len(m_queue) \in Nat
  BY DEF TypeOK, PoolTypeOK
<1> QED
  BY <1>1, <1>2, <1>3, <1>4, FS_CardinalityType

\* While the queue keeps to its limit the slack suffices.
LEMMA WithinLimit ==
  ASSUME TypeOK, SlackInv, Len(m_queue) <= MaxSize
  PROVE  LoadInv
<1>1. Cardinality(Occupied) <= Cardinality(Conns) /\ Cardinality(Holding) <= Cardinality(Threads)
  BY LoadTypes, Sizes
<1>2. CASE Occupied # Conns
  <2>1. PICK c \in Conns : c \notin Occupied
    BY <1>2, LoadTypes
  <2>2. Cardinality(Occupied) <= Cardinality(Conns) - 1
    BY <2>1, LoadTypes, Sizes
  <2> QED
    BY <1>1, <2>2, LoadTypes DEF LoadInv, Load, Limit
<1>3. CASE Holding # Threads
  <2>1. PICK t \in Threads : t \notin Holding
    BY <1>3, LoadTypes
  <2>2. Cardinality(Holding) <= Cardinality(Threads) - 1
    BY <2>1, LoadTypes, Sizes
  <2> QED
    BY <1>1, <2>2, LoadTypes DEF LoadInv, Load, Limit
<1> QED
  BY <1>2, <1>3 DEF SlackInv

\* The steps that keep or lower the load.
LEMMA NothingAdded ==
  ASSUME TypeOK, TypeOK', LoadInv, Len(m_queue') <= Len(m_queue),
         Occupied' \subseteq Occupied, Holding' \subseteq Holding
  PROVE  LoadInv'
<1>1. Cardinality(Occupied') <= Cardinality(Occupied) /\ Cardinality(Holding') <= Cardinality(Holding)
  BY LoadTypes, Sizes
<1>2. Cardinality(Occupied') \in Nat /\ Cardinality(Holding') \in Nat /\ Len(m_queue') \in Nat
  BY LoadTypes, Sizes DEF TypeOK, PoolTypeOK
<1> QED
  BY <1>1, <1>2, LoadTypes DEF LoadInv, Load, Limit

LEMMA TakenFromQueue ==
  ASSUME TypeOK, TypeOK', LoadInv, NEW c, Len(m_queue') = Len(m_queue) - 1,
         Occupied' \subseteq Occupied \cup {c}, Holding' \subseteq Holding
  PROVE  LoadInv'
<1>1. Cardinality(Occupied') <= Cardinality(Occupied) + 1 /\ Cardinality(Holding') <= Cardinality(Holding)
  BY LoadTypes, Sizes, SizeOfOneMore
<1>2. Occupied' \subseteq Conns
  BY DEF Occupied
<1>3. Cardinality(Occupied') \in Nat /\ Cardinality(Holding') \in Nat /\ Len(m_queue') \in Nat
  BY <1>2, LoadTypes, Sizes DEF TypeOK, PoolTypeOK
<1> QED
  BY <1>1, <1>3, LoadTypes DEF LoadInv, Load, Limit

LEMMA TakenByHandler ==
  ASSUME TypeOK, TypeOK', LoadInv, NEW c \in Occupied, NEW t, Len(m_queue') = Len(m_queue),
         Occupied' \subseteq Occupied \ {c}, Holding' \subseteq Holding \cup {t}
  PROVE  LoadInv'
<1>1. Cardinality(Occupied') <= Cardinality(Occupied) - 1 /\ Cardinality(Holding') <= Cardinality(Holding) + 1
  BY LoadTypes, Sizes, SizeOfOneMore
<1>2. Holding' \subseteq Threads
  BY DEF Holding
<1>3. Cardinality(Occupied') \in Nat /\ Cardinality(Holding') \in Nat /\ Len(m_queue') \in Nat
  BY <1>2, LoadTypes, Sizes DEF TypeOK, PoolTypeOK
<1> QED
  BY <1>1, <1>3, LoadTypes DEF LoadInv, Load, Limit

LEMMA PutInQueue ==
  ASSUME TypeOK, TypeOK', LoadInv, Len(m_queue') = Len(m_queue) + 1,
         Occupied' \subseteq Occupied, Holding' \subseteq Holding,
         (\E c \in Occupied : c \notin Occupied') \/ (\E t \in Holding : t \notin Holding')
  PROVE  LoadInv'
<1>1. Cardinality(Occupied') <= Cardinality(Occupied) /\ Cardinality(Holding') <= Cardinality(Holding)
  BY LoadTypes, Sizes
<1>2. \/ Cardinality(Occupied') <= Cardinality(Occupied) - 1
      \/ Cardinality(Holding') <= Cardinality(Holding) - 1
  BY LoadTypes, Sizes
<1>3. Cardinality(Occupied') \in Nat /\ Cardinality(Holding') \in Nat /\ Len(m_queue') \in Nat
  BY LoadTypes, Sizes DEF TypeOK, PoolTypeOK
<1> QED
  BY <1>1, <1>2, <1>3, LoadTypes DEF LoadInv, Load, Limit
-----------------------------------------------------------------------------
(* The critical sections.                                                   *)

LEMMA StartOrQueueLoad ==
  ASSUME TypeOK, ConnectionsAccountedFor, NEW cmd \in Commands, StartOrQueue(cmd)
  PROVE  /\ Occupied' \subseteq Occupied
         /\ Len(m_queue') = Len(m_queue) \/ Len(m_queue') = Len(m_queue) + 1
<1>1. CASE StartOnReady(cmd)
  <2>1. PICK d \in Elements(m_ready) :
           /\ Elements(m_ready)' = Elements(m_ready) \ {d}
           /\ conn' = [conn EXCEPT ![d] = Doing(cmd)]
    BY <1>1, StartOnReadyEffect
  <2>2. conn \in [Conns -> ConnStates]
    BY DEF TypeOK, PoolTypeOK
  <2>3. Occupied' \subseteq Occupied
    BY <2>1, <2>2 DEF Occupied
  <2> QED
    BY <1>1, <2>3 DEF StartOnReady
<1>2. CASE PushBack(cmd)
  <2>1. Occupied' = Occupied
    BY <1>2, SameReady DEF PushBack, Occupied
  <2> QED
    BY <1>2, <2>1, QueueLengths DEF PushBack
<1> QED
  BY <1>1, <1>2 DEF StartOrQueue

LEMMA BecomesReadyLoad ==
  ASSUME TypeOK, ConnectionsAccountedFor, NEW c \in Conns, OnConnBecomesReady(c)
  PROVE  \/ Len(m_queue') = Len(m_queue) - 1 /\ Occupied' \subseteq Occupied \cup {c}
         \/ Len(m_queue') = 0
<1>1. CASE TakeNextCommand(c)
  <2>1. conn \in [Conns -> ConnStates]
    BY DEF TypeOK, PoolTypeOK
  <2>2. Occupied' \subseteq Occupied \cup {c}
    BY <1>1, <2>1, SameReady DEF TakeNextCommand, Occupied
  <2> QED
    BY <1>1, <2>2, QueueLengths DEF TakeNextCommand
<1>2. CASE JoinReady(c) \/ ShutDownReady(c)
  BY <1>2 DEF JoinReady, ShutDownReady
<1> QED
  BY <1>1, <1>2 DEF OnConnBecomesReady

\* A connection that stops to carry a command, or never did.
LEMMA LeavesLoad ==
  ASSUME TypeOK, ConnectionsAccountedFor, NEW c \in Conns, conn[c] # Idle, UNCHANGED m_ready,
         NEW state, state.op \notin {"post", "stat"}, conn' = [conn EXCEPT ![c] = state]
  PROVE  /\ Occupied' \subseteq Occupied \ {c}
         /\ conn[c].op \in {"post", "stat"} => c \in Occupied
<1>1. c \notin Elements(m_ready) /\ Elements(m_ready)' = Elements(m_ready)
  BY SameReady DEF ConnectionsAccountedFor, ReadyAreIdle
<1>2. conn \in [Conns -> ConnStates]
  BY DEF TypeOK, PoolTypeOK
<1> QED
  BY <1>1, <1>2 DEF Occupied

-----------------------------------------------------------------------------
(* The actions.                                                             *)

\* Whoever makes a connection ready, a thread that holds no command remains.
LEMMA BecomesReadyOverrun ==
  ASSUME TypeOK, TypeOK', ConnectionsAccountedFor, OverrunInv, NEW c \in Conns, OnConnBecomesReady(c),
         Holding' \subseteq Holding, NEW t \in Threads, t \notin Holding'
  PROVE  OverrunInv'
<1>1. SlackInv'
  BY DEF SlackInv
<1>2. CASE Len(m_queue') = 0
  <2>1. Len(m_queue') <= MaxSize
    BY <1>2, PoolAssumption
  <2>2. (TypeOK /\ SlackInv /\ Len(m_queue) <= MaxSize => LoadInv)'
    BY WithinLimit, PTL
  <2> QED
    BY <1>1, <2>1, <2>2 DEF OverrunInv
<1>3. CASE Len(m_queue') = Len(m_queue) - 1 /\ Occupied' \subseteq Occupied \cup {c}
  BY <1>1, <1>3, TakenFromQueue DEF OverrunInv
<1> QED
  BY <1>2, <1>3, BecomesReadyLoad

LEMMA LessIsSlack ==
  ASSUME OverrunInv, Occupied' \subseteq Occupied, Holding' \subseteq Holding
  PROVE  SlackInv'
<1>1. Occupied \subseteq Conns /\ Holding \subseteq Threads
  BY DEF Occupied, Holding
<1> QED
  BY <1>1 DEF OverrunInv, SlackInv

LEMMA LessOverrun ==
  ASSUME TypeOK, TypeOK', OverrunInv, Len(m_queue') <= Len(m_queue),
         Occupied' \subseteq Occupied, Holding' \subseteq Holding
  PROVE  OverrunInv'
  BY LessIsSlack, NothingAdded DEF OverrunInv

LEMMA SameOverrun ==
  ASSUME TypeOK, TypeOK', OverrunInv, UNCHANGED <<m_ready, m_queue, conn>>, Holding' \subseteq Holding
  PROVE  OverrunInv'
<1>1. Occupied' = Occupied
  BY SameReady DEF Occupied
<1>2. Len(m_queue') <= Len(m_queue)
  BY LoadTypes
<1> QED
  BY <1>1, <1>2, LessOverrun

LEMMA CompleteOverrun ==
  ASSUME TypeOK, TypeOK', ConnectionsAccountedFor, OverrunInv, NEW t \in Threads, NEW c \in Conns,
         Complete(t, c)
  PROVE  OverrunInv'
<1>1. /\ thread[t] = Running /\ thread \in [Threads -> ThreadStates] /\ Running.at = "run"
      /\ t \notin Holding
  BY DEF Complete, OnConnected, OnPostFinished, OnStatFinished, OnQuitWritten, CanRun, TypeOK, Running, Holding
<1>2. ASSUME NEW where, NEW d, NEW cmd, NEW result,
             UNCHANGED thread \/ (where \in {"finish_post", "finish_stat"} /\ Continue(t, where, d, cmd, result))
      PROVE  Holding' \subseteq Holding /\ t \notin Holding'
  BY <1>1, <1>2 DEF Holding, Continue
<1>3. ASSUME conn[c] # Idle, UNCHANGED m_ready,
             NEW state, state.op \notin {"post", "stat"}, conn' = [conn EXCEPT ![c] = state]
      PROVE  /\ Occupied' \subseteq Occupied \ {c} /\ SlackInv'
             /\ conn[c].op \in {"post", "stat"} => c \in Occupied
  BY <1>3, LeavesLoad DEF SlackInv
<1>4. /\ Connecting.op = "connecting" /\ Idle.op = "idle" /\ Closed.op = "closed" /\ Dead.op = "dead"
      /\ conn[c].op \in {"connecting", "post", "stat", "quit"} => conn[c] # Idle
  BY DEF Connecting, Idle, Closed, Dead
<1>5. CASE OnConnected(t, c)
  <2>1. UNCHANGED thread /\ conn[c].op = "connecting"
    BY <1>5 DEF OnConnected
  <2>2. CASE OnConnBecomesReady(c)
    BY <1>2, <2>1, <2>2, BecomesReadyOverrun
  <2>3. CASE DiscardConnection(c)
    <3>1. Occupied' \subseteq Occupied
      BY <1>3, <1>4, <2>1, <2>3 DEF DiscardConnection
    <3>2. Len(m_queue') <= Len(m_queue)
      BY <2>3, LoadTypes DEF DiscardConnection
    <3> QED
      BY <1>2, <2>1, <3>1, <3>2, LessOverrun
  <2> QED
    BY <1>5, <2>2, <2>3 DEF OnConnected
<1>6. CASE OnPostFinished(t, c)
  <2>1. conn[c].op = "post"
    BY <1>6 DEF OnPostFinished
  <2>2. CASE PostSuccess(t, c)
    <3>1. Holding' \subseteq Holding /\ t \notin Holding'
      BY <1>2, <2>2 DEF PostSuccess
    <3> QED
      BY <2>2, <3>1, BecomesReadyOverrun DEF PostSuccess
  <2>3. CASE PostNotPermitted(t, c) \/ PostFailure(t, c) \/ PostConnectionError(t, c)
    <3>1. \E state : state.op \notin {"post", "stat"} /\ conn' = [conn EXCEPT ![c] = state]
      BY <1>4, <2>3 DEF PostNotPermitted, PostFailure, PostConnectionError, DiscardConnection
    <3>2. UNCHANGED <<m_ready, m_queue>>
      BY <2>3 DEF PostNotPermitted, PostFailure, PostConnectionError, DiscardConnection
    <3>3. c \in Occupied /\ Occupied' \subseteq Occupied \ {c} /\ SlackInv'
      BY <1>3, <1>4, <2>1, <3>1, <3>2
    <3>4. Holding' \subseteq Holding \cup {t}
      BY <1>1, <2>3 DEF PostNotPermitted, PostFailure, PostConnectionError, Continue, Holding
    <3> QED
      BY <3>2, <3>3, <3>4, TakenByHandler DEF OverrunInv
  <2> QED
    BY <1>6, <2>2, <2>3 DEF OnPostFinished
<1>7. CASE OnStatFinished(t, c)
  <2>1. conn[c].op = "stat"
    BY <1>7 DEF OnStatFinished
  <2>2. CASE StatConnectionError(c)
    <3>1. UNCHANGED <<m_ready, thread>> /\ conn' = [conn EXCEPT ![c] = Connecting]
      BY <2>2 DEF StatConnectionError
    <3>2. c \in Occupied /\ Occupied' \subseteq Occupied \ {c} /\ SlackInv'
      BY <1>3, <1>4, <2>1, <3>1
    <3>3. Len(m_queue') = Len(m_queue) + 1
      BY <2>2, <2>1, PostsAndStats, QueueLengths DEF StatConnectionError, Stats
    <3>4. Holding' \subseteq Holding
      BY <1>2, <3>1
    <3> QED
      BY <3>2, <3>3, <3>4, PutInQueue DEF OverrunInv
  <2>3. ASSUME NEW result, OnConnBecomesReady(c), Continue(t, "finish_stat", None, conn[c].cmd, result)
        PROVE  OverrunInv'
    <3>1. Holding' \subseteq Holding /\ t \notin Holding'
      BY <1>2, <2>3
    <3> QED
      BY <2>3, <3>1, BecomesReadyOverrun
  <2> QED
    BY <1>7, <2>2, <2>3 DEF OnStatFinished
<1>8. CASE OnQuitWritten(t, c)
  <2>1. /\ UNCHANGED <<m_ready, m_queue, thread>> /\ conn[c].op = "quit"
        /\ conn' = [conn EXCEPT ![c] = Closed]
    BY <1>8 DEF OnQuitWritten
  <2>2. Occupied' \subseteq Occupied
    BY <1>3, <1>4, <2>1
  <2>3. Len(m_queue') <= Len(m_queue)
    BY <2>1, LoadTypes
  <2> QED
    BY <1>2, <2>1, <2>2, <2>3, LessOverrun
<1> QED
  BY <1>5, <1>6, <1>7, <1>8 DEF Complete

LEMMA ProceedOverrun ==
  ASSUME TypeOK, TypeOK', ConnectionsAccountedFor, OverrunInv, NEW t \in Threads, Proceed(t)
  PROVE  OverrunInv'
<1>1. thread \in [Threads -> ThreadStates] /\ Running.at = "run"
  BY DEF TypeOK, Running
<1>2. ASSUME NEW s, thread' = [thread EXCEPT ![t] = s], s.at \in {"run", "becomes_ready"}
      PROVE  Holding' \subseteq Holding \ {t}
  BY <1>1, <1>2 DEF Holding
<1>3. CASE Requeue(t) \/ DispatchOrQueue(t)
  <2>1. t \in Holding /\ thread[t].cmd \in Commands /\ StartOrQueue(thread[t].cmd)
    BY <1>3, ThreadTypes DEF Requeue, DispatchOrQueue, At, Holding, Posts
  <2>2. Holding' \subseteq Holding \ {t}
    BY <1>1, <1>2, <1>3 DEF Requeue, DispatchOrQueue, Continue, Return
  <2>3. Occupied' \subseteq Occupied /\ (Len(m_queue') = Len(m_queue) \/ Len(m_queue') = Len(m_queue) + 1)
    BY <2>1, StartOrQueueLoad
  <2>4. CASE Len(m_queue') = Len(m_queue)
    BY <2>2, <2>3, <2>4, LoadTypes, LessOverrun
  <2>5. CASE Len(m_queue') = Len(m_queue) + 1
    <3>1. SlackInv'
      BY <2>2, <2>3, LessIsSlack
    <3>2. LoadInv'
      BY <2>1, <2>2, <2>3, <2>5, PutInQueue DEF OverrunInv
    <3> QED
      BY <3>1, <3>2 DEF OverrunInv
  <2> QED
    BY <2>3, <2>4, <2>5
<1>4. CASE BecomeReady(t)
  <2>1. thread[t].conn \in Conns /\ OnConnBecomesReady(thread[t].conn)
    BY <1>4, ThreadTypes DEF BecomeReady, At
  <2>2. Holding' \subseteq Holding \ {t}
    BY <1>1, <1>2, <1>4 DEF BecomeReady, Return
  <2> QED
    BY <2>1, <2>2, BecomesReadyOverrun
<1>5. CASE Abort(t)
  <2>1. UNCHANGED <<m_ready, m_queue, conn, thread>>
    BY <1>5 DEF Abort
  <2> QED
    BY <2>1, SameOverrun DEF Holding
<1>6. CASE Finish(t)
  <2>1. UNCHANGED <<m_ready, m_queue, conn>> /\ thread' = [thread EXCEPT ![t] = Running]
    BY <1>6 DEF Finish, pool, Return
  <2> QED
    BY <1>1, <1>2, <2>1, SameOverrun
<1> QED
  BY <1>3, <1>4, <1>5, <1>6 DEF Proceed

\* main pushes only into a queue that has room.
LEMMA PushedOverrun ==
  ASSUME TypeOK, TypeOK', OverrunInv, QueueHasRoom, Len(m_queue') = Len(m_queue) + 1,
         UNCHANGED <<m_ready, conn, thread>>
  PROVE  OverrunInv'
<1>1. Occupied' = Occupied /\ Holding' = Holding
  BY SameReady DEF Occupied, Holding
<1>2. SlackInv'
  BY <1>1, LessIsSlack
<1>3. CASE MaxSize = 0
  BY <1>2, <1>3 DEF OverrunInv, LoadInv
<1>4. CASE MaxSize # 0
  <2>1. Len(m_queue') <= MaxSize
    BY <1>4, LoadTypes DEF QueueHasRoom
  <2>2. (TypeOK /\ SlackInv /\ Len(m_queue) <= MaxSize => LoadInv)'
    BY WithinLimit, PTL
  <2> QED
    BY <1>2, <2>1, <2>2 DEF OverrunInv
<1> QED
  BY <1>3, <1>4

LEMMA MainOverrun ==
  ASSUME TypeOK, TypeOK', ConnectionsAccountedFor, OverrunInv, Main
  PROVE  OverrunInv'
<1>1. UNCHANGED thread
  BY DEF Main, EnqueueNow, StartWaiting, WakeAndPush, WaitAgain, StopReads, StopResets, JoinAndExit
<1>2. CASE EnqueueNow
  <2>1. Script[next] \in Commands
    BY <1>2, PoolAssumption DEF EnqueueNow, TypeOK, CallerTypeOK
  <2>2. CASE StartOnReady(Script[next])
    <3>1. Occupied' \subseteq Occupied
      BY <2>1, <2>2, StartOrQueueLoad DEF StartOrQueue
    <3>2. Len(m_queue') <= Len(m_queue)
      BY <2>2, LoadTypes DEF StartOnReady
    <3> QED
      BY <1>1, <3>1, <3>2, LessOverrun DEF Holding
  <2>3. CASE QueueHasRoom /\ PushBack(Script[next])
    <3>1. Len(m_queue') = Len(m_queue) + 1
      BY <2>1, <2>3, QueueLengths DEF PushBack
    <3> QED
      BY <1>1, <2>3, <3>1, PushedOverrun DEF PushBack
  <2> QED
    BY <1>2, <2>2, <2>3 DEF EnqueueNow
<1>3. CASE WakeAndPush
  <2>1. Script[next] \in Commands
    BY <1>3, PoolAssumption DEF WakeAndPush, MainAt, TypeOK, CallerTypeOK
  <2>2. Len(m_queue') = Len(m_queue) + 1
    BY <1>3, <2>1, QueueLengths DEF WakeAndPush
  <2> QED
    BY <1>1, <1>3, <2>2, PushedOverrun DEF WakeAndPush
<1>4. CASE StartWaiting \/ WaitAgain \/ StopReads \/ StopResets \/ JoinAndExit
  <2>1. UNCHANGED <<m_ready, m_queue, conn>>
    BY <1>4 DEF StartWaiting, WaitAgain, StopReads, StopResets, JoinAndExit, pool
  <2> QED
    BY <1>1, <2>1, SameOverrun DEF Holding
<1> QED
  BY <1>2, <1>3, <1>4 DEF Main

LEMMA NextOverrun ==
  ASSUME TypeOK, TypeOK', ConnectionsAccountedFor, OverrunInv, [Next]_vars
  PROVE  OverrunInv'
<1>1. CASE StartOnSentinel \/ Ended \/ UNCHANGED vars
  <2>1. UNCHANGED <<m_ready, m_queue, conn, thread>>
    BY <1>1 DEF StartOnSentinel, Ended, vars
  <2> QED
    BY <2>1, SameOverrun DEF Holding
<1>2. ASSUME NEW t \in Threads, IoExit(t) PROVE OverrunInv'
  <2>1. UNCHANGED <<m_ready, m_queue, conn>> /\ thread' = [thread EXCEPT ![t] = Exited] /\ Exited.at = "exited"
    BY <1>2 DEF IoExit, pool, Exited, Running
  <2> QED
    BY <2>1, SameOverrun DEF Holding, TypeOK
<1> QED
  BY <1>1, <1>2, MainOverrun, CompleteOverrun, ProceedOverrun DEF Next

LEMMA InitOverrun == Init => OverrunInv
<1> SUFFICES ASSUME Init PROVE OverrunInv
  OBVIOUS
<1>1. TypeOK
  BY InitType
<1>2. Holding = {}
  BY DEF Init, Holding, Running
<1>3. SlackInv
  BY <1>2, PoolAssumption DEF SlackInv
<1>4. Len(m_queue) <= MaxSize
  BY LoadTypes, PoolAssumption DEF Init
<1> QED
  BY <1>1, <1>3, <1>4, WithinLimit DEF OverrunInv

\* Retries bypass the limit of the queue, and STATs that were cut off too; still the
\* queue exceeds it by less than one command for each connection and each io thread
\* (usenet.cc:88-97, 164-174 and 186-264).
THEOREM OverrunIsBounded == Spec => []QueueOverrunIsBounded
<1>1. TypeOK /\ TypeOK' /\ ConnectionsAccountedFor /\ OverrunInv /\ [Next]_vars => OverrunInv'
  BY NextOverrun
<1>2. TypeOK /\ OverrunInv => QueueOverrunIsBounded
  BY LoadTypes DEF OverrunInv, LoadInv, Load, Limit, QueueOverrunIsBounded
<1> QED
  BY <1>1, <1>2, InitOverrun, TypeCorrect, ListsAreConsistent, PTL DEF Spec
=============================================================================
