--------------------------- MODULE DeliveryProofs ---------------------------
(***************************************************************************)
(* Theorems about the commands of the pool: where each of them is, what    *)
(* exit status 0 tells, and that the pool implements module Delivery.      *)
(***************************************************************************)
EXTENDS PoolProofs

-----------------------------------------------------------------------------
(* What connections or handlers carry, as sets.                             *)

CmdsOf(f, S) == {f[x].cmd : x \in S} \ {None}

OneEach(f, S) == \A x, y \in S : f[x].cmd = f[y].cmd => x = y \/ f[x].cmd = None

\* One connection, or one thread, lets go of what it carries and takes something.
LEMMA CarrierChanges ==
  ASSUME NEW S, NEW f, NEW g, NEW x \in S, OneEach(f, S),
         \A y \in S : y # x => g[y].cmd = f[y].cmd,
         g[x].cmd = None \/ g[x].cmd \notin CmdsOf(f, S) \ {f[x].cmd}
  PROVE  /\ CmdsOf(g, S) = (CmdsOf(f, S) \ {f[x].cmd}) \cup ({g[x].cmd} \ {None})
         /\ OneEach(g, S)
<1>1. CmdsOf(g, S) \subseteq (CmdsOf(f, S) \ {f[x].cmd}) \cup ({g[x].cmd} \ {None})
  BY DEF CmdsOf, OneEach
<1>2. (CmdsOf(f, S) \ {f[x].cmd}) \cup ({g[x].cmd} \ {None}) \subseteq CmdsOf(g, S)
  BY DEF CmdsOf, OneEach
<1>3. OneEach(g, S)
  BY DEF CmdsOf, OneEach
<1> QED
  BY <1>1, <1>2, <1>3

\* Nothing changes for a carrier that keeps what it carries.
LEMMA CarriersStay ==
  ASSUME NEW S, NEW f, NEW g, \A y \in S : g[y].cmd = f[y].cmd
  PROVE  CmdsOf(g, S) = CmdsOf(f, S) /\ (OneEach(f, S) => OneEach(g, S))
<1>1. CmdsOf(g, S) \subseteq CmdsOf(f, S) /\ CmdsOf(f, S) \subseteq CmdsOf(g, S)
  BY DEF CmdsOf
<1> QED
  BY <1>1 DEF OneEach

-----------------------------------------------------------------------------
(* The commands the pool has, in its queue or on its connections.           *)

Pending == Queued \cup OnConns

PendingOnce == Queued \cap OnConns = {} /\ Distinct(m_queue) /\ OneEach(conn, Conns)

\* CommandsAccountedFor in terms of these.
LEMMA Places ==
  CommandsAccountedFor <=>
    /\ Issued = Pending \cup InThreads \cup finished
    /\ Pending \cap (InThreads \cup finished) = {}
    /\ InThreads \cap finished = {}
    /\ PendingOnce
    /\ OneEach(thread, Threads)
  BY DEF CommandsAccountedFor, Pending, PendingOnce, OneEach

LEMMA PlacesNext ==
  CommandsAccountedFor' <=>
    /\ Issued' = Pending' \cup InThreads' \cup finished'
    /\ Pending' \cap (InThreads' \cup finished') = {}
    /\ InThreads' \cap finished' = {}
    /\ PendingOnce'
    /\ OneEach(thread', Threads)
  BY DEF CommandsAccountedFor, Pending, PendingOnce, OneEach

LEMMA CarriedCommands ==
  /\ OnConns = CmdsOf(conn, Conns) /\ OnConns' = CmdsOf(conn', Conns)
  /\ InThreads = CmdsOf(thread, Threads) /\ InThreads' = CmdsOf(thread', Threads)
  BY DEF OnConns, InThreads, CmdsOf

LEMMA IdleCarriesNothing ==
  /\ Connecting.cmd = None /\ Idle.cmd = None /\ Quitting.cmd = None
  /\ Closed.cmd = None /\ Dead.cmd = None /\ Running.cmd = None /\ Exited.cmd = None
  /\ \A cmd : Doing(cmd).cmd = cmd
  BY DEF Connecting, Idle, Quitting, Closed, Dead, Running, Exited, Doing

LEMMA PendingTypes ==
  ASSUME TypeOK
  PROVE  /\ conn \in [Conns -> ConnStates] /\ thread \in [Threads -> ThreadStates]
         /\ m_queue \in Seq(Commands) /\ Queued \subseteq Commands /\ None \notin Queued
         /\ None \notin Commands
<1>1. m_queue \in Seq(Commands)
  BY DEF TypeOK, PoolTypeOK
<1>2. Queued \subseteq Commands
  BY <1>1, NonEmptyElements DEF Queued
<1> QED
  BY <1>1, <1>2, PoolAssumption DEF TypeOK, PoolTypeOK

LEMMA PushIsPending ==
  ASSUME TypeOK, PendingOnce, NEW cmd \in Commands, cmd \notin Pending,
         m_queue' = Append(m_queue, cmd), OnConns' = OnConns, OneEach(conn', Conns)
  PROVE  Pending' = Pending \cup {cmd} /\ PendingOnce'
<1>1. Elements(Append(m_queue, cmd)) = Queued \cup {cmd} /\ Distinct(Append(m_queue, cmd))
  BY PendingTypes, AppendElements DEF Pending, PendingOnce, Queued
<1>2. Queued' = Queued \cup {cmd} /\ Distinct(m_queue)'
  BY <1>1 DEF Queued, Elements, Distinct
<1> QED
  BY <1>2 DEF Pending, PendingOnce

LEMMA StartOrQueuePlaces ==
  ASSUME TypeOK, ConnectionsAccountedFor, PendingOnce, NEW cmd \in Commands, cmd \notin Pending,
         StartOrQueue(cmd)
  PROVE  Pending' = Pending \cup {cmd} /\ PendingOnce'
<1>1. CASE PushBack(cmd)
  BY <1>1, PushIsPending DEF PushBack, OnConns, PendingOnce
<1>2. CASE StartOnReady(cmd)
  <2> DEFINE d == Head(m_ready)
  <2>1. d \in Conns /\ conn[d] = Idle
    BY <1>2, NonEmptyElements
    DEF StartOnReady, TypeOK, PoolTypeOK, ConnectionsAccountedFor, ReadyAreIdle
  <2>2. /\ conn'[d].cmd = cmd /\ conn[d].cmd = None
        /\ \A e \in Conns : e # d => conn'[e].cmd = conn[e].cmd
    BY <1>2, <2>1, PendingTypes, IdleCarriesNothing DEF StartOnReady
  <2>3. cmd # None /\ cmd \notin OnConns /\ cmd \notin Queued /\ None \notin OnConns
    BY PendingTypes DEF Pending, OnConns
  <2>4. OnConns' = OnConns \cup {cmd} /\ OneEach(conn', Conns)
    BY <2>1, <2>2, <2>3, CarrierChanges, CarriedCommands DEF PendingOnce
  <2>5. UNCHANGED m_queue
    BY <1>2 DEF StartOnReady
  <2> QED
    BY <2>3, <2>4, <2>5 DEF Pending, PendingOnce, Queued, Elements, Distinct
<1> QED
  BY <1>1, <1>2 DEF StartOrQueue

\* The connection lets go of its command without taking another one.
LEMMA LetGo ==
  ASSUME TypeOK, PendingOnce, NEW c \in Conns, UNCHANGED m_queue, conn'[c].cmd = None,
         \A d \in Conns : d # c => conn'[d].cmd = conn[d].cmd
  PROVE  /\ Pending' = Pending \ {conn[c].cmd} /\ PendingOnce'
         /\ OnConns' = OnConns \ {conn[c].cmd} /\ OneEach(conn', Conns)
<1>1. OnConns' = OnConns \ {conn[c].cmd} /\ OneEach(conn', Conns)
  BY CarrierChanges, CarriedCommands DEF PendingOnce
<1>2. Queued' = Queued /\ Distinct(m_queue)' /\ conn[c].cmd \notin Queued
  BY PendingTypes DEF PendingOnce, Queued, Elements, Distinct, OnConns
<1> QED
  BY <1>1, <1>2 DEF Pending, PendingOnce

LEMMA BecomesReadyPlaces ==
  ASSUME TypeOK, ConnectionsAccountedFor, PendingOnce, NEW c \in Conns, OnConnBecomesReady(c)
  PROVE  Pending' = Pending \ {conn[c].cmd} /\ PendingOnce'
<1>1. CASE TakeNextCommand(c)
  <2> DEFINE cmd == Head(m_queue)
  <2>1. /\ cmd \in Queued
        /\ Elements(Tail(m_queue)) = Queued \ {cmd}
        /\ Distinct(Tail(m_queue))
    BY <1>1, PendingTypes, TailElements DEF TakeNextCommand, PendingOnce, Queued
  <2>2. /\ conn'[c].cmd = cmd
        /\ \A d \in Conns : d # c => conn'[d].cmd = conn[d].cmd
    BY <1>1, PendingTypes, IdleCarriesNothing DEF TakeNextCommand
  <2>3. cmd # None /\ cmd \notin OnConns /\ conn[c].cmd \notin Queued
    BY <2>1, PendingTypes DEF PendingOnce, OnConns
  <2>4. OnConns' = (OnConns \ {conn[c].cmd}) \cup {cmd} /\ OneEach(conn', Conns)
    BY <2>2, <2>3, CarrierChanges, CarriedCommands DEF PendingOnce
  <2>5. Queued' = Queued \ {cmd} /\ Distinct(m_queue)'
    BY <1>1, <2>1 DEF TakeNextCommand, Queued, Elements, Distinct
  <2> QED
    BY <2>1, <2>3, <2>4, <2>5 DEF Pending, PendingOnce
<1>2. CASE JoinReady(c)
  <2>1. conn'[c].cmd = None /\ \A d \in Conns : d # c => conn'[d].cmd = conn[d].cmd
    BY <1>2, PendingTypes, IdleCarriesNothing DEF JoinReady
  <2> QED
    BY <1>2, <2>1, LetGo DEF JoinReady
<1>3. CASE ShutDownReady(c)
  <2>1. conn'[c].cmd = None /\ \A d \in Conns : d # c => conn'[d].cmd = conn[d].cmd
    BY <1>3, PendingTypes, IdleCarriesNothing
    DEF ShutDownReady, ConnectionsAccountedFor, ReadyAreIdle
  <2> QED
    BY <1>3, <2>1, LetGo DEF ShutDownReady
<1> QED
  BY <1>1, <1>2, <1>3 DEF OnConnBecomesReady

LEMMA DiscardPlaces ==
  ASSUME TypeOK, PendingOnce, NEW c \in Conns, DiscardConnection(c)
  PROVE  Pending' = Pending \ {conn[c].cmd} /\ PendingOnce'
<1>1. conn'[c].cmd = None /\ \A d \in Conns : d # c => conn'[d].cmd = conn[d].cmd
  BY PendingTypes, IdleCarriesNothing DEF DiscardConnection
<1> QED
  BY <1>1, LetGo DEF DiscardConnection

-----------------------------------------------------------------------------
(* What a step does to the places of the commands.                          *)

\* The handlers keep what they carry.
LEMMA HandlersKeep ==
  ASSUME CommandsAccountedFor, Pending' = Pending, PendingOnce', UNCHANGED <<next, finished>>,
         \A u \in Threads : thread'[u].cmd = thread[u].cmd
  PROVE  CommandsAccountedFor'
<1>1. InThreads' = InThreads /\ OneEach(thread', Threads)
  BY CarriersStay, CarriedCommands, Places
<1>2. Issued' = Issued
  BY DEF Issued
<1> QED
  BY <1>1, <1>2, Places, PlacesNext

\* A handler begins with the command of its connection.
LEMMA HandlerTakes ==
  ASSUME TypeOK, CommandsAccountedFor, NEW t \in Threads, NEW cmd \in OnConns,
         thread[t].cmd = None, thread'[t].cmd = cmd,
         \A u \in Threads : u # t => thread'[u].cmd = thread[u].cmd,
         Pending' = Pending \ {cmd}, PendingOnce', UNCHANGED <<next, finished>>
  PROVE  CommandsAccountedFor'
<1>1. cmd \in Pending /\ cmd \notin InThreads /\ cmd # None /\ None \notin InThreads
  BY Places DEF Pending, OnConns, InThreads
<1>2. InThreads' = InThreads \cup {cmd} /\ OneEach(thread', Threads)
  BY <1>1, CarrierChanges, CarriedCommands, Places
<1>3. Issued' = Issued
  BY DEF Issued
<1> QED
  BY <1>1, <1>2, <1>3, Places, PlacesNext

\* A handler gives its command back to the pool.
LEMMA HandlerGivesBack ==
  ASSUME CommandsAccountedFor, NEW t \in Threads,
         thread'[t].cmd = None, \A u \in Threads : u # t => thread'[u].cmd = thread[u].cmd,
         thread[t].cmd # None,
         Pending' = Pending \cup {thread[t].cmd}, PendingOnce', UNCHANGED <<next, finished>>
  PROVE  CommandsAccountedFor'
<1>1. thread[t].cmd \in InThreads
  BY DEF InThreads
<1>2. InThreads' = InThreads \ {thread[t].cmd} /\ OneEach(thread', Threads)
  BY CarrierChanges, CarriedCommands, Places
<1>3. Issued' = Issued
  BY DEF Issued
<1> QED
  BY <1>1, <1>2, <1>3, Places, PlacesNext

\* The caller hands a command in.
LEMMA CallerHandsIn ==
  ASSUME TypeOK, CommandsAccountedFor, next \in 1..Len(Script), next' = next + 1,
         Pending' = Pending \cup {Script[next]}, PendingOnce', UNCHANGED <<thread, finished>>
  PROVE  CommandsAccountedFor'
<1>1. Script \in Seq(Commands) /\ Distinct(Script)
  BY PoolAssumption
<1>2. Issued' = Issued \cup {Script[next]}
  BY DEF Issued
<1>3. Script[next] \notin Issued
  BY <1>1 DEF Issued, Distinct
<1>4. InThreads' = InThreads /\ OneEach(thread', Threads)
  BY CarriersStay, CarriedCommands, Places
<1> QED
  BY <1>2, <1>3, <1>4, Places, PlacesNext

LEMMA SamePlaces ==
  ASSUME PendingOnce, UNCHANGED <<m_queue, conn>>
  PROVE  Pending' = Pending /\ PendingOnce'
  BY DEF Pending, PendingOnce, Queued, OnConns, OneEach, Elements, Distinct

LEMMA Carried ==
  ASSUME TypeOK, NEW c \in Conns
  PROVE  /\ conn[c].op = "connecting" => conn[c].cmd = None
         /\ conn[c].op \in {"post", "stat"} => conn[c].cmd \in OnConns /\ conn[c].cmd # None
<1>1. conn[c] \in ConnStates
  BY PendingTypes
<1>2. conn[c].op = "connecting" => conn[c].cmd = None
  BY <1>1 DEF ConnStates, Connecting, Idle, Quitting, Closed, Dead, Doing, Commands
<1>3. conn[c].op \in {"post", "stat"} => conn[c].cmd \in OnConns /\ conn[c].cmd # None
  BY DoingType, PendingTypes DEF OnConns
<1> QED
  BY <1>2, <1>3

-----------------------------------------------------------------------------
(* One lemma for each handler, and for what follows in it.                  *)

PlacesInv == TypeOK /\ ConnectionsAccountedFor /\ CommandsAccountedFor

LEMMA OnConnectedPlaces ==
  ASSUME PlacesInv, NEW t \in Threads, NEW c \in Conns, OnConnected(t, c)
  PROVE  CommandsAccountedFor'
<1>1. conn[c].cmd = None /\ PendingOnce
  BY Carried, Places DEF OnConnected, PlacesInv
<1>2. OnConnBecomesReady(c) \/ DiscardConnection(c)
  BY DEF OnConnected
<1>3. Pending' = Pending \ {None} /\ PendingOnce'
  BY <1>1, <1>2, BecomesReadyPlaces, DiscardPlaces DEF PlacesInv
<1>4. None \notin Pending
  BY PendingTypes DEF Pending, OnConns, PlacesInv
<1> QED
  BY <1>3, <1>4, HandlersKeep DEF OnConnected, PlacesInv, caller

LEMMA ContinueCarries ==
  ASSUME TypeOK, NEW t \in Threads, NEW where, NEW c, NEW cmd, NEW result,
         Continue(t, where, c, cmd, result)
  PROVE  thread'[t].cmd = cmd /\ \A u \in Threads : u # t => thread'[u].cmd = thread[u].cmd
  BY PendingTypes DEF Continue

LEMMA ReturnCarries ==
  ASSUME TypeOK, NEW t \in Threads, Return(t)
  PROVE  thread'[t].cmd = None /\ \A u \in Threads : u # t => thread'[u].cmd = thread[u].cmd
  BY PendingTypes, IdleCarriesNothing DEF Return

LEMMA OnPostFinishedPlaces ==
  ASSUME PlacesInv, NEW t \in Threads, NEW c \in Conns, OnPostFinished(t, c)
  PROVE  CommandsAccountedFor'
<1>1. conn[c].cmd \in OnConns /\ PendingOnce /\ TypeOK
  BY Carried, Places DEF OnPostFinished, PlacesInv
<1>2. thread[t].cmd = None /\ UNCHANGED <<next, finished>>
  BY IdleCarriesNothing DEF OnPostFinished, CanRun, caller
<1>3. Pending' = Pending \ {conn[c].cmd} /\ PendingOnce'
  <2>1. CASE PostNotPermitted(t, c)
    BY <1>1, <2>1, DiscardPlaces DEF PostNotPermitted
  <2>2. CASE PostFailure(t, c) \/ PostConnectionError(t, c)
    <3>1. conn'[c].cmd = None /\ \A d \in Conns : d # c => conn'[d].cmd = conn[d].cmd
      BY <1>1, <2>2, PendingTypes, IdleCarriesNothing DEF PostFailure, PostConnectionError
    <3> QED
      BY <1>1, <2>2, <3>1, LetGo DEF PostFailure, PostConnectionError
  <2>3. CASE PostSuccess(t, c)
    BY <1>1, <2>3, BecomesReadyPlaces DEF PostSuccess, PlacesInv
  <2> QED
    BY <2>1, <2>2, <2>3 DEF OnPostFinished
<1>4. /\ thread'[t].cmd = conn[c].cmd
      /\ \A u \in Threads : u # t => thread'[u].cmd = thread[u].cmd
  BY <1>1, ContinueCarries
  DEF OnPostFinished, PostNotPermitted, PostFailure, PostConnectionError, PostSuccess
<1> QED
  BY <1>1, <1>2, <1>3, <1>4, HandlerTakes DEF PlacesInv

LEMMA OnStatFinishedPlaces ==
  ASSUME PlacesInv, NEW t \in Threads, NEW c \in Conns, OnStatFinished(t, c)
  PROVE  CommandsAccountedFor'
<1>1. conn[c].cmd \in OnConns /\ PendingOnce /\ TypeOK
  BY Carried, Places DEF OnStatFinished, PlacesInv
<1>2. thread[t].cmd = None /\ UNCHANGED <<next, finished>>
  BY IdleCarriesNothing DEF OnStatFinished, CanRun, caller
<1>3. CASE StatConnectionError(c)
  <2> DEFINE cmd == conn[c].cmd
  <2>1. conn'[c].cmd = None /\ \A d \in Conns : d # c => conn'[d].cmd = conn[d].cmd
    BY <1>1, <1>3, PendingTypes, IdleCarriesNothing DEF StatConnectionError
  <2>2. OnConns' = OnConns \ {cmd} /\ OneEach(conn', Conns)
    BY <1>1, <2>1, CarrierChanges, CarriedCommands DEF PendingOnce
  <2>3. cmd \in Commands /\ cmd \notin Queued
    BY <1>1, DoingType DEF OnStatFinished, PendingOnce
  <2>4. Elements(Append(m_queue, cmd)) = Queued \cup {cmd} /\ Distinct(Append(m_queue, cmd))
    BY <1>1, <2>3, PendingTypes, AppendElements DEF PendingOnce, Queued
  <2>5. Queued' = Queued \cup {cmd} /\ Distinct(m_queue)'
    BY <1>3, <2>4 DEF StatConnectionError, Queued, Elements, Distinct
  <2>6. Pending' = Pending /\ PendingOnce'
    BY <1>1, <2>2, <2>3, <2>5 DEF Pending, PendingOnce
  <2> QED
    BY <1>2, <1>3, <2>6, HandlersKeep DEF StatConnectionError, PlacesInv
<1>4. ASSUME NEW result, OnConnBecomesReady(c),
             Continue(t, "finish_stat", None, conn[c].cmd, result)
      PROVE  CommandsAccountedFor'
  BY <1>1, <1>2, <1>4, BecomesReadyPlaces, ContinueCarries, HandlerTakes DEF PlacesInv
<1> QED
  BY <1>3, <1>4 DEF OnStatFinished

LEMMA OnQuitWrittenPlaces ==
  ASSUME PlacesInv, NEW t \in Threads, NEW c \in Conns, OnQuitWritten(t, c)
  PROVE  CommandsAccountedFor'
<1>1. conn[c].cmd = None
  <2>1. conn[c] \in ConnStates /\ conn[c].op = "quit"
    BY PendingTypes DEF OnQuitWritten, PlacesInv
  <2> QED
    BY <2>1 DEF ConnStates, Connecting, Idle, Quitting, Closed, Dead, Doing, Commands
<1>2. \A d \in Conns : conn'[d].cmd = conn[d].cmd
  BY <1>1, PendingTypes, IdleCarriesNothing DEF OnQuitWritten, PlacesInv
<1>3. OnConns' = OnConns /\ OneEach(conn', Conns)
  BY <1>2, CarriersStay, CarriedCommands, Places DEF PlacesInv, PendingOnce
<1>4. Pending' = Pending /\ PendingOnce'
  BY <1>3, Places DEF OnQuitWritten, PlacesInv, Pending, PendingOnce, Queued, Elements, Distinct
<1> QED
  BY <1>4, HandlersKeep DEF OnQuitWritten, PlacesInv, caller

LEMMA ProceedPlaces ==
  ASSUME PlacesInv, NEW t \in Threads, Proceed(t)
  PROVE  CommandsAccountedFor'
<1>1. TypeOK /\ PendingOnce /\ UNCHANGED next
  BY Places
  DEF PlacesInv, Proceed, Requeue, Abort, BecomeReady, DispatchOrQueue, Finish, caller
<1>2. ASSUME thread[t].cmd \in Posts, StartOrQueue(thread[t].cmd),
             \/ Return(t) \/ Continue(t, "becomes_ready", thread[t].conn, None, None),
             UNCHANGED finished
      PROVE  CommandsAccountedFor'
  <2>1. thread[t].cmd \in Commands /\ thread[t].cmd # None /\ thread[t].cmd \notin Pending
    BY <1>1, <1>2, PendingTypes, Places DEF Posts, InThreads, PlacesInv
  <2>2. Pending' = Pending \cup {thread[t].cmd} /\ PendingOnce'
    BY <1>1, <1>2, <2>1, StartOrQueuePlaces DEF PlacesInv
  <2>3. thread'[t].cmd = None /\ \A u \in Threads : u # t => thread'[u].cmd = thread[u].cmd
    BY <1>1, <1>2, ContinueCarries, ReturnCarries
  <2> QED
    BY <1>1, <1>2, <2>1, <2>2, <2>3, HandlerGivesBack DEF PlacesInv
<1>3. CASE Requeue(t) \/ DispatchOrQueue(t)
  BY <1>1, <1>2, <1>3, ThreadTypes DEF Requeue, DispatchOrQueue, At
<1>4. CASE Abort(t)
  BY <1>1, <1>4, SamePlaces, HandlersKeep DEF Abort, PlacesInv
<1>5. CASE BecomeReady(t)
  <2> DEFINE c == thread[t].conn
  <2>1. c \in Conns /\ Holds(t, c)
    BY <1>1, <1>5, ThreadTypes DEF BecomeReady, At, Holds
  <2>2. conn[c].cmd = None
    BY <2>1, IdleCarriesNothing DEF PlacesInv, ConnectionsAccountedFor, HeldByOneHandler
  <2>3. thread[t].cmd = None
    <3>1. thread[t] \in ThreadStates /\ thread[t].at = "becomes_ready"
      BY <1>1, <1>5, PendingTypes DEF BecomeReady, At
    <3> QED
      BY <3>1 DEF ThreadStates, Running, Exited
  <2>4. None \notin Pending
    BY <1>1, PendingTypes DEF Pending, OnConns
  <2>5. Pending' = Pending /\ PendingOnce'
    BY <1>1, <1>5, <2>1, <2>2, <2>4, BecomesReadyPlaces DEF BecomeReady, PlacesInv
  <2>6. \A u \in Threads : thread'[u].cmd = thread[u].cmd
    BY <1>1, <1>5, <2>3, ReturnCarries DEF BecomeReady
  <2> QED
    BY <1>1, <1>5, <2>5, <2>6, HandlersKeep DEF BecomeReady, PlacesInv
<1>6. CASE Finish(t)
  <2> DEFINE cmd == thread[t].cmd
  <2>1. cmd \in Commands /\ cmd \in InThreads
    BY <1>1, <1>6, ThreadTypes, PendingTypes DEF Finish, At, Posts, Stats, InThreads
  <2>2. Pending' = Pending /\ PendingOnce'
    BY <1>1, <1>6, SamePlaces DEF Finish, pool
  <2>3. InThreads' = InThreads \ {cmd} /\ OneEach(thread', Threads)
    BY <1>1, <1>6, ReturnCarries, CarrierChanges, CarriedCommands, Places
    DEF Finish, PlacesInv
  <2>4. Issued' = Issued /\ finished' = finished \cup {cmd}
    BY <1>1, <1>6 DEF Finish, Issued
  <2> QED
    BY <2>1, <2>2, <2>3, <2>4, Places, PlacesNext DEF PlacesInv
<1> QED
  BY <1>3, <1>4, <1>5, <1>6 DEF Proceed

LEMMA MainPlaces ==
  ASSUME PlacesInv, Main
  PROVE  CommandsAccountedFor'
<1>1. TypeOK /\ PendingOnce /\ Script \in Seq(Commands)
  BY Places, PoolAssumption DEF PlacesInv
<1>2. CASE EnqueueNow \/ WakeAndPush
  <2>1. next \in 1..Len(Script) /\ next' = next + 1 /\ UNCHANGED <<thread, finished>>
    BY <1>1, <1>2 DEF EnqueueNow, WakeAndPush, MainAt, TypeOK, CallerTypeOK
  <2>2. Script[next] \in Commands
    BY <1>1, <2>1
  <2>3. Script[next] \notin Issued
    BY <2>1, PoolAssumption DEF Issued, Distinct
  <2>4. Script[next] \notin Pending
    BY <2>3, Places DEF PlacesInv
  <2>5. Pending' = Pending \cup {Script[next]} /\ PendingOnce'
    <3>1. CASE EnqueueNow
      BY <1>1, <2>2, <2>4, <3>1, StartOrQueuePlaces DEF EnqueueNow, StartOrQueue, PlacesInv
    <3>2. CASE WakeAndPush
      BY <1>1, <2>2, <2>4, <3>2, PushIsPending DEF WakeAndPush, OnConns, PendingOnce
    <3> QED
      BY <1>2, <3>1, <3>2
  <2> QED
    BY <1>1, <2>1, <2>5, CallerHandsIn DEF PlacesInv
<1>3. CASE StartWaiting \/ WaitAgain \/ StopReads \/ StopResets \/ JoinAndExit
  <2>1. UNCHANGED <<m_queue, conn, thread, next, finished>>
    BY <1>3 DEF StartWaiting, WaitAgain, StopReads, StopResets, JoinAndExit, pool, caller
  <2> QED
    BY <1>1, <2>1, SamePlaces, HandlersKeep DEF PlacesInv
<1> QED
  BY <1>2, <1>3 DEF Main

LEMMA NextPlaces ==
  ASSUME PlacesInv, [Next]_vars
  PROVE  CommandsAccountedFor'
<1>1. TypeOK /\ PendingOnce
  BY Places DEF PlacesInv
<1>2. ASSUME NEW t \in Threads, NEW c \in Conns, Complete(t, c) PROVE CommandsAccountedFor'
  BY <1>2, OnConnectedPlaces, OnPostFinishedPlaces, OnStatFinishedPlaces, OnQuitWrittenPlaces
  DEF Complete
<1>3. ASSUME NEW t \in Threads, IoExit(t) PROVE CommandsAccountedFor'
  <2>1. UNCHANGED <<m_queue, conn, next, finished>>
    BY <1>3 DEF IoExit, pool, caller
  <2>2. \A u \in Threads : thread'[u].cmd = thread[u].cmd
    BY <1>1, <1>3, PendingTypes, IdleCarriesNothing DEF IoExit
  <2> QED
    BY <1>1, <2>1, <2>2, SamePlaces, HandlersKeep DEF PlacesInv
<1>4. CASE StartOnSentinel \/ Ended \/ UNCHANGED vars
  <2>1. UNCHANGED <<m_queue, conn, thread, next, finished>>
    BY <1>4 DEF StartOnSentinel, Ended, vars, caller
  <2> QED
    BY <1>1, <2>1, SamePlaces, HandlersKeep DEF PlacesInv
<1> QED
  BY <1>2, <1>3, <1>4, MainPlaces, ProceedPlaces DEF Next

LEMMA InitPlaces == Init => CommandsAccountedFor
<1> SUFFICES ASSUME Init PROVE CommandsAccountedFor
  OBVIOUS
<1>1. Queued = {} /\ Distinct(m_queue)
  BY EmptyElements DEF Init, Queued
<1>2. OnConns = {} /\ OneEach(conn, Conns)
  BY IdleCarriesNothing DEF Init, OnConns, OneEach
<1>3. InThreads = {} /\ OneEach(thread, Threads)
  BY IdleCarriesNothing DEF Init, InThreads, OneEach
<1>4. Issued = {} /\ finished = {}
  BY DEF Init, Issued
<1> QED
  BY <1>1, <1>2, <1>3, <1>4, Places DEF Pending, PendingOnce

\* Every command the caller has handed in is in one and only one place until its
\* finish callback has run: nothing is posted twice at a time and nothing is dropped,
\* whatever fails and whenever the handlers run (all of usenet.cc).
THEOREM NothingIsLost == Spec => []CommandsAccountedFor
<1>1. TypeOK /\ ConnectionsAccountedFor /\ CommandsAccountedFor /\ [Next]_vars
        => CommandsAccountedFor'
  BY NextPlaces DEF PlacesInv
<1> QED
  BY <1>1, InitPlaces, TypeCorrect, ListsAreConsistent, PTL DEF Spec

-----------------------------------------------------------------------------
(* The exit status.                                                         *)

\* stop() is called when everything has been handed in.
AllHandedIn == main_at \in {"reset", "join"} => next = Len(Script) + 1

LEMMA NextHandsIn ==
  ASSUME TypeOK, AllHandedIn, [Next]_vars
  PROVE  AllHandedIn'
<1>1. CASE Main
  <2>1. CASE EnqueueNow \/ StartWaiting \/ WakeAndPush \/ WaitAgain
    BY <2>1 DEF EnqueueNow, StartWaiting, WakeAndPush, WaitAgain, MainAt, AllHandedIn, caller
  <2>2. CASE StopReads
    BY <2>2 DEF StopReads, AllHandedIn, TypeOK, CallerTypeOK
  <2>3. CASE StopResets \/ JoinAndExit
    BY <2>3 DEF StopResets, JoinAndExit, MainAt, AllHandedIn, caller
  <2> QED
    BY <1>1, <2>1, <2>2, <2>3 DEF Main
<1>2. CASE ~Main
  <2>1. UNCHANGED <<main_at, next>>
    BY <1>2 DEF Next, Complete, Proceed, OnConnected, OnPostFinished, OnStatFinished,
         OnQuitWritten, Requeue, Abort, BecomeReady, DispatchOrQueue, Finish, IoExit,
         StartOnSentinel, Ended, vars, caller
  <2> QED
    BY <2>1 DEF AllHandedIn
<1> QED
  BY <1>1, <1>2

ServiceInv == PlacesInv /\ StopInv /\ AllHandedIn

\* When every thread has left, what is not in the queue is finished.
LEMMA LeftIsQueued ==
  ASSUME ServiceInv, main_at = "join", \A t \in Threads : thread[t] = Exited
  PROVE  /\ Elements(Script) = Issued
         /\ Issued = Queued \cup finished /\ Queued \cap finished = {}
<1>1. stopped
  BY PoolAssumption DEF ServiceInv, StopInv, ThreadsLeaveWhenStopped
<1>2. OnConns = {}
  <2>1. \A c \in Conns : conn[c].op \notin {"post", "stat"}
    BY <1>1 DEF ServiceInv, StopInv, NothingStartedAfterStop, HasWork
  <2>2. \A c \in Conns : conn[c].cmd = None
    <3> SUFFICES ASSUME NEW c \in Conns PROVE conn[c].cmd = None
      OBVIOUS
    <3>1. conn[c] \in ConnStates /\ conn[c].op \notin {"post", "stat"}
      BY <2>1, PendingTypes DEF ServiceInv, PlacesInv
    <3> QED
      BY <3>1 DEF ConnStates, Connecting, Idle, Quitting, Closed, Dead, Doing, Commands
  <2> QED
    BY <2>2 DEF OnConns
<1>3. InThreads = {}
  BY IdleCarriesNothing DEF InThreads
<1>4. Elements(Script) = Issued
  <2>1. next = Len(Script) + 1 /\ Script \in Seq(Commands)
    BY PoolAssumption DEF ServiceInv, AllHandedIn
  <2>2. DOMAIN Script = 1..(next - 1)
    BY <2>1
  <2> QED
    BY <2>2 DEF Elements, Issued
<1> QED
  BY <1>2, <1>3, <1>4, Places DEF ServiceInv, PlacesInv, Pending

LEMMA OnlyJoinExits ==
  ASSUME Next, ~JoinAndExit, ~Ended
  PROVE  proc' \in {"running", "aborted", "crashed"}
<1>1. ASSUME NEW t \in Threads, NEW c \in Conns, Complete(t, c)
      PROVE  proc' \in {"running", "crashed"}
  BY <1>1 DEF Complete, OnConnected, OnPostFinished, OnStatFinished, OnQuitWritten, CanRun,
       OnConnBecomesReady, TakeNextCommand, JoinReady, ShutDownReady, DiscardConnection,
       PostNotPermitted, PostFailure, PostConnectionError, PostSuccess, StatConnectionError
<1>2. ASSUME NEW t \in Threads, Proceed(t) PROVE proc' \in {"running", "aborted"}
  BY <1>2 DEF Proceed, Requeue, Abort, BecomeReady, DispatchOrQueue, Finish, At, pool,
       StartOrQueue, StartOnReady, PushBack, OnConnBecomesReady, TakeNextCommand, JoinReady,
       ShutDownReady
<1>3. CASE Main
  BY <1>3 DEF Main, EnqueueNow, StartWaiting, WakeAndPush, WaitAgain, StopReads, StopResets,
       MainAt, pool, StartOnReady, PushBack
<1>4. CASE (\E t \in Threads : IoExit(t)) \/ StartOnSentinel
  BY <1>4 DEF IoExit, StartOnSentinel, pool
<1> QED
  BY <1>1, <1>2, <1>3, <1>4 DEF Next

LEMMA NextExits ==
  ASSUME ServiceInv, ExitZeroMeansFinished, [Next]_vars
  PROVE  ExitZeroMeansFinished'
<1>1. CASE JoinAndExit
  <2>1. CASE m_queue = <<>>
    <3>1. finished' = Elements(Script)
      BY <1>1, <2>1, LeftIsQueued, EmptyElements DEF JoinAndExit, MainAt, Queued
    <3> QED
      BY <3>1 DEF ExitZeroMeansFinished
  <2>2. CASE m_queue # <<>>
    BY <1>1, <2>2 DEF JoinAndExit, ExitZeroMeansFinished
  <2> QED
    BY <2>1, <2>2
<1>2. CASE Ended \/ UNCHANGED vars
  BY <1>2 DEF Ended, vars, ExitZeroMeansFinished
<1>3. CASE Next /\ ~JoinAndExit /\ ~Ended
  BY <1>3, OnlyJoinExits DEF ExitZeroMeansFinished
<1> QED
  BY <1>1, <1>2, <1>3

LEMMA ServiceInvariant == Spec => []ServiceInv
<1>1. Init => AllHandedIn
  BY DEF Init, AllHandedIn
<1>2. Init => StopInv
  BY InitStop
<1>3. TypeOK /\ AllHandedIn /\ [Next]_vars => AllHandedIn'
  BY NextHandsIn
<1>4. TypeOK /\ ConnectionsAccountedFor /\ StopInv /\ [Next]_vars => StopInv'
  BY NextStops
<1>5. TypeOK /\ ConnectionsAccountedFor /\ CommandsAccountedFor /\ StopInv /\ AllHandedIn
        => ServiceInv
  BY DEF ServiceInv, PlacesInv
<1> QED
  BY <1>1, <1>2, <1>3, <1>4, <1>5, TypeCorrect, ListsAreConsistent, NothingIsLost, PTL DEF Spec

\* Exit status 0, which is decided by the length of the queue alone, is given only
\* when the finish callback has run for every command (usenet.hpp:175-187 and
\* main.cc:329-355).
THEOREM ExitZeroIsTrue == Spec => []ExitZeroMeansFinished
<1>1. Init => ExitZeroMeansFinished
  BY DEF Init, ExitZeroMeansFinished
<1>2. ServiceInv /\ ExitZeroMeansFinished /\ [Next]_vars => ExitZeroMeansFinished'
  BY NextExits
<1> QED
  BY <1>1, <1>2, ServiceInvariant, PTL DEF Spec

-----------------------------------------------------------------------------
(* The pool implements the delivery service.                                *)

ServiceStep == Service!Next \/ UNCHANGED Service!vars

LEMMA SameService ==
  ASSUME UNCHANGED <<next, finished>>, proc' = proc \/ (proc = "running" /\ proc' \in {"aborted", "crashed"})
  PROVE  ServiceStep
<1>1. CASE proc' = proc
  BY <1>1 DEF ServiceStep, Service!vars
<1>2. CASE proc = "running" /\ proc' \in {"aborted", "crashed"}
  BY <1>2 DEF ServiceStep, Service!Next, Service!Break
<1> QED
  BY <1>1, <1>2

LEMMA NextServes ==
  ASSUME ServiceInv, [Next]_vars
  PROVE  ServiceStep
<1>1. TypeOK /\ Script \in Seq(Commands)
  BY PoolAssumption DEF ServiceInv, PlacesInv
<1>2. ASSUME NEW t \in Threads, NEW c \in Conns, Complete(t, c) PROVE ServiceStep
  <2>1. UNCHANGED <<next, finished>> /\ proc = "running" /\ proc' \in {"running", "crashed"}
    BY <1>2 DEF Complete, OnConnected, OnPostFinished, OnStatFinished, OnQuitWritten, CanRun,
         caller, OnConnBecomesReady, TakeNextCommand, JoinReady, ShutDownReady,
         DiscardConnection, PostNotPermitted, PostFailure, PostConnectionError, PostSuccess,
         StatConnectionError
  <2> QED
    BY <2>1, SameService
<1>3. ASSUME NEW t \in Threads, Finish(t) PROVE ServiceStep
  <2> DEFINE cmd == thread[t].cmd
  <2>1. cmd \in InThreads
    BY <1>1, <1>3, ThreadTypes, PendingTypes DEF Finish, At, Posts, Stats, InThreads
  <2>2. cmd \in Issued /\ cmd \notin finished
    BY <2>1, Places DEF ServiceInv, PlacesInv
  <2>3. /\ proc = "running" /\ proc' = proc /\ next' = next
        /\ finished' = finished \cup {cmd}
    BY <1>3 DEF Finish, At, pool, caller
  <2> QED
    BY <2>2, <2>3 DEF ServiceStep, Service!Next, Service!Finish, Service!Submitted, Issued
<1>4. ASSUME NEW t \in Threads, Proceed(t), ~Finish(t) PROVE ServiceStep
  <2>1. UNCHANGED <<next, finished>> /\ proc = "running" /\ proc' \in {"running", "aborted"}
    BY <1>4 DEF Proceed, Requeue, Abort, BecomeReady, DispatchOrQueue, At, caller, StartOrQueue,
         StartOnReady, PushBack, OnConnBecomesReady, TakeNextCommand, JoinReady, ShutDownReady
  <2> QED
    BY <2>1, SameService
<1>5. CASE EnqueueNow \/ WakeAndPush
  <2>1. /\ proc = "running" /\ proc' = proc /\ finished' = finished
        /\ next \in 1..Len(Script) /\ next' = next + 1
    BY <1>1, <1>5 DEF EnqueueNow, WakeAndPush, MainAt, StartOnReady, PushBack, TypeOK, CallerTypeOK
  <2>2. next - 1 < Len(Script) /\ next' - 1 = (next - 1) + 1
    BY <1>1, <2>1
  <2> QED
    BY <2>1, <2>2 DEF ServiceStep, Service!Next, Service!Submit
<1>6. CASE StartWaiting \/ WaitAgain \/ StopReads \/ StopResets
  <2>1. UNCHANGED <<next, finished>> /\ proc = "running" /\ proc' \in {"running", "crashed"}
    BY <1>6 DEF StartWaiting, WaitAgain, StopReads, StopResets, MainAt, pool, caller
  <2> QED
    BY <2>1, SameService
<1>7. CASE JoinAndExit
  <2>1. /\ Issued = Queued \cup finished /\ Queued \cap finished = {}
        /\ m_queue = <<>> <=> Queued = {}
    BY <1>1, <1>7, LeftIsQueued, PendingTypes, NonEmptyElements DEF JoinAndExit, MainAt, Queued
  <2>2. Service!Submitted = Issued
    BY DEF Service!Submitted, Issued
  <2>3. m_queue = <<>> <=> finished = Service!Submitted
    BY <2>1, <2>2
  <2>4. next - 1 = Len(Script)
    BY <1>1, <1>7 DEF JoinAndExit, MainAt, ServiceInv, AllHandedIn
  <2>5. /\ proc = "running" /\ UNCHANGED <<next, finished>>
        /\ proc' = IF m_queue = <<>> THEN "exit0" ELSE "exit1"
    BY <1>7 DEF JoinAndExit, MainAt, caller
  <2> QED
    BY <2>3, <2>4, <2>5 DEF ServiceStep, Service!Next, Service!Succeed, Service!Fail
<1>8. CASE (\E t \in Threads : IoExit(t)) \/ Ended \/ UNCHANGED vars
  BY <1>8, SameService DEF IoExit, Ended, vars, pool, caller
<1>9. CASE StartOnSentinel
  BY <1>9, SameService DEF StartOnSentinel, caller
<1> QED
  BY <1>2, <1>3, <1>4, <1>5, <1>6, <1>7, <1>8, <1>9 DEF Next, Main

\* The pool is a delivery service: it takes the commands one after the other, reports
\* each at most once, and its exit status tells the truth (usenet.hpp:3-9, 159-187).
THEOREM PoolIsDelivery == Spec => ImplementsDelivery
<1>1. Init => Service!Init
  BY DEF Init, Service!Init
<1>2. ServiceInv /\ [Next]_vars => [Service!Next]_(Service!vars)
  BY NextServes DEF ServiceStep
<1> QED
  BY <1>1, <1>2, ServiceInvariant, PTL DEF Spec, ImplementsDelivery, Service!Spec

-----------------------------------------------------------------------------
(* Exit status 1.                                                           *)

\* When every thread has left, a connection that is not gone is in m_ready.
LEMMA LeftIsReady ==
  ASSUME ServiceInv, \A t \in Threads : thread[t] = Exited, m_ready = <<>>
  PROVE  \A c \in Conns : conn[c] \in {Closed, Dead}
<1> SUFFICES ASSUME NEW c \in Conns PROVE conn[c] \in {Closed, Dead}
  OBVIOUS
<1>1. stopped
  BY PoolAssumption DEF ServiceInv, StopInv, ThreadsLeaveWhenStopped
<1>2. conn[c].op \notin {"connecting", "post", "stat", "quit"}
  BY <1>1 DEF ServiceInv, StopInv, NothingStartedAfterStop, HasWork
<1>3. \A t \in Threads : ~Holds(t, c)
  BY DEF Holds, Exited, Running
<1>4. c \notin m_busy /\ c \notin Elements(m_ready)
  BY <1>2, <1>3, EmptyElements
  DEF ServiceInv, PlacesInv, ConnectionsAccountedFor, BusyAreExpected
<1>5. conn[c] \in {Quitting, Closed, Dead}
  BY <1>4 DEF ServiceInv, PlacesInv, ConnectionsAccountedFor, OthersAreErased
<1> QED
  BY <1>2, <1>5 DEF Quitting

LEMMA NextExitsWithOne ==
  ASSUME ServiceInv, NoStrandedWork, ExitOneMeansNoConnection, [Next]_vars
  PROVE  ExitOneMeansNoConnection'
<1>1. CASE JoinAndExit
  <2>1. CASE m_queue = <<>>
    BY <1>1, <2>1 DEF JoinAndExit, ExitOneMeansNoConnection
  <2>2. CASE m_queue # <<>>
    <3>1. \A c \in Conns : conn'[c] \in {Closed, Dead}
      BY <1>1, <2>2, LeftIsReady DEF JoinAndExit, NoStrandedWork
    <3> QED
      BY <3>1 DEF ExitOneMeansNoConnection
  <2> QED
    BY <2>1, <2>2
<1>2. CASE Ended \/ UNCHANGED vars
  BY <1>2 DEF Ended, vars, ExitOneMeansNoConnection
<1>3. CASE Next /\ ~JoinAndExit /\ ~Ended
  BY <1>3, OnlyJoinExits DEF ExitOneMeansNoConnection
<1> QED
  BY <1>1, <1>2, <1>3

\* With an unbounded queue and no STAT cut off, exit status 1 means that no connection
\* was left that could have taken the rest of the queue (usenet.hpp:182-184).
THEOREM ExitOneIsTrue ==
  ASSUME MaxSize = 0, "CONNECTION_ERROR" \notin StatResults
  PROVE  Spec => []ExitOneMeansNoConnection
<1>1. Init => ExitOneMeansNoConnection
  BY DEF Init, ExitOneMeansNoConnection
<1>2. ServiceInv /\ NoStrandedWork /\ ExitOneMeansNoConnection /\ [Next]_vars
        => ExitOneMeansNoConnection'
  BY NextExitsWithOne
<1>3. Spec => []NoStrandedWork
  BY NothingIsStranded
<1> QED
  BY <1>1, <1>2, <1>3, ServiceInvariant, PTL DEF Spec
=============================================================================
