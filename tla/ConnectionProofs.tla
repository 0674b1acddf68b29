-------------------------- MODULE ConnectionProofs --------------------------
(***************************************************************************)
(* Theorems about module Connection, for any number of io threads and any  *)
(* articles and ids, with TLS or without: whatever the server, the network *)
(* and the timer do, the connection is carried on in one place.            *)
(***************************************************************************)
EXTENDS Connection, FiniteSetTheorems, TLAPS

-----------------------------------------------------------------------------
(* Queues of handlers.                                                      *)

Kinds == {"do", "io", "expired", "answer"}

NoContinuation(hs) == \A i \in DOMAIN hs : hs[i].kind = "expired"

SingleContinuation(hs) ==
  \E i \in DOMAIN hs : hs[i].kind # "expired" /\ \A j \in DOMAIN hs : j # i => hs[j].kind = "expired"

IsQueue(hs) == \E S : hs \in Seq(S)

LEMMA AppendedHandler ==
  ASSUME NEW hs, IsQueue(hs), NEW h
  PROVE  /\ IsQueue(Append(hs, h))
         /\ \A i \in DOMAIN Append(hs, h) :
              (i \in DOMAIN hs /\ Append(hs, h)[i] = hs[i]) \/ (i \notin DOMAIN hs /\ Append(hs, h)[i] = h)
         /\ \A i \in DOMAIN hs : i \in DOMAIN Append(hs, h) /\ Append(hs, h)[i] = hs[i]
         /\ \E i \in DOMAIN Append(hs, h) : i \notin DOMAIN hs /\ Append(hs, h)[i] = h
                                            /\ \A j \in DOMAIN Append(hs, h) : j = i \/ j \in DOMAIN hs
<1>1. PICK S : hs \in Seq(S)
  BY DEF IsQueue
<1>2. hs \in Seq(S \cup {h}) /\ Append(hs, h) \in Seq(S \cup {h})
  BY <1>1
<1>3. /\ Len(hs) \in Nat /\ DOMAIN hs = 1..Len(hs) /\ DOMAIN Append(hs, h) = 1..(Len(hs) + 1)
      /\ Append(hs, h)[Len(hs) + 1] = h
      /\ \A i \in 1..Len(hs) : Append(hs, h)[i] = hs[i]
  BY <1>1
<1>4. IsQueue(Append(hs, h))
  BY <1>2 DEF IsQueue
<1>5. \A n \in Nat : \A i \in 1..(n + 1) : (i \in 1..n /\ i # n + 1) \/ (i \notin 1..n /\ i = n + 1)
  OBVIOUS
<1>6. \A n \in Nat : \A i \in 1..n : i \in 1..(n + 1)
  OBVIOUS
<1>7. Len(hs) + 1 \in 1..(Len(hs) + 1) /\ Len(hs) + 1 \notin 1..Len(hs)
  BY <1>3
<1> QED
  BY <1>3, <1>4, <1>5, <1>6, <1>7

LEMMA FirstTaken ==
  ASSUME NEW hs, IsQueue(hs), hs # <<>>
  PROVE  /\ IsQueue(Tail(hs))
         /\ 1 \in DOMAIN hs /\ Head(hs) = hs[1]
         /\ \A i \in DOMAIN Tail(hs) : i + 1 \in DOMAIN hs /\ i + 1 # 1 /\ Tail(hs)[i] = hs[i + 1]
         /\ \A i \in DOMAIN hs : i # 1 => i - 1 \in DOMAIN Tail(hs) /\ Tail(hs)[i - 1] = hs[i]
         /\ \A i, j \in DOMAIN Tail(hs) : i # j => i + 1 # j + 1
<1>1. PICK S : hs \in Seq(S)
  BY DEF IsQueue
<1>2. Tail(hs) \in Seq(S)
  BY <1>1
<1>3. /\ Len(hs) \in Nat \ {0} /\ DOMAIN hs = 1..Len(hs) /\ DOMAIN Tail(hs) = 1..(Len(hs) - 1)
      /\ \A i \in 1..(Len(hs) - 1) : Tail(hs)[i] = hs[i + 1]
      /\ Head(hs) = hs[1]
  BY <1>1
<1>4. IsQueue(Tail(hs))
  BY <1>2 DEF IsQueue
<1>5. \A i \in 1..(Len(hs) - 1) : i + 1 \in 1..Len(hs) /\ i + 1 # 1
  BY <1>3
<1>6. \A i \in 1..Len(hs) : i # 1 => i - 1 \in 1..(Len(hs) - 1) /\ (i - 1) + 1 = i
  BY <1>3
<1>7. \A i, j \in 1..(Len(hs) - 1) : i # j => i + 1 # j + 1
  BY <1>3
<1>8. 1 \in 1..Len(hs)
  BY <1>3
<1> QED
  BY <1>3, <1>4, <1>5, <1>6, <1>7, <1>8

\* A handler that is queued is one continuation more, unless it is that of the timer.
LEMMA QueueContinuation ==
  ASSUME NEW hs, IsQueue(hs), NoContinuation(hs), NEW h, h.kind # "expired"
  PROVE  SingleContinuation(Append(hs, h))
<1>1. PICK i \in DOMAIN Append(hs, h) : Append(hs, h)[i] = h /\ \A j \in DOMAIN Append(hs, h) : j = i \/ j \in DOMAIN hs
  BY AppendedHandler
<1>2. \A j \in DOMAIN Append(hs, h) : j # i => Append(hs, h)[j].kind = "expired"
  BY <1>1, AppendedHandler DEF NoContinuation
<1> QED
  BY <1>1, <1>2 DEF SingleContinuation

LEMMA QueueExpiry ==
  ASSUME NEW hs, IsQueue(hs), NEW h, h.kind = "expired"
  PROVE  /\ NoContinuation(hs) => NoContinuation(Append(hs, h))
         /\ SingleContinuation(hs) => SingleContinuation(Append(hs, h))
<1>1. NoContinuation(hs) => NoContinuation(Append(hs, h))
  BY AppendedHandler DEF NoContinuation
<1>2. ASSUME SingleContinuation(hs) PROVE SingleContinuation(Append(hs, h))
  <2>1. PICK i \in DOMAIN hs : hs[i].kind # "expired" /\ \A j \in DOMAIN hs : j # i => hs[j].kind = "expired"
    BY <1>2 DEF SingleContinuation
  <2>2. i \in DOMAIN Append(hs, h) /\ Append(hs, h)[i].kind # "expired"
    BY <2>1, AppendedHandler
  <2>3. \A j \in DOMAIN Append(hs, h) : j # i => Append(hs, h)[j].kind = "expired"
    BY <2>1, AppendedHandler
  <2> QED
    BY <2>2, <2>3 DEF SingleContinuation
<1> QED
  BY <1>1, <1>2

LEMMA TakeHandler ==
  ASSUME NEW hs, IsQueue(hs), hs # <<>>
  PROVE  /\ NoContinuation(hs) => NoContinuation(Tail(hs)) /\ Head(hs).kind = "expired"
         /\ SingleContinuation(hs) /\ Head(hs).kind # "expired" => NoContinuation(Tail(hs))
         /\ SingleContinuation(hs) /\ Head(hs).kind = "expired" => SingleContinuation(Tail(hs))
<1>1. NoContinuation(hs) => NoContinuation(Tail(hs)) /\ Head(hs).kind = "expired"
  BY FirstTaken DEF NoContinuation
<1>2. SingleContinuation(hs) /\ Head(hs).kind # "expired" => NoContinuation(Tail(hs))
  BY FirstTaken DEF NoContinuation, SingleContinuation
<1>3. ASSUME SingleContinuation(hs), Head(hs).kind = "expired" PROVE SingleContinuation(Tail(hs))
  <2>1. PICK i \in DOMAIN hs : hs[i].kind # "expired" /\ \A j \in DOMAIN hs : j # i => hs[j].kind = "expired"
    BY <1>3 DEF SingleContinuation
  <2>2. i # 1
    BY <1>3, <2>1, FirstTaken
  <2>3. i - 1 \in DOMAIN Tail(hs) /\ Tail(hs)[i - 1].kind # "expired"
    BY <2>1, <2>2, FirstTaken
  <2>4. ASSUME NEW j \in DOMAIN Tail(hs), j # i - 1 PROVE Tail(hs)[j].kind = "expired"
    <3>1. j + 1 \in DOMAIN hs /\ Tail(hs)[j] = hs[j + 1]
      BY FirstTaken
    <3>2. i \in Int /\ j \in Int
      <4>1. PICK S : hs \in Seq(S)
        BY DEF IsQueue
      <4>2. DOMAIN hs \subseteq Int /\ DOMAIN Tail(hs) \subseteq Int
        BY <4>1
      <4> QED
        BY <4>2
    <3>3. j + 1 # i
      BY <2>4, <3>2
    <3> QED
      BY <2>1, <3>1, <3>3
  <2> QED
    BY <2>3, <2>4 DEF SingleContinuation
<1> QED
  BY <1>1, <1>2, <1>3

-----------------------------------------------------------------------------
(* The chain of callbacks.                                                  *)

Ops == ConnectOps \cup PostOps \cup StatOps

UseOf(o) ==
  CASE o \in ConnectOps -> "connecting"
    [] o \in PostOps    -> "post"
    [] o \in StatOps    -> "stat"

WaitingUses == {"connecting", "post", "stat"}

\* A handler that is queued goes on with what the connection is used for, or answers it;
\* after an answer that keeps the connection, it is usable.
Fits(h, u, s) ==
  /\ h.kind = "do" => h.what = (IF u = "connecting" THEN "connect" ELSE u)
  /\ h.kind = "io" => h.what \in Ops /\ u = UseOf(h.what)
  /\ h.kind = "answer" =>
       /\ h.what = u
       /\ h.result \in Results(u)
       /\ u # "connecting" \/ h.result = "CONNECT_SUCCESS" => s = "CONNECTED_AND_AUTHENTICATED"

\* What use, m_state, op and handlers have to do with each other.
Chain(u, s, o, hs) ==
  /\ IsQueue(hs)
  /\ u = "gone" => o = None /\ \A i \in DOMAIN hs : hs[i].kind \in {"expired", "io"}
  /\ u = "idle" => o = None /\ NoContinuation(hs) /\ s = "CONNECTED_AND_AUTHENTICATED"
  /\ u \in WaitingUses =>
       \/ o \in Ops /\ u = UseOf(o) /\ NoContinuation(hs)
       \/ o = None /\ SingleContinuation(hs) /\ \A i \in DOMAIN hs : Fits(hs[i], u, s)

LEMMA NoneIsNoOp == None \notin Ops
  BY OpsAssumption DEF Ops

LEMMA ChainGoesOn ==
  ASSUME NEW hs, IsQueue(hs), NoContinuation(hs), NEW o \in Ops, NEW s
  PROVE  Chain(UseOf(o), s, o, hs)
<1>1. UseOf(o) \in WaitingUses
  BY DEF UseOf, Ops, ConnectOps, PostOps, StatOps, WaitingUses
<1>2. UseOf(o) # "gone" /\ UseOf(o) # "idle"
  BY <1>1 DEF WaitingUses
<1> QED
  BY <1>2 DEF Chain

LEMMA ChainQueues ==
  ASSUME NEW hs, IsQueue(hs), NoContinuation(hs), NEW u \in WaitingUses, NEW s,
         NEW h, h.kind # "expired", Fits(h, u, s)
  PROVE  Chain(u, s, None, Append(hs, h))
<1>1. IsQueue(Append(hs, h)) /\ SingleContinuation(Append(hs, h))
  BY AppendedHandler, QueueContinuation
<1>2. ASSUME NEW i \in DOMAIN Append(hs, h) PROVE Fits(Append(hs, h)[i], u, s)
  <2>1. CASE Append(hs, h)[i] = h
    BY <2>1
  <2>2. CASE Append(hs, h)[i].kind = "expired"
    BY <2>2 DEF Fits
  <2>3. Append(hs, h)[i] = h \/ Append(hs, h)[i].kind = "expired"
    BY AppendedHandler DEF NoContinuation
  <2> QED
    BY <2>1, <2>2, <2>3
<1>3. u # "gone" /\ u # "idle"
  BY DEF WaitingUses
<1> QED
  BY <1>1, <1>2, <1>3 DEF Chain

LEMMA ChainExpires ==
  ASSUME NEW u, NEW s, NEW o, NEW hs, Chain(u, s, o, hs), NEW h, h.kind = "expired"
  PROVE  Chain(u, s, o, Append(hs, h))
<1>1. IsQueue(hs)
  BY DEF Chain
<1>2. IsQueue(Append(hs, h)) /\ \A i \in DOMAIN Append(hs, h) :
        (i \in DOMAIN hs /\ Append(hs, h)[i] = hs[i]) \/ Append(hs, h)[i] = h
  BY <1>1, AppendedHandler
<1>3. /\ NoContinuation(hs) => NoContinuation(Append(hs, h))
      /\ SingleContinuation(hs) => SingleContinuation(Append(hs, h))
  BY <1>1, QueueExpiry
<1>4. Fits(h, u, s)
  BY DEF Fits
<1>5. (\A i \in DOMAIN hs : Fits(hs[i], u, s)) => \A i \in DOMAIN Append(hs, h) : Fits(Append(hs, h)[i], u, s)
  BY <1>2, <1>4
<1>6. (\A i \in DOMAIN hs : hs[i].kind \in {"expired", "io"}) =>
        \A i \in DOMAIN Append(hs, h) : Append(hs, h)[i].kind \in {"expired", "io"}
  BY <1>2
<1> QED
  BY <1>2, <1>3, <1>5, <1>6 DEF Chain

LEMMA ChainTakesExpiry ==
  ASSUME NEW u, NEW s, NEW o, NEW hs, Chain(u, s, o, hs), hs # <<>>, Head(hs).kind = "expired" \/ u = "gone"
  PROVE  Chain(u, s, o, Tail(hs))
<1>1. IsQueue(hs)
  BY DEF Chain
<1>2. IsQueue(Tail(hs)) /\ \A i \in DOMAIN Tail(hs) : i + 1 \in DOMAIN hs /\ Tail(hs)[i] = hs[i + 1]
  BY <1>1, FirstTaken
<1>3. /\ NoContinuation(hs) => NoContinuation(Tail(hs))
      /\ u # "gone" /\ SingleContinuation(hs) => SingleContinuation(Tail(hs))
  BY <1>1, TakeHandler
<1>4. (\A i \in DOMAIN hs : Fits(hs[i], u, s)) => \A i \in DOMAIN Tail(hs) : Fits(Tail(hs)[i], u, s)
  BY <1>2
<1>5. (\A i \in DOMAIN hs : hs[i].kind \in {"expired", "io"}) =>
        \A i \in DOMAIN Tail(hs) : Tail(hs)[i].kind \in {"expired", "io"}
  BY <1>2
<1>6. u \in WaitingUses => u # "gone"
  BY DEF WaitingUses
<1> QED
  BY <1>2, <1>3, <1>4, <1>5, <1>6 DEF Chain

\* The handler that runs is the only continuation.
LEMMA ChainRuns ==
  ASSUME NEW u, NEW s, NEW o, NEW hs, Chain(u, s, o, hs), hs # <<>>, Head(hs).kind # "expired",
         u \in WaitingUses \cup {"idle"}
  PROVE  /\ u \in WaitingUses /\ o = None
         /\ IsQueue(Tail(hs)) /\ NoContinuation(Tail(hs)) /\ Fits(Head(hs), u, s)
<1>1. IsQueue(hs)
  BY DEF Chain
<1>2. ~NoContinuation(hs)
  BY <1>1, TakeHandler
<1>3. u \in WaitingUses /\ o = None /\ SingleContinuation(hs) /\ \A i \in DOMAIN hs : Fits(hs[i], u, s)
  BY <1>2 DEF Chain
<1> QED
  BY <1>1, <1>3, FirstTaken, TakeHandler

LEMMA ChainCancels ==
  ASSUME NEW u \in WaitingUses \cup {"idle", "gone"}, NEW s, NEW o \in Ops, NEW hs, Chain(u, s, o, hs)
  PROVE  u \in WaitingUses /\ u = UseOf(o) /\ NoContinuation(hs) /\ IsQueue(hs)
  BY NoneIsNoOp DEF Chain, WaitingUses

-----------------------------------------------------------------------------
(* Each step keeps the chain.                                               *)

ChainInv == Chain(use, m_state, op, handlers)

BasicInv ==
  /\ m_state \in {"DISCONNECTED", "CONNECTING", "CONNECTED_AND_AUTHENTICATED", "BUSY"}
  /\ {m_article, m_msgid, asked, received, stored} \subseteq Items \cup {None}
  /\ sock \in {"closed", "open"}
  /\ peer \in {"none", "up", "fin", "rst"}
  /\ sock = "closed" => peer = "none"
  /\ owed \in Reads \cup {None}
  /\ op \in Ops \cup {None}
  /\ op = "connect" => sock = "open"
  /\ timer \in BOOLEAN
  /\ use \in WaitingUses \cup {"idle", "gone"}
  /\ thread \in [Threads -> {"post", "stat", None}]

ConnInv == BasicInv /\ ChainInv

\* What a thread finds when it runs a handler that is not the timer's.
LEMMA ContinuationRuns ==
  ASSUME ConnInv, NEW t, NEW kind \in {"do", "io", "answer"}, NEW W, NEW R, Runs(t, kind, W, R)
  PROVE  /\ use \in WaitingUses /\ op = None
         /\ IsQueue(Tail(handlers)) /\ NoContinuation(Tail(handlers))
         /\ Fits(Running, use, m_state)
         /\ Running.kind = kind /\ Running.what \in W /\ Running.result \in R
<1>1. handlers # <<>> /\ Running.kind = kind /\ Running.what \in W /\ Running.result \in R /\ use # "gone"
  BY DEF Runs, Running
<1>2. Head(handlers).kind # "expired" /\ use \in WaitingUses \cup {"idle"}
  BY <1>1 DEF Running, ConnInv, BasicInv
<1> QED
  BY <1>1, <1>2, ChainRuns DEF ConnInv, ChainInv, Running

\* A pending operation gets its result.
LEMMA CompletesStep ==
  ASSUME ConnInv, NEW result, op # None, Completes(result)
  PROVE  ChainInv' /\ op' = None
<1>1. op \in Ops /\ use \in WaitingUses \cup {"idle", "gone"}
  BY DEF ConnInv, BasicInv
<1>2. use \in WaitingUses /\ use = UseOf(op) /\ NoContinuation(handlers) /\ IsQueue(handlers)
  BY <1>1, ChainCancels DEF ConnInv, ChainInv
<1> DEFINE h == Io(op, result)
<1>3. h.kind = "io" /\ h.what = op
  BY DEF Io, Handler
<1>4. Fits(h, use, m_state)
  BY <1>1, <1>2, <1>3 DEF Fits
<1>5. handlers' = Append(handlers, h) /\ op' = None /\ use' = use /\ m_state' = m_state
  BY DEF Completes, owner
<1> HIDE DEF h
<1>6. Chain(use, m_state, None, Append(handlers, h))
  BY <1>2, <1>3, <1>4, ChainQueues
<1> QED
  BY <1>5, <1>6 DEF ChainInv

\* The operation after it is begun.
LEMMA BeginStep ==
  ASSUME ConnInv, NEW o \in Ops, use = UseOf(o), NoContinuation(Tail(handlers)), IsQueue(Tail(handlers)),
         op' = o, handlers' = Tail(handlers), use' = use
  PROVE  ChainInv'
<1>1. Chain(UseOf(o), m_state', o, Tail(handlers))
  BY ChainGoesOn
<1> QED
  BY <1>1 DEF ChainInv

\* The pool is answered.
LEMMA AnswerStep ==
  ASSUME ConnInv, NEW t, NEW o \in Ops, use = UseOf(o), NEW result \in Results(use),
         NoContinuation(Tail(handlers)), IsQueue(Tail(handlers)), Answer(t, o, result), use' = use
  PROVE  ChainInv' /\ op' = None
           /\ m_state' \in {m_state, "CONNECTED_AND_AUTHENTICATED"}
           /\ (thread \in [Threads -> {"post", "stat", None}] => thread' \in [Threads -> {"post", "stat", None}])
<1>1. \E item : /\ handlers' = Append(Tail(handlers), Handler("answer", use, result, item))
                /\ op' = None
                /\ m_state' \in {m_state, "CONNECTED_AND_AUTHENTICATED"}
                /\ use # "connecting" \/ result = "CONNECT_SUCCESS" => m_state' = "CONNECTED_AND_AUTHENTICATED"
  <2>1. CASE o \in ConnectOps
    <3>1. use = "connecting"
      BY <2>1 DEF UseOf, ConnectOps, PostOps, StatOps
    <3>2. AnswerConnect(t, o, result)
      BY <2>1 DEF Answer, ConnectOps, PostOps, StatOps
    <3> QED
      BY <3>1, <3>2 DEF AnswerConnect
  <2>2. CASE o \in PostOps
    <3>1. use = "post"
      BY <2>2 DEF UseOf, ConnectOps, PostOps, StatOps
    <3>2. AnswerCommand(t, "post", m_article, result)
      BY <2>2 DEF Answer, ConnectOps, PostOps, StatOps
    <3> QED
      BY <3>1, <3>2 DEF AnswerCommand
  <2>3. CASE o \in StatOps
    <3>1. use = "stat"
      BY <2>3 DEF UseOf, ConnectOps, PostOps, StatOps
    <3>2. AnswerCommand(t, "stat", m_msgid, result)
      BY <2>3 DEF Answer, ConnectOps, PostOps, StatOps
    <3> QED
      BY <3>1, <3>2 DEF AnswerCommand
  <2> QED
    BY <2>1, <2>2, <2>3 DEF Ops
<1>2. PICK item : /\ handlers' = Append(Tail(handlers), Handler("answer", use, result, item))
                  /\ op' = None
                  /\ m_state' \in {m_state, "CONNECTED_AND_AUTHENTICATED"}
                  /\ use # "connecting" \/ result = "CONNECT_SUCCESS" => m_state' = "CONNECTED_AND_AUTHENTICATED"
  BY <1>1
<1> DEFINE h == Handler("answer", use, result, item)
<1>3. h.kind = "answer" /\ h.what = use /\ h.result = result
  BY DEF Handler
<1>4. Fits(h, use, m_state')
  BY <1>2, <1>3 DEF Fits
<1>5. use \in WaitingUses
  BY DEF UseOf, Ops, ConnectOps, PostOps, StatOps, WaitingUses
<1>6. handlers' = Append(Tail(handlers), h)
  BY <1>2
<1> HIDE DEF h
<1>7. Chain(use, m_state', None, Append(Tail(handlers), h))
  BY <1>3, <1>4, <1>5, ChainQueues
<1>8. thread \in [Threads -> {"post", "stat", None}] => thread' \in [Threads -> {"post", "stat", None}]
  BY DEF Answer, AnswerConnect, AnswerCommand
<1> QED
  BY <1>2, <1>6, <1>7, <1>8 DEF ChainInv

LEMMA FailuresAreResults == \A o \in Ops : FailureOf(o) \in Results(UseOf(o))
  BY DEF Ops, ConnectOps, PostOps, StatOps, FailureOf, Results, UseOf

LEMMA FollowingFits ==
  ASSUME NEW o \in {"resolve", "connect", "handshake"} \cup Writes
  PROVE  Following(o) \in Ops /\ UseOf(Following(o)) = UseOf(o)
<1>1. Following(o) \in Ops
  BY DEF Following, AnswerTo, Writes, Ops, ConnectOps, PostOps, StatOps
<1>2. UseOf(Following(o)) = UseOf(o)
  BY DEF Following, AnswerTo, Writes, Ops, ConnectOps, PostOps, StatOps, UseOf
<1> QED
  BY <1>1, <1>2

LEMMA ReactionFits ==
  ASSUME NEW read \in Reads, NEW code
  PROVE  /\ read \in Ops
         /\ Reaction(read, code) \in Writes =>
              Reaction(read, code) \in Ops /\ UseOf(Reaction(read, code)) = UseOf(read)
         /\ Reaction(read, code) \notin Writes => Reaction(read, code) \in Results(UseOf(read))
<1>1. read \in Ops
  BY DEF Reads, Ops, ConnectOps, PostOps, StatOps
<1>2. CASE read \in {"greeting", "user_answer", "pass_answer"}
  BY <1>1, <1>2 DEF Reaction, Writes, Ops, ConnectOps, PostOps, StatOps, UseOf, Results
<1>3. CASE read \in {"post_answer", "article_answer"}
  BY <1>1, <1>3 DEF Reaction, Writes, Ops, ConnectOps, PostOps, StatOps, UseOf, Results
<1>4. CASE read = "stat_answer"
  BY <1>1, <1>4 DEF Reaction, Writes, Ops, ConnectOps, PostOps, StatOps, UseOf, Results
<1> QED
  BY <1>2, <1>3, <1>4 DEF Reads

LEMMA ChainInitially == Init => ChainInv
<1> SUFFICES ASSUME Init PROVE ChainInv
  OBVIOUS
<1> DEFINE h == Do("connect")
<1>1. h.kind = "do" /\ h.what = "connect"
  BY DEF Do, Handler
<1>2. handlers = <<h>> /\ use = "connecting" /\ op = None
  BY DEF Init
<1> HIDE DEF h
<1>3. IsQueue(<<>>) /\ NoContinuation(<<>>)
  <2>1. <<>> \in Seq({})
    OBVIOUS
  <2> QED
    BY <2>1 DEF IsQueue, NoContinuation
<1>4. Fits(h, use, m_state)
  BY <1>1, <1>2 DEF Fits
<1>5. handlers = Append(<<>>, h)
  BY <1>2
<1>6. Chain(use, m_state, None, Append(<<>>, h))
  BY <1>1, <1>2, <1>3, <1>4, ChainQueues DEF WaitingUses
<1> QED
  BY <1>2, <1>5, <1>6 DEF ChainInv

LEMMA ReactorKeepsChain == ASSUME ConnInv, Reactor PROVE ChainInv'
<1>1. CASE ResolveEnds
  <2>1. op # None
    BY <1>1, NoneIsNoOp DEF ResolveEnds, Ops, ConnectOps
  <2> QED
    BY <1>1, <2>1, CompletesStep DEF ResolveEnds
<1>2. CASE ConnectEnds
  <2>1. op # None
    BY <1>2, NoneIsNoOp DEF ConnectEnds, Ops, ConnectOps
  <2> QED
    BY <1>2, <2>1, CompletesStep DEF ConnectEnds
<1>3. CASE HandshakeEnds
  <2>1. op # None
    BY <1>3, NoneIsNoOp DEF HandshakeEnds, Ops, ConnectOps
  <2> QED
    BY <1>3, <2>1, CompletesStep DEF HandshakeEnds
<1>4. CASE WriteEnds
  <2>1. op # None
    BY <1>4, NoneIsNoOp DEF WriteEnds, Writes, Ops, ConnectOps, PostOps, StatOps
  <2> QED
    BY <1>4, <2>1, CompletesStep DEF WriteEnds
<1>5. CASE ReadEnds
  <2>1. op # None
    BY <1>5, NoneIsNoOp DEF ReadEnds, Reads, Ops, ConnectOps, PostOps, StatOps
  <2> QED
    BY <1>5, <2>1, CompletesStep DEF ReadEnds
<1> QED
  BY <1>1, <1>2, <1>3, <1>4, <1>5 DEF Reactor

LEMMA OperationsKeepChain ==
  ASSUME ConnInv, NEW t, RunDo(t) \/ IoGoesOn(t) \/ StepSucceeds(t)
  PROVE  ChainInv'
<1>1. CASE RunDo(t)
  <2>1. CASE Runs(t, "do", {"connect"}, {None}) /\ op' = "resolve" /\ handlers' = Tail(handlers)
    <3>1. /\ use \in WaitingUses /\ IsQueue(Tail(handlers)) /\ NoContinuation(Tail(handlers))
          /\ Fits(Running, use, m_state) /\ Running.kind = "do" /\ Running.what = "connect"
      BY <2>1, ContinuationRuns
    <3>2. use = "connecting"
      BY <3>1 DEF Fits, WaitingUses
    <3>3. "resolve" \in Ops /\ use = UseOf("resolve")
      BY <3>2 DEF Ops, ConnectOps, PostOps, StatOps, UseOf
    <3> QED
      BY <1>1, <2>1, <3>1, <3>3, BeginStep DEF RunDo, owner
  <2>2. CASE Runs(t, "do", {"post", "stat"}, {None}) /\ Begin(Running.what)
    <3>1. /\ use \in WaitingUses /\ IsQueue(Tail(handlers)) /\ NoContinuation(Tail(handlers))
          /\ Fits(Running, use, m_state) /\ Running.kind = "do" /\ Running.what \in {"post", "stat"}
      BY <2>2, ContinuationRuns
    <3>2. use = Running.what
      BY <3>1 DEF Fits, WaitingUses
    <3>3. Running.what \in Ops /\ use = UseOf(Running.what)
      BY <3>1, <3>2 DEF Ops, ConnectOps, PostOps, StatOps, UseOf
    <3> QED
      BY <1>1, <2>2, <3>1, <3>3, BeginStep DEF RunDo, Begin, owner
  <2> QED
    BY <1>1, <2>1, <2>2 DEF RunDo
<1>2. CASE IoGoesOn(t)
  <2>1. /\ IsQueue(Tail(handlers)) /\ NoContinuation(Tail(handlers))
        /\ Fits(Running, use, m_state) /\ Running.kind = "io"
    BY <1>2, ContinuationRuns DEF IoGoesOn
  <2>2. Running.what \in Ops /\ use = UseOf(Running.what)
    BY <2>1 DEF Fits
  <2> QED
    BY <1>2, <2>1, <2>2, BeginStep DEF IoGoesOn, owner
<1>3. CASE StepSucceeds(t)
  <2>1. /\ IsQueue(Tail(handlers)) /\ NoContinuation(Tail(handlers))
        /\ Fits(Running, use, m_state) /\ Running.kind = "io"
        /\ Running.what \in {"resolve", "connect", "handshake"} \cup Writes
    BY <1>3, ContinuationRuns DEF StepSucceeds
  <2>2. Following(Running.what) \in Ops /\ use = UseOf(Following(Running.what))
    BY <2>1, FollowingFits DEF Fits
  <2> QED
    BY <1>3, <2>1, <2>2, BeginStep DEF StepSucceeds, Begin, owner
<1> QED
  BY <1>1, <1>2, <1>3

LEMMA AnswersKeepChain ==
  ASSUME ConnInv, NEW t, IoFails(t) \/ LineIsRead(t)
  PROVE  ChainInv'
<1>1. CASE IoFails(t)
  <2>1. /\ IsQueue(Tail(handlers)) /\ NoContinuation(Tail(handlers))
        /\ Fits(Running, use, m_state) /\ Running.kind = "io"
    BY <1>1, ContinuationRuns DEF IoFails
  <2>2. Running.what \in Ops /\ use = UseOf(Running.what)
    BY <2>1 DEF Fits
  <2>3. FailureOf(Running.what) \in Results(use)
    BY <2>2, FailuresAreResults
  <2>4. Answer(t, Running.what, FailureOf(Running.what)) /\ use' = use
    BY <1>1 DEF IoFails, owner
  <2> QED
    BY <2>1, <2>2, <2>3, <2>4, AnswerStep
<1>2. CASE LineIsRead(t)
  <2>1. /\ IsQueue(Tail(handlers)) /\ NoContinuation(Tail(handlers))
        /\ Fits(Running, use, m_state) /\ Running.kind = "io" /\ Running.what \in Reads
    BY <1>2, ContinuationRuns DEF LineIsRead
  <2>2. Running.what \in Ops /\ use = UseOf(Running.what) /\ use' = use
    BY <1>2, <2>1 DEF Fits, LineIsRead, owner
  <2> DEFINE next == Reaction(Running.what, m_readbuf.code)
  <2>3. (next \in Writes /\ Begin(next)) \/ (next \notin Writes /\ Answer(t, Running.what, next))
    BY <1>2 DEF LineIsRead
  <2>4. /\ next \in Writes => next \in Ops /\ UseOf(next) = use
        /\ next \notin Writes => next \in Results(use)
    BY <2>1, <2>2, ReactionFits
  <2> HIDE DEF next
  <2>5. CASE next \in Writes
    BY <2>1, <2>2, <2>3, <2>4, <2>5, BeginStep DEF Begin
  <2>6. CASE next \notin Writes
    BY <2>1, <2>2, <2>3, <2>4, <2>6, AnswerStep
  <2> QED
    BY <2>5, <2>6
<1> QED
  BY <1>1, <1>2

LEMMA TimerKeepsChain ==
  ASSUME ConnInv, NEW t, TimerExpires \/ RunExpired(t) \/ RunOnDestroyed(t)
  PROVE  ChainInv'
<1>1. CASE TimerExpires
  <2>1. Expired.kind = "expired"
    BY DEF Expired, Handler
  <2>2. handlers' = Append(handlers, Expired) /\ use' = use /\ m_state' = m_state /\ op' = op
    BY <1>1 DEF TimerExpires, owner, object
  <2>3. Chain(use, m_state, op, Append(handlers, Expired))
    BY <2>1, ChainExpires DEF ConnInv, ChainInv
  <2> QED
    BY <2>2, <2>3 DEF ChainInv
<1>2. CASE RunExpired(t)
  <2>1. handlers # <<>> /\ Head(handlers).kind = "expired" /\ use' = use /\ m_state' = m_state
    BY <1>2 DEF RunExpired, Runs, owner, object
  <2>2. Chain(use, m_state, op, Tail(handlers))
    BY <2>1, ChainTakesExpiry DEF ConnInv, ChainInv
  <2>3. CASE op \notin {None, "resolve"}
    <3> DEFINE h == Io(op, "error")
    <3>1. handlers' = Append(Tail(handlers), h) /\ op' = None
      BY <1>2, <2>3 DEF RunExpired
    <3>2. op \in Ops /\ use \in WaitingUses \cup {"idle", "gone"}
      BY <2>3 DEF ConnInv, BasicInv
    <3>3. use \in WaitingUses /\ use = UseOf(op) /\ NoContinuation(Tail(handlers)) /\ IsQueue(Tail(handlers))
      BY <2>2, <3>2, ChainCancels
    <3>4. h.kind = "io" /\ h.what = op
      BY DEF Io, Handler
    <3> HIDE DEF h
    <3>5. Fits(h, use, m_state)
      BY <3>2, <3>3, <3>4 DEF Fits
    <3>6. Chain(use, m_state, None, Append(Tail(handlers), h))
      BY <3>3, <3>4, <3>5, ChainQueues
    <3> QED
      BY <2>1, <3>1, <3>6 DEF ChainInv
  <2>4. CASE op \in {None, "resolve"}
    BY <1>2, <2>1, <2>2, <2>4 DEF RunExpired, ChainInv
  <2> QED
    BY <2>3, <2>4
<1>3. CASE RunOnDestroyed(t)
  <2>1. /\ use = "gone" /\ handlers # <<>> /\ handlers' = Tail(handlers)
        /\ use' = use /\ m_state' = m_state /\ op' = op
    BY <1>3 DEF RunOnDestroyed, owner, object
  <2>2. Chain(use, m_state, op, Tail(handlers))
    BY <2>1, ChainTakesExpiry DEF ConnInv, ChainInv
  <2> QED
    BY <2>1, <2>2 DEF ChainInv
<1> QED
  BY <1>1, <1>2, <1>3

LEMMA PoolKeepsChain ==
  ASSUME ConnInv, NEW t, BecomesReady(t) \/ IsDiscarded(t) \/ Reconnects(t) \/ StartCommand \/ Quit
  PROVE  ChainInv'
<1>1. CASE BecomesReady(t)
  <2>1. /\ use \in WaitingUses /\ op = None /\ IsQueue(Tail(handlers)) /\ NoContinuation(Tail(handlers))
        /\ Fits(Running, use, m_state) /\ Running.kind = "answer"
        /\ Running.result \in {"CONNECT_SUCCESS", "POST_SUCCESS", "POST_FAILURE", "ARTICLE_EXISTS", "INVALID_ARTICLE"}
    BY <1>1, ContinuationRuns DEF BecomesReady
  <2>2. use = "connecting" => Running.result = "CONNECT_SUCCESS"
    BY <2>1 DEF Fits, Results
  <2>3. m_state = "CONNECTED_AND_AUTHENTICATED"
    BY <2>1, <2>2 DEF Fits
  <2>4. handlers' = Tail(handlers) /\ use' = "idle" /\ op' = op /\ m_state' = m_state
    BY <1>1 DEF BecomesReady, object
  <2>5. Chain("idle", m_state, None, Tail(handlers))
    BY <2>1, <2>3 DEF Chain, WaitingUses
  <2> QED
    BY <2>1, <2>4, <2>5 DEF ChainInv
<1>2. CASE IsDiscarded(t)
  <2>1. op = None /\ IsQueue(Tail(handlers)) /\ NoContinuation(Tail(handlers))
    BY <1>2, ContinuationRuns DEF IsDiscarded
  <2>2. handlers' = Tail(handlers) /\ use' = "gone" /\ op' = op
    BY <1>2 DEF IsDiscarded, Destroy
  <2>3. Chain("gone", m_state', None, Tail(handlers))
    BY <2>1 DEF Chain, WaitingUses, NoContinuation
  <2> QED
    BY <2>1, <2>2, <2>3 DEF ChainInv
<1>3. CASE Reconnects(t)
  <2>1. op = None /\ IsQueue(Tail(handlers)) /\ NoContinuation(Tail(handlers))
    BY <1>3, ContinuationRuns DEF Reconnects
  <2>2. handlers' = Append(Tail(handlers), Do("connect")) /\ use' = "connecting" /\ op' = op
    BY <1>3 DEF Reconnects
  <2>3. Do("connect").kind = "do" /\ Do("connect").what = "connect"
    BY DEF Do, Handler
  <2>4. Fits(Do("connect"), "connecting", m_state')
    BY <2>3 DEF Fits
  <2>5. Chain("connecting", m_state', None, Append(Tail(handlers), Do("connect")))
    BY <2>1, <2>3, <2>4, ChainQueues DEF WaitingUses
  <2> QED
    BY <2>1, <2>2, <2>5 DEF ChainInv
<1>4. CASE StartCommand
  <2>1. use = "idle"
    BY <1>4 DEF StartCommand
  <2>2. op = None /\ NoContinuation(handlers) /\ IsQueue(handlers) /\ m_state = "CONNECTED_AND_AUTHENTICATED"
    BY <2>1 DEF ConnInv, ChainInv, Chain
  <2>3. PICK what \in {"post", "stat"} : use' = what /\ handlers' = Append(handlers, Do(what))
    BY <1>4, <2>2 DEF StartCommand
  <2>4. Do(what).kind = "do" /\ Do(what).what = what
    BY DEF Do, Handler
  <2>5. Fits(Do(what), what, m_state')
    BY <2>4 DEF Fits
  <2>6. Chain(what, m_state', None, Append(handlers, Do(what)))
    BY <2>2, <2>4, <2>5, ChainQueues DEF WaitingUses
  <2> QED
    BY <1>4, <2>2, <2>3, <2>6 DEF ChainInv, StartCommand
<1>5. CASE Quit
  <2>1. op = None /\ NoContinuation(handlers) /\ IsQueue(handlers)
    BY <1>5 DEF Quit, ConnInv, ChainInv, Chain
  <2> DEFINE h == Io("quit", "error")
  <2>2. handlers' = Append(handlers, h) /\ use' = "gone" /\ op' = op
    BY <1>5 DEF Quit, Destroy
  <2>3. h.kind = "io"
    BY DEF Io, Handler
  <2> HIDE DEF h
  <2>4. IsQueue(Append(handlers, h)) /\ \A i \in DOMAIN Append(handlers, h) :
          Append(handlers, h)[i].kind \in {"expired", "io"}
    BY <2>1, <2>3, AppendedHandler DEF NoContinuation
  <2>5. Chain("gone", m_state', None, Append(handlers, h))
    BY <2>4 DEF Chain, WaitingUses
  <2> QED
    BY <2>1, <2>2, <2>5 DEF ChainInv
<1> QED
  BY <1>1, <1>2, <1>3, <1>4, <1>5

LEMMA ChainStays ==
  ASSUME ConnInv, UNCHANGED <<use, m_state, op, handlers>>
  PROVE  ChainInv'
  BY DEF ConnInv, ChainInv

LEMMA ChainStep == ConnInv /\ [Next]_vars => ChainInv'
<1> SUFFICES ASSUME ConnInv, [Next]_vars PROVE ChainInv'
  OBVIOUS
<1>1. CASE ServerAnswers \/ ServerCloses \/ ConnectionReset
  BY <1>1, ChainStays DEF ServerAnswers, ServerCloses, ConnectionReset, object, service, owner
<1>2. ASSUME NEW t \in Threads, Run(t) PROVE ChainInv'
  <2>1. CASE Clear(t)
    BY <2>1, ChainStays DEF Clear, service, owner
  <2> QED
    BY <1>2, <2>1, OperationsKeepChain, AnswersKeepChain, TimerKeepsChain, PoolKeepsChain DEF Run
<1>3. CASE Ended \/ UNCHANGED vars
  BY <1>3, ChainStays DEF Ended, vars, object, service, owner
<1> QED
  BY <1>1, <1>2, <1>3, ReactorKeepsChain, TimerKeepsChain, PoolKeepsChain DEF Next

-----------------------------------------------------------------------------
(* The rest of the types.                                                   *)

LEMMA BasicInitially == Init => BasicInv
<1> SUFFICES ASSUME Init PROVE BasicInv
  OBVIOUS
<1>1. thread \in [Threads -> {"post", "stat", None}]
  BY DEF Init
<1>2. op # "connect"
  BY NoneIsNoOp DEF Init, Ops, ConnectOps
<1> QED
  BY <1>1, <1>2 DEF Init, BasicInv, WaitingUses

LEMMA NetworkKeepsBasics ==
  ASSUME BasicInv, ServerAnswers \/ ServerCloses \/ ConnectionReset
  PROVE  BasicInv'
<1>1. CASE ServerAnswers
  BY <1>1 DEF ServerAnswers, BasicInv, object, service, owner
<1>2. CASE ServerCloses
  BY <1>2 DEF ServerCloses, BasicInv, object, service, owner
<1>3. CASE ConnectionReset
  BY <1>3 DEF ConnectionReset, BasicInv, object, service, owner
<1> QED
  BY <1>1, <1>2, <1>3

LEMMA CompletesKeepsBasics ==
  ASSUME BasicInv, NEW result, Completes(result),
         sock = "closed" => peer' = "none", peer' \in {"none", "up", "fin", "rst"},
         owed' \in Reads \cup {None}, received' \in {m_article, received}
  PROVE  BasicInv'
<1>1. None # "connect"
  BY NoneIsNoOp DEF Ops, ConnectOps
<1> QED
  BY <1>1 DEF Completes, BasicInv, owner

LEMMA ReactorKeepsBasics == ASSUME BasicInv, Reactor PROVE BasicInv'
<1> DEFINE Kept == /\ sock = "closed" => peer = "none"
                   /\ peer \in {"none", "up", "fin", "rst"}
                   /\ owed \in Reads \cup {None}
<1>1. Kept
  BY DEF BasicInv
<1>2. CASE ResolveEnds
  BY <1>1, <1>2, CompletesKeepsBasics DEF ResolveEnds
<1>3. CASE ConnectEnds
  <2>1. sock = "open"
    BY <1>3 DEF ConnectEnds, BasicInv
  <2>2. "greeting" \in Reads
    BY DEF Reads
  <2> QED
    BY <1>1, <1>3, <2>1, <2>2, CompletesKeepsBasics DEF ConnectEnds
<1>4. CASE HandshakeEnds
  <2>1. "greeting" \in Reads
    BY DEF Reads
  <2> QED
    BY <1>1, <1>4, <2>1, CompletesKeepsBasics DEF HandshakeEnds
<1>5. CASE WriteEnds
  <2>1. \A o \in Writes : AnswerTo[o] \in Reads
    BY DEF Writes, AnswerTo, Reads
  <2> QED
    BY <1>1, <1>5, <2>1, CompletesKeepsBasics DEF WriteEnds
<1>6. CASE ReadEnds
  BY <1>1, <1>6, CompletesKeepsBasics DEF ReadEnds
<1> QED
  BY <1>2, <1>3, <1>4, <1>5, <1>6 DEF Reactor

LEMMA OperationsKeepBasics ==
  ASSUME ConnInv, NEW t, RunDo(t) \/ IoGoesOn(t) \/ StepSucceeds(t)
  PROVE  BasicInv'
<1>1. CASE RunDo(t)
  <2>1. op' \in {"resolve", "post", "stat"} /\ m_state' \in {"CONNECTING", "BUSY"} /\ timer' \in BOOLEAN
    <3>1. CASE Runs(t, "do", {"connect"}, {None}) /\ m_state' = "CONNECTING" /\ op' = "resolve" /\ UNCHANGED timer
      BY <3>1 DEF ConnInv, BasicInv
    <3>2. CASE Runs(t, "do", {"post", "stat"}, {None}) /\ m_state' = "BUSY" /\ Begin(Running.what)
      BY <3>2, ContinuationRuns DEF Begin
    <3> QED
      BY <1>1, <3>1, <3>2 DEF RunDo
  <2>2. {"resolve", "post", "stat"} \subseteq Ops
    BY DEF Ops, ConnectOps, PostOps, StatOps
  <2> QED
    BY <1>1, <2>1, <2>2 DEF RunDo, ConnInv, BasicInv, network, owner
<1>2. CASE IoGoesOn(t)
  <2>1. op' \in Composed
    BY <1>2, ContinuationRuns DEF IoGoesOn
  <2>2. Composed \subseteq Ops /\ "connect" \notin Composed
    BY DEF Composed, Reads, Ops, ConnectOps, PostOps, StatOps
  <2> QED
    BY <1>2, <2>1, <2>2 DEF IoGoesOn, ConnInv, BasicInv, object, network, owner
<1>3. CASE StepSucceeds(t)
  <2>1. Running.what \in {"resolve", "connect", "handshake"} \cup Writes
    BY <1>3, ContinuationRuns DEF StepSucceeds
  <2>2. Following(Running.what) \in Ops
    BY <2>1, FollowingFits
  <2>3. Following(Running.what) = "connect" => Running.what = "resolve"
    BY <2>1 DEF Following, AnswerTo, Writes
  <2>4. op' = Following(Running.what) /\ timer' = TRUE
    BY <1>3 DEF StepSucceeds, Begin
  <2>5. /\ sock' = IF Running.what = "resolve" THEN "open" ELSE sock
        /\ UNCHANGED <<object, peer, owed, received, stored, owner, thread>>
    BY <1>3 DEF StepSucceeds
  <2> QED
    BY <2>2, <2>3, <2>4, <2>5 DEF ConnInv, BasicInv, object, owner
<1> QED
  BY <1>1, <1>2, <1>3

LEMMA AnswersKeepBasics ==
  ASSUME ConnInv, NEW t, IoFails(t) \/ LineIsRead(t)
  PROVE  BasicInv'
<1>1. UNCHANGED <<m_article, m_msgid, network, owner>> /\ timer' \in BOOLEAN
  BY DEF IoFails, LineIsRead, Begin, ConnInv, BasicInv
<1>2. /\ IsQueue(Tail(handlers)) /\ NoContinuation(Tail(handlers))
      /\ Running.what \in Ops /\ use = UseOf(Running.what) /\ use' = use
  BY <1>1, ContinuationRuns DEF IoFails, LineIsRead, Fits, owner
<1>3. /\ op' \in Ops \cup {None} /\ op' # "connect"
      /\ m_state' \in {m_state, "CONNECTED_AND_AUTHENTICATED"}
      /\ thread' \in [Threads -> {"post", "stat", None}]
  <2> DEFINE next == Reaction(Running.what, m_readbuf.code)
  <2>1. thread \in [Threads -> {"post", "stat", None}] /\ None # "connect"
    BY NoneIsNoOp DEF ConnInv, BasicInv, Ops, ConnectOps
  <2>2. CASE IoFails(t)
    <3>1. FailureOf(Running.what) \in Results(use) /\ Answer(t, Running.what, FailureOf(Running.what))
      BY <1>2, <2>2, FailuresAreResults DEF IoFails
    <3> QED
      BY <1>2, <2>1, <3>1, AnswerStep
  <2>3. CASE LineIsRead(t) /\ next \in Writes
    <3>1. op' = next /\ UNCHANGED <<m_state, thread>>
      BY <2>3 DEF LineIsRead, Begin
    <3>2. Writes \subseteq Ops /\ "connect" \notin Writes
      BY DEF Writes, Ops, ConnectOps, PostOps, StatOps
    <3> QED
      BY <2>1, <2>3, <3>1, <3>2
  <2>4. CASE LineIsRead(t) /\ next \notin Writes
    <3>1. Running.what \in Reads
      BY <2>4, ContinuationRuns DEF LineIsRead
    <3>2. next \in Results(use) /\ Answer(t, Running.what, next)
      BY <1>2, <2>4, <3>1, ReactionFits DEF LineIsRead
    <3> HIDE DEF next
    <3> QED
      BY <1>2, <2>1, <3>2, AnswerStep
  <2> QED
    BY <2>2, <2>3, <2>4
<1> QED
  BY <1>1, <1>3 DEF ConnInv, BasicInv, network, owner

LEMMA TimerKeepsBasics ==
  ASSUME BasicInv, NEW t, TimerExpires \/ RunExpired(t) \/ RunOnDestroyed(t) \/ Clear(t)
  PROVE  BasicInv'
<1>1. CASE TimerExpires
  BY <1>1 DEF TimerExpires, BasicInv, object, network, owner
<1>2. CASE RunExpired(t)
  <2>1. op' \in {op, None} /\ None # "connect"
    BY <1>2, NoneIsNoOp DEF RunExpired, Ops, ConnectOps
  <2>2. UNCHANGED <<object, network, timer, owner, thread>>
    BY <1>2 DEF RunExpired
  <2> QED
    BY <2>1, <2>2 DEF BasicInv, object, network, owner
<1>3. CASE RunOnDestroyed(t)
  BY <1>3 DEF RunOnDestroyed, BasicInv, object, network, owner
<1>4. CASE Clear(t)
  <2>1. {m_article', m_msgid'} \subseteq {m_article, m_msgid, None}
    BY <1>4 DEF Clear
  <2>2. thread' \in [Threads -> {"post", "stat", None}]
    BY <1>4 DEF Clear, BasicInv
  <2> QED
    BY <1>4, <2>1, <2>2 DEF Clear, BasicInv, network, service, owner
<1> QED
  BY <1>1, <1>2, <1>3, <1>4

LEMMA PoolKeepsBasics ==
  ASSUME ConnInv, NEW t, BecomesReady(t) \/ IsDiscarded(t) \/ Reconnects(t) \/ StartCommand \/ Quit
  PROVE  BasicInv'
<1>0. None # "connect"
  BY NoneIsNoOp DEF Ops, ConnectOps
<1>1. CASE BecomesReady(t)
  BY <1>1 DEF BecomesReady, ConnInv, BasicInv, object, network
<1>2. CASE IsDiscarded(t)
  <2>1. op = None
    BY <1>2, ContinuationRuns DEF IsDiscarded
  <2> QED
    BY <1>0, <1>2, <2>1 DEF IsDiscarded, Destroy, ConnInv, BasicInv, object
<1>3. CASE Reconnects(t)
  <2>1. op = None
    BY <1>3, ContinuationRuns DEF Reconnects
  <2> QED
    BY <1>0, <1>3, <2>1 DEF Reconnects, Close, ConnInv, BasicInv, WaitingUses
<1>4. CASE StartCommand
  <2>1. PICK what \in {"post", "stat"} : \E item \in Items :
          /\ use' = what /\ asked' = item /\ received' = None /\ stored' = None
          /\ {m_article', m_msgid'} \subseteq {m_article, m_msgid, item}
    BY <1>4 DEF StartCommand
  <2> QED
    BY <1>4, <2>1 DEF StartCommand, ConnInv, BasicInv, WaitingUses
<1>5. CASE Quit
  <2>1. op = None
    BY <1>5 DEF Quit, ConnInv, ChainInv, Chain
  <2> QED
    BY <1>0, <1>5, <2>1 DEF Quit, Destroy, ConnInv, BasicInv
<1> QED
  BY <1>1, <1>2, <1>3, <1>4, <1>5

LEMMA BasicStep == ConnInv /\ [Next]_vars => BasicInv'
<1> SUFFICES ASSUME ConnInv, [Next]_vars PROVE BasicInv'
  OBVIOUS
<1>1. BasicInv
  BY DEF ConnInv
<1>2. CASE Ended \/ UNCHANGED vars
  BY <1>1, <1>2 DEF Ended, vars, object, network, service, owner, BasicInv
<1>3. ASSUME NEW t \in Threads, Run(t) PROVE BasicInv'
  BY <1>1, <1>3, OperationsKeepBasics, AnswersKeepBasics, TimerKeepsBasics, PoolKeepsBasics DEF Run
<1> QED
  BY <1>1, <1>2, <1>3, NetworkKeepsBasics, ReactorKeepsBasics, TimerKeepsBasics, PoolKeepsBasics DEF Next

LEMMA ConnInvHolds == Spec => []ConnInv
<1>1. Init => ConnInv
  BY ChainInitially, BasicInitially DEF ConnInv
<1>2. ConnInv /\ [Next]_vars => ConnInv'
  BY ChainStep, BasicStep DEF ConnInv
<1> QED
  BY <1>1, <1>2, PTL DEF Spec

-----------------------------------------------------------------------------
(* What follows.                                                            *)

\* Every variable has its type, and an answer to the pool is one of the results that
\* its handler for that operation expects (usenet.cc:143-267).
THEOREM ConnectionTypeCorrect == Spec => []ConnectionTypeOK
<1>1. ConnInv => ConnectionTypeOK
  <2> SUFFICES ASSUME ConnInv PROVE ConnectionTypeOK
    OBVIOUS
  <2>1. ASSUME NEW i \in DOMAIN handlers, handlers[i].kind = "answer"
        PROVE  handlers[i].result \in Results(handlers[i].what)
    <3>1. use \in WaitingUses
      BY <2>1 DEF ConnInv, BasicInv, ChainInv, Chain, NoContinuation
    <3>2. Fits(handlers[i], use, m_state)
      BY <2>1, <3>1 DEF ConnInv, ChainInv, Chain, NoContinuation
    <3> QED
      BY <2>1, <3>2 DEF Fits
  <2> QED
    BY <2>1 DEF ConnInv, BasicInv, ConnectionTypeOK, Ops, WaitingUses
<1> QED
  BY <1>1, ConnInvHolds, PTL

\* An operation is carried on in exactly one place, however its timer, the network and
\* the server interleave: the pool gets one answer to each async_connect, async_post
\* and async_stat (connection.cc:143-278, 368-435 and 446-510).
THEOREM OneAnswerEach == Spec => []OneContinuation
<1>1. ConnInv => OneContinuation
  <2> SUFFICES ASSUME ConnInv, use # "gone"
               PROVE  Cardinality(Continuations) + (IF op = None THEN 0 ELSE 1) = IF Waiting THEN 1 ELSE 0
    BY DEF OneContinuation
  <2>1. NoContinuation(handlers) => Cardinality(Continuations) = 0
    <3>1. NoContinuation(handlers) => Continuations = {}
      BY DEF NoContinuation, Continuations
    <3> QED
      BY <3>1, FS_EmptySet
  <2>2. SingleContinuation(handlers) => Cardinality(Continuations) = 1
    <3>1. SingleContinuation(handlers) => \E i : Continuations = {i}
      BY DEF SingleContinuation, Continuations
    <3> QED
      BY <3>1, FS_Singleton
  <2>3. CASE use = "idle"
    BY <2>1, <2>3 DEF ConnInv, ChainInv, Chain, Waiting
  <2>4. CASE use \in WaitingUses
    BY <2>1, <2>2, <2>4, NoneIsNoOp DEF ConnInv, ChainInv, Chain, Waiting, WaitingUses
  <2> QED
    BY <2>3, <2>4 DEF ConnInv, BasicInv
<1> QED
  BY <1>1, ConnInvHolds, PTL

\* A connection in m_ready never refuses an article or a message id, which would be
\* lost: start_async_post does not look at what async_post returns (usenet.cc:28-44).
THEOREM ReadyIsUsable == Spec => []UsableWhenIdle
<1>1. ConnInv => UsableWhenIdle
  BY DEF ConnInv, ChainInv, Chain, UsableWhenIdle
<1> QED
  BY <1>1, ConnInvHolds, PTL
=============================================================================
