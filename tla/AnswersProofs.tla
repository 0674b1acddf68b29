---------------------------- MODULE AnswersProofs ----------------------------
(***************************************************************************)
(* More theorems about module Connection: the lines a server sends are     *)
(* taken for the answers they are (with any number of io threads), and     *)
(* what the pool is told is what the server did (with one).  Both rest on  *)
(* the chain of callbacks of ConnectionProofs.                             *)
(***************************************************************************)
EXTENDS ConnectionProofs, SequenceTheorems

-----------------------------------------------------------------------------
(* The lines on the wire at each place of the chain.                        *)

\* What there is to be known of the lines, as one value.
Net == [peer |-> peer, wire |-> wire, owed |-> owed, buf |-> m_readbuf]

Goodbye == [to |-> "goodbye", code |-> "4"]
AnswerLines(r) == [to : {r}, code : Codes[r]]

\* Nothing is left but the goodbye of a server that has closed.
Spent(n) == n.owed = None /\ (n.wire = <<>> \/ (n.peer # "up" /\ n.wire = <<Goodbye>>))

\* The connection is closed, or has been reset and cannot be connected again.
Fresh(n) == n.peer \in {"none", "rst"} /\ n.wire = <<>> /\ n.owed = None /\ n.buf = None

Quiet(n) == Spent(n) /\ n.buf = None

WireFor(r, n) ==
  \/ n.wire = <<>>
  \/ n.peer # "up" /\ n.wire = <<Goodbye>>
  \/ \E l \in AnswerLines(r) : n.wire = <<l>> \/ (n.peer # "up" /\ n.wire = <<l, Goodbye>>)

\* The next line that is read is the answer r, or a goodbye.
Awaiting(r, n) ==
  /\ WireFor(r, n)
  /\ n.owed \in {None, r}
  /\ n.owed = r => n.wire = <<>> /\ n.peer = "up" /\ n.buf = None
  /\ n.peer = "rst" => n.wire = <<>>
  /\ n.buf # None => n.peer = "rst" \/ (n.wire # <<>> /\ n.buf = Head(n.wire))

LineRead(r, n) == Spent(n) /\ n.buf.to \in {r, "goodbye"}

LinesBefore(o, n) ==
  /\ o \in {"resolve", "connect"} => Fresh(n)
  /\ o \in Writes \cup {"handshake"} => Quiet(n)
  /\ o \in Reads => Awaiting(o, n)

Failures == {"FATAL_CONNECT_ERROR", "POST_FAILURE_CONNECTION_ERROR", "CONNECTION_ERROR"}

LinesOf(h, n) ==
  /\ h.kind \in Kinds
  /\ h.kind = "do" => IF h.what = "connect" THEN Fresh(n) ELSE Quiet(n)
  /\ h.kind = "io" /\ h.result = "some" => LinesBefore(h.what, n)
  /\ h.kind = "io" /\ h.result = "all" =>
       IF h.what \in Reads THEN LineRead(h.what, n) ELSE LinesBefore(Following(h.what), n)
  /\ h.kind = "answer" => h.result \in Failures \/ Quiet(n)

Lines(u, o, hs, n) ==
  /\ \A i \in DOMAIN hs : hs[i].kind = "expired" => hs[i].what = None
  /\ u # "gone" =>
       /\ o # None => LinesBefore(o, n)
       /\ \A i \in DOMAIN hs : LinesOf(hs[i], n)
       /\ u = "idle" => Quiet(n)

LinesInv == Lines(use, op, handlers, Net)

\* The handlers that are not continuations.
Expiries(hs) == IsQueue(hs) /\ \A i \in DOMAIN hs : hs[i].kind = "expired" /\ hs[i].what = None

LEMMA ShortWires ==
  /\ \A l : Append(<<>>, l) = <<l>> /\ Head(<<l>>) = l /\ Tail(<<l>>) = <<>> /\ <<l>> # <<>>
  /\ \A l, k : /\ Append(<<l>>, k) = <<l, k>> /\ Head(<<l, k>>) = l /\ Tail(<<l, k>>) = <<k>>
               /\ <<l, k>> # <<>>
<1>1. \A l : Append(<<>>, l) = <<l>> /\ Head(<<l>>) = l /\ Tail(<<l>>) = <<>> /\ <<l>> # <<>>
  OBVIOUS
<1>2. ASSUME NEW l, NEW k PROVE Append(<<l>>, k) = <<l, k>> /\ Head(<<l, k>>) = l /\ <<l, k>> # <<>>
  <2>1. Append(<<l>>, k) = <<l, k>>
    <3>1. {<<l>>, <<l, k>>, Append(<<l>>, k)} \subseteq Seq({l, k})
      OBVIOUS
    <3>2. Len(<<l, k>>) = 2 /\ Len(Append(<<l>>, k)) = 2
      BY <3>1
    <3>3. Append(<<l>>, k)[1] = l /\ Append(<<l>>, k)[2] = k
      BY <3>1
    <3>4. \A i \in 1..2 : Append(<<l>>, k)[i] = <<l, k>>[i]
      BY <3>3
    <3> QED
      BY <3>1, <3>2, <3>4, SeqEqual
  <2>2. Head(<<l, k>>) = l
    OBVIOUS
  <2>3. <<l, k>> # <<>>
    OBVIOUS
  <2> QED
    BY <2>1, <2>2, <2>3
<1>3. ASSUME NEW l, NEW k PROVE Tail(<<l, k>>) = <<k>>
  OBVIOUS
<1> QED
  BY <1>1, <1>2, <1>3

LEMMA NamesDiffer ==
  /\ None \notin Reads /\ None \notin Writes
  /\ Reads \cap Writes = {} /\ Reads \cup Writes \subseteq Ops
  /\ {"resolve", "connect", "handshake"} \cap (Reads \cup Writes) = {}
  /\ {"connecting", "post", "stat", "goodbye"} \cap Reads = {}
  /\ \A w \in Writes : AnswerTo[w] \in Reads
  BY NoneIsNoOp DEF Ops, ConnectOps, PostOps, StatOps, Reads, Writes, AnswerTo

LEMMA LinesQueue ==
  ASSUME NEW hs, Expiries(hs), NEW h, h.kind # "expired", NEW u, u # "idle", NEW n, LinesOf(h, n)
  PROVE  Lines(u, None, Append(hs, h), n)
<1>1. \A i \in DOMAIN Append(hs, h) : (i \in DOMAIN hs /\ Append(hs, h)[i] = hs[i]) \/ Append(hs, h)[i] = h
  BY AppendedHandler DEF Expiries
<1>2. \A i \in DOMAIN hs : LinesOf(hs[i], n)
  BY DEF Expiries, LinesOf, Kinds
<1> QED
  BY <1>1, <1>2 DEF Lines, Expiries

LEMMA LinesBegin ==
  ASSUME NEW hs, Expiries(hs), NEW o, NEW u, u # "idle", NEW n, LinesBefore(o, n)
  PROVE  Lines(u, o, hs, n)
<1>1. \A i \in DOMAIN hs : LinesOf(hs[i], n)
  BY DEF Expiries, LinesOf, Kinds
<1> QED
  BY <1>1 DEF Lines, Expiries

LEMMA LinesAreExpiries ==
  ASSUME NEW u, NEW o, NEW hs, NEW n, IsQueue(hs), Lines(u, o, hs, n)
  PROVE  /\ NoContinuation(hs) => Expiries(hs)
         /\ hs # <<>> /\ NoContinuation(Tail(hs)) => Expiries(Tail(hs))
  BY FirstTaken DEF Lines, Expiries, NoContinuation

-----------------------------------------------------------------------------
(* The server and the network.                                              *)

NetworkMoves == ServerAnswers \/ ServerCloses \/ ConnectionReset

LEMMA SpentStays == ASSUME NetworkMoves, Spent(Net) PROVE Spent(Net')
<1>1. ~ServerAnswers
  BY DEF ServerAnswers, Spent, Net
<1>2. CASE ServerCloses
  BY <1>2, ShortWires DEF ServerCloses, Spent, Net, Goodbye
<1>3. CASE ConnectionReset
  BY <1>3 DEF ConnectionReset, Spent, Net
<1> QED
  BY <1>1, <1>2, <1>3 DEF NetworkMoves

LEMMA NetworkKeepsBuffer == NetworkMoves => UNCHANGED m_readbuf
  BY DEF NetworkMoves, ServerAnswers, ServerCloses, ConnectionReset, object

LEMMA FreshStays == ASSUME NetworkMoves, Fresh(Net) PROVE Fresh(Net')
  BY DEF NetworkMoves, ServerAnswers, ServerCloses, ConnectionReset, Fresh, Net

LEMMA AwaitingStays == ASSUME NetworkMoves, NEW r \in Reads, Awaiting(r, Net) PROVE Awaiting(r, Net')
<1>1. m_readbuf' = m_readbuf
  BY NetworkKeepsBuffer
<1>2. CASE ServerAnswers
  <2>1. owed = r /\ wire = <<>> /\ peer = "up" /\ m_readbuf = None
    BY <1>2, NamesDiffer DEF ServerAnswers, Awaiting, Net
  <2>2. PICK code \in Codes[r] : wire' = Append(wire, [to |-> r, code |-> code])
    BY <1>2, <2>1 DEF ServerAnswers
  <2> DEFINE l == [to |-> r, code |-> code]
  <2>3. l \in AnswerLines(r) /\ wire' = <<l>>
    BY <2>1, <2>2, ShortWires DEF AnswerLines
  <2>4. owed' = None /\ peer' = "up"
    BY <1>2, <2>1 DEF ServerAnswers
  <2>5. None # r
    BY NamesDiffer
  <2> HIDE DEF l
  <2> QED
    BY <1>1, <2>1, <2>3, <2>4, <2>5 DEF Awaiting, WireFor, Net
<1>3. CASE ServerCloses
  <2>1. peer = "up" /\ peer' = "fin" /\ owed' = None /\ wire' \in {wire, Append(wire, Goodbye)}
    BY <1>3 DEF ServerCloses, Goodbye
  <2>2. wire = <<>> \/ \E l \in AnswerLines(r) : wire = <<l>>
    BY <2>1 DEF Awaiting, WireFor, Net
  <2>3. WireFor(r, Net')
    BY <2>1, <2>2, ShortWires DEF WireFor, Net
  <2>4. m_readbuf # None => wire' # <<>> /\ m_readbuf = Head(wire')
    BY <2>1, <2>2, ShortWires DEF Awaiting, Net
  <2>5. None # r
    BY NamesDiffer
  <2> QED
    BY <1>1, <2>1, <2>3, <2>4, <2>5 DEF Awaiting, Net
<1>4. CASE ConnectionReset
  <2>1. peer' = "rst" /\ owed' = None /\ wire' = <<>> /\ None # r
    BY <1>4, NamesDiffer DEF ConnectionReset
  <2> QED
    BY <1>1, <2>1 DEF Awaiting, WireFor, Net
<1> QED
  BY <1>2, <1>3, <1>4 DEF NetworkMoves

LEMMA QuietStays == ASSUME NetworkMoves, Quiet(Net) PROVE Quiet(Net')
  BY SpentStays, NetworkKeepsBuffer DEF Quiet, Net

LEMMA LineReadStays == ASSUME NetworkMoves, NEW r, LineRead(r, Net) PROVE LineRead(r, Net')
  BY SpentStays, NetworkKeepsBuffer DEF LineRead, Net

LEMMA BeforeStays == ASSUME NetworkMoves, NEW o, LinesBefore(o, Net) PROVE LinesBefore(o, Net')
  BY FreshStays, QuietStays, AwaitingStays DEF LinesBefore

LEMMA LinesOfStay == ASSUME NetworkMoves, NEW h, LinesOf(h, Net) PROVE LinesOf(h, Net')
  BY FreshStays, QuietStays, LineReadStays, BeforeStays DEF LinesOf, Kinds

LEMMA NetworkKeepsLines == LinesInv /\ NetworkMoves => LinesInv'
<1> SUFFICES ASSUME LinesInv, NetworkMoves PROVE LinesInv'
  OBVIOUS
<1>1. UNCHANGED <<use, op, handlers>>
  BY DEF NetworkMoves, ServerAnswers, ServerCloses, ConnectionReset, service, owner
<1>2. Lines(use, op, handlers, Net')
  BY BeforeStays, LinesOfStay, QuietStays DEF LinesInv, Lines
<1> QED
  BY <1>1, <1>2 DEF LinesInv

-----------------------------------------------------------------------------
(* The reactor.                                                             *)

\* The operation that is pending, and the handlers besides it.
LEMMA Pending ==
  ASSUME ConnInv, LinesInv, op # None
  PROVE  /\ op \in Ops /\ use \in WaitingUses /\ use = UseOf(op)
         /\ Expiries(handlers) /\ LinesBefore(op, Net)
<1>1. op \in Ops /\ use \in WaitingUses \cup {"idle", "gone"}
  BY DEF ConnInv, BasicInv
<1>2. use \in WaitingUses /\ use = UseOf(op) /\ NoContinuation(handlers) /\ IsQueue(handlers)
  BY <1>1, ChainCancels DEF ConnInv, ChainInv
<1>3. use # "gone"
  BY <1>2 DEF WaitingUses
<1> QED
  BY <1>1, <1>2, <1>3, LinesAreExpiries DEF LinesInv, Lines

LEMMA LinesComplete ==
  ASSUME ConnInv, LinesInv, op # None, NEW result, Completes(result), LinesOf(Io(op, result), Net')
  PROVE  LinesInv'
<1>1. Expiries(handlers) /\ use # "idle"
  BY Pending DEF WaitingUses
<1> DEFINE h == Io(op, result)
<1>2. h.kind # "expired"
  BY DEF Io, Handler
<1>3. handlers' = Append(handlers, h) /\ op' = None /\ use' = use
  BY DEF Completes, owner
<1>4. LinesOf(h, Net')
  OBVIOUS
<1> HIDE DEF h
<1>5. Lines(use, None, Append(handlers, h), Net')
  BY <1>1, <1>2, <1>4, LinesQueue
<1> QED
  BY <1>3, <1>5 DEF LinesInv

\* The handler of a pending operation, by the result it gets.
LEMMA LinesOfIo ==
  ASSUME NEW o, NEW n
  PROVE  /\ LinesOf(Io(o, "error"), n)
         /\ LinesBefore(o, n) => LinesOf(Io(o, "some"), n)
         /\ (IF o \in Reads THEN LineRead(o, n) ELSE LinesBefore(Following(o), n)) => LinesOf(Io(o, "all"), n)
  BY DEF LinesOf, Io, Handler, Kinds

LEMMA AnswerBegins ==
  ASSUME NEW r \in Reads, NEW n, n.wire = <<>>, n.buf = None,
         (n.owed = r /\ n.peer = "up") \/ n.owed = None
  PROVE  LinesBefore(r, n)
<1>1. Awaiting(r, n)
  BY NamesDiffer DEF Awaiting, WireFor
<1> QED
  BY <1>1, NamesDiffer DEF LinesBefore

LEMMA QuietAwaits ==
  ASSUME NEW r \in Reads, NEW n, Quiet(n), n.peer # "rst" \/ n.wire = <<>>
  PROVE  LinesBefore(r, n)
<1>1. Awaiting(r, n)
  BY NamesDiffer DEF Awaiting, WireFor, Quiet, Spent
<1> QED
  BY <1>1, NamesDiffer DEF LinesBefore

LEMMA ReactorKeepsLines == ASSUME ConnInv, LinesInv, Reactor PROVE LinesInv'
<1>0. "greeting" \in Reads
  BY DEF Reads
<1>1. CASE ResolveEnds
  <2>1. op # None /\ Net' = Net
    BY <1>1, NoneIsNoOp DEF ResolveEnds, Completes, Net, Ops, ConnectOps
  <2>2. LinesBefore("connect", Net)
    BY <1>1, <2>1, Pending DEF ResolveEnds, LinesBefore, Writes, Reads
  <2>3. Following(op) = "connect" /\ op \notin Reads
    BY <1>1 DEF ResolveEnds, Following, Reads, Writes
  <2>4. PICK result \in {"error", "all"} : Completes(result)
    BY <1>1 DEF ResolveEnds
  <2>5. LinesOf(Io(op, result), Net')
    BY <2>1, <2>2, <2>3, <2>4, LinesOfIo
  <2> QED
    BY <2>1, <2>4, <2>5, LinesComplete
<1>2. CASE ConnectEnds
  <2>1. op = "connect" /\ op # None /\ Fresh(Net)
    BY <1>2, NoneIsNoOp, Pending DEF ConnectEnds, Ops, ConnectOps, LinesBefore
  <2>2. CASE Completes("error")
    BY <2>1, <2>2, LinesComplete, LinesOfIo
  <2>3. CASE /\ Completes("all") /\ peer' = "up" /\ owed' = (IF Tls THEN None ELSE "greeting")
             /\ UNCHANGED <<m_readbuf, wire>>
    <3>1. Following(op) = (IF Tls THEN "handshake" ELSE "greeting") /\ op \notin Reads
      BY <2>1 DEF Following, Reads, Writes
    <3>2. Net'.wire = <<>> /\ Net'.buf = None /\ Net'.peer = "up" /\ Net'.owed = owed'
      BY <2>1, <2>3 DEF Fresh, Net
    <3>3. CASE Tls
      <4>1. Quiet(Net')
        BY <2>3, <3>2, <3>3 DEF Quiet, Spent
      <4>2. LinesBefore("handshake", Net')
        BY <4>1, NamesDiffer DEF LinesBefore
      <4> QED
        BY <2>1, <2>3, <3>1, <3>3, <4>2, LinesComplete, LinesOfIo
    <3>4. CASE ~Tls
      <4>1. LinesBefore("greeting", Net')
        BY <1>0, <2>3, <3>2, <3>4, AnswerBegins
      <4> QED
        BY <2>1, <2>3, <3>1, <3>4, <4>1, LinesComplete, LinesOfIo
    <3> QED
      BY <3>3, <3>4
  <2> QED
    BY <1>2, <2>2, <2>3 DEF ConnectEnds
<1>3. CASE HandshakeEnds
  <2>1. op = "handshake" /\ op # None /\ Quiet(Net) /\ LinesBefore(op, Net)
    BY <1>3, NoneIsNoOp, Pending DEF HandshakeEnds, Ops, ConnectOps, LinesBefore
  <2>2. CASE Completes("error")
    BY <2>1, <2>2, LinesComplete, LinesOfIo
  <2>3. CASE Completes("some") /\ UNCHANGED <<m_readbuf, peer, wire, owed>>
    <3>1. Net' = Net
      BY <2>3 DEF Net
    <3> QED
      BY <2>1, <2>3, <3>1, LinesComplete, LinesOfIo
  <2>4. CASE peer = "up" /\ Completes("all") /\ owed' = "greeting" /\ UNCHANGED <<m_readbuf, peer, wire>>
    <3>1. Following(op) = "greeting" /\ op \notin Reads
      BY <2>1 DEF Following, Reads, Writes
    <3>2. Net'.wire = <<>> /\ Net'.buf = None /\ Net'.peer = "up" /\ Net'.owed = "greeting"
      BY <2>1, <2>4 DEF Quiet, Spent, Net
    <3>3. LinesBefore("greeting", Net')
      BY <1>0, <3>2, AnswerBegins
    <3> QED
      BY <2>1, <2>4, <3>1, <3>3, LinesComplete, LinesOfIo
  <2> QED
    BY <1>3, <2>2, <2>3, <2>4 DEF HandshakeEnds
<1>4. CASE WriteEnds
  <2>1. op \in Writes /\ op # None /\ Quiet(Net) /\ LinesBefore(op, Net)
    BY <1>4, NamesDiffer, Pending DEF WriteEnds, LinesBefore
  <2>2. CASE Completes("error")
    BY <2>1, <2>2, LinesComplete, LinesOfIo
  <2>3. CASE Completes("some") /\ UNCHANGED <<m_readbuf, peer, wire, owed>>
    <3>1. Net' = Net
      BY <2>3 DEF Net
    <3> QED
      BY <2>1, <2>3, <3>1, LinesComplete, LinesOfIo
  <2>4. CASE /\ peer # "rst" /\ Completes("all")
             /\ owed' = (IF peer = "up" THEN AnswerTo[op] ELSE None)
             /\ UNCHANGED <<m_readbuf, peer, wire>>
    <3>1. Following(op) = AnswerTo[op] /\ op \notin Reads /\ AnswerTo[op] \in Reads
      BY <2>1, NamesDiffer DEF Following, AnswerTo, Writes
    <3>2. LinesBefore(AnswerTo[op], Net')
      <4>1. CASE peer = "up"
        <5>1. Net'.wire = <<>> /\ Net'.buf = None /\ Net'.peer = "up" /\ Net'.owed = AnswerTo[op]
          BY <2>1, <2>4, <4>1 DEF Quiet, Spent, Net
        <5> QED
          BY <3>1, <5>1, AnswerBegins
      <4>2. CASE peer # "up"
        <5>1. Quiet(Net') /\ Net'.peer # "rst"
          BY <2>1, <2>4, <4>2 DEF Quiet, Spent, Net
        <5> QED
          BY <3>1, <5>1, QuietAwaits
      <4> QED
        BY <4>1, <4>2
    <3> QED
      BY <2>1, <2>4, <3>1, <3>2, LinesComplete, LinesOfIo
  <2> QED
    BY <1>4, <2>2, <2>3, <2>4 DEF WriteEnds
<1>5. CASE ReadEnds
  <2>1. op \in Reads /\ op # None /\ Awaiting(op, Net) /\ LinesBefore(op, Net)
    BY <1>5, NamesDiffer, Pending DEF ReadEnds, LinesBefore
  <2>2. CASE Completes("error")
    BY <2>1, <2>2, LinesComplete, LinesOfIo
  <2>3. CASE /\ wire # <<>> /\ m_readbuf' = (IF m_readbuf = None THEN Head(wire) ELSE m_readbuf)
             /\ UNCHANGED <<peer, owed>>
    <3>1. peer # "rst" /\ owed = None /\ m_readbuf' = Head(wire)
      BY <2>1, <2>3 DEF Awaiting, Net
    <3>2. CASE Completes("some") /\ UNCHANGED wire
      <4>1. Awaiting(op, Net')
        BY <2>1, <2>3, <3>1, <3>2, NamesDiffer DEF Awaiting, WireFor, Net
      <4>2. LinesBefore(op, Net')
        BY <2>1, <4>1, NamesDiffer DEF LinesBefore
      <4> QED
        BY <2>1, <3>2, <4>2, LinesComplete, LinesOfIo
    <3>3. CASE Completes("all") /\ wire' = Tail(wire)
      <4>1. WireFor(op, Net) /\ Net.wire = wire /\ Net.peer = peer
        BY <2>1 DEF Awaiting, Net
      <4>2. /\ Head(wire).to \in {op, "goodbye"}
            /\ wire' = <<>> \/ (peer # "up" /\ wire' = <<Goodbye>>)
        <5>1. CASE peer # "up" /\ wire = <<Goodbye>>
          BY <3>3, <5>1, ShortWires DEF Goodbye
        <5>2. CASE \E l \in AnswerLines(op) : wire = <<l>> \/ (peer # "up" /\ wire = <<l, Goodbye>>)
          <6>1. PICK l \in AnswerLines(op) : wire = <<l>> \/ (peer # "up" /\ wire = <<l, Goodbye>>)
            BY <5>2
          <6>2. l.to = op
            BY DEF AnswerLines
          <6> QED
            BY <3>3, <6>1, <6>2, ShortWires
        <5> QED
          BY <2>3, <4>1, <5>1, <5>2 DEF WireFor
      <4>3. LineRead(op, Net')
        BY <2>3, <3>1, <4>2 DEF LineRead, Spent, Net
      <4> QED
        BY <2>1, <3>3, <4>3, LinesComplete, LinesOfIo
    <3> QED
      BY <1>5, <2>3, <3>2, <3>3 DEF ReadEnds, Completes
  <2> QED
    BY <1>5, <2>2, <2>3 DEF ReadEnds
<1> QED
  BY <1>1, <1>2, <1>3, <1>4, <1>5 DEF Reactor

-----------------------------------------------------------------------------
(* The io threads and the pool.                                             *)

LEMMA LinesRun ==
  ASSUME ConnInv, LinesInv, NEW t, NEW kind \in {"do", "io", "answer"}, NEW W, NEW R, Runs(t, kind, W, R)
  PROVE  /\ use \in WaitingUses /\ op = None /\ Fits(Running, use, m_state)
         /\ Running.kind = kind /\ Running.what \in W /\ Running.result \in R
         /\ Expiries(Tail(handlers)) /\ LinesOf(Running, Net)
<1>1. /\ use \in WaitingUses /\ op = None /\ Fits(Running, use, m_state)
      /\ Running.kind = kind /\ Running.what \in W /\ Running.result \in R
      /\ NoContinuation(Tail(handlers))
  BY ContinuationRuns
<1>2. IsQueue(handlers) /\ handlers # <<>>
  BY DEF ConnInv, ChainInv, Chain, Runs
<1>3. use # "gone" /\ 1 \in DOMAIN handlers /\ Running = handlers[1]
  BY <1>1, <1>2, FirstTaken DEF WaitingUses, Running
<1> QED
  BY <1>1, <1>2, <1>3, LinesAreExpiries DEF LinesInv, Lines

LEMMA LinesGoOn ==
  ASSUME NEW o, Expiries(Tail(handlers)), LinesBefore(o, Net'),
         use \in WaitingUses, use' = use, op' = o, handlers' = Tail(handlers)
  PROVE  LinesInv'
<1>1. Lines(use, o, Tail(handlers), Net')
  BY LinesBegin DEF WaitingUses
<1> QED
  BY <1>1 DEF LinesInv

LEMMA LinesAnswer ==
  ASSUME NEW t, NEW o \in Ops, NEW result, use = UseOf(o), use' = use,
         Answer(t, o, result), Expiries(Tail(handlers)), result \in Failures \/ Quiet(Net')
  PROVE  LinesInv'
<1>1. \E item, what : handlers' = Append(Tail(handlers), Handler("answer", what, result, item)) /\ op' = None
  BY DEF Answer, AnswerConnect, AnswerCommand
<1>2. PICK item, what : handlers' = Append(Tail(handlers), Handler("answer", what, result, item)) /\ op' = None
  BY <1>1
<1> DEFINE h == Handler("answer", what, result, item)
<1>3. h.kind = "answer" /\ h.result = result
  BY DEF Handler
<1>4. handlers' = Append(Tail(handlers), h)
  BY <1>2
<1> HIDE DEF h
<1>5. LinesOf(h, Net') /\ use # "idle"
  BY <1>3 DEF LinesOf, UseOf, Ops, ConnectOps, PostOps, StatOps, Kinds
<1>6. Lines(use, None, Append(Tail(handlers), h), Net')
  BY <1>3, <1>5, LinesQueue
<1> QED
  BY <1>2, <1>4, <1>6 DEF LinesInv

LEMMA OperationsKeepLines ==
  ASSUME ConnInv, LinesInv, NEW t, RunDo(t) \/ IoGoesOn(t) \/ StepSucceeds(t)
  PROVE  LinesInv'
<1>1. CASE RunDo(t)
  <2>0. Net' = Net /\ use' = use
    BY <1>1 DEF RunDo, Net, network, owner
  <2>1. CASE Runs(t, "do", {"connect"}, {None}) /\ op' = "resolve" /\ handlers' = Tail(handlers)
    <3>1. use \in WaitingUses /\ Expiries(Tail(handlers)) /\ Fresh(Net)
      BY <2>1, LinesRun DEF LinesOf, Kinds
    <3>2. LinesBefore("resolve", Net)
      BY <3>1, NamesDiffer DEF LinesBefore
    <3> QED
      BY <2>0, <2>1, <3>1, <3>2, LinesGoOn
  <2>2. CASE Runs(t, "do", {"post", "stat"}, {None}) /\ Begin(Running.what)
    <3>1. /\ use \in WaitingUses /\ Expiries(Tail(handlers)) /\ Running.what \in {"post", "stat"}
          /\ Quiet(Net)
      BY <2>2, LinesRun DEF LinesOf, Kinds
    <3>2. LinesBefore(Running.what, Net)
      BY <3>1 DEF LinesBefore, Reads
    <3> QED
      BY <2>0, <2>2, <3>1, <3>2, LinesGoOn DEF Begin
  <2> QED
    BY <1>1, <2>1, <2>2 DEF RunDo
<1>2. CASE IoGoesOn(t)
  <2>1. /\ use \in WaitingUses /\ Expiries(Tail(handlers)) /\ LinesOf(Running, Net)
        /\ Running.kind = "io" /\ Running.result = "some"
    <3>1. Runs(t, "io", Composed, {"some"})
      BY <1>2 DEF IoGoesOn
    <3> QED
      BY <3>1, LinesRun
  <2>2. LinesBefore(Running.what, Net)
    BY <2>1 DEF LinesOf
  <2>3. Net' = Net /\ use' = use /\ op' = Running.what /\ handlers' = Tail(handlers)
    BY <1>2 DEF IoGoesOn, Net, object, network, owner
  <2> QED
    BY <2>1, <2>2, <2>3, LinesGoOn
<1>3. CASE StepSucceeds(t)
  <2>1. /\ use \in WaitingUses /\ Expiries(Tail(handlers)) /\ LinesOf(Running, Net)
        /\ Running.kind = "io" /\ Running.result = "all"
        /\ Running.what \in {"resolve", "connect", "handshake"} \cup Writes
    BY <1>3, LinesRun DEF StepSucceeds
  <2>2. LinesBefore(Following(Running.what), Net)
    BY <2>1, NamesDiffer DEF LinesOf, Kinds
  <2>3. Net' = Net /\ use' = use /\ op' = Following(Running.what) /\ handlers' = Tail(handlers)
    BY <1>3 DEF StepSucceeds, Begin, Net, object, owner
  <2> QED
    BY <2>1, <2>2, <2>3, LinesGoOn
<1> QED
  BY <1>1, <1>2, <1>3

LEMMA AnswersKeepLines ==
  ASSUME ConnInv, LinesInv, NEW t, IoFails(t) \/ LineIsRead(t)
  PROVE  LinesInv'
<1>1. CASE IoFails(t)
  <2>1. /\ use \in WaitingUses /\ Expiries(Tail(handlers)) /\ Running.what \in Ops /\ use = UseOf(Running.what)
    BY <1>1, LinesRun DEF IoFails, Fits
  <2>2. FailureOf(Running.what) \in Failures
    BY <2>1 DEF FailureOf, Failures, Ops, ConnectOps, PostOps, StatOps
  <2>3. Answer(t, Running.what, FailureOf(Running.what)) /\ use' = use
    BY <1>1 DEF IoFails, owner
  <2> QED
    BY <2>1, <2>2, <2>3, LinesAnswer
<1>2. CASE LineIsRead(t)
  <2>1. /\ use \in WaitingUses /\ Expiries(Tail(handlers)) /\ LinesOf(Running, Net)
        /\ Running.kind = "io" /\ Running.result = "all" /\ Running.what \in Reads
        /\ Running.what \in Ops /\ use = UseOf(Running.what)
    BY <1>2, LinesRun DEF LineIsRead, Fits
  <2>2. Spent(Net)
    BY <2>1 DEF LinesOf, LineRead, Kinds
  <2>3. Quiet(Net') /\ use' = use
    BY <1>2, <2>2 DEF LineIsRead, Quiet, Spent, Net, network, owner
  <2> DEFINE next == Reaction(Running.what, m_readbuf.code)
  <2>4. (next \in Writes /\ Begin(next)) \/ Answer(t, Running.what, next)
    BY <1>2 DEF LineIsRead
  <2> HIDE DEF next
  <2>5. CASE next \in Writes /\ Begin(next)
    <3>1. LinesBefore(next, Net')
      BY <2>3, <2>5, NamesDiffer DEF LinesBefore
    <3> QED
      BY <2>1, <2>3, <2>5, <3>1, LinesGoOn DEF Begin
  <2>6. CASE Answer(t, Running.what, next)
    BY <2>1, <2>3, <2>6, LinesAnswer
  <2> QED
    BY <2>4, <2>5, <2>6
<1> QED
  BY <1>1, <1>2

LEMMA TakenLines ==
  ASSUME NEW u, NEW o, NEW hs, NEW n, IsQueue(hs), hs # <<>>, Lines(u, o, hs, n)
  PROVE  Lines(u, o, Tail(hs), n)
<1>1. \A i \in DOMAIN Tail(hs) : i + 1 \in DOMAIN hs /\ Tail(hs)[i] = hs[i + 1]
  BY FirstTaken
<1> QED
  BY <1>1 DEF Lines

LEMMA TimerKeepsLines ==
  ASSUME ConnInv, LinesInv, NEW t, TimerExpires \/ RunExpired(t) \/ RunOnDestroyed(t) \/ Clear(t)
  PROVE  LinesInv'
<1>0. IsQueue(handlers)
  BY DEF ConnInv, ChainInv, Chain
<1>1. CASE TimerExpires
  <2>1. Expired.kind = "expired" /\ Expired.what = None
    BY DEF Expired, Handler
  <2>2. handlers' = Append(handlers, Expired) /\ use' = use /\ op' = op /\ Net' = Net
    BY <1>1 DEF TimerExpires, owner, object, network, Net
  <2>3. \A i \in DOMAIN Append(handlers, Expired) :
          (i \in DOMAIN handlers /\ Append(handlers, Expired)[i] = handlers[i]) \/ Append(handlers, Expired)[i] = Expired
    BY <1>0, AppendedHandler
  <2>4. LinesOf(Expired, Net)
    BY <2>1 DEF LinesOf, Kinds
  <2>5. Lines(use, op, Append(handlers, Expired), Net)
    BY <2>1, <2>3, <2>4 DEF LinesInv, Lines
  <2> QED
    BY <2>2, <2>5 DEF LinesInv
<1>2. CASE RunExpired(t)
  <2>1. handlers # <<>> /\ use' = use /\ Net' = Net
    BY <1>2 DEF RunExpired, Runs, owner, object, network, Net
  <2>2. CASE op \notin {None, "resolve"}
    <3> DEFINE h == Io(op, "error")
    <3>1. handlers' = Append(Tail(handlers), h) /\ op' = None
      BY <1>2, <2>2 DEF RunExpired
    <3>2. Expiries(handlers) /\ use # "idle"
      BY <2>2, Pending DEF WaitingUses
    <3>3. Expiries(Tail(handlers))
      BY <2>1, <3>2, FirstTaken DEF Expiries
    <3>4. h.kind # "expired"
      BY DEF Io, Handler
    <3>5. LinesOf(h, Net)
      BY LinesOfIo
    <3> HIDE DEF h
    <3>6. Lines(use, None, Append(Tail(handlers), h), Net)
      BY <3>2, <3>3, <3>4, <3>5, LinesQueue
    <3> QED
      BY <2>1, <3>1, <3>6 DEF LinesInv
  <2>3. CASE op \in {None, "resolve"}
    <3>1. handlers' = Tail(handlers) /\ op' = op
      BY <1>2, <2>3 DEF RunExpired
    <3> QED
      BY <1>0, <2>1, <3>1, TakenLines DEF LinesInv
  <2> QED
    BY <2>2, <2>3
<1>3. CASE RunOnDestroyed(t)
  <2>1. handlers # <<>> /\ handlers' = Tail(handlers) /\ use' = use /\ op' = op /\ Net' = Net
    BY <1>3 DEF RunOnDestroyed, owner, object, network, Net
  <2> QED
    BY <1>0, <2>1, TakenLines DEF LinesInv
<1>4. CASE Clear(t)
  BY <1>4 DEF Clear, service, owner, network, Net, LinesInv
<1> QED
  BY <1>1, <1>2, <1>3, <1>4

LEMMA PoolKeepsLines ==
  ASSUME ConnInv, LinesInv, NEW t, BecomesReady(t) \/ IsDiscarded(t) \/ Reconnects(t) \/ StartCommand \/ Quit
  PROVE  LinesInv'
<1>1. CASE BecomesReady(t)
  <2>1. /\ op = None /\ Expiries(Tail(handlers)) /\ LinesOf(Running, Net) /\ Running.kind = "answer"
        /\ Running.result \in {"CONNECT_SUCCESS", "POST_SUCCESS", "POST_FAILURE", "ARTICLE_EXISTS", "INVALID_ARTICLE"}
    BY <1>1, LinesRun DEF BecomesReady
  <2>2. Quiet(Net)
    BY <2>1 DEF LinesOf, Failures, Kinds
  <2>3. use' = "idle" /\ op' = None /\ handlers' = Tail(handlers) /\ Net' = Net
    BY <1>1, <2>1 DEF BecomesReady, object, network, Net
  <2>4. Lines("idle", None, Tail(handlers), Net)
    BY <2>1, <2>2 DEF Lines, Expiries, LinesOf, Kinds
  <2> QED
    BY <2>3, <2>4 DEF LinesInv
<1>2. CASE IsDiscarded(t)
  <2>1. Expiries(Tail(handlers))
    BY <1>2, LinesRun DEF IsDiscarded
  <2>2. use' = "gone" /\ handlers' = Tail(handlers)
    BY <1>2 DEF IsDiscarded, Destroy
  <2> QED
    BY <2>1, <2>2 DEF LinesInv, Lines, Expiries
<1>3. CASE Reconnects(t)
  <2>1. op = None /\ Expiries(Tail(handlers))
    BY <1>3, LinesRun DEF Reconnects
  <2> DEFINE h == Do("connect")
  <2>2. use' = "connecting" /\ op' = None /\ handlers' = Append(Tail(handlers), h)
    BY <1>3, <2>1 DEF Reconnects
  <2>3. Fresh(Net')
    BY <1>3 DEF Reconnects, Close, Fresh, Net
  <2>4. h.kind = "do" /\ h.what = "connect"
    BY DEF Do, Handler
  <2> HIDE DEF h
  <2>5. Lines("connecting", None, Append(Tail(handlers), h), Net')
    BY <2>1, <2>3, <2>4, LinesQueue DEF LinesOf, Kinds
  <2> QED
    BY <2>2, <2>5 DEF LinesInv
<1>4. CASE StartCommand
  <2>1. use = "idle" /\ op = None /\ m_state = "CONNECTED_AND_AUTHENTICATED"
        /\ IsQueue(handlers) /\ NoContinuation(handlers)
    BY <1>4 DEF StartCommand, ConnInv, ChainInv, Chain
  <2>2. Quiet(Net) /\ Expiries(handlers)
    BY <2>1, LinesAreExpiries DEF LinesInv, Lines
  <2>3. PICK what \in {"post", "stat"} : use' = what /\ handlers' = Append(handlers, Do(what))
    BY <1>4, <2>1 DEF StartCommand
  <2>4. op' = None /\ Net' = Net
    BY <1>4, <2>1 DEF StartCommand, Net
  <2>5. Do(what).kind = "do" /\ Do(what).what = what
    BY DEF Do, Handler
  <2>6. LinesOf(Do(what), Net)
    BY <2>2, <2>5 DEF LinesOf, Kinds
  <2>7. Lines(what, None, Append(handlers, Do(what)), Net)
    BY <2>2, <2>5, <2>6, LinesQueue
  <2> QED
    BY <2>3, <2>4, <2>7 DEF LinesInv
<1>5. CASE Quit
  <2>1. IsQueue(handlers)
    BY DEF ConnInv, ChainInv, Chain
  <2> DEFINE h == Io("quit", "error")
  <2>2. use' = "gone" /\ handlers' = Append(handlers, h)
    BY <1>5 DEF Quit, Destroy
  <2>3. h.kind = "io"
    BY DEF Io, Handler
  <2> HIDE DEF h
  <2>4. \A i \in DOMAIN Append(handlers, h) :
          (i \in DOMAIN handlers /\ Append(handlers, h)[i] = handlers[i]) \/ Append(handlers, h)[i] = h
    BY <2>1, AppendedHandler
  <2>5. Lines("gone", op', Append(handlers, h), Net')
    BY <2>3, <2>4 DEF LinesInv, Lines
  <2> QED
    BY <2>2, <2>5 DEF LinesInv
<1> QED
  BY <1>1, <1>2, <1>3, <1>4, <1>5

LEMMA LinesStep == ConnInv /\ LinesInv /\ [Next]_vars => LinesInv'
<1> SUFFICES ASSUME ConnInv, LinesInv, [Next]_vars PROVE LinesInv'
  OBVIOUS
<1>1. CASE NetworkMoves
  BY <1>1, NetworkKeepsLines
<1>2. ASSUME NEW t \in Threads, Run(t) PROVE LinesInv'
  BY <1>2, OperationsKeepLines, AnswersKeepLines, TimerKeepsLines, PoolKeepsLines DEF Run
<1>3. CASE Ended \/ UNCHANGED vars
  BY <1>3 DEF Ended, vars, object, service, owner, network, Net, LinesInv
<1> QED
  BY <1>1, <1>2, <1>3, ReactorKeepsLines, TimerKeepsLines, PoolKeepsLines DEF Next, NetworkMoves

LEMMA LinesInitially == Init => LinesInv
<1> SUFFICES ASSUME Init PROVE LinesInv
  OBVIOUS
<1> DEFINE h == Do("connect")
<1>1. h.kind = "do" /\ h.what = "connect"
  BY DEF Do, Handler
<1>2. handlers = Append(<<>>, h) /\ use = "connecting" /\ op = None
  BY DEF Init
<1>3. Expiries(<<>>)
  <2>1. <<>> \in Seq({})
    OBVIOUS
  <2> QED
    BY <2>1 DEF Expiries, IsQueue
<1> HIDE DEF h
<1>4. LinesOf(h, Net)
  BY <1>1 DEF LinesOf, Fresh, Net, Init, Kinds
<1>5. Lines(use, None, Append(<<>>, h), Net)
  BY <1>1, <1>2, <1>3, <1>4, LinesQueue
<1> QED
  BY <1>2, <1>5 DEF LinesInv

LEMMA LinesInvHolds == Spec => [](ConnInv /\ LinesInv)
<1>1. Init => LinesInv
  BY LinesInitially
<1>2. ConnInv /\ LinesInv /\ [Next]_vars => LinesInv'
  BY LinesStep
<1> QED
  BY <1>1, <1>2, ConnInvHolds, PTL DEF Spec

\* For any number of io threads, timeouts, resets and reconnects: the line a callback
\* looks at is the answer to what was sent before it, or the server's goodbye
\* (connection.cc:81-98 and 480-485, usenet.cc:162-250).
THEOREM LinesAreAnswers == Spec => []AnswersInStep
<1>1. ConnInv /\ LinesInv => AnswersInStep
  <2> SUFFICES ASSUME ConnInv, LinesInv, use # "gone", NEW i \in DOMAIN handlers,
                      handlers[i].what \in Reads, handlers[i].result = "all"
               PROVE  m_readbuf.to \in {handlers[i].what, "goodbye"}
    BY DEF AnswersInStep
  <2>1. handlers[i].kind # "expired"
    BY NamesDiffer DEF LinesInv, Lines
  <2>2. use \in WaitingUses
    BY <2>1 DEF ConnInv, BasicInv, ChainInv, Chain, NoContinuation
  <2>3. Fits(handlers[i], use, m_state)
    BY <2>1, <2>2 DEF ConnInv, ChainInv, Chain, NoContinuation
  <2>4. handlers[i].kind \in Kinds
    BY <2>2 DEF LinesInv, Lines, LinesOf, WaitingUses
  <2>5. handlers[i].kind = "io"
    BY <2>1, <2>2, <2>3, <2>4, NamesDiffer DEF Fits, WaitingUses, Kinds
  <2>6. LineRead(handlers[i].what, Net)
    BY <2>5 DEF LinesInv, Lines, LinesOf
  <2> QED
    BY <2>6 DEF LineRead, Net
<1> QED
  BY <1>1, LinesInvHolds, PTL

-----------------------------------------------------------------------------
(* What the pool is told, with one io thread.                               *)

\* What there is to be known of the article or message id.
Deal == [use |-> use, asked |-> asked, article |-> m_article, msgid |-> m_msgid,
         stored |-> stored, peer |-> peer, wire |-> wire, buf |-> m_readbuf]

TrueLine(l, d) == IF l.code = "2" THEN d.stored = d.asked ELSE d.stored = None

\* The members still have what the pool gave.
Given(d) == (d.use = "post" => d.article = d.asked) /\ (d.use = "stat" => d.msgid = d.asked)

TruthBefore(o, d) ==
  /\ o \in {"post", "post_answer", "article"} => d.stored = None
  /\ o = "article_answer" /\ d.peer # "rst" =>
       IF d.wire = <<>> THEN d.stored = None ELSE TrueLine(Head(d.wire), d)

TruthOf(h, d) ==
  /\ h.kind \in {"do", "io"} => Given(d)
  /\ h.kind = "do" /\ h.what = "post" => d.stored = None
  /\ h.kind = "io" /\ h.result = "some" => TruthBefore(h.what, d)
  /\ h.kind = "io" /\ h.result = "all" /\ h.what \notin Reads => TruthBefore(Following(h.what), d)
  /\ h.kind = "io" /\ h.result = "all" /\ h.what = "post_answer" => d.stored = None
  /\ h.kind = "io" /\ h.result = "all" /\ h.what = "article_answer" => TrueLine(d.buf, d)
  /\ h.kind = "answer" /\ d.use \in {"post", "stat"} =>
       /\ h.item = d.asked
       /\ h.result = "POST_SUCCESS" => d.stored = d.asked
       /\ h.result \in {"POST_FAILURE", "POSTING_NOT_PERMITTED"} => d.stored = None

\* A thread that has still to clear a member does it before the answer is handled.
Truth(o, hs, d, busy) ==
  d.use # "gone" =>
    /\ o # None => Given(d) /\ TruthBefore(o, d)
    /\ \A i \in DOMAIN hs : TruthOf(hs[i], d)
    /\ busy => /\ o = None /\ d.use \in {"post", "stat"}
               /\ \A i \in DOMAIN hs : hs[i].kind \in {"expired", "answer"}

Busy == \E t \in Threads : thread[t] # None

TruthInv == Truth(op, handlers, Deal, Busy)

\* The server that is about to answer an article has that of the post in progress.
SentInv ==
  /\ owed = "article_answer" => use = "post" /\ received = asked /\ stored = None
  /\ use \notin {"post", "stat"} => asked = None

OneThread == \A s, t \in Threads : s = t

LEMMA TruthQueue ==
  ASSUME NEW hs, Expiries(hs), NEW h, NEW d, TruthOf(h, d), NEW busy \in BOOLEAN,
         busy => d.use \in {"post", "stat"} /\ h.kind = "answer"
  PROVE  Truth(None, Append(hs, h), d, busy)
<1>1. \A i \in DOMAIN Append(hs, h) : (i \in DOMAIN hs /\ Append(hs, h)[i] = hs[i]) \/ Append(hs, h)[i] = h
  BY AppendedHandler DEF Expiries
<1>2. \A i \in DOMAIN hs : TruthOf(hs[i], d) /\ hs[i].kind = "expired"
  BY DEF Expiries, TruthOf
<1> QED
  BY <1>1, <1>2 DEF Truth

LEMMA TruthBegins ==
  ASSUME NEW hs, Expiries(hs), NEW o, NEW d, Given(d), TruthBefore(o, d)
  PROVE  Truth(o, hs, d, FALSE)
<1>1. \A i \in DOMAIN hs : TruthOf(hs[i], d)
  BY DEF Expiries, TruthOf
<1> QED
  BY <1>1 DEF Truth

-----------------------------------------------------------------------------
(* The server and the network.                                              *)

LEMMA StoredStays ==
  ASSUME NetworkMoves, owed # "article_answer"
  PROVE  stored' = stored
  BY DEF NetworkMoves, ServerAnswers, ServerCloses, ConnectionReset

LEMMA DealStays ==
  NetworkMoves => UNCHANGED <<use, op, handlers, asked, m_article, m_msgid, m_readbuf, thread>>
  BY DEF NetworkMoves, ServerAnswers, ServerCloses, ConnectionReset, object, service, owner

LEMMA ArticleTruthStays ==
  ASSUME NetworkMoves, LinesBefore("article_answer", Net), TruthBefore("article_answer", Deal), SentInv
  PROVE  TruthBefore("article_answer", Deal')
<1>1. Awaiting("article_answer", Net) /\ None # "article_answer"
  BY NamesDiffer DEF LinesBefore, Reads
<1>2. asked' = asked
  BY DealStays
<1>3. CASE ServerAnswers
  <2>1. owed = "article_answer" /\ wire = <<>> /\ peer = "up"
    BY <1>1, <1>3 DEF ServerAnswers, Awaiting, Net
  <2>2. stored = None /\ received = asked
    BY <2>1 DEF SentInv
  <2>3. PICK code \in Codes[owed] :
          /\ wire' = Append(wire, [to |-> owed, code |-> code])
          /\ stored' = IF owed = "article_answer" /\ code = "2" THEN received ELSE stored
    BY <1>3 DEF ServerAnswers
  <2> DEFINE l == [to |-> owed, code |-> code]
  <2>4. wire' = <<l>> /\ l.code = code
    BY <2>1, <2>3, ShortWires
  <2> HIDE DEF l
  <2>5. wire' # <<>> /\ Head(wire') = l
    BY <2>4, ShortWires
  <2>6. IF l.code = "2" THEN stored' = asked' ELSE stored' = None
    BY <1>2, <2>1, <2>2, <2>3, <2>4
  <2> QED
    BY <2>5, <2>6 DEF TruthBefore, TrueLine, Deal
<1>4. CASE ServerCloses
  <2>1. peer = "up" /\ stored' = stored /\ wire' \in {wire, Append(wire, Goodbye)}
    BY <1>4 DEF ServerCloses, Goodbye
  <2>2. CASE wire = <<>>
    <3>1. stored = None
      BY <2>1, <2>2 DEF TruthBefore, Deal
    <3>2. wire' = <<>> \/ (wire' # <<>> /\ Head(wire') = Goodbye)
      BY <2>1, <2>2, ShortWires
    <3> QED
      BY <2>1, <3>1, <3>2 DEF TruthBefore, TrueLine, Deal, Goodbye
  <2>3. CASE wire # <<>>
    <3>1. PICK l \in AnswerLines("article_answer") : wire = <<l>>
      BY <1>1, <2>1, <2>3 DEF Awaiting, WireFor, Net
    <3>2. Head(wire') = Head(wire) /\ wire' # <<>>
      BY <2>1, <3>1, ShortWires
    <3> QED
      BY <1>2, <2>1, <2>3, <3>2 DEF TruthBefore, TrueLine, Deal
  <2> QED
    BY <2>2, <2>3
<1>5. CASE ConnectionReset
  <2>1. peer' = "rst"
    BY <1>5 DEF ConnectionReset
  <2> QED
    BY <2>1 DEF TruthBefore, Deal
<1> QED
  BY <1>3, <1>4, <1>5 DEF NetworkMoves

LEMMA TruthBeforeStays ==
  ASSUME NetworkMoves, NEW o, LinesBefore(o, Net), TruthBefore(o, Deal), SentInv
  PROVE  TruthBefore(o, Deal')
<1>1. CASE o \in {"post", "post_answer", "article"}
  <2>1. owed # "article_answer"
    BY <1>1, NamesDiffer DEF LinesBefore, Quiet, Spent, Awaiting, Net, Writes, Reads
  <2> QED
    BY <1>1, <2>1, StoredStays DEF TruthBefore, Deal
<1>2. CASE o = "article_answer"
  BY <1>2, ArticleTruthStays
<1>3. CASE o \notin {"post", "post_answer", "article", "article_answer"}
  BY <1>3 DEF TruthBefore
<1> QED
  BY <1>1, <1>2, <1>3

LEMMA TruthOfStays ==
  ASSUME NetworkMoves, NEW h, LinesOf(h, Net), TruthOf(h, Deal), SentInv
  PROVE  TruthOf(h, Deal')
<1>1. Given(Deal') <=> Given(Deal)
  BY DealStays DEF Given, Deal
<1>2. Quiet(Net) \/ (\E r : LineRead(r, Net)) => stored' = stored
  BY StoredStays, NamesDiffer DEF Quiet, LineRead, Spent, Net, Reads
<1>3. CASE h.kind = "do"
  <2>1. h.what = "post" => Quiet(Net)
    BY <1>3 DEF LinesOf
  <2> QED
    BY <1>1, <1>2, <1>3, <2>1 DEF TruthOf, Deal
<1>4. CASE h.kind = "io"
  <2>1. Given(Deal)
    BY <1>4 DEF TruthOf
  <2>2. h.result = "some" => TruthBefore(h.what, Deal')
    BY <1>4, TruthBeforeStays DEF TruthOf, LinesOf
  <2>3. h.result = "all" /\ h.what \notin Reads => TruthBefore(Following(h.what), Deal')
    BY <1>4, TruthBeforeStays DEF TruthOf, LinesOf
  <2>4. h.result = "all" /\ h.what \in Reads => stored' = stored
    BY <1>2, <1>4 DEF LinesOf
  <2>5. {"post_answer", "article_answer"} \subseteq Reads
    BY DEF Reads
  <2>6. h.result = "all" /\ h.what = "post_answer" => Deal'.stored = None
    BY <1>4, <2>4, <2>5 DEF TruthOf, Deal
  <2>7. h.result = "all" /\ h.what = "article_answer" => TrueLine(Deal'.buf, Deal')
    BY <1>4, <2>4, <2>5, DealStays DEF TruthOf, TrueLine, Deal
  <2> QED
    BY <1>1, <1>4, <2>1, <2>2, <2>3, <2>6, <2>7 DEF TruthOf
<1>5. CASE h.kind = "answer"
  <2>1. h.result \in {"POST_SUCCESS", "POST_FAILURE", "POSTING_NOT_PERMITTED"} => stored' = stored
    BY <1>2, <1>5 DEF LinesOf, Failures
  <2> QED
    BY <1>5, <2>1, DealStays DEF TruthOf, Deal
<1>6. CASE h.kind = "expired"
  BY <1>6 DEF TruthOf
<1> QED
  BY <1>3, <1>4, <1>5, <1>6 DEF LinesOf, Kinds

LEMMA NetworkKeepsTruth ==
  ASSUME LinesInv, TruthInv, SentInv, NetworkMoves
  PROVE  TruthInv'
<1>1. UNCHANGED <<use, op, handlers, Busy>>
  BY DealStays DEF Busy
<1>2. Given(Deal') <=> Given(Deal)
  BY DealStays DEF Given, Deal
<1> SUFFICES ASSUME use # "gone" PROVE Truth(op, handlers, Deal', Busy)
  <2>1. CASE use = "gone"
    BY <1>1, <2>1 DEF TruthInv, Truth, Deal
  <2>2. CASE use # "gone"
    BY <1>1, <2>2 DEF TruthInv
  <2> QED
    BY <2>1, <2>2
<1>3. ASSUME op # None PROVE TruthBefore(op, Deal')
  <2>1. LinesBefore(op, Net) /\ TruthBefore(op, Deal)
    BY <1>3 DEF LinesInv, Lines, TruthInv, Truth, Deal
  <2> QED
    BY <2>1, TruthBeforeStays
<1>4. ASSUME NEW i \in DOMAIN handlers PROVE TruthOf(handlers[i], Deal')
  <2>1. LinesOf(handlers[i], Net) /\ TruthOf(handlers[i], Deal)
    BY DEF LinesInv, Lines, TruthInv, Truth, Deal
  <2> QED
    BY <2>1, TruthOfStays
<1>5. Deal'.use = use /\ Deal.use = use
  BY <1>1 DEF Deal
<1> QED
  BY <1>2, <1>3, <1>4, <1>5 DEF TruthInv, Truth

-----------------------------------------------------------------------------
(* The reactor.                                                             *)

LEMMA PendingTruth ==
  ASSUME ConnInv, LinesInv, TruthInv, op # None
  PROVE  Given(Deal) /\ TruthBefore(op, Deal) /\ ~Busy /\ use \in WaitingUses
<1>1. use \in WaitingUses
  BY Pending
<1> QED
  BY <1>1 DEF TruthInv, Truth, Deal, WaitingUses

LEMMA TruthCompletes ==
  ASSUME ConnInv, LinesInv, TruthInv, op # None, NEW result, Completes(result),
         TruthOf(Io(op, result), Deal')
  PROVE  TruthInv'
<1>1. Expiries(handlers) /\ ~Busy
  BY Pending, PendingTruth
<1>2. handlers' = Append(handlers, Io(op, result)) /\ op' = None /\ ~Busy'
  BY <1>1 DEF Completes, Busy
<1>3. Truth(None, Append(handlers, Io(op, result)), Deal', FALSE)
  BY <1>1, TruthQueue
<1> QED
  BY <1>2, <1>3 DEF TruthInv, Truth

LEMMA TruthOfIo ==
  ASSUME NEW o, NEW d, Given(d)
  PROVE  /\ TruthOf(Io(o, "error"), d)
         /\ TruthBefore(o, d) => TruthOf(Io(o, "some"), d)
         /\ o \notin Reads /\ TruthBefore(Following(o), d) => TruthOf(Io(o, "all"), d)
         /\ o \in Reads /\ (o = "post_answer" => d.stored = None)
              /\ (o = "article_answer" => TrueLine(d.buf, d)) => TruthOf(Io(o, "all"), d)
  BY DEF TruthOf, Io, Handler, Reads

LEMMA ReactorKeepsTruth ==
  ASSUME ConnInv, LinesInv, TruthInv, Reactor
  PROVE  TruthInv'
<1>1. /\ op # None
      /\ \E result : Completes(result)
  BY NoneIsNoOp DEF Reactor, ResolveEnds, ConnectEnds, HandshakeEnds, WriteEnds, ReadEnds,
                    Ops, ConnectOps, PostOps, StatOps, Reads, Writes
<1>2. op \in Ops /\ Given(Deal) /\ TruthBefore(op, Deal) /\ LinesBefore(op, Net)
  BY <1>1, Pending, PendingTruth
<1>3. UNCHANGED <<use, asked, m_article, m_msgid, stored>>
  BY <1>1 DEF Completes, owner
<1>4. Given(Deal')
  BY <1>2, <1>3 DEF Given, Deal
<1>5. CASE ResolveEnds \/ ConnectEnds \/ HandshakeEnds
  <2>1. op \in {"resolve", "connect", "handshake"}
    BY <1>5 DEF ResolveEnds, ConnectEnds, HandshakeEnds
  <2>2. PICK result \in {"error", "some", "all"} : Completes(result)
    BY <1>5 DEF ResolveEnds, ConnectEnds, HandshakeEnds
  <2>3. TruthBefore(op, Deal') /\ TruthBefore(Following(op), Deal') /\ op \notin Reads
    BY <2>1 DEF TruthBefore, Following, Writes, Reads
  <2>4. TruthOf(Io(op, result), Deal')
    BY <1>4, <2>2, <2>3, TruthOfIo
  <2> QED
    BY <1>1, <2>2, <2>4, TruthCompletes
<1>6. CASE WriteEnds
  <2>1. op \in Writes /\ op \notin Reads /\ UNCHANGED <<m_readbuf, peer, wire>> /\ Quiet(Net)
    BY <1>2, <1>6, NamesDiffer DEF WriteEnds, LinesBefore
  <2>2. PICK result \in {"error", "some", "all"} : Completes(result)
    BY <1>6 DEF WriteEnds
  <2>3. TruthBefore(op, Deal')
    BY <1>2, <1>3, <2>1 DEF TruthBefore, TrueLine, Deal
  <2>4. TruthBefore(Following(op), Deal')
    <3>1. Following(op) = AnswerTo[op]
      BY <2>1 DEF Following, Writes
    <3>2. CASE op = "post"
      BY <1>2, <1>3, <3>1, <3>2 DEF TruthBefore, AnswerTo, Deal
    <3>3. CASE op = "article"
      <4>1. Following(op) = "article_answer" /\ stored' = None
        BY <1>2, <1>3, <3>1, <3>3 DEF TruthBefore, AnswerTo, Deal
      <4>2. wire' = <<>> \/ (wire' # <<>> /\ Head(wire') = Goodbye)
        BY <2>1, ShortWires DEF Quiet, Spent, Net
      <4> QED
        BY <4>1, <4>2 DEF TruthBefore, TrueLine, Goodbye, Deal
    <3>4. CASE op \in {"user", "pass", "stat"}
      BY <3>1, <3>4 DEF TruthBefore, AnswerTo
    <3> QED
      BY <2>1, <3>2, <3>3, <3>4 DEF Writes
  <2>5. TruthOf(Io(op, result), Deal')
    BY <1>4, <2>1, <2>2, <2>3, <2>4, TruthOfIo
  <2> QED
    BY <1>1, <2>2, <2>5, TruthCompletes
<1>7. CASE ReadEnds
  <2>1. op \in Reads /\ Awaiting(op, Net) /\ UNCHANGED peer
    BY <1>2, <1>7, NamesDiffer DEF ReadEnds, LinesBefore
  <2>2. CASE Completes("error")
    BY <1>1, <1>4, <2>2, TruthOfIo, TruthCompletes
  <2>3. CASE Completes("some") /\ UNCHANGED wire
    <3>1. TruthBefore(op, Deal')
      BY <1>2, <1>3, <2>1, <2>3 DEF TruthBefore, TrueLine, Deal
    <3> QED
      BY <1>1, <1>4, <2>3, <3>1, TruthOfIo, TruthCompletes
  <2>4. CASE /\ wire # <<>> /\ Completes("all")
             /\ m_readbuf' = (IF m_readbuf = None THEN Head(wire) ELSE m_readbuf)
    <3>1. peer # "rst" /\ m_readbuf' = Head(wire)
      BY <2>1, <2>4 DEF Awaiting, Net
    <3>2. op = "post_answer" => Deal'.stored = None
      BY <1>2, <1>3 DEF TruthBefore, Deal
    <3>3. op = "article_answer" => TrueLine(Deal'.buf, Deal')
      BY <1>2, <1>3, <2>4, <3>1 DEF TruthBefore, TrueLine, Deal
    <3> QED
      BY <1>1, <1>4, <2>1, <2>4, <3>2, <3>3, TruthOfIo, TruthCompletes
  <2> QED
    BY <1>7, <2>2, <2>3, <2>4 DEF ReadEnds
<1> QED
  BY <1>5, <1>6, <1>7 DEF Reactor

-----------------------------------------------------------------------------
(* The io thread and the pool.                                              *)

\* A thread that runs a handler has cleared the member, and there is no other one.
LEMMA AloneIsIdle == ASSUME OneThread, NEW t \in Threads, thread[t] = None PROVE ~Busy
  BY DEF OneThread, Busy

LEMMA TruthRun ==
  ASSUME OneThread, ConnInv, LinesInv, TruthInv, NEW t \in Threads,
         NEW kind \in {"do", "io", "answer"}, NEW W, NEW R, Runs(t, kind, W, R)
  PROVE  /\ use \in WaitingUses /\ op = None /\ Fits(Running, use, m_state)
         /\ Running.kind = kind /\ Running.what \in W /\ Running.result \in R
         /\ Expiries(Tail(handlers)) /\ TruthOf(Running, Deal) /\ ~Busy
<1>1. /\ use \in WaitingUses /\ op = None /\ Fits(Running, use, m_state)
      /\ Running.kind = kind /\ Running.what \in W /\ Running.result \in R
      /\ Expiries(Tail(handlers))
  BY LinesRun
<1>2. IsQueue(handlers) /\ handlers # <<>> /\ thread[t] = None
  BY DEF ConnInv, ChainInv, Chain, Runs
<1>3. use # "gone" /\ 1 \in DOMAIN handlers /\ Running = handlers[1]
  BY <1>1, <1>2, FirstTaken DEF WaitingUses, Running
<1>4. TruthOf(Running, Deal)
  BY <1>3 DEF TruthInv, Truth, Deal
<1> QED
  BY <1>1, <1>2, <1>4, AloneIsIdle

LEMMA TruthGoesOn ==
  ASSUME NEW o, Expiries(Tail(handlers)), Given(Deal'), TruthBefore(o, Deal'), ~Busy, thread' = thread,
         op' = o, handlers' = Tail(handlers)
  PROVE  TruthInv'
<1>1. Truth(o, Tail(handlers), Deal', FALSE)
  BY TruthBegins
<1>2. ~Busy'
  BY DEF Busy
<1> QED
  BY <1>1, <1>2 DEF TruthInv, Truth

LEMMA OperationsKeepTruth ==
  ASSUME OneThread, ConnInv, LinesInv, TruthInv, NEW t \in Threads,
         RunDo(t) \/ IoGoesOn(t) \/ StepSucceeds(t)
  PROVE  TruthInv'
<1>0. UNCHANGED <<use, asked, m_article, m_msgid, stored, peer, wire, m_readbuf, thread>>
  BY DEF RunDo, IoGoesOn, StepSucceeds, object, network, owner
<1>1. Deal' = Deal
  BY <1>0 DEF Deal
<1>2. CASE RunDo(t)
  <2>1. CASE Runs(t, "do", {"connect"}, {None}) /\ op' = "resolve" /\ handlers' = Tail(handlers)
    <3>1. Expiries(Tail(handlers)) /\ Given(Deal) /\ ~Busy
      BY <2>1, TruthRun DEF TruthOf
    <3>2. TruthBefore("resolve", Deal)
      BY DEF TruthBefore
    <3> QED
      BY <1>0, <1>1, <2>1, <3>1, <3>2, TruthGoesOn
  <2>2. CASE Runs(t, "do", {"post", "stat"}, {None}) /\ Begin(Running.what)
    <3>1. /\ Expiries(Tail(handlers)) /\ TruthOf(Running, Deal) /\ ~Busy
          /\ Running.kind = "do" /\ Running.what \in {"post", "stat"}
      BY <2>2, TruthRun
    <3>2. Given(Deal) /\ TruthBefore(Running.what, Deal)
      BY <3>1 DEF TruthOf, TruthBefore
    <3> QED
      BY <1>0, <1>1, <2>2, <3>1, <3>2, TruthGoesOn DEF Begin
  <2> QED
    BY <1>2, <2>1, <2>2 DEF RunDo
<1>3. CASE IoGoesOn(t)
  <2>1. /\ Expiries(Tail(handlers)) /\ TruthOf(Running, Deal) /\ ~Busy
        /\ Running.kind = "io" /\ Running.result = "some"
    <3>1. Runs(t, "io", Composed, {"some"})
      BY <1>3 DEF IoGoesOn
    <3> QED
      BY <3>1, TruthRun
  <2>2. Given(Deal) /\ TruthBefore(Running.what, Deal)
    BY <2>1 DEF TruthOf
  <2>3. op' = Running.what /\ handlers' = Tail(handlers)
    BY <1>3 DEF IoGoesOn
  <2> QED
    BY <1>0, <1>1, <2>1, <2>2, <2>3, TruthGoesOn
<1>4. CASE StepSucceeds(t)
  <2>1. /\ Expiries(Tail(handlers)) /\ TruthOf(Running, Deal) /\ ~Busy
        /\ Running.kind = "io" /\ Running.result = "all"
        /\ Running.what \in {"resolve", "connect", "handshake"} \cup Writes
    <3>1. Runs(t, "io", {"resolve", "connect", "handshake"} \cup Writes, {"all"})
      BY <1>4 DEF StepSucceeds
    <3> QED
      BY <3>1, TruthRun
  <2>2. Given(Deal) /\ TruthBefore(Following(Running.what), Deal)
    BY <2>1, NamesDiffer DEF TruthOf
  <2>3. op' = Following(Running.what) /\ handlers' = Tail(handlers)
    BY <1>4 DEF StepSucceeds, Begin
  <2> QED
    BY <1>0, <1>1, <2>1, <2>2, <2>3, TruthGoesOn
<1> QED
  BY <1>2, <1>3, <1>4

\* The answer carries what the pool gave, and a result the server's line justifies.
LEMMA TruthAnswers ==
  ASSUME NEW t, NEW o \in Ops, NEW result, use = UseOf(o), Given(Deal),
         Answer(t, o, result), Expiries(Tail(handlers)), ~Busy,
         UNCHANGED <<use, asked, stored>>,
         result = "POST_SUCCESS" => stored = asked,
         result \in {"POST_FAILURE", "POSTING_NOT_PERMITTED"} => stored = None
  PROVE  TruthInv'
<1>1. CASE o \in ConnectOps
  <2>1. use = "connecting"
    BY <1>1 DEF UseOf, ConnectOps, PostOps, StatOps
  <2>2. AnswerConnect(t, o, result)
    BY <1>1 DEF Answer, ConnectOps, PostOps, StatOps
  <2> DEFINE h == Handler("answer", "connecting", result, None)
  <2>3. handlers' = Append(Tail(handlers), h) /\ op' = None /\ ~Busy'
    BY <2>2 DEF AnswerConnect, Busy
  <2>4. h.kind = "answer"
    BY DEF Handler
  <2> HIDE DEF h
  <2>5. TruthOf(h, Deal')
    BY <2>1, <2>4 DEF TruthOf, Deal
  <2>6. Truth(None, Append(Tail(handlers), h), Deal', FALSE)
    BY <2>5, TruthQueue
  <2> QED
    BY <2>3, <2>6 DEF TruthInv, Truth
<1>2. CASE o \in PostOps \cup StatOps
  <2>1. PICK item : /\ handlers' = Append(Tail(handlers), Handler("answer", use, result, item))
                    /\ op' = None /\ item = asked
    <3>1. CASE o \in PostOps
      <4>1. use = "post"
        BY <3>1 DEF UseOf, ConnectOps, PostOps, StatOps
      <4>2. AnswerCommand(t, "post", m_article, result)
        BY <3>1 DEF Answer, ConnectOps, PostOps, StatOps
      <4> QED
        BY <4>1, <4>2 DEF AnswerCommand, Given, Deal
    <3>2. CASE o \in StatOps
      <4>1. use = "stat"
        BY <3>2 DEF UseOf, ConnectOps, PostOps, StatOps
      <4>2. AnswerCommand(t, "stat", m_msgid, result)
        BY <3>2 DEF Answer, ConnectOps, PostOps, StatOps
      <4> QED
        BY <4>1, <4>2 DEF AnswerCommand, Given, Deal
    <3> QED
      BY <1>2, <3>1, <3>2
  <2>2. use \in {"post", "stat"}
    BY <1>2 DEF UseOf, ConnectOps, PostOps, StatOps
  <2> DEFINE h == Handler("answer", use, result, item)
  <2>3. h.kind = "answer" /\ h.item = item /\ h.result = result
    BY DEF Handler
  <2>4. handlers' = Append(Tail(handlers), h)
    BY <2>1
  <2> HIDE DEF h
  <2>5. TruthOf(h, Deal')
    BY <2>1, <2>2, <2>3 DEF TruthOf, Deal
  <2>6. Busy' \in BOOLEAN /\ Deal'.use \in {"post", "stat"}
    BY <2>2 DEF Busy, Deal
  <2>7. Truth(None, Append(Tail(handlers), h), Deal', Busy')
    BY <2>3, <2>5, <2>6, TruthQueue
  <2> QED
    BY <2>1, <2>4, <2>7 DEF TruthInv
<1> QED
  BY <1>1, <1>2 DEF Ops

LEMMA AnswersKeepTruth ==
  ASSUME OneThread, ConnInv, LinesInv, TruthInv, NEW t \in Threads, IoFails(t) \/ LineIsRead(t)
  PROVE  TruthInv'
<1>1. UNCHANGED <<use, asked, m_article, m_msgid, stored, peer, wire>>
  BY DEF IoFails, LineIsRead, network, owner
<1>2. CASE IoFails(t)
  <2>1. /\ Expiries(Tail(handlers)) /\ Given(Deal) /\ ~Busy
        /\ Running.what \in Ops /\ use = UseOf(Running.what)
    BY <1>2, TruthRun DEF IoFails, TruthOf, Fits
  <2>2. FailureOf(Running.what) \in Failures
    BY <2>1 DEF FailureOf, Failures, Ops, ConnectOps, PostOps, StatOps
  <2>3. Answer(t, Running.what, FailureOf(Running.what))
    BY <1>2 DEF IoFails
  <2>4. FailureOf(Running.what) \notin {"POST_SUCCESS", "POST_FAILURE", "POSTING_NOT_PERMITTED"}
    BY <2>2 DEF Failures
  <2> QED
    BY <1>1, <2>1, <2>3, <2>4, TruthAnswers
<1>3. CASE LineIsRead(t)
  <2>1. /\ Expiries(Tail(handlers)) /\ TruthOf(Running, Deal) /\ ~Busy
        /\ Running.kind = "io" /\ Running.result = "all" /\ Running.what \in Reads
        /\ Running.what \in Ops /\ use = UseOf(Running.what)
    BY <1>3, TruthRun DEF LineIsRead, Fits
  <2>2. /\ Given(Deal)
        /\ Running.what = "post_answer" => stored = None
        /\ Running.what = "article_answer" =>
             IF m_readbuf.code = "2" THEN stored = asked ELSE stored = None
    BY <2>1 DEF TruthOf, TrueLine, Deal
  <2> DEFINE next == Reaction(Running.what, m_readbuf.code)
  <2>3. (next \in Writes /\ Begin(next) /\ thread' = thread) \/ Answer(t, Running.what, next)
    BY <1>3 DEF LineIsRead
  <2>4. /\ next \in {"article", "POSTING_NOT_PERMITTED"} => Running.what = "post_answer"
        /\ next = "POST_SUCCESS" => Running.what = "article_answer" /\ m_readbuf.code = "2"
        /\ next = "POST_FAILURE" => Running.what = "article_answer" /\ m_readbuf.code # "2"
        /\ next # "post"
    BY <2>1 DEF Reaction, Reads
  <2> HIDE DEF next
  <2>5. CASE next \in Writes /\ Begin(next) /\ thread' = thread
    <3>1. TruthBefore(next, Deal')
      BY <1>1, <2>2, <2>4, <2>5 DEF TruthBefore, Deal, Writes
    <3>2. Given(Deal')
      BY <1>1, <2>2 DEF Given, Deal
    <3> QED
      BY <2>1, <2>5, <3>1, <3>2, TruthGoesOn DEF Begin
  <2>6. CASE Answer(t, Running.what, next)
    BY <1>1, <2>1, <2>2, <2>4, <2>6, TruthAnswers
  <2> QED
    BY <2>3, <2>5, <2>6
<1> QED
  BY <1>2, <1>3

LEMMA TakenTruth ==
  ASSUME NEW o, NEW hs, NEW d, NEW busy, IsQueue(hs), hs # <<>>, Truth(o, hs, d, busy)
  PROVE  Truth(o, Tail(hs), d, busy)
<1>1. \A i \in DOMAIN Tail(hs) : i + 1 \in DOMAIN hs /\ Tail(hs)[i] = hs[i + 1]
  BY FirstTaken
<1> QED
  BY <1>1 DEF Truth

LEMMA TimerKeepsTruth ==
  ASSUME OneThread, ConnInv, LinesInv, TruthInv, NEW t \in Threads,
         TimerExpires \/ RunExpired(t) \/ RunOnDestroyed(t) \/ Clear(t)
  PROVE  TruthInv'
<1>0. IsQueue(handlers)
  BY DEF ConnInv, ChainInv, Chain
<1>1. CASE TimerExpires
  <2>1. Expired.kind = "expired"
    BY DEF Expired, Handler
  <2>2. handlers' = Append(handlers, Expired) /\ op' = op /\ Deal' = Deal /\ Busy' = Busy
    BY <1>1 DEF TimerExpires, owner, object, network, Deal, Busy
  <2>3. \A i \in DOMAIN Append(handlers, Expired) :
          (i \in DOMAIN handlers /\ Append(handlers, Expired)[i] = handlers[i]) \/ Append(handlers, Expired)[i] = Expired
    BY <1>0, AppendedHandler
  <2>4. TruthOf(Expired, Deal)
    BY <2>1 DEF TruthOf
  <2>5. Truth(op, Append(handlers, Expired), Deal, Busy)
    BY <2>1, <2>3, <2>4 DEF TruthInv, Truth
  <2> QED
    BY <2>2, <2>5 DEF TruthInv
<1>2. CASE RunExpired(t)
  <2>1. handlers # <<>> /\ Deal' = Deal /\ Busy' = Busy /\ thread[t] = None
    BY <1>2 DEF RunExpired, Runs, owner, object, network, Deal, Busy
  <2>2. CASE op \notin {None, "resolve"}
    <3>1. handlers' = Append(Tail(handlers), Io(op, "error")) /\ op' = None
      BY <1>2, <2>2 DEF RunExpired
    <3>2. Expiries(handlers) /\ Given(Deal) /\ ~Busy
      BY <2>2, Pending, PendingTruth
    <3>3. Expiries(Tail(handlers))
      BY <2>1, <3>2, FirstTaken DEF Expiries
    <3>4. TruthOf(Io(op, "error"), Deal)
      BY <3>2, TruthOfIo
    <3>5. Truth(None, Append(Tail(handlers), Io(op, "error")), Deal, FALSE)
      BY <3>3, <3>4, TruthQueue
    <3> QED
      BY <2>1, <3>1, <3>2, <3>5 DEF TruthInv, Truth
  <2>3. CASE op \in {None, "resolve"}
    <3>1. handlers' = Tail(handlers) /\ op' = op
      BY <1>2, <2>3 DEF RunExpired
    <3> QED
      BY <1>0, <2>1, <3>1, TakenTruth DEF TruthInv
  <2> QED
    BY <2>2, <2>3
<1>3. CASE RunOnDestroyed(t)
  <2>1. use' = "gone"
    BY <1>3 DEF RunOnDestroyed, owner
  <2> QED
    BY <2>1 DEF TruthInv, Truth, Deal
<1>4. CASE Clear(t)
  <2>1. Busy /\ ~Busy'
    <3>1. thread[t] # None /\ thread' = [thread EXCEPT ![t] = None]
      BY <1>4 DEF Clear
    <3>2. \A s \in Threads : s = t
      BY DEF OneThread
    <3>3. thread \in [Threads -> {"post", "stat", None}]
      BY DEF ConnInv, BasicInv
    <3> QED
      BY <3>1, <3>2, <3>3 DEF Busy
  <2>2. UNCHANGED <<op, handlers, use, asked, stored>>
    BY <1>4 DEF Clear, service, owner, network
  <2>3. CASE use = "gone"
    BY <2>2, <2>3 DEF TruthInv, Truth, Deal
  <2>4. CASE use # "gone"
    <3>1. op = None /\ \A i \in DOMAIN handlers : /\ handlers[i].kind \in {"expired", "answer"}
                                                  /\ TruthOf(handlers[i], Deal)
      BY <2>1, <2>4 DEF TruthInv, Truth, Deal
    <3>2. \A i \in DOMAIN handlers : TruthOf(handlers[i], Deal')
      BY <2>2, <3>1 DEF TruthOf, Deal
    <3> QED
      BY <2>1, <2>2, <3>1, <3>2 DEF TruthInv, Truth
  <2> QED
    BY <2>3, <2>4
<1> QED
  BY <1>1, <1>2, <1>3, <1>4

LEMMA PoolKeepsTruth ==
  ASSUME OneThread, ConnInv, LinesInv, TruthInv, NEW t \in Threads,
         BecomesReady(t) \/ IsDiscarded(t) \/ Reconnects(t) \/ StartCommand \/ Quit
  PROVE  TruthInv'
<1>1. CASE IsDiscarded(t) \/ Quit
  <2>1. use' = "gone"
    BY <1>1 DEF IsDiscarded, Quit, Destroy
  <2> QED
    BY <2>1 DEF TruthInv, Truth, Deal
<1>2. CASE BecomesReady(t)
  <2>1. op = None /\ Expiries(Tail(handlers)) /\ ~Busy
    BY <1>2, TruthRun DEF BecomesReady
  <2>2. op' = None /\ handlers' = Tail(handlers) /\ ~Busy'
    BY <1>2, <2>1 DEF BecomesReady, Busy
  <2>3. \A i \in DOMAIN Tail(handlers) : TruthOf(Tail(handlers)[i], Deal')
    BY <2>1 DEF Expiries, TruthOf
  <2> QED
    BY <2>2, <2>3 DEF TruthInv, Truth
<1>3. CASE Reconnects(t)
  <2>1. op = None /\ Expiries(Tail(handlers)) /\ ~Busy
    BY <1>3, TruthRun DEF Reconnects
  <2>2. /\ op' = None /\ handlers' = Append(Tail(handlers), Do("connect"))
        /\ use' = "connecting" /\ ~Busy'
    BY <1>3, <2>1 DEF Reconnects, Busy
  <2>3. Do("connect").kind = "do" /\ Do("connect").what = "connect"
    BY DEF Do, Handler
  <2>4. TruthOf(Do("connect"), Deal')
    BY <2>2, <2>3 DEF TruthOf, Given, Deal
  <2>5. Truth(None, Append(Tail(handlers), Do("connect")), Deal', FALSE)
    BY <2>1, <2>4, TruthQueue
  <2> QED
    BY <2>2, <2>5 DEF TruthInv, Truth
<1>4. CASE StartCommand
  <2>1. use = "idle" /\ op = None /\ m_state = "CONNECTED_AND_AUTHENTICATED"
        /\ IsQueue(handlers) /\ NoContinuation(handlers)
    BY <1>4 DEF StartCommand, ConnInv, ChainInv, Chain
  <2>2. Expiries(handlers) /\ ~Busy
    BY <2>1, LinesAreExpiries DEF LinesInv, TruthInv, Truth, Deal
  <2>3. PICK what \in {"post", "stat"} :
          /\ use' = what /\ handlers' = Append(handlers, Do(what)) /\ stored' = None
          /\ what = "post" => m_article' = asked'
          /\ what = "stat" => m_msgid' = asked'
    BY <1>4, <2>1 DEF StartCommand
  <2>4. op' = None /\ ~Busy'
    BY <1>4, <2>1, <2>2 DEF StartCommand, Busy
  <2>5. Do(what).kind = "do" /\ Do(what).what = what
    BY DEF Do, Handler
  <2>6. TruthOf(Do(what), Deal')
    BY <2>3, <2>5 DEF TruthOf, Given, Deal
  <2>7. Truth(None, Append(handlers, Do(what)), Deal', FALSE)
    BY <2>2, <2>6, TruthQueue
  <2> QED
    BY <2>3, <2>4, <2>7 DEF TruthInv, Truth
<1> QED
  BY <1>1, <1>2, <1>3, <1>4

-----------------------------------------------------------------------------
(* What the server is about to answer.                                      *)

LEMMA NothingOwedStays ==
  ASSUME SentInv, owed' \in {owed, None, "greeting", "user_answer", "pass_answer", "post_answer", "stat_answer"},
         UNCHANGED <<use, asked, received, stored>>
  PROVE  SentInv'
<1>1. None # "article_answer"
  BY NamesDiffer DEF Reads
<1> QED
  BY <1>1 DEF SentInv

LEMMA ReactorKeepsSent == ASSUME ConnInv, LinesInv, TruthInv, SentInv, Reactor PROVE SentInv'
<1>1. \E result : Completes(result)
  BY DEF Reactor, ResolveEnds, ConnectEnds, HandshakeEnds, WriteEnds, ReadEnds
<1>2. UNCHANGED <<use, asked, stored>>
  BY <1>1 DEF Completes, owner
<1>3. CASE ~WriteEnds
  <2>1. received' = received /\ owed' \in {owed, None, "greeting"}
    BY <1>3 DEF Reactor, ResolveEnds, ConnectEnds, HandshakeEnds, ReadEnds
  <2> QED
    BY <1>2, <2>1, NothingOwedStays
<1>4. CASE WriteEnds /\ op = "article"
  <2>1. op # None /\ op \in PostOps
    BY <1>4, NamesDiffer DEF Writes, PostOps
  <2>2. use = "post" /\ Quiet(Net)
    <3>1. use = UseOf(op) /\ LinesBefore(op, Net)
      BY <2>1, Pending
    <3>2. UseOf("article") = "post"
      BY DEF UseOf, ConnectOps, PostOps, StatOps
    <3> QED
      BY <1>4, <3>1, <3>2 DEF LinesBefore, Writes
  <2>3. m_article = asked /\ stored = None
    BY <1>4, <2>1, <2>2, PendingTruth DEF Given, TruthBefore, Deal
  <2>4. owed = None
    BY <2>2 DEF Quiet, Spent, Net
  <2>5. (owed' = owed /\ received' = received) \/ received' = m_article
    BY <1>4 DEF WriteEnds
  <2>6. None # "article_answer"
    BY NamesDiffer DEF Reads
  <2> QED
    BY <1>2, <2>2, <2>3, <2>4, <2>5, <2>6 DEF SentInv
<1>5. CASE WriteEnds /\ op # "article"
  <2>1. received' = received
    BY <1>5 DEF WriteEnds
  <2>2. owed' \in {owed, None, "user_answer", "pass_answer", "post_answer", "stat_answer"}
    BY <1>5 DEF WriteEnds, Writes, AnswerTo
  <2> QED
    BY <1>2, <2>1, <2>2, NothingOwedStays
<1> QED
  BY <1>3, <1>4, <1>5

LEMMA PoolKeepsSent ==
  ASSUME ConnInv, LinesInv, SentInv, NEW t,
         BecomesReady(t) \/ IsDiscarded(t) \/ Reconnects(t) \/ StartCommand \/ Quit
  PROVE  SentInv'
<1>0. None # "article_answer"
  BY NamesDiffer DEF Reads
<1>1. CASE BecomesReady(t)
  <2>1. LinesOf(Running, Net) /\ Running.kind = "answer" /\ Running.result \notin Failures
    BY <1>1, LinesRun DEF BecomesReady, Failures
  <2>2. owed = None /\ owed' = owed /\ asked' = None
    BY <1>1, <2>1 DEF LinesOf, Quiet, Spent, Net, Kinds, BecomesReady, network
  <2> QED
    BY <1>0, <2>2 DEF SentInv
<1>2. CASE IsDiscarded(t) \/ Reconnects(t) \/ Quit
  <2>1. owed' = None /\ asked' = None
    BY <1>2 DEF IsDiscarded, Reconnects, Quit, Destroy, Close
  <2> QED
    BY <1>0, <2>1 DEF SentInv
<1>3. CASE StartCommand
  <2>1. use = "idle" /\ use' \in {"post", "stat"} /\ owed' = owed
    BY <1>3 DEF StartCommand
  <2>2. owed = None
    BY <2>1 DEF LinesInv, Lines, Quiet, Spent, Net
  <2> QED
    BY <1>0, <2>1, <2>2 DEF SentInv
<1> QED
  BY <1>1, <1>2, <1>3

LEMMA SentStep == ConnInv /\ LinesInv /\ TruthInv /\ SentInv /\ [Next]_vars => SentInv'
<1> SUFFICES ASSUME ConnInv, LinesInv, TruthInv, SentInv, [Next]_vars PROVE SentInv'
  OBVIOUS
<1>0. None # "article_answer"
  BY NamesDiffer DEF Reads
<1>1. CASE NetworkMoves
  <2>1. owed' = None
    BY <1>1 DEF NetworkMoves, ServerAnswers, ServerCloses, ConnectionReset
  <2> QED
    BY <1>0, <1>1, <2>1, DealStays DEF SentInv
<1>2. ASSUME NEW t \in Threads, Run(t) PROVE SentInv'
  <2>1. CASE BecomesReady(t) \/ IsDiscarded(t) \/ Reconnects(t)
    BY <2>1, PoolKeepsSent
  <2>2. CASE ~(BecomesReady(t) \/ IsDiscarded(t) \/ Reconnects(t))
    <3>1. UNCHANGED <<use, asked, owed, received, stored>>
      BY <1>2, <2>2 DEF Run, RunDo, IoGoesOn, IoFails, StepSucceeds, LineIsRead, RunExpired, RunOnDestroyed,
                        Clear, network, owner
    <3> QED
      BY <3>1 DEF SentInv
  <2> QED
    BY <2>1, <2>2
<1>3. CASE TimerExpires \/ Ended \/ UNCHANGED vars
  BY <1>3 DEF TimerExpires, Ended, vars, network, owner, SentInv
<1>4. CASE StartCommand \/ Quit
  BY <1>4, PoolKeepsSent
<1> QED
  BY <1>1, <1>2, <1>3, <1>4, ReactorKeepsSent DEF Next, NetworkMoves

LEMMA TruthStep == OneThread /\ ConnInv /\ LinesInv /\ TruthInv /\ SentInv /\ [Next]_vars => TruthInv'
<1> SUFFICES ASSUME OneThread, ConnInv, LinesInv, TruthInv, SentInv, [Next]_vars PROVE TruthInv'
  OBVIOUS
<1>1. CASE NetworkMoves
  BY <1>1, NetworkKeepsTruth
<1>2. ASSUME NEW t \in Threads, Run(t) PROVE TruthInv'
  BY <1>2, OperationsKeepTruth, AnswersKeepTruth, TimerKeepsTruth, PoolKeepsTruth DEF Run
<1>3. CASE TimerExpires \/ StartCommand \/ Quit
  <2>1. PICK t : t \in Threads
    BY ConnectionAssumption
  <2> QED
    BY <1>3, <2>1, TimerKeepsTruth, PoolKeepsTruth
<1>4. CASE Ended \/ UNCHANGED vars
  BY <1>4 DEF Ended, vars, object, service, owner, network, Deal, Busy, TruthInv
<1> QED
  BY <1>1, <1>2, <1>3, <1>4, ReactorKeepsTruth DEF Next, NetworkMoves

LEMMA TruthInitially == Init => TruthInv
<1> SUFFICES ASSUME Init PROVE TruthInv
  OBVIOUS
<1>1. handlers = <<Do("connect")>> /\ use = "connecting" /\ op = None /\ ~Busy
  BY DEF Init, Busy
<1>2. Do("connect").kind = "do" /\ Do("connect").what = "connect"
  BY DEF Do, Handler
<1>3. TruthOf(Do("connect"), Deal)
  BY <1>1, <1>2 DEF TruthOf, Given, Deal
<1>4. Expiries(<<>>)
  <2>1. <<>> \in Seq({})
    OBVIOUS
  <2> QED
    BY <2>1 DEF Expiries, IsQueue
<1>5. Truth(None, Append(<<>>, Do("connect")), Deal, FALSE)
  BY <1>3, <1>4, TruthQueue
<1> QED
  BY <1>1, <1>5, ShortWires DEF TruthInv, Truth

LEMMA TruthHolds == ASSUME OneThread PROVE Spec => [](ConnInv /\ LinesInv /\ TruthInv /\ SentInv)
<1>1. Init => TruthInv /\ SentInv
  <2>1. Init => SentInv
    BY NamesDiffer DEF Init, SentInv, Reads
  <2> QED
    BY <2>1, TruthInitially
<1>2. ConnInv /\ LinesInv /\ TruthInv /\ SentInv /\ [Next]_vars => TruthInv' /\ SentInv'
  BY TruthStep, SentStep
<1> QED
  BY <1>1, <1>2, LinesInvHolds, PTL DEF Spec

LEMMA AnswersAreTold == ConnInv /\ TruthInv => AnswersAreTrue
<1> SUFFICES ASSUME ConnInv, TruthInv, NEW i \in DOMAIN handlers,
                    handlers[i].kind = "answer", handlers[i].what # "connecting"
             PROVE  /\ handlers[i].item = asked
                    /\ handlers[i].result = "POST_SUCCESS" => stored = asked
                    /\ handlers[i].result \in {"POST_FAILURE", "POSTING_NOT_PERMITTED"} => stored = None
  BY DEF AnswersAreTrue
<1>1. use \in WaitingUses
  BY DEF ConnInv, BasicInv, ChainInv, Chain, NoContinuation
<1>2. use \in {"post", "stat"}
  BY <1>1 DEF ConnInv, BasicInv, ChainInv, Chain, NoContinuation, Fits, WaitingUses
<1> QED
  BY <1>2 DEF TruthInv, Truth, TruthOf, Deal

\* With one io thread (the default): an answer is about the article or message id of
\* the operation, and the article is stored if and only if POST_SUCCESS is answered,
\* connection errors apart (connection.cc:265-278 and 390-406).
THEOREM AnswersTell ==
  ASSUME OneThread
  PROVE  Spec => []AnswersAreTrue
BY AnswersAreTold, TruthHolds, PTL

-----------------------------------------------------------------------------
(* What crashes the program, with one io thread.                            *)

\* Nothing but the resolver has been asked since the socket was closed.
Early(h) ==
  /\ h.kind = "io" => h.what = "resolve"
  /\ h.kind = "answer" => h.result # "CONNECT_SUCCESS"

Unconnected(u, o, hs) ==
  u = "connecting" /\ o \in {None, "resolve"} /\ \A i \in DOMAIN hs : Early(hs[i])

SocketInv == sock = "closed" /\ use # "gone" => Unconnected(use, op, handlers)

CrashInv == SocketInv /\ (use = "post" => asked \in Items) /\ OnlyStaleTimersCrash

LEMMA EarlyQueued ==
  ASSUME NEW hs, IsQueue(hs), \A i \in DOMAIN hs : Early(hs[i]), NEW h, Early(h)
  PROVE  \A i \in DOMAIN Append(hs, h) : Early(Append(hs, h)[i])
BY AppendedHandler

LEMMA EarlyTaken ==
  ASSUME NEW hs, IsQueue(hs), hs # <<>>, \A i \in DOMAIN hs : Early(hs[i])
  PROVE  Early(Head(hs)) /\ \A i \in DOMAIN Tail(hs) : Early(Tail(hs)[i])
BY FirstTaken

\* Whatever the reactor completes on a closed socket is a resolve.
LEMMA ReactorKeepsSocket == ASSUME ConnInv, SocketInv, Reactor PROVE SocketInv'
<1>1. PICK result : Completes(result)
  BY DEF Reactor, ResolveEnds, ConnectEnds, HandshakeEnds, WriteEnds, ReadEnds
<1>2. handlers' = Append(handlers, Io(op, result)) /\ op' = None /\ use' = use /\ sock' = sock
  BY <1>1 DEF Completes, owner
<1>3. op # None
  BY NoneIsNoOp DEF Reactor, ResolveEnds, ConnectEnds, HandshakeEnds, WriteEnds, ReadEnds,
                    Ops, ConnectOps, PostOps, StatOps, Reads, Writes
<1> SUFFICES ASSUME sock = "closed", use # "gone" PROVE Unconnected(use, None, handlers')
  BY <1>2 DEF SocketInv
<1>4. use = "connecting" /\ op = "resolve" /\ \A i \in DOMAIN handlers : Early(handlers[i])
  BY <1>3 DEF SocketInv, Unconnected
<1>5. Early(Io(op, result))
  BY <1>4 DEF Early, Io, Handler
<1>6. IsQueue(handlers)
  BY DEF ConnInv, ChainInv, Chain
<1> QED
  BY <1>2, <1>4, <1>5, <1>6, EarlyQueued DEF Unconnected

\* A handler that goes on with an operation, or answers it.
LEMMA OperationsKeepSocket ==
  ASSUME ConnInv, SocketInv, NEW t,
         RunDo(t) \/ IoGoesOn(t) \/ IoFails(t) \/ StepSucceeds(t) \/ LineIsRead(t)
  PROVE  SocketInv'
<1>0. UNCHANGED <<use, asked>> /\ (sock' = "closed" => sock = "closed") /\ IsQueue(handlers)
  BY DEF RunDo, IoGoesOn, IoFails, StepSucceeds, LineIsRead, network, owner, ConnInv, ChainInv, Chain
<1> SUFFICES ASSUME sock = "closed", use # "gone", sock' = "closed" PROVE Unconnected("connecting", op', handlers')
  BY <1>0 DEF SocketInv, Unconnected
<1>1. use = "connecting" /\ op \in {None, "resolve"} /\ \A i \in DOMAIN handlers : Early(handlers[i])
  BY DEF SocketInv, Unconnected
<1>2. handlers # <<>>
  BY DEF RunDo, IoGoesOn, IoFails, StepSucceeds, LineIsRead, Runs
<1>3. Early(Running) /\ IsQueue(Tail(handlers)) /\ \A i \in DOMAIN Tail(handlers) : Early(Tail(handlers)[i])
  BY <1>0, <1>1, <1>2, EarlyTaken, FirstTaken DEF Running
<1>4. CASE RunDo(t)
  <2>1. CASE Runs(t, "do", {"connect"}, {None}) /\ op' = "resolve" /\ handlers' = Tail(handlers)
    BY <1>3, <2>1 DEF Unconnected
  <2>2. CASE Runs(t, "do", {"post", "stat"}, {None})
    <3>1. Fits(Running, use, m_state) /\ Running.kind = "do" /\ Running.what \in {"post", "stat"}
      BY <2>2, ContinuationRuns
    <3> QED
      BY <1>1, <3>1 DEF Fits
  <2> QED
    BY <1>4, <2>1, <2>2 DEF RunDo
<1>5. ~IoGoesOn(t) /\ ~LineIsRead(t)
  BY <1>3 DEF IoGoesOn, LineIsRead, Runs, Running, Early, Composed, Reads
<1>6. CASE IoFails(t)
  <2>1. Running.what = "resolve" /\ Answer(t, Running.what, FailureOf(Running.what))
    BY <1>3, <1>6 DEF IoFails, Runs, Running, Early
  <2>2. AnswerConnect(t, "resolve", "FATAL_CONNECT_ERROR")
    BY <2>1 DEF Answer, FailureOf, ConnectOps, PostOps, StatOps
  <2> DEFINE h == Handler("answer", "connecting", "FATAL_CONNECT_ERROR", None)
  <2>3. handlers' = Append(Tail(handlers), h) /\ op' = None
    BY <2>2 DEF AnswerConnect
  <2>4. Early(h)
    BY DEF Early, Handler
  <2> HIDE DEF h
  <2> QED
    BY <1>3, <2>3, <2>4, EarlyQueued DEF Unconnected
<1>7. CASE StepSucceeds(t)
  <2>1. Running.what = "resolve"
    BY <1>3, <1>7 DEF StepSucceeds, Runs, Running, Early
  <2> QED
    BY <1>7, <2>1 DEF StepSucceeds
<1> QED
  BY <1>4, <1>5, <1>6, <1>7

LEMMA TimerKeepsSocket ==
  ASSUME ConnInv, SocketInv, NEW t, TimerExpires \/ RunExpired(t) \/ RunOnDestroyed(t) \/ Clear(t)
  PROVE  SocketInv'
<1>0. UNCHANGED <<use, sock>> /\ IsQueue(handlers)
  BY DEF TimerExpires, RunExpired, RunOnDestroyed, Clear, network, owner, ConnInv, ChainInv, Chain
<1> SUFFICES ASSUME sock = "closed", use # "gone" PROVE Unconnected(use, op', handlers')
  BY <1>0 DEF SocketInv
<1>1. use = "connecting" /\ op \in {None, "resolve"} /\ \A i \in DOMAIN handlers : Early(handlers[i])
  BY DEF SocketInv, Unconnected
<1>2. CASE TimerExpires
  <2>1. Early(Expired)
    BY DEF Early, Expired, Handler
  <2>2. handlers' = Append(handlers, Expired) /\ op' = op
    BY <1>2 DEF TimerExpires
  <2> QED
    BY <1>0, <1>1, <2>1, <2>2, EarlyQueued DEF Unconnected
<1>3. CASE RunExpired(t)
  <2>1. handlers # <<>> /\ handlers' = Tail(handlers) /\ op' = op
    BY <1>1, <1>3 DEF RunExpired, Runs
  <2> QED
    BY <1>0, <1>1, <2>1, EarlyTaken DEF Unconnected
<1>4. ~RunOnDestroyed(t)
  BY DEF RunOnDestroyed
<1>5. CASE Clear(t)
  BY <1>1, <1>5 DEF Clear, service, Unconnected
<1> QED
  BY <1>2, <1>3, <1>4, <1>5

LEMMA PoolKeepsSocket ==
  ASSUME ConnInv, SocketInv, NEW t, BecomesReady(t) \/ IsDiscarded(t) \/ Reconnects(t) \/ StartCommand \/ Quit
  PROVE  SocketInv'
<1>1. IsQueue(handlers)
  BY DEF ConnInv, ChainInv, Chain
<1>2. CASE BecomesReady(t)
  <2>1. /\ use \in WaitingUses /\ Fits(Running, use, m_state) /\ Running.kind = "answer" /\ handlers # <<>>
        /\ Running.result \in {"CONNECT_SUCCESS", "POST_SUCCESS", "POST_FAILURE", "ARTICLE_EXISTS", "INVALID_ARTICLE"}
    BY <1>2, ContinuationRuns DEF BecomesReady, Runs
  <2>2. sock' = sock /\ use # "gone"
    BY <1>2, <2>1 DEF BecomesReady, network, WaitingUses
  <2>3. ASSUME sock = "closed" PROVE FALSE
    <3>1. use = "connecting" /\ \A i \in DOMAIN handlers : Early(handlers[i])
      BY <2>2, <2>3 DEF SocketInv, Unconnected
    <3>2. Early(Running)
      BY <1>1, <2>1, <3>1, EarlyTaken DEF Running
    <3> QED
      BY <2>1, <3>1, <3>2 DEF Early, Fits, Results
  <2> QED
    BY <2>2, <2>3 DEF SocketInv
<1>3. CASE IsDiscarded(t) \/ Quit
  BY <1>3 DEF IsDiscarded, Quit, Destroy, SocketInv
<1>4. CASE Reconnects(t)
  <2>1. op = None /\ IsQueue(Tail(handlers)) /\ NoContinuation(Tail(handlers))
    BY <1>4, ContinuationRuns DEF Reconnects
  <2> DEFINE h == Do("connect")
  <2>2. use' = "connecting" /\ op' = None /\ handlers' = Append(Tail(handlers), h)
    BY <1>4, <2>1 DEF Reconnects
  <2>3. Early(h)
    BY DEF Early, Do, Handler
  <2> HIDE DEF h
  <2>4. \A i \in DOMAIN Tail(handlers) : Early(Tail(handlers)[i])
    BY <2>1 DEF NoContinuation, Early
  <2> QED
    BY <2>1, <2>2, <2>3, <2>4, EarlyQueued DEF SocketInv, Unconnected
<1>5. CASE StartCommand
  <2>1. use = "idle" /\ sock' = sock
    BY <1>5 DEF StartCommand
  <2> QED
    BY <2>1 DEF SocketInv, Unconnected
<1> QED
  BY <1>2, <1>3, <1>4, <1>5

LEMMA SocketStep == ConnInv /\ SocketInv /\ [Next]_vars => SocketInv'
<1> SUFFICES ASSUME ConnInv, SocketInv, [Next]_vars PROVE SocketInv'
  OBVIOUS
<1>1. CASE NetworkMoves \/ Ended \/ UNCHANGED vars
  BY <1>1 DEF NetworkMoves, ServerAnswers, ServerCloses, ConnectionReset, Ended, vars, network, service, owner,
              SocketInv
<1>2. ASSUME NEW t \in Threads, Run(t) PROVE SocketInv'
  BY <1>2, OperationsKeepSocket, TimerKeepsSocket, PoolKeepsSocket DEF Run
<1> QED
  BY <1>1, <1>2, ReactorKeepsSocket, TimerKeepsSocket, PoolKeepsSocket DEF Next, NetworkMoves

\* A post is given an article, and keeps it until it has been answered.
LEMMA AskedStep == (use = "post" => asked \in Items) /\ [Next]_vars => (use' = "post" => asked' \in Items)
<1> SUFFICES ASSUME use = "post" => asked \in Items, [Next]_vars, use' = "post" PROVE asked' \in Items
  OBVIOUS
<1>1. CASE StartCommand
  BY <1>1 DEF StartCommand
<1>2. CASE Quit
  BY <1>2 DEF Quit, Destroy
<1>3. ASSUME NEW t \in Threads, BecomesReady(t) \/ IsDiscarded(t) \/ Reconnects(t) PROVE FALSE
  BY <1>3 DEF BecomesReady, IsDiscarded, Reconnects, Destroy
<1>4. CASE UNCHANGED owner
  BY <1>4 DEF owner
<1>5. \/ UNCHANGED owner \/ StartCommand \/ Quit
      \/ \E t \in Threads : BecomesReady(t) \/ IsDiscarded(t) \/ Reconnects(t)
  BY DEF Next, Reactor, Run, ServerAnswers, ServerCloses, ConnectionReset, ResolveEnds, ConnectEnds, HandshakeEnds,
         WriteEnds, ReadEnds, Completes, TimerExpires, RunDo, IoGoesOn, IoFails, StepSucceeds, LineIsRead,
         RunExpired, RunOnDestroyed, Clear, Ended, vars
<1> QED
  BY <1>1, <1>2, <1>3, <1>4, <1>5

\* The article is there when the server permits to send it.
LEMMA ArticleIsThere ==
  ASSUME OneThread, ConnInv, LinesInv, TruthInv, CrashInv, NEW t \in Threads, LineIsRead(t)
  PROVE  proc' = proc
<1>1. /\ Fits(Running, use, m_state) /\ Running.kind = "io" /\ Running.what \in Reads /\ use \in WaitingUses
      /\ TruthOf(Running, Deal)
  BY TruthRun DEF LineIsRead
<1>2. CASE Reaction(Running.what, m_readbuf.code) = "article"
  <2>1. Running.what = "post_answer"
    BY <1>1, <1>2 DEF Reaction, Reads
  <2>2. use = "post"
    BY <1>1, <2>1 DEF Fits, UseOf, ConnectOps, PostOps, StatOps
  <2>3. m_article = asked
    BY <1>1, <2>2 DEF TruthOf, Given, Deal
  <2>4. m_article # None
    BY <2>2, <2>3, ConnectionAssumption DEF CrashInv
  <2> QED
    BY <2>4 DEF LineIsRead
<1>3. CASE Reaction(Running.what, m_readbuf.code) # "article"
  BY <1>3 DEF LineIsRead
<1> QED
  BY <1>2, <1>3

LEMMA CrashStep ==
  OneThread /\ ConnInv /\ LinesInv /\ TruthInv /\ CrashInv /\ [Next]_vars => OnlyStaleTimersCrash'
<1> SUFFICES ASSUME OneThread, ConnInv, LinesInv, TruthInv, CrashInv, [Next]_vars, proc' = "crashed", use' # "gone"
             PROVE  use' = "connecting" /\ sock' = "closed"
  BY DEF OnlyStaleTimersCrash, StaleTimerCrash
<1>1. CASE proc = "crashed"
  <2>1. Ended \/ UNCHANGED vars
    BY <1>1 DEF Next, Reactor, Run, ServerAnswers, ServerCloses, ConnectionReset, ResolveEnds, ConnectEnds,
               HandshakeEnds, WriteEnds, ReadEnds, TimerExpires, RunDo, IoGoesOn, IoFails, StepSucceeds, LineIsRead,
               RunExpired, RunOnDestroyed, Clear, BecomesReady, IsDiscarded, Reconnects, StartCommand, Quit, Runs
  <2> QED
    BY <1>1, <2>1 DEF Ended, vars, owner, network, CrashInv, OnlyStaleTimersCrash, StaleTimerCrash
<1>2. CASE proc # "crashed"
  <2>1. PICK t \in Threads : LineIsRead(t) \/ RunExpired(t) \/ RunOnDestroyed(t) \/ Clear(t)
    BY <1>2 DEF Next, Reactor, Run, ServerAnswers, ServerCloses, ConnectionReset, ResolveEnds, ConnectEnds,
               HandshakeEnds, WriteEnds, ReadEnds, Completes, TimerExpires, RunDo, IoGoesOn, IoFails, StepSucceeds,
               BecomesReady, IsDiscarded, Reconnects, StartCommand, Quit, Ended, vars
  <2>2. ~LineIsRead(t)
    BY <1>2, <2>1, ArticleIsThere
  <2>3. CASE RunExpired(t)
    <3>1. sock = "closed" /\ UNCHANGED <<use, sock>>
      BY <1>2, <2>3 DEF RunExpired, network, owner
    <3> QED
      BY <3>1 DEF CrashInv, SocketInv, Unconnected
  <2>4. ~RunOnDestroyed(t)
    BY DEF RunOnDestroyed, owner
  <2>5. ~Clear(t)
    BY <1>2 DEF Clear, owner
  <2> QED
    BY <2>1, <2>2, <2>3, <2>4, <2>5
<1> QED
  BY <1>1, <1>2

\* With one io thread (the default): nothing crashes the program while it owns the
\* connection but a timer that a failed read left running and that expires on the
\* closed socket; a server's leave to post always finds an article to send
\* (connection.cc:76-83, 277 and 316-327).
THEOREM CrashesAreStaleTimers ==
  ASSUME OneThread
  PROVE  Spec => []OnlyStaleTimersCrash
<1>1. Init => CrashInv
  <2>1. ASSUME Init PROVE \A i \in DOMAIN handlers : Early(handlers[i])
    <3>1. handlers = <<Do("connect")>>
      BY <2>1 DEF Init
    <3>2. Early(Do("connect"))
      BY DEF Early, Do, Handler
    <3> QED
      BY <3>1, <3>2
  <2> QED
    BY <2>1 DEF Init, CrashInv, SocketInv, Unconnected, OnlyStaleTimersCrash
<1>2. ConnInv /\ LinesInv /\ TruthInv /\ CrashInv /\ [Next]_vars => CrashInv'
  BY SocketStep, AskedStep, CrashStep DEF CrashInv
<1>3. CrashInv => OnlyStaleTimersCrash
  BY DEF CrashInv
<1> QED
  BY <1>1, <1>2, <1>3, TruthHolds, PTL DEF Spec

-----------------------------------------------------------------------------
(* The answers that are queued.                                             *)

AnswerOf(h) == [result |-> h.result, item |-> h.item]

LEMMA NoAnswers ==
  ASSUME NEW hs, \A i \in DOMAIN hs : hs[i].kind # "answer"
  PROVE  AnswersIn(hs) = {}
  BY DEF AnswersIn

LEMMA AnswersQueued ==
  ASSUME NEW hs, IsQueue(hs), NEW h
  PROVE  AnswersIn(Append(hs, h)) = AnswersIn(hs) \cup (IF h.kind = "answer" THEN {AnswerOf(h)} ELSE {})
<1> DEFINE longer == Append(hs, h)
<1>1. /\ \A i \in DOMAIN longer : (i \in DOMAIN hs /\ longer[i] = hs[i]) \/ longer[i] = h
      /\ \A i \in DOMAIN hs : i \in DOMAIN longer /\ longer[i] = hs[i]
      /\ \E i \in DOMAIN longer : longer[i] = h
  BY AppendedHandler
<1> HIDE DEF longer
<1>2. AnswersIn(longer) = AnswersIn(hs) \cup (IF h.kind = "answer" THEN {AnswerOf(h)} ELSE {})
  BY <1>1 DEF AnswersIn, AnswerOf
<1> QED
  BY <1>2 DEF longer

LEMMA AnswersTaken ==
  ASSUME NEW hs, IsQueue(hs), hs # <<>>
  PROVE  AnswersIn(hs) = AnswersIn(Tail(hs)) \cup (IF Head(hs).kind = "answer" THEN {AnswerOf(Head(hs))} ELSE {})
<1> DEFINE first == Head(hs)
           rest == Tail(hs)
<1>1. 1 \in DOMAIN hs /\ first = hs[1]
  BY FirstTaken
<1>2. \A i \in DOMAIN rest : i + 1 \in DOMAIN hs /\ rest[i] = hs[i + 1]
  BY FirstTaken
<1>3. \A i \in DOMAIN hs : i # 1 => i - 1 \in DOMAIN rest /\ rest[i - 1] = hs[i]
  BY FirstTaken
<1> HIDE DEF first, rest
<1>4. AnswersIn(hs) \subseteq AnswersIn(rest) \cup (IF first.kind = "answer" THEN {AnswerOf(first)} ELSE {})
  BY <1>1, <1>3 DEF AnswersIn, AnswerOf
<1>5. AnswersIn(rest) \cup (IF first.kind = "answer" THEN {AnswerOf(first)} ELSE {}) \subseteq AnswersIn(hs)
  BY <1>1, <1>2 DEF AnswersIn, AnswerOf
<1> QED
  BY <1>4, <1>5 DEF first, rest

\* Handlers that are not answers come and go without a change of the contract's state.
LEMMA AnswersUnchanged ==
  ASSUME NEW hs, IsQueue(hs), NEW h, h.kind # "answer"
  PROVE  /\ AnswersIn(Append(hs, h)) = AnswersIn(hs)
         /\ hs # <<>> /\ Head(hs).kind # "answer" => AnswersIn(Tail(hs)) = AnswersIn(hs)
         /\ hs # <<>> /\ Head(hs).kind # "answer" => AnswersIn(Append(Tail(hs), h)) = AnswersIn(hs)
<1>1. AnswersIn(Append(hs, h)) = AnswersIn(hs)
  BY AnswersQueued
<1>2. ASSUME hs # <<>>, Head(hs).kind # "answer"
      PROVE  AnswersIn(Tail(hs)) = AnswersIn(hs) /\ AnswersIn(Append(Tail(hs), h)) = AnswersIn(hs)
  <2>1. AnswersIn(hs) = AnswersIn(Tail(hs)) \cup (IF Head(hs).kind = "answer" THEN {AnswerOf(Head(hs))} ELSE {})
    BY <1>2, AnswersTaken
  <2>2. AnswersIn(Tail(hs)) = AnswersIn(hs)
    BY <1>2, <2>1
  <2>3. IsQueue(Tail(hs))
    BY <1>2, FirstTaken
  <2>4. AnswersIn(Append(Tail(hs), h)) = AnswersIn(Tail(hs)) \cup (IF h.kind = "answer" THEN {AnswerOf(h)} ELSE {})
    BY <2>3, AnswersQueued
  <2> QED
    BY <2>2, <2>4
<1> QED
  BY <1>1, <1>2

LEMMA IoIsNoAnswer ==
  /\ Expired.kind # "answer"
  /\ \A o, result : Io(o, result).kind # "answer"
  /\ \A what : Do(what).kind # "answer"
  BY DEF Expired, Io, Do, Handler

-----------------------------------------------------------------------------
(* Each step is one of the contract, or none.                               *)

SessionInv == ConnInv /\ LinesInv /\ TruthInv /\ SentInv

LEMMA SessionStays ==
  ASSUME UNCHANGED <<use, asked, stored>>, AnswersIn(handlers') = AnswersIn(handlers)
  PROVE  UNCHANGED Contract!vars
  BY DEF Contract!vars

\* While the server has an article to answer, the pool can only be told of a failure.
LEMMA NetworkServes == ASSUME SessionInv, NetworkMoves PROVE [Contract!Next]_(Contract!vars)
<1>1. UNCHANGED <<use, asked, handlers>>
  BY DealStays
<1>2. CASE stored' = stored
  BY <1>1, <1>2, SessionStays
<1>3. CASE stored' # stored
  <2>1. owed = "article_answer" /\ stored' = received
    BY <1>3 DEF NetworkMoves, ServerAnswers, ServerCloses, ConnectionReset
  <2>2. use = "post" /\ received = asked /\ stored = None
    BY <2>1 DEF SessionInv, SentInv
  <2>3. ASSUME NEW a \in AnswersIn(handlers) PROVE a.result = "POST_FAILURE_CONNECTION_ERROR"
    <3>1. PICK i \in DOMAIN handlers : handlers[i].kind = "answer" /\ a.result = handlers[i].result
      BY DEF AnswersIn
    <3>2. LinesOf(handlers[i], Net)
      BY <2>2 DEF SessionInv, LinesInv, Lines
    <3>3. None # "article_answer"
      BY NamesDiffer DEF Reads
    <3>4. handlers[i].result \in Failures
      BY <2>1, <3>1, <3>2, <3>3 DEF LinesOf, Quiet, Spent, Net, Kinds
    <3>5. handlers[i].result \in Results("post")
      BY <2>2, <3>1, NoneIsNoOp
         DEF SessionInv, ConnInv, BasicInv, ChainInv, Chain, NoContinuation, Fits, WaitingUses
    <3> QED
      BY <3>1, <3>4, <3>5 DEF Failures, Results
  <2>4. Contract!Take
    BY <1>1, <2>1, <2>2, <2>3 DEF Contract!Take
  <2> QED
    BY <2>4 DEF Contract!Next
<1> QED
  BY <1>2, <1>3

LEMMA ReactorServes == ASSUME SessionInv, Reactor PROVE UNCHANGED Contract!vars
<1>1. \E result : Completes(result)
  BY DEF Reactor, ResolveEnds, ConnectEnds, HandshakeEnds, WriteEnds, ReadEnds
<1>2. PICK result : Completes(result)
  BY <1>1
<1>3. IsQueue(handlers)
  BY DEF SessionInv, ConnInv, ChainInv, Chain
<1>4. handlers' = Append(handlers, Io(op, result)) /\ UNCHANGED <<use, asked, stored>>
  BY <1>2 DEF Completes, owner
<1>5. AnswersIn(handlers') = AnswersIn(handlers)
  BY <1>3, <1>4, AnswersUnchanged, IoIsNoAnswer
<1> QED
  BY <1>4, <1>5, SessionStays

LEMMA TimerServes ==
  ASSUME SessionInv, NEW t, TimerExpires \/ RunExpired(t) \/ RunOnDestroyed(t) \/ Clear(t)
  PROVE  UNCHANGED Contract!vars
<1>0. IsQueue(handlers)
  BY DEF SessionInv, ConnInv, ChainInv, Chain
<1>1. UNCHANGED <<use, asked, stored>>
  BY DEF TimerExpires, RunExpired, RunOnDestroyed, Clear, network, owner
<1>2. CASE TimerExpires
  <2>1. AnswersIn(handlers') = AnswersIn(handlers)
    BY <1>0, <1>2, AnswersUnchanged, IoIsNoAnswer DEF TimerExpires
  <2> QED
    BY <1>1, <2>1, SessionStays
<1>3. CASE RunExpired(t)
  <2>1. handlers # <<>> /\ Head(handlers).kind # "answer"
    BY <1>3 DEF RunExpired, Runs
  <2>2. handlers' \in {Tail(handlers), Append(Tail(handlers), Io(op, "error"))}
    BY <1>3 DEF RunExpired
  <2>3. AnswersIn(handlers') = AnswersIn(handlers)
    <3>1. Io(op, "error").kind # "answer"
      BY IoIsNoAnswer
    <3>2. /\ AnswersIn(Tail(handlers)) = AnswersIn(handlers)
          /\ AnswersIn(Append(Tail(handlers), Io(op, "error"))) = AnswersIn(handlers)
      BY <1>0, <2>1, <3>1, AnswersUnchanged
    <3> QED
      BY <2>2, <3>2
  <2> QED
    BY <1>1, <2>3, SessionStays
<1>4. CASE RunOnDestroyed(t)
  <2>1. use = "gone" /\ handlers # <<>> /\ handlers' = Tail(handlers)
    BY <1>4 DEF RunOnDestroyed
  <2>2. 1 \in DOMAIN handlers /\ Head(handlers) = handlers[1]
    BY <1>0, <2>1, FirstTaken
  <2>3. Head(handlers).kind # "answer"
    BY <2>1, <2>2 DEF SessionInv, ConnInv, ChainInv, Chain
  <2>4. AnswersIn(handlers') = AnswersIn(handlers)
    BY <1>0, <2>1, <2>3, AnswersUnchanged, IoIsNoAnswer
  <2> QED
    BY <1>1, <2>4, SessionStays
<1>5. CASE Clear(t)
  <2>1. handlers' = handlers
    BY <1>5 DEF Clear, service
  <2> QED
    BY <1>1, <2>1, SessionStays
<1> QED
  BY <1>2, <1>3, <1>4, <1>5

\* A handler that goes on with the operation is no answer.
LEMMA OperationsServe ==
  ASSUME SessionInv, NEW t, RunDo(t) \/ IoGoesOn(t) \/ StepSucceeds(t)
  PROVE  UNCHANGED Contract!vars
<1>1. IsQueue(handlers)
  BY DEF SessionInv, ConnInv, ChainInv, Chain
<1>2. UNCHANGED <<use, asked, stored>> /\ handlers' = Tail(handlers)
  BY DEF RunDo, IoGoesOn, StepSucceeds, Begin, network, owner
<1>3. handlers # <<>> /\ Head(handlers).kind # "answer"
  BY DEF RunDo, IoGoesOn, StepSucceeds, Runs
<1>4. AnswersIn(handlers') = AnswersIn(handlers)
  BY <1>1, <1>2, <1>3, AnswersUnchanged, IoIsNoAnswer
<1> QED
  BY <1>2, <1>4, SessionStays

LEMMA ResultsAreOutcomes ==
  /\ \A u \in WaitingUses : Results(u) = DOMAIN Contract!Outcome[u]
  /\ WaitingUses = Contract!Operations
  BY DEF Results, WaitingUses, Contract!Outcome, Contract!Operations

\* Nothing is left to be looked at once the only continuation has been taken.
LEMMA NothingElse == ASSUME NEW hs, Expiries(hs) PROVE AnswersIn(hs) = {}
  BY NoAnswers DEF Expiries

LEMMA RepliesServe ==
  ASSUME OneThread, SessionInv, SessionInv', NEW t \in Threads, IoFails(t) \/ LineIsRead(t)
  PROVE  [Contract!Next]_(Contract!vars)
<1>0. UNCHANGED <<use, asked, stored>>
  BY DEF IoFails, LineIsRead, network, owner
<1>1. /\ use \in WaitingUses /\ Expiries(Tail(handlers))
      /\ Running.what \in Ops /\ use = UseOf(Running.what) /\ Running.kind = "io"
      /\ LineIsRead(t) => Running.what \in Reads
  BY LinesRun DEF IoFails, LineIsRead, Fits, SessionInv
<1>2. handlers # <<>> /\ Head(handlers).kind # "answer" /\ IsQueue(handlers)
  BY DEF IoFails, LineIsRead, Runs, SessionInv, ConnInv, ChainInv, Chain
<1>3. AnswersIn(Tail(handlers)) = {} /\ AnswersIn(handlers) = {}
  BY <1>1, <1>2, NothingElse, AnswersUnchanged, IoIsNoAnswer
<1>4. ASSUME NEW result \in Results(use), Answer(t, Running.what, result)
      PROVE  Contract!Next
  <2>1. \E item : /\ handlers' = Append(Tail(handlers), Handler("answer", use, result, item))
                  /\ use = "connecting" => item = None
    BY <1>1, <1>4 DEF Answer, AnswerConnect, AnswerCommand, UseOf, Ops, ConnectOps, PostOps, StatOps
  <2>2. PICK item : /\ handlers' = Append(Tail(handlers), Handler("answer", use, result, item))
                    /\ use = "connecting" => item = None
    BY <2>1
  <2> DEFINE h == Handler("answer", use, result, item)
  <2>3. h.kind = "answer" /\ h.what = use /\ h.result = result /\ h.item = item
    BY DEF Handler
  <2>4. handlers' = Append(Tail(handlers), h)
    BY <2>2
  <2> HIDE DEF h
  <2>5. AnswersIn(handlers') = {AnswerOf(h)}
    BY <1>1, <1>3, <2>3, <2>4, AnswersQueued DEF Expiries
  <2>6. PICK i \in DOMAIN handlers' : handlers'[i] = h
    BY <1>1, <2>4, AppendedHandler DEF Expiries
  <2>7. use # "connecting" =>
          /\ item = asked
          /\ result = "POST_SUCCESS" => stored = asked
          /\ result \in {"POST_FAILURE", "POSTING_NOT_PERMITTED"} => stored = None
    <3>1. AnswersAreTrue'
      <4>1. (ConnInv /\ TruthInv)' => AnswersAreTrue'
        BY AnswersAreTold, PTL
      <4> QED
        BY <4>1 DEF SessionInv
    <3> QED
      BY <1>0, <2>3, <2>6, <3>1 DEF AnswersAreTrue
  <2>8. use = "connecting" => asked = None /\ result \notin {"POST_SUCCESS", "POST_FAILURE", "POSTING_NOT_PERMITTED"}
    BY <1>4 DEF SessionInv, SentInv, Results
  <2>9. Contract!Reply(result)
    BY <1>0, <1>1, <1>3, <1>4, <2>2, <2>3, <2>5, <2>7, <2>8, ResultsAreOutcomes DEF Contract!Reply, AnswerOf
  <2> QED
    BY <1>1, <1>4, <2>9, ResultsAreOutcomes DEF Contract!Next
<1>5. CASE IoFails(t)
  <2>1. FailureOf(Running.what) \in Results(use) /\ Answer(t, Running.what, FailureOf(Running.what))
    BY <1>1, <1>5, FailuresAreResults DEF IoFails
  <2> QED
    BY <1>4, <2>1
<1>6. CASE LineIsRead(t)
  <2> DEFINE next == Reaction(Running.what, m_readbuf.code)
  <2>1. CASE next \in Writes
    <3>1. handlers' = Tail(handlers)
      BY <1>6, <2>1 DEF LineIsRead, Begin
    <3> QED
      BY <1>0, <1>3, <3>1, SessionStays
  <2>2. CASE next \notin Writes
    <3>1. next \in Results(use) /\ Answer(t, Running.what, next)
      BY <1>1, <1>6, <2>2, ReactionFits DEF LineIsRead
    <3> QED
      BY <1>4, <3>1
  <2> QED
    BY <2>1, <2>2
<1> QED
  BY <1>5, <1>6

LEMMA PoolConcludes ==
  ASSUME SessionInv, NEW t, BecomesReady(t) \/ IsDiscarded(t) \/ Reconnects(t)
  PROVE  Contract!Next
<1>1. /\ use \in WaitingUses /\ Expiries(Tail(handlers)) /\ IsQueue(Tail(handlers))
      /\ Running.kind = "answer" /\ Running.result \in Results(use)
  BY LinesRun DEF BecomesReady, IsDiscarded, Reconnects, Fits, SessionInv, Expiries
<1>2. handlers # <<>> /\ IsQueue(handlers)
  BY DEF BecomesReady, IsDiscarded, Reconnects, Runs, SessionInv, ConnInv, ChainInv, Chain
<1>3. AnswersIn(handlers) = {AnswerOf(Running)}
  BY <1>1, <1>2, NothingElse, AnswersTaken DEF Running
<1>4. AnswersIn(handlers') = {}
  <2>1. handlers' \in {Tail(handlers), Append(Tail(handlers), Do("connect"))}
    BY DEF BecomesReady, IsDiscarded, Reconnects
  <2>2. AnswersIn(Append(Tail(handlers), Do("connect"))) = AnswersIn(Tail(handlers))
    BY <1>1, AnswersUnchanged, IoIsNoAnswer
  <2> QED
    BY <1>1, <2>1, <2>2, NothingElse
<1>5. asked' = None /\ stored' = stored
  BY DEF BecomesReady, IsDiscarded, Reconnects, Destroy, network
<1>6. use' = Contract!Outcome[use][Running.result]
  <2>1. CASE BecomesReady(t)
    <3>1. /\ use' = "idle"
          /\ Running.result \in {"CONNECT_SUCCESS", "POST_SUCCESS", "POST_FAILURE", "ARTICLE_EXISTS",
                                 "INVALID_ARTICLE"}
      BY <2>1 DEF BecomesReady, Runs, Running
    <3> QED
      BY <1>1, <3>1 DEF WaitingUses, Results, Contract!Outcome
  <2>2. CASE IsDiscarded(t)
    <3>1. /\ use' = "gone"
          /\ Running.result \in {"FATAL_CONNECT_ERROR", "INVALID_CREDENTIALS", "POSTING_NOT_PERMITTED"}
      BY <2>2 DEF IsDiscarded, Destroy, Runs, Running
    <3> QED
      BY <1>1, <3>1 DEF WaitingUses, Results, Contract!Outcome
  <2>3. CASE Reconnects(t)
    <3>1. use' = "connecting" /\ Running.result \in {"POST_FAILURE_CONNECTION_ERROR", "CONNECTION_ERROR"}
      BY <2>3 DEF Reconnects, Runs, Running
    <3> QED
      BY <1>1, <3>1 DEF WaitingUses, Results, Contract!Outcome
  <2> QED
    BY <2>1, <2>2, <2>3
<1>7. Contract!Conclude
  BY <1>1, <1>3, <1>4, <1>5, <1>6, ResultsAreOutcomes DEF Contract!Conclude, AnswerOf
<1> QED
  BY <1>7 DEF Contract!Next

LEMMA PoolCalls == ASSUME SessionInv, StartCommand \/ Quit PROVE Contract!Next
<1>1. use = "idle" /\ IsQueue(handlers) /\ m_state = "CONNECTED_AND_AUTHENTICATED"
  BY DEF SessionInv, ConnInv, ChainInv, Chain, StartCommand, Quit
<1>2. CASE StartCommand
  <2>1. PICK what \in {"post", "stat"}, item \in Items :
          /\ use' = what /\ asked' = item /\ stored' = None
          /\ handlers' = Append(handlers, Do(what))
    BY <1>1, <1>2 DEF StartCommand
  <2>2. AnswersIn(handlers') = AnswersIn(handlers)
    BY <1>1, <2>1, AnswersUnchanged, IoIsNoAnswer
  <2>3. Contract!Give(what, item)
    BY <1>1, <2>1, <2>2 DEF Contract!Give
  <2> QED
    BY <2>3 DEF Contract!Next
<1>3. CASE Quit
  <2>1. handlers' = Append(handlers, Io("quit", "error")) /\ use' = "gone" /\ stored' = stored
    BY <1>3 DEF Quit, Destroy
  <2>2. AnswersIn(handlers') = AnswersIn(handlers)
    BY <1>1, <2>1, AnswersUnchanged, IoIsNoAnswer
  <2>3. asked' = asked
    BY <1>1, <1>3 DEF Quit, Destroy, SessionInv, SentInv
  <2>4. Contract!Quit
    BY <1>1, <2>1, <2>2, <2>3 DEF Contract!Quit
  <2> QED
    BY <2>4 DEF Contract!Next
<1> QED
  BY <1>2, <1>3

LEMMA EveryStepServes ==
  ASSUME OneThread, SessionInv, SessionInv', [Next]_vars
  PROVE  [Contract!Next]_(Contract!vars)
<1>1. CASE NetworkMoves
  BY <1>1, NetworkServes
<1>2. CASE Reactor
  BY <1>2, ReactorServes
<1>3. ASSUME NEW t \in Threads, Run(t) PROVE [Contract!Next]_(Contract!vars)
  BY <1>3, TimerServes, OperationsServe, RepliesServe, PoolConcludes DEF Run
<1>4. CASE TimerExpires
  BY <1>4, TimerServes
<1>5. CASE StartCommand \/ Quit
  BY <1>5, PoolCalls
<1>6. CASE Ended \/ UNCHANGED vars
  <2>1. UNCHANGED <<use, asked, stored, handlers>>
    BY <1>6 DEF Ended, vars, network, owner, service
  <2> QED
    BY <2>1, SessionStays
<1> QED
  BY <1>1, <1>2, <1>3, <1>4, <1>5, <1>6 DEF Next, NetworkMoves

\* With one io thread (the default), any articles and ids, with TLS or without: class
\* connection keeps its contract.  The pool is answered once to each call and about
\* what it gave, the server takes an article at most once for each async_post, and a
\* post is reported as failed or forbidden only when the server did not take it
\* (connection.cc:265-278 and 390-406, usenet.cc:143-267).
THEOREM ContractIsKept ==
  ASSUME OneThread
  PROVE  Spec => ImplementsSession
<1>1. Init => Contract!Init
  <2>1. ASSUME Init PROVE AnswersIn(handlers) = {}
    <3>1. handlers = <<Do("connect")>>
      BY <2>1 DEF Init
    <3>2. \A i \in DOMAIN handlers : handlers[i].kind # "answer"
      BY <3>1, IoIsNoAnswer
    <3> QED
      BY <3>2, NoAnswers
  <2> QED
    BY <2>1 DEF Init, Contract!Init
<1>2. SessionInv /\ SessionInv' /\ [Next]_vars => [Contract!Next]_(Contract!vars)
  BY EveryStepServes
<1>3. Spec => []SessionInv
  BY TruthHolds DEF SessionInv
<1> QED
  BY <1>1, <1>2, <1>3, PTL DEF Spec, ImplementsSession, Contract!Spec
=============================================================================
