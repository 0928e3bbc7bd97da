-------------------------- MODULE EchoServer_proofs --------------------------
(***************************************************************************)
(* Proofs about EchoServer and the TcpClientB objects it serves, for any   *)
(* number of clients, sessions, lines and descriptors.                     *)
(***************************************************************************)
EXTENDS EchoServer, Filter_proofs

-----------------------------------------------------------------------------
(* The inductive invariant.                                                *)

ObjT == [fd : Nat \cup {NoFd}, made : Nat, readBuf : Seq(Symbol),
         call : {"none", "send", "read"}, left : Seq(Symbol)]
WireT == [server : {"new", "queued", "open", "closed", "refused"},
          client : {"new", "open", "closed"}, up : Seq(Symbol),
          down : Seq(Symbol), sent : Seq(Symbol), got : Seq(Symbol)]
StateT == [remoteAddr : Conn \cup {NoConn}, recvBuf : Seq(Symbol),
           sendQueue : Seq(Symbol), pendingClose : {FALSE}]

ClientSide == obj \in [Client -> ObjT] /\ wire \in [Conn -> WireT]
ServerSide == clients \in [Fd -> StateT]

\* A queue for every entry of the table, and never an order in one.
Queues ==
  /\ Live(clients) \subseteq DOMAIN echoQueues /\ DOMAIN echoQueues \subseteq Fd
  /\ echoQueues \in [DOMAIN echoQueues -> Seq(Echo)]

\* A turn is left only for entries of the table, and none outside an iteration.
Turns ==
  /\ readSet \subseteq Live(clients) \cup (IF pc = "tick" THEN {ListenKey} ELSE {})
  /\ writeSet \subseteq Live(clients)
  /\ pc \in {"idle", "bound", "select"} => readSet \cup writeSet = {}

Control ==
  /\ listenFd \in {"none", "open", "listening"}
  /\ running \in BOOLEAN /\ runs \in 0..MaxRuns
  /\ pc \in {"idle", "bound", "select", "tick", "accept", "clients"}
  /\ cur \in Fd \cup {NoFd}
  /\ listenFd = "listening" <=> pc # "idle"

Types == ClientSide /\ ServerSide /\ Queues /\ Turns /\ Control

\* An object has the socket it made last, or none, and is in a call only with one;
\* its connections were made in order.
Objects ==
  \A c \in Client :
    /\ obj[c].made \in 0..MaxSessions[c]
    /\ obj[c].fd \in {NoFd} \cup 1..obj[c].made
    /\ obj[c].call # "none" => obj[c].fd # NoFd
    /\ \A s \in 1..MaxSessions[c] :
         /\ wire[<<c, s>>].client = "open" <=> s = obj[c].fd
         /\ s > obj[c].made => wire[<<c, s>>] = NewWire("new", "new")

\* The server has the sockets of its table and no other, and none waiting when it
\* does not listen.
Accounted ==
  /\ \A x \in Conn : wire[x].server = "open" <=> \E fd \in Fd : ConnOf(fd) = x
  /\ \A f, g \in Fd : ConnOf(f) = ConnOf(g) /\ ConnOf(f) # NoConn => f = g
  /\ pc = "idle" => Live(clients) = {} /\ Queued = {}

-----------------------------------------------------------------------------
(* Data.                                                                   *)

LEMMA ConnParts ==
  ASSUME NEW x \in Conn
  PROVE  /\ x[1] \in Client /\ x[2] \in 1..MaxSessions[x[1]] /\ x = <<x[1], x[2]>>
BY DEF Conn

LEMMA ConnPair ==
  ASSUME NEW c \in Client, NEW s \in 1..MaxSessions[c]
  PROVE  <<c, s>> \in Conn
BY DEF Conn

LEMMA Fds ==
  /\ NoFd \notin Fd /\ ListenKey \notin Fd /\ ListenKey # NoFd
  /\ \A c \in Client : MaxSessions[c] \in Nat
BY FdAssumption, SessionAssumption DEF NoFd, ListenKey

LEMMA LiveFds ==
  ASSUME ServerSide
  PROVE  /\ Live(clients) = {fd \in Fd : ConnOf(fd) # NoConn}
         /\ \A fd \in Live(clients) : fd \in Fd /\ ConnOf(fd) \in Conn
         /\ \A fd \in Fd : ConnOf(fd) \in Conn => fd \in Live(clients)
BY ConnAssumption DEF ServerSide, StateT, Live, ConnOf

LEMMA InitInv == ASSUME Init PROVE Types /\ Objects /\ Accounted
<1>1. ClientSide /\ Objects
  <2>1. NewObject \in ObjT /\ NewWire("new", "new") \in WireT
    BY DEF NewObject, ObjT, NewWire, WireT
  <2>2. ClientSide
    BY <2>1 DEF Init, ClientInit, ClientSide
  <2>3. \A c \in Client : \A s \in 1..MaxSessions[c] : wire[<<c, s>>] = NewWire("new", "new")
    BY ConnPair DEF Init, ClientInit
  <2>4. \A c \in Client : \A s \in 1..MaxSessions[c] : s # NoFd
    BY Fds DEF NoFd
  <2> QED BY <2>2, <2>3, <2>4, Fds DEF Init, ClientInit, Objects, NewObject, NewWire
<1>2. ServerSide /\ Live(clients) = {}
  BY DEF Init, ServerSide, StateT, NoClient, NewClient, Live
<1>3. Queues /\ Turns /\ Control
  <2>1. Queues
    BY <1>2 DEF Init, Queues, EmptyMap
  <2>2. Turns
    BY DEF Init, Turns
  <2>3. 0 \in 0..MaxRuns
    BY FdAssumption
  <2> QED BY <2>1, <2>2, <2>3 DEF Init, Control
<1>4. Accounted
  <2>1. \A x \in Conn : wire[x].server = "new"
    BY DEF Init, ClientInit, NewWire
  <2>2. \A fd \in Fd : ConnOf(fd) = NoConn
    BY DEF Init, ConnOf, NoClient, NewClient
  <2> QED BY <1>2, <2>1, <2>2, ConnAssumption DEF Accounted, Queued
<1> QED BY <1>1, <1>2, <1>3, <1>4 DEF Types

-----------------------------------------------------------------------------
(* The client's side of a connection.                                      *)

\* What a call does to the bytes of its connection: it puts some on the wire, or
\* moves what came back nearer to its caller.
Carries(w, o, v, p) ==
  \/ \E t \in Seq(Symbol) :
       /\ v.up = w.up \o t /\ v.sent = w.sent \o t
       /\ v.down = w.down /\ v.got = w.got /\ p.readBuf = o.readBuf
  \/ /\ v.up = w.up /\ v.sent = w.sent
     /\ (v.got \o p.readBuf) \o v.down = (w.got \o o.readBuf) \o w.down

\* A step of client c inside or at the start of a call.
CallStep(c) ==
  LET x == <<c, obj[c].fd>>
  IN  /\ obj[c].fd # NoFd
      /\ ClientSide'
      /\ \A d \in Client \ {c} : obj'[d] = obj[d]
      /\ \A y \in Conn \ {x} : wire'[y] = wire[y]
      /\ obj'[c].fd = obj[c].fd /\ obj'[c].made = obj[c].made
      /\ wire'[x].server = wire[x].server /\ wire'[x].client = wire[x].client
      /\ Carries(wire[x], obj[c], wire'[x], obj'[c])

LEMMA SplitSeq ==
  ASSUME NEW s \in Seq(Symbol), NEW n \in 1..Len(s)
  PROVE  /\ SubSeq(s, 1, n) \in Seq(Symbol) /\ SubSeq(s, n + 1, Len(s)) \in Seq(Symbol)
         /\ SubSeq(s, 1, n) \o SubSeq(s, n + 1, Len(s)) = s
<1>1. 1 \in 1..Len(s) + 1 /\ n \in 1 - 1 .. Len(s) /\ Len(s) \in n .. Len(s)
  OBVIOUS
<1>2. SubSeq(s, 1, n) \o SubSeq(s, n + 1, Len(s)) = SubSeq(s, 1, Len(s))
  BY <1>1, ConcatAdjacentSubSeq
<1>3. SubSeq(s, 1, n) \in Seq(Symbol) /\ SubSeq(s, n + 1, Len(s)) \in Seq(Symbol)
  OBVIOUS
<1> QED
  BY <1>2, <1>3, SubSeqFull

LEMMA Assoc ==
  ASSUME NEW s \in Seq(Symbol), NEW t \in Seq(Symbol), NEW u \in Seq(Symbol)
  PROVE  (s \o t) \o u = s \o (t \o u) /\ s \o t \in Seq(Symbol) /\ t \o u \in Seq(Symbol)
OBVIOUS

\* Moving t from the front of a sequence to the end of the one before it.
MovesOver(g, b, t, u) == (g \o (b \o t)) \o u = (g \o b) \o (t \o u)

LEMMA MoveOver ==
  ASSUME NEW g \in Seq(Symbol), NEW b \in Seq(Symbol), NEW t \in Seq(Symbol), NEW u \in Seq(Symbol)
  PROVE  MovesOver(g, b, t, u)
BY DEF MovesOver

\* Moving the first n elements of d to the end of b.
SomeMoved(g, b, d, n) ==
  (g \o (b \o SubSeq(d, 1, n))) \o SubSeq(d, n + 1, Len(d)) = (g \o b) \o d

LEMMA MoveSome ==
  ASSUME NEW g \in Seq(Symbol), NEW b \in Seq(Symbol), NEW d \in Seq(Symbol),
         NEW n \in 1..Len(d)
  PROVE  SomeMoved(g, b, d, n)
<1> DEFINE t == SubSeq(d, 1, n)
           u == SubSeq(d, n + 1, Len(d))
<1>1. t \in Seq(Symbol) /\ u \in Seq(Symbol)
  BY SplitSeq
<1>2. t \o u = d
  BY SplitSeq
<1> HIDE DEF t, u
<1>3. MovesOver(g, b, t, u)
  BY <1>1, MoveOver
<1> QED BY <1>2, <1>3 DEF t, u, MovesOver, SomeMoved

LEMMA MoveAll ==
  ASSUME NEW g \in Seq(Symbol), NEW b \in Seq(Symbol), NEW d \in Seq(Symbol)
  PROVE  (g \o (b \o d)) \o <<>> = (g \o b) \o d
<1> DEFINE v == b \o d
<1>1. v \in Seq(Symbol) /\ (g \o b) \o d = g \o v
  BY Assoc
<1> HIDE DEF v
<1>2. (g \o v) \o <<>> = g \o v
  BY <1>1
<1> QED BY <1>1, <1>2 DEF v

\* The connection of a client that has one.
LEMMA OwnWire ==
  ASSUME ClientSide, Objects, NEW c \in Client, obj[c].fd # NoFd
  PROVE  LET x == <<c, obj[c].fd>>
         IN  /\ x \in Conn /\ wire[x] \in WireT /\ wire[x].client = "open"
             /\ obj[c] \in ObjT /\ obj[c].fd \in 1..MaxSessions[c]
<1>1. obj[c].made \in 0..MaxSessions[c] /\ obj[c].fd \in 1..obj[c].made
  BY DEF Objects
<1>2. obj[c].fd \in 1..MaxSessions[c]
  BY <1>1, Fds
<1>3. <<c, obj[c].fd>> \in Conn /\ wire[<<c, obj[c].fd>>].client = "open"
  BY <1>2, ConnPair DEF Objects
<1> QED BY <1>2, <1>3 DEF ClientSide

LEMMA LineEndExists ==
  ASSUME NEW buf \in Seq(Symbol), HasLine(buf)
  PROVE  LineEnd(buf) \in 1..Len(buf)
<1> DEFINE Ends == {i \in 1..Len(buf) : buf[i].nl}
<1>1. Ends \in SUBSET Nat /\ Ends # {}
  BY DEF HasLine
<1>2. PICK m \in Ends : \A k \in Ends : m <= k
  <2> HIDE DEF Ends
  <2> QED BY <1>1, LeastNumber
<1>3. m \in DOMAIN buf /\ buf[m].nl /\ \A j \in 1..(m - 1) : ~buf[j].nl
  BY <1>2
<1>4. LineEnd(buf) \in DOMAIN buf
  BY <1>3 DEF LineEnd
<1> QED BY <1>4

LEMMA LineType ==
  ASSUME NEW x \in Conn, NEW k \in Nat, NEW text \in Texts
  PROVE  Line(x, k, text) \in Seq(Symbol)
BY DEF Line, Symbol

\* The calls that leave the wires alone.
LEMMA QuietCalls ==
  ASSUME ClientSide, Objects, NEW c \in Client,
         Send(c) \/ SendFails(c) \/ Read(c) \/ RecvEnds(c)
  PROVE  CallStep(c)
<1> DEFINE x == <<c, obj[c].fd>>
<1>1. obj[c].fd # NoFd
  BY DEF Send, SendFails, Read, RecvEnds, Connected, Reading, Objects
<1>2. x \in Conn /\ wire[x] \in WireT /\ obj[c] \in ObjT
  BY <1>1, OwnWire
<1>3. wire' = wire
  BY DEF Send, SendFails, Read, RecvEnds
<1>4. \E call \in {"none", "send", "read"}, left \in Seq(Symbol) :
        obj' = [obj EXCEPT ![c].call = call, ![c].left = left]
  <2>1. CASE Send(c)
    <3>1. PICK text \in Texts :
            obj' = [obj EXCEPT ![c].call = "send",
                      ![c].left = Line(<<c, obj[c].fd>>, 1 + Len(Wire(c).sent) \div 2, text)]
      BY <2>1 DEF Send
    <3>2. Len(wire[x].sent) \in Nat
      BY <1>2 DEF WireT
    <3>3. 1 + Len(Wire(c).sent) \div 2 \in Nat
      <4>1. \A n \in Nat : 1 + n \div 2 \in Nat
        OBVIOUS
      <4> QED BY <3>2, <4>1 DEF Wire
    <3>4. Line(x, 1 + Len(Wire(c).sent) \div 2, text) \in Seq(Symbol)
      BY <1>2, <3>3, LineType
    <3> QED BY <3>1, <3>4
  <2>2. CASE SendFails(c)
    <3>1. obj' = [obj EXCEPT ![c].left = <<>>, ![c].call = "none"]
      BY <2>2 DEF SendFails, Returned
    <3>2. obj' = [obj EXCEPT ![c].call = "none", ![c].left = <<>>]
      BY <3>1, <1>2 DEF ClientSide, ObjT
    <3>3. <<>> \in Seq(Symbol)
      OBVIOUS
    <3> QED BY <3>2, <3>3
  <2>3. CASE Read(c) \/ RecvEnds(c)
    <3>1. PICK call \in {"none", "read"} : obj' = [obj EXCEPT ![c].call = call]
      BY <2>3 DEF Read, RecvEnds
    <3>2. obj' = [obj EXCEPT ![c].call = call, ![c].left = obj[c].left]
      BY <3>1, <1>2 DEF ClientSide, ObjT
    <3>3. obj[c].left \in Seq(Symbol)
      BY <1>2 DEF ObjT
    <3> QED BY <3>2, <3>3
  <2> QED BY <2>1, <2>2, <2>3
<1>5. PICK call \in {"none", "send", "read"}, left \in Seq(Symbol) :
        obj' = [obj EXCEPT ![c].call = call, ![c].left = left]
  BY <1>4
<1>6. /\ obj' \in [Client -> ObjT] /\ \A d \in Client \ {c} : obj'[d] = obj[d]
      /\ obj'[c].fd = obj[c].fd /\ obj'[c].made = obj[c].made
      /\ obj'[c].readBuf = obj[c].readBuf
  BY <1>5, <1>2 DEF ClientSide, ObjT
<1>7. Carries(wire[x], obj[c], wire'[x], obj'[c])
  BY <1>3, <1>6 DEF Carries
<1> QED BY <1>1, <1>3, <1>6, <1>7 DEF CallStep, ClientSide

\* The objects and the wires after a step that gives one of each new values.
LEMMA OneObject ==
  ASSUME ClientSide, NEW c \in Client, NEW x \in Conn,
         NEW o \in ObjT, NEW v \in WireT,
         obj' = [obj EXCEPT ![c] = o], wire' = [wire EXCEPT ![x] = v]
  PROVE  /\ ClientSide' /\ obj'[c] = o /\ wire'[x] = v
         /\ \A d \in Client \ {c} : obj'[d] = obj[d]
         /\ \A y \in Conn \ {x} : wire'[y] = wire[y]
BY DEF ClientSide

LEMMA SendChunkCall ==
  ASSUME ClientSide, Objects, NEW c \in Client, SendChunk(c)
  PROVE  CallStep(c)
<1> DEFINE x == <<c, obj[c].fd>>
<1>1. obj[c].fd # NoFd
  BY DEF SendChunk, Objects
<1>2. x \in Conn /\ wire[x] \in WireT /\ obj[c] \in ObjT
  BY <1>1, OwnWire
<1>3. PICK n \in 1..Len(obj[c].left) :
        LET taken == SubSeq(obj[c].left, 1, n)
        IN  /\ wire' = [wire EXCEPT ![x].up = @ \o taken, ![x].sent = @ \o taken]
            /\ Returned(c, SubSeq(obj[c].left, n + 1, Len(obj[c].left)))
  BY DEF SendChunk
<1> DEFINE t == SubSeq(obj[c].left, 1, n)
           left == SubSeq(obj[c].left, n + 1, Len(obj[c].left))
           o == [obj[c] EXCEPT !.left = left,
                               !.call = IF left = <<>> THEN "none" ELSE obj[c].call]
           up == wire[x].up \o t
           sent == wire[x].sent \o t
           v == [wire[x] EXCEPT !.up = up, !.sent = sent]
<1>4. t \in Seq(Symbol) /\ left \in Seq(Symbol)
  <2>1. obj[c].left \in Seq(Symbol)
    BY <1>2 DEF ObjT
  <2> QED BY <2>1, SplitSeq
<1>5. wire' = [wire EXCEPT ![x] = v] /\ obj' = [obj EXCEPT ![c] = o]
  <2>1. wire' = [wire EXCEPT ![x].up = wire[x].up \o t, ![x].sent = wire[x].sent \o t]
    BY <1>2, <1>3 DEF ClientSide
  <2>2. obj' = [obj EXCEPT ![c].left = left, ![c].call = IF left = <<>> THEN "none" ELSE @]
    BY <1>3 DEF Returned
  <2> HIDE DEF t, left
  <2> QED BY <2>1, <2>2, <1>2 DEF ClientSide, ObjT, WireT
<1> HIDE DEF t, left
<1>6. /\ o \in ObjT /\ o.fd = obj[c].fd /\ o.made = obj[c].made
      /\ o.readBuf = obj[c].readBuf
  BY <1>2, <1>4 DEF ObjT
<1>7. /\ v \in WireT /\ v.server = wire[x].server /\ v.client = wire[x].client
      /\ v.up = wire[x].up \o t /\ v.sent = wire[x].sent \o t
      /\ v.down = wire[x].down /\ v.got = wire[x].got
  <2>1. up \in Seq(Symbol) /\ sent \in Seq(Symbol)
    <3>1. wire[x].up \in Seq(Symbol) /\ wire[x].sent \in Seq(Symbol)
      BY <1>2 DEF WireT
    <3> QED BY <1>4, <3>1
  <2>2. v.up = up /\ v.sent = sent
    <3> HIDE DEF up, sent
    <3> QED BY <1>2 DEF WireT
  <2> HIDE DEF up, sent
  <2>3. /\ v \in WireT /\ v.server = wire[x].server /\ v.client = wire[x].client
        /\ v.down = wire[x].down /\ v.got = wire[x].got
    BY <1>2, <2>1 DEF WireT
  <2> QED BY <2>2, <2>3 DEF up, sent
<1> HIDE DEF o, v, x
<1>8. Carries(wire[x], obj[c], v, o)
  BY <1>4, <1>6, <1>7 DEF Carries
<1>9. /\ ClientSide' /\ obj'[c] = o /\ wire'[x] = v
      /\ \A d \in Client \ {c} : obj'[d] = obj[d]
      /\ \A y \in Conn \ {x} : wire'[y] = wire[y]
  BY <1>2, <1>5, <1>6, <1>7, OneObject
<1> QED BY <1>1, <1>6, <1>7, <1>8, <1>9 DEF CallStep, x

\* The calls that move what came back from the wire to the object, or from there
\* to the caller.
LEMMA ReadingCalls ==
  ASSUME ClientSide, Objects, NEW c \in Client,
         Available(c) \/ Recv(c) \/ ReadReturns(c)
  PROVE  CallStep(c)
<1> DEFINE x == <<c, obj[c].fd>>
<1>1. obj[c].fd # NoFd
  BY DEF Available, Recv, ReadReturns, Connected, Reading, Objects
<1>2. x \in Conn /\ wire[x] \in WireT /\ obj[c] \in ObjT
  BY <1>1, OwnWire
<1>3. obj[c].readBuf \in Seq(Symbol) /\ wire[x].down \in Seq(Symbol) /\ wire[x].got \in Seq(Symbol)
  BY <1>2 DEF ObjT, WireT
<1> DEFINE g0 == wire[x].got
           b0 == obj[c].readBuf
           d0 == wire[x].down
<1>r. g0 \in Seq(Symbol) /\ b0 \in Seq(Symbol) /\ d0 \in Seq(Symbol)
  BY <1>3
<1>s. \A p, q \in Seq(Symbol) : p \o q \in Seq(Symbol)
  OBVIOUS
<1>4. \E g, r, d \in Seq(Symbol), call \in {"none", "send", "read"} :
        /\ obj' = [obj EXCEPT ![c] = [obj[c] EXCEPT !.readBuf = r, !.call = call]]
        /\ wire' = [wire EXCEPT ![x] = [wire[x] EXCEPT !.got = g, !.down = d]]
        /\ (g \o r) \o d = (wire[x].got \o obj[c].readBuf) \o wire[x].down
  <2>1. CASE Available(c)
    <3> DEFINE r == obj[c].readBuf \o wire[x].down
    <3>1. r \in Seq(Symbol) /\ <<>> \in Seq(Symbol)
      BY <1>3
    <3>2. (wire[x].got \o r) \o <<>> = (wire[x].got \o obj[c].readBuf) \o wire[x].down
      <4> HIDE DEF g0, b0, d0
      <4>1. (g0 \o (b0 \o d0)) \o <<>> = (g0 \o b0) \o d0
        BY <1>r, MoveAll
      <4> QED BY <4>1 DEF g0, b0, d0
    <3>3. obj' = [obj EXCEPT ![c].readBuf = r]
      BY <2>1, <1>2 DEF Available, Wire, ClientSide
    <3>4. wire' = [wire EXCEPT ![x].down = <<>>]
      BY <2>1 DEF Available
    <3> HIDE DEF r
    <3>5. obj' = [obj EXCEPT ![c] = [obj[c] EXCEPT !.readBuf = r, !.call = obj[c].call]]
      BY <3>3, <1>2 DEF ClientSide, ObjT
    <3>6. wire' = [wire EXCEPT ![x] = [wire[x] EXCEPT !.got = wire[x].got, !.down = <<>>]]
      BY <3>4, <1>2 DEF ClientSide, WireT
    <3>7. obj[c].call \in {"none", "send", "read"}
      BY <1>2 DEF ObjT
    <3> QED BY <1>3, <3>1, <3>2, <3>5, <3>6, <3>7
  <2>2. CASE Recv(c)
    <3>1. PICK n \in 1..Len(wire[x].down) :
            /\ obj' = [obj EXCEPT ![c].readBuf = @ \o SubSeq(wire[x].down, 1, n)]
            /\ wire' = [wire EXCEPT ![x].down = SubSeq(@, n + 1, Len(@))]
      BY <2>2 DEF Recv, Wire
    <3> DEFINE t == SubSeq(wire[x].down, 1, n)
               d == SubSeq(wire[x].down, n + 1, Len(wire[x].down))
               r == obj[c].readBuf \o t
    <3>2. t \in Seq(Symbol) /\ d \in Seq(Symbol) /\ t \o d = wire[x].down
      BY <1>3, SplitSeq
    <3>3. obj' = [obj EXCEPT ![c].readBuf = r] /\ wire' = [wire EXCEPT ![x].down = d]
      BY <3>1, <1>2 DEF ClientSide
    <3> HIDE DEF t, d
    <3>4. r \in Seq(Symbol) /\ (wire[x].got \o r) \o d
                                 = (wire[x].got \o obj[c].readBuf) \o wire[x].down
      <4>1. (g0 \o (b0 \o t)) \o d = (g0 \o b0) \o d0
        <5>1. n \in 1..Len(d0)
          OBVIOUS
        <5> HIDE DEF g0, b0, d0
        <5>2. SomeMoved(g0, b0, d0, n)
          BY <1>r, <5>1, MoveSome
        <5> QED BY <5>2 DEF t, d, d0, SomeMoved
      <4> QED BY <1>3, <1>s, <3>2, <4>1
    <3> HIDE DEF r
    <3>5. obj' = [obj EXCEPT ![c] = [obj[c] EXCEPT !.readBuf = r, !.call = obj[c].call]]
      BY <3>3, <1>2 DEF ClientSide, ObjT
    <3>6. wire' = [wire EXCEPT ![x] = [wire[x] EXCEPT !.got = wire[x].got, !.down = d]]
      BY <3>3, <1>2 DEF ClientSide, WireT
    <3>7. obj[c].call \in {"none", "send", "read"}
      BY <1>2 DEF ObjT
    <3> QED BY <1>3, <3>2, <3>4, <3>5, <3>6, <3>7
  <2>3. CASE ReadReturns(c)
    <3> DEFINE buf == obj[c].readBuf
               n == LineEnd(buf)
               t == SubSeq(buf, 1, n)
               r == SubSeq(buf, n + 1, Len(buf))
               g == wire[x].got \o t
    <3>1. n \in 1..Len(buf)
      <4>1. HasLine(buf) /\ buf \in Seq(Symbol)
        BY <2>3, <1>3 DEF ReadReturns
      <4> HIDE DEF buf
      <4> QED BY <4>1, LineEndExists
    <3>2. t \in Seq(Symbol) /\ r \in Seq(Symbol) /\ t \o r = buf
      BY <1>3, <3>1, SplitSeq
    <3>3. /\ obj' = [obj EXCEPT ![c].call = "none", ![c].readBuf = r]
          /\ wire' = [wire EXCEPT ![x].got = g]
      BY <2>3, <1>2 DEF ReadReturns, ClientSide
    <3> HIDE DEF t, r, n
    <3>4. g \in Seq(Symbol) /\ (g \o r) \o wire[x].down
                                 = (wire[x].got \o obj[c].readBuf) \o wire[x].down
      <4>1. (g0 \o t) \o r = g0 \o (t \o r)
        <5>1. t \in Seq(Symbol) /\ r \in Seq(Symbol)
          BY <3>2
        <5> HIDE DEF g0, b0, d0
        <5> QED BY <1>r, <5>1
      <4> QED BY <1>3, <1>s, <3>2, <4>1
    <3> HIDE DEF g, buf
    <3>5. obj' = [obj EXCEPT ![c] = [obj[c] EXCEPT !.readBuf = r, !.call = "none"]]
      BY <3>3, <1>2 DEF ClientSide, ObjT
    <3>6. wire' = [wire EXCEPT ![x] = [wire[x] EXCEPT !.got = g, !.down = wire[x].down]]
      BY <3>3, <1>2 DEF ClientSide, WireT
    <3> QED BY <1>3, <3>2, <3>4, <3>5, <3>6
  <2> QED BY <2>1, <2>2, <2>3
<1>5. PICK g, r, d \in Seq(Symbol), call \in {"none", "send", "read"} :
        /\ obj' = [obj EXCEPT ![c] = [obj[c] EXCEPT !.readBuf = r, !.call = call]]
        /\ wire' = [wire EXCEPT ![x] = [wire[x] EXCEPT !.got = g, !.down = d]]
        /\ (g \o r) \o d = (wire[x].got \o obj[c].readBuf) \o wire[x].down
  BY <1>4
<1> DEFINE o == [obj[c] EXCEPT !.readBuf = r, !.call = call]
           v == [wire[x] EXCEPT !.got = g, !.down = d]
<1>6. o \in ObjT /\ o.fd = obj[c].fd /\ o.made = obj[c].made /\ o.readBuf = r
  BY <1>2 DEF ObjT
<1>7. /\ v \in WireT /\ v.server = wire[x].server /\ v.client = wire[x].client
      /\ v.up = wire[x].up /\ v.sent = wire[x].sent /\ v.got = g /\ v.down = d
  BY <1>2 DEF WireT
<1>8. obj' = [obj EXCEPT ![c] = o] /\ wire' = [wire EXCEPT ![x] = v]
  BY <1>5
<1> HIDE DEF o, v, x
<1>9. Carries(wire[x], obj[c], v, o)
  BY <1>5, <1>6, <1>7 DEF Carries
<1>10. /\ ClientSide' /\ obj'[c] = o /\ wire'[x] = v
       /\ \A d2 \in Client \ {c} : obj'[d2] = obj[d2]
       /\ \A y \in Conn \ {x} : wire'[y] = wire[y]
  BY <1>2, <1>6, <1>7, <1>8, OneObject
<1> QED BY <1>1, <1>6, <1>7, <1>9, <1>10 DEF CallStep, x

-----------------------------------------------------------------------------
(* Leaving a connection, for another or for none.                          *)

\* What a client's close does to the wire.
Shut(w, v) ==
  /\ v.server = w.server /\ v.client = "closed"
  /\ v.down = <<>> /\ v.up \in {w.up, <<>>} /\ v.sent = w.sent /\ v.got = w.got

\* A step of client c that leaves its connection, if it has one, and may open the
\* next.
LeaveStep(c) ==
  LET x == <<c, obj[c].fd>>
      y == <<c, obj[c].made + 1>>
  IN  /\ ClientSide'
      /\ \A d \in Client \ {c} : obj'[d] = obj[d]
      /\ obj'[c].readBuf = <<>> /\ obj'[c].call = "none"
      /\ obj[c].fd # NoFd => Shut(wire[x], wire'[x])
      /\ \/ /\ obj'[c].fd = NoFd /\ obj'[c].made = obj[c].made
            /\ \A z \in Conn \ {x} : wire'[z] = wire[z]
         \/ /\ obj'[c].fd = obj[c].made + 1 /\ obj'[c].made = obj[c].made + 1
            /\ obj[c].made < MaxSessions[c]
            /\ wire'[y] = NewWire(IF listenFd = "listening" THEN "queued" ELSE "refused", "open")
            /\ \A z \in Conn \ {x, y} : wire'[z] = wire[z]

LEMMA ClosedWires ==
  ASSUME ClientSide, Objects, NEW c \in Client, NEW wires \in AfterClose(c)
  PROVE  LET x == <<c, obj[c].fd>>
         IN  /\ wires \in [Conn -> WireT]
             /\ obj[c].fd # NoFd => Shut(wire[x], wires[x])
             /\ \A z \in Conn \ {x} : wires[z] = wire[z]
<1> DEFINE x == <<c, obj[c].fd>>
<1>1. CASE obj[c].fd = NoFd
  <2>1. wires = wire
    BY <1>1 DEF AfterClose, Connected
  <2> QED BY <1>1, <2>1 DEF ClientSide
<1>2. CASE obj[c].fd # NoFd
  <2>1. x \in Conn /\ wire[x] \in WireT
    BY <1>2, OwnWire
  <2>2. PICK up \in {wire[x].up, <<>>} :
          wires = [wire EXCEPT ![x].client = "closed", ![x].down = <<>>, ![x].up = up]
    BY <1>2 DEF AfterClose, Connected, Wire
  <2>3. up \in Seq(Symbol)
    <3>1. wire[x].up \in Seq(Symbol) /\ <<>> \in Seq(Symbol)
      BY <2>1 DEF WireT
    <3> QED BY <3>1
  <2> DEFINE v == [wire[x] EXCEPT !.client = "closed", !.down = <<>>, !.up = up]
  <2>4. wires = [wire EXCEPT ![x] = v]
    BY <2>1, <2>2 DEF ClientSide, WireT
  <2>5. v \in WireT /\ Shut(wire[x], v)
    <3>1. <<>> \in Seq(Symbol)
      OBVIOUS
    <3> QED BY <2>1, <2>2, <2>3, <3>1 DEF WireT, Shut
  <2> HIDE DEF v, x
  <2>6. /\ wires \in [Conn -> WireT] /\ wires[x] = v
        /\ \A z \in Conn \ {x} : wires[z] = wire[z]
    BY <2>1, <2>4, <2>5 DEF ClientSide
  <2> QED BY <2>5, <2>6 DEF x
<1> QED BY <1>1, <1>2

LEMMA LeavingCalls ==
  ASSUME ClientSide, Objects, NEW c \in Client, Connect(c) \/ Disconnect(c)
  PROVE  LeaveStep(c)
<1> DEFINE x == <<c, obj[c].fd>>
           y == <<c, obj[c].made + 1>>
           o == disconnect(obj[c])
<1>1. obj[c] \in ObjT /\ obj[c].call = "none"
  BY DEF Connect, Disconnect, Idle, ClientSide
<1>2. PICK wires \in AfterClose(c) :
        \/ obj' = [obj EXCEPT ![c] = o] /\ wire' = wires
        \/ obj[c].made < MaxSessions[c] /\ ConnectSocket(c, o, wires)
  BY DEF Connect, Disconnect
<1>3. /\ wires \in [Conn -> WireT]
      /\ obj[c].fd # NoFd => Shut(wire[x], wires[x])
      /\ \A z \in Conn \ {x} : wires[z] = wire[z]
  BY ClosedWires
<1>4. /\ o \in ObjT /\ o.fd = NoFd /\ o.made = obj[c].made
      /\ o.readBuf = <<>> /\ o.call = "none"
  <2>1. <<>> \in Seq(Symbol)
    OBVIOUS
  <2> QED BY <1>1, <2>1 DEF disconnect, ObjT
<1>5. CASE obj' = [obj EXCEPT ![c] = o] /\ wire' = wires
  <2> HIDE DEF o
  <2>1. /\ obj' \in [Client -> ObjT] /\ obj'[c] = o
        /\ \A d \in Client \ {c} : obj'[d] = obj[d]
    BY <1>4, <1>5 DEF ClientSide
  <2> QED BY <1>3, <1>4, <1>5, <2>1 DEF LeaveStep, ClientSide
<1>6. CASE obj[c].made < MaxSessions[c] /\ ConnectSocket(c, o, wires)
  <2> DEFINE s == obj[c].made + 1
             p == [o EXCEPT !.fd = s, !.made = s]
             v == NewWire(IF listenFd = "listening" THEN "queued" ELSE "refused", "open")
  <2>1. /\ obj[c].made \in Nat /\ s \in Nat /\ s \in 1..MaxSessions[c] /\ obj[c].fd # s
    BY <1>1, <1>6, Fds DEF ObjT, Objects, NoFd
  <2>2. y \in Conn
    BY <2>1, ConnPair
  <2>3. obj' = [obj EXCEPT ![c] = p] /\ wire' = [wires EXCEPT ![y] = v]
    BY <1>4, <1>6 DEF ConnectSocket
  <2>4. /\ p \in ObjT /\ p.fd = s /\ p.made = s
        /\ p.readBuf = <<>> /\ p.call = "none"
    <3> HIDE DEF o
    <3> QED BY <1>4, <2>1 DEF ObjT
  <2>5. v \in WireT
    <3>1. <<>> \in Seq(Symbol)
      OBVIOUS
    <3> QED BY <3>1 DEF NewWire, WireT
  <2> HIDE DEF p, v
  <2>6. /\ obj' \in [Client -> ObjT] /\ obj'[c] = p
        /\ \A d \in Client \ {c} : obj'[d] = obj[d]
    BY <2>3, <2>4 DEF ClientSide
  <2>7. /\ wire' \in [Conn -> WireT] /\ wire'[y] = v
        /\ \A z \in Conn \ {y} : wire'[z] = wires[z]
    BY <1>3, <2>2, <2>3, <2>5
  <2>8. obj[c].fd # NoFd => x \in Conn /\ x # y
    BY <2>1, OwnWire
  <2>9. /\ obj[c].fd # NoFd => Shut(wire[x], wire'[x])
        /\ \A z \in Conn \ {x, y} : wire'[z] = wire[z]
    BY <1>3, <2>7, <2>8
  <2> QED BY <1>6, <2>4, <2>6, <2>7, <2>9 DEF LeaveStep, ClientSide, v
<1> QED BY <1>2, <1>5, <1>6

LEMMA ClientCalls ==
  ASSUME ClientSide, Objects, NEW c \in Client, ClientNext(c)
  PROVE  CallStep(c) \/ LeaveStep(c)
BY QuietCalls, SendChunkCall, ReadingCalls, LeavingCalls DEF ClientNext, Progress

-----------------------------------------------------------------------------
(* The clients' steps.                                                     *)

LEMMA CallKeepsObjects ==
  ASSUME ClientSide, Objects, NEW c \in Client, CallStep(c)
  PROVE  Objects' /\ \A x \in Conn : wire'[x].server = wire[x].server
<1> DEFINE x == <<c, obj[c].fd>>
<1>1. /\ obj[c].fd # NoFd /\ obj'[c].fd = obj[c].fd /\ obj'[c].made = obj[c].made
      /\ \A d \in Client \ {c} : obj'[d] = obj[d]
      /\ \A y \in Conn \ {x} : wire'[y] = wire[y]
      /\ wire'[x].server = wire[x].server /\ wire'[x].client = wire[x].client
  BY DEF CallStep
<1>2. /\ x \in Conn /\ obj[c].fd \in Nat /\ obj[c].made \in Nat
      /\ ~(obj[c].fd > obj[c].made)
  <2>1. x \in Conn /\ obj[c] \in ObjT
    BY <1>1, OwnWire
  <2>2. obj[c].fd \in 1..obj[c].made
    BY <1>1 DEF Objects
  <2> QED BY <2>1, <2>2 DEF ObjT
<1>3. ASSUME NEW d \in Client
      PROVE  /\ obj'[d].made \in 0..MaxSessions[d]
             /\ obj'[d].fd \in {NoFd} \cup 1..obj'[d].made
             /\ obj'[d].call # "none" => obj'[d].fd # NoFd
  BY <1>1 DEF Objects
<1>4. ASSUME NEW d \in Client, NEW s \in 1..MaxSessions[d]
      PROVE  /\ wire'[<<d, s>>].client = "open" <=> s = obj'[d].fd
             /\ s > obj'[d].made => wire'[<<d, s>>] = NewWire("new", "new")
  <2>1. <<d, s>> \in Conn
    BY ConnPair
  <2>2. /\ wire'[<<d, s>>].client = wire[<<d, s>>].client
        /\ obj'[d].fd = obj[d].fd /\ obj'[d].made = obj[d].made
    BY <1>1, <2>1
  <2>3. s > obj[d].made => <<d, s>> # x
    BY <1>2
  <2> QED BY <1>1, <2>1, <2>2, <2>3 DEF Objects
<1>5. Objects'
  BY <1>3, <1>4 DEF Objects
<1> QED BY <1>1, <1>5

LEMMA LeaveKeepsObjects ==
  ASSUME ClientSide, Objects, NEW c \in Client, LeaveStep(c)
  PROVE  /\ Objects'
         /\ \A z \in Conn : \/ wire'[z].server = wire[z].server
                            \/ /\ wire[z].server = "new"
                               /\ wire'[z] = NewWire(IF listenFd = "listening" THEN "queued"
                                                     ELSE "refused", "open")
<1> DEFINE x == <<c, obj[c].fd>>
           y == <<c, obj[c].made + 1>>
           nw == NewWire(IF listenFd = "listening" THEN "queued" ELSE "refused", "open")
<1>1. /\ \A d \in Client \ {c} : obj'[d] = obj[d]
      /\ obj'[c].call = "none"
      /\ obj[c].fd # NoFd => Shut(wire[x], wire'[x])
      /\ \/ /\ obj'[c].fd = NoFd /\ obj'[c].made = obj[c].made
            /\ \A z \in Conn \ {x} : wire'[z] = wire[z]
         \/ /\ obj'[c].fd = obj[c].made + 1 /\ obj'[c].made = obj[c].made + 1
            /\ obj[c].made < MaxSessions[c] /\ wire'[y] = nw
            /\ \A z \in Conn \ {x, y} : wire'[z] = wire[z]
  BY DEF LeaveStep
<1>2. /\ obj[c].made \in 0..MaxSessions[c] /\ obj[c].made \in Nat /\ MaxSessions[c] \in Nat
      /\ obj[c].fd \in {NoFd} \cup 1..obj[c].made
      /\ obj[c].fd # NoFd => x \in Conn /\ obj[c].fd \in Nat /\ obj[c].fd <= obj[c].made
  <2>1. obj[c].made \in 0..MaxSessions[c] /\ MaxSessions[c] \in Nat
    BY Fds DEF Objects
  <2>2. obj[c].fd \in {NoFd} \cup 1..obj[c].made
    BY DEF Objects
  <2>3. obj[c].fd # NoFd => x \in Conn
    BY OwnWire
  <2> QED BY <2>1, <2>2, <2>3
<1>3. obj[c].made < MaxSessions[c] => y \in Conn /\ wire[y] = NewWire("new", "new")
  <2>1. obj[c].made < MaxSessions[c] =>
          obj[c].made + 1 \in 1..MaxSessions[c] /\ obj[c].made + 1 > obj[c].made
    BY <1>2
  <2> QED BY <2>1, ConnPair DEF Objects
<1>4. NoFd = -1 /\ nw.client = "open" /\ NewWire("new", "new").server = "new"
  BY DEF NoFd, NewWire
<1> HIDE DEF nw
<1>5. ASSUME NEW d \in Client
      PROVE  /\ obj'[d].made \in 0..MaxSessions[d]
             /\ obj'[d].fd \in {NoFd} \cup 1..obj'[d].made
             /\ obj'[d].call # "none" => obj'[d].fd # NoFd
  <2>1. CASE d = c
    BY <1>1, <1>2, <2>1
  <2>2. CASE d # c
    BY <1>1, <2>2 DEF Objects
  <2> QED BY <2>1, <2>2
<1>6. ASSUME NEW d \in Client, NEW s \in 1..MaxSessions[d]
      PROVE  /\ wire'[<<d, s>>].client = "open" <=> s = obj'[d].fd
             /\ s > obj'[d].made => wire'[<<d, s>>] = NewWire("new", "new")
  <2>1. <<d, s>> \in Conn /\ s \in Nat /\ s # NoFd
    BY ConnPair, <1>4, Fds
  <2>2. /\ wire[<<d, s>>].client = "open" <=> s = obj[d].fd
        /\ s > obj[d].made => wire[<<d, s>>] = NewWire("new", "new")
    BY DEF Objects
  <2>3. CASE d # c
    <3>1. wire'[<<d, s>>] = wire[<<d, s>>]
      BY <1>1, <2>1, <2>3
    <3> QED BY <1>1, <2>2, <2>3, <3>1
  <2>4. CASE d = c /\ s = obj[c].fd
    <3>1. wire'[x].client = "closed"
      BY <1>1, <2>1, <2>4 DEF Shut
    <3>2. s # obj'[c].fd /\ ~(s > obj'[c].made)
      BY <1>1, <1>2, <2>1, <2>4
    <3> QED BY <2>4, <3>1, <3>2
  <2>5. CASE d = c /\ s # obj[c].fd /\ s = obj'[c].fd
    <3>1. s = obj[c].made + 1 /\ wire'[y] = nw /\ obj'[c].made = s
      BY <1>1, <2>1, <2>5
    <3> QED BY <1>4, <2>1, <2>5, <3>1
  <2>6. CASE d = c /\ s # obj[c].fd /\ s # obj'[c].fd
    <3>1. wire'[<<c, s>>] = wire[<<c, s>>]
      BY <1>1, <2>1, <2>6
    <3>2. s > obj'[c].made => s > obj[c].made
      BY <1>1, <1>2, <2>1
    <3> QED BY <2>2, <2>6, <3>1, <3>2
  <2> QED BY <2>3, <2>4, <2>5, <2>6
<1>7. ASSUME NEW z \in Conn
      PROVE  \/ wire'[z].server = wire[z].server
             \/ wire[z].server = "new" /\ wire'[z] = nw
  <2>1. CASE z = x
    <3>1. obj[c].fd # NoFd
      <4>1. x[2] \in 1..MaxSessions[x[1]]
        BY <2>1, ConnParts
      <4> QED BY <4>1, <1>2, <1>4
    <3> QED BY <1>1, <2>1, <3>1 DEF Shut
  <2>2. CASE z # x /\ z = y
    <3> HIDE DEF x, y
    <3>1. CASE wire'[y] = nw /\ obj[c].made < MaxSessions[c]
      <4>1. wire[y].server = "new"
        BY <1>3, <1>4, <3>1
      <4> QED BY <2>2, <3>1, <4>1
    <3>2. CASE \A d \in Conn \ {x} : wire'[d] = wire[d]
      BY <2>2, <3>2
    <3> QED BY <1>1, <3>1, <3>2
  <2>3. CASE z # x /\ z # y
    BY <1>1, <2>3
  <2> QED BY <2>1, <2>2, <2>3
<1>8. Objects'
  BY <1>5, <1>6 DEF Objects
<1> QED BY <1>7, <1>8 DEF nw

LEMMA ClientsKeep ==
  ASSUME Types, Objects, Accounted, Clients
  PROVE  Types' /\ Objects' /\ Accounted'
<1>1. PICK c \in Client : ClientNext(c)
  BY DEF Clients
<1>2. /\ listenFd' = listenFd
      /\ running' = running /\ pc' = pc /\ runs' = runs /\ clients' = clients
      /\ echoQueues' = echoQueues /\ readSet' = readSet /\ writeSet' = writeSet /\ cur' = cur
  <2>1. listenFd' = listenFd
    BY <1>1 DEF ClientNext, Connect, Disconnect, Send, Available, Read, Progress, SendChunk,
                SendFails, Recv, RecvEnds, ReadReturns
  <2> QED BY <2>1 DEF Clients, tables, iteration
<1>3. CallStep(c) \/ LeaveStep(c)
  BY <1>1, ClientCalls DEF Types
<1>4. ClientSide'
  BY <1>3 DEF CallStep, LeaveStep
<1>5. /\ Objects'
      /\ \A z \in Conn : \/ wire'[z].server = wire[z].server
                         \/ /\ wire[z].server = "new"
                            /\ wire'[z] = NewWire(IF listenFd = "listening" THEN "queued"
                                                  ELSE "refused", "open")
  BY <1>3, CallKeepsObjects, LeaveKeepsObjects DEF Types
<1>6. Types'
  <2>1. ServerSide' /\ Queues' /\ Turns' /\ Control'
    BY <1>2 DEF Types, ServerSide, Queues, Turns, Control, Live
  <2> QED BY <1>4, <2>1 DEF Types
<1>7. Accounted'
  <2>1. \A z \in Conn : /\ wire'[z].server = "open" <=> wire[z].server = "open"
                        /\ wire'[z].server = "queued" =>
                             wire[z].server = "queued" \/ listenFd = "listening"
    BY <1>5 DEF NewWire
  <2>2. pc = "idle" => listenFd # "listening"
    BY DEF Types, Control
  <2>4. /\ \A x \in Conn : wire'[x].server = "open" <=> \E fd \in Fd : clients'[fd].remoteAddr = x
        /\ \A f, g \in Fd : clients'[f].remoteAddr = clients'[g].remoteAddr
                              /\ clients'[f].remoteAddr # NoConn => f = g
    BY <1>2, <2>1 DEF Accounted, ConnOf
  <2>5. pc' = "idle" => Live(clients)' = {} /\ Queued' = {}
    <3>1. CASE pc = "idle"
      <4>1. Live(clients) = {} /\ \A z \in Conn : wire[z].server # "queued"
        BY <3>1 DEF Accounted, Queued
      <4>2. \A z \in Conn : wire'[z].server # "queued"
        BY <2>1, <2>2, <3>1, <4>1
      <4>3. Live(clients)' = Live(clients)
        BY <1>2 DEF Live
      <4> QED BY <4>1, <4>2, <4>3 DEF Queued
    <3>2. CASE pc # "idle"
      BY <1>2, <3>2
    <3> QED BY <3>1, <3>2
  <2> QED BY <2>4, <2>5 DEF Accounted, ConnOf
<1> QED BY <1>5, <1>6, <1>7

-----------------------------------------------------------------------------
(* The server's steps.                                                     *)

\* What the server's close does to the wire.
Ended(w, v) ==
  /\ v.server = "closed" /\ v.client = w.client
  /\ v.up = <<>> /\ v.down \in {w.down, <<>>} /\ v.sent = w.sent /\ v.got = w.got

LEMMA EndsClosed ==
  ASSUME ClientSide, NEW xs \in SUBSET Conn, CloseServerEnds(xs)
  PROVE  /\ wire' \in [Conn -> WireT]
         /\ \A x \in xs : Ended(wire[x], wire'[x])
         /\ \A x \in Conn \ xs : wire'[x] = wire[x]
<1>1. PICK lost \in SUBSET {x \in xs : wire[x].up # <<>>} :
        wire' = [x \in Conn |->
          IF x \notin xs THEN wire[x]
          ELSE [wire[x] EXCEPT !.server = "closed", !.up = <<>>,
                               !.down = IF x \in lost THEN <<>> ELSE @]]
  BY DEF CloseServerEnds
<1>2. ASSUME NEW x \in xs
      PROVE  Ended(wire[x], wire'[x]) /\ wire'[x] \in WireT
  <2>1. wire[x] \in WireT /\ <<>> \in Seq(Symbol)
    BY DEF ClientSide
  <2>2. PICK down \in {wire[x].down, <<>>} :
          wire'[x] = [wire[x] EXCEPT !.server = "closed", !.up = <<>>, !.down = down]
    BY <1>1
  <2>3. down \in Seq(Symbol)
    BY <2>1 DEF WireT
  <2> QED BY <2>1, <2>2, <2>3 DEF Ended, WireT
<1>3. \A x \in Conn \ xs : wire'[x] = wire[x]
  BY <1>1
<1>4. \A x \in Conn : wire'[x] \in WireT
  BY <1>2, <1>3 DEF ClientSide
<1>5. wire' \in [Conn -> WireT]
  <2>1. DOMAIN wire' = Conn /\ wire' = [x \in Conn |-> wire'[x]]
    BY <1>1
  <2> QED BY <1>4, <2>1
<1> QED BY <1>2, <1>3, <1>5

\* The server leaves the objects alone, and the connections not yet made.
LEMMA ObjectsStay ==
  ASSUME Objects, obj' = obj,
         \A x \in Conn : /\ wire'[x].client = wire[x].client
                         /\ wire[x].server = "new" => wire'[x] = wire[x]
  PROVE  Objects'
<1>1. ASSUME NEW c \in Client, NEW s \in 1..MaxSessions[c]
      PROVE  /\ wire'[<<c, s>>].client = wire[<<c, s>>].client
             /\ wire[<<c, s>>] = NewWire("new", "new") => wire'[<<c, s>>] = wire[<<c, s>>]
  BY ConnPair DEF NewWire
<1> QED BY <1>1 DEF Objects

LEMMA KeptLines ==
  ASSUME NEW s \in Seq(Symbol)
  PROVE  Kept(s, Echo) \in Seq(Echo) /\ Kept(s, Order) \in Seq(Symbol)
<1>1. Symbol \cap Echo \subseteq Echo /\ Symbol \cap Order \subseteq Symbol
  OBVIOUS
<1>2. Kept(s, Echo) \in Seq(Symbol \cap Echo) /\ Kept(s, Order) \in Seq(Symbol \cap Order)
  BY KeptType
<1>3. \A A, B : A \subseteq B => Seq(A) \subseteq Seq(B)
  OBVIOUS
<1> QED BY <1>1, <1>2, <1>3

\* Echoes are symbols, and never orders.
LEMMA EchoSymbols ==
  /\ Echo \subseteq Symbol /\ Order \cap Echo = {}
  /\ \A s \in Seq(Echo) : s \in Seq(Symbol)
<1>1. Echo \subseteq Symbol /\ Order \cap Echo = {}
  BY DEF Echo, Symbol, Order
<1>2. \A A, B : A \subseteq B => Seq(A) \subseteq Seq(B)
  OBVIOUS
<1> QED BY <1>1, <1>2

LastEnd(buf) ==
  LET ends == {i \in DOMAIN buf : buf[i].nl}
  IN  IF ends = {} THEN 0 ELSE CHOOSE i \in ends : \A j \in ends : i >= j

LEMMA LastEndExists ==
  ASSUME NEW buf \in Seq(Symbol)
  PROVE  LastEnd(buf) \in 0..Len(buf)
<1> DEFINE ends == {i \in DOMAIN buf : buf[i].nl}
           n == Len(buf)
           Behind == {k \in Nat : n - k \in ends}
<1>1. n \in Nat /\ DOMAIN buf = 1..n /\ ends \subseteq 1..n
  OBVIOUS
<1>2. CASE ends = {}
  BY <1>1, <1>2 DEF LastEnd
<1>3. CASE ends # {}
  <2> HIDE DEF ends, n
  <2>1. PICK e \in ends : TRUE
    BY <1>3
  <2>2. e \in 1..n /\ n - e \in Nat /\ n - (n - e) = e
    BY <1>1
  <2>3. n - e \in Behind
    BY <2>2
  <2>4. Behind \in SUBSET Nat /\ Behind # {}
    BY <2>3
  <2>5. PICK m \in Behind : \A k \in Behind : m <= k
    <3> HIDE DEF Behind
    <3> QED BY <2>4, LeastNumber
  <2>6. n - m \in ends /\ m \in Nat
    OBVIOUS
  <2>7. ASSUME NEW j \in ends
        PROVE  n - m >= j
    <3>1. j \in 1..n
      BY <1>1
    <3>2. n - j \in Nat /\ n - (n - j) = j
      BY <1>1, <3>1
    <3>4. n - j \in Behind
      BY <3>2
    <3>3. m <= n - j
      BY <2>5, <3>4
    <3> QED BY <1>1, <2>6, <3>1, <3>3
  <2>8. (CHOOSE i \in ends : \A j \in ends : i >= j) \in ends
    BY <2>6, <2>7
  <2>9. LastEnd(buf) = CHOOSE i \in ends : \A j \in ends : i >= j
    BY <1>3 DEF LastEnd, ends
  <2>10. LastEnd(buf) \in ends
    BY <2>8, <2>9, Zenon
  <2>11. LastEnd(buf) \in 1..n
    BY <1>1, <2>10
  <2> QED BY <1>1, <2>11 DEF n
<1> QED BY <1>2, <1>3

Inv == Types /\ Objects /\ Accounted

\* A step that neither opens nor closes a connection.
LEMMA TableStays ==
  ASSUME ServerSide, ServerSide', Accounted,
         \A fd \in Fd : clients'[fd].remoteAddr = clients[fd].remoteAddr,
         \A x \in Conn : wire'[x].server = wire[x].server,
         pc' = "idle" => pc = "idle"
  PROVE  Live(clients)' = Live(clients) /\ Accounted'
<1>1. Live(clients)' = Live(clients)
  BY DEF ServerSide, Live
<1>2. Queued' = Queued
  BY DEF Queued
<1>3. \A fd \in Fd : ConnOf(fd)' = ConnOf(fd)
  BY DEF ConnOf
<1>4. \A x \in Conn : wire'[x].server = "open" <=> \E fd \in Fd : ConnOf(fd)' = x
  BY <1>3 DEF Accounted
<1>5. \A f, g \in Fd : ConnOf(f)' = ConnOf(g)' /\ ConnOf(f)' # NoConn => f = g
  BY <1>3 DEF Accounted
<1> QED BY <1>1, <1>2, <1>4, <1>5 DEF Accounted

LEMMA QuietKeeps ==
  ASSUME Inv,
         SetupListenSocket \/ EnterLoop \/ Select \/ stop \/ AcceptDone \/ ClientsDone
  PROVE  Inv'
<1>1. /\ obj' = obj /\ wire' = wire /\ clients' = clients /\ echoQueues' = echoQueues
      /\ cur' = cur /\ (pc' = "idle" => pc = "idle")
  BY DEF SetupListenSocket, EnterLoop, Select, stop, AcceptDone, ClientsDone, clientVars,
         tables, iteration
<1>2. ClientSide' /\ ServerSide' /\ Objects'
  BY <1>1 DEF Inv, Types, ClientSide, ServerSide, Objects
<1>3. Live(clients)' = Live(clients) /\ Accounted'
  BY <1>1, <1>2, TableStays DEF Inv, Types
<1>4. Queues'
  BY <1>1, <1>3 DEF Inv, Types, Queues
<1>5. Control'
  <2>1. SetupListenSocket => runs + 1 \in 0..MaxRuns
    <3>1. MaxRuns \in Nat /\ runs \in 0..MaxRuns
      BY FdAssumption DEF Inv, Types, Control
    <3> QED BY <3>1 DEF SetupListenSocket
  <2> QED BY <2>1 DEF Inv, Types, Control, SetupListenSocket, EnterLoop, Select, stop, AcceptDone,
                      ClientsDone, iteration
<1>6. Turns'
  <2>1. CASE Select
    <3>1. /\ readSet' = {fd \in Live(clients) : Readable(fd)}
                          \cup (IF Queued = {} THEN {} ELSE {ListenKey})
          /\ writeSet' \subseteq Live(clients)
          /\ pc' = "tick"
      BY <2>1 DEF Select
    <3> QED BY <1>3, <3>1 DEF Turns
  <2>2. CASE SetupListenSocket \/ EnterLoop \/ stop \/ AcceptDone \/ ClientsDone
    <3>1. /\ readSet' = readSet /\ writeSet' = writeSet
          /\ pc' = "tick" <=> pc = "tick"
          /\ pc' \in {"idle", "bound", "select"} =>
               pc \in {"idle", "bound", "select"} \/ readSet \cup writeSet = {}
      BY <2>2 DEF SetupListenSocket, EnterLoop, stop, AcceptDone, ClientsDone, iteration
    <3>2. Turns
      BY DEF Inv, Types
    <3> QED BY <1>3, <3>1, <3>2 DEF Turns
  <2> QED BY <2>1, <2>2
<1> QED BY <1>2, <1>3, <1>4, <1>5, <1>6 DEF Inv, Types

\* What onTick() does: some queues give up their front, to the client if there is one.
Dripped(fd) ==
  /\ clients'[fd].remoteAddr = clients[fd].remoteAddr
  /\ clients'[fd].recvBuf = clients[fd].recvBuf
  /\ \/ /\ clients'[fd].sendQueue = clients[fd].sendQueue
        /\ fd \in Live(clients) => echoQueues'[fd] = echoQueues[fd]
     \/ /\ echoQueues[fd] # <<>> /\ fd \in DOMAIN echoQueues
        /\ clients'[fd].sendQueue = clients[fd].sendQueue \o <<Head(echoQueues[fd])>>
        /\ echoQueues'[fd] = Tail(echoQueues[fd])

LEMMA TickEffect ==
  ASSUME Inv, Tick
  PROVE  /\ ServerSide' /\ Queues' /\ obj' = obj /\ wire' = wire
         /\ \A fd \in Fd : Dripped(fd)
<1>1. PICK due \in SUBSET {fd \in Fd : Due(fd)} : Drip(due)
  BY DEF Tick
<1>2. obj' = obj /\ wire' = wire
  BY DEF Tick, clientVars
<1>3. /\ ServerSide /\ Live(clients) \subseteq DOMAIN echoQueues /\ DOMAIN echoQueues \subseteq Fd
      /\ Live(clients) \subseteq Fd
      /\ \A fd \in DOMAIN echoQueues : echoQueues[fd] \in Seq(Echo)
  BY LiveFds DEF Inv, Types, Queues
<1>4. ASSUME NEW fd \in due
      PROVE  /\ fd \in DOMAIN echoQueues /\ echoQueues[fd] # <<>> /\ echoQueues[fd] \in Seq(Echo)
             /\ Tail(echoQueues[fd]) \in Seq(Echo) /\ Head(echoQueues[fd]) \in Echo
             /\ <<Head(echoQueues[fd])>> \in Seq(Symbol)
  <2>1. fd \in DOMAIN echoQueues /\ echoQueues[fd] # <<>> /\ echoQueues[fd] \in Seq(Echo)
    BY <1>3 DEF Due
  <2>2. \A q \in Seq(Echo) : q # <<>> => Tail(q) \in Seq(Echo) /\ Head(q) \in Echo
    OBVIOUS
  <2>3. Head(echoQueues[fd]) \in Symbol
    BY <2>1, <2>2, EchoSymbols
  <2>4. \A h \in Symbol : <<h>> \in Seq(Symbol)
    OBVIOUS
  <2> QED BY <2>1, <2>2, <2>3, <2>4
<1>5. ASSUME NEW fd \in Fd
      PROVE  /\ fd \in due \cap Live(clients) =>
                  clients'[fd] = [clients[fd] EXCEPT
                     !.sendQueue = clients[fd].sendQueue \o <<Head(echoQueues[fd])>>]
             /\ fd \notin due \cap Live(clients) => clients'[fd] = clients[fd]
  <2>1. clients'[fd] = IF fd \in due \cap Live(clients)
                       THEN sendToClient(clients, fd, <<Head(echoQueues[fd])>>)[fd]
                       ELSE clients[fd]
    BY <1>1 DEF Drip
  <2>2. fd \in Live(clients) => \A data :
          sendToClient(clients, fd, data)[fd]
            = [clients[fd] EXCEPT !.sendQueue = clients[fd].sendQueue \o data]
    BY <1>3 DEF sendToClient, ServerSide, StateT
  <2> QED BY <2>1, <2>2
<1>6. /\ DOMAIN echoQueues' = DOMAIN echoQueues
      /\ \A fd \in DOMAIN echoQueues :
           echoQueues'[fd] = IF fd \in due THEN Tail(echoQueues[fd]) ELSE echoQueues[fd]
      /\ echoQueues' = [fd \in DOMAIN echoQueues' |-> echoQueues'[fd]]
  BY <1>1 DEF Drip
<1>7. ASSUME NEW fd \in Fd
      PROVE  Dripped(fd) /\ clients'[fd] \in StateT
  <2>1. clients[fd] \in StateT /\ clients[fd].sendQueue \in Seq(Symbol)
    BY <1>3 DEF ServerSide, StateT
  <2>2. CASE fd \in due \cap Live(clients)
    <3> DEFINE data == <<Head(echoQueues[fd])>>
               sq == clients[fd].sendQueue \o data
    <3>1. data \in Seq(Symbol) /\ echoQueues[fd] # <<>> /\ fd \in DOMAIN echoQueues
      BY <1>4, <2>2
    <3>2. clients'[fd] = [clients[fd] EXCEPT !.sendQueue = sq]
      BY <1>5, <2>2
    <3>3. echoQueues'[fd] = Tail(echoQueues[fd])
      BY <1>6, <2>2, <3>1
    <3>4. sq \in Seq(Symbol)
      <4> HIDE DEF data
      <4> QED BY <2>1, <3>1
    <3>5. clients'[fd].sendQueue = sq
      <4> HIDE DEF sq
      <4> QED BY <2>1, <3>2 DEF StateT
    <3>6. /\ clients'[fd] \in StateT /\ clients'[fd].remoteAddr = clients[fd].remoteAddr
          /\ clients'[fd].recvBuf = clients[fd].recvBuf
      <4> HIDE DEF sq
      <4> QED BY <2>1, <3>2, <3>4 DEF StateT
    <3> QED BY <3>1, <3>3, <3>5, <3>6 DEF Dripped
  <2>3. CASE fd \notin due \cap Live(clients)
    <3>1. clients'[fd] = clients[fd]
      BY <1>5, <2>3
    <3>2. fd \in Live(clients) => echoQueues'[fd] = echoQueues[fd]
      BY <1>3, <1>6, <2>3
    <3> QED BY <2>1, <3>1, <3>2 DEF Dripped
  <2> QED BY <2>2, <2>3
<1>8. ServerSide'
  <2>1. clients' = [fd \in Fd |-> clients'[fd]]
    BY <1>1 DEF Drip
  <2> QED BY <1>7, <2>1 DEF ServerSide
<1>9. Queues'
  <2>1. Live(clients)' = Live(clients)
    BY <1>3, <1>7, <1>8 DEF ServerSide, Live, Dripped
  <2>2. \A fd \in DOMAIN echoQueues : echoQueues'[fd] \in Seq(Echo)
    BY <1>3, <1>4, <1>6
  <2>3. echoQueues' \in [DOMAIN echoQueues' -> Seq(Echo)]
    BY <1>6, <2>2
  <2> QED BY <1>3, <1>6, <2>1, <2>3 DEF Queues
<1> QED BY <1>2, <1>7, <1>8, <1>9

LEMMA TickKeeps == ASSUME Inv, Tick PROVE Inv'
<1>1. /\ ServerSide' /\ Queues' /\ obj' = obj /\ wire' = wire
      /\ \A fd \in Fd : clients'[fd].remoteAddr = clients[fd].remoteAddr
  BY TickEffect DEF Dripped
<1>2. /\ pc' \in {"accept", "clients"} /\ pc = "tick" /\ readSet' = readSet \ {ListenKey}
      /\ UNCHANGED <<running, runs, listenFd, writeSet, cur>>
  BY DEF Tick
<1>3. ClientSide' /\ Objects'
  BY <1>1 DEF Inv, Types, ClientSide, Objects
<1>4. Live(clients)' = Live(clients) /\ Accounted'
  BY <1>1, <1>2, TableStays DEF Inv, Types
<1>5. Turns'
  BY <1>2, <1>4 DEF Inv, Types, Turns
<1>6. Control'
  BY <1>2 DEF Inv, Types, Control
<1> QED BY <1>1, <1>3, <1>4, <1>5, <1>6 DEF Inv, Types

\* A descriptor that has a turn is that of a client with a connection of its own.
LEMMA TurnOfClient ==
  ASSUME Inv, NEW fd \in Fd, pc = "clients", fd \in readSet \cup writeSet
  PROVE  /\ fd \in Live(clients) /\ fd \in DOMAIN echoQueues /\ ConnOf(fd) \in Conn
         /\ clients[fd] \in StateT /\ wire[ConnOf(fd)] \in WireT
         /\ wire[ConnOf(fd)].server = "open" /\ echoQueues[fd] \in Seq(Echo)
<1>1. fd \in Live(clients)
  BY DEF Inv, Types, Turns
<1>2. ConnOf(fd) \in Conn /\ clients[fd] \in StateT
  BY <1>1, LiveFds DEF Inv, Types, ServerSide
<1>3. wire[ConnOf(fd)] \in WireT /\ wire[ConnOf(fd)].server = "open"
  BY <1>2 DEF Inv, Types, ClientSide, Accounted
<1>4. fd \in DOMAIN echoQueues /\ echoQueues[fd] \in Seq(Echo)
  BY <1>1 DEF Inv, Types, Queues
<1> QED BY <1>1, <1>2, <1>3, <1>4

LEMMA AcceptEffect ==
  ASSUME Inv, NEW x \in Conn, Accept(x)
  PROVE  /\ wire[x].server = "queued" /\ pc = "accept" /\ isAllowed(whitelist, x)
         /\ wire' \in [Conn -> WireT] /\ wire'[x] = [wire[x] EXCEPT !.server = "open"]
         /\ \A y \in Conn \ {x} : wire'[y] = wire[y]
         /\ \E fd \in Fd \ Live(clients) :
              /\ clients' \in [Fd -> StateT] /\ clients'[fd] = NewClient(x)
              /\ \A g \in Fd \ {fd} : clients'[g] = clients[g]
              /\ DOMAIN echoQueues' = DOMAIN echoQueues \cup {fd}
              /\ echoQueues' \in [DOMAIN echoQueues' -> Seq(Echo)] /\ echoQueues'[fd] = <<>>
              /\ \A g \in DOMAIN echoQueues \ {fd} : echoQueues'[g] = echoQueues[g]
         /\ UNCHANGED <<control, file, whitelist, iteration, obj>>
<1>1. /\ wire[x].server = "queued" /\ pc = "accept" /\ isAllowed(whitelist, x)
      /\ wire' = [wire EXCEPT ![x].server = "open"]
      /\ UNCHANGED <<control, file, whitelist, iteration, obj>>
  BY DEF Accept, Queued
<1>2. PICK fd \in Fd \ Live(clients) :
        /\ clients' = [clients EXCEPT ![fd] = NewClient(x)]
        /\ echoQueues' = With(echoQueues, fd, <<>>)
  BY DEF Accept, FreeFds
<1>3. /\ wire' \in [Conn -> WireT] /\ wire'[x] = [wire[x] EXCEPT !.server = "open"]
      /\ \A y \in Conn \ {x} : wire'[y] = wire[y]
  BY <1>1 DEF Inv, Types, ClientSide, WireT
<1>4. NewClient(x) \in StateT
  <2>1. <<>> \in Seq(Symbol)
    OBVIOUS
  <2> QED BY <2>1 DEF NewClient, StateT
<1>5. /\ clients' \in [Fd -> StateT] /\ clients'[fd] = NewClient(x)
      /\ \A g \in Fd \ {fd} : clients'[g] = clients[g]
  BY <1>2, <1>4 DEF Inv, Types, ServerSide
<1>6. /\ DOMAIN echoQueues' = DOMAIN echoQueues \cup {fd}
      /\ echoQueues' \in [DOMAIN echoQueues' -> Seq(Echo)] /\ echoQueues'[fd] = <<>>
      /\ \A g \in DOMAIN echoQueues \ {fd} : echoQueues'[g] = echoQueues[g]
  <2>1. echoQueues \in [DOMAIN echoQueues -> Seq(Echo)] /\ <<>> \in Seq(Echo)
    BY DEF Inv, Types, Queues
  <2> QED BY <1>2, <2>1 DEF With
<1> QED BY <1>1, <1>2, <1>3, <1>5, <1>6

LEMMA AcceptKeeps == ASSUME Inv, NEW x \in Conn, Accept(x) PROVE Inv'
<1>1. /\ wire[x].server = "queued" /\ pc = "accept"
      /\ wire' \in [Conn -> WireT] /\ wire'[x] = [wire[x] EXCEPT !.server = "open"]
      /\ \A y \in Conn \ {x} : wire'[y] = wire[y]
      /\ UNCHANGED <<control, file, whitelist, iteration, obj>>
  BY AcceptEffect
<1>2. PICK fd \in Fd \ Live(clients) :
        /\ clients' \in [Fd -> StateT] /\ clients'[fd] = NewClient(x)
        /\ \A g \in Fd \ {fd} : clients'[g] = clients[g]
        /\ DOMAIN echoQueues' = DOMAIN echoQueues \cup {fd}
        /\ echoQueues' \in [DOMAIN echoQueues' -> Seq(Echo)] /\ echoQueues'[fd] = <<>>
        /\ \A g \in DOMAIN echoQueues \ {fd} : echoQueues'[g] = echoQueues[g]
  BY AcceptEffect
<1>3. \A y \in Conn : /\ wire'[y].client = wire[y].client
                      /\ wire[y].server = "new" => wire'[y] = wire[y]
                      /\ wire'[y].server = "open" <=> wire[y].server = "open" \/ y = x
  BY <1>1 DEF Inv, Types, ClientSide, WireT
<1>4. ClientSide' /\ ServerSide' /\ Objects'
  BY <1>1, <1>2, <1>3, ObjectsStay DEF Inv, Types, ClientSide, ServerSide
<1>5. x # NoConn /\ clients'[fd].remoteAddr = x
  BY <1>2, ConnAssumption DEF NewClient
<1>6. Live(clients)' = Live(clients) \cup {fd}
  BY <1>2, <1>5 DEF Inv, Types, ServerSide, Live
<1>7. Queues'
  BY <1>2, <1>6 DEF Inv, Types, Queues
<1>8. Turns' /\ Control'
  BY <1>1, <1>6 DEF Inv, Types, Turns, Control, control, iteration
<1>9. Accounted'
  <2>1. ConnOf(fd) = NoConn
    BY <1>2, LiveFds DEF Inv, Types
  <2>2. ConnOf(fd)' = x /\ \A g \in Fd \ {fd} : ConnOf(g)' = ConnOf(g)
    BY <1>2, <1>5 DEF ConnOf
  <2>3. \A g \in Fd : ConnOf(g) # x
    BY <1>1 DEF Inv, Accounted
  <2>4. \A y \in Conn : wire'[y].server = "open" <=> \E g \in Fd : ConnOf(g)' = y
    <3>1. \A y \in Conn : wire[y].server = "open" <=> \E g \in Fd : ConnOf(g) = y
      BY DEF Inv, Accounted
    <3>2. \A y \in Conn : y # x => ((\E g \in Fd : ConnOf(g)' = y) <=> \E g \in Fd : ConnOf(g) = y)
      BY <2>1, <2>2, ConnAssumption
    <3> QED BY <1>3, <2>2, <3>1, <3>2
  <2>5. \A f, g \in Fd : ConnOf(f)' = ConnOf(g)' /\ ConnOf(f)' # NoConn => f = g
    BY <2>2, <2>3 DEF Inv, Accounted
  <2>6. pc' # "idle"
    BY <1>1 DEF control
  <2> QED BY <2>4, <2>5, <2>6 DEF Accounted
<1> QED BY <1>4, <1>7, <1>8, <1>9 DEF Inv, Types

LEMMA AcceptDeniedKeeps == ASSUME Inv, NEW x \in Conn, AcceptDenied(x) PROVE Inv'
<1>1. /\ wire[x].server = "queued" /\ pc = "accept" /\ CloseServerEnds({x})
      /\ UNCHANGED <<control, file, whitelist, tables, iteration, obj>>
  BY DEF AcceptDenied, Queued
<1>2. /\ wire' \in [Conn -> WireT] /\ Ended(wire[x], wire'[x])
      /\ \A y \in Conn \ {x} : wire'[y] = wire[y]
  BY <1>1, EndsClosed DEF Inv, Types
<1>3. \A y \in Conn : /\ wire'[y].client = wire[y].client
                      /\ wire[y].server = "new" => wire'[y] = wire[y]
                      /\ wire'[y].server = "open" <=> wire[y].server = "open"
  BY <1>1, <1>2 DEF Ended
<1>4. clients' = clients /\ echoQueues' = echoQueues /\ obj' = obj /\ pc' = pc
  BY <1>1 DEF tables, control
<1>5. ClientSide' /\ ServerSide' /\ Objects'
  BY <1>2, <1>3, <1>4, ObjectsStay DEF Inv, Types, ClientSide, ServerSide
<1>6. Live(clients)' = Live(clients) /\ \A fd \in Fd : ConnOf(fd)' = ConnOf(fd)
  BY <1>4 DEF Live, ConnOf
<1>7. Queues' /\ Turns' /\ Control'
  BY <1>1, <1>4, <1>6 DEF Inv, Types, Queues, Turns, Control, control, iteration
<1>8. Accounted'
  <2>1. \A y \in Conn : wire'[y].server = "open" <=> \E g \in Fd : ConnOf(g)' = y
    BY <1>3, <1>6 DEF Inv, Accounted
  <2>2. \A f, g \in Fd : ConnOf(f)' = ConnOf(g)' /\ ConnOf(f)' # NoConn => f = g
    BY <1>6 DEF Inv, Accounted
  <2> QED BY <1>1, <1>4, <2>1, <2>2 DEF Accounted
<1> QED BY <1>5, <1>7, <1>8 DEF Inv, Types

LEMMA EndEffect ==
  ASSUME Inv, NEW fd \in Fd, HandleEnd(fd)
  PROVE  LET x == ConnOf(fd)
         IN  /\ fd \in Live(clients) /\ x \in Conn /\ pc = "clients"
             /\ wire' \in [Conn -> WireT] /\ Ended(wire[x], wire'[x])
             /\ \A y \in Conn \ {x} : wire'[y] = wire[y]
             /\ clients' \in [Fd -> StateT] /\ clients'[fd] = NoClient
             /\ \A g \in Fd \ {fd} : clients'[g] = clients[g]
             /\ echoQueues' = Without(echoQueues, fd)
             /\ EndTurn(fd) /\ UNCHANGED <<control, file, whitelist, obj>>
<1> DEFINE x == ConnOf(fd)
<1>1. /\ pc = "clients" /\ fd \in readSet \cup writeSet /\ CloseServerEnds({x})
      /\ clients' = [clients EXCEPT ![fd] = NoClient] /\ echoQueues' = Without(echoQueues, fd)
      /\ EndTurn(fd) /\ UNCHANGED <<control, file, whitelist, obj>>
  BY DEF HandleEnd, Turn, DisconnectClient, erase
<1>2. fd \in Live(clients) /\ x \in Conn
  BY <1>1, TurnOfClient
<1>3. /\ wire' \in [Conn -> WireT] /\ Ended(wire[x], wire'[x])
      /\ \A y \in Conn \ {x} : wire'[y] = wire[y]
  BY <1>1, <1>2, EndsClosed DEF Inv, Types
<1>4. NoClient \in StateT
  <2>1. <<>> \in Seq(Symbol)
    OBVIOUS
  <2> QED BY <2>1 DEF NoClient, NewClient, StateT
<1>5. /\ clients' \in [Fd -> StateT] /\ clients'[fd] = NoClient
      /\ \A g \in Fd \ {fd} : clients'[g] = clients[g]
  BY <1>1, <1>4 DEF Inv, Types, ServerSide
<1> QED BY <1>1, <1>2, <1>3, <1>5

LEMMA EndKeeps == ASSUME Inv, NEW fd \in Fd, HandleEnd(fd) PROVE Inv'
<1> DEFINE x == ConnOf(fd)
<1>1. /\ fd \in Live(clients) /\ x \in Conn /\ pc = "clients"
      /\ wire' \in [Conn -> WireT] /\ Ended(wire[x], wire'[x])
      /\ \A y \in Conn \ {x} : wire'[y] = wire[y]
      /\ clients' \in [Fd -> StateT] /\ clients'[fd] = NoClient
      /\ \A g \in Fd \ {fd} : clients'[g] = clients[g]
      /\ echoQueues' = Without(echoQueues, fd)
      /\ EndTurn(fd) /\ UNCHANGED <<control, file, whitelist, obj>>
  BY EndEffect
<1>2. wire[x].server = "open" /\ x # NoConn
  BY <1>1, ConnAssumption DEF Inv, Accounted
<1>3. \A y \in Conn : /\ wire'[y].client = wire[y].client
                      /\ wire[y].server = "new" => wire'[y] = wire[y]
                      /\ wire'[y].server = "open" <=> wire[y].server = "open" /\ y # x
  <2> HIDE DEF x
  <2> QED BY <1>1, <1>2 DEF Ended
<1>4. ClientSide' /\ ServerSide' /\ Objects'
  BY <1>1, <1>3, ObjectsStay DEF Inv, Types, ClientSide, ServerSide
<1>5. Live(clients)' = Live(clients) \ {fd}
  BY <1>1 DEF Inv, Types, ServerSide, Live, NoClient, NewClient
<1>6. Queues'
  BY <1>1, <1>5 DEF Inv, Types, Queues, Without
<1>7. Turns'
  BY <1>1, <1>5 DEF Inv, Types, Turns, EndTurn, control
<1>8. Control'
  BY <1>1 DEF Inv, Types, Control, EndTurn, control
<1>9. Accounted'
  <2>1. ConnOf(fd)' = NoConn /\ \A g \in Fd \ {fd} : ConnOf(g)' = ConnOf(g)
    BY <1>1 DEF ConnOf, NoClient, NewClient
  <2>2. \A f, g \in Fd : ConnOf(f) = ConnOf(g) /\ ConnOf(f) # NoConn => f = g
    BY DEF Inv, Accounted
  <2>3. \A y \in Conn : wire'[y].server = "open" <=> \E g \in Fd : ConnOf(g)' = y
    <3>1. \A y \in Conn : wire[y].server = "open" <=> \E g \in Fd : ConnOf(g) = y
      BY DEF Inv, Accounted
    <3>2. \A g \in Fd \ {fd} : ConnOf(g) # x
      BY <1>2, <2>2
    <3> QED BY <1>3, <2>1, <3>1, <3>2, ConnAssumption
  <2>4. \A f, g \in Fd : ConnOf(f)' = ConnOf(g)' /\ ConnOf(f)' # NoConn => f = g
    BY <2>1, <2>2
  <2>5. pc' # "idle"
    BY <1>1 DEF control
  <2> QED BY <2>3, <2>4, <2>5 DEF Accounted
<1> QED BY <1>4, <1>6, <1>7, <1>8, <1>9 DEF Inv, Types

LEMMA LeaveLoopEffect ==
  ASSUME Inv, LeaveLoop
  PROVE  LET xs == Queued \cup {ConnOf(fd) : fd \in Live(clients)}
         IN  /\ xs \in SUBSET Conn /\ pc = "select"
             /\ \A x \in Conn : x \in xs <=> wire[x].server \in {"queued", "open"}
             /\ wire' \in [Conn -> WireT]
             /\ \A x \in xs : Ended(wire[x], wire'[x])
             /\ \A x \in Conn \ xs : wire'[x] = wire[x]
             /\ clients' = [fd \in Fd |-> NoClient] /\ Live(clients)' = {}
<1> DEFINE xs == Queued \cup {ConnOf(fd) : fd \in Live(clients)}
<1>1. /\ pc = "select" /\ clients' = [fd \in Fd |-> NoClient] /\ CloseServerEnds(xs)
  BY DEF LeaveLoop
<1>2. xs \in SUBSET Conn
  BY LiveFds DEF Inv, Types, Queued
<1>3. \A x \in Conn : x \in xs <=> wire[x].server \in {"queued", "open"}
  <2>1. \A x \in Conn : wire[x].server = "open" <=> \E fd \in Live(clients) : ConnOf(fd) = x
    BY LiveFds DEF Inv, Types, Accounted
  <2> QED BY <2>1 DEF Queued
<1> HIDE DEF xs
<1>4. /\ wire' \in [Conn -> WireT]
      /\ \A x \in xs : Ended(wire[x], wire'[x])
      /\ \A x \in Conn \ xs : wire'[x] = wire[x]
  BY <1>1, <1>2, EndsClosed DEF Inv, Types
<1>5. Live(clients)' = {}
  BY <1>1 DEF Live, NoClient, NewClient
<1> QED BY <1>1, <1>2, <1>3, <1>4, <1>5 DEF xs

LEMMA LeaveLoopKeeps == ASSUME Inv, LeaveLoop PROVE Inv'
<1> DEFINE xs == Queued \cup {ConnOf(fd) : fd \in Live(clients)}
<1>1. /\ xs \in SUBSET Conn /\ pc = "select"
      /\ \A x \in Conn : x \in xs <=> wire[x].server \in {"queued", "open"}
      /\ wire' \in [Conn -> WireT]
      /\ \A x \in xs : Ended(wire[x], wire'[x])
      /\ \A x \in Conn \ xs : wire'[x] = wire[x]
      /\ clients' = [fd \in Fd |-> NoClient] /\ Live(clients)' = {}
  BY LeaveLoopEffect
<1> HIDE DEF xs
<1>2. /\ pc' = "idle" /\ listenFd' = "none"
      /\ UNCHANGED <<running, runs, file, whitelist, echoQueues, iteration, obj>>
  BY DEF LeaveLoop
<1>3. \A y \in Conn : /\ wire'[y].client = wire[y].client
                      /\ wire[y].server = "new" => wire'[y] = wire[y]
                      /\ wire'[y].server \notin {"open", "queued"}
  BY <1>1 DEF Ended
<1>4. ClientSide' /\ ServerSide' /\ Objects'
  <2>1. NoClient \in StateT
    <3>1. <<>> \in Seq(Symbol)
      OBVIOUS
    <3> QED BY <3>1 DEF NoClient, NewClient, StateT
  <2> QED BY <1>1, <1>2, <1>3, <2>1, ObjectsStay DEF Inv, Types, ClientSide, ServerSide
<1>5. Queues' /\ Turns' /\ Control'
  BY <1>1, <1>2 DEF Inv, Types, Queues, Turns, Control, iteration
<1>6. Accounted'
  <2>1. \A fd \in Fd : ConnOf(fd)' = NoConn
    BY <1>1 DEF ConnOf, NoClient, NewClient
  <2> QED BY <1>1, <1>3, <2>1, ConnAssumption DEF Accounted, Queued
<1> QED BY <1>4, <1>5, <1>6 DEF Inv, Types

\* A step of the loop that only moves bytes of one client: st, v and q are what
\* becomes of its entry, its wire and its queue.
Moves(fd, st, v, q) ==
  LET x == ConnOf(fd)
  IN  /\ clients' = [clients EXCEPT ![fd] = st] /\ wire' = [wire EXCEPT ![x] = v]
      /\ DOMAIN echoQueues' = DOMAIN echoQueues /\ echoQueues'[fd] = q
      /\ echoQueues' \in [DOMAIN echoQueues' -> Seq(Echo)]
      /\ \A g \in DOMAIN echoQueues \ {fd} : echoQueues'[g] = echoQueues[g]
      /\ obj' = obj

LEMMA MovesKeeps ==
  ASSUME Inv, NEW fd \in Live(clients), NEW st \in StateT, NEW v \in WireT, NEW q,
         Moves(fd, st, v, q),
         st.remoteAddr = clients[fd].remoteAddr,
         v.server = wire[ConnOf(fd)].server, v.client = wire[ConnOf(fd)].client,
         pc' = "idle" => pc = "idle"
  PROVE  ClientSide' /\ ServerSide' /\ Queues' /\ Objects' /\ Accounted'
         /\ Live(clients)' = Live(clients)
<1> DEFINE x == ConnOf(fd)
<1>1. fd \in Fd /\ x \in Conn /\ wire[x].server = "open"
  BY LiveFds DEF Inv, Types, Accounted
<1>2. /\ clients' \in [Fd -> StateT] /\ clients'[fd] = st
      /\ \A g \in Fd \ {fd} : clients'[g] = clients[g]
  BY <1>1 DEF Moves, Inv, Types, ServerSide
<1>3. /\ wire' \in [Conn -> WireT] /\ wire'[x] = v
      /\ \A y \in Conn \ {x} : wire'[y] = wire[y]
  <2> HIDE DEF x
  <2> QED BY <1>1 DEF Moves, Inv, Types, ClientSide, x
<1>4. \A y \in Conn : /\ wire'[y].client = wire[y].client /\ wire'[y].server = wire[y].server
                      /\ wire[y].server = "new" => wire'[y] = wire[y]
  <2>1. wire'[x].client = wire[x].client /\ wire'[x].server = wire[x].server
    BY <1>3
  <2> HIDE DEF x
  <2> QED BY <1>1, <1>3, <2>1
<1>5. ClientSide' /\ ServerSide' /\ Objects'
  BY <1>2, <1>3, <1>4, ObjectsStay DEF Inv, Types, ClientSide, ServerSide, Moves
<1>6. \A g \in Fd : clients'[g].remoteAddr = clients[g].remoteAddr
  BY <1>2
<1>7. Live(clients)' = Live(clients) /\ Accounted'
  BY <1>4, <1>5, <1>6, TableStays DEF Inv, Types
<1>8. Queues'
  BY <1>7 DEF Inv, Types, Queues, Moves
<1> QED BY <1>5, <1>7, <1>8

LEMMA WriteEffect ==
  ASSUME Inv, NEW fd \in Fd, HandleWrite(fd)
  PROVE  LET x == ConnOf(fd)
         IN  \E t, rest \in Seq(Symbol) :
               /\ t \o rest = clients[fd].sendQueue
               /\ Moves(fd, [clients[fd] EXCEPT !.sendQueue = rest],
                        [wire[x] EXCEPT !.down = IF wire[x].client = "closed" THEN wire[x].down
                                                 ELSE wire[x].down \o t], echoQueues[fd])
<1> DEFINE x == ConnOf(fd)
<1>1. /\ pc = "clients" /\ fd \in writeSet /\ echoQueues' = echoQueues /\ obj' = obj
  BY DEF HandleWrite, Turn
<1>2. /\ fd \in Live(clients) /\ x \in Conn /\ wire[x] \in WireT /\ clients[fd] \in StateT
  BY <1>1, TurnOfClient
<1>3. clients[fd].sendQueue \in Seq(Symbol)
  BY <1>2 DEF StateT
<1>4. PICK n \in 1..Len(clients[fd].sendQueue) :
        /\ clients' = wrote(clients, fd, n)
        /\ wire' = [wire EXCEPT ![x].down =
             IF wire[x].client = "closed" THEN @ ELSE @ \o SubSeq(clients[fd].sendQueue, 1, n)]
  BY DEF HandleWrite
<1> DEFINE t == SubSeq(clients[fd].sendQueue, 1, n)
           rest == SubSeq(clients[fd].sendQueue, n + 1, Len(clients[fd].sendQueue))
           down == IF wire[x].client = "closed" THEN wire[x].down ELSE wire[x].down \o t
<1>5. t \in Seq(Symbol) /\ rest \in Seq(Symbol)
  BY <1>3, SplitSeq
<1>6. t \o rest = clients[fd].sendQueue
  BY <1>3, SplitSeq
<1>7. clients' = [clients EXCEPT ![fd].sendQueue = rest]
  BY <1>2, <1>4 DEF wrote, Inv, Types, ServerSide
<1>8. clients' = [clients EXCEPT ![fd] = [clients[fd] EXCEPT !.sendQueue = rest]]
  <2> HIDE DEF rest
  <2> QED BY <1>7, <1>2 DEF Inv, Types, ServerSide
<1>9. wire' = [wire EXCEPT ![x].down = down]
  BY <1>4, <1>2 DEF Inv, Types, ClientSide
<1>10. wire' = [wire EXCEPT ![x] = [wire[x] EXCEPT !.down = down]]
  <2> HIDE DEF down, x
  <2> QED BY <1>9, <1>2 DEF Inv, Types, ClientSide
<1>11. echoQueues' \in [DOMAIN echoQueues' -> Seq(Echo)]
  BY <1>1 DEF Inv, Types, Queues
<1>12. Moves(fd, [clients[fd] EXCEPT !.sendQueue = rest],
            [wire[x] EXCEPT !.down = down], echoQueues[fd])
  <2> HIDE DEF t, rest, down
  <2> QED BY <1>1, <1>8, <1>10, <1>11 DEF Moves
<1> HIDE DEF t, rest
<1> QED BY <1>5, <1>6, <1>12

LEMMA WriteKeeps == ASSUME Inv, NEW fd \in Fd, HandleWrite(fd) PROVE Inv'
<1> DEFINE x == ConnOf(fd)
<1>1. /\ pc = "clients" /\ fd \in writeSet /\ EndTurn(fd)
      /\ UNCHANGED <<control, file, whitelist>>
  BY DEF HandleWrite, Turn
<1>2. /\ fd \in Live(clients) /\ x \in Conn /\ wire[x] \in WireT /\ clients[fd] \in StateT
  BY <1>1, TurnOfClient
<1>3. PICK t, rest \in Seq(Symbol) :
        Moves(fd, [clients[fd] EXCEPT !.sendQueue = rest],
              [wire[x] EXCEPT !.down = IF wire[x].client = "closed" THEN wire[x].down
                                       ELSE wire[x].down \o t], echoQueues[fd])
  BY WriteEffect
<1> DEFINE down == IF wire[x].client = "closed" THEN wire[x].down ELSE wire[x].down \o t
           st == [clients[fd] EXCEPT !.sendQueue = rest]
           v == [wire[x] EXCEPT !.down = down]
<1>4. st \in StateT /\ st.remoteAddr = clients[fd].remoteAddr
  BY <1>2 DEF StateT
<1>5. v \in WireT /\ v.server = wire[x].server /\ v.client = wire[x].client
  <2>1. down \in Seq(Symbol)
    <3>1. wire[x].down \in Seq(Symbol)
      BY <1>2 DEF WireT
    <3> QED BY <3>1
  <2> HIDE DEF down
  <2> QED BY <1>2, <2>1 DEF WireT
<1>6. Moves(fd, st, v, echoQueues[fd])
  BY <1>3
<1>7. pc' = "idle" => pc = "idle"
  BY <1>1 DEF control
<1> HIDE DEF st, v
<1>8. ClientSide' /\ ServerSide' /\ Queues' /\ Objects' /\ Accounted'
      /\ Live(clients)' = Live(clients)
  BY <1>2, <1>4, <1>5, <1>6, <1>7, MovesKeeps
<1>9. Turns' /\ Control'
  BY <1>1, <1>8 DEF Inv, Types, Turns, Control, EndTurn, control
<1> QED BY <1>8, <1>9 DEF Inv, Types

Associates(s, t, u) == (s \o t) \o u = s \o (t \o u)

LEMMA Associate ==
  ASSUME NEW s \in Seq(Symbol), NEW t \in Seq(Symbol), NEW u \in Seq(Symbol)
  PROVE  Associates(s, t, u)
BY DEF Associates

LEMMA SplitAnywhere ==
  ASSUME NEW s \in Seq(Symbol), NEW n \in 0..Len(s)
  PROVE  /\ SubSeq(s, 1, n) \in Seq(Symbol) /\ SubSeq(s, n + 1, Len(s)) \in Seq(Symbol)
         /\ SubSeq(s, 1, n) \o SubSeq(s, n + 1, Len(s)) = s
<1>1. CASE n = 0
  <2>1. SubSeq(s, 1, 0) = <<>> /\ SubSeq(s, 1, Len(s)) = s
    OBVIOUS
  <2>2. 0 + 1 = 1 /\ <<>> \in Seq(Symbol) /\ <<>> \o s = s
    OBVIOUS
  <2> QED BY <1>1, <2>1, <2>2
<1>2. CASE n # 0
  <2>1. n \in 1..Len(s)
    BY <1>2
  <2> QED BY <2>1, SplitSeq
<1> QED BY <1>1, <1>2

LEMMA ReadEffect ==
  ASSUME Inv, NEW fd \in Fd, HandleRead(fd)
  PROVE  LET x == ConnOf(fd)
         IN  \E lines, left, up \in Seq(Symbol) :
               /\ lines \o (left \o up) = clients[fd].recvBuf \o wire[x].up
               /\ Moves(fd, [clients[fd] EXCEPT !.recvBuf = left,
                               !.sendQueue = clients[fd].sendQueue \o Kept(lines, Order)],
                        [wire[x] EXCEPT !.up = up], echoQueues[fd] \o Kept(lines, Echo))
<1> DEFINE x == ConnOf(fd)
<1>1. /\ pc = "clients" /\ fd \in readSet /\ obj' = obj
  BY DEF HandleRead, Turn
<1>2. /\ fd \in Live(clients) /\ x \in Conn /\ wire[x] \in WireT /\ clients[fd] \in StateT
      /\ fd \in DOMAIN echoQueues /\ echoQueues[fd] \in Seq(Echo)
  BY <1>1, TurnOfClient
<1>3. wire[x].up \in Seq(Symbol) /\ clients[fd].recvBuf \in Seq(Symbol)
  BY <1>2 DEF WireT, StateT
<1>4. PICK n \in 1..Len(wire[x].up) :
        /\ onRawData(fd, clients[fd].recvBuf \o SubSeq(wire[x].up, 1, n))
        /\ wire' = [wire EXCEPT ![x].up = SubSeq(@, n + 1, Len(@))]
  BY DEF HandleRead
<1> DEFINE t == SubSeq(wire[x].up, 1, n)
           up == SubSeq(wire[x].up, n + 1, Len(wire[x].up))
           buf == clients[fd].recvBuf \o t
           lines == SubSeq(buf, 1, LastEnd(buf))
           left == SubSeq(buf, LastEnd(buf) + 1, Len(buf))
           st == [clients[fd] EXCEPT !.recvBuf = left,
                    !.sendQueue = clients[fd].sendQueue \o Kept(lines, Order)]
<1>5. t \in Seq(Symbol) /\ up \in Seq(Symbol)
  BY <1>3, SplitSeq
<1>6. t \o up = wire[x].up
  BY <1>3, SplitSeq
<1>7. buf \in Seq(Symbol)
  <2> HIDE DEF t
  <2> QED BY <1>3, <1>5
<1>8. lines \in Seq(Symbol) /\ left \in Seq(Symbol)
  <2> HIDE DEF buf
  <2>1. LastEnd(buf) \in 0..Len(buf)
    BY <1>7, LastEndExists
  <2> QED BY <1>7, <2>1, SplitAnywhere
<1>9. lines \o left = buf
  <2> HIDE DEF buf
  <2>1. LastEnd(buf) \in 0..Len(buf)
    BY <1>7, LastEndExists
  <2> QED BY <1>7, <2>1, SplitAnywhere
<1>10. lines \o (left \o up) = clients[fd].recvBuf \o wire[x].up
  <2> DEFINE r == clients[fd].recvBuf
  <2> HIDE DEF lines, left, t, up, r
  <2>1. Associates(lines, left, up) /\ Associates(r, t, up)
    BY <1>3, <1>5, <1>8, Associate DEF r
  <2>2. lines \o (left \o up) = (r \o t) \o up
    BY <1>9, <2>1 DEF r, Associates
  <2>3. (r \o t) \o up = r \o wire[x].up
    BY <1>6, <2>1 DEF Associates
  <2> QED BY <2>2, <2>3 DEF r
<1>11. onRawData(fd, buf)
  BY <1>4
<1>12. /\ clients' = sendToClient([clients EXCEPT ![fd].recvBuf = left], fd, Kept(lines, Order))
       /\ echoQueues' = With(echoQueues, fd, echoQueues[fd] \o Kept(lines, Echo))
  <2> HIDE DEF buf
  <2> QED BY <1>11 DEF onRawData, LastEnd
<1> HIDE DEF buf, lines, left, t, up
<1>13. clients' = [clients EXCEPT ![fd] = st]
  <2> DEFINE table == [clients EXCEPT ![fd] = [clients[fd] EXCEPT !.recvBuf = left]]
  <2>1. [clients EXCEPT ![fd].recvBuf = left] = table
    BY <1>2 DEF Inv, Types, ServerSide
  <2>2. fd \in Live(table) /\ fd \in DOMAIN clients
    BY <1>2 DEF Live, StateT
  <2>3. clients' = [table EXCEPT ![fd].sendQueue = @ \o Kept(lines, Order)]
    BY <1>12, <2>1, <2>2 DEF sendToClient
  <2> QED BY <1>2, <2>2, <2>3 DEF Inv, Types, ServerSide, StateT
<1>14. wire' = [wire EXCEPT ![x] = [wire[x] EXCEPT !.up = up]]
  <2>1. wire' = [wire EXCEPT ![x].up = up]
    BY <1>4, <1>2 DEF Inv, Types, ClientSide, up
  <2> HIDE DEF x
  <2> QED BY <2>1, <1>2 DEF Inv, Types, ClientSide
<1>15. /\ DOMAIN echoQueues' = DOMAIN echoQueues
       /\ echoQueues'[fd] = echoQueues[fd] \o Kept(lines, Echo)
       /\ echoQueues' \in [DOMAIN echoQueues' -> Seq(Echo)]
       /\ \A g \in DOMAIN echoQueues \ {fd} : echoQueues'[g] = echoQueues[g]
  <2> DEFINE e == Kept(lines, Echo)
             q == echoQueues[fd] \o e
  <2>1. e \in Seq(Echo)
    BY <1>8, KeptLines
  <2>2. q \in Seq(Echo)
    <3> HIDE DEF e
    <3> QED BY <1>2, <2>1
  <2>3. echoQueues' = With(echoQueues, fd, q) /\ echoQueues \in [DOMAIN echoQueues -> Seq(Echo)]
    BY <1>12 DEF Inv, Types, Queues
  <2> HIDE DEF q
  <2>4. /\ DOMAIN echoQueues' = DOMAIN echoQueues
        /\ echoQueues'[fd] = q
        /\ echoQueues' \in [DOMAIN echoQueues' -> Seq(Echo)]
        /\ \A g \in DOMAIN echoQueues \ {fd} : echoQueues'[g] = echoQueues[g]
    BY <1>2, <2>2, <2>3 DEF With
  <2> QED BY <2>4 DEF q
<1>16. Moves(fd, st, [wire[x] EXCEPT !.up = up], echoQueues[fd] \o Kept(lines, Echo))
  <2> HIDE DEF st
  <2> QED BY <1>1, <1>13, <1>14, <1>15 DEF Moves
<1> QED BY <1>5, <1>8, <1>10, <1>16

LEMMA ReadKeeps == ASSUME Inv, NEW fd \in Fd, HandleRead(fd) PROVE Inv'
<1> DEFINE x == ConnOf(fd)
<1>1. /\ pc = "clients" /\ fd \in readSet /\ readSet' = readSet \ {fd}
      /\ cur' \in {fd, NoFd}
      /\ running' \in {running, FALSE}
      /\ UNCHANGED <<pc, runs, listenFd, file, whitelist, writeSet, obj>>
  BY DEF HandleRead, Turn, onRawData
<1>2. /\ fd \in Live(clients) /\ x \in Conn /\ wire[x] \in WireT /\ clients[fd] \in StateT
  BY <1>1, TurnOfClient
<1>3. PICK lines, left, up \in Seq(Symbol) :
        Moves(fd, [clients[fd] EXCEPT !.recvBuf = left,
                     !.sendQueue = clients[fd].sendQueue \o Kept(lines, Order)],
              [wire[x] EXCEPT !.up = up], echoQueues[fd] \o Kept(lines, Echo))
  BY ReadEffect
<1> DEFINE sq == clients[fd].sendQueue \o Kept(lines, Order)
           st == [clients[fd] EXCEPT !.recvBuf = left, !.sendQueue = sq]
           v == [wire[x] EXCEPT !.up = up]
<1>4. sq \in Seq(Symbol)
  <2>1. clients[fd].sendQueue \in Seq(Symbol) /\ Kept(lines, Order) \in Seq(Symbol)
    BY <1>2, KeptLines DEF StateT
  <2> QED BY <2>1
<1>5. st \in StateT /\ st.remoteAddr = clients[fd].remoteAddr
  <2> HIDE DEF sq
  <2> QED BY <1>2, <1>4 DEF StateT
<1>6. v \in WireT /\ v.server = wire[x].server /\ v.client = wire[x].client
  BY <1>2 DEF WireT
<1>7. Moves(fd, st, v, echoQueues[fd] \o Kept(lines, Echo))
  BY <1>3
<1>8. pc' = "idle" => pc = "idle"
  BY <1>1
<1> HIDE DEF st, v
<1>9. ClientSide' /\ ServerSide' /\ Queues' /\ Objects' /\ Accounted'
      /\ Live(clients)' = Live(clients)
  BY <1>2, <1>5, <1>6, <1>7, <1>8, MovesKeeps
<1>10. Turns' /\ Control'
  BY <1>1, <1>9 DEF Inv, Types, Turns, Control
<1> QED BY <1>9, <1>10 DEF Inv, Types

LEMMA InvStep == ASSUME Inv, [Next]_vars PROVE Inv'
<1>1. CASE Clients
  BY <1>1, ClientsKeep DEF Inv
<1>2. CASE SetupListenSocket \/ EnterLoop \/ Select \/ stop \/ AcceptDone \/ ClientsDone
  BY <1>2, QuietKeeps
<1>3. CASE Tick
  BY <1>3, TickKeeps
<1>4. CASE LeaveLoop
  BY <1>4, LeaveLoopKeeps
<1>5. ASSUME NEW x \in Conn, Accept(x) \/ AcceptDenied(x)
      PROVE  Inv'
  BY <1>5, AcceptKeeps, AcceptDeniedKeeps
<1>6. ASSUME NEW fd \in Fd, HandleRead(fd) \/ HandleEnd(fd) \/ HandleWrite(fd)
      PROVE  Inv'
  BY <1>6, ReadKeeps, EndKeeps, WriteKeeps
<1>7. CASE UNCHANGED vars
  <2>1. /\ obj' = obj /\ wire' = wire /\ clients' = clients /\ echoQueues' = echoQueues
        /\ readSet' = readSet /\ writeSet' = writeSet /\ cur' = cur
        /\ running' = running /\ pc' = pc /\ runs' = runs /\ listenFd' = listenFd
    BY <1>7 DEF vars, control, tables, iteration, clientVars
  <2>2. Live(clients)' = Live(clients) /\ Queued' = Queued /\ \A fd : ConnOf(fd)' = ConnOf(fd)
    BY <2>1 DEF Live, Queued, ConnOf
  <2>3. Types'
    BY <2>1, <2>2 DEF Inv, Types, ClientSide, ServerSide, Queues, Turns, Control
  <2>4. Objects' /\ Accounted'
    BY <2>1, <2>2 DEF Inv, Objects, Accounted
  <2> QED BY <2>3, <2>4 DEF Inv
<1> QED BY <1>1, <1>2, <1>3, <1>4, <1>5, <1>6, <1>7 DEF Next, Loop

LEMMA AlwaysInv == Spec => []Inv
<1>1. Init => Inv
  BY InitInv DEF Inv
<1> QED BY <1>1, InvStep, PTL DEF Spec

LEMMA InvTypeOK == ASSUME Inv PROVE TypeOK
<1>1. /\ listenFd \in {"none", "open", "listening"}
      /\ running \in BOOLEAN /\ runs \in 0..MaxRuns
      /\ pc \in {"idle", "bound", "select", "tick", "accept", "clients"}
      /\ cur \in Fd \cup {NoFd}
  BY DEF Inv, Types, Control
<1>2. /\ obj \in [Client -> [fd : Nat \cup {NoFd}, made : Nat,
                         readBuf : Seq(Symbol), call : {"none", "send", "read"},
                         left : Seq(Symbol)]]
      /\ wire \in [Conn -> [server : {"new", "queued", "open", "closed", "refused"},
                        client : {"new", "open", "closed"}, up : Seq(Symbol),
                        down : Seq(Symbol), sent : Seq(Symbol), got : Seq(Symbol)]]
  BY DEF Inv, Types, ClientSide, ObjT, WireT
<1>3. clients \in [Fd -> [remoteAddr : Conn \cup {NoConn}, recvBuf : Seq(Symbol),
                         sendQueue : Seq(Symbol), pendingClose : {FALSE}]]
  BY DEF Inv, Types, ServerSide, StateT
<1>4. /\ DOMAIN echoQueues \subseteq Fd
      /\ \A fd \in DOMAIN echoQueues : echoQueues[fd] \in Seq(Symbol)
  BY EchoSymbols DEF Inv, Types, Queues
<1>5. /\ readSet \subseteq Fd \cup (IF pc = "tick" THEN {ListenKey} ELSE {})
      /\ writeSet \subseteq Fd
  BY LiveFds DEF Inv, Types, Turns
<1> QED BY <1>1, <1>2, <1>3, <1>4, <1>5 DEF TypeOK

\* Every variable of EchoServer and of the TcpClientB objects it serves keeps its type.
THEOREM TypeCorrect == Spec => []TypeOK
BY AlwaysInv, InvTypeOK, PTL

LEMMA InvOwned == ASSUME Inv PROVE DescriptorsOwned
<1>1. ASSUME NEW c \in Client
      PROVE  {s \in 1..MaxSessions[c] : wire[<<c, s>>].client = "open"} = {obj[c].fd} \ {NoFd}
  <2>1. \A s \in 1..MaxSessions[c] : /\ wire[<<c, s>>].client = "open" <=> s = obj[c].fd
                                     /\ s # NoFd
    BY Fds DEF Inv, Objects, NoFd
  <2>2. obj[c].fd # NoFd => obj[c].fd \in 1..MaxSessions[c]
    BY OwnWire DEF Inv, Types
  <2> QED BY <2>1, <2>2
<1>2. {x \in Conn : wire[x].server = "open"} = {ConnOf(fd) : fd \in Live(clients)}
  <2>1. \A x \in Conn : wire[x].server = "open" <=> \E fd \in Fd : ConnOf(fd) = x
    BY DEF Inv, Accounted
  <2> QED BY <2>1, LiveFds DEF Inv, Types
<1>3. \A f, g \in Live(clients) : ConnOf(f) = ConnOf(g) => f = g
  BY LiveFds, ConnAssumption DEF Inv, Types, Accounted
<1> QED BY <1>1, <1>2, <1>3 DEF DescriptorsOwned, Inv, Accounted

\* No descriptor leaks: through connect(), disconnect() and errors an object of
\* TcpClientB has the one socket it knows of, and the server the sockets of its
\* table, none after listen() has returned.
THEOREM NoDescriptorLeaks == Spec => []DescriptorsOwned
BY AlwaysInv, InvOwned, PTL

-----------------------------------------------------------------------------
(* The whitelist.                                                          *)

Filtered == file \in Files /\ whitelist = load(file)

\* The patterns an object has are the values of the section, and the search through
\* them finds what is there: isAllowed() of what load() made is the reference.
LEMMA AllowedMatches ==
  ASSUME Filtered, NEW x \in Conn
  PROVE  isAllowed(whitelist, x) <=> HostMatches(x)
<1> DEFINE S == (SUBSET Client) \cup {NoValue}
           K == Values(file)
           s == file.values
           k == Kept(s, K)
<1>1. s \in Seq(S) /\ file.hasSection \in BOOLEAN
  BY FilesAssumption DEF Filtered
<1>2. HostMatches(x) <=> ~file.hasSection \/ K = {} \/ \E v \in K : x[1] \in v
  BY DEF HostMatches, Values
<1>3. CASE ~file.hasSection
  <2>1. whitelist.filteringEnabled = FALSE
    BY <1>3 DEF Filtered, load, Disabled
  <2> QED BY <1>2, <1>3, <2>1 DEF isAllowed
<1>4. CASE file.hasSection
  <2>1. whitelist = [patterns |-> k, filteringEnabled |-> k # <<>>]
    BY <1>4 DEF Filtered, load
  <2>2. isAllowed(whitelist, x) <=> (k # <<>> => \E i \in DOMAIN k : x[1] \in k[i])
    <3> HIDE DEF k
    <3> QED BY <2>1 DEF isAllowed, extractIp
  <2>3. \A v \in K : \E i \in 1..Len(s) : v = s[i]
    BY <1>1 DEF Values
  <2> HIDE DEF S, K, s
  <2>4. k \in Seq(S \cap K)
    BY <1>1, KeptType
  <2>5. \A v \in K : \E j \in 1..Len(k) : k[j] = v
    BY <1>1, <2>3, KeptElements
  <2>6. K = {} => k = <<>>
    <3>1. K = {} => S \cap K = {}
      OBVIOUS
    <3> QED BY <1>1, <3>1, KeptNothing
  <2> HIDE DEF k
  <2>7. DOMAIN k = 1..Len(k) /\ \A j \in 1..Len(k) : k[j] \in K
    BY <2>4
  <2>8. k = <<>> => K = {}
    <3>1. k = <<>> => 1..Len(k) = {}
      OBVIOUS
    <3> QED BY <2>5, <3>1
  <2>9. (\E i \in DOMAIN k : x[1] \in k[i]) <=> \E v \in K : x[1] \in v
    BY <2>5, <2>7
  <2> QED BY <1>2, <1>4, <2>2, <2>6, <2>8, <2>9
<1> QED BY <1>1, <1>3, <1>4

LEMMA AlwaysFiltered == Spec => []Filtered
<1>1. Init => Filtered
  BY DEF Init, Filtered
<1>2. Filtered /\ [Next]_vars => Filtered'
  BY DEF Filtered, Next, Loop, Clients, SetupListenSocket, EnterLoop, Select, Tick, AcceptDone,
         ClientsDone, LeaveLoop, Accept, AcceptDenied, HandleRead, HandleEnd, HandleWrite, stop, vars
<1> QED BY <1>1, <1>2, PTL DEF Spec

\* A connection that is taken off the accept queue in this step.
LEMMA TakenMatches ==
  ASSUME Inv, Filtered, [Next]_vars, NEW x \in Conn,
         pc = "accept", wire[x].server = "queued", wire'[x].server # "queued"
  PROVE  wire'[x].server = "open" <=> HostMatches(x)
<1>1. CASE Clients
  <2>1. PICK c \in Client : ClientNext(c)
    BY <1>1 DEF Clients
  <2>2. CallStep(c) \/ LeaveStep(c)
    BY <2>1, ClientCalls DEF Inv, Types
  <2>3. wire'[x].server = wire[x].server
    BY <2>2, CallKeepsObjects, LeaveKeepsObjects DEF Inv, Types
  <2> QED BY <2>3
<1>2. ASSUME NEW y \in Conn, Accept(y)
      PROVE  wire'[x].server = "open" <=> HostMatches(x)
  <2>1. /\ isAllowed(whitelist, y) /\ wire'[y] = [wire[y] EXCEPT !.server = "open"]
        /\ \A z \in Conn \ {y} : wire'[z] = wire[z]
    BY <1>2, AcceptEffect
  <2>2. x = y
    BY <2>1
  <2>3. wire'[x].server = "open"
    BY <2>1, <2>2 DEF Inv, Types, ClientSide, WireT
  <2> QED BY <2>1, <2>2, <2>3, AllowedMatches
<1>3. ASSUME NEW y \in Conn, AcceptDenied(y)
      PROVE  wire'[x].server = "open" <=> HostMatches(x)
  <2>1. ~isAllowed(whitelist, y) /\ CloseServerEnds({y})
    BY <1>3 DEF AcceptDenied
  <2>2. Ended(wire[y], wire'[y]) /\ \A z \in Conn \ {y} : wire'[z] = wire[z]
    BY <2>1, EndsClosed DEF Inv, Types
  <2>3. x = y /\ wire'[x].server = "closed"
    BY <2>2 DEF Ended
  <2> QED BY <2>1, <2>3, AllowedMatches
<1>4. CASE \/ SetupListenSocket \/ EnterLoop \/ Select \/ Tick \/ AcceptDone \/ ClientsDone
           \/ LeaveLoop \/ stop \/ UNCHANGED vars
  BY <1>4 DEF SetupListenSocket, EnterLoop, Select, Tick, AcceptDone, ClientsDone, LeaveLoop,
              stop, vars, clientVars
<1>5. ASSUME NEW fd \in Fd, HandleRead(fd) \/ HandleEnd(fd) \/ HandleWrite(fd)
      PROVE  FALSE
  BY <1>5 DEF HandleRead, HandleEnd, HandleWrite, Turn
<1> QED BY <1>1, <1>2, <1>3, <1>4, <1>5 DEF Next, Loop

\* The filter lets in who it should: a connection taken off the accept queue is
\* served exactly when its host matches a value of the [whitelist] section, or there
\* is none, for every file that load() may read.
THEOREM FilterIsRight == Spec => WhitelistHolds
<1>1. Inv /\ Filtered /\ [Next]_vars =>
        [\A x \in Conn : pc = "accept" /\ wire[x].server = "queued" /\ wire'[x].server # "queued"
           => (wire'[x].server = "open" <=> HostMatches(x))]_vars
  BY TakenMatches
<1> QED BY <1>1, AlwaysInv, AlwaysFiltered, PTL DEF Spec, WhitelistHolds

-----------------------------------------------------------------------------
(* The lines.                                                              *)

\* What is ahead of a client's caller, and what the server holds for it.
Held(x) == IF obj[x[1]].fd = x[2] THEN obj[x[1]].readBuf ELSE <<>>
Came(x) == (wire[x].got \o Held(x)) \o wire[x].down

WholeOf(a, q, b, s) == (Echoes(a) \o q) \o Echoes(b) = Echoes(s)
OwnOf(a, s) == \E rest \in Seq(Symbol) : Echoes(a) \o rest = Echoes(s)

\* EchoConserved for one entry of the table.
Whole(fd) ==
  LET x == ConnOf(fd)
  IN  WholeOf(Came(x) \o clients[fd].sendQueue, echoQueues[fd],
              clients[fd].recvBuf \o wire[x].up, wire[x].sent)

\* Nothing has come back over a connection that waits to be accepted.
Fresh(x) ==
  wire[x].server = "queued" =>
    /\ wire[x].got = <<>> /\ wire[x].down = <<>>
    /\ wire[x].client # "closed" => wire[x].up = wire[x].sent /\ Held(x) = <<>>

\* OwnEchoes for one connection, with what is still on its way.
Own(x) == OwnOf(Came(x), wire[x].sent)

Streams ==
  /\ \A x \in Conn : Fresh(x) /\ Own(x)
  /\ \A fd \in Live(clients) : wire[ConnOf(fd)].client # "closed" => Whole(fd)

LEMMA EchoesType ==
  ASSUME NEW s \in Seq(Symbol)
  PROVE  Echoes(s) \in Seq(Symbol)
BY KeptLines, EchoSymbols DEF Echoes

LEMMA EchoesOfBoth ==
  ASSUME NEW s \in Seq(Symbol), NEW t \in Seq(Symbol)
  PROVE  Echoes(s \o t) = Echoes(s) \o Echoes(t)
BY KeptOfBoth DEF Echoes

LEMMA EchoesOfNothing == Echoes(<<>>) = <<>>
BY KeptOfEmpty DEF Echoes

LEMMA Closed ==
  ASSUME NEW s \in Seq(Symbol), NEW t \in Seq(Symbol)
  PROVE  s \o t \in Seq(Symbol)
OBVIOUS

\* t is put on the wire.
LEMMA WholeSends ==
  ASSUME NEW a \in Seq(Symbol), NEW q \in Seq(Symbol), NEW b \in Seq(Symbol),
         NEW s \in Seq(Symbol), NEW t \in Seq(Symbol), WholeOf(a, q, b, s)
  PROVE  WholeOf(a, q, b \o t, s \o t)
<1> DEFINE A == Echoes(a)
           B == Echoes(b)
           T == Echoes(t)
           P == A \o q
<1>1. A \in Seq(Symbol) /\ B \in Seq(Symbol) /\ T \in Seq(Symbol)
  BY EchoesType
<1>2. Echoes(b \o t) = B \o T /\ Echoes(s \o t) = Echoes(s) \o T
  BY EchoesOfBoth
<1>3. P \o B = Echoes(s)
  BY DEF WholeOf
<1> HIDE DEF A, B, T
<1>4. P \in Seq(Symbol)
  BY <1>1, Closed
<1> HIDE DEF P
<1>5. Associates(P, B, T)
  BY <1>1, <1>4, Associate
<1>6. P \o (B \o T) = Echoes(s) \o T
  BY <1>3, <1>5 DEF Associates
<1> QED BY <1>2, <1>6 DEF WholeOf, P, A

\* The front of a queue goes to the client.
LEMMA WholeDrips ==
  ASSUME NEW a \in Seq(Symbol), NEW q \in Seq(Echo), NEW b \in Seq(Symbol),
         NEW s \in Seq(Symbol), q # <<>>, WholeOf(a, q, b, s)
  PROVE  WholeOf(a \o <<Head(q)>>, Tail(q), b, s)
<1> DEFINE A == Echoes(a)
           h == <<Head(q)>>
           r == Tail(q)
<1>1. h \in Seq(Echo) /\ r \in Seq(Echo) /\ h \o r = q
  OBVIOUS
<1> HIDE DEF h, r
<1>2. h \in Seq(Symbol) /\ r \in Seq(Symbol) /\ A \in Seq(Symbol)
  BY <1>1, EchoSymbols, EchoesType
<1>3. Echoes(h) = h
  BY <1>1, KeptWhole DEF Echoes
<1>4. Echoes(a \o h) = A \o h
  <2>1. Echoes(a \o h) = A \o Echoes(h)
    BY <1>2, EchoesOfBoth
  <2> HIDE DEF A
  <2> QED BY <1>3, <2>1
<1> HIDE DEF A
<1>5. Associates(A, h, r)
  BY <1>2, Associate
<1>6. (A \o h) \o r = A \o q
  BY <1>1, <1>5 DEF Associates
<1> QED BY <1>4, <1>6 DEF WholeOf, A, h, r

\* The whole lines l are taken off the buffer: orders to the client, echoes to the queue.
LEMMA WholeReads ==
  ASSUME NEW a \in Seq(Symbol), NEW q \in Seq(Symbol), NEW l \in Seq(Symbol),
         NEW b \in Seq(Symbol), NEW s \in Seq(Symbol), WholeOf(a, q, l \o b, s)
  PROVE  WholeOf(a \o Kept(l, Order), q \o Kept(l, Echo), b, s)
<1> DEFINE A == Echoes(a)
           B == Echoes(b)
           L == Echoes(l)
           o == Kept(l, Order)
<1>1. A \in Seq(Symbol) /\ B \in Seq(Symbol) /\ L \in Seq(Symbol)
  BY EchoesType
<1>2. Echoes(l \o b) = L \o B
  BY EchoesOfBoth
<1>3. o \in Seq(Symbol \cap Order) /\ o \in Seq(Symbol)
  BY KeptType, KeptLines
<1> HIDE DEF o
<1>4. Echoes(o) = <<>>
  <2>1. (Symbol \cap Order) \cap Echo = {}
    BY EchoSymbols
  <2> QED BY <1>3, <2>1, KeptNothing DEF Echoes
<1>5. Echoes(a \o o) = A
  <2>0. \A u \in Seq(Symbol) : Echoes(a \o u) = Echoes(a) \o Echoes(u)
    BY EchoesOfBoth
  <2>1. Echoes(a \o o) = A \o <<>>
    BY <1>3, <1>4, <2>0
  <2> HIDE DEF A
  <2> QED BY <1>1, <2>1
<1> HIDE DEF A, B, L
<1>6. MovesOver(A, q, L, B)
  BY <1>1, MoveOver
<1>7. (A \o (q \o L)) \o B = Echoes(s)
  <2>1. (A \o q) \o Echoes(l \o b) = Echoes(s)
    BY DEF WholeOf, A
  <2>2. (A \o q) \o (L \o B) = Echoes(s)
    BY <1>2, <2>1
  <2> QED BY <1>6, <2>2 DEF MovesOver
<1> QED BY <1>5, <1>7 DEF WholeOf, o, L, B, Echoes

\* Less comes back, or more is sent.
LEMMA OwnLess ==
  ASSUME NEW a \in Seq(Symbol), NEW t \in Seq(Symbol), NEW s \in Seq(Symbol), NEW u \in Seq(Symbol),
         OwnOf(a \o t, s)
  PROVE  OwnOf(a, s \o u)
<1> DEFINE A == Echoes(a)
           T == Echoes(t)
           U == Echoes(u)
<1>1. A \in Seq(Symbol) /\ T \in Seq(Symbol) /\ U \in Seq(Symbol)
  BY EchoesType
<1>2. Echoes(a \o t) = A \o T /\ Echoes(s \o u) = Echoes(s) \o U
  BY EchoesOfBoth
<1>3. PICK rest \in Seq(Symbol) : (A \o T) \o rest = Echoes(s)
  BY <1>2 DEF OwnOf
<1> DEFINE r == T \o rest
           more == r \o U
<1> HIDE DEF A, T, U
<1>4. r \in Seq(Symbol)
  BY <1>1, Closed
<1>5. Associates(A, T, rest)
  BY <1>1, Associate
<1>6. A \o r = Echoes(s)
  BY <1>3, <1>5 DEF Associates
<1> HIDE DEF r
<1>7. more \in Seq(Symbol) /\ Associates(A, r, U)
  BY <1>1, <1>4, Closed, Associate
<1>8. A \o more = Echoes(s) \o U
  BY <1>6, <1>7 DEF Associates
<1> HIDE DEF more
<1> QED BY <1>2, <1>7, <1>8 DEF OwnOf, A

\* What has come back of a connection whose echoes are all accounted for.
LEMMA WholeIsOwn ==
  ASSUME NEW a \in Seq(Symbol), NEW t \in Seq(Symbol), NEW q \in Seq(Symbol),
         NEW b \in Seq(Symbol), NEW s \in Seq(Symbol), WholeOf(a \o t, q, b, s)
  PROVE  OwnOf(a, s)
<1> DEFINE A == Echoes(a)
           T == Echoes(t)
           B == Echoes(b)
           W == A \o T
           tail == q \o B
           rest == T \o tail
<1>1. A \in Seq(Symbol) /\ T \in Seq(Symbol) /\ B \in Seq(Symbol)
  BY EchoesType
<1>2. (W \o q) \o B = Echoes(s)
  BY EchoesOfBoth DEF WholeOf
<1> HIDE DEF A, T, B
<1>3. W \in Seq(Symbol) /\ tail \in Seq(Symbol)
  BY <1>1, Closed
<1> HIDE DEF W
<1>4. Associates(W, q, B)
  BY <1>1, <1>3, Associate
<1>5. W \o tail = Echoes(s)
  BY <1>2, <1>4 DEF Associates
<1> HIDE DEF tail
<1>6. Associates(A, T, tail) /\ rest \in Seq(Symbol)
  BY <1>1, <1>3, Associate, Closed
<1>7. A \o rest = Echoes(s)
  BY <1>5, <1>6 DEF Associates, W
<1> HIDE DEF rest
<1> QED BY <1>6, <1>7 DEF OwnOf, A

LEMMA StreamTypes ==
  ASSUME ClientSide, NEW x \in Conn
  PROVE  /\ wire[x] \in WireT /\ wire[x].got \in Seq(Symbol) /\ wire[x].down \in Seq(Symbol)
         /\ wire[x].up \in Seq(Symbol) /\ wire[x].sent \in Seq(Symbol)
         /\ Held(x) \in Seq(Symbol) /\ wire[x].got \o Held(x) \in Seq(Symbol)
         /\ Came(x) \in Seq(Symbol)
<1>1. /\ wire[x] \in WireT /\ wire[x].got \in Seq(Symbol) /\ wire[x].down \in Seq(Symbol)
      /\ wire[x].up \in Seq(Symbol) /\ wire[x].sent \in Seq(Symbol)
  BY DEF ClientSide, WireT
<1>2. Held(x) \in Seq(Symbol)
  <2>1. obj[x[1]].readBuf \in Seq(Symbol) /\ <<>> \in Seq(Symbol)
    BY ConnParts DEF ClientSide, ObjT
  <2> QED BY <2>1 DEF Held
<1>3. wire[x].got \o Held(x) \in Seq(Symbol)
  BY <1>1, <1>2, Closed
<1>4. Came(x) \in Seq(Symbol)
  BY <1>1, <1>3, Closed DEF Came
<1> QED BY <1>1, <1>2, <1>3, <1>4

\* The echoes and what is ahead of them, of one entry of the table.
LEMMA EntryTypes ==
  ASSUME Inv, NEW fd \in Live(clients)
  PROVE  /\ fd \in Fd /\ fd \in DOMAIN echoQueues /\ ConnOf(fd) \in Conn
         /\ wire[ConnOf(fd)].server = "open"
         /\ clients[fd].sendQueue \in Seq(Symbol) /\ clients[fd].recvBuf \in Seq(Symbol)
         /\ echoQueues[fd] \in Seq(Echo) /\ echoQueues[fd] \in Seq(Symbol)
         /\ Came(ConnOf(fd)) \o clients[fd].sendQueue \in Seq(Symbol)
         /\ clients[fd].recvBuf \o wire[ConnOf(fd)].up \in Seq(Symbol)
<1>1. fd \in Fd /\ ConnOf(fd) \in Conn /\ fd \in DOMAIN echoQueues
  BY LiveFds DEF Inv, Types, Queues
<1>2. wire[ConnOf(fd)].server = "open"
  BY <1>1 DEF Inv, Accounted
<1>3. clients[fd].sendQueue \in Seq(Symbol) /\ clients[fd].recvBuf \in Seq(Symbol)
  BY <1>1 DEF Inv, Types, ServerSide, StateT
<1>4. echoQueues[fd] \in Seq(Echo) /\ echoQueues[fd] \in Seq(Symbol)
  BY <1>1, EchoSymbols DEF Inv, Types, Queues
<1>5. Came(ConnOf(fd)) \o clients[fd].sendQueue \in Seq(Symbol)
  BY <1>1, <1>3, StreamTypes, Closed DEF Inv, Types
<1>6. clients[fd].recvBuf \o wire[ConnOf(fd)].up \in Seq(Symbol)
  BY <1>1, <1>3, StreamTypes, Closed DEF Inv, Types
<1> QED BY <1>1, <1>2, <1>3, <1>4, <1>5, <1>6

\* A connection a step does not touch.
LEMMA ConnStays ==
  ASSUME NEW x \in Conn, wire'[x] = wire[x], Held(x)' = Held(x)
  PROVE  /\ Came(x)' = Came(x) /\ (Own(x) => Own(x)') /\ (Fresh(x) => Fresh(x)')
<1>1. Came(x)' = Came(x)
  BY DEF Came
<1>2. Own(x) => Own(x)'
  BY <1>1 DEF Own, OwnOf
<1>3. Fresh(x) => Fresh(x)'
  BY DEF Fresh
<1> QED BY <1>1, <1>2, <1>3

LEMMA EntryStays ==
  ASSUME NEW fd, clients'[fd] = clients[fd], echoQueues'[fd] = echoQueues[fd],
         NEW x \in Conn, ConnOf(fd) = x, wire'[x] = wire[x], Held(x)' = Held(x), Whole(fd)
  PROVE  Whole(fd)'
<1>1. ConnOf(fd)' = x
  BY DEF ConnOf
<1>2. Came(x)' = Came(x)
  BY DEF Came
<1> QED BY <1>1, <1>2 DEF Whole, WholeOf

LEMMA NothingInParts ==
  ASSUME NEW p \in Seq(Symbol), NEW q \in Seq(Symbol), NEW r \in Seq(Symbol),
         (p \o q) \o r = <<>>
  PROVE  p = <<>> /\ q = <<>> /\ r = <<>>
<1>1. \A a, b \in Seq(Symbol) : a \o b \in Seq(Symbol) /\ Len(a \o b) = Len(a) + Len(b)
  OBVIOUS
<1>2. \A a \in Seq(Symbol) : Len(a) \in Nat /\ (Len(a) = 0 <=> a = <<>>)
  OBVIOUS
<1> DEFINE v == p \o q
<1>3. v \in Seq(Symbol) /\ Len(v) = Len(p) + Len(q)
  BY <1>1
<1> HIDE DEF v
<1>4. Len(v \o r) = Len(v) + Len(r) /\ v \o r = <<>>
  BY <1>1, <1>3 DEF v
<1>5. Len(v \o r) = 0
  BY <1>4
<1>6. Len(p) = 0 /\ Len(q) = 0 /\ Len(r) = 0
  BY <1>2, <1>3, <1>4, <1>5
<1> QED BY <1>2, <1>6

\* The connection of a call that goes on.
LEMMA CallOwn ==
  ASSUME Inv, NEW c \in Client, CallStep(c), NEW x \in Conn, x = <<c, obj[c].fd>>,
         Fresh(x), Own(x)
  PROVE  /\ Own(x)' /\ Fresh(x)' /\ Came(x)' = Came(x)
         /\ \E t \in Seq(Symbol) : wire'[x].up = wire[x].up \o t /\ wire'[x].sent = wire[x].sent \o t
<1> DEFINE w == wire[x]
           v == wire'[x]
           o == obj[c]
           p == obj'[c]
<1>1. /\ wire[x].client = "open" /\ obj'[c].fd = obj[c].fd
      /\ wire'[x].server = wire[x].server /\ wire'[x].client = wire[x].client
      /\ x[1] = c /\ x[2] = obj[c].fd /\ Carries(w, o, v, p) /\ ClientSide'
  <2>1. obj[c].fd # NoFd /\ Carries(w, o, v, p) /\ ClientSide'
    BY DEF CallStep
  <2> QED BY <2>1, OwnWire DEF CallStep, Inv, Types
<1>2. /\ Held(x) = o.readBuf /\ Held(x)' = p.readBuf
  BY <1>1 DEF Held
<1>3. /\ w.got \in Seq(Symbol) /\ w.down \in Seq(Symbol) /\ w.up \in Seq(Symbol)
      /\ w.sent \in Seq(Symbol) /\ o.readBuf \in Seq(Symbol) /\ Came(x) \in Seq(Symbol)
  BY <1>1, <1>2, StreamTypes DEF Inv, Types
<1>4. v.got \in Seq(Symbol) /\ v.down \in Seq(Symbol) /\ p.readBuf \in Seq(Symbol)
  BY <1>1 DEF ClientSide, WireT, ObjT
<1>5. Came(x) = (w.got \o o.readBuf) \o w.down /\ Came(x)' = (v.got \o p.readBuf) \o v.down
  BY <1>2 DEF Came
<1>6. OwnOf(Came(x), w.sent)
  BY DEF Own
<1>7. \A s \in Seq(Symbol) : s \o <<>> = s
  OBVIOUS
<1>8. /\ w.server = "queued" => w.got = <<>> /\ w.down = <<>> /\ w.up = w.sent /\ o.readBuf = <<>>
  BY <1>1, <1>2 DEF Fresh
<1> HIDE DEF w, v, o, p
<1>9. CASE \E t \in Seq(Symbol) :
             /\ v.up = w.up \o t /\ v.sent = w.sent \o t
             /\ v.down = w.down /\ v.got = w.got /\ p.readBuf = o.readBuf
  <2>1. PICK t \in Seq(Symbol) :
             /\ v.up = w.up \o t /\ v.sent = w.sent \o t
             /\ v.down = w.down /\ v.got = w.got /\ p.readBuf = o.readBuf
    BY <1>9
  <2>2. Came(x)' = Came(x)
    BY <1>5, <2>1
  <2>3. OwnOf(Came(x) \o <<>>, w.sent) /\ <<>> \in Seq(Symbol)
    <3> DEFINE came == Came(x)
    <3>1. came \o <<>> = came
      BY <1>3, <1>7
    <3> QED BY <1>6, <3>1
  <2>4. OwnOf(Came(x), w.sent \o t)
    BY <1>3, <2>3, OwnLess
  <2>5. Own(x)'
    BY <2>1, <2>2, <2>4 DEF Own, OwnOf, v
  <2>6. Fresh(x)'
    <3>1. v.server = "queued" => v.got = <<>> /\ v.down = <<>> /\ v.up = v.sent /\ p.readBuf = <<>>
      BY <1>1, <1>8, <2>1 DEF w, v
    <3> QED BY <1>2, <3>1 DEF Fresh, v
  <2> QED BY <2>1, <2>2, <2>5, <2>6 DEF w, v
<1>10. CASE /\ v.up = w.up /\ v.sent = w.sent
            /\ (v.got \o p.readBuf) \o v.down = (w.got \o o.readBuf) \o w.down
  <2>1. Came(x)' = Came(x)
    BY <1>5, <1>10
  <2>2. Own(x)'
    BY <1>6, <1>10, <2>1 DEF Own, OwnOf, v
  <2>3. w.server = "queued" => v.got = <<>> /\ v.down = <<>> /\ p.readBuf = <<>>
    <3>1. SUFFICES ASSUME w.server = "queued"
                   PROVE  v.got = <<>> /\ v.down = <<>> /\ p.readBuf = <<>>
      OBVIOUS
    <3>2. (w.got \o o.readBuf) \o w.down = <<>>
      BY <1>8, <3>1
    <3>3. (v.got \o p.readBuf) \o v.down = <<>>
      BY <1>10, <3>2
    <3> QED BY <1>4, <3>3, NothingInParts
  <2>4. Fresh(x)'
    <3>1. v.server = "queued" => v.got = <<>> /\ v.down = <<>> /\ v.up = v.sent /\ p.readBuf = <<>>
      BY <1>1, <1>8, <1>10, <2>3 DEF w, v
    <3> QED BY <1>2, <3>1 DEF Fresh, v
  <2>5. v.up = w.up \o <<>> /\ v.sent = w.sent \o <<>> /\ <<>> \in Seq(Symbol)
    BY <1>3, <1>7, <1>10
  <2> QED BY <2>1, <2>2, <2>4, <2>5 DEF w, v
<1> QED BY <1>1, <1>9, <1>10 DEF Carries

LEMMA CallStreams ==
  ASSUME Inv, Streams, NEW c \in Client, CallStep(c), clients' = clients, echoQueues' = echoQueues
  PROVE  Streams'
<1>1. obj[c].fd # NoFd /\ obj'[c].fd = obj[c].fd
  BY DEF CallStep
<1>2. PICK x \in Conn : x = <<c, obj[c].fd>>
  BY <1>1, OwnWire DEF Inv, Types
<1>3. /\ Own(x)' /\ Fresh(x)' /\ Came(x)' = Came(x)
      /\ \E t \in Seq(Symbol) : wire'[x].up = wire[x].up \o t /\ wire'[x].sent = wire[x].sent \o t
  BY <1>2, CallOwn DEF Streams
<1>4. ASSUME NEW z \in Conn, z # x
      PROVE  wire'[z] = wire[z] /\ Held(z)' = Held(z)
  <2>1. wire'[z] = wire[z] /\ \A d \in Client \ {c} : obj'[d] = obj[d]
    BY <1>2, <1>4 DEF CallStep
  <2>2. z[1] \in Client /\ (z[1] = c => z[2] # obj[c].fd)
    BY <1>2, <1>4, ConnParts
  <2>3. Held(z)' = Held(z)
    BY <1>1, <2>1, <2>2 DEF Held
  <2> QED BY <2>1, <2>3
<1>5. \A z \in Conn : Fresh(z)' /\ Own(z)'
  BY <1>3, <1>4, ConnStays DEF Streams
<1>6. Live(clients)' = Live(clients) /\ \A fd : ConnOf(fd)' = ConnOf(fd)
  BY DEF Live, ConnOf
<1>7. ASSUME NEW fd \in Live(clients), wire'[ConnOf(fd)].client # "closed"
      PROVE  Whole(fd)'
  <2>1. ConnOf(fd) \in Conn
    BY LiveFds DEF Inv, Types
  <2>2. wire[ConnOf(fd)].client # "closed"
    <3>1. wire'[x].client = wire[x].client
      BY <1>2 DEF CallStep
    <3> QED BY <1>4, <1>7, <2>1, <3>1
  <2>3. Whole(fd)
    BY <2>2 DEF Streams
  <2>4. CASE ConnOf(fd) # x
    <3>1. PICK z \in Conn : ConnOf(fd) = z
      BY <2>1
    <3>2. wire'[z] = wire[z] /\ Held(z)' = Held(z)
      BY <1>4, <2>4, <3>1
    <3> QED BY <2>3, <3>1, <3>2, EntryStays
  <2>5. CASE ConnOf(fd) = x
    <3>1. PICK t \in Seq(Symbol) :
            wire'[x].up = wire[x].up \o t /\ wire'[x].sent = wire[x].sent \o t
      BY <1>3
    <3> DEFINE a == Came(x) \o clients[fd].sendQueue
               r == clients[fd].recvBuf
               u == wire[x].up
               b == r \o u
               q == echoQueues[fd]
    <3>2. /\ a \in Seq(Symbol) /\ r \in Seq(Symbol) /\ u \in Seq(Symbol) /\ b \in Seq(Symbol)
          /\ q \in Seq(Symbol) /\ wire[x].sent \in Seq(Symbol)
      BY <2>5, EntryTypes, StreamTypes DEF Inv, Types
    <3>3. WholeOf(a, q, b, wire[x].sent)
      BY <2>3, <2>5 DEF Whole
    <3> HIDE DEF a, r, u, q
    <3>4. WholeOf(a, q, b \o t, wire[x].sent \o t)
      BY <3>2, <3>3, WholeSends
    <3>5. Associates(r, u, t)
      BY <3>2, Associate
    <3>6. WholeOf(a, q, r \o (u \o t), wire[x].sent \o t)
      BY <3>4, <3>5 DEF Associates
    <3>7. WholeOf(a, q, r \o wire'[x].up, wire'[x].sent)
      BY <3>1, <3>6 DEF u
    <3>8. ConnOf(fd)' = x
      BY <1>6, <2>5
    <3> QED BY <1>3, <3>7, <3>8 DEF Whole, WholeOf, a, r, q
  <2> QED BY <2>4, <2>5
<1> QED BY <1>5, <1>6, <1>7 DEF Streams

\* A connection that closes on either side, losing what is on its way back.
LEMMA OwnOfLess ==
  ASSUME ClientSide, NEW x \in Conn, Own(x), Held(x)' \in {Held(x), <<>>},
         wire'[x].got = wire[x].got, wire'[x].sent = wire[x].sent,
         wire'[x].down \in {wire[x].down, <<>>}, Held(x)' = Held(x) \/ wire'[x].down = <<>>
  PROVE  Own(x)'
<1> DEFINE g == wire[x].got
           h == Held(x)
           d == wire[x].down
           s == wire[x].sent
           gh == g \o h
           hd == h \o d
<1>1. /\ g \in Seq(Symbol) /\ h \in Seq(Symbol) /\ d \in Seq(Symbol) /\ s \in Seq(Symbol)
      /\ gh \in Seq(Symbol)
  BY StreamTypes
<1>2. OwnOf(gh \o d, s)
  BY DEF Own, Came
<1>3. \A p \in Seq(Symbol) : p \o <<>> = p
  OBVIOUS
<1>4. Came(x)' = (g \o Held(x)') \o wire'[x].down /\ s = wire'[x].sent
  BY DEF Came
<1> HIDE DEF g, h, d, s
<1>5. hd \in Seq(Symbol) /\ <<>> \in Seq(Symbol) /\ Associates(g, h, d)
  BY <1>1, Closed, Associate
<1>6. OwnOf(g \o hd, s)
  BY <1>2, <1>5 DEF Associates
<1> HIDE DEF gh, hd
<1>7. OwnOf(gh, s \o <<>>) /\ OwnOf(g, s \o <<>>)
  BY <1>1, <1>2, <1>5, <1>6, OwnLess
<1>8. s \o <<>> = s /\ gh \o <<>> = gh /\ g \o <<>> = g
  BY <1>1, <1>3
<1>9. OwnOf(gh, s) /\ OwnOf(g, s)
  BY <1>7, <1>8
<1>10. Came(x)' \in {gh \o d, gh, g}
  <2>1. CASE Held(x)' = h
    BY <1>4, <1>8, <2>1 DEF gh, d, h
  <2>2. CASE Held(x)' = <<>> /\ wire'[x].down = <<>>
    BY <1>4, <1>8, <2>2
  <2> QED BY <2>1, <2>2 DEF h
<1>11. OwnOf(Came(x)', s)
  BY <1>2, <1>9, <1>10
<1> QED BY <1>4, <1>11 DEF Own, OwnOf

LEMMA LeaveStreams ==
  ASSUME Inv, Streams, NEW c \in Client, LeaveStep(c), clients' = clients, echoQueues' = echoQueues
  PROVE  Streams'
<1>1. ASSUME NEW z \in Conn
      PROVE  \/ wire'[z] = wire[z] /\ Held(z)' = Held(z)
             \/ Shut(wire[z], wire'[z]) /\ Held(z)' = <<>>
             \/ /\ wire[z].server = "new" /\ Held(z)' = <<>>
                /\ wire'[z] = NewWire(IF listenFd = "listening" THEN "queued" ELSE "refused", "open")
  <2>1. z[1] \in Client /\ z[2] \in 1..MaxSessions[z[1]] /\ z = <<z[1], z[2]>> /\ z[2] # NoFd
    BY ConnParts, Fds DEF NoFd
  <2>2. /\ \A d \in Client \ {c} : obj'[d] = obj[d]
        /\ obj'[c].readBuf = <<>>
        /\ obj[c].fd # NoFd => Shut(wire[<<c, obj[c].fd>>], wire'[<<c, obj[c].fd>>])
        /\ \/ obj'[c].fd = NoFd /\ \A y \in Conn \ {<<c, obj[c].fd>>} : wire'[y] = wire[y]
           \/ /\ obj'[c].fd = obj[c].made + 1 /\ obj[c].made < MaxSessions[c]
              /\ wire'[<<c, obj[c].made + 1>>]
                   = NewWire(IF listenFd = "listening" THEN "queued" ELSE "refused", "open")
              /\ \A y \in Conn \ {<<c, obj[c].fd>>, <<c, obj[c].made + 1>>} : wire'[y] = wire[y]
    BY DEF LeaveStep
  <2>3. CASE z[1] # c
    <3>1. z # <<c, obj[c].fd>> /\ z # <<c, obj[c].made + 1>>
      BY <2>3
    <3>2. wire'[z] = wire[z]
      BY <2>2, <3>1
    <3> QED BY <2>1, <2>2, <2>3, <3>2 DEF Held
  <2>4. CASE z[1] = c
    <3>1. Held(z)' = <<>>
      BY <2>2, <2>4 DEF Held
    <3>2. CASE z[2] = obj[c].fd
      BY <2>1, <2>2, <2>4, <3>1, <3>2
    <3>3. CASE z[2] # obj[c].fd
      <4>1. Held(z) = <<>> /\ z # <<c, obj[c].fd>>
        BY <2>4, <3>3 DEF Held
      <4>2. CASE z = <<c, obj[c].made + 1>> /\ wire'[z] # wire[z]
        <5>1. wire'[z] = NewWire(IF listenFd = "listening" THEN "queued" ELSE "refused", "open")
          BY <2>2, <4>1, <4>2
        <5>2. z[2] > obj[c].made
          <6>1. obj[c].made \in Nat
            BY DEF Inv, Types, ClientSide, ObjT
          <6> QED BY <4>2, <6>1
        <5>3. wire[z].server = "new"
          BY <2>1, <2>4, <5>2 DEF Inv, Objects, NewWire
        <5> QED BY <3>1, <5>1, <5>3
      <4>3. CASE z # <<c, obj[c].made + 1>>
        BY <2>2, <3>1, <4>1, <4>3
      <4> QED BY <3>1, <4>1, <4>2, <4>3
    <3> QED BY <3>2, <3>3
  <2> QED BY <2>3, <2>4
<1>2. ASSUME NEW z \in Conn
      PROVE  Fresh(z)' /\ Own(z)'
  <2>1. Fresh(z) /\ Own(z)
    BY DEF Streams
  <2>2. CASE wire'[z] = wire[z] /\ Held(z)' = Held(z)
    BY <2>1, <2>2, ConnStays
  <2>3. CASE Shut(wire[z], wire'[z]) /\ Held(z)' = <<>>
    <3>1. Own(z)'
      BY <2>1, <2>3, OwnOfLess DEF Shut, Inv, Types
    <3>2. Fresh(z)'
      BY <2>1, <2>3 DEF Fresh, Shut
    <3> QED BY <3>1, <3>2
  <2>4. CASE /\ wire[z].server = "new" /\ Held(z)' = <<>>
             /\ wire'[z] = NewWire(IF listenFd = "listening" THEN "queued" ELSE "refused", "open")
    <3>1. /\ wire'[z].got = <<>> /\ wire'[z].down = <<>> /\ wire'[z].up = <<>> /\ wire'[z].sent = <<>>
      BY <2>4 DEF NewWire
    <3>2. Fresh(z)'
      BY <2>4, <3>1 DEF Fresh
    <3>3. (<<>> \o <<>>) \o <<>> = <<>> /\ <<>> \in Seq(Symbol) /\ <<>> \o <<>> = <<>>
      OBVIOUS
    <3>4. Came(z)' = <<>>
      BY <2>4, <3>1, <3>3 DEF Came
    <3>5. Own(z)'
      <4>1. OwnOf(<<>>, <<>>)
        BY <3>3, EchoesOfNothing DEF OwnOf
      <4> QED BY <3>1, <3>4, <4>1 DEF Own, OwnOf
    <3> QED BY <3>2, <3>5
  <2> QED BY <1>1, <2>2, <2>3, <2>4
<1>3. Live(clients)' = Live(clients) /\ \A fd : ConnOf(fd)' = ConnOf(fd)
  BY DEF Live, ConnOf
<1>4. ASSUME NEW fd \in Live(clients), wire'[ConnOf(fd)].client # "closed"
      PROVE  Whole(fd)'
  <2>1. ConnOf(fd) \in Conn /\ wire[ConnOf(fd)].server = "open"
    BY EntryTypes
  <2>2. PICK z \in Conn : ConnOf(fd) = z
    BY <2>1
  <2>3. wire'[z] = wire[z] /\ Held(z)' = Held(z)
    BY <1>1, <1>4, <2>1, <2>2 DEF Shut
  <2>4. Whole(fd)
    BY <1>4, <2>2, <2>3 DEF Streams
  <2> QED BY <2>2, <2>3, <2>4, EntryStays
<1> QED BY <1>2, <1>3, <1>4 DEF Streams

LEMMA MovesStreams ==
  ASSUME Inv, Streams, NEW fd \in Live(clients), NEW st \in StateT, NEW v \in WireT, NEW q,
         Moves(fd, st, v, q), NEW x \in Conn, x = ConnOf(fd), v.server = wire[x].server,
         st.remoteAddr = x, Live(clients)' = Live(clients), Own(x)', v.client # "closed" => Whole(fd)'
  PROVE  Streams'
<1>1. fd \in Fd /\ x = ConnOf(fd) /\ wire[x].server = "open" /\ fd \in DOMAIN echoQueues
  BY EntryTypes
<1>2. \A g \in Fd \ {fd} : clients'[g] = clients[g]
  BY <1>1 DEF Moves, Inv, Types, ServerSide
<1>3. wire'[x] = v /\ \A y \in Conn \ {x} : wire'[y] = wire[y]
  BY <1>1 DEF Moves, Inv, Types, ClientSide
<1>4. \A y : Held(y)' = Held(y)
  BY DEF Held, Moves
<1>5. \A y \in Conn \ {x} : Fresh(y)' /\ Own(y)'
  BY <1>3, <1>4, ConnStays DEF Streams
<1>6. Fresh(x)'
  BY <1>1, <1>3 DEF Fresh
<1>7. ASSUME NEW g \in Live(clients) \ {fd}, wire'[ConnOf(g)].client # "closed"
      PROVE  Whole(g)'
  <2>1. g \in Fd /\ ConnOf(g) \in Conn /\ g \in DOMAIN echoQueues /\ ConnOf(g) # x
    <3>1. g \in Fd /\ ConnOf(g) \in Conn /\ g \in DOMAIN echoQueues
      BY EntryTypes
    <3> QED BY <1>1, <3>1, ConnAssumption DEF Inv, Accounted
  <2>2. clients'[g] = clients[g] /\ echoQueues'[g] = echoQueues[g]
    BY <1>2, <2>1 DEF Moves
  <2>3. PICK z \in Conn : ConnOf(g) = z
    BY <2>1
  <2>4. wire'[z] = wire[z] /\ Held(z)' = Held(z) /\ wire[z].client # "closed"
    BY <1>3, <1>4, <1>7, <2>1, <2>3
  <2>5. Whole(g)
    BY <2>3, <2>4 DEF Streams
  <2> QED BY <2>2, <2>3, <2>4, <2>5, EntryStays
<1>8. ConnOf(fd)' = x /\ \A g \in Live(clients) \ {fd} : ConnOf(g)' = ConnOf(g)
  <2>1. clients'[fd] = st /\ \A g \in Live(clients) : g \in Fd
    BY <1>1, LiveFds DEF Moves, Inv, Types, ServerSide
  <2> QED BY <1>2, <2>1 DEF ConnOf
<1>9. \A g \in Live(clients)' : wire'[ConnOf(g)'].client # "closed" => Whole(g)'
  BY <1>3, <1>7, <1>8
<1> QED BY <1>5, <1>6, <1>9 DEF Streams

LEMMA ReadStreams == ASSUME Inv, Streams, NEW fd \in Fd, HandleRead(fd) PROVE Streams'
<1>1. pc = "clients" /\ fd \in readSet
  BY DEF HandleRead, Turn
<1>2. /\ fd \in Live(clients) /\ ConnOf(fd) \in Conn /\ clients[fd] \in StateT
      /\ wire[ConnOf(fd)] \in WireT
  BY <1>1, TurnOfClient
<1>3. PICK x \in Conn : x = ConnOf(fd)
  BY <1>2
<1>4. PICK lines, left, up \in Seq(Symbol) :
        /\ lines \o (left \o up) = clients[fd].recvBuf \o wire[x].up
        /\ Moves(fd, [clients[fd] EXCEPT !.recvBuf = left,
                        !.sendQueue = clients[fd].sendQueue \o Kept(lines, Order)],
                 [wire[x] EXCEPT !.up = up], echoQueues[fd] \o Kept(lines, Echo))
  BY <1>3, ReadEffect
<1> DEFINE sq == clients[fd].sendQueue
           o == Kept(lines, Order)
           sq2 == sq \o o
           st == [clients[fd] EXCEPT !.recvBuf = left, !.sendQueue = sq2]
           v == [wire[x] EXCEPT !.up = up]
           q == echoQueues[fd] \o Kept(lines, Echo)
           b == left \o up
           a == Came(x) \o sq
<1>5. /\ sq \in Seq(Symbol) /\ o \in Seq(Symbol) /\ Came(x) \in Seq(Symbol)
      /\ a \in Seq(Symbol) /\ echoQueues[fd] \in Seq(Symbol) /\ wire[x].sent \in Seq(Symbol)
  BY <1>2, <1>3, EntryTypes, StreamTypes, KeptLines DEF Inv, Types
<1>6. b \in Seq(Symbol)
  BY Closed
<1> HIDE DEF sq, o, b
<1>7. sq2 \in Seq(Symbol) /\ Associates(Came(x), sq, o)
  BY <1>5, Closed, Associate
<1> HIDE DEF sq2
<1>8. st \in StateT /\ st.remoteAddr = x /\ st.recvBuf = left /\ st.sendQueue = sq2
  BY <1>2, <1>3, <1>7 DEF StateT, ConnOf
<1>9. /\ v \in WireT /\ v.server = wire[x].server /\ v.client = wire[x].client /\ v.up = up
      /\ v.sent = wire[x].sent /\ v.got = wire[x].got /\ v.down = wire[x].down
  BY <1>2, <1>3 DEF WireT
<1>10. Moves(fd, st, v, q)
  BY <1>4 DEF sq2, sq, o
<1>11. Live(clients)' = Live(clients)
  <2>1. pc' = "idle" => pc = "idle"
    BY DEF HandleRead
  <2> HIDE DEF st, v, q
  <2>2. st.remoteAddr = clients[fd].remoteAddr
    BY <1>3, <1>8 DEF ConnOf
  <2> QED BY <1>2, <1>3, <1>8, <1>9, <1>10, <2>1, <2>2, MovesKeeps
<1> HIDE DEF st, v, q
<1>12. clients'[fd] = st /\ wire'[x] = v /\ echoQueues'[fd] = q /\ obj' = obj
  BY <1>2, <1>3, <1>10 DEF Moves, Inv, Types, ServerSide, ClientSide
<1>13. Held(x)' = Held(x) /\ Came(x)' = Came(x)
  BY <1>9, <1>12 DEF Held, Came
<1>14. Own(x)'
  <2>1. Own(x)
    BY DEF Streams
  <2> QED BY <1>9, <1>12, <1>13, <2>1 DEF Own, OwnOf
<1>15. v.client # "closed" => Whole(fd)'
  <2>1. SUFFICES ASSUME v.client # "closed" PROVE Whole(fd)'
    OBVIOUS
  <2>2. Whole(fd)
    BY <1>2, <1>3, <1>9, <2>1 DEF Streams
  <2>3. WholeOf(a, echoQueues[fd], lines \o b, wire[x].sent)
    BY <1>3, <1>4, <2>2 DEF Whole, sq, b
  <2> HIDE DEF a
  <2>4. WholeOf(a \o o, q, b, wire[x].sent)
    BY <1>5, <1>6, <2>3, WholeReads DEF o, q
  <2>5. a \o o = Came(x) \o sq2
    BY <1>7 DEF Associates, a, sq2
  <2>6. ConnOf(fd)' = x
    BY <1>8, <1>12 DEF ConnOf
  <2>7. WholeOf(Came(x)' \o clients'[fd].sendQueue, echoQueues'[fd],
                clients'[fd].recvBuf \o wire'[x].up, wire'[x].sent)
    BY <1>8, <1>9, <1>12, <1>13, <2>4, <2>5 DEF b
  <2> QED BY <2>6, <2>7 DEF Whole, WholeOf
<1> QED BY <1>2, <1>3, <1>8, <1>9, <1>10, <1>11, <1>14, <1>15, MovesStreams

LEMMA WriteStreams == ASSUME Inv, Streams, NEW fd \in Fd, HandleWrite(fd) PROVE Streams'
<1>1. pc = "clients" /\ fd \in writeSet
  BY DEF HandleWrite, Turn
<1>2. /\ fd \in Live(clients) /\ ConnOf(fd) \in Conn /\ clients[fd] \in StateT
      /\ wire[ConnOf(fd)] \in WireT
  BY <1>1, TurnOfClient
<1>3. PICK x \in Conn : x = ConnOf(fd)
  BY <1>2
<1>4. PICK t, rest \in Seq(Symbol) :
        /\ t \o rest = clients[fd].sendQueue
        /\ Moves(fd, [clients[fd] EXCEPT !.sendQueue = rest],
                 [wire[x] EXCEPT !.down = IF wire[x].client = "closed" THEN wire[x].down
                                          ELSE wire[x].down \o t], echoQueues[fd])
  BY <1>3, WriteEffect
<1> DEFINE down == IF wire[x].client = "closed" THEN wire[x].down ELSE wire[x].down \o t
           st == [clients[fd] EXCEPT !.sendQueue = rest]
           v == [wire[x] EXCEPT !.down = down]
           q == echoQueues[fd]
           gh == wire[x].got \o Held(x)
           d == wire[x].down
           came == gh \o d
           came2 == came \o t
           a == came \o (t \o rest)
           b == clients[fd].recvBuf \o wire[x].up
<1>5. /\ gh \in Seq(Symbol) /\ d \in Seq(Symbol) /\ came \in Seq(Symbol)
      /\ q \in Seq(Symbol) /\ b \in Seq(Symbol) /\ wire[x].sent \in Seq(Symbol)
  BY <1>2, <1>3, EntryTypes, StreamTypes DEF Inv, Types, Came
<1>6. down \in Seq(Symbol)
  BY <1>5, Closed
<1>7. Associates(gh, d, t)
  BY <1>5, Associate
<1> HIDE DEF gh, d
<1>8. came2 \in Seq(Symbol) /\ Associates(came, t, rest)
  BY <1>5, Closed, Associate
<1> HIDE DEF down
<1>9. st \in StateT /\ st.remoteAddr = x /\ st.recvBuf = clients[fd].recvBuf /\ st.sendQueue = rest
  BY <1>2, <1>3 DEF StateT, ConnOf
<1>10. /\ v \in WireT /\ v.server = wire[x].server /\ v.client = wire[x].client /\ v.up = wire[x].up
      /\ v.sent = wire[x].sent /\ v.got = wire[x].got /\ v.down = down
  BY <1>2, <1>3, <1>6 DEF WireT
<1>11. Moves(fd, st, v, q)
  BY <1>4 DEF down
<1>12. Live(clients)' = Live(clients)
  <2>1. pc' = "idle" => pc = "idle"
    BY DEF HandleWrite, control
  <2> HIDE DEF st, v, q
  <2>2. st.remoteAddr = clients[fd].remoteAddr
    BY <1>3, <1>9 DEF ConnOf
  <2> QED BY <1>2, <1>3, <1>9, <1>10, <1>11, <2>1, <2>2, MovesKeeps
<1> HIDE DEF st, v, q, b
<1>13. clients'[fd] = st /\ wire'[x] = v /\ echoQueues'[fd] = q /\ obj' = obj
  BY <1>2, <1>3, <1>11 DEF Moves, Inv, Types, ServerSide, ClientSide
<1>14. Held(x)' = Held(x) /\ Came(x)' = gh \o down
  <2>1. Held(x)' = Held(x)
    BY <1>13 DEF Held
  <2> QED BY <1>10, <1>13, <2>1 DEF Came, gh
<1>15. CASE v.client = "closed"
  <2>1. Came(x)' = Came(x)
    BY <1>10, <1>14, <1>15 DEF down, gh, Came
  <2>2. Own(x)
    BY DEF Streams
  <2>3. Own(x)'
    BY <1>10, <1>13, <2>1, <2>2 DEF Own, OwnOf
  <2> QED BY <1>2, <1>3, <1>9, <1>10, <1>11, <1>12, <1>15, <2>3, MovesStreams
<1>16. CASE v.client # "closed"
  <2>1. Came(x)' = came2
    BY <1>7, <1>10, <1>14, <1>16 DEF down, d, Associates
  <2>2. Whole(fd)
    BY <1>2, <1>3, <1>10, <1>16 DEF Streams
  <2>3. WholeOf(a, q, b, wire[x].sent)
    BY <1>3, <1>4, <2>2 DEF Whole, Came, gh, d, q, b
  <2>4. came2 \o rest = a
    BY <1>8 DEF Associates
  <2> HIDE DEF came2, a
  <2>5. WholeOf(came2 \o rest, q, b, wire[x].sent)
    BY <2>3, <2>4
  <2>6. OwnOf(came2, wire[x].sent)
    BY <1>5, <1>8, <2>5, WholeIsOwn
  <2>7. Own(x)'
    BY <1>10, <1>13, <2>1, <2>6 DEF Own, OwnOf
  <2>8. ConnOf(fd)' = x
    BY <1>9, <1>13 DEF ConnOf
  <2>9. WholeOf(Came(x)' \o clients'[fd].sendQueue, echoQueues'[fd],
                clients'[fd].recvBuf \o wire'[x].up, wire'[x].sent)
    BY <1>9, <1>10, <1>13, <2>1, <2>5 DEF b
  <2>10. Whole(fd)'
    BY <2>8, <2>9 DEF Whole, WholeOf
  <2> QED BY <1>2, <1>3, <1>9, <1>10, <1>11, <1>12, <2>7, <2>10, MovesStreams
<1> QED BY <1>15, <1>16

LEMMA TickStreams == ASSUME Inv, Streams, Tick PROVE Streams'
<1>1. /\ ServerSide' /\ obj' = obj /\ wire' = wire /\ \A fd \in Fd : Dripped(fd)
  BY TickEffect
<1>2. \A y : Held(y)' = Held(y)
  BY <1>1 DEF Held
<1>3. \A x \in Conn : Fresh(x)' /\ Own(x)' /\ Came(x)' = Came(x)
  BY <1>1, <1>2, ConnStays DEF Streams
<1>4. Live(clients)' = Live(clients) /\ \A fd \in Fd : ConnOf(fd)' = ConnOf(fd)
  BY <1>1 DEF Inv, Types, ServerSide, Live, Dripped, ConnOf
<1>5. ASSUME NEW fd \in Live(clients), wire[ConnOf(fd)].client # "closed"
      PROVE  Whole(fd)'
  <2>1. PICK x \in Conn : ConnOf(fd) = x
    BY EntryTypes
  <2>2. fd \in Fd /\ ConnOf(fd)' = x
    BY <1>4, <2>1, EntryTypes
  <2>3. Whole(fd)
    BY <1>5 DEF Streams
  <2> DEFINE sq == clients[fd].sendQueue
             q == echoQueues[fd]
             b == clients[fd].recvBuf \o wire[x].up
             came == Came(x)
             a == came \o sq
             s == wire[x].sent
  <2>4. /\ sq \in Seq(Symbol) /\ q \in Seq(Echo) /\ b \in Seq(Symbol) /\ came \in Seq(Symbol)
        /\ a \in Seq(Symbol) /\ s \in Seq(Symbol)
    BY <2>1, EntryTypes, StreamTypes DEF Inv, Types
  <2>5. WholeOf(a, q, b, s)
    BY <2>1, <2>3 DEF Whole
  <2>6. clients'[fd].recvBuf = clients[fd].recvBuf /\ wire'[x] = wire[x] /\ Came(x)' = came
    BY <1>1, <1>3, <2>2 DEF Dripped
  <2>7. CASE clients'[fd].sendQueue = sq /\ echoQueues'[fd] = q
    <3>1. WholeOf(Came(x)' \o clients'[fd].sendQueue, echoQueues'[fd],
                  clients'[fd].recvBuf \o wire'[x].up, wire'[x].sent)
      BY <2>5, <2>6, <2>7
    <3> QED BY <2>2, <3>1 DEF Whole, WholeOf
  <2>8. CASE /\ q # <<>> /\ clients'[fd].sendQueue = sq \o <<Head(q)>>
             /\ echoQueues'[fd] = Tail(q)
    <3> DEFINE h == <<Head(q)>>
    <3>1. h \in Seq(Echo)
      BY <2>4, <2>8
    <3>2. h \in Seq(Symbol)
      BY <3>1, EchoSymbols
    <3>3. WholeOf(a \o h, Tail(q), b, s)
      <4> HIDE DEF a, q, b, s
      <4> QED BY <2>4, <2>5, <2>8, WholeDrips
    <3> HIDE DEF h
    <3>4. Associates(came, sq, h)
      <4> HIDE DEF came, sq
      <4> QED BY <2>4, <3>2, Associate
    <3>5. a \o h = came \o (sq \o h)
      BY <3>4 DEF Associates
    <3>6. WholeOf(Came(x)' \o clients'[fd].sendQueue, echoQueues'[fd],
                  clients'[fd].recvBuf \o wire'[x].up, wire'[x].sent)
      <4> HIDE DEF a, came, sq
      <4> QED BY <2>6, <2>8, <3>3, <3>5 DEF h
    <3> QED BY <2>2, <3>6 DEF Whole, WholeOf
  <2>9. \/ clients'[fd].sendQueue = sq /\ echoQueues'[fd] = q
        \/ /\ q # <<>> /\ clients'[fd].sendQueue = sq \o <<Head(q)>>
           /\ echoQueues'[fd] = Tail(q)
    BY <1>1, <2>2 DEF Dripped
  <2> QED BY <2>7, <2>8, <2>9
<1>6. ASSUME NEW fd \in Live(clients)', wire'[ConnOf(fd)'].client # "closed"
      PROVE  Whole(fd)'
  <2>1. fd \in Live(clients) /\ wire[ConnOf(fd)].client # "closed"
    BY <1>1, <1>4, <1>6, LiveFds DEF Inv, Types
  <2> QED BY <1>5, <2>1
<1> QED BY <1>3, <1>6 DEF Streams

\* Entries a step leaves alone keep what Streams says of them.
LEMMA EntriesStay ==
  ASSUME Inv, Streams, obj' = obj, NEW F \in SUBSET Live(clients),
         \A fd \in F : /\ clients'[fd] = clients[fd] /\ echoQueues'[fd] = echoQueues[fd]
                       /\ wire'[ConnOf(fd)] = wire[ConnOf(fd)]
  PROVE  \A fd \in F : wire'[ConnOf(fd)'].client # "closed" => Whole(fd)'
<1>1. ASSUME NEW fd \in F, wire'[ConnOf(fd)'].client # "closed"
      PROVE  Whole(fd)'
  <2>1. PICK x \in Conn : ConnOf(fd) = x
    BY EntryTypes
  <2>2. ConnOf(fd)' = x /\ wire'[x] = wire[x] /\ Held(x)' = Held(x)
    BY <2>1 DEF ConnOf, Held
  <2>3. Whole(fd)
    BY <1>1, <2>1, <2>2 DEF Streams
  <2> QED BY <2>1, <2>2, <2>3, EntryStays
<1> QED BY <1>1

LEMMA AcceptStreams == ASSUME Inv, Streams, NEW x \in Conn, Accept(x) PROVE Streams'
<1>1. /\ wire[x].server = "queued"
      /\ wire'[x] = [wire[x] EXCEPT !.server = "open"]
      /\ \A y \in Conn \ {x} : wire'[y] = wire[y]
      /\ obj' = obj
  BY AcceptEffect
<1>2. PICK fd \in Fd \ Live(clients) :
        /\ clients' \in [Fd -> StateT] /\ clients'[fd] = NewClient(x)
        /\ \A g \in Fd \ {fd} : clients'[g] = clients[g]
        /\ echoQueues'[fd] = <<>>
        /\ \A g \in DOMAIN echoQueues \ {fd} : echoQueues'[g] = echoQueues[g]
  BY AcceptEffect
<1>3. /\ wire'[x].server = "open" /\ wire'[x].got = wire[x].got /\ wire'[x].down = wire[x].down
      /\ wire'[x].sent = wire[x].sent /\ wire'[x].up = wire[x].up
      /\ wire'[x].client = wire[x].client
  BY <1>1, StreamTypes DEF Inv, Types, WireT
<1>4. \A y : Held(y)' = Held(y)
  BY <1>1 DEF Held
<1>5. \A y \in Conn \ {x} : Fresh(y)' /\ Own(y)'
  BY <1>1, <1>4, ConnStays DEF Streams
<1>6. Fresh(x)' /\ Own(x)' /\ Came(x)' = Came(x)
  <2>1. Came(x)' = Came(x)
    BY <1>3, <1>4 DEF Came
  <2>2. Own(x)'
    BY <1>3, <2>1 DEF Streams, Own, OwnOf
  <2>3. Fresh(x)'
    BY <1>3 DEF Fresh
  <2> QED BY <2>1, <2>2, <2>3
<1>7. \A g \in Live(clients) : wire'[ConnOf(g)'].client # "closed" => Whole(g)'
  <2>1. \A g \in Live(clients) : g \in Fd /\ g \in DOMAIN echoQueues /\ g # fd /\ ConnOf(g) \in Conn
          /\ wire[ConnOf(g)].server = "open"
    BY <1>2, EntryTypes
  <2> DEFINE F == Live(clients)
  <2>2. \A g \in F : /\ clients'[g] = clients[g] /\ echoQueues'[g] = echoQueues[g]
                     /\ wire'[ConnOf(g)] = wire[ConnOf(g)]
    BY <1>1, <1>2, <2>1
  <2> QED BY <1>1, <2>2, EntriesStay
<1>8. wire'[x].client # "closed" => Whole(fd)'
  <2>1. SUFFICES ASSUME wire'[x].client # "closed" PROVE Whole(fd)'
    OBVIOUS
  <2>2. /\ wire[x].got = <<>> /\ wire[x].down = <<>> /\ wire[x].up = wire[x].sent
        /\ Held(x) = <<>>
    BY <1>1, <1>3, <2>1 DEF Streams, Fresh
  <2>3. /\ ConnOf(fd)' = x /\ clients'[fd].sendQueue = <<>> /\ clients'[fd].recvBuf = <<>>
    BY <1>2 DEF ConnOf, NewClient
  <2>4. <<>> \o <<>> = <<>> /\ \A s \in Seq(Symbol) : <<>> \o s = s
    OBVIOUS
  <2>5. Came(x)' = <<>>
    BY <1>6, <2>2, <2>4 DEF Came
  <2> DEFINE s == wire[x].sent
  <2>6. s \in Seq(Symbol) /\ Echoes(s) \in Seq(Symbol)
    BY StreamTypes, EchoesType DEF Inv, Types
  <2> HIDE DEF s
  <2>7. WholeOf(<<>>, <<>>, s, s)
    <3>1. (Echoes(<<>>) \o <<>>) \o Echoes(s) = Echoes(s)
      BY <2>4, <2>6, EchoesOfNothing
    <3> QED BY <3>1 DEF WholeOf
  <2>8. Came(x)' \o clients'[fd].sendQueue = <<>>
    BY <2>3, <2>4, <2>5
  <2>9. clients'[fd].recvBuf \o wire'[x].up = s
    BY <1>3, <2>2, <2>3, <2>4, <2>6 DEF s
  <2>10. WholeOf(Came(x)' \o clients'[fd].sendQueue, echoQueues'[fd],
                 clients'[fd].recvBuf \o wire'[x].up, wire'[x].sent)
    BY <1>2, <1>3, <2>7, <2>8, <2>9 DEF s
  <2> QED BY <2>3, <2>10 DEF Whole, WholeOf
<1>9. Live(clients)' \subseteq Live(clients) \cup {fd} /\ ConnOf(fd)' = x
  BY <1>2 DEF Live, ConnOf, NewClient, Inv, Types, ServerSide
<1>10. ASSUME NEW g \in Live(clients)', wire'[ConnOf(g)'].client # "closed"
       PROVE  Whole(g)'
  BY <1>7, <1>8, <1>9, <1>10
<1> QED BY <1>5, <1>6, <1>10 DEF Streams

LEMMA EndedConn ==
  ASSUME ClientSide, NEW x \in Conn, Ended(wire[x], wire'[x]), obj' = obj, Own(x)
  PROVE  Fresh(x)' /\ Own(x)'
<1>1. Held(x)' = Held(x)
  BY DEF Held
<1>2. Own(x)'
  BY <1>1, OwnOfLess DEF Ended
<1> QED BY <1>2 DEF Fresh, Ended

LEMMA ClosingStreams ==
  ASSUME Inv, Streams, NEW xs \in SUBSET Conn, obj' = obj,
         \A x \in xs : Ended(wire[x], wire'[x]),
         \A x \in Conn \ xs : wire'[x] = wire[x],
         \A fd \in Live(clients)' : /\ fd \in Live(clients) /\ ConnOf(fd) \notin xs
                                    /\ clients'[fd] = clients[fd]
                                    /\ echoQueues'[fd] = echoQueues[fd]
  PROVE  Streams'
<1>1. \A y : Held(y)' = Held(y)
  BY DEF Held
<1>2. \A x \in Conn : Fresh(x)' /\ Own(x)'
  BY <1>1, ConnStays, EndedConn DEF Streams, Inv, Types
<1> DEFINE F == Live(clients)'
<1>3. F \in SUBSET Live(clients)
  OBVIOUS
<1>4. \A fd \in F : /\ clients'[fd] = clients[fd] /\ echoQueues'[fd] = echoQueues[fd]
                    /\ wire'[ConnOf(fd)] = wire[ConnOf(fd)]
  BY EntryTypes
<1> HIDE DEF F
<1>5. \A fd \in F : wire'[ConnOf(fd)'].client # "closed" => Whole(fd)'
  BY <1>3, <1>4, EntriesStay
<1> QED BY <1>2, <1>5 DEF Streams, F

LEMMA DeniedStreams == ASSUME Inv, Streams, NEW x \in Conn, AcceptDenied(x) PROVE Streams'
<1>1. /\ wire[x].server = "queued" /\ CloseServerEnds({x}) /\ clients' = clients
      /\ echoQueues' = echoQueues /\ obj' = obj
  BY DEF AcceptDenied, Queued, tables
<1> DEFINE xs == {x}
<1>2. xs \in SUBSET Conn /\ CloseServerEnds(xs)
  BY <1>1
<1> HIDE DEF xs
<1>3. (\A y \in xs : Ended(wire[y], wire'[y])) /\ \A y \in Conn \ xs : wire'[y] = wire[y]
  BY <1>2, EndsClosed DEF Inv, Types
<1>4. \A fd \in Live(clients)' : /\ fd \in Live(clients) /\ ConnOf(fd) \notin xs
                                 /\ clients'[fd] = clients[fd]
                                 /\ echoQueues'[fd] = echoQueues[fd]
  <2>1. Live(clients)' = Live(clients)
    BY <1>1 DEF Live
  <2>2. \A fd \in Live(clients) : wire[ConnOf(fd)].server = "open"
    BY EntryTypes
  <2> QED BY <1>1, <2>1, <2>2 DEF xs
<1> QED BY <1>1, <1>2, <1>3, <1>4, ClosingStreams

LEMMA EndStreams == ASSUME Inv, Streams, NEW fd \in Fd, HandleEnd(fd) PROVE Streams'
<1> DEFINE xs == {ConnOf(fd)}
<1>1. /\ fd \in Live(clients) /\ ConnOf(fd) \in Conn
      /\ Ended(wire[ConnOf(fd)], wire'[ConnOf(fd)])
      /\ \A y \in Conn \ {ConnOf(fd)} : wire'[y] = wire[y]
      /\ clients' \in [Fd -> StateT] /\ clients'[fd] = NoClient
      /\ \A g \in Fd \ {fd} : clients'[g] = clients[g]
      /\ echoQueues' = Without(echoQueues, fd) /\ obj' = obj
  BY EndEffect
<1>2. /\ xs \in SUBSET Conn /\ \A y \in xs : Ended(wire[y], wire'[y])
      /\ \A y \in Conn \ xs : wire'[y] = wire[y]
  BY <1>1
<1>3. \A g \in Live(clients)' : g \in Live(clients) /\ g # fd
  BY <1>1 DEF Live, NoClient, NewClient, Inv, Types, ServerSide
<1>4. ASSUME NEW g \in Live(clients)'
      PROVE  /\ g \in Live(clients) /\ ConnOf(g) \notin xs
             /\ clients'[g] = clients[g] /\ echoQueues'[g] = echoQueues[g]
  <2>1. g \in Live(clients) /\ g # fd /\ g \in Fd /\ g \in DOMAIN echoQueues /\ ConnOf(g) \in Conn
    BY <1>3, EntryTypes
  <2>2. ConnOf(g) # ConnOf(fd)
    BY <1>1, <2>1, ConnAssumption DEF Inv, Accounted
  <2>3. echoQueues'[g] = echoQueues[g]
    BY <1>1, <2>1 DEF Without
  <2> QED BY <1>1, <2>1, <2>2, <2>3
<1> HIDE DEF xs
<1> QED BY <1>1, <1>2, <1>4, ClosingStreams

LEMMA LeaveLoopStreams == ASSUME Inv, Streams, LeaveLoop PROVE Streams'
<1> DEFINE xs == Queued \cup {ConnOf(fd) : fd \in Live(clients)}
<1>1. /\ xs \in SUBSET Conn /\ \A x \in xs : Ended(wire[x], wire'[x])
      /\ \A x \in Conn \ xs : wire'[x] = wire[x] /\ Live(clients)' = {}
  BY LeaveLoopEffect
<1>2. obj' = obj /\ Live(clients)' = {}
  BY LeaveLoopEffect DEF LeaveLoop
<1> HIDE DEF xs
<1> QED BY <1>1, <1>2, ClosingStreams

LEMMA UntouchedStreams ==
  ASSUME Streams, obj' = obj, wire' = wire, clients' = clients, echoQueues' = echoQueues
  PROVE  Streams'
<1>1. /\ Live(clients)' = Live(clients) /\ \A fd : ConnOf(fd)' = ConnOf(fd)
      /\ \A x : Held(x)' = Held(x)
  BY DEF Live, ConnOf, Held
<1>2. \A x : Came(x)' = Came(x)
  BY <1>1 DEF Came
<1>3. \A x \in Conn : Fresh(x)' /\ Own(x)'
  BY <1>1, ConnStays DEF Streams
<1>4. \A fd \in Live(clients) : wire[ConnOf(fd)].client # "closed" => Whole(fd)'
  BY <1>1, <1>2 DEF Streams, Whole, WholeOf
<1> QED BY <1>1, <1>3, <1>4 DEF Streams

LEMMA StreamsStep == ASSUME Inv, Streams, [Next]_vars PROVE Streams'
<1>1. CASE Clients
  <2>1. PICK c \in Client : ClientNext(c)
    BY <1>1 DEF Clients
  <2>2. clients' = clients /\ echoQueues' = echoQueues
    BY <1>1 DEF Clients, tables
  <2> QED BY <2>1, <2>2, ClientCalls, CallStreams, LeaveStreams DEF Inv, Types
<1>2. CASE SetupListenSocket \/ EnterLoop \/ Select \/ stop \/ AcceptDone \/ ClientsDone
  <2>1. obj' = obj /\ wire' = wire /\ clients' = clients /\ echoQueues' = echoQueues
    BY <1>2 DEF SetupListenSocket, EnterLoop, Select, stop, AcceptDone, ClientsDone, clientVars,
                tables
  <2> QED BY <2>1, UntouchedStreams
<1>3. CASE Tick
  BY <1>3, TickStreams
<1>4. CASE LeaveLoop
  BY <1>4, LeaveLoopStreams
<1>5. ASSUME NEW x \in Conn, Accept(x) \/ AcceptDenied(x)
      PROVE  Streams'
  BY <1>5, AcceptStreams, DeniedStreams
<1>6. ASSUME NEW fd \in Fd, HandleRead(fd) \/ HandleEnd(fd) \/ HandleWrite(fd)
      PROVE  Streams'
  BY <1>6, ReadStreams, EndStreams, WriteStreams
<1>7. CASE UNCHANGED vars
  BY <1>7, UntouchedStreams DEF vars, tables, clientVars
<1> QED BY <1>1, <1>2, <1>3, <1>4, <1>5, <1>6, <1>7 DEF Next, Loop

LEMMA InitStreams == ASSUME Init PROVE Streams
<1>1. Live(clients) = {}
  BY DEF Init, NoClient, NewClient, Live
<1>2. ASSUME NEW x \in Conn
      PROVE  Fresh(x) /\ Own(x)
  <2>1. wire[x] = NewWire("new", "new")
    BY DEF Init, ClientInit
  <2>2. Held(x) = <<>>
    BY ConnParts DEF Init, ClientInit, NewObject, Held
  <2>3. <<>> \o <<>> = <<>> /\ <<>> \in Seq(Symbol)
    OBVIOUS
  <2>4. Came(x) = <<>> /\ wire[x].sent = <<>>
    BY <2>1, <2>2, <2>3 DEF Came, NewWire
  <2>5. OwnOf(<<>>, <<>>)
    BY <2>3, EchoesOfNothing DEF OwnOf
  <2> QED BY <2>1, <2>4, <2>5 DEF Own, Fresh, NewWire
<1> QED BY <1>1, <1>2 DEF Streams

LEMMA AlwaysStreams == Spec => []Streams
BY InitStreams, AlwaysInv, StreamsStep, PTL DEF Spec

LEMMA StreamsConserved == ASSUME Inv, Streams PROVE EchoConserved
<1>1. ASSUME NEW fd \in Live(clients), wire[ConnOf(fd)].client = "open"
      PROVE  LET x == ConnOf(fd)
                 w == wire[x]
             IN  Echoes(w.got \o obj[x[1]].readBuf \o w.down \o clients[fd].sendQueue)
                   \o echoQueues[fd] \o Echoes(clients[fd].recvBuf \o w.up) = Echoes(w.sent)
  <2>1. PICK x \in Conn : x = ConnOf(fd)
    BY EntryTypes
  <2>2. obj[x[1]].fd = x[2]
    BY <1>1, <2>1, ConnParts DEF Inv, Objects
  <2>3. Whole(fd)
    BY <1>1 DEF Streams
  <2>4. Held(x) = obj[x[1]].readBuf
    BY <2>2 DEF Held
  <2> QED BY <2>1, <2>3, <2>4 DEF Whole, WholeOf, Came
<1> QED BY <1>1 DEF EchoConserved

\* Every line is in one place: the echoes of a connection that is open at both ends,
\* and the lines EchoServer has not dealt with, are the lines its client sent, in
\* order, with orders in between and whoever had the descriptor or the object before.
THEOREM LinesConserved == Spec => []EchoConserved
BY AlwaysInv, AlwaysStreams, StreamsConserved, PTL

LEMMA PrefixOf ==
  ASSUME NEW p \in Seq(Symbol), NEW r \in Seq(Symbol)
  PROVE  IsPrefixOf(p, p \o r)
<1>1. SubSeq(p \o r, 1, Len(p)) = p /\ Len(p \o r) = Len(p) + Len(r) /\ Len(r) \in Nat /\ Len(p) \in Nat
  OBVIOUS
<1> QED BY <1>1 DEF IsPrefixOf

LEMMA StreamsOwn == ASSUME Inv, Streams PROVE OwnEchoes
<1>1. ASSUME NEW c \in Client, NEW s \in 1..MaxSessions[c]
      PROVE  LET w == wire[<<c, s>>]
             IN  IsPrefixOf(Echoes(w.got \o (IF obj[c].fd = s THEN obj[c].readBuf ELSE <<>>)),
                            Echoes(w.sent))
  <2>1. PICK x \in Conn : x = <<c, s>>
    BY ConnPair
  <2> DEFINE a == wire[x].got \o Held(x)
             d == wire[x].down
             e == wire[x].sent
  <2>2. a \in Seq(Symbol) /\ d \in Seq(Symbol) /\ e \in Seq(Symbol) /\ <<>> \in Seq(Symbol)
    BY StreamTypes DEF Inv, Types
  <2>3. OwnOf(a \o d, e)
    BY DEF Streams, Own, Came
  <2>4. a = wire[<<c, s>>].got \o (IF obj[c].fd = s THEN obj[c].readBuf ELSE <<>>)
    BY <2>1 DEF Held
  <2> HIDE DEF a, d, e
  <2>5. OwnOf(a, e)
    <3>1. \A u \in Seq(Symbol) : OwnOf(a, e \o u)
      BY <2>2, <2>3, OwnLess
    <3>2. OwnOf(a, e \o <<>>)
      BY <2>2, <3>1
    <3>3. e \o <<>> = e
      BY <2>2
    <3> QED BY <3>2, <3>3
  <2>6. PICK rest \in Seq(Symbol) : Echoes(a) \o rest = Echoes(e)
    BY <2>5 DEF OwnOf
  <2>7. IsPrefixOf(Echoes(a), Echoes(a) \o rest)
    BY <2>2, EchoesType, PrefixOf
  <2> QED BY <2>1, <2>4, <2>6, <2>7 DEF e
<1> QED BY <1>1 DEF OwnEchoes

\* What a client of EchoServer has read or holds of a session is a part, from the
\* start, of what it sent in that session, after the server is gone and after
\* reconnects of the same TcpClientB object too.
THEOREM EchoesAreOwn == Spec => []OwnEchoes
BY AlwaysInv, AlwaysStreams, StreamsOwn, PTL
=============================================================================
