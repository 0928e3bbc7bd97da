--------------------------- MODULE TcpProxy_proofs ---------------------------
(***************************************************************************)
(* Proofs about TcpProxy, for any number of connections, descriptors and   *)
(* bytes.  First the tables: the type invariant, that every descriptor has *)
(* exactly one owner, and that what select() reports of one socket is not  *)
(* used on another.  Then the sessions: both streams of every session stay *)
(* complete, in order and apart from all others'; what select() reported   *)
(* still holds when its turn comes; a session ends only for a cause; and   *)
(* TcpProxy implements Relay.  A step of the loop touches one session; its *)
(* effect there is stated once, for the invariants and the refinement.     *)
(***************************************************************************)
EXTENDS TcpProxyRelay, SequenceTheorems, TLAPS

-----------------------------------------------------------------------------
(* The tables: the inductive invariant.                                    *)

\* A descriptor is free or a socket of some connection.
SocketsMade ==
  \A fd \in Fd : \/ sock[fd] = Free
                 \/ \E c \in Conn : sock[fd] \in {Socket("client", c), Socket("backend", c)}

\* A turn is only ever given to an entry that is there: the loops walk a snapshot
\* of the keys, and a turn removes no entry but its own.
TodoLive == pc \in {"backends", "clients"} => todo \subseteq LiveBackends

\* The proxy never calls closeAfterFlush() on a backend connection, so that
\* handleWrite() never disconnects one.
NoPendingClose == \A fd \in Fd : ~backends[fd].backend.pendingClose

IInv == TypeOK /\ FdOwnership /\ SocketsMade /\ TodoLive /\ NoPendingClose

\* The records TypeOK is made of.
ClientType ==
  [remoteAddr : Conn \cup {NoConn}, recvBuf : Seq(Byte), sendQueue : Seq(Byte),
   pendingClose : BOOLEAN]
BackendType ==
  [backend : NBType, clientAddr : Conn \cup {NoConn}, pendingData : Seq(Byte)]
SocketType == [kind : {"free", "client", "backend"}, conn : Conn \cup {NoConn}]
CliType == EndType({"new", "queued", "open", "closed"}, {"up", "fin", "rst", "gone"})
SrvType == EndType({"new", "open", "closed"}, {"syn", "up", "refused", "fin", "rst", "gone"})

LoopType ==
  /\ running \in BOOLEAN
  /\ pc \in {"select", "tick", "accept", "backends", "clients", "stopped"}
  /\ readSet \subseteq Fd \cup {ListenFd} /\ writeSet \subseteq Fd
  /\ todo \subseteq Fd /\ cur \in Fd \cup {NB!NoFd}

KernelType ==
  sock \in [Fd -> SocketType] /\ cli \in [Conn -> CliType] /\ srv \in [Conn -> SrvType]

TablesType == clients \in [Fd -> ClientType] /\ backends \in [Fd -> BackendType]

LEMMA TypeParts == TypeOK <=> LoopType /\ TablesType /\ KernelType
BY DEF TypeOK, LoopType, TablesType, KernelType, ClientType, BackendType, SocketType,
  CliType, SrvType

LEMMA TypePartsNext == TypeOK' <=> LoopType' /\ TablesType' /\ KernelType'
BY DEF TypeOK, LoopType, TablesType, KernelType, ClientType, BackendType, SocketType,
  CliType, SrvType, NBType, EndType, Byte

-----------------------------------------------------------------------------
(* What the operators the model is built from return.                      *)

LEMMA NoFdNotInFd == NB!NoFd \notin Fd
BY FdAssumption DEF NB!NoFd

LEMMA FreshType ==
  /\ NB!Fresh \in NBType /\ NB!Fresh.fd = NB!NoFd /\ ~NB!Fresh.pendingClose
BY DEF NBType, NB!Fresh, NB!NoFd

LEMMA NoBackendType ==
  /\ NoBackend \in BackendType /\ NoBackend.clientAddr = NoConn
  /\ NoBackend.backend = NB!Fresh
<1> HIDE DEF NB!Fresh
<1> QED
  BY FreshType DEF NoBackend, NewBackend, BackendType

LEMMA NewClientType ==
  ASSUME NEW c \in Conn \cup {NoConn}
  PROVE  NewClient(c) \in ClientType /\ NewClient(c).remoteAddr = c
BY DEF NewClient, ClientType

LEMMA PartsType ==
  ASSUME NEW s \in Seq(Byte), NEW n \in 1..Len(s)
  PROVE  /\ SubSeq(s, 1, n) \in Seq(Byte)
         /\ SubSeq(s, n + 1, Len(s)) \in Seq(Byte)
BY SubSeqProperties

LEMMA StreamType ==
  ASSUME NEW c \in Conn, NEW dir \in {"up", "down"}, NEW from \in Nat, NEW n \in Nat
  PROVE  Stream(c, dir, from, from + n) \in Seq(Byte)
<1>1. (from + n) - from = n
  OBVIOUS
<1>2. Stream(c, dir, from, from + n)
        = [i \in 1..n |-> [conn |-> c, dir |-> dir, at |-> from + i]]
  BY <1>1 DEF Stream
<1>3. Stream(c, dir, from, from + n) \in [1..n -> Byte]
  BY <1>2 DEF Byte
<1> QED
  BY <1>3

LEMMA SendType ==
  ASSUME NEW b \in NBType, NEW data \in Seq(Byte)
  PROVE  LET r == NB!send(b, data)
         IN  r \in NBType /\ r.fd = b.fd /\ r.pendingClose = b.pendingClose
<1>1. b.sendQueue \o data \in Seq(Byte)
  BY DEF NBType
<1> QED
  BY <1>1 DEF NB!send, NBType

LEMMA CompleteConnectType ==
  ASSUME NEW b \in NBType
  PROVE  LET r == NB!completeConnect(b, FALSE)
         IN  r \in NBType /\ r.fd = b.fd /\ r.pendingClose = b.pendingClose
BY DEF NB!completeConnect, NBType

LEMMA WroteType ==
  ASSUME NEW b \in NBType, ~b.pendingClose, NEW n \in 1..Len(b.sendQueue)
  PROVE  LET r == NB!wrote(b, n)
         IN  r \in NBType /\ r.fd = b.fd /\ r.pendingClose = b.pendingClose
<1>1. SubSeq(b.sendQueue, n + 1, Len(b.sendQueue)) \in Seq(Byte)
  BY PartsType DEF NBType
<1>2. NB!wrote(b, n)
        = [b EXCEPT !.sendQueue = SubSeq(b.sendQueue, n + 1, Len(b.sendQueue))]
  BY DEF NB!wrote
<1> QED
  BY <1>1, <1>2 DEF NBType

LEMMA ReceivedType ==
  ASSUME NEW b \in NBType, NEW data \in Seq(Byte)
  PROVE  LET r == NB!received(b, data)
         IN  r \in NBType /\ r.fd = b.fd /\ r.pendingClose = b.pendingClose
<1>1. b.recvBuf \o data \in Seq(Byte)
  BY DEF NBType
<1> QED
  BY <1>1 DEF NB!received, NBType

LEMMA ConsumeAllType ==
  ASSUME NEW b \in NBType
  PROVE  LET r == NB!consumeReceived(b, Len(b.recvBuf))
         IN  r \in NBType /\ r.fd = b.fd /\ r.pendingClose = b.pendingClose
<1>1. Len(b.recvBuf) \in Nat
  BY DEF NBType
<1>2. NB!consumeReceived(b, Len(b.recvBuf)) = [b EXCEPT !.recvBuf = <<>>]
  BY <1>1 DEF NB!consumeReceived
<1>3. <<>> \in Seq(Byte)
  OBVIOUS
<1> QED
  BY <1>2, <1>3 DEF NBType

\* What connect() leaves behind on an object without a socket.
LEMMA ConnectOn ==
  ASSUME NEW b \in NBType, b.fd = NB!NoFd, ~b.pendingClose
  PROVE  /\ NB!connect(b, "failed", NB!NoFd) = b
         /\ \A outcome \in {"inprogress", "immediate"}, fd \in Fd :
              LET r == NB!connect(b, outcome, fd)
              IN  r \in NBType /\ r.fd = fd /\ ~r.pendingClose
<1>1. NB!connect(b, "failed", NB!NoFd) = b
  BY DEF NB!connect
<1>2. ASSUME NEW outcome \in {"inprogress", "immediate"}, NEW fd \in Fd
      PROVE  NB!connect(b, outcome, fd) =
               IF outcome = "inprogress" THEN [b EXCEPT !.fd = fd, !.connecting = TRUE]
                                         ELSE [b EXCEPT !.fd = fd, !.connected = TRUE]
  BY DEF NB!connect
<1>3. \A fd \in Fd : LET r == [b EXCEPT !.fd = fd, !.connecting = TRUE]
                    IN  r \in NBType /\ r.fd = fd /\ ~r.pendingClose
  BY DEF NBType
<1>4. \A fd \in Fd : LET r == [b EXCEPT !.fd = fd, !.connected = TRUE]
                    IN  r \in NBType /\ r.fd = fd /\ ~r.pendingClose
  BY DEF NBType
<1>5. ASSUME NEW outcome \in {"inprogress", "immediate"}, NEW fd \in Fd
      PROVE  LET r == NB!connect(b, outcome, fd)
             IN  r \in NBType /\ r.fd = fd /\ ~r.pendingClose
  <2>1. CASE outcome = "inprogress"
    <3>1. NB!connect(b, outcome, fd) = [b EXCEPT !.fd = fd, !.connecting = TRUE]
      BY <1>2, <2>1
    <3> QED
      BY <1>3, <3>1
  <2>2. CASE outcome = "immediate"
    <3>1. NB!connect(b, outcome, fd) = [b EXCEPT !.fd = fd, !.connected = TRUE]
      BY <1>2, <2>2
    <3> QED
      BY <1>4, <3>1
  <2> QED
    BY <2>1, <2>2
<1> QED
  BY <1>1, <1>5

LEMMA ConnectType ==
  /\ NB!connect(NB!Fresh, "failed", NB!NoFd) = NB!Fresh
  /\ \A outcome \in {"inprogress", "immediate"}, fd \in Fd :
       LET r == NB!connect(NB!Fresh, outcome, fd)
       IN  r \in NBType /\ r.fd = fd /\ ~r.pendingClose
BY FreshType, ConnectOn

LEMMA ClosedEndType ==
  /\ \A e \in CliType : ClosedEnd(e) \in CliType
  /\ \A e \in SrvType : ClosedEnd(e) \in SrvType
BY DEF ClosedEnd, CliType, SrvType, EndType

LEMMA CloseType ==
  ASSUME KernelType, NEW S, NEW ends \in [Conn -> CliType], CloseWith(S, ends)
  PROVE  KernelType'
<1>1. sock' \in [Fd -> SocketType]
  BY DEF CloseWith, KernelType, SocketType, Free
<1>2. cli' \in [Conn -> CliType]
  BY ClosedEndType DEF CloseWith
<1>3. srv' \in [Conn -> SrvType]
  BY ClosedEndType DEF CloseWith, KernelType
<1> QED
  BY <1>1, <1>2, <1>3 DEF KernelType, SocketType, CliType, SrvType, EndType, Byte

-----------------------------------------------------------------------------
(* How steps act on the owners of descriptors.                             *)

\* Facts of the invariant about a live entry.
LEMMA LiveEntry ==
  ASSUME IInv, NEW fd \in LiveBackends
  PROVE  /\ fd \in Fd /\ fd \in Live(clients)
         /\ ConnOf(fd) \in Conn /\ ConnOf(fd) = backends[fd].clientAddr
         /\ sock[fd] = Socket("client", ConnOf(fd))
         /\ BackendFd(fd) \in Fd \cup {NB!NoFd}
         /\ BackendFd(fd) # NB!NoFd => sock[BackendFd(fd)] = Socket("backend", ConnOf(fd))
         /\ BackendFd(fd) # fd
<1>1. fd \in Fd /\ backends[fd].clientAddr # NoConn
  BY DEF LiveBackends
<1>2. /\ fd \in Live(clients)
      /\ ConnOf(fd) = backends[fd].clientAddr
  BY DEF IInv, FdOwnership
<1>3. backends[fd] \in BackendType
  BY <1>1, TypeParts DEF IInv, TablesType
<1>4. ConnOf(fd) \in Conn
  BY <1>1, <1>2, <1>3 DEF BackendType
<1>5. sock[fd] = Socket("client", ConnOf(fd))
  BY <1>1, <1>4 DEF IInv, FdOwnership
<1>6. BackendFd(fd) \in Fd \cup {NB!NoFd}
  BY <1>3 DEF BackendType, NBType, BackendFd
<1>7. BackendFd(fd) # NB!NoFd => sock[BackendFd(fd)] = Socket("backend", ConnOf(fd))
  BY <1>2, <1>4, <1>6 DEF IInv, FdOwnership
<1>8. BackendFd(fd) # fd
  BY <1>1, <1>5, <1>7, NoFdNotInFd DEF Socket
<1> QED
  BY <1>1, <1>2, <1>4, <1>5, <1>6, <1>7, <1>8

\* A step that changes no descriptor and no entry's identity.
LEMMA SameOwners ==
  ASSUME IInv, UNCHANGED sock,
         Live(clients)' = Live(clients), LiveBackends' = LiveBackends,
         \A fd \in Fd : clients'[fd].remoteAddr = clients[fd].remoteAddr,
         \A fd \in Fd : /\ backends'[fd].clientAddr = backends[fd].clientAddr
                        /\ backends'[fd].backend.fd = backends[fd].backend.fd,
         pc' = "stopped" => pc = "stopped"
  PROVE  (FdOwnership /\ SocketsMade)'
<1>1. LiveBackends \subseteq Fd
  BY DEF LiveBackends
<1>2. FreeFds' = FreeFds
  BY DEF FreeFds
<1>3. SocketsMade'
  BY DEF IInv, SocketsMade
<1>4. /\ Live(clients)' = LiveBackends'
      /\ \A fd \in LiveBackends' : ConnOf(fd)' = backends'[fd].clientAddr
      /\ \A fd \in Fd : \A c \in Conn : sock'[fd] = Socket("client", c) <=> ConnOf(fd)' = c
  BY <1>1 DEF IInv, FdOwnership, ConnOf
<1>5. /\ \A fd \in Fd : \A c \in Conn :
           sock'[fd] = Socket("backend", c) <=>
             \E f \in LiveBackends' : BackendFd(f)' = fd /\ backends'[f].clientAddr = c
      /\ \A f, g \in LiveBackends' :
           BackendFd(f)' = BackendFd(g)' /\ f # g => BackendFd(f)' = NB!NoFd
  BY <1>1 DEF IInv, FdOwnership, BackendFd
<1>6. pc' = "stopped" => FreeFds' = Fd
  BY <1>2 DEF IInv, FdOwnership
<1> QED
  BY <1>3, <1>4, <1>5, <1>6 DEF FdOwnership

\* disconnectClient(): the entry goes from both tables with its descriptors.
LEMMA DisconnectOwners ==
  ASSUME IInv, NEW fd \in LiveBackends, NEW ends, DisconnectClientWith(fd, ends),
         pc' # "stopped"
  PROVE  /\ (FdOwnership /\ SocketsMade)'
         /\ LiveBackends' = LiveBackends \ {fd}
<1> DEFINE b == BackendFd(fd)
           gone == {fd, b} \ {NB!NoFd}
<1>1. /\ fd \in Fd /\ b \in Fd \cup {NB!NoFd} /\ b # fd
      /\ sock[fd] = Socket("client", ConnOf(fd))
      /\ b # NB!NoFd => sock[b] = Socket("backend", ConnOf(fd))
  BY LiveEntry
<1>2. /\ clients \in [Fd -> ClientType] /\ backends \in [Fd -> BackendType]
      /\ LiveBackends \subseteq Fd
  BY TypeParts DEF IInv, TablesType, LiveBackends
<1>3. /\ clients' = [clients EXCEPT ![fd] = NoClient]
      /\ backends' = [backends EXCEPT ![fd] = NoBackend]
      /\ \A g \in Fd : sock'[g] = IF g \in gone THEN Free ELSE sock[g]
  BY DEF DisconnectClientWith, CloseWith, erase
<1>4. NoClient.remoteAddr = NoConn /\ NoBackend.clientAddr = NoConn
  BY NoBackendType DEF NoClient, NewClient
<1>5. Live(clients)' = Live(clients) \ {fd} /\ LiveBackends' = LiveBackends \ {fd}
  BY <1>1, <1>2, <1>3, <1>4 DEF Live, LiveBackends
<1>6. /\ \A g \in Fd : g # fd => clients'[g] = clients[g] /\ backends'[g] = backends[g]
      /\ clients'[fd].remoteAddr = NoConn
  BY <1>1, <1>2, <1>3, <1>4
<1> HIDE DEF b
<1>7. /\ Live(clients)' = LiveBackends'
      /\ \A g \in LiveBackends' : ConnOf(g)' = backends'[g].clientAddr
  BY <1>2, <1>5, <1>6 DEF IInv, FdOwnership, ConnOf
<1>8. ASSUME NEW g \in Fd, NEW c \in Conn
      PROVE  sock'[g] = Socket("client", c) <=> ConnOf(g)' = c
  <2>1. CASE g = fd
    BY <1>1, <1>3, <1>6, <2>1, NoFdNotInFd, ConnAssumption DEF ConnOf, Free, Socket
  <2>2. CASE g # fd /\ g = b
    <3>1. sock'[g] = Free /\ sock[g] # Socket("client", c)
      BY <1>1, <1>3, <2>2, NoFdNotInFd DEF Socket
    <3>2. ConnOf(g) # c /\ ConnOf(g)' = ConnOf(g)
      BY <1>6, <2>2, <3>1 DEF IInv, FdOwnership, ConnOf
    <3> QED
      BY <3>1, <3>2 DEF Free, Socket
  <2>3. CASE g \notin gone
    BY <1>3, <1>6, <2>3, <1>1, NoFdNotInFd DEF IInv, FdOwnership, ConnOf
  <2> QED
    BY <2>1, <2>2, <2>3
<1>9. ASSUME NEW g \in Fd, NEW c \in Conn
      PROVE  sock'[g] = Socket("backend", c) <=>
               \E f \in LiveBackends' : BackendFd(f)' = g /\ backends'[f].clientAddr = c
  <2>1. \A f \in LiveBackends' : /\ f \in LiveBackends /\ f # fd
                                 /\ BackendFd(f)' = BackendFd(f)
                                 /\ backends'[f].clientAddr = backends[f].clientAddr
    BY <1>2, <1>5, <1>6 DEF BackendFd
  <2>2. CASE g \in gone
    <3>1. sock'[g] # Socket("backend", c)
      BY <1>3, <2>2 DEF Free, Socket
    <3>2. ASSUME NEW f \in LiveBackends', BackendFd(f)' = g
          PROVE  FALSE
      <4>1. BackendFd(f) = g /\ f \in LiveBackends /\ f # fd
        BY <2>1, <3>2
      <4>2. g # b
        BY <4>1, NoFdNotInFd DEF IInv, FdOwnership, b
      <4>3. sock[g] = Socket("backend", ConnOf(f))
        BY <4>1, LiveEntry, NoFdNotInFd
      <4> QED
        BY <1>1, <2>2, <4>2, <4>3 DEF Socket
    <3> QED
      BY <3>1, <3>2
  <2>3. CASE g \notin gone
    <3>1. g # b
      BY <2>3, NoFdNotInFd
    <3>2. sock'[g] = sock[g]
      BY <1>3, <2>3
    <3>3. sock[g] = Socket("backend", c) <=>
            \E f \in LiveBackends : BackendFd(f) = g /\ backends[f].clientAddr = c
      BY DEF IInv, FdOwnership
    <3>4. \A f \in LiveBackends : BackendFd(f) = g => f \in LiveBackends'
      BY <1>5, <3>1 DEF b
    <3> QED
      BY <2>1, <3>2, <3>3, <3>4
  <2> QED
    BY <2>2, <2>3
<1>10. \A f, g \in LiveBackends' :
         BackendFd(f)' = BackendFd(g)' /\ f # g => BackendFd(f)' = NB!NoFd
  <2>1. \A f \in LiveBackends' : f \in LiveBackends /\ BackendFd(f)' = BackendFd(f)
    BY <1>2, <1>5, <1>6 DEF BackendFd
  <2> QED
    BY <2>1 DEF IInv, FdOwnership
<1>11. SocketsMade'
  BY <1>3 DEF IInv, SocketsMade
<1> QED
  BY <1>5, <1>7, <1>8, <1>9, <1>10, <1>11 DEF FdOwnership

\* A backend object that disconnects itself leaves its entry behind.
LEMMA LostOwners ==
  ASSUME IInv, NEW fd \in LiveBackends, BackendLost(fd), BackendFd(fd) # NB!NoFd,
         Live(clients)' = Live(clients),
         \A g \in Fd : clients'[g].remoteAddr = clients[g].remoteAddr,
         pc' # "stopped"
  PROVE  /\ (FdOwnership /\ SocketsMade)'
         /\ LiveBackends' = LiveBackends
<1> DEFINE b == BackendFd(fd)
<1>1. /\ fd \in Fd /\ b \in Fd /\ b # fd
      /\ sock[fd] = Socket("client", ConnOf(fd))
      /\ sock[b] = Socket("backend", ConnOf(fd))
  BY LiveEntry
<1>2. backends \in [Fd -> BackendType] /\ LiveBackends \subseteq Fd
  BY TypeParts DEF IInv, TablesType, LiveBackends
<1>3. /\ backends' = [backends EXCEPT ![fd].backend = NB!Fresh]
      /\ \A g \in Fd : sock'[g] = IF g = b THEN Free ELSE sock[g]
  BY DEF BackendLost, Close, CloseWith, NB!disconnect
<1>4. /\ \A g \in Fd : backends'[g].clientAddr = backends[g].clientAddr
      /\ \A g \in Fd : g # fd => backends'[g] = backends[g]
      /\ backends'[fd].backend = NB!Fresh
  BY <1>1, <1>2, <1>3 DEF BackendType
<1>5. LiveBackends' = LiveBackends
  BY <1>4 DEF LiveBackends
<1>6. /\ BackendFd(fd)' = NB!NoFd
      /\ \A g \in Fd : g # fd => BackendFd(g)' = BackendFd(g)
  BY <1>4, FreshType DEF BackendFd
<1> HIDE DEF b
<1>7. /\ Live(clients)' = LiveBackends'
      /\ \A g \in LiveBackends' : ConnOf(g)' = backends'[g].clientAddr
  BY <1>2, <1>4, <1>5 DEF IInv, FdOwnership, ConnOf
<1>8. ASSUME NEW g \in Fd, NEW c \in Conn
      PROVE  sock'[g] = Socket("client", c) <=> ConnOf(g)' = c
  <2>1. ConnOf(g)' = ConnOf(g) /\ (sock[g] = Socket("client", c) <=> ConnOf(g) = c)
    BY DEF IInv, FdOwnership, ConnOf
  <2> QED
    BY <1>1, <1>3, <2>1 DEF Free, Socket
<1>9. ASSUME NEW g \in Fd, NEW c \in Conn
      PROVE  sock'[g] = Socket("backend", c) <=>
               \E f \in LiveBackends' : BackendFd(f)' = g /\ backends'[f].clientAddr = c
  <2>1. sock[g] = Socket("backend", c) <=>
          \E f \in LiveBackends : BackendFd(f) = g /\ backends[f].clientAddr = c
    BY DEF IInv, FdOwnership
  <2>2. CASE g = b
    <3>1. sock'[g] # Socket("backend", c)
      BY <1>3, <2>2 DEF Free, Socket
    <3>2. \A f \in LiveBackends : f # fd => BackendFd(f) # b
      BY <1>1, NoFdNotInFd DEF IInv, FdOwnership, b
    <3> QED
      BY <1>1, <1>2, <1>5, <1>6, <2>2, <3>1, <3>2, NoFdNotInFd
  <2>3. CASE g # b
    <3>1. \A f \in LiveBackends : BackendFd(f) = g <=> BackendFd(f)' = g
      BY <1>2, <1>6, <2>3, NoFdNotInFd DEF b
    <3> QED
      BY <1>2, <1>3, <1>4, <1>5, <2>1, <2>3, <3>1
  <2> QED
    BY <2>2, <2>3
<1>10. \A f, g \in LiveBackends' :
         BackendFd(f)' = BackendFd(g)' /\ f # g => BackendFd(f)' = NB!NoFd
  BY <1>2, <1>5, <1>6 DEF IInv, FdOwnership
<1>11. SocketsMade'
  BY <1>3 DEF IInv, SocketsMade
<1> QED
  BY <1>5, <1>7, <1>8, <1>9, <1>10, <1>11 DEF FdOwnership

-----------------------------------------------------------------------------
(* The kinds of step.                                                      *)

\* A step that touches neither the tables nor the descriptors.
LEMMA QuietStep ==
  ASSUME IInv, UNCHANGED <<tables, sock>>, LoopType', KernelType', TodoLive',
         pc' = "stopped" => pc = "stopped"
  PROVE  IInv'
<1>1. /\ Live(clients)' = Live(clients) /\ LiveBackends' = LiveBackends
      /\ clients' = clients /\ backends' = backends
  BY DEF tables, Live, LiveBackends
<1>2. TypeOK'
  BY <1>1, TypeParts, TypePartsNext DEF IInv, TablesType, ClientType, BackendType,
    NBType, Byte
<1>3. (FdOwnership /\ SocketsMade)'
  BY <1>1, SameOwners
<1>4. NoPendingClose'
  BY <1>1 DEF IInv, NoPendingClose
<1> QED
  BY <1>2, <1>3, <1>4 DEF IInv

\* The loop's variables after a turn or half of one.
LEMMA TurnLoop ==
  ASSUME LoopType, NEW fd \in Fd, UNCHANGED <<running, pc, readSet, writeSet>>,
         EndTurn(fd) \/ (cur' = fd /\ UNCHANGED todo)
  PROVE  LoopType' /\ todo' \subseteq todo
BY DEF LoopType, EndTurn

\* A turn that changes entries but not whose they are.
LEMMA TurnStep ==
  ASSUME IInv, NEW fd \in todo, UNCHANGED <<running, pc, readSet, writeSet, sock>>,
         EndTurn(fd) \/ (cur' = fd /\ UNCHANGED todo),
         pc \in {"backends", "clients"},
         KernelType',
         clients' \in [Fd -> ClientType], backends' \in [Fd -> BackendType],
         \A g \in Fd : clients'[g].remoteAddr = clients[g].remoteAddr,
         \A g \in Fd : /\ backends'[g].clientAddr = backends[g].clientAddr
                       /\ backends'[g].backend.fd = backends[g].backend.fd
                       /\ backends'[g].backend.pendingClose = backends[g].backend.pendingClose
  PROVE  IInv'
<1>1. LoopType /\ TablesType /\ fd \in Fd
  BY TypeParts DEF IInv, LoopType
<1>2. LoopType' /\ todo' \subseteq todo
  BY <1>1, TurnLoop
<1>3. Live(clients)' = Live(clients) /\ LiveBackends' = LiveBackends
  BY <1>1 DEF TablesType, Live, LiveBackends
<1>4. (FdOwnership /\ SocketsMade)'
  BY <1>3, SameOwners
<1>5. TypeOK'
  BY <1>2, TypePartsNext DEF TablesType, ClientType, BackendType, NBType, Byte
<1>6. TodoLive' /\ NoPendingClose'
  BY <1>2, <1>3 DEF IInv, TodoLive, NoPendingClose
<1> QED
  BY <1>4, <1>5, <1>6 DEF IInv

\* A turn that ends with the client and its backend connection gone.
LEMMA DisconnectStep ==
  ASSUME IInv, NEW fd \in todo, UNCHANGED <<running, pc, readSet, writeSet>>, EndTurn(fd),
         pc \in {"backends", "clients"},
         NEW ends \in [Conn -> CliType], DisconnectClientWith(fd, ends)
  PROVE  IInv'
<1>1. /\ LoopType /\ TablesType /\ KernelType /\ fd \in Fd /\ fd \in LiveBackends
      /\ pc' # "stopped"
  BY TypeParts DEF IInv, LoopType, TodoLive
<1>2. (FdOwnership /\ SocketsMade)' /\ LiveBackends' = LiveBackends \ {fd}
  BY <1>1, DisconnectOwners
<1>3. LoopType'
  BY <1>1, TurnLoop
<1>4. KernelType'
  BY <1>1, CloseType DEF DisconnectClientWith
<1>5. clients' \in [Fd -> ClientType] /\ backends' \in [Fd -> BackendType]
  BY <1>1, NewClientType, NoBackendType DEF DisconnectClientWith, erase, TablesType, NoClient
<1>6. TypeOK'
  BY <1>3, <1>4, <1>5, TypePartsNext DEF TablesType, ClientType, BackendType, NBType, Byte
<1>7. TodoLive'
  BY <1>2 DEF IInv, TodoLive, EndTurn
<1>8. NoPendingClose'
  BY <1>1, NoBackendType, FreshType DEF IInv, NoPendingClose, DisconnectClientWith, TablesType
<1> QED
  BY <1>2, <1>6, <1>7, <1>8 DEF IInv

\* A turn that ends with the backend connection gone and its entry left.
LEMMA LostStep ==
  ASSUME IInv, NEW fd \in todo, UNCHANGED <<running, pc, readSet, writeSet>>, EndTurn(fd),
         pc = "backends", BackendLost(fd), BackendFd(fd) # NB!NoFd,
         clients' = clients \/ clients' = markPendingClose(clients, fd)
  PROVE  IInv'
<1>1. /\ LoopType /\ TablesType /\ KernelType /\ fd \in Fd /\ fd \in LiveBackends
      /\ pc' # "stopped"
  BY TypeParts DEF IInv, LoopType, TodoLive
<1>2. /\ clients' \in [Fd -> ClientType]
      /\ \A g \in Fd : clients'[g].remoteAddr = clients[g].remoteAddr
  <2>1. clients \in [Fd -> ClientType]
    BY <1>1 DEF TablesType
  <2>2. CASE clients' = clients
    BY <2>1, <2>2
  <2>3. CASE clients' = [clients EXCEPT ![fd].pendingClose = TRUE]
    BY <1>1, <2>1, <2>3 DEF ClientType
  <2> QED
    BY <2>2, <2>3 DEF markPendingClose
<1>3. Live(clients)' = Live(clients)
  BY <1>1, <1>2 DEF TablesType, Live
<1>4. (FdOwnership /\ SocketsMade)' /\ LiveBackends' = LiveBackends
  BY <1>1, <1>2, <1>3, LostOwners
<1>5. LoopType'
  BY <1>1, TurnLoop
<1>6. KernelType'
  BY <1>1, CloseType DEF BackendLost, Close, KernelType
<1>7. /\ backends' = [backends EXCEPT ![fd].backend = NB!Fresh]
      /\ NB!Fresh \in NBType /\ ~NB!Fresh.pendingClose
  BY FreshType DEF BackendLost, NB!disconnect
<1>8. backends' \in [Fd -> BackendType] /\ NoPendingClose'
  <2> HIDE DEF NB!Fresh
  <2> QED
    BY <1>1, <1>7 DEF TablesType, BackendType, IInv, NoPendingClose
<1>9. TypeOK'
  BY <1>2, <1>5, <1>6, <1>8, TypePartsNext DEF TablesType, ClientType, BackendType, NBType, Byte
<1>10. TodoLive'
  BY <1>4 DEF IInv, TodoLive, EndTurn
<1> QED
  BY <1>4, <1>8, <1>9, <1>10 DEF IInv

-----------------------------------------------------------------------------
(* One lemma per action.                                                   *)

LEMMA InitInv == Init => IInv
<1> SUFFICES ASSUME Init PROVE IInv
  OBVIOUS
<1>1. NoClient \in ClientType /\ NoClient.remoteAddr = NoConn
  BY NewClientType DEF NoClient
<1>2. NoBackend \in BackendType /\ NoBackend.clientAddr = NoConn
  BY NoBackendType
<1>3. LoopType /\ TablesType
  BY <1>1, <1>2 DEF Init, LoopType, TablesType
<1>4. KernelType
  BY DEF Init, KernelType, SocketType, Free, NewEnd, CliType, SrvType, EndType
<1>5. Live(clients) = {} /\ LiveBackends = {} /\ FreeFds = Fd
  BY <1>1, <1>2 DEF Init, Live, LiveBackends, FreeFds
<1>6. \A fd \in Fd : ConnOf(fd) = NoConn /\ sock[fd] = Free
  BY <1>1 DEF Init, ConnOf
<1>7. FdOwnership
  BY <1>5, <1>6, ConnAssumption DEF FdOwnership, Free, Socket
<1>8. SocketsMade /\ TodoLive
  BY <1>6 DEF SocketsMade, TodoLive, Init
<1>9. NoPendingClose
  BY NoBackendType, FreshType DEF NoPendingClose, Init
<1> QED
  BY <1>3, <1>4, <1>7, <1>8, <1>9, TypeParts DEF IInv

LEMMA KernelSame ==
  ASSUME KernelType, UNCHANGED kernel
  PROVE  KernelType'
BY DEF KernelType, kernel, SocketType, CliType, SrvType, EndType, Byte

LEMMA BackendFdRange ==
  ASSUME IInv, NEW fd \in LiveBackends, BackendFd(fd) # NB!NoFd
  PROVE  BackendFd(fd) \in Fd
BY LiveEntry

LEMMA SelectStep == ASSUME IInv, Select PROVE IInv'
<1>1. LoopType /\ KernelType /\ LiveBackends \subseteq Fd
  BY TypeParts DEF IInv, LiveBackends
<1>2. {BackendFd(fd) : fd \in LiveBackends} \subseteq Fd \cup {NB!NoFd}
  BY LiveEntry
<1>3. Live(clients) \subseteq Fd
  BY <1>1 DEF IInv, FdOwnership
<1>4. ReadInterest \subseteq Fd
  BY <1>2, <1>3 DEF ReadInterest
<1>5. WriteInterest \subseteq Fd
  BY <1>1, <1>3, BackendFdRange DEF WriteInterest
<1>6. LoopType'
  BY <1>1, <1>4, <1>5 DEF LoopType, Select, ListenReady
<1>7. TodoLive' /\ UNCHANGED <<tables, sock>> /\ pc' # "stopped"
  BY DEF Select, TodoLive, kernel
<1>8. KernelType'
  BY <1>1, KernelSame DEF Select
<1> QED
  BY <1>6, <1>7, <1>8, QuietStep

LEMMA EnterLoop ==
  ASSUME LoopType, EnterBackends, UNCHANGED <<running, readSet, writeSet, tables>>
  PROVE  LoopType' /\ TodoLive' /\ pc' # "stopped"
<1>1. BackendsToDo \subseteq LiveBackends /\ LiveBackends \subseteq Fd /\ LiveBackends' = LiveBackends
  BY DEF BackendsToDo, LiveBackends, tables
<1> QED
  BY <1>1 DEF LoopType, TodoLive, EnterBackends

LEMMA TickStep == ASSUME IInv, Tick PROVE IInv'
<1>1. LoopType /\ KernelType
  BY TypeParts DEF IInv
<1>2. LoopType' /\ TodoLive' /\ pc' # "stopped"
  <2>1. CASE ListenFd \in readSet
    BY <1>1, <2>1 DEF Tick, LoopType, TodoLive
  <2>2. CASE ListenFd \notin readSet
    BY <1>1, <2>2, EnterLoop DEF Tick
  <2> QED
    BY <2>1, <2>2
<1>3. KernelType' /\ UNCHANGED <<tables, sock>>
  BY <1>1, KernelSame DEF Tick, kernel
<1> QED
  BY <1>2, <1>3, QuietStep

\* The accept loop closes a connection that gets no entry, whoever decides it.
TurnedAway(c) ==
  /\ pc = "accept" /\ c \in Backlog
  /\ cli' = [cli EXCEPT ![c] = ClosedEnd(@)]
  /\ UNCHANGED <<running, loopVars, tables, sock, srv>>

LEMMA DeniedIsTurnedAway == ASSUME NEW c \in Conn, AcceptDenied(c) PROVE TurnedAway(c)
BY DEF AcceptDenied, TurnedAway

LEMMA TurnedAwayStep == ASSUME IInv, NEW c \in Conn, TurnedAway(c) PROVE IInv'
<1>1. LoopType /\ KernelType /\ cli[c] \in CliType
  BY TypeParts DEF IInv, KernelType
<1>2. KernelType'
  BY <1>1, ClosedEndType DEF TurnedAway, KernelType, SocketType, CliType, SrvType, EndType, Byte
<1>3. LoopType' /\ TodoLive' /\ UNCHANGED <<tables, sock>> /\ pc' # "stopped"
  BY <1>1 DEF TurnedAway, LoopType, loopVars, TodoLive
<1> QED
  BY <1>2, <1>3, QuietStep

LEMMA AcceptDoneStep == ASSUME IInv, AcceptDone PROVE IInv'
<1>1. LoopType /\ KernelType
  BY TypeParts DEF IInv
<1>2. LoopType' /\ TodoLive' /\ pc' # "stopped"
  BY <1>1, EnterLoop DEF AcceptDone
<1>3. KernelType' /\ UNCHANGED <<tables, sock>>
  BY <1>1, KernelSame DEF AcceptDone, kernel
<1> QED
  BY <1>2, <1>3, QuietStep

LEMMA BackendsDoneStep == ASSUME IInv, BackendsDone PROVE IInv'
<1>1. LoopType /\ KernelType /\ Live(clients) = LiveBackends /\ LiveBackends \subseteq Fd
  BY TypeParts DEF IInv, FdOwnership, LiveBackends
<1>2. LiveBackends' = LiveBackends
  BY DEF BackendsDone, LiveBackends, tables
<1>3. LoopType' /\ TodoLive' /\ pc' # "stopped"
  BY <1>1, <1>2 DEF BackendsDone, LoopType, TodoLive
<1>4. KernelType' /\ UNCHANGED <<tables, sock>>
  BY <1>1, KernelSame DEF BackendsDone, kernel
<1> QED
  BY <1>3, <1>4, QuietStep

LEMMA ClientsDoneStep == ASSUME IInv, ClientsDone PROVE IInv'
<1>1. LoopType /\ KernelType
  BY TypeParts DEF IInv
<1>2. LoopType' /\ TodoLive' /\ pc' # "stopped"
  BY <1>1 DEF ClientsDone, LoopType, TodoLive
<1>3. KernelType' /\ UNCHANGED <<tables, sock>>
  BY <1>1, KernelSame DEF ClientsDone, kernel
<1> QED
  BY <1>2, <1>3, QuietStep

LEMMA StopStep == ASSUME IInv, stop PROVE IInv'
<1>1. LoopType /\ KernelType
  BY TypeParts DEF IInv
<1>2. LiveBackends' = LiveBackends
  BY DEF stop, LiveBackends, tables
<1>3. LoopType' /\ TodoLive' /\ pc' = pc
  BY <1>1, <1>2 DEF stop, LoopType, TodoLive, loopVars, IInv
<1>4. KernelType' /\ UNCHANGED <<tables, sock>>
  BY <1>1, KernelSame DEF stop, kernel
<1> QED
  BY <1>3, <1>4, QuietStep

\* The clients and the backend act on their own ends of the connections.
LEMMA EnvironmentType == ASSUME KernelType, Environment PROVE KernelType'
<1> SUFFICES ASSUME NEW c \in Conn,
                    \/ ClientConnects(c) \/ ClientSends(c) \/ ClientCloses(c)
                    \/ BackendAnswers(c) \/ BackendSends(c) \/ BackendEnds(c)
             PROVE  KernelType'
  BY DEF Environment
<1>1. cli[c] \in CliType /\ srv[c] \in SrvType
  BY DEF KernelType
<1>2. CASE ClientConnects(c) \/ ClientSends(c) \/ ClientCloses(c)
  <2>1. UNCHANGED <<sock, srv>>
    BY <1>2 DEF ClientConnects, ClientSends, ClientCloses
  <2>2. \E e \in CliType : cli' = [cli EXCEPT ![c] = e]
    <3>1. CASE ClientConnects(c)
      <4>1. [cli[c] EXCEPT !.at = "queued"] \in CliType
        BY <1>1 DEF CliType, EndType
      <4> QED
        BY <3>1, <4>1 DEF ClientConnects
    <3>2. CASE ClientSends(c)
      <4>1. [cli[c] EXCEPT !.sent = @ + 1] \in CliType
        BY <1>1 DEF CliType, EndType
      <4> QED
        BY <3>2, <4>1 DEF ClientSends
    <3>3. CASE ClientCloses(c)
      <4>1. /\ [cli[c] EXCEPT !.peer = "fin"] \in CliType
            /\ [cli[c] EXCEPT !.peer = "rst"] \in CliType
        BY <1>1 DEF CliType, EndType
      <4> QED
        BY <3>3, <4>1 DEF ClientCloses
    <3> QED
      BY <1>2, <3>1, <3>2, <3>3
  <2>3. cli' \in [Conn -> CliType]
    BY <2>2 DEF KernelType
  <2> QED
    BY <2>1, <2>3 DEF KernelType, SocketType, CliType, SrvType, EndType, Byte
<1>3. CASE BackendAnswers(c) \/ BackendSends(c) \/ BackendEnds(c)
  <2>1. UNCHANGED <<sock, cli>>
    BY <1>3 DEF BackendAnswers, BackendSends, BackendEnds
  <2>2. \E e \in SrvType : srv' = [srv EXCEPT ![c] = e]
    <3>1. \A p \in {"up", "refused", "fin", "rst"} : [srv[c] EXCEPT !.peer = p] \in SrvType
      BY <1>1 DEF SrvType, EndType
    <3>2. CASE BackendAnswers(c)
      BY <3>1, <3>2 DEF BackendAnswers
    <3>3. CASE BackendSends(c)
      <4>1. [srv[c] EXCEPT !.sent = @ + 1] \in SrvType
        BY <1>1 DEF SrvType, EndType
      <4> QED
        BY <3>3, <4>1 DEF BackendSends
    <3>4. CASE BackendEnds(c)
      BY <3>1, <3>4 DEF BackendEnds
    <3> QED
      BY <1>3, <3>2, <3>3, <3>4
  <2>3. srv' \in [Conn -> SrvType]
    BY <2>2 DEF KernelType
  <2> QED
    BY <2>1, <2>3 DEF KernelType, SocketType, CliType, SrvType, EndType, Byte
<1> QED
  BY <1>2, <1>3

LEMMA EnvironmentStep == ASSUME IInv, Environment PROVE IInv'
<1>1. LoopType /\ KernelType
  BY TypeParts DEF IInv
<1>2. PICK c \in Conn : \/ ClientConnects(c) \/ ClientSends(c) \/ ClientCloses(c)
                        \/ BackendAnswers(c) \/ BackendSends(c) \/ BackendEnds(c)
  BY DEF Environment
<1>3. UNCHANGED <<running, loopVars, tables, sock>>
  BY <1>2 DEF ClientConnects, ClientSends, ClientCloses, BackendAnswers, BackendSends, BackendEnds
<1>4. LiveBackends' = LiveBackends
  BY <1>3 DEF LiveBackends, tables
<1>5. LoopType' /\ TodoLive' /\ pc' = pc
  BY <1>1, <1>3, <1>4 DEF LoopType, TodoLive, loopVars, IInv
<1>6. KernelType'
  BY <1>1, EnvironmentType
<1>7. UNCHANGED <<tables, sock>>
  BY <1>3
<1> QED
  BY <1>5, <1>6, <1>7, QuietStep

\* What a turn finds: an entry of both tables.
LEMMA TurnEntry ==
  ASSUME IInv, NEW fd \in Fd, BackendTurn(fd) \/ ClientTurn(fd)
  PROVE  /\ fd \in todo /\ fd \in LiveBackends /\ pc \in {"backends", "clients"}
         /\ KernelType /\ TablesType /\ cli \in [Conn -> CliType]
         /\ backends[fd] \in BackendType /\ backends[fd].backend \in NBType
         /\ ~backends[fd].backend.pendingClose
         /\ clients[fd] \in ClientType
         /\ backends[fd].clientAddr \in Conn /\ ConnOf(fd) \in Conn
         /\ ConnOf(fd) = backends[fd].clientAddr
         /\ NB!NoFd \notin readSet \cup writeSet
<1>1. fd \in todo /\ pc \in {"backends", "clients"} /\ fd \in LiveBackends
  BY DEF BackendTurn, ClientTurn, IInv, TodoLive
<1>2. TablesType /\ KernelType /\ LoopType
  BY TypeParts DEF IInv
<1>3. backends[fd] \in BackendType /\ clients[fd] \in ClientType
  BY <1>2 DEF TablesType
<1>4. NB!NoFd \notin readSet \cup writeSet
  BY <1>2, FdAssumption DEF LoopType, NB!NoFd
<1>5. ConnOf(fd) \in Conn /\ ConnOf(fd) = backends[fd].clientAddr
  BY <1>1, LiveEntry
<1> QED
  BY <1>1, <1>2, <1>3, <1>4, <1>5 DEF BackendType, KernelType, IInv, NoPendingClose

LEMMA BackendFailedStep == ASSUME IInv, NEW fd \in Fd, BackendFailed(fd) PROVE IInv'
BY TurnEntry, DisconnectStep DEF BackendFailed, DisconnectClient

LEMMA BackendWriteFailsStep ==
  ASSUME IInv, NEW fd \in Fd, BackendWriteFails(fd) PROVE IInv'
<1>1. BackendTurn(fd) /\ BackendFd(fd) \in writeSet /\ pc = "backends"
  BY DEF BackendWriteFails, WriteHalf, BackendTurn
<1>2. EndTurn(fd) /\ UNCHANGED <<running, pc, readSet, writeSet, clients>> /\ BackendLost(fd)
  BY DEF BackendWriteFails, AfterWriteHalf
<1> QED
  BY <1>1, <1>2, TurnEntry, LostStep

LEMMA BackendReadFailsStep ==
  ASSUME IInv, NEW fd \in Fd, BackendReadFails(fd) PROVE IInv'
<1>1. BackendTurn(fd) /\ BackendFd(fd) \in readSet /\ pc = "backends"
  BY DEF BackendReadFails, ReadHalf, BackendTurn
<1> QED
  BY <1>1, TurnEntry, LostStep DEF BackendReadFails

LEMMA BackendClosesStep == ASSUME IInv, NEW fd \in Fd, BackendCloses(fd) PROVE IInv'
<1>1. BackendTurn(fd) /\ BackendFd(fd) \in readSet /\ pc = "backends"
  BY DEF BackendCloses, ReadHalf, BackendTurn
<1>2. CASE clients[fd].sendQueue # <<>>
  BY <1>1, <1>2, TurnEntry, LostStep DEF BackendCloses
<1>3. CASE clients[fd].sendQueue = <<>>
  BY <1>1, <1>3, TurnEntry, DisconnectStep DEF BackendCloses, DisconnectClient
<1> QED
  BY <1>2, <1>3

LEMMA ClientReadEndsStep == ASSUME IInv, NEW fd \in Fd, ClientReadEnds(fd) PROVE IInv'
<1>1. ClientTurn(fd)
  BY DEF ClientReadEnds, ClientReadHalf
<1> QED
  BY <1>1, TurnEntry, DisconnectStep DEF ClientReadEnds, DisconnectClient

LEMMA ClientWriteFailsStep == ASSUME IInv, NEW fd \in Fd, ClientWriteFails(fd) PROVE IInv'
<1>1. ClientTurn(fd)
  BY DEF ClientWriteFails, ClientWriteHalf
<1> QED
  BY <1>1, TurnEntry, DisconnectStep DEF ClientWriteFails, DisconnectClient

\* A turn that changes its own entry of backends.
LEMMA EntryChange ==
  ASSUME backends \in [Fd -> BackendType], NEW fd \in Fd,
         NEW b \in NBType, b.fd = BackendFd(fd),
         b.pendingClose = backends[fd].backend.pendingClose,
         NEW p \in Seq(Byte),
         \/ backends' = [backends EXCEPT ![fd].backend = b]
         \/ backends' = [backends EXCEPT ![fd].pendingData = p]
         \/ backends' = [backends EXCEPT ![fd].backend = b, ![fd].pendingData = p]
         \/ backends' = backends
  PROVE  /\ backends' \in [Fd -> BackendType]
         /\ \A g \in Fd :
              /\ backends'[g].clientAddr = backends[g].clientAddr
              /\ backends'[g].backend.fd = backends[g].backend.fd
              /\ backends'[g].backend.pendingClose = backends[g].backend.pendingClose
<1>1. CASE backends' = [backends EXCEPT ![fd].backend = b]
  BY <1>1 DEF BackendType, BackendFd
<1>2. CASE backends' = [backends EXCEPT ![fd].pendingData = p]
  BY <1>2 DEF BackendType, BackendFd
<1>3. CASE backends' = [backends EXCEPT ![fd].backend = b, ![fd].pendingData = p]
  <2> DEFINE e == [backend |-> b, clientAddr |-> backends[fd].clientAddr, pendingData |-> p]
  <2>1. backends[fd] \in BackendType
    OBVIOUS
  <2>2. e \in BackendType
    BY <2>1 DEF BackendType
  <2>3. backends'[fd] = e /\ \A g \in Fd : g # fd => backends'[g] = backends[g]
    BY <1>3, <2>1 DEF BackendType
  <2>4. backends' = [backends EXCEPT ![fd] = backends'[fd]]
    BY <1>3
  <2>5. backends' = [backends EXCEPT ![fd] = e]
    BY <2>3, <2>4
  <2>6. backends' \in [Fd -> BackendType]
    BY <2>2, <2>5
  <2>7. /\ backends'[fd].clientAddr = backends[fd].clientAddr
        /\ backends'[fd].backend.fd = backends[fd].backend.fd
        /\ backends'[fd].backend.pendingClose = backends[fd].backend.pendingClose
    BY <2>3 DEF BackendFd
  <2> HIDE DEF e
  <2> QED
    BY <2>3, <2>6, <2>7
<1>4. CASE backends' = backends
  BY <1>4
<1> QED
  BY <1>1, <1>2, <1>3, <1>4

\* What goes to a client's queue.
LEMMA QueueType ==
  ASSUME clients \in [Fd -> ClientType], NEW fd \in Fd, NEW data \in Seq(Byte)
  PROVE  LET r == sendToClient(clients, fd, data)
         IN  /\ r \in [Fd -> ClientType]
             /\ \A g \in Fd : r[g].remoteAddr = clients[g].remoteAddr
<1>1. clients[fd].sendQueue \o data \in Seq(Byte)
  BY DEF ClientType
<1> DEFINE r == [clients EXCEPT ![fd].sendQueue = @ \o data]
<1>2. r \in [Fd -> ClientType] /\ \A g \in Fd : r[g].remoteAddr = clients[g].remoteAddr
  BY <1>1 DEF ClientType
<1> HIDE DEF r
<1>3. sendToClient(clients, fd, data) \in {r, clients}
  BY DEF sendToClient, r
<1> QED
  BY <1>2, <1>3

\* How the ends of a connection change when bytes move.
LEMMA EndsType ==
  ASSUME KernelType, NEW c \in Conn, NEW n \in Nat, NEW data \in Seq(Byte)
  PROVE  /\ [cli EXCEPT ![c].read = @ + n] \in [Conn -> CliType]
         /\ [cli EXCEPT ![c].out = @ \o data] \in [Conn -> CliType]
         /\ [srv EXCEPT ![c].read = @ + n] \in [Conn -> SrvType]
         /\ [srv EXCEPT ![c].out = @ \o data] \in [Conn -> SrvType]
<1>1. cli \in [Conn -> CliType] /\ srv \in [Conn -> SrvType]
  BY DEF KernelType
<1>2. cli[c].out \o data \in Seq(Byte) /\ srv[c].out \o data \in Seq(Byte)
  BY <1>1 DEF CliType, SrvType, EndType
<1>3. cli[c].read + n \in Nat /\ srv[c].read + n \in Nat
  BY <1>1 DEF CliType, SrvType, EndType
<1>4. /\ [cli[c] EXCEPT !.read = @ + n] \in CliType
      /\ [cli[c] EXCEPT !.out = @ \o data] \in CliType
  BY <1>1, <1>2, <1>3 DEF CliType, EndType
<1>5. /\ [srv[c] EXCEPT !.read = @ + n] \in SrvType
      /\ [srv[c] EXCEPT !.out = @ \o data] \in SrvType
  BY <1>1, <1>2, <1>3 DEF SrvType, EndType
<1> QED
  BY <1>1, <1>4, <1>5

\* The kernel after a step that leaves it with well-formed parts.
LEMMA KernelNext ==
  ASSUME KernelType, UNCHANGED sock,
         cli' = cli \/ cli' \in [Conn -> CliType],
         srv' = srv \/ srv' \in [Conn -> SrvType]
  PROVE  KernelType'
BY DEF KernelType, SocketType, CliType, SrvType, EndType, Byte

LEMMA BackendConnectedStep ==
  ASSUME IInv, NEW fd \in Fd, BackendConnected(fd) PROVE IInv'
<1> DEFINE b == backends[fd].backend
           d == NB!send(NB!completeConnect(b, FALSE), backends[fd].pendingData)
<1>1. BackendTurn(fd)
  BY DEF BackendConnected, WriteHalf
<1>2. /\ UNCHANGED <<running, pc, readSet, writeSet, clients, kernel>>
      /\ AfterWriteHalf(fd, TRUE)
      /\ backends' = [backends EXCEPT ![fd].backend = d, ![fd].pendingData = <<>>]
  BY DEF BackendConnected
<1>3. /\ TablesType /\ KernelType /\ b \in NBType
      /\ backends[fd] \in BackendType /\ backends[fd].pendingData \in Seq(Byte)
  BY <1>1, TurnEntry DEF BackendType
<1>4. d \in NBType /\ d.fd = b.fd /\ d.pendingClose = b.pendingClose
  BY <1>3, CompleteConnectType, SendType
<1> HIDE DEF d
<1>5. /\ backends' \in [Fd -> BackendType]
      /\ \A g \in Fd :
           /\ backends'[g].clientAddr = backends[g].clientAddr
           /\ backends'[g].backend.fd = backends[g].backend.fd
           /\ backends'[g].backend.pendingClose = backends[g].backend.pendingClose
  <2>1. <<>> \in Seq(Byte)
    OBVIOUS
  <2> QED
    BY <1>2, <1>3, <1>4, <2>1, EntryChange DEF TablesType, BackendFd
<1>6. KernelType' /\ UNCHANGED sock /\ clients' \in [Fd -> ClientType]
  BY <1>2, <1>3, KernelSame DEF kernel, TablesType
<1>7. EndTurn(fd) \/ (cur' = fd /\ UNCHANGED todo)
  BY <1>2 DEF AfterWriteHalf
<1> QED
  BY <1>1, <1>2, <1>5, <1>6, <1>7, TurnEntry, TurnStep

LEMMA BackendWritesStep == ASSUME IInv, NEW fd \in Fd, BackendWrites(fd) PROVE IInv'
<1> DEFINE b == backends[fd].backend
           c == backends[fd].clientAddr
<1>1. BackendTurn(fd)
  BY DEF BackendWrites, WriteHalf
<1>2. /\ UNCHANGED <<running, pc, readSet, writeSet, clients, sock, cli>>
      /\ AfterWriteHalf(fd, TRUE)
  BY DEF BackendWrites
<1>3. PICK n \in 1..Len(b.sendQueue) :
        /\ backends' = [backends EXCEPT ![fd].backend = NB!wrote(b, n)]
        /\ srv' = [srv EXCEPT ![c].out = @ \o SubSeq(b.sendQueue, 1, n)]
  BY DEF BackendWrites
<1>4. /\ TablesType /\ KernelType /\ b \in NBType /\ c \in Conn /\ ~b.pendingClose
  BY <1>1, TurnEntry
<1>5. LET d == NB!wrote(b, n)
      IN  d \in NBType /\ d.fd = b.fd /\ d.pendingClose = b.pendingClose
  BY <1>4, WroteType
<1>6. SubSeq(b.sendQueue, 1, n) \in Seq(Byte)
  BY <1>4, PartsType DEF NBType
<1>7. srv' \in [Conn -> SrvType]
  BY <1>3, <1>4, <1>6, EndsType
<1>8. KernelType' /\ clients' \in [Fd -> ClientType]
  BY <1>2, <1>4, <1>7, KernelNext DEF TablesType
<1>9. /\ backends' \in [Fd -> BackendType]
      /\ \A g \in Fd :
           /\ backends'[g].clientAddr = backends[g].clientAddr
           /\ backends'[g].backend.fd = backends[g].backend.fd
           /\ backends'[g].backend.pendingClose = backends[g].backend.pendingClose
  BY <1>3, <1>4, <1>5, EntryChange, EmptySeq DEF TablesType, BackendFd
<1>10. EndTurn(fd) \/ (cur' = fd /\ UNCHANGED todo)
  BY <1>2 DEF AfterWriteHalf
<1> QED
  BY <1>1, <1>2, <1>8, <1>9, <1>10, TurnEntry, TurnStep

LEMMA BackendReadsStep == ASSUME IInv, NEW fd \in Fd, BackendReads(fd) PROVE IInv'
<1> DEFINE b == backends[fd].backend
           c == backends[fd].clientAddr
           got(n) == NB!received(b, Stream(c, "down", srv[c].read, srv[c].read + n))
           left(n) == NB!consumeReceived(got(n), Len(got(n).recvBuf))
<1>1. BackendTurn(fd)
  BY DEF BackendReads, ReadHalf
<1>2. UNCHANGED <<running, pc, readSet, writeSet, sock, cli>> /\ EndTurn(fd)
  BY DEF BackendReads
<1>3. PICK n \in 1..(srv[c].sent - srv[c].read) :
        /\ srv' = [srv EXCEPT ![c].read = @ + n]
        /\ clients' = forward(fd, got(n).recvBuf)
        /\ backends' = [backends EXCEPT ![fd].backend = left(n)]
  BY DEF BackendReads
<1>4. /\ TablesType /\ KernelType /\ b \in NBType /\ c \in Conn /\ ~b.pendingClose
  BY <1>1, TurnEntry
<1>5. srv[c].read \in Nat /\ n \in Nat
  BY <1>4 DEF KernelType, SrvType, EndType
<1>6. Stream(c, "down", srv[c].read, srv[c].read + n) \in Seq(Byte)
  BY <1>4, <1>5, StreamType
<1>7. got(n) \in NBType /\ got(n).fd = b.fd /\ got(n).pendingClose = b.pendingClose
  BY <1>4, <1>6, ReceivedType
<1> HIDE DEF got
<1>8. left(n) \in NBType /\ left(n).fd = b.fd /\ left(n).pendingClose = b.pendingClose
  BY <1>7, ConsumeAllType
<1>9. got(n).recvBuf \in Seq(Byte)
  BY <1>7 DEF NBType
<1> HIDE DEF left
<1>10. /\ clients' \in [Fd -> ClientType]
       /\ \A g \in Fd : clients'[g].remoteAddr = clients[g].remoteAddr
  BY <1>3, <1>4, <1>9, QueueType DEF forward, TablesType
<1>11. /\ backends' \in [Fd -> BackendType]
       /\ \A g \in Fd :
            /\ backends'[g].clientAddr = backends[g].clientAddr
            /\ backends'[g].backend.fd = backends[g].backend.fd
            /\ backends'[g].backend.pendingClose = backends[g].backend.pendingClose
  BY <1>3, <1>4, <1>8, <1>9, EntryChange DEF TablesType, BackendFd
<1>12. srv' \in [Conn -> SrvType]
  <2>1. <<>> \in Seq(Byte)
    OBVIOUS
  <2> QED
    BY <1>3, <1>4, <1>5, <2>1, EndsType
<1>13. KernelType'
  BY <1>2, <1>4, <1>12, KernelNext
<1> QED
  BY <1>1, <1>2, <1>10, <1>11, <1>13, TurnEntry, TurnStep

\* Where the data of a client goes.
LEMMA RawDataChange ==
  ASSUME backends \in [Fd -> BackendType], NEW fd \in Fd, NEW buf \in Seq(Byte),
         backends' = onRawData(fd, buf)
  PROVE  /\ backends' \in [Fd -> BackendType]
         /\ \A g \in Fd :
              /\ backends'[g].clientAddr = backends[g].clientAddr
              /\ backends'[g].backend.fd = backends[g].backend.fd
              /\ backends'[g].backend.pendingClose = backends[g].backend.pendingClose
<1> DEFINE b == backends[fd].backend
           d == NB!send(b, buf)
           p == backends[fd].pendingData \o buf
<1>1. b \in NBType /\ backends[fd].pendingData \in Seq(Byte)
  BY DEF BackendType
<1>2. d \in NBType /\ d.fd = b.fd /\ d.pendingClose = b.pendingClose
  BY <1>1, SendType
<1>3. p \in Seq(Byte)
  BY <1>1
<1>4. \/ backends' = [backends EXCEPT ![fd].backend = d]
      \/ backends' = [backends EXCEPT ![fd].pendingData = p]
      \/ backends' = backends
  <2> HIDE DEF d
  <2>1. \/ backends' = [backends EXCEPT ![fd].backend = NB!send(b, buf)]
        \/ backends' = [backends EXCEPT ![fd].pendingData = @ \o buf]
        \/ backends' = backends
    BY <1>1 DEF onRawData, NBType
  <2> QED
    BY <2>1 DEF d
<1> HIDE DEF d, p
<1> QED
  BY <1>2, <1>3, <1>4, EntryChange DEF BackendFd

LEMMA ClientReadsStep == ASSUME IInv, NEW fd \in Fd, ClientReads(fd) PROVE IInv'
<1> DEFINE c == ConnOf(fd)
           data(n) == Stream(c, "up", cli[c].read, cli[c].read + n)
           got(n) == received(clients, fd, data(n))
<1>1. ClientTurn(fd)
  BY DEF ClientReads, ClientReadHalf
<1>2. /\ UNCHANGED <<running, pc, readSet, writeSet, sock, srv>>
      /\ EndTurn(fd) \/ (cur' = fd /\ UNCHANGED todo)
  BY DEF ClientReads
<1>3. PICK n \in 1..(cli[c].sent - cli[c].read) :
        /\ cli' = [cli EXCEPT ![c].read = @ + n]
        /\ backends' = onRawData(fd, got(n)[fd].recvBuf)
        /\ clients' = [got(n) EXCEPT ![fd].recvBuf = <<>>]
  BY DEF ClientReads
<1>4. TablesType /\ KernelType /\ c \in Conn
  BY <1>1, TurnEntry
<1>5. cli[c].read \in Nat /\ n \in Nat
  BY <1>4 DEF KernelType, CliType, EndType
<1>6. data(n) \in Seq(Byte)
  BY <1>4, <1>5, StreamType
<1>7. /\ got(n) \in [Fd -> ClientType]
      /\ \A g \in Fd : got(n)[g].remoteAddr = clients[g].remoteAddr
  <2> HIDE DEF data
  <2>1. clients \in [Fd -> ClientType]
    BY <1>4 DEF TablesType
  <2>2. clients[fd].recvBuf \o data(n) \in Seq(Byte)
    BY <1>6, <2>1 DEF ClientType
  <2>3. got(n) = [clients EXCEPT ![fd].recvBuf = @ \o data(n)]
    BY DEF received
  <2>4. [clients[fd] EXCEPT !.recvBuf = @ \o data(n)] \in ClientType
    BY <2>1, <2>2 DEF ClientType
  <2> QED
    BY <2>1, <2>3, <2>4 DEF ClientType
<1> HIDE DEF got
<1>8. /\ clients' \in [Fd -> ClientType]
      /\ \A g \in Fd : clients'[g].remoteAddr = clients[g].remoteAddr
  <2>1. <<>> \in Seq(Byte)
    OBVIOUS
  <2>2. /\ clients' = [got(n) EXCEPT ![fd].recvBuf = <<>>]
        /\ got(n)[fd] \in ClientType
    BY <1>3, <1>7
  <2>3. [got(n)[fd] EXCEPT !.recvBuf = <<>>] \in ClientType
    BY <2>1, <2>2 DEF ClientType
  <2>4. clients' \in [Fd -> ClientType]
    BY <1>7, <2>2, <2>3
  <2>5. \A g \in Fd : clients'[g].remoteAddr = got(n)[g].remoteAddr
    BY <1>7, <2>2 DEF ClientType
  <2> QED
    BY <1>7, <2>4, <2>5
<1>9. got(n)[fd].recvBuf \in Seq(Byte)
  BY <1>7 DEF ClientType
<1>10. /\ backends' \in [Fd -> BackendType]
       /\ \A g \in Fd :
            /\ backends'[g].clientAddr = backends[g].clientAddr
            /\ backends'[g].backend.fd = backends[g].backend.fd
            /\ backends'[g].backend.pendingClose = backends[g].backend.pendingClose
  BY <1>3, <1>4, <1>9, RawDataChange DEF TablesType
<1>11. cli' \in [Conn -> CliType]
  BY <1>3, <1>4, <1>5, <1>9, EndsType
<1>12. KernelType'
  BY <1>2, <1>4, <1>11, KernelNext
<1> QED
  BY <1>1, <1>2, <1>8, <1>10, <1>12, TurnEntry, TurnStep

LEMMA ClientWritesStep == ASSUME IInv, NEW fd \in Fd, ClientWrites(fd) PROVE IInv'
<1> DEFINE c == ConnOf(fd)
           st == clients[fd]
           ends(n) == [cli EXCEPT ![c].out = @ \o SubSeq(st.sendQueue, 1, n)]
<1>1. ClientTurn(fd)
  BY DEF ClientWrites, ClientWriteHalf
<1>2. UNCHANGED <<running, pc, readSet, writeSet>> /\ EndTurn(fd)
  BY DEF ClientWrites
<1>3. PICK n \in 1..Len(st.sendQueue) :
        \/ DisconnectClientWith(fd, ends(n))
        \/ /\ clients' = wrote(clients, fd, n)
           /\ cli' = ends(n)
           /\ UNCHANGED <<backends, sock, srv>>
  BY DEF ClientWrites
<1>4. TablesType /\ KernelType /\ c \in Conn /\ st \in ClientType
  BY <1>1, TurnEntry
<1>5. /\ SubSeq(st.sendQueue, 1, n) \in Seq(Byte)
      /\ SubSeq(st.sendQueue, n + 1, Len(st.sendQueue)) \in Seq(Byte)
  BY <1>4, PartsType DEF ClientType
<1>6. ends(n) \in [Conn -> CliType]
  BY <1>4, <1>5, EndsType
<1> HIDE DEF ends
<1>7. CASE DisconnectClientWith(fd, ends(n))
  BY <1>1, <1>2, <1>6, <1>7, TurnEntry, DisconnectStep
<1>8. CASE /\ clients' = wrote(clients, fd, n)
           /\ cli' = ends(n)
           /\ UNCHANGED <<backends, sock, srv>>
  <2>1. clients \in [Fd -> ClientType] /\ backends' \in [Fd -> BackendType]
    BY <1>4, <1>8 DEF TablesType
  <2>2. clients' = [clients EXCEPT ![fd].sendQueue =
                      SubSeq(st.sendQueue, n + 1, Len(st.sendQueue))]
    BY <1>8, <2>1 DEF wrote
  <2>3. /\ clients' \in [Fd -> ClientType]
        /\ \A g \in Fd : clients'[g].remoteAddr = clients[g].remoteAddr
    BY <1>5, <2>1, <2>2 DEF ClientType
  <2>4. KernelType'
    BY <1>4, <1>6, <1>8, KernelNext
  <2> QED
    BY <1>1, <1>2, <1>8, <2>1, <2>3, <2>4, TurnEntry, TurnStep
<1> QED
  BY <1>3, <1>7, <1>8

\* accept(): a new entry in both tables, with the descriptors the kernel gave.
LEMMA AcceptOwners ==
  ASSUME IInv, NEW c \in Conn, NEW fd \in FreeFds,
         NEW b \in (FreeFds \ {fd}) \cup {NB!NoFd},
         NEW e \in BackendType, e.clientAddr = c, e.backend.fd = b,
         clients' = [clients EXCEPT ![fd] = NewClient(c)],
         backends' = [backends EXCEPT ![fd] = e],
         sock'[fd] = Socket("client", c),
         \A g \in Fd : g # fd => sock'[g] = IF g = b THEN Socket("backend", c) ELSE sock[g],
         pc' # "stopped"
  PROVE  /\ (FdOwnership /\ SocketsMade)'
         /\ LiveBackends' = LiveBackends \cup {fd}
<1>1. /\ fd \in Fd /\ sock[fd] = Free /\ b # fd
      /\ b \in Fd => sock[b] = Free
      /\ b \in Fd \cup {NB!NoFd}
  BY NoFdNotInFd DEF FreeFds
<1>2. /\ clients \in [Fd -> ClientType] /\ backends \in [Fd -> BackendType]
      /\ LiveBackends \subseteq Fd /\ Live(clients) = LiveBackends
  BY TypeParts DEF IInv, TablesType, LiveBackends, FdOwnership
<1>3. /\ clients'[fd].remoteAddr = c /\ backends'[fd] = e
      /\ \A g \in Fd : g # fd => clients'[g] = clients[g] /\ backends'[g] = backends[g]
  BY <1>1, <1>2, NewClientType
<1>4. c # NoConn
  BY ConnAssumption
<1>5. fd \notin LiveBackends
  <2>1. \A d : Free # Socket("client", d)
    BY DEF Free, Socket
  <2> QED
    BY <1>1, <2>1, LiveEntry
<1>6. \A f \in LiveBackends : BackendFd(f) = NB!NoFd \/ BackendFd(f) \notin {fd, b}
  <2>1. \A d : Free # Socket("backend", d)
    BY DEF Free, Socket
  <2> QED
    BY <1>1, <2>1, LiveEntry
<1>7. /\ LiveBackends' = LiveBackends \cup {fd}
      /\ Live(clients)' = Live(clients) \cup {fd}
  BY <1>1, <1>2, <1>3, <1>4 DEF Live, LiveBackends
<1>8. /\ \A f \in LiveBackends : /\ BackendFd(f)' = BackendFd(f)
                                 /\ backends'[f].clientAddr = backends[f].clientAddr
      /\ BackendFd(fd)' = b /\ backends'[fd].clientAddr = c
  BY <1>2, <1>3, <1>5 DEF BackendFd
<1>9. \A g \in LiveBackends' : ConnOf(g)' = backends'[g].clientAddr
  <2>1. \A g \in LiveBackends : ConnOf(g)' = ConnOf(g) /\ ConnOf(g) = backends[g].clientAddr
    BY <1>2, <1>3, <1>5 DEF ConnOf, IInv, FdOwnership
  <2>2. ConnOf(fd)' = c
    BY <1>3 DEF ConnOf
  <2> QED
    BY <1>7, <1>8, <2>1, <2>2
<1>10. ASSUME NEW g \in Fd, NEW d \in Conn
       PROVE  sock'[g] = Socket("client", d) <=> ConnOf(g)' = d
  <2>1. CASE g = fd
    BY <1>1, <1>3, <2>1 DEF ConnOf, Socket
  <2>2. CASE g = b
    <3>1. g # fd /\ sock'[g] # Socket("client", d)
      BY <1>1, <2>2 DEF Socket
    <3>2. ConnOf(g) # d /\ ConnOf(g)' = ConnOf(g)
      BY <1>1, <1>3, <2>2, <3>1 DEF IInv, FdOwnership, ConnOf, Free, Socket
    <3> QED
      BY <3>1, <3>2
  <2>3. CASE g # fd /\ g # b
    <3>1. sock'[g] = sock[g] /\ ConnOf(g)' = ConnOf(g)
      BY <1>3, <2>3 DEF ConnOf
    <3> QED
      BY <3>1 DEF IInv, FdOwnership
  <2> QED
    BY <2>1, <2>2, <2>3
<1>11. ASSUME NEW g \in Fd, NEW d \in Conn
       PROVE  sock'[g] = Socket("backend", d) <=>
                \E f \in LiveBackends' : BackendFd(f)' = g /\ backends'[f].clientAddr = d
  <2>1. g # NB!NoFd
    BY NoFdNotInFd
  <2>2. CASE g = fd
    <3>1. sock'[g] # Socket("backend", d)
      BY <2>2 DEF Socket
    <3> QED
      BY <1>1, <1>6, <1>7, <1>8, <2>1, <2>2, <3>1
  <2>3. CASE g = b
    <3>1. sock'[g] = Socket("backend", c)
      BY <1>1, <2>3
    <3>2. sock'[g] = Socket("backend", d) <=> c = d
      BY <3>1 DEF Socket
    <3>3. \A f \in LiveBackends' : BackendFd(f)' = g <=> f = fd
      BY <1>6, <1>7, <1>8, <2>1, <2>3
    <3> QED
      BY <1>7, <1>8, <3>2, <3>3
  <2>4. CASE g # fd /\ g # b
    <3>1. sock'[g] = sock[g]
      BY <2>4
    <3>2. sock[g] = Socket("backend", d) <=>
            \E f \in LiveBackends : BackendFd(f) = g /\ backends[f].clientAddr = d
      BY DEF IInv, FdOwnership
    <3>3. BackendFd(fd)' # g
      BY <1>8, <2>4
    <3> QED
      BY <1>7, <1>8, <3>1, <3>2, <3>3
  <2> QED
    BY <2>2, <2>3, <2>4
<1>12. \A f, g \in LiveBackends' :
         BackendFd(f)' = BackendFd(g)' /\ f # g => BackendFd(f)' = NB!NoFd
  <2>1. \A f, g \in LiveBackends :
          BackendFd(f) = BackendFd(g) /\ f # g => BackendFd(f) = NB!NoFd
    BY DEF IInv, FdOwnership
  <2> QED
    BY <1>6, <1>7, <1>8, <2>1
<1>13. SocketsMade'
  BY DEF IInv, SocketsMade
<1> QED
  BY <1>2, <1>7, <1>9, <1>10, <1>11, <1>12, <1>13 DEF FdOwnership

\* What is left to show of a step that accepts.
LEMMA AcceptedStep ==
  ASSUME IInv, NEW c \in Conn, NEW fd \in FreeFds,
         NEW b \in (FreeFds \ {fd}) \cup {NB!NoFd},
         NEW nb \in NBType, nb.fd = b, ~nb.pendingClose,
         clients' = [clients EXCEPT ![fd] = NewClient(c)],
         backends' = [backends EXCEPT ![fd] = NewBackend(nb, c)],
         sock'[fd] = Socket("client", c),
         \A g \in Fd : g # fd => sock'[g] = IF g = b THEN Socket("backend", c) ELSE sock[g],
         KernelType', UNCHANGED <<running, loopVars>>, pc = "accept"
  PROVE  IInv'
<1>1. LoopType /\ TablesType /\ fd \in Fd
  BY TypeParts DEF IInv, FreeFds
<1>2. LoopType' /\ TodoLive' /\ pc' # "stopped"
  BY <1>1 DEF LoopType, loopVars, TodoLive
<1> DEFINE e == NewBackend(nb, c)
<1>3. e \in BackendType /\ e.clientAddr = c /\ e.backend = nb
  <2>1. <<>> \in Seq(Byte)
    OBVIOUS
  <2> QED
    BY <2>1 DEF NewBackend, BackendType
<1> HIDE DEF e
<1>4. backends' = [backends EXCEPT ![fd] = e]
  BY DEF e
<1>5. (FdOwnership /\ SocketsMade)'
  <2>1. e.backend.fd = b
    BY <1>3
  <2>2. e \in BackendType /\ e.clientAddr = c
    BY <1>3
  <2>3. \A g \in Fd : g # fd => sock'[g] = IF g = b THEN Socket("backend", c) ELSE sock[g]
    OBVIOUS
  <2>4. sock'[fd] = Socket("client", c) /\ clients' = [clients EXCEPT ![fd] = NewClient(c)]
    OBVIOUS
  <2>5. pc' # "stopped"
    BY <1>2
  <2> QED
    BY ONLY IInv, c \in Conn, fd \in FreeFds, b \in (FreeFds \ {fd}) \cup {NB!NoFd},
      <1>4, <2>1, <2>2, <2>3, <2>4, <2>5, AcceptOwners
<1>6. clients' \in [Fd -> ClientType] /\ backends' \in [Fd -> BackendType]
  BY <1>1, <1>3, <1>4, NewClientType DEF TablesType
<1>7. TypeOK'
  BY <1>2, <1>6, TypePartsNext DEF TablesType, ClientType, BackendType, NBType, Byte
<1>8. NoPendingClose'
  BY <1>1, <1>3, <1>4 DEF IInv, NoPendingClose, TablesType
<1> QED
  BY <1>2, <1>5, <1>7, <1>8 DEF IInv

LEMMA AcceptClientStep == ASSUME IInv, NEW c \in Conn, AcceptClient(c) PROVE IInv'
<1>1. /\ pc = "accept" /\ UNCHANGED <<running, loopVars>>
      /\ KernelType
  BY TypeParts DEF AcceptClient, Admit, IInv
<1>2. PICK fd \in FreeFds :
       /\ IsLowest(fd, FreeFds)
       /\ clients' = [clients EXCEPT ![fd] = NewClient(c)]
       /\ cli' = [cli EXCEPT ![c].at = "open"]
       /\ \/ /\ backends' = [backends EXCEPT ![fd] =
                  NewBackend(NB!connect(NB!Fresh, "failed", NB!NoFd), c)]
             /\ sock' = [sock EXCEPT ![fd] = Socket("client", c)]
             /\ UNCHANGED srv
          \/ \E b \in FreeFds \ {fd}, outcome \in {"inprogress", "immediate"} :
               /\ IsLowest(b, FreeFds \ {fd})
               /\ backends' = [backends EXCEPT ![fd] =
                    NewBackend(NB!connect(NB!Fresh, outcome, b), c)]
               /\ sock' = [sock EXCEPT ![fd] = Socket("client", c),
                                       ![b] = Socket("backend", c)]
               /\ srv' = [srv EXCEPT ![c] =
                    NewEnd("open", IF outcome = "immediate" THEN "up" ELSE "syn")]
  BY Zenon DEF AcceptClient, Admit
<1>3. /\ sock \in [Fd -> SocketType] /\ srv \in [Conn -> SrvType]
      /\ cli \in [Conn -> CliType] /\ fd \in Fd
  BY <1>1 DEF KernelType, FreeFds
<1>4. cli' \in [Conn -> CliType]
  <2>1. [cli[c] EXCEPT !.at = "open"] \in CliType
    BY <1>3 DEF CliType, EndType
  <2> QED
    BY <1>2, <1>3, <2>1
<1>5. Socket("client", c) \in SocketType /\ Socket("backend", c) \in SocketType
  BY DEF Socket, SocketType
<1> HIDE DEF NB!Fresh
<1>6. clients' = [clients EXCEPT ![fd] = NewClient(c)]
  BY <1>2
<1>7. pc = "accept" /\ UNCHANGED <<running, loopVars>>
  BY <1>1
<1>8. CASE /\ backends' = [backends EXCEPT ![fd] =
                NewBackend(NB!connect(NB!Fresh, "failed", NB!NoFd), c)]
           /\ sock' = [sock EXCEPT ![fd] = Socket("client", c)]
           /\ UNCHANGED srv
  <2>1. backends' = [backends EXCEPT ![fd] = NewBackend(NB!Fresh, c)]
    BY <1>8, ConnectType
  <2>2. KernelType'
    BY <1>3, <1>4, <1>5, <1>8 DEF KernelType, SocketType, CliType, SrvType, EndType, Byte
  <2>3. /\ sock'[fd] = Socket("client", c)
        /\ \A g \in Fd : g # fd =>
             sock'[g] = IF g = NB!NoFd THEN Socket("backend", c) ELSE sock[g]
    BY <1>3, <1>8, NoFdNotInFd
  <2>4. ASSUME NEW nb \in NBType, nb = NB!Fresh, NEW b \in {NB!NoFd} PROVE IInv'
    <3>1. nb.fd = b /\ ~nb.pendingClose
      BY <2>4, FreshType
    <3>2. /\ sock'[fd] = Socket("client", c)
          /\ \A g \in Fd : g # fd =>
               sock'[g] = IF g = b THEN Socket("backend", c) ELSE sock[g]
      BY <2>3
    <3>3. backends' = [backends EXCEPT ![fd] = NewBackend(nb, c)]
      BY <2>1, <2>4
    <3>4. b \in (FreeFds \ {fd}) \cup {NB!NoFd}
      OBVIOUS
    <3> QED
      BY ONLY IInv, <1>6, <1>7, <2>2, <3>1, <3>2, <3>3, <3>4, AcceptedStep
  <2> QED
    BY <2>4, FreshType
<1>9. ASSUME NEW b \in FreeFds \ {fd}, NEW outcome \in {"inprogress", "immediate"},
             backends' = [backends EXCEPT ![fd] =
               NewBackend(NB!connect(NB!Fresh, outcome, b), c)],
             sock' = [sock EXCEPT ![fd] = Socket("client", c), ![b] = Socket("backend", c)],
             srv' = [srv EXCEPT ![c] =
               NewEnd("open", IF outcome = "immediate" THEN "up" ELSE "syn")]
      PROVE  IInv'
  <2> DEFINE nb == NB!connect(NB!Fresh, outcome, b)
  <2>1. b \in Fd /\ b # fd
    BY DEF FreeFds
  <2>2. nb \in NBType /\ nb.fd = b /\ ~nb.pendingClose
    BY <2>1, ConnectType
  <2> HIDE DEF nb
  <2>3. backends' = [backends EXCEPT ![fd] = NewBackend(nb, c)]
    BY <1>9 DEF nb
  <2>4. /\ sock'[fd] = Socket("client", c)
        /\ \A g \in Fd : g # fd =>
             sock'[g] = IF g = b THEN Socket("backend", c) ELSE sock[g]
    BY <1>3, <1>9, <2>1
  <2>5. sock' \in [Fd -> SocketType]
    BY <1>3, <1>5, <1>9
  <2>6. srv' \in [Conn -> SrvType]
    <3>1. NewEnd("open", IF outcome = "immediate" THEN "up" ELSE "syn") \in SrvType
      <4>1. \A p \in {"up", "syn"} : NewEnd("open", p) \in SrvType
        BY DEF NewEnd, SrvType, EndType
      <4> QED
        BY <4>1
    <3> QED
      BY <1>3, <1>9, <3>1
  <2>7. KernelType'
    BY <1>4, <2>5, <2>6 DEF KernelType, SocketType, CliType, SrvType, EndType, Byte
  <2>8. b \in (FreeFds \ {fd}) \cup {NB!NoFd}
    OBVIOUS
  <2> QED
    BY ONLY IInv, c \in Conn, fd \in FreeFds, <1>6, <1>7, <2>2, <2>3, <2>4, <2>7, <2>8,
      AcceptedStep
<1> QED
  BY <1>2, <1>8, <1>9

\* Everything is closed: by cleanup(), or because the process ends.
LEMMA CloseAll ==
  ASSUME TablesType, KernelType, SocketsMade,
         \A fd \in Fd : \A c \in Conn : sock[fd] = Socket("client", c) => ConnOf(fd) = c,
         \A fd \in Fd : \A c \in Conn :
           sock[fd] = Socket("backend", c) => \E f \in LiveBackends : BackendFd(f) = fd,
         clients' = [fd \in Fd |-> NoClient], backends' = [fd \in Fd |-> NoBackend],
         Close((Live(clients) \cup {BackendFd(fd) : fd \in LiveBackends}) \ {NB!NoFd})
  PROVE  /\ (TablesType /\ KernelType /\ FdOwnership /\ SocketsMade /\ NoPendingClose)'
         /\ LiveBackends' = {}
         /\ \A c \in Conn : /\ cli'[c] \in {cli[c], ClosedEnd(cli[c])}
                            /\ srv'[c] \in {srv[c], ClosedEnd(srv[c])}
<1> DEFINE all == (Live(clients) \cup {BackendFd(fd) : fd \in LiveBackends}) \ {NB!NoFd}
<1>1. CloseWith(all, cli)
  BY DEF Close
<1>2. KernelType'
  BY <1>1, CloseType DEF KernelType
<1>3. /\ NoClient \in ClientType /\ NoClient.remoteAddr = NoConn
      /\ NoBackend \in BackendType /\ NoBackend.clientAddr = NoConn
      /\ ~NoBackend.backend.pendingClose
  BY NewClientType, NoBackendType, FreshType DEF NoClient
<1>4. TablesType' /\ NoPendingClose'
  BY <1>3 DEF TablesType, NoPendingClose, ClientType, BackendType, NBType, Byte
<1>5. Live(clients)' = {} /\ LiveBackends' = {} /\ \A fd \in Fd : ConnOf(fd)' = NoConn
  BY <1>3 DEF Live, LiveBackends, ConnOf
<1>6. ASSUME NEW fd \in Fd PROVE sock'[fd] = Free
  <2>1. sock'[fd] = IF fd \in all THEN Free ELSE sock[fd]
    BY <1>1 DEF CloseWith
  <2>2. CASE sock[fd] = Free
    BY <2>1, <2>2
  <2>3. ASSUME NEW c \in Conn, sock[fd] = Socket("client", c) PROVE fd \in all
    <3>1. ConnOf(fd) = c /\ DOMAIN clients = Fd
      BY <2>3 DEF TablesType
    <3> QED
      BY <3>1, NoFdNotInFd, ConnAssumption DEF Live, ConnOf
  <2>4. ASSUME NEW c \in Conn, sock[fd] = Socket("backend", c) PROVE fd \in all
    BY <2>4, NoFdNotInFd
  <2> QED
    BY <2>1, <2>2, <2>3, <2>4 DEF SocketsMade
<1>7. FreeFds' = Fd /\ SocketsMade'
  BY <1>6 DEF FreeFds, SocketsMade
<1>8. FdOwnership'
  BY <1>5, <1>6, <1>7, ConnAssumption DEF FdOwnership, Free, Socket
<1>9. \A c \in Conn : /\ cli'[c] \in {cli[c], ClosedEnd(cli[c])}
                      /\ srv'[c] \in {srv[c], ClosedEnd(srv[c])}
  BY <1>1 DEF CloseWith
<1> QED
  BY <1>2, <1>4, <1>5, <1>7, <1>8, <1>9

LEMMA CleanupStep == ASSUME IInv, Cleanup PROVE IInv'
<1>1. /\ LoopType /\ TablesType /\ KernelType /\ pc' = "stopped"
      /\ UNCHANGED <<running, readSet, writeSet, todo, cur>>
      /\ clients' = [fd \in Fd |-> NoClient] /\ backends' = [fd \in Fd |-> NoBackend]
      /\ Close((Live(clients) \cup {BackendFd(fd) : fd \in LiveBackends}) \ {NB!NoFd})
  BY TypeParts DEF Cleanup, IInv
<1>2. LoopType' /\ TodoLive'
  BY <1>1 DEF LoopType, TodoLive
<1>3. (TablesType /\ KernelType /\ FdOwnership /\ SocketsMade /\ NoPendingClose)'
  BY <1>1, CloseAll DEF IInv, FdOwnership
<1> QED
  BY <1>2, <1>3, TypePartsNext DEF IInv

-----------------------------------------------------------------------------
(* The theorems about the tables.                                          *)

LEMMA NextInv == ASSUME IInv, [Next]_vars PROVE IInv'
<1>1. CASE UNCHANGED vars
  <2>1. LoopType /\ KernelType
    BY TypeParts DEF IInv
  <2>2. LiveBackends' = LiveBackends
    BY <1>1 DEF LiveBackends, vars, tables
  <2>3. LoopType' /\ TodoLive' /\ pc' = pc
    BY <1>1, <2>1, <2>2 DEF vars, LoopType, loopVars, TodoLive, IInv
  <2>4. KernelType' /\ UNCHANGED <<tables, sock>>
    BY <1>1, <2>1, KernelSame DEF vars, kernel
  <2> QED
    BY <2>3, <2>4, QuietStep
<1>2. CASE Select \/ Tick \/ acceptClients \/ BackendsDone \/ ClientsDone \/ Cleanup
  BY <1>2, SelectStep, TickStep, AcceptDoneStep, DeniedIsTurnedAway, TurnedAwayStep,
    AcceptClientStep, BackendsDoneStep, ClientsDoneStep, CleanupStep DEF acceptClients
<1>3. ASSUME NEW fd \in Fd, processBackends(fd) PROVE IInv'
  BY <1>3, BackendFailedStep, BackendConnectedStep, BackendWritesStep, BackendWriteFailsStep,
    BackendReadsStep, BackendReadFailsStep, BackendClosesStep DEF processBackends
<1>4. ASSUME NEW fd \in Fd, processClients(fd) PROVE IInv'
  BY <1>4, ClientReadsStep, ClientReadEndsStep, ClientWritesStep, ClientWriteFailsStep
  DEF processClients
<1>5. CASE stop
  BY <1>5, StopStep
<1>6. CASE Environment
  BY <1>6, EnvironmentStep
<1> QED
  BY <1>1, <1>2, <1>3, <1>4, <1>5, <1>6 DEF Next, Loop

LEMMA AlwaysIInv == Spec => []IInv
<1>1. Init => IInv
  BY InitInv
<1>2. IInv /\ [Next]_vars => IInv'
  BY NextInv
<1> QED
  BY <1>1, <1>2, PTL DEF Spec

\* Every variable keeps its type, for any number of connections, descriptors and
\* bytes: no read, write, accept or close of the loop stores a descriptor the
\* kernel did not hand out or a byte of the wrong kind (src/TcpProxy.hpp:100-265).
THEOREM TypeCorrect == Spec => []TypeOK
<1>1. IInv => TypeOK
  BY DEF IInv
<1> QED
  BY <1>1, AlwaysIInv, PTL

\* However accepts, failures, closes and turns interleave, every open descriptor
\* has exactly one owner, of the right connection, in exactly one table entry, and
\* none is left after cleanup(): what disconnectClient(), the hook
\* onClientDisconnect() and TcpClientNB::disconnect() close between them is
\* neither too little nor too much (src/TcpProxy.hpp:71-89, src/TcpServer.hpp:101-107).
THEOREM DescriptorsOwned == Spec => []FdOwnership
<1>1. IInv => FdOwnership
  BY DEF IInv
<1> QED
  BY <1>1, AlwaysIInv, PTL

-----------------------------------------------------------------------------
(* Readiness is never reported for one socket and used on another.         *)

\* Until the accept loop is through, what select() reported is still open.
ReportedOpen ==
  pc \in {"tick", "accept"} =>
    \A fd \in Fd : sock[fd] = Free => fd \notin readSet \cup writeSet

LEMMA SelectReportsOpen == ASSUME IInv, Select PROVE ReportedOpen'
<1>1. \A fd \in LiveBackends : sock[fd] # Free
  <2>1. \A c : Free # Socket("client", c)
    BY DEF Free, Socket
  <2> QED
    BY <2>1, LiveEntry
<1>2. \A fd \in LiveBackends : BackendFd(fd) # NB!NoFd => sock[BackendFd(fd)] # Free
  <2>1. \A c : Free # Socket("backend", c)
    BY DEF Free, Socket
  <2> QED
    BY <2>1, LiveEntry
<1>3. Live(clients) = LiveBackends /\ LiveBackends \subseteq Fd
  BY DEF IInv, FdOwnership, LiveBackends
<1>4. \A fd \in ReadInterest \cup WriteInterest : sock[fd] # Free
  BY <1>1, <1>2, <1>3 DEF ReadInterest, WriteInterest
<1>5. /\ readSet' \subseteq ReadInterest \cup {ListenFd} /\ writeSet' \subseteq WriteInterest
      /\ sock' = sock
  BY DEF Select, ListenReady, kernel
<1> QED
  BY <1>4, <1>5, FdAssumption DEF ReportedOpen

LEMMA ReportedOpenNext == ASSUME IInv, ReportedOpen, [Next]_vars PROVE ReportedOpen'
<1>1. CASE UNCHANGED <<pc, readSet, writeSet, sock>>
  BY <1>1 DEF ReportedOpen
<1>2. CASE pc' \notin {"tick", "accept"}
  BY <1>2 DEF ReportedOpen
<1>3. CASE Select
  BY <1>3, SelectReportsOpen
<1>4. CASE Tick
  BY <1>4, <1>2 DEF Tick, EnterBackends, ReportedOpen, kernel
<1>5. ASSUME NEW c \in Conn, AcceptClient(c) PROVE ReportedOpen'
  <2>1. PICK fd \in FreeFds, b \in FreeFds :
          \/ sock' = [sock EXCEPT ![fd] = Socket("client", c)]
          \/ sock' = [sock EXCEPT ![fd] = Socket("client", c), ![b] = Socket("backend", c)]
    BY <1>5, Zenon DEF AcceptClient, Admit
  <2>2. sock \in [Fd -> SocketType]
    BY TypeParts DEF IInv, KernelType
  <2>3. \A g \in Fd : sock'[g] = Free => sock[g] = Free
    BY <2>1, <2>2 DEF FreeFds
  <2>4. UNCHANGED <<pc, readSet, writeSet>>
    BY <1>5 DEF AcceptClient, Admit, loopVars
  <2> QED
    BY <2>3, <2>4 DEF ReportedOpen
<1>6. CASE acceptClients \/ BackendsDone \/ ClientsDone \/ Cleanup
  <2>1. CASE AcceptDone \/ BackendsDone \/ ClientsDone \/ Cleanup
    BY <1>2, <2>1 DEF AcceptDone, EnterBackends, BackendsDone, ClientsDone, Cleanup
  <2>2. ASSUME NEW c \in Conn, AcceptDenied(c) PROVE ReportedOpen'
    BY <1>1, <2>2 DEF AcceptDenied, loopVars
  <2> QED
    BY <1>5, <1>6, <2>1, <2>2 DEF acceptClients
<1>7. ASSUME NEW fd \in Fd, processBackends(fd) PROVE ReportedOpen'
  <2>1. pc' = "backends"
    BY <1>7 DEF processBackends, BackendFailed, BackendConnected, BackendWrites,
      BackendWriteFails, BackendReads, BackendReadFails, BackendCloses, WriteHalf, ReadHalf,
      BackendTurn
  <2> QED
    BY <1>2, <2>1
<1>8. ASSUME NEW fd \in Fd, processClients(fd) PROVE ReportedOpen'
  <2>1. pc' = "clients"
    BY <1>8 DEF processClients, ClientReads, ClientReadEnds, ClientWrites, ClientWriteFails,
      ClientReadHalf, ClientWriteHalf, ClientTurn
  <2> QED
    BY <1>2, <2>1
<1>9. CASE stop \/ Environment \/ UNCHANGED vars
  BY <1>1, <1>9 DEF stop, Environment, ClientConnects, ClientSends, ClientCloses, BackendAnswers,
    BackendSends, BackendEnds, vars, loopVars, kernel
<1> QED
  BY <1>3, <1>4, <1>6, <1>7, <1>8, <1>9 DEF Next, Loop

LEMMA CloseKeepsFree ==
  ASSUME NEW S, NEW ends, CloseWith(S, ends), NEW fd \in Fd, sock[fd] = Free
  PROVE  sock'[fd] = Free
BY DEF CloseWith

\* Only the accept loop opens descriptors.
LEMMA OnlyAcceptOpens ==
  ASSUME [Next]_vars, NEW fd \in Fd, sock[fd] = Free, sock'[fd] # Free
  PROVE  pc = "accept"
<1>1. CASE UNCHANGED sock
  BY <1>1
<1>2. CASE UNCHANGED vars \/ stop \/ Environment
  BY <1>1, <1>2 DEF vars, kernel, stop, Environment, ClientConnects, ClientSends, ClientCloses,
    BackendAnswers, BackendSends, BackendEnds
<1>3. CASE Select \/ Tick \/ BackendsDone \/ ClientsDone
  BY <1>1, <1>3 DEF Select, Tick, BackendsDone, ClientsDone, kernel
<1>4. CASE acceptClients
  BY <1>4 DEF acceptClients, AcceptDone, AcceptDenied, AcceptClient
<1>5. CASE Cleanup
  BY <1>5, CloseKeepsFree DEF Cleanup, Close
<1>6. ASSUME NEW f \in Fd, processBackends(f) PROVE pc = "accept"
  <2>1. CASE BackendConnected(f) \/ BackendWrites(f) \/ BackendReads(f)
    BY <1>1, <2>1 DEF BackendConnected, BackendWrites, BackendReads, kernel
  <2>2. CASE BackendFailed(f) \/ BackendWriteFails(f) \/ BackendReadFails(f) \/ BackendCloses(f)
    <3>1. \E S, ends : CloseWith(S, ends)
      BY <2>2, Zenon DEF BackendFailed, BackendWriteFails, BackendReadFails, BackendCloses, BackendLost,
        DisconnectClient, DisconnectClientWith, Close
    <3> QED
      BY <3>1, CloseKeepsFree
  <2> QED
    BY <1>6, <2>1, <2>2 DEF processBackends
<1>7. ASSUME NEW f \in Fd, processClients(f) PROVE pc = "accept"
  <2>1. CASE ClientReads(f)
    BY <1>1, <2>1 DEF ClientReads
  <2>2. CASE ClientReadEnds(f) \/ ClientWriteFails(f)
    <3>1. \E S, ends : CloseWith(S, ends)
      BY <2>2, Zenon DEF ClientReadEnds, ClientWriteFails, DisconnectClient, DisconnectClientWith
    <3> QED
      BY <3>1, CloseKeepsFree
  <2>3. CASE ClientWrites(f)
    <3>1. UNCHANGED sock \/ \E S, ends : CloseWith(S, ends)
      BY <2>3, Zenon DEF ClientWrites, DisconnectClientWith
    <3> QED
      BY <1>1, <3>1, CloseKeepsFree
  <2> QED
    BY <1>7, <2>1, <2>2, <2>3 DEF processClients
<1> QED
  BY <1>2, <1>3, <1>4, <1>5, <1>6, <1>7 DEF Next, Loop

\* A descriptor the accept loop hands out anew, to a client or to its backend
\* connection, is in neither set of the running pass: nothing select() reported of
\* an earlier owner is ever acted on for the new one.  The proof shows why the
\* order of src/TcpProxy.hpp:154-168 matters: nothing is closed between select()
\* and the accept loop.
THEOREM NoStaleReadiness == Spec => ReadinessIsFresh
<1>1. Init => ReportedOpen
  BY DEF Init, ReportedOpen
<1>2. IInv /\ ReportedOpen /\ [Next]_vars => ReportedOpen'
  BY ReportedOpenNext
<1>3. ASSUME ReportedOpen, [Next]_vars
      PROVE  [\A fd \in Fd : sock[fd] = Free /\ sock'[fd] # Free
                => fd \notin readSet \cup writeSet]_vars
  <2>1. ASSUME NEW fd \in Fd, sock[fd] = Free, sock'[fd] # Free
        PROVE  fd \notin readSet \cup writeSet
    <3>1. pc = "accept"
      BY <1>3, <2>1, OnlyAcceptOpens
    <3> QED
      BY <1>3, <2>1, <3>1 DEF ReportedOpen
  <2> QED
    BY <2>1
<1> QED
  BY <1>1, <1>2, <1>3, AlwaysIInv, PTL DEF Spec, ReadinessIsFresh

-----------------------------------------------------------------------------
(* The sessions: the inductive invariant.                                  *)

\* A session's two table entries st and e, and the two ends of its connections:
\* nothing stays in a receive buffer, data waits in pendingData only while an
\* attempt is under way, and the streams are whole.
EntryOK(st, e, ce, se) ==
  LET c == st.remoteAddr
      b == e.backend
      all == ce.out \o st.sendQueue
  IN  /\ ce.at = "open"
      /\ st.recvBuf = <<>> /\ b.recvBuf = <<>>
      /\ all = Stream(c, "down", 0, Len(all))
      /\ (b.connected \/ b.connecting) <=> b.fd # NB!NoFd
      /\ ~(b.connected /\ b.connecting)
      /\ b.fd # NB!NoFd =>
           /\ b.connected => e.pendingData = <<>>
           /\ (se.out \o b.sendQueue) \o e.pendingData = Stream(c, "up", 0, ce.read)
           /\ Len(all) = se.read

Entries ==
  \A fd \in LiveBackends :
    EntryOK(clients[fd], backends[fd], cli[ConnOf(fd)], srv[ConnOf(fd)])

\* An open connection has one entry and no other connection has any.
OneEntryEach ==
  /\ \A f, g \in LiveBackends : ConnOf(f) = ConnOf(g) => f = g
  /\ \A c \in Conn : cli[c].at = "open" => \E fd \in LiveBackends : ConnOf(fd) = c

\* A connection still to be accepted has carried nothing.
Untouched ==
  \A c \in Conn : cli[c].at \in {"new", "queued"} =>
    cli[c].read = 0 /\ cli[c].out = <<>> /\ srv[c].out = <<>>

SessionInv == Entries /\ OneEntryEach /\ Untouched

-----------------------------------------------------------------------------
(* Sequences and streams.                                                  *)

LEMMA SplitSeq ==
  ASSUME NEW s \in Seq(Byte), NEW n \in 1..Len(s)
  PROVE  SubSeq(s, 1, n) \o SubSeq(s, n + 1, Len(s)) = s
<1>1. 1 \in 1..Len(s) + 1 /\ n \in 1 - 1 .. Len(s) /\ Len(s) \in n .. Len(s)
  OBVIOUS
<1>2. SubSeq(s, 1, n) \o SubSeq(s, n + 1, Len(s)) = SubSeq(s, 1, Len(s))
  BY <1>1, ConcatAdjacentSubSeq
<1> QED
  BY <1>2, SubSeqFull

LEMMA Assoc ==
  ASSUME NEW s \in Seq(Byte), NEW t \in Seq(Byte), NEW u \in Seq(Byte)
  PROVE  (s \o t) \o u = s \o (t \o u)
OBVIOUS

Associates(s, t, u) == (s \o t) \o u = s \o (t \o u)

LEMMA Associate ==
  ASSUME NEW s \in Seq(Byte), NEW t \in Seq(Byte), NEW u \in Seq(Byte)
  PROVE  Associates(s, t, u)
BY DEF Associates

LEMMA AssocEmpty ==
  ASSUME NEW s \in Seq(Byte), NEW t \in Seq(Byte), NEW u \in Seq(Byte)
  PROVE  (s \o (t \o u)) \o <<>> = (s \o t) \o u
<1> DEFINE v == (s \o t) \o u
<1>1. v \in Seq(Byte)
  OBVIOUS
<1>2. s \o (t \o u) = v
  BY Associate DEF Associates
<1>3. v \o <<>> = v
  <2> HIDE DEF v
  <2> QED
    BY <1>1
<1> QED
  BY <1>2, <1>3

\* Moving the first bytes of a queue to what was sent leaves the whole as it was.
LEMMA MoveHead ==
  ASSUME NEW out \in Seq(Byte), NEW q \in Seq(Byte), NEW n \in 1..Len(q)
  PROVE  (out \o SubSeq(q, 1, n)) \o SubSeq(q, n + 1, Len(q)) = out \o q
<1> DEFINE s == SubSeq(q, 1, n)
           t == SubSeq(q, n + 1, Len(q))
<1>1. s \in Seq(Byte) /\ t \in Seq(Byte)
  BY PartsType
<1>2. s \o t = q
  BY SplitSeq
<1> HIDE DEF s, t
<1>3. (out \o s) \o t = out \o q
  BY <1>1, <1>2, Assoc
<1> QED
  BY <1>3 DEF s, t

LEMMA StreamLen ==
  ASSUME NEW c \in Conn, NEW dir \in {"up", "down"}, NEW from \in Nat, NEW n \in Nat
  PROVE  /\ Stream(c, dir, from, from + n) \in Seq(Byte)
         /\ Len(Stream(c, dir, from, from + n)) = n
         /\ \A i \in 1..n : Stream(c, dir, from, from + n)[i]
                              = [conn |-> c, dir |-> dir, at |-> from + i]
<1>1. (from + n) - from = n
  OBVIOUS
<1>2. Stream(c, dir, from, from + n)
        = [i \in 1..n |-> [conn |-> c, dir |-> dir, at |-> from + i]]
  BY <1>1 DEF Stream
<1>3. Stream(c, dir, from, from + n) \in Seq(Byte)
  BY StreamType
<1> QED
  BY <1>2, <1>3

LEMMA StreamStart ==
  ASSUME NEW c \in Conn, NEW dir \in {"up", "down"}, NEW n \in Nat
  PROVE  /\ Stream(c, dir, 0, n) \in Seq(Byte)
         /\ Len(Stream(c, dir, 0, n)) = n
         /\ \A i \in 1..n : Stream(c, dir, 0, n)[i] = [conn |-> c, dir |-> dir, at |-> i]
<1>1. n - 0 = n /\ \A i \in 1..n : 0 + i = i
  OBVIOUS
<1>2. Stream(c, dir, 0, n) = [i \in 1..n |-> [conn |-> c, dir |-> dir, at |-> i]]
  BY <1>1 DEF Stream
<1>3. Stream(c, dir, 0, n) \in Seq(Byte)
  BY StreamType
<1> QED
  BY <1>2, <1>3

LEMMA StreamZero ==
  ASSUME NEW c \in Conn, NEW dir \in {"up", "down"}
  PROVE  Stream(c, dir, 0, 0) = <<>>
<1>1. Stream(c, dir, 0, 0) \in Seq(Byte) /\ Len(Stream(c, dir, 0, 0)) = 0
  BY StreamStart
<1> QED
  BY <1>1

\* Bytes 1..m and then m+1..m+n of a stream are its bytes 1..m+n.
LEMMA StreamExtends ==
  ASSUME NEW c \in Conn, NEW dir \in {"up", "down"}, NEW m \in Nat, NEW n \in Nat
  PROVE  Stream(c, dir, 0, m) \o Stream(c, dir, m, m + n) = Stream(c, dir, 0, m + n)
<1> DEFINE s == Stream(c, dir, 0, m)
           t == Stream(c, dir, m, m + n)
           u == Stream(c, dir, 0, m + n)
           byte(i) == [conn |-> c, dir |-> dir, at |-> i]
<1>1. /\ s \in Seq(Byte) /\ Len(s) = m /\ \A i \in 1..m : s[i] = byte(i)
      /\ t \in Seq(Byte) /\ Len(t) = n /\ \A i \in 1..n : t[i] = byte(m + i)
      /\ u \in Seq(Byte) /\ Len(u) = m + n /\ \A i \in 1..(m + n) : u[i] = byte(i)
  <2>1. \A k \in Nat : /\ Stream(c, dir, 0, k) \in Seq(Byte)
                       /\ Len(Stream(c, dir, 0, k)) = k
                       /\ \A i \in 1..k : Stream(c, dir, 0, k)[i] = byte(i)
    BY StreamStart
  <2>2. \A j, k \in Nat : /\ Stream(c, dir, j, j + k) \in Seq(Byte)
                          /\ Len(Stream(c, dir, j, j + k)) = k
                          /\ \A i \in 1..k : Stream(c, dir, j, j + k)[i] = byte(j + i)
    BY StreamLen
  <2>3. m + n \in Nat
    OBVIOUS
  <2> HIDE DEF byte
  <2>4. s \in Seq(Byte) /\ Len(s) = m /\ \A i \in 1..m : s[i] = byte(i)
    BY <2>1
  <2>5. t \in Seq(Byte) /\ Len(t) = n /\ \A i \in 1..n : t[i] = byte(m + i)
    BY <2>2
  <2>6. u \in Seq(Byte) /\ Len(u) = m + n /\ \A i \in 1..(m + n) : u[i] = byte(i)
    BY <2>1, <2>3
  <2> QED
    BY <2>4, <2>5, <2>6
<1> HIDE DEF s, t, u, byte
<1>2. /\ s \o t \in Seq(Byte) /\ Len(s \o t) = m + n
      /\ \A i \in 1..(m + n) : (s \o t)[i] = IF i <= m THEN s[i] ELSE t[i - m]
  BY <1>1, ConcatProperties
<1>3. ASSUME NEW i \in 1..(m + n) PROVE (s \o t)[i] = u[i]
  <2>1. CASE i <= m
    BY <1>1, <1>2, <2>1
  <2>2. CASE ~(i <= m)
    <3>1. i - m \in 1..n /\ m + (i - m) = i
      BY <2>2
    <3>2. (s \o t)[i] = t[i - m] /\ t[i - m] = byte(m + (i - m)) /\ u[i] = byte(i)
      BY <1>1, <1>2, <2>2, <3>1
    <3> QED
      BY ONLY <3>1, <3>2
  <2> QED
    BY <2>1, <2>2
<1>4. s \o t = u
  BY <1>1, <1>2, <1>3, SeqEqual
<1> QED
  BY <1>4 DEF s, t, u

-----------------------------------------------------------------------------
(* The effect of a step on the session it concerns.                        *)

\* Everything that belongs to other sessions stays as it is.
Others(fd) ==
  /\ \A g \in Fd : g # fd => clients'[g] = clients[g] /\ backends'[g] = backends[g]
  /\ \A c \in Conn : c # ConnOf(fd) => cli'[c] = cli[c] /\ srv'[c] = srv[c]

\* The session ends, with all of the client's queue sent before or nothing of it.
SessionEnds(fd) ==
  LET c == ConnOf(fd)
      q == clients[fd].sendQueue
  IN  /\ Others(fd)
      /\ clients'[fd] = NoClient /\ backends'[fd] = NoBackend
      /\ cli'[c].at = "closed"
      /\ cli'[c].out \in {cli[c].out, cli[c].out \o q}
      /\ srv'[c].out = srv[c].out
      /\ cli'[c].sent = 0 /\ srv'[c].sent \in {srv[c].sent, 0}

BackendLeaves(fd) ==
  LET c == ConnOf(fd)
  IN  /\ Others(fd) /\ BackendFd(fd) # NB!NoFd
      /\ backends'[fd] = [backends[fd] EXCEPT !.backend = NB!Fresh]
      /\ clients'[fd] \in {clients[fd], [clients[fd] EXCEPT !.pendingClose = TRUE]}
      /\ cli'[c] = cli[c] /\ srv'[c].out = srv[c].out
      /\ srv'[c].sent \in {srv[c].sent, 0} /\ srv'[c].peer = "gone"

PendingMoves(fd) ==
  LET c == ConnOf(fd)
      e == backends[fd]
  IN  /\ Others(fd) /\ BackendFd(fd) # NB!NoFd
      /\ backends'[fd] =
           [e EXCEPT !.backend = [e.backend EXCEPT
                        !.connecting = FALSE, !.connected = TRUE,
                        !.sendQueue = e.backend.sendQueue \o e.pendingData],
                     !.pendingData = <<>>]
      /\ clients'[fd] = clients[fd] /\ cli'[c] = cli[c] /\ srv'[c] = srv[c]

GivesUp(fd) ==
  LET c == ConnOf(fd)
      q == backends[fd].backend.sendQueue
  IN  /\ Others(fd) /\ BackendFd(fd) # NB!NoFd /\ clients'[fd] = clients[fd] /\ cli'[c] = cli[c]
      /\ \E n \in 1..Len(q) :
           /\ backends'[fd] = [backends[fd] EXCEPT !.backend =
                [backends[fd].backend EXCEPT !.sendQueue = SubSeq(q, n + 1, Len(q))]]
           /\ srv'[c] = [srv[c] EXCEPT !.out = @ \o SubSeq(q, 1, n)]

TakesDown(fd) ==
  LET c == ConnOf(fd)
      r == srv[c].read
  IN  /\ Others(fd) /\ BackendFd(fd) # NB!NoFd /\ backends'[fd] = backends[fd] /\ cli'[c] = cli[c]
      /\ \E n \in 1..(srv[c].sent - r) :
           /\ clients'[fd] = [clients[fd] EXCEPT !.sendQueue = @ \o Stream(c, "down", r, r + n)]
           /\ srv'[c] = [srv[c] EXCEPT !.read = @ + n]

\* What the client sent goes to one of the two places, or nowhere.
TakesUp(fd) ==
  LET c == ConnOf(fd)
      r == cli[c].read
      e == backends[fd]
  IN  /\ Others(fd) /\ clients'[fd] = clients[fd] /\ srv'[c] = srv[c]
      /\ \E n \in 1..(cli[c].sent - r) :
           /\ cli'[c] = [cli[c] EXCEPT !.read = @ + n]
           /\ \/ /\ e.backend.connected
                 /\ backends'[fd] = [e EXCEPT !.backend = [e.backend EXCEPT
                      !.sendQueue = e.backend.sendQueue \o Stream(c, "up", r, r + n)]]
              \/ /\ ~e.backend.connected /\ e.backend.connecting
                 /\ backends'[fd] = [e EXCEPT !.pendingData = @ \o Stream(c, "up", r, r + n)]
              \/ /\ ~e.backend.connected /\ ~e.backend.connecting
                 /\ backends'[fd] = e

GivesDown(fd) ==
  LET c == ConnOf(fd)
      q == clients[fd].sendQueue
  IN  /\ Others(fd) /\ backends'[fd] = backends[fd] /\ srv'[c] = srv[c]
      /\ \E n \in 1..Len(q) :
           /\ clients'[fd] = [clients[fd] EXCEPT !.sendQueue = SubSeq(q, n + 1, Len(q))]
           /\ cli'[c] = [cli[c] EXCEPT !.out = @ \o SubSeq(q, 1, n)]

SessionChanges(fd) ==
  \/ SessionEnds(fd) \/ BackendLeaves(fd) \/ PendingMoves(fd) \/ GivesUp(fd)
  \/ TakesDown(fd) \/ TakesUp(fd) \/ GivesDown(fd)

\* What the two invariants say of one entry.
LEMMA SessionEntry ==
  ASSUME IInv, SessionInv, NEW fd \in LiveBackends
  PROVE  LET c == ConnOf(fd)
         IN  /\ fd \in Fd /\ c \in Conn
             /\ clients \in [Fd -> ClientType] /\ backends \in [Fd -> BackendType]
             /\ cli \in [Conn -> CliType] /\ srv \in [Conn -> SrvType]
             /\ clients[fd] \in ClientType /\ clients[fd].remoteAddr = c
             /\ backends[fd] \in BackendType /\ backends[fd].clientAddr = c
             /\ backends[fd].backend \in NBType /\ ~backends[fd].backend.pendingClose
             /\ cli[c] \in CliType /\ srv[c] \in SrvType
             /\ EntryOK(clients[fd], backends[fd], cli[c], srv[c])
<1>1. TablesType /\ KernelType
  BY TypeParts DEF IInv
<1>2. fd \in Fd /\ ConnOf(fd) \in Conn /\ ConnOf(fd) = backends[fd].clientAddr
  BY LiveEntry
<1> QED
  BY <1>1, <1>2 DEF TablesType, KernelType, BackendType, IInv, NoPendingClose, SessionInv,
    Entries, ConnOf

\* Closing descriptors of one session.
LEMMA CloseOne ==
  ASSUME IInv, NEW fd \in LiveBackends, NEW S \in SUBSET ({fd, BackendFd(fd)} \ {NB!NoFd}),
         NEW ends, CloseWith(S, ends)
  PROVE  LET c == ConnOf(fd)
         IN  /\ \A d \in Conn : d # c => cli'[d] = ends[d] /\ srv'[d] = srv[d]
             /\ cli'[c] = IF fd \in S THEN ClosedEnd(ends[c]) ELSE ends[c]
             /\ srv'[c] \in {srv[c], ClosedEnd(srv[c])}
<1> DEFINE c == ConnOf(fd)
<1>1. /\ c \in Conn /\ sock[fd] = Socket("client", c)
      /\ BackendFd(fd) # NB!NoFd => sock[BackendFd(fd)] = Socket("backend", c)
  BY LiveEntry
<1>2. /\ \A d \in Conn : (\E f \in S : sock[f] = Socket("client", d)) <=> d = c /\ fd \in S
      /\ \A d \in Conn : (\E f \in S : sock[f] = Socket("backend", d)) => d = c
  BY <1>1 DEF Socket
<1> QED
  BY <1>1, <1>2 DEF CloseWith

LEMMA DisconnectEffect ==
  ASSUME IInv, SessionInv, NEW fd \in LiveBackends,
         NEW ends \in [Conn -> CliType], DisconnectClientWith(fd, ends),
         \A d \in Conn : d # ConnOf(fd) => ends[d] = cli[d],
         ends[ConnOf(fd)].out \in {cli[ConnOf(fd)].out,
                                   cli[ConnOf(fd)].out \o clients[fd].sendQueue}
  PROVE  SessionEnds(fd)
<1> DEFINE c == ConnOf(fd)
<1>1. /\ c \in Conn /\ fd \in Fd /\ clients \in [Fd -> ClientType]
      /\ backends \in [Fd -> BackendType] /\ srv[c] \in SrvType
  BY SessionEntry
<1>2. fd # NB!NoFd
  BY <1>1, NoFdNotInFd
<1>3. /\ \A d \in Conn : d # c => cli'[d] = ends[d] /\ srv'[d] = srv[d]
      /\ cli'[c] = ClosedEnd(ends[c])
      /\ srv'[c] \in {srv[c], ClosedEnd(srv[c])}
  <2> DEFINE S == {fd, BackendFd(fd)} \ {NB!NoFd}
  <2>1. CloseWith(S, ends)
    BY DEF DisconnectClientWith
  <2>2. fd \in S /\ S \in SUBSET ({fd, BackendFd(fd)} \ {NB!NoFd})
    BY <1>2
  <2> HIDE DEF S
  <2> QED
    BY <2>1, <2>2, CloseOne
<1>4. /\ ClosedEnd(ends[c]).at = "closed" /\ ClosedEnd(ends[c]).out = ends[c].out
      /\ ClosedEnd(ends[c]).sent = 0
  BY <1>1 DEF ClosedEnd, CliType, EndType
<1>5. srv'[c].out = srv[c].out /\ srv'[c].sent \in {srv[c].sent, 0}
  BY <1>1, <1>3 DEF ClosedEnd, SrvType, EndType
<1>6. Others(fd) /\ clients'[fd] = NoClient /\ backends'[fd] = NoBackend
  BY <1>1, <1>3 DEF Others, DisconnectClientWith, erase
<1> QED
  BY <1>3, <1>4, <1>5, <1>6 DEF SessionEnds

LEMMA CloseEffect ==
  ASSUME IInv, SessionInv, NEW fd \in LiveBackends, DisconnectClient(fd)
  PROVE  SessionEnds(fd)
BY SessionEntry, DisconnectEffect DEF DisconnectClient

LEMMA LostEffect ==
  ASSUME IInv, SessionInv, NEW fd \in LiveBackends, BackendLost(fd), BackendFd(fd) # NB!NoFd,
         clients' = clients \/ clients' = markPendingClose(clients, fd)
  PROVE  BackendLeaves(fd)
<1> DEFINE c == ConnOf(fd)
<1>1. /\ c \in Conn /\ fd \in Fd /\ clients \in [Fd -> ClientType]
      /\ backends \in [Fd -> BackendType] /\ srv[c] \in SrvType
  BY SessionEntry
<1>2. CloseWith({BackendFd(fd)}, cli)
  BY DEF BackendLost, Close
<1>3. fd # BackendFd(fd)
  BY LiveEntry
<1>4. {BackendFd(fd)} \in SUBSET ({fd, BackendFd(fd)} \ {NB!NoFd})
  OBVIOUS
<1>5. /\ \A d \in Conn : d # c => cli'[d] = cli[d] /\ srv'[d] = srv[d]
      /\ cli'[c] = cli[c]
      /\ srv'[c] \in {srv[c], ClosedEnd(srv[c])}
  BY <1>2, <1>3, <1>4, CloseOne
<1>6. /\ srv'[c].out = srv[c].out /\ srv'[c].sent \in {srv[c].sent, 0}
      /\ srv'[c].peer = "gone"
  <2>1. sock[BackendFd(fd)] = Socket("backend", c)
    BY LiveEntry
  <2>2. srv'[c] = ClosedEnd(srv[c])
    BY <1>1, <1>2, <2>1 DEF CloseWith
  <2> QED
    BY <1>1, <2>2 DEF ClosedEnd, SrvType, EndType
<1>7. /\ \A g \in Fd : g # fd => clients'[g] = clients[g]
      /\ clients'[fd] \in {clients[fd], [clients[fd] EXCEPT !.pendingClose = TRUE]}
  BY <1>1 DEF markPendingClose
<1>8. /\ \A g \in Fd : g # fd => backends'[g] = backends[g]
      /\ backends'[fd] = [backends[fd] EXCEPT !.backend = NB!Fresh]
  <2> HIDE DEF NB!Fresh
  <2> QED
    BY <1>1 DEF BackendLost, NB!disconnect
<1> QED
  BY <1>5, <1>6, <1>7, <1>8 DEF BackendLeaves, Others

LEMMA BackendConnectedEffect ==
  ASSUME IInv, SessionInv, NEW fd \in Fd, BackendConnected(fd)
  PROVE  PendingMoves(fd) /\ fd \in LiveBackends
<1> DEFINE e == backends[fd]
           b == e.backend
           d == NB!completeConnect(b, FALSE)
<1>1. fd \in LiveBackends /\ NB!NoFd \notin readSet \cup writeSet
  BY TurnEntry DEF BackendConnected, WriteHalf
<1>2. b.fd # NB!NoFd
  BY <1>1 DEF BackendConnected, WriteHalf, BackendFd
<1>3. backends \in [Fd -> BackendType] /\ e \in BackendType /\ b \in NBType
  BY <1>1, SessionEntry
<1>4. d = [b EXCEPT !.connecting = FALSE, !.connected = TRUE]
  BY DEF NB!completeConnect
<1>5. NB!send(d, e.pendingData)
        = [b EXCEPT !.connecting = FALSE, !.connected = TRUE,
                    !.sendQueue = b.sendQueue \o e.pendingData]
  BY <1>2, <1>3, <1>4 DEF NB!send, NB!isOpen, NBType
<1>6. /\ backends' = [backends EXCEPT ![fd].backend = NB!send(d, e.pendingData),
                                      ![fd].pendingData = <<>>]
      /\ UNCHANGED <<clients, kernel>>
  BY DEF BackendConnected
<1>7. \A g \in Fd : g # fd => backends'[g] = backends[g]
  BY <1>3, <1>6
<1>8. backends'[fd] = [e EXCEPT !.backend = NB!send(d, e.pendingData), !.pendingData = <<>>]
  BY <1>3, <1>6
<1> QED
  BY <1>1, <1>2, <1>5, <1>6, <1>7, <1>8 DEF PendingMoves, Others, kernel, BackendFd

LEMMA BackendWritesEffect ==
  ASSUME IInv, SessionInv, NEW fd \in Fd, BackendWrites(fd)
  PROVE  GivesUp(fd) /\ fd \in LiveBackends
<1> DEFINE b == backends[fd].backend
           c == backends[fd].clientAddr
           q == b.sendQueue
<1>1. /\ fd \in LiveBackends /\ NB!NoFd \notin readSet \cup writeSet
      /\ BackendFd(fd) # NB!NoFd /\ c = ConnOf(fd)
  BY TurnEntry DEF BackendWrites, WriteHalf
<1>2. /\ backends \in [Fd -> BackendType] /\ b \in NBType /\ ~b.pendingClose
      /\ srv \in [Conn -> SrvType] /\ c \in Conn
  BY <1>1, SessionEntry
<1>3. PICK n \in 1..Len(q) :
        /\ backends' = [backends EXCEPT ![fd].backend = NB!wrote(b, n)]
        /\ srv' = [srv EXCEPT ![c].out = @ \o SubSeq(q, 1, n)]
  BY DEF BackendWrites
<1>4. UNCHANGED <<clients, sock, cli>>
  BY DEF BackendWrites
<1>5. NB!wrote(b, n) = [b EXCEPT !.sendQueue = SubSeq(q, n + 1, Len(q))]
  BY <1>2 DEF NB!wrote
<1>6. /\ \A g \in Fd : g # fd => backends'[g] = backends[g]
      /\ backends'[fd] = [backends[fd] EXCEPT !.backend = NB!wrote(b, n)]
  BY <1>2, <1>3
<1>7. /\ \A d \in Conn : d # c => srv'[d] = srv[d]
      /\ srv'[c] = [srv[c] EXCEPT !.out = @ \o SubSeq(q, 1, n)]
  BY <1>2, <1>3
<1> QED
  BY <1>1, <1>4, <1>5, <1>6, <1>7 DEF GivesUp, Others

LEMMA BackendReadsEffect ==
  ASSUME IInv, SessionInv, NEW fd \in Fd, BackendReads(fd)
  PROVE  TakesDown(fd) /\ fd \in LiveBackends
<1> DEFINE b == backends[fd].backend
           c == backends[fd].clientAddr
           r == srv[c].read
           data(n) == Stream(c, "down", r, r + n)
           got(n) == NB!received(b, data(n))
<1>1. /\ fd \in LiveBackends /\ NB!NoFd \notin readSet \cup writeSet
      /\ BackendFd(fd) # NB!NoFd /\ c = ConnOf(fd)
  BY TurnEntry DEF BackendReads, ReadHalf
<1>2. /\ backends \in [Fd -> BackendType] /\ b \in NBType /\ b.recvBuf = <<>>
      /\ backends[fd] \in BackendType
      /\ clients \in [Fd -> ClientType] /\ fd \in Live(clients)
      /\ srv \in [Conn -> SrvType] /\ c \in Conn /\ srv[c] \in SrvType
  BY <1>1, SessionEntry, LiveEntry DEF EntryOK
<1>3. PICK n \in 1..(srv[c].sent - srv[c].read) :
        /\ srv' = [srv EXCEPT ![c].read = @ + n]
        /\ clients' = forward(fd, got(n).recvBuf)
        /\ backends' = [backends EXCEPT
             ![fd].backend = NB!consumeReceived(got(n), Len(got(n).recvBuf))]
  BY DEF BackendReads
<1>4. UNCHANGED <<sock, cli>>
  BY DEF BackendReads
<1>5. r \in Nat /\ n \in Nat /\ data(n) \in Seq(Byte)
  <2>1. r \in Nat /\ n \in Nat
    BY <1>2 DEF SrvType, EndType
  <2> HIDE DEF r
  <2> QED
    BY <1>2, <2>1, StreamType
<1> HIDE DEF data
<1>6. got(n) = [b EXCEPT !.recvBuf = data(n)] /\ got(n).recvBuf = data(n)
  <2> HIDE DEF b
  <2>1. <<>> \o data(n) = data(n)
    BY <1>5
  <2>2. got(n) = [b EXCEPT !.recvBuf = b.recvBuf \o data(n)]
    BY DEF NB!received
  <2> QED
    BY <1>2, <2>1, <2>2 DEF NBType
<1>7. NB!consumeReceived(got(n), Len(got(n).recvBuf)) = b
  <2>1. Len(got(n).recvBuf) \in Nat
    BY <1>5, <1>6
  <2>2. NB!consumeReceived(got(n), Len(got(n).recvBuf)) = [got(n) EXCEPT !.recvBuf = <<>>]
    BY <2>1 DEF NB!consumeReceived
  <2> QED
    BY <1>2, <1>6, <2>2 DEF NBType
<1> HIDE DEF got
<1>8. /\ \A g \in Fd : g # fd => backends'[g] = backends[g]
      /\ backends'[fd] = backends[fd]
  BY <1>2, <1>3, <1>7 DEF BackendType
<1>9. /\ \A g \in Fd : g # fd => clients'[g] = clients[g]
      /\ clients'[fd] = [clients[fd] EXCEPT !.sendQueue = @ \o data(n)]
  BY <1>2, <1>3, <1>6 DEF forward, sendToClient
<1>10. /\ \A d \in Conn : d # c => srv'[d] = srv[d]
       /\ srv'[c] = [srv[c] EXCEPT !.read = @ + n]
  BY <1>2, <1>3
<1> QED
  BY <1>1, <1>4, <1>8, <1>9, <1>10 DEF TakesDown, Others, data

LEMMA ClientReadsEffect ==
  ASSUME IInv, SessionInv, NEW fd \in Fd, ClientReads(fd)
  PROVE  TakesUp(fd) /\ fd \in LiveBackends
<1> DEFINE e == backends[fd]
           b == e.backend
           c == ConnOf(fd)
           r == cli[c].read
           data(n) == Stream(c, "up", r, r + n)
           got(n) == received(clients, fd, data(n))
<1>1. fd \in LiveBackends
  BY TurnEntry DEF ClientReads, ClientReadHalf
<1>2. /\ backends \in [Fd -> BackendType] /\ e \in BackendType /\ b \in NBType
      /\ clients \in [Fd -> ClientType] /\ clients[fd] \in ClientType
      /\ clients[fd].recvBuf = <<>>
      /\ (b.connected \/ b.connecting) <=> b.fd # NB!NoFd
      /\ ~(b.connected /\ b.connecting)
      /\ cli \in [Conn -> CliType] /\ c \in Conn /\ cli[c] \in CliType
  BY <1>1, SessionEntry DEF EntryOK
<1>3. PICK n \in 1..(cli[c].sent - cli[c].read) :
        /\ cli' = [cli EXCEPT ![c].read = @ + n]
        /\ backends' = onRawData(fd, got(n)[fd].recvBuf)
        /\ clients' = [got(n) EXCEPT ![fd].recvBuf = <<>>]
  BY DEF ClientReads
<1>4. UNCHANGED <<sock, srv>>
  BY DEF ClientReads
<1>5. r \in Nat /\ n \in Nat /\ data(n) \in Seq(Byte)
  BY <1>2, StreamType DEF CliType, EndType
<1> HIDE DEF data
<1>6. got(n) = [clients EXCEPT ![fd].recvBuf = data(n)] /\ got(n)[fd].recvBuf = data(n)
  BY <1>2, <1>5 DEF received, ClientType
<1>7. /\ \A g \in Fd : g # fd => clients'[g] = clients[g]
      /\ clients'[fd] = clients[fd]
  <2>1. clients' = [[clients EXCEPT ![fd].recvBuf = data(n)] EXCEPT ![fd].recvBuf = <<>>]
    BY <1>3, <1>6
  <2>2. clients'[fd] = [[clients[fd] EXCEPT !.recvBuf = data(n)] EXCEPT !.recvBuf = <<>>]
    BY <1>2, <2>1
  <2>3. clients'[fd] = clients[fd]
    BY <1>2, <2>2 DEF ClientType
  <2> QED
    BY <1>2, <2>1, <2>3
<1> HIDE DEF got
<1>8. /\ \A d \in Conn : d # c => cli'[d] = cli[d]
      /\ cli'[c] = [cli[c] EXCEPT !.read = @ + n]
  BY <1>2, <1>3
<1>9. /\ \A g \in Fd : g # fd => backends'[g] = backends[g]
      /\ \/ /\ b.connected
            /\ backends'[fd] =
                 [e EXCEPT !.backend = [b EXCEPT !.sendQueue = b.sendQueue \o data(n)]]
         \/ /\ ~b.connected /\ b.connecting
            /\ backends'[fd] = [e EXCEPT !.pendingData = @ \o data(n)]
         \/ /\ ~b.connected /\ ~b.connecting
            /\ backends'[fd] = e
  <2>1. backends' = onRawData(fd, data(n))
    BY <1>3, <1>6
  <2>2. CASE b.connected
    <3>1. NB!send(b, data(n)) = [b EXCEPT !.sendQueue = b.sendQueue \o data(n)]
      BY <1>2, <2>2 DEF NB!send, NB!isOpen
    <3>2. backends' = [backends EXCEPT ![fd].backend = NB!send(b, data(n))]
      BY <1>2, <2>1, <2>2 DEF onRawData
    <3> QED
      BY <1>2, <2>2, <3>1, <3>2
  <2>3. CASE ~b.connected /\ b.connecting
    BY <1>2, <2>1, <2>3 DEF onRawData
  <2>4. CASE ~b.connected /\ ~b.connecting
    BY <1>2, <2>1, <2>4 DEF onRawData
  <2> QED
    BY <2>2, <2>3, <2>4
<1> QED
  BY <1>1, <1>3, <1>4, <1>7, <1>8, <1>9 DEF TakesUp, Others, data

LEMMA ClientWritesEffect ==
  ASSUME IInv, SessionInv, NEW fd \in Fd, ClientWrites(fd)
  PROVE  (GivesDown(fd) \/ SessionEnds(fd)) /\ fd \in LiveBackends
<1> DEFINE c == ConnOf(fd)
           q == clients[fd].sendQueue
           ends(n) == [cli EXCEPT ![c].out = @ \o SubSeq(q, 1, n)]
<1>1. fd \in LiveBackends
  BY TurnEntry DEF ClientWrites, ClientWriteHalf
<1>2. /\ clients \in [Fd -> ClientType] /\ clients[fd] \in ClientType /\ q \in Seq(Byte)
      /\ cli \in [Conn -> CliType] /\ c \in Conn /\ cli[c] \in CliType /\ KernelType
  BY <1>1, SessionEntry, TypeParts DEF IInv, ClientType
<1>3. PICK n \in 1..Len(q) :
        IF clients[fd].pendingClose /\ n = Len(q)
        THEN DisconnectClientWith(fd, ends(n))
        ELSE /\ clients' = wrote(clients, fd, n)
             /\ cli' = ends(n)
             /\ UNCHANGED <<backends, sock, srv>>
  BY DEF ClientWrites
<1>4. SubSeq(q, 1, n) \in Seq(Byte) /\ ends(n) \in [Conn -> CliType]
  <2>1. SubSeq(q, 1, n) \in Seq(Byte)
    BY <1>2, PartsType
  <2>2. 0 \in Nat
    OBVIOUS
  <2> QED
    BY <1>2, <2>1, <2>2, EndsType
<1>5. /\ \A d \in Conn : d # c => ends(n)[d] = cli[d]
      /\ ends(n)[c] = [cli[c] EXCEPT !.out = @ \o SubSeq(q, 1, n)]
      /\ ends(n)[c].out = cli[c].out \o SubSeq(q, 1, n)
  BY <1>2 DEF CliType, EndType
<1> HIDE DEF ends
<1>6. CASE clients[fd].pendingClose /\ n = Len(q)
  <2>1. SubSeq(q, 1, n) = q
    BY <1>2, <1>6, SubSeqFull
  <2> QED
    BY <1>1, <1>3, <1>4, <1>5, <1>6, <2>1, DisconnectEffect
<1>7. CASE ~(clients[fd].pendingClose /\ n = Len(q))
  <2>1. /\ clients' = wrote(clients, fd, n) /\ cli' = ends(n)
        /\ UNCHANGED <<backends, sock, srv>>
    BY <1>3, <1>7
  <2>2. /\ \A g \in Fd : g # fd => clients'[g] = clients[g]
        /\ clients'[fd] = [clients[fd] EXCEPT !.sendQueue = SubSeq(q, n + 1, Len(q))]
    BY <1>2, <2>1 DEF wrote
  <2> QED
    BY <1>1, <1>5, <2>1, <2>2 DEF GivesDown, Others
<1> QED
  BY <1>1, <1>6, <1>7

\* Every turn, or half of one, changes one session in one of these ways.
LEMMA TurnEffect ==
  ASSUME IInv, SessionInv, NEW fd \in Fd, processBackends(fd) \/ processClients(fd)
  PROVE  SessionChanges(fd) /\ fd \in LiveBackends
<1>1. fd \in LiveBackends /\ NB!NoFd \notin readSet \cup writeSet
  BY TurnEntry DEF processBackends, processClients, BackendFailed, BackendConnected,
    BackendWrites, BackendWriteFails, BackendReads, BackendReadFails, BackendCloses, WriteHalf,
    ReadHalf, ClientReads, ClientReadEnds, ClientWrites, ClientWriteFails, ClientReadHalf,
    ClientWriteHalf
<1>2. CASE BackendFailed(fd) \/ ClientReadEnds(fd) \/ ClientWriteFails(fd)
  BY <1>1, <1>2, CloseEffect DEF BackendFailed, ClientReadEnds, ClientWriteFails, SessionChanges
<1>3. CASE BackendWriteFails(fd)
  BY <1>1, <1>3, LostEffect DEF BackendWriteFails, WriteHalf, SessionChanges
<1>4. CASE BackendReadFails(fd)
  BY <1>1, <1>4, LostEffect DEF BackendReadFails, ReadHalf, SessionChanges
<1>5. CASE BackendCloses(fd)
  BY <1>1, <1>5, LostEffect, CloseEffect DEF BackendCloses, ReadHalf, SessionChanges
<1>6. CASE \/ BackendConnected(fd) \/ BackendWrites(fd) \/ BackendReads(fd)
           \/ ClientReads(fd) \/ ClientWrites(fd)
  BY <1>6, BackendConnectedEffect, BackendWritesEffect, BackendReadsEffect, ClientReadsEffect,
    ClientWritesEffect DEF SessionChanges
<1> QED
  BY <1>1, <1>2, <1>3, <1>4, <1>5, <1>6 DEF processBackends, processClients

-----------------------------------------------------------------------------
(* The streams of the session a step concerns.                             *)

LEMMA PendingMovesOK ==
  ASSUME IInv, SessionInv, NEW fd \in LiveBackends, PendingMoves(fd)
  PROVE  EntryOK(clients'[fd], backends'[fd], cli'[ConnOf(fd)], srv'[ConnOf(fd)])
<1> DEFINE c == ConnOf(fd)
           e == backends[fd]
           b == e.backend
           f == backends'[fd]
<1>1. /\ e \in BackendType /\ b \in NBType /\ srv[c] \in SrvType
      /\ EntryOK(clients[fd], e, cli[c], srv[c])
  BY SessionEntry
<1>2. /\ b.sendQueue \in Seq(Byte) /\ e.pendingData \in Seq(Byte) /\ srv[c].out \in Seq(Byte)
  BY <1>1 DEF BackendType, NBType, SrvType, EndType
<1>3. b.fd # NB!NoFd
  BY DEF PendingMoves, BackendFd
<1>4. /\ f.backend.fd = b.fd /\ f.backend.recvBuf = b.recvBuf
      /\ f.backend.connected /\ ~f.backend.connecting
      /\ f.backend.sendQueue = b.sendQueue \o e.pendingData
      /\ f.pendingData = <<>>
  BY <1>1 DEF PendingMoves, BackendType, NBType
<1>5. (srv[c].out \o f.backend.sendQueue) \o f.pendingData
        = (srv[c].out \o b.sendQueue) \o e.pendingData
  <2>1. (srv[c].out \o (b.sendQueue \o e.pendingData)) \o <<>>
          = (srv[c].out \o b.sendQueue) \o e.pendingData
    BY <1>2, AssocEmpty
  <2> QED
    BY <1>4, <2>1
<1>6. clients'[fd] = clients[fd] /\ cli'[c] = cli[c] /\ srv'[c] = srv[c]
  BY DEF PendingMoves
<1> HIDE DEF f
<1>7. EntryOK(clients[fd], f, cli[c], srv[c])
  BY <1>1, <1>3, <1>4, <1>5 DEF EntryOK
<1> QED
  BY <1>6, <1>7 DEF f

LEMMA GivesUpOK ==
  ASSUME IInv, SessionInv, NEW fd \in LiveBackends, GivesUp(fd)
  PROVE  EntryOK(clients'[fd], backends'[fd], cli'[ConnOf(fd)], srv'[ConnOf(fd)])
<1> DEFINE c == ConnOf(fd)
           e == backends[fd]
           b == e.backend
           q == b.sendQueue
           f == backends'[fd]
           se == srv'[c]
<1>1. /\ e \in BackendType /\ b \in NBType /\ srv[c] \in SrvType
      /\ EntryOK(clients[fd], e, cli[c], srv[c])
  BY SessionEntry
<1>2. q \in Seq(Byte) /\ srv[c].out \in Seq(Byte)
  BY <1>1 DEF NBType, SrvType, EndType
<1>3. PICK n \in 1..Len(q) :
        /\ f = [e EXCEPT !.backend = [b EXCEPT !.sendQueue = SubSeq(q, n + 1, Len(q))]]
        /\ se = [srv[c] EXCEPT !.out = @ \o SubSeq(q, 1, n)]
  BY DEF GivesUp
<1>4. /\ f.backend.fd = b.fd /\ f.backend.recvBuf = b.recvBuf
      /\ f.backend.connected = b.connected /\ f.backend.connecting = b.connecting
      /\ f.backend.sendQueue = SubSeq(q, n + 1, Len(q))
      /\ f.pendingData = e.pendingData
      /\ se.out = srv[c].out \o SubSeq(q, 1, n) /\ se.read = srv[c].read
  <2>1. se.out = srv[c].out \o SubSeq(q, 1, n) /\ se.read = srv[c].read
    BY <1>1, <1>3 DEF SrvType, EndType
  <2> HIDE DEF q, se
  <2> QED
    BY <1>1, <1>3, <2>1 DEF BackendType, NBType
<1>5. se.out \o f.backend.sendQueue = srv[c].out \o q
  BY <1>2, <1>4, MoveHead
<1>6. clients'[fd] = clients[fd] /\ cli'[c] = cli[c]
  BY DEF GivesUp
<1> HIDE DEF f, se
<1>7. EntryOK(clients[fd], f, cli[c], se)
  BY <1>1, <1>4, <1>5 DEF EntryOK
<1> QED
  BY <1>6, <1>7 DEF f, se

LEMMA TakesDownOK ==
  ASSUME IInv, SessionInv, NEW fd \in LiveBackends, TakesDown(fd)
  PROVE  EntryOK(clients'[fd], backends'[fd], cli'[ConnOf(fd)], srv'[ConnOf(fd)])
<1> DEFINE c == ConnOf(fd)
           st == clients[fd]
           r == srv[c].read
           new == clients'[fd]
           se == srv'[c]
           all == cli[c].out \o st.sendQueue
<1>1. /\ st \in ClientType /\ cli[c] \in CliType /\ srv[c] \in SrvType
      /\ c \in Conn /\ st.remoteAddr = c
      /\ EntryOK(st, backends[fd], cli[c], srv[c])
  BY SessionEntry
<1>2. /\ st.sendQueue \in Seq(Byte) /\ cli[c].out \in Seq(Byte) /\ r \in Nat
      /\ all \in Seq(Byte)
  BY <1>1 DEF ClientType, CliType, SrvType, EndType
<1>3. PICK n \in 1..(srv[c].sent - r) :
        /\ new = [st EXCEPT !.sendQueue = @ \o Stream(c, "down", r, r + n)]
        /\ se = [srv[c] EXCEPT !.read = @ + n]
  BY DEF TakesDown
<1>4. n \in Nat /\ backends[fd].backend.fd # NB!NoFd
  BY <1>1 DEF TakesDown, BackendFd, SrvType, EndType
<1>5. /\ new.remoteAddr = c /\ new.recvBuf = st.recvBuf
      /\ new.sendQueue = st.sendQueue \o Stream(c, "down", r, r + n)
      /\ se.out = srv[c].out /\ se.read = r + n
  BY <1>1, <1>3 DEF ClientType, SrvType, EndType
<1>6. Stream(c, "down", r, r + n) \in Seq(Byte)
  BY <1>1, <1>2, <1>4, StreamLen
<1>7. cli[c].out \o new.sendQueue = all \o Stream(c, "down", r, r + n)
  <2>1. \A data \in Seq(Byte) : all \o data = cli[c].out \o (st.sendQueue \o data)
    BY <1>2, Assoc
  <2> HIDE DEF all, new
  <2>2. all \o Stream(c, "down", r, r + n)
          = cli[c].out \o (st.sendQueue \o Stream(c, "down", r, r + n))
    BY <1>6, <2>1
  <2> QED
    BY <1>5, <2>2
<1>8. Len(all) = r /\ all = Stream(c, "down", 0, r)
  BY <1>1, <1>4 DEF EntryOK
<1>9. cli[c].out \o new.sendQueue = Stream(c, "down", 0, r + n)
  <2>1. Stream(c, "down", 0, r) \o Stream(c, "down", r, r + n) = Stream(c, "down", 0, r + n)
    <3>1. \A m, k \in Nat : Stream(c, "down", 0, m) \o Stream(c, "down", m, m + k)
                              = Stream(c, "down", 0, m + k)
      BY <1>1, StreamExtends
    <3> QED
      BY <1>2, <1>4, <3>1
  <2> HIDE DEF all, new
  <2> QED
    BY <1>7, <1>8, <2>1
<1>10. Len(Stream(c, "down", 0, r + n)) = r + n
  <2>1. \A k \in Nat : Len(Stream(c, "down", 0, k)) = k
    BY <1>1, StreamStart
  <2> QED
    BY <1>2, <1>4, <2>1
<1>11. backends'[fd] = backends[fd] /\ cli'[c] = cli[c]
  BY DEF TakesDown
<1> HIDE DEF new, se
<1>12. EntryOK(new, backends[fd], cli[c], se)
  BY <1>1, <1>5, <1>9, <1>10 DEF EntryOK
<1> QED
  BY <1>11, <1>12 DEF new, se

\* What is appended to the send queue is appended to the whole.
LEMMA Appended ==
  ASSUME NEW s \in Seq(Byte), NEW t \in Seq(Byte), NEW data \in Seq(Byte)
  PROVE  (s \o (t \o data)) \o <<>> = ((s \o t) \o <<>>) \o data
<1>1. s \o t \in Seq(Byte)
  OBVIOUS
<1>2. (s \o (t \o data)) \o <<>> = (s \o t) \o data
  BY AssocEmpty
<1>3. (s \o t) \o <<>> = s \o t
  BY <1>1, ConcatEmptySeq
<1> QED
  BY <1>2, <1>3

LEMMA TakesUpOK ==
  ASSUME IInv, SessionInv, NEW fd \in LiveBackends, TakesUp(fd)
  PROVE  EntryOK(clients'[fd], backends'[fd], cli'[ConnOf(fd)], srv'[ConnOf(fd)])
<1> DEFINE c == ConnOf(fd)
           e == backends[fd]
           b == e.backend
           r == cli[c].read
           f == backends'[fd]
           ce == cli'[c]
           out == srv[c].out
<1>1. /\ e \in BackendType /\ b \in NBType /\ srv[c] \in SrvType /\ cli[c] \in CliType
      /\ c \in Conn /\ clients[fd].remoteAddr = c
      /\ EntryOK(clients[fd], e, cli[c], srv[c])
  BY SessionEntry
<1>2. /\ b.sendQueue \in Seq(Byte) /\ e.pendingData \in Seq(Byte) /\ out \in Seq(Byte)
      /\ r \in Nat
  BY <1>1 DEF BackendType, NBType, SrvType, CliType, EndType
<1>3. PICK n \in 1..(cli[c].sent - r) :
        /\ ce = [cli[c] EXCEPT !.read = @ + n]
        /\ \/ /\ b.connected
              /\ f = [e EXCEPT !.backend = [b EXCEPT
                       !.sendQueue = b.sendQueue \o Stream(c, "up", r, r + n)]]
           \/ /\ ~b.connected /\ b.connecting
              /\ f = [e EXCEPT !.pendingData = @ \o Stream(c, "up", r, r + n)]
           \/ /\ ~b.connected /\ ~b.connecting
              /\ f = e
  BY DEF TakesUp
<1>4. n \in Nat
  BY <1>1 DEF CliType, EndType
<1>5. ce.at = cli[c].at /\ ce.out = cli[c].out /\ ce.read = r + n
  BY <1>1, <1>3 DEF CliType, EndType
<1> DEFINE data == Stream(c, "up", r, r + n)
<1>6. data \in Seq(Byte)
  BY <1>1, <1>2, <1>4, StreamLen
<1>7. Stream(c, "up", 0, r) \o data = Stream(c, "up", 0, r + n)
  BY <1>1, <1>2, <1>4, StreamExtends
<1>8. clients'[fd] = clients[fd] /\ srv'[c] = srv[c]
  BY DEF TakesUp
<1>9. EntryOK(clients[fd], f, ce, srv[c])
  <2>1. CASE b.connected
    <3>1. f = [e EXCEPT !.backend = [b EXCEPT !.sendQueue = b.sendQueue \o data]]
      BY <1>3, <2>1
    <3> HIDE DEF data, f, ce, out
    <3>2. /\ f.backend.fd = b.fd /\ f.backend.recvBuf = b.recvBuf
          /\ f.backend.connected = b.connected /\ f.backend.connecting = b.connecting
          /\ f.backend.sendQueue = b.sendQueue \o data
          /\ f.pendingData = e.pendingData
      BY <1>1, <3>1 DEF BackendType, NBType
    <3>3. e.pendingData = <<>> /\ (out \o b.sendQueue) \o <<>> = Stream(c, "up", 0, r)
      BY <1>1, <2>1 DEF EntryOK, out
    <3>4. (out \o (b.sendQueue \o data)) \o <<>> = ((out \o b.sendQueue) \o <<>>) \o data
      BY <1>2, <1>6, Appended
    <3>5. (out \o (b.sendQueue \o data)) \o <<>> = Stream(c, "up", 0, r + n)
      BY ONLY <1>7, <3>3, <3>4
    <3> QED
      BY <1>1, <1>5, <2>1, <3>2, <3>3, <3>5 DEF EntryOK, out
  <2>2. CASE ~b.connected /\ b.connecting
    <3>1. f = [e EXCEPT !.pendingData = e.pendingData \o data]
      BY <1>3, <2>2
    <3> HIDE DEF data, f, ce, out
    <3>2. f.backend = b /\ f.pendingData = e.pendingData \o data
      BY <1>1, <3>1 DEF BackendType
    <3>3. (out \o b.sendQueue) \o e.pendingData = Stream(c, "up", 0, r)
      BY <1>1, <2>2 DEF EntryOK, out
    <3>4. (out \o b.sendQueue) \o (e.pendingData \o data)
            = ((out \o b.sendQueue) \o e.pendingData) \o data
      <4> DEFINE v == out \o b.sendQueue
                 w == e.pendingData
      <4>1. v \in Seq(Byte) /\ w \in Seq(Byte) /\ data \in Seq(Byte)
        BY <1>2, <1>6
      <4> HIDE DEF v, w
      <4>2. v \o (w \o data) = (v \o w) \o data
        BY ONLY <4>1, Assoc
      <4> QED
        BY <4>2 DEF v, w
    <3>5. (out \o b.sendQueue) \o (e.pendingData \o data) = Stream(c, "up", 0, r + n)
      BY ONLY <1>7, <3>3, <3>4
    <3> QED
      BY <1>1, <1>5, <2>2, <3>2, <3>5 DEF EntryOK, out
  <2>3. CASE ~b.connected /\ ~b.connecting
    <3>1. f = e
      BY <1>3, <2>3
    <3> HIDE DEF f, ce
    <3> QED
      BY <1>1, <1>5, <2>3, <3>1 DEF EntryOK
  <2> QED
    BY <2>1, <2>2, <2>3
<1> QED
  BY <1>8, <1>9

LEMMA GivesDownOK ==
  ASSUME IInv, SessionInv, NEW fd \in LiveBackends, GivesDown(fd)
  PROVE  EntryOK(clients'[fd], backends'[fd], cli'[ConnOf(fd)], srv'[ConnOf(fd)])
<1> DEFINE c == ConnOf(fd)
           st == clients[fd]
           q == st.sendQueue
           new == clients'[fd]
           ce == cli'[c]
<1>1. /\ st \in ClientType /\ cli[c] \in CliType
      /\ EntryOK(st, backends[fd], cli[c], srv[c])
  BY SessionEntry
<1>2. q \in Seq(Byte) /\ cli[c].out \in Seq(Byte)
  BY <1>1 DEF ClientType, CliType, EndType
<1>3. PICK n \in 1..Len(q) :
        /\ new = [st EXCEPT !.sendQueue = SubSeq(q, n + 1, Len(q))]
        /\ ce = [cli[c] EXCEPT !.out = @ \o SubSeq(q, 1, n)]
  BY DEF GivesDown
<1>4. /\ new.remoteAddr = st.remoteAddr /\ new.recvBuf = st.recvBuf
      /\ new.sendQueue = SubSeq(q, n + 1, Len(q))
  BY <1>1, <1>3 DEF ClientType
<1>5. /\ ce.at = cli[c].at /\ ce.read = cli[c].read
      /\ ce.out = cli[c].out \o SubSeq(q, 1, n)
  BY <1>1, <1>3 DEF CliType, EndType
<1>6. ce.out \o new.sendQueue = cli[c].out \o q
  BY <1>2, <1>4, <1>5, MoveHead
<1>7. backends'[fd] = backends[fd] /\ srv'[c] = srv[c]
  BY DEF GivesDown
<1> HIDE DEF new, ce
<1>8. EntryOK(new, backends[fd], ce, srv[c])
  BY <1>1, <1>4, <1>5, <1>6 DEF EntryOK
<1> QED
  BY <1>7, <1>8 DEF new, ce

LEMMA BackendLeavesOK ==
  ASSUME IInv, SessionInv, NEW fd \in LiveBackends, BackendLeaves(fd)
  PROVE  EntryOK(clients'[fd], backends'[fd], cli'[ConnOf(fd)], srv'[ConnOf(fd)])
<1> DEFINE c == ConnOf(fd)
           st == clients[fd]
           e == backends[fd]
           new == clients'[fd]
           f == backends'[fd]
<1>1. /\ st \in ClientType /\ e \in BackendType
      /\ EntryOK(st, e, cli[c], srv[c])
  BY SessionEntry
<1>2. /\ new.remoteAddr = st.remoteAddr /\ new.recvBuf = st.recvBuf
      /\ new.sendQueue = st.sendQueue
  BY <1>1 DEF BackendLeaves, ClientType
<1>3. f.backend = NB!Fresh
  <2> HIDE DEF NB!Fresh
  <2> QED
    BY <1>1 DEF BackendLeaves, BackendType
<1>4. /\ NB!Fresh.fd = NB!NoFd /\ NB!Fresh.recvBuf = <<>>
      /\ ~NB!Fresh.connected /\ ~NB!Fresh.connecting
  BY DEF NB!Fresh
<1>5. cli'[c] = cli[c]
  BY DEF BackendLeaves
<1> HIDE DEF new, f, NB!Fresh
<1>6. EntryOK(new, f, cli[c], srv'[c])
  BY <1>1, <1>2, <1>3, <1>4 DEF EntryOK
<1> QED
  BY <1>5, <1>6 DEF new, f

-----------------------------------------------------------------------------
(* Every step keeps SessionInv.                                            *)

\* A step that does not end the session leaves it its connection.
LEMMA SessionStays ==
  ASSUME IInv, SessionInv, NEW fd \in LiveBackends,
         \/ BackendLeaves(fd) \/ PendingMoves(fd) \/ GivesUp(fd)
         \/ TakesDown(fd) \/ TakesUp(fd) \/ GivesDown(fd)
  PROVE  /\ clients'[fd].remoteAddr = ConnOf(fd) /\ backends'[fd].clientAddr = ConnOf(fd)
         /\ EntryOK(clients'[fd], backends'[fd], cli'[ConnOf(fd)], srv'[ConnOf(fd)])
         /\ Others(fd)
<1>1. /\ clients[fd] \in ClientType /\ clients[fd].remoteAddr = ConnOf(fd)
      /\ backends[fd] \in BackendType /\ backends[fd].clientAddr = ConnOf(fd)
  BY SessionEntry
<1>2. clients'[fd].remoteAddr = ConnOf(fd)
  <2>1. CASE BackendLeaves(fd)
    BY <1>1, <2>1 DEF BackendLeaves, ClientType
  <2>2. CASE PendingMoves(fd) \/ GivesUp(fd) \/ TakesUp(fd)
    BY <1>1, <2>2 DEF PendingMoves, GivesUp, TakesUp
  <2>3. CASE TakesDown(fd) \/ GivesDown(fd)
    BY <1>1, <2>3 DEF TakesDown, GivesDown, ClientType
  <2> QED
    BY <2>1, <2>2, <2>3
<1>3. backends'[fd].clientAddr = ConnOf(fd)
  <2>1. CASE BackendLeaves(fd)
    BY <1>1, <2>1 DEF BackendLeaves, BackendType
  <2>2. CASE PendingMoves(fd)
    BY <1>1, <2>2 DEF PendingMoves, BackendType
  <2>3. CASE GivesUp(fd)
    BY <1>1, <2>3 DEF GivesUp, BackendType
  <2>4. CASE TakesUp(fd)
    BY <1>1, <2>4 DEF TakesUp, BackendType
  <2>5. CASE TakesDown(fd) \/ GivesDown(fd)
    BY <1>1, <2>5 DEF TakesDown, GivesDown
  <2> QED
    BY <2>1, <2>2, <2>3, <2>4, <2>5
<1>4. EntryOK(clients'[fd], backends'[fd], cli'[ConnOf(fd)], srv'[ConnOf(fd)])
  BY BackendLeavesOK, PendingMovesOK, GivesUpOK, TakesDownOK, TakesUpOK, GivesDownOK
<1>5. Others(fd)
  BY DEF BackendLeaves, PendingMoves, GivesUp, TakesDown, TakesUp, GivesDown
<1> QED
  BY <1>2, <1>3, <1>4, <1>5

\* The other sessions during a step of one.
LEMMA OtherEntries ==
  ASSUME IInv, SessionInv, NEW fd \in LiveBackends, Others(fd)
  PROVE  /\ LiveBackends' \ {fd} = LiveBackends \ {fd}
         /\ \A g \in LiveBackends \ {fd} :
              /\ ConnOf(g) \in Conn /\ ConnOf(g) # ConnOf(fd) /\ ConnOf(g)' = ConnOf(g)
              /\ EntryOK(clients'[g], backends'[g], cli'[ConnOf(g)], srv'[ConnOf(g)])
         /\ \A d \in Conn \ {ConnOf(fd)} : cli'[d].at = "open" =>
              \E g \in LiveBackends \ {fd} : ConnOf(g) = d
         /\ \A d \in Conn \ {ConnOf(fd)} : cli'[d].at \in {"new", "queued"} =>
              cli'[d].read = 0 /\ cli'[d].out = <<>> /\ srv'[d].out = <<>>
<1>1. LiveBackends \subseteq Fd /\ LiveBackends' \subseteq Fd
  BY DEF LiveBackends
<1>2. LiveBackends' \ {fd} = LiveBackends \ {fd}
  BY DEF LiveBackends, Others
<1>3. ASSUME NEW g \in LiveBackends \ {fd}
      PROVE  /\ ConnOf(g) \in Conn /\ ConnOf(g) # ConnOf(fd) /\ ConnOf(g)' = ConnOf(g)
             /\ EntryOK(clients'[g], backends'[g], cli'[ConnOf(g)], srv'[ConnOf(g)])
  <2>1. ConnOf(g) \in Conn /\ ConnOf(g) # ConnOf(fd)
    BY SessionEntry DEF SessionInv, OneEntryEach
  <2>2. /\ clients'[g] = clients[g] /\ backends'[g] = backends[g]
        /\ cli'[ConnOf(g)] = cli[ConnOf(g)] /\ srv'[ConnOf(g)] = srv[ConnOf(g)]
    BY <1>1, <2>1 DEF Others
  <2>3. EntryOK(clients[g], backends[g], cli[ConnOf(g)], srv[ConnOf(g)])
    BY SessionEntry
  <2>4. ConnOf(g)' = ConnOf(g)
    BY <2>2 DEF ConnOf
  <2> QED
    BY <2>1, <2>2, <2>3, <2>4
<1>4. ASSUME NEW d \in Conn \ {ConnOf(fd)}
      PROVE  /\ cli'[d].at = "open" => \E g \in LiveBackends \ {fd} : ConnOf(g) = d
             /\ cli'[d].at \in {"new", "queued"} =>
                  cli'[d].read = 0 /\ cli'[d].out = <<>> /\ srv'[d].out = <<>>
  BY DEF Others, SessionInv, OneEntryEach, Untouched
<1> QED
  BY <1>2, <1>3, <1>4

LEMMA SessionStep ==
  ASSUME IInv, SessionInv, NEW fd \in LiveBackends, SessionChanges(fd)
  PROVE  SessionInv'
<1> DEFINE c == ConnOf(fd)
<1>1. fd \in Fd /\ c \in Conn
  BY LiveEntry
<1>2. CASE SessionEnds(fd)
  <2>1. Others(fd) /\ backends'[fd] = NoBackend /\ cli'[c].at = "closed"
    BY <1>2 DEF SessionEnds
  <2>2. LiveBackends' = LiveBackends \ {fd}
    <3>1. fd \notin LiveBackends'
      BY <2>1, NoBackendType DEF LiveBackends
    <3> QED
      BY <2>1, <3>1, OtherEntries
  <2>3. Entries'
    BY <2>1, <2>2, OtherEntries DEF Entries
  <2>4. OneEntryEach'
    <3>1. \A f, g \in LiveBackends' : ConnOf(f)' = ConnOf(g)' => f = g
      BY <2>1, <2>2, OtherEntries DEF SessionInv, OneEntryEach
    <3>2. \A d \in Conn : cli'[d].at = "open" => \E g \in LiveBackends' : ConnOf(g)' = d
      BY <2>1, <2>2, OtherEntries
    <3> QED
      BY <3>1, <3>2 DEF OneEntryEach
  <2>5. Untouched'
    BY <2>1, OtherEntries DEF Untouched
  <2> QED
    BY <2>3, <2>4, <2>5 DEF SessionInv
<1>3. CASE \/ BackendLeaves(fd) \/ PendingMoves(fd) \/ GivesUp(fd)
           \/ TakesDown(fd) \/ TakesUp(fd) \/ GivesDown(fd)
  <2>1. /\ clients'[fd].remoteAddr = c /\ backends'[fd].clientAddr = c
        /\ EntryOK(clients'[fd], backends'[fd], cli'[c], srv'[c])
        /\ Others(fd)
    BY <1>3, SessionStays
  <2>2. LiveBackends' = LiveBackends /\ ConnOf(fd)' = c
    <3>1. fd \in LiveBackends' /\ ConnOf(fd)' = c
      BY <1>1, <2>1, ConnAssumption DEF LiveBackends, ConnOf
    <3>2. LiveBackends' \ {fd} = LiveBackends \ {fd}
      BY <2>1, OtherEntries
    <3> QED
      BY ONLY fd \in LiveBackends, <3>1, <3>2
  <2>3. cli'[c].at = "open"
    BY <2>1 DEF EntryOK
  <2>4. Entries'
    BY <2>1, <2>2, OtherEntries DEF Entries
  <2>5. OneEntryEach'
    <3>1. \A f, g \in LiveBackends' : ConnOf(f)' = ConnOf(g)' => f = g
      BY <2>1, <2>2, OtherEntries DEF SessionInv, OneEntryEach
    <3>2. \A d \in Conn : cli'[d].at = "open" => \E g \in LiveBackends' : ConnOf(g)' = d
      BY <2>1, <2>2, OtherEntries
    <3> QED
      BY <3>1, <3>2 DEF OneEntryEach
  <2>6. Untouched'
    BY <2>1, <2>3, OtherEntries DEF Untouched
  <2> QED
    BY <2>4, <2>5, <2>6 DEF SessionInv
<1> QED
  BY <1>2, <1>3 DEF SessionChanges

\* A step that leaves tables and streams alone; a connection that never was open
\* may be queued or closed.
LEMMA QuietSessions ==
  ASSUME SessionInv, IInv, UNCHANGED tables,
         \A c \in Conn :
           \/ cli[c].at # "open" /\ cli'[c].at = "closed"
           \/ /\ cli'[c].at = cli[c].at \/ (cli[c].at = "new" /\ cli'[c].at = "queued")
              /\ cli'[c].read = cli[c].read /\ cli'[c].out = cli[c].out
              /\ srv'[c].read = srv[c].read /\ srv'[c].out = srv[c].out
  PROVE  SessionInv'
<1>1. /\ LiveBackends' = LiveBackends /\ clients' = clients /\ backends' = backends
      /\ \A fd : ConnOf(fd)' = ConnOf(fd)
  BY DEF tables, LiveBackends, ConnOf
<1>2. ASSUME NEW fd \in LiveBackends
      PROVE  EntryOK(clients[fd], backends[fd], cli'[ConnOf(fd)], srv'[ConnOf(fd)])
  <2> DEFINE c == ConnOf(fd)
  <2>1. c \in Conn /\ EntryOK(clients[fd], backends[fd], cli[c], srv[c])
    BY SessionEntry
  <2> HIDE DEF c
  <2>2. cli[c].at = "open"
    BY <2>1 DEF EntryOK
  <2>3. /\ cli'[c].at = "open" /\ cli'[c].read = cli[c].read /\ cli'[c].out = cli[c].out
        /\ srv'[c].read = srv[c].read /\ srv'[c].out = srv[c].out
    BY <2>1, <2>2
  <2>4. EntryOK(clients[fd], backends[fd], cli'[c], srv'[c])
    BY <2>1, <2>3 DEF EntryOK
  <2> QED
    BY <2>4 DEF c
<1>3. Entries'
  BY <1>1, <1>2 DEF Entries
<1>4. OneEntryEach'
  BY <1>1 DEF SessionInv, OneEntryEach
<1>5. Untouched'
  BY DEF SessionInv, Untouched
<1> QED
  BY <1>3, <1>4, <1>5 DEF SessionInv

LEMMA TurnedAwaySession ==
  ASSUME IInv, SessionInv, NEW c \in Conn, TurnedAway(c) PROVE SessionInv'
<1>1. cli \in [Conn -> CliType]
  BY TypeParts DEF IInv, KernelType
<1>2. /\ UNCHANGED <<tables, srv>> /\ cli[c].at = "queued"
      /\ cli' = [cli EXCEPT ![c] = ClosedEnd(cli[c])]
  BY DEF TurnedAway, Backlog
<1>3. ClosedEnd(cli[c]).at = "closed"
  BY <1>1 DEF ClosedEnd, CliType, EndType
<1> QED
  BY <1>1, <1>2, <1>3, QuietSessions

LEMMA QuietStepSession ==
  ASSUME IInv, SessionInv,
         \/ Select \/ Tick \/ AcceptDone \/ BackendsDone \/ ClientsDone \/ stop
         \/ UNCHANGED vars \/ Environment \/ \E c \in Conn : AcceptDenied(c)
  PROVE  SessionInv'
<1>1. cli \in [Conn -> CliType] /\ srv \in [Conn -> SrvType]
  BY TypeParts DEF IInv, KernelType
<1>2. CASE \/ Select \/ Tick \/ AcceptDone \/ BackendsDone \/ ClientsDone \/ stop
           \/ UNCHANGED vars
  <2>1. UNCHANGED <<tables, cli, srv>>
    BY <1>2 DEF Select, Tick, AcceptDone, BackendsDone, ClientsDone, stop, vars, kernel
  <2> QED
    BY <2>1, QuietSessions
<1>3. ASSUME NEW c \in Conn, AcceptDenied(c) PROVE SessionInv'
  BY <1>3, DeniedIsTurnedAway, TurnedAwaySession
<1>4. ASSUME NEW c \in Conn, \/ ClientConnects(c) \/ ClientSends(c) \/ ClientCloses(c)
      PROVE  SessionInv'
  <2>1. UNCHANGED <<tables, srv>> /\ \A d \in Conn : d # c => cli'[d] = cli[d]
    BY <1>1, <1>4 DEF ClientConnects, ClientSends, ClientCloses
  <2>2. /\ cli'[c].at = cli[c].at \/ (cli[c].at = "new" /\ cli'[c].at = "queued")
        /\ cli'[c].read = cli[c].read /\ cli'[c].out = cli[c].out
    BY <1>1, <1>4 DEF ClientConnects, ClientSends, ClientCloses, CliType, EndType
  <2> QED
    BY <2>1, <2>2, QuietSessions
<1>5. ASSUME NEW c \in Conn, \/ BackendAnswers(c) \/ BackendSends(c) \/ BackendEnds(c)
      PROVE  SessionInv'
  <2>1. UNCHANGED <<tables, cli>> /\ \A d \in Conn : d # c => srv'[d] = srv[d]
    BY <1>1, <1>5 DEF BackendAnswers, BackendSends, BackendEnds
  <2>2. srv'[c].read = srv[c].read /\ srv'[c].out = srv[c].out
    BY <1>1, <1>5 DEF BackendAnswers, BackendSends, BackendEnds, SrvType, EndType
  <2> QED
    BY <2>1, <2>2, QuietSessions
<1> QED
  BY <1>2, <1>3, <1>4, <1>5 DEF Environment

\* A session nothing has passed through yet.
LEMMA EmptyEntry ==
  ASSUME NEW st, NEW e, NEW ce, NEW se, st.remoteAddr \in Conn,
         st.recvBuf = <<>>, st.sendQueue = <<>>, e.pendingData = <<>>,
         e.backend.recvBuf = <<>>, e.backend.sendQueue = <<>>,
         (e.backend.connected \/ e.backend.connecting) <=> e.backend.fd # NB!NoFd,
         ~(e.backend.connected /\ e.backend.connecting),
         ce.at = "open", ce.read = 0, ce.out = <<>>,
         e.backend.fd # NB!NoFd => se.read = 0, se.out = <<>>
  PROVE  EntryOK(st, e, ce, se)
<1>1. /\ Stream(st.remoteAddr, "up", 0, 0) = <<>>
      /\ Stream(st.remoteAddr, "down", 0, 0) = <<>>
  BY StreamZero
<1>2. <<>> \o <<>> = <<>> /\ Len(<<>>) = 0
  OBVIOUS
<1> QED
  BY <1>1, <1>2 DEF EntryOK

\* A client is let in: its session starts with empty queues.
Admitted(fd, c) ==
  /\ fd \in LiveBackends' /\ ConnOf(fd)' = c
  /\ clients'[fd].sendQueue = <<>> /\ backends'[fd].pendingData = <<>>
  /\ backends'[fd].backend.sendQueue = <<>> /\ ~clients'[fd].pendingClose
  /\ BackendFd(fd)' = NB!NoFd => srv'[c] = srv[c]
  /\ cli[c].at = "queued" /\ cli'[c].out = <<>> /\ srv'[c].out = <<>>
  /\ \A g \in LiveBackends : clients'[g] = clients[g] /\ backends'[g] = backends[g]
  /\ \A d \in Conn : d # c => cli'[d] = cli[d] /\ srv'[d] = srv[d]

LEMMA AdmitSession ==
  ASSUME IInv, SessionInv, NEW c \in Conn, AcceptClient(c)
  PROVE  SessionInv' /\ \E fd \in Fd : Admitted(fd, c)
<1> DEFINE inTables(fd, nb) ==
             /\ clients' = [clients EXCEPT ![fd] = NewClient(c)]
             /\ backends' = [backends EXCEPT ![fd] = NewBackend(nb, c)]
           inKernel(nb) ==
             \/ nb = NB!Fresh /\ srv' = srv
             \/ \E b \in FreeFds, outcome \in {"inprogress", "immediate"} :
                  /\ nb = NB!connect(NB!Fresh, outcome, b)
                  /\ srv' = [srv EXCEPT ![c] =
                       NewEnd("open", IF outcome = "immediate" THEN "up" ELSE "syn")]
<1>1. PICK fd \in FreeFds : \E nb : inTables(fd, nb) /\ inKernel(nb)
  <2>1. PICK fd \in FreeFds :
         /\ IsLowest(fd, FreeFds)
         /\ clients' = [clients EXCEPT ![fd] = NewClient(c)]
         /\ cli' = [cli EXCEPT ![c].at = "open"]
         /\ \/ /\ backends' = [backends EXCEPT ![fd] =
                    NewBackend(NB!connect(NB!Fresh, "failed", NB!NoFd), c)]
               /\ sock' = [sock EXCEPT ![fd] = Socket("client", c)]
               /\ UNCHANGED srv
            \/ \E b \in FreeFds \ {fd}, outcome \in {"inprogress", "immediate"} :
                 /\ IsLowest(b, FreeFds \ {fd})
                 /\ backends' = [backends EXCEPT ![fd] =
                      NewBackend(NB!connect(NB!Fresh, outcome, b), c)]
                 /\ sock' = [sock EXCEPT ![fd] = Socket("client", c),
                                         ![b] = Socket("backend", c)]
                 /\ srv' = [srv EXCEPT ![c] =
                      NewEnd("open", IF outcome = "immediate" THEN "up" ELSE "syn")]
    BY Zenon DEF AcceptClient, Admit
  <2> HIDE DEF NB!Fresh
  <2>2. CASE /\ backends' = [backends EXCEPT ![fd] =
                  NewBackend(NB!connect(NB!Fresh, "failed", NB!NoFd), c)]
             /\ UNCHANGED srv
    <3>1. inTables(fd, NB!Fresh) /\ inKernel(NB!Fresh)
      BY <2>1, <2>2, ConnectType
    <3> QED
      BY <3>1
  <2>3. ASSUME NEW b \in FreeFds \ {fd}, NEW outcome \in {"inprogress", "immediate"},
               backends' = [backends EXCEPT ![fd] =
                 NewBackend(NB!connect(NB!Fresh, outcome, b), c)],
               srv' = [srv EXCEPT ![c] =
                 NewEnd("open", IF outcome = "immediate" THEN "up" ELSE "syn")]
        PROVE  \E nb : inTables(fd, nb) /\ inKernel(nb)
    <3> DEFINE new == NB!connect(NB!Fresh, outcome, b)
    <3>1. inTables(fd, new) /\ inKernel(new)
      BY <2>1, <2>3, Zenon
    <3> QED
      BY <3>1
  <2> QED
    BY <2>1, <2>2, <2>3
<1> PICK nb : inTables(fd, nb) /\ inKernel(nb)
  BY <1>1
<1>2. cli[c].at = "queued" /\ cli' = [cli EXCEPT ![c].at = "open"]
  BY Zenon DEF AcceptClient, Admit, Backlog
<1>3. /\ fd \in Fd /\ sock[fd] = Free
      /\ clients \in [Fd -> ClientType] /\ backends \in [Fd -> BackendType]
      /\ cli \in [Conn -> CliType] /\ srv \in [Conn -> SrvType]
      /\ LiveBackends \subseteq Fd
  BY TypeParts DEF IInv, TablesType, KernelType, FreeFds, LiveBackends
<1>4. fd \notin LiveBackends
  <2>1. \A d : Free # Socket("client", d)
    BY DEF Free, Socket
  <2> QED
    BY <1>3, <2>1, LiveEntry
<1>5. /\ clients'[fd] = NewClient(c) /\ backends'[fd] = NewBackend(nb, c)
      /\ \A g \in Fd : g # fd => clients'[g] = clients[g] /\ backends'[g] = backends[g]
  BY <1>3
<1>6. /\ cli'[c].at = "open" /\ cli'[c].read = 0 /\ cli'[c].out = <<>>
      /\ \A d \in Conn : d # c => cli'[d] = cli[d]
  BY <1>2, <1>3 DEF SessionInv, Untouched, CliType, EndType
<1>7. /\ nb.recvBuf = <<>> /\ nb.sendQueue = <<>>
      /\ (nb.connected \/ nb.connecting) <=> nb.fd # NB!NoFd
      /\ ~(nb.connected /\ nb.connecting)
      /\ nb.fd # NB!NoFd => srv'[c].read = 0
      /\ nb.fd = NB!NoFd => srv'[c] = srv[c]
      /\ srv'[c].out = <<>>
      /\ \A d \in Conn : d # c => srv'[d] = srv[d]
  <2>1. srv[c].out = <<>>
    BY <1>2 DEF SessionInv, Untouched
  <2>2. CASE nb = NB!Fresh /\ srv' = srv
    BY <2>1, <2>2 DEF NB!Fresh
  <2>3. ASSUME NEW b \in FreeFds, NEW outcome \in {"inprogress", "immediate"},
               nb = NB!connect(NB!Fresh, outcome, b),
               srv' = [srv EXCEPT ![c] =
                 NewEnd("open", IF outcome = "immediate" THEN "up" ELSE "syn")]
        PROVE  /\ nb.recvBuf = <<>> /\ nb.sendQueue = <<>>
               /\ nb.connected \/ nb.connecting
               /\ ~(nb.connected /\ nb.connecting)
               /\ nb.fd # NB!NoFd
               /\ srv'[c].read = 0 /\ srv'[c].out = <<>>
               /\ \A d \in Conn : d # c => srv'[d] = srv[d]
    <3>1. b # NB!NoFd
      BY NoFdNotInFd DEF FreeFds
    <3>2. nb = IF outcome = "inprogress"
               THEN [NB!Fresh EXCEPT !.fd = b, !.connecting = TRUE]
               ELSE [NB!Fresh EXCEPT !.fd = b, !.connected = TRUE]
      BY <2>3 DEF NB!connect, NB!Fresh
    <3>3. /\ nb.recvBuf = <<>> /\ nb.sendQueue = <<>> /\ nb.fd = b
          /\ nb.connected <=> outcome # "inprogress"
          /\ nb.connecting <=> outcome = "inprogress"
      BY <3>2 DEF NB!Fresh
    <3>4. /\ srv'[c].read = 0 /\ srv'[c].out = <<>>
          /\ \A d \in Conn : d # c => srv'[d] = srv[d]
      BY <1>3, <2>3 DEF NewEnd
    <3> QED
      BY <3>1, <3>3, <3>4
  <2> QED
    BY <2>2, <2>3
<1>8. EntryOK(clients'[fd], backends'[fd], cli'[c], srv'[c])
  <2>1. /\ NewClient(c).remoteAddr = c /\ NewClient(c).recvBuf = <<>>
        /\ NewClient(c).sendQueue = <<>>
        /\ NewBackend(nb, c).backend = nb /\ NewBackend(nb, c).pendingData = <<>>
    BY DEF NewClient, NewBackend
  <2> QED
    BY <1>5, <1>6, <1>7, <2>1, EmptyEntry
<1>9. \A g \in LiveBackends :
        /\ g # fd /\ ConnOf(g) \in Conn /\ ConnOf(g) # c /\ ConnOf(g)' = ConnOf(g)
        /\ EntryOK(clients'[g], backends'[g], cli'[ConnOf(g)], srv'[ConnOf(g)])
  <2> TAKE g \in LiveBackends
  <2>1. g # fd /\ ConnOf(g) \in Conn
    BY <1>4, SessionEntry
  <2>2. EntryOK(clients[g], backends[g], cli[ConnOf(g)], srv[ConnOf(g)])
    BY SessionEntry
  <2>3. ConnOf(g) # c
    BY <1>2, <2>2 DEF EntryOK
  <2>4. clients'[g] = clients[g] /\ backends'[g] = backends[g]
    BY <1>3, <1>5, <2>1
  <2>5. ConnOf(g)' = ConnOf(g)
    BY <2>4 DEF ConnOf
  <2>6. cli'[ConnOf(g)] = cli[ConnOf(g)] /\ srv'[ConnOf(g)] = srv[ConnOf(g)]
    BY <1>6, <1>7, <2>1, <2>3
  <2> QED
    BY <2>1, <2>2, <2>3, <2>4, <2>5, <2>6
<1>10. LiveBackends' = LiveBackends \cup {fd} /\ ConnOf(fd)' = c
  <2>1. clients'[fd].remoteAddr = c /\ backends'[fd].clientAddr = c /\ c # NoConn
    BY <1>5, ConnAssumption DEF NewClient, NewBackend
  <2> QED
    BY <1>3, <1>5, <2>1 DEF LiveBackends, ConnOf
<1>11. Entries'
  BY <1>8, <1>9, <1>10 DEF Entries
<1>12. OneEntryEach'
  <2>1. \A f, g \in LiveBackends' : ConnOf(f)' = ConnOf(g)' => f = g
    BY <1>9, <1>10 DEF SessionInv, OneEntryEach
  <2>2. \A d \in Conn : cli'[d].at = "open" => \E g \in LiveBackends' : ConnOf(g)' = d
    BY <1>6, <1>9, <1>10 DEF SessionInv, OneEntryEach
  <2> QED
    BY <2>1, <2>2 DEF OneEntryEach
<1>13. Untouched'
  BY <1>6, <1>7 DEF SessionInv, Untouched
<1>14. Admitted(fd, c)
  <2>1. /\ clients'[fd].sendQueue = <<>> /\ backends'[fd].pendingData = <<>>
        /\ ~clients'[fd].pendingClose
    BY <1>5 DEF NewClient, NewBackend
  <2>2. /\ backends'[fd].backend.sendQueue = <<>>
        /\ BackendFd(fd)' = NB!NoFd => srv'[c] = srv[c]
    BY <1>5, <1>7 DEF NewBackend, BackendFd
  <2>3. \A g \in LiveBackends : clients'[g] = clients[g] /\ backends'[g] = backends[g]
    BY <1>3, <1>4, <1>5
  <2> QED
    BY <1>2, <1>6, <1>7, <1>10, <2>1, <2>2, <2>3 DEF Admitted
<1> QED
  BY <1>3, <1>11, <1>12, <1>13, <1>14 DEF SessionInv

LEMMA CleanupSession == ASSUME IInv, SessionInv, Cleanup PROVE SessionInv'
<1> DEFINE all == (Live(clients) \cup {BackendFd(fd) : fd \in LiveBackends}) \ {NB!NoFd}
<1>1. /\ clients' = [fd \in Fd |-> NoClient] /\ backends' = [fd \in Fd |-> NoBackend]
      /\ CloseWith(all, cli)
      /\ cli \in [Conn -> CliType] /\ srv \in [Conn -> SrvType]
  BY TypeParts DEF Cleanup, Close, IInv, KernelType
<1>2. LiveBackends' = {}
  BY <1>1, NoBackendType DEF LiveBackends
<1>3. \A fd \in LiveBackends : fd \in all /\ sock[fd] = Socket("client", ConnOf(fd))
  BY LiveEntry, NoFdNotInFd
<1> HIDE DEF all
<1>4. ASSUME NEW c \in Conn
      PROVE  /\ cli'[c] \in {cli[c], ClosedEnd(cli[c])} /\ srv'[c] \in {srv[c], ClosedEnd(srv[c])}
             /\ cli[c].at = "open" => cli'[c] = ClosedEnd(cli[c])
  <2>1. cli[c].at = "open" => \E fd \in all : sock[fd] = Socket("client", c)
    BY <1>3 DEF SessionInv, OneEntryEach
  <2> QED
    BY <1>1, <2>1 DEF CloseWith
<1>5. ASSUME NEW c \in Conn
      PROVE  /\ ClosedEnd(cli[c]).at = "closed" /\ ClosedEnd(srv[c]).out = srv[c].out
  BY <1>1 DEF ClosedEnd, CliType, SrvType, EndType
<1>6. Entries' /\ OneEntryEach'
  BY <1>2, <1>4, <1>5 DEF Entries, OneEntryEach
<1>7. Untouched'
  BY <1>4, <1>5 DEF SessionInv, Untouched
<1> QED
  BY <1>6, <1>7 DEF SessionInv

LEMMA InitSession == ASSUME Init PROVE SessionInv
<1>1. LiveBackends = {}
  BY NoBackendType DEF Init, LiveBackends
<1>2. \A c \in Conn : /\ cli[c].at = "new" /\ cli[c].read = 0 /\ cli[c].out = <<>>
                      /\ srv[c].out = <<>>
  BY DEF Init, NewEnd
<1> QED
  BY <1>1, <1>2 DEF SessionInv, Entries, OneEntryEach, Untouched

LEMMA NextSession == ASSUME IInv, SessionInv, [Next]_vars PROVE SessionInv'
<1>1. CASE acceptClients
  BY <1>1, AdmitSession, QuietStepSession DEF acceptClients
<1>2. CASE Cleanup
  BY <1>2, CleanupSession
<1>3. ASSUME NEW fd \in Fd, processBackends(fd) \/ processClients(fd) PROVE SessionInv'
  BY <1>3, TurnEffect, SessionStep
<1>4. CASE Select \/ Tick \/ BackendsDone \/ ClientsDone \/ stop \/ UNCHANGED vars \/ Environment
  BY <1>4, QuietStepSession
<1> QED
  BY <1>1, <1>2, <1>3, <1>4 DEF Next, Loop

LEMMA AlwaysSession == Spec => [](IInv /\ SessionInv)
<1>1. Init => SessionInv
  BY InitSession
<1>2. IInv /\ SessionInv /\ [Next]_vars => SessionInv'
  BY NextSession
<1> QED
  BY <1>1, <1>2, AlwaysIInv, PTL DEF Spec

-----------------------------------------------------------------------------
(* The theorems about the streams.                                         *)

LEMMA SessionsWhole == ASSUME IInv, SessionInv PROVE UpstreamFifo /\ DownstreamFifo
<1>1. UpstreamFifo
  BY SessionEntry DEF UpstreamFifo, EntryOK
<1>2. DownstreamFifo
  <2>1. Live(clients) = LiveBackends
    BY DEF IInv, FdOwnership
  <2> QED
    BY <2>1, SessionEntry DEF DownstreamFifo, EntryOK, BackendFd
<1> QED
  BY <1>1, <1>2

\* For any number of clients and bytes: while a client's backend connection
\* exists, everything received from the client has been sent, is queued or is in
\* pendingData, in order and apart from everybody else's bytes, through the switch
\* from pendingData to the send queue and every short write
\* (src/TcpProxy.hpp:92-98, 206-216, src/TcpClientNB.hpp:195-232).
THEOREM UpstreamsWhole == Spec => []UpstreamFifo
<1>1. IInv /\ SessionInv => UpstreamFifo
  BY SessionsWhole
<1> QED
  BY <1>1, AlwaysSession, PTL

\* What a client was sent and what is queued for it is an initial part of its own
\* backend's stream, and while the connection lasts all that was received: also
\* when the backend has gone and the queue is being flushed
\* (src/TcpProxy.hpp:219-258, src/TcpServer.hpp:224-243).
THEOREM DownstreamsWhole == Spec => []DownstreamFifo
<1>1. IInv /\ SessionInv => DownstreamFifo
  BY SessionsWhole
<1> QED
  BY <1>1, AlwaysSession, PTL

-----------------------------------------------------------------------------
(* What select() reported still holds when the turn comes.                 *)

\* There is something to receive at an end of a connection.
HasInput(e) == e.sent > e.read \/ e.peer \in {"fin", "rst", "refused"}

\* An attempt that has its answer, or data to send.
HasOutput(b, e) == IF b.connecting THEN e.peer # "syn" ELSE b.sendQueue # <<>>

\* The halves of the turns that are still to come in this pass.
BackendWriteDue(fd) ==
  pc \in {"tick", "accept"} \/ (pc = "backends" /\ fd \in todo /\ cur # fd)
BackendReadDue(fd) ==
  pc \in {"tick", "accept"} \/ (pc = "backends" /\ fd \in todo)
ClientReadDue(fd) ==
  pc \in {"tick", "accept", "backends"} \/ (pc = "clients" /\ fd \in todo /\ cur # fd)
ClientWriteDue(fd) ==
  pc \in {"tick", "accept", "backends"} \/ (pc = "clients" /\ fd \in todo)

\* The reports about one entry that are still to be used are true.
ReportsHold(fd) ==
  LET c == ConnOf(fd)
  IN  /\ BackendWriteDue(fd) /\ BackendFd(fd) \in writeSet =>
           HasOutput(backends[fd].backend, srv[c])
      /\ BackendReadDue(fd) /\ BackendFd(fd) \in readSet => HasInput(srv[c])
      /\ ClientReadDue(fd) /\ fd \in readSet => HasInput(cli[c])
      /\ ClientWriteDue(fd) /\ fd \in writeSet => clients[fd].sendQueue # <<>>

Reports == \A fd \in LiveBackends : ReportsHold(fd)

LEMMA ReadableLive ==
  ASSUME IInv, NEW fd \in LiveBackends
  PROVE  /\ Readable(fd) <=> HasInput(cli[ConnOf(fd)])
         /\ BackendFd(fd) # NB!NoFd =>
              (Readable(BackendFd(fd)) <=> HasInput(srv[ConnOf(fd)]))
<1>1. /\ sock[fd] = Socket("client", ConnOf(fd))
      /\ BackendFd(fd) # NB!NoFd => sock[BackendFd(fd)] = Socket("backend", ConnOf(fd))
  BY LiveEntry
<1>2. \A kind, c : Socket(kind, c).kind = kind /\ Socket(kind, c).conn = c
  BY DEF Socket
<1> QED
  BY <1>1, <1>2 DEF Readable, HasInput

\* select() reports what is there.
LEMMA SelectReports == ASSUME IInv, Select PROVE Reports'
<1>1. /\ readSet' = {fd \in ReadInterest : Readable(fd)} \cup ListenReady
      /\ writeSet' \subseteq {fd \in WriteInterest : MayBeWritable(fd)}
      /\ UNCHANGED <<clients, backends, sock, cli, srv>>
  BY DEF Select, tables, kernel
<1>2. \A g \in ReadInterest \cup WriteInterest : g \in Live(clients) \/ sock[g].kind = "backend"
  <2>1. \A kind, c : Socket(kind, c).kind = kind
    BY DEF Socket
  <2>2. \A f \in LiveBackends : BackendFd(f) # NB!NoFd => sock[BackendFd(f)].kind = "backend"
    BY <2>1, LiveEntry
  <2> QED
    BY <2>2 DEF ReadInterest, WriteInterest
<1>3. ASSUME NEW fd \in LiveBackends PROVE ReportsHold(fd)'
  <2> DEFINE c == ConnOf(fd)
             b == BackendFd(fd)
  <2>1. /\ fd \in Fd /\ fd \in Live(clients) /\ c = backends[fd].clientAddr
        /\ sock[fd] = Socket("client", c)
        /\ b # NB!NoFd => sock[b] = Socket("backend", c)
        /\ b \in Fd \cup {NB!NoFd} /\ Live(clients) = LiveBackends
        /\ LiveBackends \subseteq Fd
    BY LiveEntry DEF IInv, FdOwnership, LiveBackends
  <2>2. ReadInterest \subseteq Fd /\ WriteInterest \subseteq Fd
    <3>1. \A f \in LiveBackends : BackendFd(f) \in Fd \cup {NB!NoFd}
      BY LiveEntry
    <3> QED
      BY <2>1, <3>1 DEF ReadInterest, WriteInterest
  <2>3. \A kind, d : Socket(kind, d).kind = kind /\ Socket(kind, d).conn = d
    BY DEF Socket
  <2>4. /\ \A f, g \in LiveBackends : BackendFd(f) # g
        /\ \A f \in LiveBackends : BackendFd(f) = b /\ b # NB!NoFd => f = fd
    <3>1. \A g \in LiveBackends : g # NB!NoFd /\ sock[g].kind = "client"
      BY <2>1, <2>3, LiveEntry, NoFdNotInFd
    <3>2. \A f \in LiveBackends : BackendFd(f) # NB!NoFd => sock[BackendFd(f)].kind = "backend"
      BY <2>3, LiveEntry
    <3>3. \A f \in LiveBackends : BackendFd(f) = b /\ b # NB!NoFd => f = fd
      BY DEF IInv, FdOwnership
    <3> QED
      BY <3>1, <3>2, <3>3
  <2>5. ASSUME b \in writeSet' PROVE HasOutput(backends[fd].backend, srv[c])
    <3>1. b \in WriteInterest /\ MayBeWritable(b) /\ b \in Fd /\ b # NB!NoFd
      BY <1>1, <2>2, <2>5, NoFdNotInFd
    <3>2. srv[c].peer # "syn"
      BY <2>1, <2>3, <3>1 DEF MayBeWritable
    <3>3. b \notin Live(clients)
      BY <2>1, <2>4
    <3>4. backends[fd].backend.connecting \/ backends[fd].backend.sendQueue # <<>>
      BY <2>4, <3>1, <3>3 DEF WriteInterest
    <3> QED
      BY <3>2, <3>4 DEF HasOutput
  <2>6. ASSUME b \in readSet' PROVE HasInput(srv[c])
    <3>1. Readable(b) /\ b # NB!NoFd
      BY <1>1, <2>1, <2>2, <2>6, NoFdNotInFd, FdAssumption DEF ListenReady, NB!NoFd
    <3> QED
      BY <3>1, ReadableLive
  <2>7. ASSUME fd \in readSet' PROVE HasInput(cli[c])
    <3>1. Readable(fd)
      BY <1>1, <2>1, <2>7, FdAssumption DEF ListenReady
    <3> QED
      BY <3>1, ReadableLive
  <2>8. ASSUME fd \in writeSet' PROVE clients[fd].sendQueue # <<>>
    <3>1. fd \in WriteInterest
      BY <1>1, <2>8
    <3> QED
      BY <2>4, <3>1 DEF WriteInterest
  <2>9. /\ ConnOf(fd)' = c /\ BackendFd(fd)' = b
    BY <1>1 DEF ConnOf, BackendFd
  <2> HIDE DEF c, b
  <2>10. UNCHANGED <<clients, backends, cli, srv>>
    BY <1>1
  <2> QED
    BY <2>5, <2>6, <2>7, <2>8, <2>9, <2>10 DEF ReportsHold
<1>4. LiveBackends' = LiveBackends
  BY <1>1 DEF LiveBackends
<1> QED
  BY <1>3, <1>4 DEF Reports

\* Nothing is taken from an entry by what happens outside its turn.
LEMMA EntryUndisturbed ==
  ASSUME Reports, NEW fd \in LiveBackends,
         UNCHANGED <<readSet, writeSet>>, ConnOf(fd)' = ConnOf(fd),
         clients'[fd].sendQueue = clients[fd].sendQueue,
         backends'[fd] = backends[fd],
         LET c == ConnOf(fd)
         IN  /\ HasInput(cli[c]) => HasInput(cli'[c])
             /\ HasInput(srv[c]) => HasInput(srv'[c])
             /\ srv[c].peer # "syn" => srv'[c].peer # "syn",
         BackendWriteDue(fd)' => BackendWriteDue(fd),
         BackendReadDue(fd)' => BackendReadDue(fd),
         ClientReadDue(fd)' => ClientReadDue(fd),
         ClientWriteDue(fd)' => ClientWriteDue(fd)
  PROVE  ReportsHold(fd)'
<1> DEFINE c == ConnOf(fd)
<1>1. ReportsHold(fd)
  BY DEF Reports
<1>2. BackendFd(fd)' = BackendFd(fd)
  BY DEF BackendFd
<1>3. HasOutput(backends[fd].backend, srv[c]) => HasOutput(backends'[fd].backend, srv'[c])
  BY DEF HasOutput
<1> QED
  BY <1>1, <1>2, <1>3 DEF ReportsHold

\* What a step of the environment leaves of what was reported.
LEMMA EnvironmentAddsInput ==
  ASSUME IInv, Environment
  PROVE  \A c \in Conn : /\ HasInput(cli[c]) => HasInput(cli'[c])
                         /\ HasInput(srv[c]) => HasInput(srv'[c])
                         /\ srv[c].peer # "syn" => srv'[c].peer # "syn"
<1>1. cli \in [Conn -> CliType] /\ srv \in [Conn -> SrvType]
  BY TypeParts DEF IInv, KernelType
<1>2. PICK d \in Conn : \/ ClientConnects(d) \/ ClientSends(d) \/ ClientCloses(d)
                        \/ BackendAnswers(d) \/ BackendSends(d) \/ BackendEnds(d)
  BY DEF Environment
<1>3. \A c \in Conn : c # d => cli'[c] = cli[c] /\ srv'[c] = srv[c]
  BY <1>1, <1>2 DEF ClientConnects, ClientSends, ClientCloses, BackendAnswers, BackendSends,
    BackendEnds
<1>4. cli[d] \in CliType /\ srv[d] \in SrvType
  BY <1>1
<1>5. CASE ClientConnects(d) \/ ClientSends(d) \/ ClientCloses(d)
  <2>1. srv' = srv
    BY <1>5 DEF ClientConnects, ClientSends, ClientCloses
  <2>2. HasInput(cli[d]) => HasInput(cli'[d])
    <3>1. cli[d].sent \in Nat /\ cli[d].read \in Nat
      BY <1>4 DEF CliType, EndType
    <3>2. \/ cli'[d].sent = cli[d].sent /\ cli'[d].read = cli[d].read /\ cli'[d].peer = cli[d].peer
          \/ cli'[d].sent = cli[d].sent + 1 /\ cli'[d].read = cli[d].read /\ cli'[d].peer = cli[d].peer
          \/ cli'[d].peer \in {"fin", "rst"}
      BY <1>1, <1>4, <1>5 DEF ClientConnects, ClientSends, ClientCloses, CliType, EndType
    <3> QED
      BY <3>1, <3>2 DEF HasInput
  <2> QED
    BY <1>3, <2>1, <2>2
<1>6. CASE BackendAnswers(d) \/ BackendSends(d) \/ BackendEnds(d)
  <2>1. cli' = cli
    BY <1>6 DEF BackendAnswers, BackendSends, BackendEnds
  <2>2. /\ HasInput(srv[d]) => HasInput(srv'[d])
        /\ srv[d].peer # "syn" => srv'[d].peer # "syn"
    <3>1. srv[d].sent \in Nat /\ srv[d].read \in Nat
      BY <1>4 DEF SrvType, EndType
    <3>2. \/ /\ srv'[d].sent = srv[d].sent /\ srv'[d].read = srv[d].read
             /\ srv[d].peer = "syn" /\ srv'[d].peer \in {"up", "refused"}
          \/ /\ srv'[d].sent = srv[d].sent + 1 /\ srv'[d].read = srv[d].read
             /\ srv'[d].peer = srv[d].peer
          \/ srv'[d].peer \in {"fin", "rst"}
      BY <1>1, <1>4, <1>6 DEF BackendAnswers, BackendSends, BackendEnds, SrvType, EndType
    <3> QED
      BY <3>1, <3>2 DEF HasInput
  <2> QED
    BY <1>3, <2>1, <2>2
<1> QED
  BY <1>2, <1>5, <1>6

\* Steps outside the turns, the accepts among them, leave the entries alone.
LEMMA QuietReports ==
  ASSUME IInv, Reports,
         \/ Tick \/ AcceptDone \/ BackendsDone \/ ClientsDone \/ stop
         \/ UNCHANGED vars \/ Environment
  PROVE  Reports'
<1>1. UNCHANGED <<clients, backends>> /\ LiveBackends' = LiveBackends
  BY DEF Tick, AcceptDone, BackendsDone, ClientsDone, stop, vars, Environment, ClientConnects,
    ClientSends, ClientCloses, BackendAnswers, BackendSends, BackendEnds, tables, LiveBackends
<1>2. ASSUME NEW fd \in LiveBackends
      PROVE  ConnOf(fd) \in Conn /\ ConnOf(fd)' = ConnOf(fd)
  BY <1>1, LiveEntry DEF ConnOf
<1>3. CASE ClientsDone
  BY <1>3 DEF ClientsDone, Reports, ReportsHold, BackendWriteDue, BackendReadDue,
    ClientReadDue, ClientWriteDue
<1>4. CASE Tick \/ AcceptDone \/ BackendsDone \/ stop \/ UNCHANGED vars
  <2>1. UNCHANGED <<readSet, writeSet, cli, srv>>
    BY <1>4 DEF Tick, AcceptDone, BackendsDone, stop, vars, EnterBackends, loopVars, kernel
  <2>2. ASSUME NEW fd \in LiveBackends
        PROVE  /\ BackendWriteDue(fd)' => BackendWriteDue(fd)
               /\ BackendReadDue(fd)' => BackendReadDue(fd)
               /\ ClientReadDue(fd)' => ClientReadDue(fd)
               /\ ClientWriteDue(fd)' => ClientWriteDue(fd)
    BY <1>4 DEF Tick, AcceptDone, BackendsDone, stop, vars, EnterBackends, loopVars,
      BackendWriteDue, BackendReadDue, ClientReadDue, ClientWriteDue
  <2>3. ASSUME NEW fd \in LiveBackends PROVE ReportsHold(fd)'
    BY <1>1, <1>2, <2>1, <2>2, EntryUndisturbed
  <2> QED
    BY <1>1, <2>3 DEF Reports
<1>5. CASE Environment
  <2>1. UNCHANGED <<readSet, writeSet, pc, todo, cur>>
    BY <1>5 DEF Environment, ClientConnects, ClientSends, ClientCloses, BackendAnswers,
      BackendSends, BackendEnds, loopVars
  <2>2. ASSUME NEW fd \in LiveBackends
        PROVE  /\ BackendWriteDue(fd)' => BackendWriteDue(fd)
               /\ BackendReadDue(fd)' => BackendReadDue(fd)
               /\ ClientReadDue(fd)' => ClientReadDue(fd)
               /\ ClientWriteDue(fd)' => ClientWriteDue(fd)
    BY <2>1 DEF BackendWriteDue, BackendReadDue, ClientReadDue, ClientWriteDue
  <2>3. ASSUME NEW fd \in LiveBackends PROVE ReportsHold(fd)'
    BY <1>1, <1>2, <1>5, <2>1, <2>2, EnvironmentAddsInput, EntryUndisturbed
  <2> QED
    BY <1>1, <2>3 DEF Reports
<1> QED
  BY <1>3, <1>4, <1>5

\* A refused client is none of the entries.
LEMMA TurnedAwayReports ==
  ASSUME IInv, SessionInv, Reports, NEW d \in Conn, TurnedAway(d) PROVE Reports'
<1>1. /\ UNCHANGED <<clients, backends, srv, readSet, writeSet, pc, todo, cur>>
      /\ cli[d].at = "queued" /\ cli' = [cli EXCEPT ![d] = ClosedEnd(@)]
  BY DEF TurnedAway, Backlog, loopVars, tables
<1>2. LiveBackends' = LiveBackends
  BY <1>1 DEF LiveBackends
<1>3. ASSUME NEW fd \in LiveBackends PROVE ReportsHold(fd)'
  <2>1. ConnOf(fd) # d /\ ConnOf(fd) \in Conn
    BY <1>1, SessionEntry DEF EntryOK
  <2>2. cli'[ConnOf(fd)] = cli[ConnOf(fd)]
    BY <1>1, <2>1, SessionEntry
  <2>3. ConnOf(fd)' = ConnOf(fd)
    BY <1>1 DEF ConnOf
  <2>4. /\ BackendWriteDue(fd)' => BackendWriteDue(fd)
        /\ BackendReadDue(fd)' => BackendReadDue(fd)
        /\ ClientReadDue(fd)' => ClientReadDue(fd)
        /\ ClientWriteDue(fd)' => ClientWriteDue(fd)
    BY <1>1 DEF BackendWriteDue, BackendReadDue, ClientReadDue, ClientWriteDue
  <2> QED
    BY <1>1, <2>2, <2>3, <2>4, EntryUndisturbed
<1> QED
  BY <1>2, <1>3 DEF Reports

\* Neither is a new one, whose descriptors are in neither set.
LEMMA AdmittedReports ==
  ASSUME IInv, SessionInv, ReportedOpen, Reports, NEW d \in Conn, AcceptClient(d),
         (IInv /\ SessionInv)'
  PROVE  Reports'
<1>1. PICK new \in Fd : Admitted(new, d)
  BY AdmitSession
<1>2. UNCHANGED <<readSet, writeSet, pc, todo, cur>> /\ pc = "accept"
  BY DEF AcceptClient, Admit, loopVars
<1>3. LiveBackends \subseteq Fd
  BY DEF LiveBackends
<1>4. ASSUME NEW fd \in LiveBackends PROVE ReportsHold(fd)'
  <2>1. ConnOf(fd) # d /\ ConnOf(fd) \in Conn
    BY <1>1, SessionEntry DEF EntryOK, Admitted
  <2>2. /\ cli'[ConnOf(fd)] = cli[ConnOf(fd)] /\ srv'[ConnOf(fd)] = srv[ConnOf(fd)]
        /\ clients'[fd] = clients[fd] /\ backends'[fd] = backends[fd]
    BY <1>1, <2>1 DEF Admitted
  <2>3. ConnOf(fd)' = ConnOf(fd)
    BY <2>2 DEF ConnOf
  <2>4. /\ BackendWriteDue(fd)' => BackendWriteDue(fd)
        /\ BackendReadDue(fd)' => BackendReadDue(fd)
        /\ ClientReadDue(fd)' => ClientReadDue(fd)
        /\ ClientWriteDue(fd)' => ClientWriteDue(fd)
    BY <1>2 DEF BackendWriteDue, BackendReadDue, ClientReadDue, ClientWriteDue
  <2> QED
    BY <1>2, <2>2, <2>3, <2>4, EntryUndisturbed
<1>5. ASSUME NEW fd \in LiveBackends', fd \notin LiveBackends PROVE ReportsHold(fd)'
  <2>1. PICK f \in FreeFds : \E b \in (FreeFds \ {f}) \cup {NB!NoFd} :
          /\ clients' = [clients EXCEPT ![f] = NewClient(d)]
          /\ \E nb : nb.fd = b /\ backends' = [backends EXCEPT ![f] = NewBackend(nb, d)]
    <3>1. PICK f \in FreeFds :
           /\ IsLowest(f, FreeFds)
           /\ clients' = [clients EXCEPT ![f] = NewClient(d)]
           /\ cli' = [cli EXCEPT ![d].at = "open"]
           /\ \/ /\ backends' = [backends EXCEPT ![f] =
                      NewBackend(NB!connect(NB!Fresh, "failed", NB!NoFd), d)]
                 /\ sock' = [sock EXCEPT ![f] = Socket("client", d)]
                 /\ UNCHANGED srv
              \/ \E b \in FreeFds \ {f}, outcome \in {"inprogress", "immediate"} :
                   /\ IsLowest(b, FreeFds \ {f})
                   /\ backends' = [backends EXCEPT ![f] =
                        NewBackend(NB!connect(NB!Fresh, outcome, b), d)]
                   /\ sock' = [sock EXCEPT ![f] = Socket("client", d),
                                           ![b] = Socket("backend", d)]
                   /\ srv' = [srv EXCEPT ![d] =
                        NewEnd("open", IF outcome = "immediate" THEN "up" ELSE "syn")]
      BY Zenon DEF AcceptClient, Admit
    <3>2. /\ NB!connect(NB!Fresh, "failed", NB!NoFd).fd = NB!NoFd
          /\ \A b \in FreeFds, outcome \in {"inprogress", "immediate"} :
               NB!connect(NB!Fresh, outcome, b).fd = b
      BY ConnectType, FreshType DEF FreeFds
    <3> HIDE DEF NB!Fresh
    <3>3. CASE backends' = [backends EXCEPT ![f] =
                 NewBackend(NB!connect(NB!Fresh, "failed", NB!NoFd), d)]
      BY <3>1, <3>2, <3>3
    <3>4. ASSUME NEW b \in FreeFds \ {f}, NEW outcome \in {"inprogress", "immediate"},
                 backends' = [backends EXCEPT ![f] =
                   NewBackend(NB!connect(NB!Fresh, outcome, b), d)]
          PROVE  \E bfd \in (FreeFds \ {f}) \cup {NB!NoFd} :
                   \E nb : nb.fd = bfd /\ backends' = [backends EXCEPT ![f] = NewBackend(nb, d)]
      BY <3>2, <3>4
    <3> QED
      BY <3>1, <3>3, <3>4
  <2>2. f \in Fd /\ clients \in [Fd -> ClientType] /\ backends \in [Fd -> BackendType]
    BY TypeParts DEF IInv, TablesType, FreeFds
  <2>3. fd = f
    BY <1>5, <2>1, <2>2 DEF LiveBackends
  <2>4. PICK b \in (FreeFds \ {f}) \cup {NB!NoFd} :
          \E nb : nb.fd = b /\ backends' = [backends EXCEPT ![f] = NewBackend(nb, d)]
    BY <2>1
  <2>5. BackendFd(fd)' = b
    BY <2>2, <2>3, <2>4 DEF BackendFd, NewBackend
  <2>6. fd \notin readSet \cup writeSet
    BY <1>2, <2>3 DEF ReportedOpen, FreeFds
  <2>7. b \notin readSet \cup writeSet
    <3>1. NB!NoFd \notin readSet \cup writeSet
      BY TypeParts, NoFdNotInFd, FdAssumption DEF IInv, LoopType, NB!NoFd
    <3> QED
      BY <1>2, <3>1 DEF ReportedOpen, FreeFds
  <2> QED
    BY <1>2, <2>5, <2>6, <2>7 DEF ReportsHold
<1> QED
  BY <1>4, <1>5 DEF Reports

\* A step of a turn, by the half it is.
LEMMA TurnHalves ==
  ASSUME IInv, SessionInv, NEW fd \in Fd, processBackends(fd) \/ processClients(fd)
  PROVE  /\ fd \in LiveBackends /\ fd \in todo /\ cur \in {NB!NoFd, fd}
         /\ UNCHANGED <<pc, readSet, writeSet>>
         /\ todo' \subseteq todo
         /\ \/ SessionEnds(fd)
            \/ /\ pc = "backends" /\ fd \notin todo'
               /\ \/ BackendLeaves(fd) \/ PendingMoves(fd) \/ GivesUp(fd) \/ TakesDown(fd)
            \/ pc = "backends" /\ cur' = fd /\ (PendingMoves(fd) \/ GivesUp(fd))
            \/ pc = "clients" /\ fd \notin todo' /\ (TakesUp(fd) \/ GivesDown(fd))
            \/ pc = "clients" /\ cur' = fd /\ TakesUp(fd)
<1>1. /\ fd \in LiveBackends /\ NB!NoFd \notin readSet \cup writeSet
  BY TurnEntry DEF processBackends, processClients, BackendFailed, BackendConnected,
    BackendWrites, BackendWriteFails, BackendReads, BackendReadFails, BackendCloses, WriteHalf,
    ReadHalf, ClientReads, ClientReadEnds, ClientWrites, ClientWriteFails, ClientReadHalf,
    ClientWriteHalf
<1>2. CASE BackendFailed(fd) \/ ClientReadEnds(fd) \/ ClientWriteFails(fd)
  BY <1>1, <1>2, CloseEffect DEF BackendFailed, ClientReadEnds, ClientWriteFails, EndTurn,
    ClientReadHalf, ClientWriteHalf, BackendTurn, ClientTurn
<1>3. CASE BackendWriteFails(fd)
  BY <1>1, <1>3, LostEffect DEF BackendWriteFails, WriteHalf, BackendTurn, AfterWriteHalf, EndTurn
<1>4. CASE BackendReadFails(fd)
  BY <1>1, <1>4, LostEffect DEF BackendReadFails, ReadHalf, BackendTurn, EndTurn
<1>5. CASE BackendCloses(fd)
  BY <1>1, <1>5, LostEffect, CloseEffect DEF BackendCloses, ReadHalf, BackendTurn, EndTurn
<1>6. CASE BackendConnected(fd)
  BY <1>1, <1>6, BackendConnectedEffect DEF BackendConnected, WriteHalf, BackendTurn,
    AfterWriteHalf, EndTurn
<1>7. CASE BackendWrites(fd)
  BY <1>1, <1>7, BackendWritesEffect DEF BackendWrites, WriteHalf, BackendTurn,
    AfterWriteHalf, EndTurn
<1>8. CASE BackendReads(fd)
  BY <1>1, <1>8, BackendReadsEffect DEF BackendReads, ReadHalf, BackendTurn, EndTurn
<1>9. CASE ClientReads(fd)
  BY <1>1, <1>9, ClientReadsEffect DEF ClientReads, ClientReadHalf, ClientTurn, EndTurn
<1>10. CASE ClientWrites(fd)
  BY <1>1, <1>10, ClientWritesEffect DEF ClientWrites, ClientWriteHalf, ClientTurn, EndTurn
<1> QED
  BY <1>2, <1>3, <1>4, <1>5, <1>6, <1>7, <1>8, <1>9, <1>10 DEF processBackends, processClients

\* The write half of a backend turn leaves what the read half looks at.
LEMMA WriteHalfKeeps ==
  ASSUME IInv, SessionInv, NEW fd \in LiveBackends, PendingMoves(fd) \/ GivesUp(fd)
  PROVE  LET c == ConnOf(fd)
         IN  /\ clients'[fd] = clients[fd] /\ cli'[c] = cli[c]
             /\ BackendFd(fd)' = BackendFd(fd)
             /\ srv'[c].peer = srv[c].peer /\ srv'[c].sent = srv[c].sent
             /\ srv'[c].read = srv[c].read
<1> DEFINE c == ConnOf(fd)
<1>1. /\ backends[fd] \in BackendType /\ backends[fd].backend \in NBType /\ srv[c] \in SrvType
  BY SessionEntry
<1>2. CASE PendingMoves(fd)
  <2>1. PICK b : backends'[fd] = [backends[fd] EXCEPT !.backend = b, !.pendingData = <<>>]
                 /\ b.fd = BackendFd(fd)
    <3> DEFINE b == [backends[fd].backend EXCEPT
                       !.connecting = FALSE, !.connected = TRUE,
                       !.sendQueue = backends[fd].backend.sendQueue \o backends[fd].pendingData]
    <3>1. b.fd = BackendFd(fd)
      BY <1>1 DEF NBType, BackendFd
    <3> QED
      BY <1>2, <3>1 DEF PendingMoves
  <2>2. BackendFd(fd)' = BackendFd(fd)
    BY <1>1, <2>1 DEF BackendFd, BackendType
  <2> QED
    BY <1>2, <2>2 DEF PendingMoves
<1>3. CASE GivesUp(fd)
  <2>1. PICK s, t : /\ backends'[fd] = [backends[fd] EXCEPT !.backend =
                         [backends[fd].backend EXCEPT !.sendQueue = s]]
                    /\ srv'[c] = [srv[c] EXCEPT !.out = @ \o t]
                    /\ clients'[fd] = clients[fd] /\ cli'[c] = cli[c]
    BY <1>3 DEF GivesUp
  <2>2. backends'[fd].backend = [backends[fd].backend EXCEPT !.sendQueue = s]
    BY <1>1, <2>1 DEF BackendType
  <2>3. BackendFd(fd)' = BackendFd(fd)
    BY <1>1, <2>2 DEF BackendFd, NBType
  <2>4. srv'[c].peer = srv[c].peer /\ srv'[c].sent = srv[c].sent /\ srv'[c].read = srv[c].read
    BY <1>1, <2>1 DEF SrvType, EndType
  <2> QED
    BY <2>1, <2>3, <2>4
<1> QED
  BY <1>2, <1>3

\* What a turn leaves of the reports about its own entry.
LEMMA OwnReports ==
  ASSUME IInv, SessionInv, Reports, NEW fd \in Fd, processBackends(fd) \/ processClients(fd),
         fd \in LiveBackends'
  PROVE  ReportsHold(fd)'
<1> DEFINE c == ConnOf(fd)
           st == clients[fd]
<1>1. /\ fd \in LiveBackends /\ fd \in todo /\ cur \in {NB!NoFd, fd}
      /\ UNCHANGED <<pc, readSet, writeSet>> /\ todo' \subseteq todo
  BY TurnHalves
<1>2. /\ clients[fd] \in ClientType /\ backends[fd] \in BackendType
      /\ backends[fd].backend \in NBType /\ cli[c] \in CliType /\ srv[c] \in SrvType
      /\ c \in Conn
  BY <1>1, SessionEntry
<1>3. ~SessionEnds(fd)
  BY NoBackendType DEF LiveBackends, SessionEnds
<1>4. ReportsHold(fd)
  BY <1>1 DEF Reports
<1>5. CASE pc = "backends"
  <2>1. \/ /\ fd \notin todo'
           /\ BackendLeaves(fd) \/ PendingMoves(fd) \/ GivesUp(fd) \/ TakesDown(fd)
        \/ cur' = fd /\ (PendingMoves(fd) \/ GivesUp(fd))
    BY <1>3, <1>5, TurnHalves
  <2>2. /\ cli'[c] = cli[c] /\ clients'[fd].remoteAddr = c
        /\ st.sendQueue # <<>> => clients'[fd].sendQueue # <<>>
    <3>1. CASE BackendLeaves(fd) \/ PendingMoves(fd) \/ GivesUp(fd)
      BY <1>2, <3>1 DEF BackendLeaves, PendingMoves, GivesUp, ClientType, ConnOf
    <3>2. CASE TakesDown(fd)
      <4>1. PICK data \in Seq(Byte) : clients'[fd] = [st EXCEPT !.sendQueue = @ \o data]
        <5>1. PICK n \in 1..(srv[c].sent - srv[c].read) :
                clients'[fd] = [st EXCEPT !.sendQueue =
                                  @ \o Stream(c, "down", srv[c].read, srv[c].read + n)]
          BY <3>2 DEF TakesDown
        <5>2. srv[c].read \in Nat /\ n \in Nat
          BY <1>2 DEF SrvType, EndType
        <5>3. Stream(c, "down", srv[c].read, srv[c].read + n) \in Seq(Byte)
          BY <1>2, <5>2, StreamType
        <5> QED
          BY <5>1, <5>3
      <4>2. st.sendQueue \in Seq(Byte)
        BY <1>2 DEF ClientType
      <4>3. st.sendQueue # <<>> => st.sendQueue \o data # <<>>
        BY <4>2
      <4> QED
        BY <1>2, <3>2, <4>1, <4>3 DEF TakesDown, ClientType, ConnOf
    <3> QED
      BY <2>1, <3>1, <3>2
  <2>3. /\ ConnOf(fd)' = c
        /\ ClientReadDue(fd) /\ ClientWriteDue(fd) /\ BackendReadDue(fd)
    BY <1>1, <1>5, <2>2 DEF ConnOf, ClientReadDue, ClientWriteDue, BackendReadDue
  <2>4. CASE fd \notin todo'
    <3>1. ~BackendWriteDue(fd)' /\ ~BackendReadDue(fd)'
      BY <1>1, <1>5, <2>4 DEF BackendWriteDue, BackendReadDue
    <3> QED
      BY <1>1, <1>4, <2>2, <2>3, <3>1 DEF ReportsHold
  <2>5. CASE cur' = fd /\ (PendingMoves(fd) \/ GivesUp(fd))
    <3>1. ~BackendWriteDue(fd)'
      BY <1>1, <1>5, <2>5 DEF BackendWriteDue
    <3>2. /\ HasInput(srv[c]) => HasInput(srv'[c])
          /\ BackendFd(fd)' = BackendFd(fd)
      BY <1>1, <2>5, WriteHalfKeeps DEF HasInput
    <3> QED
      BY <1>1, <1>4, <2>2, <2>3, <3>1, <3>2 DEF ReportsHold
  <2> QED
    BY <2>1, <2>4, <2>5
<1>6. CASE pc = "clients"
  <2>1. \/ fd \notin todo'
        \/ cur' = fd /\ TakesUp(fd)
    BY <1>3, <1>6, TurnHalves
  <2>2. ~BackendWriteDue(fd)' /\ ~BackendReadDue(fd)'
    BY <1>1, <1>6 DEF BackendWriteDue, BackendReadDue
  <2>3. ~ClientReadDue(fd)'
    BY <1>1, <1>6, <2>1 DEF ClientReadDue
  <2>4. CASE fd \notin todo'
    <3>1. ~ClientWriteDue(fd)'
      BY <1>1, <1>6, <2>4 DEF ClientWriteDue
    <3> QED
      BY <2>2, <2>3, <3>1 DEF ReportsHold
  <2>5. CASE TakesUp(fd)
    <3>1. clients'[fd] = clients[fd] /\ ClientWriteDue(fd)
      BY <1>1, <1>6, <2>5 DEF TakesUp, ClientWriteDue
    <3> QED
      BY <1>1, <1>4, <2>2, <2>3, <3>1 DEF ReportsHold
  <2> QED
    BY <2>1, <2>4, <2>5
<1> QED
  BY <1>1, <1>5, <1>6, TurnHalves, <1>3

LEMMA TurnReports ==
  ASSUME IInv, SessionInv, Reports, NEW fd \in Fd, processBackends(fd) \/ processClients(fd)
  PROVE  Reports'
<1>1. /\ fd \in LiveBackends /\ cur \in {NB!NoFd, fd}
      /\ UNCHANGED <<pc, readSet, writeSet>> /\ todo' \subseteq todo
      /\ Others(fd)
  BY TurnHalves, TurnEffect DEF SessionChanges, SessionEnds, BackendLeaves, PendingMoves, GivesUp,
    TakesDown, TakesUp, GivesDown
<1>2. ASSUME NEW g \in LiveBackends', g # fd PROVE ReportsHold(g)'
  <2>1. g \in LiveBackends /\ ConnOf(g) \in Conn /\ ConnOf(g) # ConnOf(fd) /\ ConnOf(g)' = ConnOf(g)
    BY <1>1, <1>2, OtherEntries
  <2>2. g \in Fd /\ g # NB!NoFd
    BY <2>1, NoFdNotInFd DEF LiveBackends
  <2>3. /\ cli'[ConnOf(g)] = cli[ConnOf(g)] /\ srv'[ConnOf(g)] = srv[ConnOf(g)]
        /\ clients'[g] = clients[g] /\ backends'[g] = backends[g]
    BY <1>1, <1>2, <2>1, <2>2 DEF Others
  <2>4. /\ BackendWriteDue(g)' => BackendWriteDue(g)
        /\ BackendReadDue(g)' => BackendReadDue(g)
        /\ ClientReadDue(g)' => ClientReadDue(g)
        /\ ClientWriteDue(g)' => ClientWriteDue(g)
    BY <1>1, <1>2, <2>2 DEF BackendWriteDue, BackendReadDue, ClientReadDue, ClientWriteDue
  <2> QED
    BY <1>1, <2>1, <2>3, <2>4, EntryUndisturbed
<1> QED
  BY <1>2, OwnReports DEF Reports

LEMMA NextReports ==
  ASSUME IInv, SessionInv, ReportedOpen, Reports, [Next]_vars, (IInv /\ SessionInv)'
  PROVE  Reports'
<1>1. CASE acceptClients
  BY <1>1, QuietReports, DeniedIsTurnedAway, TurnedAwayReports, AdmittedReports DEF acceptClients
<1>2. CASE Cleanup
  BY <1>2, NoBackendType DEF Cleanup, Reports, LiveBackends
<1>3. ASSUME NEW fd \in Fd, processBackends(fd) \/ processClients(fd) PROVE Reports'
  BY <1>3, TurnReports
<1>4. CASE Select
  BY <1>4, SelectReports
<1>5. CASE Tick \/ BackendsDone \/ ClientsDone \/ stop \/ UNCHANGED vars \/ Environment
  BY <1>5, QuietReports
<1> QED
  BY <1>1, <1>2, <1>3, <1>4, <1>5 DEF Next, Loop

LEMMA ReportsReady == ASSUME IInv, Reports PROVE ReportedIsReady
<1>1. TodoLive /\ Live(clients) = LiveBackends
  BY DEF IInv, FdOwnership
<1>2. ASSUME pc = "backends", NEW fd \in todo
      PROVE  /\ fd \in LiveBackends
             /\ cur # fd /\ BackendFd(fd) \in writeSet =>
                  IF backends[fd].backend.connecting
                  THEN srv[backends[fd].clientAddr].peer # "syn"
                  ELSE backends[fd].backend.sendQueue # <<>>
             /\ BackendFd(fd) \in readSet => Readable(BackendFd(fd))
  <2>1. fd \in LiveBackends /\ ConnOf(fd) = backends[fd].clientAddr /\ ReportsHold(fd)
    BY <1>1, <1>2, LiveEntry DEF TodoLive, Reports
  <2>2. NB!NoFd \notin readSet
    BY TypeParts, NoFdNotInFd, FdAssumption DEF IInv, LoopType, NB!NoFd
  <2> QED
    BY <1>2, <2>1, <2>2, ReadableLive
      DEF ReportsHold, HasOutput, BackendWriteDue, BackendReadDue
<1>3. ASSUME pc = "clients", NEW fd \in todo
      PROVE  /\ fd \in Live(clients)
             /\ fd \in writeSet => clients[fd].sendQueue # <<>>
             /\ cur # fd /\ fd \in readSet => Readable(fd)
  <2>1. fd \in LiveBackends /\ ReportsHold(fd)
    BY <1>1, <1>3 DEF TodoLive, Reports
  <2> QED
    BY <1>1, <1>3, <2>1, ReadableLive DEF ReportsHold, ClientReadDue, ClientWriteDue
<1> QED
  BY <1>2, <1>3 DEF ReportedIsReady

\* What select() reported still holds when the turn comes, whatever accepts,
\* closes, turns of others and steps of the peers came in between: the entry is
\* there, a read does not come back empty-handed and a write has something to
\* write (src/TcpServer.hpp:140-165, src/TcpProxy.hpp:177-231).
THEOREM ReportsStay == Spec => []ReportedIsReady
<1>1. Init => ReportedOpen /\ Reports
  BY NoBackendType DEF Init, ReportedOpen, Reports, LiveBackends
<1>2. /\ IInv /\ SessionInv /\ ReportedOpen /\ Reports /\ [Next]_vars /\ (IInv /\ SessionInv)'
      => (ReportedOpen /\ Reports)'
  BY NextReports, ReportedOpenNext
<1>3. IInv /\ Reports => ReportedIsReady
  BY ReportsReady
<1> QED
  BY <1>1, <1>2, <1>3, AlwaysSession, PTL DEF Spec

\* A descriptor without a client has nothing left of an earlier one.
Blank == \A fd \in Fd \ LiveBackends : clients[fd] = NoClient /\ backends[fd] = NoBackend

LEMMA NextBlank == ASSUME IInv, SessionInv, Blank, [Next]_vars PROVE Blank'
<1> DEFINE gone(fd) == clients'[fd] = NoClient /\ backends'[fd] = NoBackend
<1>1. /\ clients \in [Fd -> ClientType] /\ backends \in [Fd -> BackendType]
      /\ \A fd \in LiveBackends : fd \in Fd
  BY TypeParts DEF IInv, TablesType, LiveBackends
<1>2. ASSUME NEW fd \in Fd, gone(fd) \/ backends'[fd].clientAddr # NoConn,
             \A g \in Fd : g # fd => clients'[g] = clients[g] /\ backends'[g] = backends[g]
      PROVE  Blank'
  BY <1>2 DEF Blank, LiveBackends
<1>3. CASE UNCHANGED tables
  BY <1>3 DEF tables, Blank, LiveBackends
<1>4. ASSUME NEW fd \in Fd, processBackends(fd) \/ processClients(fd) PROVE Blank'
  <2>1. fd \in LiveBackends /\ SessionChanges(fd)
    BY <1>4, TurnEffect
  <2>2. /\ Others(fd)
        /\ gone(fd) \/ backends'[fd].clientAddr = backends[fd].clientAddr
    <3>1. backends[fd] \in BackendType
      BY <1>1, <2>1
    <3>2. CASE SessionEnds(fd) \/ TakesDown(fd) \/ GivesDown(fd)
      BY <3>2, Zenon DEF SessionEnds, TakesDown, GivesDown
    <3>3. CASE BackendLeaves(fd) \/ PendingMoves(fd) \/ GivesUp(fd)
      BY <3>1, <3>3 DEF BackendLeaves, PendingMoves, GivesUp, BackendType
    <3>4. CASE TakesUp(fd)
      <4>1. /\ Others(fd)
            /\ \/ \E b : backends'[fd] = [backends[fd] EXCEPT !.backend = b]
               \/ \E q : backends'[fd] = [backends[fd] EXCEPT !.pendingData = q]
               \/ backends'[fd] = backends[fd]
        BY <3>4, Zenon DEF TakesUp
      <4> QED
        BY <3>1, <4>1 DEF BackendType
    <3> QED
      BY <2>1, <3>2, <3>3, <3>4 DEF SessionChanges
  <2> QED
    BY <1>2, <2>1, <2>2 DEF Others, LiveBackends
<1>5. ASSUME NEW c \in Conn, AcceptClient(c) PROVE Blank'
  <2>1. \E fd \in Fd : \E nb :
           /\ clients' = [clients EXCEPT ![fd] = NewClient(c)]
           /\ backends' = [backends EXCEPT ![fd] = NewBackend(nb, c)]
    BY <1>5, Zenon DEF AcceptClient, Admit, FreeFds
  <2> QED
    BY <1>1, <1>2, <2>1, ConnAssumption DEF NewBackend
<1>6. CASE Cleanup
  BY <1>6 DEF Cleanup, Blank
<1>7. CASE \/ Select \/ Tick \/ AcceptDone \/ BackendsDone \/ ClientsDone \/ stop
           \/ UNCHANGED vars \/ Environment \/ \E c \in Conn : AcceptDenied(c)
  BY <1>3, <1>7 DEF Select, Tick, AcceptDone, BackendsDone, ClientsDone, stop, vars, tables,
    AcceptDenied, Environment, ClientConnects, ClientSends, ClientCloses, BackendAnswers,
    BackendSends, BackendEnds
<1> QED
  BY <1>4, <1>5, <1>6, <1>7 DEF Next, Loop, acceptClients

\* All of it, for the proxies that are built on this one.
Forwarding == IInv /\ SessionInv /\ ReportedOpen /\ Reports /\ Blank

LEMMA InitForwarding == ASSUME Init PROVE Forwarding
<1>1. pc = "select" /\ LiveBackends = {}
  BY NoBackendType DEF Init, LiveBackends
<1>2. Blank
  BY DEF Init, Blank
<1> QED
  BY <1>1, <1>2, InitInv, InitSession DEF Forwarding, ReportedOpen, Reports

LEMMA ForwardingNext == ASSUME Forwarding, [Next]_vars PROVE Forwarding'
<1>1. IInv'
  BY NextInv DEF Forwarding
<1>2. SessionInv'
  BY NextSession DEF Forwarding
<1>3. ReportedOpen'
  BY ReportedOpenNext DEF Forwarding
<1>4. Reports'
  BY <1>1, <1>2, NextReports DEF Forwarding
<1>5. Blank'
  BY NextBlank DEF Forwarding
<1> QED
  BY <1>1, <1>2, <1>3, <1>4, <1>5 DEF Forwarding

LEMMA TurnedAwayForwarding ==
  ASSUME Forwarding, NEW c \in Conn, TurnedAway(c) PROVE Forwarding'
<1>1. IInv' /\ SessionInv' /\ Reports'
  BY TurnedAwayStep, TurnedAwaySession, TurnedAwayReports DEF Forwarding
<1>2. ReportedOpen' /\ Blank'
  BY DEF Forwarding, TurnedAway, loopVars, tables, ReportedOpen, Blank, LiveBackends
<1> QED
  BY <1>1, <1>2 DEF Forwarding

LEMMA TurnPlace ==
  ASSUME NEW fd \in Fd, processBackends(fd) \/ processClients(fd)
  PROVE  pc \in {"backends", "clients"}
<1>1. BackendTurn(fd) \/ ClientTurn(fd)
  BY Zenon DEF processBackends, processClients, BackendFailed, BackendConnected, BackendWrites,
    BackendWriteFails, BackendReads, BackendReadFails, BackendCloses, WriteHalf, ReadHalf,
    ClientReads, ClientReadEnds, ClientWrites, ClientWriteFails, ClientReadHalf, ClientWriteHalf
<1> QED
  BY <1>1 DEF BackendTurn, ClientTurn

-----------------------------------------------------------------------------
(* Why sessions end.                                                       *)

\* An entry without a backend connection has none in the kernel either; only
\* such an entry waits for a flush; nothing goes to the backend for a client that
\* has not been accepted.
Parted ==
  /\ \A fd \in LiveBackends :
       /\ BackendFd(fd) = NB!NoFd => srv[ConnOf(fd)].peer = "gone"
       /\ clients[fd].pendingClose => BackendFd(fd) = NB!NoFd
  /\ \A c \in Conn : cli[c].at \in {"new", "queued"} => srv[c].peer = "gone"

LEMMA QuietParted ==
  ASSUME IInv, SessionInv, Parted,
         \/ Select \/ Tick \/ AcceptDone \/ BackendsDone \/ ClientsDone \/ stop
         \/ UNCHANGED vars \/ Environment \/ \E c \in Conn : AcceptDenied(c)
  PROVE  /\ Parted'
         /\ \A c \in Conn : srv'[c].at = srv[c].at /\ (cli[c].at = "open" => cli'[c].at = "open")
<1>1. UNCHANGED tables /\ cli \in [Conn -> CliType] /\ srv \in [Conn -> SrvType]
  BY TypeParts DEF IInv, KernelType, Select, Tick, AcceptDone, BackendsDone, ClientsDone, stop,
    vars, Environment, ClientConnects, ClientSends, ClientCloses, BackendAnswers, BackendSends,
    BackendEnds, AcceptDenied
<1>2. \A c \in Conn : /\ srv'[c].at = srv[c].at /\ (cli[c].at = "open" => cli'[c].at = "open")
                      /\ srv[c].peer = "gone" => srv'[c].peer = "gone"
                      /\ cli'[c].at \in {"new", "queued"} => cli[c].at \in {"new", "queued"}
  <2>1. CASE \/ Select \/ Tick \/ AcceptDone \/ BackendsDone \/ ClientsDone \/ stop
             \/ UNCHANGED vars
    BY <2>1 DEF Select, Tick, AcceptDone, BackendsDone, ClientsDone, stop, vars, kernel
  <2>2. ASSUME NEW d \in Conn, ClientConnects(d) \/ ClientSends(d) \/ ClientCloses(d)
        PROVE  /\ srv' = srv
               /\ \A c \in Conn : /\ cli[c].at = "open" => cli'[c].at = "open"
                                  /\ cli'[c].at \in {"new", "queued"} =>
                                       cli[c].at \in {"new", "queued"}
    <3>1. /\ srv' = srv
          /\ \A c \in Conn : c # d => cli'[c] = cli[c]
          /\ cli'[d].at = cli[d].at \/ (cli[d].at = "new" /\ cli'[d].at = "queued")
      <4>1. cli[d] \in CliType
        BY <1>1
      <4> QED
        BY <1>1, <2>2, <4>1 DEF ClientConnects, ClientSends, ClientCloses, CliType, EndType
    <3> QED
      BY <3>1
  <2>3. ASSUME NEW d \in Conn, BackendAnswers(d) \/ BackendSends(d) \/ BackendEnds(d)
        PROVE  /\ cli' = cli
               /\ \A c \in Conn : /\ srv'[c].at = srv[c].at
                                  /\ srv[c].peer = "gone" => srv'[c].peer = "gone"
    <3>1. /\ cli' = cli
          /\ \A c \in Conn : c # d => srv'[c] = srv[c]
          /\ srv'[d].at = srv[d].at /\ srv[d].peer # "gone"
      <4>1. srv[d] \in SrvType
        BY <1>1
      <4> QED
        BY <1>1, <2>3, <4>1 DEF BackendAnswers, BackendSends, BackendEnds, SrvType, EndType
    <3> QED
      BY <3>1
  <2>4. ASSUME NEW d \in Conn, AcceptDenied(d)
        PROVE  /\ srv' = srv /\ cli[d].at = "queued"
               /\ cli'[d].at = "closed" /\ \A c \in Conn : c # d => cli'[c] = cli[c]
    BY <1>1, <2>4 DEF AcceptDenied, Backlog, ClosedEnd, CliType, EndType
  <2> QED
    BY <2>1, <2>2, <2>3, <2>4 DEF Environment
<1>3. /\ LiveBackends' = LiveBackends
      /\ \A fd : BackendFd(fd)' = BackendFd(fd) /\ ConnOf(fd)' = ConnOf(fd)
      /\ clients' = clients
  BY <1>1 DEF tables, LiveBackends, BackendFd, ConnOf
<1>4. \A fd \in LiveBackends : ConnOf(fd) \in Conn
  BY LiveEntry
<1> QED
  BY <1>2, <1>3, <1>4 DEF Parted

LEMMA AdmittedParted ==
  ASSUME IInv, SessionInv, Parted, NEW c \in Conn, AcceptClient(c), (IInv /\ SessionInv)'
  PROVE  /\ Parted'
         /\ \A d \in Conn : \/ cli'[d] = cli[d] /\ srv'[d] = srv[d]
                            \/ cli'[d].at = "open" /\ srv[d].peer = "gone"
<1>1. PICK fd \in Fd : Admitted(fd, c)
  BY AdmitSession
<1>2. cli'[c].at = "open"
  <2>1. cli' = [cli EXCEPT ![c].at = "open"] /\ cli \in [Conn -> CliType]
    BY Zenon, TypeParts DEF AcceptClient, Admit, IInv, KernelType
  <2> QED
    BY <2>1 DEF CliType, EndType
<1>3. \A d \in Conn : d # c => cli'[d] = cli[d] /\ srv'[d] = srv[d]
  BY <1>1 DEF Admitted
<1>4. srv[c].peer = "gone"
  BY <1>1 DEF Admitted, Parted
<1>5. ASSUME NEW g \in LiveBackends
      PROVE  /\ BackendFd(g)' = NB!NoFd => srv'[ConnOf(g)'].peer = "gone"
             /\ clients'[g].pendingClose => BackendFd(g)' = NB!NoFd
  <2>1. clients'[g] = clients[g] /\ backends'[g] = backends[g]
    BY <1>1 DEF Admitted
  <2>2. ConnOf(g) # c /\ ConnOf(g) \in Conn
    BY <1>1, SessionEntry DEF EntryOK, Admitted
  <2>3. ConnOf(g)' = ConnOf(g) /\ BackendFd(g)' = BackendFd(g)
    BY <2>1 DEF ConnOf, BackendFd
  <2> QED
    BY <1>3, <2>1, <2>2, <2>3 DEF Parted
<1>6. ASSUME NEW g \in LiveBackends', g \notin LiveBackends PROVE g = fd
  <2>1. g \in Fd /\ \A f \in Fd : f # fd => f \in LiveBackends \/ f \notin LiveBackends'
    <3>1. PICK f \in Fd : \E e : backends' = [backends EXCEPT ![f] = e]
      <4>1. \E f \in FreeFds : \E e : backends' = [backends EXCEPT ![f] = e]
        BY Zenon DEF AcceptClient, Admit
      <4> QED
        BY <4>1 DEF FreeFds
    <3>2. backends \in [Fd -> BackendType]
      BY TypeParts DEF IInv, TablesType
    <3>3. \A h \in Fd : h # f => (h \in LiveBackends <=> h \in LiveBackends')
      BY <3>1, <3>2 DEF LiveBackends
    <3>4. fd \notin LiveBackends
      <4>1. ConnOf(fd)' = c /\ \A h \in LiveBackends : ConnOf(h) # c /\ clients'[h] = clients[h]
        BY <1>1, SessionEntry DEF EntryOK, Admitted
      <4> QED
        BY <4>1 DEF ConnOf
    <3>5. fd = f
      BY <1>1, <3>3, <3>4 DEF Admitted
    <3> QED
      BY <3>3, <3>5 DEF LiveBackends
  <2> QED
    BY <1>6, <2>1
<1>7. /\ BackendFd(fd)' = NB!NoFd => srv'[ConnOf(fd)'].peer = "gone"
      /\ ~clients'[fd].pendingClose
  BY <1>1, <1>4 DEF Admitted
<1>8. Parted'
  BY <1>2, <1>3, <1>5, <1>6, <1>7 DEF Parted
<1> QED
  BY <1>2, <1>3, <1>4, <1>8

LEMMA TurnParted ==
  ASSUME IInv, SessionInv, Parted, NEW fd \in Fd, processBackends(fd) \/ processClients(fd)
  PROVE  Parted'
<1> DEFINE c == ConnOf(fd)
<1>1. fd \in LiveBackends /\ SessionChanges(fd)
  BY TurnEffect
<1>2. Others(fd)
  BY <1>1 DEF SessionChanges, SessionEnds, BackendLeaves, PendingMoves, GivesUp,
    TakesDown, TakesUp, GivesDown
<1>3. /\ clients[fd] \in ClientType /\ backends[fd] \in BackendType
      /\ backends[fd].backend \in NBType /\ cli[c] \in CliType /\ srv[c] \in SrvType
      /\ c \in Conn /\ cli[c].at = "open" /\ clients[fd].remoteAddr = c
  BY <1>1, SessionEntry DEF EntryOK
<1>4. ASSUME NEW g \in LiveBackends', g # fd
      PROVE  /\ BackendFd(g)' = NB!NoFd => srv'[ConnOf(g)'].peer = "gone"
             /\ clients'[g].pendingClose => BackendFd(g)' = NB!NoFd
  <2>1. g \in LiveBackends /\ ConnOf(g) \in Conn /\ ConnOf(g) # c /\ ConnOf(g)' = ConnOf(g)
    BY <1>1, <1>2, <1>4, OtherEntries
  <2>2. /\ srv'[ConnOf(g)] = srv[ConnOf(g)]
        /\ clients'[g] = clients[g] /\ backends'[g] = backends[g]
    BY <1>2, <1>4, <2>1 DEF Others, LiveBackends
  <2> QED
    BY <2>1, <2>2 DEF Parted, BackendFd
<1>5. \A d \in Conn : d # c => (cli'[d].at \in {"new", "queued"} => srv'[d].peer = "gone")
  BY <1>2 DEF Others, Parted
<1>6. CASE SessionEnds(fd)
  <2>1. fd \notin LiveBackends' /\ cli'[c].at = "closed"
    BY <1>6, NoBackendType DEF SessionEnds, LiveBackends
  <2> QED
    BY <1>4, <1>5, <2>1 DEF Parted
<1>7. CASE ~SessionEnds(fd)
  <2>1. /\ BackendFd(fd)' = NB!NoFd => srv'[c].peer = "gone"
        /\ clients'[fd].pendingClose => BackendFd(fd)' = NB!NoFd
        /\ cli'[c].at = "open" /\ clients'[fd].remoteAddr = c
    <3>1. CASE BackendLeaves(fd)
      BY <1>3, <3>1, FreshType DEF BackendLeaves, BackendFd, BackendType, ClientType
    <3>2. CASE PendingMoves(fd) \/ GivesUp(fd)
      <4>1. /\ clients'[fd] = clients[fd] /\ cli'[c] = cli[c]
            /\ BackendFd(fd)' = BackendFd(fd) /\ srv'[c].peer = srv[c].peer
        BY <1>1, <3>2, WriteHalfKeeps
      <4> QED
        BY <1>1, <1>3, <4>1 DEF Parted
    <3>3. CASE TakesDown(fd)
      BY <1>1, <1>3, <3>3 DEF TakesDown, BackendFd, Parted, ClientType
    <3>4. CASE TakesUp(fd)
      <4>1. /\ clients'[fd] = clients[fd] /\ srv'[c] = srv[c] /\ BackendFd(fd)' = BackendFd(fd)
        <5>1. clients'[fd] = clients[fd] /\ srv'[c] = srv[c]
          BY <3>4 DEF TakesUp
        <5>2. backends'[fd].backend.fd = backends[fd].backend.fd
          <6>1. PICK data : \/ backends'[fd] = [backends[fd] EXCEPT !.backend =
                                 [backends[fd].backend EXCEPT !.sendQueue =
                                    backends[fd].backend.sendQueue \o data]]
                            \/ backends'[fd] = [backends[fd] EXCEPT !.pendingData = @ \o data]
                            \/ backends'[fd] = backends[fd]
            BY <3>4 DEF TakesUp
          <6>2. backends'[fd].backend
                  \in {backends[fd].backend, [backends[fd].backend EXCEPT !.sendQueue =
                                              backends[fd].backend.sendQueue \o data]}
            BY <1>3, <6>1 DEF BackendType
          <6> QED
            BY <1>3, <6>2 DEF NBType
        <5> QED
          BY <5>1, <5>2 DEF BackendFd
      <4>2. cli'[c].at = "open"
        BY <1>3, <3>4 DEF TakesUp, CliType, EndType
      <4> QED
        BY <1>1, <1>3, <4>1, <4>2 DEF Parted
    <3>5. CASE GivesDown(fd)
      BY <1>1, <1>3, <3>5 DEF GivesDown, BackendFd, Parted, ClientType, CliType, EndType
    <3> QED
      BY <1>1, <1>7, <3>1, <3>2, <3>3, <3>4, <3>5 DEF SessionChanges
  <2>2. ConnOf(fd)' = c
    BY <2>1 DEF ConnOf
  <2> QED
    BY <1>4, <1>5, <2>1, <2>2 DEF Parted
<1> QED
  BY <1>6, <1>7

LEMMA NextParted ==
  ASSUME IInv, SessionInv, Parted, [Next]_vars, (IInv /\ SessionInv)' PROVE Parted'
<1>1. CASE acceptClients
  BY <1>1, QuietParted, AdmittedParted DEF acceptClients
<1>2. CASE Cleanup
  <2>1. LiveBackends' = {}
    BY <1>2, NoBackendType DEF Cleanup, LiveBackends
  <2>2. ASSUME NEW c \in Conn, cli'[c].at \in {"new", "queued"} PROVE srv'[c].peer = "gone"
    <3>1. cli \in [Conn -> CliType] /\ srv \in [Conn -> SrvType]
      BY TypeParts DEF IInv, KernelType
    <3>2. /\ cli'[c] \in {cli[c], ClosedEnd(cli[c])} /\ srv'[c] \in {srv[c], ClosedEnd(srv[c])}
      BY <1>2 DEF Cleanup, Close, CloseWith
    <3>3. ClosedEnd(cli[c]).at = "closed" /\ ClosedEnd(srv[c]).peer = "gone"
      BY <3>1 DEF ClosedEnd, CliType, SrvType, EndType
    <3> QED
      BY <2>2, <3>2, <3>3 DEF Parted
  <2> QED
    BY <2>1, <2>2 DEF Parted
<1>3. ASSUME NEW fd \in Fd, processBackends(fd) \/ processClients(fd) PROVE Parted'
  BY <1>3, TurnParted
<1>4. CASE Select \/ Tick \/ BackendsDone \/ ClientsDone \/ stop \/ UNCHANGED vars \/ Environment
  BY <1>4, QuietParted
<1> QED
  BY <1>1, <1>2, <1>3, <1>4 DEF Next, Loop

\* A client's queue is only ever closed behind when it was marked for that.
LEMMA ClientWritesKeeps ==
  ASSUME IInv, SessionInv, NEW fd \in Fd, ClientWrites(fd), ~GivesDown(fd)
  PROVE  clients[fd].pendingClose
<1> DEFINE c == ConnOf(fd)
           q == clients[fd].sendQueue
           ends(n) == [cli EXCEPT ![c].out = @ \o SubSeq(q, 1, n)]
<1>1. fd \in LiveBackends
  BY TurnEntry DEF ClientWrites, ClientWriteHalf
<1>2. /\ clients \in [Fd -> ClientType] /\ clients[fd] \in ClientType
      /\ cli \in [Conn -> CliType] /\ c \in Conn
  BY <1>1, SessionEntry
<1> SUFFICES ASSUME ~clients[fd].pendingClose PROVE GivesDown(fd)
  OBVIOUS
<1>3. PICK n \in 1..Len(q) : /\ clients' = wrote(clients, fd, n) /\ cli' = ends(n)
                             /\ UNCHANGED <<backends, sock, srv>>
  BY DEF ClientWrites
<1>4. /\ \A g \in Fd : g # fd => clients'[g] = clients[g]
      /\ clients'[fd] = [clients[fd] EXCEPT !.sendQueue = SubSeq(q, n + 1, Len(q))]
  BY <1>2, <1>3 DEF wrote
<1>5. /\ \A d \in Conn : d # c => cli'[d] = cli[d]
      /\ cli'[c] = [cli[c] EXCEPT !.out = @ \o SubSeq(q, 1, n)]
  BY <1>2, <1>3
<1> QED
  BY <1>3, <1>4, <1>5 DEF GivesDown, Others

\* The reasons a turn has for closing a connection that is still there.
EndsForCause(c) ==
  /\ cli[c].at = "open" /\ cli[c].peer = "up" /\ cli'[c].at = "closed"
       => srv[c].peer \in {"gone", "fin"}
  /\ srv[c].at = "open" /\ srv[c].peer \in {"syn", "up"} /\ srv'[c].at = "closed"
       => cli[c].peer \in {"fin", "rst"}

LEMMA TurnCause ==
  ASSUME IInv, SessionInv, Parted, NEW fd \in Fd, processBackends(fd) \/ processClients(fd),
         NEW d \in Conn
  PROVE  EndsForCause(d)
<1> DEFINE c == ConnOf(fd)
<1>1. fd \in LiveBackends /\ SessionChanges(fd)
  BY TurnEffect
<1>2. Others(fd)
  BY <1>1 DEF SessionChanges, SessionEnds, BackendLeaves, PendingMoves, GivesUp,
    TakesDown, TakesUp, GivesDown
<1>3. /\ cli[c] \in CliType /\ srv[c] \in SrvType
      /\ c \in Conn /\ cli[c].at = "open" /\ c = backends[fd].clientAddr
  BY <1>1, SessionEntry DEF EntryOK
<1>4. CASE d # c
  BY <1>2, <1>4 DEF Others, EndsForCause
<1>5. ASSUME \/ BackendConnected(fd) \/ BackendWrites(fd) \/ BackendReads(fd) \/ ClientReads(fd)
             \/ ClientWrites(fd) /\ GivesDown(fd)
      PROVE  EndsForCause(c)
  <2>1. PendingMoves(fd) \/ GivesUp(fd) \/ TakesDown(fd) \/ TakesUp(fd) \/ GivesDown(fd)
    BY <1>5, BackendConnectedEffect, BackendWritesEffect, BackendReadsEffect, ClientReadsEffect
  <2>2. cli'[c].at = cli[c].at /\ srv'[c].at = srv[c].at
    BY <1>3, <2>1 DEF PendingMoves, GivesUp, TakesDown, TakesUp, GivesDown, CliType, SrvType,
      EndType
  <2> QED
    BY <1>3, <2>2 DEF EndsForCause
<1>6. ASSUME \/ BackendFailed(fd)
             \/ ClientWrites(fd) /\ ~GivesDown(fd)
      PROVE  EndsForCause(c)
  <2>1. BackendFd(fd) = NB!NoFd
    <3>1. CASE BackendFailed(fd)
      BY <3>1 DEF BackendFailed
    <3>2. CASE ClientWrites(fd) /\ ~GivesDown(fd)
      <4>1. clients[fd].pendingClose
        BY <3>2, ClientWritesKeeps
      <4> QED
        BY <1>1, <4>1 DEF Parted
    <3> QED
      BY <1>6, <3>1, <3>2
  <2>2. srv[c].peer = "gone"
    BY <1>1, <2>1 DEF Parted
  <2> QED
    BY <2>2 DEF EndsForCause
<1>7. ASSUME BackendWriteFails(fd) \/ BackendReadFails(fd) PROVE EndsForCause(c)
  <2>1. BackendLeaves(fd)
    <3>1. BackendLost(fd) /\ BackendFd(fd) # NB!NoFd /\ clients' = clients
      BY <1>7, TurnEntry DEF BackendWriteFails, BackendReadFails, WriteHalf, ReadHalf
    <3> QED
      BY <1>1, <3>1, LostEffect
  <2>2. cli'[c] = cli[c] /\ srv[c].peer \in {"refused", "rst"}
    BY <1>3, <1>7, <2>1 DEF BackendLeaves, BackendWriteFails, BackendReadFails
  <2> QED
    BY <1>3, <2>2 DEF EndsForCause
<1>8. ASSUME BackendCloses(fd) PROVE EndsForCause(c)
  BY <1>3, <1>8 DEF EndsForCause, BackendCloses
<1>9. ASSUME ClientReadEnds(fd) \/ ClientWriteFails(fd) PROVE EndsForCause(c)
  BY <1>9 DEF EndsForCause, ClientReadEnds, ClientWriteFails
<1> QED
  BY <1>4, <1>5, <1>6, <1>7, <1>8, <1>9 DEF processBackends, processClients

\* The loop closes a client that is still there only when that client's own
\* backend connection failed or ended, and a backend connection that is still
\* there only when its client ended: no session is ended by another's descriptor,
\* event or failure (src/TcpProxy.hpp:62-89, 193-231, src/TcpServer.hpp:167-243).
THEOREM SessionsEndForCause == Spec => SessionEndsForCause
<1>1. Init => Parted
  <2>1. ASSUME Init PROVE LiveBackends = {} /\ \A c \in Conn : srv[c].peer = "gone"
    BY <2>1, NoBackendType DEF Init, LiveBackends, NewEnd
  <2> QED
    BY <2>1 DEF Parted
<1>2. IInv /\ SessionInv /\ Parted /\ [Next]_vars /\ (IInv /\ SessionInv)' => Parted'
  BY NextParted
<1>3. ASSUME IInv, SessionInv, Parted, [Next]_vars, (IInv /\ SessionInv)'
      PROVE  [\A c \in Conn : pc # "select" =>
                /\ cli[c].at = "open" /\ cli[c].peer = "up" /\ cli'[c].at = "closed"
                     => srv[c].peer \in {"gone", "fin"}
                /\ srv[c].at = "open" /\ srv[c].peer \in {"syn", "up"} /\ srv'[c].at = "closed"
                     => cli[c].peer \in {"fin", "rst"}]_vars
  <2>1. ASSUME NEW c \in Conn, pc # "select" PROVE EndsForCause(c)
    <3>1. ASSUME NEW fd \in Fd, processBackends(fd) \/ processClients(fd) PROVE EndsForCause(c)
      BY <1>3, <3>1, TurnCause
    <3>2. ASSUME NEW d \in Conn, AcceptClient(d) PROVE EndsForCause(c)
      <4>1. \/ cli'[c] = cli[c] /\ srv'[c] = srv[c]
            \/ cli'[c].at = "open" /\ srv[c].peer = "gone"
        BY <1>3, <3>2, AdmittedParted
      <4> QED
        BY <4>1 DEF EndsForCause
    <3>3. CASE \/ Select \/ Tick \/ AcceptDone \/ BackendsDone \/ ClientsDone \/ stop
               \/ UNCHANGED vars \/ Environment \/ \E d \in Conn : AcceptDenied(d)
      BY <1>3, <3>3, QuietParted DEF EndsForCause
    <3>4. ~Cleanup
      BY <2>1 DEF Cleanup
    <3> QED
      BY <1>3, <3>1, <3>2, <3>3, <3>4 DEF Next, Loop, acceptClients
  <2> QED
    BY <2>1 DEF EndsForCause
<1> QED
  BY <1>1, <1>2, <1>3, AlwaysSession, PTL DEF Spec, SessionEndsForCause

-----------------------------------------------------------------------------
(* Steps of Relay, told by what becomes of each session.                   *)

SameSession(d) == Phase(d)' = Phase(d) /\ Channels(d)' = Channels(d)

LEMMA RelayStutters ==
  ASSUME \A d \in Conn : SameSession(d)
  PROVE  UNCHANGED R!relayVars
BY DEF SameSession, R!relayVars

LEMMA RelayBegins ==
  ASSUME NEW c \in Conn, Phase(c) = "idle", Phase(c)' \in {"open", "draining"},
         Channels(c)' = Channels(c), \A d \in Conn : d # c => SameSession(d)
  PROVE  R!Next
<1>1. R!Begin(c)
  BY DEF SameSession, R!Begin
<1> QED
  BY <1>1 DEF R!Next

LEMMA RelayRefuses ==
  ASSUME NEW c \in Conn, Phase(c) = "idle", Phase(c)' = "over",
         Channels(c)' = Channels(c), \A d \in Conn : d # c => SameSession(d)
  PROVE  R!Next
<1>1. R!Refuse(c)
  BY DEF SameSession, R!Refuse
<1> QED
  BY <1>1 DEF R!Next

LEMMA RelayLoses ==
  ASSUME NEW c \in Conn, Phase(c) = "open", Phase(c)' = "draining",
         Channels(c)' = [Channels(c) EXCEPT !["up"] = [@ EXCEPT !.transit = <<>>]],
         \A d \in Conn : d # c => SameSession(d)
  PROVE  R!Next
<1>1. R!LoseBackend(c)
  BY DEF SameSession, R!LoseBackend, R!Lost
<1> QED
  BY <1>1 DEF R!Next

LEMMA RelayTakes ==
  ASSUME NEW c \in Conn, NEW dir \in {"up", "down"}, NEW n \in 1..(MaxUp + MaxDown),
         NEW m \in Nat,
         m = Len(Channels(c)[dir].given) + Len(Channels(c)[dir].transit),
         Phase(c) = "open", Phase(c)' = "open",
         Channels(c)' = [Channels(c) EXCEPT ![dir].transit = @ \o Stream(c, dir, m, m + n)],
         \A d \in Conn : d # c => SameSession(d)
  PROVE  R!Next
<1>1. R!Stream(c, dir, m, m + n) = Stream(c, dir, m, m + n)
  BY DEF R!Stream, Stream
<1> DEFINE ph == [d \in Conn |-> Phase(d)]
           ch == [d \in Conn |-> Channels(d)]
           taken == Len(ch[c][dir].given) + Len(ch[c][dir].transit)
<1>2. ch[c] = Channels(c) /\ ph[c] = Phase(c) /\ ph' = ph
  BY DEF SameSession
<1>3. taken = m
  BY <1>2
<1>4. ch' = [ch EXCEPT ![c][dir].transit = @ \o R!Stream(c, dir, m, m + n)]
  BY <1>1 DEF SameSession
<1>5. ch' = [ch EXCEPT ![c][dir].transit = @ \o R!Stream(c, dir, taken, taken + n)]
  BY <1>3, <1>4
<1>6. R!Take(c, dir)
  BY <1>2, <1>5, Zenon DEF R!Take
<1> QED
  BY <1>6 DEF R!Next, R!Dir

LEMMA RelayGives ==
  ASSUME NEW c \in Conn, NEW dir \in {"up", "down"},
         NEW n \in 1..Len(Channels(c)[dir].transit),
         Phase(c) = "open" \/ (Phase(c) = "draining" /\ dir = "down"),
         Phase(c)' = Phase(c),
         Channels(c)' = [Channels(c) EXCEPT ![dir] = R!GivenOf(Channels(c)[dir], n)],
         \A d \in Conn : d # c => SameSession(d)
  PROVE  R!Next
<1> DEFINE ph == [d \in Conn |-> Phase(d)]
           ch == [d \in Conn |-> Channels(d)]
<1>1. ch[c] = Channels(c) /\ ph[c] = Phase(c) /\ ph' = ph
  BY DEF SameSession
<1>2. ch' = [ch EXCEPT ![c][dir] = R!GivenOf(ch[c][dir], n)]
  BY DEF SameSession
<1>3. n \in 1..Len(ch[c][dir].transit)
  BY <1>1
<1>4. R!Give(c, dir)
  BY <1>1, <1>2, <1>3, Zenon DEF R!Give
<1> QED
  BY <1>4 DEF R!Next, R!Dir

LEMMA RelayEnds ==
  ASSUME NEW c \in Conn, NEW n \in {0, Len(Channels(c)["down"].transit)},
         Phase(c) \in {"open", "draining"}, Phase(c)' = "over",
         Channels(c)' = [Channels(c) EXCEPT !["up"] = R!Lost(Channels(c)["up"]),
                           !["down"] = R!Lost(R!GivenOf(Channels(c)["down"], n))],
         \A d \in Conn : d # c => SameSession(d)
  PROVE  R!Next
<1>1. R!End(c)
  BY DEF SameSession, R!End
<1> QED
  BY <1>1 DEF R!Next

LEMMA RelayStops ==
  ASSUME \A c \in Conn :
           IF Phase(c) \in {"open", "draining"}
           THEN /\ Phase(c)' = "over"
                /\ Channels(c)' = [dir \in {"up", "down"} |-> R!Lost(Channels(c)[dir])]
           ELSE SameSession(c)
  PROVE  R!Next
<1>1. R!Stop
  BY DEF SameSession, R!Stop, R!Dir
<1> QED
  BY <1>1 DEF R!Next

-----------------------------------------------------------------------------
(* What Relay sees of a session, from its table entries and its two ends.  *)

EntryPhase(e) == IF e.backend.fd = NB!NoFd THEN "draining" ELSE "open"

ChannelPair(up, ups, down, downs) ==
  [dir \in {"up", "down"} |-> IF dir = "up" THEN [given |-> up, transit |-> ups]
                              ELSE [given |-> down, transit |-> downs]]

EntryChannels(st, e, ce, se) ==
  ChannelPair(se.out,
              IF e.backend.fd = NB!NoFd THEN <<>> ELSE e.backend.sendQueue \o e.pendingData,
              ce.out, st.sendQueue)

LEMMA OpenView ==
  ASSUME IInv, SessionInv, NEW fd \in LiveBackends
  PROVE  /\ Phase(ConnOf(fd)) = EntryPhase(backends[fd])
         /\ Channels(ConnOf(fd))
              = EntryChannels(clients[fd], backends[fd], cli[ConnOf(fd)], srv[ConnOf(fd)])
<1> DEFINE c == ConnOf(fd)
<1>1. fd \in Fd /\ c \in Conn /\ cli[c].at = "open"
  BY SessionEntry DEF EntryOK
<1>2. \A g \in Fd : ConnOf(g) = c => g = fd
  <2> TAKE g \in Fd
  <2> HAVE ConnOf(g) = c
  <2>1. g \in LiveBackends
    BY <1>1, ConnAssumption, TypeParts DEF IInv, FdOwnership, Live, ConnOf, TablesType
  <2> QED
    BY <2>1 DEF SessionInv, OneEntryEach
<1> HIDE DEF c
<1>3. Session(c) = fd
  BY <1>1, <1>2 DEF Session, c
<1>4. Phase(c) = EntryPhase(backends[fd])
  BY <1>1, <1>3 DEF Phase, EntryPhase, BackendFd
<1>5. /\ UpTransit(c) = IF backends[fd].backend.fd = NB!NoFd THEN <<>>
                        ELSE backends[fd].backend.sendQueue \o backends[fd].pendingData
      /\ DownTransit(c) = clients[fd].sendQueue
  BY <1>1, <1>3, <1>4 DEF UpTransit, DownTransit, EntryPhase
<1>6. Channels(c) = EntryChannels(clients[fd], backends[fd], cli[c], srv[c])
  BY <1>5 DEF Channels, EntryChannels, ChannelPair
<1> QED
  BY <1>4, <1>6 DEF c

\* The same of the state after a step.
LEMMA OpenViewNext ==
  ASSUME IInv', SessionInv', NEW fd \in LiveBackends', NEW c, c = ConnOf(fd)'
  PROVE  /\ Phase(c)' = EntryPhase(backends'[fd])
         /\ Channels(c)' = EntryChannels(clients'[fd], backends'[fd], cli'[c], srv'[c])
<1>1. fd \in Fd
  BY DEF LiveBackends
<1>2. c \in Conn
  BY <1>1 DEF IInv, FdOwnership, TypeOK, LiveBackends
<1>3. cli'[c].at = "open"
  BY DEF SessionInv, Entries, EntryOK
<1>4. \A g \in Fd : ConnOf(g)' = c => g = fd
  <2> TAKE g \in Fd
  <2> HAVE ConnOf(g)' = c
  <2>1. g \in LiveBackends'
    <3>1. DOMAIN clients' = Fd
      BY DEF IInv, TypeOK
    <3> QED
      BY <1>2, <3>1, ConnAssumption DEF IInv, FdOwnership, Live, ConnOf
  <2> QED
    BY <2>1 DEF SessionInv, OneEntryEach
<1>5. Session(c)' = fd
  BY <1>1, <1>4 DEF Session
<1>6. Phase(c)' = EntryPhase(backends'[fd])
  BY <1>3, <1>5 DEF Phase, EntryPhase, BackendFd
<1>7. /\ UpTransit(c)' = IF backends'[fd].backend.fd = NB!NoFd THEN <<>>
                         ELSE backends'[fd].backend.sendQueue \o backends'[fd].pendingData
      /\ DownTransit(c)' = clients'[fd].sendQueue
  BY <1>3, <1>5, <1>6 DEF UpTransit, DownTransit, EntryPhase
<1> QED
  BY <1>6, <1>7 DEF Channels, EntryChannels, ChannelPair

LEMMA ShutView ==
  ASSUME NEW c, cli[c].at \in {"new", "queued", "closed"}
  PROVE  /\ Phase(c) = IF cli[c].at = "closed" THEN "over" ELSE "idle"
         /\ Channels(c) = ChannelPair(srv[c].out, <<>>, cli[c].out, <<>>)
<1>1. Phase(c) = IF cli[c].at = "closed" THEN "over" ELSE "idle"
  BY DEF Phase
<1>2. UpTransit(c) = <<>> /\ DownTransit(c) = <<>>
  BY <1>1 DEF UpTransit, DownTransit
<1> QED
  BY <1>1, <1>2 DEF Channels, ChannelPair

LEMMA ShutViewNext ==
  ASSUME NEW c, cli'[c].at \in {"new", "queued", "closed"}
  PROVE  /\ Phase(c)' = IF cli'[c].at = "closed" THEN "over" ELSE "idle"
         /\ Channels(c)' = ChannelPair(srv'[c].out, <<>>, cli'[c].out, <<>>)
<1>1. Phase(c)' = IF cli'[c].at = "closed" THEN "over" ELSE "idle"
  BY DEF Phase
<1>2. UpTransit(c)' = <<>> /\ DownTransit(c)' = <<>>
  BY <1>1 DEF UpTransit, DownTransit
<1> QED
  BY <1>1, <1>2 DEF Channels, ChannelPair

\* A connection is open, with an entry, or has none.
LEMMA OpenOrShut ==
  ASSUME IInv, SessionInv, NEW c \in Conn
  PROVE  \/ cli[c].at \in {"new", "queued", "closed"}
         \/ cli[c].at = "open" /\ \E fd \in LiveBackends : ConnOf(fd) = c
<1>1. cli[c].at \in {"new", "queued", "open", "closed"}
  BY TypeParts DEF IInv, KernelType, CliType, EndType
<1> QED
  BY <1>1 DEF SessionInv, OneEntryEach

\* The sessions a step of one session does not concern.
LEMMA OthersSeen ==
  ASSUME IInv, SessionInv, IInv', SessionInv', NEW fd \in LiveBackends, Others(fd),
         NEW d \in Conn, d # ConnOf(fd)
  PROVE  SameSession(d)
<1>1. cli'[d] = cli[d] /\ srv'[d] = srv[d]
  BY DEF Others
<1>2. CASE cli[d].at \in {"new", "queued", "closed"}
  BY <1>1, <1>2, ShutView, ShutViewNext DEF SameSession
<1>3. ASSUME NEW g \in LiveBackends, ConnOf(g) = d PROVE SameSession(d)
  <2>1. g # fd /\ g \in Fd
    BY <1>3 DEF LiveBackends
  <2>2. clients'[g] = clients[g] /\ backends'[g] = backends[g]
    BY <2>1 DEF Others
  <2>3. g \in LiveBackends' /\ ConnOf(g)' = d
    BY <1>3, <2>1, <2>2 DEF LiveBackends, ConnOf
  <2>4. /\ Phase(d) = EntryPhase(backends[g])
        /\ Channels(d) = EntryChannels(clients[g], backends[g], cli[d], srv[d])
    BY <1>3, OpenView
  <2>5. /\ Phase(d)' = EntryPhase(backends'[g])
        /\ Channels(d)' = EntryChannels(clients'[g], backends'[g], cli'[d], srv'[d])
    BY <2>3, OpenViewNext
  <2> QED
    BY <1>1, <2>2, <2>4, <2>5 DEF SameSession
<1> QED
  BY <1>2, <1>3, OpenOrShut

-----------------------------------------------------------------------------
(* How much is taken at a time.                                            *)

Bounded == \A c \in Conn : cli[c].sent <= MaxUp /\ srv[c].sent <= MaxDown

LEMMA InitBounded == ASSUME Init PROVE Bounded
BY BoundAssumption DEF Init, NewEnd, Bounded

LEMMA TurnBounded ==
  ASSUME IInv, SessionInv, Bounded, NEW fd \in LiveBackends, SessionChanges(fd)
  PROVE  Bounded'
<1> DEFINE c == ConnOf(fd)
<1>1. c \in Conn /\ cli[c] \in CliType /\ srv[c] \in SrvType
  BY SessionEntry
<1>2. cli'[c].sent \in {cli[c].sent, 0} /\ srv'[c].sent \in {srv[c].sent, 0}
  <2>1. CASE SessionEnds(fd)
    BY <2>1 DEF SessionEnds
  <2>2. CASE BackendLeaves(fd)
    BY <2>2 DEF BackendLeaves
  <2>3. CASE PendingMoves(fd)
    BY <2>3 DEF PendingMoves
  <2>4. CASE GivesUp(fd) \/ TakesDown(fd)
    BY <1>1, <2>4 DEF GivesUp, TakesDown, SrvType, EndType
  <2>5. CASE TakesUp(fd) \/ GivesDown(fd)
    BY <1>1, <2>5 DEF TakesUp, GivesDown, CliType, EndType
  <2> QED
    BY <2>1, <2>2, <2>3, <2>4, <2>5 DEF SessionChanges
<1>3. \A d \in Conn : d # c => cli'[d] = cli[d] /\ srv'[d] = srv[d]
  BY DEF SessionChanges, SessionEnds, BackendLeaves, PendingMoves, GivesUp, TakesDown, TakesUp,
    GivesDown, Others
<1>4. MaxUp \in Nat /\ MaxDown \in Nat
  BY BoundAssumption
<1> QED
  BY <1>2, <1>3, <1>4 DEF Bounded

LEMMA NextBounded == ASSUME IInv, SessionInv, Bounded, [Next]_vars PROVE Bounded'
<1>1. /\ cli \in [Conn -> CliType] /\ srv \in [Conn -> SrvType]
      /\ MaxUp \in Nat /\ MaxDown \in Nat
  BY BoundAssumption, TypeParts DEF IInv, KernelType
<1>2. CASE UNCHANGED <<cli, srv>>
  BY <1>2 DEF Bounded
<1>3. CASE \/ Select \/ Tick \/ AcceptDone \/ BackendsDone \/ ClientsDone \/ stop
           \/ UNCHANGED vars
  BY <1>2, <1>3 DEF Select, Tick, AcceptDone, BackendsDone, ClientsDone, stop, vars, kernel
<1>4. ASSUME NEW c \in Conn, AcceptDenied(c) PROVE Bounded'
  BY <1>1, <1>4 DEF AcceptDenied, ClosedEnd, Bounded, CliType, EndType
<1>5. ASSUME NEW c \in Conn, AcceptClient(c) PROVE Bounded'
  <2>1. /\ cli' = [cli EXCEPT ![c].at = "open"]
        /\ \/ srv' = srv
           \/ \E p \in {"up", "syn"} : srv' = [srv EXCEPT ![c] = NewEnd("open", p)]
    <3>1. cli' = [cli EXCEPT ![c].at = "open"]
      BY <1>5, Zenon DEF AcceptClient, Admit
    <3>2. \/ srv' = srv
          \/ \E outcome \in {"inprogress", "immediate"} : srv' = [srv EXCEPT ![c] =
               NewEnd("open", IF outcome = "immediate" THEN "up" ELSE "syn")]
      BY <1>5, Zenon DEF AcceptClient, Admit
    <3> QED
      BY <3>1, <3>2
  <2> QED
    BY <1>1, <2>1 DEF NewEnd, Bounded, CliType, EndType
<1>6. CASE Cleanup
  <2>1. /\ \A c \in Conn : cli'[c] \in {cli[c], ClosedEnd(cli[c])}
        /\ \A c \in Conn : srv'[c] \in {srv[c], ClosedEnd(srv[c])}
    BY <1>6 DEF Cleanup, Close, CloseWith
  <2>2. \A c \in Conn : ClosedEnd(cli[c]).sent = 0 /\ ClosedEnd(srv[c]).sent = 0
    BY <1>1 DEF ClosedEnd, CliType, SrvType, EndType
  <2>3. ASSUME NEW c \in Conn PROVE cli'[c].sent <= MaxUp /\ srv'[c].sent <= MaxDown
    BY <1>1, <2>1, <2>2 DEF Bounded
  <2> QED
    BY <2>3 DEF Bounded
<1>7. ASSUME NEW fd \in Fd, processBackends(fd) \/ processClients(fd) PROVE Bounded'
  BY <1>7, TurnEffect, TurnBounded
<1>8. ASSUME NEW c \in Conn, \/ ClientConnects(c) \/ ClientSends(c) \/ ClientCloses(c)
      PROVE  Bounded'
  <2>1. srv' = srv /\ \A d \in Conn : d # c => cli'[d] = cli[d]
    BY <1>1, <1>8 DEF ClientConnects, ClientSends, ClientCloses
  <2>2. cli'[c].sent \in {cli[c].sent, cli[c].sent + 1} /\ cli[c].sent \in Nat
    BY <1>1, <1>8 DEF ClientConnects, ClientSends, ClientCloses, CliType, EndType
  <2>3. cli'[c].sent = cli[c].sent \/ cli[c].sent < MaxUp
    BY <1>1, <1>8 DEF ClientConnects, ClientSends, ClientCloses, CliType, EndType
  <2>4. cli'[c].sent <= MaxUp
    BY <1>1, <2>2, <2>3 DEF Bounded
  <2> QED
    BY <2>1, <2>4 DEF Bounded
<1>9. ASSUME NEW c \in Conn, \/ BackendAnswers(c) \/ BackendSends(c) \/ BackendEnds(c)
      PROVE  Bounded'
  <2>1. cli' = cli /\ \A d \in Conn : d # c => srv'[d] = srv[d]
    BY <1>1, <1>9 DEF BackendAnswers, BackendSends, BackendEnds
  <2>2. srv'[c].sent \in {srv[c].sent, srv[c].sent + 1} /\ srv[c].sent \in Nat
    BY <1>1, <1>9 DEF BackendAnswers, BackendSends, BackendEnds, SrvType, EndType
  <2>3. srv'[c].sent = srv[c].sent \/ srv[c].sent < MaxDown
    BY <1>1, <1>9 DEF BackendAnswers, BackendSends, BackendEnds, SrvType, EndType
  <2>4. srv'[c].sent <= MaxDown
    BY <1>1, <2>2, <2>3 DEF Bounded
  <2> QED
    BY <2>1, <2>4 DEF Bounded
<1> QED
  BY <1>3, <1>4, <1>5, <1>6, <1>7, <1>8, <1>9 DEF Next, Loop, acceptClients, Environment

-----------------------------------------------------------------------------
(* A step of one session is a step of Relay or none.                       *)

\* Everything the cases below start from.
Related == IInv /\ SessionInv /\ Bounded

LEMMA StaysOpen ==
  ASSUME Related, IInv', SessionInv', NEW fd \in LiveBackends, NEW c, c = ConnOf(fd),
         \/ BackendLeaves(fd) \/ PendingMoves(fd) \/ GivesUp(fd)
         \/ TakesDown(fd) \/ TakesUp(fd) \/ GivesDown(fd)
  PROVE  /\ c \in Conn
         /\ Phase(c) = EntryPhase(backends[fd])
         /\ Channels(c) = EntryChannels(clients[fd], backends[fd], cli[c], srv[c])
         /\ Phase(c)' = EntryPhase(backends'[fd])
         /\ Channels(c)' = EntryChannels(clients'[fd], backends'[fd], cli'[c], srv'[c])
         /\ \A d \in Conn : d # c => SameSession(d)
<1>1. fd \in Fd /\ c \in Conn
  BY SessionEntry DEF Related
<1>2. clients'[fd].remoteAddr = c /\ backends'[fd].clientAddr = c /\ Others(fd)
  BY SessionStays DEF Related
<1>3. fd \in LiveBackends' /\ c = ConnOf(fd)'
  BY <1>1, <1>2, ConnAssumption DEF LiveBackends, ConnOf
<1>4. /\ Phase(c) = EntryPhase(backends[fd])
      /\ Channels(c) = EntryChannels(clients[fd], backends[fd], cli[c], srv[c])
  BY OpenView DEF Related
<1>5. \A d \in Conn : d # c => SameSession(d)
  BY <1>2, OthersSeen DEF Related
<1>6. /\ Phase(c)' = EntryPhase(backends'[fd])
      /\ Channels(c)' = EntryChannels(clients'[fd], backends'[fd], cli'[c], srv'[c])
  BY <1>3, OpenViewNext
<1> QED
  BY <1>1, <1>4, <1>5, <1>6

LEMMA SeesPendingMove ==
  ASSUME Related, IInv', SessionInv', NEW fd \in LiveBackends, NEW c, c = ConnOf(fd),
         PendingMoves(fd)
  PROVE  UNCHANGED R!relayVars
<1> DEFINE e == backends[fd]
           b == e.backend
           f == backends'[fd]
<1>1. /\ e \in BackendType /\ b \in NBType /\ b.fd # NB!NoFd
  BY SessionEntry DEF Related, PendingMoves, BackendFd
<1>2. b.sendQueue \in Seq(Byte) /\ e.pendingData \in Seq(Byte)
  BY <1>1 DEF BackendType, NBType
<1>3. /\ f.backend.fd = b.fd /\ f.backend.sendQueue = b.sendQueue \o e.pendingData
      /\ f.pendingData = <<>>
  BY <1>1 DEF PendingMoves, BackendType, NBType
<1>4. (b.sendQueue \o e.pendingData) \o <<>> = b.sendQueue \o e.pendingData
  <2> DEFINE s == b.sendQueue \o e.pendingData
  <2>1. s \in Seq(Byte)
    BY <1>2
  <2> HIDE DEF s
  <2>2. s \o <<>> = s
    BY <2>1, ConcatEmptySeq
  <2> QED
    BY <2>2 DEF s
<1>5. clients'[fd] = clients[fd] /\ cli'[c] = cli[c] /\ srv'[c] = srv[c]
  BY DEF PendingMoves
<1> HIDE DEF f
<1>6. /\ EntryPhase(f) = EntryPhase(e)
      /\ EntryChannels(clients[fd], f, cli[c], srv[c])
           = EntryChannels(clients[fd], e, cli[c], srv[c])
  BY <1>1, <1>3, <1>4 DEF EntryPhase, EntryChannels
<1>7. SameSession(c) /\ \A d \in Conn : d # c => SameSession(d)
  BY <1>5, <1>6, StaysOpen DEF SameSession, f
<1> QED
  BY <1>7, RelayStutters

\* The first bytes of a queue that is followed by another.
LEMMA HeadOfJoin ==
  ASSUME NEW q \in Seq(Byte), NEW p \in Seq(Byte), NEW n \in 1..Len(q)
  PROVE  /\ n \in 1..Len(q \o p)
         /\ SubSeq(q \o p, 1, n) = SubSeq(q, 1, n)
         /\ SubSeq(q \o p, n + 1, Len(q \o p)) = SubSeq(q, n + 1, Len(q)) \o p
<1> DEFINE w == q \o p
           a == SubSeq(q, 1, n)
           z == SubSeq(q, n + 1, Len(q))
           y == SubSeq(w, n + 1, Len(w))
<1>1. w \in Seq(Byte) /\ n \in 1..Len(w)
  <2>1. w \in Seq(Byte) /\ Len(w) = Len(q) + Len(p) /\ Len(q) \in Nat /\ Len(p) \in Nat
    BY ConcatProperties
  <2> HIDE DEF w
  <2> QED
    BY <2>1
<1>2. a \in Seq(Byte) /\ z \in Seq(Byte) /\ y \in Seq(Byte)
  <2>1. a \in Seq(Byte) /\ z \in Seq(Byte)
    BY PartsType
  <2>2. y \in Seq(Byte)
    <3> HIDE DEF w
    <3> QED
      BY <1>1, PartsType
  <2> QED
    BY <2>1, <2>2
<1>3. SubSeq(w, 1, n) = a
  <2>1. 1 \in 1..Len(q) /\ n \in 1..Len(q)
    OBVIOUS
  <2> QED
    BY <2>1, SubSeqOfConcat1
<1>4. a \o y = w
  <2>1. SubSeq(w, 1, n) \o SubSeq(w, n + 1, Len(w)) = w
    <3> HIDE DEF w
    <3> QED
      BY <1>1, SplitSeq
  <2> QED
    BY <1>3, <2>1
<1>5. a \o z = q
  BY SplitSeq
<1> HIDE DEF a, z, y
<1>6. a \o (z \o p) = w
  <2>1. (a \o z) \o p = a \o (z \o p)
    <3>1. Associates(a, z, p)
      BY <1>2, Associate
    <3> QED
      BY <3>1 DEF Associates
  <2> QED
    BY <1>5, <2>1
<1>7. z \o p \in Seq(Byte)
  BY <1>2, ConcatProperties
<1>8. y = z \o p
  <2> DEFINE v == z \o p
  <2>1. v \in Seq(Byte) /\ a \o v = a \o y
    BY <1>4, <1>6, <1>7
  <2> HIDE DEF v
  <2>2. y = v
    BY <1>2, <2>1, ConcatSimplifications
  <2> QED
    BY <2>2 DEF v
<1> QED
  BY <1>1, <1>3, <1>8 DEF a, z, y

LEMMA SeesGivingUp ==
  ASSUME Related, IInv', SessionInv', NEW fd \in LiveBackends, NEW c, c = ConnOf(fd),
         GivesUp(fd)
  PROVE  R!Next
<1> DEFINE e == backends[fd]
           b == e.backend
           q == b.sendQueue
           p == e.pendingData
           f == backends'[fd]
           se == srv'[c]
<1>1. /\ e \in BackendType /\ b \in NBType /\ b.fd # NB!NoFd /\ srv[c] \in SrvType
  BY SessionEntry DEF Related, GivesUp, BackendFd
<1>2. q \in Seq(Byte) /\ p \in Seq(Byte) /\ srv[c].out \in Seq(Byte)
  BY <1>1 DEF BackendType, NBType, SrvType, EndType
<1>3. PICK n \in 1..Len(q) :
        /\ f = [e EXCEPT !.backend = [b EXCEPT !.sendQueue = SubSeq(q, n + 1, Len(q))]]
        /\ se = [srv[c] EXCEPT !.out = @ \o SubSeq(q, 1, n)]
  BY DEF GivesUp
<1>4. /\ f.backend.fd = b.fd /\ f.backend.sendQueue = SubSeq(q, n + 1, Len(q))
      /\ f.pendingData = p /\ se.out = srv[c].out \o SubSeq(q, 1, n)
  <2>1. se.out = srv[c].out \o SubSeq(q, 1, n)
    BY <1>1, <1>3 DEF SrvType, EndType
  <2> HIDE DEF q, se
  <2> QED
    BY <1>1, <1>3, <2>1 DEF BackendType, NBType
<1>5. /\ n \in 1..Len(q \o p) /\ SubSeq(q \o p, 1, n) = SubSeq(q, 1, n)
      /\ SubSeq(q \o p, n + 1, Len(q \o p)) = SubSeq(q, n + 1, Len(q)) \o p
  BY <1>2, HeadOfJoin
<1>6. clients'[fd] = clients[fd] /\ cli'[c] = cli[c]
  BY DEF GivesUp
<1> DEFINE old == EntryChannels(clients[fd], e, cli[c], srv[c])
           new == EntryChannels(clients[fd], f, cli[c], se)
<1>7. /\ Phase(c) = "open" /\ Phase(c)' = "open"
      /\ Channels(c) = old /\ Channels(c)' = new
      /\ c \in Conn /\ \A d \in Conn : d # c => SameSession(d)
  BY <1>1, <1>4, <1>6, StaysOpen DEF EntryPhase
<1> HIDE DEF f, se
<1>8. old["up"].given = srv[c].out /\ old["up"].transit = q \o p
  BY <1>1 DEF EntryChannels, ChannelPair
<1> HIDE DEF old
<1>9. R!GivenOf(old["up"], n)
        = [given |-> srv[c].out \o SubSeq(q, 1, n), transit |-> SubSeq(q, n + 1, Len(q)) \o p]
  BY ONLY <1>5, <1>8 DEF R!GivenOf
<1>10. new = [old EXCEPT !["up"] = R!GivenOf(old["up"], n)]
  BY <1>1, <1>4, <1>9 DEF EntryChannels, ChannelPair, old
<1>11. n \in 1..Len(old["up"].transit)
  BY ONLY <1>5, <1>8
<1> HIDE DEF new
<1> QED
  BY <1>7, <1>10, <1>11, RelayGives

LEMMA SeesTakingDown ==
  ASSUME Related, IInv', SessionInv', NEW fd \in LiveBackends, NEW c, c = ConnOf(fd),
         TakesDown(fd)
  PROVE  R!Next
<1> DEFINE st == clients[fd]
           e == backends[fd]
           r == srv[c].read
           new == clients'[fd]
<1>1. /\ st \in ClientType /\ cli[c] \in CliType /\ srv[c] \in SrvType /\ c \in Conn
      /\ EntryOK(st, e, cli[c], srv[c]) /\ e.backend.fd # NB!NoFd
  BY SessionEntry DEF Related, TakesDown, BackendFd
<1>2. /\ st.sendQueue \in Seq(Byte) /\ cli[c].out \in Seq(Byte)
      /\ r \in Nat /\ srv[c].sent \in Nat /\ srv[c].sent <= MaxDown
      /\ MaxUp \in Nat /\ MaxDown \in Nat
  BY <1>1, BoundAssumption DEF ClientType, CliType, SrvType, EndType, Related, Bounded
<1>3. PICK n \in 1..(srv[c].sent - r) :
        new = [st EXCEPT !.sendQueue = @ \o Stream(c, "down", r, r + n)]
  BY DEF TakesDown
<1>4. n \in 1..(MaxUp + MaxDown)
  BY <1>2
<1>5. new.sendQueue = st.sendQueue \o Stream(c, "down", r, r + n)
  BY <1>1, <1>3 DEF ClientType
<1>6. Len(cli[c].out) + Len(st.sendQueue) = r
  <2>1. Len(cli[c].out \o st.sendQueue) = r
    BY <1>1 DEF EntryOK
  <2> QED
    BY <1>2, <2>1, ConcatProperties
<1>7. backends'[fd] = e /\ cli'[c] = cli[c] /\ srv'[c].out = srv[c].out
  BY <1>1 DEF TakesDown, SrvType, EndType
<1> DEFINE old == EntryChannels(st, e, cli[c], srv[c])
           nxt == EntryChannels(new, e, cli[c], srv'[c])
<1>8. /\ Phase(c) = "open" /\ Phase(c)' = "open"
      /\ Channels(c) = old /\ Channels(c)' = nxt
      /\ \A d \in Conn : d # c => SameSession(d)
  BY <1>1, <1>7, StaysOpen DEF EntryPhase
<1> HIDE DEF new
<1>9. old["down"].given = cli[c].out /\ old["down"].transit = st.sendQueue
  BY DEF EntryChannels, ChannelPair
<1>10. nxt = [old EXCEPT !["down"].transit = @ \o Stream(c, "down", r, r + n)]
  BY <1>5, <1>7 DEF EntryChannels, ChannelPair
<1> HIDE DEF old, nxt
<1>11. r = Len(Channels(c)["down"].given) + Len(Channels(c)["down"].transit)
  BY <1>6, <1>8, <1>9
<1>12. Channels(c)' = [Channels(c) EXCEPT !["down"].transit = @ \o Stream(c, "down", r, r + n)]
  BY <1>8, <1>10
<1> QED
  BY <1>1, <1>2, <1>4, <1>8, <1>11, <1>12, RelayTakes

\* What is appended to either of two queues is appended to both together.
LEMMA JoinGrows ==
  ASSUME NEW q \in Seq(Byte), NEW p \in Seq(Byte), NEW data \in Seq(Byte)
  PROVE  /\ q \o (p \o data) = (q \o p) \o data
         /\ p = <<>> => (q \o data) \o p = (q \o p) \o data
<1>1. q \o (p \o data) = (q \o p) \o data
  BY Assoc
<1>2. (q \o data) \o <<>> = q \o data /\ q \o <<>> = q
  <2>1. q \o data \in Seq(Byte)
    BY ConcatProperties
  <2> QED
    BY <2>1, ConcatEmptySeq
<1> QED
  BY <1>1, <1>2

LEMMA SeesTakingUp ==
  ASSUME Related, IInv', SessionInv', NEW fd \in LiveBackends, NEW c, c = ConnOf(fd),
         TakesUp(fd)
  PROVE  R!Next \/ UNCHANGED R!relayVars
<1> DEFINE st == clients[fd]
           e == backends[fd]
           b == e.backend
           q == b.sendQueue
           p == e.pendingData
           r == cli[c].read
           f == backends'[fd]
<1>1. /\ e \in BackendType /\ b \in NBType /\ cli[c] \in CliType /\ srv[c] \in SrvType
      /\ c \in Conn /\ st.remoteAddr = c /\ EntryOK(st, e, cli[c], srv[c])
  BY SessionEntry DEF Related
<1>2. /\ q \in Seq(Byte) /\ p \in Seq(Byte) /\ srv[c].out \in Seq(Byte)
      /\ r \in Nat /\ cli[c].sent \in Nat /\ cli[c].sent <= MaxUp
      /\ MaxUp \in Nat /\ MaxDown \in Nat
  BY <1>1, BoundAssumption DEF BackendType, NBType, CliType, SrvType, EndType, Related, Bounded
<1>3. PICK n \in 1..(cli[c].sent - r) :
        \/ /\ b.connected
           /\ f = [e EXCEPT !.backend = [b EXCEPT
                    !.sendQueue = q \o Stream(c, "up", r, r + n)]]
        \/ /\ ~b.connected /\ b.connecting
           /\ f = [e EXCEPT !.pendingData = @ \o Stream(c, "up", r, r + n)]
        \/ /\ ~b.connected /\ ~b.connecting
           /\ f = e
  BY DEF TakesUp
<1>4. n \in 1..(MaxUp + MaxDown) /\ n \in Nat
  BY <1>2
<1>5. clients'[fd] = st /\ srv'[c] = srv[c] /\ cli'[c].out = cli[c].out
  BY <1>1 DEF TakesUp, CliType, EndType
<1> DEFINE data == Stream(c, "up", r, r + n)
           old == EntryChannels(st, e, cli[c], srv[c])
           nxt == EntryChannels(st, f, cli'[c], srv[c])
<1>6. data \in Seq(Byte)
  BY <1>1, <1>2, <1>4, StreamType
<1>7. /\ Phase(c) = EntryPhase(e) /\ Phase(c)' = EntryPhase(f)
      /\ Channels(c) = old /\ Channels(c)' = nxt
      /\ \A d \in Conn : d # c => SameSession(d)
  BY <1>5, StaysOpen
<1>8. CASE b.connected \/ b.connecting
  <2>1. b.fd # NB!NoFd
    BY <1>1, <1>8 DEF EntryOK
  <2>2. /\ f.backend.fd = b.fd
        /\ f.backend.sendQueue \o f.pendingData = (q \o p) \o data
    <3>1. CASE b.connected
      <4>1. f = [e EXCEPT !.backend = [b EXCEPT !.sendQueue = q \o data]] /\ p = <<>>
        BY <1>1, <1>3, <2>1, <3>1 DEF EntryOK
      <4> HIDE DEF f, data, q
      <4>2. f.backend.fd = b.fd /\ f.backend.sendQueue = q \o data /\ f.pendingData = p
        BY <1>1, <4>1 DEF BackendType, NBType
      <4>3. (q \o data) \o p = (q \o p) \o data
        BY <1>2, <1>6, <4>1, JoinGrows
      <4> QED
        BY <4>2, <4>3
    <3>2. CASE ~b.connected /\ b.connecting
      <4>1. f = [e EXCEPT !.pendingData = p \o data]
        BY <1>3, <3>2
      <4> HIDE DEF f, data, p
      <4>2. f.backend = b /\ f.pendingData = p \o data
        BY <1>1, <4>1 DEF BackendType
      <4>3. q \o (p \o data) = (q \o p) \o data
        <5>1. \A x, y, z \in Seq(Byte) : x \o (y \o z) = (x \o y) \o z
          BY Assoc
        <5>2. q \in Seq(Byte) /\ p \in Seq(Byte) /\ data \in Seq(Byte)
          BY <1>2, <1>6
        <5> HIDE DEF q
        <5> QED
          BY <5>1, <5>2
      <4> QED
        BY <4>2, <4>3
    <3> QED
      BY <1>8, <3>1, <3>2
  <2>3. Len(srv[c].out) + Len(q \o p) = r
    <3>1. (srv[c].out \o q) \o p = Stream(c, "up", 0, r)
      BY <1>1, <2>1 DEF EntryOK
    <3>2. Len((srv[c].out \o q) \o p) = r
      <4>1. \A k \in Nat : Len(Stream(c, "up", 0, k)) = k
        BY <1>1, StreamStart
      <4>2. Len(Stream(c, "up", 0, r)) = r
        BY ONLY <1>2, <4>1
      <4> QED
        BY ONLY <3>1, <4>2
    <3>3. Len((srv[c].out \o q) \o p) = Len(srv[c].out) + Len(q \o p)
      <4>1. \A o, s, t \in Seq(Byte) : Len((o \o s) \o t) = Len(o) + Len(s \o t)
        OBVIOUS
      <4> QED
        BY <1>2, <4>1
    <3> QED
      BY <3>2, <3>3
  <2> HIDE DEF f, data
  <2>4. old["up"].given = srv[c].out /\ old["up"].transit = q \o p
    BY <2>1 DEF EntryChannels, ChannelPair
  <2>5. nxt = [old EXCEPT !["up"].transit = @ \o data]
    BY <1>5, <2>1, <2>2 DEF EntryChannels, ChannelPair
  <2>6. Phase(c) = "open" /\ Phase(c)' = "open"
    BY <1>7, <2>1, <2>2 DEF EntryPhase
  <2> HIDE DEF old, nxt
  <2>7. r = Len(Channels(c)["up"].given) + Len(Channels(c)["up"].transit)
    BY <1>7, <2>3, <2>4
  <2>8. Channels(c)' = [Channels(c) EXCEPT !["up"].transit = @ \o Stream(c, "up", r, r + n)]
    BY <1>7, <2>5 DEF data
  <2> QED
    BY <1>1, <1>2, <1>4, <1>7, <2>6, <2>7, <2>8, RelayTakes
<1>9. CASE ~b.connected /\ ~b.connecting
  <2>1. f = e
    BY <1>3, <1>9
  <2> HIDE DEF f
  <2>2. nxt = old /\ EntryPhase(f) = EntryPhase(e)
    BY <1>5, <2>1 DEF EntryChannels
  <2>3. \A d \in Conn : SameSession(d)
    BY <1>7, <2>2 DEF SameSession
  <2> QED
    BY <2>3, RelayStutters
<1> QED
  BY <1>8, <1>9

LEMMA SeesGivingDown ==
  ASSUME Related, IInv', SessionInv', NEW fd \in LiveBackends, NEW c, c = ConnOf(fd),
         GivesDown(fd)
  PROVE  R!Next
<1> DEFINE st == clients[fd]
           e == backends[fd]
           q == st.sendQueue
           new == clients'[fd]
           ce == cli'[c]
<1>1. st \in ClientType /\ cli[c] \in CliType
  BY SessionEntry DEF Related
<1>2. PICK n \in 1..Len(q) :
        /\ new = [st EXCEPT !.sendQueue = SubSeq(q, n + 1, Len(q))]
        /\ ce = [cli[c] EXCEPT !.out = @ \o SubSeq(q, 1, n)]
  BY DEF GivesDown
<1>3. new.sendQueue = SubSeq(q, n + 1, Len(q)) /\ ce.out = cli[c].out \o SubSeq(q, 1, n)
  BY <1>1, <1>2 DEF ClientType, CliType, EndType
<1>4. backends'[fd] = e /\ srv'[c] = srv[c]
  BY DEF GivesDown
<1> DEFINE old == EntryChannels(st, e, cli[c], srv[c])
           nxt == EntryChannels(new, e, ce, srv[c])
<1>5. /\ c \in Conn /\ Phase(c) \in {"open", "draining"} /\ Phase(c)' = Phase(c)
      /\ Channels(c) = old /\ Channels(c)' = nxt
      /\ \A d \in Conn : d # c => SameSession(d)
  BY <1>4, StaysOpen DEF EntryPhase
<1> HIDE DEF new, ce
<1>6. old["down"].given = cli[c].out /\ old["down"].transit = q
  BY DEF EntryChannels, ChannelPair
<1> HIDE DEF old
<1>7. R!GivenOf(old["down"], n)
        = [given |-> cli[c].out \o SubSeq(q, 1, n), transit |-> SubSeq(q, n + 1, Len(q))]
  BY ONLY <1>6 DEF R!GivenOf
<1>8. nxt = [old EXCEPT !["down"] = R!GivenOf(old["down"], n)]
  BY <1>3, <1>7 DEF EntryChannels, ChannelPair, old
<1>9. n \in 1..Len(old["down"].transit)
  BY ONLY n \in 1..Len(q), <1>6
<1> HIDE DEF nxt
<1> QED
  BY <1>5, <1>8, <1>9, RelayGives

LEMMA SeesLoss ==
  ASSUME Related, IInv', SessionInv', NEW fd \in LiveBackends, NEW c, c = ConnOf(fd),
         BackendLeaves(fd)
  PROVE  R!Next
<1> DEFINE st == clients[fd]
           e == backends[fd]
           new == clients'[fd]
           f == backends'[fd]
<1>1. st \in ClientType /\ e \in BackendType /\ e.backend.fd # NB!NoFd
  BY SessionEntry DEF Related, BackendLeaves, BackendFd
<1>2. new.sendQueue = st.sendQueue
  BY <1>1 DEF BackendLeaves, ClientType
<1>3. f.backend.fd = NB!NoFd
  <2>1. f.backend = NB!Fresh
    <3> HIDE DEF NB!Fresh
    <3> QED
      BY <1>1 DEF BackendLeaves, BackendType
  <2> QED
    BY <2>1 DEF NB!Fresh
<1>4. cli'[c] = cli[c] /\ srv'[c].out = srv[c].out
  BY DEF BackendLeaves
<1> DEFINE old == EntryChannels(st, e, cli[c], srv[c])
           nxt == EntryChannels(new, f, cli[c], srv'[c])
<1>5. /\ c \in Conn /\ Phase(c) = "open" /\ Phase(c)' = "draining"
      /\ Channels(c) = old /\ Channels(c)' = nxt
      /\ \A d \in Conn : d # c => SameSession(d)
  BY <1>1, <1>3, <1>4, StaysOpen DEF EntryPhase
<1> HIDE DEF new, f
<1>6. nxt = [old EXCEPT !["up"] = [@ EXCEPT !.transit = <<>>]]
  BY <1>1, <1>2, <1>3, <1>4 DEF EntryChannels, ChannelPair
<1> HIDE DEF old, nxt
<1>7. Channels(c)' = [Channels(c) EXCEPT !["up"] = [@ EXCEPT !.transit = <<>>]]
  BY <1>5, <1>6
<1> QED
  BY <1>5, <1>7, RelayLoses

LEMMA SeesEnd ==
  ASSUME Related, IInv', SessionInv', NEW fd \in LiveBackends, NEW c, c = ConnOf(fd),
         SessionEnds(fd)
  PROVE  R!Next
<1> DEFINE st == clients[fd]
           e == backends[fd]
           q == st.sendQueue
           old == EntryChannels(st, e, cli[c], srv[c])
           nxt == ChannelPair(srv'[c].out, <<>>, cli'[c].out, <<>>)
<1>1. st \in ClientType /\ cli[c] \in CliType /\ c \in Conn
  BY SessionEntry DEF Related
<1>2. q \in Seq(Byte) /\ cli[c].out \in Seq(Byte)
  BY <1>1 DEF ClientType, CliType, EndType
<1>3. /\ Phase(c) \in {"open", "draining"} /\ Channels(c) = old
  BY OpenView DEF Related, EntryPhase
<1>4. /\ cli'[c].at = "closed" /\ cli'[c].out \in {cli[c].out, cli[c].out \o q}
      /\ srv'[c].out = srv[c].out /\ Others(fd)
  BY DEF SessionEnds
<1>5. Phase(c)' = "over" /\ Channels(c)' = nxt
  BY <1>4, ShutViewNext
<1>6. \A d \in Conn : d # c => SameSession(d)
  BY <1>4, OthersSeen DEF Related
<1>7. PICK n \in {0, Len(q)} : cli'[c].out = cli[c].out \o SubSeq(q, 1, n)
  <2>1. SubSeq(q, 1, 0) = <<>> /\ SubSeq(q, 1, Len(q)) = q
    BY <1>2, SubSeqEmpty, SubSeqFull
  <2>2. cli[c].out \o <<>> = cli[c].out
    BY <1>2, ConcatEmptySeq
  <2> QED
    BY <1>4, <2>1, <2>2
<1>8. old["down"].given = cli[c].out /\ old["down"].transit = q
  BY DEF EntryChannels, ChannelPair
<1>9. R!Lost(old["up"]) = [given |-> srv[c].out, transit |-> <<>>]
  BY DEF EntryChannels, ChannelPair, R!Lost
<1> HIDE DEF old
<1>10. R!Lost(R!GivenOf(old["down"], n)) = [given |-> cli'[c].out, transit |-> <<>>]
  <2>1. R!GivenOf(old["down"], n)
          = [given |-> cli'[c].out, transit |-> SubSeq(q, n + 1, Len(q))]
    BY ONLY <1>7, <1>8 DEF R!GivenOf
  <2>2. \A x, y : R!Lost([given |-> x, transit |-> y]) = [given |-> x, transit |-> <<>>]
    BY DEF R!Lost
  <2> QED
    BY ONLY <2>1, <2>2
<1>11. nxt = [old EXCEPT !["up"] = R!Lost(old["up"]),
                         !["down"] = R!Lost(R!GivenOf(old["down"], n))]
  BY <1>4, <1>9, <1>10 DEF EntryChannels, ChannelPair, old
<1>12. n \in {0, Len(old["down"].transit)}
  BY ONLY n \in {0, Len(q)}, <1>8
<1> HIDE DEF nxt
<1> QED
  BY <1>1, <1>3, <1>5, <1>6, <1>11, <1>12, RelayEnds

\* Every turn is one step of Relay, or none.
LEMMA SeesTurn ==
  ASSUME Related, IInv', SessionInv', NEW fd \in Fd, processBackends(fd) \/ processClients(fd)
  PROVE  R!Next \/ UNCHANGED R!relayVars
<1>1. fd \in LiveBackends /\ SessionChanges(fd)
  BY TurnEffect DEF Related
<1>2. ASSUME NEW c, c = ConnOf(fd) PROVE R!Next \/ UNCHANGED R!relayVars
  BY <1>1, <1>2, SeesEnd, SeesLoss, SeesPendingMove, SeesGivingUp, SeesTakingDown, SeesTakingUp,
    SeesGivingDown DEF SessionChanges
<1> QED
  BY <1>2

-----------------------------------------------------------------------------
(* The other steps.                                                        *)

\* What Relay sees does not change with what select() reported, where the loop is
\* or what waits in the sockets.
LEMMA SeesNothing ==
  ASSUME Related, IInv', SessionInv', UNCHANGED tables,
         \A d \in Conn : /\ cli'[d].at = cli[d].at \/ {cli[d].at, cli'[d].at} = {"new", "queued"}
                         /\ cli'[d].out = cli[d].out /\ srv'[d].out = srv[d].out
  PROVE  UNCHANGED R!relayVars
<1>1. ASSUME NEW d \in Conn PROVE SameSession(d)
  <2>1. CASE cli[d].at \in {"new", "queued", "closed"}
    <3>1. /\ cli'[d].at \in {"new", "queued", "closed"}
          /\ cli'[d].at = "closed" <=> cli[d].at = "closed"
      BY <2>1
    <3> QED
      BY <2>1, <3>1, ShutView, ShutViewNext DEF SameSession
  <2>2. ASSUME NEW fd \in LiveBackends, ConnOf(fd) = d PROVE SameSession(d)
    <3>1. fd \in LiveBackends' /\ ConnOf(fd)' = d
      BY <2>2 DEF tables, LiveBackends, ConnOf
    <3>2. /\ Phase(d) = EntryPhase(backends[fd])
          /\ Channels(d) = EntryChannels(clients[fd], backends[fd], cli[d], srv[d])
      BY <2>2, OpenView DEF Related
    <3>3. /\ Phase(d)' = EntryPhase(backends'[fd])
          /\ Channels(d)' = EntryChannels(clients'[fd], backends'[fd], cli'[d], srv'[d])
      BY <3>1, OpenViewNext
    <3>4. clients' = clients /\ backends' = backends
      BY DEF tables
    <3> QED
      BY <3>2, <3>3, <3>4 DEF SameSession, EntryChannels
  <2> QED
    BY <2>1, <2>2, OpenOrShut DEF Related
<1> QED
  BY <1>1, RelayStutters

LEMMA SeesQuiet ==
  ASSUME Related, IInv', SessionInv',
         \/ Select \/ Tick \/ AcceptDone \/ BackendsDone \/ ClientsDone \/ stop
         \/ UNCHANGED vars \/ Environment
  PROVE  UNCHANGED R!relayVars
<1>1. cli \in [Conn -> CliType] /\ srv \in [Conn -> SrvType]
  BY TypeParts DEF Related, IInv, KernelType
<1>2. CASE \/ Select \/ Tick \/ AcceptDone \/ BackendsDone \/ ClientsDone \/ stop
           \/ UNCHANGED vars
  <2>1. UNCHANGED <<tables, cli, srv>>
    BY <1>2 DEF Select, Tick, AcceptDone, BackendsDone, ClientsDone, stop, vars, kernel
  <2> QED
    BY <2>1, SeesNothing
<1>3. ASSUME NEW c \in Conn, \/ ClientConnects(c) \/ ClientSends(c) \/ ClientCloses(c)
      PROVE  UNCHANGED R!relayVars
  <2>1. UNCHANGED <<tables, srv>> /\ \A d \in Conn : d # c => cli'[d] = cli[d]
    BY <1>1, <1>3 DEF ClientConnects, ClientSends, ClientCloses
  <2>2. /\ cli'[c].at = cli[c].at \/ (cli[c].at = "new" /\ cli'[c].at = "queued")
        /\ cli'[c].out = cli[c].out
    BY <1>1, <1>3 DEF ClientConnects, ClientSends, ClientCloses, CliType, EndType
  <2> QED
    BY <2>1, <2>2, SeesNothing
<1>4. ASSUME NEW c \in Conn, \/ BackendAnswers(c) \/ BackendSends(c) \/ BackendEnds(c)
      PROVE  UNCHANGED R!relayVars
  <2>1. UNCHANGED <<tables, cli>> /\ \A d \in Conn : d # c => srv'[d] = srv[d]
    BY <1>1, <1>4 DEF BackendAnswers, BackendSends, BackendEnds
  <2>2. srv'[c].out = srv[c].out
    BY <1>1, <1>4 DEF BackendAnswers, BackendSends, BackendEnds, SrvType, EndType
  <2> QED
    BY <2>1, <2>2, SeesNothing
<1> QED
  BY <1>2, <1>3, <1>4 DEF Environment

\* A connection without an entry that is left as it was, and what becomes of those
\* with entries that are left as they were.
LEMMA SeesSame ==
  ASSUME Related, IInv', SessionInv', NEW d \in Conn, cli'[d] = cli[d], srv'[d] = srv[d],
         \A g \in LiveBackends : ConnOf(g) = d => clients'[g] = clients[g]
                                                   /\ backends'[g] = backends[g]
  PROVE  SameSession(d)
<1>1. CASE cli[d].at \in {"new", "queued", "closed"}
  BY <1>1, ShutView, ShutViewNext DEF SameSession
<1>2. ASSUME NEW g \in LiveBackends, ConnOf(g) = d PROVE SameSession(d)
  <2>1. clients'[g] = clients[g] /\ backends'[g] = backends[g]
    BY <1>2
  <2>2. g \in LiveBackends' /\ ConnOf(g)' = d
    BY <1>2, <2>1 DEF LiveBackends, ConnOf
  <2>3. /\ Phase(d) = EntryPhase(backends[g])
        /\ Channels(d) = EntryChannels(clients[g], backends[g], cli[d], srv[d])
    BY <1>2, OpenView DEF Related
  <2>4. /\ Phase(d)' = EntryPhase(backends'[g])
        /\ Channels(d)' = EntryChannels(clients'[g], backends'[g], cli'[d], srv'[d])
    BY <2>2, OpenViewNext
  <2> QED
    BY <2>1, <2>3, <2>4 DEF SameSession
<1> QED
  BY <1>1, <1>2, OpenOrShut DEF Related

LEMMA SeesDenial ==
  ASSUME Related, IInv', SessionInv', NEW c \in Conn, AcceptDenied(c)
  PROVE  R!Next
<1>1. /\ cli \in [Conn -> CliType] /\ cli[c].at = "queued"
      /\ cli' = [cli EXCEPT ![c] = ClosedEnd(cli[c])]
      /\ UNCHANGED <<tables, srv>>
  BY TypeParts DEF Related, IInv, KernelType, AcceptDenied, Backlog
<1>2. cli'[c].at = "closed" /\ cli'[c].out = cli[c].out
  BY <1>1 DEF ClosedEnd, CliType, EndType
<1>3. /\ Phase(c) = "idle" /\ Phase(c)' = "over" /\ Channels(c)' = Channels(c)
  BY <1>1, <1>2, ShutView, ShutViewNext
<1>4. \A d \in Conn : d # c => SameSession(d)
  BY <1>1, SeesSame DEF tables
<1> QED
  BY <1>3, <1>4, RelayRefuses

LEMMA InitRelay == ASSUME Init PROVE R!Init
<1>1. \A c \in Conn : cli[c].at = "new" /\ cli[c].out = <<>> /\ srv[c].out = <<>>
  BY DEF Init, NewEnd
<1>2. \A c \in Conn : Phase(c) = "idle" /\ Channels(c) = ChannelPair(<<>>, <<>>, <<>>, <<>>)
  BY <1>1, ShutView
<1>3. ChannelPair(<<>>, <<>>, <<>>, <<>>) = [dir \in R!Dir |-> R!Empty]
  BY DEF ChannelPair, R!Dir, R!Empty
<1> QED
  BY <1>2, <1>3 DEF R!Init

LEMMA SeesAdmission ==
  ASSUME Related, IInv', SessionInv', NEW c \in Conn, AcceptClient(c)
  PROVE  R!Next
<1>1. PICK fd \in Fd : Admitted(fd, c)
  BY AdmitSession DEF Related
<1>2. /\ cli[c].at = "queued" /\ cli[c].out = <<>> /\ srv[c].out = <<>>
  BY <1>1 DEF Admitted, Related, SessionInv, Untouched
<1>3. Phase(c) = "idle" /\ Channels(c) = ChannelPair(<<>>, <<>>, <<>>, <<>>)
  BY <1>2, ShutView
<1>4. /\ Phase(c)' = EntryPhase(backends'[fd])
      /\ Channels(c)' = EntryChannels(clients'[fd], backends'[fd], cli'[c], srv'[c])
  BY <1>1, OpenViewNext DEF Admitted
<1>5. EntryChannels(clients'[fd], backends'[fd], cli'[c], srv'[c])
        = ChannelPair(<<>>, <<>>, <<>>, <<>>)
  <2>1. <<>> \o <<>> = <<>>
    OBVIOUS
  <2>2. /\ clients'[fd].sendQueue = <<>> /\ backends'[fd].pendingData = <<>>
        /\ backends'[fd].backend.sendQueue = <<>>
        /\ cli'[c].out = <<>> /\ srv'[c].out = <<>>
    BY <1>1 DEF Admitted
  <2> QED
    BY <2>1, <2>2 DEF EntryChannels
<1>6. \A d \in Conn : d # c => SameSession(d)
  BY <1>1, SeesSame DEF Admitted
<1> QED
  BY <1>3, <1>4, <1>5, <1>6, RelayBegins DEF EntryPhase

LEMMA SeesCleanup == ASSUME Related, IInv', SessionInv', Cleanup PROVE R!Next
<1> DEFINE all == (Live(clients) \cup {BackendFd(fd) : fd \in LiveBackends}) \ {NB!NoFd}
<1>1. CloseWith(all, cli) /\ cli \in [Conn -> CliType] /\ srv \in [Conn -> SrvType]
  BY TypeParts DEF Cleanup, Close, Related, IInv, KernelType
<1>2. ASSUME NEW c \in Conn
      PROVE  /\ cli'[c] = IF cli[c].at = "open" THEN ClosedEnd(cli[c]) ELSE cli[c]
             /\ srv'[c] \in {srv[c], ClosedEnd(srv[c])}
  <2>1. (\E fd \in all : sock[fd] = Socket("client", c)) <=> cli[c].at = "open"
    <3>1. ASSUME NEW fd \in all, sock[fd] = Socket("client", c) PROVE cli[c].at = "open"
      <4>1. fd \in Fd
        <5>1. Live(clients) \subseteq Fd /\ \A g \in LiveBackends : BackendFd(g) \in Fd \cup {NB!NoFd}
          BY LiveEntry DEF Related, IInv, FdOwnership, LiveBackends
        <5> QED
          BY <5>1
      <4>2. ConnOf(fd) = c
        BY <3>1, <4>1 DEF Related, IInv, FdOwnership
      <4>3. fd \in LiveBackends
        BY <4>1, <4>2, ConnAssumption, TypeParts DEF Related, IInv, FdOwnership, Live, ConnOf,
          TablesType
      <4> QED
        BY <4>2, <4>3, SessionEntry DEF Related, EntryOK
    <3>2. ASSUME NEW fd \in LiveBackends, ConnOf(fd) = c
          PROVE  fd \in all /\ sock[fd] = Socket("client", c)
      BY <3>2, LiveEntry, NoFdNotInFd DEF Related
    <3> HIDE DEF all
    <3> QED
      BY <3>1, <3>2, OpenOrShut DEF Related
  <2> HIDE DEF all
  <2> QED
    BY <1>1, <2>1 DEF CloseWith
<1>3. ASSUME NEW c \in Conn
      PROVE  /\ ClosedEnd(cli[c]).at = "closed" /\ ClosedEnd(cli[c]).out = cli[c].out
             /\ srv'[c].out = srv[c].out
  <2>1. cli[c] \in CliType /\ srv[c] \in SrvType
    BY <1>1
  <2>2. /\ ClosedEnd(cli[c]).at = "closed" /\ ClosedEnd(cli[c]).out = cli[c].out
        /\ ClosedEnd(srv[c]).out = srv[c].out
    BY <2>1 DEF ClosedEnd, CliType, SrvType, EndType
  <2>3. srv'[c] \in {srv[c], ClosedEnd(srv[c])}
    BY <1>2
  <2> HIDE DEF all
  <2> QED
    BY ONLY <2>2, <2>3
<1>4. ASSUME NEW c \in Conn, cli[c].at # "open" PROVE SameSession(c) /\ Phase(c) \in {"idle", "over"}
  <2>1. cli[c].at \in {"new", "queued", "closed"} /\ cli'[c] = cli[c]
    BY <1>2, <1>4, OpenOrShut DEF Related
  <2>2. srv'[c].out = srv[c].out
    BY <1>3
  <2> QED
    BY <2>1, <2>2, ShutView, ShutViewNext DEF SameSession
<1>5. ASSUME NEW c \in Conn, cli[c].at = "open"
      PROVE  /\ Phase(c) \in {"open", "draining"} /\ Phase(c)' = "over"
             /\ Channels(c)' = [dir \in {"up", "down"} |-> R!Lost(Channels(c)[dir])]
  <2>1. PICK fd \in LiveBackends : ConnOf(fd) = c
    BY <1>5, OpenOrShut DEF Related
  <2>2. /\ Phase(c) = EntryPhase(backends[fd])
        /\ Channels(c) = EntryChannels(clients[fd], backends[fd], cli[c], srv[c])
    BY <2>1, OpenView DEF Related
  <2>3. /\ Phase(c)' = "over"
        /\ Channels(c)' = ChannelPair(srv[c].out, <<>>, cli[c].out, <<>>)
    BY <1>2, <1>3, <1>5, ShutViewNext
  <2>4. [dir \in {"up", "down"} |-> R!Lost(Channels(c)[dir])]
          = ChannelPair(srv[c].out, <<>>, cli[c].out, <<>>)
    BY <2>2 DEF EntryChannels, ChannelPair, R!Lost
  <2> QED
    BY <2>2, <2>3, <2>4 DEF EntryPhase
<1> QED
  BY <1>4, <1>5, RelayStops

-----------------------------------------------------------------------------
(* The theorem about the refinement.                                       *)

LEMMA NextRelay ==
  ASSUME Related, IInv', SessionInv', [Next]_vars
  PROVE  [R!Next]_(R!relayVars)
<1>1. CASE Select \/ Tick \/ BackendsDone \/ ClientsDone \/ stop \/ UNCHANGED vars \/ Environment
  BY <1>1, SeesQuiet
<1>2. CASE acceptClients
  BY <1>2, SeesQuiet, SeesDenial, SeesAdmission DEF acceptClients
<1>3. CASE Cleanup
  BY <1>3, SeesCleanup
<1>4. ASSUME NEW fd \in Fd, processBackends(fd) \/ processClients(fd)
      PROVE  [R!Next]_(R!relayVars)
  BY <1>4, SeesTurn
<1> QED
  BY <1>1, <1>2, <1>3, <1>4 DEF Next, Loop

\* The proxy implements Relay, whatever the number of clients,
\* descriptors and bytes: descriptors, partial writes, the pendingData detour and
\* the order of turns only ever move bytes from one end of a session to the other,
\* in order, and drop them only where the session or its backend's side ends
\* (src/TcpProxy.hpp:136-265, src/TcpServer.hpp:181-243).
THEOREM ProxyRelays == Spec => ImplementsRelay
<1>1. Init => R!Init /\ Bounded
  BY InitRelay, InitBounded
<1>2. IInv /\ SessionInv /\ Bounded /\ [Next]_vars => Bounded'
  BY NextBounded
<1>3. (IInv /\ SessionInv) /\ (IInv /\ SessionInv)' /\ Bounded /\ [Next]_vars
        => [R!Next]_(R!relayVars)
  BY NextRelay DEF Related
<1> QED
  BY <1>1, <1>2, <1>3, AlwaysSession, PTL DEF Spec, ImplementsRelay, R!Spec
=============================================================================
