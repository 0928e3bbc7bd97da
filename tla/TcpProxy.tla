------------------------------- MODULE TcpProxy -------------------------------
(***************************************************************************)
(* TcpProxy (src/TcpProxy.hpp) on top of TcpServer (src/TcpServer.hpp):    *)
(* the single-threaded select() loop that gives each accepted client a     *)
(* TcpClientNB connection to the backend and copies bytes both ways.       *)
(*                                                                         *)
(* The kernel's descriptor table, the clients and the backend server are   *)
(* the environment; their steps interleave with every step of the loop.    *)
(* One iteration is select, onTick, the accept loop, one turn per entry of *)
(* backends and one turn per client.  A turn is split where the code makes *)
(* two system calls, so that the peer can act in between.                  *)
(***************************************************************************)
EXTENDS Integers, Sequences, FiniteSets, ClientTable

CONSTANTS
  Conn,      \* the connections clients make, each at most once
  Allowed,   \* those whose address the whitelist admits
  Fd,        \* the descriptors the process may use besides the listening one
  ListenFd,
  MaxUp,     \* bound: bytes one client sends
  MaxDown,   \* bound: bytes the backend sends on one connection
  Resets     \* whether connections may be reset

ASSUME ConnAssumption == NoConn \notin Conn /\ Allowed \subseteq Conn
ASSUME FdAssumption == Fd \subseteq Nat /\ ListenFd \in Nat \ Fd
ASSUME BoundAssumption == MaxUp \in Nat /\ MaxDown \in Nat /\ Resets \in BOOLEAN

NB == INSTANCE NBClient

VARIABLES
  running,   \* cleared by stop(), possibly from a signal handler
  pc,        \* where the event loop is
  readSet, writeSet,  \* what select() reported, local to one iteration
  todo,      \* the client descriptors whose turn is still to come
  cur,       \* the client descriptor whose turn is half done, or NoFd
  clients, backends,  \* the two tables, keyed by client descriptor
  sock,      \* the kernel's descriptor table
  cli, srv   \* the client's and the backend's end of each connection

loopVars == <<pc, readSet, writeSet, todo, cur>>
tables == <<clients, backends>>
kernel == <<sock, cli, srv>>
vars == <<running, loopVars, tables, kernel>>

-----------------------------------------------------------------------------
(* Data.                                                                   *)

\* Byte i of what connection c carries in a direction, and a stretch of it.
Byte == [conn : Conn, dir : {"up", "down"}, at : Nat]
Stream(c, dir, from, to) ==
  [i \in 1..(to - from) |-> [conn |-> c, dir |-> dir, at |-> from + i]]

\* A descriptor is free or a socket: accepted from a client, or to the backend.
Free == [kind |-> "free", conn |-> NoConn]
Socket(kind, c) == [kind |-> kind, conn |-> c]

\* BackendState; the entry of a descriptor that is not in the map.
NewBackend(backend, c) == [backend |-> backend, clientAddr |-> c, pendingData |-> <<>>]
NoBackend == NewBackend(NB!Fresh, NoConn)

LiveBackends == {fd \in Fd : backends[fd].clientAddr # NoConn}

\* One end of a connection as the kernel and the peer have it.  at: new, queued
\* (in the accept queue), open, closed (by the proxy); peer: syn (attempt
\* unanswered), up, refused, fin, rst, gone; sent/read: bytes the peer sent and
\* the proxy received; out: bytes the proxy sent.
NewEnd(at, peer) == [at |-> at, peer |-> peer, sent |-> 0, read |-> 0, out |-> <<>>]
ClosedEnd(e) == [e EXCEPT !.at = "closed", !.peer = "gone", !.sent = 0, !.read = 0]

Init ==
  /\ running = TRUE
  /\ pc = "select"
  /\ readSet = {} /\ writeSet = {} /\ todo = {} /\ cur = NB!NoFd
  /\ clients = [fd \in Fd |-> NoClient]
  /\ backends = [fd \in Fd |-> NoBackend]
  /\ sock = [fd \in Fd |-> Free]
  /\ cli = [c \in Conn |-> NewEnd("new", "up")]
  /\ srv = [c \in Conn |-> NewEnd("new", "gone")]

-----------------------------------------------------------------------------
(* System calls.                                                           *)

FreeFds == {fd \in Fd : sock[fd] = Free}

\* POSIX hands out the lowest free descriptor.
IsLowest(fd, S) == fd \in S /\ \A g \in S : fd <= g

Backlog == {c \in Conn : cli[c].at = "queued"}

\* What select() finds readable: data, end of stream or an error.
Readable(fd) ==
  LET c == sock[fd].conn
      e == IF sock[fd].kind = "client" THEN cli[c] ELSE srv[c]
  IN  e.sent > e.read \/ e.peer \in {"fin", "rst", "refused"}

\* A slow peer may leave no room to write; a finished connection attempt, a
\* failed one and a reset connection are always reported.
MustBeWritable(fd) ==
  LET c == sock[fd].conn
  IN  IF sock[fd].kind = "client" THEN cli[c].peer = "rst"
      ELSE \/ srv[c].peer \in {"refused", "rst"}
           \/ \E f \in Fd : /\ backends[f].backend.fd = fd
                            /\ backends[f].backend.connecting
                            /\ srv[c].peer # "syn"

MayBeWritable(fd) ==
  sock[fd].kind = "backend" => srv[sock[fd].conn].peer # "syn"

\* ::close() on the sockets of fds, when the clients' ends are as in ends.
CloseWith(fds, ends) ==
  /\ sock' = [fd \in Fd |-> IF fd \in fds THEN Free ELSE sock[fd]]
  /\ cli' = [c \in Conn |->
               IF \E fd \in fds : sock[fd] = Socket("client", c)
               THEN ClosedEnd(ends[c]) ELSE ends[c]]
  /\ srv' = [c \in Conn |->
               IF \E fd \in fds : sock[fd] = Socket("backend", c)
               THEN ClosedEnd(srv[c]) ELSE srv[c]]

Close(fds) == CloseWith(fds, cli)

BackendFd(fd) == backends[fd].backend.fd
ConnOf(fd) == clients[fd].remoteAddr

\* disconnectClient() with the onClientDisconnect() of this class: the backend
\* object disconnects itself and both entries go.  onClientError() followed by
\* disconnectClient() has the same effect.
\* Mutated form: the backend object is dropped without being disconnected.
DisconnectClientWithLeak(fd, ends) ==
  /\ clients' = erase(clients, fd)
  /\ backends' = [backends EXCEPT ![fd] = NoBackend]
  /\ CloseWith({fd}, ends)

DisconnectClientWith(fd, ends) ==
  /\ clients' = erase(clients, fd)
  /\ backends' = [backends EXCEPT ![fd] = NoBackend]
  /\ CloseWith({fd, BackendFd(fd)} \ {NB!NoFd}, ends)

DisconnectClient(fd) == DisconnectClientWith(fd, cli)

-----------------------------------------------------------------------------
(* The top of the loop.                                                    *)

ListenReady == IF Backlog # {} THEN {ListenFd} ELSE {}

ReadInterest == Live(clients) \cup ({BackendFd(fd) : fd \in LiveBackends} \ {NB!NoFd})

WriteInterest ==
  {fd \in Live(clients) : clients[fd].sendQueue # <<>>} \cup
  {BackendFd(fd) : fd \in {f \in LiveBackends :
     BackendFd(f) # NB!NoFd /\
       (backends[f].backend.connecting \/ backends[f].backend.sendQueue # <<>>)}}

Select ==
  /\ pc = "select" /\ running
  /\ readSet' = {fd \in ReadInterest : Readable(fd)} \cup ListenReady
  /\ \E W \in SUBSET {fd \in WriteInterest : MayBeWritable(fd)} :
       /\ {fd \in WriteInterest : MustBeWritable(fd)} \subseteq W
       /\ writeSet' = W
  /\ pc' = "tick"
  /\ UNCHANGED <<running, todo, cur, tables, kernel>>

\* Mutated form: an entry without a connection is skipped.
BackendsToDoSkipsFailed == {fd \in LiveBackends : BackendFd(fd) \in readSet \cup writeSet}

\* The entries of backends that have something to do in processBackends(): for
\* the others every condition of the loop body is false.
BackendsToDo ==
  {fd \in LiveBackends :
     BackendFd(fd) = NB!NoFd \/ BackendFd(fd) \in readSet \cup writeSet}

EnterBackends == pc' = "backends" /\ todo' = BackendsToDo /\ cur' = NB!NoFd

\* onTick() does nothing in this class.
Tick ==
  /\ pc = "tick"
  /\ IF ListenFd \in readSet
       THEN pc' = "accept" /\ UNCHANGED <<todo, cur>>
       ELSE EnterBackends
  /\ UNCHANGED <<running, readSet, writeSet, tables, kernel>>

-----------------------------------------------------------------------------
(* acceptClients(): one step per accept().                                 *)

AcceptDenied(c) ==
  /\ pc = "accept" /\ c \in Backlog \ Allowed /\ FreeFds # {}
  /\ cli' = [cli EXCEPT ![c] = ClosedEnd(@)]
  /\ UNCHANGED <<running, loopVars, tables, sock, srv>>

\* The client gets descriptor fd; onClientConnect() starts its backend
\* connection, which fails at once when the address does not resolve, no
\* descriptor is left or connect() reports an error.
Admit(c) ==
  /\ c \in Backlog \cap Allowed
  /\ \E fd \in FreeFds :
       /\ IsLowest(fd, FreeFds)
       /\ clients' = [clients EXCEPT ![fd] = NewClient(c)]
       /\ cli' = [cli EXCEPT ![c].at = "open"]
       /\ \/ /\ backends' = [backends EXCEPT ![fd] =
                  NewBackend(NB!connect(NB!Fresh, "failed", NB!NoFd), c)]
             /\ sock' = [sock EXCEPT ![fd] = Socket("client", c)]
             /\ UNCHANGED srv
          \/ \E bfd \in FreeFds \ {fd}, outcome \in {"inprogress", "immediate"} :
               /\ IsLowest(bfd, FreeFds \ {fd})
               /\ backends' = [backends EXCEPT ![fd] =
                    NewBackend(NB!connect(NB!Fresh, outcome, bfd), c)]
               /\ sock' = [sock EXCEPT ![fd] = Socket("client", c),
                                       ![bfd] = Socket("backend", c)]
               /\ srv' = [srv EXCEPT ![c] =
                    NewEnd("open", IF outcome = "immediate" THEN "up" ELSE "syn")]
  /\ UNCHANGED <<running, loopVars>>

AcceptClient(c) == pc = "accept" /\ Admit(c)

\* accept() fails, for want of descriptors (onClientError(-1) finds no entry),
\* or has nothing left to return.
AcceptDone ==
  /\ pc = "accept"
  /\ Backlog = {} \/ FreeFds = {}
  /\ EnterBackends
  /\ UNCHANGED <<running, readSet, writeSet, tables, kernel>>

-----------------------------------------------------------------------------
(* processBackends(): the turn of client descriptor fd.                    *)

BackendTurn(fd) == pc = "backends" /\ fd \in todo /\ cur \in {NB!NoFd, fd}

EndTurn(fd) == todo' = todo \ {fd} /\ cur' = NB!NoFd

\* After the write half the read half follows in the same turn, unless there is
\* nothing to read or no connection left to read from.
AfterWriteHalf(fd, survives) ==
  IF survives /\ BackendFd(fd) \in readSet
    THEN cur' = fd /\ UNCHANGED todo
    ELSE EndTurn(fd)

\* Mutated form: a connection still being established counts as failed.
BackendFailedTooSoon(fd) ==
  /\ BackendTurn(fd)
  /\ ~backends[fd].backend.connected
  /\ DisconnectClient(fd)
  /\ EndTurn(fd)
  /\ UNCHANGED <<running, pc, readSet, writeSet>>

\* Lines 196-204: onBackendConnectionFailed(), disconnectClient().
BackendFailed(fd) ==
  /\ BackendTurn(fd)
  /\ BackendFd(fd) = NB!NoFd
  /\ DisconnectClient(fd)
  /\ EndTurn(fd)
  /\ UNCHANGED <<running, pc, readSet, writeSet>>

WriteHalf(fd) ==
  /\ BackendTurn(fd) /\ cur = NB!NoFd
  /\ BackendFd(fd) \in writeSet

\* Mutated form: pendingData is not moved to the send queue.
BackendConnectedKeepsPending(fd) ==
  LET e == backends[fd]
  IN  /\ WriteHalf(fd)
      /\ e.backend.connecting /\ srv[e.clientAddr].peer \in {"up", "fin"}
      /\ backends' = [backends EXCEPT ![fd].backend = NB!completeConnect(@, FALSE)]
      /\ AfterWriteHalf(fd, TRUE)
      /\ UNCHANGED <<running, pc, readSet, writeSet, clients, kernel>>

\* The connection attempt has succeeded: what the client sent meanwhile is queued.
BackendConnected(fd) ==
  LET e == backends[fd]
      c == e.clientAddr
  IN  /\ WriteHalf(fd)
      /\ e.backend.connecting /\ srv[c].peer \in {"up", "fin"}
      /\ backends' = [backends EXCEPT
           ![fd].backend = NB!send(NB!completeConnect(e.backend, FALSE), e.pendingData),
           ![fd].pendingData = <<>>]
      /\ AfterWriteHalf(fd, TRUE)
      /\ UNCHANGED <<running, pc, readSet, writeSet, clients, kernel>>

BackendWrites(fd) ==
  LET b == backends[fd].backend
      c == backends[fd].clientAddr
  IN  /\ WriteHalf(fd)
      /\ b.connected /\ srv[c].peer \in {"up", "fin"}
      /\ \E n \in 1..Len(b.sendQueue) :
           /\ backends' = [backends EXCEPT ![fd].backend = NB!wrote(b, n)]
           /\ srv' = [srv EXCEPT ![c].out = @ \o SubSeq(b.sendQueue, 1, n)]
      /\ AfterWriteHalf(fd, TRUE)
      /\ UNCHANGED <<running, pc, readSet, writeSet, clients, sock, cli>>

\* The object disconnects itself and keeps its entry: the next iteration finds
\* descriptor -1 there.
BackendLost(fd) ==
  /\ backends' = [backends EXCEPT ![fd].backend = NB!disconnect(@)]
  /\ Close({BackendFd(fd)})

\* handleWrite() on a refused attempt or a reset connection.
BackendWriteFails(fd) ==
  /\ WriteHalf(fd)
  /\ srv[backends[fd].clientAddr].peer \in {"refused", "rst"}
  /\ BackendLost(fd)
  /\ AfterWriteHalf(fd, FALSE)
  /\ UNCHANGED <<running, pc, readSet, writeSet, clients>>

ReadHalf(fd) ==
  /\ BackendTurn(fd)
  /\ BackendFd(fd) \in readSet
  /\ cur = fd \/ BackendFd(fd) \notin writeSet
  /\ backends[fd].backend.connected

\* Mutated form: the two descriptors of a session are confused.
forwardToBackendFd(fd, data) == sendToClient(clients, BackendFd(fd), data)

\* Lines 243-249: what the backend sent goes to the client's queue.
forward(fd, data) == sendToClient(clients, fd, data)

\* recv() returned n bytes; they are forwarded at once.
BackendReads(fd) ==
  LET c == backends[fd].clientAddr
      b == backends[fd].backend
  IN  /\ ReadHalf(fd)
      /\ srv[c].peer # "rst"
      /\ \E n \in 1..(srv[c].sent - srv[c].read) :
           LET got == NB!received(b, Stream(c, "down", srv[c].read, srv[c].read + n))
           IN  /\ srv' = [srv EXCEPT ![c].read = @ + n]
               /\ clients' = forward(fd, got.recvBuf)
               /\ backends' = [backends EXCEPT
                    ![fd].backend = NB!consumeReceived(got, Len(got.recvBuf))]
      /\ EndTurn(fd)
      /\ UNCHANGED <<running, pc, readSet, writeSet, sock, cli>>

BackendReadFails(fd) ==
  /\ ReadHalf(fd)
  /\ srv[backends[fd].clientAddr].peer = "rst"
  /\ BackendLost(fd)
  /\ EndTurn(fd)
  /\ UNCHANGED <<running, pc, readSet, writeSet, clients>>

\* recv() returned 0: handleRead() has disconnected the object, which empties
\* the buffer lines 222-226 look at; onBackendDisconnected(), and then the client
\* is closed, after a flush if it has data queued.
BackendCloses(fd) ==
  LET c == backends[fd].clientAddr
  IN  /\ ReadHalf(fd)
      /\ srv[c].peer = "fin" /\ srv[c].sent = srv[c].read
      /\ IF clients[fd].sendQueue # <<>>
           THEN clients' = markPendingClose(clients, fd) /\ BackendLost(fd)
           ELSE DisconnectClient(fd)
      /\ EndTurn(fd)
      /\ UNCHANGED <<running, pc, readSet, writeSet>>

\* Mutated form: the clients are those select() was told about, closed or not.
BackendsDoneStale ==
  /\ pc = "backends" /\ todo = {}
  /\ pc' = "clients"
  /\ todo' = {fd \in Fd : fd \in readSet \cup writeSet /\ sock[fd].kind # "backend"}
  /\ UNCHANGED <<running, readSet, writeSet, cur, tables, kernel>>

BackendsDone ==
  /\ pc = "backends" /\ todo = {}
  /\ pc' = "clients"
  /\ todo' = {fd \in Live(clients) : fd \in readSet \cup writeSet}
  /\ UNCHANGED <<running, readSet, writeSet, cur, tables, kernel>>

-----------------------------------------------------------------------------
(* processClients(): the turn of client descriptor fd, reading first.      *)

ClientTurn(fd) == pc = "clients" /\ fd \in todo /\ cur \in {NB!NoFd, fd}

ClientReadHalf(fd) == ClientTurn(fd) /\ cur = NB!NoFd /\ fd \in readSet

\* Mutated form: what arrives before the backend has answered is dropped.
onRawDataDropsEarly(fd, buf) ==
  LET b == backends[fd].backend
  IN  IF b.connected THEN [backends EXCEPT ![fd].backend = NB!send(b, buf)] ELSE backends

\* onRawData(): a connected backend queues the data, a connecting one keeps it
\* for later, and without a connection it is dropped.
onRawData(fd, buf) ==
  LET b == backends[fd].backend
  IN  CASE b.connected  -> [backends EXCEPT ![fd].backend = NB!send(b, buf)]
        [] b.connecting -> [backends EXCEPT ![fd].pendingData = @ \o buf]
        [] OTHER        -> backends

ClientReads(fd) ==
  LET c == ConnOf(fd)
  IN  /\ ClientReadHalf(fd)
      /\ cli[c].peer # "rst"
      /\ \E n \in 1..(cli[c].sent - cli[c].read) :
           LET got == received(clients, fd, Stream(c, "up", cli[c].read, cli[c].read + n))
           IN  /\ cli' = [cli EXCEPT ![c].read = @ + n]
               /\ backends' = onRawData(fd, got[fd].recvBuf)
               /\ clients' = [got EXCEPT ![fd].recvBuf = <<>>]
      /\ IF fd \in writeSet THEN cur' = fd /\ UNCHANGED todo ELSE EndTurn(fd)
      /\ UNCHANGED <<running, pc, readSet, writeSet, sock, srv>>

\* Mutated form: the end of the client's stream is ignored.
ClientReadEndsIgnoresFin(fd) ==
  LET c == ConnOf(fd)
  IN  /\ ClientReadHalf(fd)
      /\ \/ /\ cli[c].peer = "fin" /\ cli[c].sent = cli[c].read
            /\ UNCHANGED <<tables, kernel>>
         \/ cli[c].peer = "rst" /\ DisconnectClient(fd)
      /\ EndTurn(fd)
      /\ UNCHANGED <<running, pc, readSet, writeSet>>

\* recv() returned 0 or an error.
ClientReadEnds(fd) ==
  LET c == ConnOf(fd)
  IN  /\ ClientReadHalf(fd)
      /\ \/ cli[c].peer = "fin" /\ cli[c].sent = cli[c].read
         \/ cli[c].peer = "rst"
      /\ DisconnectClient(fd)
      /\ EndTurn(fd)
      /\ UNCHANGED <<running, pc, readSet, writeSet>>

ClientWriteHalf(fd) ==
  /\ ClientTurn(fd)
  /\ fd \in writeSet
  /\ cur = fd \/ fd \notin readSet

ClientWrites(fd) ==
  LET c == ConnOf(fd)
      st == clients[fd]
  IN  /\ ClientWriteHalf(fd)
      /\ cli[c].peer # "rst"
      /\ \E n \in 1..Len(st.sendQueue) :
           LET ends == [cli EXCEPT ![c].out = @ \o SubSeq(st.sendQueue, 1, n)]
           IN  IF st.pendingClose /\ n = Len(st.sendQueue)
               THEN DisconnectClientWith(fd, ends)
               ELSE /\ clients' = wrote(clients, fd, n)
                    /\ cli' = ends
                    /\ UNCHANGED <<backends, sock, srv>>
      /\ EndTurn(fd)
      /\ UNCHANGED <<running, pc, readSet, writeSet>>

ClientWriteFails(fd) ==
  /\ ClientWriteHalf(fd)
  /\ cli[ConnOf(fd)].peer = "rst"
  /\ DisconnectClient(fd)
  /\ EndTurn(fd)
  /\ UNCHANGED <<running, pc, readSet, writeSet>>

\* The descriptor sets go out of scope with the iteration.
ClientsDone ==
  /\ pc = "clients" /\ todo = {}
  /\ pc' = "select"
  /\ readSet' = {} /\ writeSet' = {}
  /\ UNCHANGED <<running, todo, cur, tables, kernel>>

-----------------------------------------------------------------------------
(* stop(), and the way out of the loop.                                    *)

stop ==
  /\ running
  /\ running' = FALSE
  /\ UNCHANGED <<loopVars, tables, kernel>>

\* Mutated form: the loop waits for its clients to leave.
CleanupWaits ==
  /\ pc = "select" /\ ~running /\ Live(clients) = {}
  /\ pc' = "stopped"
  /\ UNCHANGED <<running, readSet, writeSet, todo, cur, tables, kernel>>

\* cleanup(): every client is closed, and destroying the entries of backends
\* closes their connections.
Cleanup ==
  /\ pc = "select" /\ ~running
  /\ pc' = "stopped"
  /\ clients' = [fd \in Fd |-> NoClient]
  /\ backends' = [fd \in Fd |-> NoBackend]
  /\ Close((Live(clients) \cup {BackendFd(fd) : fd \in LiveBackends}) \ {NB!NoFd})
  /\ UNCHANGED <<running, readSet, writeSet, todo, cur>>

-----------------------------------------------------------------------------
(* The clients and the backend.                                            *)

ClientConnects(c) ==
  /\ cli[c].at = "new" /\ pc # "stopped"
  /\ cli' = [cli EXCEPT ![c].at = "queued"]
  /\ UNCHANGED <<running, loopVars, tables, sock, srv>>

ClientSends(c) ==
  /\ cli[c].at \in {"queued", "open"} /\ cli[c].peer = "up" /\ cli[c].sent < MaxUp
  /\ cli' = [cli EXCEPT ![c].sent = @ + 1]
  /\ UNCHANGED <<running, loopVars, tables, sock, srv>>

ClientCloses(c) ==
  /\ cli[c].at \in {"queued", "open"}
  /\ \/ cli[c].peer = "up" /\ cli' = [cli EXCEPT ![c].peer = "fin"]
     \/ Resets /\ cli[c].peer # "rst" /\ cli' = [cli EXCEPT ![c].peer = "rst"]
  /\ UNCHANGED <<running, loopVars, tables, sock, srv>>

BackendAnswers(c) ==
  /\ srv[c].peer = "syn"
  /\ \E answer \in {"up", "refused"} : srv' = [srv EXCEPT ![c].peer = answer]
  /\ UNCHANGED <<running, loopVars, tables, sock, cli>>

BackendSends(c) ==
  /\ srv[c].peer = "up" /\ srv[c].sent < MaxDown
  /\ srv' = [srv EXCEPT ![c].sent = @ + 1]
  /\ UNCHANGED <<running, loopVars, tables, sock, cli>>

BackendEnds(c) ==
  /\ \/ srv[c].peer = "up" /\ srv' = [srv EXCEPT ![c].peer = "fin"]
     \/ /\ Resets /\ srv[c].peer \in {"up", "fin"}
        /\ srv' = [srv EXCEPT ![c].peer = "rst"]
  /\ UNCHANGED <<running, loopVars, tables, sock, cli>>

-----------------------------------------------------------------------------
processBackends(fd) ==
  \/ BackendFailed(fd) \/ BackendConnected(fd) \/ BackendWrites(fd)
  \/ BackendWriteFails(fd) \/ BackendReads(fd) \/ BackendReadFails(fd)
  \/ BackendCloses(fd)

processClients(fd) ==
  \/ ClientReads(fd) \/ ClientReadEnds(fd)
  \/ ClientWrites(fd) \/ ClientWriteFails(fd)

acceptClients == AcceptDone \/ \E c \in Conn : AcceptDenied(c) \/ AcceptClient(c)

Loop ==
  \/ Select \/ Tick \/ acceptClients \/ BackendsDone \/ ClientsDone \/ Cleanup
  \/ \E fd \in Fd : processBackends(fd) \/ processClients(fd)

Environment ==
  \E c \in Conn : \/ ClientConnects(c) \/ ClientSends(c) \/ ClientCloses(c)
                  \/ BackendAnswers(c) \/ BackendSends(c) \/ BackendEnds(c)

Next == Loop \/ stop \/ Environment

Spec == Init /\ [][Next]_vars

\* The loop keeps running (select() has a 100 ms timeout and nothing else in it
\* blocks), a connection attempt is answered at some point, and the peer at
\* the other end of a socket with data queued does not stay full for ever.
Fairness ==
  /\ WF_vars(Loop)
  /\ \A c \in Conn : WF_vars(BackendAnswers(c))
  /\ \A fd \in Fd : SF_vars(Select /\ fd \in writeSet')

FairSpec == Spec /\ Fairness

-----------------------------------------------------------------------------
(* Properties.                                                             *)

NBType ==
  [fd : Fd \cup {NB!NoFd}, connected : BOOLEAN, connecting : BOOLEAN,
   pendingClose : BOOLEAN, recvBuf : Seq(Byte), sendQueue : Seq(Byte)]

EndType(ats, peers) ==
  [at : ats, peer : peers, sent : Nat, read : Nat, out : Seq(Byte)]

\* The type of every variable.  In particular no entry of backends ever holds a
\* descriptor that is neither -1 nor one the kernel handed out.
TypeOK ==
  /\ running \in BOOLEAN
  /\ pc \in {"select", "tick", "accept", "backends", "clients", "stopped"}
  /\ readSet \subseteq Fd \cup {ListenFd} /\ writeSet \subseteq Fd
  /\ todo \subseteq Fd /\ cur \in Fd \cup {NB!NoFd}
  /\ clients \in [Fd -> [remoteAddr : Conn \cup {NoConn}, recvBuf : Seq(Byte),
                         sendQueue : Seq(Byte), pendingClose : BOOLEAN]]
  /\ backends \in [Fd -> [backend : NBType, clientAddr : Conn \cup {NoConn},
                          pendingData : Seq(Byte)]]
  /\ sock \in [Fd -> [kind : {"free", "client", "backend"}, conn : Conn \cup {NoConn}]]
  /\ cli \in [Conn -> EndType({"new", "queued", "open", "closed"},
                              {"up", "fin", "rst", "gone"})]
  /\ srv \in [Conn -> EndType({"new", "open", "closed"},
                              {"syn", "up", "refused", "fin", "rst", "gone"})]

\* Every open descriptor belongs to exactly one table entry and every entry's
\* descriptor is open, for the same connection: nothing leaks, nothing is
\* closed twice, no descriptor is shared, and select() is never given a closed
\* one (which would throw out of the loop, line 153).  Each client has an entry
\* in backends and the other way round.  After stop() all descriptors are free.
FdOwnership ==
  /\ Live(clients) = LiveBackends
  /\ \A fd \in LiveBackends : ConnOf(fd) = backends[fd].clientAddr
  /\ \A fd \in Fd : \A c \in Conn :
       sock[fd] = Socket("client", c) <=> ConnOf(fd) = c
  /\ \A fd \in Fd : \A c \in Conn :
       sock[fd] = Socket("backend", c) <=>
         \E f \in LiveBackends : BackendFd(f) = fd /\ backends[f].clientAddr = c
  /\ \A f, g \in LiveBackends : BackendFd(f) = BackendFd(g) /\ f # g => BackendFd(f) = NB!NoFd
  /\ pc = "stopped" => FreeFds = Fd

\* While a client's backend connection exists, everything the proxy received
\* from the client is on its way: sent, queued in the TcpClientNB or held in
\* pendingData, in the order it came and mixed with nobody else's bytes
\* (README.md:90).
UpstreamFifo ==
  \A fd \in LiveBackends :
    LET c == backends[fd].clientAddr
        b == backends[fd].backend
    IN  b.fd # NB!NoFd =>
          srv[c].out \o b.sendQueue \o backends[fd].pendingData
            = Stream(c, "up", 0, cli[c].read)

\* What was sent and what is queued for a client is an initial part of its own
\* backend's stream, and all of it that was received while that connection lasts.
DownstreamFifo ==
  \A fd \in Live(clients) :
    LET c == ConnOf(fd)
        all == cli[c].out \o clients[fd].sendQueue
    IN  /\ all = Stream(c, "down", 0, Len(all))
        /\ BackendFd(fd) # NB!NoFd => Len(all) = srv[c].read

\* What select() reported still holds when the turn comes, whatever the accepts,
\* closes and turns in between: the entry is there, a read does not come back
\* empty-handed and a write has something to write.
ReportedIsReady ==
  /\ pc = "backends" => \A fd \in todo :
       /\ fd \in LiveBackends
       /\ cur # fd /\ BackendFd(fd) \in writeSet =>
            IF backends[fd].backend.connecting
            THEN srv[backends[fd].clientAddr].peer # "syn"
            ELSE backends[fd].backend.sendQueue # <<>>
       /\ BackendFd(fd) \in readSet => Readable(BackendFd(fd))
  /\ pc = "clients" => \A fd \in todo :
       /\ fd \in Live(clients)
       /\ fd \in writeSet => clients[fd].sendQueue # <<>>
       /\ cur # fd /\ fd \in readSet => Readable(fd)

\* A descriptor that is handed out anew is in neither set of the running
\* iteration, so no event reported for its previous owner is taken for one of
\* the new connection.  This is why acceptClients() has to come first (line 158).
ReadinessIsFresh ==
  [][\A fd \in Fd : sock[fd] = Free /\ sock'[fd] # Free
       => fd \notin readSet \cup writeSet]_vars

\* The loop closes a client that is still there only when that client's own
\* backend connection failed or ended, and a backend connection that is still
\* there only when its client ended.
SessionEndsForCause ==
  [][\A c \in Conn : pc # "select" =>
       /\ cli[c].at = "open" /\ cli[c].peer = "up" /\ cli'[c].at = "closed"
            => srv[c].peer \in {"gone", "fin"}
       /\ srv[c].at = "open" /\ srv[c].peer \in {"syn", "up"} /\ srv'[c].at = "closed"
            => cli[c].peer \in {"fin", "rst"}]_vars

\* When a connection to the backend fails or ends, its client is closed.
BackendEndClosesClient ==
  \A c \in Conn : srv[c].peer \in {"refused", "fin", "rst"} ~> cli[c].at = "closed"

\* When a client ends, both its connections are closed.
ClientEndClosesBackend ==
  \A c \in Conn : cli[c].at = "open" /\ cli[c].peer # "up"
                    ~> cli[c].at = "closed" /\ srv[c].at # "open"

\* Byte k of either stream reaches the other side unless the session ends first.
Delivery ==
  \A c \in Conn :
    /\ \A k \in 1..MaxUp : cli[c].at = "open" /\ cli[c].sent >= k
                             ~> Len(srv[c].out) >= k \/ cli[c].at = "closed"
    /\ \A k \in 1..MaxDown : srv[c].at = "open" /\ srv[c].sent >= k
                             ~> Len(cli[c].out) >= k \/ cli[c].at = "closed"

\* After stop() the loop is left.
StopHappens == ~running ~> pc = "stopped"

\* README.md:91, "flushes send queue before closing connections": the loop closes
\* a client that is still there only with everything queued for it sent.
ClientFlushedBeforeClose ==
  [][\A fd \in Fd : LET c == ConnOf(fd) IN
       running /\ fd \in Live(clients) /\ cli[c].peer = "up" /\ cli'[c].at = "closed"
         => cli'[c].out = cli[c].out \o clients[fd].sendQueue]_vars
=============================================================================
