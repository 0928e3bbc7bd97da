----------------------------- MODULE ClientTable -----------------------------
(***************************************************************************)
(* The clients table every server of the library inherits from TcpServer   *)
(* (src/TcpServer.hpp:122-131) and the utilities that act on it alone.     *)
(* The table is a function from descriptors to ClientState records; a      *)
(* descriptor that is not in the C++ map holds NoClient.  disconnectClient *)
(* runs a virtual hook, so each server's module says what it does.         *)
(***************************************************************************)
EXTENDS Integers, Sequences

CONSTANT NoConn  \* a remote address no connection has

\* The ClientState accept() makes for a connection from remote.
NewClient(remote) ==
  [remoteAddr |-> remote, recvBuf |-> <<>>, sendQueue |-> <<>>, pendingClose |-> FALSE]

NoClient == NewClient(NoConn)

\* The keys of the map.
Live(clients) == {fd \in DOMAIN clients : clients[fd].remoteAddr # NoConn}

sendToClient(clients, fd, data) ==
  IF fd \in Live(clients) THEN [clients EXCEPT ![fd].sendQueue = @ \o data] ELSE clients

\* closeAfterFlush() on a client that has data queued; with an empty queue it
\* is disconnectClient().
markPendingClose(clients, fd) == [clients EXCEPT ![fd].pendingClose = TRUE]

\* Mutated form: one byte too many is dropped after a short write.
wroteOneTooMany(clients, fd, n) ==
  [clients EXCEPT ![fd].sendQueue = SubSeq(@, n + 2, Len(@))]

\* handleWrite() after send() took n bytes.
wrote(clients, fd, n) ==
  [clients EXCEPT ![fd].sendQueue = SubSeq(@, n + 1, Len(@))]

\* handleRead() after recv() returned data, before onRawData().
received(clients, fd, data) == [clients EXCEPT ![fd].recvBuf = @ \o data]

erase(clients, fd) == [clients EXCEPT ![fd] = NoClient]
=============================================================================
