------------------------------ MODULE NBClient ------------------------------
(***************************************************************************)
(* The TcpClientNB object (src/TcpClientNB.hpp) as a value: a record with  *)
(* the fields of the class and one operator per method, each returning the *)
(* object the method leaves behind.  What the methods do to the kernel     *)
(* (socket(), connect(), close(), send(), recv()) belongs to the actions   *)
(* that use these operators, which pass the outcome of the call in.        *)
(* lastError is left out: nothing but a log line reads it.                 *)
(***************************************************************************)
EXTENDS Integers, Sequences

\* The -1 that stands for "no socket".
NoFd == -1

\* A constructed object, before any connect().
Fresh ==
  [fd |-> NoFd, connected |-> FALSE, connecting |-> FALSE,
   pendingClose |-> FALSE, recvBuf |-> <<>>, sendQueue |-> <<>>]

\* disconnect() resets every field.
disconnect(b) == Fresh

\* The three ways connect() can end: "failed" (getaddrinfo(), socket() or
\* connect() reports an error at once), "inprogress" (EINPROGRESS) and
\* "immediate".  newFd is what socket() returned; a failed attempt has closed it.
ConnectOutcome == {"failed", "inprogress", "immediate"}

connect(b, outcome, newFd) ==
  LET closed == IF b.fd # NoFd THEN disconnect(b) ELSE b
  IN  CASE outcome = "failed"     -> closed
        [] outcome = "inprogress" -> [closed EXCEPT !.fd = newFd, !.connecting = TRUE]
        [] outcome = "immediate"  -> [closed EXCEPT !.fd = newFd, !.connected = TRUE]

isOpen(b) == b.fd # NoFd /\ (b.connected \/ b.connecting)

\* Mutated form: data offered while the connection is being established is refused.
sendOnlyConnected(b, data) ==
  IF b.connected THEN [b EXCEPT !.sendQueue = @ \o data] ELSE b

send(b, data) ==
  IF isOpen(b) THEN [b EXCEPT !.sendQueue = @ \o data] ELSE b

\* Mutated form: the connecting mark is not cleared.
completeConnectKeepsMark(b, error) ==
  IF error THEN disconnect(b) ELSE [b EXCEPT !.connected = TRUE]

\* handleWrite() on a connecting socket: SO_ERROR decides.
completeConnect(b, error) ==
  IF error THEN disconnect(b)
  ELSE [b EXCEPT !.connecting = FALSE, !.connected = TRUE]

\* Mutated forms: the queue is dropped after a short write; a pending close
\* does not wait for the rest of the queue; a pending close is never acted on.
wroteDropsRest(b, n) ==
  IF b.pendingClose THEN disconnect(b) ELSE [b EXCEPT !.sendQueue = <<>>]
wroteClosesEarly(b, n) ==
  IF b.pendingClose THEN disconnect(b)
  ELSE [b EXCEPT !.sendQueue = SubSeq(@, n + 1, Len(@))]
wroteForgetsClose(b, n) ==
  [b EXCEPT !.sendQueue = SubSeq(@, n + 1, Len(@))]

\* handleWrite() on a connected socket, after send() took n bytes.
wrote(b, n) ==
  IF b.pendingClose /\ n = Len(b.sendQueue) THEN disconnect(b)
  ELSE [b EXCEPT !.sendQueue = SubSeq(@, n + 1, Len(@))]

\* handleRead() after recv() returned data.
received(b, data) == [b EXCEPT !.recvBuf = @ \o data]

\* Mutated form: the buffer is cleared however much was consumed.
consumeAll(b, n) == [b EXCEPT !.recvBuf = <<>>]

consumeReceived(b, n) ==
  IF n >= Len(b.recvBuf) THEN [b EXCEPT !.recvBuf = <<>>]
  ELSE [b EXCEPT !.recvBuf = SubSeq(@, n + 1, Len(@))]

closeAfterFlush(b) ==
  IF b.sendQueue = <<>> THEN disconnect(b) ELSE [b EXCEPT !.pendingClose = TRUE]
=============================================================================
