----------------------------- MODULE TcpClientNB -----------------------------
(***************************************************************************)
(* One TcpClientNB object (src/TcpClientNB.hpp), the event loop that owns  *)
(* it and the peer it connects to.  The owner may call any method at any   *)
(* time, except that it calls handleWrite() on a connecting socket only    *)
(* when select() reports it writable (src/TcpProxy.hpp:144, 207), that is  *)
(* once the attempt has been answered.  Each call of connect() is a        *)
(* session of its own; byte i of session s is <<s, i>>, so a byte that     *)
(* leaks from one session into the next is visible.                        *)
(***************************************************************************)
EXTENDS Integers, Sequences, FiniteSets

CONSTANTS
  Fd,           \* the descriptors socket() may return
  MaxSessions,  \* bound: calls of connect()
  MaxUp,        \* bound: bytes handed to send() in one session
  MaxDown       \* bound: bytes the peer sends in one session

ASSUME FdAssumption == Fd \subseteq Nat \ {0}
ASSUME BoundAssumption == MaxSessions \in Nat /\ MaxUp \in Nat /\ MaxDown \in Nat

NB == INSTANCE NBClient

VARIABLES
  nb,       \* the object
  open,     \* descriptors the process holds on its behalf
  session,  \* how many times connect() was called
  net,      \* the kernel's and the peer's side of the current socket
  asked,    \* history: bytes given to send() in this session
  wire,     \* history: bytes the kernel took in this session
  got       \* history: bytes consumed by the owner in this session

vars == <<nb, open, session, net, asked, wire, got>>

\* link: none (no socket), syn (attempt unanswered), up, refused, reset.
\* sent/taken: bytes the peer sent and the object received; fin: peer closed.
Link == {"none", "syn", "up", "refused", "reset"}
NoNet == [link |-> "none", sent |-> 0, taken |-> 0, fin |-> FALSE]

Byte == Nat \X Nat

\* Bytes from+1 .. to of the peer's stream in the current session.
Stream(from, to) == [i \in 1..(to - from) |-> <<session, from + i>>]

Init ==
  /\ nb = NB!Fresh
  /\ open = {}
  /\ session = 0
  /\ net = NoNet
  /\ asked = <<>> /\ wire = <<>> /\ got = <<>>

\* The effect of ::close() on the socket the object held.
CloseSocket ==
  /\ open' = open \ {nb.fd}
  /\ net' = NoNet

-----------------------------------------------------------------------------
(* The owner's calls.                                                      *)

\* Mutated form: the old socket is abandoned, not closed.
ConnectLeaks ==
  /\ session < MaxSessions
  /\ session' = session + 1
  /\ asked' = <<>> /\ wire' = <<>> /\ got' = <<>>
  /\ \E f \in Fd \ open :
       /\ nb' = NB!connect(nb, "inprogress", f)
       /\ open' = open \cup {f}
       /\ net' = [NoNet EXCEPT !.link = "syn"]

Connect ==
  /\ session < MaxSessions
  /\ session' = session + 1
  /\ asked' = <<>> /\ wire' = <<>> /\ got' = <<>>
  /\ \/ /\ nb' = NB!connect(nb, "failed", NB!NoFd)
        /\ CloseSocket
     \/ \E f \in (Fd \ open) \cup ({nb.fd} \cap open),
           outcome \in {"inprogress", "immediate"} :
          /\ nb' = NB!connect(nb, outcome, f)
          /\ open' = (open \ {nb.fd}) \cup {f}
          /\ net' = [NoNet EXCEPT !.link = IF outcome = "immediate" THEN "up" ELSE "syn"]

Disconnect ==
  /\ nb' = NB!disconnect(nb)
  /\ CloseSocket
  /\ UNCHANGED <<session, asked, wire, got>>

Send ==
  /\ open # {}
  /\ Len(asked) < MaxUp
  /\ LET b == <<session, Len(asked) + 1>>
     IN  /\ asked' = Append(asked, b)
         /\ nb' = NB!send(nb, <<b>>)
  /\ UNCHANGED <<open, session, net, wire, got>>

CloseAfterFlush ==
  /\ nb' = NB!closeAfterFlush(nb)
  /\ IF nb.sendQueue = <<>> THEN CloseSocket ELSE UNCHANGED <<open, net>>
  /\ UNCHANGED <<session, asked, wire, got>>

Consume ==
  /\ \E n \in 1..Len(nb.recvBuf) :
       /\ nb' = NB!consumeReceived(nb, n)
       /\ got' = got \o SubSeq(nb.recvBuf, 1, n)
  /\ UNCHANGED <<open, session, net, asked, wire>>

-----------------------------------------------------------------------------
(* handleWrite() and handleRead(), called when select() reports the socket *)
(* ready.                                                                  *)

HandleWriteConnecting ==
  /\ nb.connecting
  /\ net.link # "syn"
  /\ nb' = NB!completeConnect(nb, net.link # "up")
  /\ IF net.link # "up" THEN CloseSocket ELSE UNCHANGED <<open, net>>
  /\ UNCHANGED <<session, asked, wire, got>>

HandleWriteSends ==
  /\ nb.connected /\ nb.sendQueue # <<>>
  /\ net.link = "up"
  /\ \E n \in 1..Len(nb.sendQueue) :
       /\ nb' = NB!wrote(nb, n)
       /\ wire' = wire \o SubSeq(nb.sendQueue, 1, n)
       /\ IF nb.pendingClose /\ n = Len(nb.sendQueue)
            THEN CloseSocket ELSE UNCHANGED <<open, net>>
  /\ UNCHANGED <<session, asked, got>>

HandleWriteFails ==
  /\ nb.connected /\ nb.sendQueue # <<>>
  /\ net.link = "reset"
  /\ nb' = NB!disconnect(nb)
  /\ CloseSocket
  /\ UNCHANGED <<session, asked, wire, got>>

HandleWrite == HandleWriteConnecting \/ HandleWriteSends \/ HandleWriteFails

HandleReadData ==
  /\ nb.connected
  /\ net.link = "up"
  /\ \E n \in 1..(net.sent - net.taken) :
       /\ nb' = NB!received(nb, Stream(net.taken, net.taken + n))
       /\ net' = [net EXCEPT !.taken = @ + n]
  /\ UNCHANGED <<open, session, asked, wire, got>>

\* recv() returned 0 or an error: in both cases the object disconnects itself.
HandleReadCloses ==
  /\ nb.connected
  /\ \/ net.link = "up" /\ net.fin /\ net.sent = net.taken
     \/ net.link = "reset"
  /\ nb' = NB!disconnect(nb)
  /\ CloseSocket
  /\ UNCHANGED <<session, asked, wire, got>>

-----------------------------------------------------------------------------
(* The peer and the network.                                               *)

PeerAnswers ==
  /\ net.link = "syn"
  /\ \E answer \in {"up", "refused"} : net' = [net EXCEPT !.link = answer]
  /\ UNCHANGED <<nb, open, session, asked, wire, got>>

PeerSends ==
  /\ net.link = "up" /\ ~net.fin /\ net.sent < MaxDown
  /\ net' = [net EXCEPT !.sent = @ + 1]
  /\ UNCHANGED <<nb, open, session, asked, wire, got>>

PeerCloses ==
  /\ net.link = "up"
  /\ \/ ~net.fin /\ net' = [net EXCEPT !.fin = TRUE]
     \/ net' = [net EXCEPT !.link = "reset"]
  /\ UNCHANGED <<nb, open, session, asked, wire, got>>

Peer == PeerAnswers \/ PeerSends \/ PeerCloses

Next ==
  \/ Connect \/ Disconnect \/ Send \/ CloseAfterFlush \/ Consume
  \/ HandleWrite \/ HandleReadData \/ HandleReadCloses
  \/ Peer

\* The owner's loop calls handleWrite() whenever select() reports the socket
\* writable, and every connection attempt is eventually answered (at the
\* latest by the kernel's own timeout).
Spec == Init /\ [][Next]_vars /\ WF_vars(HandleWrite) /\ WF_vars(PeerAnswers)

-----------------------------------------------------------------------------
(* Properties.                                                             *)

NBType ==
  [fd : Fd \cup {NB!NoFd}, connected : BOOLEAN, connecting : BOOLEAN,
   pendingClose : BOOLEAN, recvBuf : Seq(Byte), sendQueue : Seq(Byte)]

\* The type of every variable; in particular the descriptor is -1 or one that
\* socket() returned (TcpClientNB.hpp:156-161).
TypeOK ==
  /\ nb \in NBType
  /\ open \subseteq Fd
  /\ session \in 0..MaxSessions
  /\ net \in [link : Link, sent : 0..MaxDown, taken : 0..MaxDown, fin : BOOLEAN]
  /\ asked \in Seq(Byte) /\ wire \in Seq(Byte) /\ got \in Seq(Byte)

\* Whatever the order of calls, reconnects and failures, the object holds
\* exactly one socket while fd >= 0 and none otherwise: no path of connect(),
\* handleWrite(), handleRead() or disconnect() leaks one or closes one twice.
OneSocket == open = IF nb.fd = NB!NoFd THEN {} ELSE {nb.fd}

\* A closed object is as good as new, so that connect() on it (which then does
\* not call disconnect(), line 32) starts without marks of an earlier session.
\* An open one is either connecting or connected, never both or neither.
CleanWhenClosed ==
  IF nb.fd = NB!NoFd THEN nb = NB!Fresh ELSE nb.connecting = ~nb.connected

\* The bytes on the wire followed by the bytes still queued are the bytes the
\* owner gave to send() in this session, in order: short writes, data queued
\* while connecting and reconnects lose, repeat and leak nothing.
WireFifo ==
  nb.fd # NB!NoFd => wire \o nb.sendQueue = asked

\* What the owner consumed followed by what it can still peek at is the
\* peer's stream of this session so far, in order.
ReadFifo ==
  nb.fd # NB!NoFd => got \o nb.recvBuf = Stream(0, net.taken)

\* A postponed close always has something to wait for; otherwise no later
\* handleWrite() would ever act on it (lines 101, 113, 145).
PendingCloseHasData == nb.pendingClose => nb.sendQueue # <<>>

\* A handleWrite() that puts bytes on the wire and closes the socket has put
\* everything on the wire: closeAfterFlush() never cuts the queue short.
FlushBeforeClose ==
  [][wire' # wire /\ wire' # <<>> /\ nb'.fd = NB!NoFd => wire' = asked]_vars

\* Once closeAfterFlush() has marked the object, the close does happen, provided
\* the owner stops calling send() (MaxUp sees to it) and the peer keeps reading
\* (the kernel always takes at least a byte here).
PendingCloseHappens == nb.pendingClose ~> ~nb.pendingClose
=============================================================================
