------------------------- MODULE TcpClientNB_proofs -------------------------
(***************************************************************************)
(* Proofs about TcpClientNB: the type invariant and the invariants on the  *)
(* object's socket and state, for every set of descriptors and every bound. *)
(***************************************************************************)
EXTENDS TcpClientNB, SequenceTheorems, TLAPS

\* The kernel's side agrees with the object's: no connection without a socket.
NetOK ==
  /\ net.taken <= net.sent
  /\ nb.fd = NB!NoFd => net = NoNet

IInv == TypeOK /\ OneSocket /\ CleanWhenClosed /\ PendingCloseHasData /\ NetOK

\* What every method that closes does: the object is new, the socket gone.
LEMMA DisconnectIsFresh ==
  ASSUME NEW b
  PROVE  NB!disconnect(b) = NB!Fresh
BY DEF NB!disconnect

LEMMA FreshFields ==
  /\ NB!Fresh.fd = NB!NoFd /\ NB!Fresh.sendQueue = <<>> /\ NB!Fresh.recvBuf = <<>>
  /\ NB!Fresh.connected = FALSE /\ NB!Fresh.connecting = FALSE
  /\ NB!Fresh.pendingClose = FALSE
BY DEF NB!Fresh

LEMMA FreshType == NB!Fresh \in NBType
BY DEF NBType, NB!Fresh, NB!NoFd

LEMMA InitInv == Init => IInv
BY FreshType, BoundAssumption DEF Init, IInv, TypeOK, OneSocket, CleanWhenClosed,
  PendingCloseHasData, NetOK, NoNet, Link, NB!Fresh, NB!NoFd

\* A step that leaves a new object and closes its socket keeps the invariant.
LEMMA CloseStep ==
  ASSUME IInv, nb' = NB!Fresh, CloseSocket, UNCHANGED <<session, asked, got>>,
         wire' \in Seq(Byte)
  PROVE  IInv'
<1>1. open' = {}
  BY DEF IInv, OneSocket, CloseSocket, TypeOK
<1> QED
  BY <1>1, FreshType, BoundAssumption DEF IInv, TypeOK, OneSocket, CleanWhenClosed,
    PendingCloseHasData, NetOK, CloseSocket, NoNet, Link, NB!Fresh, NB!NoFd

\* The peer's bytes are bytes.
LEMMA StreamType ==
  ASSUME session \in Nat, NEW from \in Nat, NEW n \in Nat
  PROVE  Stream(from, from + n) \in Seq(Byte) /\ Len(Stream(from, from + n)) = n
<1>1. (from + n) - from = n
  OBVIOUS
<1>2. Stream(from, from + n) = [i \in 1..n |-> <<session, from + i>>]
  BY <1>1 DEF Stream
<1>3. Stream(from, from + n) \in [1..n -> Byte]
  BY <1>2 DEF Byte
<1> QED
  BY <1>2, <1>3

\* What connect() leaves behind when it has got descriptor f.
LEMMA ConnectedObject ==
  ASSUME NEW f \in Fd, NEW outcome \in {"inprogress", "immediate"},
         NEW b, b = NB!Fresh \/ b.fd # NB!NoFd
  PROVE  LET o == NB!connect(b, outcome, f)
         IN  /\ o \in NBType /\ o.fd = f /\ f # NB!NoFd
             /\ o.connecting = ~o.connected /\ ~o.pendingClose
<1>1. IF b.fd # NB!NoFd THEN NB!disconnect(b) = NB!Fresh ELSE b = NB!Fresh
  BY DisconnectIsFresh
<1>2. f # NB!NoFd
  BY FdAssumption DEF NB!NoFd
<1>3. NB!connect(b, outcome, f) =
        IF outcome = "inprogress" THEN [NB!Fresh EXCEPT !.fd = f, !.connecting = TRUE]
                                  ELSE [NB!Fresh EXCEPT !.fd = f, !.connected = TRUE]
  BY <1>1 DEF NB!connect
<1>4. /\ NB!Fresh \in NBType
      /\ ~NB!Fresh.connected /\ ~NB!Fresh.connecting /\ ~NB!Fresh.pendingClose
  BY FreshType DEF NB!Fresh
<1> HIDE DEF NB!Fresh
<1> QED
  BY <1>2, <1>3, <1>4 DEF NBType

LEMMA ConnectStep == ASSUME IInv, Connect PROVE IInv'
<1>0. /\ session' \in 0..MaxSessions
      /\ asked' \in Seq(Byte) /\ wire' \in Seq(Byte) /\ got' \in Seq(Byte)
  BY BoundAssumption DEF Connect, IInv, TypeOK
<1>1. nb = NB!Fresh \/ nb.fd # NB!NoFd
  BY DEF IInv, CleanWhenClosed
<1>2. CASE nb' = NB!connect(nb, "failed", NB!NoFd) /\ CloseSocket
  <2>1. nb' = NB!Fresh
    BY <1>1, <1>2, DisconnectIsFresh DEF NB!connect
  <2>2. open' = {}
    BY <1>2 DEF IInv, OneSocket, CloseSocket, TypeOK
  <2>3. TypeOK'
    BY <1>0, <1>2, <2>1, <2>2, FreshType, BoundAssumption DEF TypeOK, CloseSocket, NoNet, Link
  <2>4. (OneSocket /\ CleanWhenClosed /\ PendingCloseHasData /\ NetOK)'
    BY <1>2, <2>1, <2>2 DEF OneSocket, CleanWhenClosed, PendingCloseHasData, NetOK,
      CloseSocket, NoNet, NB!Fresh, NB!NoFd
  <2> QED
    BY <2>3, <2>4 DEF IInv
<1>3. ASSUME NEW f \in (Fd \ open) \cup ({nb.fd} \cap open),
             NEW outcome \in {"inprogress", "immediate"},
             nb' = NB!connect(nb, outcome, f),
             open' = (open \ {nb.fd}) \cup {f},
             net' = [NoNet EXCEPT !.link = IF outcome = "immediate" THEN "up" ELSE "syn"]
      PROVE  IInv'
  <2>1. f \in Fd
    BY <1>3 DEF IInv, TypeOK
  <2>2. /\ nb' \in NBType /\ nb'.fd = f /\ f # NB!NoFd
        /\ nb'.connecting = ~nb'.connected /\ ~nb'.pendingClose
    BY <1>1, <1>3, <2>1, ConnectedObject
  <2>3. open' = {f}
    BY <1>3, <2>1 DEF IInv, OneSocket
  <2>4. net' = [link |-> IF outcome = "immediate" THEN "up" ELSE "syn",
                sent |-> 0, taken |-> 0, fin |-> FALSE]
    BY <1>3 DEF NoNet
  <2>5. /\ net' \in [link : Link, sent : 0..MaxDown, taken : 0..MaxDown, fin : BOOLEAN]
        /\ net'.taken <= net'.sent
    BY <2>4, BoundAssumption DEF Link
  <2>6. TypeOK'
    BY <1>0, <2>1, <2>2, <2>3, <2>5 DEF TypeOK
  <2>7. (OneSocket /\ CleanWhenClosed /\ PendingCloseHasData /\ NetOK)'
    BY <2>2, <2>3, <2>5 DEF OneSocket, CleanWhenClosed, PendingCloseHasData, NetOK
  <2> QED
    BY <2>6, <2>7 DEF IInv
<1> QED
  BY <1>2, <1>3 DEF Connect

\* A step that keeps the socket: what is left to check of the invariant.
LEMMA OpenStep ==
  ASSUME IInv, nb.fd # NB!NoFd, UNCHANGED <<open, session>>,
         nb' \in NBType, nb'.fd = nb.fd, nb'.connecting = ~nb'.connected,
         nb'.pendingClose => nb'.sendQueue # <<>>,
         net' \in [link : Link, sent : 0..MaxDown, taken : 0..MaxDown, fin : BOOLEAN],
         net'.taken <= net'.sent,
         asked' \in Seq(Byte), wire' \in Seq(Byte), got' \in Seq(Byte)
  PROVE  IInv'
BY DEF IInv, TypeOK, OneSocket, CleanWhenClosed, PendingCloseHasData, NetOK

LEMMA PrefixType ==
  ASSUME NEW s \in Seq(Byte), NEW n \in 0..Len(s)
  PROVE  SubSeq(s, 1, n) \in Seq(Byte) /\ SubSeq(s, n + 1, Len(s)) \in Seq(Byte)
BY SubSeqProperties

LEMMA SendStep == ASSUME IInv, Send PROVE IInv'
<1> DEFINE b == <<session, Len(asked) + 1>>
<1>1. b \in Byte /\ <<b>> \in Seq(Byte) /\ asked' = Append(asked, b) /\ nb' = NB!send(nb, <<b>>)
  BY BoundAssumption DEF Send, IInv, TypeOK, Byte
<1> HIDE DEF b
<1>2. asked' \in Seq(Byte)
  BY <1>1 DEF IInv, TypeOK
<1>3. nb.sendQueue \o <<b>> \in Seq(Byte) /\ nb.sendQueue \o <<b>> # <<>>
  BY <1>1 DEF IInv, TypeOK, NBType
<1>4. nb.fd # NB!NoFd /\ nb' = [nb EXCEPT !.sendQueue = @ \o <<b>>]
  BY <1>1 DEF Send, NB!send, NB!isOpen, IInv, OneSocket, CleanWhenClosed, TypeOK, NBType
<1>5. /\ nb' \in NBType /\ nb'.fd = nb.fd /\ nb'.sendQueue # <<>>
      /\ nb'.connecting = ~nb'.connected
  BY <1>3, <1>4 DEF IInv, TypeOK, NBType, CleanWhenClosed
<1> QED
  BY <1>2, <1>4, <1>5, OpenStep DEF Send, IInv, TypeOK, NetOK

LEMMA CloseAfterFlushStep == ASSUME IInv, CloseAfterFlush PROVE IInv'
<1>1. CASE nb.sendQueue = <<>>
  BY <1>1, CloseStep, DisconnectIsFresh DEF CloseAfterFlush, NB!closeAfterFlush, IInv, TypeOK
<1>2. CASE nb.sendQueue # <<>>
  <2>1. nb.fd # NB!NoFd
    BY <1>2 DEF IInv, CleanWhenClosed, NB!Fresh
  <2>2. nb' = [nb EXCEPT !.pendingClose = TRUE]
    BY <1>2 DEF CloseAfterFlush, NB!closeAfterFlush
  <2>3. /\ nb' \in NBType /\ nb'.fd = nb.fd /\ nb'.sendQueue # <<>>
        /\ nb'.connecting = ~nb'.connected
    BY <1>2, <2>1, <2>2 DEF IInv, TypeOK, NBType, CleanWhenClosed
  <2> QED
    BY <1>2, <2>1, <2>3, OpenStep DEF CloseAfterFlush, IInv, TypeOK, NetOK
<1> QED
  BY <1>1, <1>2

LEMMA ConsumeStep == ASSUME IInv, Consume PROVE IInv'
<1>1. PICK n \in 1..Len(nb.recvBuf) :
        nb' = NB!consumeReceived(nb, n) /\ got' = got \o SubSeq(nb.recvBuf, 1, n)
  BY DEF Consume
<1>2. nb \in NBType /\ nb.recvBuf \in Seq(Byte) /\ got \in Seq(Byte)
  BY DEF IInv, TypeOK, NBType
<1>3. nb.fd # NB!NoFd
  BY <1>1 DEF IInv, CleanWhenClosed, NB!Fresh
<1>4. SubSeq(nb.recvBuf, 1, n) \in Seq(Byte) /\ SubSeq(nb.recvBuf, n + 1, Len(nb.recvBuf)) \in Seq(Byte)
  BY <1>1, <1>2, PrefixType
<1>5. \E q \in Seq(Byte) : nb' = [nb EXCEPT !.recvBuf = q]
  <2>1. CASE n >= Len(nb.recvBuf)
    <3>1. nb' = [nb EXCEPT !.recvBuf = <<>>]
      BY <1>1, <2>1 DEF NB!consumeReceived
    <3>2. <<>> \in Seq(Byte)
      OBVIOUS
    <3> QED
      BY <3>1, <3>2
  <2>2. CASE ~(n >= Len(nb.recvBuf))
    <3>1. nb' = [nb EXCEPT !.recvBuf = SubSeq(nb.recvBuf, n + 1, Len(nb.recvBuf))]
      BY <1>1, <2>2 DEF NB!consumeReceived
    <3> QED
      BY <1>4, <3>1
  <2> QED
    BY <2>1, <2>2
<1>6. /\ nb' \in NBType /\ nb'.fd = nb.fd /\ nb'.sendQueue = nb.sendQueue
      /\ nb'.pendingClose = nb.pendingClose /\ nb'.connecting = ~nb'.connected
  BY <1>2, <1>3, <1>5 DEF NBType, IInv, CleanWhenClosed
<1>7. got' \in Seq(Byte)
  BY <1>1, <1>2, <1>4
<1> QED
  BY <1>3, <1>6, <1>7, OpenStep DEF Consume, IInv, TypeOK, NetOK, PendingCloseHasData

LEMMA HandleWriteStep == ASSUME IInv, HandleWrite PROVE IInv'
<1>1. CASE HandleWriteConnecting
  <2>1. CASE net.link # "up"
    BY <1>1, <2>1, CloseStep, DisconnectIsFresh DEF HandleWriteConnecting, NB!completeConnect, IInv, TypeOK
  <2>2. CASE net.link = "up"
    <3>1. nb' = [nb EXCEPT !.connecting = FALSE, !.connected = TRUE]
      BY <1>1, <2>2 DEF HandleWriteConnecting, NB!completeConnect
    <3>2. nb.fd # NB!NoFd
      BY <1>1, FreshFields DEF HandleWriteConnecting, IInv, CleanWhenClosed
    <3>3. /\ nb' \in NBType /\ nb'.fd = nb.fd /\ nb'.sendQueue = nb.sendQueue
          /\ nb'.pendingClose = nb.pendingClose /\ nb'.connecting = ~nb'.connected
      BY <3>1 DEF NBType, IInv, TypeOK
    <3> QED
      BY <1>1, <2>2, <3>2, <3>3, OpenStep
      DEF HandleWriteConnecting, IInv, TypeOK, NetOK, PendingCloseHasData
  <2> QED
    BY <2>1, <2>2
<1>2. CASE HandleWriteSends
  <2>1. PICK n \in 1..Len(nb.sendQueue) :
          /\ nb' = NB!wrote(nb, n)
          /\ wire' = wire \o SubSeq(nb.sendQueue, 1, n)
          /\ IF nb.pendingClose /\ n = Len(nb.sendQueue)
               THEN CloseSocket ELSE UNCHANGED <<open, net>>
    BY <1>2 DEF HandleWriteSends
  <2>2. nb \in NBType /\ nb.sendQueue \in Seq(Byte) /\ wire \in Seq(Byte)
    BY DEF IInv, TypeOK, NBType
  <2>3. wire' \in Seq(Byte) /\ SubSeq(nb.sendQueue, n + 1, Len(nb.sendQueue)) \in Seq(Byte)
    BY <2>1, <2>2, PrefixType
  <2>4. CASE nb.pendingClose /\ n = Len(nb.sendQueue)
    BY <1>2, <2>1, <2>3, <2>4, CloseStep, DisconnectIsFresh DEF HandleWriteSends, NB!wrote
  <2>5. CASE ~(nb.pendingClose /\ n = Len(nb.sendQueue))
    <3>1. nb' = [nb EXCEPT !.sendQueue = SubSeq(@, n + 1, Len(@))]
      BY <2>1, <2>5 DEF NB!wrote
    <3>2. nb.fd # NB!NoFd
      BY <1>2 DEF HandleWriteSends, IInv, CleanWhenClosed, NB!Fresh
    <3>3. /\ nb' \in NBType /\ nb'.fd = nb.fd
          /\ nb'.pendingClose = nb.pendingClose /\ nb'.connecting = ~nb'.connected
      BY <2>2, <2>3, <3>1, <3>2 DEF NBType, IInv, CleanWhenClosed
    <3>4. nb'.pendingClose => nb'.sendQueue # <<>>
      <4>1. nb.pendingClose => Len(SubSeq(nb.sendQueue, n + 1, Len(nb.sendQueue))) # 0
        BY <2>1, <2>2, <2>5, SubSeqProperties
      <4>2. nb'.sendQueue = SubSeq(nb.sendQueue, n + 1, Len(nb.sendQueue))
        BY <2>2, <3>1 DEF NBType
      <4>3. nb'.sendQueue \in Seq(Byte) /\ (nb'.sendQueue = <<>> => Len(nb'.sendQueue) = 0)
        BY <2>3, <4>2, EmptySeq
      <4> QED
        BY <3>3, <4>1, <4>2, <4>3
    <3> QED
      BY <1>2, <2>1, <2>3, <2>5, <3>2, <3>3, <3>4, OpenStep DEF HandleWriteSends, IInv, TypeOK, NetOK
  <2> QED
    BY <2>4, <2>5
<1>3. CASE HandleWriteFails
  BY <1>3, CloseStep, DisconnectIsFresh DEF HandleWriteFails, IInv, TypeOK
<1> QED
  BY <1>1, <1>2, <1>3 DEF HandleWrite

LEMMA HandleReadStep == ASSUME IInv, HandleReadData \/ HandleReadCloses PROVE IInv'
<1>1. CASE HandleReadCloses
  BY <1>1, CloseStep, DisconnectIsFresh DEF HandleReadCloses, IInv, TypeOK
<1>2. CASE HandleReadData
  <2>1. PICK n \in 1..(net.sent - net.taken) :
          /\ nb' = NB!received(nb, Stream(net.taken, net.taken + n))
          /\ net' = [net EXCEPT !.taken = @ + n]
    BY <1>2 DEF HandleReadData
  <2>2. /\ nb \in NBType /\ nb.recvBuf \in Seq(Byte) /\ session \in Nat
        /\ net \in [link : Link, sent : 0..MaxDown, taken : 0..MaxDown, fin : BOOLEAN]
        /\ n \in Nat /\ net.taken \in Nat /\ net.taken + n <= net.sent
    BY <2>1, BoundAssumption DEF IInv, TypeOK, NBType, NetOK
  <2>3. Stream(net.taken, net.taken + n) \in Seq(Byte)
    BY <2>2, StreamType
  <2>4. nb.fd # NB!NoFd
    BY <1>2 DEF HandleReadData, IInv, CleanWhenClosed, NB!Fresh
  <2>5. nb.recvBuf \o Stream(net.taken, net.taken + n) \in Seq(Byte)
    BY <2>2, <2>3
  <2>6. /\ nb' \in NBType /\ nb'.fd = nb.fd /\ nb'.sendQueue = nb.sendQueue
        /\ nb'.pendingClose = nb.pendingClose /\ nb'.connecting = ~nb'.connected
    BY <2>1, <2>2, <2>4, <2>5 DEF NB!received, NBType, IInv, CleanWhenClosed
  <2>7. /\ net' \in [link : Link, sent : 0..MaxDown, taken : 0..MaxDown, fin : BOOLEAN]
        /\ net'.taken <= net'.sent
    BY <2>1, <2>2, BoundAssumption
  <2> QED
    BY <1>2, <2>4, <2>6, <2>7, OpenStep DEF HandleReadData, IInv, TypeOK, PendingCloseHasData
<1> QED
  BY <1>1, <1>2

LEMMA PeerStep == ASSUME IInv, Peer PROVE IInv'
<1>1. net.link # "none" /\ UNCHANGED <<nb, open, session, asked, wire, got>>
  BY DEF Peer, PeerAnswers, PeerSends, PeerCloses
<1>2. nb.fd # NB!NoFd
  BY <1>1 DEF IInv, NetOK, NoNet
<1>3. net \in [link : Link, sent : 0..MaxDown, taken : 0..MaxDown, fin : BOOLEAN]
  BY DEF IInv, TypeOK
<1>4. /\ net' \in [link : Link, sent : 0..MaxDown, taken : 0..MaxDown, fin : BOOLEAN]
      /\ net'.taken <= net'.sent
  <2>1. net.taken <= net.sent
    BY DEF IInv, NetOK
  <2>2. CASE PeerAnswers
    BY <1>3, <2>1, <2>2 DEF PeerAnswers, Link
  <2>3. CASE PeerSends
    BY <1>3, <2>1, <2>3, BoundAssumption DEF PeerSends
  <2>4. CASE PeerCloses
    BY <1>3, <2>1, <2>4 DEF PeerCloses, Link
  <2> QED
    BY <2>2, <2>3, <2>4 DEF Peer
<1> QED
  BY <1>1, <1>2, <1>4, OpenStep DEF IInv, TypeOK, CleanWhenClosed, PendingCloseHasData

LEMMA NextInv == IInv /\ [Next]_vars => IInv'
<1> SUFFICES ASSUME IInv, [Next]_vars PROVE IInv'
  OBVIOUS
<1>1. CASE Disconnect
  BY <1>1, CloseStep, DisconnectIsFresh DEF Disconnect, IInv, TypeOK
<1>2. CASE UNCHANGED vars
  BY <1>2 DEF vars, IInv, TypeOK, OneSocket, CleanWhenClosed, PendingCloseHasData, NetOK
<1> QED
  BY <1>1, <1>2, ConnectStep, SendStep, CloseAfterFlushStep, ConsumeStep,
    HandleWriteStep, HandleReadStep, PeerStep DEF Next

LEMMA Invariance == Spec => []IInv
BY InitInv, NextInv, PTL DEF Spec

\* The type invariant of the TcpClientNB model, for all descriptors and bounds.
THEOREM TypeCorrect == Spec => []TypeOK
BY Invariance, PTL DEF IInv

\* No path of connect(), handleWrite(), handleRead(), closeAfterFlush() or
\* disconnect() leaks a socket or closes one twice (TcpClientNB.hpp:31-147).
THEOREM NoSocketLeak == Spec => []OneSocket
BY Invariance, PTL DEF IInv

\* A closed object keeps nothing of its last session and an open one is either
\* connecting or connected (TcpClientNB.hpp:62-64, 70-80, 96-97).
THEOREM ClosedMeansClean == Spec => []CleanWhenClosed
BY Invariance, PTL DEF IInv

\* A postponed close always waits for data (TcpClientNB.hpp:113, 145).
THEOREM PendingCloseWaits == Spec => []PendingCloseHasData
BY Invariance, PTL DEF IInv

-----------------------------------------------------------------------------
(* The two streams.                                                        *)

LEMMA SplitSeq ==
  ASSUME NEW s \in Seq(Byte), NEW n \in 0..Len(s)
  PROVE  SubSeq(s, 1, n) \o SubSeq(s, n + 1, Len(s)) = s
<1>1. 1 \in 1..Len(s) + 1 /\ n \in 1 - 1 .. Len(s) /\ Len(s) \in n .. Len(s)
  OBVIOUS
<1>2. SubSeq(s, 1, n) \o SubSeq(s, n + 1, Len(s)) = SubSeq(s, 1, Len(s))
  BY <1>1, ConcatAdjacentSubSeq
<1> QED
  BY <1>2, SubSeqFull

LEMMA Assoc ==
  ASSUME NEW s \in Seq(Byte), NEW t \in Seq(Byte), NEW u \in Seq(Byte)
  PROVE  (s \o t) \o u = s \o (t \o u)
OBVIOUS

\* Bytes 1..m and then m+1..m+n of the peer's stream are its bytes 1..m+n.
LEMMA StreamExtends ==
  ASSUME session \in Nat, NEW m \in Nat, NEW n \in Nat
  PROVE  Stream(0, m) \o Stream(m, m + n) = Stream(0, m + n)
<1> DEFINE s == Stream(0, m)
           t == Stream(m, m + n)
           u == Stream(0, m + n)
<1>1. /\ s \in Seq(Byte) /\ Len(s) = m
      /\ t \in Seq(Byte) /\ Len(t) = n
      /\ u \in Seq(Byte) /\ Len(u) = m + n
  <2>1. 0 + m = m /\ 0 + (m + n) = m + n /\ m + n \in Nat
    OBVIOUS
  <2>2. \A j, k \in Nat : Stream(j, j + k) \in Seq(Byte) /\ Len(Stream(j, j + k)) = k
    BY StreamType
  <2>3. s \in Seq(Byte) /\ Len(s) = m
    <3>1. Stream(0, 0 + m) \in Seq(Byte) /\ Len(Stream(0, 0 + m)) = m
      BY <2>2
    <3> QED
      BY <2>1, <3>1
  <2>4. u \in Seq(Byte) /\ Len(u) = m + n
    <3>1. /\ Stream(0, 0 + (m + n)) \in Seq(Byte)
          /\ Len(Stream(0, 0 + (m + n))) = m + n
      BY <2>1, <2>2
    <3> QED
      BY <2>1, <3>1
  <2> QED
    BY <2>2, <2>3, <2>4
<1>2. /\ \A i \in 1..m : s[i] = <<session, i>>
      /\ \A i \in 1..n : t[i] = <<session, m + i>>
      /\ \A i \in 1..(m + n) : u[i] = <<session, i>>
  BY DEF Stream
<1> HIDE DEF s, t, u
<1>3. /\ s \o t \in Seq(Byte) /\ Len(s \o t) = m + n
      /\ \A i \in 1..(m + n) : (s \o t)[i] = IF i <= m THEN s[i] ELSE t[i - m]
  BY <1>1, ConcatProperties
<1>4. ASSUME NEW i \in 1..(m + n) PROVE (s \o t)[i] = u[i]
  <2>1. CASE i <= m
    <3>1. i \in 1..m
      BY <2>1
    <3>2. (s \o t)[i] = s[i]
      BY <1>3, <2>1
    <3>3. s[i] = <<session, i>> /\ u[i] = <<session, i>>
      BY <1>2, <3>1
    <3> QED
      BY <3>2, <3>3
  <2>2. CASE ~(i <= m)
    <3>1. i - m \in 1..n /\ m + (i - m) = i
      BY <2>2
    <3> QED
      BY <1>2, <1>3, <2>2, <3>1
  <2> QED
    BY <2>1, <2>2
<1>5. s \o t = u
  BY <1>1, <1>3, <1>4, SeqEqual
<1> QED
  BY <1>5 DEF s, t, u

Fifo == WireFifo /\ ReadFifo

LEMMA InitFifo == Init => Fifo
<1>1. Init => nb.fd = NB!NoFd
  BY FreshFields DEF Init
<1> QED
  BY <1>1 DEF Fifo, WireFifo, ReadFifo

LEMMA ConnectFifo == ASSUME IInv, Connect PROVE Fifo'
<1>1. /\ asked' = <<>> /\ wire' = <<>> /\ got' = <<>> /\ session' \in Nat
  BY BoundAssumption DEF Connect, IInv, TypeOK
<1>2. /\ nb'.sendQueue = <<>> /\ nb'.recvBuf = <<>>
  <2>1. IF nb.fd # NB!NoFd THEN NB!disconnect(nb) = NB!Fresh ELSE nb = NB!Fresh
    BY DisconnectIsFresh DEF IInv, CleanWhenClosed
  <2>2. CASE nb' = NB!connect(nb, "failed", NB!NoFd)
    BY <2>1, <2>2, FreshFields DEF NB!connect
  <2>3. ASSUME NEW f, nb' = NB!connect(nb, "inprogress", f)
        PROVE  nb'.sendQueue = <<>> /\ nb'.recvBuf = <<>>
    <3>1. nb' = [NB!Fresh EXCEPT !.fd = f, !.connecting = TRUE]
      BY <2>1, <2>3 DEF NB!connect
    <3> QED
      BY <3>1, FreshFields, FreshType DEF NBType
  <2>4. ASSUME NEW f, nb' = NB!connect(nb, "immediate", f)
        PROVE  nb'.sendQueue = <<>> /\ nb'.recvBuf = <<>>
    <3>1. nb' = [NB!Fresh EXCEPT !.fd = f, !.connected = TRUE]
      BY <2>1, <2>4 DEF NB!connect
    <3> QED
      BY <3>1, FreshFields, FreshType DEF NBType
  <2> QED
    BY <2>2, <2>3, <2>4 DEF Connect
<1>3. net'.taken = 0
  BY DEF Connect, CloseSocket, NoNet
<1>4. Stream(0, 0)' = <<>>
  BY DEF Stream
<1> QED
  BY <1>1, <1>2, <1>3, <1>4 DEF Fifo, WireFifo, ReadFifo

LEMMA SendFifo == ASSUME IInv, Fifo, Send PROVE Fifo'
<1> DEFINE b == <<session, Len(asked) + 1>>
<1>1. /\ b \in Byte /\ <<b>> \in Seq(Byte)
      /\ asked' = Append(asked, b) /\ nb' = NB!send(nb, <<b>>)
      /\ UNCHANGED <<open, session, net, wire, got>>
  BY BoundAssumption DEF Send, IInv, TypeOK, Byte
<1> HIDE DEF b
<1>2. /\ nb \in NBType /\ nb.sendQueue \in Seq(Byte)
      /\ wire \in Seq(Byte) /\ asked \in Seq(Byte)
  BY DEF IInv, TypeOK, NBType
<1>3. nb.fd # NB!NoFd /\ nb' = [nb EXCEPT !.sendQueue = @ \o <<b>>]
  BY <1>1 DEF Send, NB!send, NB!isOpen, IInv, OneSocket, CleanWhenClosed, TypeOK, NBType
<1>4. nb'.sendQueue = nb.sendQueue \o <<b>> /\ nb'.recvBuf = nb.recvBuf
  BY <1>2, <1>3 DEF NBType
<1>5. wire \o (nb.sendQueue \o <<b>>) = Append(asked, b)
  <2>1. wire \o (nb.sendQueue \o <<b>>) = (wire \o nb.sendQueue) \o <<b>>
    BY <1>1, <1>2, Assoc
  <2>2. wire \o nb.sendQueue = asked
    BY <1>3 DEF Fifo, WireFifo
  <2>3. Append(asked, b) = asked \o <<b>>
    BY <1>1, <1>2, AppendIsConcat
  <2> QED
    BY <2>1, <2>2, <2>3
<1>6. Stream(0, net.taken)' = Stream(0, net.taken)
  BY <1>1 DEF Stream
<1> QED
  BY <1>1, <1>3, <1>4, <1>5, <1>6 DEF Fifo, WireFifo, ReadFifo

LEMMA ConsumeFifo == ASSUME IInv, Fifo, Consume PROVE Fifo'
<1>1. PICK n \in 1..Len(nb.recvBuf) :
        nb' = NB!consumeReceived(nb, n) /\ got' = got \o SubSeq(nb.recvBuf, 1, n)
  BY DEF Consume
<1> DEFINE rest == SubSeq(nb.recvBuf, n + 1, Len(nb.recvBuf))
<1>2. /\ nb \in NBType /\ nb.recvBuf \in Seq(Byte) /\ got \in Seq(Byte)
      /\ n \in Nat /\ n \in 0..Len(nb.recvBuf)
  BY <1>1 DEF IInv, TypeOK, NBType
<1>3. nb.fd # NB!NoFd
  BY <1>1, FreshFields DEF IInv, CleanWhenClosed
<1>4. SubSeq(nb.recvBuf, 1, n) \in Seq(Byte) /\ rest \in Seq(Byte)
  BY <1>2, PrefixType
<1>5. nb'.recvBuf = rest /\ nb'.sendQueue = nb.sendQueue
  <2>1. CASE n >= Len(nb.recvBuf)
    <3>1. nb' = [nb EXCEPT !.recvBuf = <<>>]
      BY <1>1, <2>1 DEF NB!consumeReceived
    <3>2. rest = <<>>
      BY <1>2, <2>1, SubSeqEmpty
    <3> QED
      BY <1>2, <3>1, <3>2 DEF NBType
  <2>2. CASE ~(n >= Len(nb.recvBuf))
    <3>1. nb' = [nb EXCEPT !.recvBuf = rest]
      BY <1>1, <2>2 DEF NB!consumeReceived
    <3> QED
      BY <1>2, <3>1 DEF NBType
  <2> QED
    BY <2>1, <2>2
<1>6. got' \o rest = got \o nb.recvBuf
  <2>1. got' \o rest = got \o (SubSeq(nb.recvBuf, 1, n) \o rest)
    BY <1>1, <1>2, <1>4, Assoc
  <2>2. SubSeq(nb.recvBuf, 1, n) \o rest = nb.recvBuf
    BY <1>2, SplitSeq
  <2> QED
    BY <2>1, <2>2
<1>7. /\ UNCHANGED <<asked, wire, net>>
      /\ Stream(0, net.taken)' = Stream(0, net.taken)
  BY DEF Consume, Stream
<1> HIDE DEF rest
<1> QED
  BY <1>3, <1>5, <1>6, <1>7 DEF Fifo, WireFifo, ReadFifo

LEMMA HandleWriteFifo == ASSUME IInv, Fifo, HandleWriteSends PROVE Fifo'
<1>1. PICK n \in 1..Len(nb.sendQueue) :
        /\ nb' = NB!wrote(nb, n)
        /\ wire' = wire \o SubSeq(nb.sendQueue, 1, n)
        /\ IF nb.pendingClose /\ n = Len(nb.sendQueue)
             THEN CloseSocket ELSE UNCHANGED <<open, net>>
  BY DEF HandleWriteSends
<1> DEFINE rest == SubSeq(nb.sendQueue, n + 1, Len(nb.sendQueue))
<1>2. /\ nb \in NBType /\ nb.sendQueue \in Seq(Byte) /\ wire \in Seq(Byte)
      /\ n \in Nat /\ n \in 0..Len(nb.sendQueue)
  BY <1>1 DEF IInv, TypeOK, NBType
<1>3. CASE nb.pendingClose /\ n = Len(nb.sendQueue)
  BY <1>1, <1>3, DisconnectIsFresh, FreshFields DEF NB!wrote, Fifo, WireFifo, ReadFifo
<1>4. CASE ~(nb.pendingClose /\ n = Len(nb.sendQueue))
  <2>1. nb' = [nb EXCEPT !.sendQueue = rest]
    BY <1>1, <1>4 DEF NB!wrote
  <2>2. nb'.sendQueue = rest /\ nb'.recvBuf = nb.recvBuf /\ nb'.fd = nb.fd
    BY <1>2, <2>1 DEF NBType
  <2>3. SubSeq(nb.sendQueue, 1, n) \in Seq(Byte) /\ rest \in Seq(Byte)
    BY <1>2, PrefixType
  <2>4. wire' \o rest = wire \o nb.sendQueue
    <3>1. wire' \o rest = wire \o (SubSeq(nb.sendQueue, 1, n) \o rest)
      BY <1>1, <1>2, <2>3, Assoc
    <3>2. SubSeq(nb.sendQueue, 1, n) \o rest = nb.sendQueue
      BY <1>2, SplitSeq
    <3> QED
      BY <3>1, <3>2
  <2>5. UNCHANGED <<asked, got, net>> /\ Stream(0, net.taken)' = Stream(0, net.taken)
    BY <1>1, <1>4 DEF HandleWriteSends, Stream
  <2> HIDE DEF rest
  <2> QED
    BY <2>2, <2>4, <2>5 DEF Fifo, WireFifo, ReadFifo
<1> QED
  BY <1>3, <1>4

LEMMA HandleReadFifo == ASSUME IInv, Fifo, HandleReadData PROVE Fifo'
<1>1. PICK n \in 1..(net.sent - net.taken) :
        /\ nb' = NB!received(nb, Stream(net.taken, net.taken + n))
        /\ net' = [net EXCEPT !.taken = @ + n]
  BY DEF HandleReadData
<1> DEFINE new == Stream(net.taken, net.taken + n)
<1>2. /\ nb \in NBType /\ nb.recvBuf \in Seq(Byte) /\ session \in Nat /\ got \in Seq(Byte)
      /\ net \in [link : Link, sent : 0..MaxDown, taken : 0..MaxDown, fin : BOOLEAN]
      /\ n \in Nat /\ net.taken \in Nat
  BY <1>1, BoundAssumption DEF IInv, TypeOK, NBType
<1>3. new \in Seq(Byte)
  BY <1>2, StreamType
<1>4. nb.fd # NB!NoFd
  BY FreshFields DEF HandleReadData, IInv, CleanWhenClosed
<1>5. nb'.recvBuf = nb.recvBuf \o new /\ nb'.sendQueue = nb.sendQueue
  BY <1>1, <1>2 DEF NB!received, NBType
<1>6. net'.taken = net.taken + n
  BY <1>1, <1>2
<1>7. got \o (nb.recvBuf \o new) = Stream(0, net.taken + n)
  <2>1. got \o (nb.recvBuf \o new) = (got \o nb.recvBuf) \o new
    BY <1>2, <1>3, Assoc
  <2>2. got \o nb.recvBuf = Stream(0, net.taken)
    BY <1>4 DEF Fifo, ReadFifo
  <2> QED
    BY <1>2, <2>1, <2>2, StreamExtends
<1>8. /\ UNCHANGED <<asked, wire, got, session>>
      /\ Stream(0, net.taken)' = Stream(0, net.taken + n)
  BY <1>6 DEF HandleReadData, Stream
<1> HIDE DEF new
<1> QED
  BY <1>4, <1>5, <1>7, <1>8 DEF Fifo, WireFifo, ReadFifo

\* A step that leaves the object without a socket has no stream to keep, and one
\* that moves no bytes keeps both.
LEMMA QuietFifo ==
  ASSUME Fifo,
         \/ nb'.fd = NB!NoFd
         \/ /\ UNCHANGED <<asked, wire, got, session>> /\ net'.taken = net.taken
            /\ nb'.fd = nb.fd /\ nb'.sendQueue = nb.sendQueue /\ nb'.recvBuf = nb.recvBuf
  PROVE  Fifo'
BY DEF Fifo, WireFifo, ReadFifo, Stream

LEMMA OtherFifo ==
  ASSUME IInv, Fifo,
         \/ Disconnect \/ CloseAfterFlush \/ HandleWriteConnecting \/ HandleWriteFails
         \/ HandleReadCloses \/ Peer \/ UNCHANGED vars
  PROVE  Fifo'
<1>0. nb \in NBType /\ NB!disconnect(nb).fd = NB!NoFd
      /\ net \in [link : Link, sent : 0..MaxDown, taken : 0..MaxDown, fin : BOOLEAN]
  BY DisconnectIsFresh, FreshFields DEF IInv, TypeOK
<1>1. CASE Disconnect \/ HandleWriteFails \/ HandleReadCloses
  BY <1>0, <1>1, QuietFifo DEF Disconnect, HandleWriteFails, HandleReadCloses
<1>2. CASE CloseAfterFlush
  <2>1. CASE nb.sendQueue = <<>>
    BY <1>0, <1>2, <2>1, QuietFifo DEF CloseAfterFlush, NB!closeAfterFlush
  <2>2. CASE nb.sendQueue # <<>>
    <3>1. nb' = [nb EXCEPT !.pendingClose = TRUE]
      BY <1>2, <2>2 DEF CloseAfterFlush, NB!closeAfterFlush
    <3>2. nb'.fd = nb.fd /\ nb'.sendQueue = nb.sendQueue /\ nb'.recvBuf = nb.recvBuf
      BY <1>0, <3>1 DEF NBType
    <3> QED
      BY <1>2, <2>2, <3>2, QuietFifo DEF CloseAfterFlush
  <2> QED
    BY <2>1, <2>2
<1>3. CASE HandleWriteConnecting
  <2>1. CASE net.link # "up"
    BY <1>0, <1>3, <2>1, QuietFifo DEF HandleWriteConnecting, NB!completeConnect
  <2>2. CASE net.link = "up"
    <3>1. nb' = [nb EXCEPT !.connecting = FALSE, !.connected = TRUE]
      BY <1>3, <2>2 DEF HandleWriteConnecting, NB!completeConnect
    <3>2. nb'.fd = nb.fd /\ nb'.sendQueue = nb.sendQueue /\ nb'.recvBuf = nb.recvBuf
      BY <1>0, <3>1 DEF NBType
    <3> QED
      BY <1>3, <2>2, <3>2, QuietFifo DEF HandleWriteConnecting
  <2> QED
    BY <2>1, <2>2
<1>4. CASE Peer
  <2>1. net'.taken = net.taken /\ UNCHANGED <<nb, open, session, asked, wire, got>>
    BY <1>0, <1>4 DEF Peer, PeerAnswers, PeerSends, PeerCloses
  <2> QED
    BY <2>1, QuietFifo
<1>5. CASE UNCHANGED vars
  BY <1>5, QuietFifo DEF vars
<1> QED
  BY <1>1, <1>2, <1>3, <1>4, <1>5

LEMMA NextFifo == IInv /\ Fifo /\ [Next]_vars => Fifo'
BY ConnectFifo, SendFifo, ConsumeFifo, HandleWriteFifo, HandleReadFifo, OtherFifo
DEF Next, HandleWrite

LEMMA FifoInvariance == Spec => []Fifo
BY InitFifo, NextFifo, Invariance, PTL DEF Spec

\* What reaches the wire, followed by what is queued, is what the owner asked to
\* send in this session (TcpClientNB.hpp:82-117), whatever the order of calls.
THEOREM WireIsFifo == Spec => []WireFifo
BY FifoInvariance, PTL DEF Fifo

\* What the owner consumed, followed by what it can peek at, is what the peer sent
\* in this session and recv() returned (TcpClientNB.hpp:119-142).
THEOREM ReadIsFifo == Spec => []ReadFifo
BY FifoInvariance, PTL DEF Fifo

-----------------------------------------------------------------------------
(* The postponed close.                                                    *)

\* Only handleWrite() puts bytes on the wire; connect() starts with none.
LEMMA OnlySendsWrite ==
  ASSUME [Next]_vars, wire' # wire, wire' # <<>>
  PROVE  HandleWriteSends
BY DEF Next, vars, Connect, Disconnect, Send, CloseAfterFlush, Consume, HandleWrite,
  HandleWriteConnecting, HandleWriteFails, HandleReadData, HandleReadCloses,
  Peer, PeerAnswers, PeerSends, PeerCloses

LEMMA WrittenWhole ==
  ASSUME IInv, Fifo, HandleWriteSends, nb'.fd = NB!NoFd
  PROVE  wire' = asked'
<1>1. PICK n \in 1..Len(nb.sendQueue) :
        nb' = NB!wrote(nb, n) /\ wire' = wire \o SubSeq(nb.sendQueue, 1, n)
  BY DEF HandleWriteSends
<1>2. nb \in NBType /\ nb.fd # NB!NoFd
  BY FreshFields DEF HandleWriteSends, IInv, TypeOK, CleanWhenClosed
<1>3. n = Len(nb.sendQueue)
  <2>1. ASSUME n # Len(nb.sendQueue) PROVE FALSE
    <3>1. nb' = [nb EXCEPT !.sendQueue = SubSeq(@, n + 1, Len(@))]
      BY <1>1, <2>1 DEF NB!wrote
    <3>2. nb'.fd = nb.fd
      BY <1>2, <3>1 DEF NBType
    <3> QED BY <1>2, <3>2
  <2> QED BY <2>1
<1>4. SubSeq(nb.sendQueue, 1, n) = nb.sendQueue
  <2>1. nb.sendQueue \in Seq(Byte)
    BY <1>2 DEF NBType
  <2> QED BY <1>3, <2>1
<1>5. wire \o nb.sendQueue = asked
  BY <1>2 DEF Fifo, WireFifo
<1> QED BY <1>1, <1>4, <1>5 DEF HandleWriteSends

LEMMA FlushStep ==
  ASSUME IInv, Fifo, [Next]_vars
  PROVE  [wire' # wire /\ wire' # <<>> /\ nb'.fd = NB!NoFd => wire' = asked]_vars
<1> SUFFICES ASSUME wire' # wire, wire' # <<>>, nb'.fd = NB!NoFd
             PROVE  wire' = asked
  OBVIOUS
<1>1. HandleWriteSends
  BY OnlySendsWrite
<1>2. asked' = asked
  BY <1>1 DEF HandleWriteSends
<1> QED BY <1>1, <1>2, WrittenWhole

\* A handleWrite() that writes and then closes has written all that the owner asked
\* to send in this session (TcpClientNB.hpp:82-117): closeAfterFlush() never cuts the
\* queue short, whatever was queued before and after it.
THEOREM CloseWaitsForFlush == Spec => FlushBeforeClose
BY Invariance, FifoInvariance, FlushStep, PTL DEF Spec, FlushBeforeClose
=============================================================================
