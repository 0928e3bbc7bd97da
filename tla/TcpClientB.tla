------------------------------ MODULE TcpClientB ------------------------------
(***************************************************************************)
(* TcpClientB (src/TcpClientB.hpp), the blocking client of the tests: one  *)
(* object per client, each in a thread of its own, against a server on the *)
(* other side of the kernel.  A call that blocks is a state of its thread; *)
(* send() and read() go on for as many system calls as they need.  A call  *)
(* that throws ends there, with the object as it was left.                 *)
(*                                                                         *)
(* The server's side of the wires is for the module that EXTENDS this one. *)
(***************************************************************************)
EXTENDS Integers, Sequences

CONSTANTS
  Client,       \* the objects
  MaxSessions,  \* bound: sockets each object opens
  MaxLines,     \* bound: lines sent on each connection
  Texts         \* what a line may say

ASSUME SessionAssumption == MaxSessions \in [Client -> Nat]

VARIABLES
  listenFd,  \* the server's: "none", "listening", or "open" when it could not listen
  obj,       \* the objects, and the call each is in
  wire       \* the connections

clientVars == <<obj, wire>>

\* A connection is known by its client and its place among that client's sockets.
Conn == UNION {{c} \X (1..MaxSessions[c]) : c \in Client}

ASSUME LinesAssumption == MaxLines \in [Conn -> Nat]

NoFd == -1

\* A line is one symbol for its text and one for its end.
Line(x, k, text) ==
  <<[conn |-> x, line |-> k, text |-> text, nl |-> FALSE],
    [conn |-> x, line |-> k, text |-> text, nl |-> TRUE]>>

HasLine(buf) == \E i \in DOMAIN buf : buf[i].nl

\* Position of the first line end in a buffer that has one.
LineEnd(buf) == CHOOSE i \in DOMAIN buf : buf[i].nl /\ \A j \in 1..(i - 1) : ~buf[j].nl

\* fd: NoFd, or the place of the socket that is open; made: sockets made so far;
\* left: what send() has still to send.
NewObject == [fd |-> NoFd, made |-> 0, readBuf |-> <<>>, call |-> "none", left |-> <<>>]

\* server: new, queued (in the accept queue), open, closed or refused; client: new,
\* open, closed; up/down: bytes on their way to the server and to the client.
\* History: sent, all the client put on the wire; got, all that read() returned.
NewWire(server, client) ==
  [server |-> server, client |-> client, up |-> <<>>, down |-> <<>>,
   sent |-> <<>>, got |-> <<>>]

ClientInit ==
  /\ obj = [c \in Client |-> NewObject]
  /\ wire = [x \in Conn |-> NewWire("new", "new")]

Wire(c) == wire[<<c, obj[c].fd>>]
Idle(c) == obj[c].call = "none"
Connected(c) == obj[c].fd # NoFd

-----------------------------------------------------------------------------
\* The wires after ::close() of a client's socket.  Closing with data unread
\* resets the connection, and then the server may lose what it has not read.
AfterClose(c) ==
  IF ~Connected(c) THEN {wire}
  ELSE {[wire EXCEPT ![<<c, obj[c].fd>>].client = "closed",
                     ![<<c, obj[c].fd>>].down = <<>>,
                     ![<<c, obj[c].fd>>].up = up] :
          up \in {Wire(c).up} \cup (IF Wire(c).down = <<>> THEN {} ELSE {<<>>})}

\* Mutated form: what was read ahead is kept.
disconnectKeepsReadBuf(o) == [o EXCEPT !.fd = NoFd]

disconnect(o) == [o EXCEPT !.fd = NoFd, !.readBuf = <<>>]

Disconnect(c) ==
  /\ Idle(c) /\ Connected(c)
  /\ wire' \in AfterClose(c)
  /\ obj' = [obj EXCEPT ![c] = disconnect(@)]
  /\ UNCHANGED listenFd

\* A new socket for client c; a connection nobody accepts leaves it open.
ConnectSocket(c, old, wires) ==
  LET s == old.made + 1
  IN  /\ obj' = [obj EXCEPT ![c] = [old EXCEPT !.fd = s, !.made = s]]
      /\ wire' = [wires EXCEPT ![<<c, s>>] =
           NewWire(IF listenFd = "listening" THEN "queued" ELSE "refused", "open")]

\* connect() closes an open socket first; the name may not resolve or no socket
\* be left.
Connect(c) ==
  /\ Idle(c) /\ obj[c].made < MaxSessions[c]
  /\ \E wires \in AfterClose(c) :
       \/ obj' = [obj EXCEPT ![c] = disconnect(@)] /\ wire' = wires
       \/ ConnectSocket(c, disconnect(obj[c]), wires)
  /\ UNCHANGED listenFd

Send(c) ==
  /\ Idle(c) /\ Connected(c)
  /\ Len(Wire(c).sent) < 2 * MaxLines[<<c, obj[c].fd>>]
  /\ \E text \in Texts :
       obj' = [obj EXCEPT ![c].call = "send",
                 ![c].left = Line(<<c, obj[c].fd>>, 1 + Len(Wire(c).sent) \div 2, text)]
  /\ UNCHANGED <<listenFd, wire>>

Returned(c, left) ==
  obj' = [obj EXCEPT ![c].left = left, ![c].call = IF left = <<>> THEN "none" ELSE @]

\* One ::send() of the loop.
SendChunk(c) ==
  /\ obj[c].call = "send" /\ Wire(c).server \in {"queued", "open"}
  /\ \E n \in 1..Len(obj[c].left) :
       LET taken == SubSeq(obj[c].left, 1, n)
       IN  /\ wire' = [wire EXCEPT ![<<c, obj[c].fd>>].up = @ \o taken,
                                   ![<<c, obj[c].fd>>].sent = @ \o taken]
           /\ Returned(c, SubSeq(obj[c].left, n + 1, Len(obj[c].left)))
  /\ UNCHANGED listenFd

\* With nobody at the other end send() throws, or the kernel takes the bytes for
\* nothing.
SendFails(c) ==
  /\ obj[c].call = "send" /\ Wire(c).server \in {"closed", "refused"}
  /\ Returned(c, <<>>)
  /\ UNCHANGED <<listenFd, wire>>

\* available(): an end of stream or an error ends the draining like an empty socket.
Available(c) ==
  /\ Idle(c) /\ Connected(c)
  /\ obj' = [obj EXCEPT ![c].readBuf = @ \o Wire(c).down]
  /\ wire' = [wire EXCEPT ![<<c, obj[c].fd>>].down = <<>>]
  /\ UNCHANGED listenFd

Read(c) ==
  /\ Idle(c) /\ Connected(c)
  /\ obj' = [obj EXCEPT ![c].call = "read"]
  /\ UNCHANGED <<listenFd, wire>>

Reading(c) == obj[c].call = "read" /\ ~HasLine(obj[c].readBuf)

\* ::recv() with something to return.
Recv(c) ==
  /\ Reading(c)
  /\ \E n \in 1..Len(Wire(c).down) :
       /\ obj' = [obj EXCEPT ![c].readBuf = @ \o SubSeq(Wire(c).down, 1, n)]
       /\ wire' = [wire EXCEPT ![<<c, obj[c].fd>>].down = SubSeq(@, n + 1, Len(@))]
  /\ UNCHANGED listenFd

\* Mutated form: the end of the stream is taken for nothing yet.
RecvEndsIgnored(c) ==
  /\ Reading(c) /\ Wire(c).down = <<>> /\ Wire(c).server = "refused"
  /\ obj' = [obj EXCEPT ![c].call = "none"]
  /\ UNCHANGED <<listenFd, wire>>

\* ::recv() at the end of the stream, or in error: read() throws.
RecvEnds(c) ==
  /\ Reading(c) /\ Wire(c).down = <<>> /\ Wire(c).server \in {"closed", "refused"}
  /\ obj' = [obj EXCEPT ![c].call = "none"]
  /\ UNCHANGED <<listenFd, wire>>

ReadReturns(c) ==
  LET buf == obj[c].readBuf
  IN  /\ obj[c].call = "read" /\ HasLine(buf)
      /\ obj' = [obj EXCEPT ![c].call = "none",
                            ![c].readBuf = SubSeq(buf, LineEnd(buf) + 1, Len(buf))]
      /\ wire' = [wire EXCEPT ![<<c, obj[c].fd>>].got = @ \o SubSeq(buf, 1, LineEnd(buf))]
      /\ UNCHANGED listenFd

\* What a thread inside a call does.
Progress(c) == SendChunk(c) \/ SendFails(c) \/ Recv(c) \/ RecvEnds(c) \/ ReadReturns(c)

ClientNext(c) ==
  Connect(c) \/ Disconnect(c) \/ Send(c) \/ Available(c) \/ Read(c) \/ Progress(c)
=============================================================================
