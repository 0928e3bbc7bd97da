-------------------------- MODULE HttpServer_proofs --------------------------
(***************************************************************************)
(* Proofs about HttpServer, for any number of connections and descriptors, *)
(* any streams cut into any chunks, and whatever onHttpRequest() does.     *)
(***************************************************************************)
EXTENDS HttpServer, Filter_proofs, FiniteSetTheorems

-----------------------------------------------------------------------------
(* The inductive invariant.                                                *)

Entry == [remoteAddr : Conn \cup {NoConn}, recvBuf : Seq(Symbol),
          sendQueue : Seq(Sent), pendingClose : BOOLEAN]
State == [stage : {"none", "RequestLine", "Headers", "Body"},
          request : Request, bodyRemaining : Nat]
End == [at : {"new", "open", "closed"}, script : Scripts, read : Nat, out : Seq(Sent)]

\* A descriptor in the table has a connection that is open, and its own.
Owned ==
  /\ \A fd \in Live(clients) : net[ConnOf(fd)].at = "open"
  /\ \A f, g \in Live(clients) : ConnOf(f) = ConnOf(g) => f = g

\* Only the descriptors in the table have a parse state, and onRawData() is at work
\* on none when the loop has ended.
Matched ==
  /\ ParseStatesMatch
  /\ parsing # NoFd => running

\* What was written and what is queued is what was answered.
Balanced(out, queue, events) == out \o queue = Kept(events, Response)

Answers ==
  \A fd \in Live(clients) :
    Balanced(net[ConnOf(fd)].out, clients[fd].sendQueue, log[ConnOf(fd)])

\* Nothing came over a connection before it is accepted.
Fresh ==
  \A c \in Conn : net[c].at = "new" => net[c].out = <<>> /\ log[c] = <<>> /\ net[c].read = 0

Inv == TypeOK /\ Owned /\ Matched /\ Fresh /\ Answers

-----------------------------------------------------------------------------
(* What a step may do to a descriptor.                                     *)

\* The four tables, when those of fd and its connection are set.
Sets(fd, entry, state, c, end, events) ==
  /\ clients' = [clients EXCEPT ![fd] = entry]
  /\ parseStates' = [parseStates EXCEPT ![fd] = state]
  /\ net' = [net EXCEPT ![c] = end]
  /\ log' = [log EXCEPT ![c] = events]

\* fd is put in the table for a new connection.
Admits(fd, c) ==
  /\ fd \in Fd \ Live(clients) /\ c \in Conn /\ net[c].at = "new"
  /\ Sets(fd, NewClient(c), NewParseState, c, [net[c] EXCEPT !.at = "open"], log[c])

\* Written and queued: as before, and then the responses among new.
Grows(out, queue, out2, queue2, new) ==
  out2 \o queue2 = (out \o queue) \o Kept(new, Response)

\* What may come of a connection's bytes when it is marked for closing, or closed.
MayClose(e) ==
  \/ e = BadRequest
  \/ ~keepAlive(e.request)
  \/ \E hook \in onHttpRequest(e.request) :
       hook.closes /\ e = IF hook.answers THEN Answered(e.request) ELSE Unanswered(e.request)

Closing(fd, new) == clients[fd].pendingClose \/ \E i \in 1..Len(new) : MayClose(new[i])

\* fd stays in the table, and new is what came of its bytes.
Worked(fd, entry, state, end, new) ==
  /\ entry.remoteAddr = ConnOf(fd)
  /\ state.stage # "none"
  /\ end.at = net[ConnOf(fd)].at
  /\ Grows(net[ConnOf(fd)].out, clients[fd].sendQueue, end.out, entry.sendQueue, new)
  /\ entry.pendingClose => Closing(fd, new)
  /\ Sets(fd, entry, state, ConnOf(fd), end, log[ConnOf(fd)] \o new)

Works(fd) ==
  \E entry \in Entry, state \in State, end \in End, new \in Seq(Event) :
    Worked(fd, entry, state, end, new)

\* fd leaves the table: its client has gone, or the close was due and all of it is out.
Left(fd, end, new) ==
  /\ end.at = "closed"
  /\ \/ ClientGone(fd)
     \/ /\ Grows(net[ConnOf(fd)].out, clients[fd].sendQueue, end.out, <<>>, new)
        /\ Closing(fd, new)
  /\ Sets(fd, NoClient, NoParseState, ConnOf(fd), end, log[ConnOf(fd)] \o new)

Leaves(fd) ==
  \E end \in End, new \in Seq(Event) : Left(fd, end, new)

LEMMA LiveTypes ==
  ASSUME TypeOK, NEW fd \in Live(clients)
  PROVE  /\ fd \in Fd
         /\ ConnOf(fd) \in Conn
         /\ clients[fd] \in Entry
         /\ parseStates[fd] \in State
         /\ net[ConnOf(fd)] \in End
         /\ log[ConnOf(fd)] \in Seq(Event)
<1>1. fd \in Fd /\ clients[fd] \in Entry /\ clients[fd].remoteAddr # NoConn
  BY DEF TypeOK, Live, Entry
<1>2. ConnOf(fd) \in Conn
  BY <1>1 DEF ConnOf, Entry
<1> QED BY <1>1, <1>2 DEF TypeOK, State, End

LEMMA Values ==
  /\ NoClient \in Entry /\ NoClient.remoteAddr = NoConn
  /\ NewParseState \in State /\ NewParseState.stage = "RequestLine"
  /\ NoParseState \in State /\ NoParseState.stage = "none"
  /\ BadRequest \in Response /\ NewRequest \in Request
  /\ \A r \in Request : Answered(r) \in Response
  /\ \A r \in Request : Unanswered(r) \in Event \ Response
  /\ Response \subseteq Event /\ Response \subseteq Sent
  /\ \A c \in Conn : /\ NewClient(c) \in Entry /\ NewClient(c).remoteAddr = c
                     /\ NewClient(c).sendQueue = <<>>
<1>1. NewRequest \in Request
  BY DEF NewRequest, Request
<1>2. /\ \A r \in Request : Answered(r) \in Response
      /\ \A r \in Request : Unanswered(r) \in Event \ Response
      /\ Response \subseteq Event /\ Response \subseteq Sent
  BY DEF Answered, Unanswered, Response, Event, Sent
<1>3. BadRequest \in Response
  BY <1>1 DEF BadRequest, Response
<1>4. /\ NewParseState \in State /\ NewParseState.stage = "RequestLine"
      /\ NoParseState \in State /\ NoParseState.stage = "none"
  BY <1>1 DEF NewParseState, NoParseState, ParseState, State
<1>5. NoClient \in Entry /\ NoClient.remoteAddr = NoConn
  BY DEF NoClient, NewClient, Entry
<1>6. \A c \in Conn : /\ NewClient(c) \in Entry /\ NewClient(c).remoteAddr = c
                      /\ NewClient(c).sendQueue = <<>>
  BY DEF NewClient, Entry
<1> QED BY <1>1, <1>2, <1>3, <1>4, <1>5, <1>6

Associates(s, t, u) == (s \o t) \o u = s \o (t \o u)

LEMMA Associate ==
  ASSUME NEW S, NEW s \in Seq(S), NEW t \in Seq(S), NEW u \in Seq(S)
  PROVE  Associates(s, t, u)
BY DEF Associates

LEMMA Cut ==
  ASSUME NEW S, NEW s \in Seq(S), NEW n \in 1..Len(s)
  PROVE  /\ SubSeq(s, 1, n) \in Seq(S) /\ SubSeq(s, n + 1, Len(s)) \in Seq(S)
         /\ SubSeq(s, 1, n) \o SubSeq(s, n + 1, Len(s)) = s
<1>1. SubSeq(s, 1, n) \in Seq(S) /\ SubSeq(s, n + 1, Len(s)) \in Seq(S)
  OBVIOUS
<1>2. SubSeq(s, 1, n) \o SubSeq(s, n + 1, Len(s)) = s
  OBVIOUS
<1> QED BY <1>1, <1>2

\* One event, or none, is a sequence of events.
LEMMA News ==
  /\ <<>> \in Seq(Event) /\ Kept(<<>>, Response) = <<>>
  /\ \A x \in Event : <<x>> \in Seq(Event)
  /\ \A x \in Response : Kept(<<x>>, Response) = <<x>>
  /\ \A x \in Event \ Response : Kept(<<x>>, Response) = <<>>
<1>1. <<>> \in Seq(Event) /\ \A x \in Event : <<x>> \in Seq(Event) /\ Append(<<>>, x) = <<x>>
  OBVIOUS
<1>2. Kept(<<>>, Response) = <<>>
  BY KeptOfEmpty
<1>3. \A x \in Event : Kept(Append(<<>>, x), Response)
                         = IF x \in Response THEN Append(Kept(<<>>, Response), x)
                                             ELSE Kept(<<>>, Response)
  BY <1>1, KeptOfAppend
<1>4. \A x \in Event : Kept(<<x>>, Response) = IF x \in Response THEN <<x>> ELSE <<>>
  BY <1>1, <1>2, <1>3
<1> QED BY <1>1, <1>2, <1>4, Values

\* A connection's events, with one more or none.
LEMMA LogGrows ==
  ASSUME NEW l \in Seq(Event)
  PROVE  l \o <<>> = l /\ \A x \in Event : l \o <<x>> = Append(l, x)
OBVIOUS

\* An answer that is queued is added to what was answered.
LEMMA GrowsByAnswer ==
  ASSUME NEW o \in Seq(Sent), NEW q \in Seq(Sent), NEW x \in Response
  PROVE  Grows(o, q, o, q \o <<x>>, <<x>>)
<1> DEFINE y == <<x>>
<1>1. x \in Sent
  BY Values
<1>2. y \in Seq(Sent)
  BY <1>1
<1>3. Kept(y, Response) = y
  BY News
<1> HIDE DEF y
<1>4. Associates(o, q, y)
  BY <1>2, Associate
<1>5. Grows(o, q, o, q \o y, y)
  BY <1>3, <1>4 DEF Grows, Associates
<1> QED BY <1>5 DEF y

\* A request that is not answered yet adds nothing.
LEMMA GrowsWithout ==
  ASSUME NEW o \in Seq(Sent), NEW q \in Seq(Sent)
  PROVE  /\ Grows(o, q, o, q, <<>>)
         /\ \A x \in Event \ Response : Grows(o, q, o, q, <<x>>)
<1> DEFINE oq == o \o q
<1>1. oq \in Seq(Sent)
  OBVIOUS
<1> HIDE DEF oq
<1>2. oq \o <<>> = oq
  BY <1>1
<1> QED BY <1>2, News DEF Grows, oq

\* What send() takes moves from the queue to the wire.
LEMMA GrowsByWrite ==
  ASSUME NEW o \in Seq(Sent), NEW q \in Seq(Sent), NEW n \in 1..Len(q)
  PROVE  Grows(o, q, o \o SubSeq(q, 1, n), SubSeq(q, n + 1, Len(q)), <<>>)
<1> DEFINE a == SubSeq(q, 1, n)
           b == SubSeq(q, n + 1, Len(q))
           oq == o \o q
<1>1. a \in Seq(Sent) /\ b \in Seq(Sent) /\ a \o b = q
  BY Cut
<1>2. oq \in Seq(Sent)
  OBVIOUS
<1> HIDE DEF a, b
<1>3. Associates(o, a, b)
  BY <1>1, Associate
<1>4. (o \o a) \o b = oq
  BY <1>1, <1>3 DEF Associates
<1> HIDE DEF oq
<1>5. oq \o <<>> = oq
  BY <1>2
<1>6. Grows(o, q, o \o a, b, <<>>)
  BY <1>4, <1>5, News DEF Grows, oq
<1> QED BY <1>6 DEF a, b

\* What is in balance stays so.
LEMMA GrowsBalanced ==
  ASSUME NEW o, NEW q, NEW o2, NEW q2, NEW l \in Seq(Event), NEW new \in Seq(Event),
         Balanced(o, q, l), Grows(o, q, o2, q2, new)
  PROVE  Balanced(o2, q2, l \o new)
<1>1. Kept(l \o new, Response) = Kept(l, Response) \o Kept(new, Response)
  BY KeptOfBoth
<1> QED BY <1>1 DEF Balanced, Grows

-----------------------------------------------------------------------------
(* What the steps of onRawData() do.                                       *)

\* A step that leaves the connection as it is, but for what came of its bytes.
LEMMA Stays ==
  ASSUME TypeOK, NEW fd \in Live(clients), NEW e \in Entry, NEW st \in State,
         NEW new \in Seq(Event),
         e.remoteAddr = ConnOf(fd), st.stage # "none",
         Grows(net[ConnOf(fd)].out, clients[fd].sendQueue, net[ConnOf(fd)].out, e.sendQueue, new),
         e.pendingClose => Closing(fd, new),
         clients' = [clients EXCEPT ![fd] = e],
         parseStates' = [parseStates EXCEPT ![fd] = st],
         UNCHANGED net,
         log' = [log EXCEPT ![ConnOf(fd)] = log[ConnOf(fd)] \o new]
  PROVE  Works(fd)
<1> DEFINE c == ConnOf(fd)
<1>1. c \in Conn /\ net[c] \in End
  BY LiveTypes
<1>2. net' = [net EXCEPT ![c] = net[c]]
  BY <1>1 DEF TypeOK
<1>3. Worked(fd, e, st, net[c], new)
  BY <1>2 DEF Worked, Sets
<1> QED BY <1>1, <1>3 DEF Works

LEMMA Closes ==
  ASSUME TypeOK, NEW fd \in Live(clients), NEW e \in Entry, NEW st \in State,
         NEW new \in Seq(Event),
         e.remoteAddr = ConnOf(fd), st.stage # "none",
         Grows(net[ConnOf(fd)].out, clients[fd].sendQueue, net[ConnOf(fd)].out, e.sendQueue, new),
         Closing(fd, new),
         CloseAfterFlush(fd, [clients EXCEPT ![fd] = e], [parseStates EXCEPT ![fd] = st]),
         log' = [log EXCEPT ![ConnOf(fd)] = log[ConnOf(fd)] \o new]
  PROVE  Works(fd) \/ Leaves(fd)
<1> DEFINE c == ConnOf(fd)
           queued == [clients EXCEPT ![fd] = e]
           end == [net[c] EXCEPT !.at = "closed"]
<1>1. fd \in Fd /\ c \in Conn /\ net[c] \in End
  BY LiveTypes
<1>2. queued[fd] = e
  BY <1>1 DEF TypeOK
<1>3. CASE e.sendQueue = <<>>
  <2>1. Disconnect(fd, queued, net)
    BY <1>2, <1>3 DEF CloseAfterFlush
  <2>2. clients' = [clients EXCEPT ![fd] = NoClient]
    BY <2>1, <1>1 DEF Disconnect, erase, TypeOK
  <2>3. net' = [net EXCEPT ![c] = end]
    BY <2>1, <1>1 DEF Disconnect, TypeOK
  <2>4. parseStates' = [parseStates EXCEPT ![fd] = NoParseState]
    BY <2>1 DEF Disconnect
  <2>5. end \in End /\ end.at = "closed" /\ end.out = net[c].out
    BY <1>1 DEF End
  <2> HIDE DEF end
  <2>6. Left(fd, end, new)
    BY <1>3, <2>2, <2>3, <2>4, <2>5 DEF Left, Sets
  <2> QED BY <2>5, <2>6 DEF Leaves
<1>4. CASE e.sendQueue # <<>>
  <2> DEFINE marked == [e EXCEPT !.pendingClose = TRUE]
  <2>1. /\ clients' = markPendingClose(queued, fd)
        /\ parseStates' = [parseStates EXCEPT ![fd] = st]
        /\ UNCHANGED net
    BY <1>2, <1>4 DEF CloseAfterFlush
  <2>2. clients' = [clients EXCEPT ![fd] = marked]
    BY <2>1, <1>1 DEF markPendingClose, TypeOK
  <2>3. marked \in Entry /\ marked.remoteAddr = c /\ marked.sendQueue = e.sendQueue
    BY DEF Entry
  <2> HIDE DEF marked
  <2> QED BY <2>1, <2>2, <2>3, Stays
<1> QED BY <1>3, <1>4

\* The entry of fd with b left in its buffer, and with x queued for it.
Taken(fd, b) == [clients[fd] EXCEPT !.recvBuf = b]
Queued(fd, b, x) ==
  [clients[fd] EXCEPT !.recvBuf = b, !.sendQueue = clients[fd].sendQueue \o <<x>>]

LEMMA Entries ==
  ASSUME TypeOK, NEW fd \in Live(clients), NEW b \in Seq(Symbol)
  PROVE  LET taken == [clients EXCEPT ![fd].recvBuf = b]
         IN  /\ taken = [clients EXCEPT ![fd] = Taken(fd, b)]
             /\ Taken(fd, b) \in Entry
             /\ Taken(fd, b).remoteAddr = ConnOf(fd)
             /\ Taken(fd, b).sendQueue = clients[fd].sendQueue
             /\ Taken(fd, b).pendingClose = clients[fd].pendingClose
             /\ \A x \in Sent :
                  /\ sendToClient(taken, fd, <<x>>) = [clients EXCEPT ![fd] = Queued(fd, b, x)]
                  /\ Queued(fd, b, x) \in Entry
                  /\ Queued(fd, b, x).remoteAddr = ConnOf(fd)
                  /\ Queued(fd, b, x).sendQueue = clients[fd].sendQueue \o <<x>>
                  /\ Queued(fd, b, x).pendingClose = clients[fd].pendingClose
<1> DEFINE taken == [clients EXCEPT ![fd].recvBuf = b]
<1>1. fd \in Fd /\ clients[fd] \in Entry /\ clients[fd].remoteAddr # NoConn
  BY LiveTypes DEF Live
<1>2. taken = [clients EXCEPT ![fd] = Taken(fd, b)]
  BY DEF Taken
<1>3. /\ Taken(fd, b) \in Entry
      /\ Taken(fd, b).remoteAddr = ConnOf(fd)
      /\ Taken(fd, b).sendQueue = clients[fd].sendQueue
      /\ Taken(fd, b).pendingClose = clients[fd].pendingClose
  BY <1>1 DEF Taken, Entry, ConnOf
<1>4. ASSUME NEW x \in Sent
      PROVE  /\ sendToClient(taken, fd, <<x>>) = [clients EXCEPT ![fd] = Queued(fd, b, x)]
             /\ Queued(fd, b, x) \in Entry
             /\ Queued(fd, b, x).remoteAddr = ConnOf(fd)
             /\ Queued(fd, b, x).sendQueue = clients[fd].sendQueue \o <<x>>
             /\ Queued(fd, b, x).pendingClose = clients[fd].pendingClose
  <2> DEFINE q == clients[fd].sendQueue \o <<x>>
  <2>1. q \in Seq(Sent)
    BY <1>1 DEF Entry
  <2>2. DOMAIN taken = Fd /\ taken[fd].remoteAddr = clients[fd].remoteAddr
                        /\ taken[fd].sendQueue = clients[fd].sendQueue
    BY <1>1 DEF TypeOK, Entry
  <2>3. fd \in Live(taken)
    BY <1>1, <2>2 DEF Live
  <2>4. sendToClient(taken, fd, <<x>>) = [taken EXCEPT ![fd].sendQueue = q]
    BY <2>2, <2>3 DEF sendToClient
  <2> HIDE DEF q
  <2>5. [taken EXCEPT ![fd].sendQueue = q]
          = [clients EXCEPT ![fd] = [clients[fd] EXCEPT !.recvBuf = b, !.sendQueue = q]]
    BY <1>1 DEF TypeOK, Entry
  <2>6. LET e == [clients[fd] EXCEPT !.recvBuf = b, !.sendQueue = q]
        IN  /\ e \in Entry /\ e.remoteAddr = ConnOf(fd) /\ e.sendQueue = q
            /\ e.pendingClose = clients[fd].pendingClose
    BY <1>1, <2>1 DEF Entry, ConnOf
  <2> QED BY <2>4, <2>5, <2>6 DEF q, Queued
<1> QED BY <1>2, <1>3, <1>4

LEMMA Buffers ==
  ASSUME TypeOK, NEW fd \in Live(clients), NEW b \in Seq(Symbol)
  PROVE  /\ Taken(fd, b).recvBuf = b
         /\ \A x \in Sent : Queued(fd, b, x).recvBuf = b
<1>1. clients[fd] \in Entry
  BY LiveTypes
<1> QED BY <1>1 DEF Taken, Queued, Entry

\* A line, or part of a body, that only changes the parse state.
LEMMA Continues ==
  ASSUME TypeOK, NEW fd \in Live(clients), NEW b \in Seq(Symbol), NEW st \in State,
         st.stage # "none", Continue(fd, st, [clients EXCEPT ![fd].recvBuf = b])
  PROVE  Works(fd)
<1> DEFINE c == ConnOf(fd)
           e == Taken(fd, b)
<1>1. /\ c \in Conn /\ log[c] \in Seq(Event)
      /\ net[c].out \in Seq(Sent) /\ clients[fd].sendQueue \in Seq(Sent)
  BY LiveTypes DEF End, Entry
<1>2. log' = [log EXCEPT ![c] = log[c] \o <<>>]
  BY <1>1, LogGrows DEF Continue, TypeOK
<1>3. /\ clients' = [clients EXCEPT ![fd] = e]
      /\ parseStates' = [parseStates EXCEPT ![fd] = st]
      /\ UNCHANGED net
  BY Entries DEF Continue
<1>4. /\ e \in Entry /\ e.remoteAddr = c /\ e.sendQueue = clients[fd].sendQueue
      /\ e.pendingClose = clients[fd].pendingClose
  BY Entries
<1>5. Grows(net[c].out, clients[fd].sendQueue, net[c].out, clients[fd].sendQueue, <<>>)
  BY <1>1, GrowsWithout
<1>6. e.pendingClose => Closing(fd, <<>>)
  BY <1>4 DEF Closing
<1> HIDE DEF e
<1> QED BY <1>1, <1>2, <1>3, <1>4, <1>5, <1>6, News, Stays

\* An error: the 400 is queued and the connection marked.
LEMMA Fails ==
  ASSUME TypeOK, NEW fd \in Live(clients), NEW b \in Seq(Symbol),
         parseStates[fd].stage # "none",
         onHttpError(fd, [clients EXCEPT ![fd].recvBuf = b])
  PROVE  Works(fd) \/ Leaves(fd)
<1> DEFINE c == ConnOf(fd)
           e == Queued(fd, b, BadRequest)
           new == <<BadRequest>>
<1>1. /\ fd \in Fd /\ c \in Conn /\ log[c] \in Seq(Event) /\ parseStates[fd] \in State
      /\ net[c].out \in Seq(Sent) /\ clients[fd].sendQueue \in Seq(Sent)
  BY LiveTypes DEF End, Entry
<1>2. BadRequest \in Response /\ BadRequest \in Event /\ BadRequest \in Sent
  BY Values
<1>3. new \in Seq(Event)
  BY <1>2, News
<1>4. log' = [log EXCEPT ![c] = log[c] \o new]
  <2>1. log' = [log EXCEPT ![c] = Append(log[c], BadRequest)]
    BY DEF onHttpError
  <2> QED BY <1>1, <1>2, <2>1, LogGrows
<1>5. /\ sendToClient([clients EXCEPT ![fd].recvBuf = b], fd, new) = [clients EXCEPT ![fd] = e]
      /\ e \in Entry /\ e.remoteAddr = c
      /\ e.sendQueue = clients[fd].sendQueue \o new
  <2>1. \A x \in Sent :
          /\ sendToClient([clients EXCEPT ![fd].recvBuf = b], fd, <<x>>)
               = [clients EXCEPT ![fd] = Queued(fd, b, x)]
          /\ Queued(fd, b, x) \in Entry
          /\ Queued(fd, b, x).remoteAddr = ConnOf(fd)
          /\ Queued(fd, b, x).sendQueue = clients[fd].sendQueue \o <<x>>
    BY Entries, ZenonT(40)
  <2> QED BY <1>2, <2>1
<1>6. parseStates = [parseStates EXCEPT ![fd] = parseStates[fd]]
  BY <1>1 DEF TypeOK
<1>7. CloseAfterFlush(fd, [clients EXCEPT ![fd] = e],
                      [parseStates EXCEPT ![fd] = parseStates[fd]])
  BY <1>5, <1>6 DEF onHttpError
<1>8. Grows(net[c].out, clients[fd].sendQueue, net[c].out, e.sendQueue, new)
  BY <1>1, <1>2, <1>5, GrowsByAnswer
<1>9. Closing(fd, new)
  BY DEF Closing, MayClose
<1> HIDE DEF e, new
<1> QED BY <1>1, <1>3, <1>4, <1>5, <1>7, <1>8, <1>9, Closes

\* A request that is handed on.
LEMMA Dispatches ==
  ASSUME TypeOK, NEW fd \in Live(clients), NEW b \in Seq(Symbol), NEW request \in Request,
         dispatchRequest(fd, request, [clients EXCEPT ![fd].recvBuf = b])
  PROVE  Works(fd) \/ Leaves(fd)
<1> DEFINE c == ConnOf(fd)
           taken == [clients EXCEPT ![fd].recvBuf = b]
           states == [parseStates EXCEPT ![fd] = NewParseState]
           answer(hook) == IF hook.answers THEN Answered(request) ELSE Unanswered(request)
<1>1. /\ fd \in Fd /\ c \in Conn /\ log[c] \in Seq(Event)
      /\ net[c].out \in Seq(Sent) /\ clients[fd].sendQueue \in Seq(Sent)
  BY LiveTypes DEF End, Entry
<1>2. PICK hook \in onHttpRequest(request) :
        LET queued == IF hook.answers THEN sendToClient(taken, fd, <<answer(hook)>>) ELSE taken
        IN  /\ log' = [log EXCEPT ![c] = Append(@, answer(hook))]
            /\ IF keepAlive(request) /\ ~hook.closes
               THEN clients' = queued /\ parseStates' = states /\ UNCHANGED net
               ELSE CloseAfterFlush(fd, queued, states)
  BY DEF dispatchRequest
<1> DEFINE x == answer(hook)
<1>3. x \in Event /\ x.request = request
  BY Values DEF Answered, Unanswered
<1>4. PICK e \in Entry :
        /\ e = IF hook.answers THEN Queued(fd, b, x) ELSE Taken(fd, b)
        /\ (IF hook.answers THEN sendToClient(taken, fd, <<x>>) ELSE taken)
             = [clients EXCEPT ![fd] = e]
        /\ e.remoteAddr = c
        /\ e.pendingClose = clients[fd].pendingClose
        /\ Grows(net[c].out, clients[fd].sendQueue, net[c].out, e.sendQueue, <<x>>)
  <2>1. CASE hook.answers
    <3>1. x \in Response /\ x \in Sent
      BY <2>1, Values
    <3>2. \A y \in Sent :
            /\ sendToClient(taken, fd, <<y>>) = [clients EXCEPT ![fd] = Queued(fd, b, y)]
            /\ Queued(fd, b, y) \in Entry
            /\ Queued(fd, b, y).remoteAddr = ConnOf(fd)
            /\ Queued(fd, b, y).sendQueue = clients[fd].sendQueue \o <<y>>
            /\ Queued(fd, b, y).pendingClose = clients[fd].pendingClose
      BY Entries
    <3> HIDE DEF x, taken
    <3>3. Grows(net[c].out, clients[fd].sendQueue, net[c].out, Queued(fd, b, x).sendQueue, <<x>>)
      BY <1>1, <3>1, <3>2, GrowsByAnswer
    <3> QED BY <2>1, <3>1, <3>2, <3>3
  <2>2. CASE ~hook.answers
    <3>1. x \in Event \ Response
      BY <2>2, Values
    <3>2. /\ taken = [clients EXCEPT ![fd] = Taken(fd, b)]
          /\ Taken(fd, b) \in Entry
          /\ Taken(fd, b).remoteAddr = c
          /\ Taken(fd, b).sendQueue = clients[fd].sendQueue
          /\ Taken(fd, b).pendingClose = clients[fd].pendingClose
      BY Entries
    <3> HIDE DEF x, taken
    <3>3. Grows(net[c].out, clients[fd].sendQueue, net[c].out, Taken(fd, b).sendQueue, <<x>>)
      BY <1>1, <3>1, <3>2, GrowsWithout
    <3> QED BY <2>2, <3>2, <3>3
  <2> QED BY <2>1, <2>2
<1>5. log' = [log EXCEPT ![c] = log[c] \o <<x>>]
  <2>1. log' = [log EXCEPT ![c] = Append(log[c], x)]
    BY <1>2
  <2> HIDE DEF x
  <2> QED BY <1>1, <1>3, <2>1, LogGrows
<1>6. IF keepAlive(request) /\ ~hook.closes
      THEN clients' = [clients EXCEPT ![fd] = e] /\ parseStates' = states /\ UNCHANGED net
      ELSE CloseAfterFlush(fd, [clients EXCEPT ![fd] = e], states)
  <2> HIDE DEF x, taken, states
  <2> QED BY <1>2, <1>4 DEF x
<1>7. <<x>> \in Seq(Event) /\ NewParseState \in State /\ NewParseState.stage # "none"
  BY <1>3, News, Values
<1>8. CASE keepAlive(request) /\ ~hook.closes
  <2>1. e.pendingClose => Closing(fd, <<x>>)
    BY <1>4 DEF Closing
  <2> HIDE DEF x
  <2> QED BY <1>4, <1>5, <1>6, <1>7, <1>8, <2>1, Stays
<1>9. CASE ~ (keepAlive(request) /\ ~hook.closes)
  <2>1. MayClose(x)
    BY <1>3, <1>9 DEF MayClose
  <2> HIDE DEF x
  <2>2. Closing(fd, <<x>>)
    BY <2>1 DEF Closing
  <2> QED BY <1>4, <1>5, <1>6, <1>7, <1>9, <2>2, Closes
<1> QED BY <1>8, <1>9

\* The first line end of a buffer that has one is in it.
LEMMA LineEnds ==
  ASSUME NEW buf \in Seq(Symbol), HasLine(buf)
  PROVE  /\ LineEnd(buf) \in 1..Len(buf)
         /\ SubSeq(buf, 1, LineEnd(buf) - 1) \in Seq(Symbol)
         /\ AfterLine(buf) \in Seq(Symbol)
<1> DEFINE ends == {i \in 1..Len(buf) : buf[i] = "nl"}
<1>1. DOMAIN buf = 1..Len(buf) /\ Len(buf) \in Nat
  OBVIOUS
<1>2. ends \in SUBSET Nat /\ ends # {}
  BY <1>1 DEF HasLine
<1>3. PICK m \in ends : \A k \in ends : m <= k
  <2> HIDE DEF ends
  <2> QED BY <1>2, LeastNumber
<1>4. \A j \in 1..(m - 1) : buf[j] # "nl"
  BY <1>1, <1>3
<1>5. \E i \in DOMAIN buf : buf[i] = "nl" /\ \A j \in 1..(i - 1) : buf[j] # "nl"
  BY <1>1, <1>3, <1>4
<1>6. LineEnd(buf) \in 1..Len(buf)
  BY <1>1, <1>5 DEF LineEnd
<1> DEFINE n == LineEnd(buf)
<1> HIDE DEF n
<1>7. n \in 1..Len(buf)
  BY <1>6 DEF n
<1>8. SubSeq(buf, 1, n - 1) \in Seq(Symbol) /\ SubSeq(buf, n + 1, Len(buf)) \in Seq(Symbol)
  BY <1>1, <1>7
<1> QED BY <1>6, <1>8 DEF n, AfterLine

LEMMA RequestLines ==
  ASSUME TypeOK, NEW fd \in Live(clients), NEW b \in Seq(Symbol), NEW line \in Seq(Symbol),
         parseStates[fd].stage # "none",
         parseRequestLine(fd, parseStates[fd], line, [clients EXCEPT ![fd].recvBuf = b])
  PROVE  Works(fd) \/ Leaves(fd)
<1> DEFINE ps == parseStates[fd]
           taken == [clients EXCEPT ![fd].recvBuf = b]
           request == [ps.request EXCEPT !.method = line[1], !.version = line[3]]
           next == ParseState("Headers", request, ps.bodyRemaining)
<1>1. ps \in State
  BY LiveTypes
<1>2. CASE Continue(fd, ps, taken)
  BY <1>1, <1>2, Continues
<1>3. CASE onHttpError(fd, taken)
  BY <1>3, Fails
<1>4. CASE ~ Len(line) < 3 /\ Continue(fd, next, taken)
  <2>1. line[1] \in Symbol /\ line[3] \in Symbol
    BY <1>4
  <2>2. request \in Request
    BY <1>1, <2>1 DEF State, Request
  <2> HIDE DEF request
  <2>3. next \in State /\ next.stage # "none"
    BY <1>1, <2>2 DEF State, ParseState
  <2> HIDE DEF next
  <2> QED BY <1>4, <2>3, Continues
<1> HIDE DEF taken, next, ps
<1> QED BY <1>2, <1>3, <1>4 DEF parseRequestLine, ps, taken, next

LEMMA WithHeaderType ==
  ASSUME NEW request \in Request, NEW h
  PROVE  WithHeader(request, h) \in Request
<1>1. CASE h \in DOMAIN ConnectionHeader
  <2>1. WithHeader(request, h) = [request EXCEPT !.connection = ConnectionHeader[h]]
    BY <1>1 DEF WithHeader, ConnectionHeader, LengthHeader
  <2>2. ConnectionHeader[h] \in {"close", "keep-alive"}
    BY <1>1 DEF ConnectionHeader
  <2> QED BY <2>1, <2>2 DEF Request
<1>2. CASE h \in DOMAIN LengthHeader /\ h \notin DOMAIN ConnectionHeader
  <2>1. WithHeader(request, h) = [request EXCEPT !.length = LengthHeader[h]]
    BY <1>2 DEF WithHeader
  <2>2. LengthHeader[h] \in Numbers \cup {"junk"}
    BY <1>2 DEF LengthHeader, Numbers
  <2> QED BY <2>1, <2>2 DEF Request
<1>3. CASE h \notin DOMAIN ConnectionHeader /\ h \notin DOMAIN LengthHeader
  BY <1>3 DEF WithHeader
<1> QED BY <1>1, <1>2, <1>3

LEMMA HeaderLines ==
  ASSUME TypeOK, NEW fd \in Live(clients), NEW b \in Seq(Symbol), NEW line \in Seq(Symbol),
         parseStates[fd].stage # "none",
         parseHeaderLine(fd, parseStates[fd], line, [clients EXCEPT ![fd].recvBuf = b])
  PROVE  Works(fd) \/ Leaves(fd)
<1> DEFINE ps == parseStates[fd]
           taken == [clients EXCEPT ![fd].recvBuf = b]
           length == ps.request.length
           body == IF length = "" THEN ps.bodyRemaining ELSE stoul(length)
           with == [ps EXCEPT !.request = WithHeader(ps.request, line[1])]
           bodied == ParseState("Body", ps.request, body)
<1>1. ps \in State /\ ps.request \in Request /\ ps.stage # "none"
  BY LiveTypes DEF State
<1>2. CASE Continue(fd, with, taken)
  <2>1. with \in State /\ with.stage # "none"
    BY <1>1, WithHeaderType DEF State
  <2> HIDE DEF with
  <2> QED BY <1>2, <2>1, Continues
<1>3. CASE onHttpError(fd, taken)
  BY <1>3, Fails
<1>4. CASE dispatchRequest(fd, ps.request, taken)
  <2> DEFINE r == ps.request
  <2>1. r \in Request /\ dispatchRequest(fd, r, taken)
    BY <1>1, <1>4
  <2> HIDE DEF r
  <2> QED BY <2>1, Dispatches
<1>5. CASE length \in Numbers \cup {""} /\ Continue(fd, bodied, taken)
  <2>1. body \in Nat
    BY <1>1, <1>5 DEF stoul, Numbers, State
  <2> HIDE DEF body
  <2>2. bodied \in State /\ bodied.stage # "none"
    BY <1>1, <2>1 DEF ParseState, State
  <2> HIDE DEF bodied
  <2> QED BY <1>5, <2>2, Continues
<1>6. \/ Continue(fd, with, taken) \/ onHttpError(fd, taken)
      \/ dispatchRequest(fd, ps.request, taken)
      \/ length \in Numbers \cup {""} /\ Continue(fd, bodied, taken)
  <2>1. parseHeaderLine(fd, ps, line, taken)
    OBVIOUS
  <2> HIDE DEF ps, taken
  <2> QED BY <2>1 DEF parseHeaderLine
<1> HIDE DEF taken, ps, with, bodied, length
<1> QED BY <1>2, <1>3, <1>4, <1>5, <1>6

\* One line, or as much of a body as there is: the connection goes on or ends.
LEMMA Parses ==
  ASSUME TypeOK, Matched, NEW fd \in Fd, ParseLine(fd) \/ ConsumeBody(fd)
  PROVE  fd \in Live(clients) /\ (Works(fd) \/ Leaves(fd))
<1> DEFINE ps == parseStates[fd]
           buf == clients[fd].recvBuf
<1>1. fd \in Live(clients) /\ parseStates[fd].stage # "none"
  <2>1. parsing = fd /\ parseStates[fd].stage # "none"
    BY DEF ParseLine, ConsumeBody
  <2>2. fd # NoFd
    BY FdAssumption DEF NoFd
  <2> QED BY <2>1, <2>2 DEF Matched, ParseStatesMatch
<1>2. /\ ps \in State /\ ps.request \in Request /\ ps.bodyRemaining \in Nat
      /\ buf \in Seq(Symbol) /\ Len(buf) \in Nat
  BY <1>1, LiveTypes DEF State, Entry
<1>3. CASE ParseLine(fd)
  <2> DEFINE line == SubSeq(buf, 1, LineEnd(buf) - 1)
             b == AfterLine(buf)
  <2>1. line \in Seq(Symbol) /\ b \in Seq(Symbol)
    BY <1>2, <1>3, LineEnds DEF ParseLine
  <2>2. \/ parseRequestLine(fd, ps, line, [clients EXCEPT ![fd].recvBuf = b])
        \/ parseHeaderLine(fd, ps, line, [clients EXCEPT ![fd].recvBuf = b])
    BY <1>3 DEF ParseLine
  <2> HIDE DEF line, b
  <2> QED BY <1>1, <2>1, <2>2, RequestLines, HeaderLines
<1>4. CASE ConsumeBody(fd)
  <2> DEFINE take == TakenForBody(buf, ps.bodyRemaining)
             remaining == ps.bodyRemaining - take
             request == [ps.request EXCEPT !.body = ps.request.body \o SubSeq(buf, 1, take)]
             b == SubSeq(buf, take + 1, Len(buf))
             next == ParseState("Body", request, remaining)
  <2>1. take \in 0..Len(buf) /\ take <= ps.bodyRemaining
    BY <1>2 DEF TakenForBody, Min2
  <2>2. \/ dispatchRequest(fd, request, [clients EXCEPT ![fd].recvBuf = b])
        \/ Continue(fd, next, [clients EXCEPT ![fd].recvBuf = b])
    <3>1. request = [ps.request EXCEPT !.body = @ \o SubSeq(buf, 1, take)]
      OBVIOUS
    <3> HIDE DEF request
    <3> QED BY <1>4, <3>1 DEF ConsumeBody
  <2> HIDE DEF take
  <2>3. SubSeq(buf, 1, take) \in Seq(Symbol) /\ b \in Seq(Symbol) /\ remaining \in Nat
    BY <1>2, <2>1
  <2>4. ps.request.body \o SubSeq(buf, 1, take) \in Seq(Symbol)
    <3>1. ps.request.body \in Seq(Symbol)
      BY <1>2 DEF Request
    <3> HIDE DEF ps, buf
    <3> QED BY <2>3, <3>1
  <2>5. request \in Request
    BY <1>2, <2>4 DEF Request
  <2> HIDE DEF request, remaining, b
  <2>6. next \in State /\ next.stage # "none"
    BY <2>3, <2>5 DEF State, ParseState
  <2> HIDE DEF next
  <2> QED BY <1>1, <2>2, <2>3, <2>5, <2>6, Continues, Dispatches
<1> QED BY <1>1, <1>3, <1>4

-----------------------------------------------------------------------------
(* Lines and their ends.                                                   *)

\* What is left of a sequence behind a beginning as long as p.
Beyond(s, p) == SubSeq(s, Len(p) + 1, Len(s))

\* The longer of two beginnings of a sequence.
LEMMA LongerFront ==
  ASSUME NEW S, NEW s \in Seq(S), NEW q \in Seq(S), NEW p \in Seq(S), NEW t \in Seq(S),
         s \o q = p \o t, Len(p) <= Len(s)
  PROVE  /\ SubSeq(s, 1, Len(p)) = p
         /\ Beyond(s, p) \in Seq(S)
         /\ Beyond(s, p) \o q = t
<1> DEFINE n == Len(p)
           a == SubSeq(s, 1, n)
           b == SubSeq(s, n + 1, Len(s))
<1>1. n \in Nat /\ Len(s) \in Nat
  OBVIOUS
<1>2. \A i \in 1..n : s[i] = p[i]
  <2>1. ASSUME NEW i \in 1..n PROVE s[i] = p[i]
    <3>1. (s \o q)[i] = s[i]
      BY <1>1
    <3>2. (p \o t)[i] = p[i]
      BY <1>1
    <3> QED BY <3>1, <3>2
  <2> QED BY <2>1
<1>3. a = p
  <2>1. a \in Seq(S) /\ Len(a) = n /\ \A i \in 1..n : a[i] = s[i]
    BY <1>1
  <2> HIDE DEF a
  <2> QED BY <1>2, <2>1, SeqEqual
<1>4. b \in Seq(S) /\ s = a \o b
  <2>1. b \in Seq(S)
    BY <1>1
  <2>2. a \o b = SubSeq(s, 1, Len(s))
    <3>1. 1 \in 1..(Len(s) + 1) /\ n \in (1 - 1)..Len(s) /\ Len(s) \in n..Len(s)
      BY <1>1
    <3> HIDE DEF n
    <3> QED BY <3>1, ConcatAdjacentSubSeq
  <2>3. SubSeq(s, 1, Len(s)) = s
    BY SubSeqFull
  <2> QED BY <2>1, <2>2, <2>3
<1> HIDE DEF a, b, n
<1>5. p \o (b \o q) = p \o t
  <2>1. Associates(p, b, q)
    BY <1>4, Associate
  <2> QED BY <1>3, <1>4, <2>1 DEF Associates
<1>6. b \o q = t
  <2>1. b \o q \in Seq(S)
    BY <1>4
  <2> QED BY <1>5, <2>1, ConcatSimplifications
<1> QED BY <1>3, <1>4, <1>6 DEF a, b, n, Beyond

LEMMA LongerFronts ==
  \A s, q, p, t \in Seq(Symbol) :
    s \o q = p \o t /\ Len(p) <= Len(s) =>
      /\ SubSeq(s, 1, Len(p)) = p
      /\ Beyond(s, p) \in Seq(Symbol)
      /\ Beyond(s, p) \o q = t
BY LongerFront, ZenonT(40)

\* A buffer with a line end, when what is to come begins with a line.
LEMMA FirstLine ==
  ASSUME NEW buf \in Seq(Symbol), NEW u \in Seq(Symbol), NEW t \in Seq(Symbol),
         NEW line \in Seq(Symbol), \A i \in 1..Len(line) : line[i] # "nl",
         buf \o u = (line \o <<"nl">>) \o t, HasLine(buf)
  PROVE  /\ SubSeq(buf, 1, LineEnd(buf) - 1) = line
         /\ AfterLine(buf) \in Seq(Symbol)
         /\ AfterLine(buf) \o u = t
         /\ Len(line) + 1 <= Len(buf)
<1> DEFINE n == Len(line) + 1
<1>0. PICK p : p = line \o <<"nl">>
  OBVIOUS
<1>1. /\ p \in Seq(Symbol) /\ Len(p) = n /\ n \in Nat /\ 1 <= n /\ Len(buf) \in Nat
      /\ p[n] = "nl" /\ \A i \in 1..(n - 1) : p[i] = line[i] /\ p[i] # "nl"
  <2>1. <<"nl">> \in Seq(Symbol) /\ Len(<<"nl">>) = 1
    BY DEF Symbol
  <2>2. Len(line) \in Nat
    OBVIOUS
  <2>3. p \in Seq(Symbol) /\ Len(p) = n
    BY <1>0, <2>1, <2>2
  <2>4. p[n] = "nl"
    BY <1>0, <2>1, <2>2
  <2>5. \A i \in 1..(n - 1) : p[i] = line[i] /\ p[i] # "nl"
    BY <1>0, <2>1, <2>2
  <2> QED BY <2>2, <2>3, <2>4, <2>5
<1>2. \A i \in 1..Len(buf) : (buf \o u)[i] = buf[i]
  OBVIOUS
<1> HIDE DEF n
<1>3. \A i \in 1..n : (p \o t)[i] = p[i]
  BY <1>1
<1>4. buf \o u = p \o t
  BY <1>0
<1>5. n <= Len(buf)
  <2> SUFFICES ASSUME Len(buf) < n PROVE FALSE
    BY <1>1
  <2>1. \A i \in 1..Len(buf) : buf[i] # "nl"
    BY <1>1, <1>2, <1>3, <1>4
  <2> QED BY <2>1 DEF HasLine
<1>6. buf[n] = "nl" /\ \A j \in 1..(n - 1) : buf[j] # "nl"
  <2>1. n \in 1..n /\ n \in 1..Len(buf)
    BY <1>1, <1>5 DEF n
  <2>2. buf[n] = p[n]
    BY <1>2, <1>3, <1>4, <2>1
  <2>3. ASSUME NEW j \in 1..(n - 1) PROVE buf[j] = p[j]
    <3>1. j \in 1..n /\ j \in 1..Len(buf)
      BY <1>1, <1>5
    <3> QED BY <1>2, <1>3, <1>4, <3>1
  <2> QED BY <1>1, <2>2, <2>3
<1>7. LineEnd(buf) = n
  <2>1. n \in DOMAIN buf
    BY <1>1, <1>5 DEF n
  <2>2. \A i \in DOMAIN buf :
          (buf[i] = "nl" /\ \A j \in 1..(i - 1) : buf[j] # "nl") => i = n
    BY <1>1, <1>6
  <2> QED BY <1>6, <2>1, <2>2 DEF LineEnd
<1>8. Beyond(buf, p) \in Seq(Symbol) /\ Beyond(buf, p) \o u = t
  <2>1. p \in Seq(Symbol) /\ Len(p) <= Len(buf)
    BY <1>1, <1>5
  <2> QED BY <1>4, <2>1, LongerFronts
<1>9. SubSeq(buf, 1, n - 1) = line
  <2>1. buf \o u = line \o (<<"nl">> \o t)
    <3>1. <<"nl">> \in Seq(Symbol)
      BY DEF Symbol
    <3> QED BY <3>1, ConcatAssociative
  <2>2. <<"nl">> \o t \in Seq(Symbol)
    BY DEF Symbol
  <2>3. Len(line) <= Len(buf)
    BY <1>1, <1>5 DEF n
  <2>4. SubSeq(buf, 1, Len(line)) = line
    <3> DEFINE v == <<"nl">> \o t
    <3>1. v \in Seq(Symbol) /\ buf \o u = line \o v
      BY <2>1, <2>2
    <3> HIDE DEF v
    <3> QED BY <2>3, <3>1, LongerFront
  <2> QED BY <2>4 DEF n
<1>10. AfterLine(buf) = Beyond(buf, p)
  BY <1>1, <1>7 DEF AfterLine, Beyond
<1> QED BY <1>5, <1>7, <1>8, <1>9, <1>10 DEF n

-----------------------------------------------------------------------------
(* What a message is written as.                                           *)

\* From the header of the length on, from the headers on, from the request line on.
FromLength(m) == Header(LengthHeader, m.length) \o (<<"nl">> \o m.body)

FromHeaders(m) ==
  IF m.kind = "badHeader" THEN <<"word", "nl">>
  ELSE Header(ConnectionHeader, m.connection) \o FromLength(m)

RequestLine(m) == <<m.method, "word", m.version>>

FromLine(m) ==
  IF m.kind = "badLine" THEN <<"word", "nl">> ELSE (RequestLine(m) \o <<"nl">>) \o FromHeaders(m)

LEMMA TwoSymbols ==
  ASSUME NEW x, NEW y
  PROVE  <<x, y>> = <<x>> \o <<y>>
<1> DEFINE s == <<x>>
           S == {x, y}
<1>1. s \in Seq(S)
  OBVIOUS
<1>2. y \in S
  OBVIOUS
<1>3. Append(s, y) = <<x, y>>
  <2> DEFINE p == Append(s, y)
             q == <<x, y>>
  <2>1. p \in Seq(S) /\ Len(p) = 2 /\ p[1] = x /\ p[2] = y
    BY <1>1, <1>2
  <2>2. q \in Seq(S) /\ Len(q) = 2 /\ q[1] = x /\ q[2] = y
    OBVIOUS
  <2>3. \A i \in 1..2 : i = 1 \/ i = 2
    OBVIOUS
  <2> HIDE DEF p, q
  <2>4. \A i \in 1..Len(p) : p[i] = q[i]
    BY <2>1, <2>2, <2>3
  <2>5. p = q
    BY <2>1, <2>2, <2>4, SeqEqual
  <2> QED BY <2>5 DEF p, q
<1> HIDE DEF s, S
<1>4. Append(s, y) = s \o <<y>>
  BY <1>1, <1>2, AppendIsConcat
<1> QED BY <1>3, <1>4 DEF s

\* A header is a line of one symbol, whose value it has.
LEMMA HeaderIsLine ==
  ASSUME NEW table, NEW value, value # "", \E h \in DOMAIN table : table[h] = value
  PROVE  \E h \in DOMAIN table :
           table[h] = value /\ Header(table, value) = <<h>> \o <<"nl">>
<1>1. PICK h : h = CHOOSE g \in DOMAIN table : table[g] = value
  OBVIOUS
<1>2. h \in DOMAIN table /\ table[h] = value
  BY <1>1
<1>3. Header(table, value) = <<h, "nl">>
  BY <1>1 DEF Header
<1>4. <<h, "nl">> = <<h>> \o <<"nl">>
  BY TwoSymbols
<1> QED BY <1>2, <1>3, <1>4

LEMMA ConnectionLine ==
  ASSUME NEW m \in Message
  PROVE  /\ m.connection = "" => Header(ConnectionHeader, m.connection) = <<>>
         /\ m.connection # "" => \E h \in DOMAIN ConnectionHeader :
              /\ ConnectionHeader[h] = m.connection
              /\ Header(ConnectionHeader, m.connection) = <<h>> \o <<"nl">>
<1>1. m.connection \in {"", "close", "keep-alive"}
  BY DEF Message
<1>2. \A v \in {"close", "keep-alive"} : \E h \in DOMAIN ConnectionHeader : ConnectionHeader[h] = v
  BY DEF ConnectionHeader
<1>3. ASSUME m.connection # ""
      PROVE  \E h \in DOMAIN ConnectionHeader :
               /\ ConnectionHeader[h] = m.connection
               /\ Header(ConnectionHeader, m.connection) = <<h>> \o <<"nl">>
  <2>1. \E h \in DOMAIN ConnectionHeader : ConnectionHeader[h] = m.connection
    BY <1>1, <1>2, <1>3
  <2> QED BY <1>3, <2>1, HeaderIsLine
<1> QED BY <1>3 DEF Header

LEMMA LengthLine ==
  ASSUME NEW m \in Message
  PROVE  /\ m.length = "" => Header(LengthHeader, m.length) = <<>>
         /\ m.length # "" => \E h \in DOMAIN LengthHeader :
              /\ LengthHeader[h] = m.length
              /\ Header(LengthHeader, m.length) = <<h>> \o <<"nl">>
<1>1. m.length \in {"", "junk", "0", "1", "2"}
  BY DEF Message, Numbers
<1>2. \A v \in {"junk", "0", "1", "2"} : \E h \in DOMAIN LengthHeader : LengthHeader[h] = v
  BY DEF LengthHeader
<1>3. ASSUME m.length # ""
      PROVE  \E h \in DOMAIN LengthHeader :
               /\ LengthHeader[h] = m.length
               /\ Header(LengthHeader, m.length) = <<h>> \o <<"nl">>
  <2>1. \E h \in DOMAIN LengthHeader : LengthHeader[h] = m.length
    BY <1>1, <1>2, <1>3
  <2> QED BY <1>3, <2>1, HeaderIsLine
<1> QED BY <1>3 DEF Header

LEMMA Symbols ==
  /\ <<>> \in Seq(Symbol) /\ <<"nl">> \in Seq(Symbol) /\ <<"word">> \in Seq(Symbol)
  /\ <<"word", "nl">> \in Seq(Symbol) /\ <<"word", "nl">> = <<"word">> \o <<"nl">>
  /\ \A h \in DOMAIN ConnectionHeader \cup DOMAIN LengthHeader :
       <<h>> \in Seq(Symbol) /\ <<h>> \o <<"nl">> \in Seq(Symbol)
<1>1. \A x \in Symbol : <<x>> \in Seq(Symbol)
  OBVIOUS
<1>2. "nl" \in Symbol /\ "word" \in Symbol
  BY DEF Symbol, Word
<1>3. \A h \in DOMAIN ConnectionHeader \cup DOMAIN LengthHeader : h \in Symbol
  BY DEF Symbol
<1>4. <<"word", "nl">> = <<"word">> \o <<"nl">>
  OBVIOUS
<1>5. \A s, t \in Seq(Symbol) : s \o t \in Seq(Symbol)
  OBVIOUS
<1>6. <<>> \in Seq(Symbol)
  OBVIOUS
<1> QED BY <1>1, <1>2, <1>3, <1>4, <1>5, <1>6

LEMMA FromTypes ==
  ASSUME NEW m \in Message
  PROVE  /\ m.body \in Seq(Symbol) /\ <<"nl">> \o m.body \in Seq(Symbol)
         /\ Header(LengthHeader, m.length) \in Seq(Symbol)
         /\ Header(ConnectionHeader, m.connection) \in Seq(Symbol)
         /\ FromLength(m) \in Seq(Symbol) /\ FromHeaders(m) \in Seq(Symbol)
         /\ m.kind # "badLine" => RequestLine(m) \in Seq(Symbol)
                                  /\ RequestLine(m) \o <<"nl">> \in Seq(Symbol)
         /\ FromLine(m) \in Seq(Symbol)
<1>1. \A s, t \in Seq(Symbol) : s \o t \in Seq(Symbol)
  OBVIOUS
<1>2. m.body \in Seq(Symbol) /\ (m.kind # "badLine" => m.method \in Word /\ m.version \in Word)
  BY DEF Message
<1>3. /\ Header(LengthHeader, m.length) \in Seq(Symbol)
      /\ Header(ConnectionHeader, m.connection) \in Seq(Symbol)
  BY ConnectionLine, LengthLine, Symbols
<1>4. <<"nl">> \o m.body \in Seq(Symbol)
  BY <1>1, <1>2, Symbols
<1>5. FromLength(m) \in Seq(Symbol)
  BY <1>1, <1>3, <1>4 DEF FromLength
<1>6. FromHeaders(m) \in Seq(Symbol)
  BY <1>1, <1>3, <1>5, Symbols DEF FromHeaders
<1>7. ASSUME m.kind # "badLine" PROVE RequestLine(m) \in Seq(Symbol)
  <2>1. m.method \in Symbol /\ m.version \in Symbol /\ "word" \in Symbol
    BY <1>2, <1>7 DEF Symbol, Word
  <2> QED BY <2>1 DEF RequestLine
<1>8. FromLine(m) \in Seq(Symbol)
  BY <1>1, <1>6, <1>7, Symbols DEF FromLine
<1> QED BY <1>1, <1>2, <1>3, <1>4, <1>5, <1>6, <1>7, <1>8, Symbols

\* Concatenation as an operator of its own: the provers lose their way in a proof
\* about many sequences when they know what it does to each of them.
Joined(s, t) == s \o t

LEMMA JoinedInRow ==
  ASSUME NEW S
  PROVE  /\ \A s, t \in Seq(S) : Joined(s, t) \in Seq(S)
         /\ \A s, t, u \in Seq(S) : Joined(Joined(s, t), u) = Joined(s, Joined(t, u))
<1>1. \A s, t \in Seq(S) : Joined(s, t) \in Seq(S)
  BY DEF Joined
<1>2. ASSUME NEW s \in Seq(S), NEW t \in Seq(S), NEW u \in Seq(S)
      PROVE  Joined(Joined(s, t), u) = Joined(s, Joined(t, u))
  BY ConcatAssociative DEF Joined
<1> QED BY <1>1, <1>2

LEMMA SixInRow ==
  ASSUME NEW S, NEW a \in Seq(S), NEW b \in Seq(S), NEW c \in Seq(S), NEW d \in Seq(S),
         NEW e \in Seq(S), NEW f \in Seq(S)
  PROVE  Joined(Joined(Joined(Joined(Joined(a, b), c), d), e), f)
           = Joined(a, Joined(b, Joined(c, Joined(d, Joined(e, f)))))
<1> DEFINE ab == Joined(a, b)
           abc == Joined(ab, c)
           abcd == Joined(abc, d)
           ef == Joined(e, f)
           gef == Joined(d, ef)
           cgef == Joined(c, gef)
<1>1. \A s, t \in Seq(S) : Joined(s, t) \in Seq(S)
  BY JoinedInRow
<1>2. \A s, t, u \in Seq(S) : Joined(Joined(s, t), u) = Joined(s, Joined(t, u))
  BY JoinedInRow
<1>3. /\ ab \in Seq(S) /\ abc \in Seq(S) /\ abcd \in Seq(S)
      /\ ef \in Seq(S) /\ gef \in Seq(S) /\ cgef \in Seq(S)
  BY <1>1
<1>4. Joined(Joined(abcd, e), f) = Joined(abcd, ef)
  BY <1>2, <1>3
<1>5. Joined(abcd, ef) = Joined(abc, gef)
  BY <1>2, <1>3
<1>6. Joined(abc, gef) = Joined(ab, cgef)
  BY <1>2, <1>3
<1>7. Joined(ab, cgef) = Joined(a, Joined(b, cgef))
  BY <1>2, <1>3
<1> QED BY <1>4, <1>5, <1>6, <1>7

\* What Serialize makes of a message, from the left.
LEMMA Serialized ==
  ASSUME NEW m \in Message
  PROVE  Serialize(m) = IF m.kind = "afterBlank" THEN <<"nl">> \o FromLine(m) ELSE FromLine(m)
<1> DEFINE line == <<m.method, "word", m.version, "nl">>
           c == Header(ConnectionHeader, m.connection)
           l == Header(LengthHeader, m.length)
<1>1. line = RequestLine(m) \o <<"nl">>
  BY DEF RequestLine
<1>2. CASE m.kind = "badLine"
  BY <1>2 DEF Serialize, FromLine
<1>3. CASE m.kind = "badHeader"
  <2>1. Serialize(m) = <<m.method, "word", m.version, "nl", "word", "nl">>
    BY <1>3 DEF Serialize
  <2>2. <<m.method, "word", m.version, "nl", "word", "nl">> = line \o <<"word", "nl">>
    OBVIOUS
  <2> HIDE DEF line
  <2> QED BY <1>1, <1>3, <2>1, <2>2 DEF FromLine, FromHeaders
<1>4. CASE m.kind \in {"request", "afterBlank"}
  <2> DEFINE blank == IF m.kind = "afterBlank" THEN <<"nl">> ELSE <<>>
  <2>1. Serialize(m) = blank \o line \o c \o l \o <<"nl">> \o m.body
    BY <1>4 DEF Serialize
  <2>2. /\ line \in Seq(Symbol) /\ c \in Seq(Symbol) /\ l \in Seq(Symbol)
        /\ <<"nl">> \in Seq(Symbol) /\ m.body \in Seq(Symbol) /\ blank \in Seq(Symbol)
    BY <1>1, <1>4, FromTypes, Symbols
  <2>3. FromLine(m) = line \o (c \o (l \o (<<"nl">> \o m.body)))
    BY <1>1, <1>4 DEF FromLine, FromHeaders, FromLength
  <2> HIDE DEF line, c, l, blank
  <2>5. Serialize(m) = blank \o (line \o (c \o (l \o (<<"nl">> \o m.body))))
    <3> DEFINE n == <<"nl">>
               b == m.body
    <3>1. n \in Seq(Symbol) /\ b \in Seq(Symbol)
      BY <2>2
    <3>2. Serialize(m) = Joined(Joined(Joined(Joined(Joined(blank, line), c), l), n), b)
      BY <2>1 DEF Joined
    <3> HIDE DEF n, b
    <3>3. Serialize(m) = Joined(blank, Joined(line, Joined(c, Joined(l, Joined(n, b)))))
      BY <2>2, <3>1, <3>2, SixInRow
    <3> QED BY <3>3 DEF Joined, n, b
  <2>6. \A s \in Seq(Symbol) : <<>> \o s = s
    OBVIOUS
  <2>7. FromLine(m) \in Seq(Symbol)
    BY FromTypes
  <2> QED BY <1>4, <2>3, <2>5, <2>6, <2>7 DEF blank
<1>5. m.kind \in {"request", "afterBlank", "badLine", "badHeader"}
  BY DEF Message
<1> QED BY <1>2, <1>3, <1>4, <1>5

LEMMA SerializeType ==
  ASSUME NEW m \in Message
  PROVE  Serialize(m) \in Seq(Symbol) /\ Len(FromLine(m)) <= Len(Serialize(m))
<1>1. FromLine(m) \in Seq(Symbol) /\ <<"nl">> \in Seq(Symbol)
  BY FromTypes, Symbols
<1>2. /\ <<"nl">> \o FromLine(m) \in Seq(Symbol)
      /\ Len(FromLine(m)) <= Len(<<"nl">> \o FromLine(m))
  BY <1>1
<1>3. Len(FromLine(m)) <= Len(FromLine(m))
  BY <1>1
<1> QED BY <1>1, <1>2, <1>3, Serialized

-----------------------------------------------------------------------------
(* The stream of a script.                                                 *)

\* What the messages after the first k are written as, and where that begins.
Later(script, k) == Stream(SubSeq(script, k + 1, Len(script)))

Offset(script, k) == Len(Stream(SubSeq(script, 1, k)))

Texts(script) == [i \in 1..Len(script) |-> Serialize(script[i])]

LEMMA TextsType ==
  ASSUME NEW s \in Seq(Message)
  PROVE  /\ Texts(s) \in Seq(Seq(Symbol)) /\ Len(Texts(s)) = Len(s)
         /\ \A i \in 1..Len(s) : Texts(s)[i] = Serialize(s[i])
         /\ Stream(s) \in Seq(Symbol)
<1>1. \A i \in 1..Len(s) : Serialize(s[i]) \in Seq(Symbol)
  BY SerializeType
<1>2. /\ Texts(s) \in Seq(Seq(Symbol)) /\ Len(Texts(s)) = Len(s)
      /\ \A i \in 1..Len(s) : Texts(s)[i] = Serialize(s[i])
  BY <1>1 DEF Texts
<1>3. Stream(s) = FlattenSeq(Texts(s))
  BY DEF Stream, Texts
<1> QED BY <1>2, <1>3, FlattenType

LEMMA StreamOfBoth ==
  ASSUME NEW s \in Seq(Message), NEW t \in Seq(Message)
  PROVE  Stream(s \o t) = Stream(s) \o Stream(t)
<1> DEFINE st == s \o t
           u == Texts(s) \o Texts(t)
<1>1. /\ st \in Seq(Message) /\ Len(s) \in Nat /\ Len(t) \in Nat /\ Len(st) = Len(s) + Len(t)
      /\ \A i \in 1..(Len(s) + Len(t)) : st[i] = IF i <= Len(s) THEN s[i] ELSE t[i - Len(s)]
  BY ConcatProperties
<1>2. /\ Texts(s) \in Seq(Seq(Symbol)) /\ Texts(t) \in Seq(Seq(Symbol))
      /\ Len(Texts(s)) = Len(s) /\ Len(Texts(t)) = Len(t)
  BY TextsType
<1>3. /\ u \in Seq(Seq(Symbol)) /\ Len(u) = Len(s) + Len(t)
      /\ \A i \in 1..(Len(s) + Len(t)) :
           u[i] = IF i <= Len(s) THEN Texts(s)[i] ELSE Texts(t)[i - Len(s)]
  <2>1. \A p, q \in Seq(Seq(Symbol)) :
          /\ p \o q \in Seq(Seq(Symbol)) /\ Len(p \o q) = Len(p) + Len(q)
          /\ \A i \in 1..(Len(p) + Len(q)) :
               (p \o q)[i] = IF i <= Len(p) THEN p[i] ELSE q[i - Len(p)]
    BY ConcatProperties
  <2>2. /\ u \in Seq(Seq(Symbol)) /\ Len(u) = Len(Texts(s)) + Len(Texts(t))
        /\ \A i \in 1..(Len(Texts(s)) + Len(Texts(t))) :
             u[i] = IF i <= Len(Texts(s)) THEN Texts(s)[i] ELSE Texts(t)[i - Len(Texts(s))]
    BY <1>2, <2>1, Zenon
  <2> QED BY <1>2, <2>2
<1> HIDE DEF st, u
<1>4. /\ Texts(st) \in Seq(Seq(Symbol)) /\ Len(Texts(st)) = Len(st)
      /\ \A i \in 1..Len(st) : Texts(st)[i] = Serialize(st[i])
  BY <1>1, TextsType
<1>5. ASSUME NEW i \in 1..Len(u) PROVE u[i] = Texts(st)[i]
  <2>1. i \in 1..Len(st) /\ (i <= Len(s) => i \in 1..Len(s))
        /\ (~ i <= Len(s) => i - Len(s) \in 1..Len(t))
    BY <1>1, <1>3
  <2>2. Texts(st)[i] = Serialize(st[i])
    BY <1>4, <2>1
  <2> QED BY <1>1, <1>3, <2>1, <2>2, TextsType
<1>6. u = Texts(st)
  BY <1>1, <1>3, <1>4, <1>5, SeqEqual
<1>7. FlattenSeq(u) = FlattenSeq(Texts(s)) \o FlattenSeq(Texts(t))
  BY <1>2, FlattenBoth DEF u
<1> QED BY <1>6, <1>7 DEF Stream, Texts, st

LEMMA StreamOfOne ==
  /\ Stream(<<>>) = <<>>
  /\ \A m \in Message : Stream(<<m>>) = Serialize(m)
<1>1. Stream(<<>>) = <<>>
  <2>1. [i \in 1..Len(<<>>) |-> Serialize(<<>>[i])] = <<>>
    OBVIOUS
  <2> QED BY <2>1, FlattenFew DEF Stream
<1>2. ASSUME NEW m \in Message PROVE Stream(<<m>>) = Serialize(m)
  <2> DEFINE s == <<m>>
  <2>1. s \in Seq(Message) /\ Len(s) = 1 /\ s[1] = m
    OBVIOUS
  <2> HIDE DEF s
  <2>2. Texts(s) \in Seq(Seq(Symbol)) /\ Len(Texts(s)) = 1 /\ Texts(s)[1] = Serialize(m)
    BY <2>1, TextsType
  <2>3. FlattenSeq(Texts(s)) = Serialize(m)
    BY <2>2, FlattenOne
  <2> QED BY <2>3 DEF Stream, Texts, s
<1> QED BY <1>1, <1>2

LEMMA LaterType ==
  ASSUME NEW script \in Seq(Message), NEW k \in 0..Len(script)
  PROVE  /\ Stream(script) \in Seq(Symbol) /\ Later(script, k) \in Seq(Symbol)
         /\ Offset(script, k) \in Nat
         /\ Stream(SubSeq(script, 1, k)) \in Seq(Symbol)
<1>1. SubSeq(script, k + 1, Len(script)) \in Seq(Message) /\ SubSeq(script, 1, k) \in Seq(Message)
  OBVIOUS
<1>2. Stream(SubSeq(script, 1, k)) \in Seq(Symbol)
  BY <1>1, TextsType
<1>3. Stream(script) \in Seq(Symbol) /\ Later(script, k) \in Seq(Symbol)
  BY <1>1, TextsType DEF Later
<1> QED BY <1>2, <1>3 DEF Offset

\* All of it; nothing; and the next message with what comes after it.
LEMMA LaterParts ==
  ASSUME NEW script \in Seq(Message)
  PROVE  /\ Later(script, 0) = Stream(script)
         /\ Later(script, Len(script)) = <<>>
         /\ \A k \in 0..Len(script) : k # Len(script) =>
              /\ script[k + 1] \in Message
              /\ Later(script, k) = Serialize(script[k + 1]) \o Later(script, k + 1)
<1>0. Len(script) \in Nat
  OBVIOUS
<1>1. Later(script, 0) = Stream(script)
  <2>1. SubSeq(script, 0 + 1, Len(script)) = script
    BY SubSeqFull
  <2> QED BY <2>1 DEF Later
<1>2. Later(script, Len(script)) = <<>>
  <2>1. SubSeq(script, Len(script) + 1, Len(script)) = <<>>
    BY <1>0, SubSeqEmpty
  <2> QED BY <2>1, StreamOfOne DEF Later
<1>3. ASSUME NEW k \in 0..Len(script), k # Len(script)
      PROVE  /\ script[k + 1] \in Message
             /\ Later(script, k) = Serialize(script[k + 1]) \o Later(script, k + 1)
  <2> DEFINE m == script[k + 1]
             one == <<m>>
             rest == SubSeq(script, k + 2, Len(script))
  <2>1. k + 1 \in 1..Len(script) /\ Len(script) \in k + 1..Len(script) /\ k + 1 + 1 = k + 2
    BY <1>0, <1>3
  <2>2. m \in Message
    BY <2>1
  <2>3. one \in Seq(Message) /\ rest \in Seq(Message)
    BY <2>1, <2>2
  <2>4. SubSeq(script, k + 1, Len(script)) = one \o SubSeq(script, k + 1 + 1, Len(script))
    BY <2>1, SubSeqRecursiveFirst
  <2>5. SubSeq(script, k + 1, Len(script)) = one \o rest
    BY <2>1, <2>4
  <2>6. Stream(one) = Serialize(m)
    BY <2>2, StreamOfOne
  <2>7. Later(script, k + 1) = Stream(rest)
    BY <2>1 DEF Later
  <2> HIDE DEF one, rest, m
  <2>8. Stream(one \o rest) = Stream(one) \o Stream(rest)
    BY <2>3, StreamOfBoth
  <2>9. Later(script, k) = Serialize(m) \o Later(script, k + 1)
    BY <2>5, <2>6, <2>7, <2>8 DEF Later
  <2> QED BY <2>2, <2>9 DEF m
<1> QED BY <1>1, <1>2, <1>3

\* Where the parts begin.
LEMMA Offsets ==
  ASSUME NEW script \in Seq(Message), NEW k \in 0..Len(script)
  PROVE  /\ Offset(script, k) + Len(Later(script, k)) = Len(Stream(script))
         /\ \A i \in 0..k : Offset(script, i) <= Offset(script, k)
<1>1. Offset(script, k) + Len(Later(script, k)) = Len(Stream(script))
  <2> DEFINE a == SubSeq(script, 1, k)
             b == SubSeq(script, k + 1, Len(script))
  <2>1. a \in Seq(Message) /\ b \in Seq(Message)
    OBVIOUS
  <2>2. a \o b = script
    <3>1. 1 \in 1..Len(script) + 1 /\ k \in (1 - 1)..Len(script) /\ Len(script) \in k..Len(script)
      OBVIOUS
    <3>2. a \o b = SubSeq(script, 1, Len(script))
      BY <3>1, ConcatAdjacentSubSeq
    <3> QED BY <3>2, SubSeqFull
  <2> HIDE DEF a, b
  <2>3. Stream(script) = Stream(a) \o Stream(b)
    BY <2>1, <2>2, StreamOfBoth
  <2>4. Stream(a) \in Seq(Symbol) /\ Stream(b) \in Seq(Symbol)
    BY <2>1, TextsType
  <2>5. Len(Stream(script)) = Len(Stream(a)) + Len(Stream(b))
    BY <2>3, <2>4
  <2> QED BY <2>5 DEF Later, Offset, a, b
<1>2. ASSUME NEW i \in 0..k PROVE Offset(script, i) <= Offset(script, k)
  <2> DEFINE a == SubSeq(script, 1, i)
             b == SubSeq(script, i + 1, k)
  <2>1. a \in Seq(Message) /\ b \in Seq(Message)
    OBVIOUS
  <2>2. a \o b = SubSeq(script, 1, k)
    <3>1. 1 \in 1..Len(script) + 1 /\ i \in (1 - 1)..Len(script) /\ k \in i..Len(script)
      OBVIOUS
    <3> QED BY <3>1, ConcatAdjacentSubSeq
  <2> HIDE DEF a, b
  <2>3. Stream(SubSeq(script, 1, k)) = Stream(a) \o Stream(b)
    BY <2>1, <2>2, StreamOfBoth
  <2>4. Stream(a) \in Seq(Symbol) /\ Stream(b) \in Seq(Symbol)
    BY <2>1, TextsType
  <2>5. Len(Stream(a)) <= Len(Stream(a) \o Stream(b))
    BY <2>4
  <2> QED BY <2>3, <2>5 DEF Offset, a
<1> QED BY <1>1, <1>2

-----------------------------------------------------------------------------
(* What the other steps do.                                                *)

LEMMA Reads ==
  ASSUME TypeOK, Matched, NEW fd \in Fd, ReadChunk(fd)
  PROVE  fd \in Live(clients) /\ Works(fd)
<1> DEFINE c == ConnOf(fd)
           stream == Stream(net[c].script)
<1>1. fd \in Live(clients) /\ running
  BY DEF ReadChunk, AtLoop
<1>2. /\ fd \in Fd /\ c \in Conn /\ clients[fd] \in Entry /\ net[c] \in End
      /\ parseStates[fd] \in State /\ log[c] \in Seq(Event)
  BY <1>1, LiveTypes
<1>3. stream \in Seq(Symbol) /\ net[c].read \in Nat
  BY <1>2, TextsType, ScriptsAssumption DEF End
<1>4. PICK n \in 1..(Len(stream) - net[c].read) :
        /\ clients' = received(clients, fd, SubSeq(stream, net[c].read + 1, net[c].read + n))
        /\ net' = [net EXCEPT ![c].read = @ + n]
  BY DEF ReadChunk
<1> DEFINE chunk == SubSeq(stream, net[c].read + 1, net[c].read + n)
           b == clients[fd].recvBuf \o chunk
           e == Taken(fd, b)
           end == [net[c] EXCEPT !.read = net[c].read + n]
<1>5. chunk \in Seq(Symbol)
  <2> DEFINE r == net[c].read
  <2>1. stream \in Seq(Symbol) /\ Len(stream) \in Nat /\ r \in Nat /\ n \in 1..(Len(stream) - r)
    BY <1>3, <1>4
  <2> HIDE DEF stream, r
  <2>2. SubSeq(stream, r + 1, r + n) \in Seq(Symbol)
    BY <2>1
  <2> QED BY <2>2 DEF r
<1>6. b \in Seq(Symbol)
  <2>1. clients[fd].recvBuf \in Seq(Symbol)
    BY <1>2 DEF Entry
  <2> HIDE DEF chunk
  <2> QED BY <1>5, <2>1
<1>7. clients' = [clients EXCEPT ![fd] = e]
  BY <1>4 DEF received, Taken
<1>8. /\ e \in Entry /\ e.remoteAddr = c /\ e.sendQueue = clients[fd].sendQueue
      /\ e.pendingClose = clients[fd].pendingClose
  <2> HIDE DEF b
  <2> QED BY <1>1, <1>6, Entries
<1>9. net' = [net EXCEPT ![c] = end] /\ end \in End /\ end.at = net[c].at /\ end.out = net[c].out
  <2>1. net[c].read + n \in Nat
    BY <1>3, <1>4
  <2>2. net' = [net EXCEPT ![c] = end]
    BY <1>4
  <2> QED BY <1>2, <2>1, <2>2 DEF End
<1>10. /\ log' = [log EXCEPT ![c] = log[c] \o <<>>]
       /\ parseStates' = [parseStates EXCEPT ![fd] = parseStates[fd]]
  BY <1>2, LogGrows DEF ReadChunk, TypeOK
<1>11. parseStates[fd].stage # "none"
  BY <1>1 DEF Matched, ParseStatesMatch
<1> HIDE DEF e, end
<1>12. Grows(net[c].out, clients[fd].sendQueue, end.out, e.sendQueue, <<>>)
  BY <1>2, <1>8, <1>9, GrowsWithout DEF End, Entry
<1>13. e.pendingClose => Closing(fd, <<>>)
  BY <1>8 DEF Closing
<1>14. Worked(fd, e, parseStates[fd], end, <<>>)
  BY <1>7, <1>8, <1>9, <1>10, <1>11, <1>12, <1>13 DEF Worked, Sets
<1> QED BY <1>1, <1>2, <1>8, <1>9, <1>14, News DEF Works

LEMMA Goes ==
  ASSUME TypeOK, NEW fd \in Fd, ClientGone(fd)
  PROVE  fd \in Live(clients) /\ Leaves(fd)
<1> DEFINE c == ConnOf(fd)
           end == [net[c] EXCEPT !.at = "closed"]
<1>1. fd \in Live(clients)
  BY DEF ClientGone
<1>2. c \in Conn /\ net[c] \in End /\ log[c] \in Seq(Event)
  BY <1>1, LiveTypes
<1>3. /\ clients' = [clients EXCEPT ![fd] = NoClient]
      /\ net' = [net EXCEPT ![c] = end]
      /\ parseStates' = [parseStates EXCEPT ![fd] = NoParseState]
  BY DEF ClientGone, Disconnect, erase
<1>4. log' = [log EXCEPT ![c] = log[c] \o <<>>]
  BY <1>2, LogGrows DEF ClientGone, TypeOK
<1>5. end \in End /\ end.at = "closed"
  BY <1>2 DEF End
<1> HIDE DEF end
<1>6. Left(fd, end, <<>>)
  BY <1>3, <1>4, <1>5 DEF Left, Sets
<1> QED BY <1>1, <1>5, <1>6, News DEF Leaves

LEMMA Writes ==
  ASSUME TypeOK, Matched, NEW fd \in Fd, HandleWrite(fd)
  PROVE  fd \in Live(clients) /\ (Works(fd) \/ Leaves(fd))
<1> DEFINE c == ConnOf(fd)
           q == clients[fd].sendQueue
<1>1. fd \in Live(clients) /\ running
  BY DEF HandleWrite, AtLoop
<1>2. /\ fd \in Fd /\ c \in Conn /\ clients[fd] \in Entry /\ net[c] \in End
      /\ parseStates[fd] \in State /\ log[c] \in Seq(Event)
  BY <1>1, LiveTypes
<1>3. q \in Seq(Sent) /\ net[c].out \in Seq(Sent)
  BY <1>2 DEF Entry, End
<1>4. PICK n \in 1..Len(q) :
        LET rest == wrote(clients, fd, n)
            ends == [net EXCEPT ![c].out = @ \o SubSeq(q, 1, n)]
        IN  IF rest[fd].pendingClose /\ rest[fd].sendQueue = <<>>
            THEN Disconnect(fd, rest, ends)
            ELSE clients' = rest /\ net' = ends /\ UNCHANGED parseStates
  BY DEF HandleWrite
<1> DEFINE o == net[c].out \o SubSeq(q, 1, n)
           left == SubSeq(q, n + 1, Len(q))
           e == [clients[fd] EXCEPT !.sendQueue = left]
           end == [net[c] EXCEPT !.out = o]
           gone == [net[c] EXCEPT !.out = o, !.at = "closed"]
           rest == wrote(clients, fd, n)
           ends == [net EXCEPT ![c].out = @ \o SubSeq(q, 1, n)]
<1>5. left \in Seq(Sent) /\ SubSeq(q, 1, n) \in Seq(Sent)
  <2> HIDE DEF q
  <2> QED BY <1>3, Cut
<1>6. o \in Seq(Sent)
  <2> DEFINE a == SubSeq(q, 1, n)
             b == net[c].out
  <2>1. a \in Seq(Sent) /\ b \in Seq(Sent)
    BY <1>3, <1>5
  <2> HIDE DEF a, b
  <2>2. b \o a \in Seq(Sent)
    BY <2>1
  <2> QED BY <2>2 DEF a, b
<1>7. Grows(net[c].out, q, o, left, <<>>)
  <2> HIDE DEF q
  <2> QED BY <1>3, GrowsByWrite
<1>8. rest = [clients EXCEPT ![fd] = e] /\ rest[fd] = e
  BY <1>2 DEF wrote, TypeOK
<1>9. ends = [net EXCEPT ![c] = end]
  OBVIOUS
<1> HIDE DEF o, left
<1>10. /\ e \in Entry /\ e.remoteAddr = c /\ e.sendQueue = left
       /\ e.pendingClose = clients[fd].pendingClose
  BY <1>2, <1>5 DEF Entry, ConnOf
<1>11. /\ end \in End /\ end.at = net[c].at /\ end.out = o
       /\ gone \in End /\ gone.at = "closed" /\ gone.out = o
  BY <1>2, <1>6 DEF End
<1>12. log' = [log EXCEPT ![c] = log[c] \o <<>>]
  BY <1>2, LogGrows DEF HandleWrite, TypeOK
<1>13. CASE e.pendingClose /\ e.sendQueue = <<>>
  <2>1. Disconnect(fd, rest, ends)
    <3> HIDE DEF rest, ends, e
    <3> QED BY <1>4, <1>8, <1>13 DEF rest, ends
  <2>2. clients' = [clients EXCEPT ![fd] = NoClient]
    <3> HIDE DEF e
    <3> QED BY <1>8, <2>1 DEF Disconnect, erase, TypeOK
  <2>3. net' = [net EXCEPT ![c] = gone]
    <3>1. net' = [ends EXCEPT ![c].at = "closed"]
      BY <2>1 DEF Disconnect
    <3>2. ends \in [Conn -> End] /\ net \in [Conn -> End]
      BY <1>9, <1>11 DEF TypeOK, End
    <3>3. ends[c] = end /\ \A d \in Conn \ {c} : ends[d] = net[d]
      BY <1>9, <1>2, <3>2
    <3>4. [end EXCEPT !.at = "closed"] = gone
      BY <1>2 DEF End
    <3> HIDE DEF ends, end, gone
    <3> QED BY <1>2, <3>1, <3>2, <3>3, <3>4
  <2>4. parseStates' = [parseStates EXCEPT ![fd] = NoParseState]
    BY <2>1 DEF Disconnect
  <2> HIDE DEF e, end, gone, q
  <2>5. Closing(fd, <<>>)
    BY <1>10, <1>13 DEF Closing
  <2>6. Left(fd, gone, <<>>)
    BY <1>7, <1>10, <1>11, <1>12, <1>13, <2>2, <2>3, <2>4, <2>5 DEF Left, Sets, q
  <2> QED BY <1>1, <1>11, <2>6, News DEF Leaves
<1>14. CASE ~ (e.pendingClose /\ e.sendQueue = <<>>)
  <2>1. clients' = rest /\ net' = ends /\ UNCHANGED parseStates
    <3> HIDE DEF rest, ends, e
    <3> QED BY <1>4, <1>8, <1>14 DEF rest, ends
  <2>2. parseStates' = [parseStates EXCEPT ![fd] = parseStates[fd]]
    BY <2>1 DEF TypeOK
  <2>3. parseStates[fd].stage # "none"
    BY <1>1 DEF Matched, ParseStatesMatch
  <2> HIDE DEF e, end, rest, ends, q
  <2>4. e.pendingClose => Closing(fd, <<>>)
    BY <1>10 DEF Closing
  <2>5. Worked(fd, e, parseStates[fd], end, <<>>)
    BY <1>7, <1>8, <1>9, <1>10, <1>11, <1>12, <2>1, <2>2, <2>3, <2>4 DEF Worked, Sets, q
  <2> QED BY <1>1, <1>2, <1>10, <1>11, <2>5, News DEF Works
<1> QED BY <1>13, <1>14

LEMMA AcceptAdmits ==
  ASSUME TypeOK, NEW c \in Conn, Accept(c)
  PROVE  \E fd \in Fd : Admits(fd, c)
<1> DEFINE free == Fd \ Live(clients)
           fd == Lowest(free)
<1>1. free \in SUBSET Nat /\ free # {}
  BY FdAssumption DEF Accept
<1>2. \E m \in free : \A k \in free : m <= k
  <2> HIDE DEF free
  <2> QED BY <1>1, LeastNumber
<1>3. fd \in free
  BY <1>2 DEF Lowest
<1>4. /\ net[c].at = "new"
      /\ clients' = [clients EXCEPT ![fd] = NewClient(c)]
      /\ parseStates' = [parseStates EXCEPT ![fd] = NewParseState]
      /\ net' = [net EXCEPT ![c].at = "open"]
      /\ log' = log
  BY DEF Accept
<1>5. log' = [log EXCEPT ![c] = log[c]]
  BY <1>4 DEF TypeOK
<1> HIDE DEF fd
<1>6. Admits(fd, c)
  BY <1>3, <1>4, <1>5 DEF Admits, Sets
<1> QED BY <1>3, <1>6

-----------------------------------------------------------------------------
(* Every step is one of these.                                             *)

Effect ==
  /\ running' = running
  /\ parsing' \in Fd \cup {NoFd} /\ (parsing' # NoFd => running)
  /\ \/ \E fd \in Fd, c \in Conn : Admits(fd, c)
     \/ \E fd \in Live(clients) : Works(fd) \/ Leaves(fd)
     \/ UNCHANGED <<clients, parseStates, net, log>>

\* The steps of the loop.
Acts ==
  \/ \E c \in Conn : Accept(c)
  \/ \E fd \in Fd : ReadChunk(fd) \/ ClientGone(fd) \/ HandleWrite(fd) \/ onRawData(fd)

LEMMA Effects == ASSUME TypeOK, Matched, Acts PROVE Effect
<1>1. parsing \in Fd \cup {NoFd} /\ (parsing # NoFd => running)
  BY DEF TypeOK, Matched
<1>2. ASSUME NEW c \in Conn, Accept(c) PROVE Effect
  BY <1>1, <1>2, AcceptAdmits DEF Effect, Accept
<1>3. ASSUME NEW fd \in Fd, ReadChunk(fd) PROVE Effect
  BY <1>1, <1>3, Reads DEF Effect, ReadChunk, AtLoop
<1>4. ASSUME NEW fd \in Fd, ClientGone(fd) PROVE Effect
  <2>1. running' = running /\ parsing' = parsing
    BY <1>4 DEF ClientGone
  <2>2. fd \in Live(clients) /\ Leaves(fd)
    BY <1>4, Goes
  <2> QED BY <1>1, <2>1, <2>2 DEF Effect
<1>5. ASSUME NEW fd \in Fd, HandleWrite(fd) PROVE Effect
  <2>1. running' = running /\ parsing' = parsing
    BY <1>5 DEF HandleWrite
  <2>2. fd \in Live(clients) /\ (Works(fd) \/ Leaves(fd))
    BY <1>5, Writes
  <2> QED BY <1>1, <2>1, <2>2 DEF Effect
<1>6. ASSUME NEW fd \in Fd, ParseLine(fd) \/ ConsumeBody(fd) PROVE Effect
  <2>1. running' = running /\ parsing' \in {parsing, NoFd}
    BY <1>6 DEF ParseLine, ConsumeBody
  <2>2. fd \in Live(clients) /\ (Works(fd) \/ Leaves(fd))
    BY <1>6, Parses
  <2> QED BY <1>1, <2>1, <2>2 DEF Effect
<1>7. ASSUME NEW fd \in Fd, RawDataDone(fd) PROVE Effect
  BY <1>7 DEF RawDataDone, Effect
<1> QED BY <1>2, <1>3, <1>4, <1>5, <1>6, <1>7 DEF Acts, onRawData

LEMMA Stutters == ASSUME TypeOK, Matched, UNCHANGED vars PROVE Effect
BY DEF vars, Effect, TypeOK, Matched

\* The tables after a step, entry by entry.
Changed(fd, entry, state, c, end, events) ==
  /\ clients' \in [Fd -> Entry] /\ parseStates' \in [Fd -> State]
  /\ net' \in [Conn -> End] /\ log' \in [Conn -> Seq(Event)]
  /\ clients'[fd] = entry /\ parseStates'[fd] = state
  /\ \A g \in Fd \ {fd} : clients'[g] = clients[g] /\ parseStates'[g] = parseStates[g]
  /\ net'[c] = end /\ log'[c] = events
  /\ \A d \in Conn \ {c} : net'[d] = net[d] /\ log'[d] = log[d]

LEMMA OneEntry ==
  ASSUME NEW D, NEW R, NEW f \in [D -> R], NEW x \in D, NEW v \in R
  PROVE  LET g == [f EXCEPT ![x] = v]
         IN  g \in [D -> R] /\ g[x] = v /\ \A y \in D \ {x} : g[y] = f[y]
OBVIOUS

\* What the invariant says of the four tables.
Tables ==
  /\ clients \in [Fd -> Entry] /\ parseStates \in [Fd -> State]
  /\ net \in [Conn -> End] /\ log \in [Conn -> Seq(Event)]

LEMMA EntryByEntry ==
  ASSUME Tables, NEW fd \in Fd, NEW c \in Conn, NEW entry \in Entry, NEW state \in State,
         NEW end \in End, NEW events \in Seq(Event), Sets(fd, entry, state, c, end, events)
  PROVE  Changed(fd, entry, state, c, end, events)
<1>1. /\ clients' \in [Fd -> Entry] /\ clients'[fd] = entry
      /\ \A g \in Fd \ {fd} : clients'[g] = clients[g]
  BY OneEntry DEF Sets, Tables
<1>2. /\ parseStates' \in [Fd -> State] /\ parseStates'[fd] = state
      /\ \A g \in Fd \ {fd} : parseStates'[g] = parseStates[g]
  BY OneEntry DEF Sets, Tables
<1>3. net' \in [Conn -> End] /\ net'[c] = end /\ \A d \in Conn \ {c} : net'[d] = net[d]
  BY OneEntry DEF Sets, Tables
<1>4. /\ log' \in [Conn -> Seq(Event)] /\ log'[c] = events
      /\ \A d \in Conn \ {c} : log'[d] = log[d]
  BY OneEntry DEF Sets, Tables
<1> QED BY <1>1, <1>2, <1>3, <1>4 DEF Changed

Sound == Tables /\ Owned /\ ParseStatesMatch /\ Fresh

LEMMA AdmitsKeeps ==
  ASSUME Sound, TypeOK, running' = running, NEW fd \in Fd, NEW c \in Conn, Admits(fd, c)
  PROVE  Sound'
<1> DEFINE end == [net[c] EXCEPT !.at = "open"]
           entry == NewClient(c)
<1>1. /\ fd \in Fd \ Live(clients) /\ net[c].at = "new" /\ c # NoConn
      /\ Sets(fd, entry, NewParseState, c, end, log[c])
  BY ConnAssumption DEF Admits
<1>2. /\ end \in End /\ end.at = "open" /\ end.out = net[c].out /\ log[c] \in Seq(Event)
      /\ entry \in Entry /\ entry.remoteAddr = c /\ entry.sendQueue = <<>>
      /\ NewParseState \in State /\ NewParseState.stage # "none"
  BY Values DEF Sound, Tables, End
<1> HIDE DEF end, entry
<1>3. Changed(fd, entry, NewParseState, c, end, log[c])
  BY <1>1, <1>2, EntryByEntry DEF Sound
<1>4. DOMAIN clients = Fd /\ DOMAIN clients' = Fd
  BY <1>3 DEF Sound, Tables, Changed
<1>5. /\ Live(clients)' = Live(clients) \cup {fd}
      /\ \A g \in Live(clients) : g # fd /\ g \in Fd
  BY <1>1, <1>2, <1>3, <1>4 DEF Live, Changed
<1>6. ConnOf(fd)' = c /\ \A g \in Live(clients) : ConnOf(g)' = ConnOf(g)
  BY <1>2, <1>3, <1>5 DEF ConnOf, Changed
<1>7. \A g \in Live(clients) : ConnOf(g) # c /\ ConnOf(g) \in Conn
  BY <1>1, LiveTypes DEF Sound, Owned
<1>8. Tables'
  BY <1>3 DEF Tables, Changed
<1>9. ParseStatesMatch'
  <2>1. ASSUME NEW g \in Fd, running
        PROVE  parseStates'[g].stage # "none" <=> g \in Live(clients)'
    BY <1>1, <1>2, <1>3, <1>5, <2>1 DEF Sound, ParseStatesMatch, Changed
  <2> QED BY <2>1 DEF ParseStatesMatch
<1>10. Owned'
  BY <1>2, <1>3, <1>5, <1>6, <1>7 DEF Sound, Owned, Changed
<1>11. Fresh'
  BY <1>2, <1>3 DEF Sound, Fresh, Changed
<1> QED BY <1>8, <1>9, <1>10, <1>11 DEF Sound

LEMMA WorksKeeps ==
  ASSUME Sound, TypeOK, running' = running, NEW fd \in Live(clients), Works(fd)
  PROVE  Sound'
<1>1. PICK entry \in Entry, state \in State, end \in End, new \in Seq(Event) :
        Worked(fd, entry, state, end, new)
  BY DEF Works
<1> DEFINE events == log[ConnOf(fd)] \o new
<1>2. PICK c \in Conn : c = ConnOf(fd)
  BY LiveTypes
<1>3. /\ entry.remoteAddr = c /\ state.stage # "none" /\ end.at = net[c].at
      /\ Grows(net[c].out, clients[fd].sendQueue, end.out, entry.sendQueue, new)
      /\ Sets(fd, entry, state, c, end, events)
  BY <1>1, <1>2 DEF Worked
<1>3a. log[c] \in Seq(Event) /\ events = log[c] \o new
  BY <1>2, LiveTypes
<1>3b. events \in Seq(Event)
  BY <1>3a
<1> HIDE DEF events
<1>4. fd \in Fd /\ c # NoConn
  BY LiveTypes, ConnAssumption
<1>5. Changed(fd, entry, state, c, end, events)
  BY <1>3, <1>4, <1>3b, EntryByEntry DEF Sound
<1>6. DOMAIN clients = Fd /\ DOMAIN clients' = Fd
  BY <1>5 DEF Sound, Tables, Changed
<1>7. Live(clients)' = Live(clients)
  BY <1>3, <1>4, <1>5, <1>6, ZenonT(40) DEF Live, Changed
<1>8. \A g \in Live(clients) : ConnOf(g)' = ConnOf(g) /\ g \in Fd
  BY <1>2, <1>3, <1>5, <1>6 DEF ConnOf, Changed, Live
<1>9. \A g \in Live(clients) : ConnOf(g) \in Conn /\ (g # fd => ConnOf(g) # c)
  BY <1>2, LiveTypes DEF Sound, Owned
<1>10. net[c].at = "open"
  BY <1>2 DEF Sound, Owned
<1>11. Tables'
  BY <1>5 DEF Tables, Changed
<1>12. ParseStatesMatch'
  <2>1. ASSUME NEW g \in Fd, running
        PROVE  parseStates'[g].stage # "none" <=> g \in Live(clients)'
    BY <1>3, <1>4, <1>5, <1>7, <2>1 DEF Sound, ParseStatesMatch, Changed
  <2> QED BY <2>1 DEF ParseStatesMatch
<1>13. Owned'
  <2>1. \A g \in Live(clients) : net'[ConnOf(g)].at = "open"
    <3>1. net'[c].at = "open" /\ ConnOf(fd) = c
      BY <1>2, <1>3, <1>5, <1>10 DEF Changed
    <3>2. \A g \in Live(clients) \ {fd} : net'[ConnOf(g)] = net[ConnOf(g)]
      BY <1>5, <1>9 DEF Changed
    <3> QED BY <3>1, <3>2 DEF Sound, Owned
  <2>2. \A g \in Live(clients)' : net'[ConnOf(g)'].at = "open"
    BY <1>7, <1>8, <2>1
  <2>3. \A f, g \in Live(clients)' : ConnOf(f)' = ConnOf(g)' => f = g
    BY <1>7, <1>8 DEF Sound, Owned
  <2> QED BY <2>2, <2>3 DEF Owned
<1>14. Fresh'
  <2>1. ASSUME NEW d \in Conn, net'[d].at = "new"
        PROVE  net'[d].out = <<>> /\ log'[d] = <<>> /\ net'[d].read = 0
    <3>1. d # c
      BY <1>3, <1>5, <1>10, <2>1 DEF Changed
    <3>2. net'[d] = net[d] /\ log'[d] = log[d]
      BY <1>5, <3>1 DEF Changed
    <3> QED BY <2>1, <3>2 DEF Sound, Fresh
  <2> QED BY <2>1 DEF Fresh
<1> QED BY <1>11, <1>12, <1>13, <1>14 DEF Sound

LEMMA LeavesKeeps ==
  ASSUME Sound, TypeOK, running' = running, NEW fd \in Live(clients), Leaves(fd)
  PROVE  Sound'
<1>1. PICK end \in End, new \in Seq(Event) : Left(fd, end, new)
  BY DEF Leaves
<1> DEFINE events == log[ConnOf(fd)] \o new
<1>2. PICK c \in Conn : c = ConnOf(fd)
  BY LiveTypes
<1>3. end.at = "closed" /\ Sets(fd, NoClient, NoParseState, c, end, events)
  BY <1>1, <1>2 DEF Left
<1>4. fd \in Fd /\ log[c] \in Seq(Event)
  BY <1>2, LiveTypes
<1>4a. events \in Seq(Event)
  BY <1>2, <1>4
<1> HIDE DEF events
<1>5. Changed(fd, NoClient, NoParseState, c, end, events)
  BY <1>3, <1>4, <1>4a, Values, EntryByEntry DEF Sound
<1>6. DOMAIN clients = Fd /\ DOMAIN clients' = Fd
  BY <1>5 DEF Sound, Tables, Changed
<1>7. Live(clients)' = Live(clients) \ {fd}
  BY <1>4, <1>5, <1>6, Values DEF Live, Changed
<1>8. \A g \in Live(clients) \ {fd} : ConnOf(g)' = ConnOf(g) /\ g \in Fd
  BY <1>5, <1>6 DEF ConnOf, Changed, Live
<1>9. \A g \in Live(clients) \ {fd} : ConnOf(g) \in Conn /\ ConnOf(g) # c
  BY <1>2, LiveTypes DEF Sound, Owned
<1>10. Tables'
  BY <1>5 DEF Tables, Changed
<1>11. ParseStatesMatch'
  <2>1. ASSUME NEW g \in Fd, running
        PROVE  parseStates'[g].stage # "none" <=> g \in Live(clients)'
    BY <1>4, <1>5, <1>7, <2>1, Values DEF Sound, ParseStatesMatch, Changed
  <2> QED BY <2>1 DEF ParseStatesMatch
<1>12. Owned'
  BY <1>5, <1>7, <1>8, <1>9 DEF Sound, Owned, Changed
<1>13. Fresh'
  <2>1. ASSUME NEW d \in Conn, net'[d].at = "new"
        PROVE  net'[d].out = <<>> /\ log'[d] = <<>> /\ net'[d].read = 0
    <3>1. d # c
      BY <1>3, <1>5, <2>1 DEF Changed
    <3>2. net'[d] = net[d] /\ log'[d] = log[d]
      BY <1>5, <3>1 DEF Changed
    <3> QED BY <2>1, <3>2 DEF Sound, Fresh
  <2> QED BY <2>1 DEF Fresh
<1> QED BY <1>10, <1>11, <1>12, <1>13 DEF Sound

LEMMA UntouchedKeeps ==
  ASSUME Sound, running' = running, UNCHANGED <<clients, parseStates, net, log>>
  PROVE  Sound'
<1>1. Live(clients)' = Live(clients) /\ \A fd \in Live(clients) : ConnOf(fd)' = ConnOf(fd)
  BY DEF Live, ConnOf
<1>2. Tables' /\ ParseStatesMatch'
  BY <1>1 DEF Sound, Tables, ParseStatesMatch
<1>3. Owned'
  BY <1>1 DEF Sound, Owned
<1>4. Fresh'
  BY DEF Sound, Fresh
<1> QED BY <1>2, <1>3, <1>4 DEF Sound

\* What a step does to the table: one descriptor is touched at most.
Touches(fd) ==
  \/ \E c \in Conn : Admits(fd, c)
  \/ fd \in Live(clients) /\ (Works(fd) \/ Leaves(fd))

LEMMA OthersSame ==
  ASSUME Sound, TypeOK, NEW fd \in Fd, Touches(fd), NEW g \in Live(clients)', g # fd
  PROVE  /\ g \in Live(clients) /\ clients'[g] = clients[g] /\ parseStates'[g] = parseStates[g]
         /\ ConnOf(g)' = ConnOf(g) /\ net'[ConnOf(g)] = net[ConnOf(g)]
         /\ log'[ConnOf(g)] = log[ConnOf(g)]
<1>0. Tables /\ Owned
  BY DEF Sound
<1>1. PICK c \in Conn, entry \in Entry, state \in State, end \in End, events \in Seq(Event) :
        /\ Changed(fd, entry, state, c, end, events)
        /\ fd \in Live(clients) => c = ConnOf(fd)
        /\ fd \notin Live(clients) => net[c].at = "new"
  <2>1. ASSUME NEW c \in Conn, Admits(fd, c)
        PROVE  \E entry \in Entry, state \in State, end \in End, events \in Seq(Event) :
                 /\ Changed(fd, entry, state, c, end, events)
                 /\ fd \notin Live(clients) /\ net[c].at = "new"
    <3> DEFINE end == [net[c] EXCEPT !.at = "open"]
    <3>1. /\ NewClient(c) \in Entry /\ NewParseState \in State /\ end \in End
          /\ log[c] \in Seq(Event)
      BY <1>0, Values DEF Tables, End
    <3>2. Sets(fd, NewClient(c), NewParseState, c, end, log[c])
      BY <2>1 DEF Admits
    <3> HIDE DEF end
    <3>3. Changed(fd, NewClient(c), NewParseState, c, end, log[c])
      BY <1>0, <3>1, <3>2, EntryByEntry
    <3>4. fd \notin Live(clients) /\ net[c].at = "new"
      BY <2>1 DEF Admits
    <3> QED BY <3>1, <3>3, <3>4
  <2>2. ASSUME fd \in Live(clients), NEW entry \in Entry, NEW state \in State,
               NEW end \in End, NEW new \in Seq(Event),
               Sets(fd, entry, state, ConnOf(fd), end, log[ConnOf(fd)] \o new)
        PROVE  \E events \in Seq(Event) :
                 Changed(fd, entry, state, ConnOf(fd), end, events)
    <3> DEFINE events == log[ConnOf(fd)] \o new
    <3>1. ConnOf(fd) \in Conn /\ log[ConnOf(fd)] \in Seq(Event)
      BY <1>0, <2>2, LiveTypes
    <3>2. events \in Seq(Event)
      BY <3>1
    <3>3. Sets(fd, entry, state, ConnOf(fd), end, events)
      BY <2>2
    <3> HIDE DEF events
    <3>4. Changed(fd, entry, state, ConnOf(fd), end, events)
      BY <1>0, <3>1, <3>2, <3>3, EntryByEntry
    <3> QED BY <3>2, <3>4
  <2>3. ASSUME fd \in Live(clients), Works(fd)
        PROVE  \E entry \in Entry, state \in State, end \in End, events \in Seq(Event) :
                 Changed(fd, entry, state, ConnOf(fd), end, events)
    <3>1. PICK entry \in Entry, state \in State, end \in End, new \in Seq(Event) :
            Worked(fd, entry, state, end, new)
      BY <2>3 DEF Works
    <3>2. Sets(fd, entry, state, ConnOf(fd), end, log[ConnOf(fd)] \o new)
      BY <3>1 DEF Worked
    <3> QED BY <2>2, <2>3, <3>2
  <2>4. ASSUME fd \in Live(clients), Leaves(fd)
        PROVE  \E entry \in Entry, state \in State, end \in End, events \in Seq(Event) :
                 Changed(fd, entry, state, ConnOf(fd), end, events)
    <3>1. PICK end \in End, new \in Seq(Event) : Left(fd, end, new)
      BY <2>4 DEF Leaves
    <3>2. Sets(fd, NoClient, NoParseState, ConnOf(fd), end, log[ConnOf(fd)] \o new)
      BY <3>1 DEF Left
    <3> QED BY <2>2, <2>4, <3>2, Values
  <2>5. fd \in Live(clients) => ConnOf(fd) \in Conn
    BY <1>0, LiveTypes
  <2> QED BY <2>1, <2>3, <2>4, <2>5 DEF Touches
<1>2. DOMAIN clients = Fd /\ DOMAIN clients' = Fd
  BY <1>0, <1>1 DEF Tables, Changed
<1>3. g \in Fd /\ clients'[g] = clients[g] /\ parseStates'[g] = parseStates[g]
  BY <1>1, <1>2 DEF Changed, Live
<1>4. g \in Live(clients) /\ ConnOf(g)' = ConnOf(g)
  BY <1>2, <1>3 DEF Live, ConnOf
<1>5. ConnOf(g) \in Conn /\ ConnOf(g) # c
  BY <1>0, <1>1, <1>4, LiveTypes DEF Owned
<1> QED BY <1>1, <1>3, <1>4, <1>5 DEF Changed

\* What a step is to a descriptor that is in the table after it, and to one that
\* is not any more.
Enters(g) ==
  /\ g \notin Live(clients)
  /\ net'[ConnOf(g)'].out = <<>> /\ log'[ConnOf(g)'] = <<>>
  /\ clients'[g].sendQueue = <<>> /\ ~clients'[g].pendingClose

Grown(g, c, new) ==
  /\ log'[c] = log[c] \o new
  /\ Grows(net[c].out, clients[g].sendQueue, net'[c].out, clients'[g].sendQueue, new)
  /\ clients'[g].pendingClose => Closing(g, new)

Remains(g) ==
  /\ g \in Live(clients) /\ ConnOf(g)' = ConnOf(g)
  /\ \E new \in Seq(Event) : Grown(g, ConnOf(g), new)

Departs(g) ==
  \/ ClientGone(g)
  \/ \E new \in Seq(Event) :
       /\ log'[ConnOf(g)] = log[ConnOf(g)] \o new
       /\ Grows(net[ConnOf(g)].out, clients[g].sendQueue, net'[ConnOf(g)].out, <<>>, new)
       /\ Closing(g, new)

\* A descriptor that is not touched remains.
LEMMA SameRemains ==
  ASSUME Sound, TypeOK, NEW g \in Live(clients),
         clients'[g] = clients[g], ConnOf(g)' = ConnOf(g), net'[ConnOf(g)] = net[ConnOf(g)],
         log'[ConnOf(g)] = log[ConnOf(g)]
  PROVE  Remains(g)
<1>1. PICK c \in Conn : c = ConnOf(g)
  BY LiveTypes
<1>2. log[c] \in Seq(Event) /\ net[c].out \in Seq(Sent) /\ clients[g].sendQueue \in Seq(Sent)
  BY <1>1, LiveTypes DEF End, Entry
<1>3. log'[c] = log[c] \o <<>>
  BY <1>1, <1>2
<1>4. Grows(net[c].out, clients[g].sendQueue, net'[c].out, clients'[g].sendQueue, <<>>)
  BY <1>1, <1>2, GrowsWithout
<1>5. Grown(g, c, <<>>)
  BY <1>1, <1>3, <1>4 DEF Grown, Closing
<1> QED BY <1>1, <1>5, News DEF Remains

LEMMA AdmitsViews ==
  ASSUME Sound, TypeOK, NEW fd \in Fd, NEW c \in Conn, Admits(fd, c)
  PROVE  /\ \A g \in Live(clients)' : Enters(g) \/ Remains(g)
         /\ Live(clients) \subseteq Live(clients)'
<1> DEFINE end == [net[c] EXCEPT !.at = "open"]
           entry == NewClient(c)
<1>1. /\ fd \in Fd \ Live(clients) /\ net[c].at = "new"
      /\ Sets(fd, entry, NewParseState, c, end, log[c])
  BY DEF Admits
<1>2. /\ end \in End /\ end.out = <<>> /\ log[c] \in Seq(Event) /\ log[c] = <<>>
      /\ entry \in Entry /\ entry.remoteAddr = c /\ entry.sendQueue = <<>> /\ ~entry.pendingClose
      /\ NewParseState \in State
  BY <1>1, Values DEF Sound, Tables, End, Fresh, NewClient
<1> HIDE DEF end, entry
<1>3. Changed(fd, entry, NewParseState, c, end, log[c])
  BY <1>1, <1>2, EntryByEntry DEF Sound
<1>4. Enters(fd)
  BY <1>1, <1>2, <1>3 DEF Enters, Changed, ConnOf
<1>5. ASSUME NEW g \in Live(clients)', g # fd PROVE Remains(g)
  <2>1. Touches(fd)
    BY DEF Touches
  <2>2. /\ g \in Live(clients) /\ clients'[g] = clients[g]
        /\ ConnOf(g)' = ConnOf(g) /\ net'[ConnOf(g)] = net[ConnOf(g)]
        /\ log'[ConnOf(g)] = log[ConnOf(g)]
    BY <1>5, <2>1, OthersSame
  <2> QED BY <2>2, SameRemains
<1>6. Live(clients) \subseteq Live(clients)'
  <2>1. DOMAIN clients = Fd /\ DOMAIN clients' = Fd
    BY <1>3 DEF Sound, Tables, Changed
  <2> QED BY <1>1, <1>3, <2>1 DEF Live, Changed
<1> QED BY <1>4, <1>5, <1>6

LEMMA WorksViews ==
  ASSUME Sound, TypeOK, NEW fd \in Live(clients), Works(fd)
  PROVE  /\ \A g \in Live(clients)' : Enters(g) \/ Remains(g)
         /\ Live(clients) \subseteq Live(clients)'
<1>1. PICK entry \in Entry, state \in State, end \in End, new \in Seq(Event) :
        Worked(fd, entry, state, end, new)
  BY DEF Works
<1> DEFINE events == log[ConnOf(fd)] \o new
<1>2. PICK c \in Conn : c = ConnOf(fd)
  BY LiveTypes
<1>3. /\ entry.remoteAddr = c
      /\ Grows(net[c].out, clients[fd].sendQueue, end.out, entry.sendQueue, new)
      /\ entry.pendingClose => Closing(fd, new)
      /\ Sets(fd, entry, state, c, end, events)
  BY <1>1, <1>2 DEF Worked
<1>4. log[c] \in Seq(Event) /\ events = log[c] \o new /\ fd \in Fd /\ c # NoConn
  BY <1>2, LiveTypes, ConnAssumption
<1>5. events \in Seq(Event)
  BY <1>4
<1> HIDE DEF events
<1>6. Changed(fd, entry, state, c, end, events)
  BY <1>3, <1>4, <1>5, EntryByEntry DEF Sound
<1>7. DOMAIN clients = Fd /\ DOMAIN clients' = Fd
  BY <1>6 DEF Sound, Tables, Changed
<1>8. Live(clients)' = Live(clients)
  BY <1>3, <1>4, <1>6, <1>7 DEF Live, Changed
<1>9. ConnOf(fd)' = ConnOf(fd)
  BY <1>2, <1>3, <1>6 DEF ConnOf, Changed
<1>10. Remains(fd)
  <2>1. Grown(fd, c, new)
    BY <1>3, <1>4, <1>6 DEF Grown, Changed
  <2> QED BY <1>2, <1>9, <2>1 DEF Remains
<1>11. ASSUME NEW g \in Live(clients)', g # fd PROVE Remains(g)
  <2>1. Touches(fd)
    BY DEF Touches
  <2>2. /\ g \in Live(clients) /\ clients'[g] = clients[g]
        /\ ConnOf(g)' = ConnOf(g) /\ net'[ConnOf(g)] = net[ConnOf(g)]
        /\ log'[ConnOf(g)] = log[ConnOf(g)]
    BY <1>4, <1>11, <2>1, OthersSame
  <2> QED BY <2>2, SameRemains
<1> QED BY <1>8, <1>10, <1>11

LEMMA LeavesViews ==
  ASSUME Sound, TypeOK, NEW fd \in Live(clients), Leaves(fd)
  PROVE  /\ \A g \in Live(clients)' : Enters(g) \/ Remains(g)
         /\ \A g \in Live(clients) \ Live(clients)' : Departs(g)
<1>1. PICK end \in End, new \in Seq(Event) : Left(fd, end, new)
  BY DEF Leaves
<1> DEFINE events == log[ConnOf(fd)] \o new
<1>2. PICK c \in Conn : c = ConnOf(fd)
  BY LiveTypes
<1>3. /\ Sets(fd, NoClient, NoParseState, c, end, events)
      /\ \/ ClientGone(fd)
         \/ /\ Grows(net[c].out, clients[fd].sendQueue, end.out, <<>>, new)
            /\ Closing(fd, new)
  BY <1>1, <1>2 DEF Left
<1>4. log[c] \in Seq(Event) /\ events = log[c] \o new /\ fd \in Fd
  BY <1>2, LiveTypes
<1>5. events \in Seq(Event)
  BY <1>4
<1> HIDE DEF events
<1>6. Changed(fd, NoClient, NoParseState, c, end, events)
  BY <1>3, <1>4, <1>5, Values, EntryByEntry DEF Sound
<1>7. DOMAIN clients = Fd /\ DOMAIN clients' = Fd
  BY <1>6 DEF Sound, Tables, Changed
<1>8. Live(clients)' = Live(clients) \ {fd}
  BY <1>4, <1>6, <1>7, Values DEF Live, Changed
<1>9. Departs(fd)
  BY <1>2, <1>3, <1>4, <1>6 DEF Departs, Changed
<1>10. ASSUME NEW g \in Live(clients)', g # fd PROVE Remains(g)
  <2>1. Touches(fd)
    BY DEF Touches
  <2>2. /\ g \in Live(clients) /\ clients'[g] = clients[g]
        /\ ConnOf(g)' = ConnOf(g) /\ net'[ConnOf(g)] = net[ConnOf(g)]
        /\ log'[ConnOf(g)] = log[ConnOf(g)]
    BY <1>4, <1>10, <2>1, OthersSame
  <2> QED BY <2>2, SameRemains
<1> QED BY <1>8, <1>9, <1>10

\* All of it, for the servers that build on this one.
LEMMA EffectViews ==
  ASSUME Sound, TypeOK, Effect
  PROVE  /\ Sound'
         /\ \A g \in Live(clients)' : Enters(g) \/ Remains(g)
         /\ \A g \in Live(clients) \ Live(clients)' : Departs(g)
<1>1. running' = running
  BY DEF Effect
<1>2. ASSUME NEW fd \in Fd, NEW c \in Conn, Admits(fd, c)
      PROVE  /\ Sound'
             /\ \A g \in Live(clients)' : Enters(g) \/ Remains(g)
             /\ \A g \in Live(clients) \ Live(clients)' : Departs(g)
  BY <1>1, <1>2, AdmitsKeeps, AdmitsViews
<1>3. ASSUME NEW fd \in Live(clients), Works(fd)
      PROVE  /\ Sound'
             /\ \A g \in Live(clients)' : Enters(g) \/ Remains(g)
             /\ \A g \in Live(clients) \ Live(clients)' : Departs(g)
  BY <1>1, <1>3, WorksKeeps, WorksViews
<1>4. ASSUME NEW fd \in Live(clients), Leaves(fd)
      PROVE  /\ Sound'
             /\ \A g \in Live(clients)' : Enters(g) \/ Remains(g)
             /\ \A g \in Live(clients) \ Live(clients)' : Departs(g)
  BY <1>1, <1>4, LeavesKeeps, LeavesViews
<1>5. ASSUME UNCHANGED <<clients, parseStates, net, log>>
      PROVE  /\ Sound'
             /\ \A g \in Live(clients)' : Enters(g) \/ Remains(g)
             /\ \A g \in Live(clients) \ Live(clients)' : Departs(g)
  <2>1. Sound'
    BY <1>1, <1>5, UntouchedKeeps
  <2>2. Live(clients)' = Live(clients) /\ \A g \in Live(clients) : ConnOf(g)' = ConnOf(g)
    BY <1>5 DEF Live, ConnOf
  <2>3. ASSUME NEW g \in Live(clients) PROVE Remains(g)
    BY <1>5, <2>2, <2>3, SameRemains
  <2> QED BY <2>1, <2>2, <2>3
<1> QED BY <1>2, <1>3, <1>4, <1>5 DEF Effect

\* The balance of what remains.
LEMMA ViewsBalance ==
  ASSUME Sound, TypeOK, Answers, \A g \in Live(clients)' : Enters(g) \/ Remains(g)
  PROVE  Answers'
<1>1. ASSUME NEW g \in Live(clients)', Enters(g)
      PROVE  Balanced(net[ConnOf(g)].out, clients[g].sendQueue, log[ConnOf(g)])'
  <2>1. Balanced(<<>>, <<>>, <<>>)
    <3>1. Kept(<<>>, Response) = <<>>
      BY KeptOfEmpty
    <3>2. <<>> \o <<>> = <<>>
      OBVIOUS
    <3> QED BY <3>1, <3>2 DEF Balanced
  <2> QED BY <1>1, <2>1 DEF Enters, Balanced
<1>2. ASSUME NEW g \in Live(clients)', Remains(g)
      PROVE  Balanced(net[ConnOf(g)].out, clients[g].sendQueue, log[ConnOf(g)])'
  <2>1. g \in Live(clients) /\ ConnOf(g)' = ConnOf(g)
    BY <1>2 DEF Remains
  <2>2. PICK new \in Seq(Event) : Grown(g, ConnOf(g), new)
    BY <1>2 DEF Remains
  <2>3. PICK c \in Conn : c = ConnOf(g)
    BY <2>1, LiveTypes
  <2>4. log[c] \in Seq(Event) /\ Balanced(net[c].out, clients[g].sendQueue, log[c])
    BY <2>1, <2>3, LiveTypes DEF Answers
  <2>5. Balanced(net'[c].out, clients'[g].sendQueue, log'[c])
    BY <2>2, <2>3, <2>4, GrowsBalanced DEF Grown
  <2> QED BY <2>1, <2>3, <2>5 DEF Balanced
<1> QED BY <1>1, <1>2 DEF Answers

\* What every server that adds hooks to this one keeps of the invariant.
Standing ==
  /\ Sound /\ running \in BOOLEAN /\ parsing \in Fd \cup {NoFd}
  /\ parsing # NoFd => running

LEMMA StandingParts == Standing => TypeOK /\ Matched /\ ParseStatesMatch
BY DEF Standing, Sound, Tables, Matched, TypeOK, Entry, State, End

LEMMA InvParts == Inv <=> Standing /\ Answers
BY DEF Inv, Standing, Sound, Tables, Matched, TypeOK, Entry, State, End

\* The end of the loop: no client is left, and no state is looked at again.
LEMMA StopKeeps ==
  ASSUME Standing, Stop
  PROVE  Standing' /\ Live(clients)' = {} /\ running' = FALSE
<1>1. /\ Sound /\ parsing = NoFd
  BY DEF Standing, Stop, AtLoop
<1>2. /\ running' = FALSE /\ UNCHANGED <<parseStates, parsing, log>>
      /\ clients' = [fd \in Fd |-> NoClient]
      /\ net' = [c \in Conn |-> [net[c] EXCEPT !.at = IF @ = "open" THEN "closed" ELSE @]]
  BY DEF Stop
<1>3. ASSUME NEW c \in Conn
      PROVE  /\ net'[c] \in End /\ net'[c].out = net[c].out /\ net'[c].read = net[c].read
             /\ net'[c].at = "new" => net[c].at = "new"
  <2>1. net[c] \in End
    BY <1>1 DEF Sound, Tables
  <2>2. net'[c] = [net[c] EXCEPT !.at = IF net[c].at = "open" THEN "closed" ELSE net[c].at]
    BY <1>2
  <2> QED BY <2>1, <2>2 DEF End
<1>4. DOMAIN net' = Conn /\ net' = [c \in Conn |-> net'[c]]
  BY <1>2
<1>5. net' \in [Conn -> End]
  BY <1>3, <1>4
<1>6. Tables'
  BY <1>1, <1>2, <1>5, Values DEF Sound, Tables
<1>7. Live(clients)' = {}
  BY <1>2, Values DEF Live
<1>8. Fresh'
  BY <1>1, <1>2, <1>3 DEF Sound, Fresh
<1>9. Owned' /\ ParseStatesMatch'
  BY <1>2, <1>7 DEF Owned, ParseStatesMatch
<1> QED BY <1>1, <1>2, <1>6, <1>7, <1>8, <1>9 DEF Standing, Sound

LEMMA StandingStep ==
  ASSUME Standing, Acts
  PROVE  /\ Standing' /\ running' = running
         /\ \A g \in Live(clients)' : Enters(g) \/ Remains(g)
         /\ \A g \in Live(clients) \ Live(clients)' : Departs(g)
<1>1. TypeOK /\ Matched /\ Sound /\ running \in BOOLEAN
  BY StandingParts DEF Standing
<1>2. Effect
  BY <1>1, Effects
<1>3. /\ running' = running /\ parsing' \in Fd \cup {NoFd}
      /\ parsing' # NoFd => running'
  BY <1>2 DEF Effect
<1> QED BY <1>1, <1>2, <1>3, EffectViews DEF Standing

LEMMA InvStep == Inv /\ [Next]_vars => Inv'
<1> SUFFICES ASSUME Inv, [Next]_vars PROVE Inv'
  OBVIOUS
<1>1. Standing /\ Answers /\ TypeOK /\ Sound
  BY InvParts DEF Inv, Standing
<1>2. CASE Stop
  <2>1. Standing' /\ Live(clients)' = {}
    BY <1>1, <1>2, StopKeeps
  <2>2. Answers'
    BY <2>1 DEF Answers
  <2> QED BY <2>1, <2>2 DEF Inv, Standing, Sound, Tables, Matched, TypeOK, Entry, State, End
<1>3. CASE Acts
  <2>1. Standing' /\ \A g \in Live(clients)' : Enters(g) \/ Remains(g)
    BY <1>1, <1>3, StandingStep
  <2>2. Answers'
    BY <1>1, <2>1, ViewsBalance
  <2> QED BY <2>1, <2>2 DEF Inv, Standing, Sound, Tables, Matched, TypeOK, Entry, State, End
<1>4. CASE UNCHANGED vars
  BY <1>4 DEF vars, Inv, TypeOK, Owned, Matched, ParseStatesMatch, Fresh, Answers, Live, ConnOf
<1> QED BY <1>2, <1>3, <1>4 DEF Next, Acts

LEMMA InitStands ==
  ASSUME Init
  PROVE  /\ Standing /\ running /\ Live(clients) = {}
         /\ \A c \in Conn : net[c].out = <<>> /\ log[c] = <<>>
<1>1. PICK script \in [Conn -> Scripts] :
        net = [c \in Conn |-> [at |-> "new", script |-> script[c], read |-> 0, out |-> <<>>]]
  BY DEF Init
<1>2. net \in [Conn -> End] /\ \A c \in Conn : net[c].out = <<>> /\ net[c].read = 0
  <2>1. \A c \in Conn : [at |-> "new", script |-> script[c], read |-> 0, out |-> <<>>] \in End
    BY DEF End
  <2> QED BY <1>1, <2>1
<1>3. /\ clients = [fd \in Fd |-> NoClient] /\ parseStates = [fd \in Fd |-> NoParseState]
      /\ log = [c \in Conn |-> <<>>] /\ running = TRUE /\ parsing = NoFd
  BY DEF Init
<1>4. Live(clients) = {}
  BY <1>3, Values DEF Live
<1>5. Tables
  BY <1>2, <1>3, Values DEF Tables
<1>6. ParseStatesMatch /\ Owned
  BY <1>3, <1>4, Values DEF ParseStatesMatch, Owned
<1>7. Fresh
  BY <1>2, <1>3 DEF Fresh
<1> QED BY <1>2, <1>3, <1>4, <1>5, <1>6, <1>7 DEF Standing, Sound

LEMMA InitInv == Init => Inv
BY InitStands, InvParts DEF Answers

LEMMA AlwaysInv == Spec => []Inv
BY InitInv, InvStep, PTL DEF Spec

-----------------------------------------------------------------------------
(* Where the parser is in a message.                                       *)

\* The request, as its lines are taken off.
WithLine(m) == [NewRequest EXCEPT !.method = m.method, !.version = m.version]
WithConnection(m) == [WithLine(m) EXCEPT !.connection = m.connection]
WithLength(m) == [WithConnection(m) EXCEPT !.length = m.length]
WithBody(m, b) == [WithLength(m) EXCEPT !.body = b]

Proper(m) == m.kind \in {"request", "afterBlank"}

\* The parse state is ps when rest is what is left of the message m.
AtStart(m, ps, rest) == ps = NewParseState /\ rest \in {Serialize(m), FromLine(m)}

AtHeaders(m, ps, rest) ==
  m.kind # "badLine" /\ ps = ParseState("Headers", WithLine(m), 0) /\ rest = FromHeaders(m)

AtLength(m, ps, rest) ==
  Proper(m) /\ ps = ParseState("Headers", WithConnection(m), 0) /\ rest = FromLength(m)

AtBlank(m, ps, rest) ==
  Proper(m) /\ ps = ParseState("Headers", WithLength(m), 0) /\ rest = <<"nl">> \o m.body

InBody(m, ps, rest) ==
  /\ Proper(m) /\ m.length # "junk" /\ rest # <<>>
  /\ \E b \in Seq(Symbol) :
       ps = ParseState("Body", WithBody(m, b), Len(rest)) /\ b \o rest = m.body

InMessage(m, ps, rest) ==
  \/ AtStart(m, ps, rest) \/ AtHeaders(m, ps, rest) \/ AtLength(m, ps, rest)
  \/ AtBlank(m, ps, rest) \/ InBody(m, ps, rest)

\* The buffer buf and what is not in it yet, u, are rest of the message m, and later.
At(m, rest, later, buf, u) ==
  /\ m \in Message /\ rest \in Seq(Symbol) /\ later \in Seq(Symbol)
  /\ buf \in Seq(Symbol) /\ u \in Seq(Symbol)
  /\ buf \o u = rest \o later

\* What a line, or a part of a body, comes to, with b left in the buffer: the parser
\* goes on in m, it fails with all of m in the buffer, or it is done with m.
GoesOn(fd, m, later, u, taken, b) ==
  \E ps \in State : \E rest :
    InMessage(m, ps, rest) /\ Continue(fd, ps, taken) /\ At(m, rest, later, b, u)

GivesUp(fd, m, rest, buf, taken) ==
  onHttpError(fd, taken) /\ Expected(m) = BadRequest /\ Len(rest) <= Len(buf)

HandsOn(fd, m, later, u, taken, b) ==
  \E request \in Request :
    dispatchRequest(fd, request, taken) /\ Answered(request) = Expected(m)
    /\ b \in Seq(Symbol) /\ b \o u = later

LineOf(buf) == SubSeq(buf, 1, LineEnd(buf) - 1)

Advances(fd, m, rest, later, buf, u, taken) ==
  \/ GoesOn(fd, m, later, u, taken, AfterLine(buf))
  \/ GivesUp(fd, m, rest, buf, taken)
  \/ HandsOn(fd, m, later, u, taken, AfterLine(buf))

\* all is a line and then rest.
Starts(line, rest, all) ==
  /\ line \in Seq(Symbol) /\ \A i \in 1..Len(line) : line[i] # "nl"
  /\ rest \in Seq(Symbol) /\ all = (line \o <<"nl">>) \o rest

\* A line and its end are no longer than the buffer.
Fits(line, buf) == Len(line) + 1 <= Len(buf)

\* One line of a message is in the buffer.
LEMMA LineTaken ==
  ASSUME NEW m, NEW all, NEW later, NEW buf, NEW u, NEW line, NEW rest,
         At(m, all, later, buf, u), HasLine(buf), Starts(line, rest, all)
  PROVE  /\ LineOf(buf) = line /\ Fits(line, buf)
         /\ At(m, rest, later, AfterLine(buf), u)
<1>0. /\ buf \in Seq(Symbol) /\ u \in Seq(Symbol) /\ later \in Seq(Symbol)
      /\ line \in Seq(Symbol) /\ rest \in Seq(Symbol)
      /\ \A i \in 1..Len(line) : line[i] # "nl"
      /\ all = (line \o <<"nl">>) \o rest /\ buf \o u = all \o later
  BY DEF At, Starts
<1> DEFINE p == line \o <<"nl">>
           t == rest \o later
<1>1. p \in Seq(Symbol)
  BY <1>0, Symbols
<1>2. t \in Seq(Symbol)
  BY <1>0
<1>3. (p \o rest) \o later = p \o t
  <2> HIDE DEF p
  <2>1. Joined(Joined(p, rest), later) = Joined(p, Joined(rest, later))
    BY <1>0, <1>1, JoinedInRow
  <2> QED BY <2>1 DEF Joined
<1>4. buf \o u = (line \o <<"nl">>) \o t
  BY <1>0, <1>3
<1> HIDE DEF p, t
<1>5. /\ LineOf(buf) = line /\ AfterLine(buf) \in Seq(Symbol)
      /\ AfterLine(buf) \o u = t /\ Len(line) + 1 <= Len(buf)
  BY <1>0, <1>2, <1>4, FirstLine DEF LineOf
<1> QED BY <1>0, <1>5 DEF t, At, Fits

\* The requests the parser makes of a message on its way.
LEMMA RequestTypes ==
  ASSUME NEW m \in Message, m.kind # "badLine"
  PROVE  /\ WithLine(m) \in Request /\ WithConnection(m) \in Request
         /\ WithLength(m) \in Request
         /\ \A b \in Seq(Symbol) : WithBody(m, b) \in Request
         /\ WithLength(m) = WithBody(m, <<>>)
         /\ WithLine(m).length = "" /\ WithLength(m).length = m.length
         /\ m.connection = "" => WithConnection(m) = WithLine(m)
         /\ m.length = "" => WithLength(m) = WithConnection(m)
<1>1. /\ m.method \in Symbol /\ m.version \in Symbol
      /\ m.connection \in {"", "close", "keep-alive"} /\ m.length \in Numbers \cup {"", "junk"}
  BY DEF Message, Symbol
<1>2. NewRequest \in Request
  BY Values
<1>3. WithLine(m) \in Request /\ WithLine(m).length = "" /\ WithLine(m).connection = ""
      /\ WithLine(m).body = <<>>
  BY <1>1, <1>2 DEF WithLine, Request, NewRequest
<1>4. WithConnection(m) \in Request /\ WithConnection(m).length = ""
      /\ WithConnection(m).body = <<>>
  BY <1>1, <1>3 DEF WithConnection, Request
<1>5. WithLength(m) \in Request /\ WithLength(m).length = m.length /\ WithLength(m).body = <<>>
  BY <1>1, <1>4 DEF WithLength, Request
<1>6. \A b \in Seq(Symbol) : WithBody(m, b) \in Request
  BY <1>5 DEF WithBody, Request
<1>7. WithLength(m) = WithBody(m, <<>>)
  BY <1>5 DEF WithBody, Request
<1>8. m.connection = "" => WithConnection(m) = WithLine(m)
  BY <1>3 DEF WithConnection, Request
<1>9. m.length = "" => WithLength(m) = WithConnection(m)
  BY <1>4 DEF WithLength, Request
<1> QED BY <1>3, <1>4, <1>5, <1>6, <1>7, <1>8, <1>9

LEMMA ExpectedRequest ==
  ASSUME NEW m \in Message, Proper(m), m.length # "junk"
  PROVE  Expected(m) = Answered(WithBody(m, m.body))
<1> DEFINE fields == [method |-> m.method, version |-> m.version,
             connection |-> m.connection, length |-> m.length, body |-> m.body]
<1>1. m.kind # "badLine" /\ m.body \in Seq(Symbol)
  BY DEF Proper, Message
<1>2. WithBody(m, m.body) \in Request /\ WithLength(m) \in Request
      /\ WithConnection(m) \in Request /\ WithLine(m) \in Request /\ NewRequest \in Request
  BY <1>1, RequestTypes, Values
<1>3. WithLine(m).method = m.method /\ WithLine(m).version = m.version
  BY <1>2 DEF WithLine, Request
<1>4. /\ WithConnection(m).method = m.method /\ WithConnection(m).version = m.version
      /\ WithConnection(m).connection = m.connection
  BY <1>2, <1>3 DEF WithConnection, Request
<1>5. /\ WithLength(m).method = m.method /\ WithLength(m).version = m.version
      /\ WithLength(m).connection = m.connection /\ WithLength(m).length = m.length
  BY <1>2, <1>4 DEF WithLength, Request
<1>6. /\ WithBody(m, m.body).method = m.method /\ WithBody(m, m.body).version = m.version
      /\ WithBody(m, m.body).connection = m.connection
      /\ WithBody(m, m.body).length = m.length /\ WithBody(m, m.body).body = m.body
  BY <1>2, <1>5 DEF WithBody, Request
<1>7. WithBody(m, m.body) = fields
  BY <1>2, <1>6 DEF Request
<1>8. Expected(m) = Answered(fields)
  BY DEF Expected, Proper
<1> QED BY <1>7, <1>8

LEMMA NoLine == <<>> \in Seq(Symbol) /\ \A i \in 1..Len(<<>>) : <<>>[i] # "nl"
BY Symbols

\* A line end, and then rest.
LEMMA BlankStarts ==
  ASSUME NEW rest \in Seq(Symbol)
  PROVE  Starts(<<>>, rest, <<"nl">> \o rest)
<1>1. <<>> \o <<"nl">> = <<"nl">>
  OBVIOUS
<1> QED BY <1>1, NoLine DEF Starts

\* A blank line before the request line.
LEMMA BlankFirst ==
  ASSUME NEW m, NEW rest, NEW later, NEW buf, NEW u, NEW fd, NEW taken,
         At(m, rest, later, buf, u), HasLine(buf),
         m.kind = "afterBlank", rest = <<"nl">> \o FromLine(m),
         parseRequestLine(fd, NewParseState, LineOf(buf), taken)
  PROVE  GoesOn(fd, m, later, u, taken, AfterLine(buf))
<1>1. Starts(<<>>, FromLine(m), rest)
  BY FromTypes, BlankStarts DEF At
<1>2. LineOf(buf) = <<>> /\ At(m, FromLine(m), later, AfterLine(buf), u)
  BY <1>1, LineTaken
<1>3. Continue(fd, NewParseState, taken)
  BY <1>2 DEF parseRequestLine
<1>4. InMessage(m, NewParseState, FromLine(m))
  BY DEF InMessage, AtStart
<1> QED BY <1>2, <1>3, <1>4, Values DEF GoesOn

LEMMA WordStarts ==
  /\ Starts(<<"word">>, <<>>, <<"word", "nl">>)
  /\ Len(<<"word">>) = 1 /\ Len(<<"word", "nl">>) = 2
<1> DEFINE line == <<"word">>
           none == <<>>
           all == <<"word", "nl">>
<1>1. line \in Seq(Symbol) /\ none \in Seq(Symbol) /\ all = line \o <<"nl">> /\ all \in Seq(Symbol)
  BY Symbols
<1>2. \A i \in 1..Len(line) : line[i] # "nl"
  OBVIOUS
<1>3. all \o none = all
  <2> HIDE DEF all
  <2> QED BY <1>1
<1>4. Starts(line, none, all)
  <2> HIDE DEF all, line, none
  <2> QED BY <1>1, <1>2, <1>3 DEF Starts
<1>5. Len(line) = 1 /\ Len(all) = 2
  OBVIOUS
<1> QED BY <1>4, <1>5

\* The line that is a word: no request line, and no header.
LEMMA WordLine ==
  ASSUME NEW m, NEW later, NEW buf, NEW u, NEW rest,
         At(m, rest, later, buf, u), HasLine(buf)
  PROVE  rest = <<"word", "nl">> => LineOf(buf) = <<"word">> /\ Len(rest) <= Len(buf)
<1>1. \A line, none : Starts(line, none, rest) => LineOf(buf) = line /\ Fits(line, buf)
  BY LineTaken
<1>2. ASSUME rest = <<"word", "nl">>
      PROVE  /\ Starts(<<"word">>, <<>>, rest)
             /\ Fits(<<"word">>, buf) => Len(rest) <= Len(buf)
  BY <1>2, WordStarts DEF Fits
<1> QED BY <1>1, <1>2

LEMMA BadLine ==
  ASSUME NEW m, NEW rest, NEW later, NEW buf, NEW u, NEW fd, NEW taken,
         At(m, rest, later, buf, u), HasLine(buf),
         m.kind = "badLine", rest = FromLine(m),
         parseRequestLine(fd, NewParseState, LineOf(buf), taken)
  PROVE  GivesUp(fd, m, rest, buf, taken)
<1>1. LineOf(buf) = <<"word">> /\ Len(rest) <= Len(buf)
  <2>1. rest = <<"word", "nl">>
    BY DEF FromLine
  <2> QED BY <2>1, WordLine
<1>2. LineOf(buf) # <<>> /\ Len(LineOf(buf)) < 3
  BY <1>1
<1>3. onHttpError(fd, taken)
  BY <1>2 DEF parseRequestLine
<1>4. Expected(m) = BadRequest
  BY DEF Expected
<1> QED BY <1>1, <1>3, <1>4 DEF GivesUp

LEMMA HeadersState ==
  ASSUME NEW request \in Request
  PROVE  ParseState("Headers", request, 0) \in State
BY DEF ParseState, State

\* The request line.
LEMMA GoodLine ==
  ASSUME NEW m, NEW rest, NEW later, NEW buf, NEW u, NEW fd, NEW taken,
         At(m, rest, later, buf, u), HasLine(buf),
         m.kind # "badLine", rest = FromLine(m),
         parseRequestLine(fd, NewParseState, LineOf(buf), taken)
  PROVE  GoesOn(fd, m, later, u, taken, AfterLine(buf))
<1> DEFINE ps == ParseState("Headers", WithLine(m), 0)
<1>1. /\ RequestLine(m) \in Seq(Symbol) /\ FromHeaders(m) \in Seq(Symbol)
      /\ rest = (RequestLine(m) \o <<"nl">>) \o FromHeaders(m)
  BY FromTypes DEF At, FromLine
<1>2. m.method \in Word /\ m.version \in Word
  BY DEF At, Message
<1>3. /\ Len(RequestLine(m)) = 3 /\ RequestLine(m)[1] = m.method /\ RequestLine(m)[3] = m.version
      /\ RequestLine(m)[2] = "word"
  BY DEF RequestLine
<1>4. \A i \in 1..Len(RequestLine(m)) : RequestLine(m)[i] # "nl"
  BY <1>2, <1>3 DEF Word
<1>5. LineOf(buf) = RequestLine(m) /\ At(m, FromHeaders(m), later, AfterLine(buf), u)
  <2>1. Starts(RequestLine(m), FromHeaders(m), rest)
    BY <1>1, <1>4 DEF Starts
  <2> QED BY <2>1, LineTaken
<1>6. LineOf(buf) # <<>> /\ ~ Len(LineOf(buf)) < 3
  <2>1. RequestLine(m) # <<>>
    BY DEF RequestLine
  <2>2. Len(LineOf(buf)) = 3
    BY <1>3, <1>5
  <2>3. LineOf(buf) # <<>>
    BY <1>5, <2>1
  <2> QED BY <2>2, <2>3
<1>7. Continue(fd, ps, taken)
  <2>1. NewParseState.request = NewRequest /\ NewParseState.bodyRemaining = 0
    BY DEF NewParseState, ParseState
  <2>2. ps = ParseState("Headers", [NewParseState.request EXCEPT !.method = LineOf(buf)[1],
                                    !.version = LineOf(buf)[3]], NewParseState.bodyRemaining)
    BY <1>3, <1>5, <2>1 DEF WithLine
  <2> HIDE DEF ps
  <2> QED BY <1>6, <2>2 DEF parseRequestLine
<1>8. InMessage(m, ps, FromHeaders(m))
  BY DEF InMessage, AtHeaders
<1>9. ps \in State
  BY RequestTypes, HeadersState DEF At
<1> QED BY <1>5, <1>7, <1>8, <1>9 DEF GoesOn

LEMMA HeaderNotLineEnd ==
  ASSUME NEW h \in DOMAIN ConnectionHeader \cup DOMAIN LengthHeader
  PROVE  /\ h # "nl" /\ h # "word" /\ <<h>> \in Seq(Symbol)
         /\ \A i \in 1..Len(<<h>>) : <<h>>[i] # "nl"
         /\ <<h>> # <<>> /\ <<h>>[1] = h
         /\ \E i \in DOMAIN <<h>> : <<h>>[i] \in DOMAIN ConnectionHeader \cup DOMAIN LengthHeader
<1>1. h # "nl" /\ h # "word"
  BY DEF ConnectionHeader, LengthHeader
<1>2. <<h>> \in Seq(Symbol)
  BY Symbols
<1>3. Len(<<h>>) = 1 /\ <<h>>[1] = h /\ DOMAIN <<h>> = 1..1 /\ <<h>> # <<>>
  OBVIOUS
<1> QED BY <1>1, <1>2, <1>3

\* A line without a header where one should be.
LEMMA BadHeader ==
  ASSUME NEW m, NEW rest, NEW later, NEW buf, NEW u, NEW fd, NEW taken, NEW ps,
         At(m, rest, later, buf, u), HasLine(buf),
         m.kind = "badHeader", rest = FromHeaders(m),
         parseHeaderLine(fd, ps, LineOf(buf), taken)
  PROVE  GivesUp(fd, m, rest, buf, taken)
<1>1. LineOf(buf) = <<"word">> /\ Len(rest) <= Len(buf)
  <2>1. rest = <<"word", "nl">>
    BY DEF FromHeaders
  <2> QED BY <2>1, WordLine
<1>2. LineOf(buf) # <<>> /\ DOMAIN LineOf(buf) = 1..1 /\ LineOf(buf)[1] = "word"
  BY <1>1
<1>3. "word" \notin DOMAIN ConnectionHeader \cup DOMAIN LengthHeader
  BY HeaderNotLineEnd
<1>4. ~ \E i \in DOMAIN LineOf(buf) :
          LineOf(buf)[i] \in DOMAIN ConnectionHeader \cup DOMAIN LengthHeader
  BY <1>2, <1>3
<1>5. onHttpError(fd, taken)
  BY <1>2, <1>4 DEF parseHeaderLine
<1>6. Expected(m) = BadRequest
  BY DEF Expected
<1> QED BY <1>1, <1>5, <1>6 DEF GivesUp

\* A header.
LEMMA HeaderTaken ==
  ASSUME NEW m, NEW all, NEW rest \in Seq(Symbol), NEW later, NEW buf, NEW u, NEW fd, NEW taken,
         NEW request, NEW h \in DOMAIN ConnectionHeader \cup DOMAIN LengthHeader,
         At(m, all, later, buf, u), HasLine(buf), all = (<<h>> \o <<"nl">>) \o rest,
         parseHeaderLine(fd, ParseState("Headers", request, 0), LineOf(buf), taken)
  PROVE  /\ Continue(fd, ParseState("Headers", WithHeader(request, h), 0), taken)
         /\ At(m, rest, later, AfterLine(buf), u)
<1> DEFINE ps == ParseState("Headers", request, 0)
<1>1. LineOf(buf) = <<h>> /\ At(m, rest, later, AfterLine(buf), u)
  <2>1. Starts(<<h>>, rest, all)
    BY HeaderNotLineEnd DEF Starts
  <2> QED BY <2>1, LineTaken
<1>2. /\ LineOf(buf) # <<>> /\ LineOf(buf)[1] = h
      /\ \E i \in DOMAIN LineOf(buf) :
           LineOf(buf)[i] \in DOMAIN ConnectionHeader \cup DOMAIN LengthHeader
  BY <1>1, HeaderNotLineEnd
<1>3. Continue(fd, [ps EXCEPT !.request = WithHeader(ps.request, LineOf(buf)[1])], taken)
  <2> HIDE DEF ps
  <2>1. parseHeaderLine(fd, ps, LineOf(buf), taken)
    BY DEF ps
  <2> QED BY <1>2, <2>1 DEF parseHeaderLine
<1>4. [ps EXCEPT !.request = WithHeader(ps.request, LineOf(buf)[1])]
        = ParseState("Headers", WithHeader(request, h), 0)
  BY <1>2 DEF ParseState
<1> QED BY <1>1, <1>3, <1>4

LEMMA EmptyFirst ==
  ASSUME NEW s \in Seq(Symbol)
  PROVE  <<>> \o s = s
OBVIOUS

\* A body is as long as its message announces.
LEMMA Bodies ==
  ASSUME NEW m \in Message
  PROVE  /\ m.body \in Seq(Symbol) /\ Len(m.body) \in Nat
         /\ m.length \in Numbers \cup {"", "junk"}
         /\ m.length \in Numbers => Len(m.body) = stoul(m.length)
         /\ m.length \notin Numbers => Len(m.body) = 0
         /\ Len(m.body) = 0 => m.body = <<>>
<1>1. m.body \in Seq(Symbol) /\ m.length \in Numbers \cup {"", "junk"}
  BY DEF Message
<1>2. Len(m.body) = IF m.length \in Numbers THEN stoul(m.length) ELSE 0
  BY DEF Message
<1>3. \A s \in Seq(Symbol) : Len(s) \in Nat /\ (Len(s) = 0 => s = <<>>)
  OBVIOUS
<1> QED BY <1>1, <1>2, <1>3

\* The line end behind the headers: the request is handed on or its body comes next.
LEMMA BlankLine ==
  ASSUME NEW m, NEW rest, NEW later, NEW buf, NEW u, NEW fd, NEW taken, NEW ps,
         At(m, rest, later, buf, u), HasLine(buf), AtBlank(m, ps, rest),
         parseHeaderLine(fd, ps, LineOf(buf), taken)
  PROVE  Advances(fd, m, rest, later, buf, u, taken)
<1> DEFINE b == AfterLine(buf)
           n == Len(m.body)
           r == WithLength(m)
<1>1. /\ m \in Message /\ m.kind # "badLine" /\ Proper(m)
      /\ ps = ParseState("Headers", r, 0) /\ rest = <<"nl">> \o m.body
  BY DEF At, AtBlank, Proper
<1>2. /\ m.body \in Seq(Symbol) /\ n \in Nat
      /\ m.length \in Numbers \cup {"", "junk"}
      /\ m.length \in Numbers => n = stoul(m.length)
      /\ m.length \notin Numbers => n = 0
      /\ n = 0 => m.body = <<>>
  BY <1>1, Bodies
<1>3. Starts(<<>>, m.body, rest)
  BY <1>1, <1>2, BlankStarts
<1>4. LineOf(buf) = <<>> /\ Fits(<<>>, buf) /\ At(m, m.body, later, b, u)
  BY <1>3, LineTaken
<1>5. /\ r \in Request /\ r.length = m.length /\ r = WithBody(m, <<>>)
  BY <1>1, RequestTypes
<1>6. ps.request = r /\ ps.bodyRemaining = 0
  BY <1>1 DEF ParseState
<1>7. "junk" \notin Numbers \cup {""} /\ "" \notin Numbers
  BY DEF Numbers
<1>8. CASE m.length = "junk"
  <2>1. onHttpError(fd, taken)
    BY <1>4, <1>5, <1>6, <1>7, <1>8 DEF parseHeaderLine
  <2>2. Expected(m) = BadRequest
    BY <1>8 DEF Expected
  <2>3. Len(rest) <= Len(buf)
    <3>1. Len(rest) = 1
      <4>1. m.body = <<>>
        BY <1>2, <1>7, <1>8 DEF Numbers
      <4>2. Len(<<"nl">> \o <<>>) = 1
        OBVIOUS
      <4> QED BY <1>1, <4>1, <4>2
    <3>2. 0 + 1 <= Len(buf)
      <4>1. Len(<<>>) = 0
        OBVIOUS
      <4> QED BY <1>4, <4>1 DEF Fits
    <3> QED BY <3>1, <3>2
  <2> QED BY <2>1, <2>2, <2>3 DEF Advances, GivesUp
<1>9. CASE m.length # "junk" /\ n = 0
  <2>1. (IF r.length = "" THEN 0 ELSE stoul(r.length)) = 0
    BY <1>2, <1>5, <1>7, <1>9
  <2>2. dispatchRequest(fd, r, taken)
    BY <1>2, <1>4, <1>5, <1>6, <1>9, <2>1 DEF parseHeaderLine
  <2>3. m.body = <<>>
    BY <1>2, <1>9
  <2>4. Answered(r) = Expected(m)
    BY <1>1, <1>5, <1>9, <2>3, ExpectedRequest
  <2>5. b \in Seq(Symbol) /\ b \o u = later
    <3>1. b \in Seq(Symbol) /\ later \in Seq(Symbol) /\ b \o u = m.body \o later
      BY <1>4 DEF At
    <3>2. \A s \in Seq(Symbol) : <<>> \o s = s
      OBVIOUS
    <3> QED BY <2>3, <3>1, <3>2
  <2> HIDE DEF b, r
  <2>6. HandsOn(fd, m, later, u, taken, b)
    BY <1>5, <2>2, <2>4, <2>5 DEF HandsOn
  <2> QED BY <2>6 DEF Advances, b
<1>10. CASE m.length # "junk" /\ n # 0
  <2>1. m.length \in Numbers /\ m.length # ""
    BY <1>2, <1>7, <1>10
  <2>2. stoul(r.length) = n
    BY <1>2, <1>5, <2>1
  <2> DEFINE next == ParseState("Body", r, n)
  <2>3. Continue(fd, next, taken)
    <3>1. r.length \in Numbers \cup {""} /\ r.length # "" /\ stoul(r.length) # 0
      BY <1>5, <1>10, <2>1, <2>2
    <3>2. Continue(fd, ParseState("Body", r, stoul(r.length)), taken)
      <4>1. parseHeaderLine(fd, ps, <<>>, taken)
        BY <1>4
      <4> HIDE DEF r
      <4> QED BY <1>6, <3>1, <4>1 DEF parseHeaderLine
    <3> QED BY <2>2, <3>2
  <2>4. next \in State
    BY <1>2, <1>5 DEF ParseState, State
  <2>5. InBody(m, next, m.body)
    <3>1. m.body # <<>>
      <4>1. Len(<<>>) = 0
        OBVIOUS
      <4> QED BY <1>10, <4>1
    <3>2. <<>> \in Seq(Symbol) /\ <<>> \o m.body = m.body
      BY <1>2, NoLine, EmptyFirst
    <3> QED BY <1>1, <1>5, <1>10, <3>1, <3>2 DEF InBody
  <2> HIDE DEF next, b
  <2>6. GoesOn(fd, m, later, u, taken, b)
    BY <1>4, <2>3, <2>4, <2>5 DEF GoesOn, InMessage
  <2> QED BY <2>6 DEF Advances, b
<1> QED BY <1>8, <1>9, <1>10

\* The header with the length, when there is one.
LEMMA LengthTaken ==
  ASSUME NEW m, NEW rest, NEW later, NEW buf, NEW u, NEW fd, NEW taken, NEW ps,
         At(m, rest, later, buf, u), HasLine(buf), AtLength(m, ps, rest),
         parseHeaderLine(fd, ps, LineOf(buf), taken)
  PROVE  Advances(fd, m, rest, later, buf, u, taken)
<1> DEFINE blank == <<"nl">> \o m.body
<1>1. /\ m \in Message /\ m.kind # "badLine" /\ Proper(m)
      /\ ps = ParseState("Headers", WithConnection(m), 0) /\ rest = FromLength(m)
  BY DEF At, AtLength, Proper
<1>2. blank \in Seq(Symbol)
  BY <1>1, FromTypes
<1>3. FromLength(m) = Header(LengthHeader, m.length) \o blank
  BY DEF FromLength
<1> HIDE DEF blank
<1>4. CASE m.length = ""
  <2>1. rest = blank
    BY <1>1, <1>2, <1>3, <1>4, LengthLine, EmptyFirst
  <2>2. WithLength(m) = WithConnection(m)
    BY <1>1, <1>4, RequestTypes
  <2>3. AtBlank(m, ps, rest)
    BY <1>1, <2>1, <2>2 DEF AtBlank, blank
  <2> QED BY <2>3, BlankLine
<1>5. CASE m.length # ""
  <2>1. PICK h \in DOMAIN LengthHeader :
          /\ LengthHeader[h] = m.length
          /\ Header(LengthHeader, m.length) = <<h>> \o <<"nl">>
    BY <1>1, <1>5, LengthLine
  <2>2. rest = (<<h>> \o <<"nl">>) \o blank
    BY <1>1, <1>3, <2>1
  <2>3. /\ Continue(fd, ParseState("Headers", WithHeader(WithConnection(m), h), 0), taken)
        /\ At(m, blank, later, AfterLine(buf), u)
    BY <1>1, <1>2, <2>2, HeaderTaken
  <2>4. WithHeader(WithConnection(m), h) = WithLength(m)
    <3>1. h \notin DOMAIN ConnectionHeader
      BY DEF ConnectionHeader, LengthHeader
    <3> QED BY <2>1, <3>1 DEF WithHeader, WithLength
  <2>5. InMessage(m, ParseState("Headers", WithLength(m), 0), blank)
    BY <1>1 DEF InMessage, AtBlank, blank
  <2>6. ParseState("Headers", WithLength(m), 0) \in State
    BY <1>1, RequestTypes, HeadersState
  <2>7. GoesOn(fd, m, later, u, taken, AfterLine(buf))
    BY <2>3, <2>4, <2>5, <2>6 DEF GoesOn
  <2> QED BY <2>7 DEF Advances
<1> QED BY <1>4, <1>5

\* The first header.
LEMMA HeadersTaken ==
  ASSUME NEW m, NEW rest, NEW later, NEW buf, NEW u, NEW fd, NEW taken, NEW ps,
         At(m, rest, later, buf, u), HasLine(buf), AtHeaders(m, ps, rest),
         parseHeaderLine(fd, ps, LineOf(buf), taken)
  PROVE  Advances(fd, m, rest, later, buf, u, taken)
<1>1. /\ m \in Message /\ m.kind # "badLine"
      /\ ps = ParseState("Headers", WithLine(m), 0) /\ rest = FromHeaders(m)
  BY DEF At, AtHeaders
<1>2. CASE m.kind = "badHeader"
  BY <1>1, <1>2, BadHeader DEF Advances
<1>3. CASE m.kind # "badHeader"
  <2>1. /\ Proper(m) /\ FromLength(m) \in Seq(Symbol)
        /\ rest = Header(ConnectionHeader, m.connection) \o FromLength(m)
    BY <1>1, <1>3, FromTypes DEF Proper, Message, FromHeaders
  <2>2. CASE m.connection = ""
    <3>1. rest = FromLength(m)
      BY <1>1, <2>1, <2>2, ConnectionLine, EmptyFirst
    <3>2. WithConnection(m) = WithLine(m)
      BY <1>1, <2>2, RequestTypes
    <3>3. AtLength(m, ps, rest)
      BY <1>1, <2>1, <3>1, <3>2 DEF AtLength
    <3> QED BY <3>3, LengthTaken
  <2>3. CASE m.connection # ""
    <3>1. PICK h \in DOMAIN ConnectionHeader :
            /\ ConnectionHeader[h] = m.connection
            /\ Header(ConnectionHeader, m.connection) = <<h>> \o <<"nl">>
      BY <1>1, <2>3, ConnectionLine
    <3>2. rest = (<<h>> \o <<"nl">>) \o FromLength(m)
      BY <2>1, <3>1
    <3>3. /\ Continue(fd, ParseState("Headers", WithHeader(WithLine(m), h), 0), taken)
          /\ At(m, FromLength(m), later, AfterLine(buf), u)
      BY <1>1, <2>1, <3>2, HeaderTaken
    <3>4. WithHeader(WithLine(m), h) = WithConnection(m)
      <4>1. h \notin DOMAIN LengthHeader
        BY DEF ConnectionHeader, LengthHeader
      <4> QED BY <3>1, <4>1 DEF WithHeader, WithConnection
    <3>5. InMessage(m, ParseState("Headers", WithConnection(m), 0), FromLength(m))
      BY <2>1 DEF InMessage, AtLength
    <3>6. ParseState("Headers", WithConnection(m), 0) \in State
      BY <1>1, RequestTypes, HeadersState
    <3>7. GoesOn(fd, m, later, u, taken, AfterLine(buf))
      BY <3>3, <3>4, <3>5, <3>6 DEF GoesOn
    <3> QED BY <3>7 DEF Advances
  <2> QED BY <2>2, <2>3
<1> QED BY <1>2, <1>3

\* The first line, or the one behind a blank one.
LEMMA StartTaken ==
  ASSUME NEW m, NEW rest, NEW later, NEW buf, NEW u, NEW fd, NEW taken, NEW ps,
         At(m, rest, later, buf, u), HasLine(buf), AtStart(m, ps, rest),
         parseRequestLine(fd, ps, LineOf(buf), taken)
  PROVE  Advances(fd, m, rest, later, buf, u, taken)
<1>1. m \in Message /\ ps = NewParseState /\ rest \in {Serialize(m), FromLine(m)}
  BY DEF At, AtStart
<1>2. CASE m.kind = "afterBlank" /\ rest = Serialize(m)
  <2>1. rest = <<"nl">> \o FromLine(m)
    BY <1>1, <1>2, Serialized
  <2> QED BY <1>1, <1>2, <2>1, BlankFirst DEF Advances
<1>3. CASE rest = FromLine(m)
  BY <1>1, <1>3, BadLine, GoodLine DEF Advances
<1>4. rest = Serialize(m) /\ m.kind # "afterBlank" => rest = FromLine(m)
  BY <1>1, Serialized
<1> QED BY <1>1, <1>2, <1>3, <1>4

\* Any line.
LEMMA LineAdvances ==
  ASSUME NEW m, NEW rest, NEW later, NEW buf, NEW u, NEW fd, NEW taken, NEW ps,
         At(m, rest, later, buf, u), HasLine(buf), InMessage(m, ps, rest),
         ps.stage \in {"RequestLine", "Headers"},
         IF ps.stage = "RequestLine" THEN parseRequestLine(fd, ps, LineOf(buf), taken)
                                     ELSE parseHeaderLine(fd, ps, LineOf(buf), taken)
  PROVE  Advances(fd, m, rest, later, buf, u, taken)
<1>1. CASE AtStart(m, ps, rest)
  <2>1. ps.stage = "RequestLine"
    BY <1>1, Values DEF AtStart
  <2> QED BY <1>1, <2>1, StartTaken
<1>2. CASE AtHeaders(m, ps, rest) \/ AtLength(m, ps, rest) \/ AtBlank(m, ps, rest)
  <2>1. ps.stage = "Headers"
    BY <1>2 DEF AtHeaders, AtLength, AtBlank, ParseState
  <2>2. parseHeaderLine(fd, ps, LineOf(buf), taken)
    BY <2>1
  <2> QED BY <1>2, <2>2, HeadersTaken, LengthTaken, BlankLine
<1>3. ~ InBody(m, ps, rest)
  BY DEF InBody, ParseState
<1> QED BY <1>1, <1>2, <1>3 DEF InMessage

\* All of rest is in the buffer; or all of the buffer is in rest.
LEMMA RestInBuffer ==
  ASSUME NEW m, NEW rest, NEW later, NEW buf, NEW u,
         At(m, rest, later, buf, u), Len(rest) <= Len(buf)
  PROVE  /\ SubSeq(buf, 1, Len(rest)) = rest
         /\ Beyond(buf, rest) \in Seq(Symbol) /\ Beyond(buf, rest) \o u = later
<1>1. /\ rest \in Seq(Symbol) /\ buf \in Seq(Symbol)
      /\ u \in Seq(Symbol) /\ later \in Seq(Symbol) /\ buf \o u = rest \o later
  BY DEF At
<1> QED BY <1>1, LongerFronts

LEMMA BufferInRest ==
  ASSUME NEW m, NEW rest, NEW later, NEW buf, NEW u,
         At(m, rest, later, buf, u), ~ Len(rest) <= Len(buf)
  PROVE  LET left == Beyond(rest, buf)
         IN  /\ rest = buf \o left /\ Len(left) = Len(rest) - Len(buf) /\ left # <<>>
             /\ At(m, left, later, <<>>, u)
<1> DEFINE left == Beyond(rest, buf)
<1>1. /\ m \in Message /\ rest \in Seq(Symbol) /\ buf \in Seq(Symbol)
      /\ u \in Seq(Symbol) /\ later \in Seq(Symbol) /\ rest \o later = buf \o u
      /\ Len(rest) \in Nat /\ Len(buf) \in Nat /\ Len(buf) < Len(rest)
  BY DEF At
<1>2. /\ SubSeq(rest, 1, Len(buf)) = buf
      /\ left \in Seq(Symbol) /\ left \o later = u
  <2>1. At(m, buf, u, rest, later) /\ Len(buf) <= Len(rest)
    BY <1>1 DEF At
  <2> QED BY <2>1, RestInBuffer
<1>3. Len(left) = Len(rest) - Len(buf)
  BY <1>1 DEF Beyond
<1>4. rest = buf \o left
  <2>1. 1 \in 1..Len(rest) + 1 /\ Len(buf) \in (1 - 1)..Len(rest) /\ Len(rest) \in Len(buf)..Len(rest)
    BY <1>1
  <2>2. SubSeq(rest, 1, Len(buf)) \o SubSeq(rest, Len(buf) + 1, Len(rest)) = SubSeq(rest, 1, Len(rest))
    BY <1>1, <2>1, ConcatAdjacentSubSeq
  <2>3. SubSeq(rest, 1, Len(rest)) = rest
    BY <1>1, SubSeqFull
  <2> QED BY <1>2, <2>2, <2>3 DEF Beyond
<1> HIDE DEF left
<1>5. left # <<>>
  <2>1. Len(<<>>) = 0
    OBVIOUS
  <2> QED BY <1>1, <1>3, <2>1
<1>6. At(m, left, later, <<>>, u)
  BY <1>1, <1>2, NoLine, EmptyFirst DEF At
<1> QED BY <1>3, <1>4, <1>5, <1>6 DEF left

\* The parse state ps when b is what was taken of the body of m, and rest is left.
SoFar(m, ps, rest, b) ==
  /\ Proper(m) /\ m.length # "junk" /\ b \in Seq(Symbol)
  /\ ps = ParseState("Body", WithBody(m, b), Len(rest)) /\ b \o rest = m.body

\* A request with more of its body.
WithMore(request, part) == [request EXCEPT !.body = @ \o part]

LEMMA BodyState ==
  ASSUME NEW m \in Message, NEW ps, NEW rest, NEW b, SoFar(m, ps, rest, b)
  PROVE  /\ ps.bodyRemaining = Len(rest)
         /\ \A part : WithMore(ps.request, part) = WithBody(m, b \o part)
<1>1. ps.bodyRemaining = Len(rest) /\ ps.request = WithBody(m, b)
  BY DEF SoFar, ParseState
<1>2. WithBody(m, b) \in Request /\ WithBody(m, b).body = b
  BY RequestTypes DEF WithBody, Proper, Request, SoFar
<1>3. \A part : WithMore(WithBody(m, b), part) = WithBody(m, b \o part)
  BY <1>2 DEF WithBody, WithMore
<1> QED BY <1>1, <1>3

\* All of the body is there.
LEMMA BodyWhole ==
  ASSUME NEW m, NEW rest, NEW later, NEW buf, NEW u, NEW ps, NEW b,
         At(m, rest, later, buf, u), SoFar(m, ps, rest, b), Len(rest) <= Len(buf)
  PROVE  LET take == TakenForBody(buf, ps.bodyRemaining)
             request == WithMore(ps.request, SubSeq(buf, 1, take))
             left == SubSeq(buf, take + 1, Len(buf))
         IN  /\ ps.bodyRemaining - take = 0
             /\ request \in Request /\ Answered(request) = Expected(m)
             /\ left \in Seq(Symbol) /\ left \o u = later
<1> DEFINE take == TakenForBody(buf, ps.bodyRemaining)
           request == WithMore(ps.request, SubSeq(buf, 1, take))
           left == SubSeq(buf, take + 1, Len(buf))
<1>1. m \in Message /\ Len(rest) \in Nat /\ Len(buf) \in Nat
  BY DEF At
<1>2. /\ ps.bodyRemaining = Len(rest)
      /\ \A part : WithMore(ps.request, part) = WithBody(m, b \o part)
  BY <1>1, BodyState
<1>3. take = Len(rest)
  BY <1>1, <1>2 DEF TakenForBody, Min2
<1>4. SubSeq(buf, 1, take) = rest /\ left \in Seq(Symbol) /\ left \o u = later
  <2>1. /\ SubSeq(buf, 1, Len(rest)) = rest
        /\ Beyond(buf, rest) \in Seq(Symbol) /\ Beyond(buf, rest) \o u = later
    BY RestInBuffer
  <2> QED BY <1>3, <2>1 DEF Beyond
<1>5. request = WithBody(m, b \o rest)
  BY <1>2, <1>4
<1>6. Proper(m) /\ m.kind # "badLine" /\ m.length # "junk" /\ b \o rest = m.body
  BY DEF Proper, SoFar
<1>7. WithBody(m, m.body) \in Request /\ Answered(WithBody(m, m.body)) = Expected(m)
  BY <1>1, <1>6, RequestTypes, ExpectedRequest, Bodies
<1>8. ps.bodyRemaining - take = 0
  BY <1>1, <1>2, <1>3
<1> HIDE DEF take, request, left
<1>9. request \in Request /\ Answered(request) = Expected(m)
  BY <1>5, <1>6, <1>7
<1> QED BY <1>4, <1>8, <1>9 DEF take, request, left

\* A part of the body is there.
LEMMA BodyPart ==
  ASSUME NEW m, NEW rest, NEW later, NEW buf, NEW u, NEW ps, NEW b,
         At(m, rest, later, buf, u), SoFar(m, ps, rest, b), ~ Len(rest) <= Len(buf)
  PROVE  LET take == TakenForBody(buf, ps.bodyRemaining)
             request == WithMore(ps.request, SubSeq(buf, 1, take))
             remaining == ps.bodyRemaining - take
             next == ParseState("Body", request, remaining)
         IN  /\ remaining # 0
             /\ SubSeq(buf, take + 1, Len(buf)) = <<>>
             /\ next \in State
             /\ \E left : InMessage(m, next, left) /\ At(m, left, later, <<>>, u)
<1> DEFINE take == TakenForBody(buf, ps.bodyRemaining)
           request == WithMore(ps.request, SubSeq(buf, 1, take))
           remaining == ps.bodyRemaining - take
           next == ParseState("Body", request, remaining)
           left == Beyond(rest, buf)
           had == b \o buf
<1>1. /\ m \in Message /\ buf \in Seq(Symbol)
      /\ Len(rest) \in Nat /\ Len(buf) \in Nat /\ Len(buf) < Len(rest)
  BY DEF At
<1>2. /\ ps.bodyRemaining = Len(rest)
      /\ \A part : WithMore(ps.request, part) = WithBody(m, b \o part)
  BY <1>1, BodyState
<1>3. take = Len(buf)
  BY <1>1, <1>2 DEF TakenForBody, Min2
<1>4. SubSeq(buf, 1, take) = buf /\ SubSeq(buf, take + 1, Len(buf)) = <<>>
  <2> HIDE DEF take
  <2> QED BY <1>1, <1>3, SubSeqFull, SubSeqEmpty
<1>5. /\ rest = buf \o left /\ Len(left) = Len(rest) - Len(buf) /\ left # <<>>
      /\ At(m, left, later, <<>>, u)
  BY BufferInRest
<1>8. request = WithBody(m, had) /\ remaining = Len(left)
  BY <1>2, <1>3, <1>4, <1>5
<1> HIDE DEF left
<1>9. had \in Seq(Symbol) /\ had \o left = m.body
  <2>0. b \in Seq(Symbol) /\ left \in Seq(Symbol) /\ b \o rest = m.body
    BY <1>5 DEF SoFar, At
  <2>1. had \in Seq(Symbol)
    BY <1>1, <2>0
  <2>2. Joined(Joined(b, buf), left) = Joined(b, Joined(buf, left))
    BY <1>1, <2>0, JoinedInRow
  <2> QED BY <1>5, <2>0, <2>1, <2>2 DEF Joined
<1>10. remaining \in Nat /\ remaining # 0
  BY <1>1, <1>5, <1>8
<1> HIDE DEF had, take, request, remaining
<1>11. Proper(m) /\ m.kind # "badLine" /\ m.length # "junk"
  BY DEF Proper, SoFar
<1>12. next \in State
  <2>1. WithBody(m, had) \in Request
    BY <1>1, <1>9, <1>11, RequestTypes
  <2> QED BY <1>8, <1>10, <2>1 DEF ParseState, State
<1>13. InBody(m, next, left)
  BY <1>5, <1>8, <1>9, <1>11 DEF InBody
<1>14. \E rest2 : InMessage(m, next, rest2) /\ At(m, rest2, later, <<>>, u)
  BY <1>5, <1>13 DEF InMessage
<1> HIDE DEF next
<1> QED BY <1>4, <1>10, <1>12, <1>14 DEF next, take, request, remaining

-----------------------------------------------------------------------------
(* A connection whose bytes were framed as its script has them.            *)

\* What was not read yet of the stream.
Unread(script, read) == SubSeq(Stream(script), read + 1, Len(Stream(script)))

\* The first k messages came out as they should.
Right(k, script, events) ==
  k <= Len(events) /\ \A i \in 1..k : Wanted(events[i]) = Expected(script[i])

\* Nothing else came, and the parser is in the next message.
OnTrack(k, buf, ps, script, read, events) ==
  /\ Len(events) = k
  /\ k = Len(script) => buf \o Unread(script, read) = <<>>
  /\ k # Len(script) =>
       \E rest : /\ InMessage(script[k + 1], ps, rest)
                 /\ At(script[k + 1], rest, Later(script, k + 1), buf, Unread(script, read))

\* The last of them could not be read.
Derailed(k, script, read) ==
  k # 0 /\ Expected(script[k]) = BadRequest /\ Offset(script, k) <= read

Framing(buf, ps, script, read, events) ==
  /\ read <= Len(Stream(script))
  /\ \E k \in 0..Len(script) :
       /\ Right(k, script, events)
       /\ OnTrack(k, buf, ps, script, read, events) \/ Derailed(k, script, read)

LEMMA UnreadType ==
  ASSUME NEW script \in Seq(Message), NEW read \in Nat, read <= Len(Stream(script))
  PROVE  /\ Stream(script) \in Seq(Symbol) /\ Len(Stream(script)) \in Nat
         /\ Unread(script, read) \in Seq(Symbol)
         /\ Len(Unread(script, read)) = Len(Stream(script)) - read
<1> DEFINE s == Stream(script)
<1>1. s \in Seq(Symbol)
  BY TextsType
<1> HIDE DEF s
<1>2. Len(s) \in Nat /\ SubSeq(s, read + 1, Len(s)) \in Seq(Symbol)
  BY <1>1
<1>3. read <= Len(s) => Len(SubSeq(s, read + 1, Len(s))) = Len(s) - read
  BY <1>1, <1>2
<1> QED BY <1>1, <1>2, <1>3 DEF s, Unread

\* Of a message still to come.
LEMMA NextMessage ==
  ASSUME NEW script \in Seq(Message), NEW k \in 0..Len(script), k # Len(script)
  PROVE  /\ k + 1 \in 0..Len(script) /\ k \in Nat /\ Len(script) \in Nat
         /\ script[k + 1] \in Message
         /\ Serialize(script[k + 1]) \in Seq(Symbol)
         /\ Later(script, k + 1) \in Seq(Symbol)
         /\ Later(script, k) = Serialize(script[k + 1]) \o Later(script, k + 1)
<1>1. k + 1 \in 0..Len(script) /\ k \in Nat /\ Len(script) \in Nat
  OBVIOUS
<1>2. /\ script[k + 1] \in Message
      /\ Later(script, k) = Serialize(script[k + 1]) \o Later(script, k + 1)
  BY LaterParts
<1> QED BY <1>1, <1>2, SerializeType, LaterType

\* At the beginning of what is left.
LEMMA TrackStarts ==
  ASSUME NEW script \in Seq(Message), NEW k \in 0..Len(script), NEW events, NEW read,
         NEW b \in Seq(Symbol), Unread(script, read) \in Seq(Symbol),
         b \o Unread(script, read) = Later(script, k), Len(events) = k
  PROVE  OnTrack(k, b, NewParseState, script, read, events)
<1>1. ASSUME k = Len(script) PROVE b \o Unread(script, read) = <<>>
  BY <1>1, LaterParts
<1>2. ASSUME k # Len(script)
      PROVE  \E rest : /\ InMessage(script[k + 1], NewParseState, rest)
                       /\ At(script[k + 1], rest, Later(script, k + 1), b, Unread(script, read))
  <2> DEFINE m == script[k + 1]
  <2>1. /\ m \in Message /\ Serialize(m) \in Seq(Symbol) /\ Later(script, k + 1) \in Seq(Symbol)
        /\ Later(script, k) = Serialize(m) \o Later(script, k + 1)
    BY <1>2, NextMessage
  <2> HIDE DEF m
  <2>2. At(m, Serialize(m), Later(script, k + 1), b, Unread(script, read))
    BY <2>1 DEF At
  <2>3. InMessage(m, NewParseState, Serialize(m))
    BY DEF InMessage, AtStart
  <2> QED BY <2>2, <2>3 DEF m
<1> QED BY <1>1, <1>2 DEF OnTrack

\* A new connection.
LEMMA FramingStarts ==
  ASSUME NEW script \in Seq(Message)
  PROVE  Framing(<<>>, NewParseState, script, 0, <<>>)
<1>1. /\ Stream(script) \in Seq(Symbol) /\ 0 <= Len(Stream(script)) /\ 0 \in 0..Len(script)
      /\ Unread(script, 0) \in Seq(Symbol)
  BY UnreadType, TextsType
<1>2. Unread(script, 0) = Stream(script)
  <2> DEFINE s == Stream(script)
  <2>1. s \in Seq(Symbol)
    BY <1>1
  <2> HIDE DEF s
  <2>2. SubSeq(s, 0 + 1, Len(s)) = s
    BY <2>1, SubSeqFull
  <2> QED BY <2>2 DEF s, Unread
<1>3. <<>> \o Unread(script, 0) = Later(script, 0)
  BY <1>1, <1>2, EmptyFirst, LaterParts
<1>4. Len(<<>>) = 0 /\ <<>> \in Seq(Symbol)
  BY NoLine
<1>5. OnTrack(0, <<>>, NewParseState, script, 0, <<>>)
  BY <1>1, <1>3, <1>4, TrackStarts
<1>6. Right(0, script, <<>>)
  BY <1>4 DEF Right
<1> QED BY <1>1, <1>5, <1>6 DEF Framing

\* One more event.
LEMMA RightMore ==
  ASSUME NEW script \in Seq(Message), NEW k \in 0..Len(script), k # Len(script),
         NEW events \in Seq(Event), NEW e \in Event, Len(events) = k,
         Right(k, script, events), Wanted(e) = Expected(script[k + 1])
  PROVE  Len(Append(events, e)) = k + 1 /\ Right(k + 1, script, Append(events, e))
<1> DEFINE more == Append(events, e)
<1>1. /\ Len(more) = k + 1 /\ more[k + 1] = e /\ \A i \in 1..k : more[i] = events[i]
      /\ k \in Nat
  OBVIOUS
<1> HIDE DEF more
<1>2. \A i \in 1..(k + 1) : Wanted(more[i]) = Expected(script[i])
  BY <1>1 DEF Right
<1> QED BY <1>1, <1>2 DEF Right, more

\* The next message is handed on.
LEMMA FramingHandsOn ==
  ASSUME NEW script \in Seq(Message), NEW k \in 0..Len(script), k # Len(script),
         NEW read \in Nat, read <= Len(Stream(script)),
         NEW events \in Seq(Event), NEW e \in Event, Len(events) = k,
         Right(k, script, events), Wanted(e) = Expected(script[k + 1]),
         NEW b \in Seq(Symbol), b \o Unread(script, read) = Later(script, k + 1)
  PROVE  Framing(b, NewParseState, script, read, Append(events, e))
<1>1. Len(Append(events, e)) = k + 1 /\ Right(k + 1, script, Append(events, e))
  BY RightMore
<1>2. k + 1 \in 0..Len(script) /\ Unread(script, read) \in Seq(Symbol)
  BY UnreadType, NextMessage
<1>3. OnTrack(k + 1, b, NewParseState, script, read, Append(events, e))
  BY <1>1, <1>2, TrackStarts
<1> QED BY <1>1, <1>2, <1>3 DEF Framing

\* How much was read, when the parser is in a message.
LEMMA ReadSoFar ==
  ASSUME NEW script \in Seq(Message), NEW k \in 0..Len(script), k # Len(script),
         NEW read \in Nat, read <= Len(Stream(script)), NEW rest, NEW buf,
         At(script[k + 1], rest, Later(script, k + 1), buf, Unread(script, read))
  PROVE  /\ Offset(script, k + 1) \in Nat /\ Len(rest) \in Nat /\ Len(buf) \in Nat
         /\ read = Offset(script, k + 1) + Len(buf) - Len(rest)
<1> DEFINE u == Unread(script, read)
           t == Later(script, k + 1)
<1>1. /\ buf \in Seq(Symbol) /\ rest \in Seq(Symbol) /\ u \in Seq(Symbol) /\ t \in Seq(Symbol)
      /\ buf \o u = rest \o t
  BY DEF At
<1>2. k + 1 \in 0..Len(script)
  BY NextMessage
<1>3. Offset(script, k + 1) + Len(t) = Len(Stream(script)) /\ Offset(script, k + 1) \in Nat
  BY <1>2, Offsets, LaterType
<1>4. Len(u) = Len(Stream(script)) - read /\ Len(Stream(script)) \in Nat
  BY UnreadType
<1> HIDE DEF u, t
<1>5. /\ Len(buf) \in Nat /\ Len(rest) \in Nat /\ Len(u) \in Nat /\ Len(t) \in Nat
      /\ Len(buf) + Len(u) = Len(rest) + Len(t)
  <2>1. \A p, q \in Seq(Symbol) : Len(p) \in Nat /\ Len(p \o q) = Len(p) + Len(q)
    OBVIOUS
  <2> QED BY <1>1, <2>1
<1> DEFINE before == Offset(script, k + 1)
           all == Len(Stream(script))
           inBuf == Len(buf)
           inRest == Len(rest)
           unread == Len(u)
           later == Len(t)
<1>6. /\ before \in Nat /\ all \in Nat /\ inBuf \in Nat /\ inRest \in Nat
      /\ unread \in Nat /\ later \in Nat
      /\ before + later = all /\ unread = all - read /\ inBuf + unread = inRest + later
  BY <1>3, <1>4, <1>5
<1> HIDE DEF before, all, inBuf, inRest, unread, later
<1>7. read = before + inBuf - inRest
  BY <1>6
<1> QED BY <1>6, <1>7 DEF before, inBuf, inRest

\* The next message cannot be read.
LEMMA FramingFails ==
  ASSUME NEW script \in Seq(Message), NEW k \in 0..Len(script), k # Len(script),
         NEW read \in Nat, read <= Len(Stream(script)),
         NEW events \in Seq(Event), Len(events) = k, Right(k, script, events),
         NEW rest, NEW buf, Len(rest) <= Len(buf), Expected(script[k + 1]) = BadRequest,
         At(script[k + 1], rest, Later(script, k + 1), buf, Unread(script, read))
  PROVE  \A b, ps : Framing(b, ps, script, read, Append(events, BadRequest))
<1>1. BadRequest \in Event /\ Wanted(BadRequest) = BadRequest
  BY Values DEF Wanted, BadRequest
<1>2. Right(k + 1, script, Append(events, BadRequest))
  BY <1>1, RightMore
<1>3. Offset(script, k + 1) <= read
  BY ReadSoFar
<1>4. k + 1 \in 0..Len(script) /\ k + 1 # 0
  BY NextMessage
<1>5. Derailed(k + 1, script, read)
  BY <1>3, <1>4 DEF Derailed
<1> QED BY <1>2, <1>4, <1>5 DEF Framing

\* Whatever comes after a message that could not be read.
LEMMA FramingDerailed ==
  ASSUME NEW script, NEW k \in 0..Len(script), NEW read, NEW events \in Seq(Event),
         read <= Len(Stream(script)), Len(script) \in Nat,
         Right(k, script, events), Derailed(k, script, read)
  PROVE  \A b, ps : /\ Framing(b, ps, script, read, events)
                    /\ \A e \in Event : Framing(b, ps, script, read, Append(events, e))
<1>1. ASSUME NEW e \in Event PROVE Right(k, script, Append(events, e))
  <2>1. /\ Len(events) <= Len(Append(events, e)) /\ Len(events) \in Nat
        /\ Len(Append(events, e)) \in Nat
        /\ \A i \in 1..Len(events) : Append(events, e)[i] = events[i]
    OBVIOUS
  <2> QED BY <2>1 DEF Right
<1> QED BY <1>1 DEF Framing

\* More of the stream is read.
LEMMA FramingReads ==
  ASSUME NEW script \in Seq(Message), NEW read \in Nat, NEW buf \in Seq(Symbol),
         NEW n \in 1..(Len(Stream(script)) - read), NEW ps, NEW events,
         Framing(buf, ps, script, read, events)
  PROVE  Framing(buf \o SubSeq(Stream(script), read + 1, read + n), ps, script, read + n, events)
<1> DEFINE s == Stream(script)
           chunk == SubSeq(s, read + 1, read + n)
           more == buf \o chunk
<1>1. s \in Seq(Symbol) /\ Len(s) \in Nat /\ read <= Len(s)
  BY TextsType DEF Framing
<1>2. n \in Nat /\ read + n \in Nat /\ read + n <= Len(s)
  BY <1>1
<1>3. Unread(script, read) \in Seq(Symbol) /\ Unread(script, read + n) \in Seq(Symbol)
  BY <1>1, <1>2, UnreadType
<1>4. chunk \in Seq(Symbol) /\ chunk \o Unread(script, read + n) = Unread(script, read)
  <2> HIDE DEF s
  <2>1. chunk \in Seq(Symbol)
    BY <1>1, <1>2
  <2>2. /\ read + 1 \in 1..Len(s) + 1 /\ read + n \in (read + 1 - 1)..Len(s)
        /\ Len(s) \in (read + n)..Len(s)
    BY <1>1, <1>2
  <2>3. chunk \o SubSeq(s, read + n + 1, Len(s)) = SubSeq(s, read + 1, Len(s))
    BY <1>1, <2>2, ConcatAdjacentSubSeq
  <2> QED BY <2>1, <2>3 DEF s, Unread
<1> HIDE DEF chunk, s
<1>5. more \in Seq(Symbol) /\ more \o Unread(script, read + n) = buf \o Unread(script, read)
  <2>1. more \in Seq(Symbol)
    BY <1>4
  <2>2. Joined(Joined(buf, chunk), Unread(script, read + n))
          = Joined(buf, Joined(chunk, Unread(script, read + n)))
    BY <1>3, <1>4, JoinedInRow
  <2> QED BY <1>4, <2>1, <2>2 DEF Joined
<1> HIDE DEF more
<1>6. PICK k \in 0..Len(script) :
        /\ Right(k, script, events)
        /\ OnTrack(k, buf, ps, script, read, events) \/ Derailed(k, script, read)
  BY DEF Framing
<1>7. CASE OnTrack(k, buf, ps, script, read, events)
  <2>1. \A m, rest, later :
          At(m, rest, later, buf, Unread(script, read))
            => At(m, rest, later, more, Unread(script, read + n))
    BY <1>3, <1>5 DEF At
  <2>2. OnTrack(k, more, ps, script, read + n, events)
    BY <1>5, <1>7, <2>1 DEF OnTrack
  <2> QED BY <1>2, <1>6, <2>2 DEF Framing, s, more, chunk
<1>8. CASE Derailed(k, script, read)
  <2>1. Offset(script, k) \in Nat
    BY LaterType
  <2>2. Derailed(k, script, read + n)
    BY <1>2, <1>8, <2>1 DEF Derailed
  <2> QED BY <1>2, <1>6, <2>2 DEF Framing, s, more, chunk
<1> QED BY <1>6, <1>7, <1>8

\* What a line, or a part of a body, comes to, with b left in the buffer: the
\* framing is as before, whichever way it goes.
Outcome(fd, taken, b, script, read, events) ==
  \/ \E ps \in State : Continue(fd, ps, taken) /\ Framing(b, ps, script, read, events)
  \/ /\ onHttpError(fd, taken)
     /\ \A ps \in State : Framing(b, ps, script, read, Append(events, BadRequest))
  \/ \E request \in Request :
       /\ dispatchRequest(fd, request, taken)
       /\ \A e \in {Answered(request), Unanswered(request)} :
            Framing(b, NewParseState, script, read, Append(events, e))

\* One of the three.
Comes(fd, taken) ==
  \/ \E ps \in State : Continue(fd, ps, taken)
  \/ onHttpError(fd, taken)
  \/ \E request \in Request : dispatchRequest(fd, request, taken)

\* After a message that could not be read it does not matter which.
LEMMA OutcomeDerailed ==
  ASSUME NEW fd, NEW taken, NEW b, NEW script, NEW k \in 0..Len(script), NEW read,
         NEW events \in Seq(Event), read <= Len(Stream(script)), Len(script) \in Nat,
         Right(k, script, events), Derailed(k, script, read), Comes(fd, taken)
  PROVE  Outcome(fd, taken, b, script, read, events)
<1>1. \A c, ps : /\ Framing(c, ps, script, read, events)
                 /\ \A e \in Event : Framing(c, ps, script, read, Append(events, e))
  BY FramingDerailed
<1>2. BadRequest \in Event /\ \A r \in Request : Answered(r) \in Event /\ Unanswered(r) \in Event
  BY Values
<1> QED BY <1>1, <1>2 DEF Comes, Outcome

\* In a message, what the code does about it is right.
LEMMA OutcomeOnTrack ==
  ASSUME NEW fd, NEW taken, NEW b, NEW script \in Seq(Message), NEW k \in 0..Len(script),
         NEW read \in Nat, read <= Len(Stream(script)), k # Len(script),
         NEW events \in Seq(Event), Len(events) = k, Right(k, script, events),
         NEW rest, NEW buf,
         At(script[k + 1], rest, Later(script, k + 1), buf, Unread(script, read)),
         \/ GoesOn(fd, script[k + 1], Later(script, k + 1), Unread(script, read), taken, b)
         \/ GivesUp(fd, script[k + 1], rest, buf, taken)
         \/ HandsOn(fd, script[k + 1], Later(script, k + 1), Unread(script, read), taken, b)
  PROVE  Outcome(fd, taken, b, script, read, events)
<1> DEFINE m == script[k + 1]
           t == Later(script, k + 1)
           u == Unread(script, read)
<1>1. CASE GoesOn(fd, m, t, u, taken, b)
  <2>1. PICK ps \in State : \E left : /\ InMessage(m, ps, left) /\ Continue(fd, ps, taken)
                                      /\ At(m, left, t, b, u)
    BY <1>1 DEF GoesOn
  <2>2. OnTrack(k, b, ps, script, read, events)
    BY <2>1 DEF OnTrack
  <2>3. Framing(b, ps, script, read, events)
    BY <2>2 DEF Framing
  <2> QED BY <2>1, <2>3 DEF Outcome
<1>2. CASE GivesUp(fd, m, rest, buf, taken)
  <2>1. onHttpError(fd, taken) /\ Expected(m) = BadRequest /\ Len(rest) <= Len(buf)
    BY <1>2 DEF GivesUp
  <2>2. \A c, ps : Framing(c, ps, script, read, Append(events, BadRequest))
    BY <2>1, FramingFails
  <2> QED BY <2>1, <2>2 DEF Outcome
<1>3. CASE HandsOn(fd, m, t, u, taken, b)
  <2>1. PICK request \in Request :
          /\ dispatchRequest(fd, request, taken) /\ Answered(request) = Expected(m)
          /\ b \in Seq(Symbol) /\ b \o u = t
    BY <1>3 DEF HandsOn
  <2>2. ASSUME NEW e \in {Answered(request), Unanswered(request)}
        PROVE  Framing(b, NewParseState, script, read, Append(events, e))
    <3>1. e \in Event
      BY Values
    <3>2. Wanted(e) = Expected(m)
      BY <2>1 DEF Wanted, Answered, Unanswered
    <3> QED BY <2>1, <3>1, <3>2, FramingHandsOn
  <2> QED BY <2>1, <2>2 DEF Outcome
<1> QED BY <1>1, <1>2, <1>3

LEMMA LineComes ==
  ASSUME NEW fd, NEW ps \in State, NEW line \in Seq(Symbol), NEW taken,
         parseRequestLine(fd, ps, line, taken) \/ parseHeaderLine(fd, ps, line, taken)
  PROVE  Comes(fd, taken)
<1>1. ps.request \in Request /\ ps.bodyRemaining \in Nat
  BY DEF State
<1>2. CASE parseRequestLine(fd, ps, line, taken)
  <2> DEFINE request == [ps.request EXCEPT !.method = line[1], !.version = line[3]]
             next == ParseState("Headers", request, ps.bodyRemaining)
  <2>1. ASSUME ~ Len(line) < 3 PROVE next \in State
    <3>1. line[1] \in Symbol /\ line[3] \in Symbol
      BY <2>1
    <3>2. request \in Request
      BY <1>1, <3>1 DEF Request
    <3> HIDE DEF request
    <3> QED BY <1>1, <3>2 DEF ParseState, State
  <2>2. Continue(fd, ps, taken) \/ onHttpError(fd, taken)
        \/ (~ Len(line) < 3 /\ Continue(fd, next, taken))
    BY <1>2 DEF parseRequestLine
  <2> HIDE DEF next
  <2> QED BY <2>1, <2>2 DEF Comes
<1>3. CASE parseHeaderLine(fd, ps, line, taken)
  <2> DEFINE length == ps.request.length
             body == IF length = "" THEN ps.bodyRemaining ELSE stoul(length)
             with == [ps EXCEPT !.request = WithHeader(ps.request, line[1])]
             bodied == ParseState("Body", ps.request, body)
  <2>1. \/ Continue(fd, with, taken) \/ onHttpError(fd, taken)
        \/ dispatchRequest(fd, ps.request, taken)
        \/ length \in Numbers \cup {""} /\ Continue(fd, bodied, taken)
    BY <1>3 DEF parseHeaderLine
  <2>2. with \in State
    BY <1>1, WithHeaderType DEF State
  <2>3. ASSUME length \in Numbers \cup {""} PROVE bodied \in State
    <3>1. body \in Nat
      BY <1>1, <2>3 DEF stoul, Numbers
    <3> HIDE DEF body
    <3> QED BY <1>1, <3>1 DEF ParseState, State
  <2> HIDE DEF with, bodied
  <2> QED BY <1>1, <2>1, <2>2, <2>3 DEF Comes
<1> QED BY <1>2, <1>3

\* One line.
LEMMA LineOutcome ==
  ASSUME NEW fd, NEW taken, NEW script \in Seq(Message), NEW read \in Nat,
         NEW events \in Seq(Event), NEW ps \in State, NEW buf \in Seq(Symbol), HasLine(buf),
         Framing(buf, ps, script, read, events), ps.stage \in {"RequestLine", "Headers"},
         IF ps.stage = "RequestLine" THEN parseRequestLine(fd, ps, LineOf(buf), taken)
                                     ELSE parseHeaderLine(fd, ps, LineOf(buf), taken)
  PROVE  Outcome(fd, taken, AfterLine(buf), script, read, events)
<1>1. PICK k \in 0..Len(script) :
        /\ read <= Len(Stream(script)) /\ Right(k, script, events)
        /\ OnTrack(k, buf, ps, script, read, events) \/ Derailed(k, script, read)
  BY DEF Framing
<1>2. CASE Derailed(k, script, read)
  <2>1. Comes(fd, taken)
    <3>1. LineOf(buf) \in Seq(Symbol)
      BY LineEnds DEF LineOf
    <3> QED BY <3>1, LineComes
  <2>2. Len(script) \in Nat
    OBVIOUS
  <2> QED BY <1>1, <1>2, <2>1, <2>2, OutcomeDerailed
<1>3. CASE OnTrack(k, buf, ps, script, read, events)
  <2>1. k # Len(script)
    <3>1. ASSUME k = Len(script) PROVE FALSE
      <4>1. buf \o Unread(script, read) = <<>> /\ Unread(script, read) \in Seq(Symbol)
        BY <1>1, <1>3, <3>1, UnreadType DEF OnTrack
      <4>2. Len(buf) = 0
        <5>1. \A p, q \in Seq(Symbol) : p \o q = <<>> => Len(p) = 0
          OBVIOUS
        <5> QED BY <4>1, <5>1
      <4> QED BY <4>2 DEF HasLine
    <3> QED BY <3>1
  <2>2. PICK rest : /\ InMessage(script[k + 1], ps, rest)
                    /\ At(script[k + 1], rest, Later(script, k + 1), buf, Unread(script, read))
    BY <1>3, <2>1 DEF OnTrack
  <2>3. Advances(fd, script[k + 1], rest, Later(script, k + 1), buf, Unread(script, read), taken)
    BY <2>2, LineAdvances
  <2>4. Len(events) = k
    BY <1>3 DEF OnTrack
  <2> QED BY <1>1, <2>1, <2>2, <2>3, <2>4, OutcomeOnTrack DEF Advances
<1> QED BY <1>1, <1>2, <1>3

\* As much of a body as the buffer has.
BodyStep(fd, ps, buf, taken) ==
  LET take == TakenForBody(buf, ps.bodyRemaining)
      request == WithMore(ps.request, SubSeq(buf, 1, take))
      remaining == ps.bodyRemaining - take
  IN  IF remaining = 0 THEN dispatchRequest(fd, request, taken)
      ELSE Continue(fd, ParseState("Body", request, remaining), taken)

BodyLeft(ps, buf) ==
  SubSeq(buf, TakenForBody(buf, ps.bodyRemaining) + 1, Len(buf))

LEMMA BodyComes ==
  ASSUME NEW fd, NEW taken, NEW ps \in State, NEW buf \in Seq(Symbol), BodyStep(fd, ps, buf, taken)
  PROVE  Comes(fd, taken)
<1> DEFINE take == TakenForBody(buf, ps.bodyRemaining)
           part == SubSeq(buf, 1, take)
           request == WithMore(ps.request, part)
           remaining == ps.bodyRemaining - take
           next == ParseState("Body", request, remaining)
<1>1. /\ ps.request \in Request /\ ps.bodyRemaining \in Nat /\ Len(buf) \in Nat
      /\ ps.request.body \in Seq(Symbol)
  <2>1. ps.request \in Request /\ ps.bodyRemaining \in Nat /\ Len(buf) \in Nat
    BY DEF State
  <2> QED BY <2>1 DEF Request
<1>2. take \in 0..Len(buf) /\ take <= ps.bodyRemaining
  BY <1>1 DEF TakenForBody, Min2
<1>3. dispatchRequest(fd, request, taken) \/ Continue(fd, next, taken)
  BY DEF BodyStep
<1> HIDE DEF take
<1>4. part \in Seq(Symbol) /\ remaining \in Nat
  BY <1>1, <1>2
<1> HIDE DEF part, remaining
<1>5. ps.request.body \o part \in Seq(Symbol)
  BY <1>1, <1>4
<1>6. request \in Request
  BY <1>1, <1>5 DEF WithMore, Request
<1> HIDE DEF request
<1>7. next \in State
  BY <1>4, <1>6 DEF ParseState, State
<1> HIDE DEF next
<1> QED BY <1>3, <1>6, <1>7 DEF Comes

\* Nothing is left of the buffer when some of the body is still to come.
LEMMA BodyDrains ==
  ASSUME NEW ps \in State, NEW buf \in Seq(Symbol),
         ps.bodyRemaining - TakenForBody(buf, ps.bodyRemaining) # 0
  PROVE  BodyLeft(ps, buf) = <<>>
<1> DEFINE take == TakenForBody(buf, ps.bodyRemaining)
<1>1. ps.bodyRemaining \in Nat /\ Len(buf) \in Nat
  BY DEF State
<1>2. take = Len(buf)
  BY <1>1 DEF TakenForBody, Min2
<1>3. SubSeq(buf, Len(buf) + 1, Len(buf)) = <<>>
  BY <1>1, SubSeqEmpty
<1> QED BY <1>2, <1>3 DEF BodyLeft

LEMMA BodyAdvances ==
  ASSUME NEW m, NEW rest, NEW later, NEW buf, NEW u, NEW fd, NEW taken, NEW ps,
         At(m, rest, later, buf, u), InBody(m, ps, rest), BodyStep(fd, ps, buf, taken)
  PROVE  \/ GoesOn(fd, m, later, u, taken, BodyLeft(ps, buf))
         \/ HandsOn(fd, m, later, u, taken, BodyLeft(ps, buf))
<1> DEFINE take == TakenForBody(buf, ps.bodyRemaining)
           request == WithMore(ps.request, SubSeq(buf, 1, take))
           remaining == ps.bodyRemaining - take
           next == ParseState("Body", request, remaining)
           left == BodyLeft(ps, buf)
<1>1. PICK b : SoFar(m, ps, rest, b)
  BY DEF InBody, SoFar
<1>2. IF remaining = 0 THEN dispatchRequest(fd, request, taken) ELSE Continue(fd, next, taken)
  BY DEF BodyStep
<1>3. CASE Len(rest) <= Len(buf)
  <2>1. /\ remaining = 0 /\ request \in Request /\ Answered(request) = Expected(m)
        /\ left \in Seq(Symbol) /\ left \o u = later
    BY <1>1, <1>3, BodyWhole DEF BodyLeft
  <2> HIDE DEF request, remaining, left, next
  <2>2. HandsOn(fd, m, later, u, taken, left)
    BY <1>2, <2>1 DEF HandsOn
  <2> QED BY <2>2 DEF left
<1>4. CASE ~ Len(rest) <= Len(buf)
  <2>1. /\ remaining # 0 /\ left = <<>> /\ next \in State
        /\ \E more : InMessage(m, next, more) /\ At(m, more, later, <<>>, u)
    BY <1>1, <1>4, BodyPart DEF BodyLeft
  <2> HIDE DEF request, remaining, left, next
  <2>2. GoesOn(fd, m, later, u, taken, left)
    BY <1>2, <2>1 DEF GoesOn
  <2> QED BY <2>2 DEF left
<1> QED BY <1>3, <1>4

LEMMA BodyOutcome ==
  ASSUME NEW fd, NEW taken, NEW script \in Seq(Message), NEW read \in Nat,
         NEW events \in Seq(Event), NEW ps \in State, NEW buf \in Seq(Symbol), buf # <<>>,
         Framing(buf, ps, script, read, events), ps.stage = "Body", BodyStep(fd, ps, buf, taken)
  PROVE  Outcome(fd, taken, BodyLeft(ps, buf), script, read, events)
<1>1. PICK k \in 0..Len(script) :
        /\ read <= Len(Stream(script)) /\ Right(k, script, events)
        /\ OnTrack(k, buf, ps, script, read, events) \/ Derailed(k, script, read)
  BY DEF Framing
<1>2. CASE Derailed(k, script, read)
  <2>1. Comes(fd, taken)
    BY BodyComes
  <2>2. Len(script) \in Nat
    OBVIOUS
  <2> QED BY <1>1, <1>2, <2>1, <2>2, OutcomeDerailed
<1>3. CASE OnTrack(k, buf, ps, script, read, events)
  <2>1. k # Len(script)
    <3>1. ASSUME k = Len(script) PROVE FALSE
      <4>1. buf \o Unread(script, read) = <<>> /\ Unread(script, read) \in Seq(Symbol)
        BY <1>1, <1>3, <3>1, UnreadType DEF OnTrack
      <4>2. Len(buf) = 0
        <5>1. \A p, q \in Seq(Symbol) : p \o q = <<>> => Len(p) = 0
          OBVIOUS
        <5> QED BY <4>1, <5>1
      <4>3. \A p \in Seq(Symbol) : Len(p) = 0 => p = <<>>
        OBVIOUS
      <4> QED BY <4>2, <4>3
    <3> QED BY <3>1
  <2>2. PICK rest : /\ InMessage(script[k + 1], ps, rest)
                    /\ At(script[k + 1], rest, Later(script, k + 1), buf, Unread(script, read))
    BY <1>3, <2>1 DEF OnTrack
  <2>3. InBody(script[k + 1], ps, rest)
    <3>1. ~ AtStart(script[k + 1], ps, rest)
      BY Values DEF AtStart
    <3>2. /\ ~ AtHeaders(script[k + 1], ps, rest) /\ ~ AtLength(script[k + 1], ps, rest)
          /\ ~ AtBlank(script[k + 1], ps, rest)
      BY DEF AtHeaders, AtLength, AtBlank, ParseState
    <3> QED BY <2>2, <3>1, <3>2 DEF InMessage
  <2>4. \/ GoesOn(fd, script[k + 1], Later(script, k + 1), Unread(script, read), taken,
                  BodyLeft(ps, buf))
        \/ HandsOn(fd, script[k + 1], Later(script, k + 1), Unread(script, read), taken,
                   BodyLeft(ps, buf))
    BY <2>2, <2>3, BodyAdvances
  <2>5. Len(events) = k
    BY <1>3 DEF OnTrack
  <2> QED BY <1>1, <2>1, <2>2, <2>4, <2>5, OutcomeOnTrack
<1> QED BY <1>1, <1>2, <1>3

-----------------------------------------------------------------------------
(* The framing of every connection is an invariant.                        *)

FramedAt(fd) ==
  Framing(clients[fd].recvBuf, parseStates[fd], net[ConnOf(fd)].script, net[ConnOf(fd)].read,
          log[ConnOf(fd)])

\* onRawData() has nothing to do.
Waiting(buf, ps) == buf = <<>> \/ (ps.stage # "Body" /\ ~HasLine(buf))

Served(fd) ==
  FramedAt(fd) /\ (parsing # fd => Waiting(clients[fd].recvBuf, parseStates[fd]))

Framed == \A fd \in Live(clients) : Served(fd)

\* The entries of a descriptor in the table and of its connection.
LEMMA EntryTypes ==
  ASSUME TypeOK, NEW fd \in Live(clients)
  PROVE  /\ clients[fd].recvBuf \in Seq(Symbol) /\ parseStates[fd] \in State
         /\ ConnOf(fd) \in Conn /\ net[ConnOf(fd)].script \in Seq(Message)
         /\ net[ConnOf(fd)].read \in Nat /\ log[ConnOf(fd)] \in Seq(Event)
<1>1. /\ ConnOf(fd) \in Conn /\ clients[fd] \in Entry /\ parseStates[fd] \in State
      /\ net[ConnOf(fd)] \in End /\ log[ConnOf(fd)] \in Seq(Event)
  BY LiveTypes
<1> QED BY <1>1, ScriptsAssumption DEF Entry, End

LEMMA OthersServed ==
  ASSUME Inv, Framed, NEW fd \in Fd, Touches(fd), parsing \in {fd, NoFd},
         fd \in Live(clients)' => Served(fd)'
  PROVE  Framed'
<1>1. ASSUME NEW g \in Live(clients)', g # fd PROVE Served(g)'
  <2>1. /\ g \in Live(clients) /\ clients'[g] = clients[g] /\ parseStates'[g] = parseStates[g]
        /\ ConnOf(g)' = ConnOf(g) /\ net'[ConnOf(g)] = net[ConnOf(g)]
        /\ log'[ConnOf(g)] = log[ConnOf(g)]
    BY <1>1, InvParts, OthersSame DEF Inv, Standing
  <2>2. Served(g) /\ g \in Nat
    BY <2>1, FdAssumption DEF Framed, Inv, TypeOK, Live
  <2>3. parsing # g
    BY <1>1, <2>2 DEF NoFd
  <2> QED BY <2>1, <2>2, <2>3 DEF Served, FramedAt
<1> QED BY <1>1 DEF Framed

\* The new client.
LEMMA AcceptServes ==
  ASSUME Inv, Framed, NEW c \in Conn, Accept(c)
  PROVE  Framed'
<1>0. TypeOK /\ Sound /\ Tables
  BY InvParts DEF Inv, Standing, Sound
<1>1. PICK fd \in Fd : Admits(fd, c)
  BY <1>0, AcceptAdmits
<1> DEFINE end == [net[c] EXCEPT !.at = "open"]
<1>2. /\ NewClient(c) \in Entry /\ NewParseState \in State /\ end \in End
      /\ log[c] \in Seq(Event) /\ net[c] \in End
  BY <1>0, Values DEF Tables, End
<1>3. end.script = net[c].script /\ end.read = net[c].read
  BY <1>2 DEF End
<1>4. Changed(fd, NewClient(c), NewParseState, c, end, log[c])
  <2>1. Sets(fd, NewClient(c), NewParseState, c, end, log[c])
    BY <1>1 DEF Admits
  <2> HIDE DEF end
  <2> QED BY <1>0, <1>2, <2>1, EntryByEntry
<1>5. net[c].read = 0 /\ log[c] = <<>>
  BY <1>0, <1>1 DEF Admits, Sound, Fresh
<1>6. NewClient(c).recvBuf = <<>> /\ NewClient(c).remoteAddr = c
  BY DEF NewClient
<1>7. net[c].script \in Seq(Message)
  BY <1>2, ScriptsAssumption DEF End
<1> HIDE DEF end
<1>8. /\ clients'[fd].recvBuf = <<>> /\ parseStates'[fd] = NewParseState /\ ConnOf(fd)' = c
      /\ net'[c].script = net[c].script /\ net'[c].read = 0 /\ log'[c] = <<>>
  BY <1>3, <1>4, <1>5, <1>6 DEF Changed, ConnOf
<1>9. Served(fd)'
  BY <1>7, <1>8, FramingStarts DEF Served, FramedAt, Waiting
<1>10. Touches(fd)
  BY <1>1 DEF Touches
<1>11. parsing = NoFd
  BY DEF Accept, AtLoop
<1> QED BY <1>9, <1>10, <1>11, OthersServed

\* What is read is still in order.
LEMMA ReadServes ==
  ASSUME Inv, Framed, NEW fd \in Fd, ReadChunk(fd)
  PROVE  Framed'
<1> DEFINE c == ConnOf(fd)
           script == net[c].script
           read == net[c].read
<1>0. TypeOK /\ Matched
  BY DEF Inv
<1>1. fd \in Live(clients) /\ Works(fd)
  BY <1>0, Reads
<1>2. /\ clients[fd].recvBuf \in Seq(Symbol) /\ c \in Conn /\ script \in Seq(Message)
      /\ read \in Nat /\ fd \in Fd /\ clients[fd] \in Entry /\ net[c] \in End
  BY <1>0, <1>1, EntryTypes, LiveTypes
<1>3. PICK n \in 1..(Len(Stream(script)) - read) :
        /\ clients' = received(clients, fd, SubSeq(Stream(script), read + 1, read + n))
        /\ net' = [net EXCEPT ![c].read = @ + n]
  BY DEF ReadChunk
<1> DEFINE b == clients[fd].recvBuf \o SubSeq(Stream(script), read + 1, read + n)
<1>4. /\ clients'[fd].recvBuf = b /\ clients'[fd].remoteAddr = clients[fd].remoteAddr
  BY <1>0, <1>2, <1>3 DEF received, TypeOK, Entry
<1>5. net'[c].script = script /\ net'[c].read = read + n
  BY <1>0, <1>2, <1>3 DEF TypeOK, End
<1>6. parseStates' = parseStates /\ log' = log /\ parsing' = fd /\ parsing = NoFd
  BY DEF ReadChunk, AtLoop
<1>7. ConnOf(fd)' = c
  BY <1>4 DEF ConnOf
<1>8. Framing(b, parseStates[fd], script, read + n, log[c])
  <2>1. Framing(clients[fd].recvBuf, parseStates[fd], script, read, log[c])
    BY <1>1 DEF Framed, Served, FramedAt
  <2> QED BY <1>2, <2>1, FramingReads
<1> HIDE DEF b, c
<1>9. Served(fd)'
  BY <1>4, <1>5, <1>6, <1>7, <1>8 DEF Served, FramedAt
<1>10. Touches(fd)
  BY <1>1 DEF Touches
<1> QED BY <1>6, <1>9, <1>10, OthersServed

LEMMA GoneServes ==
  ASSUME Inv, Framed, NEW fd \in Fd, ClientGone(fd)
  PROVE  Framed'
<1>1. fd \in Live(clients) /\ Leaves(fd)
  BY Goes DEF Inv
<1>2. fd \notin Live(clients)'
  <2>1. clients'[fd] = NoClient
    BY DEF ClientGone, Disconnect, erase, Inv, TypeOK
  <2> QED BY <2>1, Values DEF Live
<1> QED BY <1>1, <1>2, OthersServed DEF Touches, ClientGone, AtLoop

\* Writing leaves the framing alone.
LEMMA WriteServes ==
  ASSUME Inv, Framed, NEW fd \in Fd, HandleWrite(fd)
  PROVE  Framed'
<1> DEFINE c == ConnOf(fd)
           q == clients[fd].sendQueue
<1>0. TypeOK /\ Matched
  BY DEF Inv
<1>1. fd \in Live(clients) /\ (Works(fd) \/ Leaves(fd))
  BY <1>0, Writes
<1>2. /\ c \in Conn /\ fd \in Fd /\ clients[fd] \in Entry /\ net[c] \in End
  BY <1>0, <1>1, LiveTypes
<1>3. PICK n \in 1..Len(q) :
        LET rest == wrote(clients, fd, n)
            ends == [net EXCEPT ![c].out = @ \o SubSeq(q, 1, n)]
        IN  IF rest[fd].pendingClose /\ rest[fd].sendQueue = <<>>
            THEN Disconnect(fd, rest, ends)
            ELSE clients' = rest /\ net' = ends /\ UNCHANGED parseStates
  BY DEF HandleWrite
<1>4. log' = log /\ parsing' = parsing /\ parsing = NoFd
  BY DEF HandleWrite, AtLoop
<1> DEFINE rest == wrote(clients, fd, n)
           ends == [net EXCEPT ![c].out = @ \o SubSeq(q, 1, n)]
<1>5. ASSUME fd \in Live(clients)' PROVE Served(fd)'
  <2>1. CASE Disconnect(fd, rest, ends)
    <3>1. clients'[fd] = NoClient
      BY <1>0, <1>2, <2>1 DEF Disconnect, erase, wrote, TypeOK
    <3> QED BY <1>5, <3>1, Values DEF Live
  <2>2. CASE clients' = rest /\ net' = ends /\ UNCHANGED parseStates
    <3>1. /\ clients'[fd].recvBuf = clients[fd].recvBuf
          /\ clients'[fd].remoteAddr = clients[fd].remoteAddr
      BY <1>0, <1>2, <2>2 DEF wrote, TypeOK, Entry
    <3>2. net'[c].script = net[c].script /\ net'[c].read = net[c].read
      BY <1>0, <1>2, <2>2 DEF TypeOK, End
    <3>3. ConnOf(fd)' = c
      BY <3>1 DEF ConnOf
    <3>4. Served(fd)
      BY <1>1 DEF Framed
    <3> HIDE DEF rest, ends
    <3> QED BY <1>4, <2>2, <3>1, <3>2, <3>3, <3>4 DEF Served, FramedAt
  <2> HIDE DEF c, q
  <2> QED BY <1>3, <2>1, <2>2
<1> QED BY <1>1, <1>4, <1>5, OthersServed DEF Touches

\* The close is put off where the client stays.
LEMMA StaysMarked ==
  ASSUME TypeOK, NEW fd \in Live(clients), NEW e \in Entry, NEW states,
         CloseAfterFlush(fd, [clients EXCEPT ![fd] = e], states), fd \in Live(clients)'
  PROVE  /\ clients'[fd].recvBuf = e.recvBuf /\ clients'[fd].remoteAddr = e.remoteAddr
         /\ parseStates' = states /\ net' = net
<1> DEFINE queued == [clients EXCEPT ![fd] = e]
<1>1. fd \in Fd /\ queued \in [Fd -> Entry] /\ queued[fd] = e
  BY LiveTypes DEF TypeOK, Entry
<1> HIDE DEF queued
<1>2. ~ Disconnect(fd, queued, net)
  <2>1. ASSUME Disconnect(fd, queued, net) PROVE FALSE
    <3>1. clients'[fd] = NoClient
      BY <1>1, <2>1 DEF Disconnect, erase
    <3> QED BY <3>1, Values DEF Live
  <2> QED BY <2>1
<1>3. /\ clients' = markPendingClose(queued, fd) /\ parseStates' = states /\ net' = net
  BY <1>2 DEF CloseAfterFlush, queued
<1>4. clients'[fd] = [e EXCEPT !.pendingClose = TRUE]
  BY <1>1, <1>3 DEF markPendingClose
<1> QED BY <1>3, <1>4 DEF Entry

\* A connection that a step of onRawData() leaves in the table is framed.
LEMMA OutcomeServes ==
  ASSUME TypeOK, NEW fd \in Live(clients), fd \in Live(clients)', NEW b \in Seq(Symbol),
         Outcome(fd, [clients EXCEPT ![fd].recvBuf = b], b, net[ConnOf(fd)].script,
                 net[ConnOf(fd)].read, log[ConnOf(fd)])
  PROVE  FramedAt(fd)'
<1> DEFINE taken == [clients EXCEPT ![fd].recvBuf = b]
           c == ConnOf(fd)
           script == net[c].script
           read == net[c].read
<1>1. /\ fd \in Fd /\ c \in Conn /\ log[c] \in Seq(Event) /\ parseStates[fd] \in State
      /\ DOMAIN log = Conn /\ DOMAIN parseStates = Fd
  BY LiveTypes DEF TypeOK
<1>2. /\ taken = [clients EXCEPT ![fd] = Taken(fd, b)]
      /\ Taken(fd, b) \in Entry
      /\ Taken(fd, b).remoteAddr = ConnOf(fd)
      /\ Taken(fd, b).sendQueue = clients[fd].sendQueue
      /\ Taken(fd, b).pendingClose = clients[fd].pendingClose
  BY Entries
<1>3. \A x \in Sent :
        /\ sendToClient(taken, fd, <<x>>) = [clients EXCEPT ![fd] = Queued(fd, b, x)]
        /\ Queued(fd, b, x) \in Entry
        /\ Queued(fd, b, x).remoteAddr = ConnOf(fd)
        /\ Queued(fd, b, x).sendQueue = clients[fd].sendQueue \o <<x>>
        /\ Queued(fd, b, x).pendingClose = clients[fd].pendingClose
  BY Entries
<1>3a. Taken(fd, b).recvBuf = b /\ \A x \in Sent : Queued(fd, b, x).recvBuf = b
  BY Buffers
<1>4. \A e \in Entry : [clients EXCEPT ![fd] = e][fd] = e
  BY <1>1 DEF TypeOK
<1> HIDE DEF taken
<1>5. ASSUME NEW ps, NEW events, clients'[fd].recvBuf = b, clients'[fd].remoteAddr = c,
             parseStates'[fd] = ps, net' = net, log'[c] = events,
             Framing(b, ps, script, read, events)
      PROVE  FramedAt(fd)'
  <2>1. ConnOf(fd)' = c
    BY <1>5 DEF ConnOf
  <2> HIDE DEF c
  <2> QED BY <1>5, <2>1 DEF FramedAt
<1>6. CASE \E ps \in State : Continue(fd, ps, taken) /\ Framing(b, ps, script, read, log[c])
  <2>1. PICK ps \in State : Continue(fd, ps, taken) /\ Framing(b, ps, script, read, log[c])
    BY <1>6
  <2>2. /\ clients' = taken /\ parseStates'[fd] = ps /\ net' = net /\ log' = log
    BY <1>1, <2>1 DEF Continue
  <2>3. clients'[fd] = Taken(fd, b)
    BY <1>2, <1>4, <2>2
  <2> QED BY <1>2, <1>3a, <1>5, <2>1, <2>2, <2>3
<1>7. CASE /\ onHttpError(fd, taken)
           /\ \A ps \in State : Framing(b, ps, script, read, Append(log[c], BadRequest))
  <2>1. BadRequest \in Sent
    BY Values
  <2> DEFINE e == Queued(fd, b, BadRequest)
  <2>2. e \in Entry /\ e.remoteAddr = c /\ e.recvBuf = b
    BY <1>3, <1>3a, <2>1
  <2>3. CloseAfterFlush(fd, [clients EXCEPT ![fd] = e], parseStates)
    BY <1>3, <1>7, <2>1 DEF onHttpError
  <2>4. log'[c] = Append(log[c], BadRequest)
    BY <1>1, <1>7 DEF onHttpError
  <2> HIDE DEF e
  <2>5. /\ clients'[fd].recvBuf = b /\ clients'[fd].remoteAddr = c
        /\ parseStates' = parseStates /\ net' = net
    BY <2>2, <2>3, StaysMarked
  <2>6. Framing(b, parseStates[fd], script, read, Append(log[c], BadRequest))
    BY <1>1, <1>7
  <2> QED BY <1>5, <2>4, <2>5, <2>6
<1>8. CASE \E request \in Request :
             /\ dispatchRequest(fd, request, taken)
             /\ \A x \in {Answered(request), Unanswered(request)} :
                  Framing(b, NewParseState, script, read, Append(log[c], x))
  <2>1. PICK request \in Request :
          /\ dispatchRequest(fd, request, taken)
          /\ \A x \in {Answered(request), Unanswered(request)} :
               Framing(b, NewParseState, script, read, Append(log[c], x))
    BY <1>8
  <2> DEFINE states == [parseStates EXCEPT ![fd] = NewParseState]
             answer(hook) == IF hook.answers THEN Answered(request) ELSE Unanswered(request)
  <2>2. PICK hook \in onHttpRequest(request) :
          LET queued == IF hook.answers THEN sendToClient(taken, fd, <<answer(hook)>>) ELSE taken
          IN  /\ log' = [log EXCEPT ![c] = Append(@, answer(hook))]
              /\ IF keepAlive(request) /\ ~hook.closes
                 THEN clients' = queued /\ parseStates' = states /\ UNCHANGED net
                 ELSE CloseAfterFlush(fd, queued, states)
    BY <2>1 DEF dispatchRequest
  <2> DEFINE x == answer(hook)
             queued == IF hook.answers THEN sendToClient(taken, fd, <<x>>) ELSE taken
  <2>3. x \in {Answered(request), Unanswered(request)} /\ (hook.answers => x \in Sent)
    BY Values
  <2>4. log'[c] = Append(log[c], x) /\ states[fd] = NewParseState
    BY <1>1, <2>2
  <2>5. PICK e \in Entry : /\ queued = [clients EXCEPT ![fd] = e]
                          /\ e.remoteAddr = c /\ e.recvBuf = b
    <3> HIDE DEF x
    <3> QED BY <1>2, <1>3, <1>3a, <2>3
  <2> HIDE DEF queued, x, states
  <2>6. \/ clients' = queued /\ parseStates' = states /\ net' = net
        \/ CloseAfterFlush(fd, queued, states)
    BY <2>2 DEF queued, x, states
  <2>7. /\ clients'[fd].recvBuf = b /\ clients'[fd].remoteAddr = c
        /\ parseStates' = states /\ net' = net
    <3>1. CASE clients' = queued /\ parseStates' = states /\ net' = net
      BY <1>4, <2>5, <3>1
    <3>2. CASE CloseAfterFlush(fd, queued, states)
      BY <2>5, <3>2, StaysMarked
    <3> QED BY <2>6, <3>1, <3>2
  <2>8. Framing(b, NewParseState, script, read, Append(log[c], x))
    BY <2>1, <2>3
  <2> QED BY <1>5, <2>4, <2>7, <2>8
<1> QED BY <1>6, <1>7, <1>8 DEF Outcome, taken

\* A line.
LEMMA LineServes ==
  ASSUME Inv, Framed, NEW fd \in Fd, ParseLine(fd)
  PROVE  Framed'
<1> DEFINE ps == parseStates[fd]
           buf == clients[fd].recvBuf
           taken == [clients EXCEPT ![fd].recvBuf = AfterLine(buf)]
<1>0. TypeOK /\ Matched
  BY DEF Inv
<1>1. fd \in Live(clients) /\ (Works(fd) \/ Leaves(fd))
  BY <1>0, Parses
<1>2. /\ buf \in Seq(Symbol) /\ ps \in State /\ net[ConnOf(fd)].script \in Seq(Message)
      /\ net[ConnOf(fd)].read \in Nat /\ log[ConnOf(fd)] \in Seq(Event)
  BY <1>0, <1>1, EntryTypes
<1>3. /\ ps.stage \in {"RequestLine", "Headers"} /\ HasLine(buf)
      /\ IF ps.stage = "RequestLine" THEN parseRequestLine(fd, ps, LineOf(buf), taken)
                                     ELSE parseHeaderLine(fd, ps, LineOf(buf), taken)
      /\ parsing' = fd /\ parsing = fd
  BY DEF ParseLine, LineOf
<1>4. AfterLine(buf) \in Seq(Symbol)
  BY <1>2, <1>3, LineEnds
<1>5. Framing(buf, ps, net[ConnOf(fd)].script, net[ConnOf(fd)].read, log[ConnOf(fd)])
  BY <1>1 DEF Framed, Served, FramedAt
<1>6. Outcome(fd, taken, AfterLine(buf), net[ConnOf(fd)].script, net[ConnOf(fd)].read,
              log[ConnOf(fd)])
  <2> HIDE DEF ps, buf, taken
  <2> QED BY <1>2, <1>3, <1>5, LineOutcome
<1>7. ASSUME fd \in Live(clients)' PROVE Served(fd)'
  <2>1. FramedAt(fd)'
    BY <1>0, <1>1, <1>4, <1>6, <1>7, OutcomeServes
  <2> QED BY <1>3, <2>1 DEF Served
<1> QED BY <1>1, <1>3, <1>7, OthersServed DEF Touches

\* A part of a body.
LEMMA BodyServes ==
  ASSUME Inv, Framed, NEW fd \in Fd, ConsumeBody(fd)
  PROVE  Framed'
<1> DEFINE ps == parseStates[fd]
           buf == clients[fd].recvBuf
           b == BodyLeft(ps, buf)
           taken == [clients EXCEPT ![fd].recvBuf = b]
           remaining == ps.bodyRemaining - TakenForBody(buf, ps.bodyRemaining)
<1>0. TypeOK /\ Matched
  BY DEF Inv
<1>1. fd \in Live(clients) /\ (Works(fd) \/ Leaves(fd))
  BY <1>0, Parses
<1>2. /\ buf \in Seq(Symbol) /\ ps \in State /\ net[ConnOf(fd)].script \in Seq(Message)
      /\ net[ConnOf(fd)].read \in Nat /\ log[ConnOf(fd)] \in Seq(Event)
  BY <1>0, <1>1, EntryTypes
<1>3. ps.stage = "Body" /\ buf # <<>> /\ parsing = fd
  BY DEF ConsumeBody
<1>4. BodyStep(fd, ps, buf, taken)
  BY DEF ConsumeBody, BodyStep, BodyLeft, WithMore
<1>5. parsing' = fd \/ (parsing' = NoFd /\ clients' = taken /\ b = <<>>)
  <2>1. CASE remaining = 0
    BY <1>3, <2>1 DEF ConsumeBody
  <2>2. CASE remaining # 0
    <3>1. b = <<>>
      BY <1>2, <2>2, BodyDrains
    <3>2. parsing' = NoFd /\ clients' = taken
      BY <2>2 DEF ConsumeBody, Continue, BodyLeft
    <3> QED BY <3>1, <3>2
  <2> QED BY <2>1, <2>2
<1>6. b \in Seq(Symbol)
  <2> DEFINE take == TakenForBody(buf, ps.bodyRemaining)
  <2>1. ps.bodyRemaining \in Nat /\ Len(buf) \in Nat
    BY <1>2 DEF State
  <2>2. take \in 0..Len(buf)
    BY <2>1 DEF TakenForBody, Min2
  <2> HIDE DEF take
  <2>3. SubSeq(buf, take + 1, Len(buf)) \in Seq(Symbol)
    BY <1>2, <2>2
  <2> QED BY <2>3 DEF BodyLeft, take
<1>7. Framing(buf, ps, net[ConnOf(fd)].script, net[ConnOf(fd)].read, log[ConnOf(fd)])
  BY <1>1 DEF Framed, Served, FramedAt
<1>8. Outcome(fd, taken, b, net[ConnOf(fd)].script, net[ConnOf(fd)].read, log[ConnOf(fd)])
  <2> HIDE DEF ps, buf, taken
  <2> QED BY <1>2, <1>3, <1>4, <1>7, BodyOutcome
<1> HIDE DEF b
<1>9. ASSUME fd \in Live(clients)' PROVE Served(fd)'
  <2>1. FramedAt(fd)'
    BY <1>0, <1>1, <1>6, <1>8, <1>9, OutcomeServes
  <2>2. parsing' = NoFd => clients'[fd].recvBuf = <<>>
    <3>1. ASSUME parsing' = NoFd PROVE clients'[fd].recvBuf = <<>>
      <4>1. clients' = [clients EXCEPT ![fd] = Taken(fd, b)] /\ b = <<>>
        <5>1. parsing' # fd
          BY <3>1, FdAssumption DEF NoFd
        <5> QED BY <1>0, <1>1, <1>5, <1>6, <5>1, Entries
      <4>2. Taken(fd, b).recvBuf = b /\ fd \in DOMAIN clients
        BY <1>0, <1>1, <1>6, Buffers DEF TypeOK
      <4> QED BY <4>1, <4>2
    <3> QED BY <3>1
  <2>3. parsing' # fd => Waiting(clients[fd].recvBuf, parseStates[fd])'
    BY <1>5, <2>2 DEF Waiting
  <2> QED BY <2>1, <2>3 DEF Served
<1> QED BY <1>1, <1>3, <1>9, OthersServed DEF Touches

\* The tables are left alone.
LEMMA StillServed ==
  ASSUME UNCHANGED <<clients, parseStates, net, log>>
  PROVE  /\ Live(clients)' = Live(clients)
         /\ \A fd : /\ FramedAt(fd)' <=> FramedAt(fd)
                   /\ Waiting(clients[fd].recvBuf, parseStates[fd])'
                        <=> Waiting(clients[fd].recvBuf, parseStates[fd])
BY DEF Live, ConnOf, FramedAt, Waiting

\* The loop of onRawData() ends when there is nothing to do.
LEMMA DoneServes ==
  ASSUME Inv, Framed, NEW fd \in Fd, RawDataDone(fd)
  PROVE  Framed'
<1>1. UNCHANGED <<clients, parseStates, net, log>> /\ parsing = fd
  BY DEF RawDataDone
<1>2. fd \in Live(clients) => Waiting(clients[fd].recvBuf, parseStates[fd])
  <2>1. fd \in Live(clients) => parseStates[fd].stage # "none"
    <3>1. running
      BY <1>1, FdAssumption DEF Inv, Matched, NoFd
    <3> QED BY <3>1 DEF Inv, Matched, ParseStatesMatch
  <2> QED BY <2>1 DEF RawDataDone, Waiting
<1>3. ASSUME NEW g \in Live(clients)
      PROVE  FramedAt(g) /\ Waiting(clients[g].recvBuf, parseStates[g])
  BY <1>1, <1>2 DEF Framed, Served
<1> QED BY <1>1, <1>3, StillServed DEF Framed, Served

LEMMA StutterServes ==
  ASSUME Framed, UNCHANGED vars
  PROVE  Framed'
<1>1. UNCHANGED <<clients, parseStates, net, log>> /\ parsing' = parsing
  BY DEF vars
<1> QED BY <1>1 DEF Framed, Served, FramedAt, Waiting, Live, ConnOf

LEMMA FramedStep == Inv /\ Framed /\ [Next]_vars => Framed'
<1> SUFFICES ASSUME Inv, Framed, [Next]_vars PROVE Framed'
  OBVIOUS
<1>1. ASSUME Stop PROVE Framed'
  <2>1. Live(clients)' = {}
    BY <1>1, Values DEF Stop, Live
  <2> QED BY <2>1 DEF Framed
<1>2. ASSUME NEW c \in Conn, Accept(c) PROVE Framed'
  BY <1>2, AcceptServes
<1>3. ASSUME NEW fd \in Fd, ReadChunk(fd) \/ ClientGone(fd) \/ HandleWrite(fd) PROVE Framed'
  BY <1>3, ReadServes, GoneServes, WriteServes
<1>4. ASSUME NEW fd \in Fd, onRawData(fd) PROVE Framed'
  BY <1>4, LineServes, BodyServes, DoneServes DEF onRawData
<1>5. ASSUME UNCHANGED vars PROVE Framed'
  BY <1>5, StutterServes
<1> QED BY <1>1, <1>2, <1>3, <1>4, <1>5 DEF Next

LEMMA InitFramed == Init => Framed
BY Values DEF Init, Framed, Live

LEMMA AlwaysFramed == Spec => [](Inv /\ Framed)
<1>1. Init => Inv /\ Framed
  BY InitInv, InitFramed
<1>2. (Inv /\ Framed) /\ [Next]_vars => (Inv /\ Framed)'
  BY InvStep, FramedStep
<1> QED BY <1>1, <1>2, PTL DEF Spec

-----------------------------------------------------------------------------
(* What framing comes to between two calls of onRawData().                 *)

\* Of two texts in a row.
LEMMA RowOfTwo ==
  ASSUME NEW s \in Seq(Symbol), NEW t \in Seq(Symbol)
  PROVE  /\ Len(s) \in Nat /\ Len(t) \in Nat
         /\ Len(s) <= Len(s \o t) /\ Len(t) <= Len(s \o t)
         /\ HasLine(s) \/ HasLine(t) => HasLine(s \o t)
<1> DEFINE st == s \o t
<1>1. /\ Len(s) \in Nat /\ Len(t) \in Nat /\ Len(st) = Len(s) + Len(t)
      /\ \A i \in 1..Len(s) : st[i] = s[i]
      /\ \A i \in 1..Len(t) : st[Len(s) + i] = t[i]
      /\ DOMAIN s = 1..Len(s) /\ DOMAIN t = 1..Len(t) /\ DOMAIN st = 1..Len(st)
  OBVIOUS
<1> HIDE DEF st
<1>2. ASSUME NEW i \in 1..Len(s), s[i] = "nl" PROVE HasLine(st)
  <2>1. i \in 1..Len(st) /\ st[i] = "nl"
    BY <1>1, <1>2
  <2> QED BY <1>1, <2>1 DEF HasLine
<1>3. ASSUME NEW i \in 1..Len(t), t[i] = "nl" PROVE HasLine(st)
  <2>1. Len(s) + i \in 1..Len(st) /\ st[Len(s) + i] = "nl"
    BY <1>1, <1>3
  <2> QED BY <1>1, <2>1 DEF HasLine
<1>4. HasLine(s) \/ HasLine(t) => HasLine(st)
  BY <1>1, <1>2, <1>3 DEF HasLine
<1> QED BY <1>1, <1>4 DEF st

LEMMA LineEndIsLine ==
  /\ HasLine(<<"nl">>)
  /\ \A s \in Seq(Symbol) : Len(s) = 0 <=> s = <<>>
  /\ \A s \in Seq(Symbol) : HasLine(s) => Len(s) # 0
<1>1. HasLine(<<"nl">>)
  BY DEF HasLine
<1>2. \A s \in Seq(Symbol) : Len(s) = 0 <=> s = <<>>
  OBVIOUS
<1>3. ASSUME NEW s \in Seq(Symbol), HasLine(s) PROVE Len(s) # 0
  BY <1>3 DEF HasLine
<1> QED BY <1>1, <1>2, <1>3

\* A part of the message, from somewhere in it to its end.
EndOf(part, m) == HasLine(part) /\ Len(part) <= Len(Serialize(m))

LEMMA Ends ==
  ASSUME NEW m \in Message
  PROVE  /\ EndOf(Serialize(m), m) /\ EndOf(FromLine(m), m)
         /\ m.kind # "badLine" => EndOf(FromHeaders(m), m)
         /\ Proper(m) => /\ EndOf(FromLength(m), m) /\ EndOf(<<"nl">> \o m.body, m)
                         /\ Len(m.body) <= Len(Serialize(m))
<1> DEFINE body == <<"nl">> \o m.body
           rows == RequestLine(m) \o <<"nl">>
<1>1. /\ m.body \in Seq(Symbol) /\ body \in Seq(Symbol) /\ <<"nl">> \in Seq(Symbol)
      /\ Header(LengthHeader, m.length) \in Seq(Symbol)
      /\ Header(ConnectionHeader, m.connection) \in Seq(Symbol)
      /\ FromLength(m) \in Seq(Symbol) /\ FromHeaders(m) \in Seq(Symbol)
      /\ m.kind # "badLine" => rows \in Seq(Symbol)
      /\ FromLine(m) \in Seq(Symbol) /\ Serialize(m) \in Seq(Symbol)
  BY FromTypes, Symbols, SerializeType
<1>2. HasLine(body) /\ Len(m.body) <= Len(body)
  BY <1>1, RowOfTwo, LineEndIsLine
<1> HIDE DEF body
<1>3. HasLine(FromLength(m)) /\ Len(body) <= Len(FromLength(m))
  BY <1>1, <1>2, RowOfTwo DEF FromLength, body
<1>4. Proper(m) => HasLine(FromHeaders(m)) /\ Len(FromLength(m)) <= Len(FromHeaders(m))
  BY <1>1, <1>3, RowOfTwo DEF FromHeaders, Proper
<1>5. HasLine(<<"word", "nl">>)
  BY Symbols, RowOfTwo, LineEndIsLine
<1>6. m.kind = "badHeader" => HasLine(FromHeaders(m))
  BY <1>5 DEF FromHeaders
<1>7. m.kind \in {"request", "afterBlank", "badLine", "badHeader"}
  BY DEF Message
<1>8. m.kind # "badLine" => HasLine(FromHeaders(m))
  BY <1>4, <1>6, <1>7 DEF Proper
<1>9. m.kind # "badLine" => HasLine(FromLine(m)) /\ Len(FromHeaders(m)) <= Len(FromLine(m))
  BY <1>1, <1>8, RowOfTwo DEF FromLine
<1>10. HasLine(FromLine(m))
  BY <1>5, <1>9 DEF FromLine
<1>11. HasLine(Serialize(m)) /\ Len(FromLine(m)) <= Len(Serialize(m))
  BY <1>1, <1>10, RowOfTwo, Serialized, SerializeType
<1>12. /\ Len(m.body) \in Nat /\ Len(body) \in Nat /\ Len(FromLength(m)) \in Nat
       /\ Len(FromHeaders(m)) \in Nat /\ Len(FromLine(m)) \in Nat /\ Len(Serialize(m)) \in Nat
  BY <1>1, RowOfTwo
<1>13. Proper(m) => m.kind # "badLine"
  BY DEF Proper
<1> QED BY <1>2, <1>3, <1>4, <1>8, <1>9, <1>10, <1>11, <1>12, <1>13 DEF EndOf, body

\* What is left of a message the parser is in: something, and a line before the body.
LEMMA LeftOfMessage ==
  ASSUME NEW m \in Message, NEW ps, NEW rest \in Seq(Symbol), InMessage(m, ps, rest)
  PROVE  /\ Len(rest) <= Len(Serialize(m)) /\ Len(rest) # 0
         /\ ps.stage # "Body" => HasLine(rest)
<1>1. CASE AtStart(m, ps, rest)
  BY <1>1, Ends, LineEndIsLine DEF AtStart, EndOf
<1>2. CASE AtHeaders(m, ps, rest)
  BY <1>2, Ends, LineEndIsLine DEF AtHeaders, EndOf
<1>3. CASE AtLength(m, ps, rest)
  BY <1>3, Ends, LineEndIsLine DEF AtLength, EndOf
<1>4. CASE AtBlank(m, ps, rest)
  BY <1>4, Ends, LineEndIsLine DEF AtBlank, EndOf
<1>5. CASE InBody(m, ps, rest)
  <2>1. PICK b \in Seq(Symbol) : ps = ParseState("Body", WithBody(m, b), Len(rest)) /\ b \o rest = m.body
    BY <1>5 DEF InBody
  <2>2. ps.stage = "Body"
    BY <2>1 DEF ParseState
  <2>3. Len(rest) <= Len(m.body) /\ Len(rest) \in Nat
    BY <2>1, RowOfTwo
  <2>4. Len(m.body) <= Len(Serialize(m)) /\ Len(m.body) \in Nat /\ Len(Serialize(m)) \in Nat
    BY <1>5, Ends, Bodies, SerializeType, RowOfTwo DEF InBody
  <2>5. Len(rest) # 0
    BY <1>5, LineEndIsLine DEF InBody
  <2> QED BY <2>2, <2>3, <2>4, <2>5
<1> QED BY <1>1, <1>2, <1>3, <1>4, <1>5 DEF InMessage

\* When onRawData() has nothing to do, it does not have all of the message.
LEMMA BufferShort ==
  ASSUME NEW m, NEW rest, NEW later, NEW buf, NEW u, NEW ps,
         At(m, rest, later, buf, u), InMessage(m, ps, rest), Waiting(buf, ps)
  PROVE  ~ Len(rest) <= Len(buf)
<1> SUFFICES ASSUME Len(rest) <= Len(buf) PROVE FALSE
  OBVIOUS
<1>1. m \in Message /\ rest \in Seq(Symbol) /\ buf \in Seq(Symbol)
  BY DEF At
<1>2. Len(rest) # 0 /\ (ps.stage # "Body" => HasLine(rest))
  BY <1>1, LeftOfMessage
<1>3. Len(rest) \in Nat /\ Len(buf) \in Nat
  BY <1>1, RowOfTwo
<1>4. buf # <<>>
  BY <1>1, <1>2, <1>3, LineEndIsLine
<1>5. HasLine(rest) /\ ~HasLine(buf)
  BY <1>2, <1>4 DEF Waiting
<1>6. SubSeq(buf, 1, Len(rest)) = rest
  BY RestInBuffer
<1>7. \A i \in 1..Len(rest) : rest[i] = buf[i]
  BY <1>1, <1>3, <1>6
<1>8. DOMAIN rest = 1..Len(rest) /\ DOMAIN buf = 1..Len(buf)
  BY <1>1
<1> QED BY <1>3, <1>5, <1>7, <1>8 DEF HasLine

\* What was received whole, then, is what came out.
LEMMA WholeOnTrack ==
  ASSUME NEW script \in Seq(Message), NEW k \in 0..Len(script), NEW read \in Nat,
         read <= Len(Stream(script)), NEW buf \in Seq(Symbol), NEW ps, NEW events,
         OnTrack(k, buf, ps, script, read, events), Waiting(buf, ps)
  PROVE  WholeMessages(script, read) = 1..k
<1>0. Len(script) \in Nat /\ k \in Nat /\ k <= Len(script)
  OBVIOUS
<1>1. \A i \in 0..Len(script) : Offset(script, i) \in Nat
  BY LaterType
<1>2. \A i \in 0..Len(script) : \A j \in 0..i : Offset(script, j) <= Offset(script, i)
  BY Offsets
<1>3. Offset(script, k) <= read
  <2>1. CASE k = Len(script)
    <3>1. buf \o Unread(script, read) = <<>> /\ Unread(script, read) \in Seq(Symbol)
      BY <2>1, UnreadType DEF OnTrack
    <3>2. Len(Unread(script, read)) <= 0 /\ Len(Unread(script, read)) \in Nat
      <4>1. Len(<<>>) = 0
        OBVIOUS
      <4> QED BY <3>1, <4>1, RowOfTwo
    <3>3. Len(Unread(script, read)) = Len(Stream(script)) - read /\ Len(Stream(script)) \in Nat
      BY UnreadType
    <3>4. Offset(script, k) + Len(Later(script, k)) = Len(Stream(script))
      BY Offsets
    <3>5. Len(Later(script, k)) = 0
      <4>1. Len(<<>>) = 0
        OBVIOUS
      <4> QED BY <2>1, <4>1, LaterParts
    <3>6. Offset(script, k) \in Nat
      BY <1>1
    <3> QED BY <3>2, <3>3, <3>4, <3>5, <3>6
  <2>2. CASE k # Len(script)
    <3> DEFINE m == script[k + 1]
    <3>1. PICK rest : InMessage(m, ps, rest)
                      /\ At(m, rest, Later(script, k + 1), buf, Unread(script, read))
      BY <2>2 DEF OnTrack
    <3>2. m \in Message /\ rest \in Seq(Symbol)
      BY <3>1 DEF At
    <3>3. Len(rest) <= Len(Serialize(m))
      BY <3>1, <3>2, LeftOfMessage
    <3>4. /\ Offset(script, k + 1) \in Nat /\ Len(rest) \in Nat /\ Len(buf) \in Nat
          /\ read = Offset(script, k + 1) + Len(buf) - Len(rest)
      BY <2>2, <3>1, ReadSoFar
    <3>5. /\ k + 1 \in 0..Len(script) /\ Serialize(m) \in Seq(Symbol)
          /\ Later(script, k + 1) \in Seq(Symbol)
          /\ Later(script, k) = Serialize(m) \o Later(script, k + 1)
      BY <2>2, NextMessage
    <3>6. /\ Offset(script, k) + Len(Later(script, k)) = Len(Stream(script))
          /\ Offset(script, k + 1) + Len(Later(script, k + 1)) = Len(Stream(script))
      BY <3>5, Offsets
    <3>7. /\ Len(Later(script, k)) = Len(Serialize(m)) + Len(Later(script, k + 1))
          /\ Len(Serialize(m)) \in Nat /\ Len(Later(script, k + 1)) \in Nat
      <4>1. \A s, t \in Seq(Symbol) : Len(s) \in Nat /\ Len(s \o t) = Len(s) + Len(t)
        OBVIOUS
      <4> QED BY <3>5, <4>1
    <3>8. Offset(script, k) \in Nat
      BY <1>1
    <3> DEFINE size == Len(Serialize(m))
    <3>9. Offset(script, k) + size = Offset(script, k + 1) /\ size \in Nat
      <4> DEFINE a == Offset(script, k)
                 b == Offset(script, k + 1)
                 p == Len(Later(script, k))
                 q == Len(Later(script, k + 1))
                 total == Len(Stream(script))
      <4>1. a + p = total /\ b + q = total /\ p = size + q
        BY <3>6, <3>7
      <4>2. a \in Nat /\ b \in Nat /\ q \in Nat /\ size \in Nat
        BY <3>4, <3>7, <3>8
      <4> HIDE DEF a, b, p, q, total, size
      <4>3. a + size = b
        BY <4>1, <4>2
      <4> QED BY <4>2, <4>3 DEF a, b
    <3> HIDE DEF size
    <3>10. Len(rest) <= size
      BY <3>3 DEF size
    <3> QED BY <3>4, <3>8, <3>9, <3>10
  <2> QED BY <2>1, <2>2
<1>4. ASSUME k # Len(script) PROVE read < Offset(script, k + 1)
  <2> DEFINE m == script[k + 1]
  <2>1. PICK rest : InMessage(m, ps, rest)
                    /\ At(m, rest, Later(script, k + 1), buf, Unread(script, read))
    BY <1>4 DEF OnTrack
  <2>2. ~ Len(rest) <= Len(buf)
    BY <2>1, BufferShort
  <2>3. /\ Offset(script, k + 1) \in Nat /\ Len(rest) \in Nat /\ Len(buf) \in Nat
        /\ read = Offset(script, k + 1) + Len(buf) - Len(rest)
    BY <1>4, <2>1, ReadSoFar
  <2> QED BY <2>2, <2>3
<1>5. ASSUME NEW i \in 1..Len(script) PROVE Offset(script, i) <= read <=> i <= k
  <2>1. CASE i <= k
    <3>1. Offset(script, i) <= Offset(script, k)
      BY <1>0, <1>2, <2>1
    <3>2. Offset(script, i) \in Nat /\ Offset(script, k) \in Nat
      BY <1>0, <1>1
    <3> QED BY <1>3, <2>1, <3>1, <3>2
  <2>2. CASE ~ i <= k
    <3>1. k # Len(script) /\ k + 1 \in 0..i
      BY <1>0, <2>2
    <3>2. Offset(script, k + 1) <= Offset(script, i) /\ read < Offset(script, k + 1)
      BY <1>0, <1>2, <1>4, <3>1
    <3>3. Offset(script, i) \in Nat /\ Offset(script, k + 1) \in Nat
      BY <1>0, <1>1, <3>1
    <3> QED BY <2>2, <3>2, <3>3
  <2> QED BY <2>1, <2>2
<1>6. WholeMessages(script, read) = {i \in 1..Len(script) : Offset(script, i) <= read}
  BY DEF WholeMessages, Offset
<1> QED BY <1>0, <1>5, <1>6

\* What RequestsFramed says of a connection that has been served.
LEMMA FramedOne ==
  ASSUME NEW script \in Seq(Message), NEW read \in Nat, NEW events \in Seq(Event),
         NEW buf \in Seq(Symbol), NEW ps, Framing(buf, ps, script, read, events), Waiting(buf, ps)
  PROVE  LET whole == WholeMessages(script, read)
             seen == [i \in 1..Len(events) |-> Wanted(events[i])]
             readable == {i \in whole : \A j \in 1..(i - 1) : Expected(script[j]) # BadRequest}
         IN  /\ \A i \in readable : i \in DOMAIN seen /\ seen[i] = Expected(script[i])
             /\ (\A i \in whole : Expected(script[i]) # BadRequest) => Len(seen) = Cardinality(whole)
<1> DEFINE whole == WholeMessages(script, read)
           seen == [i \in 1..Len(events) |-> Wanted(events[i])]
           readable == {i \in whole : \A j \in 1..(i - 1) : Expected(script[j]) # BadRequest}
<1>1. PICK k \in 0..Len(script) :
        /\ read <= Len(Stream(script)) /\ Right(k, script, events)
        /\ OnTrack(k, buf, ps, script, read, events) \/ Derailed(k, script, read)
  BY DEF Framing
<1>2. /\ Len(events) \in Nat /\ DOMAIN seen = 1..Len(events) /\ Len(seen) = Len(events)
      /\ \A i \in 1..Len(events) : seen[i] = Wanted(events[i])
      /\ Len(script) \in Nat /\ k \in Nat
  OBVIOUS
<1> HIDE DEF seen
<1>3. whole \subseteq 1..Len(script)
  BY DEF WholeMessages
<1>4. ASSUME NEW i \in 1..k PROVE i \in DOMAIN seen /\ seen[i] = Expected(script[i])
  <2>1. k <= Len(events) /\ Wanted(events[i]) = Expected(script[i])
    BY <1>1 DEF Right
  <2>2. i \in 1..Len(events)
    BY <1>2, <2>1
  <2> QED BY <1>2, <2>1, <2>2
<1>5. CASE OnTrack(k, buf, ps, script, read, events)
  <2>1. whole = 1..k
    BY <1>1, <1>5, WholeOnTrack
  <2>2. Cardinality(1..k) = k
    BY <1>2, FS_Interval
  <2>3. Len(seen) = k
    BY <1>2, <1>5 DEF OnTrack
  <2> HIDE DEF whole
  <2>4. readable \subseteq 1..k /\ Len(seen) = Cardinality(whole)
    BY <2>1, <2>2, <2>3
  <2> HIDE DEF readable
  <2> QED BY <1>4, <2>4 DEF readable, whole, seen
<1>6. CASE Derailed(k, script, read)
  <2>1. k # 0 /\ Expected(script[k]) = BadRequest /\ Offset(script, k) <= read
    BY <1>6 DEF Derailed
  <2>2. k \in 1..Len(script)
    BY <1>2, <2>1
  <2>3. k \in whole
    BY <2>1, <2>2 DEF WholeMessages, Offset
  <2> HIDE DEF whole
  <2>4. ASSUME NEW i \in readable PROVE i \in 1..k
    <3>1. i \in 1..Len(script) /\ \A j \in 1..(i - 1) : Expected(script[j]) # BadRequest
      BY <1>3, <2>4
    <3>2. k \notin 1..(i - 1)
      BY <2>1, <3>1
    <3> QED BY <1>2, <2>2, <3>1, <3>2
  <2>5. ~ \A i \in whole : Expected(script[i]) # BadRequest
    BY <2>1, <2>3
  <2> HIDE DEF readable
  <2> QED BY <1>4, <2>4, <2>5 DEF readable, whole, seen
<1> QED BY <1>1, <1>5, <1>6

\* So every connection's requests are as RequestsFramed has them.
LEMMA FramedRequests == Inv /\ Framed => RequestsFramed
<1> SUFFICES ASSUME Inv, Framed PROVE RequestsFramed
  OBVIOUS
<1>1. ASSUME NEW fd \in Live(clients), parsing # fd
      PROVE  LET c == ConnOf(fd)
                 script == net[c].script
                 whole == WholeMessages(script, net[c].read)
                 seen == [i \in 1..Len(log[c]) |-> Wanted(log[c][i])]
                 readable == {i \in whole : \A j \in 1..(i - 1) : Expected(script[j]) # BadRequest}
             IN  /\ \A i \in readable : i \in DOMAIN seen /\ seen[i] = Expected(script[i])
                 /\ (\A i \in whole : Expected(script[i]) # BadRequest)
                      => Len(seen) = Cardinality(whole)
  <2>1. /\ clients[fd].recvBuf \in Seq(Symbol) /\ net[ConnOf(fd)].script \in Seq(Message)
        /\ net[ConnOf(fd)].read \in Nat /\ log[ConnOf(fd)] \in Seq(Event)
    BY EntryTypes DEF Inv
  <2>2. /\ Framing(clients[fd].recvBuf, parseStates[fd], net[ConnOf(fd)].script,
                   net[ConnOf(fd)].read, log[ConnOf(fd)])
        /\ Waiting(clients[fd].recvBuf, parseStates[fd])
    BY <1>1 DEF Framed, Served, FramedAt
  <2> QED BY <2>1, <2>2, FramedOne
<1> QED BY <1>1 DEF RequestsFramed

-----------------------------------------------------------------------------
(* The theorems.                                                           *)

\* The variables keep their types, whatever the clients send: the requests handed
\* on are well formed, and bodyRemaining, a size_t, never wraps below zero in
\* consumeBody().
THEOREM TypeCorrect == Spec => []TypeOK
BY AlwaysInv, PTL DEF Inv

\* parseStates has an entry for exactly the clients in the table of TcpServer: the
\* check that ends onRawData() sees every disconnect made inside it, and a
\* connection never starts with what an earlier one left on its descriptor.
THEOREM StatesMatch == Spec => []ParseStatesMatch
BY AlwaysInv, PTL DEF Inv, Matched

LEMMA BalancedAnswers == Inv => AnswersInOrder
BY DEF Inv, Answers, Balanced, AnswersInOrder

\* Pipelined requests and partial writes: what a connection has been sent and has
\* queued is the responses to what onRawData() handed on for it, in that order,
\* none lost, repeated or on the wire of another connection.
THEOREM ResponsesInOrder == Spec => []AnswersInOrder
BY AlwaysInv, BalancedAnswers, PTL

LEMMA ClosesFlushed ==
  ASSUME Inv, Stop \/ Effect, NEW fd \in Fd, fd \in Live(clients),
         net'[ConnOf(fd)].at = "closed"
  PROVE  ClientGone(fd) \/ Stop \/ net'[ConnOf(fd)].out = Kept(log'[ConnOf(fd)], Response)
<1> SUFFICES ASSUME Effect, ~ClientGone(fd)
             PROVE  net'[ConnOf(fd)].out = Kept(log'[ConnOf(fd)], Response)
  OBVIOUS
<1>1. TypeOK /\ Sound /\ Answers
  BY InvParts DEF Inv, Standing
<1>2. /\ Sound'
      /\ \A g \in Live(clients)' : Enters(g) \/ Remains(g)
      /\ \A g \in Live(clients) \ Live(clients)' : Departs(g)
  BY <1>1, EffectViews
<1>3. PICK c \in Conn : c = ConnOf(fd)
  BY <1>1, LiveTypes
<1>4. fd \notin Live(clients)'
  <2>1. ASSUME fd \in Live(clients)' PROVE FALSE
    <3>1. ConnOf(fd)' = c
      BY <1>2, <1>3, <2>1 DEF Enters, Remains
    <3>2. net'[ConnOf(fd)'].at = "open"
      BY <1>2, <2>1 DEF Sound, Owned
    <3> QED BY <1>3, <3>1, <3>2
  <2> QED BY <2>1
<1>5. PICK new \in Seq(Event) :
        /\ log'[c] = log[c] \o new
        /\ Grows(net[c].out, clients[fd].sendQueue, net'[c].out, <<>>, new)
  BY <1>2, <1>3, <1>4 DEF Departs
<1>6. Balanced(net[c].out, clients[fd].sendQueue, log[c]) /\ log[c] \in Seq(Event)
  BY <1>1, <1>3, LiveTypes DEF Answers
<1>7. Balanced(net'[c].out, <<>>, log'[c])
  BY <1>5, <1>6, GrowsBalanced
<1>8. net'[c].out \o <<>> = net'[c].out
  <2>1. net'[c].out \in Seq(Sent)
    BY <1>2 DEF Sound, Tables, End
  <2> QED BY <2>1
<1> QED BY <1>3, <1>7, <1>8 DEF Balanced

LEMMA FlushedStep ==
  ASSUME Inv, [Next]_vars
  PROVE  [\A fd \in Fd : fd \in Live(clients) /\ net'[ConnOf(fd)].at = "closed"
            => \/ ClientGone(fd) \/ Stop
               \/ net'[ConnOf(fd)].out = Kept(log'[ConnOf(fd)], Response)]_vars
<1>1. TypeOK /\ Matched
  BY DEF Inv
<1>2. Stop \/ Effect
  BY <1>1, Effects, Stutters DEF Next, Acts
<1> QED BY <1>2, ClosesFlushed

\* A connection the server ends of its own accord has been sent the response to
\* every request before: closeAfterFlush() waits for what is queued, also inside
\* onHttpRequest(), on an error, and when the writes are partial.
THEOREM ClosesAfterFlush == Spec => ClosedAfterFlush
BY AlwaysInv, FlushedStep, PTL DEF Spec, ClosedAfterFlush

\* Framing, whatever the chunks: the requests handed on for an open connection are
\* the messages received whole, each with its own headers and body, in order and as
\* soon as its last byte is there, up to the first the parser cannot read, which
\* gets a 400.
THEOREM RequestsCorrect == Spec => []RequestsFramed
BY AlwaysFramed, FramedRequests, PTL

=============================================================================
