-------------------------- MODULE HelloServer_proofs --------------------------
(***************************************************************************)
(* Proofs about HelloServer, for any number of connections, descriptors    *)
(* and requests, any streams cut into any chunks, and a tick at any time.  *)
(*                                                                         *)
(* Every step but the tick is one of HttpServer with the hooks of this     *)
(* class: what HttpServer_proofs shows of such a step, for whatever        *)
(* onHttpRequest() does, is taken over here, and the queues are added.     *)
(***************************************************************************)
EXTENDS HelloServer, Filter_proofs

H == INSTANCE HttpServer_proofs

-----------------------------------------------------------------------------
(* The definitions of HttpServer that this module has of its own are those *)
(* the proofs about it are about.                                          *)

\* The steps of the loop.
Acts ==
  \/ \E c \in Conn : Accept(c)
  \/ \E fd \in Fd : ReadChunk(fd) \/ ClientGone(fd) \/ HandleWrite(fd) \/ onRawData(fd)

LEMMA SameNames ==
  /\ H!NoFd = NoFd /\ H!NoClient = NoClient /\ H!NewParseState = NewParseState
  /\ H!NoParseState = NoParseState /\ H!NewRequest = NewRequest /\ H!BadRequest = BadRequest
  /\ H!Numbers = Numbers /\ H!ConnectionHeader = ConnectionHeader /\ H!LengthHeader = LengthHeader
  /\ H!Request = Request /\ H!Event = Event /\ H!Response = Response /\ H!Sent = Sent
  /\ H!Symbol = Symbol
  /\ H!Live(clients) = Live(clients) /\ \A fd : H!ConnOf(fd) = ConnOf(fd)
BY DEF H!NoFd, NoFd, H!NoClient, NoClient, H!NewClient, NewClient, H!NewParseState, NewParseState,
  H!NoParseState, NoParseState, H!ParseState, ParseState, H!NewRequest, NewRequest,
  H!BadRequest, BadRequest, H!Numbers, Numbers, H!ConnectionHeader, ConnectionHeader,
  H!LengthHeader, LengthHeader, H!Request, Request, H!Event, Event, H!Response, Response,
  H!Sent, Sent, H!Symbol, Symbol, H!Word, Word, H!Live, Live, H!ConnOf, ConnOf

LEMMA SameAccept == ASSUME NEW c \in Conn PROVE H!Accept(c) <=> Accept(c)
BY DEF H!Accept, Accept, H!AtLoop, AtLoop, H!Live, Live, H!NewClient, NewClient,
  H!NewParseState, NewParseState, H!Lowest, Lowest, H!NoFd, NoFd, H!ParseState, ParseState,
  H!NewRequest, NewRequest

LEMMA SameWrite == ASSUME NEW fd \in Fd PROVE H!HandleWrite(fd) <=> HandleWrite(fd)
BY DEF H!HandleWrite, HandleWrite, H!AtLoop, AtLoop, H!Live, Live, H!Disconnect, Disconnect,
  H!erase, erase, H!NoClient, NoClient, H!NewClient, NewClient, H!NoParseState, NoParseState,
  H!wrote, wrote, H!ConnOf, ConnOf,
   H!NoFd, NoFd, H!ParseState, ParseState, H!NewRequest, NewRequest

LEMMA SameGone == ASSUME NEW fd \in Fd PROVE H!ClientGone(fd) <=> ClientGone(fd)
BY DEF H!ClientGone, ClientGone, H!AtLoop, AtLoop, H!Live, Live, H!Disconnect, Disconnect,
  H!erase, erase, H!NoClient, NoClient, H!NewClient, NewClient, H!NoParseState, NoParseState,
  H!ConnOf, ConnOf,
   H!NoFd, NoFd, H!ParseState, ParseState, H!NewRequest, NewRequest

LEMMA SameStop == H!Stop <=> Stop
BY DEF H!Stop, Stop, H!AtLoop, AtLoop, H!NoFd, NoFd, H!NoClient, NoClient, H!NewClient, NewClient

LEMMA SameStream == \A script : H!Stream(script) = Stream(script)
<1>1. \A s : H!FlattenSeq(s) = FlattenSeq(s)
  BY DEF H!FlattenSeq, FlattenSeq
<1>2. \A m : H!Serialize(m) = Serialize(m)
  BY DEF H!Serialize, Serialize, H!Header, Header, H!ConnectionHeader, ConnectionHeader,
    H!LengthHeader, LengthHeader
<1> QED BY <1>1, <1>2 DEF H!Stream, Stream

LEMMA SameRead == ASSUME NEW fd \in Fd PROVE H!ReadChunk(fd) <=> ReadChunk(fd)
BY SameStream DEF H!ReadChunk, ReadChunk, H!AtLoop, AtLoop, H!NoFd, NoFd, H!Live, Live,
  H!ConnOf, ConnOf, H!received, received

LEMMA SameDone == ASSUME NEW fd \in Fd PROVE H!RawDataDone(fd) <=> RawDataDone(fd)
BY DEF H!RawDataDone, RawDataDone, H!HasLine, HasLine, H!NoFd, NoFd

LEMMA SameDispatch ==
  ASSUME NEW fd, NEW request, NEW taken
  PROVE  H!dispatchRequest(fd, request, taken) <=> dispatchRequest(fd, request, taken)
<1>1. \A q, st : H!CloseAfterFlush(fd, q, st) <=> CloseAfterFlush(fd, q, st)
  BY DEF H!CloseAfterFlush, CloseAfterFlush, H!Disconnect, Disconnect, H!erase, erase,
    H!markPendingClose, markPendingClose, H!NoClient, NoClient, H!NewClient, NewClient,
    H!NoParseState, NoParseState, H!ParseState, ParseState, H!NewRequest, NewRequest, H!ConnOf,
    ConnOf
<1> QED BY <1>1 DEF H!dispatchRequest, dispatchRequest, H!Answered, Answered, H!Unanswered,
  Unanswered,
  H!sendToClient, sendToClient, H!Live, Live, H!keepAlive, keepAlive, H!ConnOf, ConnOf,
  H!NewParseState, NewParseState, H!ParseState, ParseState, H!NewRequest, NewRequest

LEMMA SameError ==
  ASSUME NEW fd, NEW taken
  PROVE  H!onHttpError(fd, taken) <=> onHttpError(fd, taken)
BY DEF H!CloseAfterFlush, CloseAfterFlush, H!Disconnect, Disconnect, H!erase, erase,
    H!markPendingClose, markPendingClose, H!NoClient, NoClient, H!NewClient, NewClient,
    H!NoParseState, NoParseState, H!ParseState, ParseState, H!NewRequest, NewRequest, H!ConnOf,
    ConnOf,
    H!onHttpError, onHttpError, H!BadRequest, BadRequest, H!sendToClient, sendToClient, H!Live, Live

LEMMA SameParts ==
  /\ \A request, h : H!WithHeader(request, h) = WithHeader(request, h)
  /\ \A value : H!stoul(value) = stoul(value)
  /\ \A fd, ps, taken : H!Continue(fd, ps, taken) <=> Continue(fd, ps, taken)
  /\ \A stage, request, n : H!ParseState(stage, request, n) = ParseState(stage, request, n)
<1>1. \A request, h : H!WithHeader(request, h) = WithHeader(request, h)
  BY DEF H!WithHeader, WithHeader, H!ConnectionHeader, ConnectionHeader, H!LengthHeader,
    LengthHeader
<1>2. \A value : H!stoul(value) = stoul(value)
  BY DEF H!stoul, stoul
<1>3. \A fd, ps, taken : H!Continue(fd, ps, taken) <=> Continue(fd, ps, taken)
  BY DEF H!Continue, Continue
<1>4. \A stage, request, n : H!ParseState(stage, request, n) = ParseState(stage, request, n)
  BY DEF H!ParseState, ParseState
<1> QED BY <1>1, <1>2, <1>3, <1>4

LEMMA SameHeaderLine ==
  ASSUME NEW fd, NEW ps, NEW line, NEW taken
  PROVE  H!parseHeaderLine(fd, ps, line, taken) <=> parseHeaderLine(fd, ps, line, taken)
<1> DEFINE new == IF ps.request.length = "" THEN ps.bodyRemaining ELSE stoul(ps.request.length)
<1>1. /\ \A t : H!onHttpError(fd, t) <=> onHttpError(fd, t)
      /\ \A r, t : H!dispatchRequest(fd, r, t) <=> dispatchRequest(fd, r, t)
  BY SameError, SameDispatch
<1>2. H!ConnectionHeader = ConnectionHeader /\ H!LengthHeader = LengthHeader /\ H!Numbers = Numbers
  BY SameNames
<1>3. H!WithHeader(ps.request, line[1]) = WithHeader(ps.request, line[1])
  BY SameParts
<1>4. H!stoul(ps.request.length) = stoul(ps.request.length)
  BY SameParts
<1>5. \A p, t : H!Continue(fd, p, t) <=> Continue(fd, p, t)
  BY SameParts
<1>6. \A n : H!ParseState("Body", ps.request, n) = ParseState("Body", ps.request, n)
  BY SameParts
<1> QED BY <1>1, <1>2, <1>3, <1>4, <1>5, <1>6 DEF H!parseHeaderLine, parseHeaderLine

LEMMA SameParse == ASSUME NEW fd \in Fd PROVE H!ParseLine(fd) <=> ParseLine(fd)
<1>1. \A ps, line, taken :
        H!parseRequestLine(fd, ps, line, taken) <=> parseRequestLine(fd, ps, line, taken)
  BY SameError DEF H!parseRequestLine, parseRequestLine, H!Continue, Continue, H!ParseState,
    ParseState
<1>2. \A ps, line, taken :
        H!parseHeaderLine(fd, ps, line, taken) <=> parseHeaderLine(fd, ps, line, taken)
  BY SameHeaderLine
<1> QED BY <1>1, <1>2 DEF H!ParseLine, ParseLine, H!HasLine, HasLine, H!LineEnd, LineEnd,
  H!AfterLine, AfterLine

LEMMA SameConsume == ASSUME NEW fd \in Fd PROVE H!ConsumeBody(fd) <=> ConsumeBody(fd)
BY SameDispatch DEF H!ConsumeBody, ConsumeBody, H!Continue, Continue, H!ParseState, ParseState,
  H!TakenForBody, TakenForBody, H!Min2, Min2, H!NoFd, NoFd

LEMMA SameActs == Acts <=> H!Acts
BY SameAccept, SameWrite, SameGone, SameRead, SameDone, SameParse, SameConsume
  DEF Acts, H!Acts, onRawData, H!onRawData

LEMMA SameInit == H!Init <=> Init
BY DEF H!Init, Init, H!NoClient, NoClient, H!NewClient, NewClient, H!NoParseState, NoParseState,
  H!ParseState, ParseState, H!NewRequest, NewRequest, H!NoFd, NoFd

LEMMA SameProperties == H!ParseStatesMatch <=> ParseStatesMatch
BY DEF H!ParseStatesMatch, ParseStatesMatch, H!Live, Live

LEMMA SameKept == \A s, K : H!Kept(s, K) = Kept(s, K)
BY DEF H!Kept, Kept, H!KeptUpTo, KeptUpTo

-----------------------------------------------------------------------------
(* What a step of HttpServer is, in the terms of this module.              *)

HttpStanding == H!Standing

\* What came of the bytes of a connection, and what was written and queued with it.
Grows(out, queue, out2, queue2, new) ==
  out2 \o queue2 = (out \o queue) \o Kept(new, Response)

Closing(fd, new) ==
  clients[fd].pendingClose \/ \E i \in 1..Len(new) : H!MayClose(new[i])

Enters(g) ==
  /\ g \in Fd \ Live(clients)
  /\ net'[ConnOf(g)'].out = <<>> /\ log'[ConnOf(g)'] = <<>>
  /\ clients'[g].sendQueue = <<>> /\ ~clients'[g].pendingClose

Remains(g) ==
  /\ g \in Live(clients) /\ ConnOf(g)' = ConnOf(g)
  /\ \E new \in Seq(Event) :
       /\ log'[ConnOf(g)] = log[ConnOf(g)] \o new
       /\ Grows(net[ConnOf(g)].out, clients[g].sendQueue,
                net'[ConnOf(g)].out, clients'[g].sendQueue, new)
       /\ clients'[g].pendingClose => Closing(g, new)

Departs(g) ==
  \/ ClientGone(g)
  \/ \E new \in Seq(Event) :
       /\ log'[ConnOf(g)] = log[ConnOf(g)] \o new
       /\ Grows(net[ConnOf(g)].out, clients[g].sendQueue, net'[ConnOf(g)].out, <<>>, new)
       /\ Closing(g, new)

LEMMA SameMessage == H!Message = Message
BY DEF H!Message, Message, H!Word, Word, H!Numbers, Numbers, H!Symbol, Symbol,
  H!ConnectionHeader, ConnectionHeader, H!LengthHeader, LengthHeader, H!stoul, stoul

LEMMA SameGrows ==
  \A o, q, o2, q2, new : H!Grows(o, q, o2, q2, new) <=> Grows(o, q, o2, q2, new)
BY SameKept, SameNames DEF H!Grows, Grows

LEMMA SameViews ==
  ASSUME NEW g \in Fd
  PROVE  /\ H!Enters(g) => Enters(g)
         /\ H!Remains(g) => Remains(g)
         /\ H!Departs(g) => Departs(g)
<1>1. H!Live(clients) = Live(clients) /\ H!ConnOf(g) = ConnOf(g) /\ H!Event = Event
      /\ H!ConnOf(g)' = ConnOf(g)'
  BY SameNames DEF H!ConnOf, ConnOf
<1>2. \A new : H!Closing(g, new) <=> Closing(g, new)
  BY DEF H!Closing, Closing
<1>3. H!Enters(g) => Enters(g)
  BY <1>1 DEF H!Enters, Enters
<1>4. H!Remains(g) => Remains(g)
  BY <1>1, <1>2, SameGrows DEF H!Remains, Remains, H!Grown
<1>5. H!Departs(g) => Departs(g)
  BY <1>1, <1>2, SameGrows, SameGone DEF H!Departs, Departs
<1> QED BY <1>3, <1>4, <1>5

LEMMA LiveFds ==
  ASSUME HttpStanding
  PROVE  /\ Live(clients) \subseteq Fd
         /\ clients \in [Fd -> H!Entry] /\ net \in [Conn -> H!End] /\ log \in [Conn -> Seq(Event)]
         /\ \A fd \in Live(clients) : ConnOf(fd) \in Conn
         /\ \A fd \in Live(clients) : net[ConnOf(fd)].at = "open"
         /\ ParseStatesMatch
<1>1. /\ clients \in [Fd -> H!Entry] /\ net \in [Conn -> H!End] /\ log \in [Conn -> Seq(Event)]
      /\ H!Owned /\ H!ParseStatesMatch
  BY SameNames DEF HttpStanding, H!Standing, H!Sound, H!Tables
<1>2. Live(clients) \subseteq Fd
  BY <1>1 DEF Live
<1>3. \A fd \in Live(clients) : ConnOf(fd) \in Conn
  BY <1>1, <1>2 DEF ConnOf, Live, H!Entry
<1>4. \A fd \in Live(clients) : net[ConnOf(fd)].at = "open"
  BY <1>1, SameNames DEF H!Owned
<1> QED BY <1>1, <1>2, <1>3, <1>4, SameProperties

\* A step of the loop of HttpServer.
LEMMA HttpStep ==
  ASSUME HttpStanding, Acts
  PROVE  /\ HttpStanding' /\ running' = running
         /\ \A g \in Live(clients)' : Enters(g) \/ Remains(g)
         /\ \A g \in Live(clients) \ Live(clients)' : Departs(g)
<1>1. H!Standing /\ H!Acts
  BY SameActs DEF HttpStanding
<1>2. /\ H!Standing' /\ running' = running
      /\ \A g \in H!Live(clients)' : H!Enters(g) \/ H!Remains(g)
      /\ \A g \in H!Live(clients) \ H!Live(clients)' : H!Departs(g)
  BY <1>1, H!StandingStep, HelloAssumption, SameMessage
<1>3. H!Live(clients) = Live(clients) /\ H!Live(clients)' = Live(clients)'
  BY DEF H!Live, Live
<1>4. Live(clients) \subseteq Fd /\ Live(clients)' \subseteq Fd
  BY <1>1, <1>2 DEF H!Standing, H!Sound, H!Tables, Live
<1> QED BY <1>2, <1>3, <1>4, SameViews DEF HttpStanding

LEMMA HttpStop ==
  ASSUME HttpStanding, Stop
  PROVE  HttpStanding' /\ running' = FALSE /\ Live(clients)' = {}
<1>1. H!Standing /\ H!Stop
  BY SameStop DEF HttpStanding
<1>2. H!Live(clients)' = Live(clients)'
  BY DEF H!Live, Live
<1> QED BY <1>1, <1>2, H!StopKeeps, HelloAssumption, SameMessage DEF HttpStanding

LEMMA HttpInit ==
  ASSUME Init
  PROVE  HttpStanding /\ Live(clients) = {}
<1>1. H!Init /\ H!Live(clients) = Live(clients)
  BY SameInit, SameNames
<1> QED BY <1>1, H!InitStands, HelloAssumption, SameMessage DEF HttpStanding

-----------------------------------------------------------------------------
(* Pages.                                                                  *)

\* What onHttpRequest() queues for an event, and for each of a row of them.
PageOf(e) == IF e.kind = "unanswered" THEN Page(e.request) ELSE <<>>

PageRow(events) == [i \in 1..Len(events) |-> PageOf(events[i])]

LEMMA PageTypes ==
  ASSUME NEW e \in Event
  PROVE  /\ PageOf(e) \in Seq(PageWord)
         /\ e.kind = "unanswered" => Len(PageOf(e)) = 2
         /\ e.kind # "unanswered" => PageOf(e) = <<>>
<1>1. e.request \in Request
  BY DEF Event
<1>2. [kind |-> "head", request |-> e.request] \in PageWord
      /\ [kind |-> "rest", request |-> e.request] \in PageWord
  BY <1>1 DEF PageWord
<1> HIDE DEF PageWord
<1>3. Page(e.request) \in Seq(PageWord) /\ Len(Page(e.request)) = 2
  BY <1>2 DEF Page
<1> QED BY <1>3 DEF PageOf

LEMMA RowType ==
  ASSUME NEW events \in Seq(Event)
  PROVE  /\ PageRow(events) \in Seq(Seq(PageWord))
         /\ Pages(events) = FlattenSeq(PageRow(events))
<1>1. \A i \in 1..Len(events) : PageOf(events[i]) \in Seq(PageWord)
  BY PageTypes
<1>2. DOMAIN events = 1..Len(events) /\ Len(events) \in Nat
  OBVIOUS
<1>3. PageRow(events) \in Seq(Seq(PageWord))
  BY <1>1, <1>2 DEF PageRow
<1>4. Pages(events) = FlattenSeq(PageRow(events))
  BY <1>2 DEF Pages, PageRow, PageOf
<1> QED BY <1>3, <1>4

LEMMA PagesType ==
  ASSUME NEW events \in Seq(Event)
  PROVE  Pages(events) \in Seq(PageWord)
BY RowType, FlattenType

LEMMA PagesOfNone == Pages(<<>>) = <<>>
<1>1. <<>> \in Seq(Event)
  OBVIOUS
<1>2. PageRow(<<>>) = <<>>
  BY DEF PageRow
<1> QED BY <1>1, <1>2, RowType, FlattenFew

LEMMA Concatenated ==
  ASSUME NEW S, NEW s \in Seq(S), NEW t \in Seq(S), NEW m, NEW n, m = Len(s), n = Len(t)
  PROVE  /\ s \o t \in Seq(S) /\ m \in Nat /\ n \in Nat
         /\ Len(s \o t) = m + n /\ DOMAIN (s \o t) = 1..(m + n)
         /\ s \o t = [i \in 1..(m + n) |-> IF i <= m THEN s[i] ELSE t[i - m]]
<1>1. s \o t \in Seq(S) /\ m \in Nat /\ n \in Nat
  OBVIOUS
<1>2. Len(s \o t) = m + n
  OBVIOUS
<1>3. DOMAIN (s \o t) = 1..(m + n) /\ s \o t = [i \in DOMAIN (s \o t) |-> (s \o t)[i]]
  <2> DEFINE u == s \o t
  <2>1. u \in Seq(S) /\ Len(u) = m + n
    BY <1>1, <1>2
  <2> HIDE DEF u
  <2>2. DOMAIN u = 1..(m + n) /\ u = [i \in DOMAIN u |-> u[i]]
    BY <2>1
  <2> QED BY <2>2 DEF u
<1>4. \A i \in 1..(m + n) : (s \o t)[i] = IF i <= m THEN s[i] ELSE t[i - m]
  OBVIOUS
<1> DEFINE u == s \o t
<1>5. u = [i \in 1..(m + n) |-> u[i]] /\ \A i \in 1..(m + n) : u[i] = IF i <= m THEN s[i] ELSE t[i - m]
  BY <1>3, <1>4
<1> HIDE DEF u
<1>6. u = [i \in 1..(m + n) |-> IF i <= m THEN s[i] ELSE t[i - m]]
  BY <1>5
<1> QED BY <1>1, <1>2, <1>3, <1>6 DEF u

LEMMA PagesOfBoth ==
  ASSUME NEW s \in Seq(Event), NEW t \in Seq(Event)
  PROVE  Pages(s \o t) = Pages(s) \o Pages(t)
<1>1. s \o t \in Seq(Event)
  OBVIOUS
<1>2. PageRow(s \o t) = PageRow(s) \o PageRow(t)
  <2> DEFINE m == Len(s)
             n == Len(t)
             a == PageRow(s)
             b == PageRow(t)
  <2>1. m \in Nat /\ n \in Nat /\ Len(s \o t) = m + n
        /\ \A i \in 1..(m + n) : (s \o t)[i] = IF i <= m THEN s[i] ELSE t[i - m]
    OBVIOUS
  <2>2. /\ a \in Seq(Seq(PageWord)) /\ b \in Seq(Seq(PageWord)) /\ Len(a) = m /\ Len(b) = n
        /\ \A i \in 1..m : a[i] = PageOf(s[i])
        /\ \A i \in 1..n : b[i] = PageOf(t[i])
    <3>1. a \in Seq(Seq(PageWord)) /\ b \in Seq(Seq(PageWord))
      BY RowType
    <3>2. a = [i \in 1..m |-> PageOf(s[i])] /\ b = [i \in 1..n |-> PageOf(t[i])]
      BY DEF PageRow
    <3> HIDE DEF a, b, m, n
    <3>3. DOMAIN a = 1..m /\ DOMAIN b = 1..n
      BY <3>2
    <3>4. Len(a) = m /\ Len(b) = n
      BY <2>1, <3>1, <3>3
    <3> QED BY <3>1, <3>2, <3>4
  <2> DEFINE c == a \o b
             d == PageRow(s \o t)
  <2>3. d = [i \in 1..(m + n) |-> PageOf((s \o t)[i])]
    BY <2>1 DEF PageRow
  <2> HIDE DEF a, b, m, n
  <2>4. c = [i \in 1..(m + n) |-> IF i <= m THEN a[i] ELSE b[i - m]]
    <3>1. m = Len(a) /\ n = Len(b)
      BY <2>2
    <3> QED BY <2>2, <3>1, Concatenated
  <2> HIDE DEF c, d
  <2>5. \A i \in 1..(m + n) : PageOf((s \o t)[i]) = IF i <= m THEN a[i] ELSE b[i - m]
    <3> SUFFICES ASSUME NEW i \in 1..(m + n)
                 PROVE  PageOf((s \o t)[i]) = IF i <= m THEN a[i] ELSE b[i - m]
      OBVIOUS
    <3>1. CASE i <= m
      <4>1. i \in 1..m /\ (s \o t)[i] = s[i]
        BY <2>1, <3>1
      <4> QED BY <2>2, <3>1, <4>1
    <3>2. CASE ~ i <= m
      <4>1. i - m \in 1..n /\ (s \o t)[i] = t[i - m]
        BY <2>1, <3>2
      <4> QED BY <2>2, <3>2, <4>1
    <3> QED BY <3>1, <3>2
  <2>6. c = d
    BY <2>3, <2>4, <2>5
  <2> QED BY <2>6 DEF a, b, c, d
<1>3. PageRow(s) \in Seq(Seq(PageWord)) /\ PageRow(t) \in Seq(Seq(PageWord))
  BY RowType
<1>4. FlattenSeq(PageRow(s) \o PageRow(t)) = FlattenSeq(PageRow(s)) \o FlattenSeq(PageRow(t))
  BY <1>3, FlattenBoth
<1>5. /\ Pages(s \o t) = FlattenSeq(PageRow(s \o t))
      /\ Pages(s) = FlattenSeq(PageRow(s)) /\ Pages(t) = FlattenSeq(PageRow(t))
  BY <1>1, RowType
<1> QED BY <1>2, <1>4, <1>5

\* One request that is to be answered later is a page, and no page is shorter.
LEMMA PagesOfOne ==
  ASSUME NEW e \in Event
  PROVE  Pages(<<e>>) = PageOf(e)
<1>1. <<e>> \in Seq(Event) /\ PageRow(<<e>>) = <<PageOf(e)>>
  BY DEF PageRow
<1> QED BY <1>1, RowType, FlattenFew

LEMMA PagesWhole ==
  ASSUME NEW events \in Seq(Event)
  PROVE  /\ Len(Pages(events)) \in Nat
         /\ Pages(events) # <<>> => Len(Pages(events)) >= 2
<1> DEFINE n == Len(events)
           u(i) == SubSeq(events, 1, i)
           p(i) == Pages(u(i))
           P == {i \in 0..n : p(i) = <<>> \/ Len(p(i)) >= 2}
<1>1. /\ n \in Nat /\ u(0) = <<>> /\ u(n) = events
      /\ \A i \in 1..n : /\ u(i - 1) \in Seq(Event) /\ events[i] \in Event
                         /\ u(i) = Append(u(i - 1), events[i])
  BY Parts
<1>2. ASSUME NEW i \in 1..n
      PROVE  /\ p(i) = p(i - 1) \o PageOf(events[i])
             /\ p(i - 1) \in Seq(PageWord)
  <2>1. Append(u(i - 1), events[i]) = u(i - 1) \o <<events[i]>> /\ <<events[i]>> \in Seq(Event)
    BY <1>1
  <2>2. Pages(u(i - 1) \o <<events[i]>>) = Pages(u(i - 1)) \o Pages(<<events[i]>>)
    BY <1>1, <2>1, PagesOfBoth
  <2> QED BY <1>1, <2>1, <2>2, PagesOfOne, PagesType
<1>3. p(0) = <<>> /\ p(n) = Pages(events)
  BY <1>1, PagesOfNone
<1> HIDE DEF u, n, p
<1>4. 0..n \subseteq P
  <2>1. 0 \in P
    BY <1>1, <1>3
  <2>2. ASSUME NEW i \in 1..n, i - 1 \in P PROVE i \in P
    <3>1. /\ p(i - 1) \in Seq(PageWord) /\ (p(i - 1) = <<>> \/ Len(p(i - 1)) >= 2)
          /\ p(i) = p(i - 1) \o PageOf(events[i]) /\ i \in 0..n
      BY <1>1, <1>2, <2>2
    <3> DEFINE x == PageOf(events[i])
               q == p(i - 1)
    <3>2. x \in Seq(PageWord) /\ (x = <<>> \/ Len(x) = 2)
      BY <1>1, PageTypes
    <3> HIDE DEF x, q
    <3>3. q \in Seq(PageWord) /\ (q = <<>> \/ Len(q) >= 2) /\ p(i) = q \o x
      BY <3>1 DEF x, q
    <3>4. q \o x = <<>> \/ Len(q \o x) >= 2
      <4>1. CASE x = <<>>
        <5>1. q \o x = q
          BY <3>3, <4>1
        <5> QED BY <3>3, <5>1
      <4>2. CASE Len(x) = 2
        <5>1. Len(q \o x) = Len(q) + Len(x) /\ Len(q) \in Nat
          BY <3>2, <3>3, Concatenated
        <5> QED BY <4>2, <5>1
      <4> QED BY <3>2, <4>1, <4>2
    <3> QED BY <3>1, <3>3, <3>4
  <2> HIDE DEF P
  <2> QED BY <1>1, <2>1, <2>2, Induction
<1>5. n \in P
  BY <1>1, <1>4
<1>6. Pages(events) \in Seq(PageWord)
  BY PagesType
<1> QED BY <1>3, <1>5, <1>6

-----------------------------------------------------------------------------
(* The inductive invariant.                                                *)

\* Written, queued for the client and still to be fed, against what was asked for.
Paged(out, queue, drip, events) == Kept(out \o queue, PageWord) \o drip = Pages(events)

\* A close that nothing else asked for waits for a page.
PageFirst(closes, out, queue, events) ==
  closes /\ (\A i \in DOMAIN events : ~Ends(events[i])) => Len(out \o queue) >= 2

FirstOut ==
  \A fd \in Live(clients) :
    PageFirst(clients[fd].pendingClose, net[ConnOf(fd)].out, clients[fd].sendQueue, log[ConnOf(fd)])

HelloInv ==
  /\ HttpStanding
  /\ dripQueues \in [Fd -> Seq(PageWord)]
  /\ PagesConserved
  /\ FirstOut

LEMMA PagesAre ==
  PagesConserved <=>
    (running => \A fd \in Fd :
       /\ fd \in Live(clients) => Paged(net[ConnOf(fd)].out, clients[fd].sendQueue,
                                        dripQueues[fd], log[ConnOf(fd)])
       /\ fd \notin Live(clients) => dripQueues[fd] = <<>>)
BY DEF PagesConserved, Paged

LEMMA Words ==
  /\ PageWord \subseteq Sent /\ Response \subseteq Event /\ Response \subseteq Sent
  /\ Response \cap PageWord = {}
BY DEF PageWord, Sent, Response, Event

Associates(s, t, u) == (s \o t) \o u = s \o (t \o u)

LEMMA Associate ==
  ASSUME NEW S, NEW s \in Seq(S), NEW t \in Seq(S), NEW u \in Seq(S)
  PROVE  Associates(s, t, u)
BY DEF Associates

LEMMA Together ==
  ASSUME NEW S, NEW s \in Seq(S), NEW t \in Seq(S)
  PROVE  s \o t \in Seq(S)
OBVIOUS

\* The responses among what came of a connection's bytes hold no word of a page.
LEMMA NoWords ==
  ASSUME NEW new \in Seq(Event)
  PROVE  /\ Kept(new, Response) \in Seq(Sent)
         /\ Kept(Kept(new, Response), PageWord) = <<>>
<1>1. Kept(new, Response) \in Seq(Event \cap Response)
  BY KeptType
<1>2. Event \cap Response = Response
  BY Words
<1>3. Kept(new, Response) \in Seq(Response)
  BY <1>1, <1>2
<1>4. Kept(Kept(new, Response), PageWord) = <<>>
  <2> DEFINE k == Kept(new, Response)
  <2>1. k \in Seq(Response)
    BY <1>3
  <2> HIDE DEF k
  <2>2. Kept(k, PageWord) = <<>>
    BY <2>1, Words, KeptNothing
  <2> QED BY <2>2 DEF k
<1>5. \A S, T : S \subseteq T => Seq(S) \subseteq Seq(T)
  OBVIOUS
<1> QED BY <1>3, <1>4, <1>5, Words

LEMMA KeptPages ==
  ASSUME NEW s \in Seq(Sent), NEW r \in Seq(Sent)
  PROVE  Kept(s \o r, PageWord) = Kept(s, PageWord) \o Kept(r, PageWord)
BY KeptOfBoth

LEMMA KeptBefore ==
  ASSUME NEW s \in Seq(Sent), NEW r \in Seq(Sent), Kept(r, PageWord) = <<>>
  PROVE  Kept(s \o r, PageWord) = Kept(s, PageWord)
<1> DEFINE k == Kept(s, PageWord)
<1>1. k \in Seq(Sent \cap PageWord)
  BY KeptType
<1>2. Kept(s \o r, PageWord) = k \o Kept(r, PageWord)
  BY KeptPages
<1> HIDE DEF k
<1>3. k \o <<>> = k
  BY <1>1
<1> QED BY <1>2, <1>3 DEF k

LEMMA KeptGrown ==
  ASSUME NEW s \in Seq(Sent), NEW new \in Seq(Event)
  PROVE  Kept(s \o Kept(new, Response), PageWord) = Kept(s, PageWord)
BY NoWords, KeptBefore

LEMMA GrowsPaged ==
  ASSUME NEW o \in Seq(Sent), NEW q \in Seq(Sent), NEW o2, NEW q2,
         NEW d \in Seq(PageWord), NEW events \in Seq(Event), NEW new \in Seq(Event),
         Paged(o, q, d, events), Grows(o, q, o2, q2, new)
  PROVE  Paged(o2, q2, d \o Pages(new), events \o new)
<1> DEFINE oq == o \o q
           k == Kept(oq, PageWord)
           p == Pages(new)
<1>1. oq \in Seq(Sent) /\ p \in Seq(PageWord)
  BY Together, PagesType
<1>2. o2 \o q2 = oq \o Kept(new, Response)
  BY DEF Grows
<1>3. k \o d = Pages(events)
  BY DEF Paged
<1> HIDE DEF oq, p
<1>4. k \in Seq(Sent \cap PageWord) /\ Sent \cap PageWord = PageWord
  BY <1>1, KeptType, Words
<1>5. Kept(o2 \o q2, PageWord) = k
  BY <1>1, <1>2, KeptGrown
<1> HIDE DEF k
<1>6. k \in Seq(PageWord)
  BY <1>4
<1>8. Associates(k, d, p)
  BY <1>1, <1>6, Associate
<1>9. Pages(events \o new) = Pages(events) \o p
  BY PagesOfBoth DEF p
<1>10. Kept(o2 \o q2, PageWord) \o (d \o p) = Pages(events \o new)
  BY <1>3, <1>5, <1>8, <1>9 DEF Associates
<1> QED BY <1>10 DEF Paged, p

\* A word goes from the drip queue to the client's.
LEMMA WordMoves ==
  ASSUME NEW o \in Seq(Sent), NEW q \in Seq(Sent), NEW d \in Seq(PageWord), d # <<>>,
         NEW events, Paged(o, q, d, events)
  PROVE  Paged(o, q \o <<Head(d)>>, Tail(d), events)
<1> DEFINE oq == o \o q
           k == Kept(oq, PageWord)
           w == <<Head(d)>>
           r == Tail(d)
<1>1. oq \in Seq(Sent)
  BY Together
<1>2. w \in Seq(PageWord) /\ r \in Seq(PageWord) /\ w \o r = d
  OBVIOUS
<1>3. k \o d = Pages(events)
  BY DEF Paged
<1> HIDE DEF oq, w, r
<1>4. w \in Seq(Sent)
  <2>1. \A S, T : S \subseteq T => Seq(S) \subseteq Seq(T)
    OBVIOUS
  <2> QED BY <1>2, <2>1, Words
<1>5. Associates(o, q, w)
  BY <1>4, Associate
<1>6. Kept(oq \o w, PageWord) = k \o Kept(w, PageWord)
  BY <1>1, <1>4, KeptOfBoth, SMTT(30)
<1>7. Kept(w, PageWord) = w
  BY <1>2, KeptWhole
<1>8. k \in Seq(Sent \cap PageWord) /\ Sent \cap PageWord = PageWord
  BY <1>1, KeptType, Words
<1> HIDE DEF k
<1>9. Associates(k, w, r)
  BY <1>2, <1>8, Associate
<1>10. Kept(o \o (q \o w), PageWord) \o r = Pages(events)
  BY <1>2, <1>3, <1>5, <1>6, <1>7, <1>9 DEF Associates, oq
<1> QED BY <1>10 DEF Paged, w, r

\* The close onTick() asks for comes when all that was asked for is out or queued.
LEMMA LastWordOut ==
  ASSUME NEW o \in Seq(Sent), NEW q \in Seq(Sent), NEW d \in Seq(PageWord), d # <<>>,
         NEW events \in Seq(Event), Paged(o, q, d, events), Tail(d) = <<>>
  PROVE  Len(o \o (q \o <<Head(d)>>)) >= 2
<1> DEFINE q2 == q \o <<Head(d)>>
           oq == o \o q2
           k == Kept(oq, PageWord)
<1>1. Kept(o \o q2, PageWord) \o <<>> = Pages(events)
  <2>1. Paged(o, q \o <<Head(d)>>, Tail(d), events)
    BY WordMoves
  <2> QED BY <2>1 DEF Paged
<1>2. q2 \in Seq(Sent)
  <2>1. Head(d) \in Sent
    BY Words
  <2> QED BY <2>1
<1> HIDE DEF q2
<1>3. oq \in Seq(Sent)
  BY <1>2, Together
<1>4. k \o <<>> = Pages(events)
  BY <1>1
<1> HIDE DEF oq
<1>5. k \in Seq(Sent \cap PageWord) /\ Len(k) <= Len(oq) /\ Len(oq) \in Nat /\ Len(k) \in Nat
  BY <1>3, KeptType, KeptShorter
<1> HIDE DEF k
<1>6. k = Pages(events)
  BY <1>4, <1>5
<1>7. Pages(events) # <<>>
  <2> DEFINE a == Kept(o \o q, PageWord)
  <2>1. a \o d = Pages(events)
    BY DEF Paged
  <2>2. o \o q \in Seq(Sent)
    BY Together
  <2>3. a \in Seq(Sent \cap PageWord) /\ Sent \cap PageWord = PageWord
    BY <2>2, KeptType, Words
  <2> HIDE DEF a
  <2>4. Len(a \o d) = Len(a) + Len(d) /\ Len(a) \in Nat
    BY <2>3, Concatenated
  <2>5. Len(d) \in Nat /\ Len(d) # 0
    OBVIOUS
  <2>6. Len(a \o d) # 0
    BY <2>4, <2>5
  <2> QED BY <2>1, <2>6
<1>8. Len(Pages(events)) >= 2
  BY <1>7, PagesWhole
<1>9. Len(oq) >= 2
  BY <1>5, <1>6, <1>8
<1> QED BY <1>9 DEF oq, q2

\* No hook closes because of a GET whose connection is to be kept.
LEMMA NothingCloses ==
  ASSUME NEW e \in Event, ~Ends(e)
  PROVE  ~H!MayClose(e)
<1>1. e.kind = "unanswered" /\ keepAlive(e.request)
  BY DEF Ends
<1>2. H!keepAlive(e.request)
  BY <1>1 DEF H!keepAlive, keepAlive
<1>3. e # H!BadRequest
  BY <1>1 DEF H!BadRequest
<1>4. \A hook \in onHttpRequest(e.request) : hook.closes => hook.answers
  BY DEF onHttpRequest
<1>5. \A r : H!Answered(r).kind = "answered"
  BY DEF H!Answered
<1> QED BY <1>1, <1>2, <1>3, <1>4, <1>5 DEF H!MayClose

LEMMA NoneEnds ==
  ASSUME NEW events \in Seq(Event), NEW new \in Seq(Event),
         \A i \in DOMAIN (events \o new) : ~Ends((events \o new)[i])
  PROVE  /\ \A i \in DOMAIN events : ~Ends(events[i])
         /\ \A i \in 1..Len(new) : ~H!MayClose(new[i])
<1>1. DOMAIN (events \o new) = 1..(Len(events) + Len(new)) /\ DOMAIN events = 1..Len(events)
  OBVIOUS
<1>2. ASSUME NEW i \in DOMAIN events PROVE ~Ends(events[i])
  <2>1. i \in DOMAIN (events \o new)
    BY <1>1
  <2>2. (events \o new)[i] = events[i]
    OBVIOUS
  <2> QED BY <2>1, <2>2
<1>3. ASSUME NEW i \in 1..Len(new) PROVE ~H!MayClose(new[i])
  <2>1. Len(events) + i \in DOMAIN (events \o new)
    BY <1>1
  <2>2. (events \o new)[Len(events) + i] = new[i]
    OBVIOUS
  <2>3. ~Ends(new[i]) /\ new[i] \in Event
    BY <2>1, <2>2
  <2> QED BY <2>3, NothingCloses
<1> QED BY <1>2, <1>3

\* What came later does not bring the close forward.
LEMMA GrowsPageFirst ==
  ASSUME NEW o \in Seq(Sent), NEW q \in Seq(Sent), NEW o2, NEW q2,
         NEW events \in Seq(Event), NEW new \in Seq(Event), NEW closes, NEW closes2,
         PageFirst(closes, o, q, events), Grows(o, q, o2, q2, new),
         closes2 => closes \/ \E i \in 1..Len(new) : H!MayClose(new[i])
  PROVE  PageFirst(closes2, o2, q2, events \o new)
<1> SUFFICES ASSUME closes2, \A i \in DOMAIN (events \o new) : ~Ends((events \o new)[i])
             PROVE  Len(o2 \o q2) >= 2
  BY DEF PageFirst
<1>4. (\A i \in DOMAIN events : ~Ends(events[i])) /\ (\A i \in 1..Len(new) : ~H!MayClose(new[i]))
  BY NoneEnds
<1>6. Len(o \o q) >= 2
  BY <1>4 DEF PageFirst
<1> DEFINE oq == o \o q
           k == Kept(new, Response)
<1>7. oq \in Seq(Sent) /\ k \in Seq(Sent) /\ Len(oq) >= 2 /\ o2 \o q2 = oq \o k
  BY <1>6, Together, NoWords DEF Grows
<1> HIDE DEF oq, k
<1>8. Len(oq \o k) = Len(oq) + Len(k) /\ Len(oq) \in Nat /\ Len(k) \in Nat
  BY <1>7, Concatenated
<1> QED BY <1>7, <1>8

-----------------------------------------------------------------------------
(* The steps keep it.                                                      *)

\* What a connection's entries hold, and how they grow.
Held(out, queue, drip, events) ==
  out \in Seq(Sent) /\ queue \in Seq(Sent) /\ drip \in Seq(PageWord) /\ events \in Seq(Event)

Adds(events, new, events2) == new \in Seq(Event) /\ events2 = events \o new

Feeds(drip, new, drip2) == drip2 = drip \o Pages(new)

Follows(closes, new, closes2) ==
  closes2 => closes \/ \E i \in 1..Len(new) : H!MayClose(new[i])

Grew(o, q, d, events, closes, o2, q2, d2, events2, closes2) ==
  \E new : /\ Adds(events, new, events2) /\ Feeds(d, new, d2)
           /\ Grows(o, q, o2, q2, new) /\ Follows(closes, new, closes2)

LEMMA HeldGrows ==
  ASSUME NEW o, NEW q, NEW d, NEW events, NEW o2, NEW q2, NEW d2, NEW events2,
         NEW closes, NEW closes2,
         Held(o, q, d, events), Grew(o, q, d, events, closes, o2, q2, d2, events2, closes2)
  PROVE  /\ d2 \in Seq(PageWord)
         /\ Paged(o, q, d, events) => Paged(o2, q2, d2, events2)
         /\ PageFirst(closes, o, q, events) => PageFirst(closes2, o2, q2, events2)
<1>0. PICK new : /\ Adds(events, new, events2) /\ Feeds(d, new, d2)
                 /\ Grows(o, q, o2, q2, new) /\ Follows(closes, new, closes2)
  BY DEF Grew
<1>1. /\ o \in Seq(Sent) /\ q \in Seq(Sent) /\ d \in Seq(PageWord)
      /\ events \in Seq(Event) /\ new \in Seq(Event)
      /\ events2 = events \o new /\ d2 = d \o Pages(new)
  BY <1>0 DEF Held, Adds, Feeds
<1>2. ASSUME Paged(o, q, d, events) PROVE Paged(o2, q2, d2, events2)
  BY <1>0, <1>1, <1>2, GrowsPaged
<1>3. ASSUME PageFirst(closes, o, q, events) PROVE PageFirst(closes2, o2, q2, events2)
  BY <1>0, <1>1, <1>3, GrowsPageFirst DEF Follows
<1>4. d2 \in Seq(PageWord)
  BY <1>1, PagesType, Together
<1> QED BY <1>2, <1>3, <1>4

LEMMA NewEventsAre ==
  ASSUME NEW events \in Seq(Event), NEW new, NEW events2, Adds(events, new, events2)
  PROVE  SubSeq(events2, Len(events) + 1, Len(events2)) = new
BY DEF Adds

LEMMA NothingYet ==
  /\ Paged(<<>>, <<>>, <<>>, <<>>)
  /\ \A o, q, events : PageFirst(FALSE, o, q, events)
<1>1. <<>> \o <<>> = <<>>
  OBVIOUS
<1>2. Paged(<<>>, <<>>, <<>>, <<>>)
  BY <1>1, KeptOfEmpty, PagesOfNone DEF Paged
<1> QED BY <1>2 DEF PageFirst

\* The types of what belongs to a client.
LEMMA Types ==
  ASSUME HelloInv, NEW fd \in Live(clients)
  PROVE  /\ fd \in Fd /\ ConnOf(fd) \in Conn
         /\ clients[fd] \in H!Entry /\ clients[fd].sendQueue \in Seq(Sent)
         /\ net[ConnOf(fd)].out \in Seq(Sent) /\ log[ConnOf(fd)] \in Seq(Event)
         /\ dripQueues[fd] \in Seq(PageWord)
         /\ running => Paged(net[ConnOf(fd)].out, clients[fd].sendQueue, dripQueues[fd],
                             log[ConnOf(fd)])
         /\ PageFirst(clients[fd].pendingClose, net[ConnOf(fd)].out, clients[fd].sendQueue,
                      log[ConnOf(fd)])
<1>1. fd \in Fd /\ ConnOf(fd) \in Conn
      /\ clients[fd] \in H!Entry /\ net[ConnOf(fd)] \in H!End /\ log[ConnOf(fd)] \in Seq(Event)
  BY LiveFds DEF HelloInv
<1>2. clients[fd].sendQueue \in Seq(Sent) /\ net[ConnOf(fd)].out \in Seq(Sent)
  BY <1>1, SameNames DEF H!Entry, H!End
<1>3. running => Paged(net[ConnOf(fd)].out, clients[fd].sendQueue, dripQueues[fd],
                       log[ConnOf(fd)])
  BY <1>1, PagesAre DEF HelloInv
<1> QED BY <1>1, <1>2, <1>3 DEF HelloInv, FirstOut

\* What the hooks do to the queues.
LEMMA HooksAre ==
  ASSUME Hooks
  PROVE  /\ DOMAIN dripQueues' = Fd /\ dripQueues' = [fd \in Fd |-> dripQueues'[fd]]
         /\ \A fd \in Fd :
              /\ fd \notin Live(clients) => dripQueues'[fd] = dripQueues[fd]
              /\ fd \in Live(clients) /\ fd \notin Live(clients)' => dripQueues'[fd] = <<>>
              /\ fd \in Live(clients) /\ fd \in Live(clients)'
                   => dripQueues'[fd] = dripQueues[fd] \o Pages(NewEvents(fd))
<1>1. Live(clients') = Live(clients)'
  BY DEF Live
<1> DEFINE Hook(fd) ==
             IF fd \notin Live(clients) THEN dripQueues[fd]
             ELSE IF fd \notin Live(clients') THEN <<>>
             ELSE dripQueues[fd] \o Pages(NewEvents(fd))
<1>2. dripQueues' = [fd \in Fd |-> Hook(fd)]
  BY DEF Hooks
<1>3. ASSUME NEW fd \in Fd
      PROVE  /\ fd \notin Live(clients) => Hook(fd) = dripQueues[fd]
             /\ fd \in Live(clients) /\ fd \notin Live(clients') => Hook(fd) = <<>>
             /\ fd \in Live(clients) /\ fd \in Live(clients')
                  => Hook(fd) = dripQueues[fd] \o Pages(NewEvents(fd))
  <2>1. CASE fd \notin Live(clients)
    BY <2>1
  <2>2. CASE fd \in Live(clients) /\ fd \notin Live(clients')
    BY <2>2
  <2>3. CASE fd \in Live(clients) /\ fd \in Live(clients')
    BY <2>3
  <2> QED BY <2>1, <2>2, <2>3
<1> HIDE DEF Hook
<1>4. DOMAIN dripQueues' = Fd /\ dripQueues' = [fd \in Fd |-> dripQueues'[fd]]
      /\ \A fd \in Fd : dripQueues'[fd] = Hook(fd)
  BY <1>2
<1> QED BY <1>1, <1>3, <1>4

\* A client that remains gets the pages of what came of its bytes.
LEMMA RemainsPaged ==
  ASSUME HelloInv, Hooks, NEW g, Remains(g), g \in Live(clients)'
  PROVE  \E c \in Conn :
           /\ c = ConnOf(g) /\ c = ConnOf(g)'
           /\ dripQueues'[g] \in Seq(PageWord)
           /\ running => Paged(net'[c].out, clients'[g].sendQueue, dripQueues'[g], log'[c])
           /\ PageFirst(clients'[g].pendingClose, net'[c].out, clients'[g].sendQueue, log'[c])
<1>1. g \in Live(clients) /\ ConnOf(g)' = ConnOf(g)
  BY DEF Remains
<1>2. PICK c \in Conn : c = ConnOf(g)
  BY <1>1, Types
<1> DEFINE o == net[c].out
           q == clients[g].sendQueue
           d == dripQueues[g]
           events == log[c]
           closes == clients[g].pendingClose
<1>3. /\ g \in Fd /\ Held(o, q, d, events) /\ events \in Seq(Event)
      /\ running => Paged(o, q, d, events)
      /\ PageFirst(closes, o, q, events)
  BY <1>1, <1>2, Types DEF Held
<1>4. \E new : /\ Adds(events, new, log'[c])
               /\ Grows(o, q, net'[c].out, clients'[g].sendQueue, new)
               /\ Follows(closes, new, clients'[g].pendingClose)
  BY <1>2 DEF Remains, Adds, Closing, Follows
<1>5. PICK new : /\ Adds(events, new, log'[c])
                 /\ Grows(o, q, net'[c].out, clients'[g].sendQueue, new)
                 /\ Follows(closes, new, clients'[g].pendingClose)
  BY <1>4
<1>6. NewEvents(g) = new
  <2>1. NewEvents(g) = SubSeq(log'[c], Len(events) + 1, Len(log'[c]))
    BY <1>2 DEF NewEvents
  <2> QED BY <1>3, <1>5, <2>1, NewEventsAre
<1>7. Feeds(d, new, dripQueues'[g])
  <2>1. dripQueues'[g] = dripQueues[g] \o Pages(NewEvents(g))
    BY <1>1, <1>3, HooksAre
  <2> QED BY <1>6, <2>1 DEF Feeds
<1>8. Grew(o, q, d, events, closes, net'[c].out, clients'[g].sendQueue, dripQueues'[g], log'[c],
           clients'[g].pendingClose)
  BY <1>5, <1>7 DEF Grew
<1>9. /\ dripQueues'[g] \in Seq(PageWord)
      /\ Paged(o, q, d, events) => Paged(net'[c].out, clients'[g].sendQueue, dripQueues'[g], log'[c])
      /\ PageFirst(closes, o, q, events)
           => PageFirst(clients'[g].pendingClose, net'[c].out, clients'[g].sendQueue, log'[c])
  <2> HIDE DEF o, q, d, events, closes
  <2> QED BY <1>3, <1>8, HeldGrows
<1> QED BY <1>1, <1>2, <1>3, <1>9

\* The invariant after a step, descriptor by descriptor.
LEMMA HelloNextInv ==
  ASSUME HttpStanding', dripQueues' \in [Fd -> Seq(PageWord)],
         \A fd \in Fd : fd \notin Live(clients)' => (running' => dripQueues'[fd] = <<>>),
         \A fd \in Live(clients)' :
           LET c == clients'[fd].remoteAddr
           IN  /\ running' => Paged(net'[c].out, clients'[fd].sendQueue, dripQueues'[fd], log'[c])
               /\ PageFirst(clients'[fd].pendingClose, net'[c].out, clients'[fd].sendQueue, log'[c])
  PROVE  HelloInv'
<1>1. PagesConserved'
  BY DEF PagesConserved, Paged, ConnOf
<1>2. FirstOut'
  BY DEF FirstOut, PageFirst, ConnOf
<1> QED BY <1>1, <1>2 DEF HelloInv

\* A step of the loop of HttpServer, and the hooks.
LEMMA HookedKeeps ==
  ASSUME HelloInv, Acts, Hooks
  PROVE  HelloInv'
<1>1. /\ HttpStanding' /\ running' = running
      /\ \A g \in Live(clients)' : Enters(g) \/ Remains(g)
  BY HttpStep DEF HelloInv
<1>2. /\ dripQueues \in [Fd -> Seq(PageWord)]
      /\ \A fd \in Fd \ Live(clients) : running => dripQueues[fd] = <<>>
  BY PagesAre DEF HelloInv
<1>3. /\ DOMAIN dripQueues' = Fd /\ dripQueues' = [fd \in Fd |-> dripQueues'[fd]]
      /\ \A fd \in Fd :
           /\ fd \notin Live(clients) => dripQueues'[fd] = dripQueues[fd]
           /\ fd \in Live(clients) /\ fd \notin Live(clients)' => dripQueues'[fd] = <<>>
  BY HooksAre
<1>4. Live(clients)' \subseteq Fd
  BY <1>1 DEF HttpStanding, H!Standing, H!Sound, H!Tables, Live
<1>5. ASSUME NEW g \in Live(clients)'
      PROVE  LET c == clients'[g].remoteAddr
             IN  /\ dripQueues'[g] \in Seq(PageWord)
                 /\ running' => Paged(net'[c].out, clients'[g].sendQueue, dripQueues'[g], log'[c])
                 /\ PageFirst(clients'[g].pendingClose, net'[c].out, clients'[g].sendQueue, log'[c])
  <2>1. CASE Enters(g)
    <3> DEFINE c == clients'[g].remoteAddr
    <3>1. /\ g \in Fd \ Live(clients) /\ clients'[g].pendingClose = FALSE
          /\ net'[c].out = <<>> /\ log'[c] = <<>> /\ clients'[g].sendQueue = <<>>
      BY <1>1, <2>1 DEF Enters, ConnOf, HttpStanding, H!Standing, H!Sound, H!Tables, H!Entry
    <3> HIDE DEF c
    <3>2. dripQueues'[g] \in Seq(PageWord) /\ (running' => dripQueues'[g] = <<>>)
      BY <1>1, <1>2, <1>3, <3>1
    <3>3. PageFirst(clients'[g].pendingClose, net'[c].out, clients'[g].sendQueue, log'[c])
      BY <3>1, NothingYet
    <3>4. running' => Paged(net'[c].out, clients'[g].sendQueue, dripQueues'[g], log'[c])
      BY <3>1, <3>2, NothingYet
    <3> QED BY <3>2, <3>3, <3>4 DEF c
  <2>2. CASE Remains(g)
    <3>1. PICK c \in Conn :
           /\ c = ConnOf(g)'
           /\ dripQueues'[g] \in Seq(PageWord)
           /\ running => Paged(net'[c].out, clients'[g].sendQueue, dripQueues'[g], log'[c])
           /\ PageFirst(clients'[g].pendingClose, net'[c].out, clients'[g].sendQueue, log'[c])
      BY <2>2, RemainsPaged
    <3>2. c = clients'[g].remoteAddr
      BY <3>1 DEF ConnOf
    <3> QED BY <1>1, <3>1, <3>2
  <2> QED BY <1>1, <2>1, <2>2
<1>6. ASSUME NEW fd \in Fd
      PROVE  /\ dripQueues'[fd] \in Seq(PageWord)
             /\ fd \notin Live(clients)' => (running' => dripQueues'[fd] = <<>>)
  <2>1. <<>> \in Seq(PageWord)
    OBVIOUS
  <2> QED BY <1>1, <1>2, <1>3, <1>5, <2>1
<1>7. dripQueues' \in [Fd -> Seq(PageWord)]
  BY <1>3, <1>6
<1> QED BY <1>1, <1>5, <1>6, <1>7, HelloNextInv

-----------------------------------------------------------------------------
(* onTick() and the end of the loop.                                       *)

\* The entry of fd after a word of its queue.
LEMMA DripEntry ==
  ASSUME HelloInv, NEW fd \in Live(clients), dripQueues[fd] # <<>>
  PROVE  /\ Drip(fd) \in H!Entry
         /\ Drip(fd).remoteAddr = clients[fd].remoteAddr
         /\ Drip(fd).sendQueue = clients[fd].sendQueue \o <<Head(dripQueues[fd])>>
         /\ Drip(fd).pendingClose =>
              clients[fd].pendingClose \/ Tail(dripQueues[fd]) = <<>>
<1> DEFINE e == clients[fd]
           q == clients[fd].sendQueue \o <<Head(dripQueues[fd])>>
           sent == sendToClient(clients, fd, <<Head(dripQueues[fd])>>)
<1>1. /\ fd \in Fd /\ e \in H!Entry /\ clients \in [Fd -> H!Entry]
      /\ e.sendQueue \in Seq(Sent) /\ dripQueues[fd] \in Seq(PageWord)
  BY Types, LiveFds DEF HelloInv
<1>2. q \in Seq(H!Sent)
  <2>1. Head(dripQueues[fd]) \in PageWord
    BY <1>1
  <2>2. Head(dripQueues[fd]) \in Sent
    BY <2>1, Words
  <2> HIDE DEF q
  <2>3. q \in Seq(Sent)
    BY <1>1, <2>2 DEF q
  <2> QED BY <2>3, SameNames
<1>3. sent = [clients EXCEPT ![fd] = [e EXCEPT !.sendQueue = q]]
  BY <1>1 DEF sendToClient
<1>4. sent[fd] = [e EXCEPT !.sendQueue = q]
  BY <1>1, <1>3
<1>5. markPendingClose(sent, fd)[fd] = [sent[fd] EXCEPT !.pendingClose = TRUE]
  BY <1>1, <1>3 DEF markPendingClose
<1>6. Drip(fd) = IF Tail(dripQueues[fd]) = <<>> THEN [sent[fd] EXCEPT !.pendingClose = TRUE]
                 ELSE sent[fd]
  BY <1>5 DEF Drip
<1> HIDE DEF q, sent
<1>7. /\ sent[fd] \in H!Entry /\ sent[fd].remoteAddr = e.remoteAddr /\ sent[fd].sendQueue = q
      /\ sent[fd].pendingClose = e.pendingClose
  BY <1>1, <1>2, <1>4 DEF H!Entry
<1>8. CASE Tail(dripQueues[fd]) = <<>>
  <2>1. Drip(fd) = [sent[fd] EXCEPT !.pendingClose = TRUE]
    BY <1>6, <1>8
  <2>2. /\ Drip(fd) \in H!Entry /\ Drip(fd).remoteAddr = e.remoteAddr /\ Drip(fd).sendQueue = q
    BY <1>7, <2>1 DEF H!Entry
  <2> QED BY <1>8, <2>2 DEF q
<1>9. CASE Tail(dripQueues[fd]) # <<>>
  BY <1>6, <1>7, <1>9 DEF q
<1> QED BY <1>8, <1>9

\* HttpServer's part of the state stands when only queues and marks change.
LEMMA TickStands ==
  ASSUME HttpStanding, clients' \in [Fd -> H!Entry],
         \A fd \in Fd : clients'[fd].remoteAddr = clients[fd].remoteAddr,
         UNCHANGED <<running, parseStates, parsing, net, log>>
  PROVE  HttpStanding' /\ Live(clients)' = Live(clients)
<1>1. /\ DOMAIN clients = Fd /\ DOMAIN clients' = Fd
      /\ H!Sound /\ H!Tables
  BY LiveFds DEF HttpStanding, H!Standing, H!Sound
<1>2. Live(clients)' = Live(clients) /\ H!Live(clients)' = H!Live(clients)
      /\ H!Live(clients) \subseteq Fd
  BY <1>1 DEF Live, H!Live
<1>3. H!Tables'
  BY <1>1 DEF H!Tables
<1>4. H!Owned'
  BY <1>1, <1>2 DEF H!Sound, H!Owned, H!ConnOf
<1>5. H!ParseStatesMatch'
  BY <1>1, <1>2 DEF H!Sound, H!ParseStatesMatch
<1>6. H!Fresh'
  BY <1>1 DEF H!Sound, H!Fresh
<1> QED BY <1>2, <1>3, <1>4, <1>5, <1>6 DEF HttpStanding, H!Standing, H!Sound

\* One client's entries before and after onTick().
LEMMA TickOne ==
  ASSUME HelloInv, running, NEW fd \in Live(clients), dripQueues[fd] # <<>>, NEW c, c = ConnOf(fd)
  PROVE  /\ Paged(net[c].out, Drip(fd).sendQueue, Tail(dripQueues[fd]), log[c])
         /\ PageFirst(Drip(fd).pendingClose, net[c].out, Drip(fd).sendQueue, log[c])
<1> DEFINE o == net[c].out
           q == clients[fd].sendQueue
           d == dripQueues[fd]
           q2 == q \o <<Head(d)>>
<1>1. /\ o \in Seq(Sent) /\ q \in Seq(Sent) /\ d \in Seq(PageWord) /\ log[c] \in Seq(Event)
      /\ Paged(o, q, d, log[c]) /\ PageFirst(clients[fd].pendingClose, o, q, log[c])
  BY Types
<1>2. /\ Drip(fd).sendQueue = q2
      /\ Drip(fd).pendingClose => clients[fd].pendingClose \/ Tail(d) = <<>>
  BY DripEntry
<1>3. Paged(o, q2, Tail(d), log[c])
  <2> HIDE DEF o, q
  <2>1. Paged(o, q \o <<Head(d)>>, Tail(d), log[c])
    BY <1>1, WordMoves
  <2> QED BY <2>1
<1>4. CASE Tail(d) = <<>>
  <2> HIDE DEF o, q
  <2>1. Len(o \o (q \o <<Head(d)>>)) >= 2
    BY <1>1, <1>4, LastWordOut
  <2> QED BY <1>2, <1>3, <2>1 DEF PageFirst, o
<1>5. CASE Tail(d) # <<>>
  <2> HIDE DEF o, q
  <2>1. Len(o \o q) >= 2 => Len(o \o q2) >= 2
    <3>1. o \o q2 \in Seq(Sent) /\ Len(o \o q2) = Len(o \o q) + 1 /\ Len(o \o q) \in Nat
      <4>1. Head(d) \in Sent
        BY <1>1, Words
      <4> HIDE DEF d
      <4>2. \A x \in Sent : \A s, t \in Seq(Sent) :
              /\ s \o (t \o <<x>>) \in Seq(Sent) /\ Len(s \o t) \in Nat
              /\ Len(s \o (t \o <<x>>)) = Len(s \o t) + 1
        OBVIOUS
      <4> QED BY <1>1, <4>1, <4>2
    <3> QED BY <3>1
  <2>2. PageFirst(Drip(fd).pendingClose, o, q2, log[c])
    BY <1>1, <1>2, <1>5, <2>1 DEF PageFirst
  <2> QED BY <1>2, <1>3, <2>2 DEF o
<1> QED BY <1>4, <1>5

LEMMA TickKeeps ==
  ASSUME HelloInv, Tick
  PROVE  HelloInv' /\ Live(clients)' = Live(clients)
<1>1. PICK due \in SUBSET {fd \in Fd : dripQueues[fd] # <<>>} :
        /\ clients' = [fd \in Fd |-> IF fd \in due THEN Drip(fd) ELSE clients[fd]]
        /\ dripQueues' = [fd \in Fd |-> IF fd \in due THEN Tail(dripQueues[fd])
                                        ELSE dripQueues[fd]]
  BY DEF Tick
<1>2. UNCHANGED <<running, parseStates, parsing, net, log>> /\ running
  BY DEF Tick, AtLoop
<1>3. /\ due \subseteq Live(clients)
      /\ \A fd \in due : dripQueues[fd] # <<>>
      /\ HttpStanding /\ clients \in [Fd -> H!Entry] /\ Live(clients) \subseteq Fd
      /\ dripQueues \in [Fd -> Seq(PageWord)]
      /\ \A fd \in Fd \ Live(clients) : dripQueues[fd] = <<>>
  BY <1>1, <1>2, PagesAre, LiveFds DEF HelloInv
<1>4. \A fd \in Fd : /\ fd \in due => clients'[fd] = Drip(fd) /\ dripQueues'[fd] = Tail(dripQueues[fd])
                     /\ fd \notin due => clients'[fd] = clients[fd] /\ dripQueues'[fd] = dripQueues[fd]
  BY <1>1
<1>5. \A fd \in Fd : clients'[fd] \in H!Entry /\ clients'[fd].remoteAddr = clients[fd].remoteAddr
  BY <1>3, <1>4, DripEntry
<1>6. clients' \in [Fd -> H!Entry]
  BY <1>1, <1>5
<1>7. HttpStanding' /\ Live(clients)' = Live(clients)
  BY <1>2, <1>3, <1>5, <1>6, TickStands
<1>8. \A fd \in Fd : dripQueues'[fd] \in Seq(PageWord)
  <2>1. \A d \in Seq(PageWord) : d # <<>> => Tail(d) \in Seq(PageWord)
    OBVIOUS
  <2> QED BY <1>3, <1>4, <2>1
<1>9. dripQueues' \in [Fd -> Seq(PageWord)]
  BY <1>1, <1>8
<1>10. ASSUME NEW fd \in Live(clients)'
       PROVE  LET c == clients'[fd].remoteAddr
              IN  /\ running' => Paged(net'[c].out, clients'[fd].sendQueue, dripQueues'[fd], log'[c])
                  /\ PageFirst(clients'[fd].pendingClose, net'[c].out, clients'[fd].sendQueue, log'[c])
  <2> DEFINE c == clients'[fd].remoteAddr
  <2>1. fd \in Fd /\ fd \in Live(clients) /\ c = ConnOf(fd)
    BY <1>3, <1>5, <1>7 DEF ConnOf
  <2>2. net' = net /\ log' = log
    BY <1>2
  <2> HIDE DEF c
  <2>3. CASE fd \in due
    <3>1. /\ Paged(net[c].out, Drip(fd).sendQueue, Tail(dripQueues[fd]), log[c])
          /\ PageFirst(Drip(fd).pendingClose, net[c].out, Drip(fd).sendQueue, log[c])
      BY <1>2, <1>3, <2>1, <2>3, TickOne
    <3> QED BY <1>4, <2>1, <2>2, <2>3, <3>1 DEF c
  <2>4. CASE fd \notin due
    <3>1. /\ Paged(net[c].out, clients[fd].sendQueue, dripQueues[fd], log[c])
          /\ PageFirst(clients[fd].pendingClose, net[c].out, clients[fd].sendQueue, log[c])
      BY <1>2, <2>1, Types
    <3> QED BY <1>4, <2>1, <2>2, <2>4, <3>1 DEF c
  <2> QED BY <2>3, <2>4
<1>11. \A fd \in Fd : fd \notin Live(clients)' => (running' => dripQueues'[fd] = <<>>)
  BY <1>3, <1>4, <1>7
<1> QED BY <1>7, <1>9, <1>10, <1>11, HelloNextInv

LEMMA StopKeepsHello ==
  ASSUME HelloInv, HelloStop
  PROVE  HelloInv'
<1>1. HttpStanding' /\ running' = FALSE /\ Live(clients)' = {} /\ dripQueues' = dripQueues
  BY HttpStop DEF HelloStop, HelloInv
<1> QED BY <1>1, HelloNextInv DEF HelloInv

LEMMA HelloStep ==
  ASSUME HelloInv, [HelloNext]_allVars
  PROVE  HelloInv'
<1>1. CASE UNCHANGED allVars
  <2>1. UNCHANGED <<running, clients, parseStates, parsing, net, log, dripQueues>>
    BY <1>1 DEF allVars, vars
  <2>2. /\ clients \in [Fd -> H!Entry]
        /\ dripQueues \in [Fd -> Seq(PageWord)] /\ PagesConserved /\ FirstOut /\ HttpStanding
    BY LiveFds DEF HelloInv
  <2>3. HttpStanding'
    BY <2>1, <2>2, TickStands
  <2>4. PagesConserved' /\ FirstOut'
    BY <2>1, <2>2 DEF PagesConserved, FirstOut, Live, ConnOf
  <2> QED BY <2>1, <2>2, <2>3, <2>4 DEF HelloInv
<1>2. CASE Tick
  BY <1>2, TickKeeps
<1>3. CASE HelloStop
  BY <1>3, StopKeepsHello
<1>4. CASE Acts /\ Hooks
  BY <1>4, HookedKeeps
<1> QED BY <1>1, <1>2, <1>3, <1>4 DEF HelloNext, Acts

LEMMA HelloStart == HelloInit => HelloInv
<1> SUFFICES ASSUME HelloInit PROVE HelloInv
  OBVIOUS
<1>1. HttpStanding /\ Live(clients) = {} /\ dripQueues = [fd \in Fd |-> <<>>]
  BY HttpInit DEF HelloInit
<1>2. dripQueues \in [Fd -> Seq(PageWord)] /\ \A fd \in Fd : dripQueues[fd] = <<>>
  BY <1>1
<1> QED BY <1>1, <1>2, PagesAre DEF HelloInv, FirstOut

LEMMA HelloAlways == HelloSpec => []HelloInv
BY HelloStart, HelloStep, PTL DEF HelloSpec

-----------------------------------------------------------------------------
(* The theorems.                                                           *)

\* HttpServer's parse states still match the table of clients when the hooks of
\* this class and its ticks, which change queues and marks under the same
\* descriptors, come between the steps of the loop.
THEOREM HelloStatesMatch == HelloSpec => []ParseStatesMatch
<1>1. HelloInv => ParseStatesMatch
  BY LiveFds DEF HelloInv
<1> QED BY <1>1, HelloAlways, PTL

\* The queues kept beside the table, under descriptors the system uses again: a page
\* is fed to the client that asked for it and to no other, in order, and nothing of
\* it is left when that client has gone.
THEOREM HelloPagesConserved == HelloSpec => []PagesConserved
<1>1. HelloInv => PagesConserved
  BY DEF HelloInv
<1> QED BY <1>1, HelloAlways, PTL

\* A client that leaves.
LEMMA FirstPageStep ==
  ASSUME HelloInv, [HelloNext]_allVars
  PROVE  [\A fd \in Fd :
            LET c == ConnOf(fd)
            IN  fd \in Live(clients) /\ fd \notin Live(clients') /\ ~ClientGone(fd) /\ ~Stop
                  /\ (\A i \in DOMAIN log'[c] : ~Ends(log'[c][i]))
                => Len(net'[c].out) >= 2]_allVars
<1>1. SUFFICES ASSUME ~(UNCHANGED allVars), NEW fd \in Fd, NEW c, c = ConnOf(fd),
                      fd \in Live(clients), fd \notin Live(clients)', ~ClientGone(fd), ~Stop,
                      \A i \in DOMAIN log'[c] : ~Ends(log'[c][i])
               PROVE  Len(net'[c].out) >= 2
  BY DEF Live
<1>2. Acts
  BY <1>1, TickKeeps DEF HelloNext, HelloStop, Acts
<1>3. PICK new \in Seq(Event) :
        /\ log'[c] = log[c] \o new
        /\ Grows(net[c].out, clients[fd].sendQueue, net'[c].out, <<>>, new)
        /\ Closing(fd, new)
  <2>1. Departs(fd)
    BY <1>1, <1>2, HttpStep DEF HelloInv
  <2> QED BY <1>1, <2>1 DEF Departs
<1> DEFINE o == net[c].out
           q == clients[fd].sendQueue
           d == dripQueues[fd]
           events == log[c]
           closes == clients[fd].pendingClose
<1>4. /\ o \in Seq(Sent) /\ q \in Seq(Sent) /\ events \in Seq(Event) /\ PageFirst(closes, o, q, events)
      /\ c \in Conn
  BY <1>1, Types
<1>5. Grows(o, q, net'[c].out, <<>>, new) /\ log'[c] = events \o new
      /\ (TRUE => closes \/ \E i \in 1..Len(new) : H!MayClose(new[i]))
  BY <1>3 DEF Closing
<1>6. PageFirst(TRUE, net'[c].out, <<>>, events \o new)
  <2> HIDE DEF o, q, events, closes
  <2> QED BY <1>4, <1>5, GrowsPageFirst
<1>7. Len(net'[c].out \o <<>>) >= 2
  BY <1>1, <1>5, <1>6 DEF PageFirst
<1>8. net'[c].out \o <<>> = net'[c].out
  <2>1. HttpStanding'
    BY <1>2, HttpStep DEF HelloInv
  <2>2. net'[c].out \in Seq(H!Sent)
    BY <1>4, <2>1 DEF HttpStanding, H!Standing, H!Sound, H!Tables, H!End
  <2> QED BY <2>2
<1> QED BY <1>7, <1>8

\* The last word of a queue closes the connection, and another GET may come while the
\* page drips or while the close waits: the first page is out whole all the same.
THEOREM FirstPageComplete == HelloSpec => FirstPageWhole
BY HelloAlways, FirstPageStep, PTL DEF HelloSpec, FirstPageWhole
=============================================================================
