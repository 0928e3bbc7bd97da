------------------------------ MODULE HttpServer ------------------------------
(***************************************************************************)
(* HttpServer (src/HttpServer.hpp): HTTP/1.x framing over TcpServer.  The  *)
(* bytes of a connection arrive in chunks; onRawData() takes whole lines   *)
(* and bodies off the buffer and hands requests to onHttpRequest().        *)
(*                                                                         *)
(* A word, a header with its value and a line end are one symbol each, and *)
(* so is a response.  One pass of the loop in onRawData() is one step.     *)
(* The order in which the event loop visits clients is left open: TcpProxy *)
(* models that loop, and here a handler runs whenever its call has a       *)
(* result.  onHttpRequest() is the subclass's, see HelloServer.            *)
(***************************************************************************)
EXTENDS Integers, Sequences, SequencesExt, FiniteSets, ClientTable, Filter

CONSTANTS
  Conn,     \* the connections clients make, each at most once
  Fd,       \* the descriptors accept() may return
  Scripts,  \* what a client sends: sequences of messages, see Serialize
  onHttpRequest(_)  \* what the hook may do about a request: the set of records
                    \* of whether it answers at once and whether it closes

ASSUME ConnAssumption == NoConn \notin Conn
ASSUME FdAssumption == Fd \subseteq Nat

VARIABLES
  running,
  clients,      \* the table of TcpServer
  parseStates,  \* keyed by descriptor; NoParseState where the map has no entry
  parsing,      \* the descriptor onRawData() is at work on, or NoFd
  net,          \* the client's end of each connection
  log           \* history: what came of each connection's bytes, in order

vars == <<running, clients, parseStates, parsing, net, log>>

NoFd == -1

-----------------------------------------------------------------------------
(* Requests and parse states.                                              *)

\* The fields of HttpRequest framing depends on; "" is a header not received.
NewRequest == [method |-> "", version |-> "", connection |-> "", length |-> "", body |-> <<>>]

ParseState(stage, request, bodyRemaining) ==
  [stage |-> stage, request |-> request, bodyRemaining |-> bodyRemaining]

NewParseState == ParseState("RequestLine", NewRequest, 0)
NoParseState  == ParseState("none", NewRequest, 0)

Numbers == {"0", "1", "2"}

\* stoul(), defined on the values that are numbers.
stoul(value) == CASE value = "0" -> 0 [] value = "1" -> 1 [] value = "2" -> 2

\* The header a symbol stands for; a symbol without a colon is no header.
ConnectionHeader == [close |-> "close", keepalive |-> "keep-alive"]
LengthHeader == [len0 |-> "0", len1 |-> "1", len2 |-> "2", lenjunk |-> "junk"]

keepAlive(request) ==
  CASE request.connection = "close"      -> FALSE
    [] request.connection = "keep-alive" -> TRUE
    [] OTHER                             -> request.version = "HTTP/1.1"

\* What a client's stream is made of: words, line ends and headers.
Word == {"GET", "POST", "word", "HTTP/1.0", "HTTP/1.1"}

Symbol == Word \cup {"nl"} \cup DOMAIN ConnectionHeader \cup DOMAIN LengthHeader

Request ==
  [method : Symbol \cup {""}, version : Symbol \cup {""}, connection : {"", "close", "keep-alive"},
   length : Numbers \cup {"", "junk"}, body : Seq(Symbol)]

\* What the log holds for a request and for an error.
Answered(request) == [kind |-> "answered", request |-> request]
Unanswered(request) == [kind |-> "unanswered", request |-> request]
BadRequest == [kind |-> "badRequest", request |-> NewRequest]

Event == [kind : {"answered", "unanswered", "badRequest"}, request : Request]
Response == [kind : {"answered", "badRequest"}, request : Request]

\* What a subclass may send: responses, and parts of those it answers later.
Sent == [kind : {"answered", "badRequest", "head", "rest"}, request : Request]

-----------------------------------------------------------------------------
(* A client's stream.                                                      *)

\* A message is a request, possibly after a blank line, with the body its length
\* announces; or what the server cannot read, up to the end of the offending
\* line: a request line of one word, a header without a colon, a bad length.
Message ==
  {m \in [kind : {"request", "afterBlank", "badLine", "badHeader"},
          method : Word \cup {""}, version : Word \cup {""},
          connection : {"", "close", "keep-alive"}, length : Numbers \cup {"", "junk"},
          body : Seq(Symbol)] :
     /\ m.kind # "badLine" => m.method \in Word /\ m.version \in Word
     /\ Len(m.body) = IF m.length \in Numbers THEN stoul(m.length) ELSE 0}

ASSUME ScriptsAssumption == Scripts \subseteq Seq(Message)

Header(table, value) ==
  IF value = "" THEN <<>>
  ELSE <<CHOOSE h \in DOMAIN table : table[h] = value, "nl">>

Serialize(m) ==
  CASE m.kind = "badLine"   -> <<"word", "nl">>
    [] m.kind = "badHeader" -> <<m.method, "word", m.version, "nl", "word", "nl">>
    [] OTHER ->
         (IF m.kind = "afterBlank" THEN <<"nl">> ELSE <<>>)
           \o <<m.method, "word", m.version, "nl">>
           \o Header(ConnectionHeader, m.connection)
           \o Header(LengthHeader, m.length)
           \o <<"nl">> \o m.body

Stream(script) == FlattenSeq([i \in 1..Len(script) |-> Serialize(script[i])])

Init ==
  /\ running = TRUE
  /\ clients = [fd \in Fd |-> NoClient]
  /\ parseStates = [fd \in Fd |-> NoParseState]
  /\ parsing = NoFd
  /\ \E script \in [Conn -> Scripts] :
       net = [c \in Conn |-> [at |-> "new", script |-> script[c], read |-> 0, out |-> <<>>]]
  /\ log = [c \in Conn |-> <<>>]

ConnOf(fd) == clients[fd].remoteAddr

-----------------------------------------------------------------------------
(* The hooks of TcpServer and the utilities that call them.                *)

\* The loop of the server is at a call it can make.
AtLoop == running /\ parsing = NoFd

\* Mutated form: the parse state stays behind.
DisconnectKeepsParseState(fd, queued, ends) ==
  /\ clients' = erase(queued, fd)
  /\ net' = [ends EXCEPT ![ConnOf(fd)].at = "closed"]
  /\ UNCHANGED parseStates

\* disconnectClient() with the onClientDisconnect() of this class; an
\* onClientError() before it adds nothing.
Disconnect(fd, queued, ends) ==
  /\ clients' = erase(queued, fd)
  /\ net' = [ends EXCEPT ![ConnOf(fd)].at = "closed"]
  /\ parseStates' = [parseStates EXCEPT ![fd] = NoParseState]

\* Mutated form: the client is disconnected whatever is queued.
CloseAtOnce(fd, queued, states) == Disconnect(fd, queued, net)

\* closeAfterFlush(), when the tables are queued and states.
CloseAfterFlush(fd, queued, states) ==
  IF queued[fd].sendQueue = <<>>
  THEN Disconnect(fd, queued, net)
  ELSE /\ clients' = markPendingClose(queued, fd)
       /\ parseStates' = states
       /\ UNCHANGED net

Lowest(S) == CHOOSE fd \in S : \A g \in S : fd <= g

\* accept() and onClientConnect().  The whitelist is TcpProxy's subject: every
\* client here is admitted.  When descriptors run out, onClientError(-1) erases
\* a parse state that is not there.
Accept(c) ==
  LET free == Fd \ Live(clients)
  IN  /\ AtLoop /\ net[c].at = "new" /\ free # {}
      /\ clients' = [clients EXCEPT ![Lowest(free)] = NewClient(c)]
      /\ parseStates' = [parseStates EXCEPT ![Lowest(free)] = NewParseState]
      /\ net' = [net EXCEPT ![c].at = "open"]
      /\ UNCHANGED <<running, parsing, log>>

\* handleRead() with a chunk of the stream: onRawData() starts.
ReadChunk(fd) ==
  LET c == ConnOf(fd)
      stream == Stream(net[c].script)
  IN  /\ AtLoop /\ fd \in Live(clients)
      /\ \E n \in 1..(Len(stream) - net[c].read) :
           /\ clients' = received(clients, fd,
                SubSeq(stream, net[c].read + 1, net[c].read + n))
           /\ net' = [net EXCEPT ![c].read = @ + n]
      /\ parsing' = fd
      /\ UNCHANGED <<running, parseStates, log>>

\* handleRead() or handleWrite() on a connection the client has ended, which it
\* may do at any time.
ClientGone(fd) ==
  /\ AtLoop /\ fd \in Live(clients)
  /\ Disconnect(fd, clients, net)
  /\ UNCHANGED <<running, parsing, log>>

\* Mutated form: a close that was postponed is forgotten.
HandleWriteForgetsClose(fd) ==
  /\ AtLoop /\ fd \in Live(clients)
  /\ \E n \in 1..Len(clients[fd].sendQueue) :
       /\ net' = [net EXCEPT ![ConnOf(fd)].out = @ \o SubSeq(clients[fd].sendQueue, 1, n)]
       /\ clients' = wrote(clients, fd, n)
  /\ UNCHANGED <<running, parseStates, parsing, log>>

\* handleWrite(): send() takes n of the queued responses.
HandleWrite(fd) ==
  /\ AtLoop /\ fd \in Live(clients)
  /\ \E n \in 1..Len(clients[fd].sendQueue) :
       LET rest == wrote(clients, fd, n)
           ends == [net EXCEPT ![ConnOf(fd)].out = @ \o SubSeq(clients[fd].sendQueue, 1, n)]
       IN  IF rest[fd].pendingClose /\ rest[fd].sendQueue = <<>>
           THEN Disconnect(fd, rest, ends)
           ELSE clients' = rest /\ net' = ends /\ UNCHANGED parseStates
  /\ UNCHANGED <<running, parsing, log>>

-----------------------------------------------------------------------------
(* onRawData().                                                            *)

\* Mutated form: the parse state is not reset between requests.
dispatchRequestKeepsState(fd, request, taken) ==
  \E hook \in onHttpRequest(request) :
    LET answer == IF hook.answers THEN Answered(request) ELSE Unanswered(request)
        queued == IF hook.answers THEN sendToClient(taken, fd, <<answer>>) ELSE taken
        states == [parseStates EXCEPT ![fd].stage = "RequestLine"]
    IN  /\ log' = [log EXCEPT ![ConnOf(fd)] = Append(@, answer)]
        /\ IF keepAlive(request) /\ ~hook.closes
           THEN clients' = queued /\ parseStates' = states /\ UNCHANGED net
           ELSE CloseAfterFlush(fd, queued, states)

\* The parse state is reset, then onHttpRequest() runs; the close the request
\* asked for adds nothing to one by the hook.  taken is the client table with the
\* request's last symbol off the buffer.
dispatchRequest(fd, request, taken) ==
  \E hook \in onHttpRequest(request) :
    LET answer == IF hook.answers THEN Answered(request) ELSE Unanswered(request)
        queued == IF hook.answers THEN sendToClient(taken, fd, <<answer>>) ELSE taken
        states == [parseStates EXCEPT ![fd] = NewParseState]
    IN  /\ log' = [log EXCEPT ![ConnOf(fd)] = Append(@, answer)]
        /\ IF keepAlive(request) /\ ~hook.closes
           THEN clients' = queued /\ parseStates' = states /\ UNCHANGED net
           ELSE CloseAfterFlush(fd, queued, states)

\* The 400 is queued first, so that closeAfterFlush() never closes at once; the
\* parse state is left where it was.
onHttpError(fd, taken) ==
  /\ log' = [log EXCEPT ![ConnOf(fd)] = Append(@, BadRequest)]
  /\ CloseAfterFlush(fd, sendToClient(taken, fd, <<BadRequest>>), parseStates)

\* The parse state changes and nothing else comes of the line.
Continue(fd, ps, taken) ==
  /\ clients' = taken
  /\ parseStates' = [parseStates EXCEPT ![fd] = ps]
  /\ UNCHANGED <<net, log>>

\* An empty line is skipped; a request line has at least three words.  A shorter
\* one may leave a method behind, which the next request line overwrites.
parseRequestLine(fd, ps, line, taken) ==
  IF line = <<>> THEN Continue(fd, ps, taken)
  ELSE IF Len(line) < 3 THEN onHttpError(fd, taken)
  ELSE Continue(fd, ParseState("Headers", [ps.request EXCEPT !.method = line[1], !.version = line[3]],
                               ps.bodyRemaining), taken)

\* What a header line does to the request; the last header of a name counts.
\* A header with its value is one symbol, and stands alone on its line: behind a
\* word it has another name, which framing does not look at.
WithHeader(request, h) ==
  CASE h \in DOMAIN ConnectionHeader -> [request EXCEPT !.connection = ConnectionHeader[h]]
    [] h \in DOMAIN LengthHeader     -> [request EXCEPT !.length = LengthHeader[h]]
    [] OTHER                         -> request

parseHeaderLine(fd, ps, line, taken) ==
  LET hasColon == \E i \in DOMAIN line :
                    line[i] \in DOMAIN ConnectionHeader \cup DOMAIN LengthHeader
      length == ps.request.length
  IN  IF line # <<>>
      THEN IF hasColon
           THEN Continue(fd, [ps EXCEPT !.request = WithHeader(@, line[1])], taken)
           ELSE onHttpError(fd, taken)
      ELSE IF length \notin Numbers \cup {""} THEN onHttpError(fd, taken)
      ELSE LET body == IF length = "" THEN ps.bodyRemaining ELSE stoul(length)
           IN  IF body = 0 THEN dispatchRequest(fd, ps.request, taken)
               ELSE Continue(fd, ParseState("Body", ps.request, body), taken)

\* Position of the first line end in a buffer that has one.
LineEnd(buf) ==
  CHOOSE i \in DOMAIN buf : buf[i] = "nl" /\ \A j \in 1..(i - 1) : buf[j] # "nl"

AfterLine(buf) == SubSeq(buf, LineEnd(buf) + 1, Len(buf))

HasLine(buf) == \E i \in DOMAIN buf : buf[i] = "nl"

\* One line of the request line and header stages.
ParseLine(fd) ==
  LET buf == clients[fd].recvBuf
      ps == parseStates[fd]
      line == SubSeq(buf, 1, LineEnd(buf) - 1)
      taken == [clients EXCEPT ![fd].recvBuf = AfterLine(buf)]
  IN  /\ parsing = fd /\ ps.stage \in {"RequestLine", "Headers"} /\ HasLine(buf)
      /\ IF ps.stage = "RequestLine"
         THEN parseRequestLine(fd, ps, line, taken)
         ELSE parseHeaderLine(fd, ps, line, taken)
      /\ UNCHANGED <<running, parsing>>

Min2(a, b) == IF a < b THEN a ELSE b

\* Mutated form: the whole buffer is taken for the body.
TakenForBodyAll(buf, bodyRemaining) == Len(buf)

TakenForBody(buf, bodyRemaining) == Min2(Len(buf), bodyRemaining)

\* consumeBody()
ConsumeBody(fd) ==
  LET buf == clients[fd].recvBuf
      ps == parseStates[fd]
      take == TakenForBody(buf, ps.bodyRemaining)
      request == [ps.request EXCEPT !.body = @ \o SubSeq(buf, 1, take)]
      remaining == ps.bodyRemaining - take
      taken == [clients EXCEPT ![fd].recvBuf = SubSeq(buf, take + 1, Len(buf))]
  IN  /\ parsing = fd /\ ps.stage = "Body" /\ buf # <<>>
      /\ IF remaining = 0
         THEN dispatchRequest(fd, request, taken) /\ UNCHANGED parsing
         ELSE Continue(fd, ParseState("Body", request, remaining), taken) /\ parsing' = NoFd
      /\ UNCHANGED running

\* The ways out of the loop: the client is gone, the buffer is empty or what is
\* in it is not a line yet.
RawDataDone(fd) ==
  LET buf == clients[fd].recvBuf
  IN  /\ parsing = fd
      /\ \/ parseStates[fd].stage = "none"
         \/ buf = <<>>
         \/ parseStates[fd].stage # "Body" /\ ~HasLine(buf)
      /\ parsing' = NoFd
      /\ UNCHANGED <<running, clients, parseStates, net, log>>

onRawData(fd) == ParseLine(fd) \/ ConsumeBody(fd) \/ RawDataDone(fd)

-----------------------------------------------------------------------------
\* stop(), and the end of eventLoop(), which closes every client without a hook:
\* parseStates is left as it is.
Stop ==
  /\ AtLoop
  /\ running' = FALSE
  /\ clients' = [fd \in Fd |-> NoClient]
  /\ net' = [c \in Conn |-> [net[c] EXCEPT !.at = IF @ = "open" THEN "closed" ELSE @]]
  /\ UNCHANGED <<parseStates, parsing, log>>

Next ==
  \/ Stop
  \/ \E c \in Conn : Accept(c)
  \/ \E fd \in Fd : \/ ReadChunk(fd) \/ ClientGone(fd) \/ HandleWrite(fd)
                    \/ onRawData(fd)

Spec == Init /\ [][Next]_vars

\* onRawData() runs to its end, and a client that stays reads what it is sent.
FairSpec ==
  /\ Spec
  /\ \A fd \in Fd : WF_vars(onRawData(fd)) /\ SF_vars(HandleWrite(fd))

-----------------------------------------------------------------------------
(* Properties.                                                             *)

\* The type of every variable; bodyRemaining, a size_t, never wraps below zero.
TypeOK ==
  /\ running \in BOOLEAN
  /\ parsing \in Fd \cup {NoFd}
  /\ clients \in [Fd -> [remoteAddr : Conn \cup {NoConn}, recvBuf : Seq(Symbol),
                         sendQueue : Seq(Sent), pendingClose : BOOLEAN]]
  /\ parseStates \in [Fd -> [stage : {"none", "RequestLine", "Headers", "Body"},
                             request : Request, bodyRemaining : Nat]]
  /\ net \in [Conn -> [at : {"new", "open", "closed"}, script : Scripts,
                       read : Nat, out : Seq(Sent)]]
  /\ log \in [Conn -> Seq(Event)]

\* Exactly the clients in the table have a parse state: the check that ends
\* onRawData() (line 186) sees every disconnect made inside it, before the buffer
\* that went with the client is touched, and no connection starts with the state
\* of an earlier one on its descriptor.
ParseStatesMatch ==
  running => \A fd \in Fd : parseStates[fd].stage # "none" <=> fd \in Live(clients)

\* What a message of a script asks for.
Expected(m) ==
  IF m.kind \in {"badLine", "badHeader"} \/ m.length = "junk" THEN BadRequest
  ELSE Answered([method |-> m.method, version |-> m.version,
                 connection |-> m.connection, length |-> m.length, body |-> m.body])

Wanted(e) == IF e.kind = "unanswered" THEN Answered(e.request) ELSE e

\* The messages of a script that have been received whole.
WholeMessages(script, read) ==
  {i \in 1..Len(script) : Len(Stream(SubSeq(script, 1, i))) <= read}

\* However the stream is cut into chunks: the requests handed on for an open
\* connection are those received whole, with their own headers and body and in
\* order, each as soon as its last byte is there, up to the first message that
\* cannot be read, which gets a 400.
RequestsFramed ==
  \A fd \in Live(clients) : parsing # fd =>
    LET c == ConnOf(fd)
        script == net[c].script
        whole == WholeMessages(script, net[c].read)
        seen == [i \in 1..Len(log[c]) |-> Wanted(log[c][i])]
        readable == {i \in whole : \A j \in 1..(i - 1) : Expected(script[j]) # BadRequest}
    IN  /\ \A i \in readable : i \in DOMAIN seen /\ seen[i] = Expected(script[i])
        /\ (\A i \in whole : Expected(script[i]) # BadRequest) => Len(seen) = Cardinality(whole)

\* Responses leave in the order the requests were handed on, none lost, repeated
\* or put on another connection's wire, however partial the writes.
AnswersInOrder ==
  \A fd \in Live(clients) :
    LET c == ConnOf(fd)
    IN  net[c].out \o clients[fd].sendQueue = Kept(log[c], Response)

\* A connection the server closes of its own accord has been sent every response
\* that was queued: closeAfterFlush() inside a hook waits (TcpServer.hpp:109-110).
ClosedAfterFlush ==
  [][\A fd \in Fd : fd \in Live(clients) /\ net'[ConnOf(fd)].at = "closed"
       => \/ ClientGone(fd) \/ Stop
          \/ net'[ConnOf(fd)].out = Kept(log'[ConnOf(fd)], Response)]_vars

\* A connection marked for closing is closed once its responses are out.
CloseHappens ==
  \A fd \in Fd : clients[fd].pendingClose ~> ~clients[fd].pendingClose

\* HttpServer.hpp:113, "Default: send 400 + close": nothing more is done for a
\* connection after its 400.
NothingAfterError ==
  \A c \in Conn : \A i \in 1..(Len(log[c]) - 1) : log[c][i] # BadRequest
=============================================================================
