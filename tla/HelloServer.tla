------------------------------ MODULE HelloServer ------------------------------
(***************************************************************************)
(* HelloServer (src/examples/hello/HelloServer.hpp): an HttpServer that    *)
(* answers a GET with a page it queues beside the table of clients, under  *)
(* the descriptor, and feeds to the client a word per tick.                *)
(*                                                                         *)
(* Its steps are those of HttpServer, with what the hooks of this class    *)
(* add to them, and the ticks.                                             *)
(***************************************************************************)
EXTENDS Integers, Sequences, SequencesExt, FiniteSets

CONSTANTS NoConn, Conn, Fd, Scripts  \* as in HttpServer

VARIABLES
  running, clients, parseStates, parsing, net, log,  \* as in HttpServer
  dripQueues  \* what is still to be fed; empty where the map has no entry

\* onHttpRequest(): a GET is answered later, and closed by onTick() if nothing
\* else closes it first; any other method gets a 405 and is closed.
onHttpRequest(request) ==
  {[answers |-> request.method # "GET", closes |-> request.method # "GET"]}

INSTANCE HttpServer

ASSUME HelloAssumption == NoConn \notin Conn /\ Fd \subseteq Nat /\ Scripts \subseteq Seq(Message)

allVars == <<vars, dripQueues>>

\* The response to a request is two words long here.
PageWord == [kind : {"head", "rest"}, request : Request]

Page(request) ==
  <<[kind |-> "head", request |-> request], [kind |-> "rest", request |-> request]>>

Pages(events) ==
  FlattenSeq([i \in DOMAIN events |->
    IF events[i].kind = "unanswered" THEN Page(events[i].request) ELSE <<>>])

HelloInit == Init /\ dripQueues = [fd \in Fd |-> <<>>]

-----------------------------------------------------------------------------
\* What a step of HttpServer handed to onHttpRequest() for the client of fd.
NewEvents(fd) == LET c == ConnOf(fd) IN SubSeq(log'[c], Len(log[c]) + 1, Len(log'[c]))

\* Mutated form: a client that leaves does not take its queue with it.
HooksKeepQueue ==
  dripQueues' = [fd \in Fd |->
    IF fd \in Live(clients) THEN dripQueues[fd] \o Pages(NewEvents(fd)) ELSE dripQueues[fd]]

\* onHttpRequest() queues a page, and onHttpClientDisconnect() erases the queue of
\* a client disconnected in the same step or any other.
Hooks ==
  dripQueues' = [fd \in Fd |->
    IF fd \notin Live(clients) THEN dripQueues[fd]
    ELSE IF fd \notin Live(clients') THEN <<>>
    ELSE dripQueues[fd] \o Pages(NewEvents(fd))]

\* Mutated form: the close comes with the last word still in the queue.
DripClosesEarly(fd) ==
  LET rest == Tail(dripQueues[fd])
      sent == sendToClient(clients, fd, <<Head(dripQueues[fd])>>)
  IN  IF Len(rest) = 1 THEN markPendingClose(sent, fd)[fd] ELSE sent[fd]

\* Mutated form: the last word does not close the connection.
DripKeepsOpen(fd) == sendToClient(clients, fd, <<Head(dripQueues[fd])>>)[fd]

\* The entry of fd after a word of its queue; with something in the send queue
\* closeAfterFlush() only marks it, so that no queue is erased while onTick()
\* walks over them.
Drip(fd) ==
  LET rest == Tail(dripQueues[fd])
      sent == sendToClient(clients, fd, <<Head(dripQueues[fd])>>)
  IN  IF rest = <<>> THEN markPendingClose(sent, fd)[fd] ELSE sent[fd]

\* onTick(), when it is time for the queues of due.
Tick ==
  /\ AtLoop
  /\ \E due \in SUBSET {fd \in Fd : dripQueues[fd] # <<>>} \ {{}} :
       /\ clients' = [fd \in Fd |-> IF fd \in due THEN Drip(fd) ELSE clients[fd]]
       /\ dripQueues' = [fd \in Fd |-> IF fd \in due THEN Tail(dripQueues[fd])
                                       ELSE dripQueues[fd]]
  /\ UNCHANGED <<running, parseStates, parsing, net, log>>

\* The end of eventLoop() runs no hook.
HelloStop == Stop /\ UNCHANGED dripQueues

HelloNext ==
  \/ Tick
  \/ HelloStop
  \/ \E c \in Conn : Accept(c) /\ Hooks
  \/ \E fd \in Fd : /\ ReadChunk(fd) \/ ClientGone(fd) \/ HandleWrite(fd) \/ onRawData(fd)
                    /\ Hooks

\* As in HttpServer; and time passes between ticks.
HelloSpec ==
  /\ HelloInit /\ [][HelloNext]_allVars
  /\ \A fd \in Fd : /\ WF_allVars(onRawData(fd) /\ Hooks)
                    /\ SF_allVars(HandleWrite(fd) /\ Hooks)
                    /\ SF_allVars(Tick /\ dripQueues[fd] # <<>> /\ dripQueues'[fd] # dripQueues[fd])

-----------------------------------------------------------------------------
(* Properties.                                                             *)

\* A queue is only fed to the client that asked for it, and goes with it: out,
\* queued and waiting, the pages of a connection are those its requests ask for,
\* in order, whoever had the descriptor before.
PagesConserved ==
  running => \A fd \in Fd :
    LET c == ConnOf(fd)
    IN  IF fd \in Live(clients)
        THEN Kept(net[c].out \o clients[fd].sendQueue, PageWord) \o dripQueues[fd]
               = Pages(log[c])
        ELSE dripQueues[fd] = <<>>

\* Only a request that asks for the close, or is none the server can serve.
Ends(e) == e.kind # "unanswered" \/ ~keepAlive(e.request)

\* "Close connection after sending last character" (HelloServer.hpp:82): where
\* nothing asks for another end, the server closes a connection with the page of
\* its first request out, also when another GET comes while it drips or while the
\* close waits for the flush (that one's page may be cut anywhere).
FirstPageWhole ==
  [][\A fd \in Fd :
       LET c == ConnOf(fd)
       IN  fd \in Live(clients) /\ fd \notin Live(clients') /\ ~ClientGone(fd) /\ ~Stop
             /\ (\A i \in DOMAIN log'[c] : ~Ends(log'[c][i]))
           => Len(net'[c].out) >= 2]_allVars

\* A connection on which a request was made comes to an end, with its page out or
\* without it: no queue is left waiting for a tick.
ResponseEnds ==
  \A c \in Conn : net[c].at = "open" /\ log[c] # <<>> ~> net[c].at = "closed"
=============================================================================
