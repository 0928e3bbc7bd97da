------------------------------ MODULE EchoServer ------------------------------
(***************************************************************************)
(* EchoServer (src/examples/echo/EchoServer.hpp) in the event loop of      *)
(* TcpServer (src/TcpServer.hpp), serving TcpClientB objects.              *)
(*                                                                         *)
(* listen() runs in a thread of its own and stop() may come from another.  *)
(* One iteration of the loop is select, onTick, the accept loop and one    *)
(* turn per client, which reads first and then writes; the clients' steps  *)
(* interleave with all of them.  A line comes back one symbol per tick     *)
(* through echoQueues; "shutdown" is answered at once and stops the loop.  *)
(***************************************************************************)
EXTENDS TcpClientB, ClientTable, IpWhitelist, FiniteSets

CONSTANTS
  Fd,       \* the descriptors accept() may return
  MaxRuns,  \* bound: calls of listen()
  Files     \* the whitelist files

ASSUME FdAssumption == Fd \subseteq Nat /\ MaxRuns \in Nat
ASSUME ConnAssumption == NoConn \notin Conn
ASSUME FilesAssumption ==
  Files \subseteq [hasSection : BOOLEAN, values : Seq((SUBSET Client) \cup {NoValue})]

VARIABLES
  running,
  pc,         \* where listen() is
  runs,       \* calls of it so far
  file,       \* the whitelist file of this process
  whitelist,
  clients,
  echoQueues, \* keyed by descriptor: its domain is the keys of the map
  readSet, writeSet, cur  \* as in TcpProxy, less what has had its turn

iteration == <<readSet, writeSet, cur>>
tables == <<clients, echoQueues>>
control == <<running, pc, runs, listenFd>>
vars == <<control, file, whitelist, tables, iteration, clientVars>>

EmptyMap == [fd \in {} |-> <<>>]
Without(map, fd) == [f \in DOMAIN map \ {fd} |-> map[f]]
With(map, fd, value) == [f \in DOMAIN map \cup {fd} |-> IF f = fd THEN value ELSE map[f]]

Init ==
  /\ ClientInit
  /\ listenFd = "none"
  /\ running = FALSE /\ pc = "idle" /\ runs = 0
  /\ file \in Files /\ whitelist = load(file)
  /\ clients = [fd \in Fd |-> NoClient]
  /\ echoQueues = EmptyMap
  /\ readSet = {} /\ writeSet = {} /\ cur = NoFd

ConnOf(fd) == clients[fd].remoteAddr
Queued == {x \in Conn : wire[x].server = "queued"}
ListenKey == -2  \* stands for the listening socket in readSet

-----------------------------------------------------------------------------
(* listen(), up to the loop.                                               *)

\* When it throws, listenFd is -1, or open if it was bind() or listen() that failed.
SetupListenSocket ==
  /\ pc = "idle" /\ runs < MaxRuns
  /\ \/ listenFd' = "listening" /\ pc' = "bound"
     \/ listenFd' \in {"none", "open"} /\ UNCHANGED pc
  /\ runs' = runs + 1
  /\ UNCHANGED <<running, file, whitelist, tables, iteration, clientVars>>

\* Clients connect from here on; a stop() before this is lost.
EnterLoop ==
  /\ pc = "bound"
  /\ running' = TRUE
  /\ pc' = "select"
  /\ UNCHANGED <<runs, listenFd, file, whitelist, tables, iteration, clientVars>>

\* From another thread or a signal handler.
stop ==
  /\ running
  /\ running' = FALSE
  /\ UNCHANGED <<pc, runs, listenFd, file, whitelist, tables, iteration, clientVars>>

-----------------------------------------------------------------------------
(* The top of the loop.                                                    *)

\* What the clients' lines are made of; those that order the server to shut down,
\* and those it echoes.
Symbol == [conn : Conn, line : Nat, text : Texts, nl : BOOLEAN]
Order == [conn : Conn, line : Nat, text : {"shutdown"}, nl : BOOLEAN]
Echo == [conn : Conn, line : Nat, text : Texts \ {"shutdown"}, nl : BOOLEAN]

Readable(fd) == LET w == wire[ConnOf(fd)] IN w.up # <<>> \/ w.client = "closed"

\* Mutated form: the loop does not look at the flag.
SelectRunsOn ==
  /\ pc = "select"
  /\ readSet' = {fd \in Live(clients) : Readable(fd)}
                  \cup (IF Queued = {} THEN {} ELSE {ListenKey})
  /\ writeSet' = {}
  /\ pc' = "tick"
  /\ UNCHANGED <<running, runs, listenFd, file, whitelist, tables, cur, clientVars>>

Select ==
  /\ pc = "select" /\ running
  /\ readSet' = {fd \in Live(clients) : Readable(fd)}
                  \cup (IF Queued = {} THEN {} ELSE {ListenKey})
  /\ writeSet' \in SUBSET {fd \in Live(clients) : clients[fd].sendQueue # <<>>}
  /\ pc' = "tick"
  /\ UNCHANGED <<running, runs, listenFd, file, whitelist, tables, cur, clientVars>>

Due(fd) == fd \in DOMAIN echoQueues /\ echoQueues[fd] # <<>>

\* Every queue of due gives up its front, also one whose client is gone.
Drip(due) ==
  /\ clients' = [fd \in Fd |-> IF fd \in due \cap Live(clients)
                               THEN sendToClient(clients, fd, <<Head(echoQueues[fd])>>)[fd]
                               ELSE clients[fd]]
  /\ echoQueues' = [fd \in DOMAIN echoQueues |->
                      IF fd \in due THEN Tail(echoQueues[fd]) ELSE echoQueues[fd]]

\* Mutated form: the listening socket has a turn like a client.
TickKeepsListen ==
  /\ pc = "tick"
  /\ \E due \in SUBSET {fd \in Fd : Due(fd)} : Drip(due)
  /\ pc' = IF ListenKey \in readSet THEN "accept" ELSE "clients"
  /\ UNCHANGED <<running, runs, listenFd, file, whitelist, iteration, clientVars>>

\* onTick(): the queues whose time has come, any of those with something in them.
Tick ==
  /\ pc = "tick"
  /\ \E due \in SUBSET {fd \in Fd : Due(fd)} : Drip(due)
  /\ pc' = IF ListenKey \in readSet THEN "accept" ELSE "clients"
  /\ readSet' = readSet \ {ListenKey}
  /\ UNCHANGED <<running, runs, listenFd, file, whitelist, writeSet, cur, clientVars>>

FreeFds == Fd \ Live(clients)

\* Mutated form: the queue left under this descriptor is kept.
AcceptKeepsQueue(x) ==
  /\ pc = "accept" /\ x \in Queued /\ isAllowed(whitelist, x)
  /\ \E fd \in FreeFds :
       /\ \A g \in FreeFds : fd <= g
       /\ clients' = [clients EXCEPT ![fd] = NewClient(x)]
       /\ echoQueues' = IF fd \in DOMAIN echoQueues THEN echoQueues
                        ELSE With(echoQueues, fd, <<>>)
  /\ wire' = [wire EXCEPT ![x].server = "open"]
  /\ UNCHANGED <<control, file, whitelist, iteration, obj>>

\* accept() and onClientConnect().
Accept(x) ==
  /\ pc = "accept" /\ x \in Queued /\ isAllowed(whitelist, x)
  /\ \E fd \in FreeFds :
       /\ \A g \in FreeFds : fd <= g
       /\ clients' = [clients EXCEPT ![fd] = NewClient(x)]
       /\ echoQueues' = With(echoQueues, fd, <<>>)
  /\ wire' = [wire EXCEPT ![x].server = "open"]
  /\ UNCHANGED <<control, file, whitelist, iteration, obj>>

\* The server's ends of the connections of xs close; what a client has not been
\* sent may be lost to it when the server had data of it unread.
CloseServerEnds(xs) ==
  \E lost \in SUBSET {x \in xs : wire[x].up # <<>>} :
    wire' = [x \in Conn |->
      IF x \notin xs THEN wire[x]
      ELSE [wire[x] EXCEPT !.server = "closed", !.up = <<>>,
                           !.down = IF x \in lost THEN <<>> ELSE @]]

AcceptDenied(x) ==
  /\ pc = "accept" /\ x \in Queued /\ ~isAllowed(whitelist, x) /\ FreeFds # {}
  /\ CloseServerEnds({x})
  /\ UNCHANGED <<control, file, whitelist, tables, iteration, obj>>

\* onClientError(-1) after a failed accept() finds no queue.
AcceptDone ==
  /\ pc = "accept" /\ (Queued = {} \/ FreeFds = {})
  /\ pc' = "clients"
  /\ UNCHANGED <<running, runs, listenFd, file, whitelist, tables, iteration, clientVars>>

-----------------------------------------------------------------------------
(* The turn of client descriptor fd.                                       *)

\* disconnectClient(), or onClientError() and then disconnectClient().
DisconnectClient(fd) ==
  /\ clients' = erase(clients, fd)
  /\ echoQueues' = Without(echoQueues, fd)
  /\ CloseServerEnds({ConnOf(fd)})

\* Mutated form: an order is obeyed only when it comes first.
onRawDataStopsOnFirst(fd, buf) ==
  LET ends == {i \in DOMAIN buf : buf[i].nl}
      last == IF ends = {} THEN 0 ELSE CHOOSE i \in ends : \A j \in ends : i >= j
      lines == SubSeq(buf, 1, last)
  IN  /\ clients' = sendToClient([clients EXCEPT ![fd].recvBuf =
                      SubSeq(buf, last + 1, Len(buf))], fd,
                      Kept(lines, Order))
      /\ echoQueues' = With(echoQueues, fd, echoQueues[fd] \o Kept(lines, Echo))
      /\ running' = (running /\ ~(last > 0 /\ buf[1].text = "shutdown"))

\* onRawData() takes every whole line off the buffer, and onClientMessage() queues
\* it: an order to shut down at once, anything else for the ticks to come.
onRawData(fd, buf) ==
  LET ends == {i \in DOMAIN buf : buf[i].nl}
      last == IF ends = {} THEN 0 ELSE CHOOSE i \in ends : \A j \in ends : i >= j
      lines == SubSeq(buf, 1, last)
      orders == Kept(lines, Order)
  IN  /\ clients' = sendToClient([clients EXCEPT ![fd].recvBuf =
                      SubSeq(buf, last + 1, Len(buf))], fd, orders)
      /\ echoQueues' = With(echoQueues, fd, echoQueues[fd] \o Kept(lines, Echo))
      /\ running' = IF orders = <<>> THEN running ELSE FALSE

Turn(fd) == pc = "clients" /\ cur \in {NoFd, fd}

\* handleRead() with data; the write half follows when there is one.
HandleRead(fd) ==
  /\ Turn(fd) /\ fd \in readSet
  /\ \E n \in 1..Len(wire[ConnOf(fd)].up) :
       /\ onRawData(fd, clients[fd].recvBuf \o SubSeq(wire[ConnOf(fd)].up, 1, n))
       /\ wire' = [wire EXCEPT ![ConnOf(fd)].up = SubSeq(@, n + 1, Len(@))]
  /\ readSet' = readSet \ {fd}
  /\ cur' = IF fd \in writeSet THEN fd ELSE NoFd
  /\ UNCHANGED <<pc, runs, listenFd, file, whitelist, writeSet, obj>>

\* handleRead() or handleWrite() on a connection whose client has closed it.
EndTurn(fd) == readSet' = readSet \ {fd} /\ writeSet' = writeSet \ {fd} /\ cur' = NoFd

HandleEnd(fd) ==
  /\ Turn(fd) /\ fd \in readSet \cup writeSet
  /\ wire[ConnOf(fd)].client = "closed"
  /\ fd \in readSet => wire[ConnOf(fd)].up = <<>>
  /\ DisconnectClient(fd)
  /\ EndTurn(fd)
  /\ UNCHANGED <<control, file, whitelist, obj>>

\* handleWrite(): bytes sent to a client that has closed go nowhere.
HandleWrite(fd) ==
  LET x == ConnOf(fd)
  IN  /\ Turn(fd) /\ fd \in writeSet \ readSet
      /\ \E n \in 1..Len(clients[fd].sendQueue) :
           /\ clients' = wrote(clients, fd, n)
           /\ wire' = [wire EXCEPT ![x].down =
                IF wire[x].client = "closed" THEN @
                ELSE @ \o SubSeq(clients[fd].sendQueue, 1, n)]
      /\ EndTurn(fd)
      /\ UNCHANGED <<control, file, whitelist, echoQueues, obj>>

ClientsDone ==
  /\ pc = "clients" /\ readSet \cup writeSet = {}
  /\ pc' = "select"
  /\ UNCHANGED <<running, runs, listenFd, file, whitelist, tables, iteration, clientVars>>

\* Mutated form: the clients' descriptors are left open.
LeaveLoopForgets ==
  /\ pc = "select" /\ ~running
  /\ pc' = "idle"
  /\ clients' = [fd \in Fd |-> NoClient]
  /\ CloseServerEnds(Queued)
  /\ listenFd' = "none"
  /\ UNCHANGED <<running, runs, file, whitelist, echoQueues, iteration, obj>>

\* The end of eventLoop(): no hook runs, so echoQueues keeps its entries.  Closing
\* the listening socket resets what is in the accept queue.
LeaveLoop ==
  /\ pc = "select" /\ ~running
  /\ pc' = "idle"
  /\ clients' = [fd \in Fd |-> NoClient]
  /\ CloseServerEnds(Queued \cup {ConnOf(fd) : fd \in Live(clients)})
  /\ listenFd' = "none"
  /\ UNCHANGED <<running, runs, file, whitelist, echoQueues, iteration, obj>>

-----------------------------------------------------------------------------
Loop ==
  \/ EnterLoop \/ Select \/ Tick \/ AcceptDone \/ ClientsDone \/ LeaveLoop
  \/ \E x \in Conn : Accept(x) \/ AcceptDenied(x)
  \/ \E fd \in Fd : HandleRead(fd) \/ HandleEnd(fd) \/ HandleWrite(fd)

Clients ==
  /\ \E c \in Client : ClientNext(c)
  /\ UNCHANGED <<running, pc, runs, file, whitelist, tables, iteration>>

Next == SetupListenSocket \/ Loop \/ stop \/ Clients

Spec == Init /\ [][Next]_vars

\* The server's thread runs on, time passes between ticks, a socket gets room
\* again, and a thread inside a call of TcpClientB takes what it can get.
FairSpec ==
  /\ Spec
  /\ WF_vars(Loop)
  /\ \A fd \in Fd : /\ SF_vars(Tick /\ Due(fd) /\ echoQueues'[fd] # echoQueues[fd])
                    /\ SF_vars(Select /\ fd \in writeSet')
  /\ \A c \in Client : WF_vars(Progress(c) /\ Clients)

-----------------------------------------------------------------------------
(* Properties.                                                             *)

\* The type of every variable.
TypeOK ==
  /\ listenFd \in {"none", "open", "listening"}
  /\ obj \in [Client -> [fd : Nat \cup {NoFd}, made : Nat,
                         readBuf : Seq(Symbol), call : {"none", "send", "read"},
                         left : Seq(Symbol)]]
  /\ wire \in [Conn -> [server : {"new", "queued", "open", "closed", "refused"},
                        client : {"new", "open", "closed"}, up : Seq(Symbol),
                        down : Seq(Symbol), sent : Seq(Symbol), got : Seq(Symbol)]]
  /\ running \in BOOLEAN /\ runs \in 0..MaxRuns
  /\ pc \in {"idle", "bound", "select", "tick", "accept", "clients"}
  /\ clients \in [Fd -> [remoteAddr : Conn \cup {NoConn}, recvBuf : Seq(Symbol),
                         sendQueue : Seq(Symbol), pendingClose : {FALSE}]]
  /\ DOMAIN echoQueues \subseteq Fd
  /\ \A fd \in DOMAIN echoQueues : echoQueues[fd] \in Seq(Symbol)
  /\ readSet \subseteq Fd \cup (IF pc = "tick" THEN {ListenKey} ELSE {})
  /\ writeSet \subseteq Fd
  /\ cur \in Fd \cup {NoFd}

Echoes(s) == Kept(s, Echo)

\* Every line is in one place.  While both ends of a connection are open, the
\* echoes read, read ahead, on the wire, queued and still dripping, and then the
\* lines not dealt with yet, are the lines sent, in order: whatever orders came
\* in between, and whoever had the descriptor or the object before.
EchoConserved ==
  \A fd \in Live(clients) :
    LET x == ConnOf(fd)
        w == wire[x]
    IN  w.client = "open" =>
          Echoes(w.got \o obj[x[1]].readBuf \o w.down \o clients[fd].sendQueue)
            \o echoQueues[fd] \o Echoes(clients[fd].recvBuf \o w.up) = Echoes(w.sent)

IsPrefixOf(s, t) == Len(s) <= Len(t) /\ s = SubSeq(t, 1, Len(s))

\* What a client has read or holds of a session is a part, from the start, of what
\* it sent in it, also after the server is gone and after a reconnect.
OwnEchoes ==
  \A c \in Client : \A s \in 1..MaxSessions[c] :
    LET w == wire[<<c, s>>]
    IN  IsPrefixOf(Echoes(w.got \o (IF obj[c].fd = s THEN obj[c].readBuf ELSE <<>>)),
                   Echoes(w.sent))

\* Nothing leaks on either side: an object has the one socket it knows of, the
\* server one per entry of its table, and none after listen() has returned.
DescriptorsOwned ==
  /\ \A c \in Client : {s \in 1..MaxSessions[c] : wire[<<c, s>>].client = "open"}
                          = {obj[c].fd} \ {NoFd}
  /\ {x \in Conn : wire[x].server = "open"} = {ConnOf(fd) : fd \in Live(clients)}
  /\ \A f, g \in Live(clients) : ConnOf(f) = ConnOf(g) => f = g
  /\ pc = "idle" => Live(clients) = {} /\ Queued = {}

\* The reference for load() and isAllowed().
HostMatches(x) ==
  LET values == {file.values[i] : i \in DOMAIN file.values} \ {NoValue}
  IN  ~file.hasSection \/ values = {} \/ \E v \in values : x[1] \in v

\* What the filter is for (IpWhitelist.hpp:6-18): a connection taken off the accept
\* queue is served exactly when its host matches a pattern, or there is none.
WhitelistHolds ==
  [][\A x \in Conn : pc = "accept" /\ wire[x].server = "queued" /\ wire'[x].server # "queued"
       => (wire'[x].server = "open" <=> HostMatches(x))]_vars

\* A read() on a connection that was accepted or lost returns or throws once a line
\* it may expect has been sent whole.
ReadEnds ==
  \A c \in Client :
    LET owed == Connected(c) /\ Wire(c).server # "queued"
                 /\ Len(SelectSeq(Echoes(Wire(c).sent), LAMBDA b : b.nl))
                     > Len(SelectSeq(Wire(c).got, LAMBDA b : b.nl))
    IN  obj[c].call = "read" /\ owed ~> obj[c].call # "read"

\* A "shutdown" sent whole ends the server, unless its client leaves or, denied,
\* never reaches it (EchoServer.hpp:22-23).
ShutdownHappens ==
  \A x \in Conn :
    wire[x].server = "open" /\ (\E i \in DOMAIN wire[x].sent :
                                  wire[x].sent[i].nl /\ wire[x].sent[i].text = "shutdown")
      ~> wire[x].server = "closed" \/ wire[x].client = "closed"

\* stop() in the loop ends it.
StopHappens == ~running /\ pc # "bound" ~> pc \in {"idle", "bound"}
=============================================================================
