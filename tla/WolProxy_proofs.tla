--------------------------- MODULE WolProxy_proofs ---------------------------
(***************************************************************************)
(* Proofs about WolProxy and LlamaCppWolProxy, for any number of           *)
(* connections, descriptors, bytes and tries: the hook, which may close    *)
(* its client, throw, or let the peers wait, leaves TcpProxy's guarantees  *)
(* alone, and a host that stays up and answers is not started twice.       *)
(*                                                                         *)
(* While the hook runs, the tables and the kernel are in a state no step   *)
(* of TcpProxy ends in: a client without an entry in backends.  Seen       *)
(* without that client, as if accept() had not returned it yet, they are   *)
(* in one of TcpProxy's, and what ends the hook is then one step of it.    *)
(***************************************************************************)
EXTENDS WolProxy, TcpProxy_proofs

-----------------------------------------------------------------------------
(* The inductive invariant.                                                *)

\* The state without the hook's client.
seenClients == IF Stage("none") THEN clients ELSE [clients EXCEPT ![wake.fd] = NoClient]
seenSock == IF Stage("none") THEN sock ELSE [sock EXCEPT ![wake.fd] = Free]
seenCli == IF Stage("none") THEN cli ELSE [cli EXCEPT ![ConnOf(wake.fd)].at = "queued"]

V == INSTANCE TcpProxy_proofs
     WITH clients <- seenClients, sock <- seenSock, cli <- seenCli

\* The hook's client, accepted and nothing more.
Hooked ==
  LET fd == wake.fd
      c == ConnOf(fd)
  IN  /\ pc = "accept" /\ TablesType /\ KernelType
      /\ fd \in Fd /\ c \in Allowed
      /\ clients[fd] = NewClient(c) /\ sock[fd] = Socket("client", c) /\ cli[c].at = "open"
      /\ \A g \in FreeFds : fd <= g

\* TcpProxy's invariants, of what is seen, until a failing command ends the process.
WolAlive ==
  \/ Stage("none") /\ Forwarding
  \/ ~Stage("none") /\ V!Forwarding /\ Hooked
  \/ Stage("none") /\ pc = "stopped" /\ FdOwnership /\ LiveBackends = {}

WakeType ==
  /\ kind \in [llama : BOOLEAN, ssh : BOOLEAN]
  /\ wake \in [at : {"none", "ping", "wol", "packet", "ssh", "health", "admit"},
               fd : Fd \cup {NB!NoFd}, tries : Nat]
  /\ host \in {"up", "down"} /\ silence \in BOOLEAN

\* wol() is only called after a ping without an answer, and a host that is down has
\* had no startup command since it went down.
SilenceSeen == host = "down" \/ wake.at \in {"wol", "packet", "ssh"} => silence = TRUE

WolInv == WolAlive /\ WakeType /\ SilenceSeen

-----------------------------------------------------------------------------
(* In and out of the hook.                                                 *)

\* A step after which what is seen is what there was before keeps the invariant.
LEMMA EnterHook ==
  ASSUME Forwarding, seenClients' = clients, seenSock' = sock, seenCli' = cli,
         UNCHANGED <<running, loopVars, backends, srv>>
  PROVE  V!Forwarding'
<1> DEFINE same == /\ seenClients' = clients /\ seenSock' = sock /\ seenCli' = cli
                   /\ UNCHANGED <<running, pc, readSet, writeSet, todo, cur, backends, srv>>
<1>1. same
  BY DEF loopVars
<1>2. IInv /\ SessionInv /\ ReportedOpen /\ Reports /\ Blank
  BY DEF Forwarding
<1>3. /\ V!LiveBackends' = LiveBackends /\ V!Live(seenClients)' = Live(clients)
      /\ V!FreeFds' = FreeFds
      /\ \A fd : V!ConnOf(fd)' = ConnOf(fd) /\ V!BackendFd(fd)' = BackendFd(fd)
  BY <1>1 DEF V!LiveBackends, LiveBackends, V!Live, Live, V!FreeFds, FreeFds, Free, V!Free,
    V!ConnOf, ConnOf, V!BackendFd, BackendFd
<1>4. V!NB!NoFd = NB!NoFd /\ V!Free = Free /\ \A k, c : V!Socket(k, c) = Socket(k, c)
  BY DEF V!NB!NoFd, NB!NoFd, V!Free, Free, V!Socket, Socket
<1>5. V!TypeOK'
  BY <1>1, <1>2 DEF IInv, TypeOK, V!TypeOK, NBType, V!NBType, EndType, V!EndType,
    Byte, V!Byte, NB!NoFd, V!NB!NoFd
<1>6. V!FdOwnership'
  BY <1>1, <1>2, <1>3, <1>4 DEF IInv, FdOwnership, V!FdOwnership
<1>7. V!SocketsMade' /\ V!TodoLive' /\ V!NoPendingClose'
  BY <1>1, <1>2, <1>3, <1>4 DEF IInv, SocketsMade, TodoLive, NoPendingClose,
    V!SocketsMade, V!TodoLive, V!NoPendingClose
<1>8. V!Entries'
  <2>1. \A st, e, ce, se : V!EntryOK(st, e, ce, se) <=> EntryOK(st, e, ce, se)
    BY DEF EntryOK, V!EntryOK, Stream, V!Stream, NB!NoFd, V!NB!NoFd
  <2>2. \A fd \in LiveBackends :
          V!EntryOK(clients[fd], backends[fd], cli[ConnOf(fd)], srv[ConnOf(fd)])
    BY <2>1, <1>2 DEF SessionInv, Entries
  <2> QED BY <2>2, <1>1, <1>3 DEF V!Entries
<1>9. V!OneEntryEach' /\ V!Untouched'
  BY <1>1, <1>2, <1>3 DEF SessionInv, OneEntryEach, Untouched, V!OneEntryEach, V!Untouched
<1>10. V!ReportedOpen' /\ V!Blank'
  BY <1>1, <1>2, <1>3, <1>4 DEF ReportedOpen, V!ReportedOpen, Blank, V!Blank, NoClient,
    V!NoClient, NewClient, V!NewClient, NoBackend, V!NoBackend, NewBackend, V!NewBackend,
    NB!Fresh, V!NB!Fresh
<1>11. V!Reports'
  BY <1>1, <1>2, <1>3, <1>4 DEF Reports, ReportsHold, HasInput, HasOutput, BackendWriteDue,
    BackendReadDue, ClientReadDue, ClientWriteDue, V!Reports, V!ReportsHold, V!HasInput,
    V!HasOutput, V!BackendWriteDue, V!BackendReadDue, V!ClientReadDue, V!ClientWriteDue
<1> QED
  BY <1>5, <1>6, <1>7, <1>8, <1>9, <1>10, <1>11 DEF V!Forwarding, V!IInv, V!SessionInv

\* Once the hook is over, what was proved of what is seen is true of what there is.
LEMMA LeaveHook ==
  ASSUME V!Forwarding', seenClients' = clients', seenSock' = sock', seenCli' = cli'
  PROVE  Forwarding'
<1>1. V!IInv' /\ V!SessionInv' /\ V!ReportedOpen' /\ V!Reports' /\ V!Blank'
  BY DEF V!Forwarding
<1>2. /\ V!LiveBackends' = LiveBackends' /\ V!Live(seenClients)' = Live(clients)'
      /\ V!FreeFds' = FreeFds'
      /\ \A fd : V!ConnOf(fd)' = ConnOf(fd)' /\ V!BackendFd(fd)' = BackendFd(fd)'
  BY DEF V!LiveBackends, LiveBackends, V!Live, Live, V!FreeFds, FreeFds, Free, V!Free,
    V!ConnOf, ConnOf, V!BackendFd, BackendFd
<1>3. V!NB!NoFd = NB!NoFd /\ V!Free = Free /\ \A k, c : V!Socket(k, c) = Socket(k, c)
  BY DEF V!NB!NoFd, NB!NoFd, V!Free, Free, V!Socket, Socket
<1>4. TypeOK'
  BY <1>1 DEF V!IInv, TypeOK, V!TypeOK, NBType, V!NBType, EndType, V!EndType,
    Byte, V!Byte, NB!NoFd, V!NB!NoFd
<1>5. FdOwnership'
  BY <1>1, <1>2, <1>3 DEF V!IInv, FdOwnership, V!FdOwnership
<1>6. SocketsMade' /\ TodoLive' /\ NoPendingClose'
  BY <1>1, <1>2, <1>3 DEF V!IInv, SocketsMade, TodoLive, NoPendingClose,
    V!SocketsMade, V!TodoLive, V!NoPendingClose
<1>7. Entries'
  <2>1. \A st, e, ce, se : V!EntryOK(st, e, ce, se) <=> EntryOK(st, e, ce, se)
    BY DEF EntryOK, V!EntryOK, Stream, V!Stream, NB!NoFd, V!NB!NoFd
  <2>2. \A fd \in LiveBackends' :
          V!EntryOK(clients'[fd], backends'[fd], cli'[ConnOf(fd)'], srv'[ConnOf(fd)'])
    BY <1>1, <1>2 DEF V!SessionInv, V!Entries
  <2> QED BY <2>1, <2>2 DEF Entries
<1>8. OneEntryEach' /\ Untouched'
  BY <1>1, <1>2 DEF V!SessionInv, OneEntryEach, Untouched, V!OneEntryEach, V!Untouched
<1>9. ReportedOpen' /\ Blank'
  BY <1>1, <1>2, <1>3 DEF ReportedOpen, V!ReportedOpen, Blank, V!Blank, NoClient, V!NoClient,
    NewClient, V!NewClient, NoBackend, V!NoBackend, NewBackend, V!NewBackend, NB!Fresh, V!NB!Fresh
<1>10. Reports'
  BY <1>1, <1>2, <1>3 DEF Reports, ReportsHold, HasInput, HasOutput, BackendWriteDue,
    BackendReadDue, ClientReadDue, ClientWriteDue, V!Reports, V!ReportsHold, V!HasInput,
    V!HasOutput, V!BackendWriteDue, V!BackendReadDue, V!ClientReadDue, V!ClientWriteDue
<1> QED
  BY <1>4, <1>5, <1>6, <1>7, <1>8, <1>9, <1>10 DEF Forwarding, IInv, SessionInv

\* accept() returns a client, whose hook starts.
LEMMA Accepting ==
  ASSUME Forwarding, NEW c \in Conn, Accepted(c), pc = "accept"
  PROVE  ~Stage("none")' /\ V!Forwarding' /\ Hooked'
<1>1. PICK fd \in FreeFds :
        /\ IsLowest(fd, FreeFds)
        /\ clients' = [clients EXCEPT ![fd] = NewClient(c)]
        /\ sock' = [sock EXCEPT ![fd] = Socket("client", c)]
        /\ wake' = [at |-> "ping", fd |-> fd, tries |-> 0]
  BY DEF Accepted
<1>2. /\ cli[c].at = "queued" /\ c \in Allowed
      /\ cli' = [cli EXCEPT ![c].at = "open"]
      /\ UNCHANGED <<running, loopVars, backends, srv>> /\ pc' = pc
  BY DEF Accepted, Backlog, loopVars
<1>3. TablesType /\ KernelType /\ fd \in Fd /\ sock[fd] = Free
  BY <1>1, TypeParts DEF Forwarding, IInv, FreeFds
<1>4. clients[fd] = NoClient
  <2>1. ASSUME fd \in LiveBackends PROVE FALSE
    <3>1. sock[fd] = Socket("client", ConnOf(fd))
      BY <2>1, LiveEntry DEF Forwarding
    <3> QED
      BY <1>3, <3>1 DEF Free, Socket
  <2> QED
    BY <1>3, <2>1 DEF Forwarding, Blank
<1>5. wake'.at = "ping" /\ wake'.fd = fd /\ ~Stage("none")'
  BY <1>1 DEF Stage
<1>6. clients'[fd] = NewClient(c) /\ ConnOf(fd)' = c /\ sock'[fd] = Socket("client", c)
  BY <1>1, <1>3 DEF TablesType, KernelType, ConnOf, NewClient
<1>7. seenClients' = clients /\ seenSock' = sock
  <2>1. [clients' EXCEPT ![fd] = NoClient] = clients
    BY <1>1, <1>3, <1>4 DEF TablesType
  <2>2. [sock' EXCEPT ![fd] = Free] = sock
    BY <1>1, <1>3 DEF KernelType
  <2> QED
    BY <1>5, <2>1, <2>2 DEF seenClients, seenSock
<1>8. cli'[c].at = "open" /\ seenCli' = cli
  <2>1. cli[c] \in CliType
    BY <1>3 DEF KernelType
  <2>2. [cli' EXCEPT ![c].at = "queued"] = cli /\ cli'[c].at = "open"
    BY <1>2, <1>3, <2>1 DEF KernelType, CliType, EndType
  <2> QED
    BY <1>5, <1>6, <2>2 DEF seenCli
<1>9. V!Forwarding'
  BY <1>2, <1>7, <1>8, EnterHook
<1>10. TablesType' /\ KernelType'
  <2>1. NewClient(c) \in ClientType /\ Socket("client", c) \in SocketType
    BY NewClientType DEF Socket, SocketType
  <2>2. [cli[c] EXCEPT !.at = "open"] \in CliType
    BY <1>3 DEF KernelType, CliType, EndType
  <2> QED
    BY <1>1, <1>2, <1>3, <2>1, <2>2 DEF TablesType, KernelType, ClientType, BackendType, NBType,
      SocketType, CliType, SrvType, EndType, Byte
<1>11. \A g \in FreeFds' : fd <= g
  BY <1>1, <1>3 DEF FreeFds, IsLowest, KernelType, Free, Socket
<1> QED
  BY <1>2, <1>3, <1>5, <1>6, <1>8, <1>9, <1>10, <1>11 DEF Hooked

\* A stage of the hook that changes neither the tables nor the kernel.
LEMMA HookGoesOn ==
  ASSUME ~Stage("none"), V!Forwarding, Hooked, UNCHANGED vars,
         wake'.fd = wake.fd, wake'.at # "none"
  PROVE  ~Stage("none")' /\ V!Forwarding' /\ Hooked'
<1>1. UNCHANGED <<running, pc, readSet, writeSet, todo, cur, clients, backends, sock, cli, srv>>
  BY DEF vars, loopVars, tables, kernel
<1>2. ~Stage("none")' /\ ConnOf(wake.fd)' = ConnOf(wake.fd)
  BY <1>1 DEF Stage, ConnOf
<1>3. seenClients' = seenClients /\ seenSock' = seenSock /\ seenCli' = seenCli
  BY <1>1, <1>2 DEF seenClients, seenSock, seenCli
<1>4. UNCHANGED V!vars
  BY <1>1, <1>3 DEF V!vars, V!loopVars, V!tables, V!kernel
<1>5. V!Forwarding'
  BY <1>4, V!ForwardingNext, ConnAssumption, FdAssumption, BoundAssumption
<1>6. Hooked'
  BY <1>1, <1>2 DEF Hooked, TablesType, KernelType, ClientType, BackendType, NBType, SocketType,
    CliType, SrvType, EndType, Byte, FreeFds
<1> QED
  BY <1>2, <1>5, <1>6

\* The peers and a signal do not wait for the hook.
LEMMA HookEnvironment ==
  ASSUME ~Stage("none"), V!Forwarding, Hooked, stop \/ Environment, UNCHANGED wake
  PROVE  ~Stage("none")' /\ V!Forwarding' /\ Hooked'
<1> DEFINE k == ConnOf(wake.fd)
<1>1. /\ UNCHANGED <<pc, readSet, writeSet, todo, cur, clients, backends, sock>>
      /\ UNCHANGED <<loopVars, tables, sock>>
  BY DEF stop, Environment, ClientConnects, ClientSends, ClientCloses, BackendAnswers,
    BackendSends, BackendEnds, loopVars, tables, kernel
<1>2. ~Stage("none")' /\ ConnOf(wake.fd)' = k
  BY <1>1 DEF Stage, ConnOf
<1>3. /\ TablesType /\ KernelType /\ k \in Conn /\ cli[k].at = "open"
  BY ConnAssumption DEF Hooked
<1>4. /\ seenClients' = seenClients /\ seenSock' = seenSock
      /\ seenCli = [cli EXCEPT ![k].at = "queued"]
      /\ seenCli' = [cli' EXCEPT ![k].at = "queued"]
  BY <1>1, <1>2 DEF seenClients, seenSock, seenCli
<1>5. UNCHANGED <<V!loopVars, V!tables, seenSock>>
  BY <1>1, <1>4 DEF V!loopVars, V!tables
<1>6. /\ cli \in [Conn -> CliType]
      /\ \A d \in Conn : /\ seenCli[d].peer = cli[d].peer /\ seenCli[d].sent = cli[d].sent
                         /\ cli[d].at = "new" => seenCli[d].at = "new"
                         /\ cli[d].at \in {"queued", "open"} => seenCli[d].at \in {"queued", "open"}
  BY <1>3, <1>4 DEF KernelType, CliType, EndType
<1> DEFINE queued(e) == [e EXCEPT !.at = "queued"]
           seen(f) == [d \in Conn |-> IF d = k THEN queued(f[d]) ELSE f[d]]
<1>7. \A f \in [Conn -> CliType] : [f EXCEPT ![k].at = "queued"] = seen(f)
  BY <1>3
<1>8. seenCli = seen(cli) /\ (cli' \in [Conn -> CliType] => seenCli' = seen(cli'))
  BY <1>4, <1>6, <1>7
<1>9. ASSUME NEW e \in CliType, NEW x
       PROVE  /\ queued([e EXCEPT !.sent = x]) = [queued(e) EXCEPT !.sent = x]
              /\ queued([e EXCEPT !.peer = x]) = [queued(e) EXCEPT !.peer = x]
  BY DEF CliType, EndType
<1>10. ASSUME NEW c \in Conn, NEW x
       PROVE  /\ cli'[c] = [cli[c] EXCEPT !.sent = x] =>
                   seen(cli')[c] = [seen(cli)[c] EXCEPT !.sent = x]
              /\ cli'[c] = [cli[c] EXCEPT !.peer = x] =>
                   seen(cli')[c] = [seen(cli)[c] EXCEPT !.peer = x]
  <2>1. cli[c] \in CliType
    BY <1>6
  <2>2. /\ queued([cli[c] EXCEPT !.sent = x]) = [queued(cli[c]) EXCEPT !.sent = x]
        /\ queued([cli[c] EXCEPT !.peer = x]) = [queued(cli[c]) EXCEPT !.peer = x]
    BY <1>9, <2>1
  <2> HIDE DEF queued
  <2>3. CASE c = k
    <3>1. seen(cli')[c] = queued(cli'[c]) /\ seen(cli)[c] = queued(cli[c])
      BY <2>3
    <3> QED
      BY <2>2, <3>1
  <2>4. CASE c # k
    <3>1. seen(cli')[c] = cli'[c] /\ seen(cli)[c] = cli[c]
      BY <2>4
    <3> QED
      BY <3>1
  <2> QED
    BY <2>3, <2>4
<1>11. KernelType'
  BY <1>3, KernelSame, EnvironmentType DEF stop
<1>12. ASSUME NEW c \in Conn, \A d \in Conn : d # c => cli'[d] = cli[d], NEW v,
              seen(cli')[c] = v
       PROVE  seenCli' = [seenCli EXCEPT ![c] = v]
  <2>1. \A d \in Conn : d # c => seen(cli')[d] = seen(cli)[d]
    BY <1>12
  <2>2. seenCli = seen(cli) /\ seenCli' = seen(cli')
    BY <1>8, <1>11 DEF KernelType
  <2>3. \A f : seen(f) = [d \in Conn |-> seen(f)[d]]
    OBVIOUS
  <2> HIDE DEF seen
  <2> QED
    BY <1>12, <2>1, <2>2, <2>3
<1> HIDE DEF queued, seen
<1>13. ASSUME stop PROVE V!Next
  <2>1. cli' = cli /\ srv' = srv /\ running /\ running' = FALSE
    BY <1>13 DEF stop, kernel
  <2>2. V!stop
    BY <1>4, <1>5, <2>1 DEF V!stop, V!kernel
  <2> QED
    BY <2>2 DEF V!Next
<1>14. ASSUME NEW c \in Conn, ClientConnects(c) \/ ClientSends(c) \/ ClientCloses(c)
      PROVE  V!ClientConnects(c) \/ V!ClientSends(c) \/ V!ClientCloses(c)
  <2>1. /\ running' = running /\ srv' = srv
    BY <1>14 DEF ClientConnects, ClientSends, ClientCloses
  <2>2. CASE ClientConnects(c)
    <3>1. c # k /\ cli[c].at = "new" /\ pc # "stopped" /\ cli' = [cli EXCEPT ![c].at = "queued"]
      BY <1>3, <2>2 DEF ClientConnects
    <3>2. seenCli' = [seenCli EXCEPT ![c].at = "queued"]
      BY <1>6, <1>8, <1>11, <3>1 DEF KernelType, seen
    <3> QED
      BY <1>5, <1>6, <2>1, <3>1, <3>2 DEF V!ClientConnects
  <2>3. CASE ClientSends(c)
    <3>1. /\ cli[c].at \in {"queued", "open"} /\ cli[c].peer = "up" /\ cli[c].sent < MaxUp
          /\ cli' = [cli EXCEPT ![c].sent = @ + 1]
      BY <2>3 DEF ClientSends
    <3>2. seenCli' = [seenCli EXCEPT ![c].sent = @ + 1]
      <4>1. cli'[c] = [cli[c] EXCEPT !.sent = @ + 1] /\ \A d \in Conn : d # c => cli'[d] = cli[d]
        BY <1>6, <3>1
      <4>2. cli[c] \in CliType /\ seenCli[c].sent = cli[c].sent
        BY <1>6
      <4>3. seen(cli')[c] = [seen(cli)[c] EXCEPT !.sent = cli[c].sent + 1]
        BY <1>10, <4>1
      <4>4. seenCli' = [seenCli EXCEPT ![c] = [seenCli[c] EXCEPT !.sent = @ + 1]]
        BY <1>8, <1>12, <4>1, <4>2, <4>3
      <4> QED
        BY <4>4
    <3> QED
      BY <1>5, <1>6, <2>1, <3>1, <3>2 DEF V!ClientSends
  <2>4. CASE ClientCloses(c)
    <3>1. /\ cli[c].at \in {"queued", "open"}
          /\ \/ cli[c].peer = "up" /\ cli' = [cli EXCEPT ![c].peer = "fin"]
             \/ Resets /\ cli[c].peer # "rst" /\ cli' = [cli EXCEPT ![c].peer = "rst"]
      BY <2>4 DEF ClientCloses
    <3>2. ASSUME NEW p, cli' = [cli EXCEPT ![c].peer = p]
          PROVE  seenCli' = [seenCli EXCEPT ![c].peer = p]
      <4>1. cli'[c] = [cli[c] EXCEPT !.peer = p] /\ \A d \in Conn : d # c => cli'[d] = cli[d]
        BY <1>6, <3>2
      <4>2. seen(cli')[c] = [seen(cli)[c] EXCEPT !.peer = p]
        BY <1>6, <1>10, <4>1
      <4>3. seenCli' = [seenCli EXCEPT ![c] = [seenCli[c] EXCEPT !.peer = p]]
        BY <1>8, <1>12, <4>1, <4>2
      <4> QED
        BY <4>3
    <3> QED
      BY <1>5, <1>6, <2>1, <3>1, <3>2 DEF V!ClientCloses
  <2> QED
    BY <1>14, <2>2, <2>3, <2>4
<1>15. ASSUME NEW c \in Conn, BackendAnswers(c) \/ BackendSends(c) \/ BackendEnds(c)
      PROVE  V!BackendAnswers(c) \/ V!BackendSends(c) \/ V!BackendEnds(c)
  <2>1. running' = running /\ cli' = cli
    BY <1>15 DEF BackendAnswers, BackendSends, BackendEnds
  <2>2. seenCli' = seenCli
    BY <1>4, <2>1
  <2> QED
    BY <1>5, <1>15, <2>1, <2>2, Zenon DEF BackendAnswers, BackendSends, BackendEnds,
      V!BackendAnswers, V!BackendSends, V!BackendEnds
<1>16. V!Next
  BY <1>13, <1>14, <1>15 DEF Environment, V!Environment, V!Next
<1>17. V!Forwarding'
  BY <1>16, V!ForwardingNext, ConnAssumption, FdAssumption, BoundAssumption
<1>18. TablesType'
  BY <1>1, <1>3 DEF TablesType, ClientType, BackendType, NBType, Byte
<1>19. cli'[k].at = "open"
  <2>1. ASSUME NEW c \in Conn, ClientConnects(c) \/ ClientSends(c) \/ ClientCloses(c)
        PROVE  cli'[k].at = "open"
    <3>1. cli[k].at = "open" /\ k \in Conn /\ cli[k] \in CliType /\ DOMAIN cli = Conn
      BY <1>3, <1>6
    <3>2. CASE ClientConnects(c)
      <4>1. cli[c].at = "new" /\ \E e : cli' = [cli EXCEPT ![c] = e]
        BY <3>2 DEF ClientConnects
      <4> QED
        BY <3>1, <4>1
    <3>3. CASE ClientSends(c) \/ ClientCloses(c)
      <4>1. \/ cli' = [cli EXCEPT ![c].sent = @ + 1]
            \/ \E p : cli' = [cli EXCEPT ![c].peer = p]
        BY <3>3 DEF ClientSends, ClientCloses
      <4>2. cli'[k].at = cli[k].at
        BY <3>1, <4>1 DEF CliType, EndType
      <4> QED
        BY <3>1, <4>2
    <3> QED
      BY <2>1, <3>2, <3>3
  <2> QED
    BY <1>3, <2>1 DEF stop, kernel, Environment, BackendAnswers, BackendSends, BackendEnds
<1> QED
  BY <1>1, <1>2, <1>17, <1>18, <1>19, <1>11 DEF Hooked, FreeFds

\* What the invariant says of the tables and the kernel in the hook.
LEMMA HookOwners ==
  ASSUME ~Stage("none"), V!Forwarding, Hooked
  PROVE  /\ WakeOwnership /\ SocketsMade /\ Live(clients) = LiveBackends \cup {wake.fd}
         /\ wake.fd \notin LiveBackends /\ BackendFd(wake.fd) = NB!NoFd
         /\ V!LiveBackends = LiveBackends /\ V!FreeFds = FreeFds \cup {wake.fd}
<1> DEFINE fd == wake.fd
           c == ConnOf(fd)
<1>1. /\ fd \in Fd /\ c \in Conn /\ TablesType /\ KernelType
      /\ clients[fd] = NewClient(c) /\ sock[fd] = Socket("client", c)
  BY ConnAssumption DEF Hooked
<1>2. V!FdOwnership /\ V!SocketsMade /\ V!Blank
  BY DEF V!Forwarding, V!IInv
<1>3. /\ \A f \in Fd : f # fd => seenClients[f] = clients[f] /\ seenSock[f] = sock[f]
      /\ seenClients[fd] = NoClient /\ seenSock[fd] = Free /\ DOMAIN seenClients = Fd
  BY <1>1 DEF seenClients, seenSock, TablesType, KernelType
<1>4. /\ V!LiveBackends = LiveBackends
      /\ \A f : V!BackendFd(f) = BackendFd(f)
      /\ \A f \in Fd : f # fd => V!ConnOf(f) = ConnOf(f)
      /\ V!ConnOf(fd) = NoConn /\ V!NB!NoFd = NB!NoFd /\ V!NoBackend = NoBackend
      /\ \A k, d : V!Socket(k, d) = Socket(k, d)
  BY <1>3 DEF V!LiveBackends, LiveBackends, V!BackendFd, BackendFd, V!ConnOf, ConnOf, NoClient,
    NewClient, V!NB!NoFd, NB!NoFd, V!Socket, Socket, NoBackend, V!NoBackend, NewBackend,
    V!NewBackend, NB!Fresh, V!NB!Fresh
<1>5. /\ DOMAIN clients = Fd /\ clients[fd].remoteAddr = c /\ NoClient.remoteAddr = NoConn
      /\ c # NoConn
  BY <1>1, ConnAssumption DEF TablesType, NoClient, NewClient
<1>6. Live(clients) = V!Live(seenClients) \cup {fd} /\ fd \notin V!Live(seenClients)
  BY <1>1, <1>3, <1>5 DEF Live, V!Live
<1>7. Live(clients) = LiveBackends \cup {fd} /\ fd \notin LiveBackends
  BY <1>2, <1>4, <1>6 DEF V!FdOwnership
<1>8. BackendFd(fd) = NB!NoFd
  <2>1. backends[fd] = NoBackend
    BY <1>1, <1>2, <1>4, <1>7 DEF V!Blank
  <2> QED
    BY <2>1 DEF BackendFd, NoBackend, NewBackend, NB!Fresh
<1>9. \A f \in LiveBackends : ConnOf(f) = backends[f].clientAddr
  <2>1. \A f \in LiveBackends : f \in Fd /\ f # fd
    BY <1>7 DEF LiveBackends
  <2> QED
    BY <1>2, <1>4, <2>1 DEF V!FdOwnership
<1>10. ASSUME NEW f \in Fd, NEW d \in Conn
       PROVE  /\ sock[f] = Socket("client", d) <=> ConnOf(f) = d
              /\ sock[f] = Socket("backend", d) <=>
                   \E g \in LiveBackends : BackendFd(g) = f /\ backends[g].clientAddr = d
  <2>1. CASE f # fd
    BY <1>2, <1>3, <1>4, <2>1 DEF V!FdOwnership
  <2>2. CASE f = fd
    <3>1. ~ \E g \in LiveBackends : BackendFd(g) = f /\ backends[g].clientAddr = d
      <4>1. seenSock[fd] # Socket("backend", d)
        BY <1>3 DEF Free, Socket
      <4> QED
        BY <1>1, <1>2, <1>4, <2>2, <4>1 DEF V!FdOwnership
    <3> QED
      BY <1>1, <2>2, <3>1 DEF Socket
  <2> QED
    BY <2>1, <2>2
<1>11. \A f, g \in LiveBackends : BackendFd(f) = BackendFd(g) /\ f # g => BackendFd(f) = NB!NoFd
  BY <1>2, <1>4 DEF V!FdOwnership
<1>12. WakeOwnership
  BY <1>7, <1>9, <1>10, <1>11 DEF WakeOwnership
<1>13. SocketsMade
  BY <1>1, <1>2, <1>3, <1>4 DEF V!SocketsMade, SocketsMade, V!Free, Free
<1>14. V!FreeFds = FreeFds \cup {fd}
  <2>1. sock[fd] # Free /\ V!Free = Free
    BY <1>1 DEF Free, V!Free, Socket
  <2> QED
    BY <1>1, <1>3, <2>1 DEF FreeFds, V!FreeFds
<1> QED
  BY <1>4, <1>7, <1>8, <1>12, <1>13, <1>14

\* onClientConnect() is done: the accept() and the hook together are TcpProxy's
\* AcceptClient.
LEMMA Connecting ==
  ASSUME V!Forwarding, Hooked, Connect
  PROVE  Stage("none")' /\ Forwarding'
<1> DEFINE fd == wake.fd
           c == ConnOf(fd)
<1>1. /\ fd \in Fd /\ c \in Allowed /\ c \in Conn /\ TablesType /\ KernelType /\ pc = "accept"
      /\ clients[fd] = NewClient(c) /\ sock[fd] = Socket("client", c) /\ cli[c].at = "open"
      /\ \A g \in FreeFds : fd <= g
  BY ConnAssumption DEF Hooked
<1>2. ~Stage("none") /\ wake' = NoWake /\ UNCHANGED <<running, loopVars, clients, cli>>
  BY DEF Connect, Stage
<1>3. Stage("none")' /\ seenClients' = clients' /\ seenSock' = sock' /\ seenCli' = cli'
  BY <1>2 DEF Stage, NoWake, seenClients, seenSock, seenCli
<1>4. V!FreeFds = FreeFds \cup {fd} /\ fd \notin FreeFds
  BY <1>1, <1>2, HookOwners DEF FreeFds, Free, Socket
<1>5. clients' = [seenClients EXCEPT ![fd] = V!NewClient(c)]
  BY <1>1, <1>2 DEF seenClients, TablesType, NewClient, V!NewClient
<1>6. c \in V!Backlog /\ cli' = [seenCli EXCEPT ![c].at = "open"]
  <2>1. cli[c] \in CliType
    BY <1>1 DEF KernelType
  <2> QED
    BY <1>1, <1>2, <2>1, ZenonT(40) DEF seenCli, V!Backlog, KernelType, CliType, EndType
<1>7. V!IsLowest(fd, V!FreeFds) /\ fd \in V!FreeFds /\ V!FreeFds \ {fd} = FreeFds
  BY <1>1, <1>4, FdAssumption DEF V!IsLowest
<1>8. \/ /\ backends' = [backends EXCEPT ![fd] =
                V!NewBackend(V!NB!connect(V!NB!Fresh, "failed", V!NB!NoFd), c)]
         /\ sock' = [seenSock EXCEPT ![fd] = V!Socket("client", c)]
         /\ UNCHANGED srv
      \/ \E bfd \in V!FreeFds \ {fd}, outcome \in {"inprogress", "immediate"} :
           /\ V!IsLowest(bfd, V!FreeFds \ {fd})
           /\ backends' = [backends EXCEPT ![fd] =
                V!NewBackend(V!NB!connect(V!NB!Fresh, outcome, bfd), c)]
           /\ sock' = [seenSock EXCEPT ![fd] = V!Socket("client", c),
                                       ![bfd] = V!Socket("backend", c)]
           /\ srv' = [srv EXCEPT ![c] =
                V!NewEnd("open", IF outcome = "immediate" THEN "up" ELSE "syn")]
  <2>1. /\ \A b, o, f : V!NB!connect(b, o, f) = NB!connect(b, o, f)
        /\ V!NB!Fresh = NB!Fresh /\ V!NB!NoFd = NB!NoFd
        /\ \A b, d : V!NewBackend(b, d) = NewBackend(b, d)
        /\ \A at, peer : V!NewEnd(at, peer) = NewEnd(at, peer)
        /\ \A k, d : V!Socket(k, d) = Socket(k, d)
        /\ \A f, S : V!IsLowest(f, S) <=> IsLowest(f, S)
    BY DEF V!NB!connect, NB!connect, V!NB!Fresh, NB!Fresh, V!NB!NoFd, NB!NoFd, V!NewBackend,
      NewBackend, V!NewEnd, NewEnd, V!Socket, Socket, V!IsLowest, IsLowest, V!NB!disconnect,
      NB!disconnect
  <2>2. sock = [seenSock EXCEPT ![fd] = Socket("client", c)]
    BY <1>1, <1>2 DEF seenSock, KernelType
  <2> QED
    BY <1>7, <2>1, <2>2 DEF Connect
<1>9. V!AcceptClient(c)
  BY <1>1, <1>2, <1>3, <1>5, <1>6, <1>7, <1>8 DEF V!AcceptClient, V!Admit, loopVars, V!loopVars
<1>10. V!Forwarding'
  <2>1. V!Next
    BY <1>1, <1>9 DEF V!Next, V!Loop, V!acceptClients
  <2> QED
    BY <2>1, V!ForwardingNext, ConnAssumption, FdAssumption, BoundAssumption
<1> QED
  BY <1>3, <1>10, LeaveHook

\* The model server did not come up: the client is closed again, as one that the
\* accept loop turns away.
LEMMA Refusing ==
  ASSUME V!Forwarding, Hooked, Refuse
  PROVE  Stage("none")' /\ Forwarding'
<1> DEFINE fd == wake.fd
           c == ConnOf(fd)
<1>1. /\ fd \in Fd /\ c \in Conn /\ TablesType /\ KernelType /\ pc = "accept"
      /\ clients[fd] = NewClient(c) /\ sock[fd] = Socket("client", c) /\ cli[c].at = "open"
  BY ConnAssumption DEF Hooked
<1>2. ~Stage("none") /\ wake' = NoWake /\ UNCHANGED <<running, loopVars>> /\ DisconnectClient(fd)
  BY DEF Refuse, Stage
<1>3. Stage("none")' /\ seenClients' = clients' /\ seenSock' = sock' /\ seenCli' = cli'
  BY <1>2 DEF Stage, NoWake, seenClients, seenSock, seenCli
<1>4. clients' = seenClients /\ backends' = backends /\ CloseWith({fd}, cli)
  <2>1. BackendFd(fd) = NB!NoFd /\ fd \notin LiveBackends /\ V!LiveBackends = LiveBackends
    BY <1>2, HookOwners
  <2>2. backends[fd] = NoBackend
    BY <1>1, <2>1 DEF V!Forwarding, V!Blank, NoBackend, V!NoBackend, NewBackend, V!NewBackend,
      NB!Fresh, V!NB!Fresh, NB!NoFd, V!NB!NoFd
  <2>3. fd # NB!NoFd
    BY <1>1, NoFdNotInFd
  <2> QED
    BY <1>1, <1>2, <2>1, <2>2, <2>3 DEF DisconnectClient, DisconnectClientWith, erase, seenClients,
      TablesType
<1>5. sock' = seenSock /\ srv' = srv /\ cli' = [cli EXCEPT ![c] = ClosedEnd(cli[c])]
  <2>1. \A d \in Conn : /\ (\E f \in {fd} : sock[f] = Socket("client", d)) <=> d = c
                       /\ ~ \E f \in {fd} : sock[f] = Socket("backend", d)
    BY <1>1 DEF Socket
  <2> QED
    BY <1>1, <1>2, <1>4, <2>1 DEF CloseWith, seenSock, KernelType
<1>6. c \in V!Backlog /\ cli' = [seenCli EXCEPT ![c] = V!ClosedEnd(seenCli[c])]
  <2>1. cli[c] \in CliType /\ seenCli = [cli EXCEPT ![c].at = "queued"]
    BY <1>1, <1>2 DEF KernelType, seenCli
  <2>2. seenCli[c].at = "queued" /\ V!ClosedEnd(seenCli[c]) = ClosedEnd(cli[c])
    BY <1>1, <2>1 DEF KernelType, CliType, EndType, ClosedEnd, V!ClosedEnd
  <2> QED
    BY <1>1, <1>5, <2>1, <2>2 DEF V!Backlog, KernelType
<1>7. V!TurnedAway(c)
  BY <1>1, <1>2, <1>3, <1>4, <1>5, <1>6 DEF V!TurnedAway, loopVars, V!loopVars, V!tables
<1>8. V!Forwarding'
  BY <1>1, <1>7, V!TurnedAwayForwarding, ConnAssumption, FdAssumption, BoundAssumption
<1> QED
  BY <1>3, <1>8, LeaveHook

\* A command fails: the exception takes the tables with it, and their descriptors.
LEMMA Throwing ==
  ASSUME ~Stage("none"), V!Forwarding, Hooked, HookThrows
  PROVE  Stage("none")' /\ pc' = "stopped" /\ FdOwnership' /\ LiveBackends' = {}
<1>1. /\ pc' = "stopped" /\ wake' = NoWake
      /\ clients' = [fd \in Fd |-> NoClient] /\ backends' = [fd \in Fd |-> NoBackend]
      /\ Close((Live(clients) \cup {BackendFd(fd) : fd \in LiveBackends}) \ {NB!NoFd})
  BY DEF HookThrows
<1>2. /\ TablesType /\ KernelType /\ SocketsMade
      /\ \A fd \in Fd : \A c \in Conn : sock[fd] = Socket("client", c) => ConnOf(fd) = c
      /\ \A fd \in Fd : \A c \in Conn :
           sock[fd] = Socket("backend", c) => \E f \in LiveBackends : BackendFd(f) = fd
  BY HookOwners DEF Hooked, WakeOwnership
<1>3. FdOwnership' /\ LiveBackends' = {}
  BY <1>1, <1>2, CloseAll
<1> QED
  BY <1>1, <1>3 DEF Stage, NoWake

-----------------------------------------------------------------------------
(* The steps.                                                              *)

\* Outside the hook.
LEMMA OutsideNext ==
  ASSUME Stage("none"), Forwarding, WolNext
  PROVE  WolAlive'
<1>1. CASE WolLoop \/ HostBoots \/ HostFails \/ ((stop \/ Environment) /\ UNCHANGED wol)
  <2>1. Stage("none")' /\ [Next]_vars
    <3>1. CASE WolLoop
      BY <3>1 DEF WolLoop, wol, Stage, Next, Loop, acceptClients
    <3>2. CASE HostBoots \/ HostFails
      BY <3>2 DEF HostBoots, HostFails, Stage
    <3>3. CASE (stop \/ Environment) /\ UNCHANGED wol
      BY <3>3 DEF wol, Stage, Next
    <3> QED
      BY <1>1, <3>1, <3>2, <3>3
  <2> QED
    BY <2>1, ForwardingNext DEF WolAlive
<1>2. ASSUME NEW c \in Conn, WolAccept(c) PROVE WolAlive'
  BY <1>2, Accepting DEF WolAccept, WolAlive
<1>3. ~Hook
  BY DEF Hook, Ping, WolPing, Packet, Startup, HookThrows, Health, Refuse, Connect, Stage
<1> QED
  BY <1>1, <1>2, <1>3 DEF WolNext

\* In the hook.
LEMMA InsideNext ==
  ASSUME ~Stage("none"), V!Forwarding, Hooked, WakeType, WolNext
  PROVE  WolAlive'
<1>1. CASE Ping \/ WolPing \/ Packet \/ Startup \/ Health \/ HostBoots \/ HostFails
  <2>1. UNCHANGED vars
    BY <1>1 DEF Ping, WolPing, Packet, Startup, Health, InHook, HostBoots, HostFails
  <2>2. wake'.fd = wake.fd /\ wake'.at # "none"
    BY <1>1 DEF Ping, WolPing, Packet, Startup, Health, HostBoots, HostFails, AfterWake, WolCall,
      WakeType, Stage
  <2> QED
    BY <2>1, <2>2, HookGoesOn DEF WolAlive
<1>2. CASE (stop \/ Environment) /\ UNCHANGED wol
  BY <1>2, HookEnvironment DEF wol, WolAlive
<1>3. CASE Connect \/ Refuse
  BY <1>3, Connecting, Refusing DEF WolAlive
<1>4. CASE HookThrows
  BY <1>4, Throwing DEF WolAlive
<1>5. ~WolLoop /\ \A c \in Conn : ~WolAccept(c)
  BY DEF WolLoop, WolAccept, Accepted
<1> QED
  BY <1>1, <1>2, <1>3, <1>4, <1>5 DEF WolNext, Hook

\* After the end.
LEMMA StoppedKeeps ==
  ASSUME Stage("none"), pc = "stopped", [WolNext]_wolVars
  PROVE  UNCHANGED <<pc, clients, backends, sock, wake>>
<1>1. ~WolLoop
  <2>1. \A fd \in Fd : ~processBackends(fd) /\ ~processClients(fd)
    BY TurnPlace
  <2> QED
    BY <2>1 DEF WolLoop, Select, Tick, AcceptDone, BackendsDone, ClientsDone, Cleanup, AcceptDenied
<1>2. ~Hook /\ \A c \in Conn : ~WolAccept(c)
  BY DEF Hook, Ping, WolPing, Packet, Startup, HookThrows, Health, Refuse, Connect, Stage, WolAccept
<1>3. CASE UNCHANGED wolVars
  BY <1>3 DEF wolVars, vars, wol, loopVars, tables, kernel
<1>4. CASE HostBoots \/ HostFails \/ ((stop \/ Environment) /\ UNCHANGED wol)
  BY <1>4 DEF HostBoots, HostFails, vars, wol, stop, Environment, ClientConnects,
    ClientSends, ClientCloses, BackendAnswers, BackendSends, BackendEnds, loopVars, tables, kernel
<1> QED
  BY <1>1, <1>2, <1>3, <1>4 DEF WolNext

LEMMA StoppedNext ==
  ASSUME Stage("none"), pc = "stopped", FdOwnership, LiveBackends = {}, [WolNext]_wolVars
  PROVE  WolAlive'
<1>1. UNCHANGED <<pc, clients, backends, sock, wake>>
  BY StoppedKeeps
<1>2. LiveBackends' = LiveBackends /\ FreeFds' = FreeFds
  BY <1>1 DEF LiveBackends, FreeFds
<1> QED
  BY <1>1, <1>2 DEF WolAlive, FdOwnership, ConnOf, BackendFd, Stage

LEMMA WakeNext ==
  ASSUME WakeType, SilenceSeen, [WolNext]_wolVars PROVE WakeType' /\ SilenceSeen'
<1>1. /\ Retry \in Nat /\ HealthRetry \in Nat /\ wake.tries \in Nat
      /\ wake.fd \in Fd \cup {NB!NoFd}
  BY RetryAssumption DEF WakeType
<1>2. CASE UNCHANGED wol
  BY <1>2 DEF wol, WakeType, SilenceSeen
<1>3. CASE HostBoots \/ HostFails
  BY <1>3 DEF HostBoots, HostFails, WakeType, SilenceSeen
<1> DEFINE Stages == {"none", "ping", "wol", "packet", "ssh", "health", "admit"}
           Wakes == [at : Stages, fd : Fd \cup {NB!NoFd}, tries : Nat]
<1>4. ASSUME NEW at \in Stages, NEW n \in Nat
      PROVE  /\ [wake EXCEPT !.at = at, !.tries = n] \in Wakes
             /\ [wake EXCEPT !.at = at, !.tries = n].at = at
             /\ [wake EXCEPT !.at = at] = [wake EXCEPT !.at = at, !.tries = wake.tries]
  BY DEF WakeType
<1>5. ASSUME NEW at \in Stages, NEW n \in Nat, UNCHANGED <<kind, host>>,
              wake' = [wake EXCEPT !.at = at, !.tries = n], silence' \in BOOLEAN,
              host = "down" \/ at \in {"wol", "packet", "ssh"} => silence' = TRUE
       PROVE  WakeType' /\ SilenceSeen'
  BY <1>4, <1>5, ZenonT(40) DEF WakeType, SilenceSeen
<1>6. /\ \/ AfterWake = [wake EXCEPT !.at = "health", !.tries = HealthRetry]
         \/ AfterWake = [wake EXCEPT !.at = "admit", !.tries = 0]
      /\ WolCall = [wake EXCEPT !.at = "wol", !.tries = Retry]
  BY DEF AfterWake, WolCall, WakeType
<1>7. CASE Ping \/ WolPing
  <2>1. /\ UNCHANGED <<kind, host>> /\ silence' \in BOOLEAN
        /\ wake.at = "wol" => silence' = TRUE
        /\ host = "down" => silence' = TRUE
    BY <1>7 DEF Ping, WolPing, Answered, Unanswered, InHook, WakeType, SilenceSeen
  <2>2. \/ wake' = AfterWake
        \/ wake' = WolCall /\ silence' = TRUE
        \/ wake' = [wake EXCEPT !.at = "packet"] /\ wake.at = "wol"
        \/ wake' = [wake EXCEPT !.at = "ssh"] /\ wake.at = "wol"
    BY <1>7, <2>1 DEF Ping, WolPing, Unanswered, Stage
  <2>3. \E at \in Stages, n \in Nat :
          /\ wake' = [wake EXCEPT !.at = at, !.tries = n]
          /\ at \in {"wol", "packet", "ssh"} => silence' = TRUE
    <3>1. CASE wake' = AfterWake
      BY <1>1, <1>6, <3>1
    <3>2. CASE wake' = WolCall /\ silence' = TRUE
      BY <1>1, <1>6, <2>1, <3>2
    <3>3. CASE wake' = [wake EXCEPT !.at = "packet"] /\ wake.at = "wol"
      BY <1>1, <1>4, <2>1, <3>3
    <3>4. CASE wake' = [wake EXCEPT !.at = "ssh"] /\ wake.at = "wol"
      BY <1>1, <1>4, <2>1, <3>4
    <3> QED
      BY <2>2, <3>1, <3>2, <3>3, <3>4
  <2> QED
    BY <1>5, <2>1, <2>3
<1>8. CASE Packet \/ Startup \/ Health
  <2>1. /\ UNCHANGED <<kind, host>> /\ silence' \in BOOLEAN
        /\ host = "down" => silence' = TRUE
        /\ wake.at = "packet" => silence' = TRUE
    BY <1>8 DEF Packet, Startup, Health, InHook, Stage, WakeType, SilenceSeen
  <2>2. \/ wake' = AfterWake
        \/ /\ wake' = [wake EXCEPT !.at = "wol", !.tries = wake.tries - 1]
           /\ wake.at = "packet" /\ wake.tries # 0
        \/ wake' = [wake EXCEPT !.at = "admit", !.tries = 0]
        \/ /\ wake' = [wake EXCEPT !.tries = wake.tries - 1]
           /\ wake.at = "health" /\ wake.tries > 0
    BY <1>8 DEF Packet, Startup, Health, Stage
  <2>3. \E at \in Stages, n \in Nat :
          /\ wake' = [wake EXCEPT !.at = at, !.tries = n]
          /\ at \in {"wol", "packet", "ssh"} => silence' = TRUE
    <3>1. CASE wake' = AfterWake
      BY <1>1, <1>6, <3>1
    <3>2. CASE /\ wake' = [wake EXCEPT !.at = "wol", !.tries = wake.tries - 1]
               /\ wake.at = "packet" /\ wake.tries # 0
      <4>1. wake.tries - 1 \in Nat /\ "wol" \in Stages
        BY <1>1, <3>2
      <4> QED
        BY <2>1, <3>2, <4>1
    <3>3. CASE wake' = [wake EXCEPT !.at = "admit", !.tries = 0]
      BY <3>3
    <3>4. CASE /\ wake' = [wake EXCEPT !.tries = wake.tries - 1]
               /\ wake.at = "health" /\ wake.tries > 0
      <4>1. wake.tries - 1 \in Nat /\ "health" \in Stages
        BY <1>1, <3>4
      <4>2. wake' = [wake EXCEPT !.at = "health", !.tries = wake.tries - 1]
        BY <3>4 DEF WakeType
      <4> QED
        BY <4>1, <4>2
    <3> QED
      BY <2>2, <3>1, <3>2, <3>3, <3>4
  <2> QED
    BY <1>5, <2>1, <2>3
<1>9. CASE HookThrows \/ Refuse \/ Connect
  BY <1>9 DEF HookThrows, Refuse, Connect, NoWake, WakeType, SilenceSeen
<1>10. ASSUME NEW c \in Conn, WolAccept(c) PROVE WakeType' /\ SilenceSeen'
  BY <1>10 DEF WolAccept, Accepted, FreeFds, WakeType, SilenceSeen
<1>11. CASE UNCHANGED wolVars
  BY <1>2, <1>11 DEF wolVars
<1> QED
  BY <1>2, <1>3, <1>7, <1>8, <1>9, <1>10, <1>11 DEF WolNext, WolLoop, Hook

LEMMA WolAliveNext == ASSUME WolAlive, WakeType, [WolNext]_wolVars PROVE WolAlive'
<1>1. CASE WolNext
  BY <1>1, OutsideNext, InsideNext, StoppedNext DEF WolAlive
<1>2. CASE UNCHANGED wolVars
  <2>1. UNCHANGED <<vars, wake>>
    BY <1>2 DEF wolVars, wol
  <2>2. Stage("none") <=> Stage("none")'
    BY <2>1 DEF Stage
  <2>3. CASE Stage("none") /\ Forwarding
    BY <2>1, <2>2, <2>3, ForwardingNext DEF WolAlive
  <2>4. CASE ~Stage("none") /\ V!Forwarding /\ Hooked
    BY <2>1, <2>4, HookGoesOn DEF WolAlive, Stage
  <2>5. CASE Stage("none") /\ pc = "stopped" /\ FdOwnership /\ LiveBackends = {}
    BY <1>2, <2>5, StoppedNext
  <2> QED
    BY <2>3, <2>4, <2>5 DEF WolAlive
<1> QED
  BY <1>1, <1>2

LEMMA AlwaysWolInv == WolSpec => []WolInv
<1>1. WolInit => WolInv
  <2> SUFFICES ASSUME WolInit PROVE WolInv
    OBVIOUS
  <2>1. WolAlive
    BY InitForwarding DEF WolInit, WolAlive, Stage, NoWake
  <2>2. WakeType /\ SilenceSeen
    BY KindAssumption DEF WolInit, NoWake, WakeType, SilenceSeen
  <2> QED
    BY <2>1, <2>2 DEF WolInv
<1>2. WolInv /\ [WolNext]_wolVars => WolInv'
  BY WolAliveNext, WakeNext DEF WolInv
<1> QED
  BY <1>1, <1>2, PTL DEF WolSpec

-----------------------------------------------------------------------------
(* The theorems.                                                           *)

\* Every descriptor has its owner and every entry its descriptor, also while a
\* hook runs, after one that closed its client inside the accept loop, and after
\* one that threw (src/examples/llamacpp-wol-proxy/LlamaCppWolProxy.hpp:29-50,
\* src/examples/wol-proxy/WolProxy.hpp:23-36, src/TcpServer.hpp:181-216).
THEOREM WolDescriptorsOwned == WolSpec => []WakeOwnership
<1>1. WolInv => WakeOwnership
  BY HookOwners DEF WolInv, WolAlive, WakeOwnership, Forwarding, IInv
<1> QED
  BY <1>1, AlwaysWolInv, PTL

\* However long a hook holds up the loop, and whatever the peers do meanwhile: the
\* streams stay whole and apart, and what select() reported before the wait still
\* holds after it (src/TcpServer.hpp:140-165, src/TcpProxy.hpp:177-231).
THEOREM WolForwards == WolSpec => [](UpstreamFifo /\ DownstreamFifo /\ ReportedIsReady)
<1>1. ASSUME Stage("none"), Forwarding PROVE UpstreamFifo /\ DownstreamFifo /\ ReportedIsReady
  BY <1>1, SessionsWhole, ReportsReady DEF Forwarding
<1>2. ASSUME pc = "stopped", FdOwnership, LiveBackends = {}
      PROVE  UpstreamFifo /\ DownstreamFifo /\ ReportedIsReady
  BY <1>2 DEF FdOwnership, UpstreamFifo, DownstreamFifo, ReportedIsReady
<1>3. ASSUME ~Stage("none"), V!Forwarding, Hooked
      PROVE  UpstreamFifo /\ DownstreamFifo /\ ReportedIsReady
  <2> DEFINE c == ConnOf(wake.fd)
  <2>1. V!UpstreamFifo /\ V!DownstreamFifo
    BY <1>3, V!SessionsWhole, ConnAssumption, FdAssumption, BoundAssumption DEF V!Forwarding
  <2>2. /\ Live(clients) = LiveBackends \cup {wake.fd} /\ wake.fd \notin LiveBackends
        /\ BackendFd(wake.fd) = NB!NoFd /\ V!LiveBackends = LiveBackends /\ WakeOwnership
    BY <1>3, HookOwners
  <2>3. /\ wake.fd \in Fd /\ c \in Conn /\ TablesType /\ KernelType /\ pc = "accept"
        /\ clients[wake.fd] = NewClient(c)
    BY <1>3, ConnAssumption DEF Hooked
  <2>4. /\ \A d \in Conn : seenCli[d].read = cli[d].read /\ seenCli[d].out = cli[d].out
        /\ seenCli[c].at = "queued"
        /\ \A f \in LiveBackends : f \in Fd /\ seenClients[f] = clients[f]
    BY <1>3, <2>2, <2>3 DEF seenCli, seenClients, KernelType, TablesType, CliType, EndType,
      LiveBackends
  <2>5. /\ V!NB!NoFd = NB!NoFd /\ \A d, dir, from, to : V!Stream(d, dir, from, to) = Stream(d, dir, from, to)
        /\ \A f \in LiveBackends : V!ConnOf(f) = ConnOf(f) /\ V!BackendFd(f) = BackendFd(f)
    BY <2>4 DEF V!NB!NoFd, NB!NoFd, V!Stream, Stream, V!ConnOf, ConnOf, V!BackendFd, BackendFd
  <2>6. \A f \in LiveBackends : backends[f].clientAddr \in Conn /\ ConnOf(f) \in Conn
    BY <1>3, <2>2, <2>3 DEF WakeOwnership, LiveBackends, TablesType, BackendType
  <2>7. UpstreamFifo
    BY <2>1, <2>2, <2>4, <2>5, <2>6 DEF UpstreamFifo, V!UpstreamFifo
  <2>8. DownstreamFifo
    <3>1. V!Live(seenClients) = LiveBackends
      BY <1>3, <2>2 DEF V!Forwarding, V!IInv, V!FdOwnership
    <3>2. cli[c].out = <<>>
      BY <1>3, <2>3, <2>4 DEF V!Forwarding, V!SessionInv, V!Untouched
    <3>3. clients[wake.fd].sendQueue = <<>>
      BY <2>3 DEF NewClient
    <3>4. <<>> = Stream(c, "down", 0, Len(<<>>)) /\ <<>> \o <<>> = <<>>
      BY <2>3, StreamZero
    <3>5. ASSUME NEW f \in LiveBackends
          PROVE  LET all == cli[ConnOf(f)].out \o clients[f].sendQueue
                 IN  /\ all = Stream(ConnOf(f), "down", 0, Len(all))
                     /\ BackendFd(f) # NB!NoFd => Len(all) = srv[ConnOf(f)].read
      BY <2>1, <2>4, <2>5, <2>6, <3>1 DEF V!DownstreamFifo
    <3> QED
      BY <2>2, <3>2, <3>3, <3>4, <3>5 DEF DownstreamFifo
  <2> QED
    BY <2>3, <2>7, <2>8 DEF ReportedIsReady
<1>4. WolInv => UpstreamFifo /\ DownstreamFifo /\ ReportedIsReady
  BY <1>1, <1>2, <1>3 DEF WolInv, WolAlive
<1> QED
  BY <1>4, AlwaysWolInv, PTL

\* A descriptor that a hook, or the accept() after one, hands out is in neither set
\* of the running pass, though the hook may have closed one since select()
\* (src/TcpProxy.hpp:154-168,
\* src/examples/llamacpp-wol-proxy/LlamaCppWolProxy.hpp:43-47).
THEOREM WolNoStaleReadiness == WolSpec => ReadinessIsFresh
<1>1. ASSUME WolInv, [WolNext]_wolVars
      PROVE  [\A fd \in Fd : sock[fd] = Free /\ sock'[fd] # Free
                => fd \notin readSet \cup writeSet]_vars
  <2> SUFFICES ASSUME NEW fd \in Fd, sock[fd] = Free, sock'[fd] # Free
               PROVE  fd \notin readSet \cup writeSet
    OBVIOUS
  <2>1. sock' # sock
    OBVIOUS
  <2>2. \A S, ends : ~CloseWith(S, ends)
    BY CloseKeepsFree
  <2>3. CASE Stage("none") /\ Forwarding
    <3>1. [Next]_vars => pc = "accept"
      BY OnlyAcceptOpens
    <3>2. pc = "accept"
      <4>1. CASE \E c \in Conn : WolAccept(c)
        BY <4>1 DEF WolAccept
      <4>2. CASE WolLoop \/ ((stop \/ Environment) /\ UNCHANGED wol)
        BY <3>1, <4>2 DEF WolLoop, Next, Loop, acceptClients
      <4>3. ~Hook
        BY <2>3 DEF Hook, Ping, WolPing, Packet, Startup, HookThrows, Health, Refuse, Connect,
          Stage
      <4>4. ~HostBoots /\ ~HostFails /\ ~UNCHANGED wolVars
        BY <2>1 DEF HostBoots, HostFails, wolVars, vars, kernel
      <4> QED
        BY <1>1, <4>1, <4>2, <4>3, <4>4 DEF WolNext
    <3> QED
      BY <2>3, <3>2 DEF Forwarding, ReportedOpen
  <2>4. CASE ~Stage("none") /\ V!Forwarding /\ Hooked
    <3>1. fd # wake.fd /\ pc = "accept" /\ KernelType /\ wake.fd \in Fd
      BY <2>4 DEF Hooked, Socket, Free
    <3>2. seenSock[fd] = V!Free
      BY <2>4, <3>1 DEF seenSock, KernelType, Free, V!Free
    <3> QED
      BY <2>4, <3>1, <3>2 DEF V!Forwarding, V!ReportedOpen
  <2>5. CASE Stage("none") /\ pc = "stopped" /\ FdOwnership /\ LiveBackends = {}
    <3>1. FreeFds = Fd
      BY <2>5 DEF FdOwnership
    <3>2. UNCHANGED sock
      BY <1>1, <2>5, StoppedKeeps
    <3> QED
      BY <2>1, <3>2
  <2> QED
    BY <1>1, <2>3, <2>4, <2>5 DEF WolInv, WolAlive
<1> QED
  BY <1>1, AlwaysWolInv, PTL DEF WolSpec, ReadinessIsFresh

\* Whatever the host, the replies to pings and the commands do, and however many
\* clients come, the startup command is not given again to a host that has stayed up
\* and answered every ping since the last one: wol() returns true for such a host
\* too, but the caller's own ping comes first
\* (src/examples/wol-proxy/WolProxy.hpp:25-33, src/wol.hpp:23-38).
THEOREM StartsAfterSilence == WolSpec => StartupOnlyAfterSilence
<1>1. WolInv => (Startup => silence)
  BY DEF WolInv, SilenceSeen, Startup, Stage
<1> QED
  BY <1>1, AlwaysWolInv, PTL DEF WolSpec, StartupOnlyAfterSilence
=============================================================================
