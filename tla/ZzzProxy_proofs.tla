--------------------------- MODULE ZzzProxy_proofs ---------------------------
(***************************************************************************)
(* Proofs about ZzzProxy, for any number of connections, descriptors and   *)
(* bytes and any timeout: when the server is stopped, how long a detected  *)
(* failure counts, and that the hooks leave TcpProxy's guarantees alone.   *)
(***************************************************************************)
EXTENDS ZzzProxy, TcpProxy_proofs

-----------------------------------------------------------------------------
(* The inductive invariant.                                                *)

\* TcpProxy's own invariants, until a failing command ends the process.
ZzzAlive ==
  IF pc = "dead" THEN FdOwnership /\ LiveBackends = {} ELSE Forwarding

ZzzType ==
  /\ idle \in {NoActivity} \cup 0..(IdleTimeout + 1)
  /\ quiet \in 0..(IdleTimeout + 1)
  /\ backendFailureDetected \in BOOLEAN

\* While the mark is not set, the time onTick() goes by is not ahead of the time
\* the clients have really been quiet for.  With the mark set it may be, since
\* the hooks no longer push it on; the start that clears the mark resets it.
IdleFollowsQuiet == backendFailureDetected = FALSE => idle <= quiet

ZzzInv == ZzzAlive /\ ZzzType /\ IdleFollowsQuiet

-----------------------------------------------------------------------------
(* The steps.                                                              *)

\* With its hooks, a step is one of TcpProxy, a tick of the clock or the end.
LEMMA ZzzSteps ==
  ASSUME ZzzNext
  PROVE  /\ pc # "dead"
         /\ Next \/ UNCHANGED vars \/ ProxyDies
<1>1. CASE Unhooked
  <2>1. \/ Select \/ BackendsDone \/ ClientsDone
        \/ \E c \in Conn : AcceptDenied(c)
        \/ \E fd \in Fd : processBackends(fd)
    BY <1>1 DEF Unhooked, processBackends
  <2>2. \A fd \in Fd : processBackends(fd) => pc # "dead"
    BY TurnPlace
  <2> QED
    BY <2>1, <2>2 DEF Next, Loop, acceptClients, Select, BackendsDone, ClientsDone, AcceptDenied
<1>2. CASE ZzzTick \/ TurnServerOff \/ TurnServerOffFails
  BY <1>2 DEF ZzzTick, TurnServerOff, TurnServerOffFails, Tick, Next, Loop
<1>3. CASE \/ ZzzAcceptDone
           \/ \E c \in Conn : AcceptWhileOn(c) \/ TurnServerOn(c) \/ TurnServerOnFails(c)
  BY <1>3 DEF ZzzAcceptDone, AcceptWhileOn, TurnServerOn, TurnServerOnFails, AcceptDone,
    AcceptClient, Next, Loop, acceptClients
<1>4. ASSUME NEW fd \in Fd, \/ FailureDetected(fd) \/ ZzzClientReads(fd)
                            \/ ZzzClientEnds(fd) \/ ZzzClientWrites(fd)
      PROVE  pc # "dead" /\ Next
  <2>1. processBackends(fd) \/ processClients(fd)
    BY <1>4 DEF FailureDetected, ZzzClientReads, ZzzClientEnds, ZzzClientWrites, processBackends,
      processClients
  <2>2. pc # "dead"
    BY <2>1, TurnPlace
  <2> QED
    BY <2>1, <2>2 DEF Next, Loop
<1>5. CASE Clock \/ ZzzEnvironment
  BY <1>5 DEF Clock, ZzzEnvironment, Next
<1> QED
  BY <1>1, <1>2, <1>3, <1>4, <1>5 DEF ZzzNext, ZzzLoop

LEMMA StaysAlive == ASSUME Forwarding, [Next]_vars PROVE Forwarding' /\ pc' # "dead"
BY ForwardingNext DEF Forwarding, IInv, TypeOK

LEMMA DeathClosesAll ==
  ASSUME IInv, ProxyDies
  PROVE  pc' = "dead" /\ FdOwnership' /\ LiveBackends' = {}
<1>1. /\ clients' = [fd \in Fd |-> NoClient] /\ backends' = [fd \in Fd |-> NoBackend]
      /\ Close((Live(clients) \cup {BackendFd(fd) : fd \in LiveBackends}) \ {NB!NoFd})
      /\ pc' = "dead"
  BY DEF ProxyDies
<1>2. TablesType /\ KernelType /\ SocketsMade /\ FdOwnership
  BY TypeParts DEF IInv
<1> QED
  BY <1>1, <1>2, CloseAll DEF FdOwnership

LEMMA ZzzAliveNext == ASSUME ZzzAlive, [ZzzNext]_allVars PROVE ZzzAlive'
<1>1. CASE UNCHANGED allVars /\ pc = "dead"
  <2>1. UNCHANGED <<pc, clients, backends, sock>>
    BY <1>1 DEF allVars, vars, loopVars, tables, kernel
  <2>2. LiveBackends' = LiveBackends /\ FreeFds' = FreeFds
    BY <2>1 DEF LiveBackends, FreeFds
  <2> QED
    BY <1>1, <2>1, <2>2 DEF ZzzAlive, FdOwnership, ConnOf, BackendFd
<1>2. CASE UNCHANGED allVars /\ pc # "dead"
  BY <1>2, StaysAlive DEF ZzzAlive, allVars
<1>3. CASE ZzzNext
  <2>1. Forwarding
    BY <1>3, ZzzSteps DEF ZzzAlive
  <2>2. CASE ProxyDies
    BY <2>1, <2>2, DeathClosesAll DEF Forwarding, ZzzAlive
  <2>3. CASE [Next]_vars
    BY <2>1, <2>3, StaysAlive DEF ZzzAlive
  <2> QED
    BY <1>3, <2>2, <2>3, ZzzSteps
<1> QED
  BY <1>1, <1>2, <1>3

\* How a step moves the two clocks and the mark.
LEMMA ZzzClocks ==
  ASSUME ZzzNext, backendFailureDetected \in BOOLEAN
  PROVE  \/ UNCHANGED <<idle, quiet, backendFailureDetected>>
         \/ \* turnServerOff()
            idle' = NoActivity /\ quiet' = quiet /\ backendFailureDetected' = FALSE
         \/ \* a client's event, or a failing accept(), while the mark is not set
            idle' = 0 /\ quiet' \in {quiet, 0} /\ backendFailureDetected' = FALSE
         \/ \* an event while it is set, or the one that sets it
            idle' = idle /\ quiet' \in {quiet, 0} /\ backendFailureDetected' = TRUE
         \/ Clock
<1> DEFINE flag == backendFailureDetected
<1>1. CASE \/ Unhooked \/ ZzzTick \/ TurnServerOffFails \/ ZzzEnvironment \/ Clock
           \/ \E c \in Conn : TurnServerOnFails(c)
  BY <1>1 DEF Unhooked, ZzzTick, TurnServerOffFails, ZzzEnvironment, TurnServerOnFails,
    ProxyDies, zzz
<1>2. CASE TurnServerOff
  BY <1>2 DEF TurnServerOff
<1>3. ASSUME flag' \in BOOLEAN, updateActivityTime, quiet' \in {quiet, 0}
      PROVE  \/ idle' = 0 /\ quiet' \in {quiet, 0} /\ flag' = FALSE
             \/ idle' = idle /\ quiet' \in {quiet, 0} /\ flag' = TRUE
  BY <1>3, Zenon DEF updateActivityTime
<1>4. CASE ZzzAcceptDone
  BY <1>3, <1>4 DEF ZzzAcceptDone
<1>5. ASSUME NEW c \in Conn, AcceptWhileOn(c) \/ TurnServerOn(c)
      PROVE  flag' \in BOOLEAN /\ updateActivityTime /\ quiet' \in {quiet, 0}
  BY <1>5 DEF AcceptWhileOn, TurnServerOn, ClientActive
<1>6. ASSUME NEW fd \in Fd, FailureDetected(fd)
      PROVE  flag' \in BOOLEAN /\ updateActivityTime /\ quiet' \in {quiet, 0}
  BY <1>6 DEF FailureDetected
<1>7. ASSUME NEW fd \in Fd, ZzzClientReads(fd) \/ ZzzClientEnds(fd) \/ ZzzClientWrites(fd)
      PROVE  \/ UNCHANGED <<idle, quiet, flag>>
             \/ flag' \in BOOLEAN /\ updateActivityTime /\ quiet' \in {quiet, 0}
  BY <1>7 DEF ZzzClientReads, ZzzClientEnds, ZzzClientWrites, ClientActive
<1> QED
  BY <1>1, <1>2, <1>3, <1>4, <1>5, <1>6, <1>7 DEF ZzzNext, ZzzLoop

LEMMA ZzzClocksNext ==
  ASSUME ZzzType, IdleFollowsQuiet, [ZzzNext]_allVars PROVE (ZzzType /\ IdleFollowsQuiet)'
<1>1. IdleTimeout \in Nat /\ NoActivity = -1
  BY TimeoutAssumption DEF NoActivity
<1>2. CASE UNCHANGED allVars
  BY <1>2 DEF allVars, zzz, ZzzType, IdleFollowsQuiet
<1>3. CASE Clock
  <2> DEFINE later(t) == IF t = NoActivity \/ t > IdleTimeout THEN t ELSE t + 1
  <2>1. idle' = later(idle) /\ quiet' = later(quiet) /\ UNCHANGED backendFailureDetected
    BY <1>3 DEF Clock
  <2>2. ZzzType'
    BY <1>1, <2>1 DEF ZzzType
  <2>3. idle <= quiet => later(idle) <= later(quiet)
    BY <1>1 DEF ZzzType
  <2> QED
    BY <2>1, <2>2, <2>3 DEF IdleFollowsQuiet
<1>4. CASE ZzzNext /\ ~Clock
  <2>1. \/ UNCHANGED <<idle, quiet, backendFailureDetected>>
        \/ idle' = NoActivity /\ quiet' = quiet /\ backendFailureDetected' = FALSE
        \/ idle' = 0 /\ quiet' \in {quiet, 0} /\ backendFailureDetected' = FALSE
        \/ idle' = idle /\ quiet' \in {quiet, 0} /\ backendFailureDetected' = TRUE
    BY <1>4, ZzzClocks DEF ZzzType
  <2>2. /\ idle \in {NoActivity} \cup 0..(IdleTimeout + 1) /\ quiet \in 0..(IdleTimeout + 1)
        /\ NoActivity <= quiet /\ 0 <= quiet /\ 0 \in 0..(IdleTimeout + 1)
    BY <1>1 DEF ZzzType
  <2>3. /\ idle' \in {NoActivity} \cup 0..(IdleTimeout + 1) /\ quiet' \in 0..(IdleTimeout + 1)
        /\ backendFailureDetected' \in BOOLEAN
    BY <2>1, <2>2, Zenon DEF ZzzType
  <2>4. ZzzType'
    BY <2>3 DEF ZzzType
  <2>5. IdleFollowsQuiet'
    BY <1>1, <2>1, <2>2 DEF IdleFollowsQuiet
  <2> QED
    BY <2>4, <2>5
<1> QED
  BY <1>2, <1>3, <1>4

LEMMA AlwaysZzzInv == ZzzSpec => []ZzzInv
<1>1. ZzzInit => ZzzInv
  <2>1. ASSUME ZzzInit PROVE ZzzType /\ IdleFollowsQuiet
    <3>1. idle = -1 /\ quiet = 0 /\ backendFailureDetected = FALSE /\ IdleTimeout \in Nat
      BY <2>1, TimeoutAssumption DEF ZzzInit, NoActivity
    <3>2. 0 \in 0..(IdleTimeout + 1) /\ -1 <= 0
      BY <3>1
    <3>3. backendFailureDetected \in BOOLEAN
      BY <3>1
    <3> QED
      BY <3>1, <3>2, <3>3, Zenon DEF ZzzType, IdleFollowsQuiet, NoActivity
  <2>2. ASSUME ZzzInit PROVE Forwarding /\ pc # "dead"
    BY <2>2, InitForwarding DEF ZzzInit, Init
  <2> QED
    BY <2>1, <2>2 DEF ZzzInv, ZzzAlive
<1>2. ZzzInv /\ [ZzzNext]_allVars => ZzzInv'
  BY ZzzAliveNext, ZzzClocksNext DEF ZzzInv
<1> QED
  BY <1>1, <1>2, PTL DEF ZzzSpec

-----------------------------------------------------------------------------
(* The theorems.                                                           *)

\* The hooks, and the exception a failing command throws out of one of them, leave
\* no descriptor without its owner and no entry without its descriptor
\* (src/examples/zzz-proxy/ZzzProxy.hpp:33-135).
THEOREM ZzzDescriptorsOwned == ZzzSpec => []FdOwnership
<1>1. ZzzInv => FdOwnership
  BY DEF ZzzInv, ZzzAlive, Forwarding, IInv
<1> QED
  BY <1>1, AlwaysZzzInv, PTL

\* Whatever the timeout and however the events fall, the stop command runs only
\* after more than IdleTimeout without a client connecting, sending or leaving:
\* also when a failure was detected and cleared in between, during which
\* updateActivityTime() does nothing (src/examples/zzz-proxy/ZzzProxy.hpp:136-145).
THEOREM StopsOnlyAfterQuiet == ZzzSpec => StopOnlyAfterQuiet
<1>1. ASSUME ZzzInv, [ZzzNext]_allVars
      PROVE  [power = "on" /\ power' = "off" => quiet > IdleTimeout]_allVars
  <2>1. ASSUME ZzzNext, power = "on", power' = "off" PROVE TurnServerOff
    BY <2>1 DEF ZzzNext, ZzzLoop, Unhooked, ZzzTick, TurnServerOffFails, ProxyDies, ZzzAcceptDone,
      AcceptWhileOn, TurnServerOn, TurnServerOnFails, FailureDetected, ZzzClientReads,
      ZzzClientEnds, ZzzClientWrites, Clock, ZzzEnvironment, zzz
  <2>2. ASSUME TurnServerOff PROVE quiet > IdleTimeout
    <3>1. backendFailureDetected = FALSE /\ idle > IdleTimeout
      BY <1>1, <2>2, Zenon DEF TurnServerOff, isIdleTimeouts, isServerOn, ZzzInv, ZzzType
    <3>2. idle <= quiet /\ idle \in Int /\ quiet \in Int /\ IdleTimeout \in Int
      BY <1>1, <3>1, TimeoutAssumption DEF ZzzInv, ZzzType, IdleFollowsQuiet, NoActivity
    <3> QED
      BY <3>1, <3>2
  <2>3. CASE UNCHANGED allVars
    BY <2>3
  <2> QED
    BY <1>1, <2>1, <2>2, <2>3
<1> QED
  BY <1>1, AlwaysZzzInv, PTL DEF ZzzSpec, StopOnlyAfterQuiet

\* Once a failure is detected, only the start command for a client that is let in
\* at that moment clears the mark
\* (src/examples/zzz-proxy/ZzzProxy.hpp:37-48, 96-112, 136-142).
THEOREM FailuresStick == ZzzSpec => FailureSticks
<1>1. ASSUME ZzzInv, ZzzInv', [ZzzNext]_allVars
      PROVE  [backendFailureDetected /\ ~backendFailureDetected'
                => pc = "accept" /\ power' = "on" /\ Live(clients) # Live(clients)']_allVars
  <2> SUFFICES ASSUME ZzzNext, backendFailureDetected, ~backendFailureDetected'
               PROVE  pc = "accept" /\ power' = "on" /\ Live(clients) # Live(clients)'
    BY <1>1
  <2>1. \E c \in Conn : TurnServerOn(c)
    BY DEF ZzzNext, ZzzLoop, Unhooked, ZzzTick, TurnServerOff, isIdleTimeouts, isServerOn,
      TurnServerOffFails, ProxyDies, ZzzAcceptDone, AcceptWhileOn, TurnServerOnFails,
      FailureDetected, ZzzClientReads, ZzzClientEnds, ZzzClientWrites, Clock, ZzzEnvironment, zzz
  <2>2. PICK c \in Conn : TurnServerOn(c)
    BY <2>1
  <2>3. AcceptClient(c) /\ pc = "accept" /\ power' = "on"
    BY <2>2 DEF TurnServerOn, AcceptClient
  <2>4. Forwarding /\ Next
    BY <1>1, <2>3 DEF ZzzInv, ZzzAlive, Next, Loop, acceptClients
  <2>5. Live(clients) = LiveBackends /\ Live(clients)' = LiveBackends'
    BY <2>4, ForwardingNext DEF Forwarding, IInv, FdOwnership
  <2>6. PICK fd \in Fd : Admitted(fd, c)
    BY <2>3, <2>4, AdmitSession DEF Forwarding
  <2>7. fd \notin LiveBackends
    <3>1. \A g \in LiveBackends : ConnOf(g) # c
      BY <2>4, <2>6, SessionEntry DEF Forwarding, EntryOK, Admitted
    <3> QED
      BY <2>6, <3>1 DEF Admitted, ConnOf
  <2> QED
    BY <2>3, <2>5, <2>6, <2>7 DEF Admitted
<1> QED
  BY <1>1, AlwaysZzzInv, PTL DEF ZzzSpec, FailureSticks

\* What TcpProxy guarantees of the two streams and of select()'s reports holds
\* under the power management too (src/examples/zzz-proxy/ZzzProxy.hpp:25).
THEOREM ZzzForwards == ZzzSpec => [](UpstreamFifo /\ DownstreamFifo /\ ReportedIsReady)
<1>1. ASSUME ZzzInv, pc = "dead" PROVE UpstreamFifo /\ DownstreamFifo /\ ReportedIsReady
  BY <1>1 DEF ZzzInv, ZzzAlive, FdOwnership, UpstreamFifo, DownstreamFifo, ReportedIsReady
<1>2. ZzzInv => UpstreamFifo /\ DownstreamFifo /\ ReportedIsReady
  BY <1>1, SessionsWhole, ReportsReady DEF ZzzInv, ZzzAlive, Forwarding
<1> QED
  BY <1>2, AlwaysZzzInv, PTL
=============================================================================
