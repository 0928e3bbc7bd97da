------------------------------- MODULE ZzzProxy -------------------------------
(***************************************************************************)
(* ZzzProxy (src/examples/zzz-proxy/ZzzProxy.hpp): a TcpProxy that starts  *)
(* the backend server when a client connects and stops it when the clients *)
(* have been quiet for too long.  Its hooks run inside the steps of the    *)
(* event loop, so each action here is a step of TcpProxy together with     *)
(* what the hook it calls does.  The start and stop commands are external: *)
(* they succeed, or fail and make exec() throw, which nothing between the  *)
(* hook and main() catches.  stop() and the end of the loop are those of   *)
(* TcpProxy and left out here.                                             *)
(***************************************************************************)
EXTENDS TcpProxy

CONSTANTS
  IdleTimeout,   \* idleTimeoutSec; the clock's unit is free
  CommandsFail   \* whether the start and stop commands may fail

\* ZzzProxyApplication.hpp:44-45 admits positive timeouts only.
ASSUME TimeoutAssumption == IdleTimeout \in Nat \ {0} /\ CommandsFail \in BOOLEAN

VARIABLES
  idle,    \* now - lastActivityTime, up to IdleTimeout + 1; NoActivity for 0
  backendFailureDetected,
  power,   \* the server itself: "on" or "off"
  quiet    \* history: time since a client did anything the hooks see

zzz == <<idle, backendFailureDetected, power, quiet>>
allVars == <<vars, zzz>>

NoActivity == -1

ZzzInit ==
  /\ Init
  /\ idle = NoActivity
  /\ backendFailureDetected = FALSE
  /\ power = "off"
  /\ quiet = 0

-----------------------------------------------------------------------------

\* Mutated form: a detected failure does not count.
isServerOnDespiteFailure == idle # NoActivity

isServerOn == ~backendFailureDetected /\ idle # NoActivity

isIdleTimeouts == isServerOn /\ idle > IdleTimeout

\* The flag is the one the handler leaves: each hook updates the time last.
updateActivityTime == idle' = IF backendFailureDetected' THEN idle ELSE 0

\* An event of a client: the history variable follows every one of them.
ClientActive == quiet' = 0 /\ updateActivityTime

\* exec() throws: the exception leaves listen(), and the process ends.
ProxyDies ==
  /\ CommandsFail
  /\ pc' = "dead"
  /\ clients' = [fd \in Fd |-> NoClient]
  /\ backends' = [fd \in Fd |-> NoBackend]
  /\ Close((Live(clients) \cup {BackendFd(fd) : fd \in LiveBackends}) \ {NB!NoFd})
  /\ UNCHANGED <<running, readSet, writeSet, todo, cur, zzz>>

-----------------------------------------------------------------------------
(* The loop with its hooks.                                                *)

\* onTick() with nothing to stop.
ZzzTick ==
  /\ Tick
  /\ ~isIdleTimeouts
  /\ UNCHANGED zzz

\* Mutated form: lastActivityTime is left as it is.
TurnServerOffKeepsTime ==
  /\ Tick
  /\ isIdleTimeouts
  /\ power' = "off"
  /\ backendFailureDetected' = FALSE
  /\ UNCHANGED <<idle, quiet>>

\* onTick() calls turnServerOff() and the stop command succeeds.
TurnServerOff ==
  /\ Tick
  /\ isIdleTimeouts
  /\ power' = "off"
  /\ backendFailureDetected' = FALSE
  /\ idle' = NoActivity
  /\ UNCHANGED <<quiet>>

TurnServerOffFails == pc = "tick" /\ isIdleTimeouts /\ ProxyDies

\* onClientConnect() with the server on.
AcceptWhileOn(c) ==
  /\ AcceptClient(c)
  /\ isServerOn
  /\ power = "off" => srv'[c].peer # "up"
  /\ UNCHANGED <<backendFailureDetected, power>>
  /\ ClientActive

\* onClientConnect() calls turnServerOn() first and the start command succeeds.
TurnServerOn(c) ==
  /\ AcceptClient(c)
  /\ ~isServerOn
  /\ power' = "on"
  /\ backendFailureDetected' = FALSE
  /\ ClientActive

TurnServerOnFails(c) ==
  pc = "accept" /\ c \in Backlog \cap Allowed /\ FreeFds # {} /\ ~isServerOn /\ ProxyDies

\* accept() failing for want of descriptors goes through onClientError().
ZzzAcceptDone ==
  /\ AcceptDone
  /\ IF Backlog = {} THEN UNCHANGED idle
     ELSE backendFailureDetected' = backendFailureDetected /\ updateActivityTime
  /\ UNCHANGED <<backendFailureDetected, power, quiet>>

\* onBackendConnectionFailed() or onBackendDisconnected(), and, if the client goes
\* too, an onClientDisconnect() whose update the flag holds back.
FailureDetected(fd) ==
  /\ BackendFailed(fd) \/ BackendCloses(fd)
  /\ backendFailureDetected' = TRUE
  /\ updateActivityTime
  /\ UNCHANGED <<power, quiet>>

\* Mutated form: data from a client is not activity.
ZzzClientReadsUnnoticed(fd) ==
  /\ ClientReads(fd)
  /\ quiet' = 0
  /\ UNCHANGED <<idle, backendFailureDetected, power>>

\* onRawData()
ZzzClientReads(fd) ==
  /\ ClientReads(fd)
  /\ UNCHANGED <<backendFailureDetected, power>>
  /\ ClientActive

\* onClientDisconnect(), possibly after onClientError()
ZzzClientEnds(fd) ==
  /\ ClientReadEnds(fd) \/ ClientWriteFails(fd)
  /\ UNCHANGED <<backendFailureDetected, power>>
  /\ ClientActive

\* Only the write that empties the queue of a closing client reaches a hook.
ZzzClientWrites(fd) ==
  /\ ClientWrites(fd)
  /\ UNCHANGED <<backendFailureDetected, power>>
  /\ IF fd \in Live(clients)' THEN UNCHANGED <<idle, quiet>> ELSE ClientActive

\* Steps without a hook of this class.
Unhooked ==
  /\ \/ Select \/ BackendsDone \/ ClientsDone
     \/ \E c \in Conn : AcceptDenied(c)
     \/ \E fd \in Fd : \/ BackendConnected(fd) \/ BackendWrites(fd)
                       \/ BackendWriteFails(fd) \/ BackendReads(fd)
                       \/ BackendReadFails(fd)
  /\ UNCHANGED zzz

ZzzLoop ==
  \/ Unhooked
  \/ ZzzTick \/ TurnServerOff \/ TurnServerOffFails
  \/ ZzzAcceptDone
  \/ \E c \in Conn : AcceptWhileOn(c) \/ TurnServerOn(c) \/ TurnServerOnFails(c)
  \/ \E fd \in Fd : \/ FailureDetected(fd) \/ ZzzClientReads(fd)
                    \/ ZzzClientEnds(fd) \/ ZzzClientWrites(fd)

\* Time passes while select() waits; elsewhere it would make no difference, for
\* the hooks set idle to 0 or leave it, and only onTick() reads it.
Clock ==
  LET later(t) == IF t = NoActivity \/ t > IdleTimeout THEN t ELSE t + 1
  IN  /\ pc = "select"
      /\ idle' = later(idle) /\ quiet' = later(quiet)
      /\ UNCHANGED <<vars, backendFailureDetected, power>>

\* Nobody listens on a server that is off.
ZzzEnvironment ==
  /\ pc # "dead"
  /\ Environment
  /\ power = "off" => \A c \in Conn : srv[c].peer = "syn" => srv'[c].peer # "up"
  /\ UNCHANGED zzz

ZzzNext == ZzzLoop \/ Clock \/ ZzzEnvironment

ZzzSpec == ZzzInit /\ [][ZzzNext]_allVars

\* The loop runs, and its iterations, however short, take time: the clock passes
\* every value.
ZzzFairSpec == ZzzSpec /\ WF_allVars(ZzzLoop) /\ SF_allVars(Clock)

-----------------------------------------------------------------------------
(* Properties.                                                             *)

\* The stop command runs only after IdleTimeout without any client connecting,
\* sending or leaving: every such event has pushed the time on, also around a
\* failure, when updateActivityTime() does nothing (lines 139-142).  What the server
\* sends reaches no hook and does not count, and that a client is connected does not
\* either, where zzz-proxy/README.md:59, 82 and 262 say that it does.
StopOnlyAfterQuiet ==
  [][power = "on" /\ power' = "off" => quiet > IdleTimeout]_allVars

\* Once a failure is detected, nothing but a successful start command for a new
\* client clears the mark: no disconnect, data or tick in between makes the
\* server count as on again (lines 136-138), and it is not stopped meanwhile.
FailureSticks ==
  [][backendFailureDetected /\ ~backendFailureDetected'
       => pc = "accept" /\ power' = "on" /\ Live(clients) # Live(clients)']_allVars

\* A server that counts as on does not stay so without clients: it is stopped, or
\* the entry of a session that is over still finds it to have failed, or clients
\* come, or a failing command ends the proxy.
IdleServerIsStopped ==
  isServerOn /\ Live(clients) = {} ~> ~isServerOn \/ Live(clients) # {} \/ pc = "dead"

\* zzz-proxy/README.md:5: servers are started when clients connect.
ServerStartedForClient ==
  [][\A c \in Conn : cli[c].at = "queued" /\ cli'[c].at = "open" => power' = "on"]_allVars

\* zzz-proxy/README.md:5: servers are powered off when unused.
UnusedServerIsStopped ==
  power = "on" /\ Live(clients) = {} ~> power = "off" \/ Live(clients) # {}
=============================================================================
