------------------------------- MODULE WolProxy -------------------------------
(***************************************************************************)
(* WolProxy (src/examples/wol-proxy/WolProxy.hpp) and LlamaCppWolProxy     *)
(* (src/examples/llamacpp-wol-proxy/LlamaCppWolProxy.hpp): a TcpProxy      *)
(* whose onClientConnect() wakes the backend host first, with wol() and    *)
(* wol_ready(), and makes every session wait while it does.                *)
(*                                                                         *)
(* The hook is in a stage of its own between two system calls or commands; *)
(* outside it the loop is TcpProxy's.  Peers and the host go on meanwhile. *)
(***************************************************************************)
EXTENDS TcpProxy

CONSTANTS
  Kinds,         \* the programs: does it check the model's health, has it a
                 \* startup command
  Retry,         \* the default of wol()'s parameter (20)
  HealthRetry,   \* healthRetry
  MaxOutages,    \* bound: times the host goes down
  CommandsFail   \* whether wakeonlan and ssh may fail while the host is up

ASSUME KindAssumption == Kinds \subseteq [llama : BOOLEAN, ssh : BOOLEAN]
ASSUME RetryAssumption ==
  Retry \in Nat /\ HealthRetry \in Nat /\ MaxOutages \in Nat /\ CommandsFail \in BOOLEAN

VARIABLES
  kind,     \* which program this is
  wake,     \* the hook: its stage, the client's descriptor, the tries left
  host,     \* "up" or "down"
  outages,  \* how often it went down
  silence   \* history: since the last startup command it was down, or left a ping
            \* unanswered

wol == <<kind, wake, host, outages, silence>>
wolVars == <<vars, wol>>

NoWake == [at |-> "none", fd |-> NB!NoFd, tries |-> 0]

WolInit ==
  /\ Init
  /\ kind \in Kinds
  /\ wake = NoWake
  /\ host = "down" /\ outages = 0 /\ silence = TRUE

-----------------------------------------------------------------------------
(* onClientConnect().                                                      *)

Stage(at) == wake.at = at
InHook == UNCHANGED <<vars, kind, host, outages>>

Accepted(c) ==
  /\ c \in Backlog \cap Allowed /\ Stage("none")
  /\ \E fd \in FreeFds :
       /\ IsLowest(fd, FreeFds)
       /\ clients' = [clients EXCEPT ![fd] = NewClient(c)]
       /\ sock' = [sock EXCEPT ![fd] = Socket("client", c)]
       /\ wake' = [at |-> "ping", fd |-> fd, tries |-> 0]
  /\ cli' = [cli EXCEPT ![c].at = "open"]
  /\ UNCHANGED <<running, loopVars, backends, srv, kind, host, outages, silence>>

\* Mutated form: acceptClients() also runs after processBackends().
WolAcceptLate(c) == pc \in {"accept", "clients"} /\ Accepted(c)

\* accept(), up to the call of the hook.
WolAccept(c) == pc = "accept" /\ Accepted(c)

\* What follows when the host has been seen to, one way or another.
AfterWake == [wake EXCEPT !.at = IF kind.llama THEN "health" ELSE "admit",
                          !.tries = IF kind.llama THEN HealthRetry ELSE 0]

WolCall == [wake EXCEPT !.at = "wol", !.tries = Retry]

\* ping(): one request, and a second for the reply.  A host that is down gives none;
\* one that is up may be too late, and the request or the reply may be lost.
Answered == host = "up" /\ UNCHANGED silence
Unanswered == silence' = TRUE

\* Mutated form: wol() is left to find out whether the host is up, as its comment
\* (wol.hpp:10) promises.
PingAlwaysWakes ==
  /\ Stage("ping")
  /\ wake' = WolCall
  /\ InHook /\ UNCHANGED silence

Ping ==
  /\ Stage("ping")
  /\ \/ Answered /\ wake' = AfterWake
     \/ Unanswered /\ wake' = WolCall
  /\ InHook

\* The condition of the loop of wol(); when it ends the loop wol() is true.
WolPing ==
  /\ Stage("wol")
  /\ \/ Answered /\ wake' = IF kind.ssh THEN [wake EXCEPT !.at = "ssh"] ELSE AfterWake
     \/ Unanswered /\ wake' = [wake EXCEPT !.at = "packet"]
  /\ InHook

\* Mutated form: the tries are not counted.
PacketKeepsRetry ==
  /\ Stage("packet")
  /\ wake' = [wake EXCEPT !.at = "wol"]
  /\ InHook /\ UNCHANGED silence

\* The body of the loop: a packet, a pause, and false after Retry + 1 of them.
Packet ==
  /\ Stage("packet")
  /\ wake' = IF wake.tries = 0 THEN AfterWake
             ELSE [wake EXCEPT !.at = "wol", !.tries = @ - 1]
  /\ InHook /\ UNCHANGED silence

\* exec(ssh)
Startup ==
  /\ Stage("ssh") /\ host = "up"
  /\ wake' = AfterWake
  /\ silence' = FALSE
  /\ InHook

\* exec() throws, or the JSON library at an answer that is no JSON, and the
\* exception ends the process as it does in ZzzProxy.
HookThrows ==
  /\ \/ Stage("packet") /\ CommandsFail
     \/ Stage("health") /\ wake.tries > 0 /\ CommandsFail
     \/ Stage("ssh") /\ (CommandsFail \/ host = "down")
  /\ pc' = "stopped"
  /\ clients' = [fd \in Fd |-> NoClient]
  /\ backends' = [fd \in Fd |-> NoBackend]
  /\ Close((Live(clients) \cup {BackendFd(fd) : fd \in LiveBackends}) \ {NB!NoFd})
  /\ wake' = NoWake
  /\ UNCHANGED <<running, readSet, writeSet, todo, cur, kind, host, outages, silence>>

\* One GET of wol_ready(); anything but status "ok" is tried again.
Health ==
  /\ Stage("health") /\ wake.tries > 0
  /\ \/ host = "up" /\ wake' = [wake EXCEPT !.at = "admit", !.tries = 0]
     \/ wake' = [wake EXCEPT !.tries = @ - 1]
  /\ InHook /\ UNCHANGED silence

\* Mutated form: the client is only forgotten.
RefuseForgets ==
  /\ Stage("health") /\ wake.tries = 0
  /\ clients' = erase(clients, wake.fd)
  /\ wake' = NoWake
  /\ UNCHANGED <<running, loopVars, backends, kernel, kind, host, outages, silence>>

\* disconnectClient() inside the accept loop, before backends has an entry.
Refuse ==
  /\ Stage("health") /\ wake.tries = 0
  /\ DisconnectClient(wake.fd)
  /\ wake' = NoWake
  /\ UNCHANGED <<running, loopVars, kind, host, outages, silence>>

\* TcpProxy::onClientConnect(), as in TcpProxy!Admit.
Connect ==
  LET fd == wake.fd
      c == ConnOf(fd)
  IN  /\ Stage("admit")
      /\ \/ /\ backends' = [backends EXCEPT ![fd] =
                 NewBackend(NB!connect(NB!Fresh, "failed", NB!NoFd), c)]
            /\ UNCHANGED <<sock, srv>>
         \/ \E bfd \in FreeFds, outcome \in {"inprogress", "immediate"} :
              /\ IsLowest(bfd, FreeFds)
              /\ backends' = [backends EXCEPT ![fd] =
                   NewBackend(NB!connect(NB!Fresh, outcome, bfd), c)]
              /\ sock' = [sock EXCEPT ![bfd] = Socket("backend", c)]
              /\ srv' = [srv EXCEPT ![c] =
                   NewEnd("open", IF outcome = "immediate" THEN "up" ELSE "syn")]
      /\ wake' = NoWake
      /\ UNCHANGED <<running, loopVars, clients, cli, kind, host, outages, silence>>

Hook ==
  Ping \/ WolPing \/ Packet \/ Startup \/ HookThrows \/ Health \/ Refuse \/ Connect

-----------------------------------------------------------------------------
\* The rest of the loop waits for the hook.
WolLoop ==
  /\ Stage("none")
  /\ \/ Select \/ Tick \/ AcceptDone \/ BackendsDone \/ ClientsDone \/ Cleanup
     \/ \E c \in Conn : AcceptDenied(c)
     \/ \E fd \in Fd : processBackends(fd) \/ processClients(fd)
  /\ UNCHANGED wol

\* A packet, or its owner, boots the host; its boot takes as long as it takes.
HostBoots ==
  /\ host = "down" /\ host' = "up"
  /\ UNCHANGED <<vars, kind, wake, outages, silence>>

HostFails ==
  /\ host = "up" /\ outages < MaxOutages
  /\ host' = "down" /\ outages' = outages + 1 /\ silence' = TRUE
  /\ UNCHANGED <<vars, kind, wake>>

WolNext ==
  \/ WolLoop
  \/ \E c \in Conn : WolAccept(c)
  \/ Hook
  \/ HostBoots \/ HostFails
  \/ (stop \/ Environment) /\ UNCHANGED wol

\* Commands, pauses and HTTP requests come to an end; nothing else is assumed.
WolSpec == WolInit /\ [][WolNext]_wolVars /\ WF_wolVars(Hook)

-----------------------------------------------------------------------------
(* Properties.                                                             *)

\* The tables and the descriptors keep step also when a hook closes its client
\* inside the accept loop, or throws: while it runs, its client alone is without
\* an entry in backends, and before and after FdOwnership holds.
WakeOwnership ==
  IF Stage("none") THEN FdOwnership
  ELSE /\ Live(clients) = LiveBackends \cup {wake.fd} /\ wake.fd \notin LiveBackends
       /\ \A fd \in LiveBackends : ConnOf(fd) = backends[fd].clientAddr
       /\ \A fd \in Fd : \A c \in Conn :
            sock[fd] = Socket("client", c) <=> ConnOf(fd) = c
       /\ \A fd \in Fd : \A c \in Conn :
            sock[fd] = Socket("backend", c) <=>
              \E f \in LiveBackends : BackendFd(f) = fd /\ backends[f].clientAddr = c
       /\ \A f, g \in LiveBackends :
            BackendFd(f) = BackendFd(g) /\ f # g => BackendFd(f) = NB!NoFd

\* The startup command is given again only after the host was down again or left a
\* ping without an answer: never to a host that has stayed up and answered, which
\* would start its server a second time.  The check has to be the caller's, since
\* wol() returns true also when its own first ping finds the host awake.
StartupOnlyAfterSilence == [][Startup => silence]_wolVars

\* However the host behaves, the hook comes to an end and the sessions it holds
\* up, stop() included, go on.
WakeEnds == ~Stage("none") ~> Stage("none")
=============================================================================
