---------------------------- MODULE TcpProxyRelay ----------------------------
(***************************************************************************)
(* TcpProxy as an implementation of Relay: a session is a connection, its  *)
(* channels are the queues of the two tables.                              *)
(***************************************************************************)
EXTENDS TcpProxy

\* The descriptor of the client of an open session.
Session(c) == CHOOSE fd \in Fd : ConnOf(fd) = c

Phase(c) ==
  CASE cli[c].at \in {"new", "queued"} -> "idle"
    [] cli[c].at = "closed"            -> "over"
    [] OTHER -> IF BackendFd(Session(c)) = NB!NoFd THEN "draining" ELSE "open"

\* While an attempt is under way, what the client sent is in pendingData; once the
\* backend's side is lost nothing of it is sent any more.
UpTransit(c) ==
  IF Phase(c) = "open"
  THEN backends[Session(c)].backend.sendQueue \o backends[Session(c)].pendingData
  ELSE <<>>

DownTransit(c) == IF cli[c].at = "open" THEN clients[Session(c)].sendQueue ELSE <<>>

Channels(c) ==
  [dir \in {"up", "down"} |->
    IF dir = "up" THEN [given |-> srv[c].out, transit |-> UpTransit(c)]
    ELSE [given |-> cli[c].out, transit |-> DownTransit(c)]]

R == INSTANCE Relay WITH MaxBytes <- MaxUp + MaxDown,
                         phase <- [c \in Conn |-> Phase(c)],
                         chan <- [c \in Conn |-> Channels(c)]

\* Whatever the peers do, every step of the loop is one step of Relay, for one
\* session, or none: streams arrive whole and in order up to the end of their
\* session, and what a session loses it loses at that end.
ImplementsRelay == R!Spec
=============================================================================
