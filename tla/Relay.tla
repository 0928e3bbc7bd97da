-------------------------------- MODULE Relay --------------------------------
(***************************************************************************)
(* What a TCP proxy promises, without descriptors, an event loop or        *)
(* system calls.  A session has a channel each way: bytes are taken from   *)
(* one side as they come and given to the other in that order, and no      *)
(* session sees another's.  When the backend's side is lost, the client    *)
(* may still be given what was taken for it until the session is over.     *)
(***************************************************************************)
EXTENDS Integers, Sequences

CONSTANTS
  Conn,     \* the sessions
  MaxBytes  \* bound: bytes taken at a time

VARIABLES
  phase,  \* of a session: idle, open, draining or over
  chan    \* chan[c]: its two channels, what was given and what is in transit

relayVars == <<phase, chan>>

Dir == {"up", "down"}

\* Bytes from + 1 to to of what session c carries in a direction.
Stream(c, dir, from, to) ==
  [i \in 1..(to - from) |-> [conn |-> c, dir |-> dir, at |-> from + i]]

Empty == [given |-> <<>>, transit |-> <<>>]

Init ==
  /\ phase = [c \in Conn |-> "idle"]
  /\ chan = [c \in Conn |-> [dir \in Dir |-> Empty]]

\* A session begins with its backend's side, or without when that fails at once.
Begin(c) ==
  /\ phase[c] = "idle"
  /\ \E p \in {"open", "draining"} : phase' = [phase EXCEPT ![c] = p]
  /\ UNCHANGED chan

Refuse(c) ==
  /\ phase[c] = "idle"
  /\ phase' = [phase EXCEPT ![c] = "over"]
  /\ UNCHANGED chan

\* Bytes are taken in order, none left out.
Take(c, dir) ==
  LET taken == Len(chan[c][dir].given) + Len(chan[c][dir].transit)
  IN  /\ phase[c] = "open"
      /\ \E n \in 1..MaxBytes :
           chan' = [chan EXCEPT ![c][dir].transit = @ \o Stream(c, dir, taken, taken + n)]
      /\ UNCHANGED phase

\* The channel after the first n bytes in transit have been given.
GivenOf(channel, n) ==
  [given |-> channel.given \o SubSeq(channel.transit, 1, n),
   transit |-> SubSeq(channel.transit, n + 1, Len(channel.transit))]

Give(c, dir) ==
  /\ phase[c] = "open" \/ (phase[c] = "draining" /\ dir = "down")
  /\ \E n \in 1..Len(chan[c][dir].transit) : chan' = [chan EXCEPT ![c][dir] = GivenOf(@, n)]
  /\ UNCHANGED phase

Lost(channel) == [channel EXCEPT !.transit = <<>>]

LoseBackend(c) ==
  /\ phase[c] = "open"
  /\ phase' = [phase EXCEPT ![c] = "draining"]
  /\ chan' = [chan EXCEPT ![c]["up"] = Lost(@)]

\* The session ends, once everything has been given to the client or before.
End(c) ==
  /\ phase[c] \in {"open", "draining"}
  /\ phase' = [phase EXCEPT ![c] = "over"]
  /\ \E n \in {0, Len(chan[c]["down"].transit)} :
       chan' = [chan EXCEPT ![c]["up"] = Lost(@), ![c]["down"] = Lost(GivenOf(@, n))]

\* All of them end at once.
Stop ==
  LET begun == {c \in Conn : phase[c] \in {"open", "draining"}}
  IN  /\ phase' = [c \in Conn |-> IF c \in begun THEN "over" ELSE phase[c]]
      /\ chan' = [c \in Conn |-> IF c \in begun THEN [dir \in Dir |-> Lost(chan[c][dir])]
                                 ELSE chan[c]]

Next ==
  \/ Stop
  \/ \E c \in Conn : \/ Begin(c) \/ Refuse(c) \/ LoseBackend(c) \/ End(c)
                     \/ \E dir \in Dir : Take(c, dir) \/ Give(c, dir)

Spec == Init /\ [][Next]_relayVars
=============================================================================
