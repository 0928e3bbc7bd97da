# A verification project for cpptools-net

cpptools-net is a small C++ networking library: a `select()`-based TCP server,
a TCP proxy and an HTTP server built on it, two TCP clients, and example
programs, the most interesting of which start and stop the machine behind the
proxy. Everything runs in one thread per server; what makes it hard is less
threads than one event loop acting, in one pass, on what the kernel reported at
its start, while clients, backends and the kernel's descriptor table move on.

This directory holds TLA+ models of that code, TLC configurations that check
them on small instances, and proofs TLAPS checks for every value of the
constants. Paths below are relative to the repository.

## Inventory

| Component | State | Operations | What makes it correct |
|---|---|---|---|
| `TcpClientNB` | socket, connected/connecting, send queue, receive buffer, pendingClose | `connect`, `send`, `handleWrite`, `handleRead`, `consumeReceived`, `closeAfterFlush`, `disconnect` | one socket, never leaked; streams complete and in order; nothing survives a disconnect; a postponed close waits for the queue and happens |
| `TcpServer` | `running`, the `clients` table | event loop, `acceptClients`, `handleRead/Write`, `sendToClient`, `disconnectClient`, `closeAfterFlush`, `stop`, hooks | table and descriptors in step; stop ends the loop |
| `TcpProxy` | `clients` and `backends`, keyed by client descriptor | its own event loop; hooks for connect, disconnect, data, backend failure | each descriptor has one owner, no event goes to the wrong session, both streams are FIFO, the end of one side ends the other |
| `ZzzProxy` | `lastActivityTime`, `backendFailureDetected` | hooks of `TcpProxy`, start and stop commands | server started for clients, stopped without clients and only after they were quiet; failures noticed |
| `HttpServer` | one `ParseState` per client | `onRawData`, line and body parsing, dispatch, errors | framing independent of chunks, keep-alive reset, answers in order, no dangling state |
| `EchoServer` | `echoQueues` by descriptor | hooks, `onTick`; the order `shutdown` | lines whole, in order, to their sender only, also after another `listen()`; an order ends the loop |
| `HelloServer` | `dripQueues` by descriptor | hooks of `HttpServer`, `onTick` | a page goes to the client that asked, whole where nothing else ends the connection; no connection is left open |
| `WolProxy`, `LlamaCppWolProxy`, `wol`, `wol_ready`, `ping` | a few settings | blocking wake and wait loops inside `onClientConnect` | they terminate; tables and descriptors in step although the hook refuses or throws; no second startup of a host that stayed up and answered |
| `TcpClientB` | a socket, the bytes read ahead | blocking `connect`, `send`, `read`, non-blocking `available` | no leak after failures; nothing of one connection read on the next; a `read()` ends when its line has come or cannot come |
| `IpWhitelist` | patterns, whether filtering is on | load, check | without patterns everyone is allowed; else who matches one |
| `*Application`, `main` files | none | read options | - |
| scripts | a log file | cron, ssh | idle machine shut down, busy one not |

Interaction. `TcpServer::eventLoop` (and `TcpProxy`'s override) calls virtual
hooks; a hook may call `sendToClient`, `disconnectClient` or `closeAfterFlush`,
which change the tables the loop is walking. `TcpProxy` owns one `TcpClientNB`
per client. `ZzzProxy`, `WolProxy` and `LlamaCppWolProxy` override hooks of
`TcpProxy`; `HttpServer` overrides those of `TcpServer`, and `HelloServer` those
of `HttpServer`. Only `stop()` is called from outside the thread (a signal
handler, or a test's thread), through an atomic flag; the tests run a server in
one thread and `TcpClientB` objects in another.

Hard behaviours: the loop acts on readiness reported before accepts and closes
of the same pass; descriptors are reused at once; both tables lose entries
while a snapshot of their keys is walked; short reads and writes; closes
postponed until a queue is empty; data that arrives before the backend has
answered; peers that refuse, end or reset at any moment; running out of
descriptors; commands that fail, or take their time, inside a hook; a hook that
disconnects its own client inside the accept loop; queues kept beside the client
table under descriptors that are reused; two variables of `ZzzProxy` that stand
for one fact. `PROJECT.json` lists these hazards line by line with the
properties that watch them.

## Modules

| Module | What it models |
|---|---|
| `NBClient` | the methods of `TcpClientNB` as operators on a record of its fields |
| `TcpClientNB` | one such object, its caller, its socket and its peer, over several sessions |
| `ClientTable` | the `clients` table of `TcpServer` and the utilities that touch nothing else |
| `TcpProxy` | the proxy's event loop on `ClientTable` and `NBClient` |
| `Relay` | what a proxy promises: two channels per session, without descriptors, loop or system calls |
| `TcpProxyRelay` | `TcpProxy` as an implementation of `Relay`: the refinement mapping |
| `ZzzProxy` | `TcpProxy` with the hooks of `ZzzProxy`: each action is a step of the loop and what the hook in it does |
| `WolProxy` | `TcpProxy` with the `onClientConnect()` of `WolProxy` or of `LlamaCppWolProxy`, which calls `ping()`, `wol()`, `wol_ready()` and `exec()` |
| `HttpServer` | parsing and dispatch on `ClientTable` |
| `HelloServer` | `HttpServer` with the hooks of `HelloServer` and its drip queues |
| `Filter` | the elements of a sequence that belong to a set, as a recursive function |
| `IpWhitelist` | loading and asking the address filter, as operators |
| `TcpClientB` | objects of the blocking client, each in a thread of its own; the server's side of the wires is for the module that extends it |
| `EchoServer` | `TcpServer::listen()`, `stop()` and `eventLoop()` with the hooks of `EchoServer`, on `ClientTable` and `IpWhitelist`, served to `TcpClientB` |
| `TcpClientNB_proofs` | theorems about `TcpClientNB` |
| `TcpProxy_proofs` | theorems about the tables, descriptors, streams, reports and ends of sessions of `TcpProxy`, and that it implements `Relay` |
| `ZzzProxy_proofs`, `WolProxy_proofs` | theorems about `ZzzProxy` and about `WolProxy`, on top of `TcpProxy_proofs` |
| `Filter_proofs` | lemmas about `Filter` and about joining texts, for the next three |
| `EchoServer_proofs` | theorems about `EchoServer` and the `TcpClientB` objects it serves |
| `HttpServer_proofs` | theorems about `HttpServer` |
| `HelloServer_proofs` | theorems about `HelloServer`, on top of `HttpServer_proofs` |
| `MC*` | model-checking instances: symmetry sets, clients' scripts, whitelist files, the two programs of `WolProxy` |

An operator whose comment begins "Mutated form" is a plausible bug in the
definition that follows it. It is used by nothing: putting it in place of that
definition breaks the property `PROJECT.json` names with it, which shows that
the property can tell the code from a wrong version of it.

### How state and actions correspond to the code

*Tables.* An `unordered_map<int, ...>` is a function on all descriptors with a
"no entry" value (`NoClient`, `NoBackend`, `NoParseState`).
`clients[fd].remoteAddr` identifies the connection, so a connection is its own
remote address. A `TcpClientNB` is a record of its fields; `lastError` is left
out.

*Bytes.* A byte of a stream is a record of connection, direction and position,
so a lost, repeated, swapped or misdirected byte makes a difference. In
`HttpServer` a word, a header with its value and a line end are one symbol
each.

*Kernel.* `sock` is the descriptor table. It gives out the lowest free
descriptor, as POSIX says. `cli` and `srv` hold each connection's two ends:
what the peer has sent, how far it was read, whether the peer is up, has ended
its stream, reset or refused, and what was sent to it.

*The loop of `TcpProxy`* (`pc`): `select` -> `tick` -> (`accept`) -> `backends`
-> `clients` -> `select`. `readSet` and `writeSet` keep what `select()`
reported until the end of the pass. `todo` holds the entries whose turn is
still to come, in any order (the maps are unordered). A turn that makes two
system calls is two steps (`cur` in between), because the peer may act in
between. Peers act between any two steps.

*`select()`.* A socket is readable when there is data, an end of stream or an
error. Whether a socket with room can be written is the peer's choice, except
that a finished connection attempt, a failed one and a reset are always
reported.

*`ZzzProxy`.* `idle` is the distance from `lastActivityTime` to now, up to one
past the timeout, and `NoActivity` for the value 0. Time passes while
`select()` waits; elsewhere the hooks either set `idle` to 0 or leave it, and
only `onTick()` reads it. `power` is the server itself. `quiet` is a history
variable for the properties: the time since a client last connected, sent or
left. What the server sends reaches no hook, and resets neither.

*`HttpServer`.* One pass of the loop in `onRawData()` is a step, and nothing
else happens between two passes, as in the code. Which ready handler runs next
is left open: a superset of the orders the loop produces. `onHttpRequest()` is
the subclass's; it answers or not, and closes or not.

*`HelloServer`.* The steps are those of `HttpServer`, conjoined with what the
hooks of the subclass do to `dripQueues` (`Hooks`), and `onTick()`. A page is
two words, fed one per tick.

*`EchoServer`.* `pc` says where `listen()` is: `idle`, `bound` (the socket is
open, `running` not yet set), then `select` -> `tick` -> (`accept`) -> `clients`
-> `select`, and back to `idle`. `stop` may happen between any two steps, as
from another thread. A turn reads and then writes, with peers between the two.
A call of `TcpClientB` is a state of its thread (`call`); `send()` and `read()`
take a step per system call, and one that throws leaves the object as it was.
`wire` holds both ends of each connection. `echoQueues` outlives the loop, as
in the code. A line is one symbol for its text and one for its end. A host is
identified by its client, and a whitelist pattern is the set of hosts it
matches.

*`WolProxy`.* While the hook runs, `wake` holds its stage and the tries left,
and the rest of the loop waits; the peers and the host go on. A stage ends with
a command or a system call. `host` boots at any moment and fails up to
`MaxOutages` times; a command fails, or throws, when the host is down or (with
`CommandsFail`) at any time. A ping is answered only by a host that is up
(`Answered`), but one that is up may leave it unanswered, since `ping()` sends one
request and waits a second: the hook cannot tell this from a host that is down.
`silence` is a history variable: whether the host was down, or left a ping
unanswered, since the last startup command.

*`Relay`.* A session is `idle`, `open`, `draining` (without the backend's side)
or `over`; a channel each way holds what was given and what is in transit.
`Take`, `Give`, `LoseBackend`, `End` and `Stop` are its only changes. In the
mapping the phase comes from the client's socket and the backend's descriptor,
and what is in transit from `sendQueue`, `pendingData` and the client's queue.

## Runs

| Run | Question | Bounds |
|---|---|---|
| `nb_client` | one `TcpClientNB` under every order of calls, answers and failures | two sessions, so that one can disturb the next; two bytes in and out, so that reads and writes split |
| `proxy_pair` | two sessions at once, or one and a client the whitelist denies: streams apart, ends only for cause | three clients, one denied, of which any two come (`AtMostTwo`); a byte each way, descriptors for two sessions |
| `proxy_session` | one session in depth: refinement of `Relay` (both streams in it), delivery, propagation of ends, stopping, descriptors | two bytes each way, so that reads and writes split; resets |
| `zzz_power` | when the server is stopped, how failures stick, that a server without clients does not go on counting as on | two clients with a byte each way on three descriptors, timeout of one unit, failing commands |
| `http_pairs` | framing, answers in order, postponed closes | all pairs of 8 kinds of message, all chunkings |
| `hello` | drip queues and parse states against the client table; whole pages; connections that end | two connections on two descriptors, one after the other or at once; a second GET during the page, a refused method, a connection not to be kept |
| `echo` | `TcpServer`'s own loop and `stop()`, echoes and orders to shut down, the blocking client, the whitelist | one object with two sockets, two lines on the first; two calls of `listen()`; files without patterns, with one that matches and one that does not |
| `wol` | descriptors and readiness when the hook wakes, waits, refuses or throws; the waiting ends | three connections, one denied, on three descriptors: `accept()` and `socket()` run out and closed descriptors come back in the same accept loop; both programs, one retry of each kind, one outage, any ping unanswered |

Two sessions are enough for interference, which is always between one session
and one other (through a shared descriptor or a shared pass); a third
connection makes a descriptor free up while another still waits. Two bytes are
enough for every split of a read or write that the code can tell apart. The
bytes are left out of `wol` (`MaxUp`, `MaxDown` are 0): its question is about
descriptors, and `proxy_session` is about the bytes. The retries of `wol` are
1 instead of 20 and 30: the loops treat every try alike but the last.

`CHECK_DEADLOCK FALSE` is set wherever the system may stop: after `stop()`, and
when every connection there is has come and gone.

### Where the code and its documents disagree

These runs each check one statement of a document or a comment and TLC finds it
violated; `PROJECT.json` quotes the lines.

- `proxy_client_flush`: the backend closes while its client is slow to read.
  `processBackends()` marks the client for closing after the flush, but leaves
  its entry in `backends` with descriptor -1; the next pass takes that for a
  failed connection and closes the client with its queue unsent.
- `zzz_not_started`: an event of a client that outlived the idle stop makes the
  stopped server count as on, and the next client does not start it. On the way
  there it shows a second disagreement: the server is stopped under a client that
  is connected and sends nothing, where `zzz-proxy/README.md` (59, 82, 192, 262)
  says that it is stopped only without clients. `onTick()` goes by the time of the
  last event of a client; the same happens while the server is sending a long
  response, which no hook sees.
- `zzz_never_stopped`: a backend that ends a session in the ordinary way counts
  as failed, and is never stopped.
- `http_after_error`: requests after a malformed one are still dispatched.

Two more statements of the documents that the code plainly does not keep; the
models do what the code does:

- `wol-proxy.md` (69, 97) says the startup command runs only once, on the first
  connection. The line that would see to it (`WolProxy.hpp:33`) is commented out:
  it runs again after every outage, and for a host that was never down as soon as
  one ping of a client's hook is left unanswered and a later one is not.
  `StartupOnlyAfterSilence` is what holds;
- `wol.hpp:10` and `wol-proxy.md` (86) say `wol()` returns false when the host was
  already awake; it returns true, and only the caller's own ping keeps the command
  from running.

Behaviours of the models that have no run of their own, because no document
clearly says otherwise, a run above already shows their cause, or the statement
is about a command and not about the program's state:

- what is queued for the backend when its client closes is discarded;
- a command of `ZzzProxy` that fails ends the proxy (`ProxyDies`); a session from
  before a restart marks the restarted server as failed; when descriptors run out,
  `accept()` failing counts as activity and keeps an unused server on;
- `HelloServer` sends nothing to a GET that asks for the connection to be
  closed: the dispatcher closes it before the first tick;
- the reply to `shutdown` is mostly not sent, since the loop ends first;
- a `stop()` that comes before `listen()` sets `running` is lost;
- `TcpClientB::available()` says false for ever once the server is gone.

## Fairness

`WF(Loop)`: the loop never blocks (`select()` has a timeout of 100 ms and every
socket is non-blocking), so an enabled step of it is taken. An attempt to
connect is answered at some point (the kernel gives up in the end). For each
descriptor, strong fairness of "`select()` reports it writable": a peer that
stays connected makes room again and again. Nothing is assumed of clients
sending or of either side closing. `ZzzProxy` adds that time passes (strong
fairness, because the clock moves only while `select()` waits). `HttpServer`
assumes that `onRawData()` runs on and that a client that stays reads what it is
sent; `HelloServer` and `EchoServer` add that a queue with something in it gets
its tick again and again (strong fairness, because a tick finds a given queue
due only when its interval has passed). A thread inside a call of `TcpClientB`
takes what it can get; nothing makes it call anything. `WolProxy` assumes only
that commands, pauses and requests come to an end (`ping` has a timeout of one
second), not that the host ever boots or answers.

## Proofs

TLAPS checks all of it with Z3, Zenon and LS4. The only assumptions are the
`ASSUME`s of the models:

- `TcpProxy`, `ZzzProxy`: `Fd` is a set of natural numbers without `ListenFd`,
  `NoConn` is no connection, the bounds are naturals, the timeout is positive.
- `WolProxy`: what `TcpProxy` assumes; the numbers of tries are naturals, and a
  program has a health check and a startup command or not.
- `TcpClientNB`: 0, which is standard input, is not in `Fd`; the bounds are
  naturals.
- `EchoServer`, `TcpClientB`: `Fd` is a set of naturals, `NoConn` is no
  connection, a whitelist file may have a section, whose values are sets of hosts
  or empty (`FilesAssumption`), and each object has a number of sessions and
  each session a number of lines to send.
- `HttpServer`: a script is a sequence of messages, each of a kind, with the fields
  and the body `Message` allows: requests, possibly after a blank line, and what
  the parser cannot read (`ScriptsAssumption`). `onHttpRequest` is a constant
  operator of which nothing is assumed.
- `HelloServer`: the same of `Conn`, `Fd` and the scripts (`HelloAssumption`);
  `onHttpRequest` is defined.

Nothing is assumed about how many connections, objects, descriptors, lines or
bytes there are, and nothing about their sets being finite.

| Module | Theorem | Property |
|---|---|---|
| `TcpClientNB_proofs` | `TypeCorrect` | `TypeOK` |
| | `NoSocketLeak` | `OneSocket` |
| | `ClosedMeansClean` | `CleanWhenClosed` |
| | `PendingCloseWaits` | `PendingCloseHasData` |
| | `WireIsFifo`, `ReadIsFifo` | `WireFifo`, `ReadFifo` |
| | `CloseWaitsForFlush` | `FlushBeforeClose` |
| `TcpProxy_proofs` | `TypeCorrect` | `TypeOK` |
| | `DescriptorsOwned` | `FdOwnership` |
| | `NoStaleReadiness` | `ReadinessIsFresh` |
| | `UpstreamsWhole` | `UpstreamFifo` |
| | `DownstreamsWhole` | `DownstreamFifo` |
| | `ReportsStay` | `ReportedIsReady` |
| | `SessionsEndForCause` | `SessionEndsForCause` |
| | `ProxyRelays` | `ImplementsRelay` |
| `ZzzProxy_proofs` | `ZzzDescriptorsOwned` | `FdOwnership` |
| | `StopsOnlyAfterQuiet` | `StopOnlyAfterQuiet` |
| | `FailuresStick` | `FailureSticks` |
| | `ZzzForwards` | `UpstreamFifo`, `DownstreamFifo`, `ReportedIsReady` |
| `WolProxy_proofs` | `WolDescriptorsOwned` | `WakeOwnership` |
| | `WolForwards` | `UpstreamFifo`, `DownstreamFifo`, `ReportedIsReady` |
| | `WolNoStaleReadiness` | `ReadinessIsFresh` |
| | `StartsAfterSilence` | `StartupOnlyAfterSilence` |
| `EchoServer_proofs` | `TypeCorrect` | `TypeOK` |
| | `NoDescriptorLeaks` | `DescriptorsOwned` |
| | `FilterIsRight` | `WhitelistHolds` |
| | `LinesConserved` | `EchoConserved` |
| | `EchoesAreOwn` | `OwnEchoes` |
| `HttpServer_proofs` | `TypeCorrect` | `TypeOK` |
| | `StatesMatch` | `ParseStatesMatch` |
| | `RequestsCorrect` | `RequestsFramed` |
| | `ResponsesInOrder` | `AnswersInOrder` |
| | `ClosesAfterFlush` | `ClosedAfterFlush` |
| `HelloServer_proofs` | `HelloStatesMatch` | `ParseStatesMatch` |
| | `HelloPagesConserved` | `PagesConserved` |
| | `FirstPageComplete` | `FirstPageWhole` |

*`TcpClientNB`.* The inductive invariant is `TypeOK`, `OneSocket`,
`CleanWhenClosed`, `PendingCloseHasData` and `NetOK` (what the peer's side of
the socket can be in each state of the object). The two stream properties are
preserved on top of it. There is a lemma per operator of `NBClient` and a
step per action. `FlushBeforeClose` follows from both: only a write that took the
whole queue leaves the object closed, and what is on the wire then is what
`WireFifo` says was asked for. `TypeOK` of this module and of `TcpProxy` and
`PendingCloseHasData` are proved and not checked again by a run.

*`TcpProxy`, descriptors.* `FdOwnership` is not inductive alone. It needs
`SocketsMade` (a descriptor that is not free belongs to some connection, so that
`cleanup()`, which closes what the tables name, leaves none open), `TodoLive` (a
turn is only given to an entry that is there: the loops walk snapshots of the
keys, and no turn removes another's entry) and `NoPendingClose` (nothing calls
`closeAfterFlush()` on a backend connection, so that a write never disconnects
it behind the table's back). The proof has one lemma per kind of change to the
owners: none (`SameOwners`), an entry gone (`DisconnectOwners`), a backend
connection gone from an entry that stays (`LostOwners`), a new entry
(`AcceptOwners`); every action is one of these. `NoStaleReadiness` adds
`ReportedOpen`, that until the accept loop ends everything `select()` reported is
still open, and `OnlyAcceptOpens`, that nothing else opens a descriptor.

*`TcpProxy`, streams.* The two FIFO properties speak of what the peers see; they
are preserved only together with `SessionInv`. `Entries` says, for each entry of
the tables, how the client's bytes read are spread over what the backend was
sent, its queue and `pendingData` (which is empty once the attempt has
succeeded: otherwise bytes would pass those that wait), and the backend's over
what the client was sent and its queue. `OneEntryEach` says that an open
connection has one entry: without it a second entry could carry the same
stream. `Untouched` says that a connection that is still to be accepted has
carried nothing, so that a new entry starts clean whatever its descriptor was
before. `SessionInv` is proved on top of the descriptor invariant, action by
action, and both theorems follow from it.

*`TcpProxy`, reports.* `ReportedIsReady` is about the descriptor whose turn it is;
its invariant `Reports` is about all turns of the pass that are still to come,
half by half, for the entry that has the descriptor now: what is reported
readable has data, an end or an error, and what is reported writable has data
to send or an attempt with its answer. A turn spends only its own reports, and
peers only add to what there is. The delicate step is the accept loop, which opens
descriptors between the report and the turn: by `ReportedOpen` none of them was
reported.

*`TcpProxy`, ends.* `SessionEndsForCause` needs `Parted`: an entry without a
backend connection has none in the kernel, only such an entry waits for a flush,
and the backend knows nothing of a client before it is accepted. So the
postponed close and the closing of an entry without backend both have the cause
behind them, and what is left is a case per turn.

*Refinement.* `ProxyRelays` has the initial states map to those of `Relay`, and
every step to a step of it or a stutter. Because `Session(c)` is a `CHOOSE`, the
proof first shows, from `OneEntryEach`, what the mapped phase and channels of a
connection are for the one entry it has (the "views"), and that an action that
touches one entry leaves the views of all other connections alone. Then each
action is classified by what it does to its own connection: nothing, one `Take`
or `Give`, `LoseBackend`, `End`, `Begin`, `Refuse`, or `Stop` for all at once.
The bound on `Take` is met because no read takes more than the peer sent
(`Bounded`).

*`ZzzProxy`.* Every step but the death of the process is a step of `TcpProxy`'s
`Next`, so the invariants above carry over (`ZzzAlive`; a dead proxy has released
its descriptors). For the rest, `IdleFollowsQuiet` relates the two variables of
the code to what really happened: while no failure is marked, `lastActivityTime`
is not older than the last event of a client, so `onTick()` does not stop the
server earlier than that. (It says nothing of bytes from the server, which push
nothing on.)
With the mark set it may be, since the hooks do not push it on; then the
failed server is not stopped, and the start that clears the mark resets the time.

*`WolProxy`.* In the hook there is a client without an entry in `backends`, which
no step of `TcpProxy` leaves behind, so its invariants are false of the state as
it is. They hold of the state without that client: its table entry gone, its
descriptor free and its connection still in the accept queue (`seenClients`,
`seenSock`, `seenCli`). `WolProxy_proofs` takes the proofs about `TcpProxy` a
second time with these in place of the variables, and `WolAlive` says that the
invariant (`Forwarding`) holds of what is seen while the hook runs, and of what
there is outside it. Then the steps are those of `TcpProxy` again: `accept()`
changes nothing of what is seen (`Accepting`), the stages of the hook nothing
either, peers do what they do (`HookEnvironment`), connecting the backend is
`AcceptClient` in one step (`Connecting`), and refusing the client is turning
away one from the queue (`Refusing`). `Hooked` has what is not seen: the client
is as `accept()` made it, and its descriptor is still the lowest free one. Only
the exception needs an argument about the state as it is (`HookOwners`,
`Throwing`). `Blank`, a part of `Forwarding`, says that an unused descriptor has
nothing left in either table: the hook's `disconnectClient()` finds the default
entry there. `SilenceSeen` is the invariant of the startup command: `wol()` is
called only after a ping without an answer.

*`EchoServer`.* `Inv` has `Types`, `Objects` (an object has the socket it made
last or none, and its connections were made in order) and `Accounted` (the
server's sockets are those of its table, each of another connection, and none
waits when it does not listen). `FilterIsRight` compares the `find` over the
loaded patterns with the definition of a match. The two properties of the lines
need `Streams`: `Whole` is conservation for one entry, `Own` the initial part for
one connection including what is still on its way to the client (so that the
server's going away takes nothing from it), and `Fresh` says that nothing has
come back over a connection that waits to be accepted, which starts its entry
and its queue clean whatever the descriptor carried before.

*`HttpServer`.* `Inv` has `TypeOK`, `Owned` (one open connection per entry),
`Matched` (a parse state for exactly the entries) and `Answers` (what was
written and queued is what was answered). An action is first told as an effect
on one descriptor: it admits a connection, works on one, or lets one go
(`Admits`, `Works`, `Leaves`), and the invariant is proved for the effects. A
connection let go either has a client that went away or, by the code's
`pendingClose`, an empty queue; that is `ClosedAfterFlush`.

*`HttpServer`, framing.* `RequestsFramed` speaks of the moments between two calls of
`onRawData()`; what holds at every step, also inside the loop, is `Framed`. For
each entry there is a number k of messages that have come out right (`Right`), and
then one of two things. `OnTrack`: nothing else came out, and the parse state, the
buffer and what was not read yet of the stream fit together. They fit when the
parser is in the next message (`InMessage`): for the request line, the headers, the
length, the blank line and the body there is one parse state each and what must
still follow of the message, and the buffer with the unread part of the stream is
that and the messages after it (`At`). Or `Derailed`: the last of the k was one the
parser cannot read. The code leaves its parse state where it was and goes on, so
that nothing can be said of what comes out later, and `RequestsFramed` says
nothing of it. A line taken off the buffer, a header that is not there, the last
byte of a body or only a part of it each lead from one of these states to the next,
hand the request on or give up (`GoesOn`, `HandsOn`, `GivesUp`); that a body's end
is found rests on `bodyRemaining` being the length of what is left of it. `Waiting`,
that `onRawData()` stops only when no line or body byte is left, gives the other
half: a message received whole has been handed on. How far a message reaches is
`Offset`, the length of the stream of those before; `Filter_proofs` has that
`FlattenSeq`, a recursive function of the library, goes through concatenation.

*`HelloServer`.* A step of the loop is a step of `HttpServer` with what the hooks
add, so the proofs about `HttpServer` are taken by `INSTANCE` and not done again.
For this `HttpServer_proofs` has `Standing`, the part of `Inv` that does not
depend on who writes the responses, and tells what a step of the loop does to one
descriptor: a connection enters, remains with its log, its send queue and its
close grown, or departs (`Enters`, `Remains`, `Departs`); `Fresh` says that a
connection still to be accepted has neither log nor output. The tick is a step of
its own. `HelloInv` adds the queues to `Standing`: their type, `PagesConserved`
and `FirstOut`: where a connection is marked for closing and no request asked for
it, at least two words, a whole page, are out or in the send queue. Only a tick
that takes the last word of a drip queue marks such a connection, and then by
`PagesConserved` all pages asked for are out or queued, of which there is at least
one. The flush that follows closes the connection with an empty send queue, so
that what was out or queued is out: `FirstPageWhole`. A GET that comes in between
only adds to the drip queue.

*Induction over data.* The responses of a connection, the lines of a stream and
the patterns of a file are what a filter keeps of a sequence. `Filter` defines it
by a recursive function, and `Filter_proofs` shows how it grows with the sequence
and that it goes through concatenation, and the same of `FlattenSeq`. The induction theorems of the library
take an operator as a parameter, which the provers cannot instantiate; these
proofs take the least number that does not have the property (`LeastNumber`,
from `WFMin`) and need only a set.

What is only model-checked:

- every liveness property, since fairness and `ENABLED` are out of the prover's
  reach (`Relay` promises safety only; the ends of sessions are
  `BackendEndClosesClient` and `ClientEndClosesBackend` of `TcpProxy`).

Every invariant and every other action property of the passing runs is stated by
a theorem.

## Not modelled

`PROJECT.json` lists every component with its status. Left out:

- the `*Application` classes and `main` files: they read options and make one
  call. The only thing in them the models depend on, that timeouts are
  positive, is an assumption of `ZzzProxy`;
- the scripts: `auto-shutdown.sh` keeps no state between its checks (it does
  treat a missing log file as new where its comment says old), `start.sh` and
  `stop.sh` are bounded polls for one site's machine, and appear as a command
  that succeeds or fails;
- logging and the text of messages, addresses and patterns;
- socket options, `FD_SETSIZE`, and errors of `select()` other than from a
  closed descriptor (which `FdOwnership` rules out);
- lengths that `stoul()` reads only in part, and the query string of a request;
- the end of the loop of `HelloServer` followed by another `listen()`, which
  would find its old queues; `EchoServer` is modelled over several calls.
