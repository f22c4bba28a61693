# CProxy: a TLA+ verification project

CProxy publishes a service of a private network. `CProxyClient` runs beside the
local server, `CProxyServer` on a public host. They keep one *control connection*
per client and a pool of *proxy connections*; for each client that connects to
the public port of a *tunnel*, its bytes travel

    public client <-> PublicConn | ProxyConn  ==TCP==  ProxyConn | LocalConn <-> local server
                         CProxyServer                      CProxyClient

and the end-of-stream notifications travel on the control connection.

## 1. Inventory

| Component | State | Operations | Correct means |
|---|---|---|---|
| `lib/Buffer` | array, two indices, capacity and its limit | `WriteToBuffer` (grows), `read`, `WriteToSock` | a FIFO of bytes; growth stops at the limit |
| `lib/tran_conn`, `lib/proxy_conn` | mode (`is_start_`), `half_close_`, peer, three counters | `handleRead` in two modes, `start`, `shutdownFromRemote/Local`, `resetConn` | data mode forwards everything once; idle mode sees control messages only; reset after both directions ended |
| `server/public_conn`, `client/local_conn` | bytes transferred, `closing_` | `handleRead` (data, end of stream) | announces exactly the bytes it forwarded |
| `server/Tunnel` | `proxy_conn_map_`, `wait_for_start_proxy_conn_map_`, `free_proxy_conns_`, `undeal_public_fds_` | accept, claim, start, shut, free | each public connection gets one proxy connection; a free one is idle on both sides |
| `client/Tunnel` | `proxy_conn_map` | create, start, shut, request to free | likewise |
| `server/Control`, `client/Client` | ids, tunnels, control connection | registration, notification handlers, closing | a client gets its tunnel; notifications reach the connection they name; a lost client harms no other |
| `server/Server` | `control_map_`, unclaimed proxy connections, acceptors | accept, `claimProxyConn`, start | a claim finds its owner's tunnel; nothing that connects is overlooked |
| `lib/ctl_conn`, `lib/Msg` | out buffer, events of its channel | `SendMsg` from any thread, `handleRead/Write`, `postHandle` | no message is lost, reordered or stuck |
| `lib/Epoll`, `Channel`, `event_loop*` | registered events, fd to channel map | add, modify, wait, dispatch; thread start-up | every armed and ready event is dispatched |

*Threads.* On each side a main thread serves the control connection and a pool of
workers serves proxy connections; a PublicConn or LocalConn is served by the
worker of the proxy connection it is bound to. One more thread of the server
accepts public connections. They share ProxyConns and the lists of the Tunnel.

*What is hard.* (1) A notification of end-of-stream and the data before it use
different connections, so they arrive in any order; the code compares byte counts
in two threads. (2) Proxy connections are reused, so both sides must agree when a
session is over. (3) Starting a session is a handshake during which data may
already flow. (4) Check and update of the shared lists are under different locks.
(5) Clients come and go while others are served, and `control_map_` has no lock.
(6) Waiting is edge-triggered: an event that is dropped is not reported again.
(7) Sockets fill up in the middle of a `splice`, and the counts are ints.
`PROJECT.json` lists these hazards at their lines, with the properties that watch
them.

## 2. Modules

| Module | Models |
|---|---|
| `ByteQueue` | abstract: a FIFO queue of bytes that may refuse only what exceeds its initial capacity |
| `Buffer` | `lib/Buffer`, every operation; an iteration of the growth loop or of `WriteToSock` is an action |
| `Relay` | abstract: a TCP connection between a public client and a local server |
| `ProxyTunnel` | one tunnel on both sides: Tunnel, ProxyConn, TranConn, PublicConn, LocalConn and the handlers of Control, Client and Server that a running tunnel uses |
| `CtlConn` | a control connection and the event loop: CtlConn, `Channel::HandleEvents`, `Epoll::PollMod` and waiting, `EventLoop::Loop` |
| `Registration` | several clients: start, registration of client and tunnel, `control_map_`, claims by id, the lists of each Tunnel, loss of a client and of the server |
| `ServerLoops` | the server's threads: start of the event loop threads, both accept loops, hand-over of a proxy connection to a worker |
| `Splice` | one direction of a session in bytes: both hops with their pipes, full sockets, the counters and the shutdown |
| `MCBuffer`, `MCProxyTunnel`, `MCCtlConn`, `MCRegistration`, `MCServerLoops`, `MCSplice` | instances for TLC |
| `BufferProofs`, `ProxyTunnelProofs`, `SessionProofs`, `CtlConnProofs`, `RegistrationProofs`, `ServerLoopsProofs`, `SpliceProofs` | theorems and proofs |
| `Counting` | lemmas: how many elements of a sequence are of a kind, when it is appended to or read |

The modules overlap where they meet. `Registration` begins and ends sessions in one
step each and `ProxyTunnel` is what happens in between, for one tunnel. `CtlConn` is
the control connection that both take for a FIFO channel. `ServerLoops` is what
brings a connection to its handler, and `Splice` a session's data in units of bytes,
where `ProxyTunnel` has chunks that always fit.

### Buffer

`capacity`, `data_size`, `data`, `read_index`, `write_index` are the members of
the class. `pending` and `newcap` are the argument and the local variable of
`ensureInsert` while it is in its loop; `out` is what the last call handed over.
`WriteFits`, `WriteRefused`, `WriteGrows`, `WriteEntersLoop` are the paths through
`ensureInsert`; each includes the rest of `WriteToBuffer`. `SockWriteError` is the
path on which `write()` returns -1: kept in a `size_t` (`SizeMod` is 2^w), it is
added to `read_index_`. Uninitialised memory holds `Junk`.

### ProxyTunnel

* `conn[<<side, p>>]` is the ProxyConn of proxy connection `p` on a side;
  `net[<<side, p>>]` is what that side has still to read from it, `ctl[side]`
  likewise for the control connection. TCP: reliable and in order.
* `end[e]` is a PublicConn or LocalConn: the proxy connection whose worker polls
  it (`on`), its transfer count, `closing_`, what was forwarded to it and whether
  its writing direction was shut (`fin`).
* `th[t]` is where thread `t` stopped inside a handler. A handler is split where
  another thread can get in between with an effect: between sending
  `StartProxyConnReq` and the entry in the waiting map (`AcceptOnFree`, `AddWait`);
  between the parts of `start` (`StartFlag`, `StartBind`) on the client, where a
  worker polls the connection already; between the comparison of the counts and
  `shutdownFromRemote` (`CheckCounts`, `ShutdownFromRemote`); between `reset` and
  free (`RequestFree`, `FreeProxyConn`); between the checks and the updates of
  `freeProxyConn` (`FreeProxyConn`, `PushFree`); between `shutdownFromLocal` and
  the notification (`ReadEof`, `NotifyPeer`).

Abstractions: a chunk is what one `splice` moves and counts 1; a chunk always fits
into the next socket; `splice` with the counting and first comparison after it is
one step (recv_count_ is only advanced by this worker, and the second comparison
is a step of its own); `resetConn` is one step; `SendMsg` appends to the channel;
each proxy connection has a worker of its own, which allows more interleavings
than a shared one; proxy connections stay open; connecting succeeds (there are as
many possible proxy and local connections as public ones). Forwarding while the
peer's fd is not set writes to a file descriptor that is not the connection's: the
chunk is lost and counted or not. Popping from an empty vector is undefined;
`ClaimProxyConn` requires that there is one and the invariant `ClaimFindsPublic`
shows that this is always so.

`Env` says what the two applications do. `any`: send and close at any time.
`banner`: the public client is silent until it has heard the local server.
`dialogue`: the local server opens, they alternate, and the end that closes first
does so when it has heard the other's last chunk, so that nothing is in flight.
The listening thread may be of any speed: an answer to `StartProxyConnReq` that
comes back before `AddWait` is dropped (`DropInCtlMode`). A chunk that is read in
control mode is dropped whole: the code takes its bytes for the length and the body of
a message, so it is lost to its end in any case, and what a body that happens to look
like a message would do is left out.
New proxy and local connections are taken in a fixed order (`FreshProxy`,
`FreshLoc`), since the program never tells one unused descriptor from another.

### CtlConn

`events`, `revents`, `peer_closed` are the Channel, `in_buffer_empty` and `unread`
(messages in `out_buffer_`) the CtlConn, `mask` and `queued` what the kernel keeps
for the descriptor: the events asked for and whether it is on the ready list.
`epoll_ctl` replaces the mask and lists a descriptor that is ready; so do data, a
hang-up and room in the socket, if asked for. Waiting takes an edge-triggered
descriptor off the list.

The loop thread goes through `Wait`, `BeginHandle`, `ReadMsg`/`ReadEof`,
`HandleWrite` and `CloseConn` or `ResetEvents`, `TestUnread`. `WriteMsg` is the
first part of `SendMsg`; `LoadEvents`, `StoreEvents` (`events_ |= EPOLLOUT`) and
`GetEvents`, `EpollCtl` (`PollMod`) follow, and `postHandle` uses the same four
without the mutex. `Sender` are the threads other than the loop's that call
`SendMsg`: the listening thread and the workers.

Abstractions: a message is read whole; a flush is one step, and a writable socket
takes all of it and may then be full until the peer reads; `peer_closed_` and
`in_buffer_empty_`, which the code does not initialise, start false. A closed
connection stays polled, because a Tunnel refers to its Control and the Control
to its tunnels; this is the server, a client aborts.

### Registration

A Control and its Tunnel are named by their client. `client`, `control`,
`control_map`, `undeal_public_fds`, `free_proxy_conns` are members of the classes,
`toServer` and `toClient` the control connections, `via` the tunnel a public
connection came in by. `proxy[p].st` follows a proxy connection: *connected* by the
client, *unclaimed* in a map of the server, *found* once `claimProxyConn` has found
its control, *bound* to a public connection, *free*, *starting* on its next one (the
request is under way), *answered* by the client, *dropped* when the request or its
answer was thrown away, or *stray*, which is to stay unclaimed for ever. `wait` says
whether the listener is about to enter it into `wait_for_start_proxy_conn_map_`, or
has.

The main thread is one actor, split in `handleNewTunnelReq` (`HandleNewTunnelReq`,
`AnnounceTunnel`): the tunnel listens before it is in `tunnel_map_` and before the
client is told. A worker is split in `claimProxyConn` (`FindControl`,
`ClaimProxyConn` or `ClaimNull`), which looks into the map twice, without a lock
each time: the entry may have been erased in between, and either lookup may miss it
while another is inserted (`Hidden`). The second one then makes a null pointer. The
listener is split behind the request to start (`NewPublicConnOnFree`, `AddWait`): if
`HandleStartProxyConnRsp` is earlier, the answer is dropped. The client drops the
request if its side is still in data mode (`HandleStartProxyConnReq`). The loss of a
client closes its connections one by one, in any order; `HandleCtlConnClose` comes
after its last message, and again with each later event. `Removed` is `std::remove`
as `free_proxy_conns_` sees it: without `erase` the list keeps its length and its
last slot is a moved-from pointer. A null pointer that is used sets `down`; the
clients then abort.

Three sets say which clients meet a fault: `Losable` may end at any time (a
failing `connect`, whose null pointer is dereferenced, is a client that ends inside
the handler), to the port of `Early` somebody connects before the client knows it,
and a lookup may miss the entry of `Racy` while another is inserted. The properties
about progress are about everyone else. Left out: that `rand_str` draws an id again that was taken
out of the map.

### ServerLoops

`main`, `thread` and `started` are the start-up: `Server::Server` makes the
listening thread, the pool makes and awaits one worker after the other, and
`Server::start` awaits the listener. `edge` holds the descriptors for which
`epoll_wait` has something to report, `batch` the ready channels a loop has still
to go through, `cur` the acceptor it is in. `Accept`, `AcceptNone`, `AcceptFails`
are an iteration of the accept loops. The listening sockets of tunnels block, so
`AcceptNone` is for the other two only. `Rearmed` is `Server::postHandler`, which
is installed for both acceptors and always arms `ctl_acceptor_`. `AcceptProxy`,
`EpollAdd`, `EnterChannel` hand a connection over; `WorkerReads` takes one message
and arms again, `WorkerMisses` drops an event that has no channel yet. A tunnel's
acceptor gets into the listener's poller in the same two steps of `PollAdd`
(`AddTunnel`, `EnterAcceptor`), and `Wait` drops an event that comes in between.

Three sets choose faults here too: `Dirty` (threads whose `started_`, which is
never initialised, happens to be true), `Overtaken` (connections and public ports
whose thread waits between `epoll_ctl` and the entry in `fd2chan_`), `Failing` (sockets on which
`accept` fails although somebody waits).

### Splice

Bytes are counted. A hop reads from its source into its pipe (`ReadIntoPipe`) and
writes from the pipe into its sink (`WriteFromPipe`); the other thread can get in
between. Sockets that come from `accept` block, those of `tcp_connect` do not:
`Blocks` says on which hop the server is. On the client the second `splice` moves
what fits, that much is counted, and the rest stays in the pipe until later bytes
push it on. Counters are residues modulo 2^w; -1, which stands for "not announced",
is the largest one.

## 3. Runs

| Run | Instance | Shows |
|---|---|---|
| `buffer_wrap` | capacity 1 to 6, two byte values, messages of 1 or 2 | `Fifo`: implements `ByteQueue` through wrap-around, doubling and growth by quarters; `TypeOK` |
| `buffer_clamp` | capacity 8 to 9, write errors | the growth loop hits the limit in mid-step: `GrowthInBounds`, `GrowthTerminates`; indices stay in the array |
| `tunnel_any` | 2 public clients, 2 proxy connections, 1 chunk each, `any` | `ClaimFindsPublic`, `NoSharedEnd`, `TypeOK` |
| `tunnel_banner` | 1 session, 2 chunks each way, `banner` | `RelaysLikeTcp`: implements `Relay`, all orders of data, notification and closing |
| `tunnel_dialogue` | 3 sessions of 3 chunks, closed by either side, listener of any speed, fair | `FreeIsQuiet`; `RelaysLikeTcp` across reuse; `SessionsComplete`, `ProxyReturns` |
| `ctl_loop` | only the loop thread sends: 5 messages in, 4 out, room for 2 | `InputIsRead`, `OutputIsWritten`, `CloseIsNoticed`, `ArmedAsleep`, `ClosedAfterDrained` |
| `registration` | 2 clients, 3 public and 3 proxy connections; one client is losable, early and racy | `OwnTunnel`, `ParkedAreAwaited`, `DownByLossOrRace`, `TypeOK`; `Registers`, `Served` |
| `server_loops` | 2 workers (one dirty), 1 tunnel, 2 connections of 2 messages (one overtaken), `accept` that fails on the control port | `LoopBeforeUse`, `NoneOverlooked`, `TypeOK`; `StartCompletes`, `Accepted`, `PublicAccepted`, `HandedOverIsRead` |
| `splice_full` | 9 bytes, `splice` of 2, pipes and sockets of 3, 3-bit counters, both directions | `EofAfterForwarded`, `EndsUnlessStuck`, `TypeOK` |

Bounds. The buffer's smallest capacities reach every branch: `DoubleBorder` 4
plays the part of 1024, the quarter of 4 is 1, and 8 + 2 exceeds 9. Two sessions
are the least in which one connection is reused or two compete for a list, three
those in which both happen; two chunks in a direction are the least for which
"all but the last was forwarded" differs from "nothing was". Public connections
are finite, so a tunnel run ends when all are served and deadlock is not checked
there; Buffer is checked for deadlock. A control connection comes to rest when it
is closed; five messages fill and refuse in a buffer for two and then drain it.
Two clients are the least in which one is at fault and one is not. Three sessions are
the least in which one client has two connections, so that `std::remove` moves
something, while the other is served. Two connections queue at
one port or compete at two; the second message of a connection needs the rearming
that the first did not. Nine bytes wrap a counter of three bits, and a pipe of 3 fills
with two calls of `splice` for 2. These runs end when nobody connects any more, so
deadlock is not checked.

Fairness. Weak fairness of each thread's next step: the threads loop on their
poller, a ready event is reported again after each handler, and no handler waits
for another. In a dialogue the applications go on too. No public client has to
connect. `GrowthTerminates` assumes only that the thread in the loop runs. In
`CtlConn` the loop thread and a thread inside `SendMsg` go on and the peer reads;
nobody has to send. In `Registration` the threads of both programs serve what
arrives; no client has to start or to be lost, nobody has to connect, no session has
to finish. `ServerLoops` is fair to each thread (each worker's connections among
themselves: `epoll_wait` reports all that are ready), `Splice` to both hops and to
the reader at the far end. A session whose answer overtook the listening thread is
not claimed to complete: `SessionsComplete` and `ProxyReturns` name this state
(`AnswerLost`, `Forgotten`) and say that it is the only one in which a dialogue is
left behind.

Runs that end in a violation, each against a sentence of the repository
(`PROJECT.json`, findings):

* `ctl_threads`: a comment calls `SendMsg` thread-safe; its `epoll_ctl` may use
  `events_` as read while `postHandle` rebuilds them and so take EPOLLOUT away
  after `postHandle` has asked for it. The message stays in the buffer until
  something else happens on the connection.
* `public_ports`: the README says every tunnel adds a public port. The listening
  sockets of tunnels block, so the first tunnel somebody connects to keeps the
  listening thread in `accept` and no other port is served. `server_loops` shows that
  one tunnel alone is.
* `splice_stuck`: the README says that all data has to be forwarded before `shutdown`
  is called. What the client's LocalConn could not move on from its pipe into a full
  proxy connection is not in the count it announces, so the server's count agrees
  without it and the public client sees a clean end of a truncated stream
  (`AllForwarded`). `splice_full` shows how much does hold: everything that reached
  the proxy connection is forwarded first, and the server's side keeps nothing back.

Limits that the passing runs respect, each seen in a counterexample when the
restriction named is lifted:

* `write()` that fails moves the read index back by one and the flush goes on
  (`Fifo` with `WriteMayFail`).
* A public client that speaks first: its data may reach the client's ProxyConn
  before `start()` and is parsed as a control message (`RelaysLikeTcp` with `any`).
* When both ends close at once the server frees a connection that is still in data
  mode on the client (`FreeIsQuiet` with `any`).
* An end-of-stream notification that overtakes the claim is dropped and the public
  client never sees the end (`SessionsComplete` outside a dialogue).
* Callers of an `Early` client stay parked, as do those of a `Racy` one whose lookup
  missed (`Served` for them).
* A lost client can bring the server down: `claimProxyConn` between its two lookups,
  or a null pointer that `std::remove` left. So can a client that registers while a
  worker is between them, if its insertion hides the entry the worker looks for, with
  no client lost. `DownByLossOrRace` says that nothing else does.
* A caller given to a free proxy connection is forgotten when the answer overtakes the
  listening thread, or when the client's side of the connection is still in data mode
  (`Served` and `SessionsComplete` without the disjuncts that say so).
* A connection, or a public port, whose first event is reported before `fd2chan_` has
  it is served after its next event only (`HandedOverIsRead`, `PublicAccepted` for
  `Overtaken`).
* Bytes stay in the pipe of the client when its socket is full. In the pipe of its
  ProxyConn they keep the end of the stream from coming, in that of its LocalConn they
  are cut off (`splice_stuck`); at 2^w - 1 bytes `recv_count_` meets the -1
  (`EndsUnlessStuck`, `EofAfterForwarded` without their premises).
* A proxy port on which `accept` failed is served again after the next arrival only
  (`NoneOverlooked`, `Accepted` for `"proxy"` in `Failing`).

Together with the passing runs they draw the line: the protocol relays correctly
when the local server speaks first and, across reuse, when the end that closes has
nothing in flight. (Main thread and worker may both find the counts equal and shut
one direction twice, which resets the connection while its own end is open. Within
a session no data is lost by that, as `tunnel_banner` shows.) `ProxyTunnel` takes
the control connection for a FIFO channel; `ctl_loop` justifies that for messages
the loop thread sends, `ctl_threads` shows what is assumed for the others.

## 4. Proofs

`BufferProofs`, for every capacity, limit and message length:

* `TypeCorrect`: `TypeOK` is inductive as it stands, also with write errors.
* `GrowthStaysInBounds`: `GrowthInBounds` is inductive relative to `TypeOK`. It
  needs all its parts: the loop was entered for a message with
  `capacity + length <= max_capacity`, so clamping still makes room.
* `BufferIsFifo`: without write errors, `Spec => Fifo`. The refinement mapping
  sends the array and indices to the sequence of unread bytes; one lemma per
  operation says what it does to that sequence (`InsertAppends`, `ResizeAppends`,
  `AdvanceTakes`, `SockTakesFront`), by comparing position by position, where an
  index wraps round at most once (`WrapOnce`).

Assumption (`BufferAssumption`): positive initial capacity, `DoubleBorder >= 4`
(1024 in the code), `Junk` is no byte, sizes are far below 2^w.

`ProxyTunnelProofs`, for any sets of connections and any number of chunks, from
`TunnelAssumption` (public and local connections are disjoint, `None` is neither of
them nor a proxy connection, and a proxy connection is not named like a main or the
listening thread, so that thread `<<"C", p>>` is the worker of p), and in every
environment (`any` included):

* `TypeCorrect`: `TypeOK` is inductive as it stands.

* `EndsNotShared` (`NoSharedEnd`). That no two ProxyConns have one peer says nothing
  of the peers that are still to come, so `PubInv` follows a public connection from
  the moment it is accepted: it is parked, once, or in a request to start, in its
  answer, or the peer of one ProxyConn, and all of these name one proxy connection.
  `LocInv` says the same of a local connection, with the threads inside `start()`.
* `ParkedCounted` (`ClaimFindsPublic`) and `ClaimNeverEmpty`: a worker that reads a
  meta message finds `undeal_public_fds_` not empty, so `back()` is never called on an
  empty vector. What is counted are positions of a sequence (`Counting`): appending
  adds one, reading the front takes one away. `MetaFirst` says that a meta message is
  the first thing on its connection and there once, and `KnownInv` that nothing refers
  to a proxy connection before the client has made it, so a new one starts empty;
  both are needed for the count of meta messages to move by exactly one.

The last three theorems rest on the inductive invariant `BindingInv`.

`SessionProofs`, for the same constants, if `Dialogue`: the applications behave as in
`dialogue` and the local server, which has to open, has something to say. Who closes
first, how much each says and how fast the listening thread is remain free.

* `SessionCorrect`: `SessionInv`, inductive relative to `TypeOK` and `BindingInv`. It
  says of each proxy connection which phase of a session it is in, and of each phase
  what both ProxyConns, both wires, the control connection, the two ends and the threads
  look like: `Blank` (unknown or free), `Invited` (asked to start), `Opening` (the client
  is inside `start()` or through it, the server is not), `Talking`, `Closing` (one end has
  closed, then both; notification, comparison of the counts and shutdown, on either side)
  and `Freeing`. In `Talking`, `Turn` bounds what each end has sent by what it has heard,
  so at most one chunk is in flight, and none when an end closes (`LastWord`). So no
  notification overtakes data and both counts agree when they are compared. In `Opening`
  a chunk may come right behind the answer, and the server that has dropped the greeting
  never gets any further.
  A step is on one proxy connection: `OnlyAt` says what it may change, `Apart` what the
  other sessions rest on, and `SessionStep` puts the two together, so that each action
  is only looked at for its own p. That sessions use different ends is `BindingInv`.
* `FreeStaysQuiet` (`FreeIsQuiet`): a connection in the free list is `Blank`.
* `TunnelRelays` (`RelaysLikeTcp`): the tunnel implements `Relay`. `ReadEnd` is `Send`,
  `ReadEof` `Close`, `TransferChunk` `Deliver`, `ShutdownFromRemote` `Finish`, all other
  steps stutter. The last two are where `SessionInv` is needed: what a started ProxyConn
  reads is the next chunk of its end's partner, and an end that is shut has heard all.

`CtlConnProofs`, for any capacity and number of messages:

* `TypeCorrect`, and `ClosesDrained` (`ClosedAfterDrained`), for any set of threads
  in `SendMsg`. `DrainInv` adds that `in_buffer_empty_` is only set at the end of
  the stream, after which nothing arrives.
* `LoopNeverDeaf`: if `Sender` is empty, `ArmedAsleep`. `ArmInv` follows the events
  from `postHandle` to `epoll_ctl`: while the loop thread does not hold `mutex_`,
  `events_` or the copy of it that is on its way ask for input and, if the buffer
  is not empty, for output.

`RegistrationProofs`, for any number of clients, connections and ids, any faults:

* `TypeCorrect` and `GivenToOwner` (`OwnTunnel`), from one inductive invariant.
  `OwnTunnel` alone is not inductive: `MapInv` adds that `control_map_` leads to the
  control with that id and that no two controls have one, `KnowInv` that a client
  knows only its own control's id and knows it before it asks for a tunnel,
  `ProxyInv` that a proxy connection on its way names its owner's control, and
  `ListInv` that the lists of a tunnel hold only what came in by it. The type
  invariant needs them too: a null id would otherwise be looked up. `OneProxy` states
  once what a step on one proxy connection has to keep.
* `ParkedAwaited` (`ParkedAreAwaited`) and `DownExplained` (`DownByLossOrRace`), from
  `ParkInv` on top of that. `Awaited` is the balance itself: parked connections against
  requests not yet read plus proxy connections not yet claimed. It is kept because of
  `Phase` (until the tunnel exists one message of the registration at most is under way,
  afterwards every message names that tunnel, so a client that is not `Early` never
  drops a request), `MapUp` (the control of a client that is there is in the map, so
  only a lost or `Racy` client's proxy connection becomes a stray) and `WayInv` (a proxy
  connection on its way names the tunnel its client knows, so the worker finds it).
  With `NullInv` (null pointers in a free list come from a lost client) the three places
  where the server uses a pointer or pops a list unchecked are covered. Once the server
  is down by a lookup that missed, nothing changes what explains it (`OverlookedKept`):
  the worker stays where it is and the main thread does not finish its insertion.

`ServerLoopsProofs`, for any number of threads, ports and connections:

* `TypeCorrect`; `LoopsExist` (`LoopBeforeUse`), with `StartInv`: threads that are
  still to be made are absent, `started_` of the others says whether they loop, and
  those the main thread has passed have started.
* `NothingOverlooked` (`NoneOverlooked`), with `WatchInv`: who waits does so at a
  socket that listens, and a loop is in a handler of its own descriptors only. Ports in
  `Overtaken` are excepted.

`SpliceProofs`, for any sizes of sockets, pipes and counters:

* `TypeCorrect` and `ForwardsBeforeShut` (`EofAfterForwarded`). The invariant is an
  account of the bytes: `Flow` (every byte is in one place, and the server leaves none
  in its pipe), `Counted` (below 2^w - 1 bytes the counts are what was moved, the
  announced count is final, and the receiver is shut when both agree), `Ended` (at
  the end of the stream the first hop is done).

Their assumptions (`RegistrationAssumption`, `ServerLoopsAssumption`,
`SpliceAssumption`) say that `None` is no object, that sorts are disjoint and that
sizes are positive, with a pipe and a socket no smaller than one `splice`.

Only model-checked: liveness, which under fairness is out of the prover's reach
(`SessionsComplete`, `ProxyReturns`, `GrowthTerminates`, `InputIsRead`, `OutputIsWritten`,
`CloseIsNoticed`, `Registers`, `Served`, `StartCompletes`, `Accepted`, `PublicAccepted`,
`HandedOverIsRead`, `EndsUnlessStuck`), and `RelaysLikeTcp` for `banner`. Every safety
invariant of the passing runs has a theorem.

## 5. Not modelled, and the plan

The repository's own code (`lib`, `server`, `client`) is about 2600 lines, of which
the modules map a good half; the rest is mostly declarations, includes, message
layouts, logging and socket options. The vendored spdlog under `include/`, some
25500 lines, is not this program's logic and is left out, which makes the mapped
share of all C++ lines small.

Left out, with the reason:

* `lib/Util` beyond what the modules use (system calls, random words), the two
  `Main.cpp` (command line), spdlog, the demo service under `test/`.
* Data races without a defined outcome: two threads in one `Buffer`
  (`ctl_conn.cpp:101`); `mutex_` and `cond_` of an EventLoopThread, used by a thread
  that starts before they are constructed. The ones with few outcomes are modelled
  (`events_`, `control_map_`, `started_`).
* `peer_closed_` and `in_buffer_empty_`, never initialised: with one of them true the
  first event closes the connection and nothing is left to state.
* An id that is drawn a second time after its control is gone: two equal words of
  36^5.
* `PollDel`, which runs when a connection is destroyed; descriptors that are never
  closed; `handleWrite` of a ProxyConn, which is that of a CtlConn; the client's
  own threads and pool, which start as the server's do.
* A message is read whole: `readn` loops through `EAGAIN` until it is.

Next: `RelaysLikeTcp` for `banner`. There data flows both ways at once, a notification
may overtake it and a direction may be shut twice, so the phases of a session no longer
follow one another and the invariant has to be one of counts.
