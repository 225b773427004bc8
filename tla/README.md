# A TLA+ model of ombrac

ombrac tunnels TCP streams and UDP packets over QUIC. A *client* offers local
endpoints (SOCKS, HTTP, a TUN device), keeps one authenticated QUIC connection to
a *server*, and the server dials the destinations. This directory holds TLA+
modules translated from the Rust sources, TLC configurations that check them on
small instances, and TLAPS proofs. `PROJECT.json` lists the runs, maps every
definition to the lines it models and lists the hazards the properties are aimed
at. Paths below are relative to `src/`.

## 1. Inventory

### Client

| part | state | operations | interacts with |
|---|---|---|---|
| Connection and repair, `crates/ombrac-client/src/connection/mod.rs` | `connection` (ArcSwap), `connection_id` (atomic), `reconnect_lock` with the throttle (`last_attempt`, `backoff`), metrics | `with_retry`, `reconnect`, `authenticate`, `is_connection_error` | every endpoint's task and the UDP dispatcher share it; the transport decides which errors count as a loss |
| UDP dispatcher and sessions, `connection/datagram.rs`, `client.rs` | `dispatch_map` (DashMap), one bounded channel per session, shutdown token, delay | `run`, `dispatch`, `register`/`unregister_session`, `UdpSession` drop, `Client` drop | reads datagrams through `with_retry`; sessions belong to SOCKS and TUN tasks |
| Fake DNS, `endpoint/tun.rs` | two caches (domain to address, address to domain), recycled addresses, cursor | `handle_dns_query`, `allocate_unique_ip`, eviction listener, `get_domain_by_ip` | TUN flows translate addresses back |
| TUN endpoint, `endpoint/tun.rs` | two forwarders, a TCP acceptor, a UDP loop, `active_sessions`, a task per flow and per TCP connection | forwarding, flow creation, idle timeout, relays, shutdown | netstack, client, fake DNS |
| SOCKS and HTTP endpoints, `endpoint/socks`, `endpoint/http.rs` | a task per connection; for an association the relay socket and `client_addr` | handshake, dial, reply, relay, UDP association | client |
| Buffered stream, `connection/stream.rs` | bytes read with the server's response | `poll_read` | the relays |
| Client service and C interface, `service.rs`, `ffi.rs`, `logging/ffi.rs` | `SERVICE_HANDLE`, a runtime, endpoint tasks, shutdown channel, `LOG_GUARD` | startup, rebind, shutdown, build | all endpoints |

### Shared crates

| part | state | operations |
|---|---|---|
| Protocol and codec, `crates/ombrac/src/{protocol,codec}.rs` | none | encoding, `split_packet` |
| Reassembly, `crates/ombrac/src/reassembly.rs` | cache of buffers by (session, fragment id) | `process`, `add_fragment`, `assemble_and_take`, eviction |
| Metrics, `crates/ombrac/src/metrics.rs` | relaxed atomic counters | increments, `snapshot` |
| Transport, `crates/ombrac-transport/src` | QUIC endpoint, accept backlog | connect, accept, rebind, error mapping, drop; `copy_bidirectional` |
| Netstack, `crates/ombrac-netstack/src` | smoltcp workers, ring buffers with wakers, buffer pool, UDP packet stream | accept loop, poll_read, poll_write, prune |

### Server

| part | state | operations |
|---|---|---|
| Acceptor, `crates/ombrac-server/src/connection/mod.rs` | permits, connection tasks, a token per connection, metrics | accept or reject, `perform_authentication`, `run_tunnel_loops` |
| Stream tunnel, `connection/stream.rs` | permits per connection, a task per stream, counters | accept, connect request, dial, answer, copy |
| Datagram tunnel, `connection/{datagram,dns}.rs` | session cache, a downstream task per session, handlers with permits, DNS cache | packet loop, session creation, eviction, downstream loop |
| Service, `service.rs` | accept-loop handle, shutdown channel | `shutdown`, `shutdown_with_drain` |

### What is hard here, and what correct means

* **Concurrency without transactions.** Two atomics stand for one logical pair
  (connection and id), two caches for one relation (fake DNS), two counters for one
  number (active streams). Correct: the pair, the relation and the number stay
  coherent, or are wrong by a known amount.
* **Guards held over awaits.** The dispatcher and the TUN flow table hold a DashMap
  guard while they wait for channel space. Correct: nobody waits for ever.
* **Hand-made wake-ups.** The netstack worker and its streams share rings, flags,
  wakers and one permit without a lock; the stack's sink polls a future it drops.
  Correct: nobody sleeps on work the other side has left for it.
* **Byte streams through many hands.** A byte passes a leftover buffer, chunks, rings
  and cancelled copies. Correct: the reader sees a prefix of what was written.
* **Cancellation.** A future can be dropped at any await, with the mutex guard it
  owns. Correct: locks and permits come back on every path.
* **Failure and retry.** Connections die, attempts fail, calls are throttled.
  Correct: a lost connection is replaced, and attempts keep their distance.
* **An unreliable wire.** Fragments are lost, reordered, duplicated, or arrive after
  their buffer was evicted. Correct: whole packets or nothing.
* **Shutdown.** Tasks are detached and learn of the end through tokens, closed
  connections and dropped values. Correct: everything that must stop stops.

## 2. Modules

Each module has an `MC` module with the instance TLC checks. Steps are cut at
awaits and between the accesses to shared state that another task can separate.
Operators whose comment begins with "Mutant" are variants of the definition below
them with a plausible mistake; `PROJECT.json` pairs each with the property that
notices it. They are not part of any specification.

**ClientConnection** (`connection/mod.rs`, error kinds of `quic/mod.rs`). A task's
`pc` is its place in `with_retry` or `reconnect`. Connections are numbered in the
order they are stored; `conn`, `old_conn_id` and `new_connection` are the task's
locals. `LoadConnection` and `LoadConnectionId` are two steps (lines 270-271), as are
`AuthenticateOk` and `PublishConnectionId` (the store and the `fetch_add`, 349-350).
Taking the lock, comparing ids and consulting the throttle are one step: all they
read is written under the lock. `Throttle` gives the lock back before it sleeps.
`NextBackoff` keeps the arithmetic of the jitter ([0.8, 1.2) of the doubled value,
capped before and after) as a set of ticks. `Cancel` is the dispatcher's future being
dropped at an await. Dead connections are of two kinds: `lost` (the error is one
`is_connection_error` accepts) and `broken` (mapped to `Other`; only a datagram send
reports it as a reset).

**UdpDispatcher** (`connection/datagram.rs`, `client.rs`). `dispatch` in state
`sending` holds the read guard of its target's shard; `OpenAssociate` and
`UnregisterSession` need the write lock. A drop has three steps: it begins,
`Drop::drop` removes the entry, the receiver field goes. `DropClient` cancels the
token, which `Stop` sees only while reading.

**FakeDns** (`endpoint/tun.rs`). One query at a time, because
`process_incoming_udp_packets` is the only caller of `handle_dns_query` and awaits it
before the next packet (440-443); so the load and the compare-and-exchange of the
cursor are one step (`AllocateFresh`). The query goes through the lookup, the recycled
queue or the cursor, and two inserts. Expiry of either cache and the two steps of the
listener do fall between them: moka evicts in whichever task uses a cache, and the TCP
and UDP flows look their addresses up beside the query. An `ip_to_domain` entry is not
evicted for capacity: the cache holds as many entries as there are addresses.

**ConnectionAcceptor** (`crates/ombrac-server/src/connection/mod.rs`,
`quic/server.rs`). A connection moves from the backlog through admission, the wait
for its control stream, hello, delay and answer to its tunnels. The two loops end on
their own conditions: the datagram loop takes a connection that timed out for a
quiet one and needs the token. Counters and permits change where the code changes
them.

**ServerShutdown** (`connection/stream.rs`, `service.rs`, `metrics.rs`, drop of the
QUIC server). Phases of stream tasks, the permits of a connection (derived from the
phases), the two counters the drain reads, and the two shutdown calls. The snapshot
is two loads. `EndpointCloses` is the drop of the server value at the end of the
call: it takes the connections with it, and they their streams, which is what
`StopLeavesNothing` is about; what the documents say of both calls is in section 6.
Loads are sequentially consistent and in program order, which allows the outcome
that matters: `streams_closed` seen without the matching `streams_opened`.

**UdpReassembly** (`reassembly.rs`, `split_packet`). `process` is one step: both
users call it from one loop. Its actions are the ways `add_fragment` can end, each
with the changes made before it ends: `get_with` inserts a buffer even if the
fragment is refused, size and address are stored before the slot is looked at.
Counts are u16 and wrap at `U16`. The wire carries what `split_packet` produces, any
fragment at any time and any number of times.

**DatagramTunnel** (`connection/datagram.rs`, `dns.rs`). The packet loop with its
inline resolution and bind retries, the session cache whose listener aborts the
downstream task, handlers with permits, the DNS cache keyed by the domain. The loop owns
the cache: when it returns, for a read error or the token (`LoopReturns`), the sessions
go with it and no listener runs. Their downstream tasks then end by the token, which
`run_tunnel_loops` cancels once a loop has returned.

**ByteStream** is the abstract specification of a relayed stream: the reader's bytes
are a prefix of the writer's, none lost, doubled or reordered inside it, and none
after the end. Two detailed modules implement it, checked as properties of their
runs (`RelayInOrder`, `HostBytesInOrder`) and proved (section 5).

**CopyBidirectional** (`ombrac-transport/src/io.rs`, `connection/stream.rs`). The two
copies `ab` and `ba`: a chunk is read (leftover bytes of the response first), written
byte by byte, counted when written whole; the copy that ends cancels the token, which
the other sees only at its next read. Peers send, end, break, take and stop taking.
It has no specification of its own: **ProxyConnection** extends it.

**ProxyConnection** (`endpoint/socks`, `endpoint/http.rs`, TCP of `endpoint/tun.rs`,
`open_bidirectional`). One connection of an endpoint, of any of the three kinds: SOCKS
negotiation and request, HTTP requests one after the other, the TUN's look at the
target; the dial, with the server's outcome carried through `ConnectErrorKind` and
`Reply::from_connect_error`; the answer; the relay. The client's own errors are told
apart from the server's: its timeout becomes the same reply as a dial that timed out, and
`ReplyReflectsDial` is stated both ways for what the server reported. An association is the `select!`
of `udp_relay_loop` with the arm it looks at next (`poll`): after an arm has run, it
starts over at the control connection. Every HTTP request dials on a stream of its own
(`NewStream`); the destination's bytes count as sent to the relay from the moment the
stream is handed to it (`Handed`), since those of a dial whose answer was never
delivered are dropped with its stream.

**NetstackTcp** (`ombrac-netstack/src/tcp.rs`, `device.rs`). A worker goes through its
stages (`drain`, `ingress`, socket I/O, pruning, `egress2`, `idle`); `poll_read`
and `poll_write` are cut at every load, register and store, because they run on other
threads. Rings hold bytes, `permit` is the Notify's, `recv_waker` and `send_waker` say
whether a waker is registered. A SYN on which the new socket cannot listen is dropped
before the device sees it. smoltcp is what the worker asks of it: the state of a
socket, its two buffers, `can_recv`, `can_send`, and which polls count as progress.

**TunEndpoint** (`endpoint/tun.rs`, `stack.rs`, `udp.rs`). The four tasks and the flows
over bounded channels. The UDP loop in state `send` has locked the shard of its
packet's address; `FlowRemoves` needs that shard. `PollFlush` at a full channel leaves
the forwarder `asleep`: the future of `reserve()` that would wake it is dropped.
`up`, `down`, `acceptor` and `loop` are the tasks, `flow[f]` the life of a flow, and a
packet is a kind (DNS, refused, malformed, of a local address, TCP, not IP).

**ClientService** (`service.rs`, `ffi.rs`, `logging/ffi.rs`). Threads of the host call
startup, rebind and shutdown; a service has a number, a runtime and a task per
endpoint; `port` says who has an address or device. A listener's address has one holder;
a TUN device has not: two services may each build one, or be given the same descriptor
(`tun_fd`), which the drop of either closes (`closed`). The handle is looked at last, so
two services exist for a while. `tracing` is the build with log support: its second
`init()` panics with the guard's mutex locked.

**How they fit together.** ClientService's endpoint tasks are the accept loops whose
connections are ProxyConnections and whose TUN is a TunEndpoint (`EndpointEnds` lets
the TUN be stuck because ShutdownEnds says it can be). ProxyConnection's dial and the
flows' sends go through ClientConnection; the answers of flows and associations come
from UdpDispatcher. TunEndpoint hands TCP packets to NetstackTcp and names to FakeDns.
On the other side of the wire are ConnectionAcceptor, ServerShutdown (streams, which
end in a CopyBidirectional) and DatagramTunnel, with UdpReassembly on both ends.

The theorems are in modules of their own (section 5). **ClientConnectionProofs**,
**ServerShutdownProofs**, **ProxyConnectionProofs** (with CopyBidirectional),
**NetstackTcpProofs** and **ClientServiceProofs** are about the module of that name.
Three are about two modules each, one beside the other: **TunProofs** about FakeDns and
TunEndpoint, **ServerConnectionProofs** about ConnectionAcceptor and DatagramTunnel,
**ClientUdpProofs** about UdpDispatcher and UdpReassembly. The two modules of a pair
share no constant and no variable, and no theorem speaks of both. So that both can be
extended, the second of each pair prefixes its standard names: `TunSpec`, `TunTypeOK`,
`TunnelSpec`, `ReassemblySpec`.

## 3. Runs

Twelve runs; every passing run explores its instance completely.

| run | instance | shows |
|---|---|---|
| ClientConnection | 2 tasks (one is the dispatcher), 2 connections that may die, 2 failed attempts, backoff 3 to 6 ticks | one dialler (`OneDialler`), id in step with the connection (`IdCountsConnections`), retries that never go back (`RetryAdvances`), a coherent throttle (`ThrottleCoherent`), attempts kept apart (`AttemptsSpaced`), a lost connection is replaced (`LostConnectionReplaced`), reconnect answers (`ReconnectAnswers`) |
| ClientConnection_stale_id | 2 tasks | *violation*: a task that read the old connection and the new id replaces a live connection |
| UdpDispatcher | 3 sessions, two in one shard, channels of 1, 2 datagrams each | `MapTracksSessions`, `ReceiverOutlivesSend`; a drop or the shutdown is held up only by a send to the full channel of a session being dropped (`DropCompletesUnlessWedged`, `ShutdownStops`) |
| FakeDns | one query at a time, 3 domains, 3 addresses | `OneOwner`, `AnswersMapBack` |
| ConnectionAcceptor | 3 clients, 1 permit, backlog of 1 | `PermitsConserved`, `CountersAgree`; a lost connection ends, authentication ends once its stream is open (`LostConnectionEnds`) |
| ServerShutdown | 3 streams of a connection with 2 permits | `CountersTrackStreams`, `DrainAnswerBounded`; cancelled streams end and none hangs before its answer (`CancelledStreamsEnd`); a server told to stop leaves nothing behind (`StopLeavesNothing`) |
| UdpReassembly | 4 packets: three share a key (different addresses, and a count that wraps), one has the largest count; 2 evictions | `EmittedWhole` (whole, with its own address), `PacketsAssemble` |
| DatagramTunnel | 3 packets of 2 sessions for 2 ports of one domain and one of another, 1 permit, 2 bind attempts, 2 evictions | `LoopsMatchSessions` (while the loop runs: one task per session, closes counted), `PacketsHandled`, `CancelStopsTasks` |
| ProxyConnection | one connection of each kind, 3 HTTP requests, 2 datagrams from 2 senders and 2 from the tunnel, 2 bytes each way, chunks of 2, windows of 1 | both directions implement ByteStream (`RelayInOrder`), the direction that ends first is whole and counted (`FirstToEndIsWhole`), the reply tells what the server met, and nothing it did not meet (`ReplyReflectsDial`), `RelayEnds`, `AssociationEnds` |
| NetstackTcp | 1 stream, 4 segments, 2 writes, rings of 1, socket buffers of 2, queues of 1 | no side sleeps on bytes or room the other left for it (`NoMissedWork`, `NoLostWakeup`); ByteStream for the host's bytes (`HostBytesInOrder`) |
| TunEndpoint | 2 local addresses in one shard, 3 packets, 1 answer, every channel of 1 | `MapMatchesFlows`; the loop comes back and shutdown ends except at the two deadlocks (`UdpLoopMoves`, `ShutdownEnds`) |
| ClientService | 2 threads, 2 services, 2 endpoints (a listener and the TUN) | `NoOrphanService`; a running service keeps handle, endpoints, addresses and, but for a shared descriptor, device (`RunningServiceKept`); `ShutdownCallReturns` |

`TypeOK` of each module (`TunTypeOK`, `TunnelTypeOK`, `ReassemblyTypeOK` where the names
are prefixed) documents its state and is proved (section 5).

Further configurations, not among the runs, ask a question of a run's module again:
`ClientConnection_safety.cfg` repeats the safety properties and `TypeOK` with three
tasks under symmetry; the others exhibit the disagreements of section 6 and are
violated: `UdpDispatcher_full_channel.cfg`, `ConnectionAcceptor_silent_peer.cfg`,
`ServerShutdown_drain.cfg`, `ServerShutdown_waits.cfg`, `ServerShutdown_spares.cfg`,
`DatagramTunnel_dns_port.cfg`, `DatagramTunnel_uncounted.cfg`,
`NetstackTcp_idle_worker.cfg`, `NetstackTcp_lost_eof.cfg`, `TunEndpoint_malformed.cfg`,
`ClientService_restart.cfg`, `ClientService_tun.cfg` (each with the `MC` module of its
name).

**Why the bounds are enough.** Each instance is the smallest in which the contended
thing is contended. Two deaths let a replacement die too, which the torn reads need;
two failures take the backoff to its cap (initial 3, doubled 6, jitter from 4.8). A
third task, in ClientConnection_safety, lets two waiters queue behind a dialler. A channel
of one with two datagrams overflows; a shared shard blocks a session that is not the
target. Three domains for three addresses, with a domain whose entry expires before its address,
exhaust the pool and reuse recycled ones. Two evictions
let a session or a buffer be evicted, come back and be evicted again. Three streams
with two permits let one wait, one be in flight and one open and close between the
loads. Two bytes with a chunk of two and a window of one interrupt a chunk in the
middle; a second HTTP request shows that nothing of the first is left and a third that
an abandoned dial leaves nothing to the next; two senders make the first one's memory
matter. Four segments are a SYN, two of data and a FIN,
in any order, and a ring of one is full after one byte, so that every load of
`poll_read` and `poll_write` can see both answers; one stream is enough because
streams share only the worker's permit, and a retransmitted SYN is tried on the same
addresses. Two addresses in one shard let a flow wait for a lock taken for another,
three packets fill a channel of one and the hand of the loop. Two services are the
running one and the one that comes second. Bounds appear in guards only (`MaxDeaths`,
`MaxFails`, `MaxArrivals`, `Sessions`, `MaxEvictions`, `MaxBytes`, `MaxRequests`,
`MaxDatagrams`, `MaxPackets`, `MaxWrites`, `MaxStreams` of NetstackTcp, `MaxAnswers`,
`MaxServices`) and stand for arrivals, calls and failures, never for steps the program
must take. Symmetry is used in ClientConnection_safety only, on the interchangeable
tasks and without liveness.

**Deadlock** is checked where the system goes on for ever (ClientConnection, FakeDns,
UdpReassembly) and not where clients, packets or streams are used up or the service
returns.

## 4. Fairness

* Tokio polls tasks that can run: weak fairness of a task's own steps.
* Tokio's mutex and semaphore queue their waiters, so a waiter that finds them free
  again and again gets them: strong fairness of `EnterReconnect` and `AcquirePermit`.
  The same for a DashMap shard lock that keeps becoming free (`UnregisterSession`)
  and for a `select!` branch that is ready again and again (`Stop`, `StopReading`).
* Timeouts in the code make operations end: AUTH_TIMEOUT on an attempt,
  `auth_timeout` after the control stream is open, HANDSHAKE_TIMEOUT and
  UPSTREAM_CONNECT_TIMEOUT on streams, `drain_timeout`. The resolver has its own.
* The answer to a stream has no timeout (`stream.rs` 208): it is assumed to end only with
  its connection, since a peer that withholds flow-control credit holds it, and the
  permit, for as long as the connection is up. The bytes left over from the framing, at
  most one read buffer, are taken to be written to a fresh destination socket or to fail.
* DatagramTunnel: once the packet loop has returned, `run_tunnel_loops` cancels the token.
* `LostConnectionReplaced` is about a client in use: tasks call `with_retry` again.
  The dispatcher's read on a live connection need not return.
* An open session's owner reads its channel (`RecvFrom`); nothing makes it drop it.
* `PacketsAssemble` is conditional: it assumes that fragments keep arriving, because
  nothing in the code sends one again.
* ProxyConnection: the handler's task is polled, and with it both copies (`join!`). A
  dial is not assumed to end; `send_to` of a session is, by ClientConnection.
* TunEndpoint: the four tasks and the flows are polled, and the write to the device
  returns. A flow that waits for a shard of the map blocks its thread (DashMap's locks are
  not asynchronous); the runtime is assumed to have another one. A forwarder asleep at a full channel has no step; packets, answers, timers
  and the signal need not come.
* ClientService: calls in progress and endpoint tasks run, a runtime shut down in the
  background drops what is left. The host is not assumed to call anything.
* NetstackTcp has no fairness: its properties are about states in which somebody
  sleeps, which need none.
* Nothing else is assumed of peers and destinations, and no copy is assumed to end while
  its connection is up.

## 5. Proofs

`ClientConnectionProofs` proves, for every set of tasks and every value of the
constants that satisfies `ConstantsAssumption`:

| theorem | statement |
|---|---|
| Invariance | `Spec => []IInv` |
| TypeCorrect | `Spec => []TypeOK` |
| MutualExclusion | `Spec => []OneDialler` |
| IdAgreement | `Spec => []IdCountsConnections` |
| RetryProgress | `Spec => []RetryAdvances` |
| ThrottleAgreement | `Spec => []ThrottleCoherent` |
| Spacing | `Spec => AttemptsSpaced` |

`ConstantsAssumption` asks that the dispatcher is a task, that the free value of the
mutex is none, that the initial backoff is positive and that the cap is at least twice
as large (mod.rs has 1 s and 60 s). The last one is needed: with a cap closer to the
initial value the jitter could bring the backoff below it.

`OneDialler` and `RetryAdvances` are not inductive. The argument needs who holds the
mutex and how stale a task's copies can be:

* `LockHeld`: the mutex is held exactly by the task that dials. With `StartAttempt`
  requiring a free mutex this gives mutual exclusion.
* `LocalsLag`: past the second load, a task's connection is at most one ahead of its
  id and its id is not from the future; a dialling task's id is current, so the id
  cannot change under it; a task sent to reload has an id smaller than the current
  one, so what it loads then is newer than that id. From it follows that a retry uses
  a connection newer than the failed one, or the failed one itself in the single case
  that its id was not yet published when it was read.
* `IdCountsConnections` ties the two shared variables together, and the
  arithmetic of `NextBackoffBounds` keeps the backoff between its bounds.

`IInv` is the conjunction of these with `TypeOK` and `ThrottleCoherent`; its proof has
one step per action. `AttemptsSpaced` follows from `IInv` and the guard of
`StartAttempt`.

`ClientUdpProofs` proves of UdpDispatcher, for any number of sessions, any assignment of sessions
to shards and any channel size, `Invariance` (`Spec => []IInv`), `TypeCorrect`,
`NoLeak` (`Spec => []MapTracksSessions`) and `SendsToLiveReceiver`
(`Spec => []ReceiverOutlivesSend`). The last one is not inductive: the invariant adds
`GuardKeepsEntry`, that the target of a send is in the map. It is kept because
removing an entry needs the write lock of its shard, which the guard of the send
excludes; with `MapTracksSessions` an entry in the map has its receiver. The
assumptions are the positivity and order of the constants.

Of UdpReassembly it proves, for any packets, keys, addresses and numbers of chunks, any
`MaxFragmentCount` and any width of the counts:

| theorem | statement |
|---|---|
| ReassemblyInvariance | `ReassemblySpec => []ReassemblyIInv` |
| ReassemblyTypeCorrect | `ReassemblySpec => []ReassemblyTypeOK` |
| PacketsWhole | `ReassemblySpec => []EmittedWhole` |
| NoHoles | `ReassemblySpec => []EmittedFull` |

What is returned was put together over many calls, so the invariant is about the buffer
between two calls (`BufferSound`): it has as many slots as its first fragment said, a
filled slot *i* holds a chunk whose index is *i* modulo `U16`, of a packet with the
buffer's key and count, `received_count` is the number of filled slots, and there is an
address exactly if slot 0 is filled, that of its chunk's packet. The last part is the
delicate one: `add_fragment` stores the address before it looks at the slot, and the proof
has to show (`RefusedUnaddressed`) that no fragment which is then refused leaves an
address behind. That `received_count` counts the filled slots is what makes a complete
buffer one without a hole (`FS_Subset`), so the branch of `assemble_and_take` that "should
not happen" does not. `EmittedWhole` asks that the packet is alone under its key and that
its chunks number less than 2^16: `split_packet` casts the count to a u16, and a packet
whose count wraps is cut off without an error. Nothing is assumed of the others: the
packets that share a key or wrap are among those the theorem quantifies over.

`TunProofs` proves of FakeDns, for any set of domains and any size of the pool
(`ConstantsAssumption`: the absent domain is no domain):

| theorem | statement |
|---|---|
| Invariance | `Spec => []IInv` |
| TypeCorrect | `Spec => []TypeOK` |
| AddressesConserved | `Spec => []OneOwner` |
| AnswersSound | `Spec => []AnswersMapBack` |

`OneOwner` is not inductive: the inserts write what the query's locals say. `LocalsHold`
says what those locals are at each step and `CursorInPool` that the cursor never points
before the pool. `AnswersMapBack`
needs `OneOwner` (an address that a query holds has no listener running) and
`HalfMapped`: between its two inserts the query's address still maps to its domain.

Of TunEndpoint it proves, for any local addresses, any sharding of the map and any channel
sizes (`TunAssumption`), `TunInvariance` (`TunSpec => []TunIInv`), `TunTypeCorrect` and
`FlowsTracked` (`TunSpec => []MapMatchesFlows`). A new flow is entered in the map under
the address of the packet in hand, so its number must be unused (`FlowsInOrder`) and every
flow must have an address (`OwnersLocal`). A send that waits for room goes on through an
entry that it looked up before: `EntryKept` says that it is still there, which holds
because `FlowRemoves` needs the shard the loop has locked. `FlushHolds` and `TcpBounded`
carry the types: a forwarder that flushes has a packet, and streams are no more than the
packets that came.

`ServerConnectionProofs` proves of ConnectionAcceptor, for any finite set of connections,
any `max_connections` and any backlog, `Invariance`, `TypeCorrect`, `PermitConservation`
(`Spec => []PermitsConserved`) and `MetricsExact` (`Spec => []CountersAgree`). Both
properties are equations between a counter and the size of a set. A step moves one
connection, so each of the four sets gains it, loses it or stays, and the lemmas count
(FiniteSetTheorems). A connection is known to have failed authentication by a stream loop
that never started, which needs `LoopsStart`: the stages at which that loop is still off.

Of DatagramTunnel it proves, for any finite set of packets, any sessions and destinations
and any limits (`TunnelAssumption`):

| theorem | statement |
|---|---|
| TunnelInvariance | `TunnelSpec => []TunnelIInv` |
| TunnelTypeCorrect | `TunnelSpec => []TunnelTypeOK` |
| TasksMatchSessions | `TunnelSpec => []LoopsMatchSessions` |
| HandlerPermits | `TunnelSpec => []SemaphoreBalanced` |

`LoopsMatchSessions` equates a set of tasks with the instances in the cache and the
difference of two counters with the number of cached sessions. An eviction takes exactly
one task only if no two sessions have the same instance (`OneInstance`). A creation adds
one session only if that session is not cached, which was found out before the resolution
and the bind retries: `NotCachedYet` carries it over them, and holds because the loop is
the only one that creates. `CacheDropped` says that a loop that has returned has left no
session, so no eviction follows and nothing is counted twice. `SemaphoreBalanced` needs that the packet in hand has no handler
yet and does not come twice (`PacketInHand`, `UnsentUnhandled`); no run
states it.

`ServerShutdownProofs`, for any finite set of streams spread over any connections and any
number of permits, proves `Invariance`, `TypeCorrect`, `CountersExact`
(`Spec => []CountersTrackStreams`) and `DrainAnswer` (`Spec => []DrainAnswerBounded`). The
first is inductive with the types. The second needs `AnswerFinal`: an answer of true ends
the poll, so no later load moves the snapshot, and by then the closed streams have
reached it.

`ClientServiceProofs`, for any set of host threads, any non-empty set of endpoints and any
number of services:

| theorem | statement |
|---|---|
| Invariance | `Spec => []IInv` |
| TypeCorrect | `Spec => []TypeOK` |
| NoServiceOrphaned | `Spec => []NoOrphanService` |
| ServiceKept | `Spec => RunningServiceKept` |

A call that returns gives up the service in its hand, so the invariant has to say that by
then the service is stored, dropped or joined. `HandsHold` says at which steps a call has
one in hand, `OneHolder` that no two calls have the same one and that it is not the
stored one, `StoredRuns` that what is stored has its runtime and has not been told to
stop, `JoinedDone` that a
shutdown past its join has no task left, `PortsBound` which task holds an address or device, and an address alone, and
`Fresh` that numbers not given out are unused. `ServiceKept` is an action property and
follows from `IInv` with one step per action: what ends or lets go in a step is never the
stored service (`OneHolder`, `StoredRuns`), and another one takes nothing of it with it but
a descriptor they share (`OtherServiceEnds`).

`ProxyConnectionProofs`, for all bounds on bytes, requests and datagrams and any positive
chunk size and window (`ProxyAssumption`, `CopyAssumption`):

| theorem | statement |
|---|---|
| Invariance | `Spec => []IInv` |
| TypeCorrect | `Spec => []TypeOK` |
| FirstToEndWhole | `Spec => []FirstToEndIsWhole` |
| AnswersReflectDial | `Spec => []ReplyReflectsDial` |
| RelayImplementsByteStream | `Spec => RelayInOrder` |

The n-th byte of a direction is the number n, so a part of a stream is a run of
consecutive numbers and order is a matter of where each run begins. `Stretches` says that
what was delivered, the chunk in hand, the leftover of the framing and the unread bytes
follow each other without a gap and reach to the end of `sent`, or not that far once the
source has broken. `ChunkInHand` ties the counts to the chunk, `RelayOnly` and
`NoLeftover` say that nothing is copied or left over before a dial has succeeded,
`DialKnown` and `BytesAnswered` what the handler knows of the dial at each stage, and
`FirstWhole` that the copy that ended first at end of file had delivered everything.
`ReplyReflectsDial` also needs `AnswerKnown`, carried beside `IInv`: the error a failed
dial leaves is what the server's became on its way, and a SOCKS connection is answered
once, with what `from_connect_error` makes of it. For
the refinement each action is shown to be a `Write`, a `Read` or an `End` of `ByteStream`
or to leave its three variables alone: a peer's send is a `Write`, and so is the hand-over
of a stream that came with bytes; a byte written by a copy is a `Read` (it prolongs a run
inside the run sent), a copy that returns an `End`.

The first attempt failed, for a reason: with three HTTP requests the model kept the bytes
of a destination whose 200 could not be delivered for the next dial, so a relay could
deliver bytes of another stream. The code dials on a new stream; `NewStream` is now part
of `HttpRequest`. Two requests, the bound until then, could not show it.

`NetstackTcpProofs`, for any number of streams, segments and writes and any positive size
of rings, buffers and queues (`NetstackAssumption`):

| theorem | statement |
|---|---|
| Invariance | `Spec => []IInv` |
| TypeCorrect | `Spec => []TypeOK` |
| NoWorkMissed | `Spec => []NoMissedWork` |
| NoWakeupLost | `Spec => []NoLostWakeup` |
| StreamsImplementByteStream | `Spec => HostBytesInOrder` |

`NoMissedWork` speaks of the idle worker only. `Settled` follows the worker to that point:
once the sockets' I/O, and then the pruning, was done without progress there is nothing to
do for any stream, unless a stream has changed something since, and then it is about to
notify or the permit is stored. `NoLostWakeup` needs `Registered`: whoever is between
registering and sleeping has its waker in place, so the worker's next push or pop finds
it. It is about bytes and room; the end of the stream is not covered (section 6). The bytes read, those in the ring and those in the socket's buffer make up what was
received, in order (`Stretches`), whichever load of `poll_read` a push meets; a segment
accepted is then a `Write`, bytes taken a `Read`, a look that finds `read_closed` an `End`.
This extends the run's one stream to any number of them.

Each `IInv` was checked by TLC on its run's instance before it was proved.

**Only model-checked:**

* all liveness (the `PROPERTY` of a run other than `AttemptsSpaced`, `RunningServiceKept`
  and the two refinements): fairness and ENABLED are outside the prover;
* the violation of ClientConnection_stale_id, which is a trace.

## 6. Disagreements between the code and its documents

All are under `findings` in `PROJECT.json`, with the text they disagree with. Those
with a trace name the configuration:

* `with_retry` can pair a dead connection with the id of its replacement and then
  replaces a live one ("If another task has already reconnected, this function
  returns immediately"): run ClientConnection_stale_id.
* Dropping a UDP session whose channel is full while `dispatch` waits for it blocks
  both for good: `UdpDispatcher_full_channel.cfg`.
* `auth_timeout_secs` does not cover the wait for the control stream:
  `ConnectionAcceptor_silent_peer.cfg`.
* The datagram tunnel's DNS cache remembers a port under the domain alone:
  `DatagramTunnel_dns_port.cfg`.
* The netstack worker waits without a timer when `poll_delay` is zero, so what a socket
  could not send while the outbound channel was full waits for an unrelated event:
  `NetstackTcp_idle_worker.cfg`.
* A UDP packet that cannot be parsed is not skipped, it ends the UDP loop of the
  endpoint: `TunEndpoint_malformed.cfg`.
* A second `init_for_ffi` does not replace the guard, it panics and poisons it; with
  tracing, a service cannot be started twice in a process:
  `ClientService_restart.cfg`.
* `shutdown_with_drain` may answer true with a stream in flight, because it derives the
  number from two loads ("Returns `true` if all streams drained within the timeout"):
  `ServerShutdown_drain.cfg`. `DrainAnswerBounded` says by how much it can be wrong.
* The server's `shutdown` does not "Wait for existing connections to close":
  `ServerShutdown_waits.cfg`.
* A drain that timed out does not leave the streams in flight running: the drop of the
  QUIC server at its end closes their connections ("they are not hard-cancelled by this
  call"): `ServerShutdown_spares.cfg`.
* UDP sessions that are live when their connection ends are never counted closed, nor are
  their bytes: `DatagramTunnel_uncounted.cfg`.
* A netstack reader can sleep over the end of its stream: `poll_read` looks at
  `read_closed` before it registers its waker and not again: `NetstackTcp_lost_eof.cfg`.
* A second startup that is refused closes the TUN device of the running service if both
  were given the same descriptor: `ClientService_tun.cfg`.
* By inspection: `OmbracClient::shutdown` does not close existing connections,
  `transport.bind` of the client is parsed and never used, and the server's streams
  count `bytes_rx` and `bytes_tx` the wrong way round.

Seen while modelling, without a document that says otherwise:

* `reconnect` stores the connection before its id: a task in between may retry on the
  connection that just failed. `RetryAdvances` states exactly this exception.
* A connection that dies with an error of kind `Other` is replaced only if somebody
  sends a datagram; `LostConnectionReplaced` is therefore about `lost` connections.
* `add_fragment` accepts a first fragment without an address; such a buffer fills up
  and is never returned. `split_packet` does not produce one.
* `split_packet` asserts a positive count where its comment says "fits in u16".
* `StackSplitSink::poll_flush` drops the future that would wake it, so the forwarder of
  the TUN sleeps for good at a full channel and shutdown waits for it; the UDP loop and
  a flow that ends can wait for each other. `ShutdownEnds` and `UdpLoopMoves` state
  these two exceptions.
* A netstack stream whose host has sent FIN sees no end of file until the socket is
  closed (`is_open` holds in CloseWait); dropping a stream aborts its socket with what
  is unsent; a writer of a pruned socket is not woken.
* Answers of a UDP flow carry the flow's first destination as their source, whoever
  sent them (`relay_udp_flow`).
* The client never increments `streams_closed`.

## 7. Not modelled

* Wire encoding (serde, bincode, the length codec), TLS, congestion control, endpoint
  and device configuration, log formatting, configuration parsing and merging:
  conversions and set-up without state that changes.
* The server's C interface: the client's, which ClientService models, with another
  service inside.
* The netstack's buffer pool: it recycles memory and no behaviour depends on it.
  The choice of a TCP worker by hash: all packets of an address pair go to one worker,
  so NetstackTcp is about one.
* hyper's part of the HTTP endpoint: a request other than CONNECT is one exchange.
* Byte counters of the server and `streams_failed`, which nothing reads.
* In DatagramTunnel, literal addresses (they skip the DNS cache) and the address
  family of a session's socket.
* In ClientService, which of two services that share a TUN descriptor reads a packet, and
  what else may get the number of a descriptor that is closed twice.
* The lifetime of a DNS answer in an application's hands: FakeDns has no clock.
* quinn, moka, DashMap, tokio, hyper and smoltcp are external: their part is the guards
  and the environment actions of the modules.

## 8. Plan

The components are modelled, and every safety property of the runs is proved for all
values of the constants. What is left is composition, if a later look finds it worthwhile:

* client `authenticate` against `perform_authentication`, over a stream that may break;
* FakeDns with the lifetime of an answer and the flows that use it;
* the datagram path from a session's `send_to` through `split_packet` and the wire to
  DatagramTunnel, with the fragment ids that UdpReassembly takes as given.
