---------------------------- MODULE DatagramTunnel ----------------------------
(***************************************************************************)
(* The server's UDP side of one client connection.                         *)
(*                                                                         *)
(* crates/ombrac-server/src/connection/datagram.rs: one loop reads the     *)
(* client's packets.  For each it gets or creates the session (a UDP       *)
(* socket, a task that carries answers back, an entry in a moka cache),    *)
(* waits for a permit and spawns a handler that resolves the destination   *)
(* and sends.  The cache evicts idle and surplus sessions; its listener    *)
(* aborts the downstream task and counts the session closed.               *)
(*                                                                         *)
(* A destination is a domain and a port.  A domain's address is its name:  *)
(* resolution yields <<domain, port>>.  A literal address is not looked up *)
(* and is left out.  Sessions get a fresh instance number when created.    *)
(***************************************************************************)
EXTENDS Integers, FiniteSets

CONSTANTS Packet,       \* packets the client sends, each once
          SessionOf,    \* session_id of each packet
          DomainOf,     \* destination of each packet
          PortOf,
          MaxHandlers,  \* MAX_CONCURRENT_HANDLERS
          BindRetries,  \* SOCKET_BIND_RETRY_MAX
          MaxEvictions, \* bound: sessions the cache evicts
          NoPacket,     \* the loop has no packet
          NoAddress     \* the domain is not in dns_cache

Session == {SessionOf[p] : p \in Packet}
Domain == {DomainOf[p] : p \in Packet}
Resolved(p) == <<DomainOf[p], PortOf[p]>>
Addresses == {Resolved(p) : p \in Packet}

ASSUME TunnelAssumption ==
    /\ IsFiniteSet(Packet)
    /\ NoPacket \notin Packet
    /\ NoAddress \notin Addresses
    /\ MaxHandlers \in Nat \ {0}
    /\ BindRetries \in Nat \ {0}
    /\ MaxEvictions \in Nat

VARIABLES
    unsent,       \* packets the client may still send
    pc,           \* where accept_loop / handle_upstream_packet stands
    packet,       \* the packet in hand
    attempt,      \* failed binds of the socket it needs
    sessions,     \* cache: session_id -> instance number, 0 when absent
    created,      \* instances created so far
    loops,        \* instances whose downstream task runs
    handler,      \* phase of each packet's handler task
    instance,     \* the session instance that handler holds
    semaphore,    \* available permits of the semaphore
    dns_cache,    \* domain -> address
    sent,         \* <<packet, address>>: what went out on the sockets
    opened, closed,  \* metrics.udp_sessions_opened, _closed
    shutdown      \* the token is cancelled

udp == <<sessions, created, loops, opened, closed>>
tasks == <<handler, instance, semaphore, sent>>
loop == <<unsent, pc, packet, attempt>>
tunnelVars == <<loop, udp, tasks, dns_cache, shutdown>>

Running == {p \in Packet : handler[p] \in {"lookup", "resolve"}}

-----------------------------------------------------------------------------
TunnelInit ==
    /\ unsent = Packet
    /\ pc = "read"
    /\ packet = NoPacket
    /\ attempt = 0
    /\ sessions = [s \in Session |-> 0]
    /\ created = 0
    /\ loops = {}
    /\ handler = [p \in Packet |-> "none"]
    /\ instance = [p \in Packet |-> 0]
    /\ semaphore = MaxHandlers
    /\ dns_cache = [d \in Domain |-> NoAddress]
    /\ sent = {}
    /\ opened = 0
    /\ closed = 0
    /\ shutdown = FALSE

(***************************************************************************)
(* accept_loop and handle_upstream_packet                                  *)
(***************************************************************************)
ReadDatagram(p) ==
    /\ pc = "read"
    /\ p \in unsent
    /\ unsent' = unsent \ {p}
    /\ packet' = p
    /\ pc' = "session"
    /\ UNCHANGED <<attempt, udp, tasks, dns_cache, shutdown>>

\* try_get_with finds the session.
SessionFound ==
    /\ pc = "session"
    /\ sessions[SessionOf[packet]] # 0
    /\ instance' = [instance EXCEPT ![packet] = sessions[SessionOf[packet]]]
    /\ pc' = "permit"
    /\ UNCHANGED <<unsent, packet, attempt, udp, handler, semaphore, sent, dns_cache, shutdown>>

\* try_get_with runs the initializer: lookup_host finds the domain in the cache.
SessionCachedHost ==
    /\ pc = "session"
    /\ sessions[SessionOf[packet]] = 0
    /\ dns_cache[DomainOf[packet]] # NoAddress
    /\ pc' = "bind"
    /\ UNCHANGED <<unsent, packet, attempt, udp, tasks, dns_cache, shutdown>>

SessionResolves ==
    /\ pc = "session"
    /\ sessions[SessionOf[packet]] = 0
    /\ dns_cache[DomainOf[packet]] = NoAddress
    /\ pc' = "resolve"
    /\ UNCHANGED <<unsent, packet, attempt, udp, tasks, dns_cache, shutdown>>

SessionResolved ==
    /\ pc = "resolve"
    /\ dns_cache' = [dns_cache EXCEPT ![DomainOf[packet]] = Resolved(packet)]
    /\ pc' = "bind"
    /\ UNCHANGED <<unsent, packet, attempt, udp, tasks, shutdown>>

\* "Failed to get or create session": the packet is dropped.
DropPacket ==
    /\ packet' = NoPacket
    /\ attempt' = 0
    /\ pc' = "read"
    /\ UNCHANGED <<unsent, udp, tasks, dns_cache, shutdown>>

SessionUnresolved == pc = "resolve" /\ DropPacket

BindRetry ==
    /\ pc = "bind"
    /\ attempt + 1 < BindRetries
    /\ attempt' = attempt + 1
    /\ UNCHANGED <<unsent, pc, packet, udp, tasks, dns_cache, shutdown>>

BindFails ==
    /\ pc = "bind"
    /\ attempt + 1 = BindRetries
    /\ DropPacket

\* The socket is bound: spawn the downstream task, count, insert.
CreateSession ==
    /\ pc = "bind"
    /\ created' = created + 1
    /\ loops' = loops \union {created + 1}
    /\ opened' = opened + 1
    /\ sessions' = [sessions EXCEPT ![SessionOf[packet]] = created + 1]
    /\ instance' = [instance EXCEPT ![packet] = created + 1]
    /\ attempt' = 0
    /\ pc' = "permit"
    /\ UNCHANGED <<unsent, packet, closed, handler, semaphore, sent, dns_cache, shutdown>>

SpawnHandler ==
    /\ pc = "permit"
    /\ semaphore > 0
    /\ semaphore' = semaphore - 1
    /\ handler' = [handler EXCEPT ![packet] = "lookup"]
    /\ packet' = NoPacket
    /\ pc' = "read"
    /\ UNCHANGED <<unsent, attempt, udp, instance, sent, dns_cache, shutdown>>

\* accept_loop owns the tunnel: when it returns the session cache is dropped, and
\* no listener runs for what is in it.  The tasks of those sessions go on.
LoopReturns ==
    /\ pc' = "stopped"
    /\ sessions' = [s \in Session |-> 0]
    /\ UNCHANGED <<unsent, packet, attempt, created, loops, opened, closed, tasks,
                   dns_cache, shutdown>>

\* The connection is gone: the loop returns the error.
ReadFails == pc = "read" /\ LoopReturns

StopReading == pc = "read" /\ shutdown /\ LoopReturns

(***************************************************************************)
(* The handler: lookup_host and send_to.                                   *)
(***************************************************************************)
\* Mutant: the permit is not released.
FinishKeepsPermit(p) ==
    /\ handler' = [handler EXCEPT ![p] = "done"]
    /\ UNCHANGED <<instance, semaphore>>

Finish(p) ==
    /\ handler' = [handler EXCEPT ![p] = "done"]
    /\ semaphore' = semaphore + 1
    /\ UNCHANGED instance

\* dns_cache is keyed by the domain alone; its value carries a port.
LookupCached(p) ==
    /\ handler[p] = "lookup"
    /\ dns_cache[DomainOf[p]] # NoAddress
    /\ sent' = sent \union {<<p, dns_cache[DomainOf[p]]>>}
    /\ Finish(p)
    /\ UNCHANGED <<loop, udp, dns_cache, shutdown>>

LookupMisses(p) ==
    /\ handler[p] = "lookup"
    /\ dns_cache[DomainOf[p]] = NoAddress
    /\ handler' = [handler EXCEPT ![p] = "resolve"]
    /\ UNCHANGED <<loop, udp, instance, semaphore, sent, dns_cache, shutdown>>

\* The resolution is cached and used.
LookupResolves(p) ==
    /\ handler[p] = "resolve"
    /\ dns_cache' = [dns_cache EXCEPT ![DomainOf[p]] = Resolved(p)]
    /\ sent' = sent \union {<<p, Resolved(p)>>}
    /\ Finish(p)
    /\ UNCHANGED <<loop, udp, shutdown>>

\* Resolution failed, or the socket refused the packet.
HandlerFails(p) ==
    /\ p \in Running
    /\ Finish(p)
    /\ UNCHANGED <<loop, udp, sent, dns_cache, shutdown>>

(***************************************************************************)
(* The caches and the downstream tasks.  The eviction listener runs for    *)
(* idle and surplus sessions only, not when the cache is dropped.          *)
(***************************************************************************)
\* Mutant: the listener does not abort the downstream task.
EvictSessionKeepsLoop(s) ==
    /\ sessions[s] # 0
    /\ closed < MaxEvictions
    /\ sessions' = [sessions EXCEPT ![s] = 0]
    /\ closed' = closed + 1
    /\ UNCHANGED <<loop, created, loops, opened, tasks, dns_cache, shutdown>>

EvictSession(s) ==
    /\ sessions[s] # 0
    /\ closed < MaxEvictions
    /\ sessions' = [sessions EXCEPT ![s] = 0]
    /\ loops' = loops \ {sessions[s]}
    /\ closed' = closed + 1
    /\ UNCHANGED <<loop, created, opened, tasks, dns_cache, shutdown>>

ExpireDomain(d) ==
    /\ dns_cache[d] # NoAddress
    /\ dns_cache' = [dns_cache EXCEPT ![d] = NoAddress]
    /\ UNCHANGED <<loop, udp, tasks, shutdown>>

\* Mutant: the task has no child of the token and is aborted through its session.
DownstreamWithoutToken(i) ==
    /\ i \in loops
    /\ shutdown
    /\ \E s \in Session : sessions[s] = i
    /\ loops' = loops \ {i}
    /\ UNCHANGED <<loop, sessions, created, opened, closed, tasks, dns_cache, shutdown>>

\* DownstreamHandler::accept_loop sees the token; a send in progress is bounded by
\* DATAGRAM_SEND_TIMEOUT.
DownstreamEnds(i) ==
    /\ i \in loops
    /\ shutdown
    /\ loops' = loops \ {i}
    /\ UNCHANGED <<loop, sessions, created, opened, closed, tasks, dns_cache, shutdown>>

\* run_tunnel_loops: this tunnel or the other one ended.
CancelToken ==
    /\ ~shutdown
    /\ shutdown' = TRUE
    /\ UNCHANGED <<loop, udp, tasks, dns_cache>>

-----------------------------------------------------------------------------
HandlePacket ==
    \/ SessionFound \/ SessionCachedHost \/ SessionResolves \/ SessionResolved
    \/ SessionUnresolved \/ BindRetry \/ BindFails \/ CreateSession \/ SpawnHandler

Handler(p) == LookupCached(p) \/ LookupMisses(p) \/ LookupResolves(p) \/ HandlerFails(p)

TunnelNext ==
    \/ HandlePacket \/ ReadFails \/ StopReading \/ CancelToken
    \/ \E p \in Packet : ReadDatagram(p) \/ Handler(p)
    \/ \E s \in Session : EvictSession(s)
    \/ \E d \in Domain : ExpireDomain(d)
    \/ \E i \in 1..created : DownstreamEnds(i)

TunnelSpec == TunnelInit /\ [][TunnelNext]_tunnelVars

(***************************************************************************)
(* Fairness: tasks are polled; a resolution, a bind and a send end one way *)
(* or the other; the select takes the cancelled token sooner or later.     *)
(* run_tunnel_loops awaits the loop and cancels the token when it ended    *)
(* (mod.rs 246-253).                                                       *)
(***************************************************************************)
TunnelFairSpec ==
    /\ TunnelSpec
    /\ WF_tunnelVars(HandlePacket) /\ SF_tunnelVars(StopReading)
    /\ WF_tunnelVars(pc = "stopped" /\ CancelToken)
    /\ \A p \in Packet : WF_tunnelVars(Handler(p))
    /\ \A i \in 1..Cardinality(Packet) : WF_tunnelVars(DownstreamEnds(i))

-----------------------------------------------------------------------------
TunnelTypeOK ==
    /\ unsent \subseteq Packet
    /\ pc \in {"read", "session", "resolve", "bind", "permit", "stopped"}
    /\ packet \in Packet \union {NoPacket}
    /\ attempt \in 0..(BindRetries - 1)
    /\ created \in Nat
    /\ sessions \in [Session -> 0..created]
    /\ loops \subseteq 1..created
    /\ handler \in [Packet -> {"none", "lookup", "resolve", "done"}]
    /\ instance \in [Packet -> 0..created]
    /\ semaphore \in 0..MaxHandlers
    /\ dns_cache \in [Domain -> Addresses \union {NoAddress}]
    /\ sent \subseteq Packet \X Addresses
    /\ opened \in Nat
    /\ closed \in 0..MaxEvictions
    /\ shutdown \in BOOLEAN

(* While the loop runs and the token is not cancelled, the downstream      *)
(* tasks are exactly those of the cached sessions: an evicted session      *)
(* leaves none behind and a cached one is never without (datagram.rs       *)
(* 77-106, 207-248).  While the loop runs the two session counters differ  *)
(* by the number of cached sessions, over failed binds, evictions and      *)
(* sessions created anew (85, 230-233).  Its end drops the cache uncounted *)
(* (EndedSessionsCounted).                                                 *)
LoopsMatchSessions ==
    pc # "stopped" =>
        /\ ~shutdown => loops = {sessions[s] : s \in Session} \ {0}
        /\ opened - closed = Cardinality({s \in Session : sessions[s] # 0})

(* What metrics.rs 35-36 says of udp_sessions_closed: a session that was   *)
(* opened and is gone has been counted closed.  It does not hold: the      *)
(* sessions cached when accept_loop returns go without the listener that   *)
(* counts them and their bytes (datagram.rs 77-106, 113-134).              *)
EndedSessionsCounted == pc = "stopped" => opened = closed

(* The loop always comes back to reading: no resolution, no bind and no    *)
(* shortage of permits holds a packet up for good (datagram.rs 138-203,    *)
(* 251-269).                                                               *)
PacketsHandled == packet # NoPacket ~> packet = NoPacket

(* Once the token is cancelled or the loop has ended, the loop is stopped  *)
(* and no downstream task is left: neither one created after the           *)
(* cancellation nor one whose session went with the cache, which nobody    *)
(* can abort any more (datagram.rs 114-116, 308-310; mod.rs 246-253).      *)
CancelStopsTasks == shutdown \/ pc = "stopped" ~> pc = "stopped" /\ loops = {}

(* Doc of handle_upstream_packet (datagram.rs 136-137): "forwarding to the *)
(* destination": what goes out for a packet goes to its own destination.   *)
ForwardedToDestination == \A x \in sent : x[2] = Resolved(x[1])
=============================================================================
