---------------------------- MODULE ServerShutdown ----------------------------
(***************************************************************************)
(* The streams of the server's tunnels and the two ways to stop a server.  *)
(*                                                                         *)
(* crates/ombrac-server/src/connection/stream.rs: each accepted stream is  *)
(* a task that takes a permit, counts itself opened, reads the connect     *)
(* request, dials the destination, answers, copies data, and counts itself *)
(* closed.  Only the copy watches the connection's shutdown token.         *)
(* crates/ombrac-server/src/service.rs: shutdown and shutdown_with_drain   *)
(* stop the accept loop; the drain also polls the counters through         *)
(* Metrics::snapshot, one relaxed load after the other.  When either       *)
(* returns, the OmbracServer value is dropped, and with it the last        *)
(* reference to the QUIC server, whose Drop closes the endpoint.           *)
(*                                                                         *)
(* The connections are those that run their tunnels when the model starts. *)
(***************************************************************************)
EXTENDS Integers, FiniteSets

CONSTANTS Conn,        \* connections with running tunnels
          Stream,      \* streams clients ever open
          ConnOf,      \* the connection of each stream
          MaxStreams   \* permits of a connection's StreamTunnel

ASSUME ConstantsAssumption ==
    /\ IsFiniteSet(Stream)
    /\ ConnOf \in [Stream -> Conn]
    /\ MaxStreams \in Nat \ {0}

VARIABLES
    alive,            \* the QUIC connection is up
    cancelled,        \* its shutdown token is cancelled
    phase,            \* where each stream task stands
    opened, closed,   \* metrics.streams_opened, _closed; nothing reads streams_failed
    accepting,        \* the server's accept loop runs
    service,          \* where shutdown / shutdown_with_drain stands
    snap,             \* streams_opened of the snapshot being taken
    deadline,         \* drain_timeout has passed
    drained           \* result of shutdown_with_drain

metrics == <<opened, closed>>
call == <<accepting, service, snap, deadline, drained>>
vars == <<alive, cancelled, phase, metrics, call>>

Phase == {"absent", "waiting", "handshake", "connecting", "respond_ok",
          "respond_err", "leftover", "exchange", "done"}

\* The task has its permit and has counted itself opened.
Active(s) == phase[s] \notin {"absent", "waiting", "done"}
ActiveStreams == {s \in Stream : Active(s)}

Step(s, from, to) == phase[s] = from /\ phase' = [phase EXCEPT ![s] = to]

-----------------------------------------------------------------------------
Init ==
    /\ alive = [c \in Conn |-> TRUE]
    /\ cancelled = [c \in Conn |-> FALSE]
    /\ phase = [s \in Stream |-> "absent"]
    /\ opened = 0
    /\ closed = 0
    /\ accepting = TRUE
    /\ service = "serving"
    /\ snap = 0
    /\ deadline = FALSE
    /\ drained = FALSE

(***************************************************************************)
(* StreamTunnel                                                            *)
(***************************************************************************)
\* accept_loop: the token is polled first.  The server's shutdown signal is not
\* seen here: existing connections keep accepting streams.
AcceptStream(s) ==
    /\ alive[ConnOf[s]]
    /\ ~cancelled[ConnOf[s]]
    /\ Step(s, "absent", "waiting")
    /\ UNCHANGED <<alive, cancelled, metrics, call>>

\* Mutant: a stream is counted only once its connect request is there.
AcquirePermitUncounted(s) ==
    /\ Step(s, "waiting", "handshake")
    /\ Cardinality({x \in ActiveStreams : ConnOf[x] = ConnOf[s]}) < MaxStreams
    /\ UNCHANGED <<alive, cancelled, metrics, call>>

AcquirePermit(s) ==
    /\ Step(s, "waiting", "handshake")
    /\ Cardinality({x \in ActiveStreams : ConnOf[x] = ConnOf[s]}) < MaxStreams
    /\ opened' = opened + 1
    /\ UNCHANGED <<alive, cancelled, closed, call>>

ReadConnect(s) ==
    /\ alive[ConnOf[s]]
    /\ Step(s, "handshake", "connecting")
    /\ UNCHANGED <<alive, cancelled, metrics, call>>

ConnectOk(s) ==
    /\ Step(s, "connecting", "respond_ok")
    /\ UNCHANGED <<alive, cancelled, metrics, call>>

\* Refused, unreachable, DNS failure or UPSTREAM_CONNECT_TIMEOUT.
ConnectFails(s) ==
    /\ Step(s, "connecting", "respond_err")
    /\ UNCHANGED <<alive, cancelled, metrics, call>>

SendConnectOk(s) ==
    /\ alive[ConnOf[s]]
    /\ Step(s, "respond_ok", "leftover")
    /\ UNCHANGED <<alive, cancelled, metrics, call>>

\* exchange_data first writes what arrived behind the connect request.
WriteLeftover(s) ==
    /\ Step(s, "leftover", "exchange")
    /\ UNCHANGED <<alive, cancelled, metrics, call>>

\* handle_connect returned Ok: closed is counted and the permit goes.
StreamEnds(s) ==
    /\ Step(s, "exchange", "done")
    /\ closed' = closed + 1
    /\ UNCHANGED <<alive, cancelled, opened, call>>

\* Mutant: the error path returns before streams_closed is counted.
StreamFailsUncounted(s) ==
    /\ Active(s)
    /\ phase[s] # "connecting"
    /\ phase' = [phase EXCEPT ![s] = "done"]
    /\ UNCHANGED <<alive, cancelled, opened, closed, call>>

\* Mutant: the copy notices neither the lost connection nor the token.
StreamFailsBeforeCopy(s) ==
    /\ Active(s)
    /\ phase[s] \notin {"connecting", "exchange"}
    /\ phase' = [phase EXCEPT ![s] = "done"]
    /\ closed' = closed + 1
    /\ UNCHANGED <<alive, cancelled, opened, call>>

\* handle_connect returned an error: HANDSHAKE_TIMEOUT or a bad request, a failed
\* send, the error answer sent, a write or a copy that broke, or the token.
StreamFails(s) ==
    /\ Active(s)
    /\ phase[s] # "connecting"
    /\ phase' = [phase EXCEPT ![s] = "done"]
    /\ closed' = closed + 1
    /\ UNCHANGED <<alive, cancelled, opened, call>>

\* The peer closes, resets or disappears.
ConnectionLost(c) ==
    /\ alive[c]
    /\ alive' = [alive EXCEPT ![c] = FALSE]
    /\ UNCHANGED <<cancelled, phase, metrics, call>>

\* run_tunnel_loops: a loop ended with the connection, the token is cancelled.
CancelToken(c) ==
    /\ ~alive[c]
    /\ ~cancelled[c]
    /\ cancelled' = [cancelled EXCEPT ![c] = TRUE]
    /\ UNCHANGED <<alive, phase, metrics, call>>

(***************************************************************************)
(* OmbracServer                                                            *)
(***************************************************************************)
Shutdown ==
    /\ service = "serving"
    /\ service' = "joining"
    /\ UNCHANGED <<alive, cancelled, phase, metrics, accepting, snap, deadline, drained>>

ShutdownWithDrain ==
    /\ service = "serving"
    /\ service' = "load_opened"
    /\ UNCHANGED <<alive, cancelled, phase, metrics, accepting, snap, deadline, drained>>

AcceptLoopStops ==
    /\ accepting
    /\ service # "serving"
    /\ accepting' = FALSE
    /\ UNCHANGED <<alive, cancelled, phase, metrics, service, snap, deadline, drained>>

\* Metrics::snapshot: streams_opened is loaded before streams_closed.
LoadOpened ==
    /\ service = "load_opened"
    /\ snap' = opened
    /\ service' = "load_closed"
    /\ UNCHANGED <<alive, cancelled, phase, metrics, accepting, deadline, drained>>

ActiveInSnapshot == IF snap > closed THEN snap - closed ELSE 0  \* saturating_sub

LoadClosedDrained ==
    /\ service = "load_closed"
    /\ ActiveInSnapshot = 0
    /\ drained' = TRUE
    /\ service' = "joining"
    /\ UNCHANGED <<alive, cancelled, phase, metrics, accepting, snap, deadline>>

LoadClosedTimeout ==
    /\ service = "load_closed"
    /\ ActiveInSnapshot > 0
    /\ deadline
    /\ service' = "joining"
    /\ UNCHANGED <<alive, cancelled, phase, metrics, accepting, snap, deadline, drained>>

\* The next tick of the interval.
LoadClosedAgain ==
    /\ service = "load_closed"
    /\ ActiveInSnapshot > 0
    /\ ~deadline
    /\ service' = "load_opened"
    /\ UNCHANGED <<alive, cancelled, phase, metrics, accepting, snap, deadline, drained>>

DeadlinePasses ==
    /\ service \in {"load_opened", "load_closed"}
    /\ ~deadline
    /\ deadline' = TRUE
    /\ UNCHANGED <<alive, cancelled, phase, metrics, accepting, service, snap, drained>>

\* self.handle.await, then the call returns and drops the OmbracServer.
Return ==
    /\ service = "joining"
    /\ ~accepting
    /\ service' = "returned"
    /\ UNCHANGED <<alive, cancelled, phase, metrics, accepting, snap, deadline, drained>>

\* Mutant: another reference to the QUIC server is left, and its Drop does not run.
EndpointKept ==
    /\ service = "returned"
    /\ service' = "endpoint_closed"
    /\ UNCHANGED <<alive, cancelled, phase, metrics, accepting, snap, deadline, drained>>

\* impl Drop for Server: the endpoint's task closes every connection.
EndpointCloses ==
    /\ service = "returned"
    /\ service' = "endpoint_closed"
    /\ alive' = [c \in Conn |-> FALSE]
    /\ UNCHANGED <<cancelled, phase, metrics, accepting, snap, deadline, drained>>

-----------------------------------------------------------------------------
StreamStep(s) ==
    \/ AcceptStream(s) \/ AcquirePermit(s) \/ ReadConnect(s)
    \/ ConnectOk(s) \/ ConnectFails(s) \/ SendConnectOk(s) \/ WriteLeftover(s)
    \/ StreamEnds(s) \/ StreamFails(s)

Poll == LoadOpened \/ LoadClosedDrained \/ LoadClosedTimeout \/ LoadClosedAgain

Next ==
    \/ \E s \in Stream : StreamStep(s)
    \/ \E c \in Conn : ConnectionLost(c) \/ CancelToken(c)
    \/ Shutdown \/ ShutdownWithDrain \/ AcceptLoopStops \/ Poll \/ DeadlinePasses
    \/ Return \/ EndpointCloses

Spec == Init /\ [][Next]_vars

(***************************************************************************)
(* Fairness: tasks are polled, timeouts expire (handshake, resolver,       *)
(* upstream connect, drain), a semaphore queues its waiters, the leftover  *)
(* (at most a read buffer, less than a fresh socket takes) is written or   *)
(* fails.  The answer has no timeout (stream.rs 208): like a copy it need  *)
(* not end while its connection is up, the peer's flow control decides.    *)
(* The token ends only the copy.                                           *)
(***************************************************************************)
MustFail(s) ==
    /\ StreamFails(s)
    /\ phase[s] \in {"respond_ok", "respond_err"} => ~alive[ConnOf[s]]
    /\ phase[s] = "exchange" => ~alive[ConnOf[s]] \/ cancelled[ConnOf[s]]

FairSpec ==
    /\ Spec
    /\ \A s \in Stream :
          /\ SF_vars(AcquirePermit(s))
          /\ WF_vars(MustFail(s) \/ ConnectFails(s))
    /\ \A c \in Conn : WF_vars(CancelToken(c))
    /\ WF_vars(AcceptLoopStops) /\ WF_vars(Poll) /\ WF_vars(DeadlinePasses)
    /\ WF_vars(Return) /\ WF_vars(EndpointCloses)

-----------------------------------------------------------------------------
TypeOK ==
    /\ alive \in [Conn -> BOOLEAN]
    /\ cancelled \in [Conn -> BOOLEAN]
    /\ phase \in [Stream -> Phase]
    /\ opened \in Nat
    /\ closed \in 0..opened
    /\ accepting \in BOOLEAN
    /\ service \in {"serving", "load_opened", "load_closed", "joining", "returned",
                    "endpoint_closed"}
    /\ snap \in 0..opened
    /\ deadline \in BOOLEAN
    /\ drained \in BOOLEAN

(* At every moment the two stream counters differ by exactly the number of *)
(* stream tasks that hold a permit, over every way a stream ends           *)
(* (stream.rs 56-97): what shutdown_with_drain relies on.                  *)
CountersTrackStreams == opened - closed = Cardinality(ActiveStreams)

(* A drain that answers true is wrong by no more than the streams counted  *)
(* after its snapshot loaded streams_opened: so many may still be active,  *)
(* now and later, and none if none was (service.rs 203-209, metrics.rs     *)
(* 75-95).  The documentation promises more: see DrainedMeansNone.         *)
DrainAnswerBounded == drained => Cardinality(ActiveStreams) <= opened - snap

(* What service.rs 189 says: true is answered when all streams drained.    *)
(* It does not hold: between the two loads of a snapshot a stream that     *)
(* opens is not counted and one that closes is.                            *)
DrainedMeansNone == [][LoadClosedDrained => ActiveStreams = {}]_vars

(* No stream keeps its permit before the answer for ever, whatever its     *)
(* peer and its destination do (HANDSHAKE_TIMEOUT, UPSTREAM_CONNECT_       *)
(* TIMEOUT, stream.rs 24-25, 141-180); and once a connection's token is    *)
(* cancelled all of its streams end, those that wait for a permit, answer  *)
(* or copy too (198-259; mod.rs 252-253).                                  *)
CancelledStreamsEnd ==
    /\ \A s \in Stream :
        phase[s] = "handshake" ~> phase[s] \notin {"handshake", "connecting"}
    /\ \A c \in Conn :
        cancelled[c] ~> \A s \in Stream : ConnOf[s] = c => phase[s] \in {"absent", "done"}

(* Whatever is in flight, nothing is left of a server that was told to     *)
(* stop: the call returns, dropping the server closes the endpoint, and    *)
(* every stream ends with its connection (service.rs 173-228, the Drop of  *)
(* quic/server.rs 193-197, stream.rs 46-102).                              *)
StopLeavesNothing ==
    service # "serving" ~> /\ service = "endpoint_closed"
                           /\ \A s \in Stream : phase[s] \in {"absent", "done"}

\* Neither loop of shutdown_with_drain has been left: the call was shutdown.
PlainShutdown == service = "returned" /\ ~drained /\ ~deadline

(* What service.rs 153 says of shutdown: it waits for existing connections *)
(* to close.  It does not hold: only the accept loop is joined.            *)
ShutdownWaits == PlainShutdown => \A c \in Conn : ~alive[c]

(* What service.rs 189-193 says: a drain that timed out leaves the streams *)
(* in flight to their connections, it does not cancel them.  It does not   *)
(* hold: the drop of the server that ends the call closes the connections. *)
DrainSparesStreams ==
    [][EndpointCloses /\ deadline /\ ~drained => \A s \in ActiveStreams : ~alive[ConnOf[s]]]_vars
=============================================================================
