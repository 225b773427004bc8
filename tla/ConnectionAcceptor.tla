-------------------------- MODULE ConnectionAcceptor --------------------------
(***************************************************************************)
(* The server's side of a client connection, from the QUIC handshake to    *)
(* the end of its tunnels.                                                 *)
(*                                                                         *)
(* crates/ombrac-transport/src/quic/server.rs feeds established            *)
(* connections through a bounded channel to ConnectionAcceptor             *)
(* (crates/ombrac-server/src/connection/mod.rs), which admits them with a  *)
(* semaphore permit.  The task of an admitted connection waits for the     *)
(* control stream, reads and verifies the hello, answers it, and then runs *)
(* the stream and the datagram tunnel until one of the two ends.  The      *)
(* permit lives as long as that task.                                      *)
(*                                                                         *)
(* A connection is used once.  A peer may do anything at any time: say     *)
(* nothing, send any kind of hello, go away.                               *)
(***************************************************************************)
EXTENDS Integers, FiniteSets

CONSTANTS Conn,            \* connections clients ever establish
          MaxConnections,  \* ConnectionConfig::max_connections
          BacklogSize      \* capacity of the channel between endpoint and acceptor

ASSUME ConstantsAssumption ==
    /\ IsFiniteSet(Conn)
    /\ MaxConnections \in Nat
    /\ BacklogSize \in Nat \ {0}

VARIABLES
    stage,           \* where each connection stands
    alive,           \* its QUIC connection is up
    timed_out,       \* it was lost to the idle timeout (ErrorKind::TimedOut)
    stream_loop,     \* StreamTunnel::accept_loop of the connection
    datagram_loop,   \* DatagramTunnel::accept_loop of the connection
    cancelled,       \* the processor's shutdown_token is cancelled
    permits,         \* available permits of connection_semaphore
    accepting,       \* ConnectionAcceptor::accept_loop runs
    signalled,       \* the shutdown broadcast was sent
    accepted, rejected, auth_failed   \* metrics

counters == <<accepted, rejected, auth_failed>>
tunnels == <<stream_loop, datagram_loop, cancelled>>
service == <<accepting, signalled>>
link == <<alive, timed_out>>
vars == <<stage, link, tunnels, permits, service, counters>>

Stage == {"absent", "handshaken", "backlog", "rejected", "control", "hello",
          "respond", "delay", "tunnel", "closed"}

\* The connection's task runs and holds a permit.
Processing(c) == stage[c] \in {"control", "hello", "respond", "delay", "tunnel"}

Move(c, from, to) == stage[c] = from /\ stage' = [stage EXCEPT ![c] = to]

-----------------------------------------------------------------------------
Init ==
    /\ stage = [c \in Conn |-> "absent"]
    /\ alive = [c \in Conn |-> FALSE]
    /\ timed_out = [c \in Conn |-> FALSE]
    /\ stream_loop = [c \in Conn |-> "off"]
    /\ datagram_loop = [c \in Conn |-> "off"]
    /\ cancelled = [c \in Conn |-> FALSE]
    /\ permits = MaxConnections
    /\ accepting = TRUE
    /\ signalled = FALSE
    /\ accepted = 0
    /\ rejected = 0
    /\ auth_failed = 0

(***************************************************************************)
(* quic/server.rs: the task of an incoming connection sends it on the      *)
(* bounded channel.                                                        *)
(***************************************************************************)
Connect(c) ==
    /\ Move(c, "absent", "handshaken")
    /\ alive' = [alive EXCEPT ![c] = TRUE]
    /\ UNCHANGED <<timed_out, tunnels, permits, service, counters>>

Enqueue(c) ==
    /\ Move(c, "handshaken", "backlog")
    /\ Cardinality({x \in Conn : stage[x] = "backlog"}) < BacklogSize
    /\ UNCHANGED <<link, tunnels, permits, service, counters>>

(***************************************************************************)
(* ConnectionAcceptor::accept_loop and handle_incoming_connection          *)
(***************************************************************************)
AcceptConnection(c) ==
    /\ accepting
    /\ Move(c, "backlog", "control")
    /\ permits > 0
    /\ permits' = permits - 1
    /\ accepted' = accepted + 1
    /\ UNCHANGED <<link, tunnels, service, rejected, auth_failed>>

\* The connection is dropped, which closes it.
RejectConnection(c) ==
    /\ accepting
    /\ Move(c, "backlog", "rejected")
    /\ permits = 0
    /\ rejected' = rejected + 1
    /\ alive' = [alive EXCEPT ![c] = FALSE]
    /\ UNCHANGED <<timed_out, tunnels, permits, service, accepted, auth_failed>>

SendShutdown ==
    /\ ~signalled
    /\ signalled' = TRUE
    /\ UNCHANGED <<stage, link, tunnels, permits, accepting, counters>>

StopAccepting ==
    /\ accepting
    /\ signalled
    /\ accepting' = FALSE
    /\ UNCHANGED <<stage, link, tunnels, permits, signalled, counters>>

(***************************************************************************)
(* perform_authentication.  handle returns the error: the connection is    *)
(* dropped, the failure counted and the permit released.                   *)
(***************************************************************************)
Fail(c) ==
    /\ stage' = [stage EXCEPT ![c] = "closed"]
    /\ alive' = [alive EXCEPT ![c] = FALSE]
    /\ permits' = permits + 1
    /\ auth_failed' = auth_failed + 1
    /\ UNCHANGED <<timed_out, tunnels, service, accepted, rejected>>

\* accept_bidirectional: no timeout, it ends with the stream or the connection.
ControlStreamOpens(c) ==
    /\ Move(c, "control", "hello")
    /\ alive[c]
    /\ UNCHANGED <<link, tunnels, permits, service, counters>>

ControlStreamFails(c) ==
    /\ stage[c] = "control"
    /\ ~alive[c]
    /\ Fail(c)

\* The hello has the right version and the authenticator accepts it.
HelloVerified(c) ==
    /\ Move(c, "hello", "respond")
    /\ alive[c]
    /\ UNCHANGED <<link, tunnels, permits, service, counters>>

\* Not a hello, or the wrong version: random delay before the disconnect.
HelloRefused(c) ==
    /\ Move(c, "hello", "delay")
    /\ alive[c]
    /\ UNCHANGED <<link, tunnels, permits, service, counters>>

\* Timeout, end of stream, undecodable payload or wrong secret.
HelloFails(c) ==
    /\ stage[c] = "hello"
    /\ Fail(c)

DelayEnds(c) ==
    /\ stage[c] = "delay"
    /\ Fail(c)

\* send_auth_ok_response failed or timed out.
ResponseFails(c) ==
    /\ stage[c] = "respond"
    /\ Fail(c)

\* The response is sent; run_tunnel_loops spawns both tunnels.
ResponseSent(c) ==
    /\ Move(c, "respond", "tunnel")
    /\ alive[c]
    /\ stream_loop' = [stream_loop EXCEPT ![c] = "running"]
    /\ datagram_loop' = [datagram_loop EXCEPT ![c] = "running"]
    /\ UNCHANGED <<link, cancelled, permits, service, counters>>

(***************************************************************************)
(* The tunnels: a loop ends when the connection is gone or when the token  *)
(* is cancelled.  The datagram loop takes a timed-out connection for a     *)
(* quiet one: it sleeps a millisecond and reads again.                     *)
(***************************************************************************)
StreamLoopEnds(c) ==
    /\ stream_loop[c] = "running"
    /\ ~alive[c] \/ cancelled[c]
    /\ stream_loop' = [stream_loop EXCEPT ![c] = "ended"]
    /\ UNCHANGED <<stage, link, datagram_loop, cancelled, permits, service, counters>>

\* Mutant: the loop does not watch the token.
DatagramLoopIgnoresToken(c) ==
    /\ datagram_loop[c] = "running"
    /\ ~alive[c] /\ ~timed_out[c]
    /\ datagram_loop' = [datagram_loop EXCEPT ![c] = "ended"]
    /\ UNCHANGED <<stage, link, stream_loop, cancelled, permits, service, counters>>

DatagramLoopEnds(c) ==
    /\ datagram_loop[c] = "running"
    /\ (~alive[c] /\ ~timed_out[c]) \/ cancelled[c]
    /\ datagram_loop' = [datagram_loop EXCEPT ![c] = "ended"]
    /\ UNCHANGED <<stage, link, stream_loop, cancelled, permits, service, counters>>

\* Mutant: the permit is not returned on the path through the tunnels.
TunnelsReturnKeepsPermit(c) ==
    /\ Move(c, "tunnel", "closed")
    /\ stream_loop[c] = "ended" \/ datagram_loop[c] = "ended"
    /\ cancelled' = [cancelled EXCEPT ![c] = TRUE]
    /\ UNCHANGED <<link, stream_loop, datagram_loop, permits, service, counters>>

\* Mutant: a connection that closes after its tunnels counts as an auth failure.
TunnelsReturnAsFailure(c) ==
    /\ Move(c, "tunnel", "closed")
    /\ stream_loop[c] = "ended" \/ datagram_loop[c] = "ended"
    /\ cancelled' = [cancelled EXCEPT ![c] = TRUE]
    /\ permits' = permits + 1
    /\ auth_failed' = auth_failed + 1
    /\ UNCHANGED <<link, stream_loop, datagram_loop, service, accepted, rejected>>

\* run_tunnel_loops returns with the first loop, cancels the token; the task ends.
TunnelsReturn(c) ==
    /\ Move(c, "tunnel", "closed")
    /\ stream_loop[c] = "ended" \/ datagram_loop[c] = "ended"
    /\ cancelled' = [cancelled EXCEPT ![c] = TRUE]
    /\ permits' = permits + 1
    /\ UNCHANGED <<link, stream_loop, datagram_loop, service, counters>>

\* The peer closes or resets it, or an authenticator closes its ConnectionHandle.
ConnectionLost(c) ==
    /\ alive[c]
    /\ alive' = [alive EXCEPT ![c] = FALSE]
    /\ UNCHANGED <<stage, timed_out, tunnels, permits, service, counters>>

\* The peer falls silent for the idle timeout.
ConnectionTimesOut(c) ==
    /\ alive[c]
    /\ alive' = [alive EXCEPT ![c] = FALSE]
    /\ timed_out' = [timed_out EXCEPT ![c] = TRUE]
    /\ UNCHANGED <<stage, tunnels, permits, service, counters>>

-----------------------------------------------------------------------------
Authenticate(c) ==
    \/ ControlStreamFails(c) \/ HelloFails(c) \/ DelayEnds(c)
    \/ ResponseFails(c) \/ ResponseSent(c)

Tunnel(c) == StreamLoopEnds(c) \/ DatagramLoopEnds(c) \/ TunnelsReturn(c)

Peer(c) ==
    \/ Connect(c) \/ Enqueue(c) \/ ControlStreamOpens(c)
    \/ HelloVerified(c) \/ HelloRefused(c)
    \/ ConnectionLost(c) \/ ConnectionTimesOut(c)

Next ==
    \/ \E c \in Conn : AcceptConnection(c) \/ RejectConnection(c)
                       \/ Authenticate(c) \/ Tunnel(c) \/ Peer(c)
    \/ SendShutdown \/ StopAccepting

Spec == Init /\ [][Next]_vars

(***************************************************************************)
(* Fairness: the server's tasks are polled and its timeouts expire; the    *)
(* wait for the control stream has none.  Nothing is assumed of the peer.  *)
(***************************************************************************)
FairSpec ==
    /\ Spec
    /\ WF_vars(StopAccepting)
    /\ \A c \in Conn :
          /\ WF_vars(Authenticate(c))
          /\ WF_vars(StreamLoopEnds(c))
          /\ WF_vars(DatagramLoopEnds(c))
          /\ WF_vars(TunnelsReturn(c))

-----------------------------------------------------------------------------
TypeOK ==
    /\ stage \in [Conn -> Stage]
    /\ alive \in [Conn -> BOOLEAN]
    /\ timed_out \in [Conn -> BOOLEAN]
    /\ stream_loop \in [Conn -> {"off", "running", "ended"}]
    /\ datagram_loop \in [Conn -> {"off", "running", "ended"}]
    /\ cancelled \in [Conn -> BOOLEAN]
    /\ permits \in 0..MaxConnections
    /\ accepting \in BOOLEAN
    /\ signalled \in BOOLEAN
    /\ accepted \in Nat
    /\ rejected \in Nat
    /\ auth_failed \in Nat

(* Each connection task holds one permit and gives it back on every path   *)
(* out, so no more than max_connections run and none is lost for good      *)
(* (mod.rs 395-451; docs/configuration.md 76).                             *)
PermitsConserved ==
    permits + Cardinality({c \in Conn : Processing(c)}) = MaxConnections

(* The metrics account for every connection that left the backlog: it was  *)
(* rejected, or accepted; and of the accepted ones auth_failed counts      *)
(* exactly those that ended without ever running a tunnel (mod.rs 394-431, *)
(* 480-485; ombrac/src/metrics.rs 19-24).                                  *)
CountersAgree ==
    /\ rejected = Cardinality({c \in Conn : stage[c] = "rejected"})
    /\ accepted = Cardinality({c \in Conn : Processing(c) \/ stage[c] = "closed"})
    /\ auth_failed =
         Cardinality({c \in Conn : stage[c] = "closed" /\ stream_loop[c] = "off"})

(* No connection is kept for a peer that is gone or hangs: a lost one      *)
(* gives its permit back and stops both of its loops, whatever it was      *)
(* doing (mod.rs 83-107, 238-260), and once the control stream is open     *)
(* authentication ends one way or the other, whatever the peer does        *)
(* (auth_timeout, mod.rs 97-105).                                          *)
LostConnectionEnds ==
    \A c \in Conn :
        /\ Processing(c) /\ ~alive[c] ~>
               /\ stage[c] = "closed"
               /\ stream_loop[c] # "running"
               /\ datagram_loop[c] # "running"
        /\ stage[c] = "hello" ~> stage[c] \in {"tunnel", "closed"}

(* docs/configuration.md 77: auth_timeout_secs, "Seconds to wait for       *)
(* client authentication": an admitted connection is authenticated or gone *)
(* after a bounded wait.                                                   *)
AuthenticationEnds ==
    \A c \in Conn : stage[c] = "control" ~> stage[c] \in {"tunnel", "closed"}
=============================================================================
