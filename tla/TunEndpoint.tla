----------------------------- MODULE TunEndpoint -----------------------------
(***************************************************************************)
(* The TUN endpoint (crates/ombrac-client/src/endpoint/tun.rs) on the      *)
(* channels of the netstack (crates/ombrac-netstack/src/stack.rs, udp.rs). *)
(*                                                                         *)
(* accept_loop spawns four tasks and joins them after the shutdown signal: *)
(* the forwarders between the device and the stack, the TCP acceptor and   *)
(* the UDP loop.  The UDP loop feeds one flow task per local address       *)
(* through a bounded channel found in the DashMap active_sessions; it      *)
(* keeps the entry, and so the shard's write lock, while it waits for room *)
(* in that channel.  The flow and relay tasks are detached: no one joins   *)
(* them and they do not watch the token.                                   *)
(*                                                                         *)
(* A packet of the host is its kind, or the local address of UDP data that *)
(* goes to the tunnel.  The TCP relays are those of ProxyConnection, the   *)
(* TCP workers those of NetstackTcp: here they only take packets, answer   *)
(* and hand over streams.                                                  *)
(***************************************************************************)
EXTENDS Integers, Sequences, FiniteSets

CONSTANTS Local,        \* local addresses of UDP flows
          Shard,        \* the DashMap shard of each local address
          MaxPackets,   \* bound: packets the host sends
          MaxAnswers,   \* bound: datagrams the tunnel brings
          QueueSize,    \* channel_size of the netstack
          FlowSize      \* udp_session_channel_capacity

ASSUME TunAssumption ==
    /\ {MaxPackets, MaxAnswers} \subseteq Nat
    /\ {QueueSize, FlowSize} \subseteq Nat \ {0}

(***************************************************************************)
(* "ignored": empty, or a protocol the stack does not carry; "badip": not  *)
(* an IP packet; "badudp": IP that holds no whole UDP header and payload;  *)
(* "refused": to port 443 when that is disabled, to a fake address that is *)
(* not cached, or to a private address.                                    *)
(***************************************************************************)
Kind == {"ignored", "badip", "tcp", "badudp", "dns", "refused"}
Packet == Kind \union Local
Flow == 1..MaxPackets
None == 0

VARIABLES
    token,            \* shutdown_token is cancelled
    joined,           \* accept_loop has joined its tasks
    up, sink,         \* tun to stack: the stage, and packet_container
    down,             \* stack to tun
    acceptor,         \* accept_tcp_connections
    loop, packet,     \* process_incoming_udp_packets: the stage, the sender it waits for
    packets,          \* packets the host has sent
    udp, tcp,         \* inbound channels of the stack
    out,              \* packets in the outbound channel
    streams,          \* streams the acceptor has not taken
    active_sessions,  \* the flow whose sender is the entry of an address
    flow, owner,      \* relay_udp_flow tasks, and their local_addr
    chan,             \* packets in the channel of a flow
    answers           \* datagrams the tunnel has brought

forwarders == <<up, sink, down>>
udpLoop == <<loop, packet>>
tcpSide == <<acceptor, tcp, streams>>
flows == <<flow, owner, chan, answers>>
tunVars == <<token, joined, forwarders, udpLoop, packets, udp, out, tcpSide,
             active_sessions, flows>>

\* The receiver of a channel goes with the task that holds it.
OutClosed == down = "done"
UdpClosed == loop = "done"
TcpClosed == acceptor = "done"

\* A flow keeps its receiver until it is done.
Live(f) == flow[f] \in {"run", "write", "leave"}

\* entry(local_addr) locks the shard until the send has returned.
ShardLocked(l) == loop = "send" /\ Shard[packet] = Shard[l]

-----------------------------------------------------------------------------
TunInit ==
    /\ token = FALSE
    /\ joined = FALSE
    /\ up = "read"
    /\ sink = "none"
    /\ down = "read"
    /\ acceptor = "run"
    /\ loop = "recv"
    /\ packet = "none"
    /\ packets = 0
    /\ udp = <<>>
    /\ tcp = 0
    /\ out = 0
    /\ streams = 0
    /\ active_sessions = [l \in Local |-> None]
    /\ flow = [f \in Flow |-> "none"]
    /\ owner = [f \in Flow |-> "none"]
    /\ chan = [f \in Flow |-> 0]
    /\ answers = 0

\* accept_loop: the signal, and the joins.
Shutdown ==
    /\ ~token
    /\ token' = TRUE
    /\ UNCHANGED <<joined, forwarders, udpLoop, packets, udp, out, tcpSide,
                   active_sessions, flows>>

Join ==
    /\ token /\ ~joined
    /\ {up, down, acceptor, loop} = {"done"}
    /\ joined' = TRUE
    /\ UNCHANGED <<token, forwarders, udpLoop, packets, udp, out, tcpSide,
                   active_sessions, flows>>

-----------------------------------------------------------------------------
(***************************************************************************)
(* forward_packets_from_tun_to_stack.  start_send drops what the stack     *)
(* does not carry and fails on what is no IP packet; any error ends the    *)
(* task.                                                                   *)
(***************************************************************************)
StartSend(p) ==
    /\ up = "read" /\ ~token
    /\ packets < MaxPackets
    /\ packets' = packets + 1
    /\ CASE p = "ignored" -> UNCHANGED <<up, sink>>
         [] p = "badip"   -> up' = "done" /\ UNCHANGED sink
         [] OTHER         -> up' = "flush" /\ sink' = p
    /\ UNCHANGED <<token, joined, down, udpLoop, udp, out, tcpSide,
                   active_sessions, flows>>

(***************************************************************************)
(* StackSplitSink::poll_flush.  When the channel is full the future of     *)
(* reserve() is dropped with its place in the queue of waiters before      *)
(* Pending is returned, so that nothing will wake the task.                *)
(***************************************************************************)
PollFlush ==
    /\ up = "flush"
    /\ IF sink = "tcp"
       THEN /\ up' = CASE TcpClosed -> "done"
                       [] ~TcpClosed /\ tcp < QueueSize -> "read"
                       [] OTHER -> "asleep"
            /\ tcp' = IF up' = "read" THEN tcp + 1 ELSE tcp
            /\ UNCHANGED udp
       ELSE /\ up' = CASE UdpClosed -> "done"
                       [] ~UdpClosed /\ Len(udp) < QueueSize -> "read"
                       [] OTHER -> "asleep"
            /\ udp' = IF up' = "read" THEN Append(udp, sink) ELSE udp
            /\ UNCHANGED tcp
    /\ sink' = IF up' = "asleep" THEN sink ELSE "none"
    /\ UNCHANGED <<token, joined, down, udpLoop, packets, out, acceptor, streams,
                   active_sessions, flows>>

\* The device fails or ends.
TunReadEnds ==
    /\ up = "read"
    /\ up' = "done"
    /\ UNCHANGED <<token, joined, sink, down, udpLoop, packets, udp, out, tcpSide,
                   active_sessions, flows>>

UpCancelled ==
    /\ token
    /\ TunReadEnds

(***************************************************************************)
(* forward_packets_from_stack_to_tun.  The stream ends when every sender   *)
(* of the outbound channel is gone: the UDP loop's, those of the flows and *)
(* those of the TCP workers, which stop with the acceptor.                 *)
(***************************************************************************)
StackNext ==
    /\ down = "read" /\ ~token
    /\ out > 0
    /\ out' = out - 1
    /\ down' = "send"
    /\ UNCHANGED <<token, joined, up, sink, udpLoop, packets, udp, tcpSide,
                   active_sessions, flows>>

TunSend ==
    /\ down = "send"
    /\ down' = "read"
    /\ UNCHANGED <<token, joined, up, sink, udpLoop, packets, udp, out, tcpSide,
                   active_sessions, flows>>

TunSendFails ==
    /\ down = "send"
    /\ down' = "done"
    /\ UNCHANGED <<token, joined, up, sink, udpLoop, packets, udp, out, tcpSide,
                   active_sessions, flows>>

DownEnds ==
    /\ down = "read"
    /\ \/ token
       \/ /\ out = 0 /\ UdpClosed /\ TcpClosed
          /\ \A f \in Flow : flow[f] \in {"none", "done"}
    /\ down' = "done"
    /\ UNCHANGED <<token, joined, up, sink, udpLoop, packets, udp, out, tcpSide,
                   active_sessions, flows>>

-----------------------------------------------------------------------------
(***************************************************************************)
(* The TCP dispatcher and a worker take a packet: it may be answered, when *)
(* there is room, or bring a new stream.                                   *)
(***************************************************************************)
TcpWorker ==
    /\ ~TcpClosed
    /\ tcp > 0
    /\ tcp' = tcp - 1
    /\ \/ UNCHANGED <<out, streams>>
       \/ /\ ~OutClosed /\ out < QueueSize
          /\ out' = out + 1
          /\ UNCHANGED streams
       \/ /\ streams' = streams + 1
          /\ UNCHANGED out
    /\ UNCHANGED <<token, joined, forwarders, udpLoop, packets, udp, acceptor,
                   active_sessions, flows>>

\* accept_tcp_connections: a stream gets a task of its own, ProxyConnection.
AcceptTcp ==
    /\ acceptor = "run" /\ ~token
    /\ streams > 0
    /\ streams' = streams - 1
    /\ UNCHANGED <<token, joined, forwarders, udpLoop, packets, udp, out, acceptor,
                   tcp, active_sessions, flows>>

\* The listener is dropped, and with it the TCP workers; it yields None when
\* the workers have stopped because no packet can come any more.
AcceptorEnds ==
    /\ acceptor = "run"
    /\ token \/ (up = "done" /\ tcp = 0 /\ streams = 0)
    /\ acceptor' = "done"
    /\ tcp' = 0
    /\ streams' = 0
    /\ UNCHANGED <<token, joined, forwarders, udpLoop, packets, udp, out,
                   active_sessions, flows>>

-----------------------------------------------------------------------------
(***************************************************************************)
(* process_incoming_udp_packets.  SplitRead::recv yields None for a packet *)
(* it cannot parse as it does for a closed channel, and None ends the      *)
(* loop.                                                                   *)
(***************************************************************************)
UdpRecv(p) ==
    /\ loop = "recv" /\ ~token
    /\ udp # <<>> /\ Head(udp) = p
    /\ udp' = Tail(udp)
    /\ UNCHANGED <<token, joined, forwarders, packets, out, tcpSide>>

RecvMalformed ==
    /\ loop = "recv" /\ ~token
    /\ udp # <<>> /\ Head(udp) = "badudp"
    /\ loop' = "done"
    /\ udp' = <<>>
    /\ UNCHANGED <<token, joined, forwarders, packet, packets, out, tcpSide,
                   active_sessions, flows>>

\* handle_dns_query_packet, awaited by the loop: a query FakeDns does not
\* answer is dropped.
RecvDns ==
    /\ UdpRecv("dns")
    /\ loop' \in {"dns", "recv"}
    /\ UNCHANGED <<packet, active_sessions, flows>>

\* Mutant: a closed outbound channel goes unnoticed.
DnsAnswerBlindly ==
    /\ loop = "dns"
    /\ ~OutClosed /\ out < QueueSize
    /\ out' = out + 1
    /\ loop' = "recv"
    /\ UNCHANGED <<token, joined, forwarders, packet, packets, udp, tcpSide,
                   active_sessions, flows>>

DnsAnswer ==
    /\ loop = "dns"
    /\ OutClosed \/ out < QueueSize
    /\ out' = IF OutClosed THEN out ELSE out + 1
    /\ loop' = "recv"
    /\ UNCHANGED <<token, joined, forwarders, packet, packets, udp, tcpSide,
                   active_sessions, flows>>

RecvRefused ==
    /\ UdpRecv("refused")
    /\ UNCHANGED <<udpLoop, active_sessions, flows>>

(***************************************************************************)
(* handle_udp_data_packet.  The first packet of a local address fits into  *)
(* the new channel; later ones wait for room with the entry locked.        *)
(***************************************************************************)
RecvVacant(l, f) ==
    /\ UdpRecv(l)
    /\ active_sessions[l] = None
    /\ f = 1 + Cardinality({g \in Flow : flow[g] # "none"})
    /\ active_sessions' = [active_sessions EXCEPT ![l] = f]
    /\ flow' = [flow EXCEPT ![f] = "run"]
    /\ owner' = [owner EXCEPT ![f] = l]
    /\ chan' = [chan EXCEPT ![f] = 1]
    /\ UNCHANGED <<udpLoop, answers>>

RecvOccupied(l) ==
    /\ UdpRecv(l)
    /\ active_sessions[l] # None
    /\ loop' = "send"
    /\ packet' = l
    /\ UNCHANGED <<active_sessions, flows>>

\* The send returns when there is room, or with an error, which removes the
\* entry, when the receiver is gone.
SendToFlow ==
    LET f == active_sessions[packet] IN
    /\ loop = "send"
    /\ flow[f] = "done" \/ chan[f] < FlowSize
    /\ IF flow[f] = "done"
       THEN /\ active_sessions' = [active_sessions EXCEPT ![packet] = None]
            /\ UNCHANGED chan
       ELSE /\ chan' = [chan EXCEPT ![f] = @ + 1]
            /\ UNCHANGED active_sessions
    /\ loop' = "recv"
    /\ packet' = "none"
    /\ UNCHANGED <<token, joined, forwarders, packets, udp, out, tcpSide, flow,
                   owner, answers>>

LoopEnds ==
    /\ loop = "recv"
    /\ token \/ (up = "done" /\ udp = <<>>)
    /\ loop' = "done"
    /\ udp' = <<>>
    /\ UNCHANGED <<token, joined, forwarders, packet, packets, out, tcpSide,
                   active_sessions, flows>>

-----------------------------------------------------------------------------
(***************************************************************************)
(* relay_udp_flow.  The select may take the elapsed timer although packets *)
(* wait in the channel.                                                    *)
(***************************************************************************)
FlowSends(f) ==
    /\ flow[f] = "run"
    /\ chan[f] > 0
    /\ chan' = [chan EXCEPT ![f] = @ - 1]
    /\ UNCHANGED <<token, joined, forwarders, udpLoop, packets, udp, out, tcpSide,
                   active_sessions, flow, owner, answers>>

FlowAnswered(f) ==
    /\ flow[f] = "run"
    /\ answers < MaxAnswers
    /\ answers' = answers + 1
    /\ flow' = [flow EXCEPT ![f] = "write"]
    /\ UNCHANGED <<token, joined, forwarders, udpLoop, packets, udp, out, tcpSide,
                   active_sessions, owner, chan>>

\* Mutant: a closed outbound channel goes unnoticed.
FlowWritesBlindly(f) ==
    /\ flow[f] = "write"
    /\ ~OutClosed /\ out < QueueSize
    /\ flow' = [flow EXCEPT ![f] = "run"]
    /\ out' = out + 1
    /\ UNCHANGED <<token, joined, forwarders, udpLoop, packets, udp, tcpSide,
                   active_sessions, owner, chan, answers>>

FlowWrites(f) ==
    /\ flow[f] = "write"
    /\ OutClosed \/ out < QueueSize
    /\ flow' = [flow EXCEPT ![f] = IF OutClosed THEN "leave" ELSE "run"]
    /\ out' = IF OutClosed THEN out ELSE out + 1
    /\ UNCHANGED <<token, joined, forwarders, udpLoop, packets, udp, tcpSide,
                   active_sessions, owner, chan, answers>>

FlowIdle(f) ==
    /\ flow[f] = "run"
    /\ flow' = [flow EXCEPT ![f] = "leave"]
    /\ UNCHANGED <<token, joined, forwarders, udpLoop, packets, udp, out, tcpSide,
                   active_sessions, owner, chan, answers>>

\* Mutant: the receiver goes before the entry.
FlowDropsFirst(f) ==
    /\ flow[f] = "leave"
    /\ flow' = [flow EXCEPT ![f] = "drop"]
    /\ UNCHANGED <<token, joined, forwarders, udpLoop, packets, udp, out, tcpSide,
                   active_sessions, owner, chan, answers>>

\* remove blocks its thread while the loop holds the shard; the receiver is
\* dropped when the task returns.
FlowRemoves(f) ==
    /\ flow[f] = "leave"
    /\ ~ShardLocked(owner[f])
    /\ active_sessions' = [active_sessions EXCEPT ![owner[f]] = None]
    /\ flow' = [flow EXCEPT ![f] = "drop"]
    /\ UNCHANGED <<token, joined, forwarders, udpLoop, packets, udp, out, tcpSide,
                   owner, chan, answers>>

FlowDrops(f) ==
    /\ flow[f] = "drop"
    /\ flow' = [flow EXCEPT ![f] = "done"]
    /\ chan' = [chan EXCEPT ![f] = 0]
    /\ UNCHANGED <<token, joined, forwarders, udpLoop, packets, udp, out, tcpSide,
                   active_sessions, owner, answers>>

-----------------------------------------------------------------------------
Up == PollFlush \/ UpCancelled
Down == StackNext \/ TunSend \/ DownEnds
Tcp == TcpWorker \/ AcceptTcp \/ AcceptorEnds
Udp ==
    \/ RecvMalformed \/ RecvDns \/ DnsAnswer \/ RecvRefused
    \/ \E l \in Local : RecvOccupied(l) \/ (\E f \in Flow : RecvVacant(l, f))
    \/ SendToFlow \/ LoopEnds
RelayFlow(f) == FlowSends(f) \/ FlowWrites(f) \/ FlowRemoves(f) \/ FlowDrops(f)

TunNext ==
    \/ Shutdown \/ Join
    \/ \E p \in Packet : StartSend(p)
    \/ Up \/ TunReadEnds
    \/ Down \/ TunSendFails
    \/ Tcp
    \/ Udp
    \/ \E f \in Flow : RelayFlow(f) \/ FlowAnswered(f) \/ FlowIdle(f)

TunSpec == TunInit /\ [][TunNext]_tunVars

(***************************************************************************)
(* The runtime polls every woken task.  Neither the host, the device's     *)
(* failures, the signal, the tunnel nor the timers are bound to act.       *)
(***************************************************************************)
TunFairSpec ==
    /\ TunSpec
    /\ WF_tunVars(Join) /\ WF_tunVars(Up) /\ WF_tunVars(Down)
    /\ WF_tunVars(Tcp) /\ WF_tunVars(Udp)
    /\ \A f \in Flow : WF_tunVars(RelayFlow(f))

-----------------------------------------------------------------------------
TunTypeOK ==
    /\ token \in BOOLEAN /\ joined \in BOOLEAN
    /\ up \in {"read", "flush", "asleep", "done"}
    /\ sink \in Packet \union {"none"}
    /\ down \in {"read", "send", "done"}
    /\ acceptor \in {"run", "done"}
    /\ loop \in {"recv", "dns", "send", "done"}
    /\ packet \in Local \union {"none"}
    /\ packets \in 0..MaxPackets
    /\ udp \in Seq(Packet) /\ Len(udp) <= QueueSize
    /\ tcp \in 0..QueueSize /\ out \in 0..QueueSize
    /\ streams \in 0..MaxPackets
    /\ active_sessions \in [Local -> Flow \union {None}]
    /\ flow \in [Flow -> {"none", "run", "write", "leave", "drop", "done"}]
    /\ owner \in [Flow -> Local \union {"none"}]
    /\ chan \in [Flow -> 0..FlowSize]
    /\ answers \in 0..MaxAnswers

(***************************************************************************)
(* The entry of a local address is the sender of a flow that still serves  *)
(* it, and a flow that serves an address is its entry: a late remove, by   *)
(* key, of an old flow never takes the entry of its successor, and the     *)
(* loop never feeds a channel that nobody reads.                           *)
(***************************************************************************)
MapMatchesFlows ==
    \A l \in Local, f \in Flow :
        active_sessions[l] = f <=> Live(f) /\ owner[f] = l

\* The loop waits, with the shard locked, for room in the channel of a flow
\* that waits for the shard (tun.rs 526 and 622).
Wedged ==
    /\ loop = "send"
    /\ flow[active_sessions[packet]] = "leave"
    /\ chan[active_sessions[packet]] = FlowSize

(***************************************************************************)
(* The UDP loop gets back to its select from every packet it handles, also *)
(* when the outbound channel is full or closed, unless it is wedged.       *)
(***************************************************************************)
UdpLoopMoves ==
    loop \in {"send", "dns"} ~> loop \in {"recv", "done"} \/ Wedged

(***************************************************************************)
(* accept_loop returns after the shutdown signal, whatever its tasks are   *)
(* doing, unless the UDP loop is wedged or the forwarder sleeps at a full  *)
(* channel of the stack.                                                   *)
(***************************************************************************)
ShutdownEnds == token ~> joined \/ up = "asleep" \/ Wedged

(***************************************************************************)
(* What a comment of the tests of udp.rs says of a packet that cannot be   *)
(* parsed: it is skipped.  The loop then only ends when it is told to or   *)
(* when no more packets can come.                                          *)
(***************************************************************************)
MalformedSkipped == loop = "done" => token \/ up = "done"

=============================================================================
