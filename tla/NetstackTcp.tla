----------------------------- MODULE NetstackTcp -----------------------------
(***************************************************************************)
(* The user-space TCP of the TUN endpoint: one worker of                   *)
(* crates/ombrac-netstack/src/tcp.rs with its device (device.rs) and the   *)
(* TcpStreams it hands to the application.                                 *)
(*                                                                         *)
(* The worker alone runs smoltcp.  Between a socket and its TcpStream lie  *)
(* two ring buffers, three flags and two wakers; the stream notifies the   *)
(* worker through a Notify, which keeps one permit.  The application's     *)
(* poll_read and poll_write run on other threads, so they are modelled by  *)
(* the loads and stores they make.                                         *)
(*                                                                         *)
(* smoltcp is modelled by what the worker asks of it: the state of a       *)
(* socket, the bytes it holds, when it can receive and send.  All packets  *)
(* are of one address pair, so that a SYN may be a retransmission.  Bytes  *)
(* are numbered in the order smoltcp accepts them; its acknowledgements    *)
(* are taken to free the send buffer at once.                              *)
(***************************************************************************)
EXTENDS Integers, Sequences, FiniteSets

CONSTANTS MaxStreams,   \* bound: connections accepted
          MaxPackets,   \* bound: packets the host sends
          MaxWrites,    \* bound: bytes the application writes to a stream
          RingSize,     \* bytes in each ring buffer (tcp_recv/send_buffer_size)
          BufferSize,   \* bytes in each buffer of a smoltcp socket
          QueueSize,    \* packets the inbound channel and the device hold
          OutSize       \* packets the outbound channel holds

ASSUME NetstackAssumption ==
    /\ {MaxStreams, MaxPackets, MaxWrites} \subseteq Nat
    /\ {RingSize, BufferSize, QueueSize, OutSize} \subseteq Nat \ {0}

Streams == 1..MaxStreams

VARIABLES
    pc, progress,      \* accept_loop: the stage, and the flag of the draining loop
    permit,            \* Notify: the stored permit
    inbound,           \* packets dispatched to the worker
    device,            \* rx_queue of the device
    out,               \* packets in the outbound channel
    packets,           \* packets the host has sent
    streams,           \* connections accepted so far
    sock,              \* smoltcp state of each socket
    rx, tx,            \* bytes in its receive buffer, number of bytes to send
    sent,              \* bytes it has received
    recv_ring,         \* SocketIOHandle: the two rings
    send_ring,
    read_closed, write_closed, socket_dropped,
    recv_waker, send_waker,   \* a waker is registered
    reader, writer,    \* where poll_read, poll_write and poll_shutdown stand
    goal,              \* what the writing half is asked for
    got,               \* bytes the application has read
    writes             \* bytes it has written

worker == <<pc, progress>>
network == <<inbound, device, out, packets>>
sockets == <<streams, sock, rx, tx, sent>>
flags == <<read_closed, write_closed, socket_dropped>>
readHalf == <<reader, got>>
writeHalf == <<writer, goal, writes>>
vars == <<worker, permit, network, sockets, recv_ring, send_ring, flags,
          recv_waker, send_waker, readHalf, writeHalf>>

-----------------------------------------------------------------------------
(***************************************************************************)
(* smoltcp: Socket::is_active, is_open, can_recv and can_send.             *)
(***************************************************************************)
IsActive(s) == sock[s] \in {"established", "closewait", "finwait", "lastack"}
IsOpen(s) == IsActive(s) \/ sock[s] = "listen"
InMap(s) == IsOpen(s) \/ sock[s] = "closed"
CanRecv(s) == InMap(s) /\ rx[s] # <<>>
CanSend(s) == sock[s] \in {"established", "closewait"} /\ tx[s] < BufferSize

Init ==
    /\ pc = "drain"
    /\ progress = FALSE
    /\ permit = FALSE
    /\ inbound = <<>>
    /\ device = <<>>
    /\ out = 0
    /\ packets = 0
    /\ streams = 0
    /\ sock = [s \in Streams |-> "none"]
    /\ rx = [s \in Streams |-> <<>>]
    /\ tx = [s \in Streams |-> 0]
    /\ sent = [s \in Streams |-> <<>>]
    /\ recv_ring = [s \in Streams |-> <<>>]
    /\ send_ring = [s \in Streams |-> 0]
    /\ read_closed = [s \in Streams |-> FALSE]
    /\ write_closed = [s \in Streams |-> FALSE]
    /\ socket_dropped = [s \in Streams |-> FALSE]
    /\ recv_waker = [s \in Streams |-> FALSE]
    /\ send_waker = [s \in Streams |-> FALSE]
    /\ reader = [s \in Streams |-> "idle"]
    /\ writer = [s \in Streams |-> "idle"]
    /\ goal = [s \in Streams |-> "write"]
    /\ got = [s \in Streams |-> <<>>]
    /\ writes = [s \in Streams |-> 0]

(***************************************************************************)
(* process_inbound_frame.  Every SYN makes a listening socket and a stream *)
(* for the application, unless the emitter is full; the frame then goes to *)
(* the device, or is lost when that is full.  A SYN on which the socket    *)
(* cannot listen is given up before that.                                  *)
(***************************************************************************)
InjectFrame(frame) ==
    device' = IF Len(device) < QueueSize THEN Append(device, frame) ELSE device

ProcessInboundFrame(frame) ==
    /\ \/ /\ frame = "syn" /\ streams < MaxStreams
          /\ streams' = streams + 1
          /\ sock' = [sock EXCEPT ![streams + 1] = "listen"]
          /\ InjectFrame(frame)
       \/ /\ UNCHANGED <<streams, sock>>
          /\ InjectFrame(frame)
       \/ /\ frame = "syn"
          /\ UNCHANGED <<streams, sock, device>>
    /\ UNCHANGED <<out, packets, rx, tx, sent, recv_ring, send_ring, flags,
                   recv_waker, send_waker, readHalf, writeHalf>>

DrainInbound ==
    /\ pc = "drain"
    /\ inbound # <<>>
    /\ inbound' = Tail(inbound)
    /\ progress' = TRUE
    /\ ProcessInboundFrame(Head(inbound))
    /\ UNCHANGED <<pc, permit>>

InboundDrained ==
    /\ pc = "drain"
    /\ inbound = <<>>
    /\ pc' = "ingress"
    /\ UNCHANGED <<progress, permit, network, sockets, recv_ring, send_ring, flags,
                   recv_waker, send_waker, readHalf, writeHalf>>

(***************************************************************************)
(* Interface::poll, before and after the sockets' IO: first the frames of  *)
(* the device, each of which needs room in the outbound channel            *)
(* (NetstackDevice::receive takes the frame before it asks for the room),  *)
(* then what the sockets have to send (NetstackDevice::transmit).          *)
(***************************************************************************)
Ingress == {"ingress", "ingress2"}
Egress == {"egress", "egress2"}
After(stage) ==
    [ingress |-> "egress", egress |-> "io", io |-> "prune", prune |-> "ingress2",
     ingress2 |-> "egress2"][stage]

\* The socket a packet belongs to: the connection's, or else a listening one.
Receivers == {s \in Streams : IsActive(s)}
Listeners == {s \in Streams : sock[s] = "listen"}

AcceptSegment(s, frame) ==
    /\ sock' = [sock EXCEPT ![s] =
           CASE frame = "rst" -> "closed"
             [] frame = "fin" /\ @ = "established" -> "closewait"
             [] frame = "fin" /\ @ = "finwait" -> "closed"
             [] frame = "data" /\ @ = "lastack" -> "closed"
             [] OTHER -> @]
    /\ IF frame = "data" /\ sock[s] \in {"established", "finwait"} /\ Len(rx[s]) < BufferSize
       THEN /\ rx' = [rx EXCEPT ![s] = Append(@, Len(sent[s]) + 1)]
            /\ sent' = [sent EXCEPT ![s] = Append(@, Len(@) + 1)]
       ELSE UNCHANGED <<rx, sent>>
    /\ progress' = TRUE
    /\ UNCHANGED <<streams, tx>>

Listen(s) ==
    /\ sock' = [sock EXCEPT ![s] = "established"]
    /\ progress' = TRUE
    /\ UNCHANGED <<streams, rx, tx, sent>>

\* smoltcp answers at once with a challenge ACK or a RST; the rest waits for egress.
RepliesAtOnce(frame) ==
    IF Receivers # {} THEN frame = "syn" ELSE frame # "rst" /\ ~(frame = "syn" /\ Listeners # {})

IngressFrame ==
    /\ pc \in Ingress
    /\ device # <<>>
    /\ out < OutSize
    /\ device' = Tail(device)
    /\ out' = IF RepliesAtOnce(Head(device)) THEN out + 1 ELSE out
    /\ CASE Receivers # {} -> \E s \in Receivers : AcceptSegment(s, Head(device))
         [] Receivers = {} /\ Listeners # {} /\ Head(device) = "syn" -> \E s \in Listeners : Listen(s)
         [] OTHER -> UNCHANGED <<sockets, progress>>
    /\ UNCHANGED <<pc, permit, inbound, packets, recv_ring, send_ring, flags,
                   recv_waker, send_waker, readHalf, writeHalf>>

\* No frame; or no room to answer it, and the frame is gone.
IngressEnds ==
    /\ pc \in Ingress
    /\ device = <<>> \/ out = OutSize
    /\ device' = IF device = <<>> THEN device ELSE Tail(device)
    /\ pc' = After(pc)
    /\ UNCHANGED <<progress, permit, inbound, out, packets, sockets, recv_ring, send_ring,
                   flags, recv_waker, send_waker, readHalf, writeHalf>>

EgressPacket(s) ==
    /\ pc \in Egress
    /\ IsActive(s)
    /\ tx[s] > 0
    /\ out < OutSize
    /\ out' = out + 1
    /\ tx' = [tx EXCEPT ![s] = @ - 1]
    /\ progress' = TRUE
    /\ UNCHANGED <<pc, permit, inbound, device, packets, streams, sock, rx, sent,
                   recv_ring, send_ring, flags, recv_waker, send_waker, readHalf, writeHalf>>

\* egress2 ends the iteration: another one when there was progress, else idle.
EgressEnds ==
    /\ pc \in Egress
    /\ out = OutSize \/ \A s \in Streams : IsActive(s) => tx[s] = 0
    /\ IF pc = "egress" THEN pc' = After(pc) /\ UNCHANGED progress
       ELSE /\ pc' = IF progress THEN "drain" ELSE "idle"
            /\ progress' = FALSE
    /\ UNCHANGED <<permit, network, sockets, recv_ring, send_ring, flags,
                   recv_waker, send_waker, readHalf, writeHalf>>

(***************************************************************************)
(* handle_socket_io of every socket in the map that is not dropped.        *)
(***************************************************************************)
Min2(a, b) == IF a < b THEN a ELSE b
Served(s) == InMap(s) /\ ~socket_dropped[s]
Pushed(s) == IF Served(s) /\ CanRecv(s) THEN Min2(Len(rx[s]), RingSize - Len(recv_ring[s])) ELSE 0
Popped(s) == IF Served(s) /\ CanSend(s) THEN Min2(send_ring[s], BufferSize - tx[s]) ELSE 0
Closes(s) == Served(s) /\ ~IsOpen(s) /\ ~read_closed[s]

NotifyRead(s) == Pushed(s) > 0 \/ Closes(s)

\* Mutant: the bytes pushed are not dequeued.
KeptInSocket(s) == rx[s]

\* Socket::recv dequeues as many bytes as the ring took.
LeftInSocket(s) == SubSeq(rx[s], Pushed(s) + 1, Len(rx[s]))

\* Waking a task that registered a waker makes it poll again.  A wake that meets
\* a later poll of that task before it registers again is left out: it only adds
\* polls, as Repoll does.
Woken(half, wakes, waker) ==
    [s \in Streams |-> IF wakes[s] /\ waker[s] /\ half[s] \in {"recheck", "pending"}
                       THEN (IF half[s] = "pending" THEN "idle" ELSE "woken") ELSE half[s]]

HandleSocketIo ==
    /\ pc = "io"
    /\ rx' = [s \in Streams |-> LeftInSocket(s)]
    /\ recv_ring' = [s \in Streams |-> recv_ring[s] \o SubSeq(rx[s], 1, Pushed(s))]
    /\ read_closed' = [s \in Streams |-> read_closed[s] \/ Closes(s)]
    /\ tx' = [s \in Streams |-> tx[s] + Popped(s)]
    /\ send_ring' = [s \in Streams |-> send_ring[s] - Popped(s)]
    /\ LET wakes == [s \in Streams |-> NotifyRead(s)] IN
        /\ reader' = Woken(reader, wakes, recv_waker)
        /\ recv_waker' = [s \in Streams |-> recv_waker[s] /\ ~wakes[s]]
    /\ LET wakes == [s \in Streams |-> Popped(s) > 0] IN
        /\ writer' = Woken(writer, wakes, send_waker)
        /\ send_waker' = [s \in Streams |-> send_waker[s] /\ ~wakes[s]]
    /\ progress' = (progress \/ \E s \in Streams : Pushed(s) + Popped(s) > 0)
    /\ pc' = After(pc)
    /\ UNCHANGED <<permit, network, streams, sock, sent, write_closed, socket_dropped,
                   got, goal, writes>>

(***************************************************************************)
(* prune_sockets: a dropped stream's socket is aborted and removed, one    *)
(* whose writing side is done is closed, an inactive one is removed; a     *)
(* socket that still listens is inactive.                                  *)
(***************************************************************************)
Closed(s) ==
    IF write_closed[s] /\ send_ring[s] = 0
    THEN [established |-> "finwait", closewait |-> "lastack", listen |-> "closed",
          finwait |-> "finwait", lastack |-> "lastack", closed |-> "closed"][sock[s]]
    ELSE sock[s]

Pruned(s) ==
    IF socket_dropped[s] \/ Closed(s) \in {"listen", "closed"} THEN "removed" ELSE Closed(s)

PruneSockets ==
    /\ pc = "prune"
    /\ sock' = [s \in Streams |-> IF InMap(s) THEN Pruned(s) ELSE sock[s]]
    /\ progress' = (progress \/ \E s \in Streams : InMap(s) /\ Pruned(s) = "removed")
    /\ pc' = After(pc)
    /\ UNCHANGED <<permit, network, streams, rx, tx, sent, recv_ring, send_ring, flags,
                   recv_waker, send_waker, readHalf, writeHalf>>

(***************************************************************************)
(* The select of the idle worker.                                          *)
(***************************************************************************)
IdleInbound ==
    /\ pc = "idle"
    /\ inbound # <<>>
    /\ inbound' = Tail(inbound)
    /\ pc' = "drain"
    /\ ProcessInboundFrame(Head(inbound))
    /\ UNCHANGED <<progress, permit>>

Wake ==
    /\ pc' = "drain"
    /\ UNCHANGED <<progress, network, sockets, recv_ring, send_ring, flags,
                   recv_waker, send_waker, readHalf, writeHalf>>

IdleNotified ==
    /\ pc = "idle"
    /\ permit
    /\ permit' = FALSE
    /\ Wake

\* A poll_delay of zero disables the timer like no delay at all.
IdleTimer ==
    /\ pc = "idle"
    /\ \E s \in Streams : IsActive(s)
    /\ \A s \in Streams : IsActive(s) => tx[s] = 0
    /\ UNCHANGED permit
    /\ Wake

IdleShutdown ==
    /\ pc = "idle"
    /\ pc' = "stopped"
    /\ UNCHANGED <<progress, permit, network, sockets, recv_ring, send_ring, flags,
                   recv_waker, send_waker, readHalf, writeHalf>>

(***************************************************************************)
(* The host and the outbound side.                                         *)
(***************************************************************************)
\* A "data" segment also acknowledges, and does only that when the host has closed.
Frame == {"syn", "data", "fin", "rst"}

HostSends ==
    /\ packets < MaxPackets
    /\ Len(inbound) < QueueSize
    /\ \E frame \in Frame : inbound' = Append(inbound, frame)
    /\ packets' = packets + 1
    /\ UNCHANGED <<worker, permit, device, out, sockets, recv_ring, send_ring, flags,
                   recv_waker, send_waker, readHalf, writeHalf>>

OutTaken ==
    /\ out > 0
    /\ out' = out - 1
    /\ UNCHANGED <<worker, permit, inbound, device, packets, sockets, recv_ring, send_ring,
                   flags, recv_waker, send_waker, readHalf, writeHalf>>

(***************************************************************************)
(* TcpStream: poll_read.                                                   *)
(***************************************************************************)
ReadMoves(s, next) == reader' = [reader EXCEPT ![s] = next]
Untouched == <<worker, network, sockets, send_ring, flags, send_waker, writeHalf>>

\* The two halves (tokio::io::split) lock the stream for each poll.
Resting(half) == half \in {"idle", "pending", "eof"}
Owned(s) == s <= streams /\ ~socket_dropped[s] /\ Resting(reader[s]) /\ Resting(writer[s])

\* Mutant: the worker is not told that the ring has room again.
PopRecvSilently(s) ==
    /\ \E n \in 1..Len(recv_ring[s]) :
        /\ got' = [got EXCEPT ![s] = @ \o SubSeq(recv_ring[s], 1, n)]
        /\ recv_ring' = [recv_ring EXCEPT ![s] = SubSeq(@, n + 1, Len(@))]
    /\ ReadMoves(s, "idle")

\* pop_slice, as much as the caller's buffer takes; notify_one follows.
PopRecv(s) ==
    /\ \E n \in 1..Len(recv_ring[s]) :
        /\ got' = [got EXCEPT ![s] = @ \o SubSeq(recv_ring[s], 1, n)]
        /\ recv_ring' = [recv_ring EXCEPT ![s] = SubSeq(@, n + 1, Len(@))]
    /\ ReadMoves(s, "notify")

\* occupied_len
PollRead(s) ==
    /\ Owned(s)
    /\ reader[s] = "idle"
    /\ IF recv_ring[s] = <<>> THEN ReadMoves(s, "closed?") /\ UNCHANGED <<recv_ring, got>>
                              ELSE PopRecv(s)
    /\ UNCHANGED <<permit, recv_waker, Untouched>>

\* read_closed.load: the end of the stream, whatever the ring holds by now.
ReadClosedLoad(s) ==
    /\ reader[s] = "closed?"
    /\ ReadMoves(s, IF read_closed[s] THEN "eof" ELSE "register")
    /\ UNCHANGED <<got, permit, recv_ring, recv_waker, Untouched>>

RegisterRecvWaker(s) ==
    /\ reader[s] = "register"
    /\ recv_waker' = [recv_waker EXCEPT ![s] = TRUE]
    /\ ReadMoves(s, "recheck")
    /\ UNCHANGED <<got, permit, recv_ring, Untouched>>

\* Mutant: no second look at the ring after the waker is registered.
RecheckRecvSkipped(s) ==
    /\ reader[s] \in {"recheck", "woken"}
    /\ ReadMoves(s, IF reader[s] = "woken" THEN "idle" ELSE "pending")
    /\ UNCHANGED <<got, permit, recv_ring, recv_waker, Untouched>>

\* is_empty, the second time
RecheckRecv(s) ==
    /\ reader[s] \in {"recheck", "woken"}
    /\ IF recv_ring[s] = <<>>
       THEN /\ ReadMoves(s, IF reader[s] = "woken" THEN "idle" ELSE "pending")
            /\ UNCHANGED <<recv_ring, got>>
       ELSE PopRecv(s)
    /\ UNCHANGED <<permit, recv_waker, Untouched>>

ReadNotifies(s) ==
    /\ reader[s] = "notify"
    /\ permit' = TRUE
    /\ ReadMoves(s, "idle")
    /\ UNCHANGED <<got, recv_ring, recv_waker, Untouched>>

\* The task that reads is also polled for other reasons.
Repoll(s) ==
    /\ reader[s] = "pending"
    /\ ReadMoves(s, "idle")
    /\ UNCHANGED <<got, permit, recv_ring, recv_waker, Untouched>>

(***************************************************************************)
(* TcpStream: poll_write, poll_flush, poll_shutdown and drop.  A write     *)
(* waits while the ring is full, a shutdown while it is not empty.         *)
(***************************************************************************)
WriteMoves(s, next) == writer' = [writer EXCEPT ![s] = next]
Unwritten == <<worker, network, sockets, recv_ring, read_closed, recv_waker, readHalf>>

Blocked(s) == IF goal[s] = "write" THEN send_ring[s] = RingSize ELSE send_ring[s] > 0

\* push_slice, or the store of write_closed.
DoWrite(s) ==
    /\ IF goal[s] = "write"
       THEN /\ send_ring' = [send_ring EXCEPT ![s] = @ + 1]
            /\ writes' = [writes EXCEPT ![s] = @ + 1]
            /\ UNCHANGED write_closed
       ELSE /\ write_closed' = [write_closed EXCEPT ![s] = TRUE]
            /\ UNCHANGED <<send_ring, writes>>
    /\ WriteMoves(s, "notify")

PollWrite(s) ==
    /\ Owned(s)
    /\ writer[s] = "idle"
    /\ ~write_closed[s]
    /\ goal[s] = "write" => writes[s] < MaxWrites
    /\ IF Blocked(s) THEN WriteMoves(s, "register") /\ UNCHANGED <<send_ring, write_closed, writes>>
                     ELSE DoWrite(s)
    /\ UNCHANGED <<goal, permit, socket_dropped, send_waker, Unwritten>>

RegisterSendWaker(s) ==
    /\ writer[s] = "register"
    /\ send_waker' = [send_waker EXCEPT ![s] = TRUE]
    /\ WriteMoves(s, "recheck")
    /\ UNCHANGED <<goal, writes, permit, send_ring, write_closed, socket_dropped, Unwritten>>

RecheckSend(s) ==
    /\ writer[s] \in {"recheck", "woken"}
    /\ IF Blocked(s)
       THEN /\ WriteMoves(s, IF writer[s] = "woken" THEN "idle" ELSE "pending")
            /\ UNCHANGED <<send_ring, write_closed, writes>>
       ELSE DoWrite(s)
    /\ UNCHANGED <<goal, permit, socket_dropped, send_waker, Unwritten>>

WriteNotifies(s) ==
    /\ writer[s] = "notify"
    /\ permit' = TRUE
    /\ WriteMoves(s, "idle")
    /\ UNCHANGED <<goal, writes, send_ring, write_closed, socket_dropped, send_waker, Unwritten>>

AskShutdown(s) ==
    /\ Owned(s)
    /\ writer[s] = "idle"
    /\ goal[s] = "write"
    /\ goal' = [goal EXCEPT ![s] = "shutdown"]
    /\ UNCHANGED <<writer, writes, permit, send_ring, write_closed, socket_dropped, send_waker,
                   Unwritten>>

\* Drop: the store, and the notify_one that follows as the writer's.
DropStream(s) ==
    /\ Owned(s)
    /\ socket_dropped' = [socket_dropped EXCEPT ![s] = TRUE]
    /\ WriteMoves(s, "notify")
    /\ UNCHANGED <<goal, writes, permit, send_ring, write_closed, send_waker, Unwritten>>

-----------------------------------------------------------------------------
Worker ==
    \/ DrainInbound \/ InboundDrained \/ IngressFrame \/ IngressEnds
    \/ (\E s \in Streams : EgressPacket(s)) \/ EgressEnds
    \/ HandleSocketIo \/ PruneSockets \/ IdleInbound \/ IdleNotified

Reads(s) ==
    PollRead(s) \/ ReadClosedLoad(s) \/ RegisterRecvWaker(s) \/ RecheckRecv(s) \/ ReadNotifies(s)

Writes(s) ==
    PollWrite(s) \/ RegisterSendWaker(s) \/ RecheckSend(s) \/ WriteNotifies(s)

Next ==
    \/ Worker \/ IdleTimer \/ IdleShutdown \/ HostSends \/ OutTaken
    \/ \E s \in Streams :
        Reads(s) \/ Repoll(s) \/ Writes(s) \/ AskShutdown(s) \/ DropStream(s)

Spec == Init /\ [][Next]_vars

-----------------------------------------------------------------------------
HostStream == INSTANCE ByteStream
    WITH Stream <- Streams, ended <- [s \in Streams |-> reader[s] = "eof"]

TypeOK ==
    /\ pc \in {"drain", "ingress", "egress", "io", "prune", "ingress2", "egress2", "idle", "stopped"}
    /\ sock \in [Streams -> {"none", "listen", "established", "closewait", "finwait", "lastack",
                             "closed", "removed"}]
    /\ out \in 0..OutSize
    /\ \A s \in Streams : Len(rx[s]) <= BufferSize /\ Len(recv_ring[s]) <= RingSize
    /\ tx \in [Streams -> 0..BufferSize]
    /\ send_ring \in [Streams -> 0..RingSize]

(* What the application reads from a stream is what smoltcp received, in   *)
(* order, through socket buffer and ring (tcp.rs 389-419, 567-595); only   *)
(* the end can cut bytes off.                                              *)
HostBytesInOrder == HostStream!Spec

Notifying == \E s \in Streams : reader[s] = "notify" \/ writer[s] = "notify"

(* No wake-up is lost between the streams and the worker: while it sleeps  *)
(* with no permit stored, no live socket has bytes that fit the stream's   *)
(* ring, bytes of the ring it could take, a writing side to close or a     *)
(* dropped stream to abort (tcp.rs 258-306, 590-592, 621-623, 647-661).    *)
NoMissedWork ==
    pc = "idle" /\ ~permit /\ inbound = <<>> /\ ~Notifying =>
        \A s \in Streams : InMap(s) =>
            /\ Pushed(s) = 0
            /\ Popped(s) = 0
            /\ Pruned(s) = sock[s]

(* No wake-up for bytes or for room is lost between the worker and the     *)
(* streams: a reader sleeps only while its ring is empty and a writer only *)
(* while its ring is full (or, before a shutdown, not empty), and the      *)
(* waker the worker will use is there, although each looked at the ring    *)
(* before it registered (tcp.rs 434-455, 573-584, 613-618, 632-637).  The  *)
(* end of the stream is another matter: NoLostEnd.                         *)
NoLostWakeup ==
    \A s \in Streams :
        /\ reader[s] = "pending" => recv_ring[s] = <<>> /\ recv_waker[s]
        /\ writer[s] = "pending" => Blocked(s) /\ send_waker[s]

(* The same of the end of the stream, as the second look at the ring has   *)
(* it for bytes (tcp.rs 579-583): no reader sleeps on a stream whose end   *)
(* the worker has stored.  poll_read does not look at read_closed again.   *)
NoLostEnd == \A s \in Streams : reader[s] = "pending" => ~read_closed[s]

(* "We are now idle and can safely wait for the next event" (tcp.rs        *)
(* 259-260): nothing the sockets have to send is waiting while there is    *)
(* room for it.                                                            *)
IdleIsSafe ==
    pc = "idle" /\ ~permit /\ inbound = <<>> /\ ~Notifying /\ out < OutSize =>
        \A s \in Streams : IsActive(s) => tx[s] = 0
=============================================================================
