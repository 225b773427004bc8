-------------------------- MODULE NetstackTcpProofs --------------------------
(***************************************************************************)
(* The netstack's worker and the streams it serves, for any number of      *)
(* connections and any size of the buffers, rings and channels: neither    *)
(* side loses a wake-up of the other, and what the application reads is    *)
(* what smoltcp received, in order.                                        *)
(*                                                                         *)
(* NoMissedWork speaks of the idle worker only.  What makes it hold is     *)
(* Settled, which follows the worker through its iteration: once the       *)
(* sockets' IO (and then the pruning) has been done without progress,      *)
(* nothing is left to do for it, unless a stream has changed something     *)
(* since, and then it is about to notify or the permit is stored.          *)
(* NoLostWakeup needs that whoever is about to sleep has a waker           *)
(* registered, and that a task the worker wakes in between does not sleep. *)
(***************************************************************************)
EXTENDS NetstackTcp, SequenceTheorems, TLAPS

\* The numbers after n, in order: a stretch of the bytes smoltcp received.
Run(b, n) == \A k \in 1..Len(b) : b[k] = n + k

\* m bytes of one sequence go to the end of another: what that becomes, and the rest.
Took(r, b, m) == r \o SubSeq(b, 1, m)
Rest(b, m) == SubSeq(b, m + 1, Len(b))

SocketState == {"none", "listen", "established", "closewait", "finwait", "lastack",
                "closed", "removed"}

WorkerTypes ==
    /\ pc \in {"drain", "ingress", "egress", "io", "prune", "ingress2", "egress2", "idle",
               "stopped"}
    /\ out \in 0..OutSize
    /\ streams \in 0..MaxStreams
    /\ pc = "idle" => ~progress

SocketTypes ==
    /\ sock \in [Streams -> SocketState]
    /\ tx \in [Streams -> 0..BufferSize]
    /\ send_ring \in [Streams -> 0..RingSize]

StreamTypes ==
    /\ reader \in [Streams -> {"idle", "closed?", "register", "recheck", "woken", "pending",
                               "notify", "eof"}]
    /\ writer \in [Streams -> {"idle", "register", "recheck", "woken", "pending", "notify"}]
    /\ goal \in [Streams -> {"write", "shutdown"}]
    /\ recv_waker \in [Streams -> BOOLEAN] /\ send_waker \in [Streams -> BOOLEAN]
    /\ read_closed \in [Streams -> BOOLEAN] /\ write_closed \in [Streams -> BOOLEAN]
    /\ socket_dropped \in [Streams -> BOOLEAN]

ByteTypes ==
    /\ rx \in [Streams -> Seq(Nat)] /\ recv_ring \in [Streams -> Seq(Nat)]
    /\ sent \in [Streams -> Seq(Nat)] /\ got \in [Streams -> Seq(Nat)]

\* The bytes read, those in the ring and those in the socket's buffer follow
\* each other without a gap and make up what was received.
Laid(read, ring, buffer, received) ==
    /\ Run(received, 0)
    /\ Run(read, 0)
    /\ Run(ring, Len(read))
    /\ Run(buffer, Len(read) + Len(ring))
    /\ Len(received) = Len(read) + Len(ring) + Len(buffer)

Stretch(s) ==
    /\ Len(rx[s]) <= BufferSize
    /\ Len(recv_ring[s]) <= RingSize
    /\ Laid(got[s], recv_ring[s], rx[s], sent[s])

Stretches == \A s \in Streams : Stretch(s)

\* Whoever has registered and not been woken since can still be woken.
Registered ==
    \A s \in Streams :
        /\ reader[s] \in {"recheck", "pending"} => recv_waker[s]
        /\ writer[s] \in {"recheck", "pending"} => send_waker[s]

\* Who sleeps has nothing to read, or no room to write.
SleepsBlocked ==
    \A s \in Streams :
        /\ reader[s] = "pending" => recv_ring[s] = <<>>
        /\ writer[s] = "pending" => Blocked(s)

\* What the worker has found nothing to do for stays so until it is told.
Settled ==
    ~progress /\ ~permit /\ ~Notifying =>
        \A s \in Streams : InMap(s) =>
            /\ pc \in {"prune", "ingress2", "egress2", "idle"} => Pushed(s) = 0 /\ Popped(s) = 0
            /\ pc \in {"ingress2", "egress2", "idle"} => Pruned(s) = sock[s]

IInv ==
    /\ WorkerTypes
    /\ SocketTypes
    /\ StreamTypes
    /\ ByteTypes
    /\ Stretches
    /\ Registered
    /\ SleepsBlocked
    /\ Settled

-----------------------------------------------------------------------------
(* The bounds are numbers.                                                 *)
LEMMA Sizes == /\ MaxStreams \in Nat /\ RingSize \in Nat \ {0} /\ BufferSize \in Nat \ {0}
               /\ OutSize \in Nat \ {0} /\ QueueSize \in Nat \ {0}
  BY NetstackAssumption

(* The empty sequence is a run from anywhere.                              *)
LEMMA RunEmpty ==
    ASSUME NEW n \in Nat
    PROVE  <<>> \in Seq(Nat) /\ Len(<<>>) = 0 /\ Run(<<>>, n)
  BY DEF Run

(* Appending the next number prolongs a run.                               *)
LEMMA RunAppend ==
    ASSUME NEW b \in Seq(Nat), NEW n \in Nat, Run(b, n), NEW k, k = n + Len(b) + 1
    PROVE  Append(b, k) \in Seq(Nat) /\ Len(Append(b, k)) = Len(b) + 1 /\ Run(Append(b, k), n)
  BY DEF Run

(* A run cut in two: what a ring or the application takes, and the rest.   *)
LEMMA RunCut ==
    ASSUME NEW b \in Seq(Nat), NEW n \in Nat, Run(b, n), NEW m \in 0..Len(b)
    PROVE  /\ SubSeq(b, 1, m) \in Seq(Nat) /\ Len(SubSeq(b, 1, m)) = m
           /\ Run(SubSeq(b, 1, m), n)
           /\ SubSeq(b, m + 1, Len(b)) \in Seq(Nat)
           /\ Len(SubSeq(b, m + 1, Len(b))) = Len(b) - m
           /\ Run(SubSeq(b, m + 1, Len(b)), n + m)
  <1>1. SubSeq(b, 1, m) \in Seq(Nat) /\ Len(SubSeq(b, 1, m)) = m /\ Run(SubSeq(b, 1, m), n)
    BY DEF Run
  <1>2. /\ SubSeq(b, m + 1, Len(b)) \in Seq(Nat)
        /\ Len(SubSeq(b, m + 1, Len(b))) = Len(b) - m
        /\ Run(SubSeq(b, m + 1, Len(b)), n + m)
    BY DEF Run
  <1> QED
    BY <1>1, <1>2

(* A run joined to the one that follows it.                                *)
LEMMA RunJoin ==
    ASSUME NEW b \in Seq(Nat), NEW c \in Seq(Nat), NEW n \in Nat,
           Run(b, n), Run(c, n + Len(b))
    PROVE  b \o c \in Seq(Nat) /\ Len(b \o c) = Len(b) + Len(c) /\ Run(b \o c, n)
  <1>1. b \o c \in Seq(Nat) /\ Len(b \o c) = Len(b) + Len(c)
    OBVIOUS
  <1>2. ASSUME NEW k \in 1..Len(b \o c)
        PROVE  (b \o c)[k] = n + k
    <2>1. CASE k <= Len(b)
      BY <1>1, <2>1 DEF Run
    <2>2. CASE k > Len(b)
      <3>1. k - Len(b) \in 1..Len(c) /\ (b \o c)[k] = c[k - Len(b)]
        BY <1>1, <2>2
      <3>2. c[k - Len(b)] = (n + Len(b)) + (k - Len(b))
        BY <3>1 DEF Run
      <3> QED
        BY <3>1, <3>2
    <2> QED
      BY <2>1, <2>2
  <1> QED
    BY <1>1, <1>2 DEF Run

(* The socket receives the next byte.                                      *)
LEMMA LaidReceive ==
    ASSUME NEW g \in Seq(Nat), NEW r \in Seq(Nat), NEW b \in Seq(Nat), NEW t \in Seq(Nat),
           Laid(g, r, b, t)
    PROVE  /\ Append(b, Len(t) + 1) \in Seq(Nat) /\ Len(Append(b, Len(t) + 1)) = Len(b) + 1
           /\ Append(t, Len(t) + 1) \in Seq(Nat) /\ Len(Append(t, Len(t) + 1)) = Len(t) + 1
           /\ Laid(g, r, Append(b, Len(t) + 1), Append(t, Len(t) + 1))
  <1>1. PICK n \in Nat : n = Len(g) + Len(r)
    OBVIOUS
  <1>2. Run(b, n) /\ Run(t, 0) /\ Len(t) = n + Len(b) /\ Len(b) \in Nat /\ Len(t) \in Nat
    BY <1>1 DEF Laid
  <1>3. /\ Append(b, Len(t) + 1) \in Seq(Nat) /\ Len(Append(b, Len(t) + 1)) = Len(b) + 1
        /\ Run(Append(b, Len(t) + 1), n)
    BY <1>2, RunAppend
  <1>4. /\ Append(t, Len(t) + 1) \in Seq(Nat) /\ Len(Append(t, Len(t) + 1)) = Len(t) + 1
        /\ Run(Append(t, Len(t) + 1), 0)
    BY <1>2, RunAppend
  <1> QED
    BY <1>1, <1>2, <1>3, <1>4 DEF Laid

(* The worker moves m bytes from the socket's buffer to the ring.          *)
LEMMA LaidPush ==
    ASSUME NEW g \in Seq(Nat), NEW r \in Seq(Nat), NEW b \in Seq(Nat), NEW t \in Seq(Nat),
           Laid(g, r, b, t), NEW m \in 0..Len(b)
    PROVE  /\ Took(r, b, m) \in Seq(Nat) /\ Len(Took(r, b, m)) = Len(r) + m
           /\ Rest(b, m) \in Seq(Nat) /\ Len(Rest(b, m)) = Len(b) - m
           /\ Laid(g, Took(r, b, m), Rest(b, m), t)
  <1>1. PICK n \in Nat : n = Len(g)
    OBVIOUS
  <1>2. Run(r, n) /\ Run(b, n + Len(r)) /\ n + Len(r) \in Nat
    BY <1>1 DEF Laid
  <1> DEFINE front == SubSeq(b, 1, m)
             back == SubSeq(b, m + 1, Len(b))
  <1>3. /\ front \in Seq(Nat) /\ Len(front) = m /\ Run(front, n + Len(r))
        /\ back \in Seq(Nat) /\ Len(back) = Len(b) - m /\ Run(back, n + Len(r) + m)
    BY <1>2, RunCut
  <1> HIDE DEF front, back
  <1>4. r \o front \in Seq(Nat) /\ Len(r \o front) = Len(r) + m /\ Run(r \o front, n)
    BY <1>2, <1>3, RunJoin
  <1>5. Run(back, n + Len(r \o front)) /\ Len(t) = n + Len(r \o front) + Len(back)
    BY <1>1, <1>2, <1>3, <1>4 DEF Laid
  <1>6. Laid(g, r \o front, back, t)
    BY <1>1, <1>4, <1>5 DEF Laid
  <1> QED
    BY <1>3, <1>4, <1>6 DEF front, back, Took, Rest

(* The application takes m bytes from the ring.                            *)
LEMMA LaidPop ==
    ASSUME NEW g \in Seq(Nat), NEW r \in Seq(Nat), NEW b \in Seq(Nat), NEW t \in Seq(Nat),
           Laid(g, r, b, t), NEW m \in 0..Len(r)
    PROVE  /\ Took(g, r, m) \in Seq(Nat) /\ Len(Took(g, r, m)) = Len(g) + m
           /\ Rest(r, m) \in Seq(Nat) /\ Len(Rest(r, m)) = Len(r) - m
           /\ Laid(Took(g, r, m), Rest(r, m), b, t)
  <1>1. Run(g, 0) /\ Run(r, Len(g)) /\ 0 + Len(g) = Len(g)
    BY DEF Laid
  <1> DEFINE front == SubSeq(r, 1, m)
             back == SubSeq(r, m + 1, Len(r))
  <1>2. /\ front \in Seq(Nat) /\ Len(front) = m /\ Run(front, Len(g))
        /\ back \in Seq(Nat) /\ Len(back) = Len(r) - m /\ Run(back, Len(g) + m)
    BY <1>1, RunCut
  <1> HIDE DEF front, back
  <1>3. g \o front \in Seq(Nat) /\ Len(g \o front) = Len(g) + m /\ Run(g \o front, 0)
    BY <1>1, <1>2, RunJoin
  <1>4. Len(g \o front) + Len(back) = Len(g) + Len(r)
    BY <1>2, <1>3
  <1>5. Laid(g \o front, back, b, t)
    BY <1>2, <1>3, <1>4 DEF Laid
  <1> QED
    BY <1>2, <1>3, <1>5 DEF front, back, Took, Rest

(* Of two runs from the start the shorter is a prefix of the longer.       *)
LEMMA RunsPrefix ==
    ASSUME NEW b \in Seq(Nat), NEW c \in Seq(Nat), Run(b, 0), Run(c, 0), Len(b) <= Len(c)
    PROVE  /\ HostStream!IsPrefix(b, c)
           /\ Len(b) < Len(c) => HostStream!IsStrictPrefix(b, c)
  <1>1. SubSeq(b, 1, Len(b)) = SubSeq(c, 1, Len(b))
    BY DEF Run
  <1>2. HostStream!IsPrefix(b, c)
    BY <1>1 DEF HostStream!IsPrefix
  <1>3. Len(b) < Len(c) => b # c
    OBVIOUS
  <1> QED
    BY <1>2, <1>3 DEF HostStream!IsStrictPrefix

(* A run extended by its next byte extends it strictly.                    *)
LEMMA RunGrows ==
    ASSUME NEW b \in Seq(Nat), NEW c \in Seq(Nat), Run(b, 0), Run(c, 0), c = Append(b, Len(b) + 1)
    PROVE  HostStream!IsStrictPrefix(b, c)
  <1>1. Len(c) = Len(b) + 1
    OBVIOUS
  <1>2. Len(b) <= Len(c) /\ Len(b) < Len(c)
    BY <1>1
  <1> QED
    BY <1>2, RunsPrefix

-----------------------------------------------------------------------------
(* The initial state satisfies the inductive invariant.                    *)
LEMMA InitIInv == Init => IInv
  <1> SUFFICES ASSUME Init PROVE IInv
    OBVIOUS
  <1> USE Sizes DEF Init
  <1>1. WorkerTypes
    BY DEF WorkerTypes
  <1>2. SocketTypes
    BY DEF SocketTypes, SocketState
  <1>3. StreamTypes
    BY DEF StreamTypes
  <1>4. ByteTypes
    BY RunEmpty DEF ByteTypes
  <1>5. Stretches
    <2> SUFFICES ASSUME NEW s \in Streams PROVE Stretch(s)
      BY DEF Stretches
    <2>1. rx[s] = <<>> /\ recv_ring[s] = <<>> /\ sent[s] = <<>> /\ got[s] = <<>>
      OBVIOUS
    <2> QED
      BY <2>1, RunEmpty DEF Stretch, Laid
  <1>6. Registered /\ SleepsBlocked
    BY DEF Registered, SleepsBlocked
  <1>7. Settled
    BY DEF Settled
  <1> QED
    BY <1>1, <1>2, <1>3, <1>4, <1>5, <1>6, <1>7 DEF IInv

(* A step that moves no byte keeps them in order.                          *)
LEMMA BytesKept ==
    ASSUME IInv, UNCHANGED <<rx, recv_ring, sent, got>>
    PROVE  ByteTypes' /\ Stretches'
  <1>1. ByteTypes'
    BY DEF IInv, ByteTypes
  <1>2. Stretches'
    BY DEF IInv, Stretches, Stretch
  <1> QED
    BY <1>1, <1>2

(* A step that leaves the halves of the streams and the rings alone keeps  *)
(* who sleeps, and why.                                                    *)
LEMMA HalvesKept ==
    ASSUME IInv, UNCHANGED <<recv_ring, send_ring, flags, recv_waker, send_waker,
                             readHalf, writeHalf>>
    PROVE  StreamTypes' /\ Registered' /\ SleepsBlocked'
  <1> USE DEF IInv, flags, readHalf, writeHalf
  <1>1. StreamTypes'
    BY DEF StreamTypes
  <1>2. Registered'
    BY DEF Registered
  <1>3. SleepsBlocked'
    BY DEF SleepsBlocked, Blocked
  <1> QED
    BY <1>1, <1>2, <1>3

(* What is settled depends on the sockets, the rings and two of the flags. *)
LEMMA SettledKept ==
    ASSUME Settled, UNCHANGED <<sock, rx, tx, recv_ring, send_ring, write_closed, socket_dropped>>,
           ~progress' => ~progress, ~permit' => ~permit, Notifying => Notifying',
           pc' \in {"prune", "ingress2", "egress2", "idle"} =>
               pc \in {"prune", "ingress2", "egress2", "idle"},
           pc' \in {"ingress2", "egress2", "idle"} => pc \in {"ingress2", "egress2", "idle"}
    PROVE  Settled'
  BY DEF Settled, InMap, IsOpen, IsActive, Pushed, Popped, Pruned, Closed, Served,
         CanRecv, CanSend

-----------------------------------------------------------------------------
(* The worker's steps between the stages, the host's and the outbound      *)
(* side's: sockets and streams stay as they are.                           *)
LEMMA StageIInv ==
    ASSUME IInv, \/ InboundDrained \/ IngressEnds \/ EgressEnds \/ IdleNotified \/ IdleTimer
                 \/ IdleShutdown \/ HostSends \/ OutTaken
    PROVE  IInv'
  <1> USE DEF InboundDrained, IngressEnds, EgressEnds, IdleNotified, IdleTimer, Wake,
              IdleShutdown, HostSends, OutTaken
  <1>1. UNCHANGED <<sockets, recv_ring, send_ring, flags, recv_waker, send_waker,
                    readHalf, writeHalf>>
    OBVIOUS
  <1>2. WorkerTypes'
    BY <1>1, Sizes DEF IInv, WorkerTypes, worker, network, sockets, After, Ingress, Egress
  <1>3. SocketTypes'
    BY <1>1 DEF IInv, SocketTypes, sockets
  <1>4. ByteTypes' /\ Stretches'
    BY <1>1, BytesKept DEF sockets, readHalf
  <1>5. StreamTypes' /\ Registered' /\ SleepsBlocked'
    BY <1>1, HalvesKept
  <1>6. Settled'
    <2>1. /\ UNCHANGED <<sock, rx, tx, recv_ring, send_ring, write_closed, socket_dropped>>
          /\ Notifying => Notifying'
      BY <1>1 DEF sockets, flags, readHalf, writeHalf, Notifying
    <2>2. CASE pc' \in {"drain", "io", "ingress", "egress", "stopped"}
      BY <2>2 DEF Settled
    <2>3. CASE pc' \notin {"drain", "io", "ingress", "egress", "stopped"}
      <3>1. /\ ~progress' => ~progress
            /\ ~permit' => ~permit
            /\ pc' = pc \/ pc = "ingress2" \/ pc = "egress2"
        BY <2>3 DEF IInv, WorkerTypes, worker, network, After, Ingress, Egress
      <3> QED
        BY <2>1, <3>1, SettledKept DEF IInv
    <2> QED
      BY <2>2, <2>3
  <1> QED
    BY <1>2, <1>3, <1>4, <1>5, <1>6 DEF IInv

(* A packet is taken from the channel; a SYN makes a listening socket.     *)
LEMMA InboundIInv ==
    ASSUME IInv, DrainInbound \/ IdleInbound
    PROVE  IInv'
  <1> USE DEF DrainInbound, IdleInbound, ProcessInboundFrame, InjectFrame
  <1>1. UNCHANGED <<out, rx, tx, sent, recv_ring, send_ring, flags, recv_waker, send_waker,
                    readHalf, writeHalf>> /\ pc' = "drain"
    OBVIOUS
  <1>2. \/ UNCHANGED <<streams, sock>>
        \/ /\ streams < MaxStreams /\ streams' = streams + 1
           /\ sock' = [sock EXCEPT ![streams + 1] = "listen"]
    OBVIOUS
  <1>3. WorkerTypes'
    BY <1>1, <1>2, Sizes DEF IInv, WorkerTypes
  <1>4. SocketTypes'
    BY <1>1, <1>2 DEF IInv, SocketTypes, SocketState
  <1>5. ByteTypes' /\ Stretches'
    BY <1>1, BytesKept DEF readHalf
  <1>6. StreamTypes' /\ Registered' /\ SleepsBlocked'
    BY <1>1, HalvesKept
  <1>7. Settled'
    BY <1>1 DEF Settled
  <1> QED
    BY <1>3, <1>4, <1>5, <1>6, <1>7 DEF IInv

(* smoltcp takes a frame of the device: it may add a byte to a socket.     *)
LEMMA IngressFrameIInv ==
    ASSUME IInv, IngressFrame
    PROVE  IInv'
  <1>1. /\ UNCHANGED <<pc, permit, recv_ring, send_ring, flags, recv_waker, send_waker,
                       readHalf, writeHalf>>
        /\ out < OutSize /\ (out' = out + 1 \/ out' = out) /\ pc \in Ingress
    BY DEF IngressFrame
  <1>2. \/ UNCHANGED <<sockets, progress>>
        \/ \E s \in Streams, frame \in {Head(device)} : AcceptSegment(s, frame)
        \/ \E s \in Streams : Listen(s)
    BY DEF IngressFrame, Receivers, Listeners
  <1>3. StreamTypes' /\ Registered' /\ SleepsBlocked'
    BY <1>1, HalvesKept
  <1>4. WorkerTypes'
    BY <1>1, <1>2, Sizes DEF IInv, WorkerTypes, Ingress, AcceptSegment, Listen, sockets
  <1>5. CASE UNCHANGED <<sockets, progress>>
    <2>1. SocketTypes'
      BY <1>1, <1>5 DEF IInv, SocketTypes, sockets
    <2>2. ByteTypes' /\ Stretches'
      BY <1>1, <1>5, BytesKept DEF sockets, readHalf
    <2>3. Notifying => Notifying'
      BY <1>1 DEF Notifying, readHalf, writeHalf
    <2>4. Settled'
      BY <1>1, <1>5, <2>3, SettledKept DEF IInv, sockets, flags
    <2> QED
      BY <1>3, <1>4, <2>1, <2>2, <2>4 DEF IInv
  <1>6. ASSUME NEW s \in Streams, Listen(s)
        PROVE  IInv'
    <2>1. SocketTypes'
      BY <1>1, <1>6 DEF IInv, SocketTypes, SocketState, Listen
    <2>2. ByteTypes' /\ Stretches'
      BY <1>1, <1>6, BytesKept DEF Listen, readHalf
    <2>3. Settled'
      BY <1>6 DEF Settled, Listen
    <2> QED
      BY <1>3, <1>4, <2>1, <2>2, <2>3 DEF IInv
  <1>7. ASSUME NEW s \in Streams, NEW frame, AcceptSegment(s, frame)
        PROVE  IInv'
    <2>1. SocketTypes'
      <3>1. sock' \in [Streams -> SocketState]
        BY <1>7 DEF IInv, SocketTypes, SocketState, AcceptSegment
      <3> QED
        BY <1>1, <1>7, <3>1 DEF IInv, SocketTypes, AcceptSegment
    <2>2. Settled'
      BY <1>7 DEF Settled, AcceptSegment
    <2>3. ByteTypes' /\ Stretches'
      <3>1. CASE UNCHANGED <<rx, sent>>
        BY <1>1, <3>1, BytesKept DEF readHalf
      <3>2. CASE /\ Len(rx[s]) < BufferSize
                 /\ rx' = [rx EXCEPT ![s] = Append(rx[s], Len(sent[s]) + 1)]
                 /\ sent' = [sent EXCEPT ![s] = Append(sent[s], Len(sent[s]) + 1)]
        <4>1. ByteTypes /\ Stretches
          BY DEF IInv
        <4>2. /\ rx[s] \in Seq(Nat) /\ sent[s] \in Seq(Nat)
              /\ got[s] \in Seq(Nat) /\ recv_ring[s] \in Seq(Nat)
          BY <4>1 DEF ByteTypes
        <4>3. /\ rx'[s] = Append(rx[s], Len(sent[s]) + 1)
              /\ sent'[s] = Append(sent[s], Len(sent[s]) + 1)
              /\ \A t \in Streams : t # s => rx'[t] = rx[t] /\ sent'[t] = sent[t]
          BY <3>2, <4>1 DEF ByteTypes
        <4>4. Stretch(s)
          BY <4>1 DEF Stretches
        <4>5. /\ rx'[s] \in Seq(Nat) /\ Len(rx'[s]) = Len(rx[s]) + 1
              /\ sent'[s] \in Seq(Nat) /\ Laid(got[s], recv_ring[s], rx'[s], sent'[s])
          BY <4>2, <4>3, <4>4, LaidReceive DEF Stretch
        <4>6. ByteTypes'
          BY <1>1, <3>2, <4>1, <4>3, <4>5 DEF ByteTypes, readHalf
        <4>7. Stretch(s)'
          <5>1. Len(rx'[s]) <= BufferSize
            BY <3>2, <4>2, <4>5, Sizes
          <5> QED
            BY <1>1, <4>4, <4>5, <5>1 DEF Stretch, readHalf
        <4>8. ASSUME NEW t \in Streams, t # s
              PROVE  Stretch(t)'
          BY <1>1, <4>1, <4>3, <4>8 DEF Stretches, Stretch, readHalf
        <4> QED
          BY <4>6, <4>7, <4>8 DEF Stretches
      <3> QED
        BY <1>7, <3>1, <3>2 DEF AcceptSegment
    <2> QED
      BY <1>3, <1>4, <2>1, <2>2, <2>3 DEF IInv
  <1> QED
    BY <1>2, <1>5, <1>6, <1>7

(* A packet of a socket leaves.                                            *)
LEMMA EgressPacketIInv ==
    ASSUME IInv, NEW s \in Streams, EgressPacket(s)
    PROVE  IInv'
  <1> USE DEF EgressPacket
  <1>1. WorkerTypes'
    BY Sizes DEF IInv, WorkerTypes, Egress
  <1>2. SocketTypes'
    <2>1. tx[s] \in 0..BufferSize /\ tx[s] - 1 \in 0..BufferSize
      BY Sizes DEF IInv, SocketTypes
    <2> QED
      BY <2>1 DEF IInv, SocketTypes
  <1>3. ByteTypes' /\ Stretches'
    BY BytesKept DEF readHalf
  <1>4. StreamTypes' /\ Registered' /\ SleepsBlocked'
    BY HalvesKept
  <1>5. Settled'
    BY DEF Settled
  <1> QED
    BY <1>1, <1>2, <1>3, <1>4, <1>5 DEF IInv

-----------------------------------------------------------------------------
(* The worker moves no more than there is, and than there is room for.     *)
LEMMA LessOfTwo ==
    ASSUME NEW a \in Nat, NEW b \in Nat, NEW c \in Nat, b <= c
    PROVE  Min2(a, c - b) \in 0..a /\ b + Min2(a, c - b) <= c
  BY DEF Min2

LEMMA Moved ==
    ASSUME IInv, NEW s \in Streams
    PROVE  /\ Pushed(s) \in 0..Len(rx[s]) /\ Len(recv_ring[s]) + Pushed(s) <= RingSize
           /\ Popped(s) \in 0..send_ring[s] /\ tx[s] + Popped(s) <= BufferSize
  <1>1. /\ rx[s] \in Seq(Nat) /\ recv_ring[s] \in Seq(Nat) /\ Len(recv_ring[s]) <= RingSize
        /\ tx[s] \in 0..BufferSize /\ send_ring[s] \in 0..RingSize
    BY DEF IInv, ByteTypes, SocketTypes, Stretches, Stretch
  <1>2. Pushed(s) \in 0..Len(rx[s]) /\ Len(recv_ring[s]) + Pushed(s) <= RingSize
    <2>1. Len(rx[s]) \in Nat /\ Len(recv_ring[s]) \in Nat
      BY <1>1
    <2>2. /\ Min2(Len(rx[s]), RingSize - Len(recv_ring[s])) \in 0..Len(rx[s])
          /\ Len(recv_ring[s]) + Min2(Len(rx[s]), RingSize - Len(recv_ring[s])) <= RingSize
      BY <1>1, <2>1, LessOfTwo, Sizes
    <2>3. CASE Served(s) /\ CanRecv(s)
      BY <2>2, <2>3 DEF Pushed
    <2>4. CASE ~(Served(s) /\ CanRecv(s))
      <3>1. Pushed(s) = 0
        BY <2>4 DEF Pushed
      <3>2. 0 \in 0..Len(rx[s])
        BY <2>1
      <3>3. Len(recv_ring[s]) + 0 <= RingSize
        BY <1>1, Sizes
      <3> QED
        BY <3>1, <3>2, <3>3
    <2> QED
      BY <2>3, <2>4
  <1>3. Popped(s) \in 0..send_ring[s] /\ tx[s] + Popped(s) <= BufferSize
    <2>1. /\ Min2(send_ring[s], BufferSize - tx[s]) \in 0..send_ring[s]
          /\ tx[s] + Min2(send_ring[s], BufferSize - tx[s]) <= BufferSize
      <3>1. send_ring[s] \in Nat /\ tx[s] \in Nat /\ tx[s] <= BufferSize /\ BufferSize \in Nat
        BY <1>1, Sizes
      <3> QED
        BY <3>1, LessOfTwo
    <2> QED
      BY <1>1, <2>1, Sizes DEF Popped
  <1> QED
    BY <1>2, <1>3

(* Waking: who is woken leaves the two states in which a waker counts.     *)
LEMMA WokenHalf ==
    ASSUME NEW half, NEW wakes, NEW waker, NEW s \in Streams
    PROVE  /\ Woken(half, wakes, waker)[s] = half[s]
              \/ /\ wakes[s] /\ waker[s]
                 /\ \/ half[s] = "pending" /\ Woken(half, wakes, waker)[s] = "idle"
                    \/ half[s] = "recheck" /\ Woken(half, wakes, waker)[s] = "woken"
           /\ wakes[s] /\ waker[s] => Woken(half, wakes, waker)[s] \notin {"recheck", "pending"}
  BY DEF Woken

(* The sockets' IO: bytes go over in order, and whoever it makes room or   *)
(* brings bytes for is woken.                                              *)
LEMMA HandleSocketIoIInv ==
    ASSUME IInv, HandleSocketIo
    PROVE  IInv'
  <1>1. /\ pc = "io" /\ pc' = "prune"
        /\ UNCHANGED <<permit, network, streams, sock, sent, write_closed, socket_dropped,
                       got, goal>>
        /\ progress' = (progress \/ \E s \in Streams : Pushed(s) + Popped(s) > 0)
    BY DEF HandleSocketIo, After
  <1>2. /\ rx' = [s \in Streams |-> SubSeq(rx[s], Pushed(s) + 1, Len(rx[s]))]
        /\ recv_ring' = [s \in Streams |-> recv_ring[s] \o SubSeq(rx[s], 1, Pushed(s))]
        /\ read_closed' = [s \in Streams |-> read_closed[s] \/ Closes(s)]
        /\ tx' = [s \in Streams |-> tx[s] + Popped(s)]
        /\ send_ring' = [s \in Streams |-> send_ring[s] - Popped(s)]
    BY DEF HandleSocketIo, LeftInSocket
  <1> DEFINE reads == [s \in Streams |-> NotifyRead(s)]
             takes == [s \in Streams |-> Popped(s) > 0]
  <1>3. /\ reader' = Woken(reader, reads, recv_waker)
        /\ recv_waker' = [s \in Streams |-> recv_waker[s] /\ ~reads[s]]
        /\ writer' = Woken(writer, takes, send_waker)
        /\ send_waker' = [s \in Streams |-> send_waker[s] /\ ~takes[s]]
    BY DEF HandleSocketIo
  <1>4. /\ \A s \in Streams : reads[s] <=> NotifyRead(s)
        /\ \A s \in Streams : takes[s] <=> Popped(s) > 0
    OBVIOUS
  <1> HIDE DEF reads, takes
  <1>5. WorkerTypes'
    BY <1>1 DEF IInv, WorkerTypes, network
  <1>6. ASSUME NEW s \in Streams
        PROVE  /\ tx'[s] = tx[s] + Popped(s) /\ tx'[s] \in 0..BufferSize
               /\ send_ring'[s] = send_ring[s] - Popped(s) /\ send_ring'[s] \in 0..RingSize
               /\ Popped(s) \in Nat /\ Pushed(s) \in Nat
    <2>1. tx'[s] = tx[s] + Popped(s) /\ send_ring'[s] = send_ring[s] - Popped(s)
      BY <1>2
    <2>2. /\ tx[s] \in 0..BufferSize /\ send_ring[s] \in 0..RingSize
          /\ Popped(s) \in 0..send_ring[s] /\ tx[s] + Popped(s) <= BufferSize
      BY Moved DEF IInv, SocketTypes
    <2>3. Pushed(s) \in Nat
      BY Moved
    <2> QED
      BY <2>1, <2>2, <2>3, Sizes
  <1>7. SocketTypes'
    BY <1>1, <1>2, <1>6 DEF IInv, SocketTypes
  <1>8. ASSUME NEW s \in Streams
        PROVE  /\ rx'[s] \in Seq(Nat) /\ recv_ring'[s] \in Seq(Nat) /\ Stretch(s)'
               /\ Pushed(s) = 0 => rx'[s] = rx[s] /\ recv_ring'[s] = recv_ring[s]
    <2>1. /\ rx'[s] = SubSeq(rx[s], Pushed(s) + 1, Len(rx[s]))
          /\ recv_ring'[s] = recv_ring[s] \o SubSeq(rx[s], 1, Pushed(s))
          /\ UNCHANGED <<sent, got>>
      BY <1>1, <1>2
    <2>2. /\ rx[s] \in Seq(Nat) /\ sent[s] \in Seq(Nat)
          /\ got[s] \in Seq(Nat) /\ recv_ring[s] \in Seq(Nat) /\ Stretch(s)
      BY DEF IInv, ByteTypes, Stretches
    <2>3. Pushed(s) \in 0..Len(rx[s]) /\ Len(recv_ring[s]) + Pushed(s) <= RingSize
      BY Moved
    <2>4. /\ rx'[s] \in Seq(Nat) /\ Len(rx'[s]) = Len(rx[s]) - Pushed(s)
          /\ recv_ring'[s] \in Seq(Nat) /\ Len(recv_ring'[s]) = Len(recv_ring[s]) + Pushed(s)
          /\ Laid(got[s], recv_ring'[s], rx'[s], sent[s])
      <3>1. Laid(got[s], recv_ring[s], rx[s], sent[s])
        BY <2>2 DEF Stretch
      <3>2. rx'[s] = Rest(rx[s], Pushed(s)) /\ recv_ring'[s] = Took(recv_ring[s], rx[s], Pushed(s))
        BY <2>1 DEF Took, Rest
      <3>3. ByteTypes
        BY DEF IInv
      <3> QED
        BY <2>3, <3>1, <3>2, <3>3, LaidPush DEF ByteTypes
    <2>5. Len(rx'[s]) <= BufferSize
      <3>1. Len(rx[s]) \in Nat /\ Len(rx[s]) <= BufferSize
        BY <2>2 DEF Stretch
      <3> QED
        BY <2>3, <2>4, <3>1, Sizes
    <2>6. Stretch(s)'
      BY <2>1, <2>3, <2>4, <2>5 DEF Stretch
    <2>7. Pushed(s) = 0 => rx'[s] = rx[s] /\ recv_ring'[s] = recv_ring[s]
      <3> SUFFICES ASSUME Pushed(s) = 0
                   PROVE  rx'[s] = rx[s] /\ recv_ring'[s] = recv_ring[s]
        OBVIOUS
      <3>1. /\ rx'[s] = SubSeq(rx[s], 1, Len(rx[s]))
            /\ recv_ring'[s] = recv_ring[s] \o SubSeq(rx[s], 1, 0)
        BY <2>1
      <3>2. SubSeq(rx[s], 1, Len(rx[s])) = rx[s]
        BY <2>2
      <3>3. SubSeq(rx[s], 1, 0) = <<>> /\ recv_ring[s] \o <<>> = recv_ring[s]
        BY <2>2
      <3> QED
        BY <3>1, <3>2, <3>3
    <2> QED
      BY <2>4, <2>6, <2>7
  <1>9. ByteTypes' /\ Stretches'
    <2>1. ByteTypes'
      BY <1>1, <1>2, <1>8 DEF IInv, ByteTypes
    <2> QED
      BY <1>8, <2>1 DEF Stretches
  <1>10. StreamTypes'
    <2>1. /\ recv_waker' \in [Streams -> BOOLEAN] /\ send_waker' \in [Streams -> BOOLEAN]
          /\ read_closed' \in [Streams -> BOOLEAN]
      BY <1>2, <1>3
    <2>2. /\ reader' \in [Streams -> {"idle", "closed?", "register", "recheck", "woken", "pending",
                                      "notify", "eof"}]
          /\ writer' \in [Streams -> {"idle", "register", "recheck", "woken", "pending", "notify"}]
      BY <1>3 DEF IInv, StreamTypes, Woken
    <2> QED
      BY <1>1, <2>1, <2>2 DEF IInv, StreamTypes
  <1>11. Registered'
    <2> SUFFICES ASSUME NEW s \in Streams
                 PROVE  /\ reader'[s] \in {"recheck", "pending"} => recv_waker'[s]
                        /\ writer'[s] \in {"recheck", "pending"} => send_waker'[s]
      BY DEF Registered
    <2>1. /\ reader[s] \in {"recheck", "pending"} => recv_waker[s]
          /\ writer[s] \in {"recheck", "pending"} => send_waker[s]
      BY DEF IInv, Registered
    <2>2. reader'[s] \in {"recheck", "pending"} => recv_waker'[s]
      <3>1. recv_waker'[s] <=> recv_waker[s] /\ ~reads[s]
        BY <1>3
      <3>2. reader'[s] \in {"recheck", "pending"} =>
               reader[s] = reader'[s] /\ ~(reads[s] /\ recv_waker[s])
        BY <1>3, WokenHalf
      <3> QED
        BY <2>1, <3>1, <3>2
    <2>3. writer'[s] \in {"recheck", "pending"} => send_waker'[s]
      <3>1. send_waker'[s] <=> send_waker[s] /\ ~takes[s]
        BY <1>3
      <3>2. writer'[s] \in {"recheck", "pending"} =>
               writer[s] = writer'[s] /\ ~(takes[s] /\ send_waker[s])
        BY <1>3, WokenHalf
      <3> QED
        BY <2>1, <3>1, <3>2
    <2> QED
      BY <2>2, <2>3
  <1>12. SleepsBlocked'
    <2> SUFFICES ASSUME NEW s \in Streams
                 PROVE  /\ reader'[s] = "pending" => recv_ring'[s] = <<>>
                        /\ writer'[s] = "pending" => Blocked(s)'
      BY DEF SleepsBlocked
    <2>1. ASSUME reader'[s] = "pending"
          PROVE  recv_ring'[s] = <<>>
      <3>1. reader[s] = "pending" /\ ~reads[s]
        BY <1>3, <2>1, WokenHalf DEF IInv, Registered
      <3>2. Pushed(s) = 0
        BY <1>4, <1>6, <3>1 DEF NotifyRead
      <3> QED
        BY <1>8, <3>1, <3>2 DEF IInv, SleepsBlocked
    <2>2. ASSUME writer'[s] = "pending"
          PROVE  Blocked(s)'
      <3>1. writer[s] = "pending" /\ ~takes[s]
        BY <1>3, <2>2, WokenHalf DEF IInv, Registered
      <3>2. Popped(s) = 0
        BY <1>4, <1>6, <3>1
      <3>3. send_ring'[s] = send_ring[s]
        BY <1>6, <3>2, Sizes DEF IInv, SocketTypes
      <3> QED
        BY <1>1, <3>1, <3>3 DEF IInv, SleepsBlocked, Blocked
    <2> QED
      BY <2>1, <2>2
  <1>13. Settled'
    <2> SUFFICES ASSUME ~progress', NEW s \in Streams
                 PROVE  Pushed(s)' = 0 /\ Popped(s)' = 0
      BY <1>1 DEF Settled
    <2>1. Pushed(s) = 0 /\ Popped(s) = 0
      <3>1. ~(Pushed(s) + Popped(s) > 0)
        BY <1>1
      <3> QED
        BY <1>6, <3>1
    <2>2. rx'[s] = rx[s] /\ recv_ring'[s] = recv_ring[s]
      BY <1>8, <2>1
    <2>3. tx'[s] = tx[s] /\ send_ring'[s] = send_ring[s]
      BY <1>6, <2>1, Sizes DEF IInv, SocketTypes
    <2> QED
      BY <1>1, <2>1, <2>2, <2>3
         DEF Pushed, Popped, Served, CanRecv, CanSend, InMap, IsOpen, IsActive
  <1> QED
    BY <1>5, <1>7, <1>9, <1>10, <1>11, <1>12, <1>13 DEF IInv

(* Pruning leaves every socket it keeps as it would leave it again, and    *)
(* takes no room or bytes from the streams.                                *)
LEMMA PruneSocketsIInv ==
    ASSUME IInv, PruneSockets
    PROVE  IInv'
  <1>1. /\ pc = "prune" /\ pc' = "ingress2"
        /\ UNCHANGED <<permit, network, streams, rx, tx, sent, recv_ring, send_ring, flags,
                       recv_waker, send_waker, readHalf, writeHalf>>
        /\ sock' = [s \in Streams |-> IF InMap(s) THEN Pruned(s) ELSE sock[s]]
        /\ progress' = (progress \/ \E s \in Streams : InMap(s) /\ Pruned(s) = "removed")
    BY DEF PruneSockets, After
  <1>2. SocketTypes /\ Settled
    BY DEF IInv
  <1>3. ASSUME NEW s \in Streams, InMap(s)
        PROVE  /\ Closed(s) \in {"listen", "established", "closewait", "finwait", "lastack",
                                "closed"}
               /\ Closed(s) = sock[s] \/ (write_closed[s] /\ send_ring[s] = 0)
               /\ write_closed[s] /\ send_ring[s] = 0 =>
                      Closed(s) \in {"finwait", "lastack", "closed"}
    BY <1>3 DEF Closed, InMap, IsOpen, IsActive
  <1>4. WorkerTypes'
    BY <1>1 DEF IInv, WorkerTypes, network
  <1>5. SocketTypes'
    <2>1. \A s \in Streams : sock'[s] \in SocketState
      BY <1>1, <1>2, <1>3 DEF SocketTypes, SocketState, Pruned
    <2>2. sock' \in [Streams -> SocketState]
      BY <1>1, <2>1
    <2> QED
      BY <1>1, <1>2, <2>2 DEF SocketTypes
  <1>6. ByteTypes' /\ Stretches'
    BY <1>1, BytesKept DEF readHalf
  <1>7. StreamTypes' /\ Registered' /\ SleepsBlocked'
    BY <1>1, HalvesKept
  <1>8. Settled'
    <2> SUFFICES ASSUME ~progress', ~permit', ~Notifying', NEW s \in Streams, InMap(s)'
                 PROVE  Pushed(s)' = 0 /\ Popped(s)' = 0 /\ Pruned(s)' = sock'[s]
      BY DEF Settled
    <2>1. InMap(s)
      BY <1>1 DEF InMap, IsOpen, IsActive
    <2>2. /\ sock'[s] = Pruned(s) /\ Pruned(s) # "removed"
          /\ UNCHANGED <<rx, tx, recv_ring, send_ring, write_closed, socket_dropped>>
      BY <1>1, <2>1 DEF flags
    <2>3. sock'[s] = Closed(s) /\ ~socket_dropped[s] /\ Closed(s) \notin {"listen", "closed"}
      BY <2>2 DEF Pruned
    <2>4. Closed(s)' = sock'[s]
      BY <1>3, <2>1, <2>2, <2>3 DEF Closed
    <2>5. Pruned(s)' = sock'[s]
      BY <2>2, <2>3, <2>4 DEF Pruned
    <2>6. Pushed(s) = 0 /\ Popped(s) = 0
      <3>1. ~progress /\ ~permit /\ ~Notifying
        BY <1>1 DEF Notifying, readHalf, writeHalf
      <3> QED
        BY <1>1, <1>2, <2>1, <3>1 DEF Settled
    <2>7. Pushed(s)' = 0
      BY <2>1, <2>2, <2>3, <2>6 DEF Pushed, Served, CanRecv
    <2>8. Popped(s)' = 0
      <3>1. CASE Closed(s) = sock[s]
        BY <2>1, <2>2, <2>3, <2>6, <3>1 DEF Popped, Served, CanSend, InMap, IsOpen, IsActive
      <3>2. CASE write_closed[s] /\ send_ring[s] = 0
        BY <1>3, <2>1, <2>3, <3>2 DEF Popped, CanSend
      <3> QED
        BY <1>3, <2>1, <3>1, <3>2
    <2> QED
      BY <2>5, <2>7, <2>8
  <1> QED
    BY <1>4, <1>5, <1>6, <1>7, <1>8 DEF IInv

-----------------------------------------------------------------------------
(* The application's steps do not move the worker.                         *)
LEMMA WorkerKept ==
    ASSUME IInv, UNCHANGED <<worker, network, sockets>>
    PROVE  WorkerTypes' /\ (UNCHANGED send_ring => SocketTypes')
  <1>1. WorkerTypes'
    BY DEF IInv, WorkerTypes, worker, network, sockets
  <1>2. UNCHANGED send_ring => SocketTypes'
    BY DEF IInv, SocketTypes, sockets
  <1> QED
    BY <1>1, <1>2

(* A read takes bytes off the ring, the next ones in order.                *)
LEMMA PopRecvTakes ==
    ASSUME IInv, NEW s \in Streams, PopRecv(s), UNCHANGED <<sockets>>
    PROVE  /\ ByteTypes' /\ Stretches' /\ reader' = [reader EXCEPT ![s] = "notify"]
           /\ got' = [got EXCEPT ![s] = got'[s]] /\ Len(got[s]) < Len(got'[s])
           /\ recv_ring' = [recv_ring EXCEPT ![s] = recv_ring'[s]]
  <1>1. ByteTypes /\ Stretch(s) /\ Laid(got[s], recv_ring[s], rx[s], sent[s])
    BY DEF IInv, Stretches, Stretch
  <1>2. PICK n \in 1..Len(recv_ring[s]) :
            /\ got' = [got EXCEPT ![s] = Took(got[s], recv_ring[s], n)]
            /\ recv_ring' = [recv_ring EXCEPT ![s] = Rest(recv_ring[s], n)]
    BY DEF PopRecv, Took, Rest
  <1>3. UNCHANGED <<rx, sent>>
    BY DEF sockets
  <1>4. n \in 0..Len(recv_ring[s])
    BY <1>1 DEF ByteTypes
  <1>5. /\ Took(got[s], recv_ring[s], n) \in Seq(Nat)
        /\ Len(Took(got[s], recv_ring[s], n)) = Len(got[s]) + n
        /\ Rest(recv_ring[s], n) \in Seq(Nat)
        /\ Len(Rest(recv_ring[s], n)) = Len(recv_ring[s]) - n
        /\ Laid(Took(got[s], recv_ring[s], n), Rest(recv_ring[s], n), rx[s], sent[s])
    BY <1>1, <1>4, LaidPop DEF ByteTypes
  <1>6. ByteTypes'
    BY <1>1, <1>2, <1>3, <1>5 DEF ByteTypes
  <1>7. /\ got'[s] = Took(got[s], recv_ring[s], n) /\ recv_ring'[s] = Rest(recv_ring[s], n)
        /\ \A t \in Streams : t # s => got'[t] = got[t] /\ recv_ring'[t] = recv_ring[t]
    BY <1>1, <1>2 DEF ByteTypes
  <1>8. Len(got[s]) < Len(got'[s]) /\ Len(recv_ring'[s]) <= RingSize
    <2>1. Len(got[s]) \in Nat /\ Len(got'[s]) = Len(got[s]) + n
      BY <1>1, <1>5, <1>7 DEF ByteTypes
    <2>2. Len(recv_ring[s]) \in Nat /\ Len(recv_ring'[s]) = Len(recv_ring[s]) - n
      BY <1>1, <1>5, <1>7 DEF ByteTypes
    <2>3. Len(got[s]) < Len(got'[s])
      BY <1>2, <2>1, <2>2
    <2>4. Len(recv_ring'[s]) <= RingSize
      BY <1>1, <1>2, <2>2, Sizes DEF Stretch
    <2> QED
      BY <2>3, <2>4
  <1>9. Stretches'
    <2>1. Stretch(s)'
      BY <1>1, <1>3, <1>5, <1>7, <1>8 DEF Stretch
    <2>2. ASSUME NEW t \in Streams, t # s
          PROVE  Stretch(t)'
      BY <1>3, <1>7, <2>2 DEF IInv, Stretches, Stretch
    <2> QED
      BY <2>1, <2>2 DEF Stretches
  <1> QED
    BY <1>2, <1>6, <1>7, <1>8, <1>9 DEF PopRecv, ReadMoves

(* poll_read takes bytes and is about to notify the worker.                *)
LEMMA PopIInv ==
    ASSUME IInv, NEW s \in Streams, PopRecv(s), UNCHANGED <<permit, recv_waker, Untouched>>
    PROVE  IInv'
  <1> USE DEF Untouched
  <1>1. /\ ByteTypes' /\ Stretches' /\ reader' = [reader EXCEPT ![s] = "notify"]
        /\ recv_ring' = [recv_ring EXCEPT ![s] = recv_ring'[s]]
    BY PopRecvTakes
  <1>2. WorkerTypes' /\ SocketTypes'
    BY WorkerKept
  <1>3. StreamTypes'
    BY <1>1 DEF IInv, StreamTypes, flags, writeHalf
  <1>4. Registered'
    BY <1>1 DEF IInv, Registered, StreamTypes, writeHalf
  <1>5. SleepsBlocked'
    BY <1>1 DEF IInv, SleepsBlocked, Blocked, StreamTypes, ByteTypes, writeHalf
  <1>6. Settled'
    <2>1. reader'[s] = "notify"
      BY <1>1 DEF IInv, StreamTypes
    <2> QED
      BY <2>1 DEF Settled, Notifying
  <1> QED
    BY <1>1, <1>2, <1>3, <1>4, <1>5, <1>6 DEF IInv

(* The other steps of poll_read: the loads, the waker and the permit.      *)
LEMMA ReaderMoves ==
    ASSUME IInv, NEW s \in Streams, UNCHANGED <<recv_ring, got, Untouched>>,
           NEW next \in {"idle", "closed?", "register", "recheck", "pending", "eof"},
           reader' = [reader EXCEPT ![s] = next],
           recv_waker' \in [Streams -> BOOLEAN],
           \A t \in Streams : recv_waker[t] => recv_waker'[t],
           next \in {"recheck", "pending"} => recv_waker'[s],
           next = "pending" => recv_ring[s] = <<>>,
           permit' \/ (UNCHANGED permit /\ reader[s] # "notify")
    PROVE  IInv'
  <1> USE DEF Untouched
  <1>1. WorkerTypes' /\ SocketTypes'
    BY WorkerKept
  <1>2. ByteTypes' /\ Stretches'
    BY BytesKept DEF sockets
  <1>3. StreamTypes'
    BY DEF IInv, StreamTypes, flags, writeHalf
  <1>4. Registered'
    BY DEF IInv, Registered, StreamTypes, writeHalf
  <1>5. SleepsBlocked'
    BY DEF IInv, SleepsBlocked, Blocked, StreamTypes, writeHalf
  <1>6. Settled'
    <2>1. CASE permit'
      BY <2>1 DEF Settled
    <2>2. CASE UNCHANGED permit /\ reader[s] # "notify"
      <3>1. Notifying => Notifying'
        BY <2>2 DEF IInv, StreamTypes, Notifying, writeHalf
      <3> QED
        BY <2>2, <3>1, SettledKept DEF IInv, worker, sockets, flags
    <2> QED
      BY <2>1, <2>2
  <1> QED
    BY <1>1, <1>2, <1>3, <1>4, <1>5, <1>6 DEF IInv

(* poll_read keeps the inductive invariant.                                *)
LEMMA ReadsIInv ==
    ASSUME IInv, NEW s \in Streams, Reads(s) \/ Repoll(s)
    PROVE  IInv'
  <1>1. /\ recv_waker \in [Streams -> BOOLEAN]
        /\ reader[s] = "recheck" => recv_waker[s]
    BY DEF IInv, StreamTypes, Registered
  <1>2. CASE PollRead(s)
    BY <1>1, <1>2, PopIInv, ReaderMoves DEF PollRead, ReadMoves
  <1>3. CASE ReadClosedLoad(s)
    <2>1. CASE read_closed[s]
      BY <1>1, <1>3, <2>1, ReaderMoves DEF ReadClosedLoad, ReadMoves
    <2>2. CASE ~read_closed[s]
      BY <1>1, <1>3, <2>2, ReaderMoves DEF ReadClosedLoad, ReadMoves
    <2> QED
      BY <2>1, <2>2
  <1>4. CASE RegisterRecvWaker(s)
    <2>1. /\ recv_waker' \in [Streams -> BOOLEAN] /\ recv_waker'[s]
          /\ \A t \in Streams : recv_waker[t] => recv_waker'[t]
      BY <1>1, <1>4 DEF RegisterRecvWaker
    <2> QED
      BY <1>4, <2>1, ReaderMoves DEF RegisterRecvWaker, ReadMoves
  <1>5. CASE RecheckRecv(s)
    <2>1. CASE recv_ring[s] # <<>>
      BY <1>5, <2>1, PopIInv DEF RecheckRecv
    <2>2. CASE recv_ring[s] = <<>> /\ reader[s] = "woken"
      BY <1>1, <1>5, <2>2, ReaderMoves DEF RecheckRecv, ReadMoves
    <2>3. CASE recv_ring[s] = <<>> /\ reader[s] = "recheck"
      BY <1>1, <1>5, <2>3, ReaderMoves DEF RecheckRecv, ReadMoves
    <2> QED
      BY <1>5, <2>1, <2>2, <2>3 DEF RecheckRecv
  <1>6. CASE ReadNotifies(s)
    BY <1>1, <1>6, ReaderMoves DEF ReadNotifies, ReadMoves
  <1>7. CASE Repoll(s)
    BY <1>1, <1>7, ReaderMoves DEF Repoll, ReadMoves
  <1> QED
    BY <1>2, <1>3, <1>4, <1>5, <1>6, <1>7 DEF Reads

(* The writing half has changed something and is about to notify.          *)
LEMMA WriterTells ==
    ASSUME IInv, NEW s \in Streams, UNCHANGED <<goal, send_waker, Unwritten>>,
           writer' = [writer EXCEPT ![s] = "notify"],
           send_ring' \in [Streams -> 0..RingSize],
           \A t \in Streams : t # s => send_ring'[t] = send_ring[t],
           write_closed' \in [Streams -> BOOLEAN], socket_dropped' \in [Streams -> BOOLEAN]
    PROVE  IInv'
  <1> USE DEF Unwritten
  <1>1. WorkerTypes'
    BY WorkerKept
  <1>2. SocketTypes'
    BY DEF IInv, SocketTypes, sockets
  <1>3. ByteTypes' /\ Stretches'
    BY BytesKept DEF sockets, readHalf
  <1>4. StreamTypes'
    BY DEF IInv, StreamTypes, readHalf
  <1>5. Registered'
    BY DEF IInv, Registered, StreamTypes, readHalf
  <1>6. SleepsBlocked'
    BY DEF IInv, SleepsBlocked, Blocked, StreamTypes, readHalf
  <1>7. Settled'
    <2>1. writer'[s] = "notify"
      BY DEF IInv, StreamTypes
    <2> QED
      BY <2>1 DEF Settled, Notifying
  <1> QED
    BY <1>1, <1>2, <1>3, <1>4, <1>5, <1>6, <1>7 DEF IInv

(* The other steps of poll_write and poll_shutdown.                        *)
LEMMA WriterMoves ==
    ASSUME IInv, NEW s \in Streams,
           UNCHANGED <<goal, send_ring, write_closed, socket_dropped, Unwritten>>,
           NEW next \in {"idle", "register", "recheck", "pending"},
           writer' = [writer EXCEPT ![s] = next],
           send_waker' \in [Streams -> BOOLEAN],
           \A t \in Streams : send_waker[t] => send_waker'[t],
           next \in {"recheck", "pending"} => send_waker'[s],
           next = "pending" => Blocked(s),
           permit' \/ (UNCHANGED permit /\ writer[s] # "notify")
    PROVE  IInv'
  <1> USE DEF Unwritten
  <1>1. WorkerTypes' /\ SocketTypes'
    BY WorkerKept
  <1>2. ByteTypes' /\ Stretches'
    BY BytesKept DEF sockets, readHalf
  <1>3. StreamTypes'
    BY DEF IInv, StreamTypes, readHalf
  <1>4. Registered'
    BY DEF IInv, Registered, StreamTypes, readHalf
  <1>5. SleepsBlocked'
    BY DEF IInv, SleepsBlocked, Blocked, StreamTypes, readHalf
  <1>6. Settled'
    <2>1. CASE permit'
      BY <2>1 DEF Settled
    <2>2. CASE UNCHANGED permit /\ writer[s] # "notify"
      <3>1. Notifying => Notifying'
        BY <2>2 DEF IInv, StreamTypes, Notifying, readHalf
      <3> QED
        BY <2>2, <3>1, SettledKept DEF IInv, worker, sockets
    <2> QED
      BY <2>1, <2>2
  <1> QED
    BY <1>1, <1>2, <1>3, <1>4, <1>5, <1>6 DEF IInv

(* A byte is pushed into a ring that has room, or write_closed is stored.  *)
LEMMA DoWriteIInv ==
    ASSUME IInv, NEW s \in Streams, DoWrite(s), ~Blocked(s),
           UNCHANGED <<goal, socket_dropped, send_waker, Unwritten>>
    PROVE  IInv'
  <1>1. /\ send_ring \in [Streams -> 0..RingSize] /\ write_closed \in [Streams -> BOOLEAN]
        /\ socket_dropped \in [Streams -> BOOLEAN]
    BY DEF IInv, SocketTypes, StreamTypes
  <1>2. /\ send_ring' \in [Streams -> 0..RingSize]
        /\ \A t \in Streams : t # s => send_ring'[t] = send_ring[t]
    <2>1. CASE goal[s] = "write"
      <3>1. send_ring[s] + 1 \in 0..RingSize
        BY <1>1, <2>1, Sizes DEF Blocked
      <3> QED
        BY <1>1, <2>1, <3>1 DEF DoWrite
    <2>2. CASE goal[s] # "write"
      BY <1>1, <2>2 DEF DoWrite
    <2> QED
      BY <2>1, <2>2
  <1>3. write_closed' \in [Streams -> BOOLEAN]
    BY <1>1 DEF DoWrite
  <1> QED
    BY <1>1, <1>2, <1>3, WriterTells DEF DoWrite, WriteMoves

(* poll_write, poll_shutdown and drop keep the inductive invariant.        *)
LEMMA WritesIInv ==
    ASSUME IInv, NEW s \in Streams, Writes(s) \/ AskShutdown(s) \/ DropStream(s)
    PROVE  IInv'
  <1>1. /\ send_waker \in [Streams -> BOOLEAN] /\ socket_dropped \in [Streams -> BOOLEAN]
        /\ write_closed \in [Streams -> BOOLEAN] /\ send_ring \in [Streams -> 0..RingSize]
        /\ writer[s] = "recheck" => send_waker[s]
    BY DEF IInv, SocketTypes, StreamTypes, Registered
  <1>2. CASE PollWrite(s)
    <2>1. CASE Blocked(s)
      BY <1>1, <1>2, <2>1, WriterMoves DEF PollWrite, WriteMoves
    <2>2. CASE ~Blocked(s)
      BY <1>2, <2>2, DoWriteIInv DEF PollWrite
    <2> QED
      BY <2>1, <2>2
  <1>3. CASE RegisterSendWaker(s)
    <2>1. /\ send_waker' \in [Streams -> BOOLEAN] /\ send_waker'[s]
          /\ \A t \in Streams : send_waker[t] => send_waker'[t]
      BY <1>1, <1>3 DEF RegisterSendWaker
    <2> QED
      BY <1>3, <2>1, WriterMoves DEF RegisterSendWaker, WriteMoves
  <1>4. CASE RecheckSend(s)
    <2>1. CASE ~Blocked(s)
      BY <1>4, <2>1, DoWriteIInv DEF RecheckSend
    <2>2. CASE Blocked(s) /\ writer[s] = "woken"
      BY <1>1, <1>4, <2>2, WriterMoves DEF RecheckSend, WriteMoves
    <2>3. CASE Blocked(s) /\ writer[s] = "recheck"
      BY <1>1, <1>4, <2>3, WriterMoves DEF RecheckSend, WriteMoves
    <2> QED
      BY <1>4, <2>1, <2>2, <2>3 DEF RecheckSend
  <1>5. CASE WriteNotifies(s)
    BY <1>1, <1>5, WriterMoves DEF WriteNotifies, WriteMoves
  <1>6. CASE DropStream(s)
    <2>1. socket_dropped' \in [Streams -> BOOLEAN]
      BY <1>1, <1>6 DEF DropStream
    <2> QED
      BY <1>1, <1>6, <2>1, WriterTells DEF DropStream, WriteMoves
  <1>7. CASE AskShutdown(s)
    <2> USE <1>7 DEF AskShutdown, Unwritten
    <2>1. WorkerTypes' /\ SocketTypes'
      BY WorkerKept
    <2>2. ByteTypes' /\ Stretches'
      BY BytesKept DEF sockets, readHalf
    <2>3. StreamTypes'
      BY DEF IInv, StreamTypes, readHalf
    <2>4. Registered' /\ SleepsBlocked'
      BY DEF IInv, Registered, SleepsBlocked, Blocked, StreamTypes, readHalf
    <2>5. Notifying => Notifying'
      BY DEF Notifying, readHalf
    <2>6. Settled'
      BY <2>5, SettledKept DEF IInv, worker, sockets
    <2> QED
      BY <2>1, <2>2, <2>3, <2>4, <2>6 DEF IInv
  <1> QED
    BY <1>2, <1>3, <1>4, <1>5, <1>6, <1>7 DEF Writes

-----------------------------------------------------------------------------
(* Every step keeps the inductive invariant, and so does a stuttering one. *)
LEMMA StepIInv == IInv /\ [Next]_vars => IInv'
  <1> SUFFICES ASSUME IInv, [Next]_vars PROVE IInv'
    OBVIOUS
  <1>1. CASE UNCHANGED vars
    <2> USE <1>1 DEF vars
    <2>1. WorkerTypes' /\ SocketTypes'
      BY WorkerKept
    <2>2. ByteTypes' /\ Stretches'
      BY BytesKept DEF sockets, readHalf
    <2>3. StreamTypes' /\ Registered' /\ SleepsBlocked'
      BY HalvesKept
    <2>4. Notifying => Notifying'
      BY DEF Notifying, readHalf, writeHalf
    <2>5. Settled'
      BY <2>4, SettledKept DEF IInv, worker, sockets, flags
    <2> QED
      BY <2>1, <2>2, <2>3, <2>5 DEF IInv
  <1>2. CASE Worker
    BY <1>2, StageIInv, InboundIInv, IngressFrameIInv, EgressPacketIInv, HandleSocketIoIInv,
       PruneSocketsIInv DEF Worker
  <1>3. CASE IdleTimer \/ IdleShutdown \/ HostSends \/ OutTaken
    BY <1>3, StageIInv
  <1>4. ASSUME NEW s \in Streams,
               Reads(s) \/ Repoll(s) \/ Writes(s) \/ AskShutdown(s) \/ DropStream(s)
        PROVE  IInv'
    BY <1>4, ReadsIInv, WritesIInv
  <1> QED
    BY <1>1, <1>2, <1>3, <1>4 DEF Next

(* The inductive invariant holds in every reachable state.                 *)
THEOREM Invariance == Spec => []IInv
  BY InitIInv, StepIInv, PTL DEF Spec

(* Sockets, rings and channels stay within their sizes.                    *)
THEOREM TypeCorrect == Spec => []TypeOK
  <1>1. IInv => TypeOK
    BY DEF IInv, WorkerTypes, SocketTypes, SocketState, Stretches, Stretch, TypeOK
  <1> QED
    BY <1>1, Invariance, PTL

(* An idle worker has left nothing undone for any stream, whatever the     *)
(* streams do between two of its stages (tcp.rs 258-306).                  *)
THEOREM NoWorkMissed == Spec => []NoMissedWork
  <1>1. IInv => NoMissedWork
    BY DEF IInv, WorkerTypes, Settled, NoMissedWork
  <1> QED
    BY <1>1, Invariance, PTL

(* No reader or writer sleeps over a ring the worker has changed for it,   *)
(* or without the waker it would be woken by (tcp.rs 434-455, 573-584,     *)
(* 613-618, 632-637).                                                      *)
THEOREM NoWakeupLost == Spec => []NoLostWakeup
  <1>1. IInv => NoLostWakeup
    BY DEF IInv, Registered, SleepsBlocked, NoLostWakeup
  <1> QED
    BY <1>1, Invariance, PTL

-----------------------------------------------------------------------------
(* The streams implement ByteStream: a segment smoltcp accepts is a Write, *)
(* a poll_read that takes bytes a Read, one that finds read_closed an End. *)

(* A step that receives, reads and ends nothing is none of the stream's.   *)
LEMMA Unseen ==
    ASSUME UNCHANGED <<sent, got>>,
           \A s \in Streams : reader'[s] = "eof" <=> reader[s] = "eof"
    PROVE  UNCHANGED HostStream!vars
  <1>1. [s \in Streams |-> reader[s] = "eof"]' = [s \in Streams |-> reader[s] = "eof"]
    OBVIOUS
  <1> QED
    BY <1>1 DEF HostStream!vars

(* A frame of the device is a Write or nothing.                            *)
LEMMA IngressSeen ==
    ASSUME IInv, IInv', IngressFrame
    PROVE  HostStream!Next \/ UNCHANGED HostStream!vars
  <1>1. UNCHANGED <<got, reader>>
    BY DEF IngressFrame, readHalf
  <1>2. CASE UNCHANGED sent
    BY <1>1, <1>2, Unseen
  <1>3. CASE \E s \in Streams : sent' = [sent EXCEPT ![s] = Append(sent[s], Len(sent[s]) + 1)]
    <2>1. PICK s \in Streams : sent' = [sent EXCEPT ![s] = Append(sent[s], Len(sent[s]) + 1)]
      BY <1>3
    <2>2. /\ sent[s] \in Seq(Nat) /\ Run(sent[s], 0)
          /\ sent'[s] = Append(sent[s], Len(sent[s]) + 1)
          /\ sent'[s] \in Seq(Nat) /\ Run(sent'[s], 0)
      BY <2>1 DEF IInv, ByteTypes, Stretches, Stretch, Laid
    <2>3. HostStream!IsStrictPrefix(sent[s], sent'[s])
      BY <2>2, RunGrows
    <2>4. sent' = [sent EXCEPT ![s] = sent'[s]]
      BY <2>1, <2>2
    <2>5. HostStream!Write(s)
      BY <1>1, <2>3, <2>4 DEF HostStream!Write
    <2> QED
      BY <2>5 DEF HostStream!Next
  <1> QED
    BY <1>2, <1>3 DEF IngressFrame, Receivers, Listeners, AcceptSegment, Listen, sockets

(* Bytes taken from the ring are a Read.                                   *)
LEMMA PopSeen ==
    ASSUME IInv, IInv', NEW s \in Streams, PopRecv(s), UNCHANGED <<sockets>>, reader[s] # "eof"
    PROVE  HostStream!Next
  <1>1. /\ ByteTypes' /\ Stretches' /\ reader' = [reader EXCEPT ![s] = "notify"]
        /\ got' = [got EXCEPT ![s] = got'[s]] /\ Len(got[s]) < Len(got'[s])
    BY PopRecvTakes
  <1>2. UNCHANGED sent
    BY DEF sockets
  <1>3. /\ got[s] \in Seq(Nat) /\ Run(got[s], 0) /\ sent[s] \in Seq(Nat) /\ Run(sent[s], 0)
    BY DEF IInv, ByteTypes, Stretches, Stretch, Laid
  <1>4. got'[s] \in Seq(Nat) /\ Run(got'[s], 0) /\ Len(got'[s]) <= Len(sent[s])
    <2>1. got'[s] \in Seq(Nat) /\ Laid(got'[s], recv_ring'[s], rx'[s], sent'[s])
      BY <1>1 DEF ByteTypes, Stretches, Stretch
    <2>2. Len(sent'[s]) = Len(got'[s]) + Len(recv_ring'[s]) + Len(rx'[s])
      BY <2>1 DEF Laid
    <2>3. Len(got'[s]) <= Len(sent'[s])
      BY <1>1, <2>2 DEF ByteTypes
    <2> QED
      BY <1>2, <2>1, <2>3 DEF Laid
  <1>5. HostStream!IsStrictPrefix(got[s], got'[s])
    BY <1>1, <1>3, <1>4, RunsPrefix
  <1>6. HostStream!IsPrefix(got'[s], sent[s])
    BY <1>3, <1>4, RunsPrefix
  <1>7. ~[t \in Streams |-> reader[t] = "eof"][s]
    OBVIOUS
  <1>8. [t \in Streams |-> reader[t] = "eof"]' = [t \in Streams |-> reader[t] = "eof"]
    BY <1>1 DEF IInv, StreamTypes
  <1>9. HostStream!Read(s)
    BY <1>1, <1>2, <1>5, <1>6, <1>7, <1>8 DEF HostStream!Read
  <1> QED
    BY <1>9 DEF HostStream!Next

(* A reader that finds read_closed ends its stream.                        *)
LEMMA ClosedSeen ==
    ASSUME IInv, NEW s \in Streams, ReadClosedLoad(s)
    PROVE  HostStream!Next \/ UNCHANGED HostStream!vars
  <1>1. /\ UNCHANGED <<sent, got>> /\ reader[s] = "closed?"
        /\ reader' = [reader EXCEPT ![s] = IF read_closed[s] THEN "eof" ELSE "register"]
    BY DEF ReadClosedLoad, ReadMoves, Untouched, sockets
  <1>2. CASE ~read_closed[s]
    BY <1>1, <1>2, Unseen DEF IInv, StreamTypes
  <1>3. CASE read_closed[s]
    <2>1. \A t \in Streams : reader'[t] = IF t = s THEN "eof" ELSE reader[t]
      BY <1>1, <1>3 DEF IInv, StreamTypes
    <2>2. [t \in Streams |-> reader[t] = "eof"]'
             = [[t \in Streams |-> reader[t] = "eof"] EXCEPT ![s] = TRUE]
      BY <2>1
    <2>3. HostStream!End(s)
      BY <1>1, <2>2 DEF HostStream!End
    <2> QED
      BY <2>3 DEF HostStream!Next
  <1> QED
    BY <1>2, <1>3

(* Every step of the netstack is a step of the streams, or none.           *)
LEMMA StepSeen ==
    ASSUME IInv, IInv', [Next]_vars
    PROVE  HostStream!Next \/ UNCHANGED HostStream!vars
  <1>1. CASE UNCHANGED <<sent, got, reader>>
    BY <1>1, Unseen
  <1>2. CASE IngressFrame
    BY <1>2, IngressSeen
  <1>3. CASE HandleSocketIo
    <2>1. UNCHANGED <<sent, got>>
      BY <1>3 DEF HandleSocketIo
    <2>2. \A s \in Streams : reader'[s] = "eof" <=> reader[s] = "eof"
      BY <1>3, WokenHalf DEF HandleSocketIo
    <2> QED
      BY <2>1, <2>2, Unseen
  <1>4. CASE \/ DrainInbound \/ InboundDrained \/ IngressEnds \/ EgressEnds \/ PruneSockets
             \/ IdleInbound \/ IdleNotified \/ IdleTimer \/ IdleShutdown \/ HostSends \/ OutTaken
             \/ (\E s \in Streams : EgressPacket(s))
    <2>1. UNCHANGED <<sent, got, reader>>
      BY <1>4 DEF DrainInbound, InboundDrained, IngressEnds, EgressEnds, PruneSockets,
         IdleInbound, IdleNotified, IdleTimer, Wake, IdleShutdown, HostSends, OutTaken,
         EgressPacket, ProcessInboundFrame, sockets, readHalf
    <2> QED
      BY <1>1, <2>1
  <1>5. ASSUME NEW s \in Streams, Writes(s) \/ AskShutdown(s) \/ DropStream(s)
        PROVE  HostStream!Next \/ UNCHANGED HostStream!vars
    <2>1. UNCHANGED <<sent, got, reader>>
      BY <1>5 DEF Writes, PollWrite, RegisterSendWaker, RecheckSend, WriteNotifies, AskShutdown,
         DropStream, Unwritten, sockets, readHalf
    <2> QED
      BY <1>1, <2>1
  <1>6. ASSUME NEW s \in Streams, Reads(s) \/ Repoll(s)
        PROVE  HostStream!Next \/ UNCHANGED HostStream!vars
    <2>1. CASE ReadClosedLoad(s)
      BY <2>1, ClosedSeen
    <2>2. CASE (PollRead(s) \/ RecheckRecv(s)) /\ recv_ring[s] # <<>>
      BY <2>2, PopSeen DEF PollRead, RecheckRecv, Untouched
    <2>3. CASE \/ (PollRead(s) \/ RecheckRecv(s)) /\ recv_ring[s] = <<>>
               \/ RegisterRecvWaker(s) \/ ReadNotifies(s) \/ Repoll(s)
      <3>1. /\ UNCHANGED <<sent, got>> /\ reader[s] # "eof"
            /\ \/ reader' = [reader EXCEPT ![s] = "closed?"]
               \/ reader' = [reader EXCEPT ![s] = "recheck"]
               \/ reader' = [reader EXCEPT ![s] = "idle"]
               \/ reader' = [reader EXCEPT ![s] = "pending"]
        BY <2>3 DEF PollRead, RecheckRecv, RegisterRecvWaker, ReadNotifies, Repoll, ReadMoves,
           Untouched, sockets
      <3>2. \A t \in Streams : reader'[t] = "eof" <=> reader[t] = "eof"
        BY <3>1 DEF IInv, StreamTypes
      <3> QED
        BY <3>1, <3>2, Unseen
    <2> QED
      BY <1>6, <2>1, <2>2, <2>3 DEF Reads
  <1>7. CASE UNCHANGED vars
    BY <1>1, <1>7 DEF vars, sockets, readHalf
  <1> QED
    BY <1>2, <1>3, <1>4, <1>5, <1>6, <1>7 DEF Next, Worker

(* What the application reads from a stream is a prefix of what smoltcp    *)
(* received for it, and nothing is read after the end: for any number of   *)
(* streams and any sizes of buffer and ring (tcp.rs 389-419, 567-595).     *)
THEOREM StreamsImplementByteStream == Spec => HostBytesInOrder
  <1>1. Init => HostStream!Init
    <2> SUFFICES ASSUME Init PROVE HostStream!Init
      OBVIOUS
    <2>1. [s \in Streams |-> reader[s] = "eof"] = [s \in Streams |-> FALSE]
      BY DEF Init
    <2> QED
      BY <2>1 DEF Init, HostStream!Init
  <1>2. IInv /\ IInv' /\ [Next]_vars => [HostStream!Next]_(HostStream!vars)
    BY StepSeen
  <1> QED
    BY <1>1, <1>2, Invariance, PTL DEF Spec, HostBytesInOrder, HostStream!Spec

=============================================================================
