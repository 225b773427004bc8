----------------------------- MODULE TunProofs -----------------------------
(***************************************************************************)
(* The two tables of endpoint/tun.rs that outlive a packet: the address    *)
(* pool of the fake DNS (FakeDns) and active_sessions, the table of UDP    *)
(* flows (TunEndpoint).                                                    *)
(*                                                                         *)
(* The pool, for any set of domains and any size of the pool.  OneOwner is *)
(* not inductive: the inserts write what the query's locals say.  IInv     *)
(* adds what the locals hold at each step of the query.  AnswersMapBack    *)
(* needs OneOwner (an address that is held has no listener running), and   *)
(* that the entry of ip_to_domain the query has just inserted is still its *)
(* own when it inserts the other one.                                      *)
(*                                                                         *)
(* The flows, for any local addresses, any sharding and any channel sizes. *)
(* MapMatchesFlows is not inductive: that the number of a new flow is free *)
(* (FlowsInOrder), and that the entry the UDP loop waits at is not removed *)
(* under it (EntryKept), have to be added.  The second is what the lock of *)
(* the shard is for.                                                       *)
(***************************************************************************)
EXTENDS FakeDns, TunEndpoint, FiniteSetTheorems, TLAPS

\* What the query remembers at each step of handle_dns_query.
LocalsHold ==
    /\ pc # "idle" => domain_name \in Domain
    /\ pc \in {"insert_ip", "insert_domain"} => new_ip \in Ip

\* Between its two inserts the query's address maps to its domain.
HalfMapped == pc = "insert_domain" => ip_to_domain[new_ip] = domain_name

\* The cursor never points before the pool.
CursorInPool == cursor >= FirstHost

\* The listener runs with the domain whose entry was evicted.
ListenerHasDomain == \A i \in Ip : evicting[i] # "idle" => evicted[i] \in Domain

IInv ==
    /\ TypeOK
    /\ CursorInPool
    /\ LocalsHold
    /\ ListenerHasDomain
    /\ OneOwner
    /\ HalfMapped
    /\ AnswersMapBack

-----------------------------------------------------------------------------
(* No address of the pool is the absent one: the cursor starts at 2.       *)
LEMMA NoIpOutside == NoIp \notin Ip /\ Ip \subseteq Nat
  BY ConstantsAssumption DEF NoIp, Ip, FirstHost

(* The initial state satisfies the inductive invariant.                    *)
LEMMA InitIInv == Init => IInv
  <1> SUFFICES ASSUME Init PROVE IInv
    OBVIOUS
  <1> USE ConstantsAssumption DEF Init
  <1>1. TypeOK
    BY DEF TypeOK, FirstHost
  <1>2. CursorInPool /\ LocalsHold /\ ListenerHasDomain /\ HalfMapped
    BY DEF CursorInPool, LocalsHold, ListenerHasDomain, HalfMapped, FirstHost
  <1>3. OneOwner
    BY DEF OneOwner, Places, One, Held, Ip, FirstHost
  <1>4. AnswersMapBack
    BY DEF AnswersMapBack
  <1> QED
    BY <1>1, <1>2, <1>3, <1>4 DEF IInv

(* Every step keeps the types.                                             *)
LEMMA NextTypeOK ==
    ASSUME TypeOK, LocalsHold, CursorInPool, ListenerHasDomain, [Next]_vars
    PROVE  TypeOK'
  <1> USE ConstantsAssumption, NoIpOutside DEF TypeOK, Goto, caches, pool, listener, locals
  <1>1. ASSUME NEW d \in Domain, LookupHit(d) \/ LookupMiss(d)
        PROVE  TypeOK'
    BY <1>1 DEF LookupHit, LookupMiss, vars
  <1>2. ASSUME QueryStep
        PROVE  TypeOK'
    <2> USE DEF LocalsHold, CursorInPool
    <2>1. CASE \E i \in Ip : PopRecycled(i)
      BY <2>1 DEF PopRecycled
    <2>2. CASE PopEmpty
      BY <2>2 DEF PopEmpty
    <2>3. CASE AllocateFresh
      BY <2>3 DEF AllocateFresh, Ip
    <2>4. CASE Exhausted
      BY <2>4 DEF Exhausted
    <2>5. CASE InsertIp
      BY <2>5 DEF InsertIp
    <2>6. CASE InsertDomain
      BY <2>6 DEF InsertDomain
    <2> QED
      BY <1>2, <2>1, <2>2, <2>3, <2>4, <2>5, <2>6 DEF QueryStep, AllocateStep
  <1>3. ASSUME NEW d \in Domain, ExpireDomain(d)
        PROVE  TypeOK'
    BY <1>3 DEF ExpireDomain
  <1>4. ASSUME NEW i \in Ip, ExpireIp(i) \/ ListenerStep(i)
        PROVE  TypeOK'
    BY <1>4 DEF ExpireIp, ListenerStep, ListenerInvalidates, ListenerPushes, ListenerHasDomain
  <1>5. CASE UNCHANGED vars
    BY <1>5 DEF vars
  <1> QED
    BY <1>1, <1>2, <1>3, <1>4, <1>5 DEF Next

(* Every step keeps what the query and the listeners remember.             *)
LEMMA NextLocals ==
    ASSUME IInv, [Next]_vars
    PROVE  CursorInPool' /\ LocalsHold' /\ ListenerHasDomain'
  <1> USE ConstantsAssumption, NoIpOutside
      DEF IInv, TypeOK, CursorInPool, LocalsHold, ListenerHasDomain, Goto,
          caches, pool, listener, locals
  <1>1. ASSUME NEW d \in Domain, LookupHit(d) \/ LookupMiss(d)
        PROVE  CursorInPool' /\ LocalsHold' /\ ListenerHasDomain'
    BY <1>1 DEF LookupHit, LookupMiss, vars
  <1>2. ASSUME QueryStep
        PROVE  CursorInPool' /\ LocalsHold' /\ ListenerHasDomain'
    <2>1. CASE \E i \in Ip : PopRecycled(i)
      BY <2>1 DEF PopRecycled
    <2>2. CASE PopEmpty
      BY <2>2 DEF PopEmpty
    <2>3. CASE AllocateFresh
      BY <2>3 DEF AllocateFresh, Ip, FirstHost
    <2>4. CASE Exhausted
      BY <2>4 DEF Exhausted
    <2>5. CASE InsertIp
      BY <2>5 DEF InsertIp
    <2>6. CASE InsertDomain
      BY <2>6 DEF InsertDomain
    <2> QED
      BY <1>2, <2>1, <2>2, <2>3, <2>4, <2>5, <2>6 DEF QueryStep, AllocateStep
  <1>3. ASSUME NEW d \in Domain, ExpireDomain(d)
        PROVE  CursorInPool' /\ LocalsHold' /\ ListenerHasDomain'
    BY <1>3 DEF ExpireDomain
  <1>4. ASSUME NEW i \in Ip, ExpireIp(i) \/ ListenerStep(i)
        PROVE  CursorInPool' /\ LocalsHold' /\ ListenerHasDomain'
    BY <1>4 DEF ExpireIp, ListenerStep, ListenerInvalidates, ListenerPushes
  <1>5. CASE UNCHANGED vars
    BY <1>5 DEF vars
  <1> QED
    BY <1>1, <1>2, <1>3, <1>4, <1>5 DEF Next

(* Every step leaves each address of the pool in exactly one place.        *)
LEMMA NextOneOwner ==
    ASSUME IInv, [Next]_vars
    PROVE  OneOwner'
  <1> USE ConstantsAssumption, NoIpOutside
      DEF IInv, TypeOK, LocalsHold, CursorInPool, OneOwner, Places, One, Held, Goto,
          caches, pool, listener, locals
  <1>1. ASSUME NEW d \in Domain, LookupHit(d) \/ LookupMiss(d)
        PROVE  OneOwner'
    BY <1>1 DEF LookupHit, LookupMiss, vars
  <1>2. ASSUME QueryStep
        PROVE  OneOwner'
    <2>1. ASSUME NEW i \in Ip, PopRecycled(i)
          PROVE  OneOwner'
      <3>1. recycled_ips[i] = 1 /\ Places(i) = 1 /\ i < cursor
        BY <2>1 DEF PopRecycled
      <3>2. Places(i)' = 1
        BY <2>1, <3>1 DEF PopRecycled
      <3>3. ASSUME NEW j \in Ip, j # i
            PROVE  Places(j)' = Places(j)
        BY <2>1, <3>3 DEF PopRecycled
      <3> QED
        BY <2>1, <3>1, <3>2, <3>3 DEF PopRecycled
    <2>2. CASE PopEmpty
      BY <2>2 DEF PopEmpty
    <2>3. CASE AllocateFresh
      BY <2>3 DEF AllocateFresh, Ip
    <2>4. CASE Exhausted
      BY <2>4 DEF Exhausted
    <2>5. CASE InsertIp
      BY <2>5 DEF InsertIp
    <2>6. CASE InsertDomain
      BY <2>6 DEF InsertDomain
    <2> QED
      BY <1>2, <2>1, <2>2, <2>3, <2>4, <2>5, <2>6 DEF QueryStep, AllocateStep
  <1>3. ASSUME NEW d \in Domain, ExpireDomain(d)
        PROVE  OneOwner'
    BY <1>3 DEF ExpireDomain
  <1>4. ASSUME NEW i \in Ip, ExpireIp(i)
        PROVE  OneOwner'
    BY <1>4 DEF ExpireIp
  <1>5. ASSUME NEW i \in Ip, ListenerStep(i)
        PROVE  OneOwner'
    BY <1>5 DEF ListenerStep, ListenerInvalidates, ListenerPushes
  <1>6. CASE UNCHANGED vars
    BY <1>6 DEF vars
  <1> QED
    BY <1>1, <1>2, <1>3, <1>4, <1>5, <1>6 DEF Next

(* The address the query holds is mapped to no domain and has no listener, *)
(* and a mapped one has no listener either.                                *)
LEMMA OwnersApart ==
    ASSUME TypeOK, OneOwner, NEW i \in Ip
    PROVE  /\ Held(i) => ip_to_domain[i] = NoDomain /\ evicting[i] = "idle"
           /\ ip_to_domain[i] # NoDomain => evicting[i] = "idle"
  BY DEF TypeOK, OneOwner, Places, One

(* Every step keeps the two caches in agreement: the half-made mapping of  *)
(* the query, and the answers of domain_to_ip.                             *)
LEMMA NextMapped ==
    ASSUME IInv, [Next]_vars
    PROVE  HalfMapped' /\ AnswersMapBack'
  <1> USE ConstantsAssumption, NoIpOutside
      DEF IInv, TypeOK, LocalsHold, HalfMapped, AnswersMapBack, Goto,
          caches, pool, listener, locals
  <1>1. ASSUME NEW d \in Domain, LookupHit(d) \/ LookupMiss(d)
        PROVE  HalfMapped' /\ AnswersMapBack'
    BY <1>1 DEF LookupHit, LookupMiss, vars
  <1>2. ASSUME AllocateStep
        PROVE  HalfMapped' /\ AnswersMapBack'
    BY <1>2 DEF AllocateStep, PopRecycled, PopEmpty, AllocateFresh, Exhausted
  <1>3. ASSUME InsertIp
        PROVE  HalfMapped' /\ AnswersMapBack'
    <2>1. new_ip \in Ip /\ Held(new_ip)
      BY <1>3 DEF InsertIp, Held
    <2>2. ip_to_domain[new_ip] = NoDomain /\ evicting[new_ip] = "idle"
      BY <2>1, OwnersApart
    <2> QED
      BY <1>3, <2>1, <2>2 DEF InsertIp
  <1>4. ASSUME InsertDomain
        PROVE  HalfMapped' /\ AnswersMapBack'
    BY <1>4 DEF InsertDomain
  <1>5. ASSUME NEW d \in Domain, ExpireDomain(d)
        PROVE  HalfMapped' /\ AnswersMapBack'
    BY <1>5 DEF ExpireDomain
  <1>6. ASSUME NEW i \in Ip, ExpireIp(i)
        PROVE  HalfMapped' /\ AnswersMapBack'
    <2>1. evicting[i] = "idle"
      BY <1>6, OwnersApart DEF ExpireIp
    <2> QED
      BY <1>6, <2>1 DEF ExpireIp
  <1>7. ASSUME NEW i \in Ip, ListenerInvalidates(i)
        PROVE  HalfMapped' /\ AnswersMapBack'
    <2>1. ip_to_domain[i] = NoDomain /\ evicted[i] \in Domain
      BY <1>7, OwnersApart DEF ListenerInvalidates, ListenerHasDomain
    <2> QED
      BY <1>7, <2>1 DEF ListenerInvalidates
  <1>8. ASSUME NEW i \in Ip, ListenerPushes(i)
        PROVE  HalfMapped' /\ AnswersMapBack'
    BY <1>8 DEF ListenerPushes
  <1>9. CASE UNCHANGED vars
    BY <1>9 DEF vars
  <1> QED
    BY <1>1, <1>2, <1>3, <1>4, <1>5, <1>6, <1>7, <1>8, <1>9
       DEF Next, QueryStep, ListenerStep

-----------------------------------------------------------------------------
(* The conjunction of the parts is an inductive invariant of the fake DNS, *)
(* however many domains are asked for and addresses there are (tun.rs      *)
(* 51-160).                                                                *)
THEOREM Invariance == Spec => []IInv
  <1>1. IInv /\ [Next]_vars => IInv'
    <2> SUFFICES ASSUME IInv, [Next]_vars PROVE IInv'
      OBVIOUS
    <2>1. TypeOK'
      BY NextTypeOK DEF IInv
    <2> QED
      BY <2>1, NextLocals, NextOneOwner, NextMapped DEF IInv
  <1> QED
    BY <1>1, InitIInv, PTL DEF Spec

(* The caches, the queue, the cursor and the locals of the query have      *)
(* their types: only addresses of the pool are ever cached or recycled,    *)
(* and the queue never holds an address less than zero times.              *)
THEOREM TypeCorrect == Spec => []TypeOK
  BY Invariance, PTL DEF IInv

(* No interleaving of the query, the expiry of both caches and the         *)
(* listeners hands an address out twice or loses one: the cursor, the      *)
(* queue and the eviction listener pass each address from one owner to the *)
(* next (tun.rs 72-80, 98-122, 147-155).                                   *)
THEOREM AddressesConserved == Spec => []OneOwner
  BY Invariance, PTL DEF IInv

(* An answer from domain_to_ip names an address that maps back to the      *)
(* domain or is being invalidated: no two domains meet on an address       *)
(* (tun.rs 72-80, 147-155).                                                *)
THEOREM AnswersSound == Spec => []AnswersMapBack
  BY Invariance, PTL DEF IInv

-----------------------------------------------------------------------------
(* The flows of TunEndpoint.                                               *)

\* A TCP packet on its way, queued, or turned into a stream was sent by the host.
TcpBounded == streams + tcp + (IF sink = "tcp" THEN 1 ELSE 0) <= packets

\* Flows get their numbers in order.
FlowsInOrder == \E n \in 0..MaxPackets : \A f \in Flow : flow[f] # "none" <=> f <= n

\* A flow that was started has a local address.
OwnersLocal == \A f \in Flow : flow[f] # "none" => owner[f] \in Local

\* The entry the loop waits at is in the map.
EntryKept == loop = "send" => packet \in Local /\ active_sessions[packet] # None

\* The forwarder flushes a packet.
FlushHolds == up = "flush" => sink \in Packet

TunIInv ==
    /\ TunTypeOK
    /\ FlushHolds
    /\ TcpBounded
    /\ FlowsInOrder
    /\ OwnersLocal
    /\ EntryKept
    /\ MapMatchesFlows

-----------------------------------------------------------------------------
(* The bounds are numbers.                                                 *)
LEMMA TunSizes == /\ MaxPackets \in Nat /\ MaxAnswers \in Nat
                  /\ QueueSize \in Nat \ {0} /\ FlowSize \in Nat \ {0}
                  /\ None \notin Flow /\ Flow \subseteq Nat
  BY TunAssumption DEF None, Flow

(* The initial state satisfies the inductive invariant.                    *)
LEMMA TunInitIInv == TunInit => TunIInv
  <1> SUFFICES ASSUME TunInit PROVE TunIInv
    OBVIOUS
  <1> USE TunSizes
  <1>1. TunTypeOK
    <2>1. /\ up = "read" /\ sink = "none" /\ down = "read" /\ acceptor = "run" /\ loop = "recv"
          /\ packet = "none" /\ packets = 0 /\ udp = <<>> /\ tcp = 0 /\ out = 0 /\ streams = 0
          /\ answers = 0
      BY DEF TunInit
    <2>2. /\ active_sessions \in [Local -> Flow \union {None}]
          /\ owner \in [Flow -> Local \union {"none"}] /\ chan \in [Flow -> 0..FlowSize]
          /\ flow \in [Flow -> {"none", "run", "write", "leave", "drop", "done"}]
      BY DEF TunInit
    <2>3. token \in BOOLEAN /\ joined \in BOOLEAN
      BY DEF TunInit
    <2>4. udp \in Seq(Packet) /\ Len(udp) <= QueueSize
      BY <2>1
    <2> QED
      BY <2>1, <2>2, <2>3, <2>4 DEF TunTypeOK
  <1>2. FlushHolds /\ TcpBounded /\ OwnersLocal /\ EntryKept
    BY DEF TunInit, FlushHolds, TcpBounded, OwnersLocal, EntryKept
  <1>3. FlowsInOrder
    <2>1. 0 \in 0..MaxPackets /\ \A f \in Flow : flow[f] # "none" <=> f <= 0
      BY DEF TunInit, Flow
    <2> QED
      BY <2>1 DEF FlowsInOrder
  <1>4. MapMatchesFlows
    BY DEF TunInit, MapMatchesFlows, Live
  <1> QED
    BY <1>1, <1>2, <1>3, <1>4 DEF TunIInv

(* What leaves the loop's place, the map and the flows alone keeps what is *)
(* said of them.                                                           *)
LEMMA TunFlowsStay ==
    ASSUME TunIInv, UNCHANGED <<loop, packet, active_sessions, flow, owner>>
    PROVE  FlowsInOrder' /\ OwnersLocal' /\ EntryKept' /\ MapMatchesFlows'
  BY DEF TunIInv, FlowsInOrder, OwnersLocal, EntryKept, MapMatchesFlows, Live

(* The forwarders between the device and the stack keep the invariant.     *)
LEMMA ForwardersTunIInv ==
    ASSUME TunIInv,
           \/ Shutdown \/ Join \/ (\E p \in Packet : StartSend(p))
           \/ Up \/ TunReadEnds \/ Down \/ TunSendFails
    PROVE  TunIInv'
  <1> USE TunSizes
  <1>1. UNCHANGED <<loop, packet, active_sessions, flow, owner, chan, answers>>
    BY DEF Shutdown, Join, StartSend, Up, PollFlush, UpCancelled, TunReadEnds, Down, StackNext,
           TunSend, DownEnds, TunSendFails, udpLoop, flows
  <1>2. TunTypeOK' /\ FlushHolds' /\ TcpBounded'
    <2> USE <1>1 DEF TunIInv, TunTypeOK, FlushHolds, TcpBounded
    <2>1. CASE Shutdown \/ Join
      BY <2>1 DEF Shutdown, Join, forwarders, tcpSide
    <2>2. ASSUME NEW p \in Packet, StartSend(p)
          PROVE  TunTypeOK' /\ FlushHolds' /\ TcpBounded'
      <3>1. UNCHANGED <<token, joined, down, udp, out, acceptor, tcp, streams>>
        BY <2>2 DEF StartSend, tcpSide
      <3>2. packets < MaxPackets /\ packets' = packets + 1
        BY <2>2 DEF StartSend
      <3>3. \/ UNCHANGED <<up, sink>>
            \/ up' = "done" /\ UNCHANGED sink
            \/ up' = "flush" /\ sink' = p
        BY <2>2 DEF StartSend
      <3> QED
        BY <3>1, <3>2, <3>3, <2>2
    <2>3. CASE PollFlush
      <3>1. UNCHANGED <<token, joined, down, packets, out, acceptor, streams>> /\ sink \in Packet
        BY <2>3 DEF PollFlush
      <3>2. CASE sink = "tcp"
        BY <2>3, <3>1, <3>2 DEF PollFlush
      <3>3. CASE sink # "tcp"
        <4>1. UNCHANGED tcp /\ up' \in {"read", "done", "asleep"}
          BY <2>3, <3>3 DEF PollFlush
        <4>2. sink' \in {sink, "none"}
          BY <2>3 DEF PollFlush
        <4>3. udp' \in Seq(Packet) /\ Len(udp') <= QueueSize
          <5>1. UNCHANGED udp \/ (Len(udp) < QueueSize /\ udp' = Append(udp, sink))
            BY <2>3, <3>3 DEF PollFlush
          <5> QED
            BY <3>1, <5>1
        <4> QED
          BY <3>1, <3>3, <4>1, <4>2, <4>3
      <3> QED
        BY <3>2, <3>3
    <2>4. CASE UpCancelled \/ TunReadEnds
      BY <2>4 DEF UpCancelled, TunReadEnds, tcpSide
    <2>5. CASE Down \/ TunSendFails
      <3>1. UNCHANGED <<token, joined, up, sink, packets, udp, acceptor, tcp, streams>>
        BY <2>5 DEF Down, StackNext, TunSend, DownEnds, TunSendFails, tcpSide
      <3>2. down' \in {"read", "send", "done"} /\ out' \in 0..QueueSize
        BY <2>5 DEF Down, StackNext, TunSend, DownEnds, TunSendFails
      <3> QED
        BY <3>1, <3>2
    <2> QED
      BY <2>1, <2>2, <2>3, <2>4, <2>5 DEF Up
  <1> QED
    BY <1>1, <1>2, TunFlowsStay DEF TunIInv

(* A sum that does not grow stays under its bound, and so do its parts.    *)
LEMMA SumsBounded ==
    ASSUME NEW a \in Nat, NEW b \in Nat, NEW c \in Nat, NEW d \in Nat, NEW k \in Nat,
           NEW m \in Nat, c + d <= a + b, b + a + k <= m
    PROVE  d + c + k <= m /\ d <= m
  OBVIOUS

(* So does the TCP side.                                                   *)
LEMMA TcpTunIInv ==
    ASSUME TunIInv, Tcp
    PROVE  TunIInv'
  <1>1. UNCHANGED <<loop, packet, active_sessions, flow, owner, chan, answers>>
    BY DEF Tcp, TcpWorker, AcceptTcp, AcceptorEnds, udpLoop, flows
  <1>2. UNCHANGED <<token, joined, up, sink, down, packets, udp>>
    BY DEF Tcp, TcpWorker, AcceptTcp, AcceptorEnds, forwarders
  <1>3. acceptor' \in {"run", "done"} /\ out' \in 0..QueueSize
    BY TunSizes DEF Tcp, TcpWorker, AcceptTcp, AcceptorEnds, TunIInv, TunTypeOK
  <1>4. /\ QueueSize \in Nat /\ MaxPackets \in Nat /\ tcp \in Nat /\ streams \in Nat
        /\ packets \in Nat /\ tcp <= QueueSize /\ packets <= MaxPackets
    BY TunSizes DEF TunIInv, TunTypeOK
  <1>5. tcp' \in Nat /\ streams' \in Nat /\ tcp' <= tcp /\ tcp' + streams' <= tcp + streams
    BY <1>4 DEF Tcp, TcpWorker, AcceptTcp, AcceptorEnds
  <1>6. TcpBounded' /\ streams' <= packets
    <2> DEFINE s == IF sink = "tcp" THEN 1 ELSE 0
    <2>1. s \in Nat /\ streams + tcp + s <= packets
      BY DEF TunIInv, TcpBounded
    <2>2. streams' + tcp' + s <= packets /\ streams' <= packets
      <3> HIDE DEF s
      <3> QED
        BY <1>4, <1>5, <2>1, SumsBounded
    <2> QED
      BY <1>2, <2>2 DEF TcpBounded
  <1>7. tcp' <= QueueSize /\ streams' <= MaxPackets
    BY <1>4, <1>5, <1>6
  <1>8. tcp' \in 0..QueueSize /\ streams' \in 0..MaxPackets
    BY <1>4, <1>5, <1>7
  <1>9. TunTypeOK' /\ FlushHolds'
    BY <1>1, <1>2, <1>3, <1>8 DEF TunIInv, TunTypeOK, FlushHolds
  <1> QED
    BY <1>1, <1>6, <1>9, TunFlowsStay DEF TunIInv

(* What the UDP loop and the flows leave alone.                            *)
LEMMA TunOthersStay ==
    ASSUME TunIInv, Udp \/ (\E f \in Flow : RelayFlow(f) \/ FlowAnswered(f) \/ FlowIdle(f))
    PROVE  UNCHANGED <<token, joined, up, sink, down, acceptor, tcp, streams, packets>>
  BY DEF Udp, RecvMalformed, RecvDns, RecvRefused, RecvOccupied, RecvVacant, UdpRecv, DnsAnswer,
         SendToFlow, LoopEnds, RelayFlow, FlowSends, FlowWrites, FlowRemoves, FlowDrops,
         FlowAnswered, FlowIdle, forwarders, tcpSide

(* A packet that leaves the inbound channel leaves a shorter one.          *)
LEMMA UdpRecvShortens ==
    ASSUME TunIInv, NEW p, UdpRecv(p)
    PROVE  /\ loop = "recv" /\ udp' \in Seq(Packet) /\ Len(udp') <= QueueSize
           /\ UNCHANGED out
  <1>1. udp # <<>> /\ udp' = Tail(udp) /\ udp \in Seq(Packet) /\ Len(udp) <= QueueSize
    BY DEF UdpRecv, TunIInv, TunTypeOK
  <1>2. udp' \in Seq(Packet) /\ Len(udp') = Len(udp) - 1 /\ Len(udp) \in Nat
    BY <1>1
  <1> QED
    BY <1>1, <1>2, TunSizes DEF UdpRecv

(* The first packet of an address starts a flow under a number that is     *)
(* free, and makes it the address's entry.                                 *)
LEMMA RecvVacantTunIInv ==
    ASSUME TunIInv, NEW l \in Local, NEW f \in Flow, RecvVacant(l, f),
           UNCHANGED <<token, joined, up, sink, down, acceptor, tcp, streams, packets>>
    PROVE  TunIInv'
  <1> USE TunSizes
  <1>1. PICK n \in 0..MaxPackets : \A g \in Flow : flow[g] # "none" <=> g <= n
    BY DEF TunIInv, FlowsInOrder
  <1>2. f = n + 1
    <2>1. {g \in Flow : flow[g] # "none"} = 1..n
      BY <1>1 DEF Flow
    <2>2. Cardinality(1..n) = n
      BY FS_Interval
    <2>3. f = 1 + Cardinality({g \in Flow : flow[g] # "none"})
      BY DEF RecvVacant
    <2>4. f = 1 + Cardinality(1..n)
      BY <2>1, <2>3, Zenon
    <2> QED
      BY <2>2, <2>4
  <1>3. flow[f] = "none"
    BY <1>1, <1>2
  <1>4. /\ active_sessions[l] = None /\ active_sessions' = [active_sessions EXCEPT ![l] = f]
        /\ flow' = [flow EXCEPT ![f] = "run"] /\ owner' = [owner EXCEPT ![f] = l]
        /\ chan' = [chan EXCEPT ![f] = 1] /\ UNCHANGED <<loop, packet, answers, out>>
        /\ loop = "recv" /\ udp' \in Seq(Packet) /\ Len(udp') <= QueueSize
    BY UdpRecvShortens DEF RecvVacant, udpLoop
  <1>5. TunTypeOK' /\ FlushHolds' /\ TcpBounded'
    BY <1>4 DEF TunIInv, TunTypeOK, FlushHolds, TcpBounded
  <1>6. FlowsInOrder'
    <2>1. n + 1 \in 0..MaxPackets
      BY <1>2 DEF Flow
    <2>2. \A g \in Flow : flow'[g] # "none" <=> g <= n + 1
      BY <1>1, <1>2, <1>4 DEF TunIInv, TunTypeOK
    <2> QED
      BY <2>1, <2>2 DEF FlowsInOrder
  <1>7. OwnersLocal' /\ EntryKept'
    BY <1>4 DEF TunIInv, TunTypeOK, OwnersLocal, EntryKept
  <1>8. MapMatchesFlows'
    BY <1>3, <1>4 DEF TunIInv, TunTypeOK, MapMatchesFlows, Live
  <1> QED
    BY <1>5, <1>6, <1>7, <1>8 DEF TunIInv

(* The send comes back.  The entry is that of a flow that has its receiver *)
(* still, so nothing is removed.                                           *)
LEMMA SendToFlowTunIInv ==
    ASSUME TunIInv, SendToFlow,
           UNCHANGED <<token, joined, up, sink, down, acceptor, tcp, streams, packets>>
    PROVE  TunIInv'
  <1> USE TunSizes
  <1> DEFINE f == active_sessions[packet]
  <1>1. packet \in Local /\ f \in Flow
    BY DEF SendToFlow, TunIInv, TunTypeOK, EntryKept
  <1>2. flow[f] # "done"
    BY <1>1 DEF TunIInv, MapMatchesFlows, Live
  <1>3. /\ chan[f] < FlowSize /\ chan' = [chan EXCEPT ![f] = chan[f] + 1]
        /\ loop' = "recv" /\ packet' = "none"
        /\ UNCHANGED <<active_sessions, flow, owner, answers, udp, out>>
    BY <1>2 DEF SendToFlow
  <1>4. chan' \in [Flow -> 0..FlowSize]
    BY <1>1, <1>3 DEF TunIInv, TunTypeOK
  <1>5. TunTypeOK' /\ FlushHolds' /\ TcpBounded'
    BY <1>3, <1>4 DEF TunIInv, TunTypeOK, FlushHolds, TcpBounded
  <1>6. FlowsInOrder' /\ OwnersLocal' /\ EntryKept' /\ MapMatchesFlows'
    BY <1>3 DEF TunIInv, FlowsInOrder, OwnersLocal, EntryKept, MapMatchesFlows, Live
  <1> QED
    BY <1>5, <1>6 DEF TunIInv

(* The UDP loop keeps the invariant.                                       *)
LEMMA UdpTunIInv ==
    ASSUME TunIInv, Udp
    PROVE  TunIInv'
  <1> USE TunSizes
  <1>0. UNCHANGED <<token, joined, up, sink, down, acceptor, tcp, streams, packets>>
    BY TunOthersStay
  <1>1. ASSUME UNCHANGED <<active_sessions, flow, owner, chan, answers>>,
               out' \in 0..QueueSize, udp' \in Seq(Packet), Len(udp') <= QueueSize,
               \/ loop' \in {"recv", "dns", "done"} /\ UNCHANGED packet
               \/ /\ loop' = "send" /\ packet' \in Local
                  /\ active_sessions[packet'] # None
        PROVE  TunIInv'
    <2>1. TunTypeOK' /\ FlushHolds' /\ TcpBounded'
      BY <1>0, <1>1 DEF TunIInv, TunTypeOK, FlushHolds, TcpBounded
    <2>2. FlowsInOrder' /\ OwnersLocal' /\ EntryKept' /\ MapMatchesFlows'
      BY <1>1 DEF TunIInv, FlowsInOrder, OwnersLocal, EntryKept, MapMatchesFlows, Live
    <2> QED
      BY <2>1, <2>2 DEF TunIInv
  <1>2. CASE RecvMalformed \/ LoopEnds
    <2>1. /\ UNCHANGED <<active_sessions, flow, owner, chan, answers, out, packet>>
          /\ loop' = "done" /\ udp' = <<>>
      BY <1>2 DEF RecvMalformed, LoopEnds, flows
    <2>2. udp' \in Seq(Packet) /\ Len(udp') <= QueueSize
      BY <2>1
    <2>3. out' \in 0..QueueSize
      BY <2>1 DEF TunIInv, TunTypeOK
    <2> QED
      BY <1>1, <2>1, <2>2, <2>3
  <1>3. CASE RecvDns \/ RecvRefused
    BY <1>1, <1>3, UdpRecvShortens DEF RecvDns, RecvRefused, udpLoop, flows, TunIInv, TunTypeOK
  <1>4. CASE DnsAnswer
    BY <1>1, <1>4 DEF DnsAnswer, flows, TunIInv, TunTypeOK
  <1>5. ASSUME NEW l \in Local, RecvOccupied(l)
        PROVE  TunIInv'
    BY <1>1, <1>5, UdpRecvShortens DEF RecvOccupied, flows, TunIInv, TunTypeOK
  <1>6. ASSUME NEW l \in Local, NEW f \in Flow, RecvVacant(l, f)
        PROVE  TunIInv'
    BY <1>0, <1>6, RecvVacantTunIInv
  <1>7. CASE SendToFlow
    BY <1>0, <1>7, SendToFlowTunIInv
  <1> QED
    BY <1>2, <1>3, <1>4, <1>5, <1>6, <1>7 DEF Udp

(* A flow takes its entry out only while the loop does not wait at it, and *)
(* it is its own entry it takes out.                                       *)
LEMMA FlowRemovesTunIInv ==
    ASSUME TunIInv, NEW f \in Flow, FlowRemoves(f),
           UNCHANGED <<token, joined, up, sink, down, acceptor, tcp, streams, packets>>
    PROVE  TunIInv'
  <1> USE TunSizes
  <1> DEFINE l == owner[f]
  <1>1. /\ flow[f] = "leave" /\ active_sessions' = [active_sessions EXCEPT ![l] = None]
        /\ flow' = [flow EXCEPT ![f] = "drop"]
        /\ UNCHANGED <<loop, packet, udp, out, owner, chan, answers>>
    BY DEF FlowRemoves, udpLoop
  <1>2. l \in Local /\ active_sessions[l] = f
    BY <1>1 DEF TunIInv, OwnersLocal, MapMatchesFlows, Live
  <1>3. loop = "send" => packet # l
    BY DEF FlowRemoves, ShardLocked
  <1>4. TunTypeOK' /\ FlushHolds' /\ TcpBounded'
    BY <1>1 DEF TunIInv, TunTypeOK, FlushHolds, TcpBounded
  <1>5. FlowsInOrder' /\ OwnersLocal'
    BY <1>1 DEF TunIInv, TunTypeOK, FlowsInOrder, OwnersLocal
  <1>6. EntryKept'
    BY <1>1, <1>3 DEF TunIInv, TunTypeOK, EntryKept
  <1>7. MapMatchesFlows'
    BY <1>1, <1>2 DEF TunIInv, TunTypeOK, MapMatchesFlows, Live
  <1> QED
    BY <1>4, <1>5, <1>6, <1>7 DEF TunIInv

(* The flows keep the invariant.                                           *)
LEMMA RelayTunIInv ==
    ASSUME TunIInv, NEW f \in Flow, RelayFlow(f) \/ FlowAnswered(f) \/ FlowIdle(f)
    PROVE  TunIInv'
  <1> USE TunSizes
  <1>0. UNCHANGED <<token, joined, up, sink, down, acceptor, tcp, streams, packets>>
    BY TunOthersStay
  <1>1. CASE FlowRemoves(f)
    BY <1>0, <1>1, FlowRemovesTunIInv
  <1>2. ASSUME UNCHANGED <<active_sessions, owner, loop, packet, udp>>,
               \/ UNCHANGED flow
               \/ \E s \in {"run", "write", "leave"} :
                     Live(f) /\ flow' = [flow EXCEPT ![f] = s]
               \/ flow[f] = "drop" /\ flow' = [flow EXCEPT ![f] = "done"],
               chan' \in [Flow -> 0..FlowSize], out' \in 0..QueueSize,
               answers' \in 0..MaxAnswers
        PROVE  TunIInv'
    <2>1. TunTypeOK' /\ FlushHolds' /\ TcpBounded'
      BY <1>0, <1>2 DEF TunIInv, TunTypeOK, FlushHolds, TcpBounded
    <2>2. \A g \in Flow : (flow'[g] # "none" <=> flow[g] # "none") /\ (Live(g)' <=> Live(g))
      BY <1>2 DEF TunIInv, TunTypeOK, Live
    <2>3. FlowsInOrder' /\ OwnersLocal' /\ EntryKept' /\ MapMatchesFlows'
      BY <1>2, <2>2 DEF TunIInv, FlowsInOrder, OwnersLocal, EntryKept, MapMatchesFlows
    <2> QED
      BY <2>1, <2>3 DEF TunIInv
  <1>3. CASE FlowSends(f) \/ FlowDrops(f)
    <2>1. /\ UNCHANGED <<active_sessions, owner, loop, packet, udp, out, answers>>
          /\ UNCHANGED flow \/ (flow[f] = "drop" /\ flow' = [flow EXCEPT ![f] = "done"])
      BY <1>3 DEF FlowSends, FlowDrops, udpLoop
    <2>2. chan' \in [Flow -> 0..FlowSize]
      BY <1>3 DEF FlowSends, FlowDrops, TunIInv, TunTypeOK
    <2>3. out' \in 0..QueueSize /\ answers' \in 0..MaxAnswers
      BY <2>1 DEF TunIInv, TunTypeOK
    <2> QED
      BY <1>2, <2>1, <2>2, <2>3
  <1>4. CASE FlowWrites(f) \/ FlowIdle(f) \/ FlowAnswered(f)
    <2>1. UNCHANGED <<active_sessions, owner, loop, packet, udp, chan>>
      BY <1>4 DEF FlowWrites, FlowIdle, FlowAnswered, udpLoop
    <2>2. \E s \in {"run", "write", "leave"} : Live(f) /\ flow' = [flow EXCEPT ![f] = s]
      BY <1>4 DEF FlowWrites, FlowIdle, FlowAnswered, Live
    <2>3. out' \in 0..QueueSize /\ answers' \in 0..MaxAnswers
      BY <1>4 DEF FlowWrites, FlowIdle, FlowAnswered, TunIInv, TunTypeOK
    <2>4. chan' \in [Flow -> 0..FlowSize]
      BY <2>1 DEF TunIInv, TunTypeOK
    <2> QED
      BY <1>2, <2>1, <2>2, <2>3, <2>4
  <1> QED
    BY <1>1, <1>3, <1>4 DEF RelayFlow

(* TunIInv is an inductive invariant of the TUN endpoint, however many     *)
(* packets the host sends and the tunnel answers (tun.rs 226-363, 422-641).*)
THEOREM TunInvariance == TunSpec => []TunIInv
  <1>1. TunIInv /\ [TunNext]_tunVars => TunIInv'
    <2> SUFFICES ASSUME TunIInv, [TunNext]_tunVars PROVE TunIInv'
      OBVIOUS
    <2>1. CASE UNCHANGED tunVars
      <3>1. UNCHANGED <<token, joined, up, sink, down, loop, packet, packets, udp, tcp, out,
                        acceptor, streams, active_sessions, flow, owner, chan, answers>>
        BY <2>1 DEF tunVars, forwarders, udpLoop, tcpSide, flows
      <3>2. TunTypeOK' /\ FlushHolds' /\ TcpBounded'
        BY <3>1 DEF TunIInv, TunTypeOK, FlushHolds, TcpBounded
      <3> QED
        BY <3>1, <3>2, TunFlowsStay DEF TunIInv
    <2> QED
      BY <2>1, ForwardersTunIInv, TcpTunIInv, UdpTunIInv, RelayTunIInv DEF TunNext
  <1> QED
    BY <1>1, TunInitIInv, PTL DEF TunSpec

(* The channels of the stack and of the flows stay within their sizes, and *)
(* there are no more streams than packets came.                            *)
THEOREM TunTypeCorrect == TunSpec => []TunTypeOK
  BY TunInvariance, PTL DEF TunIInv

(* The entry of a local address is the sender of the one flow that serves  *)
(* it: neither the late remove of an old flow nor a send that fails takes  *)
(* out the entry of its successor (tun.rs 524-554, 557-641).               *)
THEOREM FlowsTracked == TunSpec => []MapMatchesFlows
  BY TunInvariance, PTL DEF TunIInv

=============================================================================
