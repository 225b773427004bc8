---------------------- MODULE ServerConnectionProofs ----------------------
(***************************************************************************)
(* What a connection of the server counts: permits and metrics of the      *)
(* acceptor (ConnectionAcceptor), and the UDP sessions, their tasks and    *)
(* the handlers of its datagram tunnel (DatagramTunnel).                   *)
(*                                                                         *)
(* The acceptor, for any number of connections, any max_connections and    *)
(* any backlog.  PermitsConserved and CountersAgree are equations between  *)
(* a number and the size of a set of connections.  A step moves one        *)
(* connection, so each of the four sets gains it, loses it or stays.  That *)
(* auth_failed counts the right ones is not inductive by itself: a closed  *)
(* connection is taken for a failed one by its stream loop never having    *)
(* started, so LoopsStart says at which stages that loop is still off.     *)
(*                                                                         *)
(* The tunnel, for any packets, sessions and destinations and any limits.  *)
(* LoopsMatchSessions is not inductive: an eviction stops the task of one  *)
(* session only because no two sessions have the same instance             *)
(* (OneInstance), and a creation adds a session only because the one it    *)
(* creates is not cached, which was looked up some awaits before           *)
(* (NotCachedYet).  It says something of a running loop only, so that no   *)
(* eviction follows the loop's end is needed too (CacheDropped).           *)
(***************************************************************************)
EXTENDS ConnectionAcceptor, DatagramTunnel, FiniteSetTheorems, TLAPS

\* The stream loop starts with the tunnel stage and never turns off again.
LoopsStart ==
    \A c \in Conn :
        /\ stage[c] \in Stage \ {"tunnel", "closed"} => stream_loop[c] = "off"
        /\ stage[c] = "tunnel" => stream_loop[c] # "off"

IInv ==
    /\ TypeOK
    /\ LoopsStart
    /\ PermitsConserved
    /\ CountersAgree

\* The sets that the invariants count.
Busy == {c \in Conn : Processing(c)}
Rejected == {c \in Conn : stage[c] = "rejected"}
Admitted == {c \in Conn : Processing(c) \/ stage[c] = "closed"}
Unauthenticated == {c \in Conn : stage[c] = "closed" /\ stream_loop[c] = "off"}

\* The counted part of the invariant, on those sets.
Counted ==
    /\ permits + Cardinality(Busy) = MaxConnections
    /\ rejected = Cardinality(Rejected)
    /\ accepted = Cardinality(Admitted)
    /\ auth_failed = Cardinality(Unauthenticated)

-----------------------------------------------------------------------------
(* A set of connections is finite.                                         *)
LEMMA ConnSubset ==
    ASSUME NEW S \in SUBSET Conn
    PROVE  IsFiniteSet(S) /\ Cardinality(S) \in Nat
  BY ConstantsAssumption, FS_Subset, FS_CardinalityType

(* A set of connections that gains one counts one more.                    *)
LEMMA Gains ==
    ASSUME NEW S \in SUBSET Conn, NEW c \in Conn, c \notin S
    PROVE  Cardinality(S \union {c}) = Cardinality(S) + 1
  BY ConnSubset, FS_AddElement

(* A set of connections that loses one counts one less.                    *)
LEMMA Loses ==
    ASSUME NEW S \in SUBSET Conn, NEW c \in S
    PROVE  /\ Cardinality(S \ {c}) = Cardinality(S) - 1
           /\ Cardinality(S) > 0
  <1>1. Cardinality(S \ {c}) = Cardinality(S) - 1
    BY ConnSubset, FS_RemoveElement
  <1>2. Cardinality(S \ {c}) \in Nat /\ Cardinality(S) \in Nat
    <2>1. S \ {c} \in SUBSET Conn
      OBVIOUS
    <2> QED
      BY <2>1, ConnSubset
  <1> QED
    BY <1>1, <1>2

(* The counted sets are sets of connections, so their sizes are naturals.  *)
LEMMA CountedFinite ==
    /\ Busy \in SUBSET Conn /\ Rejected \in SUBSET Conn
    /\ Admitted \in SUBSET Conn /\ Unauthenticated \in SUBSET Conn
    /\ Cardinality(Busy) \in Nat /\ Cardinality(Rejected) \in Nat
    /\ Cardinality(Admitted) \in Nat /\ Cardinality(Unauthenticated) \in Nat
  <1>1. /\ Busy \in SUBSET Conn /\ Rejected \in SUBSET Conn
        /\ Admitted \in SUBSET Conn /\ Unauthenticated \in SUBSET Conn
    BY DEF Busy, Rejected, Admitted, Unauthenticated
  <1> QED
    BY <1>1, ConnSubset

(* Counted is what the two properties say.                                 *)
LEMMA CountedMeaning == Counted <=> PermitsConserved /\ CountersAgree
  BY DEF Counted, PermitsConserved, CountersAgree, Busy, Rejected, Admitted, Unauthenticated

(* The initial state satisfies the inductive invariant.                    *)
LEMMA InitIInv == Init => IInv
  <1> SUFFICES ASSUME Init PROVE IInv
    OBVIOUS
  <1> USE ConstantsAssumption DEF Init
  <1>1. TypeOK
    <2>1. /\ accepting \in BOOLEAN /\ signalled \in BOOLEAN
          /\ alive \in [Conn -> BOOLEAN] /\ timed_out \in [Conn -> BOOLEAN]
          /\ cancelled \in [Conn -> BOOLEAN]
      OBVIOUS
    <2> QED
      BY <2>1 DEF TypeOK, Stage
  <1>2. LoopsStart
    BY DEF LoopsStart
  <1>3. Counted
    <2>1. Busy = {} /\ Rejected = {} /\ Admitted = {} /\ Unauthenticated = {}
      BY DEF Busy, Rejected, Admitted, Unauthenticated, Processing
    <2> QED
      BY <2>1, FS_EmptySet DEF Counted
  <1> QED
    BY <1>1, <1>2, <1>3, CountedMeaning DEF IInv

(* A step that moves no connection into or out of one of the counted sets  *)
(* and leaves permits and metrics alone keeps the counts.                  *)
LEMMA SetsStay ==
    ASSUME Counted, UNCHANGED <<permits, counters>>,
           Busy' = Busy, Rejected' = Rejected, Admitted' = Admitted,
           Unauthenticated' = Unauthenticated
    PROVE  Counted'
  BY DEF Counted, counters

(* Admission: the connection gets a permit and is counted, or is dropped   *)
(* and counted as rejected (mod.rs 394-431).                               *)
LEMMA AdmissionIInv ==
    ASSUME IInv, NEW c \in Conn, AcceptConnection(c) \/ RejectConnection(c)
    PROVE  IInv'
  <1> USE DEF Move, link, tunnels, service, counters
  <1>1. TypeOK /\ LoopsStart /\ Counted
    BY CountedMeaning DEF IInv
  <1>2. CASE AcceptConnection(c)
    <2>1. TypeOK'
      BY <1>1, <1>2, ConstantsAssumption DEF AcceptConnection, TypeOK, Stage
    <2>2. LoopsStart'
      BY <1>1, <1>2 DEF AcceptConnection, LoopsStart, TypeOK, Stage
    <2>3. c \notin Busy /\ Busy' = Busy \union {c}
      BY <1>1, <1>2 DEF AcceptConnection, Busy, Processing, TypeOK
    <2>4. c \notin Admitted /\ Admitted' = Admitted \union {c}
      BY <1>1, <1>2 DEF AcceptConnection, Admitted, Processing, TypeOK
    <2>5. Rejected' = Rejected /\ Unauthenticated' = Unauthenticated
      BY <1>1, <1>2 DEF AcceptConnection, Rejected, Unauthenticated, TypeOK
    <2>6. /\ Cardinality(Busy') = Cardinality(Busy) + 1
          /\ Cardinality(Admitted') = Cardinality(Admitted) + 1
      BY <2>3, <2>4, CountedFinite, Gains
    <2>7. Counted'
      BY <1>1, <1>2, <2>5, <2>6, CountedFinite, ConstantsAssumption
         DEF AcceptConnection, Counted, TypeOK
    <2> QED
      BY <2>1, <2>2, <2>7, CountedMeaning, PTL DEF IInv
  <1>3. CASE RejectConnection(c)
    <2>1. TypeOK'
      <3>1. alive' \in [Conn -> BOOLEAN]
        BY <1>1, <1>3 DEF RejectConnection, TypeOK
      <3> QED
        BY <1>1, <1>3, <3>1 DEF RejectConnection, TypeOK, Stage
    <2>2. LoopsStart'
      BY <1>1, <1>3 DEF RejectConnection, LoopsStart, TypeOK, Stage
    <2>3. c \notin Rejected /\ Rejected' = Rejected \union {c}
      BY <1>1, <1>3 DEF RejectConnection, Rejected, TypeOK
    <2>4. Busy' = Busy /\ Admitted' = Admitted /\ Unauthenticated' = Unauthenticated
      BY <1>1, <1>3 DEF RejectConnection, Busy, Admitted, Unauthenticated, Processing, TypeOK
    <2>5. Cardinality(Rejected') = Cardinality(Rejected) + 1
      BY <2>3, CountedFinite, Gains
    <2>6. Counted'
      BY <1>1, <1>3, <2>4, <2>5 DEF RejectConnection, Counted
    <2> QED
      BY <2>1, <2>2, <2>6, CountedMeaning, PTL DEF IInv
  <1> QED
    BY <1>2, <1>3

(* Every way authentication fails gives the permit back and is counted     *)
(* once (mod.rs 395-451, 480-485).                                         *)
LEMMA FailIInv ==
    ASSUME IInv, NEW c \in Conn, Fail(c),
           stage[c] \in {"control", "hello", "respond", "delay"}
    PROVE  IInv'
  <1> USE DEF tunnels, service
  <1>1. TypeOK /\ LoopsStart /\ Counted
    BY CountedMeaning DEF IInv
  <1>2. stream_loop[c] = "off"
    BY <1>1 DEF LoopsStart, Stage
  <1>3. c \in Busy /\ Busy' = Busy \ {c}
    BY <1>1 DEF Fail, Busy, Processing, TypeOK
  <1>4. c \notin Unauthenticated /\ Unauthenticated' = Unauthenticated \union {c}
    BY <1>1, <1>2 DEF Fail, Unauthenticated, TypeOK
  <1>5. Rejected' = Rejected /\ Admitted' = Admitted
    BY <1>1 DEF Fail, Rejected, Admitted, Processing, TypeOK
  <1>6. /\ Cardinality(Busy') = Cardinality(Busy) - 1
        /\ Cardinality(Busy) > 0
        /\ Cardinality(Unauthenticated') = Cardinality(Unauthenticated) + 1
    BY <1>3, <1>4, CountedFinite, Gains, Loses
  <1>7. Counted'
    BY <1>1, <1>5, <1>6, CountedFinite, ConstantsAssumption DEF Fail, Counted, TypeOK
  <1>8. TypeOK'
    <2>1. permits' \in 0..MaxConnections
      BY <1>1, <1>6, CountedFinite, ConstantsAssumption DEF Fail, Counted, TypeOK
    <2>2. alive' \in [Conn -> BOOLEAN]
      BY <1>1 DEF Fail, TypeOK
    <2> QED
      BY <1>1, <2>1, <2>2 DEF Fail, TypeOK, Stage
  <1>9. LoopsStart'
    BY <1>1 DEF Fail, LoopsStart, TypeOK, Stage
  <1> QED
    BY <1>7, <1>8, <1>9, CountedMeaning, PTL DEF IInv

(* The end of the tunnels gives the permit back and is no failure          *)
(* (mod.rs 238-260, 395-451).                                              *)
LEMMA TunnelsReturnIInv ==
    ASSUME IInv, NEW c \in Conn, TunnelsReturn(c)
    PROVE  IInv'
  <1> USE DEF Move, link, service, counters
  <1>1. TypeOK /\ LoopsStart /\ Counted
    BY CountedMeaning DEF IInv
  <1>2. stage[c] = "tunnel" /\ stream_loop[c] # "off"
    BY <1>1 DEF TunnelsReturn, LoopsStart
  <1>3. c \in Busy /\ Busy' = Busy \ {c}
    BY <1>1, <1>2 DEF TunnelsReturn, Busy, Processing, TypeOK
  <1>4. Rejected' = Rejected /\ Admitted' = Admitted /\ Unauthenticated' = Unauthenticated
    BY <1>1, <1>2 DEF TunnelsReturn, Rejected, Admitted, Unauthenticated, Processing, TypeOK
  <1>5. /\ Cardinality(Busy') = Cardinality(Busy) - 1
        /\ Cardinality(Busy) > 0
    BY <1>3, CountedFinite, Loses
  <1>6. Counted'
    BY <1>1, <1>4, <1>5, CountedFinite, ConstantsAssumption DEF TunnelsReturn, Counted, TypeOK
  <1>7. TypeOK'
    <2>1. permits' \in 0..MaxConnections
      BY <1>1, <1>5, CountedFinite, ConstantsAssumption DEF TunnelsReturn, Counted, TypeOK
    <2>2. cancelled' \in [Conn -> BOOLEAN]
      BY <1>1 DEF TunnelsReturn, TypeOK
    <2> QED
      BY <1>1, <2>1, <2>2 DEF TunnelsReturn, TypeOK, Stage
  <1>8. LoopsStart'
    BY <1>1 DEF TunnelsReturn, LoopsStart, TypeOK, Stage
  <1> QED
    BY <1>6, <1>7, <1>8, CountedMeaning, PTL DEF IInv

(* The steps that neither admit nor release a connection: the handshake,   *)
(* the backlog, the control stream, the hello, the response and the loops. *)
LEMMA QuietStepIInv ==
    ASSUME IInv, NEW c \in Conn,
           Peer(c) \/ ResponseSent(c) \/ StreamLoopEnds(c) \/ DatagramLoopEnds(c)
    PROVE  IInv'
  <1> USE DEF Move, link, tunnels, service, counters
  <1>1. TypeOK /\ LoopsStart /\ Counted
    BY CountedMeaning DEF IInv
  <1>2. CASE Connect(c) \/ Enqueue(c)
    <2>1. TypeOK'
      <3>1. alive' \in [Conn -> BOOLEAN]
        BY <1>1, <1>2 DEF Connect, Enqueue, TypeOK
      <3> QED
        BY <1>1, <1>2, <3>1 DEF Connect, Enqueue, TypeOK, Stage
    <2>2. LoopsStart'
      BY <1>1, <1>2 DEF Connect, Enqueue, LoopsStart, TypeOK, Stage
    <2>3. /\ Busy' = Busy /\ Rejected' = Rejected
          /\ Admitted' = Admitted /\ Unauthenticated' = Unauthenticated
      BY <1>1, <1>2 DEF Connect, Enqueue, Busy, Rejected, Admitted, Unauthenticated,
                        Processing, TypeOK
    <2>4. Counted'
      BY <1>1, <1>2, <2>3, SetsStay DEF Connect, Enqueue
    <2> QED
      BY <2>1, <2>2, <2>4, CountedMeaning, PTL DEF IInv
  <1>3. CASE ControlStreamOpens(c) \/ HelloVerified(c) \/ HelloRefused(c)
    <2>1. TypeOK'
      BY <1>1, <1>3 DEF ControlStreamOpens, HelloVerified, HelloRefused, TypeOK, Stage
    <2>2. LoopsStart'
      BY <1>1, <1>3 DEF ControlStreamOpens, HelloVerified, HelloRefused, LoopsStart,
                        TypeOK, Stage
    <2>3. /\ Busy' = Busy /\ Rejected' = Rejected
          /\ Admitted' = Admitted /\ Unauthenticated' = Unauthenticated
      BY <1>1, <1>3 DEF ControlStreamOpens, HelloVerified, HelloRefused, Busy, Rejected,
                        Admitted, Unauthenticated, Processing, TypeOK
    <2>4. Counted'
      BY <1>1, <1>3, <2>3, SetsStay DEF ControlStreamOpens, HelloVerified, HelloRefused
    <2> QED
      BY <2>1, <2>2, <2>4, CountedMeaning, PTL DEF IInv
  <1>4. CASE ResponseSent(c)
    <2>1. TypeOK'
      BY <1>1, <1>4 DEF ResponseSent, TypeOK, Stage
    <2>2. LoopsStart'
      BY <1>1, <1>4 DEF ResponseSent, LoopsStart, TypeOK, Stage
    <2>3. /\ Busy' = Busy /\ Rejected' = Rejected
          /\ Admitted' = Admitted /\ Unauthenticated' = Unauthenticated
      BY <1>1, <1>4 DEF ResponseSent, Busy, Rejected, Admitted, Unauthenticated,
                        Processing, TypeOK
    <2>4. Counted'
      BY <1>1, <1>4, <2>3, SetsStay DEF ResponseSent
    <2> QED
      BY <2>1, <2>2, <2>4, CountedMeaning, PTL DEF IInv
  <1>5. CASE StreamLoopEnds(c) \/ DatagramLoopEnds(c)
    <2>1. TypeOK'
      BY <1>1, <1>5 DEF StreamLoopEnds, DatagramLoopEnds, TypeOK, Stage
    <2>2. LoopsStart'
      BY <1>1, <1>5 DEF StreamLoopEnds, DatagramLoopEnds, LoopsStart, TypeOK, Stage
    <2>3. /\ Busy' = Busy /\ Rejected' = Rejected
          /\ Admitted' = Admitted /\ Unauthenticated' = Unauthenticated
      BY <1>1, <1>5 DEF StreamLoopEnds, DatagramLoopEnds, Busy, Rejected, Admitted,
                        Unauthenticated, Processing, TypeOK
    <2>4. Counted'
      BY <1>1, <1>5, <2>3, SetsStay DEF StreamLoopEnds, DatagramLoopEnds
    <2> QED
      BY <2>1, <2>2, <2>4, CountedMeaning, PTL DEF IInv
  <1>6. CASE ConnectionLost(c) \/ ConnectionTimesOut(c)
    <2>1. TypeOK'
      <3>1. alive' \in [Conn -> BOOLEAN] /\ timed_out' \in [Conn -> BOOLEAN]
        BY <1>1, <1>6 DEF ConnectionLost, ConnectionTimesOut, TypeOK
      <3> QED
        BY <1>1, <1>6, <3>1 DEF ConnectionLost, ConnectionTimesOut, TypeOK
    <2>2. UNCHANGED <<stage, stream_loop, permits, counters>>
      BY <1>6 DEF ConnectionLost, ConnectionTimesOut
    <2>3. LoopsStart' /\ Counted'
      BY <1>1, <2>2 DEF LoopsStart, Counted, Busy, Rejected, Admitted, Unauthenticated,
                        Processing
    <2> QED
      BY <2>1, <2>3, CountedMeaning, PTL DEF IInv
  <1> QED
    BY <1>2, <1>3, <1>4, <1>5, <1>6 DEF Peer

(* The shutdown signal and the end of the accept loop touch no connection. *)
LEMMA ServiceStepIInv ==
    ASSUME IInv, SendShutdown \/ StopAccepting \/ UNCHANGED vars
    PROVE  IInv'
  <1> USE DEF link, tunnels, service, counters, vars
  <1>1. /\ UNCHANGED <<stage, link, tunnels, permits, counters>>
        /\ TypeOK => accepting' \in BOOLEAN /\ signalled' \in BOOLEAN
    BY DEF SendShutdown, StopAccepting, TypeOK
  <1>2. TypeOK'
    BY <1>1 DEF IInv, TypeOK
  <1> QED
    BY <1>1, <1>2 DEF IInv, LoopsStart, PermitsConserved, CountersAgree, Processing

-----------------------------------------------------------------------------
(* IInv is an inductive invariant of the acceptor and its connections      *)
(* (mod.rs 83-107, 238-260, 394-485).                                      *)
THEOREM Invariance == Spec => []IInv
  <1>1. IInv /\ [Next]_vars => IInv'
    <2> SUFFICES ASSUME IInv, [Next]_vars PROVE IInv'
      OBVIOUS
    <2>1. ASSUME NEW c \in Conn, Authenticate(c)
          PROVE  IInv'
      BY <2>1, FailIInv, QuietStepIInv
         DEF Authenticate, ControlStreamFails, HelloFails, DelayEnds, ResponseFails
    <2>2. ASSUME NEW c \in Conn, Tunnel(c)
          PROVE  IInv'
      BY <2>2, TunnelsReturnIInv, QuietStepIInv DEF Tunnel
    <2> QED
      BY <2>1, <2>2, AdmissionIInv, QuietStepIInv, ServiceStepIInv DEF Next
  <1> QED
    BY <1>1, InitIInv, PTL DEF Spec

(* The state of the acceptor has its type; in particular the semaphore     *)
(* never holds more permits than max_connections.                          *)
THEOREM TypeCorrect == Spec => []TypeOK
  BY Invariance, PTL DEF IInv

(* No path out of a connection's task loses its permit or returns it       *)
(* twice, so at most max_connections run at once and as many can run again *)
(* once they have ended (mod.rs 395-451).                                  *)
THEOREM PermitConservation == Spec => []PermitsConserved
  BY Invariance, PTL DEF IInv

(* The three connection metrics account for every connection that left the *)
(* backlog, and auth_failed for exactly those that never ran a tunnel      *)
(* (mod.rs 394-431, 480-485).                                              *)
THEOREM MetricsExact == Spec => []CountersAgree
  BY Invariance, PTL DEF IInv

-----------------------------------------------------------------------------
(* The UDP sessions and handlers of DatagramTunnel.                        *)

\* The packet in hand has no handler yet and does not come again.
PacketInHand ==
    pc \in {"session", "resolve", "bind", "permit"} =>
        packet \in Packet /\ packet \notin unsent /\ handler[packet] = "none"

\* Nor has a packet that is still to come.
UnsentUnhandled == \A p \in unsent : handler[p] = "none"

\* try_get_with runs its initializer for a session that is not cached, and
\* nobody else creates one meanwhile.
NotCachedYet == pc \in {"resolve", "bind"} => sessions[SessionOf[packet]] = 0

\* No two sessions share a socket and its task.
OneInstance ==
    \A s, t \in Session : sessions[s] # 0 /\ sessions[s] = sessions[t] => s = t

\* The loop that returned took the cache with it: nothing is evicted afterwards.
CacheDropped == pc = "stopped" => \A s \in Session : sessions[s] = 0

\* A handler holds a permit from its spawn to its end.
SemaphoreBalanced == semaphore + Cardinality(Running) = MaxHandlers

TunnelIInv ==
    /\ TunnelTypeOK
    /\ PacketInHand
    /\ UnsentUnhandled
    /\ NotCachedYet
    /\ OneInstance
    /\ CacheDropped
    /\ LoopsMatchSessions
    /\ SemaphoreBalanced

Cached == {s \in Session : sessions[s] # 0}

-----------------------------------------------------------------------------
(* Packets, and so sessions, are finitely many.                            *)
LEMMA TunnelFinite ==
    /\ IsFiniteSet(Session) /\ IsFiniteSet(Cached) /\ IsFiniteSet(Running)
    /\ Cardinality(Cached) \in Nat /\ Cardinality(Running) \in Nat
  <1> DEFINE of == [p \in Packet |-> SessionOf[p]]
  <1>1. of \in Surjection(Packet, Session)
    BY DEF Surjection, Session
  <1>2. IsFiniteSet(Packet) /\ IsFiniteSet(Session)
    BY <1>1, FS_Surjection, TunnelAssumption
  <1>3. Cached \in SUBSET Session /\ Running \in SUBSET Packet
    BY DEF Cached, Running
  <1>4. IsFiniteSet(Cached) /\ IsFiniteSet(Running)
    BY <1>2, <1>3, FS_Subset
  <1> QED
    BY <1>2, <1>4, FS_CardinalityType

(* The destination of a packet is one of the domains and addresses.        *)
LEMMA Destinations ==
    ASSUME NEW p \in Packet
    PROVE  SessionOf[p] \in Session /\ DomainOf[p] \in Domain /\ Resolved(p) \in Addresses
  BY DEF Session, Domain, Addresses

(* The initial state satisfies the inductive invariant.                    *)
LEMMA TunnelInitIInv == TunnelInit => TunnelIInv
  <1> SUFFICES ASSUME TunnelInit PROVE TunnelIInv
    OBVIOUS
  <1> USE TunnelAssumption
  <1>1. TunnelTypeOK
    <2>1. shutdown \in BOOLEAN
      BY DEF TunnelInit
    <2> QED
      BY <2>1 DEF TunnelInit, TunnelTypeOK
  <1>2. PacketInHand /\ UnsentUnhandled /\ NotCachedYet /\ OneInstance /\ CacheDropped
    BY DEF TunnelInit, PacketInHand, UnsentUnhandled, NotCachedYet, OneInstance, CacheDropped
  <1>3. LoopsMatchSessions
    <2>1. {s \in Session : sessions[s] # 0} = {}
      BY DEF TunnelInit
    <2>2. loops = {sessions[s] : s \in Session} \ {0}
      BY DEF TunnelInit
    <2>3. opened - closed = 0
      BY DEF TunnelInit
    <2> QED
      BY <2>1, <2>2, <2>3, FS_EmptySet DEF LoopsMatchSessions
  <1>4. SemaphoreBalanced
    <2>1. Running = {} /\ semaphore = MaxHandlers
      BY DEF TunnelInit, Running
    <2> QED
      BY <2>1, FS_EmptySet DEF SemaphoreBalanced
  <1> QED
    BY <1>1, <1>2, <1>3, <1>4 DEF TunnelIInv

(* What leaves the cache, its tasks and counters alone keeps what is said  *)
(* of them.                                                                *)
LEMMA TunnelCacheStays ==
    ASSUME TunnelIInv, UNCHANGED udp, shutdown => shutdown', pc = "stopped" <=> pc' = "stopped"
    PROVE  OneInstance' /\ CacheDropped' /\ LoopsMatchSessions'
  BY DEF TunnelIInv, udp, OneInstance, CacheDropped, LoopsMatchSessions

(* So does what leaves the handlers alone.                                 *)
LEMMA TunnelHandlersStay ==
    ASSUME TunnelIInv, UNCHANGED <<handler, semaphore>>
    PROVE  SemaphoreBalanced'
  <1>1. Running' = Running
    BY DEF Running
  <1> QED
    BY <1>1 DEF TunnelIInv, SemaphoreBalanced

(* The loop takes, looks up and drops packets.                             *)
LEMMA PacketStepIInv ==
    ASSUME TunnelIInv,
           \/ (\E p \in Packet : ReadDatagram(p)) \/ SessionFound \/ SessionCachedHost
           \/ SessionResolves \/ SessionResolved \/ SessionUnresolved \/ BindRetry \/ BindFails
    PROVE  TunnelIInv'
  <1> USE TunnelAssumption
  <1>1. pc # "stopped" /\ pc' # "stopped" /\ UNCHANGED <<udp, handler, semaphore, sent, shutdown>>
    BY DEF ReadDatagram, SessionFound, SessionCachedHost, SessionResolves, SessionResolved,
           SessionUnresolved, BindFails, DropPacket, BindRetry, tasks
  <1>2. OneInstance' /\ CacheDropped' /\ LoopsMatchSessions' /\ SemaphoreBalanced'
    BY <1>1, TunnelCacheStays, TunnelHandlersStay
  <1>3. UNCHANGED <<sessions, created, loops, opened, closed>>
    BY <1>1 DEF udp
  <1>4. ASSUME unsent' \in SUBSET unsent, instance' \in [Packet -> 0..created],
               pc' \in {"read", "session", "resolve", "bind", "permit", "stopped"},
               packet' \in Packet \union {NoPacket}, attempt' \in 0..(BindRetries - 1),
               dns_cache' \in [Domain -> Addresses \union {NoAddress}],
               PacketInHand', NotCachedYet'
        PROVE  TunnelIInv'
    <2>1. TunnelTypeOK'
      BY <1>1, <1>3, <1>4 DEF TunnelIInv, TunnelTypeOK
    <2>2. UnsentUnhandled'
      BY <1>1, <1>4 DEF TunnelIInv, UnsentUnhandled
    <2> QED
      BY <1>2, <1>4, <2>1, <2>2 DEF TunnelIInv
  <1>5. ASSUME NEW p \in Packet, ReadDatagram(p)
        PROVE  TunnelIInv'
    <2>1. /\ unsent' = unsent \ {p} /\ p \in unsent /\ packet' = p /\ pc' = "session"
          /\ UNCHANGED <<attempt, instance, dns_cache>>
      BY <1>5 DEF ReadDatagram, tasks
    <2>2. PacketInHand' /\ NotCachedYet'
      BY <1>1, <2>1 DEF TunnelIInv, UnsentUnhandled, PacketInHand, NotCachedYet
    <2> QED
      BY <1>4, <2>1, <2>2 DEF TunnelIInv, TunnelTypeOK
  <1>6. CASE SessionFound
    <2>1. /\ pc = "session" /\ pc' = "permit" /\ UNCHANGED <<unsent, packet, attempt, dns_cache>>
          /\ instance' = [instance EXCEPT ![packet] = sessions[SessionOf[packet]]]
      BY <1>6 DEF SessionFound
    <2>2. packet \in Packet /\ SessionOf[packet] \in Session
      BY <2>1, Destinations DEF TunnelIInv, PacketInHand
    <2>3. PacketInHand' /\ NotCachedYet'
      BY <1>1, <2>1 DEF TunnelIInv, PacketInHand, NotCachedYet
    <2> QED
      BY <1>4, <2>1, <2>2, <2>3 DEF TunnelIInv, TunnelTypeOK
  <1>7. CASE SessionCachedHost \/ SessionResolves
    <2>1. /\ pc = "session" /\ pc' \in {"bind", "resolve"} /\ sessions[SessionOf[packet]] = 0
          /\ UNCHANGED <<unsent, packet, attempt, instance, dns_cache>>
      BY <1>7 DEF SessionCachedHost, SessionResolves, tasks
    <2>2. PacketInHand' /\ NotCachedYet'
      BY <1>1, <1>3, <2>1 DEF TunnelIInv, PacketInHand, NotCachedYet
    <2> QED
      BY <1>4, <2>1, <2>2 DEF TunnelIInv, TunnelTypeOK
  <1>8. CASE SessionResolved
    <2>1. /\ pc = "resolve" /\ pc' = "bind" /\ UNCHANGED <<unsent, packet, attempt, instance>>
          /\ dns_cache' = [dns_cache EXCEPT ![DomainOf[packet]] = Resolved(packet)]
      BY <1>8 DEF SessionResolved, tasks
    <2>2. packet \in Packet /\ DomainOf[packet] \in Domain /\ Resolved(packet) \in Addresses
      BY <2>1, Destinations DEF TunnelIInv, PacketInHand
    <2>3. PacketInHand' /\ NotCachedYet'
      BY <1>1, <1>3, <2>1 DEF TunnelIInv, PacketInHand, NotCachedYet
    <2> QED
      BY <1>4, <2>1, <2>2, <2>3 DEF TunnelIInv, TunnelTypeOK
  <1>9. CASE SessionUnresolved \/ BindFails
    <2>1. /\ pc' = "read" /\ packet' = NoPacket /\ attempt' = 0
          /\ UNCHANGED <<unsent, instance, dns_cache>>
      BY <1>9 DEF SessionUnresolved, BindFails, DropPacket, tasks
    <2>2. PacketInHand' /\ NotCachedYet'
      BY <2>1 DEF PacketInHand, NotCachedYet
    <2> QED
      BY <1>4, <2>1, <2>2 DEF TunnelIInv, TunnelTypeOK
  <1>10. CASE BindRetry
    <2>1. /\ attempt + 1 < BindRetries /\ attempt' = attempt + 1
          /\ UNCHANGED <<unsent, pc, packet, instance, dns_cache>>
      BY <1>10 DEF BindRetry, tasks
    <2>2. PacketInHand' /\ NotCachedYet'
      BY <1>1, <1>3, <2>1 DEF TunnelIInv, PacketInHand, NotCachedYet
    <2> QED
      BY <1>4, <2>1, <2>2 DEF TunnelIInv, TunnelTypeOK
  <1> QED
    BY <1>5, <1>6, <1>7, <1>8, <1>9, <1>10

(* The loop returns and drops the cache: nothing is said of it any more.   *)
LEMMA LoopReturnsIInv ==
    ASSUME TunnelIInv, ReadFails \/ StopReading
    PROVE  TunnelIInv'
  <1> USE TunnelAssumption
  <1>1. /\ pc' = "stopped" /\ sessions' = [s \in Session |-> 0]
        /\ UNCHANGED <<unsent, packet, attempt, created, loops, opened, closed, handler,
                       instance, semaphore, sent, dns_cache, shutdown>>
    BY DEF ReadFails, StopReading, LoopReturns, tasks
  <1>2. TunnelTypeOK'
    BY <1>1 DEF TunnelIInv, TunnelTypeOK
  <1>3. /\ PacketInHand' /\ UnsentUnhandled' /\ NotCachedYet' /\ OneInstance' /\ CacheDropped'
        /\ LoopsMatchSessions'
    BY <1>1 DEF TunnelIInv, PacketInHand, UnsentUnhandled, NotCachedYet, OneInstance,
                CacheDropped, LoopsMatchSessions
  <1> QED
    BY <1>1, <1>2, <1>3, TunnelHandlersStay DEF TunnelIInv

(* A new session has a number nobody has, and its task.                    *)
LEMMA CreateSessionIInv ==
    ASSUME TunnelIInv, CreateSession
    PROVE  TunnelIInv'
  <1> USE TunnelAssumption
  <1> DEFINE s == SessionOf[packet]
             i == created + 1
  <1>1. /\ pc = "bind" /\ pc' = "permit" /\ created' = i /\ loops' = loops \union {i}
        /\ opened' = opened + 1 /\ sessions' = [sessions EXCEPT ![s] = i]
        /\ instance' = [instance EXCEPT ![packet] = i] /\ attempt' = 0
        /\ UNCHANGED <<unsent, packet, closed, handler, semaphore, sent, dns_cache, shutdown>>
    BY DEF CreateSession
  <1>2. packet \in Packet /\ s \in Session /\ sessions[s] = 0
    BY <1>1, Destinations DEF TunnelIInv, PacketInHand, NotCachedYet
  <1>3. /\ created \in Nat /\ sessions \in [Session -> 0..created]
        /\ opened \in Nat /\ closed \in Nat
    BY DEF TunnelIInv, TunnelTypeOK
  <1>4. TunnelTypeOK'
    BY <1>1, <1>2 DEF TunnelIInv, TunnelTypeOK
  <1>5. PacketInHand' /\ UnsentUnhandled' /\ NotCachedYet'
    BY <1>1 DEF TunnelIInv, PacketInHand, UnsentUnhandled, NotCachedYet
  <1>6. OneInstance' /\ CacheDropped'
    BY <1>1, <1>2, <1>3 DEF TunnelIInv, OneInstance, CacheDropped
  <1>7. LoopsMatchSessions'
    <2>1. Cached' = Cached \union {s} /\ s \notin Cached
      BY <1>1, <1>2, <1>3 DEF Cached
    <2>2. Cardinality(Cached') = Cardinality(Cached) + 1
      BY <2>1, TunnelFinite, FS_AddElement
    <2>3. opened' - closed' = Cardinality(Cached')
      BY <1>1, <1>3, <2>2, TunnelFinite DEF TunnelIInv, LoopsMatchSessions, Cached
    <2>4. ~shutdown' => loops' = {sessions'[t] : t \in Session} \ {0}
      <3>1. {sessions'[t] : t \in Session} \ {0} = ({sessions[t] : t \in Session} \ {0}) \union {i}
        BY <1>1, <1>2, <1>3
      <3> QED
        BY <1>1, <3>1 DEF TunnelIInv, LoopsMatchSessions
    <2> QED
      BY <2>3, <2>4 DEF LoopsMatchSessions, Cached
  <1> QED
    BY <1>1, <1>4, <1>5, <1>6, <1>7, TunnelHandlersStay DEF TunnelIInv

(* The listener of the cache stops the one task of the session.            *)
LEMMA EvictSessionIInv ==
    ASSUME TunnelIInv, NEW s \in Session, EvictSession(s)
    PROVE  TunnelIInv'
  <1> USE TunnelAssumption
  <1>1. /\ sessions[s] # 0 /\ pc # "stopped" /\ closed < MaxEvictions /\ closed' = closed + 1
        /\ sessions' = [sessions EXCEPT ![s] = 0] /\ loops' = loops \ {sessions[s]}
        /\ UNCHANGED <<unsent, pc, packet, attempt, created, opened, handler, instance,
                       semaphore, sent, dns_cache, shutdown>>
    BY DEF EvictSession, loop, tasks, TunnelIInv, CacheDropped
  <1>2. /\ created \in Nat /\ sessions \in [Session -> 0..created]
        /\ opened \in Nat /\ closed \in Nat
    BY DEF TunnelIInv, TunnelTypeOK
  <1>3. TunnelTypeOK'
    <2>1. sessions' \in [Session -> 0..created']
      BY <1>1, <1>2
    <2>2. closed' \in 0..MaxEvictions
      BY <1>1, <1>2
    <2>3. shutdown' \in BOOLEAN
      BY <1>1 DEF TunnelIInv, TunnelTypeOK
    <2>4. loops' \subseteq 1..created'
      BY <1>1 DEF TunnelIInv, TunnelTypeOK
    <2> QED
      BY <1>1, <2>1, <2>2, <2>3, <2>4 DEF TunnelIInv, TunnelTypeOK
  <1>4. PacketInHand' /\ UnsentUnhandled' /\ NotCachedYet'
    BY <1>1, <1>2, Destinations DEF TunnelIInv, PacketInHand, UnsentUnhandled, NotCachedYet
  <1>5. OneInstance' /\ CacheDropped'
    BY <1>1, <1>2 DEF TunnelIInv, OneInstance, CacheDropped
  <1>6. LoopsMatchSessions'
    <2>1. Cached' = Cached \ {s} /\ s \in Cached
      BY <1>1, <1>2 DEF Cached
    <2>2. Cardinality(Cached') = Cardinality(Cached) - 1
      BY <2>1, TunnelFinite, FS_RemoveElement
    <2>3. opened' - closed' = Cardinality(Cached')
      BY <1>1, <1>2, <2>2, TunnelFinite DEF TunnelIInv, LoopsMatchSessions, Cached
    <2>4. ~shutdown' => loops' = {sessions'[t] : t \in Session} \ {0}
      <3>1. {sessions'[t] : t \in Session} \ {0}
               = ({sessions[t] : t \in Session} \ {0}) \ {sessions[s]}
        BY <1>1, <1>2 DEF TunnelIInv, OneInstance
      <3> QED
        BY <1>1, <3>1 DEF TunnelIInv, LoopsMatchSessions
    <2> QED
      BY <2>3, <2>4 DEF LoopsMatchSessions, Cached
  <1> QED
    BY <1>1, <1>3, <1>4, <1>5, <1>6, TunnelHandlersStay DEF TunnelIInv

(* The loop spawns a handler with a permit.                                *)
LEMMA SpawnHandlerIInv ==
    ASSUME TunnelIInv, SpawnHandler
    PROVE  TunnelIInv'
  <1> USE TunnelAssumption
  <1>1. /\ pc = "permit" /\ pc' = "read" /\ semaphore > 0 /\ semaphore' = semaphore - 1
        /\ handler' = [handler EXCEPT ![packet] = "lookup"] /\ packet' = NoPacket
        /\ UNCHANGED <<unsent, attempt, udp, instance, sent, dns_cache, shutdown>>
    BY DEF SpawnHandler
  <1>2. packet \in Packet /\ packet \notin unsent /\ handler[packet] = "none"
    BY <1>1 DEF TunnelIInv, PacketInHand
  <1>3. TunnelTypeOK'
    BY <1>1, <1>2 DEF TunnelIInv, TunnelTypeOK, udp
  <1>4. PacketInHand' /\ UnsentUnhandled' /\ NotCachedYet'
    BY <1>1, <1>2 DEF TunnelIInv, TunnelTypeOK, PacketInHand, UnsentUnhandled, NotCachedYet
  <1>5. SemaphoreBalanced'
    <2>1. Running' = Running \union {packet} /\ packet \notin Running
      BY <1>1, <1>2 DEF Running, TunnelIInv, TunnelTypeOK
    <2>2. Cardinality(Running') = Cardinality(Running) + 1
      BY <2>1, TunnelFinite, FS_AddElement
    <2>3. semaphore \in Nat
      BY DEF TunnelIInv, TunnelTypeOK
    <2> QED
      BY <1>1, <2>2, <2>3, TunnelFinite DEF TunnelIInv, SemaphoreBalanced
  <1> QED
    BY <1>1, <1>3, <1>4, <1>5, TunnelCacheStays DEF TunnelIInv

(* A handler that ends gives its permit back; there was one to give.       *)
LEMMA FinishBalances ==
    ASSUME TunnelIInv, NEW p \in Running, Finish(p)
    PROVE  SemaphoreBalanced' /\ semaphore' \in 0..MaxHandlers
  <1>1. handler' = [handler EXCEPT ![p] = "done"] /\ semaphore' = semaphore + 1
    BY DEF Finish
  <1>2. Running' = Running \ {p}
    BY <1>1 DEF Running, TunnelIInv, TunnelTypeOK
  <1>3. Cardinality(Running') = Cardinality(Running) - 1
    BY <1>2, TunnelFinite, FS_RemoveElement
  <1>4. Cardinality(Running') \in Nat
    <2>1. IsFiniteSet(Running \ {p})
      BY TunnelFinite, FS_RemoveElement
    <2> QED
      BY <1>2, <2>1, FS_CardinalityType
  <1>5. semaphore \in Nat /\ MaxHandlers \in Nat
    BY TunnelAssumption DEF TunnelIInv, TunnelTypeOK
  <1> QED
    BY <1>1, <1>3, <1>4, <1>5, TunnelFinite DEF TunnelIInv, SemaphoreBalanced

(* The handlers keep the invariant.                                        *)
LEMMA HandlerIInv ==
    ASSUME TunnelIInv, NEW p \in Packet, Handler(p)
    PROVE  TunnelIInv'
  <1> USE TunnelAssumption
  <1>1. UNCHANGED <<unsent, pc, packet, attempt, udp, instance, shutdown>>
    BY DEF Handler, LookupCached, LookupMisses, LookupResolves, HandlerFails, Finish, loop
  <1>2. OneInstance' /\ CacheDropped' /\ LoopsMatchSessions'
    BY <1>1, TunnelCacheStays
  <1>3. p \in Running
    BY DEF Handler, LookupCached, LookupMisses, LookupResolves, HandlerFails, Running
  <1>4. \E h \in {"resolve", "done"} : handler' = [handler EXCEPT ![p] = h]
    BY DEF Handler, LookupCached, LookupMisses, LookupResolves, HandlerFails, Finish
  <1>5. PacketInHand' /\ UnsentUnhandled' /\ NotCachedYet'
    BY <1>1, <1>3, <1>4
       DEF TunnelIInv, TunnelTypeOK, PacketInHand, UnsentUnhandled, NotCachedYet, Running, udp
  <1>6. /\ sent' \in SUBSET (Packet \X Addresses)
        /\ dns_cache' \in [Domain -> Addresses \union {NoAddress}]
    BY Destinations DEF Handler, LookupCached, LookupMisses, LookupResolves, HandlerFails,
       TunnelIInv, TunnelTypeOK
  <1>7. SemaphoreBalanced' /\ semaphore' \in 0..MaxHandlers
    <2>1. CASE LookupMisses(p)
      <3>1. Running' = Running /\ UNCHANGED semaphore
        BY <2>1 DEF LookupMisses, Running, TunnelIInv, TunnelTypeOK
      <3> QED
        BY <3>1 DEF TunnelIInv, TunnelTypeOK, SemaphoreBalanced
    <2>2. CASE Finish(p)
      BY <1>3, <2>2, FinishBalances
    <2> QED
      BY <2>1, <2>2 DEF Handler, LookupCached, LookupResolves, HandlerFails
  <1>8. TunnelTypeOK'
    BY <1>1, <1>4, <1>6, <1>7 DEF TunnelIInv, TunnelTypeOK, udp
  <1> QED
    BY <1>2, <1>5, <1>7, <1>8 DEF TunnelIInv

(* Expiry of a domain, the token and the tasks that see it.                *)
LEMMA EnvironmentIInv ==
    ASSUME TunnelIInv,
           \/ (\E d \in Domain : ExpireDomain(d)) \/ CancelToken
           \/ (\E i \in 1..created : DownstreamEnds(i)) \/ UNCHANGED tunnelVars
    PROVE  TunnelIInv'
  <1> USE TunnelAssumption
  <1>1. UNCHANGED <<unsent, pc, packet, attempt, sessions, created, opened, closed, handler,
                    instance, semaphore, sent>>
    BY DEF ExpireDomain, CancelToken, DownstreamEnds, tunnelVars, loop, udp, tasks
  <1>2. /\ dns_cache' \in [Domain -> Addresses \union {NoAddress}]
        /\ loops' \in SUBSET loops
    BY DEF ExpireDomain, CancelToken, DownstreamEnds, tunnelVars, udp, TunnelIInv, TunnelTypeOK
  <1>3. shutdown' \in BOOLEAN
    BY DEF ExpireDomain, CancelToken, DownstreamEnds, tunnelVars, TunnelIInv, TunnelTypeOK
  <1>4. shutdown' \/ (UNCHANGED loops /\ ~shutdown)
    BY DEF ExpireDomain, CancelToken, DownstreamEnds, tunnelVars, udp, TunnelIInv, TunnelTypeOK
  <1>5. TunnelTypeOK'
    BY <1>1, <1>2, <1>3 DEF TunnelIInv, TunnelTypeOK
  <1>6. PacketInHand' /\ UnsentUnhandled' /\ NotCachedYet' /\ OneInstance' /\ CacheDropped'
    BY <1>1 DEF TunnelIInv, PacketInHand, UnsentUnhandled, NotCachedYet, OneInstance, CacheDropped
  <1>7. LoopsMatchSessions'
    BY <1>1, <1>4 DEF TunnelIInv, LoopsMatchSessions
  <1> QED
    BY <1>1, <1>5, <1>6, <1>7, TunnelHandlersStay DEF TunnelIInv

-----------------------------------------------------------------------------
(* TunnelIInv is an inductive invariant of the server's UDP side, for any  *)
(* packets, sessions, handlers and evictions (datagram.rs 65-385).         *)
THEOREM TunnelInvariance == TunnelSpec => []TunnelIInv
  <1>1. TunnelIInv /\ [TunnelNext]_tunnelVars => TunnelIInv'
    BY PacketStepIInv, LoopReturnsIInv, CreateSessionIInv, SpawnHandlerIInv, HandlerIInv,
       EvictSessionIInv, EnvironmentIInv DEF TunnelNext, HandlePacket
  <1> QED
    BY <1>1, TunnelInitIInv, PTL DEF TunnelSpec

(* The state of the tunnel has its type; in particular the semaphore never *)
(* holds more permits than MAX_CONCURRENT_HANDLERS.                        *)
THEOREM TunnelTypeCorrect == TunnelSpec => []TunnelTypeOK
  BY TunnelInvariance, PTL DEF TunnelIInv

(* While the loop runs there is one downstream task per cached session     *)
(* until the token is cancelled, and the counters differ by the cached     *)
(* sessions, over failed binds, evictions and sessions created anew        *)
(* (datagram.rs 77-106, 207-292).  Nothing is said of the sessions the end *)
(* of the loop drops uncounted.                                            *)
THEOREM TasksMatchSessions == TunnelSpec => []LoopsMatchSessions
  BY TunnelInvariance, PTL DEF TunnelIInv

(* Every handler holds one permit from its spawn to its end, however it    *)
(* ends: none is lost and none returned twice (datagram.rs 164-203).       *)
THEOREM HandlerPermits == TunnelSpec => []SemaphoreBalanced
  BY TunnelInvariance, PTL DEF TunnelIInv
===========================================================================
