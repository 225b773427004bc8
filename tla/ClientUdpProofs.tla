-------------------------- MODULE ClientUdpProofs --------------------------
(***************************************************************************)
(* Safety of the two halves of the client's UDP path: the dispatch map of  *)
(* UdpDispatcher, for any number of sessions, any sharding and any channel *)
(* size, and the buffers of UdpReassembly, for any packets, whichever of   *)
(* them share a key or have more chunks than a u16 counts.                 *)
(*                                                                         *)
(* ReceiverOutlivesSend follows from MapTracksSessions once the target of  *)
(* a send is known to stay in the map, which is what the read guard is     *)
(* for: GuardKeepsEntry.  EmittedWhole follows from what every buffer      *)
(* holds between two fragments: BufferSound.                               *)
(***************************************************************************)
EXTENDS UdpDispatcher, UdpReassembly, FiniteSetTheorems, TLAPS

\* The entry dispatch sends through is in the map while its guard is held.
GuardKeepsEntry == pc = "sending" => target \in dispatch_map

IInv == TypeOK /\ MapTracksSessions /\ GuardKeepsEntry

-----------------------------------------------------------------------------
(* The capped doubling of DATAGRAM_INITIAL_DELAY stays within its bounds   *)
(* (datagram.rs 86-87).                                                    *)
LEMMA DelayBounds ==
    ASSUME NEW x \in InitialDelay..MaxDelay
    PROVE  (IF 2 * x < MaxDelay THEN 2 * x ELSE MaxDelay) \in InitialDelay..MaxDelay
BY ConstantsAssumption

(* The map is empty and nothing is being sent when the client starts       *)
(* (datagram.rs 51-62).                                                    *)
LEMMA InitIInv == Init => IInv
<1>. SUFFICES ASSUME Init PROVE IInv
  OBVIOUS
<1>1. TypeOK
  <2>1. shutdown \in BOOLEAN
    BY DEF Init
  <2>2. /\ session \in [Session -> Life]
        /\ queued \in [Session -> 0..ChannelSize]
        /\ arrived \in [Session -> 0..MaxArrivals]
    BY ConstantsAssumption DEF Init, Life
  <2>. QED
    BY <2>1, <2>2, ConstantsAssumption DEF Init, TypeOK
<1>2. MapTracksSessions
  BY DEF Init, MapTracksSessions
<1>3. GuardKeepsEntry
  BY DEF Init, GuardKeepsEntry
<1>. QED
  BY <1>1, <1>2, <1>3 DEF IInv

(* The life of a session, from open_associate to the drop of its receiver, *)
(* keeps the invariant: the entry of a send's target cannot be removed,    *)
(* because its shard is locked (datagram.rs 94-121, 243-252).              *)
LEMMA SessionPreserves ==
    ASSUME IInv, NEW s \in Session, SessionStep(s)
    PROVE  IInv'
<1>. USE DEF IInv, Life, Session
<1>1. CASE OpenAssociate(s)
  <2>1. TypeOK'
    BY <1>1, ConstantsAssumption DEF OpenAssociate, TypeOK, run
  <2>2. MapTracksSessions'
    BY <1>1 DEF OpenAssociate, TypeOK, MapTracksSessions
  <2>3. GuardKeepsEntry'
    BY <1>1 DEF OpenAssociate, GuardKeepsEntry, run
  <2>. QED
    BY <2>1, <2>2, <2>3
<1>2. CASE RecvFrom(s)
  <2>1. TypeOK'
    BY <1>2, ConstantsAssumption DEF RecvFrom, TypeOK, run
  <2>. QED
    BY <1>2, <2>1 DEF RecvFrom, MapTracksSessions, GuardKeepsEntry, run
<1>3. CASE DropSession(s)
  <2>1. TypeOK'
    BY <1>3 DEF DropSession, TypeOK, run
  <2>2. MapTracksSessions'
    BY <1>3 DEF DropSession, TypeOK, MapTracksSessions
  <2>. QED
    BY <1>3, <2>1, <2>2 DEF DropSession, GuardKeepsEntry, run
<1>4. CASE UnregisterSession(s)
  <2>1. TypeOK'
    BY <1>4 DEF UnregisterSession, TypeOK, run
  <2>2. MapTracksSessions'
    BY <1>4 DEF UnregisterSession, TypeOK, MapTracksSessions
  <2>3. pc = "sending" => target # s
    BY <1>4 DEF UnregisterSession, ShardLocked
  <2>4. GuardKeepsEntry'
    BY <1>4, <2>3 DEF UnregisterSession, GuardKeepsEntry, run
  <2>. QED
    BY <2>1, <2>2, <2>4
<1>5. CASE DropReceiver(s)
  <2>1. TypeOK'
    BY <1>5, ConstantsAssumption DEF DropReceiver, TypeOK, run
  <2>2. MapTracksSessions'
    BY <1>5 DEF DropReceiver, TypeOK, MapTracksSessions
  <2>. QED
    BY <1>5, <2>1, <2>2 DEF DropReceiver, GuardKeepsEntry, run
<1>. QED
  BY <1>1, <1>2, <1>3, <1>4, <1>5 DEF SessionStep

(* The dispatcher itself never changes the map (datagram.rs 64-109).       *)
LEMMA DispatcherPreserves ==
    ASSUME IInv,
           \/ \E s \in Session : DispatchFound(s) \/ DispatchUnknown(s)
           \/ DispatchSent \/ ReadFails \/ Wake \/ DropClient \/ Stop
    PROVE  IInv'
<1>. USE DEF IInv
<1>1. CASE \E s \in Session : DispatchFound(s)
  <2>1. PICK s \in Session : DispatchFound(s)
    BY <1>1
  <2>2. TypeOK'
    BY <2>1, ConstantsAssumption DEF DispatchFound, Arrives, TypeOK, Session
  <2>. QED
    BY <2>1, <2>2 DEF DispatchFound, Arrives, MapTracksSessions, GuardKeepsEntry
<1>2. CASE \E s \in Session : DispatchUnknown(s)
  <2>1. PICK s \in Session : DispatchUnknown(s)
    BY <1>2
  <2>2. TypeOK'
    BY <2>1, ConstantsAssumption DEF DispatchUnknown, Arrives, TypeOK, Session
  <2>. QED
    BY <2>1, <2>2 DEF DispatchUnknown, Arrives, MapTracksSessions, GuardKeepsEntry
<1>3. CASE DispatchSent
  <2>1. target \in Session
    BY <1>3 DEF DispatchSent, GuardKeepsEntry, TypeOK
  <2>2. TypeOK'
    BY <1>3, <2>1, ConstantsAssumption DEF DispatchSent, TypeOK, Session
  <2>. QED
    BY <1>3, <2>2 DEF DispatchSent, MapTracksSessions, GuardKeepsEntry
<1>4. CASE ReadFails
  BY <1>4 DEF ReadFails, TypeOK, MapTracksSessions, GuardKeepsEntry
<1>5. CASE Wake
  <2>1. current_delay' \in InitialDelay..MaxDelay
    BY <1>5, DelayBounds DEF Wake, TypeOK
  <2>. QED
    BY <1>5, <2>1 DEF Wake, TypeOK, MapTracksSessions, GuardKeepsEntry
<1>6. CASE DropClient
  BY <1>6 DEF DropClient, TypeOK, MapTracksSessions, GuardKeepsEntry, run
<1>7. CASE Stop
  BY <1>7 DEF Stop, TypeOK, MapTracksSessions, GuardKeepsEntry
<1>. QED
  BY <1>1, <1>2, <1>3, <1>4, <1>5, <1>6, <1>7

(* The inductive invariant holds in every reachable state (datagram.rs,    *)
(* client.rs 90-141).                                                      *)
THEOREM Invariance == Spec => []IInv
<1>1. IInv /\ [Next]_vars => IInv'
  <2>. SUFFICES ASSUME IInv, [Next]_vars PROVE IInv'
    OBVIOUS
  <2>1. CASE \E s \in Session : SessionStep(s)
    BY <2>1, SessionPreserves
  <2>2. CASE \/ \E s \in Session : DispatchFound(s) \/ DispatchUnknown(s)
             \/ DispatchSent \/ ReadFails \/ Wake \/ DropClient \/ Stop
    BY <2>2, DispatcherPreserves
  <2>3. CASE UNCHANGED vars
    BY <2>3 DEF vars, run, IInv, TypeOK, MapTracksSessions, GuardKeepsEntry
  <2>. QED
    BY <2>1, <2>2, <2>3 DEF Next
<1>. QED
  BY <1>1, InitIInv, PTL DEF Spec

(* The state of the dispatcher and of its sessions has its type; in        *)
(* particular no channel exceeds its capacity and the delay its cap        *)
(* (datagram.rs 51-121).                                                   *)
THEOREM TypeCorrect == Spec => []TypeOK
BY Invariance, PTL DEF IInv

(* The map holds exactly the sessions whose Drop has not run, however many *)
(* sessions come and go (datagram.rs 111-121, 248-252).                    *)
THEOREM NoLeak == Spec => []MapTracksSessions
BY Invariance, PTL DEF IInv

(* dispatch never sends to a receiver that is gone, so its error branch,   *)
(* which would remove the entry under its own guard, is dead code          *)
(* (datagram.rs 96-103).                                                   *)
THEOREM SendsToLiveReceiver == Spec => []ReceiverOutlivesSend
<1>1. IInv => ReceiverOutlivesSend
  BY DEF IInv, GuardKeepsEntry, MapTracksSessions, ReceiverOutlivesSend
<1>. QED
  BY <1>1, Invariance, PTL

-----------------------------------------------------------------------------
(***************************************************************************)
(* Reassembly                                                              *)
(***************************************************************************)
\* What slot i of a buffer of n fragments under key k may hold.
SlotData(k, n, i) ==
    {d \in Data : KeyOf[d[1]] = k /\ Chunks[d[1]] % U16 = n /\ d[2] % U16 = i}

Slots(n) == [0..(n - 1) -> Data \union {NoData}]

\* The slots that have been filled.
Got(b) == {i \in 0..(b.total_count - 1) : b.fragments[i] # NoData}

BufferRecord ==
    [fragments : UNION {Slots(n) : n \in 0..MaxFragmentCount},
     received_count : Nat,
     total_count : 0..MaxFragmentCount,
     address : Address \union {NoAddress}]

(* A buffer has as many slots as its first fragment said, each empty or    *)
(* with a chunk that belongs there; it counts the filled ones, and its     *)
(* address is the one that came with the chunk in slot 0.                  *)
BufferSound(k, b) ==
    /\ b \in BufferRecord
    /\ b.fragments \in Slots(b.total_count)
    /\ \A i \in Got(b) : b.fragments[i] \in SlotData(k, b.total_count, i)
    /\ b.received_count = Cardinality(Got(b))
    /\ 0 \notin Got(b) => b.address = NoAddress
    /\ 0 \in Got(b) => b.address = AddressOf[b.fragments[0][1]]

BuffersSound ==
    /\ DOMAIN buffers \subseteq Key
    /\ \A k \in DOMAIN buffers : BufferSound(k, buffers[k])

(* What process returns has no hole: chunk i of it is chunk i of a packet  *)
(* with its key and its count, also where packets that share a key are     *)
(* mixed.                                                                  *)
EmittedFull ==
    \A e \in emitted : \E n \in 1..MaxFragmentCount :
        /\ e.data \in [0..(n - 1) -> Data]
        /\ \A i \in 0..(n - 1) : e.data[i] \in SlotData(e.key, n, i)

ReassemblyIInv ==
    /\ BuffersSound
    /\ EmittedWhole
    /\ EmittedFull
    /\ evictions \in 0..MaxEvictions

-----------------------------------------------------------------------------
(* A fragment carries the key, the count and the index of its chunk, and   *)
(* the address with index 0 only (protocol.rs 133-166).                    *)
LEMMA WireFragment ==
    ASSUME NEW f \in Wire
    PROVE  /\ f.key \in Key
           /\ f.fragment_index \in Nat
           /\ f.fragment_count \in Nat
           /\ f.data \in SlotData(f.key, f.fragment_count, f.fragment_index)
           /\ f.fragment_index = 0 => f.address = AddressOf[f.data[1]] /\ f.address \in Address
  <1> USE ReassemblyAssumption
  <1>1. PICK p \in Packet : f \in SplitPacket(p)
    BY DEF Wire
  <1>2. PICK i \in 0..(Chunks[p] - 1) :
           f = [key |-> KeyOf[p], fragment_index |-> i % U16,
                fragment_count |-> Chunks[p] % U16,
                address |-> IF i % U16 = 0 THEN AddressOf[p] ELSE NoAddress,
                data |-> <<p, i>>]
    BY <1>1 DEF SplitPacket
  <1>3. <<p, i>> \in Data
    BY DEF Data
  <1>4. i % U16 \in Nat /\ Chunks[p] % U16 \in Nat
    OBVIOUS
  <1>5. f.data \in SlotData(f.key, f.fragment_count, f.fragment_index)
    BY <1>2, <1>3 DEF SlotData
  <1> QED
    BY <1>2, <1>4, <1>5 DEF Key

(* The chunks of a packet that a u16 can count keep their number, and so   *)
(* does their count (protocol.rs 133-166).                                 *)
LEMMA SmallModulo ==
    ASSUME NEW n \in Nat, NEW u \in Nat, n < u
    PROVE  n % u = n
OBVIOUS

(* What the set of chunks contains.                                        *)
LEMMA DataPair ==
    ASSUME NEW d \in Data
    PROVE  d[1] \in Packet /\ d[2] \in 0..(Chunks[d[1]] - 1) /\ d = <<d[1], d[2]>>
BY DEF Data

(* The slots that are filled are no more than there are.                   *)
LEMMA GotBound ==
    ASSUME NEW b \in BufferRecord
    PROVE  /\ IsFiniteSet(Got(b))
           /\ Cardinality(Got(b)) \in 0..b.total_count
           /\ Cardinality(Got(b)) = b.total_count => Got(b) = 0..(b.total_count - 1)
  <1>1. b.total_count \in Nat
    BY ReassemblyAssumption DEF BufferRecord
  <1>2. /\ IsFiniteSet(0..(b.total_count - 1))
        /\ Cardinality(0..(b.total_count - 1)) = b.total_count
    <2> DEFINE n == b.total_count
               m == n - 1
    <2>1. n \in Nat /\ m \in Int /\ 0 \in Int
      BY <1>1
    <2> HIDE DEF n
    <2>2. IsFiniteSet(0..m) /\ Cardinality(0..m) = IF 0 > m THEN 0 ELSE m - 0 + 1
      <3> HIDE DEF m
      <3> QED
        BY <2>1, FS_Interval
    <2>3. Cardinality(0..m) = n
      BY <2>1, <2>2
    <2> QED
      BY <2>2, <2>3 DEF n
  <1>3. Got(b) \subseteq 0..(b.total_count - 1)
    BY DEF Got
  <1>4. /\ IsFiniteSet(Got(b)) /\ Cardinality(Got(b)) \in Nat
        /\ Cardinality(Got(b)) <= b.total_count
    BY <1>2, <1>3, FS_Subset, FS_CardinalityType
  <1>5. Cardinality(Got(b)) = b.total_count => Got(b) = 0..(b.total_count - 1)
    BY <1>2, <1>3, FS_Subset
  <1> QED
    BY <1>1, <1>4, <1>5

-----------------------------------------------------------------------------
(* The buffer get_with inserts is empty (reassembly.rs 48-56).             *)
LEMMA NewBufferSound == ASSUME NEW k PROVE BufferSound(k, NewBuffer)
  <1> USE ReassemblyAssumption
  <1>1. <<>> \in Slots(0)
    BY DEF Slots
  <1>2. NewBuffer \in BufferRecord
    BY <1>1 DEF NewBuffer, BufferRecord
  <1>3. Got(NewBuffer) = {}
    BY DEF Got, NewBuffer
  <1> QED
    BY <1>1, <1>2, <1>3, FS_EmptySet DEF BufferSound, NewBuffer

(* The buffer process looks at is sound, whether it was there or is new    *)
(* (reassembly.rs 208-218).                                                *)
LEMMA FoundBufferSound ==
    ASSUME BuffersSound, NEW k
    PROVE  BufferSound(k, Buffer(k))
BY NewBufferSound DEF BuffersSound, Buffer

(* Fixing the number of slots keeps a buffer sound (reassembly.rs 76-88).  *)
LEMMA SizedSound ==
    ASSUME NEW f \in Wire, NEW b, BufferSound(f.key, b), CountAccepted(b, f)
    PROVE  /\ BufferSound(f.key, Sized(b, f))
           /\ Sized(b, f).total_count = f.fragment_count
           /\ Sized(b, f).address = b.address
  <1> USE ReassemblyAssumption
  <1> DEFINE n == f.fragment_count
             empty == [i \in 0..(n - 1) |-> NoData]
             c == [b EXCEPT !.total_count = n, !.fragments = empty]
  <1>1. n \in 1..MaxFragmentCount /\ b \in BufferRecord
    BY WireFragment DEF CountAccepted, BufferSound
  <1>2. CASE b.total_count # 0
    BY <1>2 DEF Sized, CountAccepted
  <1>3. CASE b.total_count = 0
    <2>1. empty \in Slots(n)
      BY DEF Slots
    <2>2. Got(b) = {}
      BY <1>3 DEF Got
    <2>3. b.address = NoAddress /\ b.received_count = 0
      BY <2>2, FS_EmptySet DEF BufferSound
    <2>4. c \in BufferRecord
      <3>1. empty \in UNION {Slots(m) : m \in 0..MaxFragmentCount} /\ n \in 0..MaxFragmentCount
        BY <1>1, <2>1
      <3> HIDE DEF empty, n
      <3> QED
        BY <1>1, <3>1 DEF BufferRecord
    <2>5. c.fragments = empty /\ c.total_count = n /\ c.address = NoAddress /\ c.received_count = 0
      BY <1>1, <2>3 DEF BufferRecord
    <2>6. Got(c) = {}
      BY <2>5 DEF Got
    <2>7. BufferSound(f.key, c)
      BY <2>1, <2>4, <2>5, <2>6, FS_EmptySet DEF BufferSound
    <2> QED
      BY <1>3, <2>3, <2>5, <2>7 DEF Sized
  <1> QED
    BY <1>2, <1>3

(* A fragment whose slot is taken or missing leaves the buffer as it is:   *)
(* the address it may have brought is there already, although add_fragment *)
(* stores it before it looks at the slot (reassembly.rs 90-121).           *)
LEMMA RefusedUnaddressed ==
    ASSUME NEW f \in Wire, NEW b, BufferSound(f.key, b),
           b.total_count = f.fragment_count, f.fragment_count > 0,
           ~SlotFree(Addressed(b, f), f)
    PROVE  Addressed(b, f) = b
  <1> USE ReassemblyAssumption
  <1> SUFFICES ASSUME f.fragment_index = 0, b.address = NoAddress
               PROVE  FALSE
    BY DEF Addressed
  <1>1. b.fragments \in Slots(b.total_count) /\ b \in BufferRecord
    BY DEF BufferSound
  <1>2. Addressed(b, f).fragments = b.fragments
    BY <1>1 DEF Addressed, BufferRecord
  <1>3. 0 \in DOMAIN b.fragments /\ 0 \in 0..(b.total_count - 1)
    BY <1>1, WireFragment DEF Slots
  <1>4. 0 \in Got(b)
    BY <1>2, <1>3 DEF SlotFree, Got
  <1>5. b.fragments[0] \in Data
    BY <1>4 DEF BufferSound, SlotData
  <1> QED
    BY <1>4, <1>5, DataPair DEF BufferSound

(* Storing a fragment in its free slot, with the address when it brings    *)
(* one, keeps a buffer sound (reassembly.rs 90-118).                       *)
LEMMA FilledSound ==
    ASSUME NEW f \in Wire, NEW b, BufferSound(f.key, b),
           b.total_count = f.fragment_count, f.fragment_count > 0,
           SlotFree(Addressed(b, f), f)
    PROVE  BufferSound(f.key, Filled(Addressed(b, f), f))
  <1> USE ReassemblyAssumption
  <1> DEFINE n == b.total_count
             x == f.fragment_index
             a == Addressed(b, f)
             c == Filled(a, f)
             stored == [b.fragments EXCEPT ![x] = f.data]
  <1>1. b \in BufferRecord /\ b.fragments \in Slots(n) /\ n \in 0..MaxFragmentCount
    BY DEF BufferSound, BufferRecord
  <1>2. /\ x \in Nat /\ f.data \in SlotData(f.key, n, x)
        /\ x = 0 => f.address = AddressOf[f.data[1]] /\ f.address \in Address
    BY WireFragment
  <1>3. f.data \in Data /\ f.data # NoData
    BY <1>2 DEF SlotData
  <1>4. a \in BufferRecord /\ a.fragments = b.fragments /\ a.total_count = n
        /\ a.received_count = b.received_count
    BY <1>1, <1>2 DEF Addressed, BufferRecord
  <1>5. x \in 0..(n - 1) /\ b.fragments[x] = NoData
    BY <1>1, <1>4 DEF SlotFree, Slots
  <1>6. stored \in Slots(n)
    BY <1>1, <1>3, <1>5 DEF Slots
  <1>7. /\ c \in BufferRecord
        /\ c.fragments = stored /\ c.total_count = n /\ c.address = a.address
        /\ c.received_count = b.received_count + 1
    <2>1. stored \in UNION {Slots(m) : m \in 0..MaxFragmentCount}
      BY <1>1, <1>6
    <2>2. c = [a EXCEPT !.fragments = stored, !.received_count = b.received_count + 1]
      BY <1>4 DEF Filled, BufferRecord
    <2>3. b.received_count + 1 \in Nat
      BY <1>1 DEF BufferRecord
    <2> DEFINE r == b.received_count + 1
    <2> HIDE DEF stored, c, a, r, n
    <2>4. c \in BufferRecord
      BY <1>4, <2>1, <2>2, <2>3 DEF BufferRecord, r
    <2>5. /\ c.fragments = stored /\ c.total_count = a.total_count
          /\ c.address = a.address /\ c.received_count = r
      BY <1>4, <2>2 DEF BufferRecord, r
    <2> QED
      BY <1>4, <2>4, <2>5 DEF r
  <1>8. Got(c) = Got(b) \union {x} /\ x \notin Got(b)
    BY <1>1, <1>3, <1>5, <1>7 DEF Got, Slots
  <1>9. c.received_count = Cardinality(Got(c))
    <2>1. Cardinality(Got(c)) = Cardinality(Got(b)) + 1
      BY <1>1, <1>8, GotBound, FS_AddElement
    <2> QED
      BY <1>7, <2>1 DEF BufferSound
  <1>10. \A i \in Got(c) : c.fragments[i] \in SlotData(f.key, n, i)
    <2> SUFFICES ASSUME NEW i \in Got(c) PROVE stored[i] \in SlotData(f.key, n, i)
      BY <1>7
    <2>1. CASE i = x
      BY <1>1, <1>2, <1>5, <2>1 DEF Slots
    <2>2. CASE i # x
      BY <1>1, <1>8, <2>2 DEF Slots, BufferSound
    <2> QED
      BY <2>1, <2>2
  <1>11. /\ 0 \notin Got(c) => c.address = NoAddress
         /\ 0 \in Got(c) => c.address = AddressOf[c.fragments[0][1]]
    <2>1. CASE x = 0
      <3>1. b.address = NoAddress
        BY <1>8, <2>1 DEF BufferSound
      <3>2. a.address = f.address
        BY <1>1, <2>1, <3>1 DEF Addressed, BufferRecord
      <3>3. c.fragments[0] = f.data
        BY <1>1, <1>5, <1>7, <2>1 DEF Slots
      <3> QED
        BY <1>2, <1>7, <1>8, <2>1, <3>2, <3>3
    <2>2. CASE x # 0
      <3>1. a.address = b.address
        BY <2>2 DEF Addressed
      <3>2. 0 \in Got(b) => c.fragments[0] = b.fragments[0]
        BY <1>1, <1>7, <2>2 DEF Slots, Got
      <3>3. 0 \in Got(c) <=> 0 \in Got(b)
        BY <1>8, <2>2
      <3> HIDE DEF c, a
      <3> QED
        BY <1>7, <3>1, <3>2, <3>3 DEF BufferSound
    <2> QED
      BY <2>1, <2>2
  <1> HIDE DEF c, stored
  <1>12. BufferSound(f.key, c)
    BY <1>6, <1>7, <1>9, <1>10, <1>11 DEF BufferSound
  <1> QED
    BY <1>12 DEF c

(* What is assembled from a complete buffer: a packet that is alone under  *)
(* its key and has not wrapped comes out whole, and the address is that of *)
(* the packet of the first chunk (reassembly.rs 123-160).                  *)
LEMMA CompleteWhole ==
    ASSUME NEW k, NEW b, BufferSound(k, b), IsComplete(b),
           NEW e, e = [key |-> k, address |-> b.address, data |-> b.fragments]
    PROVE  /\ \A p \in Packet :
                 SoleUser(p) /\ Chunks[p] < U16 /\ e.key = KeyOf[p] => e = Whole(p)
           /\ e.address = AddressOf[e.data[0][1]]
           /\ \E n \in 1..MaxFragmentCount :
                 /\ e.data \in [0..(n - 1) -> Data]
                 /\ \A i \in 0..(n - 1) : e.data[i] \in SlotData(e.key, n, i)
  <1> USE ReassemblyAssumption
  <1> DEFINE n == b.total_count
  <1>1. b \in BufferRecord /\ b.fragments \in Slots(n) /\ n \in Nat /\ n > 0
    BY DEF BufferSound, BufferRecord, IsComplete
  <1>2. Got(b) = 0..(n - 1)
    BY <1>1, GotBound DEF BufferSound, IsComplete
  <1>3. b.address = AddressOf[b.fragments[0][1]]
    BY <1>1, <1>2 DEF BufferSound
  <1>4. ASSUME NEW p \in Packet, SoleUser(p), Chunks[p] < U16, k = KeyOf[p]
        PROVE  e = Whole(p)
    <2>1. ASSUME NEW i \in 0..(n - 1)
          PROVE  b.fragments[i] = <<p, i>> /\ Chunks[p] = n
      <3>1. b.fragments[i] \in SlotData(k, n, i)
        BY <1>2 DEF BufferSound
      <3> DEFINE d == b.fragments[i]
      <3>2. /\ d \in Data /\ KeyOf[d[1]] = k /\ Chunks[d[1]] % U16 = n /\ d[2] % U16 = i
        BY <3>1 DEF SlotData
      <3>3. d[1] \in Packet /\ d[2] \in 0..(Chunks[d[1]] - 1) /\ d = <<d[1], d[2]>>
        BY <3>2, DataPair
      <3>4. d[1] = p
        BY <1>4, <3>2, <3>3 DEF SoleUser
      <3>5. Chunks[p] % U16 = Chunks[p] /\ d[2] % U16 = d[2]
        <4>1. Chunks[p] \in Nat /\ d[2] \in Nat /\ d[2] < U16
          BY <1>4, <3>3, <3>4
        <4> HIDE DEF d
        <4> QED
          BY <1>4, <4>1, SmallModulo
      <3> HIDE DEF d
      <3>6. d = <<p, i>> /\ Chunks[p] = n
        BY <3>2, <3>3, <3>4, <3>5
      <3> QED
        BY <3>6 DEF d
    <2>2. Chunks[p] = n
      BY <1>1, <2>1
    <2>3. b.fragments = [i \in 0..(Chunks[p] - 1) |-> <<p, i>>]
      BY <1>1, <2>1, <2>2 DEF Slots
    <2>4. b.address = AddressOf[p]
      BY <1>1, <1>3, <2>1
    <2> QED
      BY <1>4, <2>3, <2>4 DEF Whole
  <1>5. n \in 1..MaxFragmentCount
    BY <1>1 DEF BufferRecord
  <1>6. \A i \in 0..(n - 1) : b.fragments[i] \in SlotData(k, n, i) /\ b.fragments[i] \in Data
    BY <1>2 DEF BufferSound, SlotData
  <1>7. b.fragments \in [0..(n - 1) -> Data]
    BY <1>1, <1>6 DEF Slots
  <1> HIDE DEF n
  <1> QED
    BY <1>3, <1>4, <1>5, <1>6, <1>7

-----------------------------------------------------------------------------
(* No buffer exists and nothing has been returned at the start             *)
(* (reassembly.rs 163-184).                                                *)
LEMMA ReassemblyInitIInv == ReassemblyInit => ReassemblyIInv
BY ReassemblyAssumption
   DEF ReassemblyInit, ReassemblyIInv, BuffersSound, EmittedWhole, EmittedFull

(* Putting a sound buffer under its key keeps the buffers sound.           *)
LEMMA PutSound ==
    ASSUME BuffersSound, NEW k \in Key, NEW b, BufferSound(k, b), Put(k, b)
    PROVE  BuffersSound'
  <1>1. DOMAIN buffers' = DOMAIN buffers \union {k}
    BY DEF Put
  <1>2. \A x \in DOMAIN buffers' : buffers'[x] = IF x = k THEN b ELSE buffers[x]
    BY DEF Put
  <1>3. \A x \in DOMAIN buffers' : BufferSound(x, buffers'[x])
    BY <1>1, <1>2 DEF BuffersSound
  <1> QED
    BY <1>1, <1>3 DEF BuffersSound

(* So does removing one.                                                   *)
LEMMA RemoveSound ==
    ASSUME BuffersSound, NEW k, Remove(k)
    PROVE  BuffersSound'
  <1>1. DOMAIN buffers' = DOMAIN buffers \ {k}
    BY DEF Remove
  <1>2. \A x \in DOMAIN buffers' : buffers'[x] = buffers[x]
    BY DEF Remove
  <1> QED
    BY <1>1, <1>2 DEF BuffersSound

(* However add_fragment ends, the buffers stay sound and what process      *)
(* returns is whole (reassembly.rs 64-160, 193-240).                       *)
LEMMA ProcessPreserves ==
    ASSUME ReassemblyIInv, NEW f \in Wire, Process(f)
    PROVE  ReassemblyIInv'
  <1> DEFINE b == Buffer(f.key)
             s == Sized(b, f)
  <1>1. BuffersSound /\ EmittedWhole /\ EmittedFull /\ evictions \in 0..MaxEvictions
    BY DEF ReassemblyIInv
  <1>2. f.key \in Key /\ f.fragment_count \in Nat
    BY WireFragment
  <1>3. BufferSound(f.key, b)
    BY <1>1, FoundBufferSound
  <1>4. CountAccepted(b, f) => /\ BufferSound(f.key, s)
                               /\ s.total_count = f.fragment_count
                               /\ f.fragment_count > 0
    BY <1>3, SizedSound DEF CountAccepted
  <1>5. UNCHANGED emitted => EmittedWhole' /\ EmittedFull'
    BY <1>1 DEF EmittedWhole, EmittedFull
  <1> HIDE DEF b, s
  <1>6. CASE RejectCount(f)
    BY <1>1, <1>2, <1>3, <1>5, <1>6, PutSound DEF RejectCount, ReassemblyIInv, b
  <1>7. CASE RejectAddress(f)
    BY <1>1, <1>2, <1>4, <1>5, <1>7, PutSound DEF RejectAddress, ReassemblyIInv, b, s
  <1>8. CASE RejectSlot(f)
    <2>1. /\ CountAccepted(b, f) /\ ~SlotFree(Addressed(s, f), f)
          /\ Put(f.key, Addressed(s, f)) /\ UNCHANGED <<emitted, evictions>>
      BY <1>8 DEF RejectSlot, ReachesSlot, Prepared, b, s
    <2>2. Addressed(s, f) = s
      BY <1>4, <2>1, RefusedUnaddressed
    <2> QED
      BY <1>1, <1>2, <1>4, <1>5, <2>1, <2>2, PutSound DEF ReassemblyIInv
  <1>9. CASE Store(f)
    <2>1. /\ CountAccepted(b, f) /\ SlotFree(Addressed(s, f), f)
          /\ Put(f.key, Filled(Addressed(s, f), f)) /\ UNCHANGED <<emitted, evictions>>
      BY <1>9 DEF Store, ReachesSlot, Prepared, b, s
    <2>2. BufferSound(f.key, Filled(Addressed(s, f), f))
      BY <1>4, <2>1, FilledSound
    <2> QED
      BY <1>1, <1>2, <1>5, <2>1, <2>2, PutSound DEF ReassemblyIInv
  <1>10. CASE Complete(f)
    <2> DEFINE c == Filled(Addressed(s, f), f)
               e == [key |-> f.key, address |-> c.address, data |-> c.fragments]
    <2>1. /\ CountAccepted(b, f) /\ SlotFree(Addressed(s, f), f) /\ IsComplete(c)
          /\ emitted' = emitted \union {e} /\ Remove(f.key) /\ UNCHANGED evictions
      BY <1>10 DEF Complete, ReachesSlot, Prepared, b, s
    <2>2. BufferSound(f.key, c)
      BY <1>4, <2>1, FilledSound
    <2> HIDE DEF c
    <2>3. /\ \A p \in Packet :
                SoleUser(p) /\ Chunks[p] < U16 /\ e.key = KeyOf[p] => e = Whole(p)
          /\ e.address = AddressOf[e.data[0][1]]
          /\ \E n \in 1..MaxFragmentCount :
                /\ e.data \in [0..(n - 1) -> Data]
                /\ \A i \in 0..(n - 1) : e.data[i] \in SlotData(e.key, n, i)
      BY <2>1, <2>2, CompleteWhole
    <2> HIDE DEF e
    <2>4. EmittedWhole'
      BY <1>1, <2>1, <2>3 DEF EmittedWhole
    <2>5. EmittedFull'
      BY <1>1, <2>1, <2>3 DEF EmittedFull
    <2>6. BuffersSound'
      BY <1>1, <2>1, RemoveSound
    <2> QED
      BY <1>1, <2>1, <2>4, <2>5, <2>6 DEF ReassemblyIInv
  <1> QED
    BY <1>6, <1>7, <1>8, <1>9, <1>10 DEF Process

(* The timeout or the capacity of the cache only takes buffers away        *)
(* (reassembly.rs 176-184).                                                *)
LEMMA EvictPreserves ==
    ASSUME ReassemblyIInv, NEW k \in Key, Evict(k)
    PROVE  ReassemblyIInv'
  <1>1. Remove(k) /\ evictions' = evictions + 1 /\ evictions < MaxEvictions /\ UNCHANGED emitted
    BY DEF Evict
  <1>2. BuffersSound'
    BY <1>1, RemoveSound DEF ReassemblyIInv
  <1>3. EmittedWhole' /\ EmittedFull'
    BY <1>1 DEF ReassemblyIInv, EmittedWhole, EmittedFull
  <1>4. evictions' \in 0..MaxEvictions
    BY <1>1, ReassemblyAssumption DEF ReassemblyIInv
  <1> QED
    BY <1>2, <1>3, <1>4 DEF ReassemblyIInv

(* Every buffer is sound and everything returned is whole, in every        *)
(* reachable state (reassembly.rs 64-240).                                 *)
THEOREM ReassemblyInvariance == ReassemblySpec => []ReassemblyIInv
  <1>1. ReassemblyIInv /\ [ReassemblyNext]_reassemblyVars => ReassemblyIInv'
    <2> SUFFICES ASSUME ReassemblyIInv, [ReassemblyNext]_reassemblyVars
                 PROVE  ReassemblyIInv'
      OBVIOUS
    <2>1. CASE \E f \in Wire : Process(f)
      BY <2>1, ProcessPreserves
    <2>2. CASE \E k \in Key : Evict(k)
      BY <2>2, EvictPreserves
    <2>3. CASE UNCHANGED reassemblyVars
      BY <2>3 DEF reassemblyVars, ReassemblyIInv, BuffersSound, EmittedWhole, EmittedFull
    <2> QED
      BY <2>1, <2>2, <2>3 DEF ReassemblyNext
  <1> QED
    BY <1>1, ReassemblyInitIInv, PTL DEF ReassemblySpec

(* Every buffer has as many slots as its count says, never more than       *)
(* MAX_FRAGMENT_COUNT, and counts no more fragments than it has slots      *)
(* (reassembly.rs 64-126).                                                 *)
THEOREM ReassemblyTypeCorrect == ReassemblySpec => []ReassemblyTypeOK
  <1>1. ReassemblyIInv => ReassemblyTypeOK
    <2> SUFFICES ASSUME ReassemblyIInv PROVE ReassemblyTypeOK
      OBVIOUS
    <2>1. ASSUME NEW k \in DOMAIN buffers
          PROVE  LET b == buffers[k] IN
                   /\ b.total_count \in 0..MaxFragmentCount
                   /\ b.received_count \in 0..b.total_count
                   /\ b.fragments \in [0..(b.total_count - 1) -> Data \union {NoData}]
                   /\ b.address \in Address \union {NoAddress}
      <3> DEFINE b == buffers[k]
      <3>1. BufferSound(k, b)
        BY DEF ReassemblyIInv, BuffersSound
      <3> HIDE DEF b
      <3>2. b \in BufferRecord /\ b.received_count = Cardinality(Got(b))
        BY <3>1 DEF BufferSound
      <3>3. b.received_count \in 0..b.total_count
        BY <3>2, GotBound
      <3>4. b.total_count \in 0..MaxFragmentCount /\ b.address \in Address \union {NoAddress}
        BY <3>2 DEF BufferRecord
      <3>5. b.fragments \in [0..(b.total_count - 1) -> Data \union {NoData}]
        BY <3>1 DEF BufferSound, Slots
      <3> QED
        BY <3>3, <3>4, <3>5 DEF b
    <2> QED
      BY <2>1 DEF ReassemblyTypeOK, ReassemblyIInv, BuffersSound
  <1> QED
    BY <1>1, ReassemblyInvariance, PTL

(* A packet alone under its key whose chunks a u16 counts comes out whole  *)
(* or not at all, whatever the order of its fragments, how often they come *)
(* and which buffers are evicted; and no packet, mixed or cut off, goes to *)
(* an address other than the one of the packet of its first chunk          *)
(* (reassembly.rs 64-160, 193-240; protocol.rs 133-166).                   *)
THEOREM PacketsWhole == ReassemblySpec => []EmittedWhole
BY ReassemblyInvariance, PTL DEF ReassemblyIInv

(* A packet is returned without a hole and every chunk of it comes from a  *)
(* packet with its key and its count, shared keys or not: the branch of    *)
(* assemble_and_take that "should not happen if is_complete is true" is    *)
(* dead code (reassembly.rs 123-160).                                      *)
THEOREM NoHoles == ReassemblySpec => []EmittedFull
BY ReassemblyInvariance, PTL DEF ReassemblyIInv
=============================================================================
