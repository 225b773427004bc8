----------------------------- MODULE UdpReassembly -----------------------------
(***************************************************************************)
(* Splitting a UDP packet into fragments and putting it together again.    *)
(*                                                                         *)
(* crates/ombrac/src/protocol.rs, UdpPacket::split_packet, and             *)
(* crates/ombrac/src/reassembly.rs.  QUIC datagrams get lost, reordered    *)
(* and, when a sender repeats itself, duplicated: a fragment on the wire   *)
(* may arrive at any time, any number of times or never.  Both users of    *)
(* the reassembler call process from a single loop, so a call is one step. *)
(*                                                                         *)
(* The bytes of chunk i of packet p are the pair <<p, i>>.                 *)
(***************************************************************************)
EXTENDS Integers, FiniteSets

CONSTANTS Packet,            \* packets that are split and sent
          KeyOf,             \* (session_id, fragment_id) of each packet
          Address,
          AddressOf,         \* destination of each packet
          Chunks,            \* number of chunks of each packet
          U16,               \* 2^16: fragment_index and fragment_count are u16
          MaxFragmentCount,  \* MAX_FRAGMENT_COUNT
          NoAddress,         \* None
          NoData,            \* None
          MaxEvictions       \* bound: buffers lost to the timeout or the capacity

Key == {KeyOf[p] : p \in Packet}
Data == UNION {{p} \X (0..(Chunks[p] - 1)) : p \in Packet}

ASSUME ReassemblyAssumption ==
    /\ AddressOf \in [Packet -> Address]
    /\ Chunks \in [Packet -> Nat]
    /\ U16 \in Nat \ {0}
    /\ MaxFragmentCount \in Nat
    /\ NoAddress \notin Address
    /\ NoData \notin Data
    /\ MaxEvictions \in Nat

VARIABLES
    buffers,    \* cache: the buffers by key, as a partial function
    emitted,    \* what process has returned as complete
    evictions   \* how many buffers the cache has evicted (bounded by MaxEvictions)

reassemblyVars == <<buffers, emitted, evictions>>

-----------------------------------------------------------------------------
(***************************************************************************)
(* split_packet.  The number of chunks is cast to u16; the assertion stops *)
(* a packet whose count is then 0.                                         *)
(***************************************************************************)
SplitPacket(p) ==
    {[key |-> KeyOf[p],
      fragment_index |-> i % U16,
      fragment_count |-> Chunks[p] % U16,
      address |-> IF i % U16 = 0 THEN AddressOf[p] ELSE NoAddress,
      data |-> <<p, i>>] : i \in 0..(Chunks[p] - 1)}

Wire ==
    UNION {SplitPacket(p) : p \in {q \in Packet : Chunks[q] % U16 > 0}}

(***************************************************************************)
(* ReassemblyBuffer                                                        *)
(***************************************************************************)
NewBuffer ==
    [fragments |-> <<>>, received_count |-> 0, total_count |-> 0, address |-> NoAddress]

Buffer(k) == IF k \in DOMAIN buffers THEN buffers[k] ELSE NewBuffer

\* Mutant: the largest allowed count is refused.
CountOffByOne(b, f) ==
    /\ f.fragment_count > 0
    /\ f.fragment_count < MaxFragmentCount
    /\ b.total_count \in {0, f.fragment_count}

CountAccepted(b, f) ==
    /\ f.fragment_count > 0
    /\ f.fragment_count <= MaxFragmentCount
    /\ b.total_count \in {0, f.fragment_count}

\* The first fragment to arrive fixes the number of fragments.
Sized(b, f) ==
    IF b.total_count = 0
    THEN [b EXCEPT !.total_count = f.fragment_count,
                   !.fragments = [i \in 0..(f.fragment_count - 1) |-> NoData]]
    ELSE b

AddressAccepted(b, f) ==
    f.fragment_index = 0 => b.address \in {NoAddress, f.address}

\* The address is stored before the slot is looked at.
Addressed(b, f) ==
    IF f.fragment_index = 0 /\ b.address = NoAddress
    THEN [b EXCEPT !.address = f.address]
    ELSE b

\* Mutant: a duplicate is stored and counted again.
SlotUnchecked(b, f) == f.fragment_index \in DOMAIN b.fragments

SlotFree(b, f) ==
    /\ f.fragment_index \in DOMAIN b.fragments
    /\ b.fragments[f.fragment_index] = NoData

Filled(b, f) ==
    [b EXCEPT !.fragments[f.fragment_index] = f.data,
              !.received_count = b.received_count + 1]

IsComplete(b) ==
    /\ b.total_count > 0
    /\ b.received_count = b.total_count
    /\ b.address # NoAddress

-----------------------------------------------------------------------------
ReassemblyInit ==
    /\ buffers = <<>>
    /\ emitted = {}
    /\ evictions = 0

Put(k, b) ==
    buffers' = [x \in DOMAIN buffers \union {k} |-> IF x = k THEN b ELSE buffers[x]]

Remove(k) == buffers' = [x \in DOMAIN buffers \ {k} |-> buffers[x]]

(***************************************************************************)
(* UdpReassembler::process, by how add_fragment ends.  get_with has        *)
(* inserted a buffer even when the fragment is then refused.               *)
(***************************************************************************)
RejectCount(f) ==
    /\ ~CountAccepted(Buffer(f.key), f)
    /\ Put(f.key, Buffer(f.key))
    /\ UNCHANGED <<emitted, evictions>>

RejectAddress(f) ==
    /\ CountAccepted(Buffer(f.key), f)
    /\ ~AddressAccepted(Buffer(f.key), f)
    /\ Put(f.key, Sized(Buffer(f.key), f))
    /\ UNCHANGED <<emitted, evictions>>

\* The buffer when add_fragment comes to the slot.
Prepared(f) == Addressed(Sized(Buffer(f.key), f), f)

ReachesSlot(f) ==
    /\ CountAccepted(Buffer(f.key), f)
    /\ AddressAccepted(Buffer(f.key), f)

RejectSlot(f) ==
    /\ ReachesSlot(f)
    /\ ~SlotFree(Prepared(f), f)
    /\ Put(f.key, Prepared(f))
    /\ UNCHANGED <<emitted, evictions>>

Store(f) ==
    /\ ReachesSlot(f)
    /\ SlotFree(Prepared(f), f)
    /\ ~IsComplete(Filled(Prepared(f), f))
    /\ Put(f.key, Filled(Prepared(f), f))
    /\ UNCHANGED <<emitted, evictions>>

\* assemble_and_take concatenates the fragments in order; the buffer is invalidated.
Complete(f) ==
    /\ ReachesSlot(f)
    /\ SlotFree(Prepared(f), f)
    /\ LET b == Filled(Prepared(f), f) IN
        /\ IsComplete(b)
        /\ emitted' = emitted \union {[key |-> f.key, address |-> b.address, data |-> b.fragments]}
    /\ Remove(f.key)
    /\ UNCHANGED evictions

Process(f) ==
    RejectCount(f) \/ RejectAddress(f) \/ RejectSlot(f) \/ Store(f) \/ Complete(f)

\* The reassembly timeout, or the cache's capacity.
Evict(k) ==
    /\ k \in DOMAIN buffers
    /\ evictions < MaxEvictions
    /\ Remove(k)
    /\ evictions' = evictions + 1
    /\ UNCHANGED emitted

ReassemblyNext == (\E f \in Wire : Process(f)) \/ (\E k \in Key : Evict(k))

ReassemblySpec == ReassemblyInit /\ [][ReassemblyNext]_reassemblyVars

\* A conditional: fragments keep arriving.  Nothing in the code sends one again.
ReassemblyFairSpec == ReassemblySpec /\ \A f \in Wire : WF_reassemblyVars(Process(f))

-----------------------------------------------------------------------------
ReassemblyTypeOK ==
    /\ DOMAIN buffers \subseteq Key
    /\ \A k \in DOMAIN buffers :
          LET b == buffers[k] IN
          /\ b.total_count \in 0..MaxFragmentCount
          /\ b.received_count \in 0..b.total_count
          /\ b.fragments \in [0..(b.total_count - 1) -> Data \union {NoData}]
          /\ b.address \in Address \union {NoAddress}
    /\ evictions \in 0..MaxEvictions

\* No other packet is sent under the key of p.
SoleUser(p) == \A q \in Packet : KeyOf[q] = KeyOf[p] => q = p

Whole(p) ==
    [key |-> KeyOf[p], address |-> AddressOf[p],
     data |-> [i \in 0..(Chunks[p] - 1) |-> <<p, i>>]]

(* A packet that does not share its key, and whose chunks fit in the u16   *)
(* that counts them, comes out whole, with its address and its chunks in   *)
(* order, or not at all: in whatever order, how often and across however   *)
(* many evictions its fragments arrive (reassembly.rs 64-160, 193-240).    *)
(* Packets that share a key may be mixed and one whose count has wrapped   *)
(* is cut off, but the address always comes with the first chunk of its    *)
(* own packet (90-118).                                                    *)
EmittedWhole ==
    \A e \in emitted :
        /\ \A p \in Packet :
              SoleUser(p) /\ Chunks[p] < U16 /\ e.key = KeyOf[p] => e = Whole(p)
        /\ e.address = AddressOf[e.data[0][1]]

(* As long as its fragments keep arriving, a packet that does not share    *)
(* its key and respects MAX_FRAGMENT_COUNT is returned, evictions and      *)
(* duplicates notwithstanding (reassembly.rs 193-240).                     *)
PacketsAssemble ==
    \A p \in Packet :
        SoleUser(p) /\ Chunks[p] \in 1..MaxFragmentCount => <>(Whole(p) \in emitted)
=============================================================================
