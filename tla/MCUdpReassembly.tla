---------------------------- MODULE MCUdpReassembly ----------------------------
(* Instance of UdpReassembly for TLC. *)
EXTENDS UdpReassembly, TLC

CONSTANTS p1, p2, p3, p4, a1, a2

\* p1 and p2 go by the same key, with different addresses; p3 has the key too, and so
\* many chunks that their count wraps.  p4 has a key of its own.
SharedKeys == (p1 :> 1) @@ (p2 :> 1) @@ (p3 :> 1) @@ (p4 :> 2)
Addresses == (p1 :> a1) @@ (p2 :> a2) @@ (p3 :> a1) @@ (p4 :> a2)
Sizes == (p1 :> 2) @@ (p2 :> 2) @@ (p3 :> 5) @@ (p4 :> 3)
=============================================================================
