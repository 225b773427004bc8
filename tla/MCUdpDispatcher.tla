---------------------------- MODULE MCUdpDispatcher ----------------------------
(* Instance of UdpDispatcher for TLC: sessions 1 and 2 share a shard. *)
EXTENDS UdpDispatcher

SharedShard == <<1, 1, 2>>
=============================================================================
