---------------------------- MODULE MCTunEndpoint ----------------------------
(* Two local addresses in one shard of active_sessions, queues of one      *)
(* packet: every channel fills up and two flows of one address meet.       *)
EXTENDS TunEndpoint

MCLocal == {"a", "b"}
MCShard == [l \in MCLocal |-> 1]
=============================================================================
