---------------------------- MODULE MCNetstackTcp ----------------------------
(* One connection, whose SYN may be repeated; buffers and queues of one or *)
(* two entries, so that every one of them fills up.                        *)
EXTENDS NetstackTcp
=============================================================================
