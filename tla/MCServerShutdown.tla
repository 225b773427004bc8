--------------------------- MODULE MCServerShutdown ---------------------------
(* Instance of ServerShutdown for TLC. *)
EXTENDS ServerShutdown

CONSTANTS c1, s1, s2, s3

\* The streams share one connection.
Owner == [s \in {s1, s2, s3} |-> c1]
=============================================================================
