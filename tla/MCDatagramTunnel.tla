---------------------------- MODULE MCDatagramTunnel ----------------------------
(* Instance of DatagramTunnel for TLC. *)
EXTENDS DatagramTunnel, TLC

CONSTANTS p1, p2, p3, d1, d2

\* p1 and p2 belong to one session and go to two ports of one domain; p3 belongs to
\* another session.
Owner == (p1 :> 1) @@ (p2 :> 1) @@ (p3 :> 2)
Target == (p1 :> d1) @@ (p2 :> d1) @@ (p3 :> d2)
Port == (p1 :> 53) @@ (p2 :> 443) @@ (p3 :> 53)
=============================================================================
