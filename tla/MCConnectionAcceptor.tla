------------------------- MODULE MCConnectionAcceptor -------------------------
(* Instance of ConnectionAcceptor for TLC: its constants are model values. *)
EXTENDS ConnectionAcceptor
=============================================================================
