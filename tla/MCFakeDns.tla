------------------------------- MODULE MCFakeDns -------------------------------
(* Instance of FakeDns for TLC: its constants are model values. *)
EXTENDS FakeDns
=============================================================================
