-------------------------- MODULE MCProxyConnection --------------------------
(* A relay of two bytes each way with chunks of one or two bytes and a     *)
(* one-byte window; three HTTP requests, so that a dial follows a refused  *)
(* and an answered one; two local senders.                                 *)
EXTENDS ProxyConnection

CONSTANTS s1, s2

MCSender == {s1, s2}
=============================================================================
