--------------------------- MODULE MCClientService ---------------------------
(* Two threads of the host and up to two services with a listener and a    *)
(* TUN device each: a startup meets a running service, a shutdown and      *)
(* another startup.                                                        *)
EXTENDS ClientService

MCEndpoint == {"socks", "tun"}
=============================================================================
