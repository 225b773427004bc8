--------------------------- MODULE ProxyConnection ---------------------------
(***************************************************************************)
(* One application connection through a local endpoint of the client:      *)
(* SOCKS5 (endpoint/socks), HTTP (endpoint/http.rs) or a TCP stream of the *)
(* TUN netstack (relay_tcp_stream of endpoint/tun.rs).                     *)
(*                                                                         *)
(* The endpoint reads what the application wants, dials the destination    *)
(* through the tunnel (ClientConnection::open_bidirectional), answers, and *)
(* hands both streams to copy_bidirectional.  A SOCKS UDP ASSOCIATE keeps  *)
(* the connection as its control channel and relays datagrams instead.     *)
(*                                                                         *)
(* Stream a of CopyBidirectional is the application's connection, stream b *)
(* the tunnel.  Its bytes are what follows the negotiation, which the      *)
(* application may send early; the negotiation's own bytes are not         *)
(* modelled, only what they are parsed to.                                 *)
(***************************************************************************)
EXTENDS CopyBidirectional, FiniteSets

CONSTANTS Kind,          \* kinds of endpoint, of {"socks", "http", "tun"}
          Sender,        \* local addresses that send to the relay socket
          NoSender,      \* client_addr is None
          MaxRequests,   \* bound: HTTP requests on one connection
          MaxDatagrams   \* bound: datagrams of an association, each way

ASSUME ProxyAssumption ==
    /\ Kind \subseteq {"socks", "http", "tun"}
    /\ NoSender \notin Sender
    /\ MaxRequests \in Nat
    /\ MaxDatagrams \in Nat

VARIABLES
    kind,          \* the endpoint
    phase,         \* where the connection's handler stands
    dest,          \* what became of the server's connect to the destination
    err,           \* the error open_bidirectional returned
    reply,         \* the last answer the application got
    requests,      \* HTTP requests read so far
    method,        \* what is asked for: a CONNECT, or another HTTP request
    poll,          \* udp_relay_loop: the arm of the select looked at next
    client_addr,   \* udp_relay_loop: the first sender
    socket,        \* datagrams waiting in the relay socket
    tunnel,        \* datagrams waiting in the UdpSession
    arrived        \* datagrams arrived so far, from the sockets and the tunnel

dialling == <<dest, err, reply, requests, method>>
assoc == <<poll, client_addr, socket, tunnel, arrived>>
vars == <<kind, phase, dialling, assoc, copyVars>>

-----------------------------------------------------------------------------
(***************************************************************************)
(* The error of the server's connect, as it travels: ConnectErrorKind::    *)
(* from_io_error on the server, open_bidirectional on the client,          *)
(* Reply::from_connect_error in the SOCKS endpoint.                        *)
(***************************************************************************)
ConnectError ==
    {"ConnectionRefused", "NetworkUnreachable", "HostUnreachable", "TimedOut",
     "PermissionDenied", "NotFound"}

ConnectErrorKind(error) ==
    IF error \in {"ConnectionRefused", "NetworkUnreachable", "HostUnreachable", "TimedOut"}
    THEN error ELSE "Other"

\* Errors of the tunnel itself: no answer in time; no stream, a lost connection.
TunnelError == {"TunnelTimedOut", "TunnelFailed"}

\* Mutant: only the kinds the unit test of the function names are told apart.
FromTestedError(error) ==
    CASE error \in {"TimedOut", "TunnelTimedOut"} -> "TtlExpired"
      [] error = "ConnectionRefused" -> error
      [] OTHER -> "GeneralFailure"

FromConnectError(error) ==
    CASE error \in {"TimedOut", "TunnelTimedOut"} -> "TtlExpired"
      [] error = "PermissionDenied" -> "ConnectionNotAllowed"
      [] error \in {"ConnectionRefused", "NetworkUnreachable", "HostUnreachable"} -> error
      [] OTHER -> "GeneralFailure"

-----------------------------------------------------------------------------
Init ==
    /\ kind \in Kind
    /\ phase = [socks |-> "method", http |-> "http", tun |-> "target"][kind]
    /\ dest = "none"
    /\ err = "none"
    /\ reply = "none"
    /\ requests = 0
    /\ method = "CONNECT"
    /\ poll = "control"
    /\ client_addr = NoSender
    /\ socket = <<>>
    /\ tunnel = 0
    /\ arrived = [socket |-> 0, tunnel |-> 0]
    /\ InitCopy

\* The handler returns; the streams it holds are dropped.
Close(answer) ==
    /\ phase' = "closed"
    /\ reply' = answer
    /\ UNCHANGED <<kind, dest, err, requests, method, assoc, copyVars>>

Goto(next) ==
    /\ phase' = next
    /\ UNCHANGED <<kind, dialling, assoc, copyVars>>

(***************************************************************************)
(* SOCKS: negotiate_method and Request::read.  A read that fails and a     *)
(* malformed message close the connection; only a method list without      *)
(* NO_AUTHENTICATION is answered first.                                    *)
(***************************************************************************)
NegotiateMethod ==
    /\ phase = "method"
    /\ Goto("request")

NegotiateMethodFails ==
    /\ phase = "method"
    /\ \E answer \in {reply, "NoAcceptableMethod"} : Close(answer)

RequestConnect == phase = "request" /\ Goto("dial")
RequestAssociate == phase = "request" /\ Goto("bind")
RequestBind == phase = "request" /\ Close("CommandNotSupported")
RequestFails == phase = "request" /\ Close(reply)

(***************************************************************************)
(* HTTP: proxy_handler.  Each request dials on a stream of its own: what   *)
(* an earlier dial brought went with the stream that was dropped.          *)
(***************************************************************************)
NewStream ==
    /\ sent' = [sent EXCEPT !["ba"] = <<>>]
    /\ unread' = [unread EXCEPT !["ba"] = <<>>]
    /\ source' = [source EXCEPT !["ba"] = "open"]
    /\ sink' = [sink EXCEPT !["ab"] = "open"]
    /\ buffer' = <<>>
    /\ UNCHANGED <<copy, buf, written, copied, token, first, got, untaken>>

HttpRequest ==
    /\ phase = "http"
    /\ requests < MaxRequests
    /\ requests' = requests + 1
    /\ method' \in {"CONNECT", "other"}
    /\ dest' = "none"
    /\ err' = "none"
    /\ reply' = "none"
    /\ phase' = "dial"
    /\ NewStream
    /\ UNCHANGED <<kind, assoc>>

\* extract_target_address fails.
HttpBadTarget ==
    /\ phase = "http"
    /\ requests < MaxRequests
    /\ requests' = requests + 1
    /\ reply' = "BadRequest"
    /\ UNCHANGED <<kind, phase, dest, err, method, assoc, copyVars>>

HttpCloses == phase = "http" /\ Close(reply)

(***************************************************************************)
(* TUN: relay_tcp_stream gives up on a cache miss and on an address that   *)
(* should_skip_address rejects.                                            *)
(***************************************************************************)
TunTarget == phase = "target" /\ Goto("dial")
TunSkips == phase = "target" /\ Close(reply)

(***************************************************************************)
(* ClientConnection::open_bidirectional.                                   *)
(***************************************************************************)
\* The server reads the request and connects, or fails to.
ServerConnects ==
    /\ phase = "dial"
    /\ dest = "none"
    /\ \E outcome \in ConnectError \union {"connected"} : dest' = outcome
    /\ UNCHANGED <<kind, phase, err, reply, requests, method, assoc, copyVars>>

\* Mutant: the bytes behind the response are dropped with the framing.
DialOkDropsBuffer ==
    /\ phase = "dial"
    /\ dest = "connected"
    /\ phase' = "dialled"
    /\ \E n \in 0..Len(unread["ba"]) :
        unread' = [unread EXCEPT !["ba"] = SubSeq(@, n + 1, Len(@))]
    /\ UNCHANGED <<kind, dialling, assoc, relay, sent, source, got, untaken, sink>>

\* The Ok response; bytes read with it are left in the framing buffer.
DialOk ==
    /\ phase = "dial"
    /\ dest = "connected"
    /\ phase' = "dialled"
    /\ \E n \in 0..Len(unread["ba"]) :
        /\ buffer' = SubSeq(unread["ba"], 1, n)
        /\ unread' = [unread EXCEPT !["ba"] = SubSeq(@, n + 1, Len(@))]
    /\ UNCHANGED <<kind, dialling, assoc, copy, buf, written, copied, token, first,
                   sent, source, got, untaken, sink>>

DialRefused ==
    /\ phase = "dial"
    /\ dest \in ConnectError
    /\ err' = ConnectErrorKind(dest)
    /\ phase' = "refused"
    /\ UNCHANGED <<kind, dest, reply, requests, method, assoc, copyVars>>

DialFails ==
    /\ phase = "dial"
    /\ \E error \in TunnelError : err' = error
    /\ phase' = "refused"
    /\ UNCHANGED <<kind, dest, reply, requests, method, assoc, copyVars>>

(***************************************************************************)
(* The answer.                                                             *)
(***************************************************************************)
SocksReplyRefused == phase = "refused" /\ kind = "socks" /\ Close(FromConnectError(err))

HttpReplyRefused ==
    /\ phase = "refused"
    /\ kind = "http"
    /\ phase' = "http"
    /\ reply' = "ServiceUnavailable"
    /\ UNCHANGED <<kind, dest, err, requests, method, assoc, copyVars>>

TunRefused == phase = "refused" /\ kind = "tun" /\ Close(reply)

StartRelay ==
    /\ phase' = "relay"
    /\ copy' = [d \in Direction |-> "read"]
    /\ UNCHANGED <<kind, dest, err, requests, method, assoc,
                   buf, written, copied, token, buffer, first, peers>>

SocksReplyOk ==
    /\ phase = "dialled"
    /\ kind = "socks"
    /\ reply' = "Succeeded"
    /\ StartRelay

\* CONNECT: the response goes out first, the spawned task waits for the upgrade.
HttpConnectOk ==
    /\ phase = "dialled"
    /\ kind = "http"
    /\ method = "CONNECT"
    /\ phase' = "upgrade"
    /\ reply' = "Succeeded"
    /\ UNCHANGED <<kind, dest, err, requests, method, assoc, copyVars>>

HttpUpgraded ==
    /\ phase = "upgrade"
    /\ StartRelay
    /\ UNCHANGED reply

\* Another method: one exchange on the upstream, whose stream hyper owns from here.
HttpExchange ==
    /\ phase = "dialled"
    /\ method = "other"
    /\ phase' = "http"
    /\ reply' = "Response"
    /\ UNCHANGED <<kind, dest, err, requests, method, assoc, copyVars>>

TunRelay ==
    /\ phase = "dialled"
    /\ kind = "tun"
    /\ StartRelay
    /\ UNCHANGED reply

\* The application is gone, or the exchange with the upstream fails.
AnswerFails ==
    /\ phase \in {"dialled", "upgrade", "refused"}
    /\ kind # "tun"
    /\ Close(reply)

\* copy_bidirectional returns and the handler with it.
RelayReturns == phase = "relay" /\ CopyReturned /\ Close(reply)

(***************************************************************************)
(* UDP ASSOCIATE: handle_associate and udp_relay_loop.  The biased select  *)
(* looks at the control connection, the session and the relay socket in    *)
(* turn, and starts over after each arm that ran.                          *)
(***************************************************************************)
BindRelay ==
    /\ phase = "bind"
    /\ phase' = "associate"
    /\ reply' = "Succeeded"
    /\ UNCHANGED <<kind, dest, err, requests, method, assoc, copyVars>>

BindFails == phase = "bind" /\ Close(reply)

ControlReady == unread["ab"] # <<>> \/ source["ab"] # "open"

\* Mutant: an error on the control connection is ignored like data.
PollControlIgnoresEnd ==
    /\ phase = "associate"
    /\ poll = "control"
    /\ poll' = "tunnel"
    /\ UNCHANGED <<kind, phase, dialling, client_addr, socket, tunnel, arrived, copyVars>>

\* read_u8: data is ignored, an error or the end closes the association.
PollControl ==
    /\ phase = "associate"
    /\ poll = "control"
    /\ IF unread["ab"] # <<>>
       THEN /\ unread' = [unread EXCEPT !["ab"] = Tail(@)]
            /\ UNCHANGED <<phase, poll>>
       ELSE /\ IF ControlReady THEN phase' = "closed" /\ UNCHANGED poll
                               ELSE poll' = "tunnel" /\ UNCHANGED phase
            /\ UNCHANGED unread
    /\ UNCHANGED <<kind, dialling, client_addr, socket, tunnel, arrived,
                   relay, sent, source, got, untaken, sink>>

\* A packet of the tunnel goes to client_addr, or is dropped while that is None;
\* a failed send_to, or a domain too long for SOCKS, ends the association.
PollTunnel ==
    /\ phase = "associate"
    /\ poll = "tunnel"
    /\ IF tunnel > 0
       THEN /\ tunnel' = tunnel - 1
            /\ poll' = "control"
            /\ phase' \in IF client_addr = NoSender THEN {phase} ELSE {phase, "closed"}
       ELSE poll' = "socket" /\ UNCHANGED <<phase, tunnel>>
    /\ UNCHANGED <<kind, dialling, client_addr, socket, arrived, copyVars>>

\* recv_from of the relay socket fails.
RelaySocketFails ==
    /\ phase = "associate"
    /\ poll = "socket"
    /\ Goto("closed")

\* What UdpPacket::from_buf makes of a datagram.
Form == {"plain", "fragment", "malformed"}

\* A datagram of the socket: the first sender is remembered, whatever it sent;
\* a malformed one ends the association, a fragment is dropped, another is sent.
PollSocket ==
    /\ phase = "associate"
    /\ poll = "socket"
    /\ IF socket # <<>>
       THEN /\ client_addr' = IF client_addr = NoSender THEN Head(socket).from ELSE client_addr
            /\ socket' = Tail(socket)
            /\ poll' = "control"
            /\ phase' = CASE Head(socket).form = "malformed" -> "closed"
                          [] Head(socket).form = "fragment" -> "associate"
                          [] OTHER -> "send"
       ELSE /\ poll' = "control"
            /\ UNCHANGED <<phase, client_addr, socket>>
    /\ UNCHANGED <<kind, dialling, tunnel, arrived, copyVars>>

\* session.send_to is awaited in the arm: nothing else is looked at meanwhile.
SendReturns ==
    /\ phase = "send"
    /\ \E next \in {"associate", "closed"} : Goto(next)

DatagramComes(s) ==
    /\ phase \in {"associate", "send"}
    /\ arrived.socket < MaxDatagrams
    /\ \E form \in Form :
        socket' = Append(socket, [from |-> s, form |-> form])
    /\ arrived' = [arrived EXCEPT !.socket = @ + 1]
    /\ UNCHANGED <<kind, phase, dialling, poll, client_addr, tunnel, copyVars>>

TunnelPacketComes ==
    /\ phase \in {"associate", "send"}
    /\ arrived.tunnel < MaxDatagrams
    /\ tunnel' = tunnel + 1
    /\ arrived' = [arrived EXCEPT !.tunnel = @ + 1]
    /\ UNCHANGED <<kind, phase, dialling, poll, client_addr, socket, copyVars>>

-----------------------------------------------------------------------------
Socks == NegotiateMethod \/ NegotiateMethodFails
         \/ RequestConnect \/ RequestAssociate \/ RequestBind \/ RequestFails
Http == HttpRequest \/ HttpBadTarget \/ HttpCloses
Tun == TunTarget \/ TunSkips
Dial == ServerConnects \/ DialOk \/ DialRefused \/ DialFails
Answer == SocksReplyRefused \/ HttpReplyRefused \/ TunRefused \/ SocksReplyOk \/ HttpConnectOk
          \/ HttpUpgraded \/ HttpExchange \/ TunRelay \/ AnswerFails
Associate == BindRelay \/ BindFails \/ PollControl \/ PollTunnel \/ PollSocket \/ SendReturns

\* The copies run while the handler is in copy_bidirectional.
CopyStep(d) ==
    /\ phase = "relay"
    /\ Copy(d)
    /\ UNCHANGED <<kind, phase, dialling, assoc>>

\* The destination's side exists once the server has connected to it; what it sends
\* in answer to another request than CONNECT goes through hyper, not through the copy.
PeerStep(d) ==
    /\ phase # "closed"
    /\ d = "ba" => dest = "connected" /\ method = "CONNECT"
    /\ Peer(d)
    /\ UNCHANGED <<kind, phase, dialling, assoc>>

Next ==
    \/ Socks \/ Http \/ Tun \/ Dial \/ Answer \/ RelayReturns \/ Associate
    \/ RelaySocketFails \/ TunnelPacketComes
    \/ \E s \in Sender : DatagramComes(s)
    \/ \E d \in Direction : CopyStep(d) \/ PeerStep(d)

Spec == Init /\ [][Next]_vars

(***************************************************************************)
(* Fairness: the handler's task is polled, and both copies of a relay with *)
(* it (join!).  A dial ends by itself only if the server answers, so that  *)
(* is not assumed; a session's send_to does return (ClientConnection).     *)
(***************************************************************************)
FairSpec ==
    /\ Spec
    /\ WF_vars(Answer) /\ WF_vars(RelayReturns) /\ WF_vars(Associate)
    /\ \A d \in Direction : WF_vars(CopyStep(d))

-----------------------------------------------------------------------------
Ended(d) == copy[d] \in {"ok", "error"}

\* A destination's bytes belong to the relay once its stream is handed to it.
Handed == [sent EXCEPT !["ba"] = IF copy["ba"] = "off" THEN <<>> ELSE @]

Relayed == INSTANCE ByteStream WITH
               Stream <- Direction, sent <- Handed, ended <- [d \in Direction |-> Ended(d)]

TypeOK ==
    /\ kind \in Kind
    /\ dest \in ConnectError \union {"none", "connected"}
    /\ copy \in [Direction -> {"off", "read", "write", "ok", "error"}]
    /\ client_addr \in Sender \union {NoSender}
    /\ arrived \in [{"socket", "tunnel"} -> 0..MaxDatagrams]
    /\ token \in BOOLEAN

(* Each direction of a relay implements ByteStream: what one side reads is *)
(* a prefix of what the other side sent, the bytes that came with the      *)
(* server's response first (stream.rs 41-69, mod.rs 208-225), whatever     *)
(* chunks the copies read and wherever a write_all is interrupted; nothing *)
(* is written once the copy has ended.                                     *)
RelayInOrder == Relayed!Spec

(* The direction that ends first by end of file has delivered everything   *)
(* its source sent, and counted it: cancelling the other direction is the  *)
(* only way a relay cuts bytes off (io.rs 32-64, 80-91).  What a direction *)
(* counted is what it delivered, short of the chunk a failed write left    *)
(* (57-61).                                                                *)
FirstToEndIsWhole ==
    \A d \in Direction :
        /\ first = <<"eof", d>> => got[d] = sent[d] /\ copied[d] = Len(sent[d])
        /\ Ended(d) => copied[d] = Len(got[d]) \/ (copy[d] = "error" /\ copied[d] < Len(got[d]))

\* The outcomes of a connect that a SOCKS reply has a code for.
Reflected == {"ConnectionRefused", "NetworkUnreachable", "HostUnreachable"}

\* A SOCKS application was answered with the error the server sent.
ToldError == kind = "socks" /\ err \notin TunnelError \union {"none"} /\ reply # "none"

(* "Connect first so the reply code reflects the real outcome (RFC 1928)": *)
(* an application is told of success, and gets bytes of the destination,   *)
(* only after the server connected.  A refusal, an unreachable network or  *)
(* host and a timeout that the server met and reported come out of the two *)
(* mappings as what they were; and no application is told of one that the  *)
(* server did not meet, not even when the tunnel fails (socks/mod.rs       *)
(* 162-174, socks/protocol.rs 301-310, protocol.rs 213-224,                *)
(* connection/mod.rs 227-240).                                             *)
ReplyReflectsDial ==
    /\ reply = "Succeeded" /\ phase \in {"upgrade", "relay"} => dest = "connected"
    /\ got["ba"] # <<>> => dest = "connected" /\ (reply = "Succeeded" \/ kind = "tun")
    /\ reply \in Reflected => dest = reply
    /\ ToldError => /\ dest \in Reflected => reply = dest
                    /\ dest = "TimedOut" <=> reply = "TtlExpired"

(* Once one direction has ended, for whatever reason, the relay returns    *)
(* and drops both streams, unless the other direction waits in write_all   *)
(* for a peer that takes nothing (io.rs 35-63, 80-91).                     *)
RelayEnds ==
    (first # <<>>) ~>
        \/ phase = "closed"
        \/ \E d \in Direction : copy[d] = "write" /\ sink[d] = "open" /\ untaken[d] = Window

(* "its closure ends the association, as mandated by RFC 1928": datagrams  *)
(* from either side, malformed ones and a send in progress do not keep an  *)
(* association alive once its control connection is closed                 *)
(* (socks/mod.rs 243-299).                                                 *)
AssociationEnds ==
    (phase \in {"associate", "send"} /\ source["ab"] # "open") ~> (phase = "closed")
=============================================================================
