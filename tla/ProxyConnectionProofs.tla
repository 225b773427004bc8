------------------------ MODULE ProxyConnectionProofs ------------------------
(***************************************************************************)
(* A proxied connection, for every bound on its bytes, requests and        *)
(* datagrams: the answers reflect the dial, the direction that ends first  *)
(* by end of file is whole, and each direction of the relay implements     *)
(* ByteStream.                                                             *)
(*                                                                         *)
(* The n-th byte of a direction is the number n, so a stretch of a stream  *)
(* is a run of consecutive numbers, and what is in order is a matter of    *)
(* where each stretch begins: got, the chunk in hand, the leftover of the  *)
(* framing and what is still unread follow each other without a gap and    *)
(* reach at most to the end of sent, exactly to it as long as the source   *)
(* has not broken.  None of the three properties is inductive without      *)
(* that, nor without the place the handler is at, since a relay only runs  *)
(* on a stream that was dialled for it.                                    *)
(***************************************************************************)
EXTENDS ProxyConnection, SequenceTheorems, TLAPS

\* The numbers after n, in order.
Run(s, n) == \A k \in 1..Len(s) : s[k] = n + k

\* Bytes the copy has read from its source, and those left over by the framing.
Consumed(d) == Len(got[d]) - written[d] + Len(buf[d])
Leftover(d) == IF d = "ba" THEN Len(buffer) ELSE 0

Phases == {"method", "request", "http", "target", "dial", "refused", "dialled", "upgrade",
           "relay", "bind", "associate", "send", "closed"}
Association == {"associate", "send"}
BeforeDial == {"method", "request", "target", "dial"}

HandlerTypes ==
    /\ kind \in Kind
    /\ phase \in Phases
    /\ dest \in ConnectError \union {"none", "connected"}
    /\ client_addr \in Sender \union {NoSender}
    /\ socket \in Seq([from : Sender, form : Form])
    /\ arrived \in [{"socket", "tunnel"} -> 0..MaxDatagrams]

CopyTypes ==
    /\ copy \in [Direction -> {"off", "read", "write", "ok", "error"}]
    /\ token \in BOOLEAN
    /\ buffer \in Seq(Nat)
    /\ buf \in [Direction -> Seq(Nat)] /\ sent \in [Direction -> Seq(Nat)]
    /\ unread \in [Direction -> Seq(Nat)] /\ got \in [Direction -> Seq(Nat)]
    /\ written \in [Direction -> Nat] /\ copied \in [Direction -> Nat]
    /\ source \in [Direction -> {"open", "eof", "reset", "failed"}]

\* What the handler knows of the dial at each of its stages.
DialKnown ==
    /\ phase \in {"dialled", "upgrade", "relay"} => dest = "connected"
    /\ phase = "upgrade" => reply = "Succeeded"
    /\ phase = "relay" => reply = "Succeeded" \/ kind = "tun"
    /\ phase \in BeforeDial => err = "none"
    /\ err \in Reflected => dest = err
    /\ reply \in Reflected => phase = "closed" /\ dest = reply

\* What a failed dial leaves behind: the error is what the server's became on the
\* way, and a SOCKS connection is answered once, with what from_connect_error
\* makes of it.
AnswerKnown ==
    /\ kind # "http" => phase # "http" /\ method = "CONNECT"
    /\ phase \in BeforeDial => err = "none"
    /\ err \notin TunnelError \union {"none"} =>
          dest \in ConnectError /\ err = ConnectErrorKind(dest)
    /\ kind = "socks" =>
          /\ phase \notin {"target", "upgrade"}
          /\ phase \in {"method", "request", "dial", "refused", "dialled", "bind"} => reply = "none"
          /\ phase \notin {"refused", "closed"} => err = "none"
          /\ err # "none" /\ reply # "none" => reply = FromConnectError(err)

\* No copy runs, and none has ended, before the streams are handed over.
RelayOnly ==
    phase \notin {"relay", "closed"} =>
        first = <<>> /\ \A d \in Direction : copy[d] = "off"

\* The framing leaves bytes over only when a dial succeeds.
NoLeftover == phase \in BeforeDial \union {"refused"} => buffer = <<>>

\* The chunk in hand, and the count of what was written of it.
ChunkInHand ==
    \A d \in Direction :
        /\ written[d] <= Len(buf[d]) /\ written[d] <= Len(got[d])
        /\ copy[d] = "write" => written[d] < Len(buf[d])
        /\ copy[d] \in {"off", "read", "ok"} => buf[d] = <<>>
        /\ copy[d] = "off" => got[d] = <<>>
        /\ copied[d] = Len(got[d]) - written[d]

\* Only a relay that was answered brings bytes of the destination.
BytesAnswered ==
    got["ba"] # <<>> => /\ phase \in {"relay", "closed"}
                        /\ dest = "connected"
                        /\ reply = "Succeeded" \/ kind = "tun"

\* The stretches follow each other; the application's unread bytes are an
\* exception while an association drops what comes on its control connection.
Stretch(d) ==
    /\ Run(sent[d], 0)
    /\ Run(got[d], 0)
    /\ Run(buf[d], Len(got[d]) - written[d])
    /\ Consumed(d) + Leftover(d) + Len(unread[d]) <= Len(sent[d])
    /\ phase \notin Association \union {"closed"} =>
          /\ d = "ba" => Run(buffer, Consumed(d))
          /\ Run(unread[d], Consumed(d) + Leftover(d))
          /\ source[d] \in {"open", "eof"} =>
                Consumed(d) + Leftover(d) + Len(unread[d]) = Len(sent[d])

Stretches == \A d \in Direction : Stretch(d)

\* Who ended first by end of file had read, and written, all there was.
FirstWhole ==
    \A d \in Direction :
        first = <<"eof", d>> => /\ copy[d] = "ok" /\ source[d] = "eof"
                               /\ Len(got[d]) = Len(sent[d])

IInv ==
    /\ HandlerTypes
    /\ CopyTypes
    /\ DialKnown
    /\ RelayOnly
    /\ NoLeftover
    /\ ChunkInHand
    /\ BytesAnswered
    /\ Stretches
    /\ FirstWhole

-----------------------------------------------------------------------------
(* Appending the next number prolongs a run.                               *)
LEMMA RunAppend ==
    ASSUME NEW s \in Seq(Nat), NEW n \in Nat, Run(s, n)
    PROVE  /\ Append(s, n + Len(s) + 1) \in Seq(Nat)
           /\ Len(Append(s, n + Len(s) + 1)) = Len(s) + 1
           /\ Run(Append(s, n + Len(s) + 1), n)
  BY DEF Run

(* The front of a run is a run: what a read takes.                         *)
LEMMA RunFront ==
    ASSUME NEW s \in Seq(Nat), NEW n \in Nat, Run(s, n), NEW m \in 0..Len(s)
    PROVE  /\ SubSeq(s, 1, m) \in Seq(Nat)
           /\ Len(SubSeq(s, 1, m)) = m
           /\ Run(SubSeq(s, 1, m), n)
  BY DEF Run

(* The rest of a run goes on where the front ended: what a read leaves.    *)
LEMMA RunBack ==
    ASSUME NEW s \in Seq(Nat), NEW n \in Nat, Run(s, n), NEW m \in 0..Len(s)
    PROVE  /\ SubSeq(s, m + 1, Len(s)) \in Seq(Nat)
           /\ Len(SubSeq(s, m + 1, Len(s))) = Len(s) - m
           /\ Run(SubSeq(s, m + 1, Len(s)), n + m)
  BY DEF Run

(* Two runs from the start that have the same length are the same bytes.   *)
LEMMA RunsEqual ==
    ASSUME NEW s \in Seq(Nat), NEW t \in Seq(Nat), Run(s, 0), Run(t, 0), Len(s) = Len(t)
    PROVE  s = t
  BY DEF Run

(* Of two runs from the start the shorter is a prefix of the longer.       *)
LEMMA RunsPrefix ==
    ASSUME NEW s \in Seq(Nat), NEW t \in Seq(Nat), Run(s, 0), Run(t, 0), Len(s) <= Len(t)
    PROVE  Relayed!IsPrefix(s, t)
  <1>1. SubSeq(s, 1, Len(s)) = SubSeq(t, 1, Len(s))
    BY DEF Run
  <1> QED
    BY <1>1 DEF Relayed!IsPrefix

(* The empty sequence is a run from anywhere.                              *)
LEMMA RunEmpty ==
    ASSUME NEW n \in Nat
    PROVE  <<>> \in Seq(Nat) /\ Len(<<>>) = 0 /\ Run(<<>>, n)
  BY DEF Run

-----------------------------------------------------------------------------
(* The initial state satisfies the inductive invariant.                    *)
LEMMA InitIInv == Init => IInv
  <1> SUFFICES ASSUME Init PROVE IInv
    OBVIOUS
  <1> USE ProxyAssumption, CopyAssumption DEF Init, InitCopy
  <1>1. phase \in {"method", "http", "target"}
    OBVIOUS
  <1>2. HandlerTypes
    BY <1>1 DEF HandlerTypes, Phases
  <1>3. CopyTypes
    <2>1. token \in BOOLEAN
      OBVIOUS
    <2> QED
      BY <2>1 DEF CopyTypes
  <1>4. DialKnown /\ RelayOnly /\ NoLeftover /\ BytesAnswered
    BY <1>1 DEF DialKnown, RelayOnly, NoLeftover, BytesAnswered, BeforeDial, Reflected, Direction
  <1>5. ChunkInHand
    BY RunEmpty DEF ChunkInHand
  <1>6. Stretches
    BY RunEmpty DEF Stretches, Stretch, Consumed, Leftover, Direction
  <1>7. FirstWhole
    BY DEF FirstWhole
  <1> QED
    BY <1>2, <1>3, <1>4, <1>5, <1>6, <1>7 DEF IInv

(* A direction whose bytes a step leaves where they are stays in order.    *)
LEMMA StretchKept ==
    ASSUME NEW d \in Direction, Stretch(d),
           sent'[d] = sent[d], got'[d] = got[d], buf'[d] = buf[d], written'[d] = written[d],
           unread'[d] = unread[d], source'[d] = source[d], d = "ba" => buffer' = buffer,
           phase \in Association \union {"closed"} => phase' \in Association \union {"closed"}
    PROVE  Stretch(d)'
  BY DEF Stretch, Consumed, Leftover, Run

(* A step of the handler that leaves the streams alone keeps what is known *)
(* of them, as long as it neither re-enters an earlier stage of the dial   *)
(* nor leaves an association or a closed connection.                       *)
LEMMA StreamsUntouched ==
    ASSUME IInv, UNCHANGED copyVars,
           phase \in Association \union {"closed"} => phase' \in Association \union {"closed"},
           phase' \in BeforeDial \union {"refused"} => phase \in BeforeDial \union {"refused"},
           phase' \notin {"relay", "closed"} => phase \notin {"relay", "closed"}
    PROVE  CopyTypes' /\ RelayOnly' /\ NoLeftover' /\ ChunkInHand' /\ Stretches' /\ FirstWhole'
  <1> USE DEF IInv, copyVars, relay, peers
  <1>1. CopyTypes'
    BY DEF CopyTypes
  <1>2. RelayOnly' /\ NoLeftover'
    BY DEF RelayOnly, NoLeftover
  <1>3. ChunkInHand' /\ FirstWhole'
    BY DEF ChunkInHand, FirstWhole
  <1>4. Stretches'
    BY DEF Stretches, Stretch, Consumed, Leftover, Run
  <1> QED
    BY <1>1, <1>2, <1>3, <1>4

(* The handler's own steps: the negotiation, the dial's outcome, the       *)
(* answer and the end of the relay.                                        *)
LEMMA HandlerIInv ==
    ASSUME IInv,
           \/ Socks \/ HttpBadTarget \/ HttpCloses \/ Tun \/ ServerConnects
           \/ DialRefused \/ DialFails \/ SocksReplyRefused \/ HttpReplyRefused
           \/ TunRefused \/ HttpConnectOk \/ HttpExchange \/ AnswerFails
           \/ RelayReturns \/ BindRelay \/ BindFails
    PROVE  IInv'
  <1> USE DEF Close, Goto, dialling, assoc, HandlerTypes, DialKnown, BytesAnswered,
              Phases, Association, BeforeDial, Reflected
  <1>0. HandlerTypes /\ DialKnown /\ BytesAnswered
    BY DEF IInv
  <1>1. CASE Socks
    <2>1. HandlerTypes' /\ DialKnown' /\ BytesAnswered'
      BY <1>0, <1>1
         DEF Socks, NegotiateMethod, NegotiateMethodFails, RequestConnect, RequestAssociate,
             RequestBind, RequestFails, copyVars, relay, peers
    <2>2. /\ CopyTypes' /\ RelayOnly' /\ NoLeftover'
          /\ ChunkInHand' /\ Stretches' /\ FirstWhole'
      BY <1>1, StreamsUntouched
         DEF Socks, NegotiateMethod, NegotiateMethodFails, RequestConnect, RequestAssociate,
             RequestBind, RequestFails
    <2> QED
      BY <2>1, <2>2 DEF IInv
  <1>2. CASE HttpBadTarget \/ HttpCloses \/ Tun
    <2>1. HandlerTypes' /\ DialKnown' /\ BytesAnswered'
      BY <1>0, <1>2 DEF HttpBadTarget, HttpCloses, Tun, TunTarget, TunSkips, copyVars, relay, peers
    <2>2. /\ CopyTypes' /\ RelayOnly' /\ NoLeftover'
          /\ ChunkInHand' /\ Stretches' /\ FirstWhole'
      BY <1>2, StreamsUntouched DEF HttpBadTarget, HttpCloses, Tun, TunTarget, TunSkips
    <2> QED
      BY <2>1, <2>2 DEF IInv
  <1>3. CASE ServerConnects
    <2>1. HandlerTypes' /\ DialKnown' /\ BytesAnswered'
      BY <1>0, <1>3 DEF ServerConnects, copyVars, relay, peers
    <2>2. /\ CopyTypes' /\ RelayOnly' /\ NoLeftover'
          /\ ChunkInHand' /\ Stretches' /\ FirstWhole'
      BY <1>3, StreamsUntouched DEF ServerConnects
    <2> QED
      BY <2>1, <2>2 DEF IInv
  <1>4. CASE DialRefused \/ DialFails
    <2>1. HandlerTypes' /\ DialKnown' /\ BytesAnswered'
      BY <1>0, <1>4
         DEF DialRefused, DialFails, ConnectErrorKind, ConnectError, TunnelError,
             copyVars, relay, peers
    <2>2. /\ CopyTypes' /\ RelayOnly' /\ NoLeftover'
          /\ ChunkInHand' /\ Stretches' /\ FirstWhole'
      BY <1>4, StreamsUntouched DEF DialRefused, DialFails
    <2> QED
      BY <2>1, <2>2 DEF IInv
  <1>5. CASE SocksReplyRefused
    <2>1. HandlerTypes' /\ DialKnown' /\ BytesAnswered'
      BY <1>0, <1>5 DEF SocksReplyRefused, FromConnectError, copyVars, relay, peers
    <2>2. /\ CopyTypes' /\ RelayOnly' /\ NoLeftover'
          /\ ChunkInHand' /\ Stretches' /\ FirstWhole'
      BY <1>5, StreamsUntouched DEF SocksReplyRefused
    <2> QED
      BY <2>1, <2>2 DEF IInv
  <1>6. CASE HttpReplyRefused \/ TunRefused
    <2>1. HandlerTypes' /\ DialKnown' /\ BytesAnswered'
      BY <1>0, <1>6 DEF HttpReplyRefused, TunRefused, copyVars, relay, peers
    <2>2. /\ CopyTypes' /\ RelayOnly' /\ NoLeftover'
          /\ ChunkInHand' /\ Stretches' /\ FirstWhole'
      BY <1>6, StreamsUntouched DEF HttpReplyRefused, TunRefused
    <2> QED
      BY <2>1, <2>2 DEF IInv
  <1>7. CASE HttpConnectOk \/ HttpExchange \/ AnswerFails
    <2>1. HandlerTypes' /\ DialKnown' /\ BytesAnswered'
      BY <1>0, <1>7 DEF HttpConnectOk, HttpExchange, AnswerFails, copyVars, relay, peers
    <2>2. /\ CopyTypes' /\ RelayOnly' /\ NoLeftover'
          /\ ChunkInHand' /\ Stretches' /\ FirstWhole'
      BY <1>7, StreamsUntouched DEF HttpConnectOk, HttpExchange, AnswerFails
    <2> QED
      BY <2>1, <2>2 DEF IInv
  <1>8. CASE RelayReturns
    <2>1. HandlerTypes' /\ DialKnown' /\ BytesAnswered'
      BY <1>0, <1>8 DEF RelayReturns, copyVars, relay, peers
    <2>2. /\ CopyTypes' /\ RelayOnly' /\ NoLeftover'
          /\ ChunkInHand' /\ Stretches' /\ FirstWhole'
      BY <1>8, StreamsUntouched DEF RelayReturns
    <2> QED
      BY <2>1, <2>2 DEF IInv
  <1>9. CASE BindRelay \/ BindFails
    <2>1. HandlerTypes' /\ DialKnown' /\ BytesAnswered'
      BY <1>0, <1>9 DEF BindRelay, BindFails, copyVars, relay, peers
    <2>2. /\ CopyTypes' /\ RelayOnly' /\ NoLeftover'
          /\ ChunkInHand' /\ Stretches' /\ FirstWhole'
      BY <1>9, StreamsUntouched DEF BindRelay, BindFails
    <2> QED
      BY <2>1, <2>2 DEF IInv
  <1> QED
    BY <1>1, <1>2, <1>3, <1>4, <1>5, <1>6, <1>7, <1>8, <1>9

(* The association's select and the datagrams that wake it.                *)
LEMMA AssociationIInv ==
    ASSUME IInv,
           \/ PollTunnel \/ PollSocket \/ SendReturns \/ RelaySocketFails
           \/ TunnelPacketComes \/ (\E s \in Sender : DatagramComes(s))
    PROVE  IInv'
  <1> USE ProxyAssumption
      DEF Goto, dialling, assoc, HandlerTypes, DialKnown, BytesAnswered, Phases,
          Association, BeforeDial, Reflected
  <1>0. HandlerTypes /\ DialKnown /\ BytesAnswered
    BY DEF IInv
  <1>1. CASE PollTunnel
    <2>1. HandlerTypes' /\ DialKnown' /\ BytesAnswered'
      BY <1>0, <1>1 DEF PollTunnel, copyVars, relay, peers
    <2>2. /\ CopyTypes' /\ RelayOnly' /\ NoLeftover'
          /\ ChunkInHand' /\ Stretches' /\ FirstWhole'
      BY <1>1, StreamsUntouched DEF PollTunnel
    <2> QED
      BY <2>1, <2>2 DEF IInv
  <1>2. CASE PollSocket
    <2>1. socket # <<>> => /\ Head(socket) \in [from : Sender, form : Form]
                           /\ Tail(socket) \in Seq([from : Sender, form : Form])
      BY <1>0, HeadTailProperties
    <2>2. /\ socket' \in Seq([from : Sender, form : Form])
          /\ client_addr' \in Sender \union {NoSender}
      BY <1>0, <1>2, <2>1 DEF PollSocket
    <2>3. HandlerTypes' /\ DialKnown' /\ BytesAnswered'
      BY <1>0, <1>2, <2>1, <2>2 DEF PollSocket, copyVars, relay, peers
    <2>4. /\ CopyTypes' /\ RelayOnly' /\ NoLeftover'
          /\ ChunkInHand' /\ Stretches' /\ FirstWhole'
      BY <1>2, StreamsUntouched DEF PollSocket
    <2> QED
      BY <2>3, <2>4 DEF IInv
  <1>3. CASE SendReturns \/ RelaySocketFails
    <2>1. HandlerTypes' /\ DialKnown' /\ BytesAnswered'
      BY <1>0, <1>3 DEF SendReturns, RelaySocketFails, copyVars, relay, peers
    <2>2. /\ CopyTypes' /\ RelayOnly' /\ NoLeftover'
          /\ ChunkInHand' /\ Stretches' /\ FirstWhole'
      BY <1>3, StreamsUntouched DEF SendReturns, RelaySocketFails
    <2> QED
      BY <2>1, <2>2 DEF IInv
  <1>4. CASE TunnelPacketComes
    <2>1. HandlerTypes' /\ DialKnown' /\ BytesAnswered'
      BY <1>0, <1>4 DEF TunnelPacketComes, copyVars, relay, peers
    <2>2. /\ CopyTypes' /\ RelayOnly' /\ NoLeftover'
          /\ ChunkInHand' /\ Stretches' /\ FirstWhole'
      BY <1>4, StreamsUntouched DEF TunnelPacketComes
    <2> QED
      BY <2>1, <2>2 DEF IInv
  <1>5. ASSUME NEW s \in Sender, DatagramComes(s)
        PROVE  IInv'
    <2>1. socket' \in Seq([from : Sender, form : Form])
      BY <1>0, <1>5 DEF DatagramComes
    <2>2. HandlerTypes' /\ DialKnown' /\ BytesAnswered'
      BY <1>0, <1>5, <2>1 DEF DatagramComes, copyVars, relay, peers
    <2>3. /\ CopyTypes' /\ RelayOnly' /\ NoLeftover'
          /\ ChunkInHand' /\ Stretches' /\ FirstWhole'
      BY <1>5, StreamsUntouched DEF DatagramComes
    <2> QED
      BY <2>2, <2>3 DEF IInv
  <1> QED
    BY <1>1, <1>2, <1>3, <1>4, <1>5

(* A new request gives up the stream of the last dial for a fresh one.     *)
LEMMA HttpRequestIInv ==
    ASSUME IInv, HttpRequest
    PROVE  IInv'
  <1> USE DEF IInv, HttpRequest, NewStream
  <1>1. phase = "http" /\ (\A d \in Direction : copy[d] = "off") /\ first = <<>>
    BY DEF RelayOnly
  <1>2. HandlerTypes'
    BY DEF HandlerTypes, Phases, assoc
  <1>3. CopyTypes'
    BY RunEmpty DEF CopyTypes, Direction
  <1>4. DialKnown' /\ BytesAnswered' /\ NoLeftover'
    BY <1>1 DEF DialKnown, BytesAnswered, NoLeftover, BeforeDial, Reflected, ChunkInHand,
                Direction
  <1>5. RelayOnly' /\ FirstWhole'
    BY <1>1 DEF RelayOnly, FirstWhole
  <1>6. ChunkInHand'
    BY DEF ChunkInHand
  <1>7. Stretches'
    <2>1. \A d \in Direction : got[d] = <<>> /\ buf[d] = <<>> /\ written[d] = 0
      BY <1>1, RunEmpty DEF ChunkInHand, CopyTypes
    <2>2. Stretch("ab")'
      BY <1>1, StretchKept DEF Stretches, CopyTypes, Direction, Association
    <2>3. Stretch("ba")'
      <3>1. /\ sent'["ba"] = <<>> /\ unread'["ba"] = <<>> /\ buffer' = <<>>
            /\ got'["ba"] = <<>> /\ buf'["ba"] = <<>> /\ written'["ba"] = 0
        BY <2>1 DEF CopyTypes, Direction
      <3>2. Consumed("ba")' = 0 /\ Leftover("ba")' = 0
        BY <3>1, RunEmpty DEF Consumed, Leftover
      <3> QED
        BY <3>1, <3>2, RunEmpty DEF Stretch
    <2> QED
      BY <2>2, <2>3 DEF Stretches, Direction
  <1> QED
    BY <1>2, <1>3, <1>4, <1>5, <1>6, <1>7

(* The Ok response splits what came from the destination between the       *)
(* framing's leftover and the stream.                                      *)
LEMMA DialOkIInv ==
    ASSUME IInv, DialOk
    PROVE  IInv'
  <1> USE DEF IInv
  <1>1. /\ phase = "dial" /\ phase' = "dialled" /\ dest' = "connected" /\ buffer = <<>>
        /\ \A d \in Direction : copy[d] = "off" /\ got[d] = <<>>
        /\ \A d \in Direction : buf[d] = <<>> /\ written[d] = 0
    BY RunEmpty DEF DialOk, dialling, NoLeftover, BeforeDial, RelayOnly, ChunkInHand, CopyTypes
  <1>2. PICK n \in 0..Len(unread["ba"]) :
            /\ buffer' = SubSeq(unread["ba"], 1, n)
            /\ unread' = [unread EXCEPT !["ba"] = SubSeq(unread["ba"], n + 1, Len(unread["ba"]))]
    BY DEF DialOk
  <1>3. unread["ba"] \in Seq(Nat) /\ Run(unread["ba"], 0)
    BY <1>1, RunEmpty DEF CopyTypes, Stretches, Stretch, Consumed, Leftover, Association, Direction
  <1>4. /\ buffer' \in Seq(Nat) /\ Len(buffer') = n /\ Run(buffer', 0)
        /\ unread'["ba"] \in Seq(Nat) /\ Len(unread'["ba"]) = Len(unread["ba"]) - n
        /\ Run(unread'["ba"], n)
    <2>1. unread'["ba"] = SubSeq(unread["ba"], n + 1, Len(unread["ba"]))
      BY <1>2 DEF CopyTypes, Direction
    <2>2. buffer' \in Seq(Nat) /\ Len(buffer') = n /\ Run(buffer', 0)
      <3> HIDE DEF IInv
      <3> QED
        BY <1>2, <1>3, RunFront
    <2>3. /\ unread'["ba"] \in Seq(Nat) /\ Len(unread'["ba"]) = Len(unread["ba"]) - n
          /\ Run(unread'["ba"], 0 + n)
      <3> HIDE DEF IInv
      <3> QED
        BY <1>3, <2>1, RunBack
    <2>4. 0 + n = n
      OBVIOUS
    <2> QED
      BY <2>2, <2>3, <2>4
  <1>5. HandlerTypes'
    BY DEF DialOk, dialling, assoc, HandlerTypes, Phases
  <1>6. CopyTypes'
    <2>1. unread' \in [Direction -> Seq(Nat)]
      BY <1>2, <1>4 DEF CopyTypes, Direction
    <2>2. token' \in BOOLEAN
      BY DEF DialOk, CopyTypes
    <2> QED
      BY <1>4, <2>1, <2>2 DEF DialOk, CopyTypes
  <1>7. DialKnown' /\ BytesAnswered' /\ NoLeftover'
    BY <1>1 DEF DialOk, dialling, DialKnown, BytesAnswered, NoLeftover, BeforeDial, Reflected,
                Direction
  <1>8. RelayOnly' /\ FirstWhole' /\ ChunkInHand'
    BY <1>1 DEF DialOk, RelayOnly, FirstWhole, ChunkInHand
  <1>9. Stretches'
    <2>1. Stretch("ab")'
      BY <1>1, <1>2, StretchKept DEF DialOk, Stretches, CopyTypes, Direction, Association
    <2>2. Stretch("ba")'
      <3>1. /\ Run(sent["ba"], 0) /\ Len(unread["ba"]) <= Len(sent["ba"])
            /\ source["ba"] \in {"open", "eof"} => Len(unread["ba"]) = Len(sent["ba"])
        <4>1. Stretch("ba") /\ Consumed("ba") = 0 /\ Leftover("ba") = 0
          BY <1>1, RunEmpty DEF Stretches, Consumed, Leftover, Direction
        <4>2. Len(unread["ba"]) \in Nat /\ Len(sent["ba"]) \in Nat
          BY DEF CopyTypes, Direction
        <4> QED
          BY <1>1, <4>1, <4>2 DEF Stretch, Association
      <3>2. /\ sent'["ba"] = sent["ba"] /\ source'["ba"] = source["ba"]
            /\ got'["ba"] = <<>> /\ buf'["ba"] = <<>> /\ written'["ba"] = 0
        BY <1>1 DEF DialOk, Direction
      <3>3. Consumed("ba")' = 0 /\ Leftover("ba")' = n
        BY <1>4, <3>2, RunEmpty DEF Consumed, Leftover
      <3>4. Len(unread["ba"]) \in Nat /\ n \in Nat /\ Len(sent["ba"]) \in Nat
        BY <1>3 DEF CopyTypes, Direction
      <3> QED
        BY <1>4, <3>1, <3>2, <3>3, <3>4, RunEmpty DEF Stretch
    <2> QED
      BY <2>1, <2>2 DEF Stretches, Direction
  <1> QED
    BY <1>5, <1>6, <1>7, <1>8, <1>9

(* The handler hands both streams to the relay.                            *)
LEMMA StartRelayIInv ==
    ASSUME IInv, SocksReplyOk \/ HttpUpgraded \/ TunRelay
    PROVE  IInv'
  <1> USE DEF IInv, SocksReplyOk, HttpUpgraded, TunRelay, StartRelay
  <1>1. /\ phase \in {"dialled", "upgrade"} /\ phase' = "relay" /\ dest = "connected"
        /\ (reply' = "Succeeded" \/ kind = "tun") /\ first = <<>>
        /\ \A d \in Direction : copy[d] = "off"
    BY DEF DialKnown, RelayOnly
  <1>2. HandlerTypes'
    BY DEF HandlerTypes, Phases, assoc
  <1>3. CopyTypes'
    <2>1. token' \in BOOLEAN
      BY DEF CopyTypes
    <2> QED
      BY <2>1 DEF CopyTypes, peers
  <1>4. DialKnown'
    BY <1>1 DEF DialKnown, BeforeDial, Reflected
  <1>5. BytesAnswered' /\ NoLeftover' /\ RelayOnly'
    BY <1>1 DEF BytesAnswered, NoLeftover, RelayOnly, BeforeDial, peers
  <1>6. ChunkInHand'
    BY <1>1, RunEmpty DEF ChunkInHand, CopyTypes, peers
  <1>7. FirstWhole'
    BY <1>1 DEF FirstWhole
  <1>8. Stretches'
    BY <1>1, StretchKept DEF Stretches, Association, peers
  <1> QED
    BY <1>2, <1>3, <1>4, <1>5, <1>6, <1>7, <1>8

(* The association drops a byte of its control connection, or ends.        *)
LEMMA PollControlIInv ==
    ASSUME IInv, PollControl
    PROVE  IInv'
  <1>1. CASE unread["ab"] = <<>>
    <2>1. HandlerTypes /\ DialKnown /\ BytesAnswered
      BY DEF IInv
    <2>2. HandlerTypes' /\ DialKnown' /\ BytesAnswered'
      BY <1>1, <2>1
         DEF PollControl, dialling, HandlerTypes, DialKnown, BytesAnswered, Phases,
             BeforeDial, Reflected
    <2>3. UNCHANGED copyVars
      BY <1>1 DEF PollControl, copyVars, peers
    <2>4. /\ CopyTypes' /\ RelayOnly' /\ NoLeftover'
          /\ ChunkInHand' /\ Stretches' /\ FirstWhole'
      BY <1>1, <2>3, StreamsUntouched DEF PollControl, Association, BeforeDial
    <2> QED
      BY <2>2, <2>4 DEF IInv
  <1>2. CASE unread["ab"] # <<>>
    <2> USE DEF IInv
    <2>1. /\ phase = "associate"
          /\ UNCHANGED <<kind, phase, dialling, client_addr, socket, arrived>>
          /\ UNCHANGED <<relay, sent, source, got>>
          /\ unread' = [unread EXCEPT !["ab"] = Tail(unread["ab"])]
      BY <1>2 DEF PollControl
    <2>2. Tail(unread["ab"]) \in Seq(Nat) /\ Len(Tail(unread["ab"])) = Len(unread["ab"]) - 1
      BY <1>2, HeadTailProperties DEF CopyTypes, Direction
    <2>3. HandlerTypes'
      BY <2>1 DEF HandlerTypes, dialling
    <2>4. CopyTypes'
      <3>1. token' \in BOOLEAN
        BY <2>1 DEF CopyTypes, relay
      <3>2. unread' \in [Direction -> Seq(Nat)]
        BY <2>1, <2>2 DEF CopyTypes
      <3> QED
        BY <2>1, <3>1, <3>2 DEF CopyTypes, relay
    <2>5. DialKnown' /\ BytesAnswered' /\ NoLeftover' /\ RelayOnly'
      BY <2>1 DEF DialKnown, BytesAnswered, NoLeftover, RelayOnly, dialling, relay
    <2>6. ChunkInHand' /\ FirstWhole'
      BY <2>1 DEF ChunkInHand, FirstWhole, relay
    <2>7. Stretches'
      <3>1. Stretch("ba")'
        BY <2>1, StretchKept DEF Stretches, CopyTypes, Direction, relay
      <3>2. Stretch("ab")'
        <4>1. Stretch("ab") /\ Len(unread["ab"]) \in Nat /\ Len(sent["ab"]) \in Nat
          BY DEF Stretches, CopyTypes, Direction
        <4>2. Len(unread["ab"]') = Len(unread["ab"]) - 1
          BY <2>1, <2>2 DEF CopyTypes, Direction
        <4>3. Consumed("ab") \in Int /\ Consumed("ab")' = Consumed("ab")
          BY <2>1 DEF Consumed, CopyTypes, Direction, relay
        <4> QED
          BY <2>1, <4>1, <4>2, <4>3 DEF Stretch, Leftover, Association, relay, Run
      <3> QED
        BY <3>1, <3>2 DEF Stretches, Direction
    <2> QED
      BY <2>3, <2>4, <2>5, <2>6, <2>7
  <1> QED
    BY <1>1, <1>2

(* The counts the stretches are measured with are numbers.                 *)
LEMMA Counts ==
    ASSUME IInv, NEW d \in Direction
    PROVE  /\ Consumed(d) \in Nat /\ Leftover(d) \in Nat /\ written[d] \in Nat
           /\ Len(got[d]) \in Nat /\ Len(buf[d]) \in Nat
           /\ Len(unread[d]) \in Nat /\ Len(sent[d]) \in Nat
  BY DEF IInv, CopyTypes, ChunkInHand, Consumed, Leftover

(* A step of the relay or of a peer does not move the handler: what is     *)
(* known of the dial stays known.                                          *)
LEMMA HandlerStays ==
    ASSUME IInv, UNCHANGED <<kind, phase, dialling, assoc>>
    PROVE  /\ HandlerTypes' /\ DialKnown'
           /\ (phase = "relay" \/ UNCHANGED got) => BytesAnswered'
           /\ (phase = "relay" \/ UNCHANGED buffer) => NoLeftover'
           /\ (phase = "relay" \/ UNCHANGED <<first, copy>>) => RelayOnly'
  <1> USE DEF IInv, dialling, assoc
  <1>1. HandlerTypes'
    BY DEF HandlerTypes
  <1>2. DialKnown'
    BY DEF DialKnown
  <1>3. (phase = "relay" \/ UNCHANGED got) => BytesAnswered'
    BY DEF BytesAnswered, DialKnown
  <1>4. (phase = "relay" \/ UNCHANGED buffer) => NoLeftover'
    BY DEF NoLeftover, BeforeDial
  <1>5. (phase = "relay" \/ UNCHANGED <<first, copy>>) => RelayOnly'
    BY DEF RelayOnly
  <1> QED
    BY <1>1, <1>2, <1>3, <1>4, <1>5

(* A peer sends a byte: the unread stretch and sent grow by the same one.  *)
LEMMA PeerSendsIInv ==
    ASSUME IInv, NEW d \in Direction, PeerSends(d), UNCHANGED <<kind, phase, dialling, assoc>>
    PROVE  IInv'
  <1> DEFINE n == Len(sent[d])
  <1>1. /\ UNCHANGED <<relay, source, got>> /\ source[d] = "open"
        /\ sent' = [sent EXCEPT ![d] = Append(sent[d], n + 1)]
        /\ unread' = [unread EXCEPT ![d] = Append(unread[d], n + 1)]
    BY DEF PeerSends
  <1>2. CopyTypes /\ ChunkInHand /\ FirstWhole /\ Stretches
    BY DEF IInv
  <1>3. /\ sent[d] \in Seq(Nat) /\ unread[d] \in Seq(Nat) /\ n \in Nat
        /\ sent'[d] = Append(sent[d], n + 1) /\ unread'[d] = Append(unread[d], n + 1)
    BY <1>1, <1>2 DEF CopyTypes
  <1>4. /\ sent'[d] \in Seq(Nat) /\ Len(sent'[d]) = n + 1 /\ Run(sent'[d], 0)
        /\ unread'[d] \in Seq(Nat) /\ Len(unread'[d]) = Len(unread[d]) + 1
    BY <1>2, <1>3, RunAppend DEF Stretches, Stretch
  <1>5. CopyTypes'
    <2>1. token' \in BOOLEAN
      BY <1>1, <1>2 DEF CopyTypes, relay
    <2>2. sent' \in [Direction -> Seq(Nat)] /\ unread' \in [Direction -> Seq(Nat)]
      BY <1>1, <1>2, <1>4, <1>3 DEF CopyTypes
    <2> QED
      BY <1>1, <1>2, <2>1, <2>2 DEF CopyTypes, relay
  <1>6. ChunkInHand'
    BY <1>1, <1>2 DEF ChunkInHand, relay
  <1>7. FirstWhole'
    BY <1>1, <1>2 DEF FirstWhole, CopyTypes, relay
  <1>8. Stretches'
    <2>1. ASSUME NEW e \in Direction, e # d
          PROVE  Stretch(e)'
      BY <1>1, <1>2, <2>1, StretchKept DEF Stretches, CopyTypes, relay
    <2>2. Stretch(d)'
      <3>1. Consumed(d)' = Consumed(d) /\ Leftover(d)' = Leftover(d)
        BY <1>1 DEF Consumed, Leftover, relay
      <3>2. CASE phase \in Association \union {"closed"}
        <4>1. Stretch(d) /\ phase' = phase /\ UNCHANGED <<got, buf, written>>
          BY <1>1, <1>2 DEF Stretches, relay
        <4>2. Consumed(d)' + Leftover(d)' + Len(unread'[d]) <= Len(sent'[d])
          BY <1>4, <3>1, <4>1, Counts DEF Stretch
        <4> QED
          BY <1>4, <3>2, <4>1, <4>2 DEF Stretch
      <3>3. CASE phase \notin Association \union {"closed"}
        <4>1. /\ n = Consumed(d) + Leftover(d) + Len(unread[d])
              /\ Run(unread[d], Consumed(d) + Leftover(d))
          BY <1>1, <1>2, <3>3 DEF Stretches, Stretch
        <4>2. Run(unread'[d], Consumed(d) + Leftover(d))
          BY <1>3, <4>1, Counts, RunAppend
        <4>3. d = "ba" => Run(buffer', Consumed(d)')
          BY <1>1, <1>2, <3>1, <3>3 DEF Stretches, Stretch, relay
        <4> QED
          BY <1>1, <1>2, <1>4, <3>1, <4>1, <4>2, <4>3, Counts DEF Stretches, Stretch, relay
      <3> QED
        BY <3>2, <3>3
    <2> QED
      BY <2>1, <2>2 DEF Stretches
  <1> QED
    BY <1>1, <1>5, <1>6, <1>7, <1>8, HandlerStays DEF IInv, relay

(* A peer ends its side, breaks it, takes bytes or takes no more.          *)
LEMMA PeerOtherIInv ==
    ASSUME IInv, NEW d \in Direction, UNCHANGED <<kind, phase, dialling, assoc>>,
           PeerEnds(d) \/ PeerBreaks(d) \/ PeerTakes(d) \/ PeerStops(d)
    PROVE  IInv'
  <1>1. CopyTypes /\ ChunkInHand /\ FirstWhole /\ Stretches
    BY DEF IInv
  <1>2. UNCHANGED <<relay, sent, got>>
    BY DEF PeerEnds, PeerBreaks, PeerTakes, PeerStops
  <1>3. \/ UNCHANGED <<unread, source>>
        \/ source[d] = "open" /\ source' = [source EXCEPT ![d] = "eof"] /\ UNCHANGED unread
        \/ /\ source[d] = "open" /\ unread' = [unread EXCEPT ![d] = <<>>]
           /\ source'[d] \in {"reset", "failed"} /\ source' = [source EXCEPT ![d] = source'[d]]
    BY <1>1 DEF PeerEnds, PeerBreaks, PeerTakes, PeerStops, CopyTypes
  <1>4. CopyTypes'
    <2>1. token' \in BOOLEAN
      BY <1>1, <1>2 DEF CopyTypes, relay
    <2>2. /\ unread' \in [Direction -> Seq(Nat)]
          /\ source' \in [Direction -> {"open", "eof", "reset", "failed"}]
      BY <1>1, <1>3, RunEmpty DEF CopyTypes
    <2> QED
      BY <1>1, <1>2, <2>1, <2>2 DEF CopyTypes, relay
  <1>5. ChunkInHand' /\ FirstWhole'
    BY <1>1, <1>2, <1>3 DEF ChunkInHand, FirstWhole, CopyTypes, relay
  <1>6. Stretches'
    <2>1. ASSUME NEW e \in Direction, e # d \/ UNCHANGED <<unread, source>>
          PROVE  Stretch(e)'
      BY <1>1, <1>2, <1>3, <2>1, StretchKept DEF Stretches, CopyTypes, relay
    <2>2. CASE ~UNCHANGED <<unread, source>>
      <3>1. Consumed(d)' = Consumed(d) /\ Leftover(d)' = Leftover(d)
        BY <1>2 DEF Consumed, Leftover, relay
      <3>2. /\ source[d] = "open"
            /\ \/ unread'[d] = unread[d]
               \/ unread'[d] = <<>> /\ source'[d] \notin {"open", "eof"}
        BY <1>1, <1>3, <2>2 DEF CopyTypes
      <3>3. Len(unread'[d]) <= Len(unread[d]) /\ Len(unread'[d]) \in Nat
        BY <3>2, Counts, RunEmpty
      <3>4. phase \notin Association \union {"closed"} =>
               Run(unread'[d], Consumed(d) + Leftover(d))
        BY <1>1, <3>2, Counts, RunEmpty DEF Stretches, Stretch
      <3>5. Stretch(d)'
        BY <1>1, <1>2, <3>1, <3>2, <3>3, <3>4, Counts DEF Stretches, Stretch, relay
      <3> QED
        BY <2>1, <3>5 DEF Stretches
    <2> QED
      BY <2>1, <2>2 DEF Stretches
  <1> QED
    BY <1>2, <1>4, <1>5, <1>6, HandlerStays DEF IInv, relay

(* A read moves the front of what is readable into the hand.               *)
LEMMA ReadChunkIInv ==
    ASSUME IInv, NEW d \in Direction, phase = "relay", ReadChunk(d),
           UNCHANGED <<kind, phase, dialling, assoc>>
    PROVE  IInv'
  <1>1. CopyTypes /\ ChunkInHand /\ FirstWhole /\ Stretches
    BY DEF IInv
  <1>2. PICK n \in 1..BufSize :
            /\ n <= Len(Readable(d))
            /\ buf' = [buf EXCEPT ![d] = SubSeq(Readable(d), 1, n)]
            /\ IF Buffered(d)
               THEN buffer' = SubSeq(buffer, n + 1, Len(buffer)) /\ UNCHANGED unread
               ELSE /\ unread' = [unread EXCEPT ![d] = SubSeq(unread[d], n + 1, Len(unread[d]))]
                    /\ UNCHANGED buffer
    BY DEF ReadChunk
  <1>3. /\ copy[d] = "read" /\ copy' = [copy EXCEPT ![d] = "write"]
        /\ UNCHANGED <<written, copied, token, first, sent, source, got>>
    BY DEF ReadChunk
  <1>4. /\ buf[d] = <<>> /\ written[d] = 0 /\ Len(buf[d]) = 0 /\ Consumed(d) = Len(got[d])
        /\ ~Buffered(d) => Leftover(d) = 0
    BY <1>1, <1>3, RunEmpty DEF ChunkInHand, CopyTypes, Consumed, Leftover, Buffered
  <1>5. /\ Readable(d) \in Seq(Nat) /\ Run(Readable(d), Len(got[d]))
        /\ n \in 0..Len(Readable(d)) /\ Len(got[d]) \in Nat /\ n \in Nat /\ n > 0
    <2>1. Readable(d) \in Seq(Nat) /\ Len(got[d]) \in Nat
      BY <1>1 DEF Readable, CopyTypes
    <2>2. Run(Readable(d), Len(got[d]))
      <3>1. CASE Buffered(d)
        BY <1>1, <1>4, <3>1 DEF Readable, Buffered, Stretches, Stretch, Association
      <3>2. CASE ~Buffered(d)
        BY <1>1, <1>4, <2>1, <3>2 DEF Readable, Stretches, Stretch, Association
      <3> QED
        BY <3>1, <3>2
    <2> QED
      BY <1>2, <2>1, <2>2, CopyAssumption
  <1> DEFINE back == SubSeq(Readable(d), n + 1, Len(Readable(d)))
  <1>6. /\ buf'[d] \in Seq(Nat) /\ Len(buf'[d]) = n /\ Run(buf'[d], Len(got[d]))
        /\ back \in Seq(Nat) /\ Len(back) = Len(Readable(d)) - n /\ Run(back, Len(got[d]) + n)
    <2>1. buf'[d] = SubSeq(Readable(d), 1, n)
      BY <1>1, <1>2 DEF CopyTypes
    <2> QED
      BY <1>5, <2>1, RunFront, RunBack
  <1>7. /\ Buffered(d) => d = "ba" /\ buffer' = back /\ unread' = unread /\ Readable(d) = buffer
        /\ ~Buffered(d) => /\ unread'[d] = back /\ unread' = [unread EXCEPT ![d] = back]
                           /\ buffer' = buffer /\ Readable(d) = unread[d]
    BY <1>1, <1>2 DEF CopyTypes, Buffered, Readable
  <1> HIDE DEF back
  <1>8. CopyTypes'
    <2>1. token' \in BOOLEAN
      BY <1>1, <1>3 DEF CopyTypes
    <2>2. /\ buf' \in [Direction -> Seq(Nat)] /\ unread' \in [Direction -> Seq(Nat)]
          /\ buffer' \in Seq(Nat)
      BY <1>1, <1>2, <1>6, <1>7 DEF CopyTypes
    <2> QED
      BY <1>1, <1>3, <2>1, <2>2 DEF CopyTypes
  <1>9. ChunkInHand'
    <2>1. \A e \in Direction : e # d => buf'[e] = buf[e] /\ copy'[e] = copy[e]
      BY <1>1, <1>2, <1>3 DEF CopyTypes
    <2>2. copy'[d] = "write"
      BY <1>1, <1>3 DEF CopyTypes
    <2>3. /\ written'[d] = 0 /\ got'[d] = got[d] /\ copied'[d] = Len(got[d]) /\ Len(buf'[d]) = n
      BY <1>1, <1>3, <1>4, <1>5, <1>6 DEF ChunkInHand
    <2> SUFFICES ASSUME NEW e \in Direction
                 PROVE  /\ written'[e] <= Len(buf'[e]) /\ written'[e] <= Len(got'[e])
                        /\ copy'[e] = "write" => written'[e] < Len(buf'[e])
                        /\ copy'[e] \in {"off", "read", "ok"} => buf'[e] = <<>>
                        /\ copy'[e] = "off" => got'[e] = <<>>
                        /\ copied'[e] = Len(got'[e]) - written'[e]
      BY DEF ChunkInHand
    <2>4. CASE e = d
      BY <1>5, <2>2, <2>3, <2>4
    <2>5. CASE e # d
      BY <1>1, <1>3, <2>1, <2>5 DEF ChunkInHand
    <2> QED
      BY <2>4, <2>5
  <1>10. FirstWhole'
    BY <1>1, <1>3 DEF FirstWhole, CopyTypes
  <1>11. Stretches'
    <2>1. ASSUME NEW e \in Direction, e # d
          PROVE  Stretch(e)'
      <3>1. unread'[e] = unread[e] /\ buf'[e] = buf[e] /\ (e = "ba" => buffer' = buffer)
        BY <1>1, <1>2, <1>7, <2>1 DEF CopyTypes
      <3> QED
        BY <1>1, <1>3, <3>1, StretchKept DEF Stretches
    <2>2. Stretch(d)'
      <3>1. Consumed(d)' = Len(got[d]) + n
        BY <1>3, <1>4, <1>5, <1>6 DEF Consumed
      <3>2. Stretch(d) /\ UNCHANGED <<sent, got, written, source>> /\ phase' = "relay"
        BY <1>1, <1>3 DEF Stretches
      <3>3. Run(buf'[d], Len(got'[d]) - written'[d])
        BY <1>4, <1>5, <1>6, <3>2
      <3>4. CASE Buffered(d)
        <4>1. /\ Leftover(d) = Len(Readable(d)) /\ Leftover(d)' = Len(Readable(d)) - n
              /\ unread'[d] = unread[d]
          BY <1>6, <1>7, <3>4 DEF Leftover
        <4>2. Consumed(d)' + Leftover(d)' = Consumed(d) + Leftover(d)
          BY <1>4, <1>5, <3>1, <4>1, Counts
        <4>3. Run(buffer', Consumed(d)') /\ Run(unread'[d], Consumed(d)' + Leftover(d)')
          BY <1>6, <1>7, <3>1, <3>2, <3>4, <4>1, <4>2 DEF Stretch, Association
        <4> QED
          BY <3>2, <3>3, <4>1, <4>2, <4>3 DEF Stretch, Association
      <3>5. CASE ~Buffered(d)
        <4>1. Leftover(d) = 0 /\ Leftover(d)' = 0 /\ Len(unread'[d]) = Len(unread[d]) - n
          BY <1>4, <1>6, <1>7, <3>5 DEF Leftover
        <4>2. Consumed(d)' + Leftover(d)' + Len(unread'[d])
                = Consumed(d) + Leftover(d) + Len(unread[d])
          <5>1. Len(unread[d]) \in Nat
            BY Counts
          <5>2. Consumed(d)' + Leftover(d)' = Len(got[d]) + n
            BY <1>5, <3>1, <4>1
          <5>3. Consumed(d) + Leftover(d) = Len(got[d])
            BY <1>4, <1>5, <4>1
          <5>4. Len(got[d]) \in Nat /\ n \in Nat
            BY <1>5
          <5> QED
            BY <4>1, <5>1, <5>2, <5>3, <5>4
        <4>3. d = "ba" => buffer' = <<>>
          BY <1>7, <3>5 DEF Buffered
        <4>4. /\ d = "ba" => Run(buffer', Consumed(d)')
              /\ Run(unread'[d], Consumed(d)' + Leftover(d)')
          BY <1>5, <1>6, <1>7, <3>1, <3>5, <4>1, <4>3, RunEmpty
        <4> QED
          BY <3>2, <3>3, <4>2, <4>4 DEF Stretch, Association
      <3> QED
        BY <3>4, <3>5
    <2> QED
      BY <2>1, <2>2 DEF Stretches
  <1> QED
    BY <1>8, <1>9, <1>10, <1>11, HandlerStays DEF IInv

(* A copy that ends by end of file has read, and written, all there was.   *)
LEMMA CopyEndsIInv ==
    ASSUME IInv, NEW d \in Direction, phase = "relay",
           SeesToken(d) \/ ReadsEnd(d) \/ ReadFails(d) \/ WriteFails(d),
           UNCHANGED <<kind, phase, dialling, assoc>>
    PROVE  IInv'
  <1>1. CopyTypes /\ ChunkInHand /\ FirstWhole /\ Stretches
    BY DEF IInv
  <1>2. PICK result \in {"ok", "error"}, how \in {"cancelled", "eof", "reset", "failed", "broken"} :
            /\ CopyEnds(d, result, how)
            /\ copy[d] = "read" \/ (copy[d] = "write" /\ result = "error")
            /\ how = "eof" => /\ copy[d] = "read" /\ result = "ok"
                              /\ source[d] = "eof" /\ Readable(d) = <<>>
    <2>1. CASE SeesToken(d)
      BY <2>1 DEF SeesToken
    <2>2. CASE ReadsEnd(d)
      BY <2>2 DEF ReadsEnd
    <2>3. CASE ReadFails(d)
      BY <2>3 DEF ReadFails
    <2>4. CASE WriteFails(d)
      BY <2>4 DEF WriteFails
    <2> QED
      BY <2>1, <2>2, <2>3, <2>4
  <1>3. /\ copy' = [copy EXCEPT ![d] = result] /\ token' = TRUE
        /\ first' = IF first = <<>> THEN <<how, d>> ELSE first
        /\ UNCHANGED <<buf, written, copied, buffer, sent, unread, source, got>>
    BY <1>2 DEF CopyEnds, peers
  <1>4. CopyTypes'
    <2>1. token' \in BOOLEAN
      BY <1>3
    <2>2. copy' \in [Direction -> {"off", "read", "write", "ok", "error"}]
      BY <1>1, <1>3 DEF CopyTypes
    <2> QED
      BY <1>1, <1>3, <2>1, <2>2 DEF CopyTypes
  <1>5. ChunkInHand'
    <2>1. /\ copy'[d] = result
          /\ \A e \in Direction : e # d => copy'[e] = copy[e]
      BY <1>1, <1>3 DEF CopyTypes
    <2> QED
      BY <1>1, <1>2, <1>3, <2>1 DEF ChunkInHand
  <1>6. FirstWhole'
    <2> SUFFICES ASSUME NEW e \in Direction, first' = <<"eof", e>>
                 PROVE  copy'[e] = "ok" /\ source'[e] = "eof" /\ Len(got'[e]) = Len(sent'[e])
      BY DEF FirstWhole
    <2>1. CASE first = <<>>
      <3>1. e = d /\ how = "eof"
        BY <1>3, <2>1
      <3>2. buf[d] = <<>> /\ written[d] = 0
        BY <1>1, <1>2, <3>1, RunEmpty DEF ChunkInHand, CopyTypes
      <3>3. Consumed(d) = Len(got[d])
        BY <3>2, RunEmpty, Counts DEF Consumed
      <3>4. Leftover(d) = 0 /\ Len(unread[d]) = 0
        BY <1>1, <1>2, <3>1, RunEmpty DEF Readable, Buffered, Leftover, CopyTypes
      <3>5. Consumed(d) + Leftover(d) + Len(unread[d]) = Len(sent[d])
        BY <1>1, <1>2, <3>1 DEF Stretches, Stretch, Association
      <3> QED
        BY <1>1, <1>2, <1>3, <3>1, <3>3, <3>4, <3>5, Counts DEF CopyTypes
    <2>2. CASE first # <<>>
      <3>1. first = <<"eof", e>>
        BY <1>3, <2>2
      <3>2. copy[e] = "ok" /\ source[e] = "eof" /\ Len(got[e]) = Len(sent[e]) /\ e # d
        BY <1>1, <1>2, <3>1 DEF FirstWhole
      <3> QED
        BY <1>1, <1>3, <3>2 DEF CopyTypes
    <2> QED
      BY <2>1, <2>2
  <1>7. Stretches'
    BY <1>1, <1>3, StretchKept DEF Stretches
  <1> QED
    BY <1>4, <1>5, <1>6, <1>7, HandlerStays DEF IInv

(* A byte of the chunk goes out: it is the next one of the direction.      *)
LEMMA NextByte ==
    ASSUME IInv, NEW d \in Direction, WriteByte(d)
    PROVE  /\ got[d] \in Seq(Nat) /\ got' = [got EXCEPT ![d] = got'[d]]
           /\ got'[d] = Append(got[d], Len(got[d]) + 1)
           /\ got'[d] \in Seq(Nat) /\ Len(got'[d]) = Len(got[d]) + 1 /\ Run(got'[d], 0)
           /\ Len(got'[d]) <= Len(sent[d])
  <1>1. CopyTypes /\ ChunkInHand /\ Stretches
    BY DEF IInv
  <1>2. copy[d] = "write" /\ got' = [got EXCEPT ![d] = Append(got[d], buf[d][written[d] + 1])]
    BY DEF WriteByte
  <1>3. written[d] + 1 \in 1..Len(buf[d])
    BY <1>1, <1>2 DEF ChunkInHand, CopyTypes
  <1>4. buf[d][written[d] + 1] = Len(got[d]) + 1
    <2>1. Run(buf[d], Len(got[d]) - written[d])
      BY <1>1 DEF Stretches, Stretch
    <2>2. buf[d][written[d] + 1] = (Len(got[d]) - written[d]) + (written[d] + 1)
      BY <1>3, <2>1 DEF Run
    <2> QED
      BY <2>2, Counts
  <1>5. /\ got[d] \in Seq(Nat) /\ Run(got[d], 0)
        /\ got'[d] = Append(got[d], Len(got[d]) + 1)
        /\ got' = [got EXCEPT ![d] = got'[d]]
    BY <1>1, <1>2, <1>4 DEF CopyTypes, Stretches, Stretch
  <1>6. got'[d] \in Seq(Nat) /\ Len(got'[d]) = Len(got[d]) + 1 /\ Run(got'[d], 0)
    BY <1>5, RunAppend
  <1>7. Len(got[d]) + 1 <= Len(sent[d])
    <2>1. Consumed(d) + Leftover(d) + Len(unread[d]) <= Len(sent[d])
      BY <1>1 DEF Stretches, Stretch
    <2>2. Consumed(d) >= Len(got[d]) + 1
      BY <1>3, Counts DEF Consumed
    <2> QED
      BY <2>1, <2>2, Counts
  <1> QED
    BY <1>5, <1>6, <1>7

(* write_all goes on, or counts the chunk when its last byte has left.     *)
LEMMA WriteByteIInv ==
    ASSUME IInv, NEW d \in Direction, phase = "relay", WriteByte(d),
           UNCHANGED <<kind, phase, dialling, assoc>>
    PROVE  IInv'
  <1>1. CopyTypes /\ ChunkInHand /\ FirstWhole /\ Stretches
    BY DEF IInv
  <1>2. /\ got' = [got EXCEPT ![d] = got'[d]] /\ got'[d] \in Seq(Nat)
        /\ Len(got'[d]) = Len(got[d]) + 1 /\ Run(got'[d], 0)
    BY NextByte
  <1>3. copy[d] = "write" /\ UNCHANGED <<token, buffer, first, sent, unread, source>>
    BY DEF WriteByte
  <1>4. \/ /\ written[d] + 1 < Len(buf[d])
           /\ written' = [written EXCEPT ![d] = written[d] + 1]
           /\ UNCHANGED <<copy, buf, copied>>
        \/ /\ written[d] + 1 = Len(buf[d])
           /\ copied' = [copied EXCEPT ![d] = copied[d] + Len(buf[d])]
           /\ written' = [written EXCEPT ![d] = 0]
           /\ buf' = [buf EXCEPT ![d] = <<>>]
           /\ copy' = [copy EXCEPT ![d] = "read"]
    <2>1. written[d] < Len(buf[d])
      BY <1>1, <1>3 DEF ChunkInHand
    <2> QED
      BY <2>1, Counts DEF WriteByte
  <1>5. /\ \A e \in Direction : e # d => /\ got'[e] = got[e] /\ buf'[e] = buf[e]
                                        /\ written'[e] = written[e] /\ copied'[e] = copied[e]
                                        /\ copy'[e] = copy[e]
        /\ copied[d] \in Nat
    BY <1>1, <1>2, <1>4 DEF CopyTypes
  <1>6. \/ /\ written[d] + 1 < Len(buf[d]) /\ written'[d] = written[d] + 1
           /\ copy'[d] = "write" /\ buf'[d] = buf[d] /\ copied'[d] = copied[d]
        \/ /\ written[d] + 1 = Len(buf[d]) /\ written'[d] = 0
           /\ copy'[d] = "read" /\ buf'[d] = <<>> /\ copied'[d] = copied[d] + Len(buf[d])
    BY <1>1, <1>3, <1>4 DEF CopyTypes
  <1>7. /\ written[d] \in Nat /\ Len(got[d]) \in Nat /\ Len(buf[d]) \in Nat
         /\ Len(got'[d]) = Len(got[d]) + 1 /\ Len(<<>>) = 0
    BY <1>2, Counts, RunEmpty
  <1>8. CopyTypes'
    <2>1. token' \in BOOLEAN
      BY <1>1, <1>3 DEF CopyTypes
    <2>2. got' \in [Direction -> Seq(Nat)]
      BY <1>1, <1>2 DEF CopyTypes
    <2>3. /\ buf' \in [Direction -> Seq(Nat)] /\ written' \in [Direction -> Nat]
          /\ copied' \in [Direction -> Nat]
          /\ copy' \in [Direction -> {"off", "read", "write", "ok", "error"}]
      <3>1. written[d] + 1 \in Nat /\ copied[d] + Len(buf[d]) \in Nat /\ <<>> \in Seq(Nat)
        BY <1>5, <1>7
      <3>2. /\ buf \in [Direction -> Seq(Nat)] /\ written \in [Direction -> Nat]
            /\ copied \in [Direction -> Nat]
            /\ copy \in [Direction -> {"off", "read", "write", "ok", "error"}]
        BY <1>1 DEF CopyTypes
      <3>3. written' \in [Direction -> Nat]
        <4>1. ASSUME NEW n \in Nat
              PROVE  [written EXCEPT ![d] = n] \in [Direction -> Nat]
          BY <3>2
        <4> QED
          BY <1>4, <3>1, <4>1
      <3>4. copied' \in [Direction -> Nat]
        BY <1>4, <3>1, <3>2
      <3>5. buf' \in [Direction -> Seq(Nat)]
        BY <1>4, <3>1, <3>2
      <3>6. copy' \in [Direction -> {"off", "read", "write", "ok", "error"}]
        BY <1>4, <3>2
      <3> QED
        BY <3>3, <3>4, <3>5, <3>6
    <2> QED
      BY <1>1, <1>3, <2>1, <2>2, <2>3 DEF CopyTypes
  <1>9. ChunkInHand'
    <2> SUFFICES ASSUME NEW e \in Direction
                 PROVE  /\ written'[e] <= Len(buf'[e]) /\ written'[e] <= Len(got'[e])
                        /\ copy'[e] = "write" => written'[e] < Len(buf'[e])
                        /\ copy'[e] \in {"off", "read", "ok"} => buf'[e] = <<>>
                        /\ copy'[e] = "off" => got'[e] = <<>>
                        /\ copied'[e] = Len(got'[e]) - written'[e]
      BY DEF ChunkInHand
    <2>1. CASE e = d
      <3>1. copied[d] = Len(got[d]) - written[d] /\ written[d] <= Len(got[d])
        BY <1>1 DEF ChunkInHand
      <3>2. copy'[d] # "off" /\ copy'[d] # "ok"
        BY <1>6
      <3>3. CASE written[d] + 1 < Len(buf[d])
        BY <1>6, <1>7, <2>1, <3>1, <3>2, <3>3
      <3>4. CASE ~(written[d] + 1 < Len(buf[d]))
        <4>1. /\ written'[d] = 0 /\ copy'[d] = "read" /\ buf'[d] = <<>> /\ Len(buf'[d]) = 0
              /\ copied'[d] = Len(got[d]) + 1
          BY <1>6, <1>7, <3>1, <3>4
        <4> QED
          BY <1>7, <2>1, <4>1
      <3> QED
        BY <3>3, <3>4
    <2>2. CASE e # d
      BY <1>1, <1>5, <2>2 DEF ChunkInHand
    <2> QED
      BY <2>1, <2>2
  <1>10. FirstWhole'
    BY <1>1, <1>3, <1>5 DEF FirstWhole
  <1>11. Stretches'
    <2>1. ASSUME NEW e \in Direction, e # d
          PROVE  Stretch(e)'
      BY <1>1, <1>3, <1>5, <2>1, StretchKept DEF Stretches
    <2>2. Stretch(d)'
      <3>1. Consumed(d)' = Consumed(d) /\ Leftover(d)' = Leftover(d)
        <4>1. CASE written[d] + 1 < Len(buf[d])
          <5>1. written'[d] = written[d] + 1 /\ buf'[d] = buf[d]
            BY <1>6, <1>7, <4>1
          <5>2. Len(got'[d]) - written'[d] = Len(got[d]) - written[d] /\ Len(buf'[d]) = Len(buf[d])
            BY <1>7, <5>1
          <5> QED
            BY <1>3, <5>2 DEF Consumed, Leftover
        <4>2. CASE ~(written[d] + 1 < Len(buf[d]))
          <5>1. written'[d] = 0 /\ Len(buf'[d]) = 0 /\ written[d] + 1 = Len(buf[d])
            BY <1>6, <1>7, <4>2
          <5> QED
            BY <1>3, <1>7, <5>1 DEF Consumed, Leftover
        <4> QED
          BY <4>1, <4>2
      <3>2. Run(buf'[d], Len(got'[d]) - written'[d])
        <4>1. CASE buf'[d] = <<>> /\ written'[d] = 0
          BY <1>2, <4>1, Counts, RunEmpty
        <4>2. CASE buf'[d] = buf[d] /\ written'[d] = written[d] + 1
          <5>1. Len(got'[d]) - written'[d] = Len(got[d]) - written[d]
            BY <1>7, <4>2
          <5> QED
            BY <1>1, <4>2, <5>1 DEF Stretches, Stretch
        <4> QED
          BY <1>6, <4>1, <4>2
      <3> QED
        BY <1>1, <1>2, <1>3, <3>1, <3>2 DEF Stretches, Stretch
    <2> QED
      BY <2>1, <2>2 DEF Stretches
  <1> QED
    BY <1>8, <1>9, <1>10, <1>11, HandlerStays DEF IInv

-----------------------------------------------------------------------------
(* Every step keeps the inductive invariant, and so does a stuttering one. *)
LEMMA StepIInv == IInv /\ [Next]_vars => IInv'
  <1> SUFFICES ASSUME IInv, [Next]_vars PROVE IInv'
    OBVIOUS
  <1>1. CASE UNCHANGED vars
    <2>1. UNCHANGED <<kind, phase, dialling, assoc, copyVars>>
      BY <1>1 DEF vars
    <2>2. CopyTypes' /\ ChunkInHand' /\ Stretches' /\ FirstWhole'
      BY <2>1, StreamsUntouched
    <2> QED
      BY <2>1, <2>2, HandlerStays DEF IInv, copyVars, relay, peers
  <1>2. CASE Socks \/ Tun \/ RelayReturns
    BY <1>2, HandlerIInv
  <1>3. CASE Http
    BY <1>3, HandlerIInv, HttpRequestIInv DEF Http
  <1>4. CASE Dial
    BY <1>4, HandlerIInv, DialOkIInv DEF Dial
  <1>5. CASE Answer
    BY <1>5, HandlerIInv, StartRelayIInv DEF Answer
  <1>6. CASE Associate
    BY <1>6, HandlerIInv, AssociationIInv, PollControlIInv DEF Associate
  <1>7. CASE RelaySocketFails \/ TunnelPacketComes \/ \E s \in Sender : DatagramComes(s)
    BY <1>7, AssociationIInv
  <1>8. ASSUME NEW d \in Direction, CopyStep(d)
        PROVE  IInv'
    BY <1>8, ReadChunkIInv, CopyEndsIInv, WriteByteIInv DEF CopyStep, Copy
  <1>9. ASSUME NEW d \in Direction, PeerStep(d)
        PROVE  IInv'
    BY <1>9, PeerSendsIInv, PeerOtherIInv DEF PeerStep, Peer
  <1> QED
    BY <1>1, <1>2, <1>3, <1>4, <1>5, <1>6, <1>7, <1>8, <1>9 DEF Next

(* The inductive invariant holds in every reachable state.                 *)
THEOREM Invariance == Spec => []IInv
  BY InitIInv, StepIInv, PTL DEF Spec

(* The variables of a proxied connection keep their types.                 *)
THEOREM TypeCorrect == Spec => []TypeOK
  <1>1. IInv => TypeOK
    <2> SUFFICES ASSUME IInv PROVE TypeOK
      OBVIOUS
    <2>1. token \in BOOLEAN
      BY DEF IInv, CopyTypes
    <2> QED
      BY <2>1 DEF IInv, HandlerTypes, CopyTypes, TypeOK
  <1> QED
    BY <1>1, Invariance, PTL

(* However the copies' reads, writes and failures interleave with the      *)
(* peers', the direction that ends first by end of file has delivered all  *)
(* its source sent, and each direction has counted what it delivered.      *)
THEOREM FirstToEndWhole == Spec => []FirstToEndIsWhole
  <1>1. IInv => FirstToEndIsWhole
    <2> SUFFICES ASSUME IInv, NEW d \in Direction
                 PROVE  /\ first = <<"eof", d>> => /\ got[d] = sent[d]
                                                   /\ copied[d] = Len(sent[d])
                        /\ Ended(d) => \/ copied[d] = Len(got[d])
                                       \/ copy[d] = "error" /\ copied[d] < Len(got[d])
      BY DEF FirstToEndIsWhole
    <2>1. /\ copied[d] = Len(got[d]) - written[d]
          /\ copy[d] = "ok" => written[d] = 0
      BY RunEmpty DEF IInv, ChunkInHand, CopyTypes
    <2>2. first = <<"eof", d>> => got[d] = sent[d] /\ copied[d] = Len(sent[d])
      <3> SUFFICES ASSUME first = <<"eof", d>>
                   PROVE  got[d] = sent[d] /\ copied[d] = Len(sent[d])
        OBVIOUS
      <3>1. copy[d] = "ok" /\ Len(got[d]) = Len(sent[d])
        BY DEF IInv, FirstWhole
      <3>2. /\ got[d] \in Seq(Nat) /\ sent[d] \in Seq(Nat)
            /\ Run(got[d], 0) /\ Run(sent[d], 0)
        BY DEF IInv, CopyTypes, Stretches, Stretch
      <3> QED
        BY <2>1, <3>1, <3>2, RunsEqual, Counts
    <2>3. Ended(d) => \/ copied[d] = Len(got[d])
                      \/ copy[d] = "error" /\ copied[d] < Len(got[d])
      BY <2>1, Counts DEF Ended
    <2> QED
      BY <2>2, <2>3
  <1> QED
    BY <1>1, Invariance, PTL

(* Every step keeps the error and the answer a failed dial leaves.         *)
LEMMA NextAnswerKnown ==
    ASSUME AnswerKnown, [Next]_vars
    PROVE  AnswerKnown'
  <1> USE DEF AnswerKnown, BeforeDial, TunnelError, Close, Goto, dialling
  <1>1. CASE Socks
    BY <1>1 DEF Socks, NegotiateMethod, NegotiateMethodFails, RequestConnect, RequestAssociate,
                RequestBind, RequestFails
  <1>2. CASE Http \/ Tun
    <2>1. CASE HttpRequest
      BY <2>1 DEF HttpRequest
    <2>2. CASE HttpBadTarget \/ HttpCloses
      BY <2>2 DEF HttpBadTarget, HttpCloses
    <2>3. CASE TunTarget \/ TunSkips
      BY <2>3 DEF TunTarget, TunSkips
    <2> QED
      BY <1>2, <2>1, <2>2, <2>3 DEF Http, Tun
  <1>3. CASE Dial
    BY <1>3 DEF Dial, ServerConnects, DialOk, DialRefused, DialFails
  <1>4. CASE Answer
    <2>1. CASE SocksReplyRefused \/ HttpReplyRefused \/ TunRefused \/ AnswerFails
      BY <2>1 DEF SocksReplyRefused, HttpReplyRefused, TunRefused, AnswerFails
    <2>2. CASE SocksReplyOk \/ TunRelay \/ HttpUpgraded
      BY <2>2 DEF SocksReplyOk, TunRelay, HttpUpgraded, StartRelay
    <2>3. CASE HttpConnectOk \/ HttpExchange
      BY <2>3 DEF HttpConnectOk, HttpExchange
    <2> QED
      BY <1>4, <2>1, <2>2, <2>3 DEF Answer
  <1>5. CASE RelayReturns
    BY <1>5 DEF RelayReturns
  <1>6. CASE Associate
    BY <1>6 DEF Associate, BindRelay, BindFails, PollControl, PollTunnel, PollSocket, SendReturns
  <1>7. CASE RelaySocketFails \/ TunnelPacketComes \/ \E s \in Sender : DatagramComes(s)
    BY <1>7 DEF RelaySocketFails, TunnelPacketComes, DatagramComes
  <1>8. CASE \E d \in Direction : CopyStep(d) \/ PeerStep(d)
    BY <1>8 DEF CopyStep, PeerStep
  <1>9. CASE UNCHANGED vars
    BY <1>9 DEF vars
  <1> QED
    BY <1>1, <1>2, <1>3, <1>4, <1>5, <1>6, <1>7, <1>8, <1>9 DEF Next

(* Success is told, and bytes of the destination arrive, only after the    *)
(* server connected; what the server met and reported is told as what it   *)
(* was, and nothing else is told as one of these (socks/mod.rs 162-174,    *)
(* socks/protocol.rs 301-310, protocol.rs 213-224, connection/mod.rs       *)
(* 227-240).                                                               *)
THEOREM AnswersReflectDial == Spec => []ReplyReflectsDial
  <1>1. IInv /\ AnswerKnown => ReplyReflectsDial
    <2> SUFFICES ASSUME IInv, AnswerKnown PROVE ReplyReflectsDial
      OBVIOUS
    <2>1. ToldError => /\ dest \in Reflected => reply = dest
                       /\ dest = "TimedOut" <=> reply = "TtlExpired"
      <3> SUFFICES ASSUME ToldError
                   PROVE  /\ dest \in Reflected => reply = dest
                          /\ dest = "TimedOut" <=> reply = "TtlExpired"
        OBVIOUS
      <3>1. dest \in ConnectError /\ err = ConnectErrorKind(dest) /\ reply = FromConnectError(err)
        BY DEF ToldError, AnswerKnown
      <3> QED
        BY <3>1 DEF ConnectError, ConnectErrorKind, FromConnectError, Reflected
    <2> QED
      BY <2>1 DEF IInv, DialKnown, BytesAnswered, Reflected, ReplyReflectsDial
  <1>2. Init => AnswerKnown
    BY ProxyAssumption DEF Init, AnswerKnown, BeforeDial, TunnelError
  <1> QED
    BY <1>1, <1>2, NextAnswerKnown, Invariance, PTL DEF Spec

-----------------------------------------------------------------------------
(* A relay implements ByteStream.  What a destination sends counts as      *)
(* written to the stream when the stream is handed to the relay, so the    *)
(* start of the relay is a Write of all that came with the response or     *)
(* behind it; a byte that leaves the chunk in hand is a Read.              *)

(* What each direction has been handed.                                    *)
LEMMA HandedValue ==
    ASSUME IInv
    PROVE  /\ Handed["ab"] = sent["ab"]
           /\ Handed["ba"] = IF copy["ba"] = "off" THEN <<>> ELSE sent["ba"]
           /\ Handed = [d \in Direction |-> Handed[d]]
  BY DEF IInv, CopyTypes, Handed, Direction

(* It is a run from the start of the direction.                            *)
LEMMA HandedRun ==
    ASSUME IInv, NEW d \in Direction
    PROVE  /\ Handed[d] \in Seq(Nat) /\ Run(Handed[d], 0)
           /\ copy[d] # "off" => Handed[d] = sent[d]
  <1>1. sent[d] \in Seq(Nat) /\ Run(sent[d], 0)
    BY DEF IInv, CopyTypes, Stretches, Stretch
  <1> QED
    BY <1>1, HandedValue, RunEmpty DEF Direction

(* The same two facts after a step.                                        *)
LEMMA HandedValueNext ==
    ASSUME IInv'
    PROVE  /\ Handed'["ab"] = sent'["ab"]
           /\ Handed'["ba"] = IF copy'["ba"] = "off" THEN <<>> ELSE sent'["ba"]
           /\ Handed' = [d \in Direction |-> Handed'[d]]
  BY DEF IInv, CopyTypes, Handed, Direction

(* After a step, too, it is a run from the start of the direction.         *)
LEMMA HandedRunNext ==
    ASSUME IInv', NEW d \in Direction
    PROVE  /\ Handed'[d] \in Seq(Nat) /\ Run(Handed'[d], 0)
           /\ copy'[d] # "off" => Handed'[d] = sent'[d]
  <1>1. sent'[d] \in Seq(Nat) /\ Run(sent'[d], 0)
    BY DEF IInv, CopyTypes, Stretches, Stretch
  <1> QED
    BY <1>1, HandedValueNext, RunEmpty DEF Direction

(* A longer run from the start strictly prolongs a shorter one.            *)
LEMMA RunGrows ==
    ASSUME NEW s \in Seq(Nat), NEW t \in Seq(Nat), Run(s, 0), Run(t, 0), Len(s) < Len(t)
    PROVE  Relayed!IsStrictPrefix(s, t)
  <1>1. Relayed!IsPrefix(s, t)
    BY RunsPrefix
  <1>2. s # t
    OBVIOUS
  <1> QED
    BY <1>1, <1>2 DEF Relayed!IsStrictPrefix

(* A step that delivers nothing, ends no copy and hands nothing over is no *)
(* step of the stream.                                                     *)
LEMMA Unseen ==
    ASSUME IInv, IInv', UNCHANGED got, sent'["ab"] = sent["ab"],
           copy'["ba"] = "off" <=> copy["ba"] = "off",
           copy'["ba"] = "off" \/ sent'["ba"] = sent["ba"],
           \A d \in Direction : copy'[d] \in {"ok", "error"} <=> copy[d] \in {"ok", "error"}
    PROVE  UNCHANGED Relayed!vars
  <1>1. Handed' = Handed
    <2>1. CopyTypes /\ CopyTypes'
      BY DEF IInv
    <2>2. \A d \in Direction : Handed'[d] = Handed[d]
      BY <2>1 DEF Handed, CopyTypes, Direction
    <2>3. Handed = [d \in Direction |-> Handed[d]] /\ Handed' = [d \in Direction |-> Handed'[d]]
      BY <2>1 DEF Handed, CopyTypes, Direction
    <2> QED
      BY <2>2, <2>3
  <1>2. [d \in Direction |-> Ended(d)]' = [d \in Direction |-> Ended(d)]
    BY DEF Ended
  <1> QED
    BY <1>1, <1>2 DEF Relayed!vars

(* What the relay is handed, or its source sends meanwhile, is a Write.    *)
LEMMA WriteSeen ==
    ASSUME IInv, IInv', NEW d \in Direction, UNCHANGED got,
           \A e \in Direction : copy'[e] \in {"ok", "error"} <=> copy[e] \in {"ok", "error"},
           \A e \in Direction : e # d => Handed'[e] = Handed[e],
           Len(Handed[d]) < Len(Handed'[d])
    PROVE  Relayed!Write(d)
  <1>1. [e \in Direction |-> Ended(e)]' = [e \in Direction |-> Ended(e)]
    BY DEF Ended
  <1>2. Relayed!IsStrictPrefix(Handed[d], Handed'[d])
    <2>1. Handed[d] \in Seq(Nat) /\ Run(Handed[d], 0)
      BY HandedRun
    <2>2. Handed'[d] \in Seq(Nat) /\ Run(Handed'[d], 0)
      BY HandedRunNext
    <2> QED
      BY <2>1, <2>2, RunGrows
  <1>3. Handed' = [Handed EXCEPT ![d] = Handed'[d]]
    <2>1. Handed = [e \in Direction |-> Handed[e]]
      BY HandedValue
    <2>2. Handed' = [e \in Direction |-> Handed'[e]]
      BY HandedValueNext
    <2> QED
      BY <2>1, <2>2
  <1> QED
    BY <1>1, <1>2, <1>3 DEF Relayed!Write

(* The relay starts: a Write of what the destination sent so far, if any.  *)
LEMMA StartSeen ==
    ASSUME IInv, IInv', SocksReplyOk \/ HttpUpgraded \/ TunRelay
    PROVE  Relayed!Next \/ UNCHANGED Relayed!vars
  <1>1. /\ copy' = [d \in Direction |-> "read"] /\ UNCHANGED <<sent, got>>
        /\ \A d \in Direction : copy[d] = "off"
    BY DEF IInv, RelayOnly, SocksReplyOk, HttpUpgraded, TunRelay, StartRelay, peers
  <1>2. /\ Handed["ab"] = sent["ab"] /\ Handed["ba"] = <<>>
        /\ Handed'["ab"] = sent["ab"] /\ Handed'["ba"] = sent["ba"]
    BY <1>1, HandedValue, HandedValueNext DEF Direction
  <1>3. CASE Len(sent["ba"]) > 0
    BY <1>1, <1>2, <1>3, WriteSeen, RunEmpty DEF Relayed!Next, Direction
  <1>4. CASE ~(Len(sent["ba"]) > 0)
    <2>1. sent["ba"] = <<>>
      BY <1>4 DEF IInv, CopyTypes, Direction
    <2>2. Handed' = Handed
      <3>1. \A d \in Direction : Handed'[d] = Handed[d]
        BY <1>2, <2>1 DEF Direction
      <3> QED
        BY <3>1, HandedValue, HandedValueNext
    <2>3. [d \in Direction |-> Ended(d)]' = [d \in Direction |-> Ended(d)]
      BY <1>1 DEF Ended
    <2> QED
      BY <1>1, <2>2, <2>3 DEF Relayed!vars
  <1> QED
    BY <1>3, <1>4

(* A byte sent to a stream that is being relayed is a Write.               *)
LEMMA SendSeen ==
    ASSUME IInv, IInv', NEW d \in Direction, PeerSends(d)
    PROVE  Relayed!Next \/ UNCHANGED Relayed!vars
  <1>1. /\ sent' = [sent EXCEPT ![d] = Append(sent[d], Len(sent[d]) + 1)]
        /\ UNCHANGED <<got, copy>>
    BY DEF PeerSends, relay
  <1>2. /\ sent'[d] = Append(sent[d], Len(sent[d]) + 1) /\ Len(sent'[d]) = Len(sent[d]) + 1
        /\ Len(sent[d]) \in Nat
        /\ \A e \in Direction : e # d => sent'[e] = sent[e]
    BY <1>1 DEF IInv, CopyTypes
  <1>3. CASE d = "ba" /\ copy["ba"] = "off"
    BY <1>1, <1>2, <1>3, Unseen DEF Direction
  <1>4. CASE ~(d = "ba" /\ copy["ba"] = "off")
    <2>1. Handed[d] = sent[d] /\ Handed'[d] = sent'[d]
      BY <1>1, <1>4, HandedValue, HandedValueNext DEF Direction
    <2>2. \A e \in Direction : e # d => Handed'[e] = Handed[e]
      BY <1>1, <1>2, HandedValue, HandedValueNext DEF Direction
    <2>3. Len(Handed[d]) < Len(Handed'[d])
      BY <1>2, <2>1
    <2>4. Relayed!Write(d)
      BY <1>1, <2>2, <2>3, WriteSeen
    <2> QED
      BY <2>4 DEF Relayed!Next
  <1> QED
    BY <1>3, <1>4

(* A byte that leaves for the other side is a Read.                        *)
LEMMA ReadSeen ==
    ASSUME IInv, IInv', NEW d \in Direction, WriteByte(d)
    PROVE  Relayed!Next
  <1>1. /\ got[d] \in Seq(Nat) /\ Run(got[d], 0) /\ got' = [got EXCEPT ![d] = got'[d]]
        /\ got'[d] \in Seq(Nat) /\ Len(got'[d]) = Len(got[d]) + 1 /\ Run(got'[d], 0)
        /\ Len(got'[d]) <= Len(sent[d])
    BY NextByte DEF IInv, Stretches, Stretch
  <1>2. /\ copy[d] = "write" /\ UNCHANGED sent
        /\ copy'[d] \in {"read", "write"}
        /\ \A e \in Direction : e # d => copy'[e] = copy[e]
    BY DEF WriteByte, IInv, CopyTypes
  <1>3. Handed[d] = sent[d] /\ Handed[d] \in Seq(Nat) /\ Run(Handed[d], 0)
    BY <1>2, HandedRun
  <1>4. Relayed!IsStrictPrefix(got[d], got'[d])
    BY <1>1, RunGrows
  <1>5. Relayed!IsPrefix(got'[d], Handed[d])
    BY <1>1, <1>3, RunsPrefix
  <1>6. Handed' = Handed
    <2>1. \A e \in Direction : Handed'[e] = Handed[e]
      BY <1>2, HandedValue, HandedValueNext DEF Direction
    <2> QED
      BY <2>1, HandedValue, HandedValueNext
  <1>7. ~[e \in Direction |-> Ended(e)][d]
    BY <1>2 DEF Ended
  <1>8. [e \in Direction |-> Ended(e)]' = [e \in Direction |-> Ended(e)]
    BY <1>2 DEF Ended
  <1>9. Relayed!Read(d)
    BY <1>1, <1>4, <1>5, <1>6, <1>7, <1>8 DEF Relayed!Read
  <1> QED
    BY <1>9 DEF Relayed!Next

(* A copy that ends ends its stream.                                       *)
LEMMA EndSeen ==
    ASSUME IInv, IInv', NEW d \in Direction,
           SeesToken(d) \/ ReadsEnd(d) \/ ReadFails(d) \/ WriteFails(d)
    PROVE  Relayed!Next
  <1>1. /\ copy[d] # "off" /\ copy'[d] \in {"ok", "error"} /\ UNCHANGED <<sent, got>>
        /\ \A e \in Direction : e # d => copy'[e] = copy[e]
    BY DEF SeesToken, ReadsEnd, ReadFails, WriteFails, CopyEnds, peers, IInv, CopyTypes
  <1>2. Handed' = Handed
    <2>1. \A e \in Direction : Handed'[e] = Handed[e]
      BY <1>1, HandedValue, HandedValueNext DEF Direction
    <2> QED
      BY <2>1, HandedValue, HandedValueNext
  <1>3. [e \in Direction |-> Ended(e)]' = [[e \in Direction |-> Ended(e)] EXCEPT ![d] = TRUE]
    BY <1>1 DEF Ended
  <1>4. Relayed!End(d)
    BY <1>1, <1>2, <1>3 DEF Relayed!End
  <1> QED
    BY <1>4 DEF Relayed!Next

(* Every step of the connection is a step of the streams, or none.         *)
LEMMA StepSeen ==
    ASSUME IInv, IInv', [Next]_vars
    PROVE  Relayed!Next \/ UNCHANGED Relayed!vars
  <1>1. CASE UNCHANGED copyVars
    BY <1>1, Unseen DEF copyVars, relay, peers
  <1>2. CASE HttpRequest
    <2>1. /\ UNCHANGED <<got, copy>> /\ sent'["ab"] = sent["ab"] /\ copy["ba"] = "off"
      BY <1>2 DEF IInv, RelayOnly, CopyTypes, HttpRequest, NewStream, Direction
    <2> QED
      BY <2>1, Unseen
  <1>3. CASE DialOk \/ PollControl
    <2>1. UNCHANGED <<got, copy, sent>>
      BY <1>3 DEF DialOk, PollControl, relay
    <2> QED
      BY <2>1, Unseen
  <1>4. CASE SocksReplyOk \/ HttpUpgraded \/ TunRelay
    BY <1>4, StartSeen
  <1>5. ASSUME NEW d \in Direction, CopyStep(d)
        PROVE  Relayed!Next \/ UNCHANGED Relayed!vars
    <2>1. CASE ReadChunk(d)
      <3>1. /\ UNCHANGED <<got, sent>> /\ copy[d] = "read" /\ copy'[d] = "write"
            /\ \A e \in Direction : e # d => copy'[e] = copy[e]
        BY <2>1 DEF ReadChunk, IInv, CopyTypes
      <3> QED
        BY <3>1, Unseen DEF Direction
    <2> QED
      BY <1>5, <2>1, EndSeen, ReadSeen DEF CopyStep, Copy
  <1>6. ASSUME NEW d \in Direction, PeerStep(d)
        PROVE  Relayed!Next \/ UNCHANGED Relayed!vars
    <2>1. CASE PeerEnds(d) \/ PeerBreaks(d) \/ PeerTakes(d) \/ PeerStops(d)
      <3>1. UNCHANGED <<got, sent, copy>>
        BY <2>1 DEF PeerEnds, PeerBreaks, PeerTakes, PeerStops, relay
      <3> QED
        BY <3>1, Unseen
    <2> QED
      BY <1>6, <2>1, SendSeen DEF PeerStep, Peer
  <1>7. CASE Socks \/ HttpBadTarget \/ HttpCloses \/ Tun \/ RelayReturns
    BY <1>1, <1>7 DEF Socks, NegotiateMethod, NegotiateMethodFails, RequestConnect,
       RequestAssociate, RequestBind, RequestFails, HttpBadTarget, HttpCloses, Tun, TunTarget,
       TunSkips, RelayReturns, Goto, Close
  <1>8. CASE ServerConnects \/ DialRefused \/ DialFails
    BY <1>1, <1>8 DEF ServerConnects, DialRefused, DialFails
  <1>9. CASE \/ SocksReplyRefused \/ HttpReplyRefused \/ TunRefused \/ HttpConnectOk
             \/ HttpExchange \/ AnswerFails
    BY <1>1, <1>9 DEF SocksReplyRefused, HttpReplyRefused, TunRefused, HttpConnectOk,
       HttpExchange, AnswerFails, Close
  <1>10. CASE BindRelay \/ BindFails \/ PollTunnel \/ PollSocket \/ SendReturns
    BY <1>1, <1>10 DEF BindRelay, BindFails, PollTunnel, PollSocket, SendReturns, Goto, Close
  <1>11. CASE RelaySocketFails \/ TunnelPacketComes \/ \E s \in Sender : DatagramComes(s)
    BY <1>1, <1>11 DEF RelaySocketFails, TunnelPacketComes, DatagramComes, Goto
  <1>12. CASE UNCHANGED vars
    BY <1>1, <1>12 DEF vars
  <1> QED
    BY <1>2, <1>3, <1>4, <1>5, <1>6, <1>7, <1>8, <1>9, <1>10, <1>11, <1>12
       DEF Next, Http, Dial, Answer, Associate

(* Each direction of a relay implements ByteStream: for any number of      *)
(* bytes, chunk size and window, and wherever a read, a write or the dial  *)
(* splits them, what one side gets is a prefix of what the other sent.     *)
THEOREM RelayImplementsByteStream == Spec => RelayInOrder
  <1>1. Init => Relayed!Init
    <2> SUFFICES ASSUME Init PROVE Relayed!Init
      OBVIOUS
    <2>1. Handed = [d \in Direction |-> <<>>]
      BY DEF Init, InitCopy, Handed, Direction
    <2>2. [d \in Direction |-> Ended(d)] = [d \in Direction |-> FALSE]
      <3>1. \A d \in Direction : copy[d] \notin {"ok", "error"}
        BY DEF Init, InitCopy
      <3>2. ASSUME NEW d \in Direction
            PROVE  Ended(d) = FALSE
        BY <3>1 DEF Ended
      <3> QED
        BY <3>2, Zenon
    <2>3. got = [d \in Direction |-> <<>>]
      BY DEF Init, InitCopy
    <2> QED
      BY <2>1, <2>2, <2>3 DEF Relayed!Init
  <1>2. IInv /\ IInv' /\ [Next]_vars => [Relayed!Next]_(Relayed!vars)
    BY StepSeen
  <1> QED
    BY <1>1, <1>2, Invariance, PTL DEF Spec, RelayInOrder, Relayed!Spec

=============================================================================
