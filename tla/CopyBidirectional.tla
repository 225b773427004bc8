-------------------------- MODULE CopyBidirectional --------------------------
(***************************************************************************)
(* copy_bidirectional of crates/ombrac-transport/src/io.rs, with the       *)
(* BufferedStream of crates/ombrac-client/src/connection/stream.rs as one  *)
(* of its two ends.                                                        *)
(*                                                                         *)
(* Two copies run in one task, "ab" from stream a (the local application)  *)
(* to stream b (the tunnel) and "ba" back.  Each reads a chunk and writes  *)
(* it out with write_all; the first to end, for whatever reason, cancels   *)
(* the token the other looks at before it reads, but not while it writes.  *)
(*                                                                         *)
(* The n-th byte a peer sends in a direction is the number n.  The two     *)
(* peers are the environment: they send, end, reset or fail their side,    *)
(* and take what was written to them when they like.                       *)
(***************************************************************************)
EXTENDS Integers, Sequences

CONSTANTS MaxBytes,   \* bound: bytes a peer sends in one direction
          BufSize,    \* DEFAULT_BUF_SIZE
          Window      \* bytes a peer's stream holds before write_all waits

ASSUME CopyAssumption ==
    /\ MaxBytes \in Nat
    /\ BufSize \in Nat \ {0}
    /\ Window \in Nat \ {0}

Direction == {"ab", "ba"}
Other(d) == IF d = "ab" THEN "ba" ELSE "ab"

VARIABLES
    copy,       \* where copy_with_cancel stands in each direction
    buf,        \* the chunk in hand
    written,    \* how much of it write_all has written
    copied,     \* bytes counted so far
    token,      \* the CancellationToken is cancelled
    buffer,     \* BufferedStream: bytes of "ba" left over by the framing
    sent,       \* bytes the source's peer has sent
    unread,     \* of these, the ones still to be read from the stream
    source,     \* what the stream reports once unread is empty
    got,        \* bytes written to the other stream
    untaken,    \* of these, how many its peer has not taken yet
    sink,       \* whether the other stream accepts bytes
    first       \* ghost: how and where the first copy to end ended

relay == <<copy, buf, written, copied, token, buffer, first>>
peers == <<sent, unread, source, got, untaken, sink>>
copyVars == <<relay, peers>>

InitCopy ==
    /\ copy = [d \in Direction |-> "off"]
    /\ buf = [d \in Direction |-> <<>>]
    /\ written = [d \in Direction |-> 0]
    /\ copied = [d \in Direction |-> 0]
    /\ token = FALSE
    /\ buffer = <<>>
    /\ sent = [d \in Direction |-> <<>>]
    /\ unread = [d \in Direction |-> <<>>]
    /\ source = [d \in Direction |-> "open"]
    /\ got = [d \in Direction |-> <<>>]
    /\ untaken = [d \in Direction |-> 0]
    /\ sink = [d \in Direction |-> "open"]
    /\ first = <<>>

(***************************************************************************)
(* One direction: copy_with_cancel and the async block around it.          *)
(***************************************************************************)
\* BufferedStream::poll_read serves the leftover bytes first, and alone.
Buffered(d) == d = "ba" /\ buffer # <<>>
Readable(d) == IF Buffered(d) THEN buffer ELSE unread[d]

\* read returns some of the bytes at hand.
ReadChunk(d) ==
    /\ copy[d] = "read"
    /\ ~token
    /\ \E n \in 1..BufSize :
        /\ n <= Len(Readable(d))
        /\ buf' = [buf EXCEPT ![d] = SubSeq(Readable(d), 1, n)]
        /\ IF Buffered(d)
           THEN buffer' = SubSeq(buffer, n + 1, Len(buffer)) /\ UNCHANGED unread
           ELSE unread' = [unread EXCEPT ![d] = SubSeq(@, n + 1, Len(@))] /\ UNCHANGED buffer
    /\ copy' = [copy EXCEPT ![d] = "write"]
    /\ UNCHANGED <<written, copied, token, first, sent, source, got, untaken, sink>>

\* Mutant: the direction that ends leaves the token alone.
CopyEndsQuietly(d, result, how) ==
    /\ copy' = [copy EXCEPT ![d] = result]
    /\ first' = IF first = <<>> THEN <<how, d>> ELSE first
    /\ UNCHANGED <<buf, written, copied, token, buffer, peers>>

CopyEnds(d, result, how) ==
    /\ copy' = [copy EXCEPT ![d] = result]
    /\ token' = TRUE
    /\ first' = IF first = <<>> THEN <<how, d>> ELSE first
    /\ UNCHANGED <<buf, written, copied, buffer, peers>>

\* The token is looked at first (biased select), whatever the stream holds.
SeesToken(d) ==
    /\ copy[d] = "read"
    /\ token
    /\ CopyEnds(d, "ok", "cancelled")

\* Mutant: the end of the stream is believed before its bytes are read.
ReadsEndEarly(d) ==
    /\ copy[d] = "read"
    /\ ~token
    /\ source[d] \in {"eof", "reset"}
    /\ CopyEnds(d, "ok", source[d])

\* End of file, or ConnectionReset and ConnectionAborted taken for it.
ReadsEnd(d) ==
    /\ copy[d] = "read"
    /\ ~token
    /\ Readable(d) = <<>>
    /\ source[d] \in {"eof", "reset"}
    /\ CopyEnds(d, "ok", source[d])

ReadFails(d) ==
    /\ copy[d] = "read"
    /\ ~token
    /\ Readable(d) = <<>>
    /\ source[d] = "failed"
    /\ CopyEnds(d, "error", "failed")

\* write_all: bytes leave one by one; the chunk is counted when the last one left.
WriteByte(d) ==
    /\ copy[d] = "write"
    /\ sink[d] = "open"
    /\ untaken[d] < Window
    /\ got' = [got EXCEPT ![d] = Append(@, buf[d][written[d] + 1])]
    /\ untaken' = [untaken EXCEPT ![d] = @ + 1]
    /\ IF written[d] + 1 < Len(buf[d])
       THEN /\ written' = [written EXCEPT ![d] = @ + 1]
            /\ UNCHANGED <<copy, buf, copied>>
       ELSE /\ copied' = [copied EXCEPT ![d] = @ + Len(buf[d])]
            /\ written' = [written EXCEPT ![d] = 0]
            /\ buf' = [buf EXCEPT ![d] = <<>>]
            /\ copy' = [copy EXCEPT ![d] = "read"]
    /\ UNCHANGED <<token, buffer, first, sent, unread, source, sink>>

WriteFails(d) ==
    /\ copy[d] = "write"
    /\ sink[d] = "broken"
    /\ CopyEnds(d, "error", "broken")

Copy(d) ==
    \/ ReadChunk(d) \/ SeesToken(d) \/ ReadsEnd(d) \/ ReadFails(d)
    \/ WriteByte(d) \/ WriteFails(d)

\* join! returns when both directions have ended.
CopyReturned == \A d \in Direction : copy[d] \in {"ok", "error"}

(***************************************************************************)
(* The peers.                                                              *)
(***************************************************************************)
PeerSends(d) ==
    /\ source[d] = "open"
    /\ Len(sent[d]) < MaxBytes
    /\ sent' = [sent EXCEPT ![d] = Append(@, Len(@) + 1)]
    /\ unread' = [unread EXCEPT ![d] = Append(@, Len(sent[d]) + 1)]
    /\ UNCHANGED <<relay, source, got, untaken, sink>>

\* The peer shuts down its sending side.
PeerEnds(d) ==
    /\ source[d] = "open"
    /\ source' = [source EXCEPT ![d] = "eof"]
    /\ UNCHANGED <<relay, sent, unread, got, untaken, sink>>

\* A reset or another error; bytes not read yet are lost with it.
PeerBreaks(d) ==
    /\ source[d] = "open"
    /\ \E how \in {"reset", "failed"} : source' = [source EXCEPT ![d] = how]
    /\ unread' = [unread EXCEPT ![d] = <<>>]
    /\ UNCHANGED <<relay, sent, got, untaken, sink>>

PeerTakes(d) ==
    /\ untaken[d] > 0
    /\ untaken' = [untaken EXCEPT ![d] = @ - 1]
    /\ UNCHANGED <<relay, sent, unread, source, got, sink>>

\* The peer reads no more: closed, or STOP_SENDING.
PeerStops(d) ==
    /\ sink[d] = "open"
    /\ sink' = [sink EXCEPT ![d] = "broken"]
    /\ UNCHANGED <<relay, sent, unread, source, got, untaken>>

Peer(d) == PeerSends(d) \/ PeerEnds(d) \/ PeerBreaks(d) \/ PeerTakes(d) \/ PeerStops(d)
=============================================================================
