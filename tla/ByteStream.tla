------------------------------ MODULE ByteStream ------------------------------
(***************************************************************************)
(* What a relayed byte stream promises: the reader sees a prefix of what   *)
(* was written, nothing is lost, doubled or reordered inside it, and       *)
(* nothing arrives after the stream was ended.  The end may cut off bytes  *)
(* that were written and not yet read.                                     *)
(*                                                                         *)
(* CopyBidirectional implements it for the two directions of a relay, and  *)
(* NetstackTcp for the bytes a host sends to the streams of the netstack.  *)
(***************************************************************************)
EXTENDS SequencesExt

CONSTANT Stream

VARIABLES sent,   \* bytes written to each stream so far
          got,    \* bytes read from it so far
          ended   \* the stream was ended

vars == <<sent, got, ended>>

Init ==
    /\ sent = [s \in Stream |-> <<>>]
    /\ got = [s \in Stream |-> <<>>]
    /\ ended = [s \in Stream |-> FALSE]

Write(s) ==
    /\ IsStrictPrefix(sent[s], sent'[s])
    /\ sent' = [sent EXCEPT ![s] = sent'[s]]
    /\ UNCHANGED <<got, ended>>

Read(s) ==
    /\ ~ended[s]
    /\ IsStrictPrefix(got[s], got'[s])
    /\ IsPrefix(got'[s], sent[s])
    /\ got' = [got EXCEPT ![s] = got'[s]]
    /\ UNCHANGED <<sent, ended>>

End(s) ==
    /\ ended' = [ended EXCEPT ![s] = TRUE]
    /\ UNCHANGED <<sent, got>>

Next == \E s \in Stream : Write(s) \/ Read(s) \/ End(s)

Spec == Init /\ [][Next]_vars
=============================================================================
