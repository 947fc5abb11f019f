----------------------------- MODULE ByteStream -----------------------------
(***************************************************************************)
(* What a PseudoTcp connection promises its applications: in each          *)
(* direction, the bytes that were sent are received, each once and in the  *)
(* order in which they were sent.  A byte is its place in the stream.      *)
(***************************************************************************)
EXTENDS Integers, Sequences

CONSTANT Peers

VARIABLES
  sent,   \* sent[e]: how many bytes e has sent
  got     \* got[e]: the bytes of e that its peer has received

streams == <<sent, got>>

Init ==
  /\ sent = [e \in Peers |-> 0]
  /\ got = [e \in Peers |-> <<>>]

\* e sends n more bytes.
Send(e, n) ==
  /\ sent' = [sent EXCEPT ![e] = @ + n]
  /\ UNCHANGED got

\* The peer of e receives the next n bytes.
Receive(e, n) ==
  /\ Len(got[e]) + n <= sent[e]
  /\ got' = [got EXCEPT ![e] = @ \o [i \in 1..n |-> Len(@) + i]]
  /\ UNCHANGED sent

\* Some bytes move; the counts are read off the new state.
Next ==
  \E e \in Peers :
    \/ sent'[e] > sent[e] /\ Send(e, sent'[e] - sent[e])
    \/ Len(got'[e]) > Len(got[e]) /\ Receive(e, Len(got'[e]) - Len(got[e]))

Spec == Init /\ [][Next]_streams
=============================================================================
