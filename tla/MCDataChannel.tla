---------------------------- MODULE MCDataChannel ---------------------------
(* Instances of DataChannel for TLC. *)
EXTENDS DataChannel, TLC

CONSTANTS m1, m2, r1, r2

\* With a limit of 2, the larger message fills a queue and the two overflow it.
Sizes == [m \in Msg \cup RemoteMsg |-> IF m \in {m1, r1} THEN 1 ELSE 2]
=============================================================================
