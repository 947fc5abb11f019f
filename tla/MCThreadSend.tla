---------------------------- MODULE MCThreadSend ----------------------------
(* Instances of ThreadSend for TLC. *)
EXTENDS ThreadSend, TLC

CONSTANTS ta, tb, tc, c1, c2, c3, h1, h2

\* Two threads that call each other, one of them twice: calls nest three deep.
NestSrc     == c1 :> ta @@ c2 :> tb @@ c3 :> ta
NestDst     == c1 :> tb @@ c2 :> ta @@ c3 :> tb
NestHandler == c1 :> h1 @@ c2 :> h1 @@ c3 :> h2

\* A line: ta calls tb, tb and tc call each other.
LineSrc     == c1 :> ta @@ c2 :> tb @@ c3 :> tc
LineDst     == c1 :> tb @@ c2 :> tc @@ c3 :> tb
LineHandler == [c \in Call |-> h1]
=============================================================================
