--------------------------- MODULE MCMessageQueue ---------------------------
(* Instances of MessageQueue for TLC. *)
EXTENDS MessageQueue, TLC

CONSTANTS h1, m1, m2, m3, i1, i2, any, dispose

\* Two messages for one handler and one that disposes of it.
DisposeHandlers == m1 :> h1 @@ m2 :> h1 @@ m3 :> NULL
DisposeIds      == m1 :> i1 @@ m2 :> i1 @@ m3 :> dispose
DisposeDoomed   == m1 :> NULL @@ m2 :> NULL @@ m3 :> h1

\* A message for a handler, and a dispose message with other data, as
\* ProcessAllMessageQueues posts it.
MarkHandlers == m1 :> h1 @@ m2 :> NULL
MarkIds      == m1 :> i1 @@ m2 :> dispose
MarkDoomed   == [m \in Msg |-> NULL]

Forever == -1
LoopForever == {-1}
LoopBoth == {-1, 1}
=============================================================================
