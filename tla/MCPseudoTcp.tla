---------------------------- MODULE MCPseudoTcp ----------------------------
(* Instances of PseudoTcp: the plans of the applications and the network.   *)
EXTENDS PseudoTcp

\* The local application sends n bytes over a connection that is open.
Transfer(n) ==
  [open |-> TRUE, connect |-> {"local"}, bytes |-> [local |-> n, remote |-> 0],
   close |-> [e \in Peers |-> {}], inflight |-> 2, copies |-> 0,
   mtu |-> 2, path |-> 2, failures |-> 0]

\* Single byte segments: many in flight, so that they overtake each other.
SmallSegments == [Transfer(5) EXCEPT !.mtu = 1, !.path = 1]
\* From the connect message on, with a packet delivered twice.
FromConnect == [Transfer(2) EXCEPT !.open = FALSE, !.copies = 1]
SimultaneousConnect == [Transfer(1) EXCEPT !.open = FALSE, !.connect = Peers]
\* The path comes to refuse large packets.
PathShrinks(n) == [Transfer(n) EXCEPT !.path = 1]
WriteFails == [Transfer(3) EXCEPT !.failures = 1]
Closing(n) ==
  [Transfer(n) EXCEPT !.close = [local |-> {"GRACEFUL"}, remote |-> {"FORCEFUL"}]]
BothWays == [Transfer(3) EXCEPT !.bytes.remote = 1, !.inflight = 1]

StreamPlans ==
  {SmallSegments, FromConnect, SimultaneousConnect, PathShrinks(2), WriteFails, BothWays,
   [Closing(5) EXCEPT !.inflight = 1], Transfer(6)}

LivePlans ==
  {Transfer(4), [FromConnect EXCEPT !.copies = 0]}
    \cup {[p EXCEPT !.inflight = 1] : p \in {Transfer(5), PathShrinks(2), Closing(3)}}

\* The peer that was connected to is the one that sends.
OpenPlans == {[Transfer(0) EXCEPT !.open = FALSE, !.bytes.remote = 4]}
============================================================================
