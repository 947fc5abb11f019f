---------------------------- MODULE SctpUseProofs ---------------------------
(***************************************************************************)
(* Theorems about the uses of a sid, for every number of sids, channels    *)
(* and messages: a channel can send or is about to close, and no message   *)
(* reaches the channel of another use. First the effect of each step is    *)
(* put in terms of what is on its way, as sets. Then each step is          *)
(* projected to one sid (SidStep), and the invariant about the use of that *)
(* sid is proved of the projection.                                        *)
(***************************************************************************)
EXTENDS SctpStreamsProofs

-----------------------------------------------------------------------------
(* What the steps do to the queues, as sets *)

\* What waits for the signaling thread, apart from what makes channels ready.
Posted(p) == {m \in Waiting(p) : m.k # "ready"}

\* The request that SendQueuedStreamResets sends.
RequestOf(sids) == [k |-> "request", sids |-> sids]

\* An item and a later one do not open the same sid, and the first does not ask to reset
\* the stream that the second opens.
OpenOnce ==
  {mn \in (Packet \cup Closure) \X (Packet \cup Closure) :
     mn[2].k = "open" => /\ mn[1].k = "open" => mn[1].sid # mn[2].sid
                         /\ mn[1].k = "request" => mn[2].sid \notin mn[1].sids}

\* What is on its way has a type.
LEMMA ItemTypes ==
  ASSUME TypeOK, NEW p \in Peer
  PROVE  /\ wire[p] \in Seq(Packet) /\ sig[p] \in Seq(Closure)
         /\ \A m \in OnWire(p) : m \in Packet
         /\ \A m \in Waiting(p) : m \in Closure
BY DEF TypeOK, OnWire, Waiting, Items

\* What opens no stream can be added.
LEMMA OpenOnceAppend ==
  ASSUME NEW S, S \subseteq Packet \cup Closure, NEW q \in Seq(S), NEW m \in S,
         Ordered(q, OpenOnce), m.k # "open"
  PROVE  Ordered(Append(q, m), OpenOnce)
<1>1. \A n \in Items(q) : <<n, m>> \in OpenOnce
  BY DEF Items, OpenOnce
<1> QED
  BY <1>1, OrderedAppend

\* So can a queue of such items.
LEMMA OpenOnceConcat ==
  ASSUME NEW S, S \subseteq Packet \cup Closure, NEW q \in Seq(S), NEW t \in Seq(S),
         Ordered(q, OpenOnce), \A m \in Items(t) : m.k # "open"
  PROVE  Ordered(q \o t, OpenOnce)
<1>1. \A m \in Items(q), n \in Items(t) : <<m, n>> \in OpenOnce
  BY DEF Items, OpenOnce
<1>2. Ordered(t, OpenOnce)
  BY DEF Items, OpenOnce, Ordered
<1> QED
  BY <1>1, <1>2, OrderedConcat

\* The effect of SendQueuedStreamResets, when w is what is on the wire: nothing, or one
\* request for all that is queued.
SendOutcome(p, queued, sent, w) ==
  /\ OnWire(p)' = Items(w[p])
  /\ queued_reset_streams_'[Other(p)] = queued_reset_streams_[Other(p)]
  /\ sent_reset_streams_'[Other(p)] = sent_reset_streams_[Other(p)]
  /\ \/ /\ queued_reset_streams_'[p] = queued /\ sent_reset_streams_'[p] = sent
        /\ OnWire(Other(p))' = Items(w[Other(p)])
     \/ /\ sent = {} /\ queued_reset_streams_'[p] = {}
        /\ sent_reset_streams_'[p] = queued
        /\ OnWire(Other(p))' = Items(w[Other(p)]) \cup {RequestOf(queued)}

\* The order of what opens streams is kept.
KeepsOpenOnce(w) ==
  (\A x \in Peer : Ordered(w[x], OpenOnce)) => \A x \in Peer : Ordered(wire'[x], OpenOnce)

\* SendQueuedStreamResets does just that, and keeps the order.
LEMMA SendSets ==
  ASSUME NEW p \in Peer, NEW queued \in SUBSET Sid, NEW sent \in SUBSET Sid,
         NEW isBusy \in BOOLEAN, NEW w \in Wires, StreamTypes,
         SendQueuedStreamResets(p, queued, sent, isBusy, w)
  PROVE  SendOutcome(p, queued, sent, w) /\ KeepsOpenOnce(w)
<1> DEFINE q == Other(p)
<1>1. q \in Peer /\ q # p /\ \A x \in Peer : x = p \/ x = q
  BY Peers
<1>2. /\ queued_reset_streams_'[q] = queued_reset_streams_[q]
      /\ sent_reset_streams_'[q] = sent_reset_streams_[q]
  BY <1>1 DEF SendQueuedStreamResets, StreamTypes
<1>3. CASE sent = {} /\ queued # {} /\ up[p] /\ ~isBusy
  <2>1. /\ queued_reset_streams_'[p] = {} /\ sent_reset_streams_'[p] = queued
    BY <1>3 DEF SendQueuedStreamResets, StreamTypes
  <2>2. wire'[p] = w[p] /\ wire'[q] = Append(w[q], RequestOf(queued))
    BY <1>1, <1>3 DEF SendQueuedStreamResets, Wires, ToPeer, RequestOf
  <2>3. RequestOf(queued) \in Packet /\ w[q] \in Seq(Packet) /\ RequestOf(queued).k = "request"
    BY <1>1, ResetPacket DEF RequestOf, Wires
  <2>4. Items(wire'[q]) = Items(w[q]) \cup {RequestOf(queued)}
    BY <2>2, <2>3, ItemsAppend
  <2>5. Ordered(w[q], OpenOnce) => Ordered(wire'[q], OpenOnce)
    BY <2>2, <2>3, OpenOnceAppend
  <2> QED
    BY <1>1, <1>2, <1>3, <2>1, <2>2, <2>4, <2>5 DEF OnWire, SendOutcome, KeepsOpenOnce
<1>4. CASE ~(sent = {} /\ queued # {} /\ up[p] /\ ~isBusy)
  <2>1. /\ queued_reset_streams_'[p] = queued /\ sent_reset_streams_'[p] = sent
    BY <1>4 DEF SendQueuedStreamResets, StreamTypes
  <2>2. wire' = w
    BY <1>4 DEF SendQueuedStreamResets
  <2> QED
    BY <1>2, <2>1, <2>2 DEF OnWire, SendOutcome, KeepsOpenOnce
<1> QED
  BY <1>3, <1>4

\* The effect of ResetStream: the stream is no longer open, and if it was, its reset is
\* queued or sent.
ResetOutcome(p, s) ==
  /\ open_streams_'[p] = open_streams_[p] \ {s}
  /\ open_streams_'[Other(p)] = open_streams_[Other(p)]
  /\ queued_reset_streams_'[Other(p)] = queued_reset_streams_[Other(p)]
  /\ sent_reset_streams_'[Other(p)] = sent_reset_streams_[Other(p)]
  /\ OnWire(p)' = OnWire(p)
  /\ \/ /\ s \notin open_streams_[p]
        /\ queued_reset_streams_'[p] = queued_reset_streams_[p]
        /\ sent_reset_streams_'[p] = sent_reset_streams_[p]
        /\ OnWire(Other(p))' = OnWire(Other(p))
     \/ /\ s \in open_streams_[p]
        /\ queued_reset_streams_'[p] = queued_reset_streams_[p] \cup {s}
        /\ sent_reset_streams_'[p] = sent_reset_streams_[p]
        /\ OnWire(Other(p))' = OnWire(Other(p))
     \/ /\ s \in open_streams_[p]
        /\ sent_reset_streams_[p] = {} /\ queued_reset_streams_'[p] = {}
        /\ sent_reset_streams_'[p] = queued_reset_streams_[p] \cup {s}
        /\ OnWire(Other(p))' =
             OnWire(Other(p)) \cup {RequestOf(queued_reset_streams_[p] \cup {s})}

\* ResetStream does just that, and keeps the order.
LEMMA ResetSets ==
  ASSUME TypeOK, NEW p \in Peer, NEW s \in Sid, ResetStream(p, s)
  PROVE  ResetOutcome(p, s) /\ KeepsOpenOnce(wire)
<1>1. Other(p) \in Peer /\ Other(p) # p
  BY Peers
<1>2. CASE s \notin open_streams_[p] /\ UNCHANGED <<streams, stack>>
  BY <1>2 DEF streams, stack, OnWire, ResetOutcome, KeepsOpenOnce
<1>3. CASE /\ s \in open_streams_[p]
           /\ open_streams_' = [open_streams_ EXCEPT ![p] = @ \ {s}]
           /\ SendQueuedStreamResets(p, queued_reset_streams_[p] \cup {s},
                                     sent_reset_streams_[p], busy[p], wire)
  <2>1. /\ queued_reset_streams_[p] \cup {s} \in SUBSET Sid /\ wire \in Wires
        /\ sent_reset_streams_[p] \in SUBSET Sid /\ busy[p] \in BOOLEAN /\ StreamTypes
    BY DEF TypeOK, StreamTypes, Wires
  <2>2. /\ open_streams_'[p] = open_streams_[p] \ {s}
        /\ open_streams_'[Other(p)] = open_streams_[Other(p)]
    BY <1>1, <1>3 DEF TypeOK
  <2>3. /\ SendOutcome(p, queued_reset_streams_[p] \cup {s}, sent_reset_streams_[p], wire)
        /\ KeepsOpenOnce(wire)
    BY <1>3, <2>1, SendSets
  <2> QED
    BY <1>3, <2>2, <2>3 DEF OnWire, SendOutcome, ResetOutcome
<1> QED
  BY <1>2, <1>3 DEF ResetStream

\* The effect of the INCOMING event.
IncomingOutcome(p, sids, w) ==
  LET remote == (sids \ sent_reset_streams_[p]) \cap open_streams_[p]
      double == (sids \ sent_reset_streams_[p]) \ open_streams_[p]
  IN  /\ open_streams_'[p] = open_streams_[p] \ remote
      /\ open_streams_'[Other(p)] = open_streams_[Other(p)]
      /\ Posted(p)' = Posted(p) \cup {ClosedOf(s) : s \in remote}
      /\ Posted(Other(p))' = Posted(Other(p))
      /\ \A m \in Waiting(p) : m.k = "ready" => m \in Waiting(p)'
      /\ \A m \in Waiting(Other(p)) : m \in Waiting(Other(p))'
      /\ SendOutcome(p, queued_reset_streams_[p] \ double, sent_reset_streams_[p] \ sids, w)
      /\ mishaps' = mishaps \cup {m \in {"overtaken"} : OpenPending(p, double)}

\* OnIncomingReset does just that, and keeps the order.
LEMMA IncomingSets ==
  ASSUME TypeOK, NEW p \in Peer, NEW sids \in SUBSET Sid, NEW isBusy \in BOOLEAN,
         NEW w \in Wires, OnIncomingReset(p, sids, isBusy, w)
  PROVE  /\ IncomingOutcome(p, sids, w) /\ KeepsOpenOnce(w)
         /\ (\A x \in Peer : Ordered(sig[x], OpenOnce)) =>
               \A x \in Peer : Ordered(sig'[x], OpenOnce)
<1> DEFINE q == Other(p)
           remote == (sids \ sent_reset_streams_[p]) \cap open_streams_[p]
           double == (sids \ sent_reset_streams_[p]) \ open_streams_[p]
<1>1. /\ open_streams_' = [open_streams_ EXCEPT ![p] = @ \ remote]
      /\ PeerCloses(p, remote)
      /\ SendQueuedStreamResets(p, queued_reset_streams_[p] \ double,
                                sent_reset_streams_[p] \ sids, isBusy, w)
      /\ mishaps' = mishaps \cup {m \in {"overtaken"} : OpenPending(p, double)}
  BY DEF OnIncomingReset
<1>2. remote \in SUBSET Sid
  OBVIOUS
<1>3. q \in Peer /\ q # p /\ \A x \in Peer : x = p \/ x = q
  BY Peers
<1>4. /\ queued_reset_streams_[p] \ double \in SUBSET Sid
      /\ sent_reset_streams_[p] \ sids \in SUBSET Sid /\ StreamTypes
  BY DEF TypeOK, StreamTypes
<1> HIDE DEF remote, double, q
<1>5. /\ SendOutcome(p, queued_reset_streams_[p] \ double, sent_reset_streams_[p] \ sids, w)
      /\ KeepsOpenOnce(w)
  BY <1>1, <1>4, SendSets
<1>6. PICK t \in Seq(Closure) : /\ sig' = [sig EXCEPT ![p] = @ \o t]
                                /\ Items(t) = {ClosedOf(s) : s \in remote}
  BY <1>1, <1>2, ClosesPosts
<1>7. sig'[p] = sig[p] \o t /\ sig'[q] = sig[q] /\ sig[p] \in Seq(Closure)
  BY <1>3, <1>6 DEF TypeOK
<1>8. Items(sig'[p]) = Items(sig[p]) \cup {ClosedOf(s) : s \in remote}
  <2>1. Items(sig[p] \o t) = Items(sig[p]) \cup Items(t)
    BY <1>7, ItemsConcat
  <2> QED
    BY <2>1, <1>6, <1>7
<1>9. \A m \in Items(t) : m.k = "closed"
  BY <1>6 DEF ClosedOf
<1>10. /\ Posted(p)' = Posted(p) \cup {ClosedOf(s) : s \in remote}
       /\ \A m \in Waiting(p) : m.k = "ready" => m \in Waiting(p)'
  BY <1>6, <1>8, <1>9 DEF Posted, Waiting
<1>11. Posted(q)' = Posted(q) /\ \A m \in Waiting(q) : m \in Waiting(q)'
  BY <1>7 DEF Posted, Waiting
<1>12. Ordered(sig[p], OpenOnce) => Ordered(sig'[p], OpenOnce)
  BY <1>7, <1>9, OpenOnceConcat
<1>13. /\ open_streams_'[p] = open_streams_[p] \ remote /\ open_streams_'[q] = open_streams_[q]
  BY <1>1, <1>3 DEF TypeOK
<1>14. IncomingOutcome(p, sids, w)
  BY <1>1, <1>5, <1>10, <1>11, <1>13 DEF IncomingOutcome, remote, double, q
<1>15. (\A x \in Peer : Ordered(sig[x], OpenOnce)) => \A x \in Peer : Ordered(sig'[x], OpenOnce)
  BY <1>3, <1>7, <1>12
<1> QED
  BY <1>5, <1>14, <1>15

\* A sid is not opened twice by what is on its way.
SigOrder == \A x \in Peer : Ordered(sig[x], OpenOnce)
WireOrder == \A x \in Peer : Ordered(wire[x], OpenOnce)

\* Nothing about a sid is posted or handled.
PostedSame == \A x \in Peer : Posted(x)' = Posted(x)

\* A closure for p that makes channels ready.
LEMMA PostReadySets ==
  ASSUME NEW q \in Seq(Closure), NEW chs \in SUBSET Ch
  PROVE  /\ PostReady(q, chs) \in Seq(Closure)
         /\ Items(PostReady(q, chs)) = Items(q) \cup {[k |-> "ready", chs |-> chs]}
         /\ Ordered(q, OpenOnce) => Ordered(PostReady(q, chs), OpenOnce)
<1> DEFINE m == [k |-> "ready", chs |-> chs]
<1>1. m \in Closure /\ m.k # "open"
  BY ReadyClosure
<1> HIDE DEF m
<1>2. Append(q, m) \in Seq(Closure) /\ Items(Append(q, m)) = Items(q) \cup {m}
  BY <1>1, ItemsAppend
<1>3. Ordered(q, OpenOnce) => Ordered(Append(q, m), OpenOnce)
  BY <1>1, OpenOnceAppend
<1> QED
  BY <1>2, <1>3 DEF PostReady, m

\* Connect posts nothing about a sid, but tells the session.
LEMMA ConnectSets ==
  ASSUME TypeOK, NEW p \in Peer, Connect(p)
  PROVE  /\ PostedSame
         /\ SigOrder => SigOrder'
         /\ Waiting(p)' = Waiting(p) \cup {[k |-> "ready", chs |-> Ch]}
         /\ Waiting(Other(p))' = Waiting(Other(p))
<1>1. /\ sig'[p] = PostReady(sig[p], Ch) /\ sig[p] \in Seq(Closure)
      /\ \A x \in Peer : x # p => sig'[x] = sig[x]
  BY DEF Connect, TypeOK
<1>2. /\ Waiting(p)' = Waiting(p) \cup {[k |-> "ready", chs |-> Ch]}
      /\ Ordered(sig[p], OpenOnce) => Ordered(sig'[p], OpenOnce)
  BY <1>1, PostReadySets DEF Waiting
<1>3. \A x \in Peer : x # p => Waiting(x)' = Waiting(x)
  BY <1>1 DEF Waiting
<1>4. PostedSame
  <2>1. Posted(p)' = Posted(p)
    BY <1>2 DEF Posted
  <2>2. \A x \in Peer : x # p => Posted(x)' = Posted(x)
    BY <1>3 DEF Posted
  <2> QED
    BY <2>1, <2>2 DEF PostedSame
<1> QED
  BY <1>1, <1>2, <1>3, <1>4, Peers DEF SigOrder

\* CreateChannel posts nothing but what makes the channel ready, if the transport is.
LEMMA CreateSets ==
  ASSUME TypeOK, NEW p \in Peer, NEW s \in Sid, NEW c \in Ch, NEW isOpener \in BOOLEAN,
         NEW closures \in Seq(Closure), CreateChannel(p, s, c, isOpener, closures)
  PROVE  /\ {m \in Items(closures) : m.k # "ready"} = Posted(p)'
         /\ sig'[Other(p)] = sig[Other(p)]
         /\ \A m \in Items(closures) : m \in Waiting(p)'
         /\ SctpReady(p) => [k |-> "ready", chs |-> {c}] \in Waiting(p)'
         /\ Ordered(closures, OpenOnce) => Ordered(sig'[p], OpenOnce)
<1>1. Other(p) \in Peer /\ Other(p) # p /\ {c} \in SUBSET Ch
  BY Peers
<1>2. /\ sig'[p] = IF SctpReady(p) THEN PostReady(closures, {c}) ELSE closures
      /\ sig'[Other(p)] = sig[Other(p)]
  BY <1>1 DEF CreateChannel, TypeOK
<1>3. CASE SctpReady(p)
  <2>1. /\ Items(sig'[p]) = Items(closures) \cup {[k |-> "ready", chs |-> {c}]}
        /\ Ordered(closures, OpenOnce) => Ordered(sig'[p], OpenOnce)
    BY <1>1, <1>2, <1>3, PostReadySets
  <2>2. /\ {m \in Items(closures) : m.k # "ready"} = {m \in Items(sig'[p]) : m.k # "ready"}
        /\ \A m \in Items(closures) : m \in Items(sig'[p])
        /\ [k |-> "ready", chs |-> {c}] \in Items(sig'[p])
    BY <2>1
  <2> QED
    BY <1>2, <2>1, <2>2 DEF Posted, Waiting
<1>4. CASE ~SctpReady(p)
  BY <1>2, <1>4 DEF Posted, Waiting
<1> QED
  BY <1>3, <1>4

\* The signaling thread of p handles the closure h, which is the first.
Handles(p, h) ==
  /\ h = Head(sig[p]) /\ h \in Waiting(p) /\ h \in Closure
  /\ Waiting(p) = {h} \cup Items(Tail(sig[p])) /\ Tail(sig[p]) \in Seq(Closure)
  /\ SigOrder => /\ Ordered(Tail(sig[p]), OpenOnce)
                 /\ \A n \in Items(Tail(sig[p])) : <<h, n>> \in OpenOnce

\* TakeClosure finds such a closure.
LEMMA TakeSets ==
  ASSUME TypeOK, NEW p \in Peer, NEW kind, TakeClosure(p, kind)
  PROVE  Handles(p, Head(sig[p])) /\ Head(sig[p]).k = kind
<1>1. sig[p] \in Seq(Closure) /\ sig[p] # <<>> /\ Head(sig[p]).k = kind
  BY DEF TypeOK, TakeClosure
<1>2. /\ Items(sig[p]) = {Head(sig[p])} \cup Items(Tail(sig[p]))
      /\ Tail(sig[p]) \in Seq(Closure) /\ Head(sig[p]) \in Closure
  BY <1>1, ItemsTail
<1>3. SigOrder => /\ Ordered(Tail(sig[p]), OpenOnce)
                  /\ \A n \in Items(Tail(sig[p])) : <<Head(sig[p]), n>> \in OpenOnce
  BY <1>1, OrderedTail DEF SigOrder
<1> QED
  BY <1>1, <1>2, <1>3 DEF Handles, Waiting

\* The effect on the queue of closures of p when h has been handled.
HandledOutcome(p, h) ==
  /\ Posted(p)' = {m \in Items(Tail(sig[p])) : m.k # "ready"}
  /\ Posted(p) = {m \in {h} : m.k # "ready"} \cup Posted(p)'
  /\ Posted(Other(p))' = Posted(Other(p))
  /\ Waiting(p) = {h} \cup Waiting(p)' /\ Waiting(Other(p))' = Waiting(Other(p))
  /\ SigOrder => SigOrder' /\ \A n \in Posted(p)' : <<h, n>> \in OpenOnce

\* A closure that is handled is gone, and no other one.
LEMMA HandledSets ==
  ASSUME TypeOK, NEW p \in Peer, NEW kind, TakeClosure(p, kind),
         sig' = [sig EXCEPT ![p] = Tail(@)]
  PROVE  HandledOutcome(p, Head(sig[p]))
<1>1. Handles(p, Head(sig[p]))
  BY TakeSets
<1>2. /\ sig'[p] = Tail(sig[p]) /\ \A x \in Peer : x # p => sig'[x] = sig[x]
      /\ Other(p) \in Peer /\ Other(p) # p
  BY Peers DEF TypeOK
<1>3. /\ Waiting(p)' = Items(Tail(sig[p])) /\ Waiting(Other(p))' = Waiting(Other(p))
  BY <1>2 DEF Waiting
<1>4. SigOrder => SigOrder'
  BY <1>1, <1>2 DEF SigOrder, Handles
<1> QED
  BY <1>1, <1>3, <1>4 DEF HandledOutcome, Handles, Posted

\* OnDataReceived handles data or an OPEN_ACK.
LEMMA ReceivedSets ==
  ASSUME TypeOK, NEW p \in Peer, OnDataReceived(p)
  PROVE  HandledOutcome(p, Head(sig[p])) /\ Head(sig[p]).k \in {"data", "ack"}
<1>1. PICK kind \in {"data", "ack"} : TakeClosure(p, kind)
  BY DEF OnDataReceived
<1>2. sig' = [sig EXCEPT ![p] = Tail(@)]
  BY DEF OnDataReceived
<1> QED
  BY <1>1, <1>2, HandledSets DEF TakeClosure

\* The network thread of p reads the packet h, which is the first; w is then on the wire.
ReadOutcome(p, h) ==
  /\ h = Head(wire[p]) /\ h \in OnWire(p) /\ h \in Packet
  /\ OnWire(p) = {h} \cup Items(Taken(p)[p])
  /\ Taken(p)[Other(p)] = wire[Other(p)]
  /\ Taken(p) \in Wires
  /\ WireOrder => /\ \A x \in Peer : Ordered(Taken(p)[x], OpenOnce)
                  /\ \A n \in Items(Taken(p)[p]) : <<h, n>> \in OpenOnce

\* ReadPacket finds such a packet.
LEMMA ReadSets ==
  ASSUME TypeOK, NEW p \in Peer, NEW kind, ReadPacket(p, kind)
  PROVE  ReadOutcome(p, Head(wire[p])) /\ Head(wire[p]).k = kind
<1>1. wire[p] \in Seq(Packet) /\ wire[p] # <<>> /\ Head(wire[p]).k = kind
  BY DEF TypeOK, ReadPacket
<1>2. /\ Items(wire[p]) = {Head(wire[p])} \cup Items(Tail(wire[p]))
      /\ Tail(wire[p]) \in Seq(Packet) /\ Head(wire[p]) \in Packet
  BY <1>1, ItemsTail
<1>3. Taken(p) \in Wires
  BY TakenType
<1>4. /\ Taken(p)[p] = Tail(wire[p]) /\ \A x \in Peer : x # p => Taken(p)[x] = wire[x]
      /\ Other(p) \in Peer /\ Other(p) # p
  BY Peers DEF TypeOK, Taken
<1>5. WireOrder => /\ Ordered(Tail(wire[p]), OpenOnce)
                   /\ \A n \in Items(Tail(wire[p])) : <<Head(wire[p]), n>> \in OpenOnce
  BY <1>1, OrderedTail DEF WireOrder
<1>6. WireOrder => \A x \in Peer : Ordered(Taken(p)[x], OpenOnce)
  BY <1>4, <1>5 DEF WireOrder
<1> QED
  BY <1>1, <1>2, <1>3, <1>4, <1>5, <1>6 DEF ReadOutcome, OnWire

\* An answer of p that belongs to the handshake.
LEMMA AnswerSets ==
  ASSUME NEW p \in Peer, NEW w \in Wires, NEW m \in Packet, m.k # "open"
  PROVE  /\ ToPeer(p, w, m) \in Wires /\ ToPeer(p, w, m)[p] = w[p]
         /\ Items(ToPeer(p, w, m)[Other(p)]) = Items(w[Other(p)]) \cup {m}
         /\ (\A x \in Peer : Ordered(w[x], OpenOnce)) =>
              \A x \in Peer : Ordered(ToPeer(p, w, m)[x], OpenOnce)
<1>1. Other(p) \in Peer /\ Other(p) # p /\ w[Other(p)] \in Seq(Packet)
  BY Peers DEF Wires
<1>2. /\ ToPeer(p, w, m)[Other(p)] = Append(w[Other(p)], m)
      /\ \A x \in Peer : x # Other(p) => ToPeer(p, w, m)[x] = w[x]
  BY <1>1 DEF ToPeer, Wires
<1>3. Items(Append(w[Other(p)], m)) = Items(w[Other(p)]) \cup {m}
  BY <1>1, ItemsAppend
<1>4. Ordered(w[Other(p)], OpenOnce) => Ordered(Append(w[Other(p)], m), OpenOnce)
  BY <1>1, OpenOnceAppend
<1> QED
  BY <1>1, <1>2, <1>3, <1>4, ToPeerType

\* The whole effect of a packet of the handshake on the wire and on the streams.
RequestOutcome(p) ==
  \E kind \in {"refuse", "agree"}, w \in Wires :
    LET h == Head(wire[p])
    IN  /\ ReadOutcome(p, h) /\ h.k = "request" /\ h.sids \in SUBSET Sid
        /\ OnWire(p) = {h} \cup Items(w[p])
        /\ Items(w[Other(p)]) = OnWire(Other(p)) \cup {[k |-> kind, sids |-> h.sids]}
        /\ IncomingOutcome(p, h.sids, w)
        /\ WireOrder => WireOrder' /\ \A n \in Items(w[p]) : <<h, n>> \in OpenOnce
        /\ SigOrder => SigOrder'

\* OnRequest does just that.
LEMMA RequestSets ==
  ASSUME TypeOK, NEW p \in Peer, OnRequest(p)
  PROVE  RequestOutcome(p)
<1> DEFINE h == Head(wire[p])
           kind == IF busy[p] THEN "refuse" ELSE "agree"
           m == [k |-> kind, sids |-> h.sids]
           w == ToPeer(p, Taken(p), m)
<1>1. ReadOutcome(p, h) /\ h.k = "request"
  BY ReadSets DEF OnRequest
<1>2. h.sids \in SUBSET Sid /\ Taken(p) \in Wires
  BY <1>1, PacketOf DEF ReadOutcome
<1>3. kind \in {"refuse", "agree"}
  OBVIOUS
<1>4. OnIncomingReset(p, h.sids, TRUE, w) /\ TRUE \in BOOLEAN
  BY DEF OnRequest
<1> HIDE DEF h, kind
<1>5. m \in Packet /\ m.k # "open"
  BY <1>2, <1>3, ResetPacket
<1> HIDE DEF m
<1>6. /\ w \in Wires /\ w[p] = Taken(p)[p]
      /\ Items(w[Other(p)]) = Items(Taken(p)[Other(p)]) \cup {m}
      /\ (\A x \in Peer : Ordered(Taken(p)[x], OpenOnce)) =>
              \A x \in Peer : Ordered(w[x], OpenOnce)
  BY <1>2, <1>5, AnswerSets
<1> HIDE DEF w
<1>7. /\ IncomingOutcome(p, h.sids, w) /\ KeepsOpenOnce(w)
      /\ SigOrder => SigOrder'
  BY <1>2, <1>4, <1>6, IncomingSets DEF SigOrder
<1>8. OnWire(p) = {h} \cup Items(w[p]) /\ Items(w[Other(p)]) = OnWire(Other(p)) \cup {m}
  BY <1>1, <1>6 DEF ReadOutcome, OnWire
<1>9. WireOrder => WireOrder' /\ \A n \in Items(w[p]) : <<h, n>> \in OpenOnce
  BY <1>1, <1>6, <1>7 DEF ReadOutcome, KeepsOpenOnce, WireOrder
<1> QED
  BY <1>1, <1>2, <1>3, <1>6, <1>7, <1>8, <1>9 DEF RequestOutcome, h, m

AgreedOutcome(p) ==
  \E w \in Wires :
    LET h == Head(wire[p])
    IN  /\ ReadOutcome(p, h) /\ h.k = "agree" /\ h.sids \in SUBSET Sid
        /\ OnWire(p) = {h} \cup Items(w[p])
        /\ Items(w[Other(p)]) = OnWire(Other(p)) \cup {[k |-> "done", sids |-> h.sids]}
        /\ IncomingOutcome(p, h.sids, w)
        /\ WireOrder => WireOrder'
        /\ SigOrder => SigOrder'

\* OnAgreed does just that.
LEMMA AgreedSets ==
  ASSUME TypeOK, NEW p \in Peer, OnAgreed(p)
  PROVE  AgreedOutcome(p)
<1> DEFINE h == Head(wire[p])
           m == [k |-> "done", sids |-> h.sids]
           w == ToPeer(p, Taken(p), m)
<1>1. ReadOutcome(p, h) /\ h.k = "agree"
  BY ReadSets DEF OnAgreed
<1>2. h.sids \in SUBSET Sid /\ Taken(p) \in Wires
  BY <1>1, PacketOf DEF ReadOutcome
<1>4. OnIncomingReset(p, h.sids, FALSE, w) /\ FALSE \in BOOLEAN
  BY DEF OnAgreed
<1> HIDE DEF h
<1>5. m \in Packet /\ m.k # "open"
  BY <1>2, ResetPacket
<1> HIDE DEF m
<1>6. /\ w \in Wires /\ w[p] = Taken(p)[p]
      /\ Items(w[Other(p)]) = Items(Taken(p)[Other(p)]) \cup {m}
      /\ (\A x \in Peer : Ordered(Taken(p)[x], OpenOnce)) =>
              \A x \in Peer : Ordered(w[x], OpenOnce)
  BY <1>2, <1>5, AnswerSets
<1> HIDE DEF w
<1>7. /\ IncomingOutcome(p, h.sids, w) /\ KeepsOpenOnce(w)
      /\ SigOrder => SigOrder'
  BY <1>2, <1>4, <1>6, IncomingSets DEF SigOrder
<1>8. OnWire(p) = {h} \cup Items(w[p]) /\ Items(w[Other(p)]) = OnWire(Other(p)) \cup {m}
  BY <1>1, <1>6 DEF ReadOutcome, OnWire
<1>9. WireOrder => WireOrder'
  BY <1>1, <1>6, <1>7 DEF ReadOutcome, KeepsOpenOnce, WireOrder
<1> QED
  BY <1>1, <1>2, <1>6, <1>7, <1>8, <1>9 DEF AgreedOutcome, h, m

\* The signaling thread closes the channel on s.
LEMMA CloseSets ==
  ASSUME TypeOK, NEW p \in Peer, NEW s \in Sid, CloseChannel(p, s)
  PROVE  /\ ResetOutcome(p, s) /\ KeepsOpenOnce(wire)
         /\ channels'[p][s] = None /\ used_sids_'[p] = used_sids_[p] \ {s}
         /\ used_sids_'[Other(p)] = used_sids_[Other(p)]
         /\ \A x \in Peer, t \in Sid : x # p \/ t # s => channels'[x][t] = channels[x][t]
<1>1. ResetOutcome(p, s) /\ KeepsOpenOnce(wire)
  BY ResetSets DEF CloseChannel
<1> QED
  BY <1>1, Peers DEF CloseChannel, TypeOK

\* Closures of p that a step of the application or of the stack leaves alone.
LEMMA PostedUnchanged ==
  ASSUME UNCHANGED sig
  PROVE  /\ PostedSame
         /\ SigOrder => SigOrder'
         /\ \A x \in Peer : Waiting(x)' = Waiting(x)
BY DEF PostedSame, Posted, Waiting, SigOrder

\* Steps that send and read nothing.
LEMMA WireUnchanged ==
  ASSUME UNCHANGED wire
  PROVE  /\ \A x \in Peer : OnWire(x)' = OnWire(x)
         /\ WireOrder => WireOrder'
BY DEF OnWire, WireOrder

\* The effect of InternalCreateDataChannel on channels and streams.
CreateOutcome(p, s, c, isOpener) ==
  /\ used_sids_'[p] = used_sids_[p] \cup {s}
  /\ used_sids_'[Other(p)] = used_sids_[Other(p)]
  /\ channels'[p][s] = [ch |-> c, state |-> "kConnecting", opener |-> isOpener]
  /\ channels'[p][s] # None
  /\ \A x \in Peer, t \in Sid : x # p \/ t # s => channels'[x][t] = channels[x][t]
  /\ open_streams_'[p] = open_streams_[p] \cup {t \in {s} : MayOpen(p, t)}
  /\ open_streams_'[Other(p)] = open_streams_[Other(p)]

\* CreateChannel does just that.
LEMMA CreateOthers ==
  ASSUME TypeOK, NEW p \in Peer, NEW s \in Sid, NEW c \in Ch, NEW isOpener \in BOOLEAN,
         NEW closures, CreateChannel(p, s, c, isOpener, closures)
  PROVE  CreateOutcome(p, s, c, isOpener)
<1>1. Other(p) \in Peer /\ Other(p) # p
  BY Peers
<1>2. /\ used_sids_'[p] = used_sids_[p] \cup {s}
      /\ used_sids_'[Other(p)] = used_sids_[Other(p)]
      /\ open_streams_'[p] = open_streams_[p] \cup {t \in {s} : MayOpen(p, t)}
      /\ open_streams_'[Other(p)] = open_streams_[Other(p)]
  BY <1>1 DEF CreateChannel, OpenStream, TypeOK
<1>3. /\ channels'[p][s] = [ch |-> c, state |-> "kConnecting", opener |-> isOpener]
      /\ \A x \in Peer, t \in Sid : x # p \/ t # s => channels'[x][t] = channels[x][t]
  BY DEF CreateChannel, TypeOK
<1>4. channels'[p][s] # None
  <2>1. 0 \notin Ch
    BY StreamAssumption DEF Ch
  <2> QED
    BY <1>3, <2>1 DEF None
<1> QED
  BY <1>2, <1>3, <1>4 DEF CreateOutcome

-----------------------------------------------------------------------------
(* Uses of a sid *)

\* The side that allocates the sid, and the other one.
Owner(s) == IF s % 2 = 0 THEN "client" ELSE "server"
Guest(s) == Other(Owner(s))

\* One peer is the owner of a sid, the other the guest.
LEMMA Sides ==
  ASSUME NEW s \in Sid
  PROVE  /\ Owner(s) \in Peer /\ Guest(s) \in Peer /\ Owner(s) # Guest(s)
         /\ Other(Owner(s)) = Guest(s) /\ Other(Guest(s)) = Owner(s)
         /\ \A p \in Peer : p = Owner(s) \/ p = Guest(s)
         /\ \A p \in Peer : (p = Owner(s)) <=> (Other(p) = Guest(s))
BY DEF Owner, Guest, Other, Peer

\* AllocateSid returns a sid that its side owns and does not use.
LEMMA AllocatedSid ==
  ASSUME TypeOK, NEW p \in Peer, NEW s \in AllocateSid(p)
  PROVE  s \in Sid /\ p = Owner(s) /\ s \notin used_sids_[p]
<1>1. /\ s \in 0..kMaxSctpSid /\ s % 2 = (IF p = "client" THEN 0 ELSE 1)
      /\ s \notin used_sids_[p]
  BY DEF AllocateSid, Candidates
<1> QED
  BY <1>1 DEF Sid, Owner, Peer

\* CreateDataChannel on the sid s.
CreatedOutcome(p, s) ==
  /\ s \in Sid /\ p = Owner(s) /\ s \notin used_sids_[p]
  /\ created + 1 \in Ch
  /\ CreateOutcome(p, s, created + 1, TRUE)
  /\ PostedSame
  /\ SigOrder => SigOrder'
  /\ \A x \in Peer : OnWire(x)' = OnWire(x)
  /\ WireOrder => WireOrder'
  /\ "early" \notin mishaps' => Over(s)
  /\ \A x \in Peer : \A m \in Waiting(x) : m \in Waiting(x)'
  /\ SctpReady(p) => [k |-> "ready", chs |-> {created + 1}] \in Waiting(p)'

\* CreateDataChannel does just that, for some sid.
LEMMA CreatedSets ==
  ASSUME TypeOK, NEW p \in Peer, CreateDataChannel(p)
  PROVE  \E s \in Sid : CreatedOutcome(p, s)
<1>1. PICK s \in AllocateSid(p) :
          /\ CreateChannel(p, s, created + 1, TRUE, sig[p])
          /\ mishaps' = mishaps \cup {m \in {"early"} : ~Over(s)}
  BY DEF CreateDataChannel
<1>2. s \in Sid /\ p = Owner(s) /\ s \notin used_sids_[p]
  BY <1>1, AllocatedSid
<1>3. created + 1 \in Ch /\ sig[p] \in Seq(Closure) /\ TRUE \in BOOLEAN
  BY StreamAssumption DEF CreateDataChannel, TypeOK, Ch
<1>4. CreateOutcome(p, s, created + 1, TRUE)
  BY <1>1, <1>2, <1>3, CreateOthers
<1>5. /\ {m \in Items(sig[p]) : m.k # "ready"} = Posted(p)'
      /\ sig'[Other(p)] = sig[Other(p)]
      /\ \A m \in Items(sig[p]) : m \in Waiting(p)'
      /\ SctpReady(p) => [k |-> "ready", chs |-> {created + 1}] \in Waiting(p)'
      /\ Ordered(sig[p], OpenOnce) => Ordered(sig'[p], OpenOnce)
  BY <1>1, <1>2, <1>3, CreateSets
<1>6. Posted(p)' = Posted(p) /\ Posted(Other(p))' = Posted(Other(p))
  BY <1>5 DEF Posted, Waiting
<1>7. PostedSame
  BY <1>6, Peers DEF PostedSame
<1>8. SigOrder => SigOrder'
  BY <1>5, Peers DEF SigOrder
<1>9. \A x \in Peer : \A m \in Waiting(x) : m \in Waiting(x)'
  <2>1. \A m \in Waiting(p) : m \in Waiting(p)'
    BY <1>5 DEF Waiting
  <2>2. \A m \in Waiting(Other(p)) : m \in Waiting(Other(p))'
    BY <1>5 DEF Waiting
  <2> QED
    BY <2>1, <2>2, Peers
<1>10. /\ \A x \in Peer : OnWire(x)' = OnWire(x)
       /\ WireOrder => WireOrder'
  BY WireUnchanged DEF CreateDataChannel, stack
<1>11. "early" \notin mishaps' => Over(s)
  BY <1>1
<1> QED
  BY <1>2, <1>3, <1>4, <1>5, <1>7, <1>8, <1>9, <1>10, <1>11 DEF CreatedOutcome

\* OnDataChannelOpenMessage of the OPEN h.
OpenedOutcome(p, h) ==
  /\ h.k = "open" /\ h \in Posted(p) /\ h.sid \in Sid /\ h.ch \in Ch
  /\ Posted(p) = {h} \cup Posted(p)'
  /\ Posted(Other(p))' = Posted(Other(p))
  /\ \A m \in Waiting(p) : m.k = "ready" => m \in Waiting(p)'
  /\ \A m \in Waiting(Other(p)) : m \in Waiting(Other(p))'
  /\ SigOrder => SigOrder' /\ \A n \in Posted(p)' : <<h, n>> \in OpenOnce
  /\ \A x \in Peer : OnWire(x)' = OnWire(x)
  /\ WireOrder => WireOrder'
  /\ \/ /\ h.sid \in used_sids_[p]
        /\ UNCHANGED <<used_sids_, channels, open_streams_>>
     \/ /\ h.sid \notin used_sids_[p]
        /\ CreateOutcome(p, h.sid, h.ch, FALSE)
        /\ SctpReady(p) => [k |-> "ready", chs |-> {h.ch}] \in Waiting(p)'

\* OnDataChannelOpenMessage does just that.
LEMMA OpenedSets ==
  ASSUME TypeOK, NEW p \in Peer, OnDataChannelOpenMessage(p)
  PROVE  OpenedOutcome(p, Head(sig[p]))
<1> DEFINE h == Head(sig[p])
           q == Other(p)
<1>1. Handles(p, h) /\ h.k = "open" /\ TakeClosure(p, "open")
  BY TakeSets DEF OnDataChannelOpenMessage
<1>2. h.sid \in Sid /\ h.ch \in Ch /\ FALSE \in BOOLEAN
  BY <1>1, ClosureOf DEF Handles
<1>3. h \in Posted(p)
  BY <1>1 DEF Handles, Posted
<1>4. /\ \A x \in Peer : OnWire(x)' = OnWire(x)
      /\ WireOrder => WireOrder'
  BY WireUnchanged DEF OnDataChannelOpenMessage, stack
<1>5. CASE /\ h.sid \in used_sids_[p]
           /\ sig' = [sig EXCEPT ![p] = Tail(@)]
           /\ UNCHANGED <<alloc, open_streams_>>
  <2>1. HandledOutcome(p, h)
    BY <1>1, <1>5, HandledSets
  <2> HIDE DEF h, q
  <2>2. Posted(p) = {h} \cup Posted(p)'
    BY <2>1, <1>1 DEF HandledOutcome
  <2> QED
    BY <1>1, <1>2, <1>3, <1>4, <1>5, <2>1, <2>2
       DEF HandledOutcome, OpenedOutcome, alloc, h
<1>6. CASE /\ h.sid \notin used_sids_[p]
           /\ CreateChannel(p, h.sid, h.ch, FALSE, Tail(sig[p]))
  <2> HIDE DEF h
  <2>0. Tail(sig[p]) \in Seq(Closure)
    BY <1>1 DEF Handles
  <2>1. CreateOutcome(p, h.sid, h.ch, FALSE)
    BY <1>2, <1>6, CreateOthers
  <2>2. /\ {m \in Items(Tail(sig[p])) : m.k # "ready"} = Posted(p)'
        /\ sig'[q] = sig[q]
        /\ \A m \in Items(Tail(sig[p])) : m \in Waiting(p)'
        /\ SctpReady(p) => [k |-> "ready", chs |-> {h.ch}] \in Waiting(p)'
        /\ Ordered(Tail(sig[p]), OpenOnce) => Ordered(sig'[p], OpenOnce)
    BY <1>2, <1>6, <2>0, CreateSets
  <2>3. Posted(p) = {h} \cup Posted(p)'
    <3>1. Posted(p) = {m \in {h} \cup Items(Tail(sig[p])) : m.k # "ready"}
      BY <1>1 DEF Handles, Posted
    <3> QED
      BY <3>1, <2>2, <1>1
  <2>4. Posted(q)' = Posted(q) /\ \A m \in Waiting(q) : m \in Waiting(q)'
    BY <2>2 DEF Posted, Waiting
  <2>5. \A m \in Waiting(p) : m.k = "ready" => m \in Waiting(p)'
    BY <1>1, <2>2 DEF Handles
  <2>6. SigOrder => SigOrder' /\ \A n \in Posted(p)' : <<h, n>> \in OpenOnce
    BY <1>1, <2>2, Peers DEF SigOrder, Handles
  <2> QED
    BY <1>1, <1>2, <1>3, <1>4, <1>6, <2>1, <2>2, <2>3, <2>4, <2>5, <2>6
       DEF OpenedOutcome, h
<1> QED
  BY <1>5, <1>6 DEF OnDataChannelOpenMessage

\* OnChannelReady: what p sends.
ReadyOutcome(p) ==
  /\ \A x \in Peer : x # p => \A t \in Sid : channels'[x][t] = channels[x][t]
  /\ \A t \in Sid : t \notin Told(p) => channels'[p][t] = channels[p][t]
  /\ \A t \in Told(p) : /\ t \in Sid /\ channels[p][t] # None
                        /\ channels[p][t].state = "kConnecting"
                        /\ channels'[p][t] # None /\ channels'[p][t].state = "kOpen"
                        /\ channels'[p][t].ch = channels[p][t].ch
                        /\ channels'[p][t].opener = channels[p][t].opener
                        /\ channels[p][t].ch \in Ch
  /\ PostedSame
  /\ SigOrder => SigOrder'
  /\ Waiting(p) = {Head(sig[p])} \cup Waiting(p)'
  /\ Waiting(Other(p))' = Waiting(Other(p))
  /\ OnWire(p)' = OnWire(p)
  /\ OnWire(Other(p))' = OnWire(Other(p)) \cup {HelloOf(p, s) : s \in Told(p)}

\* OnChannelReady does just that.
LEMMA ReadySets ==
  ASSUME TypeOK, NEW p \in Peer, OnChannelReady(p)
  PROVE  ReadyOutcome(p)
<1>1. TakeClosure(p, "ready") /\ sig' = [sig EXCEPT ![p] = Tail(@)]
  BY DEF OnChannelReady
<1>2. HandledOutcome(p, Head(sig[p])) /\ Head(sig[p]).k = "ready"
  BY <1>1, HandledSets, TakeSets
<1>3. Posted(p)' = Posted(p) /\ Posted(Other(p))' = Posted(Other(p))
  BY <1>2 DEF HandledOutcome
<1>4. PostedSame
  BY <1>3, Peers DEF PostedSame
<1>5. PICK t \in Seq(Packet) : /\ wire' = [wire EXCEPT ![Other(p)] = @ \o t]
                               /\ Items(t) = {HelloOf(p, s) : s \in Told(p)}
  BY ReadySends
<1>6. /\ wire'[p] = wire[p] /\ wire'[Other(p)] = wire[Other(p)] \o t
      /\ wire[Other(p)] \in Seq(Packet)
  BY <1>5, Peers DEF TypeOK
<1>7. /\ OnWire(p)' = OnWire(p)
      /\ OnWire(Other(p))' = OnWire(Other(p)) \cup {HelloOf(p, s) : s \in Told(p)}
  <2>1. Items(wire[Other(p)] \o t) = Items(wire[Other(p)]) \cup Items(t)
    BY <1>6, ItemsConcat
  <2> QED
    BY <2>1, <1>5, <1>6 DEF OnWire
<1>8. channels' = [channels EXCEPT ![p] =
                    [s \in Sid |-> IF s \in Told(p) THEN [@[s] EXCEPT !.state = "kOpen"]
                                                    ELSE @[s]]]
  BY DEF OnChannelReady
<1>9. /\ \A x \in Peer : x # p => \A s \in Sid : channels'[x][s] = channels[x][s]
      /\ \A s \in Sid : s \notin Told(p) => channels'[p][s] = channels[p][s]
      /\ \A s \in Sid : s \in Told(p) =>
              channels'[p][s] = [channels[p][s] EXCEPT !.state = "kOpen"]
  BY <1>8 DEF TypeOK
<1>10. ASSUME NEW s \in Told(p)
       PROVE  /\ s \in Sid /\ channels[p][s] # None
              /\ channels[p][s].state = "kConnecting"
              /\ channels'[p][s] # None /\ channels'[p][s].state = "kOpen"
              /\ channels'[p][s].ch = channels[p][s].ch
              /\ channels'[p][s].opener = channels[p][s].opener
              /\ channels[p][s].ch \in Ch
  <2>1. /\ s \in Sid /\ channels[p][s] # None /\ channels[p][s].state = "kConnecting"
        /\ channels[p][s].ch \in Ch
    BY <1>1, ToldFacts
  <2>2. channels[p][s] \in [ch : Ch, state : {"kConnecting", "kOpen"}, opener : BOOLEAN]
    BY <2>1 DEF TypeOK
  <2>3. channels'[p][s] = [channels[p][s] EXCEPT !.state = "kOpen"]
    BY <1>9, <2>1
  <2>4. /\ channels'[p][s].state = "kOpen" /\ channels'[p][s].ch = channels[p][s].ch
        /\ channels'[p][s].opener = channels[p][s].opener
    BY <2>2, <2>3
  <2>5. channels'[p][s] # None
    <3>1. 0 \notin Ch
      BY StreamAssumption DEF Ch
    <3> QED
      BY <3>1, <2>1, <2>4 DEF None
  <2> QED
    BY <2>1, <2>4, <2>5
<1> QED
  BY <1>2, <1>4, <1>7, <1>9, <1>10 DEF ReadyOutcome, HandledOutcome

\* OnDataFromSctpToChannel of the packet h.
MovedOutcome(p, h) ==
  /\ h \in OnWire(p) /\ h.k \in {"data", "open", "ack"} /\ h.sid \in Sid /\ h.ch \in Ch
  /\ OnWire(p) = {h} \cup OnWire(p)' /\ OnWire(Other(p))' = OnWire(Other(p))
  /\ Posted(p)' = Posted(p) \cup {h} /\ Posted(Other(p))' = Posted(Other(p))
  /\ \A x \in Peer : \A m \in Waiting(x) : m \in Waiting(x)'
  /\ WireOrder => WireOrder' /\ \A n \in OnWire(p)' : <<h, n>> \in OpenOnce
  /\ SigOrder /\ (\A n \in Posted(p) : n.k = "open" => h.k # "open" \/ n.sid # h.sid)
       => SigOrder'

\* OnDataFromSctpToChannel does just that.
LEMMA MovedSets ==
  ASSUME TypeOK, NEW p \in Peer, OnDataFromSctpToChannel(p)
  PROVE  MovedOutcome(p, Head(wire[p]))
<1> DEFINE h == Head(wire[p])
           q == Other(p)
<1>1. ReadOutcome(p, h) /\ h.k \in {"data", "open", "ack"}
  BY ReadSets DEF OnDataFromSctpToChannel
<1>2. wire' = Taken(p) /\ sig' = [sig EXCEPT ![p] = Append(@, h)]
  BY DEF OnDataFromSctpToChannel
<1>3. q \in Peer /\ q # p /\ \A x \in Peer : x = p \/ x = q
  BY Peers
<1> HIDE DEF h, q
<1>4. h \in Closure /\ h.sid \in Sid /\ h.ch \in Ch /\ h \in OnWire(p)
  BY <1>1, PacketOf DEF ReadOutcome, Closure
<1>5. OnWire(p) = {h} \cup OnWire(p)' /\ OnWire(q)' = OnWire(q)
  BY <1>1, <1>2 DEF ReadOutcome, OnWire, q
<1>6. WireOrder => WireOrder' /\ \A n \in OnWire(p)' : <<h, n>> \in OpenOnce
  BY <1>1, <1>2 DEF ReadOutcome, OnWire, WireOrder
<1>7. sig'[p] = Append(sig[p], h) /\ sig'[q] = sig[q] /\ sig[p] \in Seq(Closure)
  BY <1>2, <1>3 DEF TypeOK
<1>8. Items(Append(sig[p], h)) = Items(sig[p]) \cup {h}
  BY <1>4, <1>7, ItemsAppend
<1>9. Posted(p)' = Posted(p) \cup {h} /\ Posted(q)' = Posted(q)
  BY <1>1, <1>7, <1>8 DEF Posted, Waiting
<1>10. \A x \in Peer : \A m \in Waiting(x) : m \in Waiting(x)'
  BY <1>3, <1>7, <1>8 DEF Waiting
<1>11. ASSUME SigOrder, \A n \in Posted(p) : n.k = "open" => h.k # "open" \/ n.sid # h.sid
       PROVE  SigOrder'
  <2>1. \A n \in Items(sig[p]) : n \in Closure /\ n.k # "request"
    BY <1>7, ClosureOf DEF Items
  <2>2. \A n \in Items(sig[p]) : n.k = "open" => h.k # "open" \/ n.sid # h.sid
    BY <1>11 DEF Posted, Waiting
  <2>3. \A n \in Items(sig[p]) : <<n, h>> \in OpenOnce
    BY <1>4, <2>1, <2>2 DEF OpenOnce
  <2>4. Ordered(sig'[p], OpenOnce)
    BY <1>4, <1>7, <1>11, <2>3, OrderedAppend DEF SigOrder
  <2> QED
    BY <1>3, <1>7, <1>11, <2>4 DEF SigOrder
<1> QED
  BY <1>1, <1>4, <1>5, <1>6, <1>9, <1>10, <1>11 DEF MovedOutcome, h, q

\* OnDone and OnFailed: p reads h and then calls SendQueuedStreamResets.
AnsweredOutcome(p, h, queued, sent) ==
  /\ h \in OnWire(p) /\ h.k \in {"done", "refuse"}
  /\ OnWire(p) = {h} \cup OnWire(p)'
  /\ SendOutcome(p, queued, sent, Taken(p)) /\ Items(Taken(p)[Other(p)]) = OnWire(Other(p))
  /\ WireOrder => WireOrder'

\* A packet that ends a handshake is read.
LEMMA AnsweredSets ==
  ASSUME TypeOK, NEW p \in Peer, NEW kind \in {"done", "refuse"}, ReadPacket(p, kind),
         NEW queued \in SUBSET Sid, NEW sent \in SUBSET Sid,
         SendQueuedStreamResets(p, queued, sent, FALSE, Taken(p))
  PROVE  AnsweredOutcome(p, Head(wire[p]), queued, sent)
<1>1. ReadOutcome(p, Head(wire[p])) /\ Head(wire[p]).k = kind
  BY ReadSets
<1>2. Taken(p) \in Wires /\ StreamTypes /\ FALSE \in BOOLEAN
  BY <1>1 DEF ReadOutcome, TypeOK, StreamTypes
<1>3. SendOutcome(p, queued, sent, Taken(p)) /\ KeepsOpenOnce(Taken(p))
  BY <1>2, SendSets
<1>4. OnWire(p)' = Items(Taken(p)[p])
  BY <1>3 DEF SendOutcome
<1>5. WireOrder => WireOrder'
  BY <1>1, <1>3 DEF ReadOutcome, KeepsOpenOnce, WireOrder
<1>6. Items(Taken(p)[Other(p)]) = OnWire(Other(p))
  BY <1>1 DEF ReadOutcome, OnWire
<1> QED
  BY <1>1, <1>3, <1>4, <1>5, <1>6 DEF AnsweredOutcome, ReadOutcome

\* OnDone keeps what was sent and what is queued.
LEMMA DoneSets ==
  ASSUME TypeOK, NEW p \in Peer, OnDone(p)
  PROVE  AnsweredOutcome(p, Head(wire[p]), queued_reset_streams_[p], sent_reset_streams_[p])
<1>1. /\ queued_reset_streams_[p] \in SUBSET Sid /\ sent_reset_streams_[p] \in SUBSET Sid
      /\ ReadPacket(p, "done") /\ "done" \in {"done", "refuse"}
      /\ SendQueuedStreamResets(p, queued_reset_streams_[p], sent_reset_streams_[p],
                                FALSE, Taken(p))
  BY DEF OnDone, TypeOK
<1> QED
  BY <1>1, AnsweredSets

\* OnFailed queues what was sent.
LEMMA FailedSets ==
  ASSUME TypeOK, NEW p \in Peer, OnFailed(p)
  PROVE  AnsweredOutcome(p, Head(wire[p]), Closing(p), {})
<1>1. /\ Closing(p) \in SUBSET Sid /\ {} \in SUBSET Sid
      /\ ReadPacket(p, "refuse") /\ "refuse" \in {"done", "refuse"}
      /\ SendQueuedStreamResets(p, Closing(p), {}, FALSE, Taken(p))
  BY DEF OnFailed, TypeOK, Closing
<1> QED
  BY <1>1, AnsweredSets

\* Send of a message on an open stream.
DataOutcome(p, s) ==
  /\ channels[p][s] # None
  /\ OnWire(p)' = OnWire(p)
  /\ OnWire(Other(p))' =
       OnWire(Other(p)) \cup {[k |-> "data", sid |-> s, ch |-> channels[p][s].ch]}
  /\ UNCHANGED <<alloc, streams, sig>>
  /\ WireOrder => WireOrder'

\* Send sends, or closes the channel.
LEMMA SendCases ==
  ASSUME TypeOK, NEW p \in Peer, NEW s \in Sid, Send(p, s)
  PROVE  DataOutcome(p, s) \/ CloseChannel(p, s)
<1>1. CASE /\ wire' = ToPeer(p, wire, [k |-> "data", sid |-> s, ch |-> channels[p][s].ch])
           /\ UNCHANGED <<alloc, streams, busy>>
  <2> DEFINE m == [k |-> "data", sid |-> s, ch |-> channels[p][s].ch]
  <2>1. channels[p][s].ch \in Ch /\ channels[p][s] # None
    BY DEF Send, TypeOK
  <2>2. m \in Packet /\ m.k # "open"
    BY <2>1 DEF Packet, Message
  <2>3. wire \in Wires
    BY DEF TypeOK, Wires
  <2>a. wire' = ToPeer(p, wire, m)
    BY <1>1
  <2> HIDE DEF m
  <2>4. /\ wire'[p] = wire[p] /\ Items(wire'[Other(p)]) = Items(wire[Other(p)]) \cup {m}
        /\ WireOrder => WireOrder'
    BY <2>a, <2>2, <2>3, AnswerSets DEF WireOrder
  <2>5. UNCHANGED sig
    BY DEF Send
  <2> QED
    BY <1>1, <2>1, <2>4, <2>5 DEF DataOutcome, OnWire, m
<1> QED
  BY <1>1 DEF Send

\* OnStreamClosedRemotely of the closure h.
ClosedOutcome(p, h) ==
  /\ h.k = "closed" /\ h \in Posted(p) /\ h.sid \in Sid
  /\ HandledOutcome(p, h)
  /\ \/ channels[p][h.sid] = None /\ UNCHANGED <<alloc, streams, stack>>
     \/ channels[p][h.sid] # None /\ CloseChannel(p, h.sid)

\* OnStreamClosedRemotely does just that.
LEMMA ClosedSets ==
  ASSUME TypeOK, NEW p \in Peer, OnStreamClosedRemotely(p)
  PROVE  ClosedOutcome(p, Head(sig[p]))
<1>1. /\ TakeClosure(p, "closed") /\ sig' = [sig EXCEPT ![p] = Tail(@)]
      /\ \/ channels[p][Head(sig[p]).sid] = None /\ UNCHANGED <<alloc, streams, stack>>
         \/ channels[p][Head(sig[p]).sid] # None /\ CloseChannel(p, Head(sig[p]).sid)
  BY DEF OnStreamClosedRemotely
<1>2. HandledOutcome(p, Head(sig[p])) /\ Handles(p, Head(sig[p])) /\ Head(sig[p]).k = "closed"
  BY <1>1, HandledSets, TakeSets
<1>3. Head(sig[p]).sid \in Sid /\ Head(sig[p]) \in Posted(p)
  BY <1>2, ClosureOf DEF Handles, Posted
<1> QED
  BY <1>1, <1>2, <1>3 DEF ClosedOutcome

\* No message is added.
NoNewMessages ==
  \A x \in Peer : /\ \A m \in OnWire(x)' : m.k \in {"data", "open", "ack"} => m \in OnWire(x)
                  /\ \A m \in Posted(x)' : m.k \in {"data", "open", "ack"} => m \in Posted(x)

\* SendQueuedStreamResets adds no message.
LEMMA SendMessages ==
  ASSUME NEW p \in Peer, NEW queued, NEW sent, NEW w, SendOutcome(p, queued, sent, w),
         \A m \in Items(w[p]) : m \in OnWire(p),
         \A m \in Items(w[Other(p)]) : m.k \in {"data", "open", "ack"} => m \in OnWire(Other(p)),
         \A x \in Peer : \A m \in Posted(x)' : m.k \in {"data", "open", "ack"} => m \in Posted(x)
  PROVE  NoNewMessages
<1>1. \A m \in OnWire(p)' : m.k \in {"data", "open", "ack"} => m \in OnWire(p)
  BY DEF SendOutcome
<1>2. \A m \in OnWire(Other(p))' : m.k \in {"data", "open", "ack"} => m \in OnWire(Other(p))
  BY DEF SendOutcome, RequestOf
<1> QED
  BY <1>1, <1>2, Peers DEF NoNewMessages

\* The INCOMING event adds no message.
LEMMA IncomingMessages ==
  ASSUME NEW p \in Peer, NEW sids, NEW w, IncomingOutcome(p, sids, w),
         \A m \in Items(w[p]) : m \in OnWire(p),
         \A m \in Items(w[Other(p)]) : m.k \in {"data", "open", "ack"} => m \in OnWire(Other(p))
  PROVE  NoNewMessages
<1>1. PICK queued, sent : SendOutcome(p, queued, sent, w)
  BY DEF IncomingOutcome
<1>2. \A m \in Posted(p)' : m.k \in {"data", "open", "ack"} => m \in Posted(p)
  BY DEF IncomingOutcome, ClosedOf
<1>3. \A m \in Posted(Other(p))' : m.k \in {"data", "open", "ack"} => m \in Posted(Other(p))
  BY DEF IncomingOutcome
<1>4. \A x \in Peer : \A m \in Posted(x)' : m.k \in {"data", "open", "ack"} => m \in Posted(x)
  BY <1>2, <1>3, Peers
<1> QED
  BY <1>1, <1>4, SendMessages

\* The packets of the handshake.
HandshakeStep(p) == OnRequest(p) \/ OnAgreed(p) \/ OnDone(p) \/ OnFailed(p)

\* The handshake adds no message and touches no channel.
LEMMA HandshakeMessages ==
  ASSUME TypeOK, NEW p \in Peer, HandshakeStep(p)
  PROVE  NoNewMessages /\ UNCHANGED <<channels, used_sids_>>
<1>0. UNCHANGED <<channels, used_sids_>>
  BY DEF HandshakeStep, OnRequest, OnAgreed, OnDone, OnFailed, alloc
<1>1. CASE OnRequest(p)
  <2>1. PICK kind \in {"refuse", "agree"}, w \in Wires :
          /\ OnWire(p) = {Head(wire[p])} \cup Items(w[p])
          /\ Items(w[Other(p)]) = OnWire(Other(p)) \cup {[k |-> kind, sids |-> Head(wire[p]).sids]}
          /\ IncomingOutcome(p, Head(wire[p]).sids, w)
    BY <1>1, RequestSets DEF RequestOutcome
  <2> QED
    BY <1>0, <2>1, IncomingMessages
<1>2. CASE OnAgreed(p)
  <2>1. PICK w \in Wires :
          /\ OnWire(p) = {Head(wire[p])} \cup Items(w[p])
          /\ Items(w[Other(p)]) = OnWire(Other(p)) \cup {[k |-> "done", sids |-> Head(wire[p]).sids]}
          /\ IncomingOutcome(p, Head(wire[p]).sids, w)
    BY <1>2, AgreedSets DEF AgreedOutcome
  <2> QED
    BY <1>0, <2>1, IncomingMessages
<1>3. CASE OnDone(p) \/ OnFailed(p)
  <2>1. PICK queued, sent : AnsweredOutcome(p, Head(wire[p]), queued, sent)
    BY <1>3, DoneSets, FailedSets
  <2>2. \A x \in Peer : \A m \in Posted(x)' : m.k \in {"data", "open", "ack"} => m \in Posted(x)
    BY <1>3, PostedUnchanged DEF OnDone, OnFailed, PostedSame
  <2>3. /\ SendOutcome(p, queued, sent, Taken(p))
        /\ \A m \in Items(Taken(p)[p]) : m \in OnWire(p)
        /\ \A m \in Items(Taken(p)[Other(p)]) : m \in OnWire(Other(p))
    BY <2>1 DEF AnsweredOutcome, SendOutcome
  <2> QED
    BY <1>0, <2>2, <2>3, SendMessages
<1> QED
  BY <1>1, <1>2, <1>3 DEF HandshakeStep

\* Only the owner of a sid opens channels on it: OPEN messages go to the guest.
OpensToGuest(p) == \A m \in OnWire(p) \cup Posted(p) : m.k = "open" => p = Guest(m.sid)

\* The owner has opened its channels, the guest has not.
OwnersOpen(p) ==
  \A s \in Sid : channels[p][s] # None => (channels[p][s].opener <=> p = Owner(s))

\* A sid is in use if and only if there is a channel on it.
UsedHere(p) == \A s \in Sid : channels[p][s] # None <=> s \in used_sids_[p]

Parity == \A p \in Peer : OpensToGuest(p) /\ OwnersOpen(p) /\ UsedHere(p)

\* No new OPEN, and the same channels.
LEMMA SameParity ==
  ASSUME Parity, UNCHANGED <<channels, used_sids_>>,
         \A x \in Peer : \A m \in OnWire(x)' \cup Posted(x)' :
            m.k = "open" => m \in OnWire(x) \cup Posted(x)
  PROVE  Parity'
<1>1. ASSUME NEW x \in Peer PROVE OpensToGuest(x)'
  BY DEF OpensToGuest, Parity
<1>2. ASSUME NEW x \in Peer PROVE OwnersOpen(x)' /\ UsedHere(x)'
  BY DEF OwnersOpen, UsedHere, Parity
<1> QED
  BY <1>1, <1>2 DEF Parity

\* A channel is closed.
LEMMA CloseParity ==
  ASSUME TypeOK, Parity, NEW p \in Peer, NEW s \in Sid, CloseChannel(p, s),
         \A x \in Peer : Posted(x)' \subseteq Posted(x)
  PROVE  Parity'
<1>1. /\ ResetOutcome(p, s)
      /\ channels'[p][s] = None /\ used_sids_'[p] = used_sids_[p] \ {s}
      /\ used_sids_'[Other(p)] = used_sids_[Other(p)]
      /\ \A x \in Peer, t \in Sid : x # p \/ t # s => channels'[x][t] = channels[x][t]
  BY CloseSets
<1>2. \A x \in Peer : \A m \in OnWire(x)' : m.k = "open" => m \in OnWire(x)
  <2>1. \A m \in OnWire(p)' : m \in OnWire(p)
    BY <1>1 DEF ResetOutcome
  <2>2. \A m \in OnWire(Other(p))' : m.k = "open" => m \in OnWire(Other(p))
    BY <1>1 DEF ResetOutcome, RequestOf
  <2> QED
    BY <2>1, <2>2, Peers
<1>3. \A x \in Peer : OpensToGuest(x)'
  BY <1>2 DEF OpensToGuest, Parity
<1>4. \A x \in Peer : OwnersOpen(x)'
  BY <1>1 DEF OwnersOpen, Parity
<1>5. \A x \in Peer : UsedHere(x)'
  <2>1. UsedHere(p)' /\ UsedHere(Other(p))'
    BY <1>1, Peers DEF UsedHere, Parity
  <2> QED
    BY <2>1, Peers
<1> QED
  BY <1>3, <1>4, <1>5 DEF Parity

\* A channel is created, on the right side.
LEMMA CreateParity ==
  ASSUME TypeOK, Parity, NEW p \in Peer, NEW s \in Sid, NEW c, NEW isOpener \in BOOLEAN,
         CreateOutcome(p, s, c, isOpener), isOpener <=> p = Owner(s)
  PROVE  \A x \in Peer : OwnersOpen(x)' /\ UsedHere(x)'
<1>1. /\ used_sids_'[p] = used_sids_[p] \cup {s}
      /\ used_sids_'[Other(p)] = used_sids_[Other(p)]
      /\ channels'[p][s] # None
      /\ \A x \in Peer, t \in Sid : x # p \/ t # s => channels'[x][t] = channels[x][t]
  BY DEF CreateOutcome
<1>2. channels'[p][s].opener <=> isOpener
  BY DEF CreateOutcome
<1>3. \A x \in Peer : OwnersOpen(x)'
  BY <1>1, <1>2 DEF OwnersOpen, Parity
<1>4. UsedHere(p)' /\ UsedHere(Other(p))'
  BY <1>1, Peers DEF UsedHere, Parity
<1> QED
  BY <1>3, <1>4, Peers

\* Every step keeps owners and guests apart.
LEMMA StepParity ==
  ASSUME TypeOK, Parity, [Next]_vars
  PROVE  Parity'
<1>0. ASSUME NEW p \in Peer, Connect(p) PROVE Parity'
  <2>1. PostedSame /\ (\A x \in Peer : OnWire(x)' = OnWire(x)) /\ UNCHANGED <<channels, used_sids_>>
    BY <1>0, ConnectSets, WireUnchanged DEF Connect, stack, alloc
  <2> QED
    BY <2>1, SameParity DEF PostedSame
<1>1. ASSUME NEW p \in Peer, CommUp(p) PROVE Parity'
  <2>1. PostedSame /\ (\A x \in Peer : OnWire(x)' = OnWire(x)) /\ UNCHANGED <<channels, used_sids_>>
    BY <1>1, PostedUnchanged, WireUnchanged DEF CommUp, stack, alloc
  <2> QED
    BY <2>1, SameParity DEF PostedSame
<1>2. ASSUME NEW p \in Peer, CreateDataChannel(p) PROVE Parity'
  <2>1. PICK s \in Sid : CreatedOutcome(p, s)
    BY <1>2, CreatedSets
  <2>2. /\ p = Owner(s) /\ CreateOutcome(p, s, created + 1, TRUE) /\ TRUE \in BOOLEAN
        /\ PostedSame /\ \A x \in Peer : OnWire(x)' = OnWire(x)
    BY <2>1 DEF CreatedOutcome
  <2>3. \A x \in Peer : OwnersOpen(x)' /\ UsedHere(x)'
    BY <2>2, CreateParity
  <2>4. \A x \in Peer : OpensToGuest(x)'
    BY <2>2 DEF OpensToGuest, Parity, PostedSame
  <2> QED
    BY <2>3, <2>4 DEF Parity
<1>3. ASSUME NEW p \in Peer, NEW s \in Sid, Close(p, s) PROVE Parity'
  BY <1>3, CloseParity, PostedUnchanged DEF Close, PostedSame
<1>4. ASSUME NEW p \in Peer, NEW s \in Sid, Send(p, s) PROVE Parity'
  <2>1. PostedSame
    BY <1>4, PostedUnchanged DEF Send
  <2>2. CASE CloseChannel(p, s)
    BY <2>1, <2>2, CloseParity DEF PostedSame
  <2>3. CASE DataOutcome(p, s)
    <3>1. \A m \in OnWire(p)' : m \in OnWire(p)
      BY <2>3 DEF DataOutcome
    <3>2. \A m \in OnWire(Other(p))' : m.k = "open" => m \in OnWire(Other(p))
      BY <2>3 DEF DataOutcome
    <3>3. \A x \in Peer : \A m \in OnWire(x)' : m.k = "open" => m \in OnWire(x)
      BY <3>1, <3>2, Peers
    <3>4. UNCHANGED <<channels, used_sids_>>
      BY <2>3 DEF DataOutcome, alloc
    <3> QED
      BY <2>1, <3>3, <3>4, SameParity DEF PostedSame
  <2> QED
    BY <1>4, <2>2, <2>3, SendCases
<1>5. ASSUME NEW p \in Peer, OnChannelReady(p) PROVE Parity'
  <2>1. ReadyOutcome(p) /\ used_sids_' = used_sids_
    BY <1>5, ReadySets DEF OnChannelReady
  <2>2. ASSUME NEW s \in Openers(p) PROVE s \in Sid /\ p = Owner(s) /\ Other(p) = Guest(s)
    <3>1. s \in Sid /\ channels[p][s] # None /\ channels[p][s].opener
      BY <2>1 DEF ReadyOutcome, Openers
    <3> QED
      BY <3>1, Sides DEF Parity, OwnersOpen
  <2>3. \A s \in Told(p) : HelloOf(p, s).sid = s /\ (HelloOf(p, s).k = "open" => s \in Openers(p))
    BY DEF HelloOf, Openers
  <2>4. \A m \in OnWire(Other(p))' : m.k = "open" => Other(p) = Guest(m.sid)
    <3>1. ASSUME NEW m \in OnWire(Other(p)), m.k = "open" PROVE Other(p) = Guest(m.sid)
      BY <3>1, Peers DEF Parity, OpensToGuest
    <3>2. ASSUME NEW s \in Told(p), HelloOf(p, s).k = "open"
          PROVE  Other(p) = Guest(HelloOf(p, s).sid)
      BY <2>2, <2>3, <3>2
    <3> QED
      BY <2>1, <3>1, <3>2 DEF ReadyOutcome
  <2>5. \A m \in OnWire(p)' : m.k = "open" => p = Guest(m.sid)
    BY <2>1 DEF ReadyOutcome, Parity, OpensToGuest
  <2>6. \A x \in Peer : \A m \in Posted(x)' : m.k = "open" => x = Guest(m.sid)
    BY <2>1 DEF ReadyOutcome, Parity, OpensToGuest, PostedSame
  <2>7. \A x \in Peer : OpensToGuest(x)'
    BY <2>4, <2>5, <2>6, Peers DEF OpensToGuest
  <2>8. \A x \in Peer : OwnersOpen(x)'
    BY <2>1 DEF ReadyOutcome, Parity, OwnersOpen
  <2>9. \A x \in Peer : UsedHere(x)'
    BY <2>1 DEF ReadyOutcome, Parity, UsedHere
  <2> QED
    BY <2>7, <2>8, <2>9 DEF Parity
<1>6. ASSUME NEW p \in Peer, OnDataChannelOpenMessage(p) PROVE Parity'
  <2> DEFINE h == Head(sig[p])
  <2>1. OpenedOutcome(p, h)
    BY <1>6, OpenedSets
  <2> HIDE DEF h
  <2>2. /\ \A x \in Peer : OnWire(x)' = OnWire(x)
        /\ Posted(p)' \subseteq Posted(p) /\ Posted(Other(p))' = Posted(Other(p))
        /\ h.k = "open" /\ h \in Posted(p) /\ h.sid \in Sid /\ h.ch \in Ch
    BY <2>1 DEF OpenedOutcome
  <2>3. \A x \in Peer : Posted(x)' \subseteq Posted(x)
    BY <2>2, Peers
  <2>4. CASE UNCHANGED <<used_sids_, channels, open_streams_>>
    BY <2>2, <2>3, <2>4, SameParity
  <2>5. CASE CreateOutcome(p, h.sid, h.ch, FALSE)
    <3>1. p = Guest(h.sid)
      BY <2>2 DEF Parity, OpensToGuest
    <3>2. ~(p = Owner(h.sid)) /\ FALSE \in BOOLEAN
      BY <3>1, <2>2, Sides
    <3>3. \A x \in Peer : OwnersOpen(x)' /\ UsedHere(x)'
      BY <2>2, <2>5, <3>2, CreateParity
    <3>4. \A x \in Peer : OpensToGuest(x)'
      BY <2>2, <2>3 DEF Parity, OpensToGuest
    <3> QED
      BY <3>3, <3>4 DEF Parity
  <2> QED
    BY <2>1, <2>4, <2>5 DEF OpenedOutcome
<1>7. ASSUME NEW p \in Peer, OnDataReceived(p) PROVE Parity'
  <2>1. HandledOutcome(p, Head(sig[p]))
    BY <1>7, ReceivedSets
  <2>2. \A x \in Peer : Posted(x)' \subseteq Posted(x)
    BY <2>1, Peers DEF HandledOutcome
  <2>3. (\A x \in Peer : OnWire(x)' = OnWire(x)) /\ UNCHANGED <<channels, used_sids_>>
    BY <1>7, WireUnchanged DEF OnDataReceived, stack, alloc
  <2> QED
    BY <2>2, <2>3, SameParity
<1>8. ASSUME NEW p \in Peer, OnStreamClosedRemotely(p) PROVE Parity'
  <2> DEFINE h == Head(sig[p])
  <2>1. ClosedOutcome(p, h)
    BY <1>8, ClosedSets
  <2> HIDE DEF h
  <2>2. \A x \in Peer : Posted(x)' \subseteq Posted(x)
    BY <2>1, Peers DEF HandledOutcome, ClosedOutcome
  <2>3. CASE UNCHANGED <<alloc, streams, stack>>
    <3>1. (\A x \in Peer : OnWire(x)' = OnWire(x)) /\ UNCHANGED <<channels, used_sids_>>
      BY <2>3, WireUnchanged DEF stack, alloc
    <3> QED
      BY <2>2, <3>1, SameParity
  <2>4. CASE CloseChannel(p, h.sid)
    BY <2>1, <2>2, <2>4, CloseParity DEF ClosedOutcome
  <2> QED
    BY <2>1, <2>3, <2>4 DEF ClosedOutcome
<1>9. ASSUME NEW p \in Peer, OnDataFromSctpToChannel(p) PROVE Parity'
  <2>1. MovedOutcome(p, Head(wire[p])) /\ UNCHANGED <<channels, used_sids_>>
    BY <1>9, MovedSets DEF OnDataFromSctpToChannel, alloc
  <2>2. \A m \in OnWire(p)' \cup Posted(p)' : m \in OnWire(p) \cup Posted(p)
    BY <2>1 DEF MovedOutcome
  <2>3. \A m \in OnWire(Other(p))' \cup Posted(Other(p))' :
           m \in OnWire(Other(p)) \cup Posted(Other(p))
    BY <2>1 DEF MovedOutcome
  <2> QED
    BY <2>1, <2>2, <2>3, Peers, SameParity
<1>10. ASSUME NEW p \in Peer, HandshakeStep(p) PROVE Parity'
  BY <1>10, HandshakeMessages, SameParity DEF NoNewMessages
<1>11. CASE UNCHANGED vars
  <2>1. PostedSame /\ (\A x \in Peer : OnWire(x)' = OnWire(x)) /\ UNCHANGED <<channels, used_sids_>>
    BY <1>11, PostedUnchanged, WireUnchanged DEF vars, stack, alloc
  <2> QED
    BY <2>1, SameParity DEF PostedSame
<1> QED
  BY <1>0, <1>1, <1>2, <1>3, <1>4, <1>5, <1>6, <1>7, <1>8, <1>9, <1>10, <1>11
     DEF Next, HandshakeStep, Application, Signaling, OnPacketRead

-----------------------------------------------------------------------------
(* What the steps do to one sid *)

\* In a set of packets or closures: a request to reset the stream, the agreement, an OPEN,
\* the news that the peer has closed it.
AsksFor(Q, s)  == \E m \in Q : m.k = "request" /\ s \in m.sids
AgreesTo(Q, s) == \E m \in Q : m.k = "agree" /\ s \in m.sids
Opens(Q, s)    == \E m \in Q : m.k = "open" /\ m.sid = s
Closes(Q, s)   == \E m \in Q : m.k = "closed" /\ m.sid = s

\* What p knows of s, and what is on its way about it.
HasChannel(p, s)  == channels[p][s] # None
Requested(p, s)   == AsksFor(OnWire(Other(p)), s)
AgreedTo(p, s)    == AgreesTo(OnWire(p), s)
ClosePosted(p, s) == Closes(Posted(p), s)
OpenOnWire(s)     == Opens(OnWire(Guest(s)), s)
OpenPosted(s)     == Opens(Posted(Guest(s)), s)
Connecting(s) ==
  HasChannel(Owner(s), s) /\ channels[Owner(s)][s].state = "kConnecting"

\* A step leaves these alone.
SameStreams(p, s) ==
  /\ (s \in open_streams_'[p]) <=> (s \in open_streams_[p])
  /\ (s \in queued_reset_streams_'[p]) <=> (s \in queued_reset_streams_[p])
  /\ (s \in sent_reset_streams_'[p]) <=> (s \in sent_reset_streams_[p])

SameChannel(p, s) == HasChannel(p, s)' <=> HasChannel(p, s)
SameOpens(s) == /\ OpenOnWire(s)' <=> OpenOnWire(s)
                /\ OpenPosted(s)' <=> OpenPosted(s)

\* Nothing happens to p's part in the use of s.
Keeps(p, s) ==
  /\ SameChannel(p, s) /\ SameStreams(p, s)
  /\ Requested(p, s)' <=> Requested(p, s)
  /\ AgreedTo(p, s)' <=> AgreedTo(p, s)
  /\ ClosePosted(p, s)' <=> ClosePosted(p, s)

\* SendQueuedStreamResets, as far as s is concerned.
Sends(p, s, queued, sent) ==
  \/ /\ (s \in queued_reset_streams_'[p]) <=> (s \in queued)
     /\ (s \in sent_reset_streams_'[p]) <=> (s \in sent)
     /\ Requested(p, s)' <=> Requested(p, s)
  \/ /\ s \notin sent /\ s \notin queued_reset_streams_'[p]
     /\ (s \in sent_reset_streams_'[p]) <=> (s \in queued)
     /\ Requested(p, s)' <=> Requested(p, s) \/ s \in queued

\* Nothing, or the request that p sends is also for s, or p hears that the stream of a
\* channel that is gone was closed.
Flushes(p, s) ==
  /\ Keeps(Other(p), s) /\ SameChannel(p, s) /\ SameOpens(s)
  /\ (s \in open_streams_'[p]) <=> (s \in open_streams_[p])
  /\ AgreedTo(p, s)' <=> AgreedTo(p, s)
  /\ ClosePosted(p, s)' => ClosePosted(p, s)
  /\ HasChannel(p, s) /\ ClosePosted(p, s) => ClosePosted(p, s)'
  /\ Sends(p, s, queued_reset_streams_[p], sent_reset_streams_[p])
  /\ Connecting(s)' <=> Connecting(s)

\* RESET_FAILED of p.
Requeues(p, s) ==
  /\ Keeps(Other(p), s) /\ SameChannel(p, s) /\ SameOpens(s)
  /\ (s \in open_streams_'[p]) <=> (s \in open_streams_[p])
  /\ AgreedTo(p, s)' <=> AgreedTo(p, s)
  /\ ClosePosted(p, s)' <=> ClosePosted(p, s)
  /\ ~Requested(p, s) /\ ~AgreedTo(p, s)
  /\ Sends(p, s, Closing(p), {})
  /\ Connecting(s)' <=> Connecting(s)

\* p closes its channel.
ClosesChannel(p, s) ==
  /\ Keeps(Other(p), s) /\ SameOpens(s)
  /\ ~HasChannel(p, s)' /\ s \notin open_streams_'[p]
  /\ AgreedTo(p, s)' <=> AgreedTo(p, s)
  /\ ClosePosted(p, s)' => ClosePosted(p, s)
  /\ Sends(p, s, queued_reset_streams_[p] \cup {t \in {s} : t \in open_streams_[p]},
           sent_reset_streams_[p])
  /\ Connecting(s)' <=> Connecting(s) /\ p # Owner(s)

\* The INCOMING event of p for s.
Incoming(p, s) ==
  /\ SameChannel(p, s) /\ SameChannel(Other(p), s)
  /\ SameStreams(Other(p), s)
  /\ ClosePosted(Other(p), s)' <=> ClosePosted(Other(p), s)
  /\ OpenPosted(s)' <=> OpenPosted(s)
  /\ Connecting(s)' <=> Connecting(s)
  /\ \/ /\ s \in open_streams_[p] /\ s \notin sent_reset_streams_[p]
        /\ s \notin open_streams_'[p] /\ ClosePosted(p, s)'
        /\ Sends(p, s, queued_reset_streams_[p], {})
     \/ /\ s \in sent_reset_streams_[p]
        /\ (s \in open_streams_'[p]) <=> (s \in open_streams_[p])
        /\ ClosePosted(p, s)' <=> ClosePosted(p, s)
        /\ Sends(p, s, queued_reset_streams_[p], {})
     \/ /\ s \notin open_streams_[p] /\ s \notin sent_reset_streams_[p]
        /\ s \notin open_streams_'[p]
        /\ ClosePosted(p, s)' <=> ClosePosted(p, s)
        /\ Sends(p, s, {}, {})
        /\ p = Guest(s) /\ OpenPosted(s) => "overtaken" \in mishaps'

\* The event comes with the other's request.
Asks(p, s) ==
  /\ Requested(Other(p), s) /\ Incoming(p, s)
  /\ Requested(Other(p), s)' => Requested(Other(p), s)
  /\ AgreedTo(p, s)' <=> AgreedTo(p, s)
  /\ AgreedTo(Other(p), s)' => AgreedTo(Other(p), s) \/ Requested(Other(p), s)
  /\ OpenOnWire(s)' <=> OpenOnWire(s)
  /\ p = Guest(s) => ~OpenOnWire(s)

\* The event comes when the other has agreed.
IsAgreed(p, s) ==
  /\ AgreedTo(p, s) /\ Incoming(p, s)
  /\ Requested(Other(p), s)' <=> Requested(Other(p), s)
  /\ AgreedTo(p, s)' => AgreedTo(p, s)
  /\ AgreedTo(Other(p), s)' <=> AgreedTo(Other(p), s)
  /\ OpenOnWire(s)' <=> OpenOnWire(s)

\* The owner creates a channel: the last use of s is over.
Creates(s) ==
  /\ \A p \in Peer :
       /\ s \notin open_streams_[p] /\ s \notin Closing(p)
       /\ ~Requested(p, s) /\ ~AgreedTo(p, s) /\ ~ClosePosted(p, s)
       /\ Requested(p, s)' <=> Requested(p, s)
       /\ AgreedTo(p, s)' <=> AgreedTo(p, s)
       /\ ClosePosted(p, s)' <=> ClosePosted(p, s)
  /\ ~OpenOnWire(s) /\ ~OpenPosted(s) /\ SameOpens(s)
  /\ SameStreams(Guest(s), s) /\ SameChannel(Guest(s), s)
  /\ HasChannel(Owner(s), s)' /\ Connecting(s)' /\ s \in open_streams_'[Owner(s)]
  /\ (s \in queued_reset_streams_'[Owner(s)]) <=> (s \in queued_reset_streams_[Owner(s)])
  /\ (s \in sent_reset_streams_'[Owner(s)]) <=> (s \in sent_reset_streams_[Owner(s)])

\* The owner's channel sends OPEN; OPEN goes from the wire to the signaling thread.
SendsOpen(s) ==
  /\ \A p \in Peer : Keeps(p, s)
  /\ Connecting(s) /\ ~Connecting(s)' /\ OpenOnWire(s)'
  /\ OpenPosted(s)' <=> OpenPosted(s)

MovesOpen(s) ==
  /\ \A p \in Peer : Keeps(p, s)
  /\ Connecting(s)' <=> Connecting(s)
  /\ OpenOnWire(s) /\ ~OpenOnWire(s)' /\ OpenPosted(s)'

\* The guest creates its channel.
GuestOpens(s) ==
  /\ Keeps(Owner(s), s)
  /\ Connecting(s)' <=> Connecting(s)
  /\ OpenPosted(s) /\ ~OpenPosted(s)'
  /\ OpenOnWire(s)' <=> OpenOnWire(s)
  /\ HasChannel(Guest(s), s)'
  /\ (s \in open_streams_'[Guest(s)]) <=> (s \in open_streams_[Guest(s)] \/ MayOpen(Guest(s), s))
  /\ (s \in queued_reset_streams_'[Guest(s)]) <=> (s \in queued_reset_streams_[Guest(s)])
  /\ (s \in sent_reset_streams_'[Guest(s)]) <=> (s \in sent_reset_streams_[Guest(s)])
  /\ Requested(Guest(s), s)' <=> Requested(Guest(s), s)
  /\ AgreedTo(Guest(s), s)' <=> AgreedTo(Guest(s), s)
  /\ ClosePosted(Guest(s), s)' <=> ClosePosted(Guest(s), s)

\* What can happen to one sid.
SidStep(s) ==
  \/ \E p \in Peer : \/ Flushes(p, s) \/ Requeues(p, s) \/ ClosesChannel(p, s)
                     \/ Asks(p, s) \/ IsAgreed(p, s)
  \/ Creates(s) \/ SendsOpen(s) \/ MovesOpen(s) \/ GuestOpens(s)

\* The guest has not heard of the use of s.
Unheard(s) ==
  /\ ~HasChannel(Guest(s), s) /\ s \notin open_streams_[Guest(s)]
  /\ s \notin queued_reset_streams_[Guest(s)] /\ s \notin sent_reset_streams_[Guest(s)]
  /\ ~Requested(Guest(s), s) /\ ~AgreedTo(Guest(s), s) /\ ~ClosePosted(Owner(s), s)

\* Until OPEN has been sent, and then until it has been handled, the guest has not heard.
Fresh(s) ==
  /\ Connecting(s) => /\ ~OpenOnWire(s) /\ ~OpenPosted(s)
                      /\ s \in open_streams_[Owner(s)] /\ ~Requested(Owner(s), s)
  /\ Connecting(s) \/ OpenOnWire(s) \/ OpenPosted(s) => Unheard(s)
  /\ ~(OpenOnWire(s) /\ OpenPosted(s))

\* A channel can send, or will hear that the peer has closed it.
CanSend(p, s) == HasChannel(p, s) => s \in open_streams_[p] \/ ClosePosted(p, s)

\* A stream is reset when its channel is gone.
Gone(p, s) ==
  /\ HasChannel(p, s) =>
       /\ s \notin queued_reset_streams_[p] /\ s \notin sent_reset_streams_[p]
       /\ ~Requested(p, s) /\ ~AgreedTo(p, s) /\ ~ClosePosted(Other(p), s)
  /\ Requested(p, s) \/ AgreedTo(p, s)
       => s \notin open_streams_[p] /\ s \notin queued_reset_streams_[p]

\* The invariant about the use of one sid.
UseInv(s) == Fresh(s) /\ \A p \in Peer : CanSend(p, s) /\ Gone(p, s)

\* The sets of streams are disjoint.
Disjoint(p, s) ==
  /\ ~(s \in open_streams_[p] /\ s \in queued_reset_streams_[p])
  /\ ~(s \in open_streams_[p] /\ s \in sent_reset_streams_[p])
  /\ ~(s \in queued_reset_streams_[p] /\ s \in sent_reset_streams_[p])

\* What can happen to one sid keeps the invariant about its use.
LEMMA StepUseInv ==
  ASSUME NEW s \in Sid, UseInv(s), SidStep(s), \A p \in Peer : Disjoint(p, s)
  PROVE  UseInv(s)'
<1> DEFINE o == Owner(s)
           g == Guest(s)
<1>1. /\ o \in Peer /\ g \in Peer /\ o # g /\ Other(o) = g /\ Other(g) = o
      /\ \A p \in Peer : p = o \/ p = g
  BY Sides
<1>2. /\ Fresh(s) /\ CanSend(o, s) /\ CanSend(g, s) /\ Gone(o, s) /\ Gone(g, s)
      /\ Disjoint(o, s) /\ Disjoint(g, s)
  BY <1>1 DEF UseInv
<1>3. Connecting(s) => HasChannel(o, s)
  BY DEF Connecting
<1>4. SUFFICES Fresh(s)' /\ CanSend(o, s)' /\ CanSend(g, s)' /\ Gone(o, s)' /\ Gone(g, s)'
  BY <1>1 DEF UseInv
<1> USE DEF Keeps, SameChannel, SameOpens, SameStreams, Sends, Fresh, CanSend, Gone, Disjoint,
            Unheard
<1>5. CASE Flushes(o, s)
  BY <1>1, <1>2, <1>3, <1>5 DEF Flushes
<1>6. CASE Flushes(g, s)
  BY <1>1, <1>2, <1>3, <1>6 DEF Flushes
<1>7. CASE Requeues(o, s)
  BY <1>1, <1>2, <1>3, <1>7 DEF Requeues, Closing
<1>8. CASE Requeues(g, s)
  BY <1>1, <1>2, <1>3, <1>8 DEF Requeues, Closing
<1>9. CASE ClosesChannel(o, s)
  BY <1>1, <1>2, <1>3, <1>9 DEF ClosesChannel
<1>10. CASE ClosesChannel(g, s)
  BY <1>1, <1>2, <1>3, <1>10 DEF ClosesChannel
<1>11. CASE Asks(o, s)
  BY <1>1, <1>2, <1>3, <1>11 DEF Asks, Incoming
<1>12. CASE Asks(g, s)
  BY <1>1, <1>2, <1>3, <1>12 DEF Asks, Incoming
<1>13. CASE IsAgreed(o, s)
  BY <1>1, <1>2, <1>3, <1>13 DEF IsAgreed, Incoming
<1>14. CASE IsAgreed(g, s)
  BY <1>1, <1>2, <1>3, <1>14 DEF IsAgreed, Incoming
<1>15. CASE Creates(s)
  BY <1>1, <1>2, <1>3, <1>15 DEF Creates, Closing
<1>16. CASE SendsOpen(s)
  BY <1>1, <1>2, <1>3, <1>16 DEF SendsOpen
<1>17. CASE MovesOpen(s)
  BY <1>1, <1>2, <1>3, <1>17 DEF MovesOpen
<1>18. CASE GuestOpens(s)
  BY <1>1, <1>2, <1>3, <1>18 DEF GuestOpens, MayOpen, Closing
<1> QED
  BY <1>1, <1>5, <1>6, <1>7, <1>8, <1>9, <1>10, <1>11, <1>12, <1>13, <1>14, <1>15, <1>16,
     <1>17, <1>18 DEF SidStep

-----------------------------------------------------------------------------
(* Every step is a SidStep *)

\* The queues say the same about s.
SameWire(x, s) ==
  /\ AsksFor(OnWire(x), s)' <=> AsksFor(OnWire(x), s)
  /\ AgreesTo(OnWire(x), s)' <=> AgreesTo(OnWire(x), s)
  /\ Opens(OnWire(x), s)' <=> Opens(OnWire(x), s)

SamePosted(x, s) ==
  /\ Closes(Posted(x), s)' <=> Closes(Posted(x), s)
  /\ Opens(Posted(x), s)' <=> Opens(Posted(x), s)

\* Nothing happens to s.
Untouched(s) ==
  \A x \in Peer : /\ SameWire(x, s) /\ SamePosted(x, s) /\ SameStreams(x, s)
                  /\ SameChannel(x, s)

\* A step that does not touch s is one of SidStep.
LEMMA UntouchedStep ==
  ASSUME NEW s \in Sid, Untouched(s), Connecting(s)' <=> Connecting(s)
  PROVE  SidStep(s)
<1> DEFINE o == Owner(s)
           g == Guest(s)
<1>1. /\ o \in Peer /\ g \in Peer /\ o # g /\ Other(o) = g /\ Other(g) = o
      /\ \A p \in Peer : p = o \/ p = g
  BY Sides
<1>2. /\ SameWire(o, s) /\ SamePosted(o, s) /\ SameStreams(o, s) /\ SameChannel(o, s)
      /\ SameWire(g, s) /\ SamePosted(g, s) /\ SameStreams(g, s) /\ SameChannel(g, s)
  BY <1>1 DEF Untouched
<1>3. Keeps(g, s) /\ SameOpens(s)
  BY <1>1, <1>2 DEF SameWire, SamePosted, Keeps, SameOpens, Requested, AgreedTo, ClosePosted,
                    OpenOnWire, OpenPosted
<1>4. Flushes(o, s)
  BY <1>1, <1>2, <1>3
     DEF SameWire, SamePosted, SameStreams, Flushes, Sends, Requested, AgreedTo, ClosePosted
<1> QED
  BY <1>1, <1>4 DEF SidStep

\* Queues that are the same say the same about s.
LEMMA SameQueues ==
  ASSUME NEW s \in Sid, NEW x \in Peer
  PROVE  /\ OnWire(x)' = OnWire(x) => SameWire(x, s)
         /\ Posted(x)' = Posted(x) => SamePosted(x, s)
<1>1. ASSUME OnWire(x)' = OnWire(x) PROVE SameWire(x, s)
  BY <1>1 DEF SameWire, AsksFor, AgreesTo, Opens
<1>2. ASSUME Posted(x)' = Posted(x) PROVE SamePosted(x, s)
  BY <1>2 DEF SamePosted, Closes, Opens
<1> QED
  BY <1>1, <1>2

\* Channels that are the same.
LEMMA SameChannels ==
  ASSUME NEW s \in Sid, \A x \in Peer : channels'[x][s] = channels[x][s]
  PROVE  (Connecting(s)' <=> Connecting(s)) /\ \A x \in Peer : SameChannel(x, s)
BY Sides DEF Connecting, SameChannel, HasChannel

\* Nothing changes but what makes channels ready.
LEMMA NothingStep ==
  ASSUME NEW s \in Sid, UNCHANGED <<channels, streams>>,
         \A x \in Peer : SameWire(x, s) /\ SamePosted(x, s)
  PROVE  SidStep(s)
<1>1. (Connecting(s)' <=> Connecting(s)) /\ \A x \in Peer : SameChannel(x, s)
  BY SameChannels
<1>2. \A x \in Peer : SameStreams(x, s)
  BY DEF SameStreams, streams
<1> QED
  BY <1>1, <1>2, UntouchedStep DEF Untouched

\* p calls SendQueuedStreamResets and does nothing else to s.
LEMMA SendStep ==
  ASSUME NEW s \in Sid, NEW p \in Peer,
         \A x \in Peer : channels'[x][s] = channels[x][s],
         (s \in open_streams_'[p]) <=> (s \in open_streams_[p]),
         SameStreams(Other(p), s), \A x \in Peer : SamePosted(x, s),
         SameWire(p, s),
         AgreesTo(OnWire(Other(p)), s)' <=> AgreesTo(OnWire(Other(p)), s),
         Opens(OnWire(Other(p)), s)' <=> Opens(OnWire(Other(p)), s),
         Sends(p, s, queued_reset_streams_[p], sent_reset_streams_[p])
  PROVE  SidStep(s)
<1>1. /\ (Connecting(s)' <=> Connecting(s)) /\ SameChannel(p, s) /\ SameChannel(Other(p), s)
      /\ SamePosted(p, s) /\ SamePosted(Other(p), s)
  BY SameChannels, Peers
<1>2. /\ Other(Other(p)) = p /\ Other(p) \in Peer
      /\ Guest(s) = p \/ Guest(s) = Other(p)
  BY Peers, Sides
<1>3. SameOpens(s)
  BY <1>1, <1>2 DEF SameOpens, OpenOnWire, OpenPosted, SameWire, SamePosted
<1>4. Keeps(Other(p), s)
  BY <1>1, <1>2 DEF Keeps, SameWire, SamePosted, Requested, AgreedTo, ClosePosted
<1>5. Flushes(p, s)
  BY <1>1, <1>2, <1>3, <1>4 DEF Flushes, SameWire, SamePosted, AgreedTo, ClosePosted
<1> QED
  BY <1>5 DEF SidStep

\* A packet or a closure that is added to Q, as far as s is concerned.
LEMMA RequestAdds ==
  ASSUME NEW Q, NEW R, NEW sids, NEW s, R = Q \cup {RequestOf(sids)}
  PROVE  /\ AsksFor(R, s) <=> AsksFor(Q, s) \/ s \in sids
         /\ AgreesTo(R, s) <=> AgreesTo(Q, s)
         /\ Opens(R, s) <=> Opens(Q, s)
<1>1. RequestOf(sids).k = "request" /\ RequestOf(sids).sids = sids
  BY DEF RequestOf
<1> QED
  BY <1>1 DEF AsksFor, AgreesTo, Opens

\* p resets the stream t: what becomes of another sid.
LEMMA ResetOther ==
  ASSUME TypeOK, NEW p \in Peer, NEW t \in Sid, NEW s \in Sid, s # t, CloseChannel(p, t),
         \A x \in Peer : SamePosted(x, s)
  PROVE  SidStep(s)
<1> DEFINE q == Other(p)
<1>1. /\ ResetOutcome(p, t)
      /\ \A x \in Peer : channels'[x][s] = channels[x][s]
  BY CloseSets
<1>2. q \in Peer /\ q # p /\ Other(q) = p /\ \A x \in Peer : x = p \/ x = q
  BY Peers
<1>3. (Connecting(s)' <=> Connecting(s)) /\ SameChannel(p, s) /\ SameChannel(q, s)
  BY <1>1, <1>2, SameChannels
<1>4. /\ SameStreams(q, s)
      /\ (s \in open_streams_'[p]) <=> (s \in open_streams_[p])
  BY <1>1 DEF ResetOutcome, SameStreams
<1>5. SameWire(p, s)
  BY <1>1, SameQueues DEF ResetOutcome
<1> DEFINE sids == queued_reset_streams_[p] \cup {t}
<1>6. CASE /\ sent_reset_streams_'[p] = sent_reset_streams_[p] /\ OnWire(q)' = OnWire(q)
           /\ \/ queued_reset_streams_'[p] = queued_reset_streams_[p]
              \/ queued_reset_streams_'[p] = sids
  <2>1. SameWire(q, s)
    BY <1>2, <1>6, SameQueues
  <2>2. Sends(p, s, queued_reset_streams_[p], sent_reset_streams_[p])
    BY <1>6, <2>1 DEF Sends, Requested, SameWire
  <2> QED
    BY <1>1, <1>2, <1>4, <1>5, <2>1, <2>2, SendStep DEF SameWire
<1>7. CASE /\ sent_reset_streams_[p] = {} /\ queued_reset_streams_'[p] = {}
           /\ sent_reset_streams_'[p] = sids
           /\ OnWire(q)' = OnWire(q) \cup {RequestOf(sids)}
  <2>1. /\ AsksFor(OnWire(q)', s) <=> AsksFor(OnWire(q), s) \/ s \in sids
        /\ AgreesTo(OnWire(q)', s) <=> AgreesTo(OnWire(q), s)
        /\ Opens(OnWire(q)', s) <=> Opens(OnWire(q), s)
    BY <1>7, RequestAdds
  <2>2. Sends(p, s, queued_reset_streams_[p], sent_reset_streams_[p])
    BY <1>7, <2>1 DEF Sends, Requested
  <2> QED
    BY <1>1, <1>2, <1>4, <1>5, <2>1, <2>2, SendStep
<1> QED
  BY <1>1, <1>6, <1>7 DEF ResetOutcome

\* p closes its channel on s.
LEMMA ResetThis ==
  ASSUME TypeOK, NEW p \in Peer, NEW s \in Sid, CloseChannel(p, s),
         SamePosted(Other(p), s), OpenPosted(s)' <=> OpenPosted(s),
         ClosePosted(p, s)' => ClosePosted(p, s)
  PROVE  SidStep(s)
<1> DEFINE q == Other(p)
<1>1. /\ ResetOutcome(p, s) /\ channels'[p][s] = None /\ channels'[q][s] = channels[q][s]
  BY CloseSets, Peers
<1>2. /\ q \in Peer /\ q # p /\ Other(q) = p
      /\ Guest(s) = p \/ Guest(s) = q
  BY Peers, Sides
<1>3. Connecting(s)' <=> Connecting(s) /\ p # Owner(s)
  BY <1>1, <1>2, Sides DEF Connecting, HasChannel
<1>4. /\ SameStreams(q, s) /\ SameChannel(q, s)
      /\ ~HasChannel(p, s)' /\ s \notin open_streams_'[p]
  BY <1>1 DEF ResetOutcome, SameStreams, SameChannel, HasChannel
<1>5. SameWire(p, s)
  BY <1>1, SameQueues DEF ResetOutcome
<1> DEFINE sids == queued_reset_streams_[p] \cup {s}
           closed == queued_reset_streams_[p] \cup {t \in {s} : t \in open_streams_[p]}
<1>6. ASSUME Sends(p, s, closed, sent_reset_streams_[p]),
             AgreesTo(OnWire(q)', s) <=> AgreesTo(OnWire(q), s),
             Opens(OnWire(q)', s) <=> Opens(OnWire(q), s)
      PROVE  ClosesChannel(p, s)
  <2>1. Keeps(q, s)
    BY <1>2, <1>4, <1>5, <1>6 DEF Keeps, SameWire, SamePosted, Requested, AgreedTo, ClosePosted
  <2>2. SameOpens(s)
    BY <1>2, <1>5, <1>6 DEF SameOpens, SameWire, OpenOnWire
  <2> QED
    BY <1>3, <1>4, <1>5, <1>6, <2>1, <2>2 DEF ClosesChannel, AgreedTo, SameWire
<1>7. CASE /\ sent_reset_streams_'[p] = sent_reset_streams_[p] /\ OnWire(q)' = OnWire(q)
           /\ \/ /\ s \notin open_streams_[p]
                 /\ queued_reset_streams_'[p] = queued_reset_streams_[p]
              \/ s \in open_streams_[p] /\ queued_reset_streams_'[p] = sids
  <2>1. SameWire(q, s)
    BY <1>2, <1>7, SameQueues
  <2>2. Sends(p, s, closed, sent_reset_streams_[p])
    BY <1>7, <2>1 DEF Sends, Requested, SameWire
  <2> QED
    BY <1>6, <2>1, <2>2 DEF SidStep, SameWire
<1>8. CASE /\ sent_reset_streams_[p] = {} /\ queued_reset_streams_'[p] = {}
           /\ sent_reset_streams_'[p] = sids /\ s \in open_streams_[p]
           /\ OnWire(q)' = OnWire(q) \cup {RequestOf(sids)}
  <2>1. /\ AsksFor(OnWire(q)', s) <=> AsksFor(OnWire(q), s) \/ s \in sids
        /\ AgreesTo(OnWire(q)', s) <=> AgreesTo(OnWire(q), s)
        /\ Opens(OnWire(q)', s) <=> Opens(OnWire(q), s)
    <3>1. OnWire(q)' = OnWire(q) \cup {RequestOf(sids)}
      BY <1>8
    <3> HIDE DEF sids, q
    <3> QED
      BY <3>1, RequestAdds
  <2>2. Sends(p, s, closed, sent_reset_streams_[p])
    BY <1>8, <2>1 DEF Sends, Requested
  <2> QED
    BY <1>6, <2>1, <2>2 DEF SidStep
<1> QED
  BY <1>1, <1>7, <1>8 DEF ResetOutcome

\* SendQueuedStreamResets of p, when w says the same about s as the wire but may also hold
\* an agreement.
SendsOutcome(p, s, queued, sent, w) ==
  /\ Sends(p, s, queued, sent)
  /\ (s \in queued_reset_streams_'[Other(p)]) <=> (s \in queued_reset_streams_[Other(p)])
  /\ (s \in sent_reset_streams_'[Other(p)]) <=> (s \in sent_reset_streams_[Other(p)])
  /\ AgreesTo(OnWire(Other(p)), s)' <=> AgreesTo(Items(w[Other(p)]), s)
  /\ Opens(OnWire(Other(p)), s)' <=> Opens(OnWire(Other(p)), s)

\* SendQueuedStreamResets does just that.
LEMMA SendsSid ==
  ASSUME NEW p \in Peer, NEW s \in Sid, NEW queued, NEW sent, NEW w,
         SendOutcome(p, queued, sent, w),
         AsksFor(Items(w[Other(p)]), s) <=> AsksFor(OnWire(Other(p)), s),
         Opens(Items(w[Other(p)]), s) <=> Opens(OnWire(Other(p)), s)
  PROVE  SendsOutcome(p, s, queued, sent, w)
<1> DEFINE q == Other(p)
           Q == Items(w[q])
<1>1. /\ queued_reset_streams_'[q] = queued_reset_streams_[q]
      /\ sent_reset_streams_'[q] = sent_reset_streams_[q]
  BY DEF SendOutcome
<1>2. CASE /\ queued_reset_streams_'[p] = queued /\ sent_reset_streams_'[p] = sent
           /\ OnWire(q)' = Q
  <2> HIDE DEF Q
  <2>1. /\ AsksFor(OnWire(q)', s) <=> AsksFor(Q, s)
        /\ AgreesTo(OnWire(q)', s) <=> AgreesTo(Q, s)
        /\ Opens(OnWire(q)', s) <=> Opens(Q, s)
    BY <1>2
  <2> QED
    BY <1>1, <1>2, <2>1 DEF Sends, Requested, SendsOutcome, Q
<1>3. CASE /\ sent = {} /\ queued_reset_streams_'[p] = {}
           /\ sent_reset_streams_'[p] = queued
           /\ OnWire(q)' = Q \cup {RequestOf(queued)}
  <2> HIDE DEF Q
  <2>1. /\ AsksFor(OnWire(q)', s) <=> AsksFor(Q, s) \/ s \in queued
        /\ AgreesTo(OnWire(q)', s) <=> AgreesTo(Q, s)
        /\ Opens(OnWire(q)', s) <=> Opens(Q, s)
    BY <1>3, RequestAdds
  <2> QED
    BY <1>1, <1>3, <2>1 DEF Sends, Requested, SendsOutcome, Q
<1> QED
  BY <1>2, <1>3 DEF SendOutcome

\* A packet that says nothing about s is read.
LEMMA ReadOther ==
  ASSUME NEW Q, NEW R, NEW h, NEW s, Q = {h} \cup R
  PROVE  /\ h.k # "request" \/ s \notin h.sids => (AsksFor(R, s) <=> AsksFor(Q, s))
         /\ h.k # "agree" \/ s \notin h.sids => (AgreesTo(R, s) <=> AgreesTo(Q, s))
         /\ h.k # "open" \/ s # h.sid => (Opens(R, s) <=> Opens(Q, s))
         /\ h.k # "closed" \/ s # h.sid => (Closes(R, s) <=> Closes(Q, s))
         /\ AsksFor(R, s) => AsksFor(Q, s)
         /\ AgreesTo(R, s) => AgreesTo(Q, s)
         /\ Opens(R, s) => Opens(Q, s)
         /\ Closes(R, s) => Closes(Q, s)
BY DEF AsksFor, AgreesTo, Opens, Closes

\* OnDone, as far as s is concerned: perhaps the next request is for s.
LEMMA DoneStep ==
  ASSUME TypeOK, NEW p \in Peer, NEW s \in Sid, OnDone(p)
  PROVE  SidStep(s)
<1> DEFINE q == Other(p)
           h == Head(wire[p])
<1>1. AnsweredOutcome(p, h, queued_reset_streams_[p], sent_reset_streams_[p])
  BY DoneSets
<1>2. /\ UNCHANGED channels /\ UNCHANGED open_streams_ /\ PostedSame
  BY PostedUnchanged DEF OnDone, alloc
<1> HIDE DEF h
<1>3. SameWire(p, s)
  BY <1>1, ReadOther DEF AnsweredOutcome, SameWire
<1>4. SendsOutcome(p, s, queued_reset_streams_[p], sent_reset_streams_[p], Taken(p))
  BY <1>1, SendsSid DEF AnsweredOutcome
<1>5. AgreesTo(OnWire(q), s)' <=> AgreesTo(OnWire(q), s)
  BY <1>1, <1>4 DEF AnsweredOutcome, SendsOutcome
<1>6. SameStreams(q, s)
  BY <1>2, <1>4 DEF SendsOutcome, SameStreams
<1>7. \A x \in Peer : SamePosted(x, s)
  BY <1>2, SameQueues DEF PostedSame
<1> QED
  BY <1>2, <1>3, <1>4, <1>5, <1>6, <1>7, SendStep DEF SendsOutcome

\* OnFailed: the reset of s is queued again.
LEMMA FailedStep ==
  ASSUME TypeOK, Handshake, NEW p \in Peer, NEW s \in Sid, OnFailed(p)
  PROVE  SidStep(s)
<1> DEFINE q == Other(p)
           h == Head(wire[p])
<1>0. q \in Peer /\ Other(q) = p /\ (Guest(s) = p \/ Guest(s) = q)
  BY Peers, Sides
<1>1. AnsweredOutcome(p, h, Closing(p), {})
  BY FailedSets
<1>2. /\ UNCHANGED channels /\ UNCHANGED open_streams_ /\ PostedSame /\ h.k = "refuse"
  BY PostedUnchanged DEF OnFailed, alloc, ReadPacket
<1> HIDE DEF h
<1>3. SameWire(p, s)
  BY <1>1, ReadOther DEF AnsweredOutcome, SameWire
<1>4. SendsOutcome(p, s, Closing(p), {}, Taken(p))
  BY <1>1, SendsSid DEF AnsweredOutcome
<1>5. AgreesTo(OnWire(q), s)' <=> AgreesTo(OnWire(q), s)
  BY <1>1, <1>4 DEF AnsweredOutcome, SendsOutcome
<1>6. SameStreams(q, s)
  BY <1>2, <1>4 DEF SendsOutcome, SameStreams
<1>7. SamePosted(p, s) /\ SamePosted(q, s)
  BY <1>0, <1>2, SameQueues DEF PostedSame
<1>8. /\ (Connecting(s)' <=> Connecting(s)) /\ SameChannel(p, s) /\ SameChannel(q, s)
  BY <1>0, <1>2, SameChannels
<1>9. Refused(wire, p) /\ ~Asked(wire, p) /\ ~Agreed(wire, p)
  <2>1. Refused(wire, p)
    BY <1>1, <1>2 DEF AnsweredOutcome, OnWire, Refused, Has, ResetsOf, ResetKind
  <2> QED
    BY <2>1 DEF Handshake, HandshakeOf, Underway
<1>10. ~Requested(p, s) /\ ~AgreedTo(p, s)
  BY <1>9
     DEF Requested, AgreedTo, AsksFor, AgreesTo, OnWire, Asked, Agreed, Has, ResetsOf, ResetKind
<1>11. Keeps(q, s) /\ SameOpens(s)
  BY <1>0, <1>3, <1>4, <1>5, <1>6, <1>7, <1>8
     DEF Keeps, SameOpens, SendsOutcome, SameWire, SamePosted, Requested, AgreedTo, ClosePosted,
         OpenOnWire, OpenPosted
<1>12. Requeues(p, s)
  BY <1>2, <1>3, <1>4, <1>7, <1>8, <1>10, <1>11
     DEF Requeues, SendsOutcome, SameWire, SamePosted, AgreedTo, ClosePosted
<1> QED
  BY <1>12 DEF SidStep

\* The INCOMING event of p, as far as one of the sids is concerned.
LEMMA IncomingThis ==
  ASSUME TypeOK, NEW p \in Peer, NEW sids \in SUBSET Sid, NEW s \in sids, NEW w,
         IncomingOutcome(p, sids, w), UNCHANGED channels,
         AsksFor(Items(w[Other(p)]), s) <=> AsksFor(OnWire(Other(p)), s),
         Opens(Items(w[Other(p)]), s) <=> Opens(OnWire(Other(p)), s)
  PROVE  /\ Incoming(p, s)
         /\ AgreesTo(OnWire(Other(p)), s)' <=> AgreesTo(Items(w[Other(p)]), s)
         /\ Opens(OnWire(Other(p)), s)' <=> Opens(OnWire(Other(p)), s)
<1> DEFINE q == Other(p)
           remote == (sids \ sent_reset_streams_[p]) \cap open_streams_[p]
           double == (sids \ sent_reset_streams_[p]) \ open_streams_[p]
<1>0. s \in Sid /\ q \in Peer /\ Other(q) = p /\ (Guest(s) = p \/ Guest(s) = q)
  BY Peers, Sides
<1>1. /\ open_streams_'[p] = open_streams_[p] \ remote /\ open_streams_'[q] = open_streams_[q]
      /\ Posted(p)' = Posted(p) \cup {ClosedOf(t) : t \in remote}
      /\ Posted(q)' = Posted(q)
      /\ SendOutcome(p, queued_reset_streams_[p] \ double, sent_reset_streams_[p] \ sids, w)
      /\ mishaps' = mishaps \cup {m \in {"overtaken"} : OpenPending(p, double)}
  BY DEF IncomingOutcome
<1>2. SendsOutcome(p, s, queued_reset_streams_[p] \ double, sent_reset_streams_[p] \ sids, w)
  BY <1>0, <1>1, SendsSid
<1>3. /\ (Connecting(s)' <=> Connecting(s)) /\ SameChannel(p, s) /\ SameChannel(q, s)
  BY <1>0, SameChannels
<1>4. SameStreams(q, s) /\ SamePosted(q, s)
  BY <1>0, <1>1, <1>2, SameQueues DEF SendsOutcome, SameStreams
<1>5. /\ Opens(Posted(p), s)' <=> Opens(Posted(p), s)
      /\ Closes(Posted(p), s)' <=> Closes(Posted(p), s) \/ s \in remote
  <2> HIDE DEF remote
  <2>1. \A t \in remote : ClosedOf(t).k = "closed" /\ ClosedOf(t).sid = t
    BY DEF ClosedOf
  <2> QED
    BY <1>1, <2>1 DEF Opens, Closes
<1>6. OpenPosted(s)' <=> OpenPosted(s)
  BY <1>0, <1>4, <1>5 DEF OpenPosted, SamePosted
<1>7. s \in double /\ p = Guest(s) /\ OpenPosted(s) => "overtaken" \in mishaps'
  <2>1. ASSUME s \in double, Opens(Posted(p), s) PROVE OpenPending(p, double)
    BY <2>1 DEF Opens, Posted, Waiting, Items, OpenPending
  <2> QED
    BY <1>1, <2>1 DEF OpenPosted
<1>8. s \notin sent_reset_streams_[p] \ sids
  OBVIOUS
<1>9. Incoming(p, s)
  <2>1. CASE s \in remote
    <3>1. Sends(p, s, queued_reset_streams_[p], {})
      BY <1>2, <1>8, <2>1 DEF SendsOutcome, Sends
    <3> QED
      BY <1>1, <1>3, <1>4, <1>5, <1>6, <2>1, <3>1 DEF Incoming, SamePosted, ClosePosted
  <2>2. CASE s \in sent_reset_streams_[p]
    <3>1. Sends(p, s, queued_reset_streams_[p], {})
      BY <1>2, <1>8, <2>2 DEF SendsOutcome, Sends
    <3> QED
      BY <1>1, <1>3, <1>4, <1>5, <1>6, <2>2, <3>1 DEF Incoming, SamePosted, ClosePosted
  <2>3. CASE s \in double
    <3>1. Sends(p, s, {}, {})
      BY <1>2, <1>8, <2>3 DEF SendsOutcome, Sends
    <3> QED
      BY <1>1, <1>3, <1>4, <1>5, <1>6, <1>7, <2>3, <3>1 DEF Incoming, SamePosted, ClosePosted
  <2> QED
    BY <2>1, <2>2, <2>3
<1> QED
  BY <1>2, <1>9 DEF SendsOutcome

\* The INCOMING event of p, as far as another sid is concerned.
LEMMA IncomingOther ==
  ASSUME TypeOK, NEW p \in Peer, NEW sids \in SUBSET Sid, NEW s \in Sid, s \notin sids, NEW w,
         IncomingOutcome(p, sids, w), UNCHANGED channels, SameWire(p, s),
         AsksFor(Items(w[Other(p)]), s) <=> AsksFor(OnWire(Other(p)), s),
         AgreesTo(Items(w[Other(p)]), s) <=> AgreesTo(OnWire(Other(p)), s),
         Opens(Items(w[Other(p)]), s) <=> Opens(OnWire(Other(p)), s)
  PROVE  SidStep(s)
<1> DEFINE q == Other(p)
           remote == (sids \ sent_reset_streams_[p]) \cap open_streams_[p]
           double == (sids \ sent_reset_streams_[p]) \ open_streams_[p]
<1>0. q \in Peer /\ Other(q) = p /\ \A x \in Peer : x = p \/ x = q
  BY Peers
<1>1. /\ open_streams_'[p] = open_streams_[p] \ remote /\ open_streams_'[q] = open_streams_[q]
      /\ Posted(p)' = Posted(p) \cup {ClosedOf(t) : t \in remote}
      /\ Posted(q)' = Posted(q)
      /\ SendOutcome(p, queued_reset_streams_[p] \ double, sent_reset_streams_[p] \ sids, w)
  BY DEF IncomingOutcome
<1>2. SendsOutcome(p, s, queued_reset_streams_[p] \ double, sent_reset_streams_[p] \ sids, w)
  BY <1>1, SendsSid
<1>3. s \notin remote /\ s \notin double
  OBVIOUS
<1>4. SameStreams(q, s) /\ SamePosted(q, s)
  BY <1>0, <1>1, <1>2, SameQueues DEF SendsOutcome, SameStreams
<1>5. SamePosted(p, s)
  <2> HIDE DEF remote
  <2>1. \A t \in remote : ClosedOf(t).k = "closed" /\ ClosedOf(t).sid = t
    BY DEF ClosedOf
  <2> QED
    BY <1>1, <1>3, <2>1 DEF Opens, Closes, SamePosted
<1>6. Sends(p, s, queued_reset_streams_[p], sent_reset_streams_[p])
  BY <1>2, <1>3 DEF SendsOutcome, Sends
<1>7. (s \in open_streams_'[p]) <=> (s \in open_streams_[p])
  BY <1>1, <1>3
<1>8. /\ AgreesTo(OnWire(q), s)' <=> AgreesTo(OnWire(q), s)
      /\ Opens(OnWire(q), s)' <=> Opens(OnWire(q), s)
  BY <1>2 DEF SendsOutcome
<1>9. (\A x \in Peer : SamePosted(x, s)) /\ (\A x \in Peer : channels'[x][s] = channels[x][s])
  BY <1>0, <1>4, <1>5
<1> QED
  BY <1>4, <1>6, <1>7, <1>8, <1>9, SendStep

\* An answer of the handshake is added to what is on the wire.
LEMMA AnswerAdds ==
  ASSUME NEW Q, NEW R, NEW kind \in {"refuse", "agree", "done"}, NEW sids, NEW s,
         R = Q \cup {[k |-> kind, sids |-> sids]}
  PROVE  /\ AsksFor(R, s) <=> AsksFor(Q, s)
         /\ AgreesTo(R, s) => AgreesTo(Q, s) \/ s \in sids
         /\ AgreesTo(Q, s) => AgreesTo(R, s)
         /\ kind # "agree" => (AgreesTo(R, s) <=> AgreesTo(Q, s))
         /\ Opens(R, s) <=> Opens(Q, s)
<1> DEFINE m == [k |-> kind, sids |-> sids]
<1>1. m.k = kind /\ m.sids = sids /\ R = Q \cup {m}
  OBVIOUS
<1> HIDE DEF m
<1> QED
  BY <1>1 DEF AsksFor, AgreesTo, Opens

\* OnRequest: INCOMING, if the request is also for s.
LEMMA RequestStep ==
  ASSUME TypeOK, WireOrder, NEW p \in Peer, NEW s \in Sid, OnRequest(p)
  PROVE  SidStep(s)
<1> DEFINE q == Other(p)
           h == Head(wire[p])
<1>0. q \in Peer /\ Other(q) = p /\ (Guest(s) = p \/ Guest(s) = q)
  BY Peers, Sides
<1>1. RequestOutcome(p) /\ UNCHANGED channels
  BY RequestSets DEF OnRequest, alloc
<1>2. PICK kind \in {"refuse", "agree"}, w \in Wires :
          /\ ReadOutcome(p, h) /\ h.k = "request" /\ h.sids \in SUBSET Sid
          /\ OnWire(p) = {h} \cup Items(w[p])
          /\ Items(w[q]) = OnWire(q) \cup {[k |-> kind, sids |-> h.sids]}
          /\ IncomingOutcome(p, h.sids, w)
          /\ \A n \in Items(w[p]) : <<h, n>> \in OpenOnce
  BY <1>1 DEF RequestOutcome
<1> HIDE DEF h
<1>3. OnWire(p)' = Items(w[p])
  BY <1>2 DEF IncomingOutcome, SendOutcome
<1>4. /\ AgreesTo(OnWire(p)', s) <=> AgreesTo(OnWire(p), s)
      /\ Opens(OnWire(p)', s) <=> Opens(OnWire(p), s)
      /\ AsksFor(OnWire(p)', s) => AsksFor(OnWire(p), s)
      /\ s \notin h.sids => (AsksFor(OnWire(p)', s) <=> AsksFor(OnWire(p), s))
  BY <1>2, <1>3, ReadOther
<1>5. /\ AsksFor(Items(w[q]), s) <=> AsksFor(OnWire(q), s)
      /\ AgreesTo(Items(w[q]), s) => AgreesTo(OnWire(q), s) \/ s \in h.sids
      /\ AgreesTo(OnWire(q), s) => AgreesTo(Items(w[q]), s)
      /\ Opens(Items(w[q]), s) <=> Opens(OnWire(q), s)
  BY <1>2, AnswerAdds
<1>6. CASE s \in h.sids
  <2>1. /\ Incoming(p, s)
        /\ AgreesTo(OnWire(q), s)' <=> AgreesTo(Items(w[q]), s)
        /\ Opens(OnWire(q), s)' <=> Opens(OnWire(q), s)
    BY <1>1, <1>2, <1>5, <1>6, IncomingThis
  <2>2. Requested(q, s)
    BY <1>0, <1>2, <1>6 DEF Requested, AsksFor
  <2>3. OpenOnWire(s)' <=> OpenOnWire(s)
    BY <1>0, <1>4, <2>1 DEF OpenOnWire
  <2>4. ~Opens(OnWire(p), s)
    BY <1>2, <1>6 DEF Opens, OpenOnce
  <2>5. Asks(p, s)
    BY <1>0, <1>4, <1>5, <2>1, <2>2, <2>3, <2>4 DEF Asks, Requested, AgreedTo, OpenOnWire
  <2> QED
    BY <2>5 DEF SidStep
<1>7. CASE s \notin h.sids
  <2>1. SameWire(p, s)
    BY <1>4, <1>7 DEF SameWire
  <2> QED
    BY <1>1, <1>2, <1>5, <1>7, <2>1, IncomingOther
<1> QED
  BY <1>6, <1>7

\* OnAgreed: INCOMING, if the agreement is also for s.
LEMMA AgreedStep ==
  ASSUME TypeOK, NEW p \in Peer, NEW s \in Sid, OnAgreed(p)
  PROVE  SidStep(s)
<1> DEFINE q == Other(p)
           h == Head(wire[p])
<1>0. q \in Peer /\ Other(q) = p /\ (Guest(s) = p \/ Guest(s) = q)
  BY Peers, Sides
<1>1. AgreedOutcome(p) /\ UNCHANGED channels
  BY AgreedSets DEF OnAgreed, alloc
<1>2. PICK w \in Wires :
          /\ ReadOutcome(p, h) /\ h.k = "agree" /\ h.sids \in SUBSET Sid
          /\ OnWire(p) = {h} \cup Items(w[p])
          /\ Items(w[q]) = OnWire(q) \cup {[k |-> "done", sids |-> h.sids]}
          /\ IncomingOutcome(p, h.sids, w)
  BY <1>1 DEF AgreedOutcome
<1> HIDE DEF h
<1>3. OnWire(p)' = Items(w[p])
  BY <1>2 DEF IncomingOutcome, SendOutcome
<1>4. /\ AsksFor(OnWire(p)', s) <=> AsksFor(OnWire(p), s)
      /\ Opens(OnWire(p)', s) <=> Opens(OnWire(p), s)
      /\ AgreesTo(OnWire(p)', s) => AgreesTo(OnWire(p), s)
      /\ s \notin h.sids => (AgreesTo(OnWire(p)', s) <=> AgreesTo(OnWire(p), s))
  BY <1>2, <1>3, ReadOther
<1>5. /\ AsksFor(Items(w[q]), s) <=> AsksFor(OnWire(q), s)
      /\ AgreesTo(Items(w[q]), s) <=> AgreesTo(OnWire(q), s)
      /\ Opens(Items(w[q]), s) <=> Opens(OnWire(q), s)
  BY <1>2, AnswerAdds
<1>6. CASE s \in h.sids
  <2>1. /\ Incoming(p, s)
        /\ AgreesTo(OnWire(q), s)' <=> AgreesTo(Items(w[q]), s)
        /\ Opens(OnWire(q), s)' <=> Opens(OnWire(q), s)
    BY <1>1, <1>2, <1>5, <1>6, IncomingThis
  <2>2. AgreedTo(p, s)
    BY <1>0, <1>2, <1>6 DEF AgreedTo, AgreesTo
  <2>3. OpenOnWire(s)' <=> OpenOnWire(s)
    BY <1>0, <1>4, <2>1 DEF OpenOnWire
  <2>4. IsAgreed(p, s)
    BY <1>0, <1>4, <1>5, <2>1, <2>2, <2>3 DEF IsAgreed, Requested, AgreedTo
  <2> QED
    BY <2>4 DEF SidStep
<1>7. CASE s \notin h.sids
  <2>1. SameWire(p, s)
    BY <1>4, <1>7 DEF SameWire
  <2> QED
    BY <1>1, <1>2, <1>5, <1>7, <2>1, IncomingOther
<1> QED
  BY <1>6, <1>7

\* CloseChannel, when the closures about sids other than the closed one are the same.
LEMMA CloseStep ==
  ASSUME TypeOK, NEW p \in Peer, NEW t \in Sid, NEW s \in Sid, CloseChannel(p, t),
         \A x \in Peer : SamePosted(x, s)
  PROVE  SidStep(s)
<1>1. CASE s # t
  BY <1>1, ResetOther
<1>2. CASE s = t
  <2>1. SamePosted(p, s) /\ SamePosted(Other(p), s) /\ SamePosted(Guest(s), s)
    BY Peers, Sides
  <2>2. /\ OpenPosted(s)' <=> OpenPosted(s)
        /\ ClosePosted(p, s)' <=> ClosePosted(p, s)
    BY <2>1 DEF SamePosted, OpenPosted, ClosePosted
  <2> QED
    BY <1>2, <2>1, <2>2, ResetThis
<1> QED
  BY <1>1, <1>2

\* Send: a data message does nothing to s, an error closes the channel.
LEMMA SendDataStep ==
  ASSUME TypeOK, NEW p \in Peer, NEW t \in Sid, NEW s \in Sid, Send(p, t)
  PROVE  SidStep(s)
<1>1. PostedSame
  BY PostedUnchanged DEF Send
<1>2. \A x \in Peer : SamePosted(x, s)
  BY <1>1, SameQueues DEF PostedSame
<1>3. CASE CloseChannel(p, t)
  BY <1>2, <1>3, CloseStep
<1>4. CASE DataOutcome(p, t)
  <2>1. SameWire(p, s)
    BY <1>4, SameQueues DEF DataOutcome
  <2>2. SameWire(Other(p), s)
    <3> DEFINE m == [k |-> "data", sid |-> t, ch |-> channels[p][t].ch]
    <3>1. m.k = "data" /\ OnWire(Other(p))' = OnWire(Other(p)) \cup {m}
      BY <1>4 DEF DataOutcome
    <3> HIDE DEF m
    <3> QED
      BY <3>1 DEF SameWire, AsksFor, AgreesTo, Opens
  <2>3. \A x \in Peer : SameWire(x, s)
    BY <2>1, <2>2, Peers
  <2>4. UNCHANGED <<channels, streams>>
    BY <1>4 DEF DataOutcome, alloc
  <2> QED
    BY <1>2, <2>3, <2>4, NothingStep
<1> QED
  BY <1>3, <1>4, SendCases

\* Connect does nothing to s.
LEMMA ConnectStep ==
  ASSUME TypeOK, NEW p \in Peer, NEW s \in Sid, Connect(p)
  PROVE  SidStep(s)
<1>1. PostedSame /\ (\A x \in Peer : OnWire(x)' = OnWire(x)) /\ UNCHANGED <<channels, streams>>
  BY ConnectSets, WireUnchanged DEF Connect, stack, alloc
<1>2. \A x \in Peer : SameWire(x, s) /\ SamePosted(x, s)
  BY <1>1, SameQueues DEF PostedSame
<1> QED
  BY <1>1, <1>2, NothingStep

\* Nor does the end of the stacks' handshake.
LEMMA CommUpStep ==
  ASSUME NEW p \in Peer, NEW s \in Sid, CommUp(p)
  PROVE  SidStep(s)
<1>1. PostedSame /\ (\A x \in Peer : OnWire(x)' = OnWire(x)) /\ UNCHANGED <<channels, streams>>
  BY PostedUnchanged, WireUnchanged DEF CommUp, stack, alloc
<1>2. \A x \in Peer : SameWire(x, s) /\ SamePosted(x, s)
  BY <1>1, SameQueues DEF PostedSame
<1> QED
  BY <1>1, <1>2, NothingStep

\* OnDataReceived does nothing to s.
LEMMA DataReceivedStep ==
  ASSUME TypeOK, NEW p \in Peer, NEW s \in Sid, OnDataReceived(p)
  PROVE  SidStep(s)
<1> DEFINE h == Head(sig[p])
<1>1. HandledOutcome(p, h) /\ h.k \in {"data", "ack"}
  BY ReceivedSets
<1> HIDE DEF h
<1>2. (\A x \in Peer : OnWire(x)' = OnWire(x)) /\ UNCHANGED <<channels, streams>>
  BY WireUnchanged DEF OnDataReceived, stack, alloc
<1>3. Posted(p) = {h} \cup Posted(p)' /\ Posted(Other(p))' = Posted(Other(p))
  BY <1>1 DEF HandledOutcome
<1>4. SamePosted(p, s)
  BY <1>1, <1>3, ReadOther DEF SamePosted
<1>5. SamePosted(Other(p), s)
  BY <1>3, Peers, SameQueues
<1>6. \A x \in Peer : SamePosted(x, s)
  BY <1>4, <1>5, Peers
<1>7. \A x \in Peer : SameWire(x, s)
  BY <1>2, SameQueues
<1> QED
  BY <1>2, <1>6, <1>7, NothingStep

\* OnDataFromSctpToChannel: perhaps the OPEN for s moves.
LEMMA MovedStep ==
  ASSUME TypeOK, Parity, WireOrder, NEW p \in Peer, NEW s \in Sid, OnDataFromSctpToChannel(p)
  PROVE  SidStep(s)
<1> DEFINE h == Head(wire[p])
           q == Other(p)
<1>0. q \in Peer /\ Other(q) = p /\ \A x \in Peer : x = p \/ x = q
  BY Peers
<1>1. MovedOutcome(p, h) /\ UNCHANGED <<channels, streams>>
  BY MovedSets DEF OnDataFromSctpToChannel, alloc
<1> HIDE DEF h
<1>2. /\ h \in OnWire(p) /\ h.k \in {"data", "open", "ack"}
      /\ OnWire(p) = {h} \cup OnWire(p)' /\ OnWire(q)' = OnWire(q)
      /\ Posted(p)' = Posted(p) \cup {h} /\ Posted(q)' = Posted(q)
      /\ \A n \in OnWire(p)' : <<h, n>> \in OpenOnce
  BY <1>1 DEF MovedOutcome
<1>3. SameWire(q, s) /\ SamePosted(q, s)
  BY <1>0, <1>2, SameQueues
<1>4. /\ AsksFor(OnWire(p)', s) <=> AsksFor(OnWire(p), s)
      /\ AgreesTo(OnWire(p)', s) <=> AgreesTo(OnWire(p), s)
      /\ Closes(Posted(p)', s) <=> Closes(Posted(p), s)
  BY <1>2 DEF AsksFor, AgreesTo, Closes
<1>5. CASE h.k = "open" /\ h.sid = s
  <2>1. p = Guest(s) /\ q = Owner(s)
    <3>1. p = Guest(s)
      BY <1>2, <1>5 DEF Parity, OpensToGuest
    <3> QED
      BY <3>1, Sides
  <2>2. OpenOnWire(s) /\ ~OpenOnWire(s)' /\ OpenPosted(s)'
    BY <1>2, <1>5, <2>1 DEF OpenOnWire, OpenPosted, Opens, OpenOnce
  <2>3. /\ (Connecting(s)' <=> Connecting(s)) /\ SameChannel(p, s) /\ SameChannel(q, s)
    BY <1>0, <1>1, SameChannels
  <2>4. SameStreams(p, s) /\ SameStreams(q, s)
    BY <1>1 DEF streams, SameStreams
  <2>5. Keeps(p, s) /\ Keeps(q, s)
    BY <1>0, <1>3, <1>4, <2>3, <2>4
       DEF Keeps, SameWire, SamePosted, Requested, AgreedTo, ClosePosted
  <2>6. MovesOpen(s)
    BY <1>0, <2>2, <2>3, <2>5 DEF MovesOpen
  <2> QED
    BY <2>6 DEF SidStep
<1>6. CASE ~(h.k = "open" /\ h.sid = s)
  <2>1. /\ Opens(OnWire(p)', s) <=> Opens(OnWire(p), s)
        /\ Opens(Posted(p)', s) <=> Opens(Posted(p), s)
    BY <1>2, <1>6 DEF Opens
  <2>2. SameWire(p, s) /\ SamePosted(p, s)
    BY <1>4, <2>1 DEF SameWire, SamePosted
  <2> QED
    BY <1>0, <1>1, <1>3, <2>2, NothingStep
<1> QED
  BY <1>5, <1>6

\* OnStreamClosedRemotely: perhaps the channel on s closes.
LEMMA ClosedStep ==
  ASSUME TypeOK, NEW p \in Peer, NEW s \in Sid, OnStreamClosedRemotely(p)
  PROVE  SidStep(s)
<1> DEFINE h == Head(sig[p])
           q == Other(p)
<1>0. q \in Peer /\ Other(q) = p /\ \A x \in Peer : x = p \/ x = q
  BY Peers
<1>1. ClosedOutcome(p, h)
  BY ClosedSets
<1> HIDE DEF h
<1>2. /\ h.k = "closed" /\ h.sid \in Sid
      /\ Posted(p) = {h} \cup Posted(p)' /\ Posted(q)' = Posted(q)
  BY <1>1 DEF ClosedOutcome, HandledOutcome
<1>3. /\ Opens(Posted(p)', s) <=> Opens(Posted(p), s)
      /\ h.sid # s => (Closes(Posted(p)', s) <=> Closes(Posted(p), s))
      /\ Closes(Posted(p)', s) => Closes(Posted(p), s)
  BY <1>2, ReadOther
<1>4. SamePosted(q, s)
  BY <1>0, <1>2, SameQueues
<1>5. CASE h.sid # s
  <2>1. SamePosted(p, s)
    BY <1>3, <1>5 DEF SamePosted
  <2>2. \A x \in Peer : SamePosted(x, s)
    BY <1>0, <1>4, <2>1
  <2>3. CASE CloseChannel(p, h.sid)
    BY <1>2, <2>2, <2>3, CloseStep
  <2>4. CASE UNCHANGED <<alloc, streams, stack>>
    <3>1. (\A x \in Peer : OnWire(x)' = OnWire(x)) /\ UNCHANGED <<channels, streams>>
      BY <2>4, WireUnchanged DEF stack, alloc
    <3>2. \A x \in Peer : SameWire(x, s)
      BY <3>1, SameQueues
    <3> QED
      BY <2>2, <3>1, <3>2, NothingStep
  <2> QED
    BY <1>1, <2>3, <2>4 DEF ClosedOutcome
<1>6. CASE h.sid = s
  <2>1. OpenPosted(s)' <=> OpenPosted(s)
    BY <1>0, <1>3, <1>4, Sides DEF SamePosted, OpenPosted
  <2>2. ClosePosted(p, s)' => ClosePosted(p, s)
    BY <1>3 DEF ClosePosted
  <2>3. CASE CloseChannel(p, s)
    BY <1>4, <2>1, <2>2, <2>3, ResetThis
  <2>4. CASE channels[p][s] = None /\ UNCHANGED <<alloc, streams, stack>>
    <3>1. (\A x \in Peer : OnWire(x)' = OnWire(x)) /\ UNCHANGED <<channels, streams>>
      BY <2>4, WireUnchanged DEF stack, alloc
    <3>2. SameWire(p, s) /\ SameWire(q, s)
      BY <1>0, <3>1, SameQueues
    <3>3. /\ (Connecting(s)' <=> Connecting(s)) /\ SameChannel(p, s) /\ SameChannel(q, s)
      BY <1>0, <3>1, SameChannels
    <3>4. SameStreams(p, s) /\ SameStreams(q, s)
      BY <3>1 DEF streams, SameStreams
    <3>5. Guest(s) = p \/ Guest(s) = q
      BY <1>0, Sides
    <3>6. Keeps(q, s) /\ SameOpens(s)
      BY <1>0, <1>4, <2>1, <3>2, <3>3, <3>4, <3>5
         DEF Keeps, SameOpens, SameWire, SamePosted, Requested, AgreedTo, ClosePosted,
             OpenOnWire
    <3>7. Flushes(p, s)
      BY <1>0, <2>2, <2>4, <3>2, <3>3, <3>4, <3>6
         DEF Flushes, Sends, SameWire, SameStreams, Requested, AgreedTo, HasChannel
    <3> QED
      BY <3>7 DEF SidStep
  <2> QED
    BY <1>1, <1>6, <2>3, <2>4 DEF ClosedOutcome
<1> QED
  BY <1>5, <1>6

\* OnChannelReady: perhaps the owner's channel on s sends OPEN.
LEMMA ReadyStep ==
  ASSUME TypeOK, Parity, NEW p \in Peer, NEW s \in Sid, OnChannelReady(p)
  PROVE  SidStep(s)
<1> DEFINE q == Other(p)
<1>0. q \in Peer /\ Other(q) = p /\ \A x \in Peer : x = p \/ x = q
  BY Peers
<1>1. ReadyOutcome(p) /\ UNCHANGED streams
  BY ReadySets DEF OnChannelReady
<1>2. /\ PostedSame /\ OnWire(p)' = OnWire(p)
      /\ OnWire(q)' = OnWire(q) \cup {HelloOf(p, t) : t \in Told(p)}
      /\ channels'[q][s] = channels[q][s]
      /\ s \notin Told(p) => channels'[p][s] = channels[p][s]
      /\ s \in Told(p) => /\ channels[p][s] # None /\ channels[p][s].state = "kConnecting"
                          /\ channels'[p][s] # None /\ channels'[p][s].state = "kOpen"
  BY <1>0, <1>1, Peers DEF ReadyOutcome
<1>3. SameWire(p, s) /\ SamePosted(p, s) /\ SamePosted(q, s)
  BY <1>0, <1>2, SameQueues DEF PostedSame
<1>4. /\ AsksFor(OnWire(q)', s) <=> AsksFor(OnWire(q), s)
      /\ AgreesTo(OnWire(q)', s) <=> AgreesTo(OnWire(q), s)
      /\ Opens(OnWire(q)', s) <=> Opens(OnWire(q), s) \/ s \in Openers(p)
  <2>1. \A t \in Told(p) : /\ HelloOf(p, t).k \in {"open", "ack"} /\ HelloOf(p, t).sid = t
                           /\ HelloOf(p, t).k = "open" <=> t \in Openers(p)
    BY DEF HelloOf, Openers
  <2>2. \A t \in Openers(p) : t \in Told(p)
    BY DEF Openers
  <2> DEFINE H == {HelloOf(p, t) : t \in Told(p)}
  <2>3. \A m \in H : m.k \in {"open", "ack"} /\ (m.k = "open" => m.sid \in Openers(p))
    BY <2>1
  <2>4. \A t \in Openers(p) : \E m \in H : m.k = "open" /\ m.sid = t
    BY <2>1, <2>2
  <2>5. OnWire(q)' = OnWire(q) \cup H
    BY <1>2
  <2> HIDE DEF H
  <2>6. \A m \in H : m.k # "request" /\ m.k # "agree"
    BY <2>3
  <2>7. /\ AsksFor(OnWire(q)', s) <=> AsksFor(OnWire(q), s)
        /\ AgreesTo(OnWire(q)', s) <=> AgreesTo(OnWire(q), s)
    BY <2>5, <2>6 DEF AsksFor, AgreesTo
  <2>8. Opens(OnWire(q)', s) <=> Opens(OnWire(q), s) \/ s \in Openers(p)
    BY <2>3, <2>4, <2>5 DEF Opens
  <2> QED
    BY <2>7, <2>8
<1>5. SameStreams(p, s) /\ SameStreams(q, s)
  BY <1>1 DEF streams, SameStreams
<1>6. SameChannel(p, s) /\ SameChannel(q, s)
  BY <1>2 DEF SameChannel, HasChannel
<1>7. s \in Openers(p) <=> s \in Told(p) /\ p = Owner(s)
  <2>1. ASSUME s \in Told(p) PROVE channels[p][s].opener <=> p = Owner(s)
    BY <1>2, <2>1 DEF Parity, OwnersOpen
  <2> QED
    BY <2>1 DEF Openers
<1>8. CASE s \in Openers(p)
  <2>1. p = Owner(s) /\ q = Guest(s) /\ s \in Told(p)
    BY <1>7, <1>8, Sides
  <2>2. Connecting(s) /\ ~Connecting(s)'
    BY <1>2, <2>1 DEF Connecting, HasChannel
  <2>3. OpenOnWire(s)'
    BY <1>4, <1>8, <2>1 DEF OpenOnWire
  <2>4. OpenPosted(s)' <=> OpenPosted(s)
    BY <1>3, <2>1 DEF OpenPosted, SamePosted
  <2>5. Keeps(p, s) /\ Keeps(q, s)
    BY <1>0, <1>3, <1>4, <1>5, <1>6
       DEF Keeps, SameWire, SamePosted, Requested, AgreedTo, ClosePosted
  <2>6. SendsOpen(s)
    BY <1>0, <2>2, <2>3, <2>4, <2>5 DEF SendsOpen
  <2> QED
    BY <2>6 DEF SidStep
<1>9. CASE s \notin Openers(p)
  <2>1. Connecting(s)' <=> Connecting(s)
    <3>1. CASE p = Owner(s)
      BY <1>2, <1>7, <1>9, <3>1 DEF Connecting, HasChannel
    <3>2. CASE q = Owner(s)
      BY <1>2, <3>2 DEF Connecting, HasChannel
    <3> QED
      BY <1>0, <3>1, <3>2, Sides
  <2>2. SameWire(q, s)
    BY <1>4, <1>9 DEF SameWire
  <2>3. Untouched(s)
    BY <1>0, <1>3, <1>5, <1>6, <2>2 DEF Untouched
  <2> QED
    BY <2>1, <2>3, UntouchedStep
<1> QED
  BY <1>8, <1>9

\* CreateChannel on t does nothing to another sid.
LEMMA CreateOther ==
  ASSUME NEW p \in Peer, NEW t \in Sid, NEW s \in Sid, s # t, NEW c, NEW isOpener,
         CreateOutcome(p, t, c, isOpener),
         UNCHANGED <<queued_reset_streams_, sent_reset_streams_>>,
         \A x \in Peer : SameWire(x, s) /\ SamePosted(x, s)
  PROVE  SidStep(s)
<1>1. \A x \in Peer : channels'[x][s] = channels[x][s]
  BY DEF CreateOutcome
<1>2. (Connecting(s)' <=> Connecting(s)) /\ \A x \in Peer : SameChannel(x, s)
  BY <1>1, SameChannels
<1>3. SameStreams(p, s) /\ SameStreams(Other(p), s)
  BY DEF CreateOutcome, SameStreams
<1>4. Untouched(s)
  BY <1>2, <1>3, Peers DEF Untouched
<1> QED
  BY <1>2, <1>4, UntouchedStep

\* OnDataChannelOpenMessage: perhaps the guest gets a channel on s.
LEMMA OpenMessageStep ==
  ASSUME TypeOK, Parity, SigOrder, NEW p \in Peer, NEW s \in Sid,
         \A t \in Sid : Fresh(t), OnDataChannelOpenMessage(p)
  PROVE  SidStep(s)
<1> DEFINE h == Head(sig[p])
           q == Other(p)
<1>0. q \in Peer /\ Other(q) = p /\ q # p /\ \A x \in Peer : x = p \/ x = q
  BY Peers
<1>1. OpenedOutcome(p, h) /\ UNCHANGED <<queued_reset_streams_, sent_reset_streams_>>
  BY OpenedSets DEF OnDataChannelOpenMessage
<1> HIDE DEF h
<1>2. /\ h.k = "open" /\ h \in Posted(p) /\ h.sid \in Sid /\ h.ch \in Ch
      /\ Posted(p) = {h} \cup Posted(p)' /\ Posted(q)' = Posted(q)
      /\ \A n \in Posted(p)' : <<h, n>> \in OpenOnce
      /\ \A x \in Peer : OnWire(x)' = OnWire(x)
  BY <1>1 DEF OpenedOutcome
<1>3. p = Guest(h.sid) /\ q = Owner(h.sid)
  <2>1. p = Guest(h.sid)
    BY <1>2 DEF Parity, OpensToGuest
  <2> QED
    BY <1>2, <2>1, Sides
<1>4. OpenPosted(h.sid)
  BY <1>2, <1>3 DEF OpenPosted, Opens
<1>6. ~HasChannel(p, h.sid)
  BY <1>2, <1>3, <1>4 DEF Fresh, Unheard
<1>7. CreateOutcome(p, h.sid, h.ch, FALSE)
  <2>1. h.sid \notin used_sids_[p]
    BY <1>2, <1>6 DEF HasChannel, Parity, UsedHere
  <2> QED
    BY <1>1, <2>1 DEF OpenedOutcome
<1>8. \A x \in Peer : SameWire(x, s)
  BY <1>2, SameQueues
<1>9. SamePosted(q, s)
  BY <1>0, <1>2, SameQueues
<1>10. /\ Closes(Posted(p)', s) <=> Closes(Posted(p), s)
       /\ h.sid # s => (Opens(Posted(p)', s) <=> Opens(Posted(p), s))
  BY <1>2, ReadOther
<1>11. CASE h.sid # s
  <2>1. SamePosted(p, s)
    BY <1>10, <1>11 DEF SamePosted
  <2>2. \A x \in Peer : SameWire(x, s) /\ SamePosted(x, s)
    BY <1>0, <1>8, <1>9, <2>1
  <2> QED
    BY <1>1, <1>2, <1>7, <1>11, <2>2, CreateOther
<1>12. CASE h.sid = s
  <2>1. ~OpenPosted(s)'
    <3>1. \A n \in Posted(p)' : ~(n.k = "open" /\ n.sid = s)
      BY <1>2, <1>12 DEF OpenOnce
    <3> QED
      BY <1>3, <1>12, <3>1 DEF OpenPosted, Opens
  <2>2. /\ HasChannel(p, s)' /\ channels'[q][s] = channels[q][s]
        /\ (s \in open_streams_'[p]) <=> (s \in open_streams_[p] \/ MayOpen(p, s))
        /\ open_streams_'[q] = open_streams_[q]
    BY <1>0, <1>7, <1>12 DEF CreateOutcome, HasChannel
  <2>3. SameStreams(q, s) /\ SameChannel(q, s)
    BY <1>1, <2>2 DEF SameStreams, SameChannel, HasChannel
  <2>4. Connecting(s)' <=> Connecting(s)
    BY <1>3, <1>12, <2>2 DEF Connecting, HasChannel
  <2>5. SameWire(p, s) /\ SameWire(q, s)
    BY <1>0, <1>8
  <2>6. OpenOnWire(s)' <=> OpenOnWire(s)
    BY <1>3, <1>12, <2>5 DEF OpenOnWire, SameWire
  <2>7. Keeps(q, s)
    BY <1>0, <1>9, <2>3, <2>5 DEF Keeps, SameWire, SamePosted, Requested, AgreedTo, ClosePosted
  <2>8. /\ Requested(p, s)' <=> Requested(p, s)
        /\ AgreedTo(p, s)' <=> AgreedTo(p, s)
        /\ ClosePosted(p, s)' <=> ClosePosted(p, s)
    BY <1>10, <2>5 DEF SameWire, Requested, AgreedTo, ClosePosted
  <2>9. /\ (s \in queued_reset_streams_'[p]) <=> (s \in queued_reset_streams_[p])
        /\ (s \in sent_reset_streams_'[p]) <=> (s \in sent_reset_streams_[p])
    BY <1>1
  <2>10. GuestOpens(s)
    BY <1>3, <1>4, <1>12, <2>1, <2>2, <2>4, <2>6, <2>7, <2>8, <2>9 DEF GuestOpens
  <2> QED
    BY <2>10 DEF SidStep
<1> QED
  BY <1>11, <1>12

\* Over, as the predicates about the queues say it.
LEMMA OverFacts ==
  ASSUME TypeOK, NEW s \in Sid, Over(s), NEW p \in Peer
  PROVE  /\ s \notin open_streams_[p] /\ s \notin Closing(p)
         /\ ~AsksFor(OnWire(p), s) /\ ~AgreesTo(OnWire(p), s) /\ ~Opens(OnWire(p), s)
         /\ ~Closes(Posted(p), s) /\ ~Opens(Posted(p), s)
<1>1. /\ s \notin open_streams_[p] /\ s \notin Closing(p)
      /\ ~Mentions(wire[p], s) /\ ~Mentions(sig[p], s)
  BY DEF Over
<1>2. \A m \in OnWire(p) : /\ ~(m.k \in {"data", "open", "ack", "closed"} /\ m.sid = s)
                           /\ ~(m.k \in {"request", "agree", "refuse", "done"} /\ s \in m.sids)
  BY <1>1 DEF Mentions, OnWire, Items
<1>3. \A m \in Posted(p) : /\ ~(m.k \in {"data", "open", "ack", "closed"} /\ m.sid = s)
  BY <1>1 DEF Mentions, Posted, Waiting, Items
<1> QED
  BY <1>1, <1>2, <1>3 DEF AsksFor, AgreesTo, Opens, Closes

\* CreateDataChannel: perhaps the owner gets a channel on s, whose last use is over.
LEMMA CreateStep ==
  ASSUME TypeOK, NEW p \in Peer, NEW s \in Sid, CreateDataChannel(p), "early" \notin mishaps'
  PROVE  SidStep(s)
<1>1. PICK t \in Sid : CreatedOutcome(p, t)
  BY CreatedSets
<1>2. /\ p = Owner(t) /\ CreateOutcome(p, t, created + 1, TRUE) /\ PostedSame
      /\ (\A x \in Peer : OnWire(x)' = OnWire(x)) /\ Over(t)
  BY <1>1 DEF CreatedOutcome
<1>3. UNCHANGED <<queued_reset_streams_, sent_reset_streams_>>
  BY DEF CreateDataChannel
<1>4. \A x \in Peer : SameWire(x, s) /\ SamePosted(x, s)
  BY <1>2, SameQueues DEF PostedSame
<1>5. CASE s # t
  BY <1>2, <1>3, <1>4, <1>5, CreateOther
<1>6. CASE s = t
  <2> DEFINE g == Guest(s)
  <2>0. p = Owner(s) /\ g \in Peer /\ g # p /\ Other(p) = g /\ Other(g) = p
    BY <1>2, <1>6, Sides
  <2>1. \A x \in Peer : /\ s \notin open_streams_[x] /\ s \notin Closing(x)
                        /\ ~AsksFor(OnWire(x), s) /\ ~AgreesTo(OnWire(x), s) /\ ~Opens(OnWire(x), s)
                        /\ ~Closes(Posted(x), s) /\ ~Opens(Posted(x), s)
    BY <1>2, <1>6, OverFacts
  <2>2. ASSUME NEW x \in Peer
        PROVE  /\ s \notin open_streams_[x] /\ s \notin Closing(x)
               /\ ~Requested(x, s) /\ ~AgreedTo(x, s) /\ ~ClosePosted(x, s)
               /\ Requested(x, s)' <=> Requested(x, s)
               /\ AgreedTo(x, s)' <=> AgreedTo(x, s)
               /\ ClosePosted(x, s)' <=> ClosePosted(x, s)
    BY <1>4, <2>1, Peers DEF SameWire, SamePosted, Requested, AgreedTo, ClosePosted
  <2>3. ~OpenOnWire(s) /\ ~OpenPosted(s) /\ SameOpens(s)
    BY <1>4, <2>0, <2>1 DEF OpenOnWire, OpenPosted, SameOpens, SameWire, SamePosted
  <2>4. /\ channels'[p][s] # None /\ channels'[p][s].state = "kConnecting"
        /\ channels'[g][s] = channels[g][s] /\ open_streams_'[g] = open_streams_[g]
        /\ open_streams_'[p] = open_streams_[p] \cup {r \in {s} : MayOpen(p, r)}
    BY <1>2, <1>6, <2>0 DEF CreateOutcome
  <2>5. MayOpen(p, s)
    BY <2>2 DEF MayOpen
  <2>6. SameStreams(g, s) /\ SameChannel(g, s)
    BY <1>3, <2>4 DEF SameStreams, SameChannel, HasChannel
  <2>7. HasChannel(p, s)' /\ Connecting(s)' /\ s \in open_streams_'[p]
    BY <2>0, <2>4, <2>5 DEF HasChannel, Connecting
  <2>8. Creates(s)
    BY <1>3, <2>0, <2>2, <2>3, <2>6, <2>7 DEF Creates
  <2> QED
    BY <2>8 DEF SidStep
<1> QED
  BY <1>5, <1>6

\* OnChannelReady sends an OPEN when none is on its way, nor a request.
LEMMA ReadyOrder ==
  ASSUME TypeOK, Parity, WireOrder, NEW p \in Peer, \A s \in Sid : Fresh(s), OnChannelReady(p)
  PROVE  WireOrder'
<1> DEFINE q == Other(p)
<1>0. q \in Peer /\ Other(q) = p /\ q # p /\ \A x \in Peer : x = p \/ x = q
  BY Peers
<1>1. PICK t \in Seq(Packet) : /\ wire' = [wire EXCEPT ![q] = @ \o t]
                               /\ Items(t) = {HelloOf(p, s) : s \in Told(p)}
                               /\ \A i, j \in DOMAIN t : i < j => t[i].sid # t[j].sid
  BY ReadySends
<1>2. wire'[p] = wire[p] /\ wire'[q] = wire[q] \o t /\ wire[q] \in Seq(Packet)
  BY <1>0, <1>1 DEF TypeOK
<1>3. ReadyOutcome(p)
  BY ReadySets
<1>4. ASSUME NEW s \in Openers(p)
      PROVE  s \in Sid /\ ~Opens(OnWire(q), s) /\ ~AsksFor(OnWire(q), s)
  <2>1. /\ s \in Sid /\ channels[p][s] # None /\ channels[p][s].opener
        /\ channels[p][s].state = "kConnecting"
    BY <1>3 DEF ReadyOutcome, Openers
  <2>2. p = Owner(s) /\ q = Guest(s)
    BY <2>1, Sides DEF Parity, OwnersOpen
  <2>3. Connecting(s)
    BY <2>1, <2>2 DEF Connecting, HasChannel
  <2> QED
    BY <2>1, <2>2, <2>3 DEF Fresh, OpenOnWire, Requested
<1>5. \A n \in Items(t) : n \in Packet /\ (n.k = "open" => n.sid \in Openers(p))
                                        /\ n.k # "request"
  <2>1. \A s \in Told(p) : /\ HelloOf(p, s).k = "open" => HelloOf(p, s).sid \in Openers(p)
                           /\ HelloOf(p, s).k # "request"
    BY DEF HelloOf, Openers
  <2>2. \A n \in Items(t) : n \in Packet
    BY DEF Items
  <2>3. ASSUME NEW n \in Items(t)
        PROVE  (n.k = "open" => n.sid \in Openers(p)) /\ n.k # "request"
    <3>1. PICK s \in Told(p) : n = HelloOf(p, s)
      BY <1>1, <2>3
    <3> QED
      BY <2>1, <3>1
  <2> QED
    BY <2>2, <2>3
<1>6. ASSUME NEW m \in Items(wire[q]), NEW n \in Items(t)
      PROVE  <<m, n>> \in OpenOnce
  <2>1. m \in Packet /\ m \in OnWire(q)
    BY <1>2 DEF Items, OnWire
  <2>2. n.k = "open" => ~Opens(OnWire(q), n.sid) /\ ~AsksFor(OnWire(q), n.sid)
    BY <1>4, <1>5
  <2>3. n.k = "open" => ~(m.k = "open" /\ m.sid = n.sid) /\ ~(m.k = "request" /\ n.sid \in m.sids)
    BY <2>1, <2>2 DEF Opens, AsksFor
  <2> QED
    BY <1>5, <2>1, <2>3 DEF OpenOnce
<1>7. Ordered(t, OpenOnce)
  <2>1. \A i \in DOMAIN t : t[i] \in Items(t)
    BY DEF Items
  <2> QED
    BY <1>1, <1>5, <2>1 DEF Ordered, OpenOnce
<1>8. Ordered(wire[q] \o t, OpenOnce)
  BY <1>0, <1>2, <1>6, <1>7, OrderedConcat DEF WireOrder
<1> QED
  BY <1>0, <1>2, <1>8 DEF WireOrder

\* The order of OPENs is kept.
LEMMA StepOrder ==
  ASSUME TypeOK, Parity, WireOrder, SigOrder, \A s \in Sid : Fresh(s), [Next]_vars
  PROVE  WireOrder' /\ SigOrder'
<1>0. ASSUME NEW p \in Peer, Connect(p) PROVE WireOrder' /\ SigOrder'
  BY <1>0, ConnectSets, WireUnchanged DEF Connect, stack
<1>1. ASSUME NEW p \in Peer, CommUp(p) PROVE WireOrder' /\ SigOrder'
  BY <1>1, PostedUnchanged, WireUnchanged DEF CommUp, stack
<1>2. ASSUME NEW p \in Peer, CreateDataChannel(p) PROVE WireOrder' /\ SigOrder'
  BY <1>2, CreatedSets DEF CreatedOutcome
<1>3. ASSUME NEW p \in Peer, NEW s \in Sid, CloseChannel(p, s) PROVE WireOrder'
  BY <1>3, CloseSets DEF KeepsOpenOnce, WireOrder
<1>4. ASSUME NEW p \in Peer, NEW s \in Sid, Close(p, s) PROVE WireOrder' /\ SigOrder'
  BY <1>3, <1>4, PostedUnchanged DEF Close
<1>5. ASSUME NEW p \in Peer, NEW s \in Sid, Send(p, s) PROVE WireOrder' /\ SigOrder'
  <2>1. SigOrder'
    BY <1>5, PostedUnchanged DEF Send
  <2> QED
    BY <1>3, <1>5, <2>1, SendCases DEF DataOutcome
<1>6. ASSUME NEW p \in Peer, OnChannelReady(p) PROVE WireOrder' /\ SigOrder'
  BY <1>6, ReadyOrder, ReadySets DEF ReadyOutcome
<1>7. ASSUME NEW p \in Peer, OnDataChannelOpenMessage(p) PROVE WireOrder' /\ SigOrder'
  BY <1>7, OpenedSets DEF OpenedOutcome
<1>8. ASSUME NEW p \in Peer, OnDataReceived(p) PROVE WireOrder' /\ SigOrder'
  BY <1>8, ReceivedSets, WireUnchanged DEF OnDataReceived, HandledOutcome, stack
<1>9. ASSUME NEW p \in Peer, OnStreamClosedRemotely(p) PROVE WireOrder' /\ SigOrder'
  <2>1. ClosedOutcome(p, Head(sig[p]))
    BY <1>9, ClosedSets
  <2>2. SigOrder'
    BY <2>1 DEF ClosedOutcome, HandledOutcome
  <2>3. WireOrder'
    BY <1>3, <2>1, WireUnchanged DEF ClosedOutcome, stack
  <2> QED
    BY <2>2, <2>3
<1>10. ASSUME NEW p \in Peer, OnDataFromSctpToChannel(p) PROVE WireOrder' /\ SigOrder'
  <2> DEFINE h == Head(wire[p])
  <2>1. MovedOutcome(p, h)
    BY <1>10, MovedSets
  <2> HIDE DEF h
  <2>2. WireOrder' /\ h \in OnWire(p) /\ h.sid \in Sid
    BY <2>1 DEF MovedOutcome
  <2>3. ASSUME h.k = "open", NEW n \in Posted(p), n.k = "open", n.sid = h.sid PROVE FALSE
    <3>1. p = Guest(h.sid)
      BY <2>2, <2>3 DEF Parity, OpensToGuest
    <3>2. OpenOnWire(h.sid) /\ OpenPosted(h.sid)
      BY <2>2, <2>3, <3>1 DEF OpenOnWire, OpenPosted, Opens
    <3> QED
      BY <2>2, <3>2 DEF Fresh
  <2>4. SigOrder'
    BY <2>1, <2>3 DEF MovedOutcome
  <2> QED
    BY <2>2, <2>4
<1>11. ASSUME NEW p \in Peer, OnRequest(p) PROVE WireOrder' /\ SigOrder'
  BY <1>11, RequestSets DEF RequestOutcome
<1>12. ASSUME NEW p \in Peer, OnAgreed(p) PROVE WireOrder' /\ SigOrder'
  BY <1>12, AgreedSets DEF AgreedOutcome
<1>13. ASSUME NEW p \in Peer, OnDone(p) PROVE WireOrder' /\ SigOrder'
  BY <1>13, DoneSets, PostedUnchanged DEF OnDone, AnsweredOutcome
<1>14. ASSUME NEW p \in Peer, OnFailed(p) PROVE WireOrder' /\ SigOrder'
  BY <1>14, FailedSets, PostedUnchanged DEF OnFailed, AnsweredOutcome
<1>15. CASE UNCHANGED vars
  BY <1>15, PostedUnchanged, WireUnchanged DEF vars, stack
<1> QED
  BY <1>0, <1>1, <1>2, <1>4, <1>5, <1>6, <1>7, <1>8, <1>9, <1>10, <1>11, <1>12, <1>13,
     <1>14, <1>15 DEF Next, Application, Signaling, OnPacketRead

\* Every step, as far as one sid is concerned, is one of SidStep, as long as no sid is
\* taken early.
LEMMA StepSid ==
  ASSUME TypeOK, Handshake, Parity, WireOrder, SigOrder, \A t \in Sid : Fresh(t),
         NEW s \in Sid, [Next]_vars, "early" \notin mishaps'
  PROVE  SidStep(s)
<1>1. ASSUME NEW p \in Peer, Connect(p) \/ CommUp(p) PROVE SidStep(s)
  BY <1>1, ConnectStep, CommUpStep
<1>2. ASSUME NEW p \in Peer, NEW t \in Sid, Close(p, t) PROVE SidStep(s)
  <2>1. \A x \in Peer : SamePosted(x, s)
    BY <1>2, PostedUnchanged, SameQueues DEF Close, PostedSame
  <2> QED
    BY <1>2, <2>1, CloseStep DEF Close
<1>3. ASSUME NEW p \in Peer, Application(p) PROVE SidStep(s)
  BY <1>2, <1>3, CreateStep, SendDataStep DEF Application
<1>4. ASSUME NEW p \in Peer, Signaling(p) PROVE SidStep(s)
  BY <1>4, ReadyStep, OpenMessageStep, DataReceivedStep, ClosedStep DEF Signaling
<1>5. ASSUME NEW p \in Peer, OnPacketRead(p) PROVE SidStep(s)
  BY <1>5, MovedStep, RequestStep, AgreedStep, DoneStep, FailedStep DEF OnPacketRead
<1>6. CASE UNCHANGED vars
  <2>1. (\A x \in Peer : OnWire(x)' = OnWire(x)) /\ PostedSame /\ UNCHANGED <<channels, streams>>
    BY <1>6, PostedUnchanged, WireUnchanged DEF vars, stack, alloc
  <2>2. \A x \in Peer : SameWire(x, s) /\ SamePosted(x, s)
    BY <2>1, SameQueues DEF PostedSame
  <2> QED
    BY <2>1, <2>2, NothingStep
<1> QED
  BY <1>1, <1>3, <1>4, <1>5, <1>6 DEF Next

\* The inductive invariant, as long as no sid was taken early.
InUse == WireOrder /\ SigOrder /\ \A s \in Sid : UseInv(s)
UseIInv == TypeOK /\ Handshake /\ Parity /\ ("early" \notin mishaps => InUse)

\* Every step keeps the invariant.
LEMMA StepInUse ==
  ASSUME UseIInv, [Next]_vars
  PROVE  UseIInv'
<1>1. TypeOK' /\ Handshake' /\ Parity'
  BY StepTypes, StepHandshake, StepParity DEF UseIInv
<1>2. ASSUME "early" \notin mishaps' PROVE InUse'
  <2>1. InUse
    BY <1>2, MishapsGrow DEF UseIInv
  <2>2. /\ TypeOK /\ Handshake /\ Parity /\ WireOrder /\ SigOrder
        /\ \A s \in Sid : UseInv(s)
    BY <2>1 DEF UseIInv, InUse
  <2>3. \A s \in Sid : Fresh(s)
    BY <2>2 DEF UseInv
  <2>4. WireOrder' /\ SigOrder'
    BY <2>2, <2>3, StepOrder
  <2>5. ASSUME NEW s \in Sid PROVE UseInv(s)'
    <3>1. SidStep(s)
      BY <1>2, <2>2, <2>3, StepSid
    <3>2. \A p \in Peer : Disjoint(p, s)
      BY <2>2 DEF TypeOK, Disjoint
    <3> QED
      BY <2>2, <3>1, <3>2, StepUseInv
  <2> QED
    BY <2>4, <2>5 DEF InUse
<1> QED
  BY <1>1, <1>2 DEF UseIInv

\* At first nothing is on its way.
LEMMA InitEmpty ==
  ASSUME Init, NEW p \in Peer
  PROVE  /\ wire[p] = <<>> /\ sig[p] = <<>>
         /\ OnWire(p) = {} /\ Waiting(p) = {} /\ Posted(p) = {}
BY DEF Init, OnWire, Waiting, Posted, Items

\* It is true at first: no sid is in use.
LEMMA InitInUse ==
  ASSUME Init
  PROVE  UseIInv
<1>1. TypeOK /\ Handshake
  BY InitTypes, InitHandshake
<1>2. \A p \in Peer : /\ wire[p] = <<>> /\ sig[p] = <<>> /\ OnWire(p) = {} /\ Posted(p) = {}
  BY InitEmpty
<1>3. \A p \in Peer, s \in Sid : /\ channels[p][s] = None /\ s \notin used_sids_[p]
                                 /\ s \notin open_streams_[p]
                                 /\ s \notin queued_reset_streams_[p]
                                 /\ s \notin sent_reset_streams_[p]
  BY DEF Init
<1>4. Parity
  BY <1>2, <1>3 DEF Parity, OpensToGuest, OwnersOpen, UsedHere
<1>5. WireOrder /\ SigOrder
  BY <1>2 DEF WireOrder, SigOrder, Ordered
<1>6. ASSUME NEW s \in Sid PROVE UseInv(s)
  <2>1. \A p \in Peer : /\ ~HasChannel(p, s) /\ ~Requested(p, s) /\ ~AgreedTo(p, s)
                        /\ ~ClosePosted(p, s)
    BY <1>2, <1>3, Peers
       DEF HasChannel, Requested, AgreedTo, ClosePosted, AsksFor, AgreesTo, Closes
  <2>2. ~Connecting(s) /\ ~OpenOnWire(s) /\ ~OpenPosted(s)
    BY <1>2, <2>1, Sides DEF Connecting, OpenOnWire, OpenPosted, Opens
  <2> QED
    BY <2>1, <2>2 DEF UseInv, Fresh, CanSend, Gone
<1> QED
  BY <1>1, <1>4, <1>5, <1>6 DEF UseIInv, InUse

\* A channel of either side has an open stream, so that SendData does not refuse its
\* sid, or it is about to hear that the peer has closed it, as long as no sid was taken
\* while its last use was not over.
THEOREM OpenCanSendHolds == Spec => []OpenCanSend
<1>1. ASSUME UseIInv PROVE OpenCanSend
  <2>1. SUFFICES ASSUME "early" \notin mishaps, NEW p \in Peer, NEW s \in Sid,
                        channels[p][s] # None, s \notin open_streams_[p]
                 PROVE  \E i \in DOMAIN sig[p] : sig[p][i] = [k |-> "closed", sid |-> s]
    BY DEF OpenCanSend
  <2>2. ClosePosted(p, s)
    BY <1>1, <2>1 DEF UseIInv, InUse, UseInv, CanSend, HasChannel
  <2>3. PICK m \in Posted(p) : m.k = "closed" /\ m.sid = s
    BY <2>2 DEF ClosePosted, Closes
  <2>4. m \in Closure
    BY <1>1, <2>3, ItemTypes DEF Posted, UseIInv
  <2>5. m = [k |-> "closed", sid |-> s]
    BY <2>3, <2>4 DEF Closure, Message
  <2> QED
    BY <2>3, <2>5 DEF Posted, Waiting, Items
<1>2. Init => UseIInv
  BY InitInUse
<1>3. UseIInv /\ [Next]_vars => UseIInv'
  BY StepInUse
<1> QED
  BY <1>1, <1>2, <1>3, PTL DEF Spec

-----------------------------------------------------------------------------
(* One channel on a sid at a time *)

\* A message of the channel on s.
Carries(m, s) == m.k \in {"data", "open", "ack"} /\ m.sid = s

\* The channels on s, and all messages on s, are the channel c's.
UsedBy(s, c) ==
  \A x \in Peer : /\ channels[x][s] # None => channels[x][s].ch = c
                  /\ \A m \in OnWire(x) : Carries(m, s) => m.ch = c
                  /\ \A m \in Posted(x) : Carries(m, s) => m.ch = c

\* No sid is used by two channels.
OneUse == \A s \in Sid : \E c \in 0..MaxChannels : UsedBy(s, c)

\* No channel and no message is added but for the channel c.
LEMMA SameUse ==
  ASSUME NEW s \in Sid, NEW c, UsedBy(s, c),
         \A x \in Peer : channels'[x][s] # None =>
             \/ channels'[x][s].ch = c
             \/ channels[x][s] # None /\ channels'[x][s].ch = channels[x][s].ch,
         \A x \in Peer : \A m \in OnWire(x)' \cup Posted(x)' :
             Carries(m, s) => m \in OnWire(x) \/ m \in Posted(x) \/ m.ch = c
  PROVE  UsedBy(s, c)'
<1>1. ASSUME NEW x \in Peer
      PROVE  /\ channels'[x][s] # None => channels'[x][s].ch = c
             /\ \A m \in OnWire(x)' : Carries(m, s) => m.ch = c
             /\ \A m \in Posted(x)' : Carries(m, s) => m.ch = c
  BY DEF UsedBy
<1> QED
  BY <1>1 DEF UsedBy, Carries

\* Every step that does not create the owner's channel on s.
LEMMA KeepsUse ==
  ASSUME TypeOK, NEW s \in Sid, NEW c, UsedBy(s, c), [Next]_vars,
         \A p \in Peer : CreateDataChannel(p) => channels'[Owner(s)][s] = channels[Owner(s)][s]
  PROVE  UsedBy(s, c)'
<1> DEFINE SameMessages == \A x \in Peer : \A m \in OnWire(x)' \cup Posted(x)' :
             Carries(m, s) => m \in OnWire(x) \/ m \in Posted(x) \/ m.ch = c
           SameOn(x) == channels'[x][s] # None =>
             \/ channels'[x][s].ch = c
             \/ channels[x][s] # None /\ channels'[x][s].ch = channels[x][s].ch
<1>0. SUFFICES SameMessages /\ \A x \in Peer : SameOn(x)
  BY SameUse
<1>1. ASSUME UNCHANGED <<channels, wire, sig>> PROVE SameMessages /\ \A x \in Peer : SameOn(x)
  BY <1>1, PostedUnchanged, WireUnchanged DEF PostedSame
<1>a. ASSUME NEW p \in Peer, CommUp(p) PROVE SameMessages /\ \A x \in Peer : SameOn(x)
  BY <1>1, <1>a DEF CommUp, stack, alloc
<1>2. ASSUME NEW p \in Peer, Connect(p) PROVE SameMessages /\ \A x \in Peer : SameOn(x)
  <2>1. PostedSame /\ (\A x \in Peer : OnWire(x)' = OnWire(x)) /\ UNCHANGED channels
    BY <1>2, ConnectSets, WireUnchanged DEF Connect, stack, alloc
  <2> QED
    BY <2>1 DEF PostedSame
<1>3. ASSUME NEW p \in Peer, CreateDataChannel(p)
      PROVE  SameMessages /\ \A x \in Peer : SameOn(x)
  <2>1. PICK t \in Sid : CreatedOutcome(p, t)
    BY <1>3, CreatedSets
  <2>2. /\ PostedSame /\ (\A x \in Peer : OnWire(x)' = OnWire(x))
        /\ p = Owner(t) /\ CreateOutcome(p, t, created + 1, TRUE)
    BY <2>1 DEF CreatedOutcome
  <2>3. ASSUME NEW x \in Peer PROVE channels'[x][s] = channels[x][s]
    BY <1>3, <2>2 DEF CreateOutcome
  <2> QED
    BY <2>2, <2>3 DEF PostedSame
<1>4. ASSUME NEW p \in Peer, NEW t \in Sid, CloseChannel(p, t),
             \A x \in Peer : Posted(x)' \subseteq Posted(x)
      PROVE  SameMessages /\ \A x \in Peer : SameOn(x)
  <2>1. /\ ResetOutcome(p, t) /\ channels'[p][t] = None
        /\ \A x \in Peer : x # p \/ t # s => channels'[x][s] = channels[x][s]
    BY <1>4, CloseSets
  <2>2. \A m \in OnWire(p)' : m \in OnWire(p)
    BY <2>1 DEF ResetOutcome
  <2>3. \A m \in OnWire(Other(p))' : m.k \in {"data", "open", "ack"} => m \in OnWire(Other(p))
    BY <2>1 DEF ResetOutcome, RequestOf
  <2>4. SameMessages
    BY <1>4, <2>2, <2>3, Peers DEF Carries
  <2> QED
    BY <2>1, <2>4
<1>5. ASSUME NEW p \in Peer, NEW t \in Sid, Close(p, t)
      PROVE  SameMessages /\ \A x \in Peer : SameOn(x)
  BY <1>4, <1>5, PostedUnchanged DEF Close, PostedSame
<1>6. ASSUME NEW p \in Peer, NEW t \in Sid, Send(p, t)
      PROVE  SameMessages /\ \A x \in Peer : SameOn(x)
  <2>1. PostedSame
    BY <1>6, PostedUnchanged DEF Send
  <2>2. CASE CloseChannel(p, t)
    BY <1>4, <2>1, <2>2 DEF PostedSame
  <2>3. CASE DataOutcome(p, t)
    <3> DEFINE m == [k |-> "data", sid |-> t, ch |-> channels[p][t].ch]
    <3>1. /\ UNCHANGED channels /\ OnWire(p)' = OnWire(p) /\ channels[p][t] # None
          /\ OnWire(Other(p))' = OnWire(Other(p)) \cup {m}
      BY <2>3 DEF DataOutcome, alloc
    <3>2. Carries(m, s) => m.ch = c
      BY <3>1 DEF Carries, UsedBy
    <3> HIDE DEF m
    <3>3. \A x \in Peer : \A n \in OnWire(x)' : Carries(n, s) => n \in OnWire(x) \/ n.ch = c
      BY <3>1, <3>2, Peers
    <3> QED
      BY <2>1, <3>1, <3>3 DEF PostedSame
  <2> QED
    BY <1>6, <2>2, <2>3, SendCases
<1>7. ASSUME NEW p \in Peer, OnChannelReady(p)
      PROVE  SameMessages /\ \A x \in Peer : SameOn(x)
  <2>1. ReadyOutcome(p)
    BY <1>7, ReadySets
  <2>2. ASSUME NEW t \in Told(p), Carries(HelloOf(p, t), s) PROVE HelloOf(p, t).ch = c
    <3>1. HelloOf(p, t).sid = t /\ HelloOf(p, t).ch = channels[p][t].ch
      BY DEF HelloOf
    <3>2. t = s /\ channels[p][t] # None
      BY <2>1, <2>2, <3>1 DEF Carries, ReadyOutcome
    <3> QED
      BY <3>1, <3>2 DEF UsedBy
  <2>3. \A m \in OnWire(Other(p))' : Carries(m, s) => m \in OnWire(Other(p)) \/ m.ch = c
    BY <2>1, <2>2 DEF ReadyOutcome
  <2>4. SameMessages
    BY <2>1, <2>3, Peers DEF ReadyOutcome, PostedSame
  <2>5. \A x \in Peer : SameOn(x)
    BY <2>1 DEF ReadyOutcome
  <2> QED
    BY <2>4, <2>5
<1>8. ASSUME NEW p \in Peer, OnDataChannelOpenMessage(p)
      PROVE  SameMessages /\ \A x \in Peer : SameOn(x)
  <2> DEFINE h == Head(sig[p])
  <2>1. OpenedOutcome(p, h)
    BY <1>8, OpenedSets
  <2> HIDE DEF h
  <2>2. /\ h.k = "open" /\ h \in Posted(p)
        /\ Posted(p)' \subseteq Posted(p) /\ Posted(Other(p))' = Posted(Other(p))
        /\ \A x \in Peer : OnWire(x)' = OnWire(x)
    BY <2>1 DEF OpenedOutcome
  <2>3. SameMessages
    BY <2>2, Peers
  <2>4. h.sid = s => h.ch = c
    BY <2>2 DEF UsedBy, Carries
  <2>5. \A x \in Peer : SameOn(x)
    BY <2>1, <2>4 DEF OpenedOutcome, CreateOutcome
  <2> QED
    BY <2>3, <2>5
<1>9. ASSUME NEW p \in Peer, OnDataReceived(p)
      PROVE  SameMessages /\ \A x \in Peer : SameOn(x)
  <2>1. HandledOutcome(p, Head(sig[p]))
    BY <1>9, ReceivedSets
  <2>2. \A x \in Peer : Posted(x)' \subseteq Posted(x)
    BY <2>1, Peers DEF HandledOutcome
  <2>3. (\A x \in Peer : OnWire(x)' = OnWire(x)) /\ UNCHANGED channels
    BY <1>9, WireUnchanged DEF OnDataReceived, stack, alloc
  <2> QED
    BY <2>2, <2>3
<1>10. ASSUME NEW p \in Peer, OnStreamClosedRemotely(p)
       PROVE  SameMessages /\ \A x \in Peer : SameOn(x)
  <2> DEFINE h == Head(sig[p])
  <2>1. ClosedOutcome(p, h)
    BY <1>10, ClosedSets
  <2> HIDE DEF h
  <2>2. \A x \in Peer : Posted(x)' \subseteq Posted(x)
    BY <2>1, Peers DEF HandledOutcome, ClosedOutcome
  <2>3. CASE UNCHANGED <<alloc, streams, stack>>
    <3>1. (\A x \in Peer : OnWire(x)' = OnWire(x)) /\ UNCHANGED channels
      BY <2>3, WireUnchanged DEF stack, alloc
    <3> QED
      BY <2>2, <3>1
  <2>4. CASE CloseChannel(p, h.sid)
    BY <1>4, <2>1, <2>2, <2>4 DEF ClosedOutcome
  <2> QED
    BY <2>1, <2>3, <2>4 DEF ClosedOutcome
<1>11. ASSUME NEW p \in Peer, OnDataFromSctpToChannel(p)
       PROVE  SameMessages /\ \A x \in Peer : SameOn(x)
  <2>1. MovedOutcome(p, Head(wire[p])) /\ UNCHANGED channels
    BY <1>11, MovedSets DEF OnDataFromSctpToChannel, alloc
  <2>2. \A x \in Peer : \A m \in OnWire(x)' \cup Posted(x)' : m \in OnWire(x) \/ m \in Posted(x)
    <3>1. \A m \in OnWire(p)' \cup Posted(p)' : m \in OnWire(p) \/ m \in Posted(p)
      BY <2>1 DEF MovedOutcome
    <3>2. \A m \in OnWire(Other(p))' \cup Posted(Other(p))' :
             m \in OnWire(Other(p)) \/ m \in Posted(Other(p))
      BY <2>1 DEF MovedOutcome
    <3> QED
      BY <3>1, <3>2, Peers
  <2> QED
    BY <2>1, <2>2
<1>12. ASSUME NEW p \in Peer, HandshakeStep(p)
       PROVE  SameMessages /\ \A x \in Peer : SameOn(x)
  BY <1>12, HandshakeMessages DEF NoNewMessages, Carries
<1>13. CASE UNCHANGED vars
  BY <1>1, <1>13 DEF vars, alloc, stack
<1> HIDE DEF SameMessages, SameOn
<1> QED
  BY <1>a, <1>2, <1>3, <1>5, <1>6, <1>7, <1>8, <1>9, <1>10, <1>11, <1>12, <1>13
     DEF Next, Application, Signaling, OnPacketRead, HandshakeStep

\* When the last use of s is over, nothing is left of it.
LEMMA OverUse ==
  ASSUME TypeOK, NEW s \in Sid, Over(s), \A p \in Peer : CanSend(p, s)
  PROVE  \A p \in Peer : /\ channels[p][s] = None
                         /\ \A m \in OnWire(p) : ~Carries(m, s)
                         /\ \A m \in Posted(p) : ~Carries(m, s)
<1> SUFFICES ASSUME NEW p \in Peer
             PROVE  /\ channels[p][s] = None
                    /\ \A m \in OnWire(p) : ~Carries(m, s)
                    /\ \A m \in Posted(p) : ~Carries(m, s)
  OBVIOUS
<1>1. s \notin open_streams_[p] /\ ~Closes(Posted(p), s)
  BY OverFacts
<1>2. channels[p][s] = None
  BY <1>1 DEF CanSend, HasChannel, ClosePosted
<1>3. ~Mentions(wire[p], s) /\ ~Mentions(sig[p], s)
  BY DEF Over
<1>4. \A m \in OnWire(p) : ~Carries(m, s)
  BY <1>3 DEF Mentions, OnWire, Items, Carries
<1>5. \A m \in Posted(p) : ~Carries(m, s)
  BY <1>3 DEF Mentions, Posted, Waiting, Items, Carries
<1> QED
  BY <1>2, <1>4, <1>5

\* A sid is used by one channel at a time.
LEMMA StepOneUse ==
  ASSUME UseIInv, OneUse, [Next]_vars, "early" \notin mishaps'
  PROVE  OneUse'
<1>1. TypeOK /\ InUse
  BY MishapsGrow DEF UseIInv
<1>2. SUFFICES ASSUME NEW s \in Sid PROVE \E c \in 0..MaxChannels : UsedBy(s, c)'
  BY DEF OneUse
<1>3. PICK c \in 0..MaxChannels : UsedBy(s, c)
  BY DEF OneUse
<1>4. CASE \A p \in Peer : CreateDataChannel(p) => channels'[Owner(s)][s] = channels[Owner(s)][s]
  BY <1>1, <1>3, <1>4, KeepsUse
<1>5. ASSUME NEW p \in Peer, CreateDataChannel(p),
             channels'[Owner(s)][s] # channels[Owner(s)][s]
      PROVE  \E d \in 0..MaxChannels : UsedBy(s, d)'
  <2>1. PICK t \in Sid : CreatedOutcome(p, t)
    BY <1>1, <1>5, CreatedSets
  <2>2. /\ PostedSame /\ (\A x \in Peer : OnWire(x)' = OnWire(x)) /\ Over(t)
        /\ CreateOutcome(p, t, created + 1, TRUE) /\ created + 1 \in Ch
    BY <2>1 DEF CreatedOutcome
  <2>3. s = t
    BY <1>5, <2>2, Sides DEF CreateOutcome
  <2>4. \A x \in Peer : /\ channels[x][s] = None
                        /\ \A m \in OnWire(x) : ~Carries(m, s)
                        /\ \A m \in Posted(x) : ~Carries(m, s)
    <3>1. \A x \in Peer : CanSend(x, s)
      BY <1>1 DEF InUse, UseInv
    <3> QED
      BY <1>1, <2>2, <2>3, <3>1, OverUse
  <2>5. PICK d \in 0..MaxChannels : d = created + 1
    BY <2>2, StreamAssumption DEF Ch
  <2>6. \A x \in Peer : /\ channels'[x][s] # None => channels'[x][s].ch = d
                        /\ \A m \in OnWire(x)' : ~Carries(m, s)
                        /\ \A m \in Posted(x)' : ~Carries(m, s)
    BY <2>2, <2>3, <2>4, <2>5 DEF CreateOutcome, PostedSame
  <2>7. UsedBy(s, d)'
    BY <2>6 DEF UsedBy, Carries
  <2> QED
    BY <2>5, <2>7
<1> QED
  BY <1>4, <1>5

\* At first no sid is in use.
LEMMA InitOneUse ==
  ASSUME Init
  PROVE  OneUse
<1>1. \A p \in Peer, s \in Sid : channels[p][s] = None /\ OnWire(p) = {} /\ Posted(p) = {}
  BY InitEmpty DEF Init
<1>2. \A s \in Sid : UsedBy(s, 0)
  BY <1>1 DEF UsedBy
<1> QED
  BY <1>2, StreamAssumption DEF OneUse

\* Data or an OPEN_ACK that the signaling thread handles next is for the channel that it
\* finds on the sid, and an OPEN finds the sid free, as long as no sid was taken while its
\* last use was not over: no message of one channel reaches another that has the same
\* sid, though OnChannelReady may send an OPEN_ACK when the stream has been reset.
THEOREM RightChannelHolds == Spec => []RightChannel
<1> DEFINE IInv == UseIInv /\ ("early" \notin mishaps => OneUse)
<1>1. ASSUME IInv PROVE RightChannel
  <2>1. SUFFICES ASSUME "early" \notin mishaps, NEW p \in Peer, sig[p] # <<>>,
                        Head(sig[p]).k \in {"data", "open", "ack"}, NEW m, m = Head(sig[p]),
                        channels[p][m.sid] # None
                 PROVE  m.k # "open" /\ channels[p][m.sid].ch = m.ch
    BY DEF RightChannel
  <2>2. TypeOK /\ Parity /\ InUse /\ OneUse
    BY <1>1, <2>1 DEF UseIInv
  <2>3. m \in Posted(p) /\ m.sid \in Sid
    <3>1. TakeClosure(p, m.k)
      BY <2>1 DEF TakeClosure
    <3>2. Handles(p, m)
      BY <2>1, <2>2, <3>1, TakeSets
    <3> QED
      BY <2>1, <3>2, ClosureOf DEF Handles, Posted
  <2>4. m.k # "open"
    <3>1. SUFFICES ASSUME m.k = "open" PROVE FALSE
      OBVIOUS
    <3>2. p = Guest(m.sid)
      BY <2>2, <2>3, <3>1 DEF Parity, OpensToGuest
    <3>3. OpenPosted(m.sid)
      BY <2>3, <3>1, <3>2 DEF OpenPosted, Opens
    <3> QED
      BY <2>1, <2>2, <2>3, <3>2, <3>3 DEF InUse, UseInv, Fresh, Unheard, HasChannel
  <2>5. PICK c \in 0..MaxChannels : UsedBy(m.sid, c)
    BY <2>2, <2>3 DEF OneUse
  <2>6. m.ch = c /\ channels[p][m.sid].ch = c
    BY <2>1, <2>3, <2>5 DEF UsedBy, Carries
  <2> QED
    BY <2>1, <2>4, <2>6
<1>2. Init => IInv
  BY InitInUse, InitOneUse
<1>3. IInv /\ [Next]_vars => IInv'
  BY StepInUse, StepOneUse, MishapsGrow
<1> HIDE DEF IInv
<1> QED
  BY <1>1, <1>2, <1>3, PTL DEF Spec
=============================================================================
