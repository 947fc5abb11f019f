-------------------------- MODULE SctpStreamsProofs -------------------------
(***************************************************************************)
(* Theorems about SctpStreams, for every number of sids, channels and      *)
(* messages: the types, the sets of streams are disjoint, and a reset that *)
(* waits is sent. The stacks' packets are a handshake, and the last        *)
(* theorem rests on its invariant: a stack is busy if and only if a packet *)
(* is on its way that will make it idle.                                   *)
(***************************************************************************)
EXTENDS SctpStreams, SequenceTheorems, FiniteSetTheorems, TLAPS

-----------------------------------------------------------------------------
(* Queues *)

\* What is in a queue.
Items(q) == {q[i] : i \in DOMAIN q}

\* An item is put at the end of a queue.
LEMMA ItemsAppend ==
  ASSUME NEW S, NEW q \in Seq(S), NEW m \in S
  PROVE  Append(q, m) \in Seq(S) /\ Items(Append(q, m)) = Items(q) \cup {m}
<1>1. Append(q, m) \in Seq(S) /\ Len(Append(q, m)) = Len(q) + 1
  OBVIOUS
<1>2. \A i \in 1..Len(q) : Append(q, m)[i] = q[i]
  OBVIOUS
<1>3. Append(q, m)[Len(q) + 1] = m
  OBVIOUS
<1>4. DOMAIN Append(q, m) = 1..(Len(q) + 1) /\ DOMAIN q = 1..Len(q) /\ Len(q) \in Nat
  OBVIOUS
<1>5. 1..(Len(q) + 1) = 1..Len(q) \cup {Len(q) + 1}
  BY <1>4
<1> QED
  BY <1>1, <1>2, <1>3, <1>4, <1>5 DEF Items

\* The first item is taken from a queue.
LEMMA ItemsTail ==
  ASSUME NEW S, NEW q \in Seq(S), q # <<>>
  PROVE  /\ Tail(q) \in Seq(S) /\ Head(q) \in S
         /\ Items(q) = {Head(q)} \cup Items(Tail(q))
<1>1. Tail(q) \in Seq(S) /\ Len(Tail(q)) = Len(q) - 1 /\ Len(q) \in Nat /\ Len(q) > 0
  OBVIOUS
<1>2. \A i \in 1..(Len(q) - 1) : Tail(q)[i] = q[i + 1]
  OBVIOUS
<1>3. Head(q) = q[1] /\ DOMAIN q = 1..Len(q) /\ DOMAIN Tail(q) = 1..(Len(q) - 1)
  OBVIOUS
<1>4. Head(q) \in S
  OBVIOUS
<1>5. ASSUME NEW i \in DOMAIN q, i # 1 PROVE q[i] \in Items(Tail(q))
  <2>1. i - 1 \in 1..(Len(q) - 1) /\ q[i] = Tail(q)[i - 1]
    BY <1>1, <1>2, <1>3, <1>5
  <2> QED
    BY <2>1, <1>3 DEF Items
<1>6. ASSUME NEW i \in DOMAIN Tail(q) PROVE Tail(q)[i] \in Items(q)
  <2>1. i + 1 \in DOMAIN q /\ Tail(q)[i] = q[i + 1]
    BY <1>1, <1>2, <1>3, <1>6
  <2> QED
    BY <2>1 DEF Items
<1>7. Head(q) \in Items(q)
  BY <1>1, <1>3 DEF Items
<1>8. Items(q) \subseteq {Head(q)} \cup Items(Tail(q))
  BY <1>5, <1>3 DEF Items
<1>9. Items(Tail(q)) \subseteq Items(q)
  BY <1>6 DEF Items
<1> QED
  BY <1>1, <1>4, <1>7, <1>8, <1>9

\* A queue is put behind another.
LEMMA ItemsConcat ==
  ASSUME NEW S, NEW q \in Seq(S), NEW t \in Seq(S)
  PROVE  q \o t \in Seq(S) /\ Items(q \o t) = Items(q) \cup Items(t)
<1>1. q \o t \in Seq(S) /\ Len(q \o t) = Len(q) + Len(t)
  OBVIOUS
<1>2. \A i \in 1..(Len(q) + Len(t)) : (q \o t)[i] = IF i <= Len(q) THEN q[i] ELSE t[i - Len(q)]
  OBVIOUS
<1>3. /\ Len(q) \in Nat /\ Len(t) \in Nat /\ DOMAIN q = 1..Len(q) /\ DOMAIN t = 1..Len(t)
      /\ DOMAIN (q \o t) = 1..(Len(q) + Len(t))
  BY <1>1
<1>4. ASSUME NEW i \in DOMAIN q PROVE q[i] \in Items(q \o t)
  <2>1. i \in DOMAIN (q \o t) /\ (q \o t)[i] = q[i]
    BY <1>2, <1>3
  <2> QED
    BY <2>1 DEF Items
<1>5. ASSUME NEW i \in DOMAIN t PROVE t[i] \in Items(q \o t)
  <2>1. i + Len(q) \in DOMAIN (q \o t) /\ (q \o t)[i + Len(q)] = t[i]
    BY <1>2, <1>3
  <2> QED
    BY <2>1 DEF Items
<1>6. ASSUME NEW i \in DOMAIN (q \o t) PROVE (q \o t)[i] \in Items(q) \cup Items(t)
  <2>1. CASE i <= Len(q)
    BY <2>1, <1>2, <1>3 DEF Items
  <2>2. CASE ~(i <= Len(q))
    <3>1. i - Len(q) \in DOMAIN t /\ (q \o t)[i] = t[i - Len(q)]
      BY <2>2, <1>2, <1>3
    <3> QED
      BY <3>1 DEF Items
  <2> QED
    BY <2>1, <2>2
<1>7. Items(q) \cup Items(t) \subseteq Items(q \o t)
  BY <1>4, <1>5 DEF Items
<1>8. Items(q \o t) \subseteq Items(q) \cup Items(t)
  BY <1>6 DEF Items
<1> QED
  BY <1>1, <1>7, <1>8

\* Every item of the queue with every later one is in the relation R.
Ordered(q, R) == \A i, j \in DOMAIN q : i < j => <<q[i], q[j]>> \in R

\* An item that fits behind all others can be put at the end.
LEMMA OrderedAppend ==
  ASSUME NEW S, NEW R, NEW q \in Seq(S), NEW m \in S,
         Ordered(q, R), \A n \in Items(q) : <<n, m>> \in R
  PROVE  Ordered(Append(q, m), R)
<1>1. /\ DOMAIN Append(q, m) = 1..(Len(q) + 1) /\ DOMAIN q = 1..Len(q) /\ Len(q) \in Nat
      /\ \A i \in 1..Len(q) : Append(q, m)[i] = q[i]
      /\ Append(q, m)[Len(q) + 1] = m
  OBVIOUS
<1>2. \A i \in DOMAIN q : <<q[i], m>> \in R
  BY DEF Items
<1>3. SUFFICES ASSUME NEW i \in 1..(Len(q) + 1), NEW j \in 1..(Len(q) + 1), i < j
               PROVE  <<Append(q, m)[i], Append(q, m)[j]>> \in R
  BY <1>1 DEF Ordered
<1>4. i \in DOMAIN q /\ Append(q, m)[i] = q[i]
  BY <1>1, <1>3
<1>5. CASE j = Len(q) + 1
  BY <1>5, <1>4, <1>2, <1>1
<1>6. CASE j # Len(q) + 1
  <2>1. j \in DOMAIN q /\ Append(q, m)[j] = q[j]
    BY <1>1, <1>6
  <2> QED
    BY <2>1, <1>4, <1>3 DEF Ordered
<1> QED
  BY <1>5, <1>6

\* What is left when the first item is taken is in order, and fits behind that item.
LEMMA OrderedTail ==
  ASSUME NEW S, NEW R, NEW q \in Seq(S), q # <<>>, Ordered(q, R)
  PROVE  Ordered(Tail(q), R) /\ \A n \in Items(Tail(q)) : <<Head(q), n>> \in R
<1>1. /\ Len(q) \in Nat /\ Len(q) > 0 /\ DOMAIN q = 1..Len(q)
      /\ DOMAIN Tail(q) = 1..(Len(q) - 1) /\ Head(q) = q[1]
      /\ \A i \in 1..(Len(q) - 1) : Tail(q)[i] = q[i + 1]
  OBVIOUS
<1>2. ASSUME NEW i \in DOMAIN Tail(q), NEW j \in DOMAIN Tail(q), i < j
      PROVE  <<Tail(q)[i], Tail(q)[j]>> \in R
  <2>1. i + 1 \in DOMAIN q /\ j + 1 \in DOMAIN q /\ i + 1 < j + 1
    BY <1>1, <1>2
  <2>2. Tail(q)[i] = q[i + 1] /\ Tail(q)[j] = q[j + 1]
    BY <1>1
  <2>3. <<q[i + 1], q[j + 1]>> \in R
    BY <2>1 DEF Ordered
  <2> QED
    BY <2>2, <2>3
<1>3. ASSUME NEW i \in DOMAIN Tail(q) PROVE <<Head(q), Tail(q)[i]>> \in R
  <2>1. 1 \in DOMAIN q /\ i + 1 \in DOMAIN q /\ 1 < i + 1
    BY <1>1
  <2>2. <<q[1], q[i + 1]>> \in R
    BY <2>1 DEF Ordered
  <2> QED
    BY <2>2, <1>1
<1>4. Ordered(Tail(q), R)
  BY <1>2 DEF Ordered
<1> QED
  BY <1>3, <1>4 DEF Items

\* A queue can be put behind another when all its items fit behind the other's.
LEMMA OrderedConcat ==
  ASSUME NEW S, NEW R, NEW q \in Seq(S), NEW t \in Seq(S), Ordered(q, R), Ordered(t, R),
         \A m \in Items(q), n \in Items(t) : <<m, n>> \in R
  PROVE  Ordered(q \o t, R)
<1>1. /\ Len(q) \in Nat /\ Len(t) \in Nat /\ DOMAIN q = 1..Len(q) /\ DOMAIN t = 1..Len(t)
      /\ DOMAIN (q \o t) = 1..(Len(q) + Len(t))
      /\ \A i \in 1..(Len(q) + Len(t)) :
           (q \o t)[i] = IF i <= Len(q) THEN q[i] ELSE t[i - Len(q)]
  OBVIOUS
<1>2. \A i \in DOMAIN q, j \in DOMAIN t : <<q[i], t[j]>> \in R
  BY DEF Items
<1>3. SUFFICES ASSUME NEW i \in DOMAIN (q \o t), NEW j \in DOMAIN (q \o t), i < j
               PROVE  <<(q \o t)[i], (q \o t)[j]>> \in R
  BY DEF Ordered
<1>4. CASE i <= Len(q) /\ j <= Len(q)
  <2>1. i \in DOMAIN q /\ j \in DOMAIN q /\ (q \o t)[i] = q[i] /\ (q \o t)[j] = q[j]
    BY <1>1, <1>4
  <2> QED
    BY <2>1, <1>3 DEF Ordered
<1>5. CASE i <= Len(q) /\ ~(j <= Len(q))
  <2>1. i \in DOMAIN q /\ j - Len(q) \in DOMAIN t
    BY <1>1, <1>5
  <2>2. (q \o t)[i] = q[i] /\ (q \o t)[j] = t[j - Len(q)]
    BY <1>1, <1>5
  <2> QED
    BY <2>1, <2>2, <1>2
<1>6. CASE ~(i <= Len(q)) /\ ~(j <= Len(q))
  <2>1. i - Len(q) \in DOMAIN t /\ j - Len(q) \in DOMAIN t /\ i - Len(q) < j - Len(q)
    BY <1>1, <1>6, <1>3
  <2>2. (q \o t)[i] = t[i - Len(q)] /\ (q \o t)[j] = t[j - Len(q)]
    BY <1>1, <1>6
  <2> QED
    BY <2>1, <2>2 DEF Ordered
<1>7. j <= Len(q) => i <= Len(q)
  BY <1>1, <1>3
<1> QED
  BY <1>4, <1>5, <1>6, <1>7

\* A set of sids has a finite number of elements.
LEMMA SidsFinite ==
  ASSUME NEW sids \in SUBSET Sid
  PROVE  Cardinality(sids) \in Nat
<1>1. IsFiniteSet(Sid)
  BY FS_Interval, StreamAssumption DEF Sid
<1>2. IsFiniteSet(sids)
  BY <1>1, FS_Subset
<1> QED
  BY <1>2, FS_CardinalityType

\* A listing has each of the sids once, whatever their ranks.
LEMMA ListingsFacts ==
  ASSUME NEW sids \in SUBSET Sid, NEW rank \in [Sid -> Int], NEW q \in Listings(sids, rank)
  PROVE  /\ q \in Seq(sids) /\ Items(q) = sids
         /\ \A i, j \in DOMAIN q : i < j => q[i] # q[j]
<1>1. Cardinality(sids) \in Nat
  BY SidsFinite
<1>2. q \in [1..Cardinality(sids) -> sids] /\ DOMAIN q = 1..Cardinality(sids)
  BY DEF Listings
<1>3. q \in Seq(sids)
  BY <1>1, <1>2, SeqDef
<1>4. Items(q) = sids
  <2>1. sids \subseteq Items(q)
    BY DEF Listings, Items
  <2>2. Items(q) \subseteq sids
    BY <1>2 DEF Items
  <2> QED
    BY <2>1, <2>2
<1>5. ASSUME NEW i \in DOMAIN q, NEW j \in DOMAIN q, i < j PROVE q[i] # q[j]
  <2>1. rank[q[i]] < rank[q[j]]
    BY <1>5 DEF Listings
  <2>2. rank[q[i]] \in Int
    BY <1>2
  <2> QED
    BY <2>1, <2>2
<1> QED
  BY <1>3, <1>4, <1>5

\* There are two peers, each the other of the other.
LEMMA Peers ==
  /\ "client" \in Peer /\ "server" \in Peer
  /\ \A p \in Peer : /\ Other(p) \in Peer /\ Other(p) # p /\ Other(Other(p)) = p
                     /\ \A q \in Peer : q = p \/ q = Other(p)
BY DEF Peer, Other

\* What is on its way to p: packets, and closures.
OnWire(p) == Items(wire[p])
Waiting(p) == Items(sig[p])

\* The fields of a packet, by its kind.
LEMMA PacketOf ==
  ASSUME NEW m \in Packet
  PROVE  /\ m.k \in {"data", "open", "ack", "request", "agree", "refuse", "done"}
         /\ m.k \in {"data", "open", "ack"} => m \in Message /\ m.sid \in Sid /\ m.ch \in Ch
         /\ m.k \in {"request", "agree", "refuse", "done"} => m.sids \in SUBSET Sid
BY DEF Packet, Message

\* The fields of a closure, by its kind.
LEMMA ClosureOf ==
  ASSUME NEW m \in Closure
  PROVE  /\ m.k \in {"data", "open", "ack", "closed", "ready"}
         /\ m.k \in {"data", "open", "ack"} => m \in Message /\ m.sid \in Sid /\ m.ch \in Ch
         /\ m.k = "closed" => m.sid \in Sid
         /\ m.k = "ready" => m.chs \in SUBSET Ch
BY DEF Closure, Message

\* What SendQueuedStreamResets and the stacks send are packets.
LEMMA ResetPacket ==
  ASSUME NEW kind \in {"request", "agree", "refuse", "done"}, NEW sids \in SUBSET Sid
  PROVE  [k |-> kind, sids |-> sids] \in Packet
BY DEF Packet

\* The signal that makes channels ready is a closure.
LEMMA ReadyClosure ==
  ASSUME NEW chs \in SUBSET Ch
  PROVE  [k |-> "ready", chs |-> chs] \in Closure
BY DEF Closure

\* The channels that become open and send OPEN.
Openers(p) == {s \in Told(p) : channels[p][s].opener}

\* What the channel on s sends when it becomes open.
HelloOf(p, s) == [k |-> IF channels[p][s].opener THEN "open" ELSE "ack",
                  sid |-> s, ch |-> channels[p][s].ch]

\* OnChannelReady concerns channels that exist and are connecting.
LEMMA ToldFacts ==
  ASSUME TypeOK, NEW p \in Peer, TakeClosure(p, "ready")
  PROVE  /\ Told(p) \in SUBSET Sid /\ Openers(p) \in SUBSET Sid
         /\ Head(sig[p]) \in Closure /\ Head(sig[p]) \in Waiting(p)
         /\ Head(sig[p]).chs \in SUBSET Ch
         /\ \A s \in Told(p) : /\ channels[p][s] # None /\ channels[p][s].ch \in Ch
                               /\ channels[p][s].ch \in Head(sig[p]).chs
                               /\ channels[p][s].state = "kConnecting"
                               /\ HelloOf(p, s) \in Packet
<1>1. sig[p] \in Seq(Closure) /\ sig[p] # <<>> /\ Head(sig[p]).k = "ready"
  BY DEF TypeOK, TakeClosure
<1>2. Head(sig[p]) \in Closure /\ Head(sig[p]) \in Waiting(p)
  BY <1>1, ItemsTail DEF Waiting
<1>3. Head(sig[p]).chs \in SUBSET Ch
  BY <1>1, <1>2, ClosureOf
<1>4. Told(p) \in SUBSET Sid /\ Openers(p) \in SUBSET Sid
  BY DEF Told, Openers
<1>5. ASSUME NEW s \in Told(p)
      PROVE  /\ s \in Sid /\ channels[p][s].ch \in Ch /\ channels[p][s].state = "kConnecting"
             /\ channels[p][s].ch \in Head(sig[p]).chs
  BY <1>3 DEF Told
<1>6. ASSUME NEW s \in Told(p)
      PROVE  channels[p][s] # None
  <2>1. 0 \notin Ch
    BY StreamAssumption DEF Ch
  <2> QED
    BY <2>1, <1>5 DEF None
<1>7. ASSUME NEW s \in Told(p)
      PROVE  HelloOf(p, s) \in Packet
  BY <1>5 DEF HelloOf, Packet, Message
<1> QED
  BY <1>2, <1>3, <1>4, <1>5, <1>6, <1>7

\* What OnChannelReady sends.
LEMMA ReadySends ==
  ASSUME TypeOK, NEW p \in Peer, OnChannelReady(p)
  PROVE  \E t \in Seq(Packet) :
           /\ wire' = [wire EXCEPT ![Other(p)] = @ \o t]
           /\ Items(t) = {HelloOf(p, s) : s \in Told(p)}
           /\ \A i, j \in DOMAIN t : i < j => t[i].sid # t[j].sid
<1> DEFINE rank == [s \in Sid |-> channels[p][s].ch]
<1>1. TakeClosure(p, "ready")
  BY DEF OnChannelReady
<1>2. rank \in [Sid -> Int]
  <2>1. \A s \in Sid : channels[p][s].ch \in Int
    BY StreamAssumption DEF TypeOK, None, Ch
  <2> QED
    BY <2>1
<1>3. PICK q \in Listings(Told(p), rank) :
         wire' = [wire EXCEPT ![Other(p)] =
                  @ \o [i \in DOMAIN q |->
                          [k |-> IF channels[p][q[i]].opener THEN "open" ELSE "ack",
                           sid |-> q[i], ch |-> channels[p][q[i]].ch]]]
  BY DEF OnChannelReady
<1> HIDE DEF rank
<1>4. /\ q \in Seq(Told(p)) /\ Items(q) = Told(p)
      /\ \A i, j \in DOMAIN q : i < j => q[i] # q[j]
  BY <1>1, <1>2, <1>3, ToldFacts, ListingsFacts
<1> DEFINE t == [i \in DOMAIN q |-> HelloOf(p, q[i])]
<1>5. DOMAIN q = 1..Len(q) /\ Len(q) \in Nat /\ \A i \in DOMAIN q : q[i] \in Told(p)
  BY <1>4
<1>6. \A s \in Told(p) : HelloOf(p, s) \in Packet
  BY <1>1, ToldFacts
<1>7. t \in Seq(Packet)
  <2>1. t \in [1..Len(q) -> Packet]
    BY <1>5, <1>6
  <2> QED
    BY <2>1, <1>5, SeqDef
<1>8. Items(t) = {HelloOf(p, s) : s \in Told(p)}
  <2>1. Told(p) = {q[i] : i \in DOMAIN q}
    BY <1>4 DEF Items
  <2> QED
    BY <2>1 DEF Items
<1>9. \A i, j \in DOMAIN t : i < j => t[i].sid # t[j].sid
  BY <1>4 DEF HelloOf
<1>10. wire' = [wire EXCEPT ![Other(p)] = @ \o t]
  BY <1>3 DEF HelloOf
<1> QED
  BY <1>7, <1>8, <1>9, <1>10

\* The closure that tells the session that s was closed.
ClosedOf(s) == [k |-> "closed", sid |-> s]

\* What PeerCloses posts.
LEMMA ClosesPosts ==
  ASSUME NEW p \in Peer, NEW sids \in SUBSET Sid, PeerCloses(p, sids)
  PROVE  \E t \in Seq(Closure) :
           /\ sig' = [sig EXCEPT ![p] = @ \o t]
           /\ Items(t) = {ClosedOf(s) : s \in sids}
<1> DEFINE rank == [s \in Sid |-> s]
<1>2. rank \in [Sid -> Int]
  BY StreamAssumption DEF Sid
<1>3. PICK q \in Listings(sids, rank) :
         sig' = [sig EXCEPT ![p] = @ \o [i \in DOMAIN q |-> [k |-> "closed", sid |-> q[i]]]]
  BY DEF PeerCloses
<1> HIDE DEF rank
<1>4. /\ q \in Seq(sids) /\ Items(q) = sids
  BY <1>2, <1>3, ListingsFacts
<1> DEFINE t == [i \in DOMAIN q |-> ClosedOf(q[i])]
<1>5. DOMAIN q = 1..Len(q) /\ Len(q) \in Nat /\ \A i \in DOMAIN q : q[i] \in sids
  BY <1>4
<1>6. \A s \in sids : ClosedOf(s) \in Closure
  BY DEF ClosedOf, Closure
<1>7. t \in Seq(Closure)
  <2>1. t \in [1..Len(q) -> Closure]
    BY <1>5, <1>6
  <2> QED
    BY <2>1, <1>5, SeqDef
<1>8. Items(t) = {ClosedOf(s) : s \in sids}
  <2>1. sids = {q[i] : i \in DOMAIN q}
    BY <1>4 DEF Items
  <2> QED
    BY <2>1 DEF Items
<1>10. sig' = [sig EXCEPT ![p] = @ \o t]
  BY <1>3 DEF ClosedOf
<1> QED
  BY <1>7, <1>8, <1>10

-----------------------------------------------------------------------------
(* Types *)

\* The type of the wires.
Wires == [Peer -> Seq(Packet)]

\* The sets of streams, and what the stack has under way.
StreamTypes ==
  /\ open_streams_ \in [Peer -> SUBSET Sid]
  /\ queued_reset_streams_ \in [Peer -> SUBSET Sid]
  /\ sent_reset_streams_ \in [Peer -> SUBSET Sid]
  /\ \A p \in Peer : /\ open_streams_[p] \cap queued_reset_streams_[p] = {}
                     /\ open_streams_[p] \cap sent_reset_streams_[p] = {}
                     /\ queued_reset_streams_[p] \cap sent_reset_streams_[p] = {}
  /\ busy \in [Peer -> BOOLEAN]
  /\ wire \in [Peer -> Seq(Packet)]

\* Sending a packet keeps the type of the wires.
LEMMA ToPeerType ==
  ASSUME NEW p \in Peer, NEW w \in Wires, NEW m \in Packet
  PROVE  ToPeer(p, w, m) \in Wires
<1>1. Append(w[Other(p)], m) \in Seq(Packet)
  BY Peers, ItemsAppend DEF Wires
<1> QED
  BY <1>1 DEF ToPeer, Wires

\* So does reading one.
LEMMA TakenType ==
  ASSUME TypeOK, NEW p \in Peer, NEW kind, ReadPacket(p, kind)
  PROVE  /\ Taken(p) \in Wires
         /\ Head(wire[p]) \in Packet /\ Head(wire[p]).k = kind
<1>1. wire[p] \in Seq(Packet) /\ wire[p] # <<>> /\ Head(wire[p]).k = kind
  BY DEF TypeOK, ReadPacket
<1>2. Tail(wire[p]) \in Seq(Packet) /\ Head(wire[p]) \in Packet
  BY <1>1, ItemsTail
<1> QED
  BY <1>1, <1>2 DEF Taken, TypeOK, Wires

\* SendQueuedStreamResets keeps the sets of streams disjoint if it is called with
\* queued and sent streams that are disjoint from each other and from the open ones.
LEMMA SendTypes ==
  ASSUME TypeOK, NEW p \in Peer, NEW queued \in SUBSET Sid, NEW sent \in SUBSET Sid,
         NEW isBusy \in BOOLEAN, NEW w \in Wires,
         SendQueuedStreamResets(p, queued, sent, isBusy, w),
         open_streams_' \in [Peer -> SUBSET Sid],
         \A q \in Peer : q # p => open_streams_'[q] = open_streams_[q],
         open_streams_'[p] \cap queued = {}, open_streams_'[p] \cap sent = {},
         queued \cap sent = {}
  PROVE  StreamTypes'
<1>1. wire' \in [Peer -> Seq(Packet)]
  <2>1. [k |-> "request", sids |-> queued] \in Packet
    BY ResetPacket
  <2> QED
    BY <2>1, ToPeerType DEF SendQueuedStreamResets, Wires
<1>2. busy' \in [Peer -> BOOLEAN]
  BY DEF SendQueuedStreamResets, TypeOK
<1>3. /\ queued_reset_streams_' \in [Peer -> SUBSET Sid]
      /\ sent_reset_streams_' \in [Peer -> SUBSET Sid]
  BY DEF SendQueuedStreamResets, TypeOK
<1>4. ASSUME NEW q \in Peer
      PROVE /\ open_streams_'[q] \cap queued_reset_streams_'[q] = {}
            /\ open_streams_'[q] \cap sent_reset_streams_'[q] = {}
            /\ queued_reset_streams_'[q] \cap sent_reset_streams_'[q] = {}
  <2>1. CASE q = p
    BY <2>1 DEF SendQueuedStreamResets, TypeOK
  <2>2. CASE q # p
    BY <2>2 DEF SendQueuedStreamResets, TypeOK
  <2> QED
    BY <2>1, <2>2
<1> QED
  BY <1>1, <1>2, <1>3, <1>4 DEF StreamTypes

\* ResetStream keeps the sets of streams disjoint.
LEMMA ResetTypes ==
  ASSUME TypeOK, NEW p \in Peer, NEW s \in Sid, ResetStream(p, s)
  PROVE  StreamTypes'
<1>1. CASE UNCHANGED <<streams, stack>>
  BY <1>1 DEF TypeOK, StreamTypes, streams, stack
<1>2. CASE /\ s \in open_streams_[p]
           /\ open_streams_' = [open_streams_ EXCEPT ![p] = @ \ {s}]
           /\ SendQueuedStreamResets(p, queued_reset_streams_[p] \cup {s},
                               sent_reset_streams_[p], busy[p], wire)
  <2>1. /\ open_streams_' \in [Peer -> SUBSET Sid]
        /\ \A q \in Peer : q # p => open_streams_'[q] = open_streams_[q]
        /\ open_streams_'[p] = open_streams_[p] \ {s}
    BY <1>2 DEF TypeOK
  <2>2. /\ queued_reset_streams_[p] \cup {s} \in SUBSET Sid
        /\ sent_reset_streams_[p] \in SUBSET Sid /\ busy[p] \in BOOLEAN /\ wire \in Wires
        /\ open_streams_'[p] \cap (queued_reset_streams_[p] \cup {s}) = {}
        /\ open_streams_'[p] \cap sent_reset_streams_[p] = {}
        /\ (queued_reset_streams_[p] \cup {s}) \cap sent_reset_streams_[p] = {}
    BY <1>2, <2>1 DEF TypeOK, Wires
  <2> QED
    BY <1>2, <2>1, <2>2, SendTypes
<1> QED
  BY <1>1, <1>2 DEF ResetStream

\* The channels, and the sids that are in use.
AllocTypes ==
  /\ used_sids_ \in [Peer -> SUBSET Sid]
  /\ channels \in [Peer -> [Sid -> {None} \cup
                     [ch : Ch, state : {"kConnecting", "kOpen"}, opener : BOOLEAN]]]

\* DataChannel::Close, with the reset of the stream, keeps the types.
LEMMA CloseTypes ==
  ASSUME TypeOK, NEW p \in Peer, NEW s \in Sid, CloseChannel(p, s)
  PROVE  AllocTypes' /\ StreamTypes'
<1>1. StreamTypes'
  BY ResetTypes DEF CloseChannel
<1>2. AllocTypes'
  BY DEF CloseChannel, AllocTypes, TypeOK
<1> QED
  BY <1>1, <1>2

\* InternalCreateDataChannel keeps the types: OpenStream opens no stream that is being
\* reset.
LEMMA CreateTypes ==
  ASSUME TypeOK, NEW p \in Peer, NEW s \in Sid, NEW c \in Ch, NEW isOpener \in BOOLEAN,
         NEW closures \in Seq(Closure), CreateChannel(p, s, c, isOpener, closures),
         UNCHANGED <<queued_reset_streams_, sent_reset_streams_, stack>>
  PROVE  AllocTypes' /\ StreamTypes' /\ sig' \in [Peer -> Seq(Closure)]
<1>1. AllocTypes'
  BY DEF CreateChannel, AllocTypes, TypeOK
<1>2. StreamTypes'
  BY DEF CreateChannel, OpenStream, MayOpen, Closing, StreamTypes, TypeOK, stack
<1>3. [k |-> "ready", chs |-> {c}] \in Closure
  BY ReadyClosure
<1>4. PostReady(closures, {c}) \in Seq(Closure)
  BY <1>3, ItemsAppend DEF PostReady
<1>5. sig' \in [Peer -> Seq(Closure)]
  BY <1>4 DEF CreateChannel, TypeOK
<1> QED
  BY <1>1, <1>2, <1>5

\* The INCOMING event keeps the sets of streams disjoint: the else-ifs of
\* OnStreamResetEvent.
LEMMA IncomingTypes ==
  ASSUME TypeOK, NEW p \in Peer, NEW sids \in SUBSET Sid, NEW isBusy \in BOOLEAN,
         NEW w \in Wires, OnIncomingReset(p, sids, isBusy, w)
  PROVE  StreamTypes' /\ sig' \in [Peer -> Seq(Closure)] /\ mishaps' \subseteq Mishap
<1> DEFINE remote == (sids \ sent_reset_streams_[p]) \cap open_streams_[p]
           double == (sids \ sent_reset_streams_[p]) \ open_streams_[p]
<1>1. /\ open_streams_' = [open_streams_ EXCEPT ![p] = @ \ remote]
      /\ PeerCloses(p, remote)
      /\ SendQueuedStreamResets(p, queued_reset_streams_[p] \ double,
                                sent_reset_streams_[p] \ sids, isBusy, w)
      /\ mishaps' = mishaps \cup {m \in {"overtaken"} : OpenPending(p, double)}
  BY DEF OnIncomingReset
<1>2. mishaps' \subseteq Mishap
  BY <1>1 DEF TypeOK, Mishap
<1>3. remote \in SUBSET Sid
  OBVIOUS
<1> HIDE DEF remote, double
<1>4. sig' \in [Peer -> Seq(Closure)]
  <2>1. PICK t \in Seq(Closure) : sig' = [sig EXCEPT ![p] = @ \o t]
    BY <1>1, <1>3, ClosesPosts
  <2>2. sig[p] \o t \in Seq(Closure)
    BY ItemsConcat DEF TypeOK
  <2> QED
    BY <2>1, <2>2 DEF TypeOK
<1>5. /\ open_streams_' \in [Peer -> SUBSET Sid]
      /\ \A q \in Peer : q # p => open_streams_'[q] = open_streams_[q]
      /\ open_streams_'[p] = open_streams_[p] \ remote
  BY <1>1 DEF TypeOK
<1>6. /\ queued_reset_streams_[p] \ double \in SUBSET Sid
      /\ sent_reset_streams_[p] \ sids \in SUBSET Sid
      /\ open_streams_'[p] \cap (queued_reset_streams_[p] \ double) = {}
      /\ open_streams_'[p] \cap (sent_reset_streams_[p] \ sids) = {}
      /\ (queued_reset_streams_[p] \ double) \cap (sent_reset_streams_[p] \ sids) = {}
  BY <1>5 DEF TypeOK
<1>7. StreamTypes'
  BY <1>1, <1>5, <1>6, SendTypes
<1> QED
  BY <1>2, <1>4, <1>7

\* Every step keeps the types and the sets of streams disjoint.
LEMMA StepTypes ==
  ASSUME TypeOK, [Next]_vars
  PROVE  TypeOK'
<1>0. SUFFICES /\ AllocTypes' /\ StreamTypes' /\ sig' \in [Peer -> Seq(Closure)]
               /\ ready_to_send_data_' \in [Peer -> BOOLEAN] /\ up' \in [Peer -> BOOLEAN]
               /\ created' \in 0..MaxChannels /\ said' \in 0..MaxData
               /\ mishaps' \subseteq Mishap
  BY DEF TypeOK, AllocTypes, StreamTypes
<1> DEFINE Same == /\ ready_to_send_data_ \in [Peer -> BOOLEAN] /\ up \in [Peer -> BOOLEAN]
                   /\ created \in 0..MaxChannels /\ said \in 0..MaxData
                   /\ mishaps \subseteq Mishap /\ sig \in [Peer -> Seq(Closure)]
                   /\ AllocTypes /\ StreamTypes
<1>s. Same
  BY DEF TypeOK, AllocTypes, StreamTypes
<1> USE DEF AllocTypes, StreamTypes
<1>0a. ASSUME NEW p \in Peer, Connect(p) PROVE Same'
  <2>1. PostReady(sig[p], Ch) \in Seq(Closure)
    BY <1>s, ReadyClosure, ItemsAppend DEF PostReady
  <2> QED
    BY <1>0a, <1>s, <2>1 DEF Connect, alloc, streams, stack, bounds
<1>1. ASSUME NEW p \in Peer, CommUp(p) PROVE Same'
  BY <1>1, <1>s DEF CommUp, alloc, streams, stack, bounds, Mishap
<1>2. ASSUME NEW p \in Peer, CreateDataChannel(p) PROVE Same'
  <2>1. PICK s \in AllocateSid(p) :
          /\ CreateChannel(p, s, created + 1, TRUE, sig[p])
          /\ mishaps' = mishaps \cup {m \in {"early"} : ~Over(s)}
    BY <1>2 DEF CreateDataChannel
  <2>2. s \in Sid /\ created + 1 \in Ch /\ created + 1 \in 0..MaxChannels
    BY <1>2, <1>s, StreamAssumption
       DEF AllocateSid, Candidates, Sid, Ch, CreateDataChannel
  <2>3. sig[p] \in Seq(Closure) /\ UNCHANGED <<queued_reset_streams_, sent_reset_streams_, stack>>
    BY <1>2, <1>s DEF CreateDataChannel
  <2>4. AllocTypes' /\ StreamTypes' /\ sig' \in [Peer -> Seq(Closure)]
    BY <2>1, <2>2, <2>3, CreateTypes
  <2>5. /\ created' \in 0..MaxChannels /\ UNCHANGED conn /\ said' = said
        /\ mishaps' \subseteq Mishap
    BY <1>2, <1>s, <2>1, <2>2 DEF CreateDataChannel, Mishap
  <2> QED
    BY <2>4, <2>5, <1>s DEF conn
<1>3. ASSUME NEW p \in Peer, NEW s \in Sid, Close(p, s) PROVE Same'
  <2>1. AllocTypes' /\ StreamTypes'
    BY <1>3, CloseTypes DEF Close
  <2> QED
    BY <1>3, <1>s, <2>1 DEF Close, conn, bounds
<1>4. ASSUME NEW p \in Peer, NEW s \in Sid, Send(p, s) PROVE Same'
  <2>1. CASE CloseChannel(p, s)
    <3>1. AllocTypes' /\ StreamTypes'
      BY <2>1, CloseTypes
    <3>2. said' \in 0..MaxData
      BY <1>4, <1>s, StreamAssumption DEF Send
    <3> QED
      BY <1>4, <1>s, <3>1, <3>2 DEF Send, conn
  <2>2. CASE /\ s \in open_streams_[p]
             /\ wire' = ToPeer(p, wire, [k |-> "data", sid |-> s, ch |-> channels[p][s].ch])
             /\ UNCHANGED <<alloc, streams, busy>>
    <3>1. channels[p][s].ch \in Ch
      BY <1>4, <1>s DEF Send
    <3>2. [k |-> "data", sid |-> s, ch |-> channels[p][s].ch] \in Packet
      BY <3>1 DEF Packet, Message
    <3>3. wire' \in Wires
      BY <2>2, <3>2, <1>s, ToPeerType DEF Wires
    <3>4. said' \in 0..MaxData
      BY <1>4, <1>s, StreamAssumption DEF Send
    <3> QED
      BY <1>4, <1>s, <2>2, <3>3, <3>4 DEF Send, conn, alloc, streams, Wires
  <2> QED
    BY <1>4, <2>1, <2>2 DEF Send
<1>5. ASSUME NEW p \in Peer, OnChannelReady(p) PROVE Same'
  <2>1. Tail(sig[p]) \in Seq(Closure) /\ TakeClosure(p, "ready")
    BY <1>5, <1>s, ItemsTail DEF OnChannelReady, TakeClosure
  <2>2. sig' \in [Peer -> Seq(Closure)]
    BY <1>5, <1>s, <2>1 DEF OnChannelReady
  <2>3. wire' \in [Peer -> Seq(Packet)]
    <3>1. PICK t \in Seq(Packet) : wire' = [wire EXCEPT ![Other(p)] = @ \o t]
      BY <1>5, ReadySends
    <3>2. wire[Other(p)] \o t \in Seq(Packet)
      BY <1>s, Peers, ItemsConcat
    <3> QED
      BY <3>1, <3>2, <1>s
  <2>4. channels' \in [Peer -> [Sid -> {None} \cup
                     [ch : Ch, state : {"kConnecting", "kOpen"}, opener : BOOLEAN]]]
    <3>1. \A s \in Told(p) : s \in Sid /\ channels[p][s] # None
      BY <2>1, ToldFacts
    <3>2. \A s \in Told(p) : [channels[p][s] EXCEPT !.state = "kOpen"] \in
                     [ch : Ch, state : {"kConnecting", "kOpen"}, opener : BOOLEAN]
      <4>1. SUFFICES ASSUME NEW s \in Told(p)
                     PROVE  [channels[p][s] EXCEPT !.state = "kOpen"] \in
                     [ch : Ch, state : {"kConnecting", "kOpen"}, opener : BOOLEAN]
        OBVIOUS
      <4>2. channels[p][s] \in [ch : Ch, state : {"kConnecting", "kOpen"}, opener : BOOLEAN]
        BY <3>1, <1>s
      <4> QED
        BY <4>2
    <3>3. channels' = [channels EXCEPT ![p] =
                    [s \in Sid |-> IF s \in Told(p) THEN [@[s] EXCEPT !.state = "kOpen"]
                                                    ELSE @[s]]]
      BY <1>5 DEF OnChannelReady
    <3>4. [s \in Sid |-> IF s \in Told(p) THEN [channels[p][s] EXCEPT !.state = "kOpen"]
                                                    ELSE channels[p][s]]
           \in [Sid -> {None} \cup
                     [ch : Ch, state : {"kConnecting", "kOpen"}, opener : BOOLEAN]]
      BY <3>2, <1>s
    <3> QED
      BY <3>3, <3>4, <1>s
  <2> QED
    BY <1>5, <1>s, <2>2, <2>3, <2>4 DEF OnChannelReady, conn, streams, bounds
<1>6. ASSUME NEW p \in Peer, OnDataChannelOpenMessage(p) PROVE Same'
  <2>1. Tail(sig[p]) \in Seq(Closure) /\ Head(sig[p]) \in Closure /\ Head(sig[p]).k = "open"
    BY <1>6, <1>s, ItemsTail DEF OnDataChannelOpenMessage, TakeClosure
  <2>2. Head(sig[p]).sid \in Sid /\ Head(sig[p]).ch \in Ch
    BY <2>1, ClosureOf
  <2>3. CASE /\ sig' = [sig EXCEPT ![p] = Tail(@)]
             /\ UNCHANGED <<alloc, open_streams_>>
    BY <1>6, <1>s, <2>1, <2>3 DEF OnDataChannelOpenMessage, conn, alloc, stack, bounds
  <2>4. CASE CreateChannel(p, Head(sig[p]).sid, Head(sig[p]).ch, FALSE, Tail(sig[p]))
    <3>1. UNCHANGED <<queued_reset_streams_, sent_reset_streams_, stack>>
      BY <1>6 DEF OnDataChannelOpenMessage
    <3>2. AllocTypes' /\ StreamTypes' /\ sig' \in [Peer -> Seq(Closure)]
      BY <2>1, <2>2, <2>4, <3>1, CreateTypes
    <3> QED
      BY <1>6, <1>s, <3>2 DEF OnDataChannelOpenMessage, conn, bounds
  <2> QED
    BY <1>6, <2>3, <2>4 DEF OnDataChannelOpenMessage
<1>7. ASSUME NEW p \in Peer, OnDataReceived(p) PROVE Same'
  <2>1. Tail(sig[p]) \in Seq(Closure)
    BY <1>7, <1>s, ItemsTail DEF OnDataReceived, TakeClosure
  <2> QED
    BY <1>7, <1>s, <2>1 DEF OnDataReceived, conn, alloc, streams, stack, bounds
<1>8. ASSUME NEW p \in Peer, OnStreamClosedRemotely(p) PROVE Same'
  <2>1. Tail(sig[p]) \in Seq(Closure) /\ Head(sig[p]) \in Closure /\ Head(sig[p]).k = "closed"
    BY <1>8, <1>s, ItemsTail DEF OnStreamClosedRemotely, TakeClosure
  <2>2. Head(sig[p]).sid \in Sid
    BY <2>1, ClosureOf
  <2>3. AllocTypes' /\ StreamTypes'
    <3>1. CASE UNCHANGED <<alloc, streams, stack>>
      BY <3>1, <1>s DEF alloc, streams, stack
    <3>2. CASE CloseChannel(p, Head(sig[p]).sid)
      BY <3>2, <2>2, CloseTypes
    <3> QED
      BY <1>8, <3>1, <3>2 DEF OnStreamClosedRemotely
  <2> QED
    BY <1>8, <1>s, <2>1, <2>3 DEF OnStreamClosedRemotely, conn, bounds
<1>9. ASSUME NEW p \in Peer, OnDataFromSctpToChannel(p) PROVE Same'
  <2>1. /\ Taken(p) \in Wires /\ Head(wire[p]) \in Packet
        /\ Head(wire[p]).k \in {"data", "open", "ack"}
    BY <1>9, TakenType DEF OnDataFromSctpToChannel
  <2>2. Head(wire[p]) \in Closure
    BY <2>1, PacketOf DEF Closure
  <2>3. Append(sig[p], Head(wire[p])) \in Seq(Closure)
    BY <2>2, <1>s, ItemsAppend
  <2> QED
    BY <1>9, <1>s, <2>1, <2>3 DEF OnDataFromSctpToChannel, conn, alloc, streams, bounds, Wires
<1>10. ASSUME NEW p \in Peer, OnRequest(p) PROVE Same'
  <2>1. /\ Taken(p) \in Wires /\ Head(wire[p]) \in Packet
        /\ Head(wire[p]).k = "request"
    BY <1>10, TakenType DEF OnRequest
  <2>2. Head(wire[p]).sids \in SUBSET Sid
    BY <2>1, PacketOf
  <2> DEFINE answer == [k |-> IF busy[p] THEN "refuse" ELSE "agree", sids |-> Head(wire[p]).sids]
  <2>3. answer \in Packet
    BY <2>2, ResetPacket
  <2>4. OnIncomingReset(p, Head(wire[p]).sids, TRUE, ToPeer(p, Taken(p), answer))
    BY <1>10 DEF OnRequest
  <2> HIDE DEF answer
  <2>5. StreamTypes' /\ sig' \in [Peer -> Seq(Closure)] /\ mishaps' \subseteq Mishap
    BY <2>1, <2>2, <2>3, <2>4, ToPeerType, IncomingTypes
  <2> QED
    BY <1>10, <1>s, <2>5 DEF OnRequest, conn, alloc, bounds
<1>11. ASSUME NEW p \in Peer, OnAgreed(p) PROVE Same'
  <2>1. /\ Taken(p) \in Wires /\ Head(wire[p]) \in Packet
        /\ Head(wire[p]).k = "agree"
    BY <1>11, TakenType DEF OnAgreed
  <2>2. Head(wire[p]).sids \in SUBSET Sid
    BY <2>1, PacketOf
  <2> DEFINE answer == [k |-> "done", sids |-> Head(wire[p]).sids]
  <2>3. answer \in Packet
    BY <2>2, ResetPacket
  <2>4. OnIncomingReset(p, Head(wire[p]).sids, FALSE, ToPeer(p, Taken(p), answer))
    BY <1>11 DEF OnAgreed
  <2> HIDE DEF answer
  <2>5. StreamTypes' /\ sig' \in [Peer -> Seq(Closure)] /\ mishaps' \subseteq Mishap
    BY <2>1, <2>2, <2>3, <2>4, ToPeerType, IncomingTypes
  <2> QED
    BY <1>11, <1>s, <2>5 DEF OnAgreed, conn, alloc, bounds
<1>12. ASSUME NEW p \in Peer, OnDone(p) PROVE Same'
  <2>1. Taken(p) \in Wires
    BY <1>12, TakenType DEF OnDone
  <2>2. StreamTypes'
    BY <1>12, <1>s, <2>1, SendTypes DEF OnDone
  <2> QED
    BY <1>12, <1>s, <2>2 DEF OnDone, conn, alloc, bounds
<1>13. ASSUME NEW p \in Peer, OnFailed(p) PROVE Same'
  <2>1. Taken(p) \in Wires
    BY <1>13, TakenType DEF OnFailed
  <2>2. /\ Closing(p) \in SUBSET Sid /\ open_streams_[p] \cap Closing(p) = {}
    BY <1>s DEF Closing
  <2>3. /\ open_streams_' = open_streams_ /\ {} \in SUBSET Sid /\ FALSE \in BOOLEAN
        /\ open_streams_'[p] \cap {} = {} /\ Closing(p) \cap {} = {}
    BY <1>13 DEF OnFailed
  <2>4. SendQueuedStreamResets(p, Closing(p), {}, FALSE, Taken(p))
    BY <1>13 DEF OnFailed
  <2>5. StreamTypes'
    BY <1>s, <2>1, <2>2, <2>3, <2>4, SendTypes
  <2> QED
    BY <1>13, <1>s, <2>5 DEF OnFailed, conn, alloc, bounds
<1>14. CASE UNCHANGED vars
  BY <1>14, <1>s DEF vars, conn, alloc, streams, stack, bounds
<1> QED
  BY <1>0a, <1>1, <1>2, <1>3, <1>4, <1>5, <1>6, <1>7, <1>8, <1>9, <1>10, <1>11, <1>12, <1>13, <1>14
     DEF Next, Application, Signaling, OnPacketRead

\* The types at first.
LEMMA InitTypes == Init => TypeOK
<1>1. SUFFICES ASSUME Init PROVE TypeOK
  OBVIOUS
<1>2. /\ used_sids_ \in [Peer -> SUBSET Sid] /\ open_streams_ \in [Peer -> SUBSET Sid]
      /\ queued_reset_streams_ \in [Peer -> SUBSET Sid]
      /\ sent_reset_streams_ \in [Peer -> SUBSET Sid]
      /\ \A p \in Peer : /\ open_streams_[p] \cap queued_reset_streams_[p] = {}
                         /\ open_streams_[p] \cap sent_reset_streams_[p] = {}
                         /\ queued_reset_streams_[p] \cap sent_reset_streams_[p] = {}
  BY <1>1 DEF Init
<1>3. /\ channels \in [Peer -> [Sid -> {None} \cup
                   [ch : Ch, state : {"kConnecting", "kOpen"}, opener : BOOLEAN]]]
      /\ wire \in [Peer -> Seq(Packet)] /\ sig \in [Peer -> Seq(Closure)]
  BY <1>1 DEF Init
<1>4. /\ ready_to_send_data_ \in [Peer -> BOOLEAN] /\ up \in [Peer -> BOOLEAN]
      /\ busy \in [Peer -> BOOLEAN]
  BY <1>1 DEF Init
<1>5. /\ created \in 0..MaxChannels /\ said \in 0..MaxData /\ mishaps \subseteq Mishap
  BY <1>1, StreamAssumption DEF Init
<1> QED
  BY <1>2, <1>3, <1>4, <1>5 DEF TypeOK

\* The sets open_streams_, queued_reset_streams_ and sent_reset_streams_ of a transport
\* are disjoint, as the else-ifs of OnStreamResetEvent rely on, and everything has its type,
\* whatever number of sids there is and whatever the two peers do.
THEOREM TypeCorrect == Spec => []TypeOK
<1>1. Init => TypeOK
  BY InitTypes
<1>2. TypeOK /\ [Next]_vars => TypeOK'
  BY StepTypes
<1> QED
  BY <1>1, <1>2, PTL DEF Spec

-----------------------------------------------------------------------------
(* The handshake of the stacks *)

\* The packets of the handshake by which the stacks reset streams.
ResetKind == {"request", "agree", "refuse", "done"}

\* What a queue holds of the handshake.
ResetsOf(q) == {m \in Items(q) : m.k \in ResetKind}

\* An item and a later one are not of the same kind, if they belong to the handshake.
ResetOnce == {mn \in Packet \X Packet : mn[1].k \in ResetKind => mn[2].k # mn[1].k}

\* A packet is sent: the handshake is still in order if none of its kind is on its way.
LEMMA ResetsAppend ==
  ASSUME NEW q \in Seq(Packet), NEW m \in Packet
  PROVE  /\ m.k \in ResetKind => ResetsOf(Append(q, m)) = ResetsOf(q) \cup {m}
         /\ m.k \notin ResetKind => ResetsOf(Append(q, m)) = ResetsOf(q)
         /\ Ordered(q, ResetOnce) /\ (\A n \in ResetsOf(q) : n.k # m.k)
              => Ordered(Append(q, m), ResetOnce)
<1>1. Items(Append(q, m)) = Items(q) \cup {m}
  BY ItemsAppend
<1>2. \A n \in Items(q) : n \in Packet
  BY DEF Items
<1>3. ASSUME Ordered(q, ResetOnce), \A n \in ResetsOf(q) : n.k # m.k
      PROVE  Ordered(Append(q, m), ResetOnce)
  <2>1. \A n \in Items(q) : <<n, m>> \in ResetOnce
    BY <1>2, <1>3 DEF ResetOnce, ResetsOf
  <2> QED
    BY <1>3, <2>1, OrderedAppend
<1> QED
  BY <1>1, <1>3 DEF ResetsOf

\* A packet is read: no other of its kind is left.
LEMMA ResetsTail ==
  ASSUME NEW q \in Seq(Packet), q # <<>>, Ordered(q, ResetOnce)
  PROVE  /\ ResetsOf(Tail(q)) = {n \in ResetsOf(q) : n.k # Head(q).k}
         /\ Ordered(Tail(q), ResetOnce)
         /\ Head(q).k \in ResetKind => Head(q) \in ResetsOf(q)
<1>1. Items(q) = {Head(q)} \cup Items(Tail(q))
  BY ItemsTail
<1>2. Ordered(Tail(q), ResetOnce) /\ \A n \in Items(Tail(q)) : <<Head(q), n>> \in ResetOnce
  BY OrderedTail
<1>3. \A n \in Items(Tail(q)) : Head(q).k \in ResetKind => n.k # Head(q).k
  BY <1>2 DEF ResetOnce
<1> QED
  BY <1>1, <1>2, <1>3 DEF ResetsOf

\* Messages that are sent do not disturb the handshake.
LEMMA ResetsConcat ==
  ASSUME NEW q \in Seq(Packet), NEW t \in Seq(Packet), ResetsOf(t) = {}
  PROVE  /\ ResetsOf(q \o t) = ResetsOf(q)
         /\ Ordered(q, ResetOnce) => Ordered(q \o t, ResetOnce)
<1>1. Items(q \o t) = Items(q) \cup Items(t)
  BY ItemsConcat
<1>2. (\A n \in Items(q) : n \in Packet) /\ (\A n \in Items(t) : n \in Packet)
  BY DEF Items
<1>3. \A n \in Items(t) : n.k \notin ResetKind
  BY DEF ResetsOf
<1>4. ASSUME Ordered(q, ResetOnce) PROVE Ordered(q \o t, ResetOnce)
  <2>1. \A m \in Items(q), n \in Items(t) : <<m, n>> \in ResetOnce
    BY <1>2, <1>3 DEF ResetOnce
  <2>2. Ordered(t, ResetOnce)
    <3>1. \A i \in DOMAIN t : t[i] \in Items(t)
      BY DEF Items
    <3> QED
      BY <3>1, <1>2, <1>3 DEF Ordered, ResetOnce
  <2> QED
    BY <1>4, <2>1, <2>2, OrderedConcat
<1> QED
  BY <1>1, <1>3, <1>4 DEF ResetsOf

\* When w is what is on the wire, a packet of the handshake is on its way to p.
Has(w, p, kind) == \E m \in ResetsOf(w[p]) : m.k = kind

\* p has asked for a reset and its request is under way; it was agreed to; it was
\* refused; p has agreed to a reset of the other's, and will hear that it is done.
Asked(w, p)     == Has(w, Other(p), "request")
Agreed(w, p)    == Has(w, p, "agree")
Refused(w, p)   == Has(w, p, "refuse")
Finishing(w, p) == Has(w, p, "done")

\* The stack of p is busy if and only if there is a reason, and there is only one.
Underway(w, isBusy, p) ==
  /\ isBusy <=> \/ Asked(w, p) \/ Agreed(w, p) \/ Refused(w, p)
                \/ Agreed(w, Other(p)) \/ Finishing(w, p)
  /\ Asked(w, p) => /\ ~Agreed(w, p) /\ ~Refused(w, p)
                    /\ ~Agreed(w, Other(p)) /\ ~Finishing(w, p)
  /\ Agreed(w, p) => ~Refused(w, p) /\ ~Agreed(w, Other(p)) /\ ~Finishing(w, p)
  /\ Refused(w, p) => ~Agreed(w, Other(p)) /\ ~Finishing(w, p)
  /\ Agreed(w, Other(p)) => ~Finishing(w, p)

\* What p has sent is in the request that is on its way, or in the answer to it.
SentUnderway(w, sent, p) ==
  /\ sent # {} => Asked(w, p) \/ Agreed(w, p) \/ Refused(w, p)
  /\ \A m \in ResetsOf(w[Other(p)]) : m.k = "request" => sent \subseteq m.sids
  /\ \A m \in ResetsOf(w[p]) : m.k = "agree" => sent \subseteq m.sids

\* The handshake is in order: of each kind at most one packet is on its way to a peer.
HandshakeOf(w, isBusy, sent) ==
  \A p \in Peer : /\ Ordered(w[p], ResetOnce) /\ Underway(w, isBusy[p], p)
                  /\ SentUnderway(w, sent[p], p)

Handshake == HandshakeOf(wire, busy, sent_reset_streams_)

\* The same handshake packets, the same handshake.
LEMMA HandshakeSame ==
  ASSUME NEW w, NEW v, NEW isBusy, NEW sent, HandshakeOf(w, isBusy, sent),
         \A p \in Peer : Ordered(v[p], ResetOnce) /\ ResetsOf(v[p]) = ResetsOf(w[p])
  PROVE  HandshakeOf(v, isBusy, sent)
<1>1. \A p \in Peer : \A kind \in ResetKind : Has(v, p, kind) = Has(w, p, kind)
  BY DEF Has
<1>2. \A p \in Peer : /\ Asked(v, p) = Asked(w, p) /\ Agreed(v, p) = Agreed(w, p)
                      /\ Refused(v, p) = Refused(w, p) /\ Finishing(v, p) = Finishing(w, p)
                      /\ Agreed(v, Other(p)) = Agreed(w, Other(p))
  BY <1>1, Peers DEF ResetKind, Asked, Agreed, Refused, Finishing
<1>3. \A p \in Peer : Underway(v, isBusy[p], p)
  BY <1>2 DEF Underway, HandshakeOf
<1>4. \A p \in Peer : SentUnderway(v, sent[p], p)
  BY <1>2, Peers DEF SentUnderway, HandshakeOf
<1> QED
  BY <1>3, <1>4 DEF HandshakeOf

\* If the handshake is in order when SendQueuedStreamResets is called, it is when it
\* returns.
LEMMA SendKeepsHandshake ==
  ASSUME NEW p \in Peer, NEW queued \in SUBSET Sid, NEW sent \in SUBSET Sid,
         NEW isBusy \in BOOLEAN, NEW w \in Wires, StreamTypes,
         SendQueuedStreamResets(p, queued, sent, isBusy, w),
         HandshakeOf(w, [busy EXCEPT ![p] = isBusy], [sent_reset_streams_ EXCEPT ![p] = sent])
  PROVE  Handshake'
<1> DEFINE q == Other(p)
           b == [busy EXCEPT ![p] = isBusy]
           sn == [sent_reset_streams_ EXCEPT ![p] = sent]
           r == [k |-> "request", sids |-> queued]
<1>1. q \in Peer /\ q # p /\ Other(q) = p /\ \A x \in Peer : x = p \/ x = q
  BY Peers
<1>2. /\ b[p] = isBusy /\ b[q] = busy[q] /\ sn[p] = sent /\ sn[q] = sent_reset_streams_[q]
  BY <1>1 DEF StreamTypes
<1> DEFINE sends == sent = {} /\ queued # {} /\ up[p] /\ ~isBusy
<1>3. /\ wire'[p] = w[p] /\ busy'[q] = b[q] /\ sent_reset_streams_'[q] = sn[q]
      /\ sends => /\ wire'[q] = Append(w[q], r) /\ sent_reset_streams_'[p] = queued
                  /\ busy'[p] = TRUE
      /\ ~sends => /\ wire'[q] = w[q] /\ sent_reset_streams_'[p] = sn[p] /\ busy'[p] = b[p]
  <2>1. /\ wire'[p] = w[p] /\ busy'[q] = busy[q]
        /\ sent_reset_streams_'[q] = sent_reset_streams_[q]
    BY <1>1 DEF SendQueuedStreamResets, StreamTypes, Wires, ToPeer
  <2>2. ASSUME sends
        PROVE  /\ wire'[q] = Append(w[q], r) /\ sent_reset_streams_'[p] = queued
               /\ busy'[p] = TRUE
    BY <2>2, <1>1 DEF SendQueuedStreamResets, StreamTypes, Wires, ToPeer
  <2>3. ASSUME ~sends
        PROVE  /\ wire'[q] = w[q] /\ sent_reset_streams_'[p] = sent
               /\ busy'[p] = isBusy
    BY <2>3, <1>1 DEF SendQueuedStreamResets, StreamTypes, Wires, ToPeer
  <2> HIDE DEF q, b, sn, r, sends
  <2> QED
    BY <2>1, <2>2, <2>3, <1>2
<1>4. HandshakeOf(w, b, sn)
  OBVIOUS
<1>5. w[p] \in Seq(Packet) /\ w[q] \in Seq(Packet)
  BY <1>1 DEF Wires
<1>6. r \in Packet /\ r.k = "request" /\ r.sids = queued
  BY ResetPacket
<1>7. /\ Ordered(w[p], ResetOnce) /\ Ordered(w[q], ResetOnce)
      /\ Underway(w, b[p], p) /\ Underway(w, b[q], q)
      /\ SentUnderway(w, sn[p], p) /\ SentUnderway(w, sn[q], q)
  BY <1>1, <1>4 DEF HandshakeOf
<1>8. SUFFICES /\ Ordered(wire'[p], ResetOnce) /\ Ordered(wire'[q], ResetOnce)
               /\ Underway(wire', busy'[p], p) /\ Underway(wire', busy'[q], q)
               /\ SentUnderway(wire', sent_reset_streams_'[p], p)
               /\ SentUnderway(wire', sent_reset_streams_'[q], q)
  BY <1>1 DEF Handshake, HandshakeOf
<1> HIDE DEF q, b, sn, r
<1>9. CASE ~sends
  <2>1. \A kind \in ResetKind : /\ Has(wire', p, kind) = Has(w, p, kind)
                                /\ Has(wire', q, kind) = Has(w, q, kind)
    BY <1>3, <1>9 DEF Has
  <2>2. \A x \in {p, q} : /\ Asked(wire', x) = Asked(w, x) /\ Agreed(wire', x) = Agreed(w, x)
                      /\ Refused(wire', x) = Refused(w, x)
                      /\ Finishing(wire', x) = Finishing(w, x)
    BY <2>1, <1>1 DEF q, ResetKind, Asked, Agreed, Refused, Finishing
  <2>3. Underway(wire', busy'[p], p) /\ Underway(wire', busy'[q], q)
    BY <1>1, <1>3, <1>7, <1>9, <2>2 DEF Underway, q
  <2>4. /\ SentUnderway(wire', sent_reset_streams_'[p], p)
        /\ SentUnderway(wire', sent_reset_streams_'[q], q)
    BY <1>1, <1>3, <1>7, <1>9, <2>2 DEF SentUnderway, q
  <2> QED
    BY <1>3, <1>7, <1>9, <2>3, <2>4
<1>10. CASE sends
  <2>1. ResetsOf(wire'[p]) = ResetsOf(w[p]) /\ ResetsOf(wire'[q]) = ResetsOf(w[q]) \cup {r}
    BY <1>3, <1>5, <1>6, <1>10, ResetsAppend DEF ResetKind
  <2>2. ~Asked(w, p) /\ ~Agreed(w, p) /\ ~Refused(w, p) /\ ~Agreed(w, q) /\ ~Finishing(w, p)
    BY <1>2, <1>7, <1>10 DEF Underway, q
  <2>3. \A n \in ResetsOf(w[q]) : n.k # r.k
    BY <2>2, <1>6 DEF Asked, Has, q
  <2>4. Ordered(wire'[q], ResetOnce)
    BY <1>3, <1>5, <1>6, <1>7, <1>10, <2>3, ResetsAppend
  <2>5. /\ \A kind \in ResetKind : Has(wire', p, kind) = Has(w, p, kind)
        /\ Has(wire', q, "request")
        /\ Has(wire', q, "agree") = Has(w, q, "agree")
        /\ Has(wire', q, "refuse") = Has(w, q, "refuse")
        /\ Has(wire', q, "done") = Has(w, q, "done")
    BY <2>1, <1>6 DEF Has
  <2>6. /\ Asked(wire', p) /\ Asked(wire', q) = Asked(w, q)
        /\ \A x \in {p, q} : /\ Agreed(wire', x) = Agreed(w, x)
                             /\ Refused(wire', x) = Refused(w, x)
                             /\ Finishing(wire', x) = Finishing(w, x)
    BY <2>5, <1>1 DEF q, ResetKind, Asked, Agreed, Refused, Finishing
  <2>7. Underway(wire', busy'[p], p)
    BY <1>1, <1>3, <1>10, <2>2, <2>6 DEF Underway, q
  <2>8. Underway(wire', busy'[q], q)
    BY <1>1, <1>3, <1>7, <2>2, <2>6 DEF Underway, q
  <2>9. SentUnderway(wire', sent_reset_streams_'[p], p)
    <3>1. \A m \in ResetsOf(wire'[p]) : m.k # "agree"
      BY <2>1, <2>2 DEF Agreed, Has
    <3>2. \A m \in ResetsOf(wire'[q]) : m.k = "request" => m = r
      BY <2>1, <2>3, <1>6
    <3> QED
      BY <1>3, <1>6, <1>10, <2>6, <3>1, <3>2 DEF SentUnderway, q
  <2>10. SentUnderway(wire', sent_reset_streams_'[q], q)
    <3>1. /\ sn[q] # {} => Asked(w, q) \/ Agreed(w, q) \/ Refused(w, q)
          /\ \A m \in ResetsOf(w[p]) : m.k = "request" => sn[q] \subseteq m.sids
          /\ \A m \in ResetsOf(w[q]) : m.k = "agree" => sn[q] \subseteq m.sids
      BY <1>1, <1>7 DEF SentUnderway
    <3> QED
      BY <1>1, <1>3, <1>6, <2>1, <2>6, <3>1 DEF SentUnderway
  <2> QED
    BY <1>3, <1>7, <2>4, <2>7, <2>8, <2>9, <2>10
<1> QED
  BY <1>9, <1>10

\* Nothing is added to the wire, or what is added does not belong to the handshake.
LEMMA SameHandshake ==
  ASSUME Handshake, wire \in Wires, UNCHANGED <<busy, sent_reset_streams_>>,
         \A x \in Peer :
           \/ wire'[x] = wire[x]
           \/ \E t \in Seq(Packet) : wire'[x] = wire[x] \o t /\ ResetsOf(t) = {}
           \/ wire[x] # <<>> /\ wire'[x] = Tail(wire[x]) /\ Head(wire[x]).k \notin ResetKind
  PROVE  Handshake'
<1>1. SUFFICES \A x \in Peer : /\ Ordered(wire'[x], ResetOnce)
                               /\ ResetsOf(wire'[x]) = ResetsOf(wire[x])
  <2>1. HandshakeOf(wire, busy, sent_reset_streams_)
    BY DEF Handshake
  <2>2. HandshakeOf(wire', busy, sent_reset_streams_)
    BY <1>1, <2>1, HandshakeSame
  <2> QED
    BY <2>2 DEF Handshake
<1>2. SUFFICES ASSUME NEW x \in Peer
               PROVE  /\ Ordered(wire'[x], ResetOnce)
                      /\ ResetsOf(wire'[x]) = ResetsOf(wire[x])
  OBVIOUS
<1>3. wire[x] \in Seq(Packet) /\ Ordered(wire[x], ResetOnce)
  BY DEF Wires, Handshake, HandshakeOf
<1>4. CASE wire'[x] = wire[x]
  BY <1>3, <1>4
<1>5. ASSUME NEW t \in Seq(Packet), wire'[x] = wire[x] \o t, ResetsOf(t) = {}
      PROVE  /\ Ordered(wire'[x], ResetOnce)
             /\ ResetsOf(wire'[x]) = ResetsOf(wire[x])
  BY <1>3, <1>5, ResetsConcat
<1>6. CASE wire[x] # <<>> /\ wire'[x] = Tail(wire[x]) /\ Head(wire[x]).k \notin ResetKind
  <2>1. ResetsOf(Tail(wire[x])) = {n \in ResetsOf(wire[x]) : n.k # Head(wire[x]).k}
    BY <1>3, <1>6, ResetsTail
  <2>2. \A n \in ResetsOf(wire[x]) : n.k # Head(wire[x]).k
    BY <1>6 DEF ResetsOf
  <2>3. Ordered(Tail(wire[x]), ResetOnce)
    BY <1>3, <1>6, ResetsTail
  <2> QED
    BY <1>6, <2>1, <2>2, <2>3
<1> QED
  BY <1>4, <1>5, <1>6

\* ResetStream sends a request only if the stack has nothing under way.
LEMMA ResetStreamHandshake ==
  ASSUME TypeOK, Handshake, NEW p \in Peer, NEW s \in Sid, ResetStream(p, s)
  PROVE  Handshake'
<1>1. CASE UNCHANGED <<streams, stack>>
  BY <1>1 DEF streams, stack, Handshake
<1>2. CASE SendQueuedStreamResets(p, queued_reset_streams_[p] \cup {s},
                               sent_reset_streams_[p], busy[p], wire)
  <2>1. /\ [busy EXCEPT ![p] = busy[p]] = busy
        /\ [sent_reset_streams_ EXCEPT ![p] = sent_reset_streams_[p]] = sent_reset_streams_
    BY DEF TypeOK
  <2>2. HandshakeOf(wire, [busy EXCEPT ![p] = busy[p]],
                    [sent_reset_streams_ EXCEPT ![p] = sent_reset_streams_[p]])
    BY <2>1 DEF Handshake
  <2>3. /\ queued_reset_streams_[p] \cup {s} \in SUBSET Sid /\ wire \in Wires
        /\ sent_reset_streams_[p] \in SUBSET Sid /\ busy[p] \in BOOLEAN /\ StreamTypes
    BY DEF TypeOK, StreamTypes, Wires
  <2> QED
    BY <1>2, <2>2, <2>3, SendKeepsHandshake
<1> QED
  BY <1>1, <1>2 DEF ResetStream

\* The stack of p has read a packet of the handshake, and put the answer, if there is
\* one, on the wire.
LEMMA TakenResets ==
  ASSUME TypeOK, Handshake, NEW p \in Peer, NEW kind \in ResetKind, ReadPacket(p, kind)
  PROVE  /\ Taken(p) \in Wires
         /\ Head(wire[p]) \in ResetsOf(wire[p]) /\ Head(wire[p]).k = kind
         /\ Head(wire[p]).sids \in SUBSET Sid
         /\ \A x \in Peer : Ordered(Taken(p)[x], ResetOnce)
         /\ ResetsOf(Taken(p)[p]) = {n \in ResetsOf(wire[p]) : n.k # kind}
         /\ Taken(p)[Other(p)] = wire[Other(p)]
<1>1. /\ Taken(p) \in Wires /\ Head(wire[p]) \in Packet /\ Head(wire[p]).k = kind
  BY TakenType
<1>2. wire[p] \in Seq(Packet) /\ wire[p] # <<>> /\ wire \in Wires
  BY DEF TypeOK, ReadPacket, Wires
<1>3. Taken(p)[p] = Tail(wire[p]) /\ \A x \in Peer : x # p => Taken(p)[x] = wire[x]
  BY <1>2 DEF Taken, Wires
<1>4. \A x \in Peer : Ordered(wire[x], ResetOnce)
  BY DEF Handshake, HandshakeOf
<1>5. /\ ResetsOf(Tail(wire[p])) = {n \in ResetsOf(wire[p]) : n.k # kind}
      /\ Ordered(Tail(wire[p]), ResetOnce) /\ Head(wire[p]) \in ResetsOf(wire[p])
  BY <1>1, <1>2, <1>4, ResetsTail
<1>6. Head(wire[p]).sids \in SUBSET Sid
  BY <1>1, PacketOf DEF ResetKind
<1> QED
  BY <1>1, <1>3, <1>4, <1>5, <1>6, Peers

\* The parts of the handshake for p and its peer.
LEMMA HandshakeSplit ==
  ASSUME NEW p \in Peer, NEW w, NEW b, NEW sn
  PROVE  HandshakeOf(w, b, sn) <=>
           /\ Ordered(w[p], ResetOnce) /\ Ordered(w[Other(p)], ResetOnce)
           /\ Underway(w, b[p], p) /\ Underway(w, b[Other(p)], Other(p))
           /\ SentUnderway(w, sn[p], p) /\ SentUnderway(w, sn[Other(p)], Other(p))
BY Peers DEF HandshakeOf

\* OUTGOING: p has no reset of its own under way.
LEMMA DoneHandshake ==
  ASSUME TypeOK, Handshake, NEW p \in Peer, OnDone(p)
  PROVE  Handshake' /\ sent_reset_streams_[p] = {}
<1> DEFINE q == Other(p)
           w == Taken(p)
           b == [busy EXCEPT ![p] = FALSE]
           sn == [sent_reset_streams_ EXCEPT ![p] = sent_reset_streams_[p]]
<1>1. /\ w \in Wires /\ \A x \in Peer : Ordered(w[x], ResetOnce)
      /\ ResetsOf(w[p]) = {n \in ResetsOf(wire[p]) : n.k # "done"} /\ w[q] = wire[q]
      /\ Head(wire[p]) \in ResetsOf(wire[p]) /\ Head(wire[p]).k = "done"
  BY TakenResets DEF OnDone, ResetKind
<1>2. q \in Peer /\ q # p /\ Other(q) = p
  BY Peers
<1>3. sn = sent_reset_streams_ /\ b[p] = FALSE /\ b[q] = busy[q]
  BY <1>2 DEF TypeOK
<1>4. /\ Underway(wire, busy[p], p) /\ Underway(wire, busy[q], q)
      /\ SentUnderway(wire, sn[p], p) /\ SentUnderway(wire, sn[q], q)
  BY <1>2, <1>3 DEF Handshake, HandshakeOf
<1> HIDE DEF q, w, b, sn
<1>5. Finishing(wire, p)
  BY <1>1 DEF Finishing, Has
<1>6. /\ ~Finishing(w, p) /\ Agreed(w, p) = Agreed(wire, p) /\ Refused(w, p) = Refused(wire, p)
      /\ Has(w, p, "request") = Has(wire, p, "request")
      /\ \A kind \in ResetKind : Has(w, q, kind) = Has(wire, q, kind)
  BY <1>1 DEF Finishing, Agreed, Refused, Has
<1>7. /\ Asked(w, p) = Asked(wire, p) /\ Asked(w, q) = Asked(wire, q)
      /\ Agreed(w, q) = Agreed(wire, q) /\ Refused(w, q) = Refused(wire, q)
      /\ Finishing(w, q) = Finishing(wire, q)
  BY <1>2, <1>6 DEF q, ResetKind, Asked, Agreed, Refused, Finishing
<1>8. /\ ~Asked(wire, p) /\ ~Agreed(wire, p) /\ ~Refused(wire, p) /\ ~Agreed(wire, q)
  BY <1>4, <1>5 DEF Underway, q
<1>9. Underway(w, b[p], p) /\ Underway(w, b[q], q)
  BY <1>2, <1>3, <1>4, <1>6, <1>7, <1>8 DEF Underway, q
<1>10. sn[p] = {}
  BY <1>4, <1>8 DEF SentUnderway
<1>11. SentUnderway(w, sn[p], p)
  BY <1>10 DEF SentUnderway
<1>12. SentUnderway(w, sn[q], q)
  BY <1>1, <1>2, <1>4, <1>6, <1>7 DEF SentUnderway
<1>13. HandshakeOf(w, b, sn)
  BY <1>1, <1>2, <1>9, <1>11, <1>12, HandshakeSplit DEF q
<1>14. /\ SendQueuedStreamResets(p, queued_reset_streams_[p], sent_reset_streams_[p],
                            FALSE, w)
       /\ StreamTypes /\ queued_reset_streams_[p] \in SUBSET Sid
       /\ sent_reset_streams_[p] \in SUBSET Sid /\ FALSE \in BOOLEAN
  BY DEF OnDone, TypeOK, StreamTypes, w
<1>15. Handshake'
  BY <1>1, <1>13, <1>14, SendKeepsHandshake DEF b, sn
<1> QED
  BY <1>10, <1>15, <1>3

\* RESET_FAILED: what p has sent is no longer under way.
LEMMA FailedHandshake ==
  ASSUME TypeOK, Handshake, NEW p \in Peer, OnFailed(p)
  PROVE  Handshake'
<1> DEFINE q == Other(p)
           w == Taken(p)
           b == [busy EXCEPT ![p] = FALSE]
           sn == [sent_reset_streams_ EXCEPT ![p] = {}]
<1>1. /\ w \in Wires /\ \A x \in Peer : Ordered(w[x], ResetOnce)
      /\ ResetsOf(w[p]) = {n \in ResetsOf(wire[p]) : n.k # "refuse"} /\ w[q] = wire[q]
      /\ Head(wire[p]) \in ResetsOf(wire[p]) /\ Head(wire[p]).k = "refuse"
  BY TakenResets DEF OnFailed, ResetKind
<1>2. q \in Peer /\ q # p /\ Other(q) = p
  BY Peers
<1>3. sn[p] = {} /\ sn[q] = sent_reset_streams_[q] /\ b[p] = FALSE /\ b[q] = busy[q]
  BY <1>2 DEF TypeOK
<1>4. /\ Underway(wire, busy[p], p) /\ Underway(wire, busy[q], q)
      /\ SentUnderway(wire, sn[q], q)
  BY <1>2, <1>3 DEF Handshake, HandshakeOf
<1> HIDE DEF q, w, b, sn
<1>5. Refused(wire, p)
  BY <1>1 DEF Refused, Has
<1>6. /\ ~Refused(w, p) /\ Agreed(w, p) = Agreed(wire, p) /\ Finishing(w, p) = Finishing(wire, p)
      /\ Has(w, p, "request") = Has(wire, p, "request")
      /\ \A kind \in ResetKind : Has(w, q, kind) = Has(wire, q, kind)
  BY <1>1 DEF Finishing, Agreed, Refused, Has
<1>7. /\ Asked(w, p) = Asked(wire, p) /\ Asked(w, q) = Asked(wire, q)
      /\ Agreed(w, q) = Agreed(wire, q) /\ Refused(w, q) = Refused(wire, q)
      /\ Finishing(w, q) = Finishing(wire, q)
  BY <1>2, <1>6 DEF q, ResetKind, Asked, Agreed, Refused, Finishing
<1>8. /\ ~Asked(wire, p) /\ ~Agreed(wire, p) /\ ~Finishing(wire, p) /\ ~Agreed(wire, q)
  BY <1>4, <1>5 DEF Underway, q
<1>9. Underway(w, b[p], p) /\ Underway(w, b[q], q)
  BY <1>2, <1>3, <1>4, <1>6, <1>7, <1>8 DEF Underway, q
<1>11. SentUnderway(w, sn[p], p)
  BY <1>3 DEF SentUnderway
<1>12. SentUnderway(w, sn[q], q)
  BY <1>1, <1>2, <1>4, <1>6, <1>7 DEF SentUnderway
<1>13. HandshakeOf(w, b, sn)
  BY <1>1, <1>2, <1>9, <1>11, <1>12, HandshakeSplit DEF q
<1>14. /\ SendQueuedStreamResets(p, Closing(p), {}, FALSE, w)
       /\ StreamTypes /\ Closing(p) \in SUBSET Sid
       /\ {} \in SUBSET Sid /\ FALSE \in BOOLEAN
  BY DEF OnFailed, TypeOK, StreamTypes, w, Closing
<1> QED
  BY <1>1, <1>13, <1>14, SendKeepsHandshake DEF b, sn

\* The answer of p is on the wire.
LEMMA AnswerResets ==
  ASSUME NEW p \in Peer, NEW w \in Wires, NEW m \in Packet, m.k \in ResetKind,
         \A x \in Peer : Ordered(w[x], ResetOnce),
         \A n \in ResetsOf(w[Other(p)]) : n.k # m.k
  PROVE  /\ ToPeer(p, w, m) \in Wires
         /\ \A x \in Peer : Ordered(ToPeer(p, w, m)[x], ResetOnce)
         /\ ToPeer(p, w, m)[p] = w[p]
         /\ ResetsOf(ToPeer(p, w, m)[Other(p)]) = ResetsOf(w[Other(p)]) \cup {m}
<1>1. Other(p) \in Peer /\ Other(p) # p /\ w[Other(p)] \in Seq(Packet)
  BY Peers DEF Wires
<1>2. /\ ToPeer(p, w, m)[Other(p)] = Append(w[Other(p)], m)
      /\ \A x \in Peer : x # Other(p) => ToPeer(p, w, m)[x] = w[x]
  BY <1>1 DEF ToPeer, Wires
<1>3. /\ ResetsOf(Append(w[Other(p)], m)) = ResetsOf(w[Other(p)]) \cup {m}
      /\ Ordered(Append(w[Other(p)], m), ResetOnce)
  BY <1>1, ResetsAppend
<1> QED
  BY <1>1, <1>2, <1>3, ToPeerType

\* A request is read: p agrees, or refuses it because it has something under way.
LEMMA RequestHandshake ==
  ASSUME TypeOK, Handshake, NEW p \in Peer, OnRequest(p)
  PROVE  Handshake'
<1> DEFINE q == Other(p)
           sids == Head(wire[p]).sids
           m == [k |-> IF busy[p] THEN "refuse" ELSE "agree", sids |-> sids]
           w == ToPeer(p, Taken(p), m)
           b == [busy EXCEPT ![p] = TRUE]
           sn == [sent_reset_streams_ EXCEPT ![p] = sent_reset_streams_[p] \ sids]
<1>1. /\ Taken(p) \in Wires /\ \A x \in Peer : Ordered(Taken(p)[x], ResetOnce)
      /\ ResetsOf(Taken(p)[p]) = {n \in ResetsOf(wire[p]) : n.k # "request"}
      /\ Taken(p)[q] = wire[q]
      /\ Head(wire[p]) \in ResetsOf(wire[p]) /\ Head(wire[p]).k = "request"
      /\ sids \in SUBSET Sid
  BY TakenResets DEF OnRequest, ResetKind
<1>2. q \in Peer /\ q # p /\ Other(q) = p
  BY Peers
<1>3. /\ sn[p] = sent_reset_streams_[p] \ sids /\ sn[q] = sent_reset_streams_[q]
      /\ b[p] = TRUE /\ b[q] = busy[q]
  BY <1>2 DEF TypeOK
<1>4. /\ Underway(wire, busy[p], p) /\ Underway(wire, busy[q], q)
      /\ SentUnderway(wire, sent_reset_streams_[p], p)
      /\ SentUnderway(wire, sent_reset_streams_[q], q)
  BY <1>2 DEF Handshake, HandshakeOf
<1>a. m \in Packet /\ m.sids = sids /\ m.k \in {"refuse", "agree"}
  BY <1>1, ResetPacket
<1>b. IF busy[p] THEN m.k = "refuse" ELSE m.k = "agree"
  OBVIOUS
<1>c. OnIncomingReset(p, sids, TRUE, w)
  BY DEF OnRequest
<1> HIDE DEF q, w, b, sn, sids, m
<1>5. Asked(wire, q)
  BY <1>1, <1>2 DEF Asked, Has
<1>6. ~Agreed(wire, q) /\ ~Refused(wire, q) /\ ~Agreed(wire, p) /\ ~Finishing(wire, q) /\ busy[q]
  BY <1>2, <1>4, <1>5 DEF Underway
<1>7. \A n \in ResetsOf(Taken(p)[q]) : n.k # m.k
  BY <1>1, <1>6, <1>a DEF Agreed, Refused, Has
<1>8. /\ w \in Wires /\ \A x \in Peer : Ordered(w[x], ResetOnce)
      /\ ResetsOf(w[p]) = {n \in ResetsOf(wire[p]) : n.k # "request"}
      /\ ResetsOf(w[q]) = ResetsOf(wire[q]) \cup {m}
  <2>1. m.k \in ResetKind
    BY <1>a DEF ResetKind
  <2>2. /\ w \in Wires /\ \A x \in Peer : Ordered(w[x], ResetOnce)
        /\ w[p] = Taken(p)[p] /\ ResetsOf(w[q]) = ResetsOf(Taken(p)[q]) \cup {m}
    <3>1. w = ToPeer(p, Taken(p), m) /\ q = Other(p)
      BY DEF w, q
    <3>2. /\ Taken(p) \in Wires /\ \A x \in Peer : Ordered(Taken(p)[x], ResetOnce)
          /\ \A n \in ResetsOf(Taken(p)[Other(p)]) : n.k # m.k
      BY <1>1, <1>7, <3>1
    <3> QED
      BY <1>a, <2>1, <3>1, <3>2, AnswerResets
  <2> QED
    BY <2>2, <1>1
<1>9. /\ ~Has(w, p, "request") /\ Has(w, p, "agree") = Has(wire, p, "agree")
      /\ Has(w, p, "refuse") = Has(wire, p, "refuse")
      /\ Has(w, p, "done") = Has(wire, p, "done")
      /\ Has(w, q, "request") = Has(wire, q, "request")
      /\ Has(w, q, "agree") = (m.k = "agree") /\ Has(w, q, "refuse") = (m.k = "refuse")
      /\ Has(w, q, "done") = Has(wire, q, "done")
  <2>1. /\ ~Has(wire, q, "agree") /\ ~Has(wire, q, "refuse")
    BY <1>6 DEF Agreed, Refused
  <2>2. ~Has(w, p, "request")
    BY <1>8 DEF Has
  <2>3. /\ Has(w, p, "agree") = Has(wire, p, "agree")
        /\ Has(w, p, "refuse") = Has(wire, p, "refuse")
        /\ Has(w, p, "done") = Has(wire, p, "done")
    BY <1>8 DEF Has
  <2>4. /\ Has(w, q, "request") = Has(wire, q, "request")
        /\ Has(w, q, "done") = Has(wire, q, "done")
    BY <1>8, <1>a DEF Has
  <2>5. Has(w, q, "agree") = (m.k = "agree") /\ Has(w, q, "refuse") = (m.k = "refuse")
    BY <1>8, <2>1 DEF Has
  <2> QED
    BY <2>2, <2>3, <2>4, <2>5
<1>10. /\ Asked(w, p) = Asked(wire, p) /\ ~Asked(w, q)
       /\ Agreed(w, p) = Agreed(wire, p) /\ Agreed(w, q) = (m.k = "agree")
       /\ Refused(w, p) = Refused(wire, p) /\ Refused(w, q) = (m.k = "refuse")
       /\ Finishing(w, p) = Finishing(wire, p) /\ Finishing(w, q) = Finishing(wire, q)
  BY <1>2, <1>9 DEF q, Asked, Agreed, Refused, Finishing
<1>11. Underway(w, b[p], p)
  <2>1. CASE busy[p]
    <3>1. m.k = "refuse"
      BY <1>b, <2>1
    <3> QED
      BY <2>1, <3>1, <1>3, <1>4, <1>6, <1>10 DEF Underway, q
  <2>2. CASE ~busy[p]
    <3>1. m.k = "agree"
      BY <1>b, <2>2
    <3> QED
      BY <2>2, <3>1, <1>3, <1>4, <1>6, <1>10 DEF Underway, q
  <2> QED
    BY <2>1, <2>2
<1>12. Underway(w, b[q], q)
  BY <1>2, <1>3, <1>6, <1>10, <1>a DEF Underway
<1>13. SentUnderway(w, sn[p], p)
  <2>1. /\ sent_reset_streams_[p] # {} => Asked(wire, p) \/ Agreed(wire, p) \/ Refused(wire, p)
        /\ \A n \in ResetsOf(wire[q]) : n.k = "request" => sent_reset_streams_[p] \subseteq n.sids
    BY <1>4 DEF SentUnderway, q
  <2>2. sn[p] # {} => Asked(w, p) \/ Agreed(w, p) \/ Refused(w, p)
    BY <2>1, <1>3, <1>10
  <2>3. \A n \in ResetsOf(w[q]) : n.k = "request" => sn[p] \subseteq n.sids
    BY <2>1, <1>3, <1>8, <1>a
  <2>4. \A n \in ResetsOf(w[p]) : n.k # "agree"
    BY <1>6, <1>10 DEF Agreed, Has
  <2> QED
    BY <2>2, <2>3, <2>4 DEF SentUnderway, q
<1>14. SentUnderway(w, sn[q], q)
  <2>1. sent_reset_streams_[q] \subseteq sids
    BY <1>1, <1>2, <1>4 DEF SentUnderway, sids
  <2>2. sn[q] # {} => Asked(w, q) \/ Agreed(w, q) \/ Refused(w, q)
    BY <1>10, <1>a
  <2>3. \A n \in ResetsOf(w[p]) : n.k # "request"
    BY <1>8
  <2>4. \A n \in ResetsOf(w[q]) : n.k = "agree" => n = m
    BY <1>6, <1>8 DEF Agreed, Has
  <2> QED
    BY <1>2, <1>3, <1>a, <2>1, <2>2, <2>3, <2>4 DEF SentUnderway
<1>15. HandshakeOf(w, b, sn)
  BY <1>2, <1>8, <1>11, <1>12, <1>13, <1>14, HandshakeSplit DEF q
<1>16. PICK queued \in SUBSET Sid :
         SendQueuedStreamResets(p, queued, sent_reset_streams_[p] \ sids, TRUE, w)
  BY <1>c DEF OnIncomingReset, TypeOK
<1>17. /\ StreamTypes /\ sent_reset_streams_[p] \ sids \in SUBSET Sid /\ TRUE \in BOOLEAN
  BY DEF TypeOK, StreamTypes
<1> QED
  BY <1>8, <1>15, <1>16, <1>17, SendKeepsHandshake DEF b, sn

\* An agreement is read: it is about all that p has sent.
LEMMA AgreedHandshake ==
  ASSUME TypeOK, Handshake, NEW p \in Peer, OnAgreed(p)
  PROVE  /\ Handshake'
         /\ sent_reset_streams_[p] \subseteq Head(wire[p]).sids
<1> DEFINE q == Other(p)
           sids == Head(wire[p]).sids
           m == [k |-> "done", sids |-> sids]
           w == ToPeer(p, Taken(p), m)
           b == [busy EXCEPT ![p] = FALSE]
           sn == [sent_reset_streams_ EXCEPT ![p] = sent_reset_streams_[p] \ sids]
<1>1. /\ Taken(p) \in Wires /\ \A x \in Peer : Ordered(Taken(p)[x], ResetOnce)
      /\ ResetsOf(Taken(p)[p]) = {n \in ResetsOf(wire[p]) : n.k # "agree"}
      /\ Taken(p)[q] = wire[q]
      /\ Head(wire[p]) \in ResetsOf(wire[p]) /\ Head(wire[p]).k = "agree"
      /\ sids \in SUBSET Sid
  BY TakenResets DEF OnAgreed, ResetKind
<1>2. q \in Peer /\ q # p /\ Other(q) = p
  BY Peers
<1>3. /\ sn[p] = sent_reset_streams_[p] \ sids /\ sn[q] = sent_reset_streams_[q]
      /\ b[p] = FALSE /\ b[q] = busy[q]
  BY <1>2 DEF TypeOK
<1>4. /\ Underway(wire, busy[p], p) /\ Underway(wire, busy[q], q)
      /\ SentUnderway(wire, sent_reset_streams_[p], p)
      /\ SentUnderway(wire, sent_reset_streams_[q], q)
  BY <1>2 DEF Handshake, HandshakeOf
<1>a. m \in Packet /\ m.sids = sids /\ m.k = "done"
  BY <1>1, ResetPacket
<1>c. OnIncomingReset(p, sids, FALSE, w)
  BY DEF OnAgreed
<1> HIDE DEF q, w, b, sn, sids, m
<1>5. Agreed(wire, p)
  BY <1>1 DEF Agreed, Has
<1>6. /\ ~Asked(wire, p) /\ ~Refused(wire, p) /\ ~Agreed(wire, q) /\ ~Finishing(wire, p)
      /\ ~Asked(wire, q) /\ ~Refused(wire, q) /\ ~Finishing(wire, q) /\ busy[q]
  BY <1>2, <1>4, <1>5 DEF Underway, q
<1>7. \A n \in ResetsOf(Taken(p)[q]) : n.k # m.k
  BY <1>1, <1>6, <1>a DEF Finishing, Has
<1>8. /\ w \in Wires /\ \A x \in Peer : Ordered(w[x], ResetOnce)
      /\ ResetsOf(w[p]) = {n \in ResetsOf(wire[p]) : n.k # "agree"}
      /\ ResetsOf(w[q]) = ResetsOf(wire[q]) \cup {m}
  BY <1>1, <1>7, <1>a, AnswerResets DEF w, q, ResetKind
<1>9. /\ ~Has(w, p, "agree") /\ Has(w, p, "request") = Has(wire, p, "request")
      /\ Has(w, p, "refuse") = Has(wire, p, "refuse")
      /\ Has(w, p, "done") = Has(wire, p, "done")
      /\ Has(w, q, "request") = Has(wire, q, "request")
      /\ Has(w, q, "agree") = Has(wire, q, "agree")
      /\ Has(w, q, "refuse") = Has(wire, q, "refuse")
      /\ Has(w, q, "done")
  <2>1. /\ ~Has(w, p, "agree") /\ Has(w, p, "request") = Has(wire, p, "request")
        /\ Has(w, p, "refuse") = Has(wire, p, "refuse")
        /\ Has(w, p, "done") = Has(wire, p, "done")
    BY <1>8 DEF Has
  <2>2. /\ Has(w, q, "request") = Has(wire, q, "request")
        /\ Has(w, q, "agree") = Has(wire, q, "agree")
        /\ Has(w, q, "refuse") = Has(wire, q, "refuse")
        /\ Has(w, q, "done")
    BY <1>8, <1>a DEF Has
  <2> QED
    BY <2>1, <2>2
<1>10. /\ Asked(w, p) = Asked(wire, p) /\ Asked(w, q) = Asked(wire, q)
       /\ ~Agreed(w, p) /\ Agreed(w, q) = Agreed(wire, q)
       /\ Refused(w, p) = Refused(wire, p) /\ Refused(w, q) = Refused(wire, q)
       /\ Finishing(w, p) = Finishing(wire, p) /\ Finishing(w, q)
  BY <1>2, <1>9 DEF q, Asked, Agreed, Refused, Finishing
<1>11. Underway(w, b[p], p)
  BY <1>3, <1>6, <1>10 DEF Underway, q
<1>12. Underway(w, b[q], q)
  BY <1>2, <1>3, <1>6, <1>10 DEF Underway
<1>13. sent_reset_streams_[p] \subseteq sids
  BY <1>1, <1>4 DEF SentUnderway, sids
<1>14. SentUnderway(w, sn[p], p)
  <2>1. sn[p] = {}
    BY <1>3, <1>13
  <2> QED
    BY <2>1 DEF SentUnderway
<1>15. SentUnderway(w, sn[q], q)
  <2>1. sent_reset_streams_[q] = {}
    BY <1>4, <1>6 DEF SentUnderway
  <2> QED
    BY <2>1, <1>3 DEF SentUnderway
<1>16. HandshakeOf(w, b, sn)
  BY <1>2, <1>8, <1>11, <1>12, <1>14, <1>15, HandshakeSplit DEF q
<1>17. PICK queued \in SUBSET Sid :
         SendQueuedStreamResets(p, queued, sent_reset_streams_[p] \ sids, FALSE, w)
  BY <1>c DEF OnIncomingReset, TypeOK
<1>18. /\ StreamTypes /\ sent_reset_streams_[p] \ sids \in SUBSET Sid /\ FALSE \in BOOLEAN
  BY DEF TypeOK, StreamTypes
<1>19. Handshake'
  BY <1>8, <1>16, <1>17, <1>18, SendKeepsHandshake DEF b, sn
<1> QED
  BY <1>13, <1>19 DEF sids

\* Every step keeps the handshake.
LEMMA StepHandshake ==
  ASSUME TypeOK, Handshake, [Next]_vars
  PROVE  Handshake'
<1>w. wire \in Wires
  BY DEF TypeOK, Wires
<1>0. ASSUME NEW p \in Peer, Connect(p) PROVE Handshake'
  BY <1>0, <1>w, SameHandshake DEF Connect, streams, stack
<1>1. ASSUME NEW p \in Peer, CommUp(p) PROVE Handshake'
  BY <1>1, <1>w, SameHandshake DEF CommUp, streams, stack
<1>2. ASSUME NEW p \in Peer, CreateDataChannel(p) PROVE Handshake'
  BY <1>2, <1>w, SameHandshake DEF CreateDataChannel, stack
<1>3. ASSUME NEW p \in Peer, NEW s \in Sid, Close(p, s) PROVE Handshake'
  BY <1>3, ResetStreamHandshake DEF Close, CloseChannel
<1>4. ASSUME NEW p \in Peer, NEW s \in Sid, Send(p, s) PROVE Handshake'
  <2>1. CASE CloseChannel(p, s)
    BY <2>1, ResetStreamHandshake DEF CloseChannel
  <2>2. CASE /\ wire' = ToPeer(p, wire, [k |-> "data", sid |-> s, ch |-> channels[p][s].ch])
             /\ UNCHANGED <<alloc, streams, busy>>
    <3> DEFINE m == [k |-> "data", sid |-> s, ch |-> channels[p][s].ch]
    <3>1. channels[p][s].ch \in Ch
      BY <1>4 DEF Send, TypeOK
    <3>2. m \in Packet /\ m.k \notin ResetKind
      BY <3>1 DEF Packet, Message, ResetKind
    <3>3. /\ Other(p) \in Peer /\ wire[Other(p)] \in Seq(Packet)
          /\ wire'[Other(p)] = Append(wire[Other(p)], m)
          /\ \A x \in Peer : x # Other(p) => wire'[x] = wire[x]
      BY <2>2, <1>w, Peers DEF ToPeer, Wires
    <3> HIDE DEF m
    <3>4. \A x \in Peer : Ordered(wire[x], ResetOnce)
      BY DEF Handshake, HandshakeOf
    <3>5. \A n \in ResetsOf(wire[Other(p)]) : n.k # m.k
      BY <3>2 DEF ResetsOf
    <3>6. /\ ResetsOf(wire'[Other(p)]) = ResetsOf(wire[Other(p)])
          /\ Ordered(wire'[Other(p)], ResetOnce)
      BY <3>2, <3>3, <3>4, <3>5, ResetsAppend
    <3>7. \A x \in Peer : Ordered(wire'[x], ResetOnce) /\ ResetsOf(wire'[x]) = ResetsOf(wire[x])
      BY <3>3, <3>4, <3>6
    <3>8. HandshakeOf(wire', busy, sent_reset_streams_)
      BY <3>7, HandshakeSame DEF Handshake
    <3> QED
      BY <2>2, <3>8 DEF Handshake, streams
  <2> QED
    BY <1>4, <2>1, <2>2 DEF Send
<1>5. ASSUME NEW p \in Peer, OnChannelReady(p) PROVE Handshake'
  <2>1. PICK t \in Seq(Packet) :
           /\ wire' = [wire EXCEPT ![Other(p)] = @ \o t]
           /\ Items(t) = {HelloOf(p, s) : s \in Told(p)}
    BY <1>5, ReadySends
  <2>2. ResetsOf(t) = {}
    BY <2>1 DEF ResetsOf, HelloOf, ResetKind
  <2>3. /\ Other(p) \in Peer /\ wire'[Other(p)] = wire[Other(p)] \o t
        /\ \A x \in Peer : x # Other(p) => wire'[x] = wire[x]
    BY <2>1, <1>w, Peers DEF Wires
  <2>4. \A x \in Peer : \/ wire'[x] = wire[x]
                        \/ \E u \in Seq(Packet) : wire'[x] = wire[x] \o u /\ ResetsOf(u) = {}
    BY <2>2, <2>3
  <2>5. UNCHANGED <<busy, sent_reset_streams_>>
    BY <1>5 DEF OnChannelReady, streams
  <2> QED
    BY <1>w, <2>4, <2>5, SameHandshake
<1>6. ASSUME NEW p \in Peer, OnDataChannelOpenMessage(p) PROVE Handshake'
  BY <1>6, <1>w, SameHandshake DEF OnDataChannelOpenMessage, stack
<1>7. ASSUME NEW p \in Peer, OnDataReceived(p) PROVE Handshake'
  BY <1>7, <1>w, SameHandshake DEF OnDataReceived, streams, stack
<1>8. ASSUME NEW p \in Peer, OnStreamClosedRemotely(p) PROVE Handshake'
  <2>1. CASE UNCHANGED <<alloc, streams, stack>>
    BY <2>1, <1>w, SameHandshake DEF streams, stack
  <2>2. CASE CloseChannel(p, Head(sig[p]).sid)
    <3>1. Head(sig[p]).sid \in Sid
      <4>1. sig[p] \in Seq(Closure) /\ sig[p] # <<>> /\ Head(sig[p]).k = "closed"
        BY <1>8 DEF OnStreamClosedRemotely, TakeClosure, TypeOK
      <4> QED
        BY <4>1, ItemsTail, ClosureOf
    <3> QED
      BY <2>2, <3>1, ResetStreamHandshake DEF CloseChannel
  <2> QED
    BY <1>8, <2>1, <2>2 DEF OnStreamClosedRemotely
<1>9. ASSUME NEW p \in Peer, OnDataFromSctpToChannel(p) PROVE Handshake'
  <2>1. /\ wire[p] # <<>> /\ Head(wire[p]).k \in {"data", "open", "ack"} /\ wire' = Taken(p)
        /\ UNCHANGED <<busy, sent_reset_streams_>>
    BY <1>9 DEF OnDataFromSctpToChannel, ReadPacket, streams
  <2>2. /\ wire'[p] = Tail(wire[p]) /\ \A x \in Peer : x # p => wire'[x] = wire[x]
    BY <2>1, <1>w DEF Taken, Wires
  <2>3. Head(wire[p]).k \notin ResetKind
    BY <2>1 DEF ResetKind
  <2> QED
    BY <1>w, <2>1, <2>2, <2>3, SameHandshake
<1>10. ASSUME NEW p \in Peer, OnRequest(p) PROVE Handshake'
  BY <1>10, RequestHandshake
<1>11. ASSUME NEW p \in Peer, OnAgreed(p) PROVE Handshake'
  BY <1>11, AgreedHandshake
<1>12. ASSUME NEW p \in Peer, OnDone(p) PROVE Handshake'
  BY <1>12, DoneHandshake
<1>13. ASSUME NEW p \in Peer, OnFailed(p) PROVE Handshake'
  BY <1>13, FailedHandshake
<1>14. CASE UNCHANGED vars
  BY <1>14 DEF vars, streams, stack, Handshake
<1> QED
  BY <1>0, <1>1, <1>2, <1>3, <1>4, <1>5, <1>6, <1>7, <1>8, <1>9, <1>10, <1>11, <1>12, <1>13,
     <1>14 DEF Next, Application, Signaling, OnPacketRead

\* After a step a reset waits only if the stack is busy, or if it has waited before.
QueueKept(p) ==
  up'[p] /\ queued_reset_streams_'[p] # {} =>
    busy'[p] \/ (queued_reset_streams_'[p] = queued_reset_streams_[p] /\ busy'[p] = busy[p])

\* SendQueuedStreamResets leaves something in the queue only if the stack is busy, when
\* what was sent before has been answered or the stack is busy.
LEMMA SendWaits ==
  ASSUME NEW p \in Peer, NEW queued \in SUBSET Sid, NEW sent \in SUBSET Sid,
         NEW isBusy \in BOOLEAN, NEW w \in Wires, StreamTypes,
         SendQueuedStreamResets(p, queued, sent, isBusy, w),
         sent # {} => isBusy, up' = up
  PROVE  up'[p] /\ queued_reset_streams_'[p] # {} => busy'[p]
<1>1. CASE sent = {} /\ queued # {} /\ up[p] /\ ~isBusy
  BY <1>1 DEF SendQueuedStreamResets, StreamTypes
<1>2. CASE ~(sent = {} /\ queued # {} /\ up[p] /\ ~isBusy)
  <2>1. queued_reset_streams_'[p] = queued /\ busy'[p] = isBusy
    BY <1>2 DEF SendQueuedStreamResets, StreamTypes
  <2> QED
    BY <1>2, <2>1
<1> QED
  BY <1>1, <1>2

\* Whatever happens, a reset that waits has waited before or the stack is busy.
LEMMA StepQueue ==
  ASSUME TypeOK, Handshake, [Next]_vars
  PROVE  \A p \in Peer : QueueKept(p)
<1>w. wire \in Wires /\ StreamTypes
  BY DEF TypeOK, Wires, StreamTypes
<1>s. \A p \in Peer : sent_reset_streams_[p] # {} => busy[p]
  BY DEF Handshake, HandshakeOf, SentUnderway, Underway
<1>0. ASSUME UNCHANGED <<queued_reset_streams_, busy>>
      PROVE  \A p \in Peer : QueueKept(p)
  BY <1>0, <1>w DEF QueueKept
<1>a. ASSUME NEW p \in Peer, NEW queued \in SUBSET Sid, NEW sent \in SUBSET Sid,
             NEW isBusy \in BOOLEAN, NEW w \in Wires,
             SendQueuedStreamResets(p, queued, sent, isBusy, w), sent # {} => isBusy,
             up' = up
      PROVE  \A x \in Peer : QueueKept(x)
  <2>1. up'[p] /\ queued_reset_streams_'[p] # {} => busy'[p]
    BY <1>a, <1>w, SendWaits
  <2>2. \A x \in Peer : x # p => /\ queued_reset_streams_'[x] = queued_reset_streams_[x]
                                 /\ busy'[x] = busy[x]
    BY <1>a, <1>w DEF SendQueuedStreamResets, StreamTypes
  <2> QED
    BY <2>1, <2>2, <1>a, <1>w DEF QueueKept
<1>b. ASSUME NEW p \in Peer, NEW s \in Sid, ResetStream(p, s), up' = up
      PROVE  \A x \in Peer : QueueKept(x)
  <2>1. CASE UNCHANGED <<streams, stack>>
    BY <2>1, <1>b, <1>0 DEF streams, stack
  <2>2. CASE SendQueuedStreamResets(p, queued_reset_streams_[p] \cup {s},
                               sent_reset_streams_[p], busy[p], wire)
    <3>1. /\ queued_reset_streams_[p] \cup {s} \in SUBSET Sid
          /\ sent_reset_streams_[p] \in SUBSET Sid /\ busy[p] \in BOOLEAN
      BY DEF TypeOK
    <3> QED
      BY <1>a, <1>b, <1>w, <1>s, <2>2, <3>1
  <2> QED
    BY <1>b, <2>1, <2>2 DEF ResetStream
<1>c. ASSUME NEW p \in Peer, Connect(p) PROVE \A x \in Peer : QueueKept(x)
  BY <1>0, <1>c DEF Connect, streams, stack
<1>1. ASSUME NEW p \in Peer, CommUp(p) PROVE \A x \in Peer : QueueKept(x)
  BY <1>0, <1>1 DEF CommUp, streams, stack
<1>2. ASSUME NEW p \in Peer, CreateDataChannel(p) PROVE \A x \in Peer : QueueKept(x)
  BY <1>2, <1>0 DEF CreateDataChannel, stack
<1>3. ASSUME NEW p \in Peer, NEW s \in Sid, Close(p, s) PROVE \A x \in Peer : QueueKept(x)
  BY <1>3, <1>b DEF Close, CloseChannel, conn
<1>4. ASSUME NEW p \in Peer, NEW s \in Sid, Send(p, s) PROVE \A x \in Peer : QueueKept(x)
  <2>1. CASE CloseChannel(p, s)
    BY <2>1, <1>4, <1>b DEF Send, CloseChannel, conn
  <2>2. CASE UNCHANGED <<alloc, streams, busy>>
    BY <2>2, <1>4, <1>0 DEF Send, streams
  <2> QED
    BY <1>4, <2>1, <2>2 DEF Send
<1>5. ASSUME NEW p \in Peer, OnChannelReady(p) PROVE \A x \in Peer : QueueKept(x)
  BY <1>5, <1>0 DEF OnChannelReady, streams
<1>6. ASSUME NEW p \in Peer, OnDataChannelOpenMessage(p) PROVE \A x \in Peer : QueueKept(x)
  BY <1>6, <1>0 DEF OnDataChannelOpenMessage, stack
<1>7. ASSUME NEW p \in Peer, OnDataReceived(p) PROVE \A x \in Peer : QueueKept(x)
  BY <1>7, <1>0 DEF OnDataReceived, streams, stack
<1>8. ASSUME NEW p \in Peer, OnStreamClosedRemotely(p) PROVE \A x \in Peer : QueueKept(x)
  <2>0. up' = up
    BY <1>8 DEF OnStreamClosedRemotely, conn
  <2>1. CASE UNCHANGED <<alloc, streams, stack>>
    BY <2>0, <2>1, <1>0 DEF streams, stack
  <2>2. CASE CloseChannel(p, Head(sig[p]).sid)
    <3>1. Head(sig[p]).sid \in Sid
      <4>1. sig[p] \in Seq(Closure) /\ sig[p] # <<>> /\ Head(sig[p]).k = "closed"
        BY <1>8 DEF OnStreamClosedRemotely, TakeClosure, TypeOK
      <4> QED
        BY <4>1, ItemsTail, ClosureOf
    <3> QED
      BY <2>0, <2>2, <3>1, <1>b DEF CloseChannel
  <2> QED
    BY <1>8, <2>1, <2>2 DEF OnStreamClosedRemotely
<1>9. ASSUME NEW p \in Peer, OnDataFromSctpToChannel(p) PROVE \A x \in Peer : QueueKept(x)
  BY <1>9, <1>0 DEF OnDataFromSctpToChannel, streams
<1>10. ASSUME NEW p \in Peer, OnRequest(p) PROVE \A x \in Peer : QueueKept(x)
  <2>1. PICK sids, w : OnIncomingReset(p, sids, TRUE, w)
    BY <1>10 DEF OnRequest
  <2>2. busy'[p] = TRUE /\ \A x \in Peer : x # p =>
                                 /\ queued_reset_streams_'[x] = queued_reset_streams_[x]
                                 /\ busy'[x] = busy[x]
    BY <2>1, <1>w DEF OnIncomingReset, SendQueuedStreamResets, StreamTypes
  <2> QED
    BY <2>2 DEF QueueKept
<1>11. ASSUME NEW p \in Peer, OnAgreed(p) PROVE \A x \in Peer : QueueKept(x)
  <2> DEFINE sids == Head(wire[p]).sids
             w == ToPeer(p, Taken(p), [k |-> "done", sids |-> sids])
  <2>1. /\ Taken(p) \in Wires /\ sids \in SUBSET Sid
    BY <1>11, TakenResets DEF OnAgreed, ResetKind
  <2>2. w \in Wires
    BY <2>1, ResetPacket, ToPeerType
  <2>3. sent_reset_streams_[p] \ sids = {}
    BY <1>11, AgreedHandshake
  <2>4. OnIncomingReset(p, sids, FALSE, w)
    BY <1>11 DEF OnAgreed
  <2> HIDE DEF sids, w
  <2>5. PICK queued \in SUBSET Sid : SendQueuedStreamResets(p, queued, {}, FALSE, w)
    BY <2>3, <2>4 DEF OnIncomingReset, TypeOK
  <2>6. up' = up
    BY <1>11 DEF OnAgreed, conn
  <2>7. {} \in SUBSET Sid /\ FALSE \in BOOLEAN
    OBVIOUS
  <2> QED
    BY <1>a, <2>2, <2>5, <2>6, <2>7
<1>12. ASSUME NEW p \in Peer, OnDone(p) PROVE \A x \in Peer : QueueKept(x)
  <2>1. Taken(p) \in Wires /\ sent_reset_streams_[p] = {}
    BY <1>12, TakenType, DoneHandshake DEF OnDone
  <2>2. /\ SendQueuedStreamResets(p, queued_reset_streams_[p], {}, FALSE, Taken(p))
        /\ up' = up
    BY <1>12, <2>1 DEF OnDone, conn
  <2>3. {} \in SUBSET Sid /\ FALSE \in BOOLEAN /\ queued_reset_streams_[p] \in SUBSET Sid
    BY DEF TypeOK
  <2> QED
    BY <1>a, <2>1, <2>2, <2>3
<1>13. ASSUME NEW p \in Peer, OnFailed(p) PROVE \A x \in Peer : QueueKept(x)
  <2>1. Taken(p) \in Wires
    BY <1>13, TakenType DEF OnFailed
  <2>2. /\ SendQueuedStreamResets(p, Closing(p), {}, FALSE, Taken(p))
        /\ up' = up
    BY <1>13 DEF OnFailed, conn
  <2>3. {} \in SUBSET Sid /\ FALSE \in BOOLEAN /\ Closing(p) \in SUBSET Sid
    BY DEF TypeOK, Closing
  <2> QED
    BY <1>a, <2>1, <2>2, <2>3
<1>14. CASE UNCHANGED vars
  BY <1>14, <1>0 DEF vars, streams, stack
<1> QED
  BY <1>c, <1>1, <1>2, <1>3, <1>4, <1>5, <1>6, <1>7, <1>8, <1>9, <1>10, <1>11, <1>12, <1>13,
     <1>14 DEF Next, Application, Signaling, OnPacketRead

\* What has gone wrong is not forgotten.
LEMMA MishapsGrow ==
  ASSUME [Next]_vars
  PROVE  mishaps \subseteq mishaps'
<1>1. ASSUME NEW p \in Peer, Connect(p) \/ CommUp(p) PROVE mishaps \subseteq mishaps'
  BY <1>1 DEF Connect, CommUp
<1>2. ASSUME NEW p \in Peer, Application(p) PROVE mishaps \subseteq mishaps'
  BY <1>2 DEF Application, CreateDataChannel, Close, Send
<1>3. ASSUME NEW p \in Peer, Signaling(p) PROVE mishaps \subseteq mishaps'
  BY <1>3 DEF Signaling, OnChannelReady, OnDataChannelOpenMessage, OnDataReceived,
     OnStreamClosedRemotely
<1>4. ASSUME NEW p \in Peer, OnPacketRead(p) PROVE mishaps \subseteq mishaps'
  BY <1>4 DEF OnPacketRead, OnDataFromSctpToChannel, OnRequest, OnAgreed, OnIncomingReset,
     OnDone, OnFailed
<1>5. CASE UNCHANGED vars
  BY <1>5 DEF vars
<1> QED
  BY <1>1, <1>2, <1>3, <1>4, <1>5 DEF Next

\* The association comes up at a peer by CommUp only.
LEMMA OnlyCommUp ==
  ASSUME [Next]_vars
  PROVE  up' = up \/ \E p \in Peer : CommUp(p)
BY DEF Next, Connect, Application, CreateDataChannel, Close, Send, Signaling,
       OnChannelReady, OnDataChannelOpenMessage, OnDataReceived, OnStreamClosedRemotely,
       OnPacketRead, OnDataFromSctpToChannel, OnRequest, OnAgreed, OnDone, OnFailed, vars,
       conn

\* No step makes a reset wait for nothing.
LEMMA StepNoLostReset ==
  ASSUME TypeOK, Handshake, NoLostReset, [Next]_vars
  PROVE  NoLostReset'
<1>1. SUFFICES ASSUME NEW p \in Peer, up'[p], "stranded" \notin mishaps',
                      queued_reset_streams_'[p] # {}, ~busy'[p]
               PROVE  FALSE
  BY DEF NoLostReset
<1>2. queued_reset_streams_'[p] = queued_reset_streams_[p] /\ busy'[p] = busy[p]
  BY <1>1, StepQueue DEF QueueKept
<1>3. "stranded" \notin mishaps
  BY <1>1, MishapsGrow
<1>4. CASE up[p]
  BY <1>1, <1>2, <1>3, <1>4 DEF NoLostReset
<1>5. CASE ~up[p]
  <2>1. PICK q \in Peer : CommUp(q)
    BY <1>1, <1>5, OnlyCommUp
  <2>2. q = p
    BY <1>1, <1>5, <2>1 DEF CommUp, TypeOK
  <2>3. Closing(p) = {}
    BY <1>1, <2>1, <2>2 DEF CommUp
  <2> QED
    BY <1>1, <1>2, <2>3 DEF Closing
<1> QED
  BY <1>4, <1>5

\* At first nothing is under way, and no reset waits.
LEMMA InitHandshake == Init => Handshake /\ NoLostReset
<1> SUFFICES ASSUME Init PROVE Handshake /\ NoLostReset
  OBVIOUS
<1>1. \A p \in Peer : wire[p] = <<>> /\ busy[p] = FALSE /\ sent_reset_streams_[p] = {}
  BY DEF Init
<1>2. \A p \in Peer : ResetsOf(wire[p]) = {} /\ Ordered(wire[p], ResetOnce)
  BY <1>1 DEF ResetsOf, Items, Ordered
<1>3. \A p \in Peer : \A kind : ~Has(wire, p, kind)
  BY <1>2 DEF Has
<1>4. \A p \in Peer : Underway(wire, busy[p], p) /\ SentUnderway(wire, sent_reset_streams_[p], p)
  BY <1>1, <1>2, <1>3, Peers
     DEF Underway, SentUnderway, Asked, Agreed, Refused, Finishing
<1>5. NoLostReset
  BY DEF Init, NoLostReset
<1> QED
  BY <1>2, <1>4, <1>5 DEF Handshake, HandshakeOf

\* A reset that waits in queued_reset_streams_ when the association is up and none was
\* stranded before waits for a stack that is busy, and so for an event (INCOMING, OUTGOING
\* or RESET_FAILED) whose handler calls SendQueuedStreamResets.
THEOREM NoLostResetHolds == Spec => []NoLostReset
<1>1. Init => TypeOK /\ Handshake /\ NoLostReset
  BY InitTypes, InitHandshake
<1>2. TypeOK /\ Handshake /\ NoLostReset /\ [Next]_vars => (TypeOK /\ Handshake /\ NoLostReset)'
  BY StepTypes, StepHandshake, StepNoLostReset
<1> QED
  BY <1>1, <1>2, PTL DEF Spec
=============================================================================
