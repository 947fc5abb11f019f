--------------------------- MODULE SctpSidesProofs --------------------------
(***************************************************************************)
(* The two sides have the same channels when nothing is on its way, for    *)
(* every number of sids, channels and messages. The invariant says of each *)
(* sid that has a channel on one side only what is on its way, or queued,  *)
(* that will end this.                                                     *)
(***************************************************************************)
EXTENDS SctpUseProofs

-----------------------------------------------------------------------------
(* Both sides have the same channels *)

\* p will reset the stream, or has asked for it.
CloseComing(p, s) == s \in queued_reset_streams_[p] \/ Requested(p, s)

\* When only one side has a channel, the other will get one or this one will be closed.
Half(s) ==
  /\ HasChannel(Owner(s), s) /\ ~HasChannel(Guest(s), s) =>
       \/ Connecting(s) \/ OpenOnWire(s) \/ OpenPosted(s)
       \/ ClosePosted(Owner(s), s) \/ CloseComing(Guest(s), s)
  /\ ~HasChannel(Owner(s), s) /\ HasChannel(Guest(s), s) =>
       ClosePosted(Guest(s), s) \/ CloseComing(Owner(s), s)
  /\ ~HasChannel(Owner(s), s) /\ (OpenOnWire(s) \/ OpenPosted(s)) => CloseComing(Owner(s), s)

\* What can happen to one sid keeps it so: the INCOMING event closes the channel on the
\* other side, unless it overtakes the OPEN.
LEMMA StepHalf ==
  ASSUME NEW s \in Sid, UseInv(s), Half(s), SidStep(s), "overtaken" \notin mishaps'
  PROVE  Half(s)'
<1> DEFINE o == Owner(s)
           g == Guest(s)
<1>1. /\ o \in Peer /\ g \in Peer /\ o # g /\ Other(o) = g /\ Other(g) = o
      /\ \A p \in Peer : p = o \/ p = g
  BY Sides
<1>2. Fresh(s) /\ CanSend(o, s) /\ CanSend(g, s) /\ Gone(o, s) /\ Gone(g, s)
  BY <1>1 DEF UseInv
<1>3. Connecting(s) => HasChannel(o, s)
  BY DEF Connecting
<1> USE DEF Keeps, SameChannel, SameOpens, SameStreams, Sends, Fresh, Unheard, CanSend, Gone,
            Half, CloseComing
<1>4. ASSUME NEW p \in {o, g}, Flushes(p, s) \/ Requeues(p, s) PROVE Half(s)'
  <2>1. CASE p = o
    BY <1>1, <1>2, <1>3, <1>4, <2>1 DEF Flushes, Requeues, Closing
  <2>2. CASE p = g
    BY <1>1, <1>2, <1>3, <1>4, <2>2 DEF Flushes, Requeues, Closing
  <2> QED
    BY <2>1, <2>2
<1>5. ASSUME NEW p \in {o, g}, ClosesChannel(p, s) PROVE Half(s)'
  <2>1. CASE p = o
    BY <1>1, <1>2, <1>3, <1>5, <2>1 DEF ClosesChannel
  <2>2. CASE p = g
    BY <1>1, <1>2, <1>3, <1>5, <2>2 DEF ClosesChannel
  <2> QED
    BY <2>1, <2>2
<1>6. ASSUME NEW p \in {o, g}, Asks(p, s) PROVE Half(s)'
  <2>1. CASE p = o
    BY <1>1, <1>2, <1>3, <1>6, <2>1 DEF Asks, Incoming
  <2>2. CASE p = g
    BY <1>1, <1>2, <1>3, <1>6, <2>2 DEF Asks, Incoming
  <2> QED
    BY <2>1, <2>2
<1>7. ASSUME NEW p \in {o, g}, IsAgreed(p, s) PROVE Half(s)'
  <2>1. CASE p = o
    BY <1>1, <1>2, <1>3, <1>7, <2>1 DEF IsAgreed, Incoming
  <2>2. CASE p = g
    BY <1>1, <1>2, <1>3, <1>7, <2>2 DEF IsAgreed, Incoming
  <2> QED
    BY <2>1, <2>2
<1>8. CASE Creates(s)
  BY <1>1, <1>2, <1>3, <1>8 DEF Creates
<1>9. CASE SendsOpen(s) \/ MovesOpen(s)
  BY <1>1, <1>2, <1>3, <1>9 DEF SendsOpen, MovesOpen
<1>10. CASE GuestOpens(s)
  BY <1>1, <1>2, <1>3, <1>10 DEF GuestOpens
<1> QED
  BY <1>1, <1>4, <1>5, <1>6, <1>7, <1>8, <1>9, <1>10 DEF SidStep

\* A channel that is connecting when its transport is ready will be told.
ReadyComing(p, s) ==
  ready_to_send_data_[p] /\ channels[p][s] # None /\ channels[p][s].state = "kConnecting" =>
    \E m \in Waiting(p) : m.k = "ready" /\ channels[p][s].ch \in m.chs

\* What makes channels ready still waits.
KeepsReady(p) == \A m \in Waiting(p) : m.k = "ready" => m \in Waiting(p)'

\* Nothing that tells the channel is lost.
LEMMA SameReady ==
  ASSUME NEW p \in Peer, NEW s \in Sid, ReadyComing(p, s), KeepsReady(p),
         UNCHANGED ready_to_send_data_,
         channels'[p][s] = None \/ channels'[p][s] = channels[p][s]
  PROVE  ReadyComing(p, s)'
BY DEF ReadyComing, KeepsReady

\* A new channel is told, at the latest when the session hears that the transport is ready.
LEMMA CreateReady ==
  ASSUME TypeOK, NEW p \in Peer, NEW s \in Sid, NEW c \in Ch, NEW isOpener,
         UNCHANGED ready_to_send_data_,
         \A x \in Peer, t \in Sid : ReadyComing(x, t), \A x \in Peer : KeepsReady(x),
         CreateOutcome(p, s, c, isOpener),
         SctpReady(p) => [k |-> "ready", chs |-> {c}] \in Waiting(p)'
  PROVE  \A x \in Peer, t \in Sid : ReadyComing(x, t)'
<1>1. ASSUME NEW x \in Peer, NEW t \in Sid, x # p \/ t # s PROVE ReadyComing(x, t)'
  BY <1>1, SameReady DEF CreateOutcome
<1>2. channels'[p][s].ch = c
  BY DEF CreateOutcome
<1>3. CASE SctpReady(p)
  <2>1. \E m \in Waiting(p)' : m.k = "ready" /\ c \in m.chs
    BY <1>3
  <2> QED
    BY <1>1, <1>2, <2>1 DEF ReadyComing
<1>4. CASE ~ready_to_send_data_[p]
  BY <1>1, <1>4 DEF ReadyComing
<1>5. CASE ready_to_send_data_[p] /\ ~SctpReady(p)
  <2>1. [k |-> "ready", chs |-> Ch] \in Waiting(p)
    BY <1>5 DEF SctpReady, Waiting, Items
  <2>2. \E m \in Waiting(p)' : m.k = "ready" /\ c \in m.chs
    BY <2>1 DEF KeepsReady
  <2> QED
    BY <1>1, <1>2, <2>2 DEF ReadyComing
<1> QED
  BY <1>3, <1>4, <1>5

\* A transport becomes ready by Connect only.
LEMMA OnlyConnect ==
  ASSUME [Next]_vars
  PROVE  UNCHANGED ready_to_send_data_ \/ \E p \in Peer : Connect(p)
BY DEF Next, CommUp, Application, CreateDataChannel, Close, Send, Signaling, OnChannelReady,
       OnDataChannelOpenMessage, OnDataReceived, OnStreamClosedRemotely, OnPacketRead,
       OnDataFromSctpToChannel, OnRequest, OnAgreed, OnDone, OnFailed, vars, conn

\* Every step keeps that: Connect tells all channels there are, and DataChannel::Init
\* posts to itself when it comes later.
LEMMA StepReady ==
  ASSUME TypeOK, \A p \in Peer, s \in Sid : ReadyComing(p, s), [Next]_vars
  PROVE  \A p \in Peer, s \in Sid : ReadyComing(p, s)'
<1>1. ASSUME NEW q \in Peer, Connect(q) PROVE \A p \in Peer, s \in Sid : ReadyComing(p, s)'
  <2>1. UNCHANGED channels /\ \A p \in Peer : p # q =>
             ready_to_send_data_'[p] = ready_to_send_data_[p] /\ Waiting(p)' = Waiting(p)
    BY <1>1, ConnectSets, Peers DEF Connect, alloc, TypeOK
  <2>2. ASSUME NEW p \in Peer, NEW s \in Sid, p # q PROVE ReadyComing(p, s)'
    BY <2>1, <2>2 DEF ReadyComing
  <2>3. ASSUME NEW s \in Sid PROVE ReadyComing(q, s)'
    <3>1. SUFFICES ASSUME channels'[q][s] # None
                   PROVE  \E m \in Waiting(q)' : m.k = "ready" /\ channels'[q][s].ch \in m.chs
      BY DEF ReadyComing
    <3>2. [k |-> "ready", chs |-> Ch] \in Waiting(q)'
      BY <1>1, ConnectSets
    <3>3. channels'[q][s].ch \in Ch
      BY <2>1, <3>1 DEF TypeOK
    <3> QED
      BY <3>2, <3>3
  <2> QED
    BY <2>2, <2>3
<1>2. CASE ~\E p \in Peer : Connect(p)
  <2>same. UNCHANGED ready_to_send_data_ /\ \A p \in Peer, s \in Sid : ReadyComing(p, s)
    BY <1>2, OnlyConnect
  <2>0. ASSUME \A p \in Peer : KeepsReady(p),
               \A p \in Peer, s \in Sid : channels'[p][s] = None \/ channels'[p][s] = channels[p][s]
        PROVE  \A p \in Peer, s \in Sid : ReadyComing(p, s)'
    BY <2>same, <2>0, SameReady
  <2>1. ASSUME UNCHANGED sig PROVE \A p \in Peer : KeepsReady(p)
    BY <2>1, PostedUnchanged DEF KeepsReady
  <2>2. ASSUME NEW p \in Peer, NEW t \in Sid, CloseChannel(p, t)
        PROVE  \A x \in Peer, s \in Sid : channels'[x][s] = None \/ channels'[x][s] = channels[x][s]
    BY <2>2, CloseSets
  <2>3. ASSUME NEW p \in Peer, CreateDataChannel(p)
        PROVE  \A x \in Peer, s \in Sid : ReadyComing(x, s)'
    <3>1. PICK t \in Sid : CreatedOutcome(p, t)
      BY <2>3, CreatedSets
    <3>2. /\ CreateOutcome(p, t, created + 1, TRUE) /\ created + 1 \in Ch
          /\ \A x \in Peer : KeepsReady(x)
          /\ SctpReady(p) => [k |-> "ready", chs |-> {created + 1}] \in Waiting(p)'
      BY <3>1 DEF CreatedOutcome, KeepsReady
    <3> QED
      BY <2>same, <3>2, CreateReady
  <2>4. ASSUME NEW p \in Peer, NEW t \in Sid, Close(p, t)
        PROVE  \A x \in Peer, s \in Sid : ReadyComing(x, s)'
    BY <2>0, <2>1, <2>2, <2>4 DEF Close
  <2>5. ASSUME NEW p \in Peer, NEW t \in Sid, Send(p, t)
        PROVE  \A x \in Peer, s \in Sid : ReadyComing(x, s)'
    BY <2>0, <2>1, <2>2, <2>5 DEF Send, alloc
  <2>6. ASSUME NEW p \in Peer, OnChannelReady(p)
        PROVE  \A x \in Peer, s \in Sid : ReadyComing(x, s)'
    <3> DEFINE h == Head(sig[p])
    <3>1. ReadyOutcome(p)
      BY <2>6, ReadySets
    <3>2. \A s \in Sid : channels[p][s].ch \in h.chs /\ channels[p][s].state = "kConnecting"
                            => s \in Told(p)
      BY DEF Told
    <3> HIDE DEF h
    <3>3. /\ Waiting(p) = {h} \cup Waiting(p)' /\ Waiting(Other(p))' = Waiting(Other(p))
      BY <3>1 DEF ReadyOutcome, h
    <3>4. ASSUME NEW s \in Sid PROVE ReadyComing(Other(p), s)'
      <4>1. KeepsReady(Other(p)) /\ channels'[Other(p)][s] = channels[Other(p)][s]
        BY <3>1, <3>3, Peers DEF KeepsReady, ReadyOutcome
      <4> QED
        BY <2>same, <4>1, SameReady, Peers
    <3>5. ASSUME NEW s \in Sid PROVE ReadyComing(p, s)'
      <4>1. CASE s \in Told(p)
        BY <3>1, <4>1 DEF ReadyOutcome, ReadyComing
      <4>2. CASE s \notin Told(p)
        <5>1. channels'[p][s] = channels[p][s]
          BY <3>1, <4>2 DEF ReadyOutcome
        <5>2. SUFFICES ASSUME ready_to_send_data_[p],
                              channels[p][s] # None, channels[p][s].state = "kConnecting"
                       PROVE  \E m \in Waiting(p)' : m.k = "ready" /\ channels[p][s].ch \in m.chs
          BY <2>same, <5>1 DEF ReadyComing
        <5>3. PICK m \in Waiting(p) : m.k = "ready" /\ channels[p][s].ch \in m.chs
          BY <2>same, <5>2 DEF ReadyComing
        <5>4. m # h
          BY <3>2, <4>2, <5>2, <5>3
        <5> QED
          BY <3>3, <5>3, <5>4
      <4> QED
        BY <4>1, <4>2
    <3> QED
      BY <3>4, <3>5, Peers
  <2>7. ASSUME NEW p \in Peer, OnDataChannelOpenMessage(p)
        PROVE  \A x \in Peer, s \in Sid : ReadyComing(x, s)'
    <3> DEFINE h == Head(sig[p])
    <3>1. OpenedOutcome(p, h)
      BY <2>7, OpenedSets
    <3> HIDE DEF h
    <3>2. KeepsReady(p) /\ KeepsReady(Other(p)) /\ h.sid \in Sid /\ h.ch \in Ch
      BY <3>1 DEF OpenedOutcome, KeepsReady
    <3>3. \A x \in Peer : KeepsReady(x)
      BY <3>2, Peers
    <3>4. CASE UNCHANGED <<used_sids_, channels, open_streams_>>
      BY <2>0, <3>3, <3>4
    <3>5. CASE /\ CreateOutcome(p, h.sid, h.ch, FALSE)
               /\ SctpReady(p) => [k |-> "ready", chs |-> {h.ch}] \in Waiting(p)'
      BY <2>same, <3>2, <3>3, <3>5, CreateReady
    <3> QED
      BY <3>1, <3>4, <3>5 DEF OpenedOutcome
  <2>8. ASSUME NEW p \in Peer, NEW h, HandledOutcome(p, h), h.k # "ready"
        PROVE  \A x \in Peer : KeepsReady(x)
    <3>1. KeepsReady(p) /\ KeepsReady(Other(p))
      BY <2>8 DEF HandledOutcome, KeepsReady
    <3> QED
      BY <3>1, Peers
  <2>9. ASSUME NEW p \in Peer, OnDataReceived(p)
        PROVE  \A x \in Peer, s \in Sid : ReadyComing(x, s)'
    <3>1. HandledOutcome(p, Head(sig[p])) /\ Head(sig[p]).k # "ready" /\ UNCHANGED channels
      BY <2>9, ReceivedSets DEF OnDataReceived, alloc
    <3> QED
      BY <2>0, <2>8, <3>1
  <2>10. ASSUME NEW p \in Peer, OnStreamClosedRemotely(p)
         PROVE  \A x \in Peer, s \in Sid : ReadyComing(x, s)'
    <3> DEFINE h == Head(sig[p])
    <3>1. ClosedOutcome(p, h)
      BY <2>10, ClosedSets
    <3> HIDE DEF h
    <3>2. \A x \in Peer : KeepsReady(x)
      BY <2>8, <3>1 DEF ClosedOutcome
    <3>3. \A x \in Peer, s \in Sid : channels'[x][s] = None \/ channels'[x][s] = channels[x][s]
      BY <2>2, <3>1 DEF ClosedOutcome, alloc
    <3> QED
      BY <2>0, <3>2, <3>3
  <2>11. ASSUME NEW p \in Peer, OnDataFromSctpToChannel(p)
         PROVE  \A x \in Peer, s \in Sid : ReadyComing(x, s)'
    <3>1. MovedOutcome(p, Head(wire[p])) /\ UNCHANGED channels
      BY <2>11, MovedSets DEF OnDataFromSctpToChannel, alloc
    <3>2. \A x \in Peer : KeepsReady(x)
      BY <3>1 DEF MovedOutcome, KeepsReady
    <3> QED
      BY <2>0, <3>1, <3>2
  <2>12. ASSUME NEW p \in Peer, HandshakeStep(p)
         PROVE  \A x \in Peer, s \in Sid : ReadyComing(x, s)'
    <3>1. UNCHANGED channels
      BY <2>12, HandshakeMessages
    <3>2. ASSUME NEW sids, NEW w, IncomingOutcome(p, sids, w) PROVE \A x \in Peer : KeepsReady(x)
      <4>1. KeepsReady(p) /\ KeepsReady(Other(p))
        BY <3>2 DEF IncomingOutcome, KeepsReady
      <4> QED
        BY <4>1, Peers
    <3>3. CASE OnRequest(p)
      BY <2>0, <3>1, <3>2, <3>3, RequestSets DEF RequestOutcome
    <3>4. CASE OnAgreed(p)
      BY <2>0, <3>1, <3>2, <3>4, AgreedSets DEF AgreedOutcome
    <3>5. CASE OnDone(p) \/ OnFailed(p)
      BY <2>0, <2>1, <3>1, <3>5 DEF OnDone, OnFailed
    <3> QED
      BY <2>12, <3>3, <3>4, <3>5 DEF HandshakeStep
  <2>13. CASE UNCHANGED vars
    BY <2>0, <2>1, <2>13 DEF vars, alloc
  <2>14. ASSUME NEW p \in Peer, CommUp(p)
         PROVE  \A x \in Peer, s \in Sid : ReadyComing(x, s)'
    BY <2>0, <2>1, <2>14 DEF CommUp, alloc
  <2> QED
    BY <1>2, <2>3, <2>4, <2>5, <2>6, <2>7, <2>9, <2>10, <2>11, <2>12, <2>13, <2>14
       DEF Next, Application, Signaling, OnPacketRead, HandshakeStep
<1> QED
  BY <1>1, <1>2

\* No sid was taken early, and no reset was handled before the OPEN of its stream.
Orderly == mishaps \cap {"early", "overtaken"} = {}

\* The inductive invariant behind SidesAgree.  An association is up at a side only when
\* its transport is ready.
SidesIInv ==
  /\ UseIInv /\ ("early" \notin mishaps => OneUse)
  /\ Orderly => \A s \in Sid : Half(s)
  /\ \A p \in Peer : up[p] => ready_to_send_data_[p]
  /\ \A p \in Peer, s \in Sid : ReadyComing(p, s)

\* Every step keeps the invariant.
LEMMA StepSides ==
  ASSUME SidesIInv, [Next]_vars
  PROVE  SidesIInv'
<1>1. UseIInv' /\ ("early" \notin mishaps' => OneUse')
  BY StepInUse, StepOneUse, MishapsGrow DEF SidesIInv
<1>2. TypeOK /\ Handshake
  BY DEF SidesIInv, UseIInv
<1>3. ASSUME NEW p \in Peer, up'[p] PROVE ready_to_send_data_'[p]
  <2>1. ready_to_send_data_[p]
    BY <1>2, <1>3, OnlyCommUp DEF CommUp, SidesIInv
  <2> QED
    BY <1>2, <2>1, OnlyConnect DEF Connect, TypeOK
<1>4. \A p \in Peer, s \in Sid : ReadyComing(p, s)'
  BY <1>2, StepReady DEF SidesIInv
<1>5. ASSUME Orderly', NEW s \in Sid PROVE Half(s)'
  <2>1. Orderly /\ "early" \notin mishaps' /\ "early" \notin mishaps /\ "overtaken" \notin mishaps'
    BY <1>5, MishapsGrow DEF Orderly
  <2>2. /\ TypeOK /\ Handshake /\ Parity /\ WireOrder /\ SigOrder
        /\ \A t \in Sid : UseInv(t) /\ Fresh(t)
        /\ Half(s)
    BY <2>1 DEF SidesIInv, UseIInv, InUse, UseInv
  <2>3. SidStep(s)
    BY <2>1, <2>2, StepSid
  <2> QED
    BY <2>1, <2>2, <2>3, StepHalf
<1> QED
  BY <1>1, <1>3, <1>4, <1>5 DEF SidesIInv

\* It is true at first.
LEMMA InitSides ==
  ASSUME Init
  PROVE  SidesIInv
<1>1. UseIInv /\ OneUse
  BY InitInUse, InitOneUse
<1>2. \A p \in Peer : ~up[p] /\ ~ready_to_send_data_[p]
  BY DEF Init
<1>3. ASSUME NEW s \in Sid PROVE Half(s)
  <2>1. OnWire(Guest(s)) = {} /\ Posted(Guest(s)) = {}
    BY InitEmpty, Sides
  <2>2. ~HasChannel(Owner(s), s) /\ ~HasChannel(Guest(s), s)
    BY Sides DEF Init, HasChannel
  <2>3. ~OpenOnWire(s) /\ ~OpenPosted(s)
    BY <2>1 DEF OpenOnWire, OpenPosted, Opens
  <2> QED
    BY <2>2, <2>3 DEF Half
<1> QED
  BY <1>1, <1>2, <1>3 DEF SidesIInv, ReadyComing

\* When nothing is on its way the two sides have the same channel, or one of them has
\* queued the reset.
LEMMA QuietSides ==
  ASSUME SidesIInv, Orderly, \A p \in Peer : up[p], Quiet, NEW s \in Sid
  PROVE  \/ channels[Owner(s)][s].ch = channels[Guest(s)][s].ch
         \/ \E p \in Peer : s \in queued_reset_streams_[p]
<1> DEFINE o == Owner(s)
           g == Guest(s)
<1>1. /\ o \in Peer /\ g \in Peer /\ Other(o) = g /\ Other(g) = o
  BY Sides
<1>2. /\ OnWire(o) = {} /\ Posted(o) = {} /\ Waiting(o) = {}
      /\ OnWire(g) = {} /\ Posted(g) = {} /\ Waiting(g) = {}
  BY <1>1 DEF Quiet, OnWire, Posted, Waiting, Items
<1>3. /\ ~OpenOnWire(s) /\ ~OpenPosted(s) /\ ~ClosePosted(o, s) /\ ~ClosePosted(g, s)
      /\ ~Requested(o, s) /\ ~Requested(g, s)
  BY <1>1, <1>2 DEF OpenOnWire, OpenPosted, ClosePosted, Requested, Opens, Closes, AsksFor
<1>4. ~Connecting(s)
  BY <1>1, <1>2 DEF SidesIInv, ReadyComing, Connecting, HasChannel
<1>5. Half(s)
  BY DEF SidesIInv
<1>6. \/ HasChannel(o, s) <=> HasChannel(g, s)
      \/ s \in queued_reset_streams_[o] \/ s \in queued_reset_streams_[g]
  BY <1>3, <1>4, <1>5 DEF Half, CloseComing
<1>7. PICK c \in 0..MaxChannels : UsedBy(s, c)
  BY DEF SidesIInv, Orderly, OneUse
<1> QED
  BY <1>1, <1>6, <1>7 DEF UsedBy, HasChannel

\* When the association is up at both sides and nothing is on its way, a sid has a channel
\* on one side if and only if it has one on the other, and it is the same channel: whoever
\* closes it, OnStreamResetEvent makes the other side close as well.  The exception is a
\* stream whose reset is still queued, refused before the association was up.  This is so
\* as long as no sid was taken while its last use was not over and no reset was handled
\* before the OPEN of its stream.
THEOREM SidesAgreeHolds == Spec => []SidesAgree
<1>1. ASSUME SidesIInv PROVE SidesAgree
  <2>1. SUFFICES ASSUME Orderly, \A p \in Peer : up[p], Quiet, NEW s \in Sid
                 PROVE  AgreeOn(s)
    BY DEF SidesAgree, Orderly
  <2>2. \/ channels[Owner(s)][s].ch = channels[Guest(s)][s].ch
        \/ \E p \in Peer : s \in queued_reset_streams_[p]
    BY <1>1, <2>1, QuietSides
  <2> QED
    BY <2>2 DEF AgreeOn, Owner, Guest, Other
<1>2. Init => SidesIInv
  BY InitSides
<1>3. SidesIInv /\ [Next]_vars => SidesIInv'
  BY StepSides
<1> QED
  BY <1>1, <1>2, <1>3, PTL DEF Spec
=============================================================================
