------------------------- MODULE DataChannelProofs -------------------------
(***************************************************************************)
(* Theorems about DataChannel, for every value of its constants.           *)
(***************************************************************************)
EXTENDS DataChannel, SequenceTheorems, WellFoundedInduction, TLAPS

\* The queues, the histories and the control state; BytesInv, FlagInv and CountInv
\* below are the rest of TypeOK.
TypeInv ==
  /\ pc \in {"new", "idle", "control", "data", "update"}
  /\ role \in {"kOpener", "kAcker", "kNone"}
  /\ state_ \in {"kConnecting", "kOpen", "kClosing", "kClosed"}
  /\ handshake_state_ \in {"init", "shouldSendOpen", "shouldSendAck", "waitingForAck",
                           "ready"}
  /\ queued_control_data_ \in Seq(Control) /\ control_packets \in Seq(Control)
  /\ queued_send_data_ \in Seq(Msg)
  /\ queued_received_data_ \in Seq(RemoteMsg)
  /\ events \in Seq(Event)
  /\ submitted \in Seq(Msg) /\ accepted \in Seq(Msg)
  /\ arrived \in Seq(RemoteMsg) /\ delivered \in Seq(RemoteMsg)

\* A channel that does not exist yet.
NewInv ==
  pc = "new" =>
    /\ state_ = "kConnecting" /\ ~connected_to_provider_ /\ role = "kNone"
    /\ queued_control_data_ = <<>> /\ control_packets = <<>>
    /\ queued_send_data_ = <<>> /\ accepted = <<>>

\* What is queued is queued on a channel that uses the transport.
ConnInv ==
  state_ # "kClosed" =>
    /\ state_ = "kOpen" => connected_to_provider_
    /\ queued_send_data_ # <<>> => connected_to_provider_ /\ state_ # "kConnecting"
    /\ queued_control_data_ # <<>> => connected_to_provider_
    /\ control_packets # <<>> => connected_to_provider_

\* The handshake of an opener, whose control messages are all OPENs; data is sent
\* once it has got as far as waiting for the answer.
HandInv ==
  /\ role = "kOpener" =>
       /\ handshake_state_ \in {"shouldSendOpen", "waitingForAck", "ready"}
       /\ handshake_state_ # "shouldSendOpen" => opened
       /\ handshake_state_ = "ready" => heard
       /\ accepted # <<>> => opened
       /\ queued_control_data_ \in Seq({"OPEN"}) /\ control_packets \in Seq({"OPEN"})
  /\ "data" \notin early
  /\ state_ = "kOpen" => handshake_state_ \in {"waitingForAck", "ready"}
  /\ queued_send_data_ # <<>> => handshake_state_ \in {"waitingForAck", "ready"}

\* A transport that can send has been connected, so that sids are assigned.
UpInv ==
  /\ sctp_ready_to_send_data_ => up
  /\ Pending("ready") \/ Pending("channelready") => up
  /\ pc \in {"control", "data", "update"} => up /\ writable_
  /\ up /\ pc # "new" => id

\* A channel that was negotiated by other means has no control messages.
NoneInv ==
  /\ role = "kNone" => /\ handshake_state_ \in {"init", "ready"}
                       /\ queued_control_data_ = <<>> /\ control_packets = <<>>
  /\ handshake_state_ = "init" => pc = "new"

\* What waits for the transport has it blocked, or its signal under way.
StallInv ==
  ~failed /\ state_ # "kClosed"
    /\ (queued_control_data_ # <<>>
          \/ (queued_send_data_ # <<>> /\ pc \in {"idle", "update"}))
  => ~ready_to_send_data_ \/ Pending("ready")

-----------------------------------------------------------------------------
(* Sequences. *)

\* Send puts a message behind what is queued, OnDataReceived too.
LEMMA AppendBehind ==
  ASSUME NEW S, NEW a \in Seq(S), NEW q \in Seq(S), NEW s \in Seq(S), s = a \o q,
         NEW m \in S
  PROVE  Append(s, m) = a \o Append(q, m)
<1>1. <<m>> \in Seq(S)
  OBVIOUS
<1>2. Append(s, m) = s \o <<m>>
  BY AppendIsConcat
<1>3. Append(q, m) = q \o <<m>>
  BY AppendIsConcat
<1> QED
  BY <1>1, <1>2, <1>3, ConcatAssociative

\* SendQueuedDataMessages moves the head of the queue behind what was sent.
LEMMA HeadMoves ==
  ASSUME NEW S, NEW a \in Seq(S), NEW q \in Seq(S), q # <<>>
  PROVE  Append(a, Head(q)) \o Tail(q) = a \o q
<1>1. /\ Head(q) \in S /\ Tail(q) \in Seq(S) /\ <<Head(q)>> \in Seq(S)
  BY HeadTailProperties
<1>2. Append(a, Head(q)) = a \o <<Head(q)>>
  BY <1>1, AppendIsConcat
<1>3. <<Head(q)>> \o Tail(q) = q
  BY HeadTailAppend, HeadTailProperties, <1>1
<1> QED
  BY <1>1, <1>2, <1>3, ConcatAssociative

\* What waits after a closure was taken waited before.
LEMMA PendingTail ==
  ASSUME events \in Seq(Event), events # <<>>, events' = Tail(events), NEW e,
         Pending(e)'
  PROVE  Pending(e)
<1>1. /\ Len(Tail(events)) = Len(events) - 1 /\ Len(events) \in Nat
      /\ \A i \in 1..Len(Tail(events)) : Tail(events)[i] = events[i + 1]
  BY HeadTailProperties, LenProperties
<1>2. PICK i \in 1..Len(Tail(events)) : Tail(events)[i] = e
  BY DEF Pending
<1>3. /\ i + 1 \in 1..Len(events) /\ events[i + 1] = e
  BY <1>1, <1>2
<1> QED
  BY <1>3 DEF Pending

\* What does not come first still waits.
LEMMA PendingStays ==
  ASSUME events \in Seq(Event), events # <<>>, events' = Tail(events), NEW e,
         Pending(e), Head(events) # e
  PROVE  Pending(e)'
<1>1. /\ Len(Tail(events)) = Len(events) - 1 /\ Len(events) \in Nat
      /\ \A i \in 1..Len(Tail(events)) : Tail(events)[i] = events[i + 1]
      /\ Head(events) = events[1]
  BY HeadTailProperties, LenProperties
<1>2. PICK i \in 1..Len(events) : events[i] = e
  BY DEF Pending
<1>3. i # 1
  BY <1>1, <1>2
<1>4. /\ i - 1 \in 1..Len(Tail(events)) /\ Tail(events)[i - 1] = e
  BY <1>1, <1>2, <1>3
<1> QED
  BY <1>4 DEF Pending

\* A post adds its closure and no other.
LEMMA PendingPost ==
  ASSUME events \in Seq(Event), NEW p \in Event, events' = Append(events, p), NEW e
  PROVE  Pending(e)' <=> Pending(e) \/ e = p
<1>1. /\ Len(events') = Len(events) + 1 /\ Len(events) \in Nat
      /\ \A i \in 1..Len(events) : events'[i] = events[i]
      /\ events'[Len(events) + 1] = p
  BY AppendProperties
<1>2. ASSUME Pending(e)' PROVE Pending(e) \/ e = p
  <2>1. PICK i \in 1..Len(events') : events'[i] = e
    BY <1>2 DEF Pending
  <2>2. i \in 1..Len(events) \/ i = Len(events) + 1
    BY <1>1, <2>1
  <2> QED
    BY <1>1, <2>1, <2>2 DEF Pending
<1>3. ASSUME Pending(e) PROVE Pending(e)'
  <2>1. PICK i \in 1..Len(events) : events[i] = e
    BY <1>3 DEF Pending
  <2>2. i \in 1..Len(events') /\ events'[i] = e
    BY <1>1, <2>1
  <2> QED
    BY <2>2 DEF Pending
<1>4. ASSUME e = p PROVE Pending(e)'
  <2>1. Len(events) + 1 \in 1..Len(events')
    BY <1>1
  <2> QED
    BY <1>1, <1>4, <2>1 DEF Pending
<1> QED
  BY <1>2, <1>3, <1>4

\* While nothing is posted or taken, the same closures wait.
LEMMA PendingSame ==
  ASSUME UNCHANGED events, NEW e
  PROVE  Pending(e)' <=> Pending(e)
BY DEF Pending

-----------------------------------------------------------------------------
(* Types. *)

LEMMA TakeType ==
  ASSUME events \in Seq(Event), NEW e, TakeEvent(e)
  PROVE  pc \in {"new", "idle"} /\ events' \in Seq(Event)
BY HeadTailProperties DEF TakeEvent

LEMMA CloseType ==
  ASSUME NEW s, NEW c, CloseWith(s, c), TypeInv
  PROVE  state_' \in {"kConnecting", "kOpen", "kClosing", "kClosed"}
BY DEF CloseWith, TypeInv, channel

LEMMA ControlType ==
  ASSUME NEW r, NEW m \in Control, SendControlMessage(r, m), TypeInv
  PROVE  /\ state_' \in {"kConnecting", "kOpen", "kClosing", "kClosed"}
         /\ handshake_state_' \in {"init", "shouldSendOpen", "shouldSendAck",
                                   "waitingForAck", "ready"}
         /\ queued_control_data_' \in Seq(Control)
<1>1. queued_control_data_' \in Seq(Control)
  <2>1. Append(queued_control_data_, m) \in Seq(Control)
    BY DEF TypeInv
  <2> QED
    BY <2>1 DEF SendControlMessage, TypeInv
<1>2. handshake_state_' \in {"init", "shouldSendOpen", "shouldSendAck",
                             "waitingForAck", "ready"}
  BY DEF SendControlMessage, TypeInv
<1>3. state_' \in {"kConnecting", "kOpen", "kClosing", "kClosed"}
  BY CloseType DEF SendControlMessage, TypeInv, channel
<1> QED
  BY <1>1, <1>2, <1>3

LEMMA QueueType ==
  ASSUME NEW m \in Msg, QueueOrClose(m), TypeInv
  PROVE  /\ state_' \in {"kConnecting", "kOpen", "kClosing", "kClosed"}
         /\ queued_send_data_' \in Seq(Msg) /\ submitted' \in Seq(Msg)
         /\ accepted' \in Seq(Msg)
<1>1. CASE BufferFull
  BY <1>1, CloseType DEF QueueOrClose, TypeInv, sending
<1>2. CASE ~BufferFull
  <2>1. Append(queued_send_data_, m) \in Seq(Msg) /\ Append(submitted, m) \in Seq(Msg)
    BY DEF TypeInv
  <2> QED
    BY <1>2, <2>1 DEF QueueOrClose, TypeInv, channel
<1> QED
  BY <1>1, <1>2

LEMMA TypeStep ==
  ASSUME TypeInv, [Next]_vars
  PROVE  TypeInv'
<1> USE DEF TypeInv, config, channel, sending, receiving, control, session, network
<1>1. CASE \E r \in {"kOpener", "kAcker", "kNone"}, o, i \in BOOLEAN : Create(r, o, i)
  <2>1. events' \in Seq(Event)
    BY <1>1, AppendProperties DEF Create, Event
  <2> QED
    BY <1>1, <2>1 DEF Create
<1>2. CASE SetSctpSid
  BY <1>2 DEF SetSctpSid
<1>3. CASE OnTransportChannelCreated
  BY <1>3 DEF OnTransportChannelCreated
<1>4. CASE OnTransportChannelDestroyed
  <2>1. <<>> \in Seq(Event) /\ <<"channelready">> \in Seq(Event)
    BY DEF Event
  <2>2. events' \in Seq(Event)
    BY <1>4, <2>1 DEF OnTransportChannelDestroyed
  <2> QED
    BY <1>4, <2>2 DEF OnTransportChannelDestroyed
<1>5. CASE RegisterObserver
  BY <1>5 DEF RegisterObserver, DeliverQueuedReceivedData
<1>6. CASE UnregisterObserver
  BY <1>6 DEF UnregisterObserver
<1>7. CASE Close
  BY <1>7 DEF Close, CloseWith
<1>8. CASE \E m \in Msg : Send(m)
  <2> PICK m \in Msg : Send(m)
    BY <1>8
  <2>1. CASE QueueOrClose(m)
    BY <2>1, QueueType DEF Send
  <2>2. CASE /\ submitted' = Append(submitted, m) /\ accepted' = Append(accepted, m)
             /\ UNCHANGED <<channel, queued_send_data_, send_bytes>>
    BY <2>2, AppendProperties DEF Send
  <2>3. CASE CloseWith(queued_send_data_, queued_control_data_) /\ UNCHANGED sending
    BY <2>3, CloseType DEF Send
  <2> QED
    BY <2>1, <2>2, <2>3 DEF Send
<1>9. CASE OnReadySignal
  <2>1. events' \in Seq(Event)
    BY <1>9, TakeType DEF OnReadySignal
  <2>2. /\ control_packets' \in Seq(Control) /\ queued_control_data_' \in Seq(Control)
        /\ pc' \in {"new", "idle", "control"}
    BY <1>9, EmptySeq DEF OnReadySignal, ReadyBegin, TakeEvent
  <2> QED
    BY <1>9, <2>1, <2>2 DEF OnReadySignal
<1>10. CASE OnMessage
  <2>1. events' \in Seq(Event)
    BY <1>10, TakeType DEF OnMessage
  <2>2. /\ control_packets' \in Seq(Control) /\ queued_control_data_' \in Seq(Control)
        /\ pc' \in {"idle", "control"}
    BY <1>10, EmptySeq DEF OnMessage, ReadyBegin, TakeEvent
  <2> QED
    BY <1>10, <2>1, <2>2 DEF OnMessage
<1>11. CASE OnAckReceived
  <2>1. events' \in Seq(Event)
    BY <1>11, TakeType DEF OnAckReceived
  <2> QED
    BY <1>11, <2>1 DEF OnAckReceived
<1>12. CASE \E m \in RemoteMsg : OnDataReceived(m)
  <2> PICK m \in RemoteMsg : OnDataReceived(m)
    BY <1>12
  <2>1. events' \in Seq(Event)
    BY TakeType DEF OnDataReceived
  <2>2. state_' \in {"kConnecting", "kOpen", "kClosing", "kClosed"}
    BY CloseType DEF OnDataReceived
  <2>3. handshake_state_' \in {"init", "shouldSendOpen", "shouldSendAck",
                               "waitingForAck", "ready"}
    BY DEF OnDataReceived
  <2>4. /\ queued_received_data_' \in Seq(RemoteMsg)
        /\ arrived' \in Seq(RemoteMsg) /\ delivered' \in Seq(RemoteMsg)
    <3>1. /\ Append(arrived, m) \in Seq(RemoteMsg)
          /\ Append(delivered, m) \in Seq(RemoteMsg)
          /\ Append(queued_received_data_, m) \in Seq(RemoteMsg)
          /\ <<>> \in Seq(RemoteMsg)
      OBVIOUS
    <3> QED
      BY <3>1 DEF OnDataReceived
  <2> QED
    BY <2>1, <2>2, <2>3, <2>4 DEF OnDataReceived
<1>13. CASE OnStreamClosedRemotely
  <2>1. events' \in Seq(Event)
    BY <1>13, TakeType DEF OnStreamClosedRemotely
  <2>2. state_' \in {"kConnecting", "kOpen", "kClosing", "kClosed"}
    BY <1>13, CloseType DEF OnStreamClosedRemotely
  <2> QED
    BY <1>13, <2>1, <2>2 DEF OnStreamClosedRemotely
<1>14. CASE SendQueuedControlMessages
  <2>1. CASE control_packets = <<>>
    BY <1>14, <2>1 DEF SendQueuedControlMessages
  <2>2. CASE control_packets # <<>>
    <3>1. /\ Head(control_packets) \in Control /\ Tail(control_packets) \in Seq(Control)
      BY <2>2, HeadTailProperties
    <3>2. PICK r : SendControlMessage(r, Head(control_packets))
      BY <1>14, <2>2 DEF SendQueuedControlMessages
    <3> QED
      BY <1>14, <2>2, <3>1, <3>2, ControlType DEF SendQueuedControlMessages
  <2> QED
    BY <2>1, <2>2
<1>15. CASE SendQueuedDataMessages
  <2>1. pc' \in {"data", "update"}
    BY <1>15 DEF SendQueuedDataMessages
  <2>2. state_' \in {"kConnecting", "kOpen", "kClosing", "kClosed"}
    BY <1>15, CloseType DEF SendQueuedDataMessages
  <2>3. /\ queued_send_data_' \in Seq(Msg) /\ accepted' \in Seq(Msg)
        /\ submitted' = submitted
    <3>1. CASE queued_send_data_ = <<>>
      BY <1>15, <3>1 DEF SendQueuedDataMessages
    <3>2. CASE queued_send_data_ # <<>>
      <4>1. /\ Tail(queued_send_data_) \in Seq(Msg)
            /\ Append(accepted, Head(queued_send_data_)) \in Seq(Msg)
        BY <3>2
      <4> QED
        BY <1>15, <3>2, <4>1 DEF SendQueuedDataMessages
    <3> QED
      BY <3>1, <3>2
  <2> QED
    BY <1>15, <2>1, <2>2, <2>3 DEF SendQueuedDataMessages
<1>16. CASE SendHandshake
  <2>1. PICK r : \E m \in Control : SendControlMessage(r, m)
    BY <1>16 DEF SendHandshake, Control
  <2>2. pc' \in {"update", "idle"}
    BY <1>16 DEF SendHandshake
  <2>3. /\ state_' \in {"kConnecting", "kOpen", "kClosing", "kClosed"}
        /\ handshake_state_' \in {"init", "shouldSendOpen", "shouldSendAck",
                                  "waitingForAck", "ready"}
        /\ queued_control_data_' \in Seq(Control)
    BY <2>1, ControlType
  <2> QED
    BY <1>16, <2>1, <2>2, <2>3 DEF SendHandshake
<1>17. CASE UpdateState
  <2>1. state_' \in {"kConnecting", "kOpen", "kClosing", "kClosed"}
    BY <1>17, CloseType DEF UpdateState
  <2>2. /\ queued_received_data_' \in Seq(RemoteMsg)
        /\ arrived' \in Seq(RemoteMsg) /\ delivered' \in Seq(RemoteMsg)
    <3>1. DeliverQueuedReceivedData \/ UNCHANGED receiving
      BY <1>17, Zenon DEF UpdateState
    <3>2. delivered \o queued_received_data_ \in Seq(RemoteMsg) /\ <<>> \in Seq(RemoteMsg)
      BY ConcatProperties, EmptySeq
    <3> QED
      BY <3>1, <3>2 DEF DeliverQueuedReceivedData
  <2> QED
    BY <1>17, <2>1, <2>2 DEF UpdateState
<1>18. CASE SetReadyToSendData
  <2>1. events' \in Seq(Event)
    BY <1>18, AppendProperties DEF SetReadyToSendData, Posts, Event
  <2> QED
    BY <1>18, <2>1 DEF SetReadyToSendData
<1>19. CASE OtherBlocks
  BY <1>19 DEF OtherBlocks
<1>20. CASE PeerAcks
  <2>1. events' \in Seq(Event)
    BY <1>20, AppendProperties DEF PeerAcks, Posts, Event
  <2> QED
    BY <1>20, <2>1 DEF PeerAcks
<1>21. CASE OnStreamResetEvent
  <2>1. events' \in Seq(Event)
    BY <1>21, AppendProperties DEF OnStreamResetEvent, Posts, Event
  <2> QED
    BY <1>21, <2>1 DEF OnStreamResetEvent
<1>22. CASE \E m \in RemoteMsg : PeerSends(m)
  <2>1. events' \in Seq(Event)
    BY <1>22, AppendProperties DEF PeerSends, Posts, Event
  <2> QED
    BY <1>22, <2>1 DEF PeerSends
<1>23. CASE UNCHANGED vars
  BY <1>23 DEF vars
<1> QED
  BY <1>1, <1>2, <1>3, <1>4, <1>5, <1>6, <1>7, <1>8, <1>9, <1>10, <1>11, <1>12,
     <1>13, <1>14, <1>15, <1>16, <1>17, <1>18, <1>19, <1>20, <1>21, <1>22, <1>23 DEF
     Next, Api, OnEvent, ReadyStep, Network

-----------------------------------------------------------------------------
(* The byte counts. *)

\* n is the sum of the sizes of the messages of q: some f has the partial sums.
Sums(q, f) ==
  /\ f \in [0..Len(q) -> Nat] /\ f[0] = 0
  /\ \A i \in 1..Len(q) : f[i] = f[i - 1] + size[q[i]]

Counts(q, n) == \E f : Sums(q, f) /\ n = f[Len(q)]

\* byte_count_ of the send queue is the sum of what is queued, of which only the
\* message added last goes beyond the limit.
BytesInv ==
  /\ Counts(queued_send_data_, send_bytes)
  /\ queued_send_data_ # <<>> => send_bytes < kMaxQueuedSendDataBytes
                                   + size[queued_send_data_[Len(queued_send_data_)]]
  /\ received_bytes \in 0..kMaxQueuedReceivedDataBytes

\* The rest of the types: the flags,
FlagInv ==
  {ordered, id, observer_, connected_to_provider_, writable_, sctp_transport_,
   sctp_ready_to_send_data_, ready_to_send_data_, stream, up, opened, heard, failed}
    \subseteq BOOLEAN

\* and what the model counts.
CountInv ==
  /\ blocks \in Nat
  /\ unsent \subseteq Msg \cup RemoteMsg \cup {"ack"}
  /\ early \subseteq {"control", "data"}

\* A set of natural numbers has a least element.
LEMMA LeastNat ==
  ASSUME NEW T, T \subseteq Nat, T # {}
  PROVE  \E m \in T : \A k \in T : m <= k
<1> DEFINE below == {ss \in Nat \X Nat : ss[1] < ss[2]}
<1>1. OpToRel(<, Nat) = below
  BY Zenon DEF OpToRel
<1>2. \E m \in T : \A k \in T : ~ (<<k, m>> \in OpToRel(<, Nat))
  BY WFMin, NatLessThanWellFounded, Zenon
<1>3. PICK m \in T : \A k \in T : ~(<<k, m>> \in below)
  BY <1>1, <1>2, Zenon
<1>4. \A k \in T : ~(k < m)
  BY <1>3
<1> QED
  BY <1>4

\* The sum of nothing is 0.
LEMMA CountsEmpty == Counts(<<>>, 0)
<1> DEFINE f == [i \in 0..0 |-> 0]
<1>1. Sums(<<>>, f)
  BY DEF Sums
<1> QED
  BY <1>1 DEF Counts

\* A sum is a number.
LEMMA CountsNat ==
  ASSUME NEW q \in Seq(Msg), NEW n, Counts(q, n)
  PROVE  n \in Nat
BY DEF Counts, Sums

\* QueueSendDataMessage adds the size of the message.
LEMMA CountsAppend ==
  ASSUME NEW q \in Seq(Msg), NEW n, Counts(q, n), NEW m \in Msg
  PROVE  Counts(Append(q, m), n + size[m])
<1>1. PICK f : Sums(q, f) /\ n = f[Len(q)]
  BY DEF Counts
<1>2. size[m] \in Nat
  BY ChannelAssumption
<1> DEFINE g == [i \in 0..(Len(q) + 1) |-> IF i <= Len(q) THEN f[i] ELSE f[Len(q)] + size[m]]
           r == Append(q, m)
<1>3. /\ Len(r) = Len(q) + 1 /\ r[Len(q) + 1] = m
      /\ \A i \in 1..Len(q) : r[i] = q[i]
  BY AppendProperties
<1>4. /\ g \in [0..(Len(q) + 1) -> Nat] /\ g[0] = 0
      /\ \A i \in 0..Len(q) : g[i] = f[i]
      /\ g[Len(q) + 1] = f[Len(q)] + size[m]
  BY <1>1, <1>2 DEF Sums
<1> HIDE DEF g, r
<1>5. \A i \in 1..Len(r) : g[i] = g[i - 1] + size[r[i]]
  <2> SUFFICES ASSUME NEW i \in 1..Len(r) PROVE g[i] = g[i - 1] + size[r[i]]
    OBVIOUS
  <2>1. CASE i \in 1..Len(q)
    <3>1. g[i] = f[i] /\ g[i - 1] = f[i - 1] /\ r[i] = q[i]
      BY <2>1, <1>3, <1>4
    <3> QED
      BY <2>1, <1>1, <3>1 DEF Sums
  <2>2. CASE i = Len(q) + 1
    BY <2>2, <1>1, <1>3, <1>4 DEF Sums
  <2> QED
    BY <1>3, <2>1, <2>2
<1>6. Sums(r, g) /\ n + size[m] = g[Len(r)]
  BY <1>1, <1>3, <1>4, <1>5 DEF Sums
<1> QED
  BY <1>6 DEF Counts, r

\* SendQueuedDataMessages takes the size of the first message off, which was counted.
LEMMA CountsTail ==
  ASSUME NEW q \in Seq(Msg), NEW n, Counts(q, n), q # <<>>
  PROVE  Counts(Tail(q), n - size[Head(q)])
<1>1. PICK f : Sums(q, f) /\ n = f[Len(q)]
  BY DEF Counts
<1> DEFINE r == Tail(q)
           h == size[Head(q)]
           g == [i \in 0..(Len(q) - 1) |-> f[i + 1] - h]
<1>2. Len(q) \in Nat /\ Len(q) > 0 /\ Head(q) = q[1]
  OBVIOUS
<1>3. Len(r) = Len(q) - 1 /\ \A i \in 1..(Len(q) - 1) : r[i] = q[i + 1]
  OBVIOUS
<1>4. \A i \in 1..Len(q) : q[i] \in Msg /\ size[q[i]] \in Nat
  BY ChannelAssumption
<1>5. h \in Nat /\ f[1] = h
  BY <1>1, <1>2, <1>4 DEF Sums
<1> HIDE DEF h, r
<1>6. \A i \in 1..Len(q) : f[i] \in Nat /\ f[i - 1] \in Nat /\ f[i] = f[i - 1] + size[q[i]]
  BY <1>1, <1>2 DEF Sums
<1>7. \A i \in 1..Len(q) : f[i] >= h
  <2> DEFINE low == {i \in 1..Len(q) : f[i] < h}
  <2>1. SUFFICES ASSUME low # {} PROVE FALSE
    BY <1>5, <1>6 DEF low
  <2>2. PICK i \in low : \A j \in low : i <= j
    <3>1. low \subseteq Nat
      OBVIOUS
    <3> HIDE DEF low
    <3> QED
      BY <2>1, <3>1, LeastNat
  <2>3. i # 1
    BY <1>5, <2>2
  <2>4. i - 1 \in 1..Len(q) /\ f[i - 1] <= f[i]
    <3>1. i \in 1..Len(q) /\ i - 1 \in 1..Len(q)
      BY <1>2, <2>2, <2>3
    <3>2. f[i] = f[i - 1] + size[q[i]] /\ f[i - 1] \in Nat /\ size[q[i]] \in Nat
      BY <1>4, <1>6, <3>1
    <3> QED
      BY <3>1, <3>2
  <2>5. i - 1 \in low
    BY <1>5, <1>6, <2>2, <2>4
  <2> QED
    BY <2>2, <2>5
<1>8. g \in [0..(Len(q) - 1) -> Nat] /\ g[0] = 0
  <2>1. \A i \in 0..(Len(q) - 1) : f[i + 1] - h \in Nat
    <3> TAKE i \in 0..(Len(q) - 1)
    <3>1. i + 1 \in 1..Len(q)
      BY <1>2
    <3> QED
      BY <1>5, <1>6, <1>7, <3>1
  <2>2. f[0 + 1] - h = 0 /\ 0 \in 0..(Len(q) - 1)
    BY <1>2, <1>5
  <2> QED
    BY <2>1, <2>2
<1>9. \A i \in 1..(Len(q) - 1) : g[i] = g[i - 1] + size[r[i]]
  <2> TAKE i \in 1..(Len(q) - 1)
  <2>1. g[i] = f[i + 1] - h /\ g[i - 1] = f[i] - h
    BY <1>2
  <2>2. f[i + 1] = f[i] + size[q[i + 1]] /\ f[i] \in Nat /\ size[q[i + 1]] \in Nat
    BY <1>2, <1>4, <1>6
  <2> QED
    BY <1>3, <1>5, <2>1, <2>2
<1>10. g[Len(q) - 1] = n - h
  BY <1>1, <1>2
<1> HIDE DEF g
<1>11. Sums(r, g) /\ n - h = g[Len(r)]
  BY <1>2, <1>3, <1>8, <1>9, <1>10 DEF Sums
<1> QED
  BY <1>11 DEF Counts, r, h

\* What is queued and what is counted, when a message is queued or refused.
LEMMA QueueBytes ==
  ASSUME TypeInv, BytesInv, NEW m \in Msg, QueueOrClose(m), UNCHANGED received_bytes
  PROVE  BytesInv'
<1>1. CASE BufferFull
  BY <1>1 DEF QueueOrClose, BytesInv, Counts, Sums, sending
<1>2. CASE ~BufferFull
  <2>1. /\ queued_send_data_' = Append(queued_send_data_, m)
        /\ send_bytes' = send_bytes + size[m]
    BY <1>2 DEF QueueOrClose
  <2>2. Counts(queued_send_data_', send_bytes')
    BY <2>1, CountsAppend DEF TypeInv, BytesInv
  <2>3. send_bytes \in Nat /\ size[m] \in Nat
    BY CountsNat, ChannelAssumption DEF TypeInv, BytesInv
  <2>4. queued_send_data_'[Len(queued_send_data_')] = m
    BY <2>1, AppendProperties DEF TypeInv
  <2>5. send_bytes' < kMaxQueuedSendDataBytes + size[m]
    BY <1>2, <2>1, <2>3, ChannelAssumption DEF BufferFull
  <2>6. Counts(queued_send_data_, send_bytes)'
    BY <2>2 DEF Counts, Sums
  <2> QED
    BY <2>4, <2>5, <2>6 DEF BytesInv
<1> QED
  BY <1>1, <1>2

\* One step and the byte counts.
LEMMA BytesStep ==
  ASSUME TypeInv, BytesInv, [Next]_vars
  PROVE  BytesInv'
<1> DEFINE Same == UNCHANGED <<queued_send_data_, send_bytes>>
<1>0. ASSUME Same, received_bytes' \in {0, received_bytes} PROVE BytesInv'
  <2>1. Counts(queued_send_data_, send_bytes)'
    BY <1>0 DEF BytesInv, Counts, Sums
  <2> QED
    BY <1>0, <2>1, ChannelAssumption DEF BytesInv
<1>1. CASE OnTransportChannelDestroyed
  <2>1. queued_send_data_' = <<>> /\ send_bytes' = 0 /\ UNCHANGED received_bytes
    BY <1>1 DEF OnTransportChannelDestroyed, receiving
  <2>2. Counts(queued_send_data_, send_bytes)'
    BY <2>1, CountsEmpty DEF Counts, Sums
  <2> QED
    BY <2>1, <2>2 DEF BytesInv
<1>2. CASE \E m \in Msg : Send(m)
  <2> PICK m \in Msg : Send(m)
    BY <1>2
  <2>1. UNCHANGED received_bytes
    BY DEF Send, receiving
  <2>2. QueueOrClose(m) \/ Same
    BY DEF Send, sending
  <2> QED
    BY <1>0, <2>1, <2>2, QueueBytes
<1>3. CASE \E m \in RemoteMsg : OnDataReceived(m)
  <2> PICK m \in RemoteMsg : OnDataReceived(m)
    BY <1>3
  <2>1. Same
    BY DEF OnDataReceived, sending
  <2>2. size[m] \in Nat
    BY ChannelAssumption
  <2>3. \/ received_bytes' \in {0, received_bytes}
        \/ /\ received_bytes + size[m] <= kMaxQueuedReceivedDataBytes
           /\ received_bytes' = received_bytes + size[m]
    BY DEF OnDataReceived, receiving
  <2>4. Counts(queued_send_data_, send_bytes)'
    BY <2>1 DEF BytesInv, Counts, Sums
  <2> QED
    BY <1>0, <2>1, <2>2, <2>3, <2>4, ChannelAssumption DEF BytesInv
<1>4. CASE SendQueuedDataMessages
  <2>1. UNCHANGED received_bytes
    BY <1>4 DEF SendQueuedDataMessages, receiving
  <2>2. \/ Same
        \/ /\ queued_send_data_ # <<>>
           /\ queued_send_data_' = Tail(queued_send_data_)
           /\ send_bytes' = send_bytes - size[Head(queued_send_data_)]
    BY <1>4 DEF SendQueuedDataMessages, sending
  <2>3. CASE /\ queued_send_data_ # <<>>
             /\ queued_send_data_' = Tail(queued_send_data_)
             /\ send_bytes' = send_bytes - size[Head(queued_send_data_)]
    <3>1. Counts(Tail(queued_send_data_), send_bytes - size[Head(queued_send_data_)])
      BY <2>3, CountsTail DEF TypeInv, BytesInv
    <3>2. Counts(queued_send_data_, send_bytes)'
      BY <2>3, <3>1 DEF Counts, Sums
    <3>3. send_bytes \in Nat /\ size[Head(queued_send_data_)] \in Nat
      BY <2>3, CountsNat, ChannelAssumption DEF TypeInv, BytesInv
    <3>4. queued_send_data_' # <<>> =>
            /\ queued_send_data_'[Len(queued_send_data_')]
                 = queued_send_data_[Len(queued_send_data_)]
            /\ size[queued_send_data_[Len(queued_send_data_)]] \in Nat
      <4> DEFINE q == queued_send_data_
      <4>1. Len(Tail(q)) = Len(q) - 1 /\ \A i \in 1..(Len(q) - 1) : Tail(q)[i] = q[i + 1]
        BY <2>3 DEF TypeInv
      <4>2. Len(q) \in Nat /\ Len(q) # 0 /\ q[Len(q)] \in Msg
        BY <2>3 DEF TypeInv
      <4>3. Tail(q) # <<>> => Len(q) - 1 \in 1..(Len(q) - 1)
        BY <4>1, <4>2, <2>3 DEF TypeInv
      <4>4. Tail(q) # <<>> => Tail(q)[Len(q) - 1] = q[(Len(q) - 1) + 1]
        BY <4>1, <4>3
      <4>5. (Len(q) - 1) + 1 = Len(q)
        BY <4>2
      <4>6. size[q[Len(q)]] \in Nat
        BY <4>2, ChannelAssumption
      <4> QED
        BY <2>3, <4>1, <4>4, <4>5, <4>6
    <3>5. send_bytes' <= send_bytes /\ send_bytes' \in Int
      BY <2>3, <3>3
    <3>6. queued_send_data_' # <<>> =>
            send_bytes' < kMaxQueuedSendDataBytes
                            + size[queued_send_data_'[Len(queued_send_data_')]]
      <4> DEFINE last == size[queued_send_data_[Len(queued_send_data_)]]
      <4>1. send_bytes < kMaxQueuedSendDataBytes + last
        BY <2>3 DEF BytesInv
      <4>2. kMaxQueuedSendDataBytes \in Nat
        BY ChannelAssumption
      <4> QED
        BY <3>3, <3>4, <3>5, <4>1, <4>2
    <3> QED
      BY <2>1, <3>2, <3>6 DEF BytesInv
  <2> QED
    BY <1>0, <2>1, <2>2, <2>3
<1>5. CASE RegisterObserver \/ UpdateState
  <2>1. Same /\ received_bytes' \in {0, received_bytes}
    BY <1>5 DEF RegisterObserver, UpdateState, DeliverQueuedReceivedData, sending, receiving
  <2> QED
    BY <1>0, <2>1
<1>6. CASE \/ \E r \in {"kOpener", "kAcker", "kNone"}, o, i \in BOOLEAN : Create(r, o, i)
           \/ SetSctpSid \/ UnregisterObserver \/ Close \/ OnTransportChannelCreated
           \/ OnReadySignal \/ OnMessage \/ OnAckReceived \/ OnStreamClosedRemotely
           \/ SendQueuedControlMessages \/ SendHandshake
           \/ Network \/ UNCHANGED vars
  <2>1. Same /\ UNCHANGED received_bytes
    BY <1>6 DEF Create, SetSctpSid, UnregisterObserver, Close, OnTransportChannelCreated,
       OnReadySignal, OnMessage, OnAckReceived, OnStreamClosedRemotely,
       SendQueuedControlMessages, SendHandshake, Network, SetReadyToSendData, OtherBlocks,
       PeerAcks, OnStreamResetEvent, PeerSends, vars, sending, receiving
  <2> QED
    BY <1>0, <2>1
<1> QED
  BY <1>1, <1>2, <1>3, <1>4, <1>5, <1>6 DEF Next, Api, OnEvent, ReadyStep

\* One step and the flags.
LEMMA FlagStep ==
  ASSUME FlagInv, [Next]_vars
  PROVE  FlagInv'
<1> USE DEF FlagInv, config, channel, session, network, control
<1>0. ASSUME NEW p, NEW q, CloseWith(p, q)
      PROVE  connected_to_provider_' \in BOOLEAN /\ stream' \in BOOLEAN
  BY <1>0, Zenon DEF CloseWith
<1>1. CASE Api
  <2>1. CASE \E r \in {"kOpener", "kAcker", "kNone"}, o, i \in BOOLEAN : Create(r, o, i)
    BY <2>1 DEF Create
  <2>2. CASE SetSctpSid
    BY <2>2 DEF SetSctpSid
  <2>3. CASE OnTransportChannelCreated
    BY <2>3 DEF OnTransportChannelCreated
  <2>4. CASE OnTransportChannelDestroyed
    BY <2>4 DEF OnTransportChannelDestroyed
  <2>5. CASE RegisterObserver
    BY <2>5 DEF RegisterObserver
  <2>6. CASE UnregisterObserver
    BY <2>6 DEF UnregisterObserver
  <2>7. CASE Close
    <3>1. connected_to_provider_' \in BOOLEAN /\ stream' \in BOOLEAN
      BY <1>0, <2>7 DEF Close
    <3> QED
      BY <2>7, <3>1 DEF Close
  <2>8. CASE \E m \in Msg : Send(m)
    <3> PICK m \in Msg : Send(m)
      BY <2>8
    <3>1. connected_to_provider_' \in BOOLEAN /\ stream' \in BOOLEAN
      BY <1>0 DEF Send, QueueOrClose
    <3>2. ready_to_send_data_' \in BOOLEAN
      BY DEF Send, Answer
    <3> QED
      BY <3>1, <3>2 DEF Send
  <2> QED
    BY <1>1, <2>1, <2>2, <2>3, <2>4, <2>5, <2>6, <2>7, <2>8 DEF Api
<1>2. CASE OnEvent
  <2>1. CASE OnReadySignal
    <3>1. /\ writable_' \in BOOLEAN /\ sctp_ready_to_send_data_' \in BOOLEAN
          /\ UNCHANGED <<ordered, id, observer_, connected_to_provider_, sctp_transport_,
                         ready_to_send_data_, stream, up, opened, heard, failed>>
      BY <2>1 DEF OnReadySignal, ReadyBegin
    <3> QED
      BY <3>1
  <2>2. CASE OnMessage
    BY <2>2 DEF OnMessage, ReadyBegin
  <2>3. CASE OnAckReceived
    BY <2>3 DEF OnAckReceived
  <2>4. CASE OnStreamClosedRemotely
    BY <1>0, <2>4 DEF OnStreamClosedRemotely
  <2>5. CASE \E m \in RemoteMsg : OnDataReceived(m)
    BY <1>0, <2>5 DEF OnDataReceived
  <2> QED
    BY <1>2, <2>1, <2>2, <2>3, <2>4, <2>5 DEF OnEvent
<1>3. ASSUME NEW r, NEW m, SendControlMessage(r, m)
      PROVE  /\ connected_to_provider_' \in BOOLEAN /\ stream' \in BOOLEAN
             /\ ready_to_send_data_' \in BOOLEAN /\ opened' \in BOOLEAN
  <2>1. connected_to_provider_' \in BOOLEAN /\ stream' \in BOOLEAN
    BY <1>0, <1>3 DEF SendControlMessage
  <2>2. ready_to_send_data_' \in BOOLEAN
    BY <1>3 DEF SendControlMessage, Answer
  <2>3. opened' \in BOOLEAN
    BY <1>3 DEF SendControlMessage
  <2> QED
    BY <2>1, <2>2, <2>3
<1>4. CASE SendQueuedControlMessages
  <2>1. /\ connected_to_provider_' \in BOOLEAN /\ stream' \in BOOLEAN
        /\ ready_to_send_data_' \in BOOLEAN /\ opened' \in BOOLEAN
    BY <1>3, <1>4 DEF SendQueuedControlMessages
  <2> QED
    BY <1>4, <2>1 DEF SendQueuedControlMessages
<1>5. CASE SendHandshake
  BY <1>3, <1>5 DEF SendHandshake
<1>6. CASE SendQueuedDataMessages
  <2>1. connected_to_provider_' \in BOOLEAN /\ stream' \in BOOLEAN
    BY <1>0, <1>6 DEF SendQueuedDataMessages
  <2>2. ready_to_send_data_' \in BOOLEAN /\ failed' \in BOOLEAN
    BY <1>6 DEF SendQueuedDataMessages, Answer
  <2> QED
    BY <1>6, <2>1, <2>2 DEF SendQueuedDataMessages
<1>7. CASE UpdateState
  <2>1. connected_to_provider_' \in BOOLEAN /\ stream' \in BOOLEAN
    BY <1>0, <1>7 DEF UpdateState
  <2> QED
    BY <1>7, <2>1 DEF UpdateState
<1>8. CASE Network
  <2>1. CASE SetReadyToSendData
    BY <2>1 DEF SetReadyToSendData
  <2>2. CASE OtherBlocks
    BY <2>2 DEF OtherBlocks
  <2>3. CASE PeerAcks
    BY <2>3 DEF PeerAcks
  <2>4. CASE OnStreamResetEvent
    BY <2>4 DEF OnStreamResetEvent
  <2>5. CASE \E m \in RemoteMsg : PeerSends(m)
    <3>1. UNCHANGED <<config, observer_, channel, writable_, control, session, network,
                      heard, failed>>
      BY <2>5 DEF PeerSends
    <3> QED
      BY <3>1
  <2> QED
    BY <1>8, <2>1, <2>2, <2>3, <2>4, <2>5 DEF Network
<1>9. CASE UNCHANGED vars
  BY <1>9 DEF vars
<1> QED
  BY <1>1, <1>2, <1>4, <1>5, <1>6, <1>7, <1>8, <1>9 DEF Next, ReadyStep

\* One step and what the model counts.
LEMMA CountStep ==
  ASSUME CountInv, [Next]_vars
  PROVE  CountInv'
<1> USE DEF CountInv, network
<1>1. ASSUME NEW r, Answer(r) PROVE blocks' \in Nat
  BY <1>1 DEF Answer
<1>2. ASSUME NEW kind \in {"control", "data"}, NEW o, Record(kind, o)
      PROVE  early' \subseteq {"control", "data"}
  BY <1>2 DEF Record
<1>3. CASE \E m \in Msg : Send(m)
  <2>1. unsent' \subseteq unsent
    BY <1>3 DEF Send
  <2>2. blocks' \in Nat
    BY <1>1, <1>3 DEF Send
  <2>3. early' \subseteq {"control", "data"}
    BY <1>2, <1>3 DEF Send
  <2> QED
    BY <2>1, <2>2, <2>3
<1>4. ASSUME NEW r, NEW m, SendControlMessage(r, m)
      PROVE  blocks' \in Nat /\ early' \subseteq {"control", "data"}
  BY <1>1, <1>2, <1>4 DEF SendControlMessage
<1>5. CASE SendQueuedControlMessages
  BY <1>4, <1>5 DEF SendQueuedControlMessages
<1>6. CASE SendHandshake
  BY <1>4, <1>6 DEF SendHandshake
<1>7. CASE SendQueuedDataMessages
  <2>1. blocks' \in Nat
    BY <1>1, <1>7 DEF SendQueuedDataMessages
  <2>2. early' \subseteq {"control", "data"} /\ UNCHANGED unsent
    BY <1>2, <1>7 DEF SendQueuedDataMessages
  <2> QED
    BY <2>1, <2>2
<1>8. CASE Network
  <2>1. CASE OtherBlocks
    BY <2>1 DEF OtherBlocks
  <2>2. CASE SetReadyToSendData \/ OnStreamResetEvent
    BY <2>2 DEF SetReadyToSendData, OnStreamResetEvent
  <2>3. CASE PeerAcks \/ \E m \in RemoteMsg : PeerSends(m)
    <3>1. unsent' \subseteq unsent /\ UNCHANGED <<blocks, early>>
      BY <2>3 DEF PeerAcks, PeerSends
    <3> QED
      BY <3>1
  <2> QED
    BY <1>8, <2>1, <2>2, <2>3 DEF Network
<1>9. CASE \/ \E r \in {"kOpener", "kAcker", "kNone"}, o, i \in BOOLEAN : Create(r, o, i)
           \/ SetSctpSid \/ RegisterObserver \/ UnregisterObserver \/ Close
           \/ OnTransportChannelCreated \/ OnTransportChannelDestroyed
           \/ OnEvent \/ UpdateState \/ UNCHANGED vars
  <2>1. UNCHANGED <<blocks, unsent, early>>
    BY <1>9 DEF Create, SetSctpSid, RegisterObserver, UnregisterObserver, Close,
       OnTransportChannelCreated, OnTransportChannelDestroyed, OnEvent, OnReadySignal,
       OnMessage, OnAckReceived, OnStreamClosedRemotely, OnDataReceived, UpdateState, vars
  <2> QED
    BY <2>1
<1> QED
  BY <1>3, <1>5, <1>6, <1>7, <1>8, <1>9 DEF Next, Api, ReadyStep

-----------------------------------------------------------------------------
(* What the parts of the actions do. *)

\* After Close a channel is closing or closed, and closed only if nothing was left.
LEMMA CloseFacts ==
  ASSUME NEW s, NEW c, CloseWith(s, c)
  PROVE  /\ state_' \in {"kClosing", "kClosed"}
         /\ state_ = "kClosed" => state_' = "kClosed"
         /\ state_ # "kClosed" /\ state_' = "kClosed" => s = <<>> /\ c = <<>>
         /\ state_' # "kClosed" => UNCHANGED connected_to_provider_
BY DEF CloseWith, channel

\* Before a channel is created nothing but the transport can change.
LEMMA NewStep ==
  ASSUME TypeInv, NewInv, [Next]_vars
  PROVE  NewInv'
<1> USE DEF NewInv, config, channel, sending, receiving, control, session, network
<1>1. CASE \E r \in {"kOpener", "kAcker", "kNone"}, o, i \in BOOLEAN : Create(r, o, i)
  BY <1>1 DEF Create
<1>2. CASE SetSctpSid
  BY <1>2 DEF SetSctpSid
<1>3. CASE OnTransportChannelCreated
  BY <1>3 DEF OnTransportChannelCreated
<1>4. CASE OnTransportChannelDestroyed
  BY <1>4 DEF OnTransportChannelDestroyed
<1>5. CASE RegisterObserver
  BY <1>5 DEF RegisterObserver
<1>6. CASE UnregisterObserver
  BY <1>6 DEF UnregisterObserver
<1>7. CASE Close
  BY <1>7 DEF Close
<1>8. CASE \E m \in Msg : Send(m)
  BY <1>8 DEF Send
<1>9. CASE OnReadySignal
  BY <1>9 DEF OnReadySignal, TakeEvent, ReadyBegin
<1>10. CASE OnMessage
  BY <1>10 DEF OnMessage, TakeEvent, ReadyBegin
<1>11. CASE OnAckReceived
  BY <1>11 DEF OnAckReceived, TakeEvent
<1>12. CASE \E m \in RemoteMsg : OnDataReceived(m)
  BY <1>12 DEF OnDataReceived, TakeEvent
<1>13. CASE OnStreamClosedRemotely
  BY <1>13 DEF OnStreamClosedRemotely, TakeEvent
<1>14. CASE SendQueuedControlMessages
  BY <1>14 DEF SendQueuedControlMessages
<1>15. CASE SendQueuedDataMessages
  BY <1>15 DEF SendQueuedDataMessages
<1>16. CASE SendHandshake
  BY <1>16 DEF SendHandshake
<1>17. CASE UpdateState
  BY <1>17 DEF UpdateState
<1>18. CASE SetReadyToSendData
  BY <1>18 DEF SetReadyToSendData
<1>19. CASE OtherBlocks
  BY <1>19 DEF OtherBlocks
<1>20. CASE PeerAcks
  BY <1>20 DEF PeerAcks
<1>21. CASE OnStreamResetEvent
  BY <1>21 DEF OnStreamResetEvent
<1>22. CASE \E m \in RemoteMsg : PeerSends(m)
  BY <1>22 DEF PeerSends
<1>23. CASE UNCHANGED vars
  BY <1>23 DEF vars
<1> QED
  BY <1>1, <1>2, <1>3, <1>4, <1>5, <1>6, <1>7, <1>8, <1>9, <1>10, <1>11, <1>12,
     <1>13, <1>14, <1>15, <1>16, <1>17, <1>18, <1>19, <1>20, <1>21, <1>22, <1>23 DEF
     Next, Api, OnEvent, ReadyStep, Network

-----------------------------------------------------------------------------
(* Messages of the application. *)

LEMMA SentStep ==
  ASSUME TypeInv, SentInOrder, [Next]_vars
  PROVE  SentInOrder'
<1> USE DEF SentInOrder, config, channel, sending, receiving, control, session, network
<1>1. CASE \E r \in {"kOpener", "kAcker", "kNone"}, o, i \in BOOLEAN : Create(r, o, i)
  BY <1>1 DEF Create
<1>2. CASE SetSctpSid
  BY <1>2 DEF SetSctpSid
<1>3. CASE OnTransportChannelCreated
  BY <1>3 DEF OnTransportChannelCreated
<1>4. CASE OnTransportChannelDestroyed
  <2>1. accepted \o <<>> = accepted
    BY ConcatEmptySeq DEF TypeInv
  <2> QED
    BY <1>4, <2>1 DEF OnTransportChannelDestroyed
<1>5. CASE RegisterObserver
  BY <1>5 DEF RegisterObserver
<1>6. CASE UnregisterObserver
  BY <1>6 DEF UnregisterObserver
<1>7. CASE Close
  BY <1>7, CloseFacts DEF Close
<1>8. CASE \E m \in Msg : Send(m)
  <2> PICK m \in Msg : Send(m)
    BY <1>8
  <2>0. state_ = "kOpen"
    BY DEF Send
  <2>1. CASE QueueOrClose(m)
    <3>1. CASE BufferFull
      BY <2>1, <3>1, CloseFacts DEF Send, QueueOrClose
    <3>2. CASE ~BufferFull
      <4>1. Append(submitted, m) = accepted \o Append(queued_send_data_, m)
        <5>1. /\ accepted \in Seq(Msg) /\ queued_send_data_ \in Seq(Msg)
              /\ submitted \in Seq(Msg)
          BY DEF TypeInv
        <5> QED
          BY <5>1, AppendBehind
      <4> QED
        BY <2>0, <2>1, <3>2, <4>1 DEF QueueOrClose
    <3> QED
      BY <3>1, <3>2
  <2>2. CASE /\ ~MustQueue
             /\ submitted' = Append(submitted, m) /\ accepted' = Append(accepted, m)
             /\ UNCHANGED <<channel, queued_send_data_, send_bytes>>
    <3>1. queued_send_data_ = <<>>
      BY <2>2 DEF MustQueue
    <3>2. accepted \o <<>> = accepted
      BY ConcatEmptySeq DEF TypeInv
    <3>3. Append(accepted, m) \o <<>> = Append(accepted, m)
      BY ConcatEmptySeq DEF TypeInv
    <3> QED
      BY <2>2, <3>1, <3>2, <3>3
  <2>3. CASE CloseWith(queued_send_data_, queued_control_data_) /\ UNCHANGED sending
    BY <2>3, CloseFacts DEF Send
  <2> QED
    BY <2>1, <2>2, <2>3 DEF Send
<1>9. CASE OnReadySignal
  BY <1>9 DEF OnReadySignal, ReadyBegin
<1>10. CASE OnMessage
  BY <1>10 DEF OnMessage, ReadyBegin
<1>11. CASE OnAckReceived
  BY <1>11 DEF OnAckReceived
<1>12. CASE \E m \in RemoteMsg : OnDataReceived(m)
  BY <1>12, CloseFacts DEF OnDataReceived
<1>13. CASE OnStreamClosedRemotely
  BY <1>13, CloseFacts DEF OnStreamClosedRemotely
<1>14. CASE SendQueuedControlMessages
  BY <1>14, CloseFacts DEF SendQueuedControlMessages, SendControlMessage
<1>15. CASE SendQueuedDataMessages
  <2>1. CASE queued_send_data_ = <<>>
    BY <1>15, <2>1 DEF SendQueuedDataMessages
  <2>2. CASE queued_send_data_ # <<>>
    <3>1. Append(accepted, Head(queued_send_data_)) \o Tail(queued_send_data_)
            = accepted \o queued_send_data_
      BY <2>2, HeadMoves DEF TypeInv
    <3> QED
      BY <1>15, <2>2, <3>1, CloseFacts DEF SendQueuedDataMessages
  <2> QED
    BY <2>1, <2>2
<1>16. CASE SendHandshake
  BY <1>16, CloseFacts DEF SendHandshake, SendControlMessage
<1>17. CASE UpdateState
  BY <1>17, CloseFacts DEF UpdateState, MayOpen
<1>18. CASE SetReadyToSendData
  BY <1>18 DEF SetReadyToSendData
<1>19. CASE OtherBlocks
  BY <1>19 DEF OtherBlocks
<1>20. CASE PeerAcks
  BY <1>20 DEF PeerAcks
<1>21. CASE OnStreamResetEvent
  BY <1>21 DEF OnStreamResetEvent
<1>22. CASE \E m \in RemoteMsg : PeerSends(m)
  BY <1>22 DEF PeerSends
<1>23. CASE UNCHANGED vars
  BY <1>23 DEF vars
<1> QED
  BY <1>1, <1>2, <1>3, <1>4, <1>5, <1>6, <1>7, <1>8, <1>9, <1>10, <1>11, <1>12,
     <1>13, <1>14, <1>15, <1>16, <1>17, <1>18, <1>19, <1>20, <1>21, <1>22, <1>23 DEF
     Next, Api, OnEvent, ReadyStep, Network

-----------------------------------------------------------------------------
(* Messages of the peer. *)

LEMMA ReceivedStep ==
  ASSUME TypeInv, NewInv, ReceivedInOrder, [Next]_vars
  PROVE  ReceivedInOrder'
<1> USE DEF ReceivedInOrder, config, channel, sending, receiving, control,
            session, network
<1>1. CASE \E r \in {"kOpener", "kAcker", "kNone"}, o, i \in BOOLEAN : Create(r, o, i)
  BY <1>1 DEF Create, NewInv
<1>2. CASE SetSctpSid
  BY <1>2 DEF SetSctpSid
<1>3. CASE OnTransportChannelCreated
  BY <1>3 DEF OnTransportChannelCreated
<1>4. CASE OnTransportChannelDestroyed
  BY <1>4 DEF OnTransportChannelDestroyed
<1>5. CASE RegisterObserver
  <2>1. (delivered \o queued_received_data_) \o <<>> = delivered \o queued_received_data_
    BY ConcatProperties, ConcatEmptySeq DEF TypeInv
  <2> QED
    BY <1>5, <2>1 DEF RegisterObserver, DeliverQueuedReceivedData
<1>6. CASE UnregisterObserver
  BY <1>6 DEF UnregisterObserver
<1>7. CASE Close
  BY <1>7, CloseFacts DEF Close
<1>8. CASE \E m \in Msg : Send(m)
  BY <1>8, CloseFacts DEF Send, QueueOrClose
<1>9. CASE OnReadySignal
  BY <1>9 DEF OnReadySignal
<1>10. CASE OnMessage
  BY <1>10 DEF OnMessage
<1>11. CASE OnAckReceived
  BY <1>11 DEF OnAckReceived
<1>12. CASE \E m \in RemoteMsg : OnDataReceived(m)
  <2> PICK m \in RemoteMsg : OnDataReceived(m)
    BY <1>12
  <2>1. /\ arrived \in Seq(RemoteMsg) /\ delivered \in Seq(RemoteMsg)
        /\ queued_received_data_ \in Seq(RemoteMsg)
    BY DEF TypeInv
  <2>2. CASE UNCHANGED <<receiving, channel>>
    BY <2>2 DEF OnDataReceived
  <2>3. CASE /\ state_ = "kOpen" /\ observer_
             /\ arrived' = Append(arrived, m) /\ delivered' = Append(delivered, m)
             /\ UNCHANGED <<queued_received_data_, received_bytes, channel>>
    <3>1. /\ delivered \o <<>> = delivered
          /\ Append(delivered, m) \o <<>> = Append(delivered, m)
      BY <2>1, ConcatEmptySeq
    <3> QED
      BY <2>3, <3>1 DEF OnDataReceived
  <2>4. CASE /\ ~(state_ = "kOpen" /\ observer_)
             /\ arrived' = Append(arrived, m)
             /\ queued_received_data_' = Append(queued_received_data_, m)
             /\ UNCHANGED <<delivered, channel>>
    <3>1. Append(arrived, m) = delivered \o Append(queued_received_data_, m)
      BY <2>1, AppendBehind
    <3> QED
      BY <2>4, <3>1 DEF OnDataReceived
  <2>5. CASE /\ queued_received_data_' = <<>> /\ arrived' = delivered
             /\ UNCHANGED delivered
    <3>1. delivered \o <<>> = delivered
      BY <2>1, ConcatEmptySeq
    <3> QED
      BY <2>5, <3>1
  <2> QED
    BY <2>2, <2>3, <2>4, <2>5 DEF OnDataReceived
<1>13. CASE OnStreamClosedRemotely
  BY <1>13, CloseFacts DEF OnStreamClosedRemotely
<1>14. CASE SendQueuedControlMessages
  BY <1>14, CloseFacts DEF SendQueuedControlMessages, SendControlMessage
<1>15. CASE SendQueuedDataMessages
  BY <1>15, CloseFacts DEF SendQueuedDataMessages
<1>16. CASE SendHandshake
  BY <1>16, CloseFacts DEF SendHandshake, SendControlMessage
<1>17. CASE UpdateState
  <2>1. (delivered \o queued_received_data_) \o <<>> = delivered \o queued_received_data_
    BY ConcatProperties, ConcatEmptySeq DEF TypeInv
  <2> QED
    BY <1>17, <2>1, CloseFacts DEF UpdateState, DeliverQueuedReceivedData
<1>18. CASE SetReadyToSendData
  BY <1>18 DEF SetReadyToSendData
<1>19. CASE OtherBlocks
  BY <1>19 DEF OtherBlocks
<1>20. CASE PeerAcks
  BY <1>20 DEF PeerAcks
<1>21. CASE OnStreamResetEvent
  BY <1>21 DEF OnStreamResetEvent
<1>22. CASE \E m \in RemoteMsg : PeerSends(m)
  BY <1>22 DEF PeerSends
<1>23. CASE UNCHANGED vars
  BY <1>23 DEF vars
<1> QED
  BY <1>1, <1>2, <1>3, <1>4, <1>5, <1>6, <1>7, <1>8, <1>9, <1>10, <1>11, <1>12,
     <1>13, <1>14, <1>15, <1>16, <1>17, <1>18, <1>19, <1>20, <1>21, <1>22, <1>23 DEF
     Next, Api, OnEvent, ReadyStep, Network

-----------------------------------------------------------------------------
(* The handshake. *)

\* A control message that is sent, queued or refused.
LEMMA ControlHand ==
  ASSUME TypeInv, HandInv, NEW r, NEW m, SendControlMessage(r, m),
         role = "kOpener" => m = "OPEN", UNCHANGED <<role, heard>>
  PROVE  /\ role = "kOpener" =>
              /\ handshake_state_' \in {"shouldSendOpen", "waitingForAck", "ready"}
              /\ handshake_state_' # "shouldSendOpen" => opened'
              /\ handshake_state_' = "ready" => heard
              /\ opened => opened'
              /\ queued_control_data_' \in Seq({"OPEN"})
         /\ "data" \notin early'
         /\ handshake_state_ \in {"waitingForAck", "ready"}
              => handshake_state_' \in {"waitingForAck", "ready"}
         /\ state_' = "kOpen" => state_ = "kOpen"
<1>1. role = "kOpener" => queued_control_data_' \in Seq({"OPEN"})
  <2>1. ASSUME role = "kOpener" PROVE Append(queued_control_data_, m) \in Seq({"OPEN"})
    BY <2>1 DEF HandInv
  <2> QED
    BY <2>1 DEF SendControlMessage, HandInv
<1>2. role = "kOpener" =>
        /\ handshake_state_' \in {"shouldSendOpen", "waitingForAck", "ready"}
        /\ handshake_state_' # "shouldSendOpen" => opened'
        /\ handshake_state_' = "ready" => heard
        /\ opened => opened'
  BY DEF SendControlMessage, HandInv
<1>3. "data" \notin early'
  BY DEF SendControlMessage, Record, HandInv
<1>4. handshake_state_ \in {"waitingForAck", "ready"}
        => handshake_state_' \in {"waitingForAck", "ready"}
  BY DEF SendControlMessage
<1>5. state_' = "kOpen" => state_ = "kOpen"
  BY CloseFacts DEF SendControlMessage, channel
<1> QED
  BY <1>1, <1>2, <1>3, <1>4, <1>5

LEMMA HandStep ==
  ASSUME TypeInv, NewInv, HandInv, [Next]_vars
  PROVE  HandInv'
<1> USE DEF HandInv, config, channel, sending, receiving, control,
            session, network
<1>1. CASE \E r \in {"kOpener", "kAcker", "kNone"}, o, i \in BOOLEAN : Create(r, o, i)
  BY <1>1, EmptySeq DEF Create, NewInv
<1>2. CASE SetSctpSid
  BY <1>2 DEF SetSctpSid
<1>3. CASE OnTransportChannelCreated
  BY <1>3 DEF OnTransportChannelCreated
<1>4. CASE OnTransportChannelDestroyed
  BY <1>4 DEF OnTransportChannelDestroyed
<1>5. CASE RegisterObserver
  BY <1>5 DEF RegisterObserver
<1>6. CASE UnregisterObserver
  BY <1>6 DEF UnregisterObserver
<1>7. CASE Close
  BY <1>7, CloseFacts DEF Close
<1>8. CASE \E m \in Msg : Send(m)
  <2> PICK m \in Msg : Send(m)
    BY <1>8
  <2>1. /\ state_ = "kOpen" /\ handshake_state_ \in {"waitingForAck", "ready"}
        /\ role = "kOpener" => opened
    BY DEF Send
  <2>2. "data" \notin early'
    BY DEF Send, Record, DataOrdered
  <2>3. UNCHANGED <<role, handshake_state_, opened, heard, queued_control_data_,
                    control_packets>>
    BY DEF Send
  <2> QED
    BY <2>1, <2>2, <2>3
<1>9. CASE OnReadySignal
  <2>1. <<>> \in Seq({"OPEN"})
    OBVIOUS
  <2>2. role = "kOpener" => /\ queued_control_data_' \in Seq({"OPEN"})
                            /\ control_packets' \in Seq({"OPEN"})
    BY <1>9, <2>1 DEF OnReadySignal, ReadyBegin
  <2> QED
    BY <1>9, <2>2 DEF OnReadySignal
<1>10. CASE OnMessage
  <2>1. <<>> \in Seq({"OPEN"})
    OBVIOUS
  <2>2. role = "kOpener" => /\ queued_control_data_' \in Seq({"OPEN"})
                            /\ control_packets' \in Seq({"OPEN"})
    BY <1>10, <2>1 DEF OnMessage, ReadyBegin
  <2> QED
    BY <1>10, <2>2 DEF OnMessage
<1>11. CASE OnAckReceived
  BY <1>11 DEF OnAckReceived
<1>12. CASE \E m \in RemoteMsg : OnDataReceived(m)
  BY <1>12, CloseFacts DEF OnDataReceived
<1>13. CASE OnStreamClosedRemotely
  BY <1>13, CloseFacts DEF OnStreamClosedRemotely
<1>14. CASE SendQueuedControlMessages
  <2>1. CASE control_packets = <<>>
    BY <1>14, <2>1 DEF SendQueuedControlMessages
  <2>2. CASE control_packets # <<>>
    <3>1. PICK r : SendControlMessage(r, Head(control_packets))
      BY <1>14, <2>2 DEF SendQueuedControlMessages
    <3>2. role = "kOpener" => /\ Head(control_packets) = "OPEN"
                              /\ Tail(control_packets) \in Seq({"OPEN"})
      BY <2>2, HeadTailProperties
    <3>3. /\ UNCHANGED <<role, heard, queued_send_data_, accepted>>
          /\ control_packets' = Tail(control_packets)
      BY <1>14, <2>2 DEF SendQueuedControlMessages
    <3> HIDE DEF HandInv
    <3>4. /\ role = "kOpener" =>
               /\ handshake_state_' \in {"shouldSendOpen", "waitingForAck", "ready"}
               /\ handshake_state_' # "shouldSendOpen" => opened'
               /\ handshake_state_' = "ready" => heard
               /\ opened => opened'
               /\ queued_control_data_' \in Seq({"OPEN"})
          /\ "data" \notin early'
          /\ handshake_state_ \in {"waitingForAck", "ready"}
               => handshake_state_' \in {"waitingForAck", "ready"}
          /\ state_' = "kOpen" => state_ = "kOpen"
      BY <3>1, <3>2, <3>3, ControlHand
    <3> QED
      BY <3>2, <3>3, <3>4 DEF HandInv
  <2> QED
    BY <2>1, <2>2
<1>15. CASE SendQueuedDataMessages
  <2>1. "data" \notin early'
    BY <1>15 DEF SendQueuedDataMessages, Record, DataOrdered
  <2>2. /\ queued_send_data_' # <<>> => queued_send_data_ # <<>>
        /\ accepted' # <<>> => accepted # <<>> \/ queued_send_data_ # <<>>
    BY <1>15 DEF SendQueuedDataMessages
  <2>3. state_' = "kOpen" => state_ = "kOpen"
    BY <1>15, CloseFacts DEF SendQueuedDataMessages
  <2>4. UNCHANGED <<role, handshake_state_, opened, heard, queued_control_data_,
                    control_packets>>
    BY <1>15 DEF SendQueuedDataMessages
  <2> QED
    BY <2>1, <2>2, <2>3, <2>4
<1>16. CASE SendHandshake
  <2>1. PICK r : SendControlMessage(r, IF handshake_state_ = "shouldSendOpen" THEN "OPEN"
                                                                            ELSE "ACK")
    BY <1>16 DEF SendHandshake
  <2>2. role = "kOpener" => handshake_state_ = "shouldSendOpen"
    BY <1>16 DEF SendHandshake
  <2>3. UNCHANGED <<role, heard, queued_send_data_, accepted, control_packets>>
    BY <1>16 DEF SendHandshake
  <2> HIDE DEF HandInv
  <2>4. /\ role = "kOpener" =>
             /\ handshake_state_' \in {"shouldSendOpen", "waitingForAck", "ready"}
             /\ handshake_state_' # "shouldSendOpen" => opened'
             /\ handshake_state_' = "ready" => heard
             /\ opened => opened'
             /\ queued_control_data_' \in Seq({"OPEN"})
        /\ "data" \notin early'
        /\ handshake_state_ \in {"waitingForAck", "ready"}
             => handshake_state_' \in {"waitingForAck", "ready"}
        /\ state_' = "kOpen" => state_ = "kOpen"
    BY <2>1, <2>2, <2>3, ControlHand
  <2> QED
    BY <2>3, <2>4 DEF HandInv
<1>17. CASE UpdateState
  BY <1>17, CloseFacts DEF UpdateState, MayOpen
<1>18. CASE SetReadyToSendData
  BY <1>18 DEF SetReadyToSendData
<1>19. CASE OtherBlocks
  BY <1>19 DEF OtherBlocks
<1>20. CASE PeerAcks
  BY <1>20 DEF PeerAcks
<1>21. CASE OnStreamResetEvent
  BY <1>21 DEF OnStreamResetEvent
<1>22. CASE \E m \in RemoteMsg : PeerSends(m)
  BY <1>22 DEF PeerSends
<1>23. CASE UNCHANGED vars
  BY <1>23 DEF vars
<1> QED
  BY <1>1, <1>2, <1>3, <1>4, <1>5, <1>6, <1>7, <1>8, <1>9, <1>10, <1>11, <1>12,
     <1>13, <1>14, <1>15, <1>16, <1>17, <1>18, <1>19, <1>20, <1>21, <1>22, <1>23 DEF
     Next, Api, OnEvent, ReadyStep, Network

-----------------------------------------------------------------------------
(* Queues and the transport. *)

LEMMA ConnStep ==
  ASSUME TypeInv, NewInv, ConnInv, [Next]_vars
  PROVE  ConnInv'
<1> USE DEF ConnInv, config, channel, sending, receiving, control,
            session, network
<1>1. CASE \E r \in {"kOpener", "kAcker", "kNone"}, o, i \in BOOLEAN : Create(r, o, i)
  BY <1>1 DEF Create, NewInv
<1>2. CASE SetSctpSid
  BY <1>2 DEF SetSctpSid
<1>3. CASE OnTransportChannelCreated
  BY <1>3 DEF OnTransportChannelCreated, NewInv
<1>4. CASE OnTransportChannelDestroyed
  BY <1>4 DEF OnTransportChannelDestroyed
<1>5. CASE RegisterObserver
  BY <1>5 DEF RegisterObserver
<1>6. CASE UnregisterObserver
  BY <1>6 DEF UnregisterObserver
<1>7. CASE Close
  BY <1>7, CloseFacts DEF Close
<1>8. CASE \E m \in Msg : Send(m)
  BY <1>8, CloseFacts DEF Send, QueueOrClose, Answer, Record
<1>9. CASE OnReadySignal
  BY <1>9 DEF OnReadySignal, ReadyBegin
<1>10. CASE OnMessage
  BY <1>10 DEF OnMessage, ReadyBegin
<1>11. CASE OnAckReceived
  BY <1>11 DEF OnAckReceived
<1>12. CASE \E m \in RemoteMsg : OnDataReceived(m)
  BY <1>12, CloseFacts DEF OnDataReceived
<1>13. CASE OnStreamClosedRemotely
  BY <1>13, CloseFacts DEF OnStreamClosedRemotely
<1>14. CASE SendQueuedControlMessages
  BY <1>14, CloseFacts DEF SendQueuedControlMessages, SendControlMessage, Answer,
     Record
<1>15. CASE SendQueuedDataMessages
  BY <1>15, CloseFacts DEF SendQueuedDataMessages, Answer, Record
<1>16. CASE SendHandshake
  BY <1>16, CloseFacts DEF SendHandshake, SendControlMessage, Answer, Record
<1>17. CASE UpdateState
  BY <1>17, CloseFacts DEF UpdateState, MayOpen
<1>18. CASE SetReadyToSendData
  BY <1>18 DEF SetReadyToSendData
<1>19. CASE OtherBlocks
  BY <1>19 DEF OtherBlocks
<1>20. CASE PeerAcks
  BY <1>20 DEF PeerAcks
<1>21. CASE OnStreamResetEvent
  BY <1>21 DEF OnStreamResetEvent
<1>22. CASE \E m \in RemoteMsg : PeerSends(m)
  BY <1>22 DEF PeerSends
<1>23. CASE UNCHANGED vars
  BY <1>23 DEF vars
<1> QED
  BY <1>1, <1>2, <1>3, <1>4, <1>5, <1>6, <1>7, <1>8, <1>9, <1>10, <1>11, <1>12,
     <1>13, <1>14, <1>15, <1>16, <1>17, <1>18, <1>19, <1>20, <1>21, <1>22, <1>23 DEF
     Next, Api, OnEvent, ReadyStep, Network

LEMMA NoneStep ==
  ASSUME TypeInv, NewInv, NoneInv, [Next]_vars
  PROVE  NoneInv'
<1> USE DEF NoneInv, config, channel, sending, receiving, control,
            session, network
<1>1. CASE \E r \in {"kOpener", "kAcker", "kNone"}, o, i \in BOOLEAN : Create(r, o, i)
  BY <1>1 DEF Create, NewInv
<1>2. CASE SetSctpSid
  BY <1>2 DEF SetSctpSid
<1>3. CASE OnTransportChannelCreated
  BY <1>3 DEF OnTransportChannelCreated
<1>4. CASE OnTransportChannelDestroyed
  BY <1>4 DEF OnTransportChannelDestroyed
<1>5. CASE RegisterObserver
  BY <1>5 DEF RegisterObserver
<1>6. CASE UnregisterObserver
  BY <1>6 DEF UnregisterObserver
<1>7. CASE Close
  BY <1>7, CloseFacts DEF Close
<1>8. CASE \E m \in Msg : Send(m)
  BY <1>8, CloseFacts DEF Send, QueueOrClose, Answer, Record
<1>9. CASE OnReadySignal
  BY <1>9 DEF NewInv, OnReadySignal, TakeEvent, ReadyBegin
<1>10. CASE OnMessage
  BY <1>10 DEF OnMessage, TakeEvent, ReadyBegin
<1>11. CASE OnAckReceived
  BY <1>11 DEF OnAckReceived, TakeEvent
<1>12. CASE \E m \in RemoteMsg : OnDataReceived(m)
  BY <1>12, CloseFacts DEF OnDataReceived, TakeEvent
<1>13. CASE OnStreamClosedRemotely
  BY <1>13, CloseFacts DEF OnStreamClosedRemotely, TakeEvent
<1>14. CASE SendQueuedControlMessages
  BY <1>14, CloseFacts DEF SendQueuedControlMessages, SendControlMessage, Answer,
     Record
<1>15. CASE SendQueuedDataMessages
  BY <1>15, CloseFacts DEF SendQueuedDataMessages, Answer, Record
<1>16. CASE SendHandshake
  BY <1>16, CloseFacts DEF SendHandshake, SendControlMessage, Answer, Record
<1>17. CASE UpdateState
  BY <1>17, CloseFacts DEF UpdateState, MayOpen
<1>18. CASE SetReadyToSendData
  BY <1>18 DEF SetReadyToSendData
<1>19. CASE OtherBlocks
  BY <1>19 DEF OtherBlocks
<1>20. CASE PeerAcks
  BY <1>20 DEF PeerAcks
<1>21. CASE OnStreamResetEvent
  BY <1>21 DEF OnStreamResetEvent
<1>22. CASE \E m \in RemoteMsg : PeerSends(m)
  BY <1>22 DEF PeerSends
<1>23. CASE UNCHANGED vars
  BY <1>23 DEF vars
<1> QED
  BY <1>1, <1>2, <1>3, <1>4, <1>5, <1>6, <1>7, <1>8, <1>9, <1>10, <1>11, <1>12,
     <1>13, <1>14, <1>15, <1>16, <1>17, <1>18, <1>19, <1>20, <1>21, <1>22, <1>23 DEF
     Next, Api, OnEvent, ReadyStep, Network


\* The posts of the network thread and of Create only add.
LEMMA PendingAdd ==
  ASSUME TypeInv, NEW p \in Event, events' = Append(events, p), NEW e
  PROVE  Pending(e)' <=> Pending(e) \/ e = p
BY PendingPost DEF TypeInv

\* Taking the head of the events.
LEMMA PendingTake ==
  ASSUME TypeInv, NEW h, TakeEvent(h)
  PROVE  /\ Pending(h)
         /\ \A e : Pending(e)' => Pending(e)
         /\ \A e : Pending(e) /\ e # h => Pending(e)'
<1>1. /\ events \in Seq(Event) /\ events # <<>> /\ events' = Tail(events)
      /\ Head(events) = h
  BY DEF TypeInv, TakeEvent
<1>2. Pending(h)
  <2>1. 1 \in 1..Len(events) /\ events[1] = h
    BY <1>1, EmptySeq
  <2> QED
    BY <2>1 DEF Pending
<1>3. ASSUME NEW e, Pending(e)' PROVE Pending(e)
  BY <1>1, <1>3, PendingTail
<1>4. ASSUME NEW e, Pending(e), e # h PROVE Pending(e)'
  BY <1>1, <1>4, PendingStays
<1> QED
  BY <1>2, <1>3, <1>4

LEMMA UpStep ==
  ASSUME TypeInv, NewInv, UpInv, [Next]_vars
  PROVE  UpInv'
<1> USE DEF UpInv, config, channel, sending, receiving, control,
            session, network
<1>1. CASE \E r \in {"kOpener", "kAcker", "kNone"}, o, i \in BOOLEAN : Create(r, o, i)
  <2> PICK r \in {"kOpener", "kAcker", "kNone"}, o \in BOOLEAN, i \in BOOLEAN :
             Create(r, o, i)
    BY <1>1
  <2>1. CASE sctp_ready_to_send_data_
    <3>1. events' = Append(events, "channelready") /\ "channelready" \in Event
      BY <2>1 DEF Create, Event
    <3>2. /\ Pending("ready")' <=> Pending("ready") \/ "ready" = "channelready"
          /\ Pending("channelready")' <=> Pending("channelready") \/ TRUE
      BY <3>1, PendingAdd
    <3> QED
      BY <2>1, <3>2 DEF Create
  <2>2. CASE ~sctp_ready_to_send_data_
    <3>1. UNCHANGED events
      BY <2>2 DEF Create
    <3> QED
      BY <2>2, <3>1, PendingSame DEF Create
  <2> QED
    BY <2>1, <2>2
<1>2. CASE SetSctpSid
  <2>1. UNCHANGED <<events, up, writable_, sctp_ready_to_send_data_>>
    BY <1>2 DEF SetSctpSid
  <2> QED
    BY <1>2, <2>1, PendingSame DEF SetSctpSid
<1>3. CASE OnTransportChannelCreated
  <2>1. UNCHANGED <<events, up, writable_, sctp_ready_to_send_data_>>
    BY <1>3 DEF OnTransportChannelCreated
  <2> QED
    BY <1>3, <2>1, PendingSame DEF OnTransportChannelCreated
<1>4. CASE OnTransportChannelDestroyed
  <2>1. ~Pending("ready")'
    BY <1>4 DEF OnTransportChannelDestroyed, Pending
  <2>2. Pending("channelready")' => Pending("channelready")
    <3>1. CASE Pending("channelready")
      BY <3>1
    <3>2. CASE ~Pending("channelready")
      <4>1. events' = <<>>
        BY <1>4, <3>2 DEF OnTransportChannelDestroyed
      <4> QED
        BY <4>1 DEF Pending
    <3> QED
      BY <3>1, <3>2
  <2> QED
    BY <1>4, <2>1, <2>2 DEF OnTransportChannelDestroyed
<1>5. CASE RegisterObserver
  <2>1. UNCHANGED <<events, up, writable_, sctp_ready_to_send_data_>>
    BY <1>5 DEF RegisterObserver
  <2> QED
    BY <1>5, <2>1, PendingSame DEF RegisterObserver
<1>6. CASE UnregisterObserver
  <2>1. UNCHANGED <<events, up, writable_, sctp_ready_to_send_data_>>
    BY <1>6 DEF UnregisterObserver
  <2> QED
    BY <1>6, <2>1, PendingSame DEF UnregisterObserver
<1>7. CASE Close
  <2>1. UNCHANGED <<events, up, writable_, sctp_ready_to_send_data_>>
    BY <1>7 DEF Close
  <2> QED
    BY <1>7, <2>1, PendingSame DEF Close
<1>8. CASE \E m \in Msg : Send(m)
  <2>1. UNCHANGED <<events, up, writable_, sctp_ready_to_send_data_>>
    BY <1>8 DEF Send
  <2> QED
    BY <1>8, <2>1, PendingSame DEF Send
<1>9. CASE OnReadySignal
  <2>1. TakeEvent("ready")
    BY <1>9 DEF OnReadySignal
  <2>2. Pending("ready") /\ \A e : Pending(e)' => Pending(e)
    BY <2>1, PendingTake
  <2> QED
    BY <1>9, <2>2 DEF NewInv, OnReadySignal, TakeEvent, ReadyBegin
<1>10. CASE OnMessage
  <2>1. TakeEvent("channelready")
    BY <1>10 DEF OnMessage
  <2>2. Pending("channelready") /\ \A e : Pending(e)' => Pending(e)
    BY <2>1, PendingTake
  <2> QED
    BY <1>10, <2>2 DEF OnMessage, TakeEvent, ReadyBegin
<1>11. CASE OnAckReceived
  <2>1. TakeEvent("ack")
    BY <1>11 DEF OnAckReceived
  <2>2. Pending("ack") /\ \A e : Pending(e)' => Pending(e)
    BY <2>1, PendingTake
  <2> QED
    BY <1>11, <2>2 DEF OnAckReceived, TakeEvent
<1>12. CASE \E m \in RemoteMsg : OnDataReceived(m)
  <2> PICK m \in RemoteMsg : OnDataReceived(m)
    BY <1>12
  <2>1. TakeEvent(m)
    BY DEF OnDataReceived
  <2>2. \A e : Pending(e)' => Pending(e)
    BY <2>1, PendingTake
  <2>3. UNCHANGED <<sctp_ready_to_send_data_, up, pc, writable_, id>>
    BY DEF OnDataReceived
  <2> QED
    BY <2>2, <2>3
<1>13. CASE OnStreamClosedRemotely
  <2>1. TakeEvent("streamclosed")
    BY <1>13 DEF OnStreamClosedRemotely
  <2>2. Pending("streamclosed") /\ \A e : Pending(e)' => Pending(e)
    BY <2>1, PendingTake
  <2> QED
    BY <1>13, <2>2 DEF OnStreamClosedRemotely, TakeEvent
<1>14. CASE SendQueuedControlMessages
  <2>1. UNCHANGED <<events, up, writable_, sctp_ready_to_send_data_>>
    BY <1>14 DEF SendQueuedControlMessages
  <2> QED
    BY <1>14, <2>1, PendingSame DEF SendQueuedControlMessages
<1>15. CASE SendQueuedDataMessages
  <2>1. UNCHANGED <<events, up, writable_, sctp_ready_to_send_data_>>
    BY <1>15 DEF SendQueuedDataMessages
  <2> QED
    BY <1>15, <2>1, PendingSame DEF SendQueuedDataMessages
<1>16. CASE SendHandshake
  <2>1. UNCHANGED <<events, up, writable_, sctp_ready_to_send_data_>>
    BY <1>16 DEF SendHandshake
  <2> QED
    BY <1>16, <2>1, PendingSame DEF SendHandshake
<1>17. CASE UpdateState
  <2>1. UNCHANGED <<events, up, writable_, sctp_ready_to_send_data_>>
    BY <1>17 DEF UpdateState
  <2> QED
    BY <1>17, <2>1, PendingSame DEF UpdateState
<1>18. CASE SetReadyToSendData
  <2>1. events' = Append(events, "ready") /\ "ready" \in Event
    BY <1>18 DEF SetReadyToSendData, Posts, Event
  <2>2. \A e : Pending(e)' <=> Pending(e) \/ e = "ready"
    BY <2>1, PendingAdd
  <2> QED
    BY <1>18, <2>2 DEF SetReadyToSendData
<1>19. CASE OtherBlocks
  <2>1. UNCHANGED <<events, up, writable_, sctp_ready_to_send_data_>>
    BY <1>19 DEF OtherBlocks
  <2> QED
    BY <1>19, <2>1, PendingSame DEF OtherBlocks
<1>20. CASE PeerAcks
  <2>1. events' = Append(events, "ack") /\ "ack" \in Event
    BY <1>20 DEF PeerAcks, Posts, Event
  <2>2. \A e : Pending(e)' <=> Pending(e) \/ e = "ack"
    BY <2>1, PendingAdd
  <2> QED
    BY <1>20, <2>2 DEF PeerAcks
<1>21. CASE OnStreamResetEvent
  <2>1. events' = Append(events, "streamclosed") /\ "streamclosed" \in Event
    BY <1>21 DEF OnStreamResetEvent, Posts, Event
  <2>2. \A e : Pending(e)' <=> Pending(e) \/ e = "streamclosed"
    BY <2>1, PendingAdd
  <2> QED
    BY <1>21, <2>2 DEF OnStreamResetEvent
<1>22. CASE \E m \in RemoteMsg : PeerSends(m)
  <2> PICK m \in RemoteMsg : PeerSends(m)
    BY <1>22
  <2>1. /\ events' = Append(events, m) /\ m \in Event
        /\ m \notin {"ready", "channelready"}
    BY ChannelAssumption DEF PeerSends, Posts, Event
  <2>2. \A e : Pending(e)' <=> Pending(e) \/ e = m
    BY <2>1, PendingAdd
  <2> QED
    BY <2>1, <2>2 DEF PeerSends
<1>23. CASE UNCHANGED vars
  BY <1>23, PendingSame DEF vars
<1> QED
  BY <1>1, <1>2, <1>3, <1>4, <1>5, <1>6, <1>7, <1>8, <1>9, <1>10, <1>11, <1>12,
     <1>13, <1>14, <1>15, <1>16, <1>17, <1>18, <1>19, <1>20, <1>21, <1>22, <1>23 DEF
     Next, Api, OnEvent, ReadyStep, Network

\* The argument for NoStall.  A block leaves the transport not ready; what is queued
\* then waits for the next "ready", which only OnReadySignal takes, and a channel with
\* something queued is connected (ConnInv), so that the signal makes it send.
LEMMA StallStep ==
  ASSUME TypeInv, NewInv, ConnInv, StallInv, [Next]_vars
  PROVE  StallInv'
<1> USE DEF StallInv, config, channel, sending, receiving, control,
            session, network
<1>1. CASE \E r \in {"kOpener", "kAcker", "kNone"}, o, i \in BOOLEAN : Create(r, o, i)
  BY <1>1 DEF Create, NewInv
<1>2. CASE SetSctpSid
  BY <1>2, PendingSame DEF SetSctpSid
<1>3. CASE OnTransportChannelCreated
  BY <1>3, PendingSame DEF OnTransportChannelCreated
<1>4. CASE OnTransportChannelDestroyed
  BY <1>4 DEF OnTransportChannelDestroyed
<1>5. CASE RegisterObserver
  BY <1>5, PendingSame DEF RegisterObserver
<1>6. CASE UnregisterObserver
  BY <1>6, PendingSame DEF UnregisterObserver
<1>7. CASE Close
  BY <1>7, PendingSame, CloseFacts DEF Close
<1>8. CASE \E m \in Msg : Send(m)
  <2> PICK m \in Msg : Send(m)
    BY <1>8
  <2>1. /\ Pending("ready")' <=> Pending("ready")
        /\ state_ # "kClosed" /\ pc = "idle"
        /\ UNCHANGED <<pc, failed, queued_control_data_>>
    BY PendingSame DEF Send
  <2>2. CASE MustQueue
    <3>1. queued_send_data_ # <<>> /\ UNCHANGED ready_to_send_data_
      BY <2>2 DEF Send, MustQueue
    <3> QED
      BY <2>1, <3>1
  <2>3. CASE ~MustQueue
    <3>1. queued_send_data_ = <<>>
      BY <2>3 DEF MustQueue
    <3>2. PICK r \in Results(TRUE) :
            /\ Answer(r)
            /\ r = "block" \/ UNCHANGED queued_send_data_
      BY <2>3 DEF Send
    <3> QED
      BY <2>1, <3>1, <3>2 DEF Answer
  <2> QED
    BY <2>2, <2>3
<1>9. CASE OnReadySignal
  <2>1. CASE connected_to_provider_
    BY <1>9, <2>1 DEF OnReadySignal, ReadyBegin
  <2>2. CASE ~connected_to_provider_
    <3>1. state_ # "kClosed" => queued_send_data_ = <<>> /\ queued_control_data_ = <<>>
      BY <2>2 DEF ConnInv
    <3> QED
      BY <1>9, <2>2, <3>1 DEF OnReadySignal
  <2> QED
    BY <2>1, <2>2
<1>10. CASE OnMessage
  BY <1>10 DEF OnMessage, ReadyBegin
<1>11. CASE OnAckReceived
  <2>1. TakeEvent("ack") /\ pc = "idle"
    BY <1>11 DEF OnAckReceived, TakeEvent
  <2>2. Pending("ready") => Pending("ready")'
    BY <2>1, PendingTake
  <2> QED
    BY <1>11, <2>1, <2>2 DEF OnAckReceived
<1>12. CASE \E m \in RemoteMsg : OnDataReceived(m)
  <2> PICK m \in RemoteMsg : OnDataReceived(m)
    BY <1>12
  <2>1. /\ TakeEvent(m) /\ pc = "idle" /\ m # "ready"
    BY ChannelAssumption DEF OnDataReceived, TakeEvent
  <2>2. Pending("ready") => Pending("ready")'
    BY <2>1, PendingTake
  <2>3. state_' # "kClosed" => state_ # "kClosed"
    BY CloseFacts DEF OnDataReceived
  <2>4. UNCHANGED <<pc, failed, queued_control_data_, queued_send_data_,
                    ready_to_send_data_>>
    BY DEF OnDataReceived
  <2> QED
    BY <2>1, <2>2, <2>3, <2>4
<1>13. CASE OnStreamClosedRemotely
  <2>1. TakeEvent("streamclosed") /\ pc = "idle"
    BY <1>13 DEF OnStreamClosedRemotely, TakeEvent
  <2>2. Pending("ready") => Pending("ready")'
    BY <2>1, PendingTake
  <2> QED
    BY <1>13, <2>1, <2>2, CloseFacts DEF OnStreamClosedRemotely
<1>14. CASE SendQueuedControlMessages
  <2>1. /\ Pending("ready")' <=> Pending("ready")
        /\ UNCHANGED <<failed, queued_send_data_>>
    BY <1>14, PendingSame DEF SendQueuedControlMessages
  <2>2. state_' # "kClosed" => state_ # "kClosed"
    BY <1>14, CloseFacts DEF SendQueuedControlMessages, SendControlMessage
  <2>3. \/ ready_to_send_data_' = FALSE
        \/ UNCHANGED <<ready_to_send_data_, queued_control_data_>>
    BY <1>14 DEF SendQueuedControlMessages, SendControlMessage, Answer
  <2>4. pc' \in {"idle", "update"} => pc \in {"idle", "update"}
    BY <1>14 DEF SendQueuedControlMessages
  <2> QED
    BY <2>1, <2>2, <2>3, <2>4
<1>15. CASE SendQueuedDataMessages
  <2>1. /\ Pending("ready")' <=> Pending("ready")
        /\ UNCHANGED queued_control_data_
    BY <1>15, PendingSame DEF SendQueuedDataMessages
  <2>2. CASE queued_send_data_ = <<>>
    BY <1>15, <2>1, <2>2 DEF SendQueuedDataMessages
  <2>3. CASE queued_send_data_ # <<>>
    <3>1. PICK r \in Results(TRUE) :
            /\ Answer(r)
            /\ \/ r = "success" /\ UNCHANGED <<pc, channel, failed>>
               \/ r = "block"
               \/ r = "error" /\ failed' = TRUE
      BY <1>15, <2>3 DEF SendQueuedDataMessages
    <3> QED
      BY <1>15, <2>1, <3>1 DEF Answer, SendQueuedDataMessages
  <2> QED
    BY <2>2, <2>3
<1>16. CASE SendHandshake
  <2>1. /\ Pending("ready")' <=> Pending("ready")
        /\ UNCHANGED <<failed, queued_send_data_>>
    BY <1>16, PendingSame DEF SendHandshake
  <2>2. state_' # "kClosed" => state_ # "kClosed"
    BY <1>16, CloseFacts DEF SendHandshake, SendControlMessage
  <2>3. \/ ready_to_send_data_' = FALSE
        \/ UNCHANGED <<ready_to_send_data_, queued_control_data_>>
    BY <1>16 DEF SendHandshake, SendControlMessage, Answer
  <2>4. pc' \in {"idle", "update"} => pc \in {"idle", "update"}
    BY <1>16 DEF SendHandshake
  <2> QED
    BY <2>1, <2>2, <2>3, <2>4
<1>17. CASE UpdateState
  <2>1. Pending("ready")' <=> Pending("ready")
    BY <1>17, PendingSame DEF UpdateState
  <2>2. state_' # "kClosed" => state_ # "kClosed"
    BY <1>17, CloseFacts DEF UpdateState, MayOpen
  <2> QED
    BY <1>17, <2>1, <2>2 DEF UpdateState
<1>18. CASE SetReadyToSendData
  <2>1. events' = Append(events, "ready") /\ "ready" \in Event
    BY <1>18 DEF SetReadyToSendData, Posts, Event
  <2>2. Pending("ready")' <=> Pending("ready") \/ "ready" = "ready"
    BY <2>1, PendingAdd
  <2> QED
    BY <1>18, <2>2 DEF SetReadyToSendData
<1>19. CASE OtherBlocks
  BY <1>19 DEF OtherBlocks
<1>20. CASE PeerAcks
  <2>1. events' = Append(events, "ack") /\ "ack" \in Event
    BY <1>20 DEF PeerAcks, Posts, Event
  <2>2. Pending("ready")' <=> Pending("ready") \/ "ready" = "ack"
    BY <2>1, PendingAdd
  <2> QED
    BY <1>20, <2>2 DEF PeerAcks
<1>21. CASE OnStreamResetEvent
  <2>1. events' = Append(events, "streamclosed") /\ "streamclosed" \in Event
    BY <1>21 DEF OnStreamResetEvent, Posts, Event
  <2>2. Pending("ready")' <=> Pending("ready") \/ "ready" = "streamclosed"
    BY <2>1, PendingAdd
  <2> QED
    BY <1>21, <2>2 DEF OnStreamResetEvent
<1>22. CASE \E m \in RemoteMsg : PeerSends(m)
  <2> PICK m \in RemoteMsg : PeerSends(m)
    BY <1>22
  <2>1. events' = Append(events, m) /\ m \in Event
    BY DEF PeerSends, Posts, Event
  <2>2. Pending("ready") => Pending("ready")'
    BY <2>1, PendingAdd
  <2> QED
    BY <2>2 DEF PeerSends
<1>23. CASE UNCHANGED vars
  BY <1>23, PendingSame DEF vars
<1> QED
  BY <1>1, <1>2, <1>3, <1>4, <1>5, <1>6, <1>7, <1>8, <1>9, <1>10, <1>11, <1>12,
     <1>13, <1>14, <1>15, <1>16, <1>17, <1>18, <1>19, <1>20, <1>21, <1>22, <1>23 DEF
     Next, Api, OnEvent, ReadyStep, Network

-----------------------------------------------------------------------------
(* The state of the channel. *)

LEMMA RankStep ==
  ASSUME TypeInv, [Next]_vars
  PROVE  Rank(state_) <= Rank(state_')
<1> USE DEF Rank, TypeInv, config, channel, sending, receiving, control, session, network
<1>1. CASE \E r \in {"kOpener", "kAcker", "kNone"}, o, i \in BOOLEAN : Create(r, o, i)
  BY <1>1 DEF Create
<1>2. CASE SetSctpSid
  BY <1>2 DEF SetSctpSid
<1>3. CASE OnTransportChannelCreated
  BY <1>3 DEF OnTransportChannelCreated
<1>4. CASE OnTransportChannelDestroyed
  BY <1>4 DEF OnTransportChannelDestroyed
<1>5. CASE RegisterObserver
  BY <1>5 DEF RegisterObserver
<1>6. CASE UnregisterObserver
  BY <1>6 DEF UnregisterObserver
<1>7. CASE Close
  <2>1. state_' = state_ \/ state_' \in {"kClosing", "kClosed"}
    BY <1>7, CloseFacts DEF Close
  <2>2. state_ = "kClosed" => state_' = "kClosed"
    BY <1>7, CloseFacts DEF Close
  <2> QED
    BY <2>1, <2>2
<1>8. CASE \E m \in Msg : Send(m)
  <2>1. state_' = state_ \/ state_' \in {"kClosing", "kClosed"}
    BY <1>8, CloseFacts DEF Send, QueueOrClose
  <2>2. state_ = "kClosed" => state_' = "kClosed"
    BY <1>8, CloseFacts DEF Send, QueueOrClose
  <2> QED
    BY <2>1, <2>2
<1>9. CASE OnReadySignal
  BY <1>9 DEF OnReadySignal
<1>10. CASE OnMessage
  BY <1>10 DEF OnMessage
<1>11. CASE OnAckReceived
  BY <1>11 DEF OnAckReceived
<1>12. CASE \E m \in RemoteMsg : OnDataReceived(m)
  <2>1. state_' = state_ \/ state_' \in {"kClosing", "kClosed"}
    BY <1>12, CloseFacts DEF OnDataReceived
  <2>2. state_ = "kClosed" => state_' = "kClosed"
    BY <1>12, CloseFacts DEF OnDataReceived
  <2> QED
    BY <2>1, <2>2
<1>13. CASE OnStreamClosedRemotely
  <2>1. state_' = state_ \/ state_' \in {"kClosing", "kClosed"}
    BY <1>13, CloseFacts DEF OnStreamClosedRemotely
  <2>2. state_ = "kClosed" => state_' = "kClosed"
    BY <1>13, CloseFacts DEF OnStreamClosedRemotely
  <2> QED
    BY <2>1, <2>2
<1>14. CASE SendQueuedControlMessages
  <2>1. state_' = state_ \/ state_' \in {"kClosing", "kClosed"}
    BY <1>14, CloseFacts DEF SendQueuedControlMessages, SendControlMessage
  <2>2. state_ = "kClosed" => state_' = "kClosed"
    BY <1>14, CloseFacts DEF SendQueuedControlMessages, SendControlMessage
  <2> QED
    BY <2>1, <2>2
<1>15. CASE SendQueuedDataMessages
  <2>1. state_' = state_ \/ state_' \in {"kClosing", "kClosed"}
    BY <1>15, CloseFacts DEF SendQueuedDataMessages
  <2>2. state_ = "kClosed" => state_' = "kClosed"
    BY <1>15, CloseFacts DEF SendQueuedDataMessages
  <2> QED
    BY <2>1, <2>2
<1>16. CASE SendHandshake
  <2>1. state_' = state_ \/ state_' \in {"kClosing", "kClosed"}
    BY <1>16, CloseFacts DEF SendHandshake, SendControlMessage
  <2>2. state_ = "kClosed" => state_' = "kClosed"
    BY <1>16, CloseFacts DEF SendHandshake, SendControlMessage
  <2> QED
    BY <2>1, <2>2
<1>17. CASE UpdateState
  <2>1. \/ state_' = state_
        \/ state_ = "kConnecting" /\ state_' = "kOpen"
        \/ state_ = "kClosing" /\ state_' \in {"kClosing", "kClosed"}
    BY <1>17, CloseFacts DEF UpdateState, MayOpen
  <2> QED
    BY <2>1
<1>18. CASE SetReadyToSendData
  BY <1>18 DEF SetReadyToSendData
<1>19. CASE OtherBlocks
  BY <1>19 DEF OtherBlocks
<1>20. CASE PeerAcks
  BY <1>20 DEF PeerAcks
<1>21. CASE OnStreamResetEvent
  BY <1>21 DEF OnStreamResetEvent
<1>22. CASE \E m \in RemoteMsg : PeerSends(m)
  BY <1>22 DEF PeerSends
<1>23. CASE UNCHANGED vars
  BY <1>23 DEF vars
<1> QED
  BY <1>1, <1>2, <1>3, <1>4, <1>5, <1>6, <1>7, <1>8, <1>9, <1>10, <1>11, <1>12,
     <1>13, <1>14, <1>15, <1>16, <1>17, <1>18, <1>19, <1>20, <1>21, <1>22, <1>23 DEF
     Next, Api, OnEvent, ReadyStep, Network

-----------------------------------------------------------------------------
(* Theorems. *)

\* The initial states.
LEMMA InitHolds ==
  ASSUME Init
  PROVE  /\ TypeInv /\ NewInv /\ ConnInv /\ HandInv /\ UpInv /\ NoneInv /\ StallInv
         /\ SentInOrder /\ ReceivedInOrder
<1>1. TypeInv
  BY DEF Init, TypeInv
<1>2. NewInv /\ ConnInv /\ NoneInv /\ StallInv
  BY DEF Init, NewInv, ConnInv, NoneInv, StallInv
<1>3. HandInv
  BY DEF Init, HandInv
<1>4. UpInv
  BY DEF Init, UpInv, Pending
<1>5. <<>> \o <<>> = <<>>
  BY ConcatEmptySeq
<1>6. SentInOrder /\ ReceivedInOrder
  BY <1>5 DEF Init, SentInOrder, ReceivedInOrder
<1> QED
  BY <1>1, <1>2, <1>3, <1>4, <1>6

\* The types of the queues, the histories and the control state.
LEMMA TypesHold == Spec => []TypeInv
<1>1. Init => TypeInv
  BY InitHolds
<1>2. TypeInv /\ [Next]_vars => TypeInv'
  BY TypeStep
<1> QED
  BY <1>1, <1>2, PTL DEF Spec

\* Every variable keeps its type.  The byte counts are those of what is queued, so
\* that taking a message off the send queue never brings its count below zero, and
\* the two queues stay within their limits, the send queue but for its last message.
THEOREM TypeCorrect == Spec => []TypeOK
<1>1. Init => BytesInv
  <2> SUFFICES ASSUME Init PROVE BytesInv
    OBVIOUS
  <2>1. Counts(queued_send_data_, send_bytes)
    BY CountsEmpty DEF Init
  <2> QED
    BY <2>1, ChannelAssumption DEF Init, BytesInv
<1>2. Init => FlagInv
  BY DEF Init, FlagInv
<1>3. Init => CountInv
  BY DEF Init, CountInv
<1>4. TypeInv /\ BytesInv /\ [Next]_vars => BytesInv'
  BY BytesStep
<1>5. FlagInv /\ [Next]_vars => FlagInv'
  BY FlagStep
<1>6. CountInv /\ [Next]_vars => CountInv'
  BY CountStep
<1>7. TypeInv /\ BytesInv /\ FlagInv /\ CountInv => TypeOK
  <2> SUFFICES ASSUME TypeInv, BytesInv, FlagInv, CountInv PROVE TypeOK
    OBVIOUS
  <2>1. send_bytes \in Nat
    BY CountsNat DEF TypeInv, BytesInv
  <2> QED
    BY <2>1, Zenon DEF TypeInv, BytesInv, FlagInv, CountInv, TypeOK
<1> QED
  BY <1>1, <1>2, <1>3, <1>4, <1>5, <1>6, <1>7, TypesHold, PTL DEF Spec

LEMMA NewHolds == Spec => [](TypeInv /\ NewInv)
<1>1. Init => NewInv
  BY InitHolds
<1>2. TypeInv /\ NewInv /\ [Next]_vars => NewInv'
  BY NewStep
<1> QED
  BY <1>1, <1>2, TypesHold, PTL DEF Spec

\* What Send took on leaves in order and nothing of it is lost, however often the
\* transport blocks and whatever the application, the session and the peer do.
THEOREM SentInOrderHolds == Spec => []SentInOrder
<1>1. Init => SentInOrder
  BY InitHolds
<1>2. TypeInv /\ SentInOrder /\ [Next]_vars => SentInOrder'
  BY SentStep
<1> QED
  BY <1>1, <1>2, TypesHold, PTL DEF Spec

\* The observer gets what arrives in order, also across changes of the observer and
\* the opening of the channel.
THEOREM ReceivedInOrderHolds == Spec => []ReceivedInOrder
<1>1. Init => ReceivedInOrder
  BY InitHolds
<1>2. TypeInv /\ NewInv /\ ReceivedInOrder /\ [Next]_vars => ReceivedInOrder'
  BY ReceivedStep
<1> QED
  BY <1>1, <1>2, NewHolds, PTL DEF Spec

\* OPEN is sent before data, and data is ordered until the peer was heard from.
THEOREM OpenComesFirstHolds == Spec => []OpenComesFirst
<1>1. Init => HandInv
  BY InitHolds
<1>2. TypeInv /\ NewInv /\ HandInv /\ [Next]_vars => HandInv'
  BY HandStep
<1>3. HandInv => OpenComesFirst
  BY DEF HandInv, OpenComesFirst
<1> QED
  BY <1>1, <1>2, <1>3, NewHolds, PTL DEF Spec

LEMMA ConnHolds == Spec => []ConnInv
<1>1. Init => ConnInv
  BY InitHolds
<1>2. TypeInv /\ NewInv /\ ConnInv /\ [Next]_vars => ConnInv'
  BY ConnStep
<1> QED
  BY <1>1, <1>2, NewHolds, PTL DEF Spec

\* The assertions of the code hold.
THEOREM AssertionsHoldHolds == Spec => []AssertionsHold
<1>1. Init => UpInv /\ NoneInv
  BY InitHolds
<1>2. TypeInv /\ NewInv /\ UpInv /\ [Next]_vars => UpInv'
  BY UpStep
<1>3. TypeInv /\ NewInv /\ NoneInv /\ [Next]_vars => NoneInv'
  BY NoneStep
<1>4. TypeInv /\ UpInv /\ NoneInv /\ ConnInv /\ SentInOrder => AssertionsHold
  BY DEF TypeInv, UpInv, NoneInv, ConnInv, SentInOrder, AssertionsHold
<1> QED
  BY <1>1, <1>2, <1>3, <1>4, NewHolds, ConnHolds, SentInOrderHolds, PTL DEF Spec

\* No channel waits for a signal that nobody owes it.
THEOREM NoStallHolds == Spec => []NoStall
<1>1. Init => StallInv
  BY InitHolds
<1>2. TypeInv /\ NewInv /\ ConnInv /\ StallInv /\ [Next]_vars => StallInv'
  BY StallStep
<1>3. ConnInv /\ StallInv => NoStall
  BY DEF ConnInv, StallInv, NoStall
<1> QED
  BY <1>1, <1>2, <1>3, NewHolds, ConnHolds, PTL DEF Spec

\* The state of a channel only moves forward.
THEOREM NeverBackHolds == Spec => NeverBack
<1>1. TypeInv /\ [Next]_vars => [Rank(state_) <= Rank(state_')]_vars
  BY RankStep
<1> QED
  BY <1>1, TypesHold, PTL DEF Spec, NeverBack

=============================================================================
