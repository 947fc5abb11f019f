---------------------------- MODULE DataChannel ----------------------------
(***************************************************************************)
(* One SCTP data channel, webrtc::DataChannel (webrtc/pc/datachannel.cc),  *)
(* and what it sees of the session and the SCTP transport below it.        *)
(*                                                                         *)
(* The channel lives on the signaling thread.  provider_->SendData runs on *)
(* the network thread, by Invoke, so each attempt to send is a step of its *)
(* own; pc tells where the signaling thread is between two of them.  The   *)
(* network thread reports to the channel by closures that it posts to the  *)
(* signaling thread (events).                                              *)
(***************************************************************************)
EXTENDS Integers, Sequences

CONSTANTS
  Msg,                 \* the messages that the application sends, once each
  RemoteMsg,           \* the messages that the remote peer sends, once each
  size,                \* the size of each message
  kMaxQueuedSendDataBytes, kMaxQueuedReceivedDataBytes,
  MayFail,             \* the transport may fail otherwise than by blocking
  MaxBlocks,           \* bound of the model: how often sending blocks
  MaxEvents            \* bound of the model: closures that wait

ASSUME ChannelAssumption ==
  /\ Msg \cap RemoteMsg = {}
  /\ size \in [Msg \cup RemoteMsg -> Nat \ {0}]
  /\ kMaxQueuedSendDataBytes \in Nat \ {0}
  /\ kMaxQueuedReceivedDataBytes \in Nat \ {0}
  /\ MayFail \in BOOLEAN
  /\ MaxBlocks \in Nat /\ MaxEvents \in Nat
  /\ RemoteMsg \cap {"ready", "channelready", "ack", "streamclosed"} = {}

VARIABLES
  pc,                  \* what the signaling thread is doing for the channel
  role, ordered, id,   \* config_: open_handshake_role, ordered; id: a sid is set
  observer_,           \* an observer is registered
  state_, handshake_state_, connected_to_provider_, writable_,
  queued_control_data_, queued_send_data_, queued_received_data_,
  send_bytes, received_bytes,    \* byte_count_ of the two data queues
  control_packets,     \* local of SendQueuedControlMessages
  sctp_transport_, sctp_ready_to_send_data_,   \* WebRtcSession
  ready_to_send_data_, stream,   \* SctpTransport; the sid is in open_streams_
  up,                  \* the association has been connected
  events,              \* closures posted to the signaling thread
  blocks,              \* how often sending has blocked so far
  unsent,              \* the messages, and the OPEN_ACK, not sent yet on either side
  submitted,           \* history: the messages that Send took on, in order
  accepted,            \* history: those that the transport took, in order
  arrived, delivered,  \* history: messages taken by the channel, by the observer
  opened, heard,       \* history: OPEN was sent; something came from the peer
  early,               \* history: what was sent unordered before that
  failed               \* history: a queued message could not be sent

config  == <<role, ordered, id>>
channel == <<state_, connected_to_provider_, stream>>
sending == <<queued_send_data_, send_bytes, submitted, accepted>>
receiving == <<queued_received_data_, received_bytes, arrived, delivered>>
control == <<handshake_state_, queued_control_data_, opened>>
session == <<sctp_transport_, sctp_ready_to_send_data_, up>>
network == <<ready_to_send_data_, blocks>>
vars == <<pc, config, observer_, channel, writable_, sending, receiving, control,
          control_packets, session, network, events, unsent, heard, early, failed>>

Control == {"OPEN", "ACK"}
Event == {"ready", "channelready", "ack", "streamclosed"} \cup RemoteMsg

\* Types of the variables.  The two data queues are bounded: the receive queue by its
\* limit, the send queue by its limit and the message that was added last, since
\* QueueSendDataMessage tests the limit before it adds.
TypeOK ==
  /\ pc \in {"new", "idle", "control", "data", "update"}
  /\ role \in {"kOpener", "kAcker", "kNone"} /\ ordered \in BOOLEAN /\ id \in BOOLEAN
  /\ observer_ \in BOOLEAN
  /\ state_ \in {"kConnecting", "kOpen", "kClosing", "kClosed"}
  /\ handshake_state_ \in {"init", "shouldSendOpen", "shouldSendAck", "waitingForAck",
                           "ready"}
  /\ connected_to_provider_ \in BOOLEAN /\ writable_ \in BOOLEAN
  /\ queued_control_data_ \in Seq(Control) /\ control_packets \in Seq(Control)
  /\ queued_send_data_ \in Seq(Msg) /\ send_bytes \in Nat
  /\ queued_send_data_ # <<>> => send_bytes < kMaxQueuedSendDataBytes
                                   + size[queued_send_data_[Len(queued_send_data_)]]
  /\ queued_received_data_ \in Seq(RemoteMsg)
  /\ received_bytes \in 0..kMaxQueuedReceivedDataBytes
  /\ sctp_transport_ \in BOOLEAN /\ sctp_ready_to_send_data_ \in BOOLEAN
  /\ ready_to_send_data_ \in BOOLEAN /\ stream \in BOOLEAN /\ up \in BOOLEAN
  /\ events \in Seq(Event) /\ blocks \in Nat
  /\ unsent \subseteq Msg \cup RemoteMsg \cup {"ack"}
  /\ submitted \in Seq(Msg) /\ accepted \in Seq(Msg)
  /\ arrived \in Seq(RemoteMsg) /\ delivered \in Seq(RemoteMsg)
  /\ opened \in BOOLEAN /\ heard \in BOOLEAN /\ failed \in BOOLEAN
  /\ early \subseteq {"control", "data"}

Init ==
  /\ pc = "new"
  /\ role = "kNone" /\ ordered = TRUE /\ id = FALSE
  /\ observer_ = FALSE
  /\ state_ = "kConnecting" /\ handshake_state_ = "init"
  /\ connected_to_provider_ = FALSE /\ writable_ = FALSE
  /\ queued_control_data_ = <<>> /\ control_packets = <<>>
  /\ queued_send_data_ = <<>> /\ send_bytes = 0
  /\ queued_received_data_ = <<>> /\ received_bytes = 0
  /\ sctp_transport_ = FALSE /\ sctp_ready_to_send_data_ = FALSE
  /\ ready_to_send_data_ = FALSE /\ stream = FALSE /\ up = FALSE
  /\ events = <<>> /\ blocks = 0
  /\ unsent = Msg \cup RemoteMsg \cup {"ack"}
  /\ submitted = <<>> /\ accepted = <<>> /\ arrived = <<>> /\ delivered = <<>>
  /\ opened = FALSE /\ heard = FALSE /\ early = {} /\ failed = FALSE

-----------------------------------------------------------------------------
(* The parts that several operations share. *)

\* A closure, or the channel's own message, waits.
Pending(e) == \E i \in 1..Len(events) : events[i] = e

\* Close, DoClose and what UpdateState does in kClosing, when sendq and controlq
\* are what is left in the queues.
CloseWith(sendq, controlq) ==
  \/ /\ state_ = "kClosed"
     /\ UNCHANGED channel
  \/ /\ state_ # "kClosed" /\ sendq = <<>> /\ controlq = <<>>
     /\ state_' = "kClosed"
     /\ connected_to_provider_' = FALSE
     /\ stream' = (stream /\ ~(connected_to_provider_ /\ id))
  \/ /\ state_ # "kClosed" /\ (sendq # <<>> \/ controlq # <<>>)
     /\ state_' = "kClosing"
     /\ UNCHANGED <<connected_to_provider_, stream>>

\* What SendData may answer.  Data needs an open stream; a control message does not.
Results(isData) ==
  IF isData /\ ~stream THEN {"error"}
  ELSE {"success"} \cup {r \in {"block"} : blocks < MaxBlocks}
                   \cup {r \in {"error"} : MayFail}

\* The transport's side of an answer.
Answer(r) ==
  IF r = "block" THEN ready_to_send_data_' = FALSE /\ blocks' = blocks + 1
                 ELSE UNCHANGED network

\* History: a message was sent, unordered or not, to a peer that may not know the
\* channel yet.
Record(kind, isOrdered) ==
  early' = early \cup {k \in {kind} : role = "kOpener" /\ ~heard /\ ~isOrdered}

\* A mutant of DataOrdered: the handshake does not matter.
DataOrderedAsConfigured == ordered

\* send_params.ordered of SendDataMessage
DataOrdered == ordered \/ handshake_state_ # "ready"

\* SendControlMessage, when SendData answers r.
SendControlMessage(r, msg) ==
  /\ r \in Results(FALSE) /\ Answer(r)
  /\ IF r = "success"
       THEN /\ handshake_state_' =
                 CASE handshake_state_ = "shouldSendAck" -> "ready"
                   [] handshake_state_ = "shouldSendOpen" -> "waitingForAck"
                   [] OTHER -> handshake_state_
            /\ opened' = (opened \/ msg = "OPEN")
            /\ Record("control", ordered \/ handshake_state_ = "shouldSendOpen")
       ELSE UNCHANGED <<handshake_state_, opened, early>>
  /\ IF r = "block" THEN queued_control_data_' = Append(queued_control_data_, msg)
                    ELSE UNCHANGED queued_control_data_
  /\ IF r = "error" THEN CloseWith(queued_send_data_, queued_control_data_)
                    ELSE UNCHANGED channel

\* A mutant of DeliverQueuedReceivedData: the queue waits for the next observer.
DeliverNothing == UNCHANGED receiving

DeliverQueuedReceivedData ==
  /\ delivered' = delivered \o queued_received_data_
  /\ queued_received_data_' = <<>> /\ received_bytes' = 0
  /\ UNCHANGED arrived

-----------------------------------------------------------------------------
(* The application and the session, on the signaling thread. *)

\* DataChannel::Create and Init.  An acker is created by an OPEN that has arrived;
\* a sid may only be missing as long as the role of this side is not known, and a
\* negotiated channel has one.
Create(r, o, hasId) ==
  /\ pc = "new"
  /\ r = "kAcker" => up /\ sctp_transport_
  /\ hasId \/ (~up /\ r = "kOpener")
  /\ role' = r /\ ordered' = o /\ id' = hasId
  /\ handshake_state_' = CASE r = "kOpener" -> "shouldSendOpen"
                           [] r = "kAcker" -> "shouldSendAck"
                           [] r = "kNone" -> "ready"
  /\ connected_to_provider_' = sctp_transport_
  /\ stream' = (sctp_transport_ /\ hasId)
  /\ events' = IF sctp_ready_to_send_data_ THEN Append(events, "channelready")
                                           ELSE events
  /\ heard' = (r = "kAcker")
  /\ pc' = "idle"
  /\ UNCHANGED <<observer_, state_, writable_, sending, receiving,
                 queued_control_data_, opened, control_packets, session, network,
                 unsent, early, failed>>

SetSctpSid ==
  /\ pc = "idle" /\ ~id /\ state_ # "kClosed"
  /\ id' = TRUE
  /\ stream' = sctp_transport_
  /\ UNCHANGED <<pc, role, ordered, observer_, state_, connected_to_provider_,
                 writable_, sending, receiving, control, control_packets, session,
                 network, events, unsent, heard, early, failed>>

\* The session creates its SCTP transport and tells the channel, if there is one.
OnTransportChannelCreated ==
  /\ pc \in {"new", "idle"} /\ ~sctp_transport_ /\ state_ # "kClosed"
  /\ sctp_transport_' = TRUE
  /\ connected_to_provider_' = (pc = "idle")
  /\ stream' = (pc = "idle" /\ id)
  /\ UNCHANGED <<pc, config, observer_, state_, writable_, sending, receiving,
                 control, control_packets, sctp_ready_to_send_data_, up, network,
                 events, unsent, heard, early, failed>>

\* The session tells a channel that is not closed, and then destroys the transport,
\* with the closures that the network thread has posted.  The channel's own message,
\* of which there is one at most, stays.
OnTransportChannelDestroyed ==
  /\ pc = "idle" /\ sctp_transport_ /\ state_ # "kClosed"
  /\ queued_send_data_' = <<>> /\ send_bytes' = 0 /\ queued_control_data_' = <<>>
  /\ state_' = "kClosed" /\ connected_to_provider_' = FALSE
  /\ sctp_transport_' = FALSE /\ sctp_ready_to_send_data_' = FALSE
  /\ stream' = FALSE /\ ready_to_send_data_' = FALSE
  /\ events' = IF Pending("channelready") THEN <<"channelready">> ELSE <<>>
  /\ submitted' = accepted
  /\ UNCHANGED <<pc, config, observer_, writable_, accepted, receiving,
                 handshake_state_, opened, control_packets, up, blocks, unsent,
                 heard, early, failed>>

RegisterObserver ==
  /\ pc = "idle" /\ ~observer_
  /\ observer_' = TRUE
  /\ DeliverQueuedReceivedData
  /\ UNCHANGED <<pc, config, channel, writable_, sending, control, control_packets,
                 session, network, events, unsent, heard, early, failed>>

UnregisterObserver ==
  /\ pc = "idle" /\ observer_
  /\ observer_' = FALSE
  /\ UNCHANGED <<pc, config, channel, writable_, sending, receiving, control,
                 control_packets, session, network, events, unsent, heard, early,
                 failed>>

Close ==
  /\ pc = "idle" /\ state_ # "kClosed"
  /\ CloseWith(queued_send_data_, queued_control_data_)
  /\ UNCHANGED <<pc, config, observer_, writable_, sending, receiving, control,
                 control_packets, session, network, events, unsent, heard, early,
                 failed>>

\* A mutant of BufferFull: there is no limit.
BufferNeverFull == FALSE

\* QueueSendDataMessage refuses.
BufferFull == send_bytes >= kMaxQueuedSendDataBytes

\* QueueSendDataMessage, and Close() if it refuses.
QueueOrClose(m) ==
  \/ /\ BufferFull
     /\ CloseWith(queued_send_data_, queued_control_data_)
     /\ UNCHANGED sending
  \/ /\ ~BufferFull
     /\ queued_send_data_' = Append(queued_send_data_, m)
     /\ send_bytes' = send_bytes + size[m]
     /\ submitted' = Append(submitted, m)
     /\ UNCHANGED <<channel, accepted>>

\* A mutant of MustQueue: every message is tried at once.
NeverQueue == FALSE

\* "If the queue is non-empty, we're waiting for SignalReadyToSend"
MustQueue == queued_send_data_ # <<>>

\* Send of a message that is not empty, on an open channel.
Send(m) ==
  /\ pc = "idle" /\ state_ = "kOpen" /\ m \in unsent
  /\ unsent' = unsent \ {m}
  /\ \/ /\ MustQueue
        /\ QueueOrClose(m)
        /\ UNCHANGED <<network, early>>
     \/ /\ ~MustQueue
        /\ \E r \in Results(TRUE) :
             /\ Answer(r)
             /\ \/ /\ r = "success"
                   /\ submitted' = Append(submitted, m)
                   /\ accepted' = Append(accepted, m)
                   /\ Record("data", DataOrdered)
                   /\ UNCHANGED <<channel, queued_send_data_, send_bytes>>
                \/ /\ r = "block"
                   /\ QueueOrClose(m)
                   /\ UNCHANGED early
                \/ /\ r = "error"
                   /\ CloseWith(queued_send_data_, queued_control_data_)
                   /\ UNCHANGED <<sending, early>>
  /\ UNCHANGED <<pc, config, observer_, writable_, receiving, control,
                 control_packets, session, events, heard, failed>>

-----------------------------------------------------------------------------
(* Closures from the network thread, and the channel's own message. *)

\* The session hears of a ready transport also while there is no channel yet.
TakeEvent(e) ==
  /\ pc = "idle" \/ (pc = "new" /\ e = "ready")
  /\ events # <<>> /\ Head(events) = e
  /\ events' = Tail(events)

\* OnChannelReady(true) begins: SendQueuedControlMessages swaps the queue.
ReadyBegin ==
  /\ writable_' = TRUE
  /\ control_packets' = queued_control_data_
  /\ queued_control_data_' = <<>>
  /\ pc' = "control"

\* OnSctpTransportReadyToSendData_s and the signal, which reaches a channel that
\* is connected.
OnReadySignal ==
  /\ TakeEvent("ready")
  /\ sctp_ready_to_send_data_' = TRUE
  /\ \/ connected_to_provider_ /\ ReadyBegin
     \/ /\ ~connected_to_provider_
        /\ UNCHANGED <<writable_, control_packets, queued_control_data_, pc>>
  /\ UNCHANGED <<config, observer_, channel, sending, receiving, handshake_state_,
                 opened, sctp_transport_, up, network, unsent, heard, early, failed>>

\* OnMessage(MSG_CHANNELREADY)
OnMessage ==
  /\ TakeEvent("channelready")
  /\ ReadyBegin
  /\ UNCHANGED <<config, observer_, channel, sending, receiving, handshake_state_,
                 opened, session, network, unsent, heard, early, failed>>

\* OnDataReceived of a control message that is no OPEN.
OnAckReceived ==
  /\ TakeEvent("ack")
  /\ heard' = (heard \/ connected_to_provider_)
  /\ handshake_state_' =
       IF connected_to_provider_ /\ handshake_state_ = "waitingForAck"
       THEN "ready" ELSE handshake_state_
  /\ UNCHANGED <<pc, config, observer_, channel, writable_, sending, receiving,
                 queued_control_data_, opened, control_packets, session, network,
                 unsent, early, failed>>

\* OnDataReceived of a message.
OnDataReceived(m) ==
  /\ TakeEvent(m)
  /\ \/ /\ ~connected_to_provider_
        /\ UNCHANGED <<receiving, channel, handshake_state_, heard>>
     \/ /\ connected_to_provider_
        /\ heard' = TRUE
        /\ handshake_state_' = IF handshake_state_ = "waitingForAck" THEN "ready"
                               ELSE handshake_state_
        /\ \/ /\ state_ = "kOpen" /\ observer_
              /\ arrived' = Append(arrived, m) /\ delivered' = Append(delivered, m)
              /\ UNCHANGED <<queued_received_data_, received_bytes, channel>>
           \/ /\ ~(state_ = "kOpen" /\ observer_)
              /\ received_bytes + size[m] <= kMaxQueuedReceivedDataBytes
              /\ arrived' = Append(arrived, m)
              /\ queued_received_data_' = Append(queued_received_data_, m)
              /\ received_bytes' = received_bytes + size[m]
              /\ UNCHANGED <<delivered, channel>>
           \/ /\ ~(state_ = "kOpen" /\ observer_)
              /\ received_bytes + size[m] > kMaxQueuedReceivedDataBytes
              /\ queued_received_data_' = <<>> /\ received_bytes' = 0
              /\ arrived' = delivered
              /\ UNCHANGED delivered
              /\ CloseWith(queued_send_data_, queued_control_data_)
  /\ UNCHANGED <<pc, config, observer_, writable_, sending, queued_control_data_,
                 opened, control_packets, session, network, unsent, early, failed>>

OnStreamClosedRemotely ==
  /\ TakeEvent("streamclosed")
  /\ \/ ~connected_to_provider_ /\ UNCHANGED channel
     \/ /\ connected_to_provider_
        /\ CloseWith(queued_send_data_, queued_control_data_)
  /\ UNCHANGED <<pc, config, observer_, writable_, sending, receiving, control,
                 control_packets, session, network, unsent, heard, early, failed>>

-----------------------------------------------------------------------------
(* OnChannelReady goes on. *)

\* The loop of SendQueuedControlMessages.
SendQueuedControlMessages ==
  /\ pc = "control"
  /\ \/ /\ control_packets = <<>>
        /\ pc' = "data"
        /\ UNCHANGED <<control, channel, control_packets, network, early>>
     \/ /\ control_packets # <<>>
        /\ \E r \in {"success", "block", "error"} :
             SendControlMessage(r, Head(control_packets))
        /\ control_packets' = Tail(control_packets)
        /\ UNCHANGED pc
  /\ UNCHANGED <<config, observer_, writable_, sending, receiving, session, events,
                 unsent, heard, failed>>

\* The loop of SendQueuedDataMessages.
SendQueuedDataMessages ==
  /\ pc = "data"
  /\ \/ /\ queued_send_data_ = <<>>
        /\ pc' = "update"
        /\ UNCHANGED <<channel, sending, network, early, failed>>
     \/ /\ queued_send_data_ # <<>>
        /\ \E r \in Results(TRUE) :
             /\ Answer(r)
             /\ \/ /\ r = "success"
                   /\ accepted' = Append(accepted, Head(queued_send_data_))
                   /\ queued_send_data_' = Tail(queued_send_data_)
                   /\ send_bytes' = send_bytes - size[Head(queued_send_data_)]
                   /\ Record("data", DataOrdered)
                   /\ UNCHANGED <<pc, channel, submitted, failed>>
                \/ /\ r = "block"
                   /\ pc' = "update"
                   /\ UNCHANGED <<channel, sending, early, failed>>
                \/ /\ r = "error"
                   /\ CloseWith(queued_send_data_, queued_control_data_)
                   /\ failed' = TRUE
                   /\ pc' = "update"
                   /\ UNCHANGED <<sending, early>>
  /\ UNCHANGED <<config, observer_, writable_, receiving, control, control_packets,
                 session, events, unsent, heard>>

\* The case kConnecting of UpdateState sends the handshake message that is due.
SendHandshake ==
  /\ pc = "update" /\ state_ = "kConnecting" /\ connected_to_provider_
  /\ handshake_state_ \in {"shouldSendOpen", "shouldSendAck"}
  /\ \E r \in {"success", "block", "error"} :
       SendControlMessage(r, IF handshake_state_ = "shouldSendOpen" THEN "OPEN"
                                                                    ELSE "ACK")
  /\ pc' = IF handshake_state_' \in {"ready", "waitingForAck"} THEN "update" ELSE "idle"
  /\ UNCHANGED <<config, observer_, writable_, sending, receiving, control_packets,
                 session, events, unsent, heard, failed>>

\* A mutant of MayOpen: a channel that closes opens too.
MayOpenAnytime == /\ connected_to_provider_ /\ writable_
                  /\ handshake_state_ \in {"ready", "waitingForAck"}

MayOpen == /\ state_ = "kConnecting" /\ connected_to_provider_ /\ writable_
           /\ handshake_state_ \in {"ready", "waitingForAck"}

\* A mutant of UpdateState: a channel that closes waits for another Close.
UpdateStateOpensOnly ==
  /\ pc = "update"
  /\ \/ /\ MayOpen
        /\ state_' = "kOpen"
        /\ IF observer_ THEN DeliverQueuedReceivedData ELSE UNCHANGED receiving
        /\ UNCHANGED <<connected_to_provider_, stream>>
     \/ ~MayOpen /\ UNCHANGED <<channel, receiving>>
  /\ pc' = "idle"
  /\ UNCHANGED <<config, observer_, writable_, sending, control, control_packets,
                 session, network, events, unsent, heard, early, failed>>

\* The rest of UpdateState.
UpdateState ==
  /\ pc = "update"
  /\ \/ /\ MayOpen
        /\ state_' = "kOpen"
        /\ IF observer_ THEN DeliverQueuedReceivedData ELSE UNCHANGED receiving
        /\ UNCHANGED <<connected_to_provider_, stream>>
     \/ /\ state_ = "kConnecting" /\ ~connected_to_provider_
        /\ UNCHANGED <<channel, receiving>>
     \/ /\ state_ = "kClosing"
        /\ CloseWith(queued_send_data_, queued_control_data_)
        /\ UNCHANGED receiving
     \/ /\ state_ \in {"kOpen", "kClosed"}
        /\ UNCHANGED <<channel, receiving>>
  /\ pc' = "idle"
  /\ UNCHANGED <<config, observer_, writable_, sending, control, control_packets,
                 session, network, events, unsent, heard, early, failed>>

-----------------------------------------------------------------------------
(* The network thread and the peer.  Only the posts are bounded by MaxEvents. *)

Posts(e) == Len(events) < MaxEvents /\ events' = Append(events, e)

\* A mutant of SetReadyToSendData: the flag is set and nobody is told.
SetReadyQuietly ==
  /\ sctp_transport_ /\ ~ready_to_send_data_
  /\ pc # "new" => id
  /\ ready_to_send_data_' = TRUE /\ up' = TRUE
  /\ UNCHANGED <<pc, config, observer_, channel, writable_, sending, receiving,
                 control, control_packets, sctp_transport_,
                 sctp_ready_to_send_data_, blocks, events, unsent, heard, early,
                 failed>>

\* A mutant of SetReadyToSendData: only the start of the association is signaled.
SetReadyOnce ==
  /\ sctp_transport_ /\ ~ready_to_send_data_
  /\ pc # "new" => id
  /\ ready_to_send_data_' = TRUE /\ up' = TRUE
  /\ IF up THEN UNCHANGED events ELSE Posts("ready")
  /\ UNCHANGED <<pc, config, observer_, channel, writable_, sending, receiving,
                 control, control_packets, sctp_transport_,
                 sctp_ready_to_send_data_, blocks, unsent, heard, early, failed>>

\* SetReadyToSendData: the association is up, or its buffers have drained.  By then
\* the role of this side is known and sids have been assigned.
SetReadyToSendData ==
  /\ sctp_transport_ /\ ~ready_to_send_data_
  /\ pc # "new" => id
  /\ ready_to_send_data_' = TRUE /\ up' = TRUE
  /\ Posts("ready")
  /\ UNCHANGED <<pc, config, observer_, channel, writable_, sending, receiving,
                 control, control_packets, sctp_transport_,
                 sctp_ready_to_send_data_, blocks, unsent, heard, early, failed>>

\* Another channel of the same transport is blocked.
OtherBlocks ==
  /\ ready_to_send_data_ /\ blocks < MaxBlocks
  /\ ready_to_send_data_' = FALSE /\ blocks' = blocks + 1
  /\ UNCHANGED <<pc, config, observer_, channel, writable_, sending, receiving,
                 control, control_packets, session, events, unsent, heard, early,
                 failed>>

\* The peer knows the channel: it was told by the OPEN, or has negotiated it or
\* opened it itself.
PeerKnows == up /\ sctp_transport_ /\ stream /\ (role = "kOpener" => opened)

\* The OPEN_ACK, once: an OPEN for a sid in use is refused.
PeerAcks ==
  /\ PeerKnows /\ role = "kOpener"
  /\ "ack" \in unsent
  /\ Posts("ack")
  /\ unsent' = unsent \ {"ack"}
  /\ UNCHANGED <<pc, config, observer_, channel, writable_, sending, receiving,
                 control, control_packets, session, network, heard, early, failed>>

PeerSends(m) ==
  /\ PeerKnows /\ m \in unsent
  /\ Posts(m)
  /\ unsent' = unsent \ {m}
  /\ UNCHANGED <<pc, config, observer_, channel, writable_, sending, receiving,
                 control, control_packets, session, network, heard, early, failed>>

\* OnStreamResetEvent for a stream that this side has not reset.
OnStreamResetEvent ==
  /\ PeerKnows
  /\ stream' = FALSE
  /\ Posts("streamclosed")
  /\ UNCHANGED <<pc, config, observer_, state_, connected_to_provider_, writable_,
                 sending, receiving, control, control_packets, session, network,
                 unsent, heard, early, failed>>

-----------------------------------------------------------------------------
OnEvent ==
  \/ OnReadySignal \/ OnMessage \/ OnAckReceived \/ OnStreamClosedRemotely
  \/ \E m \in RemoteMsg : OnDataReceived(m)

ReadyStep ==
  \/ SendQueuedControlMessages \/ SendQueuedDataMessages \/ SendHandshake
  \/ UpdateState

Api ==
  \/ \E r \in {"kOpener", "kAcker", "kNone"}, o, i \in BOOLEAN : Create(r, o, i)
  \/ SetSctpSid \/ RegisterObserver \/ UnregisterObserver \/ Close
  \/ OnTransportChannelCreated \/ OnTransportChannelDestroyed
  \/ \E m \in Msg : Send(m)

Network ==
  \/ SetReadyToSendData \/ OtherBlocks \/ PeerAcks \/ OnStreamResetEvent
  \/ \E m \in RemoteMsg : PeerSends(m)

Next == Api \/ OnEvent \/ ReadyStep \/ Network

Spec == Init /\ [][Next]_vars

\* The signaling thread runs what is posted to it, and a transport that is blocked
\* drains in the end.  Nobody has to create, use or close anything.
FairSpec ==
  /\ Spec
  /\ WF_vars(OnEvent) /\ WF_vars(ReadyStep) /\ WF_vars(SetReadyToSendData)

-----------------------------------------------------------------------------
(* Properties. *)

\* What Send took on leaves in that order and nothing of it is lost: it is with the
\* transport or still queued, however often sending blocks, and a channel that has
\* closed has nothing left ("close first makes sure all queued data gets sent",
\* datachannel_unittest.cc), unless its transport was destroyed.
SentInOrder ==
  /\ submitted = accepted \o queued_send_data_
  /\ state_ = "kClosed" => queued_send_data_ = <<>>

\* The observer gets what arrives, in that order, although observers come and go
\* and data may arrive before the channel is open: no message overtakes the queue.
ReceivedInOrder ==
  /\ arrived = delivered \o queued_received_data_
  /\ state_ = "kOpen" /\ observer_ => queued_received_data_ = <<>>

\* The peer of an opener gets no data before the OPEN, which creates the channel on
\* its side: OPEN is sent first, and data as ordered until something is heard from
\* the peer, also on an unordered channel.  (Not so a second copy of an OPEN that was
\* blocked, which may be sent unordered; the peer refuses it.)
OpenComesFirst ==
  /\ role = "kOpener" /\ accepted # <<>> => opened
  /\ "data" \notin early

\* The assertions of SendControlMessage and SendQueuedDataMessages hold: control
\* messages are only sent on a writable channel with a sid that is not negotiated
\* by other means, and data is only queued on a channel that was opened.
AssertionsHold ==
  /\ (pc = "control" /\ control_packets # <<>>)
       \/ (pc = "update" /\ state_ = "kConnecting" /\ connected_to_provider_
             /\ handshake_state_ \in {"shouldSendOpen", "shouldSendAck"})
     => writable_ /\ id /\ role # "kNone"
  /\ queued_send_data_ # <<>> => state_ \in {"kOpen", "kClosing"}

\* No stall: a channel with something queued has been, or will be, told when to go
\* on.  A transport that blocked has not drained yet, or its signal is on its way.
NoStall ==
  pc = "idle" /\ ~failed /\ state_ # "kClosed"
    /\ (queued_send_data_ # <<>> \/ queued_control_data_ # <<>>)
  => /\ connected_to_provider_
     /\ ~ready_to_send_data_ \/ Pending("ready")

Rank(s) == CASE s = "kConnecting" -> 0 [] s = "kOpen" -> 1
             [] s = "kClosing" -> 2 [] s = "kClosed" -> 3

\* A channel never goes back: not from closing to open when a handshake completes
\* late, and not from closed when a transport signal or a message comes in.
NeverBack == [][Rank(state_) <= Rank(state_')]_vars

\* A channel with a transport that is up opens or closes.
Opens ==
  (pc # "new" /\ state_ = "kConnecting" /\ connected_to_provider_ /\ up)
    ~> (state_ # "kConnecting")

\* A channel that closes gets there once its queues have drained, unless sending
\* what is queued fails.
Closes == (state_ = "kClosing") ~> (state_ = "kClosed" \/ failed)

\* datachannel_unittest.cc: "Tests that the DataChannel is closed on transport
\* errors".
ErrorCloses == failed ~> (state_ = "kClosed")
=============================================================================
