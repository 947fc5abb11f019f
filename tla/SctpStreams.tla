---------------------------- MODULE SctpStreams ----------------------------
(***************************************************************************)
(* The streams of two peers that share an SCTP association: how a peer     *)
(* connection gives out stream ids (SctpSidAllocator, pc/datachannel.cc,   *)
(* and pc/peerconnection.cc), and how cricket::SctpTransport               *)
(* (media/sctp/sctptransport.cc) opens and resets streams, so that an id   *)
(* can be used again.                                                      *)
(*                                                                         *)
(* A packet (wire) is read on the network thread.  What the SCTP stack     *)
(* makes of it, it posts to the same thread; here it is handled in the     *)
(* same step.  What concerns a channel is posted on to the signaling       *)
(* thread (sig), where it waits behind what the application does.          *)
(* The channels are those of module DataChannel with nothing queued: the   *)
(* association never blocks, and a channel that closes is closed at once.  *)
(***************************************************************************)
EXTENDS Integers, Sequences, FiniteSets

CONSTANTS
  kMaxSctpSid,         \* the highest stream id
  MaxChannels,         \* bound of the model: channels that are created
  MaxData              \* bound of the model: data messages that are sent

ASSUME StreamAssumption ==
  /\ kMaxSctpSid \in Nat \ {0}
  /\ MaxChannels \in Nat /\ MaxData \in Nat

\* The DTLS client and the DTLS server.
Peer == {"client", "server"}
Other(p) == IF p = "client" THEN "server" ELSE "client"

Sid == 0..kMaxSctpSid
Ch == 1..MaxChannels        \* the channels, in the order of their creation
None == [ch |-> 0]          \* no channel

\* The sids, once each, in the order of their ranks.
Listings(sids, rank) ==
  {q \in [1..Cardinality(sids) -> sids] :
     /\ \A s \in sids : \E i \in DOMAIN q : q[i] = s
     /\ \A i, j \in DOMAIN q : i < j => rank[q[i]] < rank[q[j]]}

\* early: a sid was taken while its last use was not over.  stranded: a stream was
\* reset before the association was up.  overtaken: the reset of a stream was handled
\* by the network thread while the signaling thread had yet to handle its OPEN.
Mishap == {"early", "stranded", "overtaken"}

VARIABLES
  used_sids_,          \* SctpSidAllocator, of each peer
  channels,            \* sctp_data_channels_: the channel on each sid of each peer
  open_streams_, queued_reset_streams_, sent_reset_streams_,   \* SctpTransport
  ready_to_send_data_, \* SctpTransport: the peer's own Connect is through
  up,                  \* the peer's SCTP stack has established the association
  busy,                \* the peer's SCTP stack has a reset of its own under way
  wire, sig,           \* packets and closures on their way to each peer
  created,             \* how many channels have been created
  said,                \* how many messages have been sent
  mishaps              \* history: what has happened that the code does not cope with

alloc   == <<used_sids_, channels>>
streams == <<open_streams_, queued_reset_streams_, sent_reset_streams_>>
conn    == <<ready_to_send_data_, up>>
stack   == <<busy, wire>>
bounds  == <<created, said>>
vars == <<alloc, streams, conn, stack, sig, bounds, mishaps>>

\* What travels.  Data, OPEN and OPEN_ACK messages keep their form on both queues.
Message == [k : {"data", "open", "ack"}, sid : Sid, ch : Ch]
Packet  == Message \cup [k : {"request", "agree", "refuse", "done"}, sids : SUBSET Sid]
Closure == Message \cup [k : {"closed"}, sid : Sid] \cup [k : {"ready"}, chs : SUBSET Ch]

\* Types, and the three sets of streams are disjoint: the else-ifs of OnStreamResetEvent
\* rely on it, and a stream that was reopened while its reset was under way would be lost
\* to one of them.
TypeOK ==
  /\ used_sids_ \in [Peer -> SUBSET Sid]
  /\ channels \in [Peer -> [Sid -> {None} \cup
                     [ch : Ch, state : {"kConnecting", "kOpen"}, opener : BOOLEAN]]]
  /\ open_streams_ \in [Peer -> SUBSET Sid]
  /\ queued_reset_streams_ \in [Peer -> SUBSET Sid]
  /\ sent_reset_streams_ \in [Peer -> SUBSET Sid]
  /\ \A p \in Peer : /\ open_streams_[p] \cap queued_reset_streams_[p] = {}
                     /\ open_streams_[p] \cap sent_reset_streams_[p] = {}
                     /\ queued_reset_streams_[p] \cap sent_reset_streams_[p] = {}
  /\ ready_to_send_data_ \in [Peer -> BOOLEAN]
  /\ up \in [Peer -> BOOLEAN] /\ busy \in [Peer -> BOOLEAN]
  /\ wire \in [Peer -> Seq(Packet)] /\ sig \in [Peer -> Seq(Closure)]
  /\ created \in 0..MaxChannels /\ said \in 0..MaxData
  /\ mishaps \subseteq Mishap

\* Both sides know their role and have an SctpTransport that is not connected yet.
Init ==
  /\ used_sids_ = [p \in Peer |-> {}]
  /\ channels = [p \in Peer |-> [s \in Sid |-> None]]
  /\ open_streams_ = [p \in Peer |-> {}]
  /\ queued_reset_streams_ = [p \in Peer |-> {}]
  /\ sent_reset_streams_ = [p \in Peer |-> {}]
  /\ ready_to_send_data_ = [p \in Peer |-> FALSE]
  /\ up = [p \in Peer |-> FALSE] /\ busy = [p \in Peer |-> FALSE]
  /\ wire = [p \in Peer |-> <<>>] /\ sig = [p \in Peer |-> <<>>]
  /\ created = 0 /\ said = 0 /\ mishaps = {}

-----------------------------------------------------------------------------
(* SctpTransport, on the network thread. *)

\* What is sent to the peer of p is put on its wire.
ToPeer(p, w, packet) == [w EXCEPT ![Other(p)] = Append(@, packet)]

\* The streams of p that are being reset.
Closing(p) == queued_reset_streams_[p] \cup sent_reset_streams_[p]

\* A mutant of MayOpen: a stream that is being reset is not refused.
MayOpenClosing(p, s) == s \notin open_streams_[p]

\* OpenStream accepts the sid.
MayOpen(p, s) == s \notin open_streams_[p] /\ s \notin Closing(p)

\* OpenStream, of which AddSctpDataStream ignores the result.
OpenStream(p, s) ==
  open_streams_' = [open_streams_ EXCEPT ![p] = @ \cup {t \in {s} : MayOpen(p, t)}]

\* SendQueuedStreamResets, when queued and sent are the two sets: one request for all
\* that is queued, unless the last one is not answered.  The stack takes no request
\* before the association is up, or while it has a reset under way (isBusy).  w is
\* what is on the wire so far.
SendQueuedStreamResets(p, queued, sent, isBusy, w) ==
  LET sends == sent = {} /\ queued # {} /\ up[p] /\ ~isBusy
  IN  /\ queued_reset_streams_' =
           [queued_reset_streams_ EXCEPT ![p] = IF sends THEN {} ELSE queued]
      /\ sent_reset_streams_' =
           [sent_reset_streams_ EXCEPT ![p] = IF sends THEN queued ELSE sent]
      /\ busy' = [busy EXCEPT ![p] = isBusy \/ sends]
      /\ wire' = IF sends THEN ToPeer(p, w, [k |-> "request", sids |-> queued]) ELSE w

\* A mutant of ResetStream: the stream is closed on this side only.
ForgetStream(p, s) ==
  /\ open_streams_' = [open_streams_ EXCEPT ![p] = @ \ {s}]
  /\ UNCHANGED <<queued_reset_streams_, sent_reset_streams_, stack>>

ResetStream(p, s) ==
  \/ /\ s \notin open_streams_[p]
     /\ UNCHANGED <<streams, stack>>
  \/ /\ s \in open_streams_[p]
     /\ open_streams_' = [open_streams_ EXCEPT ![p] = @ \ {s}]
     /\ SendQueuedStreamResets(p, queued_reset_streams_[p] \cup {s},
                               sent_reset_streams_[p], busy[p], wire)

-----------------------------------------------------------------------------
(* The peer connection and its channels, on the signaling thread. *)

\* DataChannel::Close of the channel on s, with empty queues: UpdateState disconnects
\* it, which resets the stream, and OnSctpDataChannelClosed releases the sid.
CloseChannel(p, s) ==
  /\ channels' = [channels EXCEPT ![p][s] = None]
  /\ used_sids_' = [used_sids_ EXCEPT ![p] = @ \ {s}]
  /\ ResetStream(p, s)

\* The closure that makes channels ready: the session's signal, for all of them, or the
\* MSG_CHANNELREADY of one.
PostReady(closures, chs) == Append(closures, [k |-> "ready", chs |-> chs])

\* The session has heard that the transport is ready.
SctpReady(p) ==
  /\ ready_to_send_data_[p]
  /\ \A i \in DOMAIN sig[p] : sig[p][i] # [k |-> "ready", chs |-> Ch]

\* InternalCreateDataChannel when the sid has been found, with DataChannel::Init.
CreateChannel(p, s, c, isOpener, closures) ==
  /\ used_sids_' = [used_sids_ EXCEPT ![p] = @ \cup {s}]
  /\ channels' = [channels EXCEPT ![p][s] =
                    [ch |-> c, state |-> "kConnecting", opener |-> isOpener]]
  /\ OpenStream(p, s)
  /\ sig' = [sig EXCEPT ![p] = IF SctpReady(p) THEN PostReady(closures, {c})
                                               ELSE closures]

\* The sids that AllocateSid tries: the client takes even numbers, the server odd ones.
Candidates(p, limit) == {s \in 0..limit : s % 2 = (IF p = "client" THEN 0 ELSE 1)}

\* AllocateSid: the first sid that is not in use, if there is one.
AllocateSid(p) ==
  LET free == Candidates(p, kMaxSctpSid) \ used_sids_[p]
  IN  {s \in free : \A t \in free : s <= t}

\* Something that is on its way is about s.
Mentions(queue, s) ==
  \E i \in DOMAIN queue :
    LET e == queue[i]
    IN  \/ e.k \in {"data", "open", "ack", "closed"} /\ e.sid = s
        \/ e.k \in {"request", "agree", "refuse", "done"} /\ s \in e.sids

\* The last use of s is over: no stream is open or closing at either end, and nothing
\* about it is on its way.
Over(s) ==
  \A p \in Peer : /\ s \notin open_streams_[p] \cup Closing(p)
                  /\ ~Mentions(wire[p], s) /\ ~Mentions(sig[p], s)

\* The application opens a channel.
CreateDataChannel(p) ==
  /\ created < MaxChannels
  /\ \E s \in AllocateSid(p) :
       /\ CreateChannel(p, s, created + 1, TRUE, sig[p])
       /\ mishaps' = mishaps \cup {m \in {"early"} : ~Over(s)}
  /\ created' = created + 1
  /\ UNCHANGED <<queued_reset_streams_, sent_reset_streams_, conn, stack, said>>

Close(p, s) ==
  /\ channels[p][s] # None
  /\ CloseChannel(p, s)
  /\ UNCHANGED <<conn, sig, bounds, mishaps>>

\* Send on an open channel.  SendData refuses a sid that is not in open_streams_, and
\* the error closes the channel.
Send(p, s) ==
  /\ channels[p][s] # None /\ channels[p][s].state = "kOpen"
  /\ said < MaxData
  /\ said' = said + 1
  /\ \/ /\ s \in open_streams_[p]
        /\ wire' = ToPeer(p, wire, [k |-> "data", sid |-> s, ch |-> channels[p][s].ch])
        /\ UNCHANGED <<alloc, streams, busy>>
     \/ /\ s \notin open_streams_[p]
        /\ CloseChannel(p, s)
  /\ UNCHANGED <<conn, sig, created, mishaps>>

\* The signaling thread has come to a closure of this kind.
TakeClosure(p, kind) ==
  sig[p] # <<>> /\ Head(sig[p]).k = kind

\* The connecting channels that the closure is for.
Told(p) ==
  {s \in Sid : /\ channels[p][s].ch \in Head(sig[p]).chs
              /\ channels[p][s].state = "kConnecting"}

\* OnChannelReady: they become open, and first an opener sends OPEN, the other side's
\* channel OPEN_ACK: control messages, which need no open stream, and which the stack
\* keeps until the association is up.
OnChannelReady(p) ==
  /\ TakeClosure(p, "ready")
  /\ channels' = [channels EXCEPT ![p] =
                    [s \in Sid |-> IF s \in Told(p) THEN [@[s] EXCEPT !.state = "kOpen"]
                                                    ELSE @[s]]]
  /\ \E q \in Listings(Told(p), [s \in Sid |-> channels[p][s].ch]) :
       wire' = [wire EXCEPT ![Other(p)] =
                  @ \o [i \in DOMAIN q |->
                          [k |-> IF channels[p][q[i]].opener THEN "open" ELSE "ack",
                           sid |-> q[i], ch |-> channels[p][q[i]].ch]]]
  /\ sig' = [sig EXCEPT ![p] = Tail(@)]
  /\ UNCHANGED <<used_sids_, streams, conn, busy, bounds, mishaps>>

\* OnDataChannelOpenMessage: ReserveSid refuses a sid that is in use.
OnDataChannelOpenMessage(p) ==
  /\ TakeClosure(p, "open")
  /\ LET m == Head(sig[p])
     IN  \/ /\ m.sid \in used_sids_[p]
            /\ sig' = [sig EXCEPT ![p] = Tail(@)]
            /\ UNCHANGED <<alloc, open_streams_>>
         \/ /\ m.sid \notin used_sids_[p]
            /\ CreateChannel(p, m.sid, m.ch, FALSE, Tail(sig[p]))
  /\ UNCHANGED <<queued_reset_streams_, sent_reset_streams_, conn, stack, bounds,
                 mishaps>>

\* OnDataReceived: for the channel on that sid, if there is one.  What it makes of data
\* and of an OPEN_ACK is in module DataChannel.
OnDataReceived(p) ==
  /\ TakeClosure(p, "data") \/ TakeClosure(p, "ack")
  /\ sig' = [sig EXCEPT ![p] = Tail(@)]
  /\ UNCHANGED <<alloc, streams, conn, stack, bounds, mishaps>>

\* A mutant of OnStreamClosedRemotely: the channel stays.
StreamClosedIgnored(p) ==
  /\ TakeClosure(p, "closed")
  /\ sig' = [sig EXCEPT ![p] = Tail(@)]
  /\ UNCHANGED <<alloc, streams, conn, stack, bounds, mishaps>>

\* OnStreamClosedRemotely of the channel on that sid, if there is one.
OnStreamClosedRemotely(p) ==
  /\ TakeClosure(p, "closed")
  /\ LET s == Head(sig[p]).sid
     IN  \/ channels[p][s] = None /\ UNCHANGED <<alloc, streams, stack>>
         \/ channels[p][s] # None /\ CloseChannel(p, s)
  /\ sig' = [sig EXCEPT ![p] = Tail(@)]
  /\ UNCHANGED <<conn, bounds, mishaps>>

-----------------------------------------------------------------------------
(* OnPacketRead: the SCTP stack, usrsctp, as the comments of OnStreamResetEvent   *)
(* describe it, and how SctpTransport handles what it posts.                      *)

\* Connect: usrsctp_connect only begins the handshake, and the session hears at once
\* that the transport is ready to send.
Connect(p) ==
  /\ ~ready_to_send_data_[p]
  /\ ready_to_send_data_' = [ready_to_send_data_ EXCEPT ![p] = TRUE]
  /\ sig' = [sig EXCEPT ![p] = PostReady(@, Ch)]
  /\ UNCHANGED <<alloc, streams, up, stack, bounds, mishaps>>

\* The handshake of the stacks ends at p.  It needs both sockets: OnPacketRead drops
\* what comes before Connect.  OnNotificationAssocChange only logs SCTP_COMM_UP, and
\* tries no reset that was refused before.
CommUp(p) ==
  /\ ~up[p] /\ \A r \in Peer : ready_to_send_data_[r]
  /\ up' = [up EXCEPT ![p] = TRUE]
  /\ mishaps' = mishaps \cup {m \in {"stranded"} : Closing(p) # {}}
  /\ UNCHANGED <<alloc, streams, ready_to_send_data_, stack, sig, bounds>>

\* The next packet for p is of this kind.
ReadPacket(p, kind) == up[p] /\ wire[p] # <<>> /\ Head(wire[p]).k = kind

\* The wire after the stack of p has read a packet.
Taken(p) == [wire EXCEPT ![p] = Tail(@)]

\* OnDataFromSctpToChannel, and the session's closure.
OnDataFromSctpToChannel(p) ==
  /\ \E kind \in {"data", "open", "ack"} : ReadPacket(p, kind)
  /\ wire' = Taken(p)
  /\ sig' = [sig EXCEPT ![p] = Append(@, Head(wire[p]))]
  /\ UNCHANGED <<alloc, streams, conn, busy, bounds, mishaps>>

\* A mutant of PeerCloses: nobody is told.
PeerClosesQuietly(p, sids) == UNCHANGED sig

\* SignalStreamClosedRemotely, in the order of the sids.
PeerCloses(p, sids) ==
  \E q \in Listings(sids, [s \in Sid |-> s]) :
    sig' = [sig EXCEPT ![p] = @ \o [i \in DOMAIN q |-> [k |-> "closed", sid |-> q[i]]]]

\* An OPEN for one of the sids waits for the signaling thread.
OpenPending(p, sids) ==
  \E i \in DOMAIN sig[p] : sig[p][i].k = "open" /\ sig[p][i].sid \in sids

\* The INCOMING event: a stream that this side has reset is done with; one that is
\* open was reset by the peer; for one whose reset is queued, both sides wanted it.
\* isBusy and w are the stack's state and the wire when the event is posted.
OnIncomingReset(p, sids, isBusy, w) ==
  LET remote == (sids \ sent_reset_streams_[p]) \cap open_streams_[p]
      double == (sids \ sent_reset_streams_[p]) \ open_streams_[p]
  IN  /\ open_streams_' = [open_streams_ EXCEPT ![p] = @ \ remote]
      /\ PeerCloses(p, remote)
      /\ SendQueuedStreamResets(p, queued_reset_streams_[p] \ double,
                                sent_reset_streams_[p] \ sids, isBusy, w)
      /\ mishaps' = mishaps \cup {m \in {"overtaken"} : OpenPending(p, double)}

\* A request resets the streams towards p, and asks p to reset its own direction too.
\* The stack of p agrees at once, unless it has a reset of its own under way.
OnRequest(p) ==
  /\ ReadPacket(p, "request")
  /\ LET sids == Head(wire[p]).sids
     IN  OnIncomingReset(p, sids, TRUE,
           ToPeer(p, Taken(p), [k |-> IF busy[p] THEN "refuse" ELSE "agree", sids |-> sids]))
  /\ UNCHANGED <<alloc, conn, bounds>>

\* The peer's stack has agreed and reset its direction: INCOMING, then OUTGOING, which
\* has nothing left to send.
OnAgreed(p) ==
  /\ ReadPacket(p, "agree")
  /\ LET sids == Head(wire[p]).sids
     IN  OnIncomingReset(p, sids, FALSE, ToPeer(p, Taken(p), [k |-> "done", sids |-> sids]))
  /\ UNCHANGED <<alloc, conn, bounds>>

\* A mutant of OnDone: the event is only logged.
DoneIgnored(p) ==
  /\ ReadPacket(p, "done")
  /\ wire' = Taken(p) /\ busy' = [busy EXCEPT ![p] = FALSE]
  /\ UNCHANGED <<alloc, streams, conn, sig, bounds, mishaps>>

\* OUTGOING: the reset that p's stack agreed to is over.  The event changes no set:
\* "Always try to send the queued RESET".
OnDone(p) ==
  /\ ReadPacket(p, "done")
  /\ SendQueuedStreamResets(p, queued_reset_streams_[p], sent_reset_streams_[p],
                            FALSE, Taken(p))
  /\ UNCHANGED <<alloc, open_streams_, conn, sig, bounds, mishaps>>

\* A mutant of OnFailed: what was refused stays in the set of what was sent.
FailedIgnored(p) ==
  /\ ReadPacket(p, "refuse")
  /\ SendQueuedStreamResets(p, queued_reset_streams_[p], sent_reset_streams_[p],
                            FALSE, Taken(p))
  /\ UNCHANGED <<alloc, open_streams_, conn, sig, bounds, mishaps>>

\* RESET_FAILED: what was sent is queued again.
OnFailed(p) ==
  /\ ReadPacket(p, "refuse")
  /\ SendQueuedStreamResets(p, Closing(p), {}, FALSE, Taken(p))
  /\ UNCHANGED <<alloc, open_streams_, conn, sig, bounds, mishaps>>

-----------------------------------------------------------------------------
Application(p) == CreateDataChannel(p) \/ \E s \in Sid : Close(p, s) \/ Send(p, s)

Signaling(p) ==
  \/ OnChannelReady(p) \/ OnDataChannelOpenMessage(p) \/ OnDataReceived(p)
  \/ OnStreamClosedRemotely(p)

OnPacketRead(p) ==
  \/ OnDataFromSctpToChannel(p) \/ OnRequest(p) \/ OnAgreed(p) \/ OnDone(p)
  \/ OnFailed(p)

Next ==
  \E p \in Peer :
    Connect(p) \/ CommUp(p) \/ Application(p) \/ Signaling(p) \/ OnPacketRead(p)

Spec == Init /\ [][Next]_vars

\* SCTP delivers, and it repeats what is lost, the packets of its handshake too.  The
\* signaling threads may be as slow as they like.
FairSpec == Spec /\ \A p \in Peer : WF_vars(CommUp(p) \/ OnPacketRead(p))

-----------------------------------------------------------------------------
(* Properties. *)

\* A reset that waits is sent: the stack has a reset under way, and the event that ends
\* it tries again.  A stream that was reset before the association was up is the
\* exception.
NoLostReset ==
  \A p \in Peer :
    up[p] /\ "stranded" \notin mishaps /\ queued_reset_streams_[p] # {} => busy[p]

\* A channel can send, since OpenStream was not refused and the stream not reset, or it
\* will hear that the peer has closed it, as long as no sid was taken while its last use
\* was not over (OnSctpDataChannelClosed releases it before the reset is through).
OpenCanSend ==
  "early" \notin mishaps => \A p \in Peer, s \in Sid :
    channels[p][s] # None =>
      \/ s \in open_streams_[p]
      \/ \E i \in DOMAIN sig[p] : sig[p][i] = [k |-> "closed", sid |-> s]

\* No data or OPEN_ACK of an earlier or later channel on the same sid reaches a channel,
\* though an OPEN_ACK may be sent when the reset is through already, and no
\* OPEN is refused because the sid is still in use on the other side, as long as no sid
\* was taken while its last use was not over.
RightChannel ==
  "early" \notin mishaps => \A p \in Peer :
    sig[p] # <<>> /\ Head(sig[p]).k \in {"data", "open", "ack"} =>
      LET m == Head(sig[p])
      IN  channels[p][m.sid] = None \/ (m.k # "open" /\ channels[p][m.sid].ch = m.ch)

\* Nothing is on its way.
Quiet == \A p \in Peer : wire[p] = <<>> /\ sig[p] = <<>>

\* Both sides have the same channel on s, or the reset that one of them asked for is
\* still queued.
AgreeOn(s) ==
  \/ channels["client"][s].ch = channels["server"][s].ch
  \/ \E p \in Peer : s \in queued_reset_streams_[p]

\* When nothing is on its way both sides have the same channels, but for streams whose
\* reset is queued (by NoLostReset, refused before the association was up), as long as no
\* sid was taken while its last use was not over and no reset was handled before the OPEN
\* of its stream: whoever calls Close, OnStreamResetEvent makes the other side close as
\* well.
SidesAgree ==
  mishaps \cap {"early", "overtaken"} = {} /\ (\A p \in Peer : up[p]) /\ Quiet
    => \A s \in Sid : AgreeOn(s)

\* Requests of both sides are on the wire: each will be refused.
Collision == \A p \in Peer : \E i \in DOMAIN wire[p] : wire[p][i].k = "request"

\* The reset of a stream ends, so that its sid can be used again, unless the sides'
\* requests collide again and again or it was refused before the association was up.
ResetsEnd ==
  \A p \in Peer, s \in Sid :
    []<>(up[p] /\ "stranded" \notin mishaps => s \notin Closing(p) \/ Collision)

\* As SidesAgree, also when the reset was faster than the OPEN.  A test of
\* peerconnectionendtoend_unittest.cc closes a channel and waits "so the remote data
\* channel will receive the close message and be destroyed".
CloseReachesPeer ==
  "early" \notin mishaps /\ (\A p \in Peer : up[p]) /\ Quiet
    => \A s \in Sid : AgreeOn(s)
=============================================================================
