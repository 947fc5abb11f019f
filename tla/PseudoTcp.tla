----------------------------- MODULE PseudoTcp -----------------------------
(***************************************************************************)
(* PseudoTcp (webrtc/p2p/base/pseudotcp.cc): a reliable byte stream over   *)
(* datagrams, one endpoint at each peer, over a network that loses,        *)
(* duplicates and reorders packets.                                        *)
(*                                                                         *)
(* Abstractions.  A byte is the position it has in its stream (1, 2, ...), *)
(* so that a wrong or misplaced byte shows; 0 is a byte of a control       *)
(* message or of memory never written.  Sizes are a few units instead of   *)
(* thousands of bytes.  Sequence numbers do not wrap.  The clock is left   *)
(* out: a timer is armed or not, an armed one may fire at any time, and    *)
(* the round trip estimates, which only set its length, are dropped.  The  *)
(* application reacts to a callback after the handler that made it.        *)
(***************************************************************************)
EXTENDS Integers, Sequences, FiniteSets, FiniteSetsExt, SequencesExt

CONSTANTS
  Plans,        \* what the applications and the network may do (see Plan)
  SndBufLen,    \* m_sbuf_len
  RcvBufLen,    \* m_rbuf_len
  WndUnit,      \* 2^m_rwnd_scale: windows are advertised in this unit
  MssLevels,    \* payload sizes of PACKET_MAXIMUMS
  XmitLimit,    \* transmissions of a segment when established (15)
  SynLimit,     \* transmissions of a segment while connecting (30)
  ProbeLimit    \* unanswered probes after which 15 s have surely passed

\* A mutant stands before the definition it replaces; its comment says which bug it is.

Peers == {"local", "remote"}

Other(e) == IF e = "local" THEN "remote" ELSE "local"

\* Bytes of a connect message: CTL_CONNECT and the window scale option.
CtrlLen == 1

\* Bounds on two counters: m_cwnd, of which the peer's window leaves no more
\* than RcvBufLen to use, and m_dup_acks, of which only 3 is special (a byte
\* that wraps after 256 repeats of one acknowledgment).
CwndCap == 2 * RcvBufLen
DupCap == 4

SmallMss == Min(MssLevels)

Modes == {"GRACEFUL", "FORCEFUL"}

Plan ==
  [open : BOOLEAN,                      \* the connection is open from the start
   connect : SUBSET Peers,              \* whose application calls Connect
   bytes : [Peers -> Nat],              \* what each application has to send
   close : [Peers -> SUBSET Modes],     \* how each may call Close
   inflight : Nat,                      \* packets the network holds at once
   copies : Nat,                        \* packets it duplicates
   mtu : MssLevels,                     \* payload the path accepts at first
   path : MssLevels,                    \* payload the path may come down to
   failures : Nat]                      \* writes that return WR_FAIL

ASSUME PseudoTcpAssumption ==
  /\ Plans \subseteq Plan
  /\ MssLevels \in SUBSET (Nat \ {0}) /\ IsFiniteSet(MssLevels) /\ MssLevels # {}
  /\ WndUnit \in Nat \ {0}
  /\ RcvBufLen \in Nat /\ SndBufLen \in Nat
  /\ WndUnit <= RcvBufLen
  /\ RcvBufLen < SndBufLen                            \* pseudotcp.cc:223
  /\ {XmitLimit, SynLimit, ProbeLimit} \subseteq Nat \ {0}

VARIABLES
  plan,     \* what the applications do
  tcp,      \* tcp[e]: the PseudoTcp object of e
  app,      \* app[e]: what the application at e has done, and may do
  net,      \* packets in flight
  path,     \* largest payload the path accepts
  dups,     \* packets duplicated so far
  fails     \* writes refused so far

vars == <<plan, tcp, app, net, path, dups, fails>>

----------------------------------------------------------------------------
(* The state of one endpoint                                               *)

\* out and room are local to a handler: the packets it has written so far,
\* and the largest payload TcpWritePacket accepts (0: it returns WR_FAIL).
NewTcp(mtu) ==
  [state |-> "LISTEN", shutdown |-> "NONE",
   snd_una |-> 0, snd_nxt |-> 0, snd_wnd |-> 1, slist |-> <<>>, sbuf |-> <<>>,
   rcv_nxt |-> 0, rcv_wnd |-> RcvBufLen, rlist |-> {}, rbuf |-> <<>>,
   ahead |-> [i \in 1..RcvBufLen |-> 0],
   unit |-> 1, mss |-> SmallMss, advise |-> mtu, cwnd |-> 2 * SmallMss, ssthresh |-> RcvBufLen,
   dup_acks |-> 0, recover |-> 0, rto |-> FALSE, t_ack |-> FALSE, probes |-> 0,
   readEnable |-> TRUE, writeEnable |-> FALSE,
   out |-> {}, room |-> 0]

\* sent: bytes Send accepted; got: bytes Recv returned.  reading and writing
\* are true between a callback that allows the call and the EWOULDBLOCK
\* that ends it.
NewApp == [sent |-> 0, got |-> <<>>, reading |-> FALSE, writing |-> FALSE]

\* GetBuffered and GetWriteRemaining of the two FIFO buffers.
InFlight(s) == s.snd_nxt - s.snd_una

\* Mutant: the space left is computed without what is buffered.
SndSpaceIgnoresBuffered(s) == SndBufLen

SndSpace(s) == SndBufLen - Len(s.sbuf)
RcvSpace(s) == RcvBufLen - Len(s.rbuf)

\* Mutant: a graceful close waits for what is in flight only.
ClockCheckInFlight(s) ==
  /\ s.shutdown # "FORCEFUL"
  /\ s.shutdown = "GRACEFUL" => s.state = "ESTABLISHED" /\ (InFlight(s) > 0 \/ s.t_ack)

\* GetNextClock returns false when the socket is ready to be destroyed.
ClockCheck(s) ==
  /\ s.shutdown # "FORCEFUL"
  /\ s.shutdown = "GRACEFUL" =>
       /\ s.state = "ESTABLISHED"
       /\ s.sbuf # <<>> \/ s.t_ack

----------------------------------------------------------------------------
(* Sending                                                                 *)

\* packet(): every packet carries the acknowledgment, so that m_t_ack is reset.
Packet(s, seq, ctl, data) ==
  [s EXCEPT !.out = @ \cup {[seq |-> seq, ctl |-> ctl, data |-> data, ack |-> s.rcv_nxt,
                             wnd |-> s.rcv_wnd \div WndUnit]},
            !.t_ack = FALSE]

\* queue(): the new bytes join the last segment if it is of the same kind and
\* was not sent yet.
Queue(s, data, ctl) ==
  LET n == Len(data)
      k == Len(s.slist)
      joins == k > 0 /\ s.slist[k].ctl = ctl /\ s.slist[k].xmit = 0
      seg == [seq |-> s.snd_una + Len(s.sbuf), len |-> n, xmit |-> 0, ctl |-> ctl]
  IN [s EXCEPT !.slist = IF joins THEN [s.slist EXCEPT ![k].len = @ + n]
                                  ELSE Append(@, seg),
               !.sbuf = @ \o data]

\* Mutant: the second half keeps the sequence number of the first.
CutSegmentSameSeq(slist, i, n) ==
  IF n < slist[i].len
  THEN InsertAt([slist EXCEPT ![i].len = n], i + 1, [slist[i] EXCEPT !.len = @ - n])
  ELSE slist

\* The i-th segment cut after n bytes.
CutSegment(slist, i, n) ==
  LET seg == slist[i]
      rest == [seg EXCEPT !.seq = @ + n, !.len = @ - n]
  IN IF n < seg.len
     THEN InsertAt([slist EXCEPT ![i].len = n], i + 1, rest)
     ELSE slist

\* transmit() of the i-th segment may send it.  It gives up at the limit, or
\* when the write fails; a write that is too large is tried again with the
\* next smaller payload size.
MayTransmit(s, i) ==
  /\ s.slist[i].xmit < IF s.state = "ESTABLISHED" THEN XmitLimit ELSE SynLimit
  /\ s.room > 0

TransmitSize(s, want) ==
  IF want > s.room THEN Max({m \in MssLevels : m <= s.room}) ELSE want

\* The i-th segment was sent once more.
MarkSent(slist, i) == [slist EXCEPT ![i].xmit = @ + 1]

TransmitBytes(s, i, seg, n) ==
  LET from == seg.seq - s.snd_una
      large == n < Min({seg.len, s.mss})
  IN [Packet(s, seg.seq, seg.ctl, SubSeq(s.sbuf, from + 1, from + n)) EXCEPT
        !.mss = IF large THEN n ELSE @,
        !.cwnd = IF large THEN 2 * n ELSE @,
        !.slist = MarkSent(CutSegment(@, i, n), i),
        !.snd_nxt = IF seg.xmit = 0 THEN @ + n ELSE @,
        !.rto = TRUE]

Transmit(s, i) ==
  TransmitBytes(s, i, s.slist[i], TransmitSize(s, Min({s.slist[i].len, s.mss})))

\* nAvailable in attemptSend(): the bytes that may be sent now, no more than
\* the two windows leave, and none if that is a silly part of the window.
Sendable(s) ==
  LET cwnd == s.cwnd + IF s.dup_acks \in {1, 2} THEN s.dup_acks * s.mss ELSE 0
      amount(window, useable, ready) ==
        IF ready <= useable THEN ready
        ELSE IF useable * 4 < window THEN 0 ELSE useable
      within(window) ==
        amount(window, Max({window - InFlight(s), 0}), Min({Len(s.sbuf) - InFlight(s), s.mss}))
  IN within(Min({s.snd_wnd, cwnd}))

\* Mutant: Nagle's algorithm holds a small segment back with nothing in flight.
HeldBackAlways(s, n) == n < s.mss

\* Nagle's algorithm holds back less than a full segment while bytes are in flight.
HeldBack(s, n) == s.snd_nxt > s.snd_una /\ n < s.mss

\* One turn of the loop in attemptSend(), with n bytes to send.  x.flags is
\* sflags, x.run is false once the loop has returned.
SendAckOnly(s, flags) ==
  CASE flags = "none" -> s
    [] flags # "none" /\ (flags = "immediate" \/ s.t_ack) -> Packet(s, s.snd_nxt, FALSE, <<>>)
    [] OTHER -> [s EXCEPT !.t_ack = TRUE]

SendFirst(x, s, i) ==
  IF MayTransmit(s, i) THEN [x EXCEPT !.s = Transmit(s, i), !.flags = "none"]
  ELSE [x EXCEPT !.s = s, !.run = FALSE]

Unsent(s) == SelectInSeq(s.slist, LAMBDA seg : seg.xmit = 0)

SendTurn(x, n) ==
  CASE ~x.run -> x
    [] x.run /\ n = 0 -> [x EXCEPT !.s = SendAckOnly(@, x.flags), !.run = FALSE]
    [] x.run /\ n > 0 /\ HeldBack(x.s, n) -> [x EXCEPT !.run = FALSE]
    [] OTHER -> SendFirst(x, [x.s EXCEPT !.slist = CutSegment(@, Unsent(x.s), n)], Unsent(x.s))

SlowStart(s) == [s EXCEPT !.cwnd = s.mss]

\* attemptSend(): every turn but the last sends a byte or more.  When nothing
\* was sent for longer than the retransmission time (late), it starts slowly.
AttemptSend(s, flags, late) ==
  LET start == [s |-> IF late THEN SlowStart(s) ELSE s,
                flags |-> flags, run |-> TRUE]
      turn[k \in 0..(Len(s.sbuf) + 1)] ==
        IF k = 0 THEN start ELSE SendTurn(turn[k - 1], Sendable(turn[k - 1].s))
  IN turn[Len(s.sbuf) + 1].s

\* closedown()
Closedown(s) == [s EXCEPT !.state = "CLOSED"]

\* queueConnectMessage()
QueueConnect(s) ==
  Queue([s EXCEPT !.snd_wnd = CtrlLen], [i \in 1..CtrlLen |-> 0], TRUE)

\* adjustMTU()
AdjustMTU(s) ==
  [s EXCEPT !.mss = s.advise, !.ssthresh = Max({@, 2 * s.advise}),
            !.cwnd = Max({@, s.advise})]

Open(s) == AdjustMTU([s EXCEPT !.state = "ESTABLISHED"])

----------------------------------------------------------------------------
(* Receiving: process(), in the order of its parts                         *)

\* m_cwnd grows without bound; beyond the receive window it changes nothing.
CapCwnd(n) == Min({n, CwndCap})

\* Control data: the connect message of the peer, which tells the unit of its
\* windows (2^m_swnd_scale).
ProcessControl(s, seg) ==
  LET t == [s EXCEPT !.unit = WndUnit]
  IN CASE seg.ctl /\ s.state = "LISTEN" ->
            QueueConnect([t EXCEPT !.state = "SYN_RECEIVED"])
       [] seg.ctl /\ s.state = "SYN_SENT" -> Open(t)
       [] seg.ctl /\ s.state \notin {"LISTEN", "SYN_SENT"} -> t
       [] ~seg.ctl -> s

\* The segments left when n bytes are acknowledged.  Only the length of a
\* segment that is acknowledged in part changes, not its seq.
Unacked(slist, n) ==
  LET upto[j \in 0..Len(slist)] == IF j = 0 THEN 0 ELSE upto[j - 1] + slist[j].len
      after(k) == IF upto[k] = n THEN SubSeq(slist, k + 1, Len(slist))
                  ELSE [SubSeq(slist, k + 1, Len(slist)) EXCEPT ![1].len = @ - (n - upto[k])]
  IN after(Max({j \in 0..Len(slist) : upto[j] <= n}))

\* Mutant: the retransmission timer goes on when nothing is left in flight.
FreeAckedKeepsTimer(s, seg) ==
  LET n == seg.ack - s.snd_una
  IN [s EXCEPT !.snd_wnd = seg.wnd * s.unit, !.snd_una = seg.ack,
               !.sbuf = SubSeq(@, n + 1, Len(@)), !.slist = Unacked(@, n)]

\* The new bytes that seg acknowledges are freed, and the timer is started anew
\* if more are in flight.
FreeAcked(s, seg) ==
  LET n == seg.ack - s.snd_una
  IN [s EXCEPT !.snd_wnd = seg.wnd * s.unit, !.snd_una = seg.ack,
               !.rto = seg.ack # s.snd_nxt,
               !.sbuf = SubSeq(@, n + 1, Len(@)), !.slist = Unacked(@, n)]

\* An acknowledgment of new bytes ends a recovery, or the recovery goes on with
\* the next segment, or the window grows.  s is the endpoint after FreeAcked, n
\* the number of bytes.
EndRecovery(s) ==
  [s EXCEPT !.cwnd = Min({s.ssthresh, InFlight(s) + s.mss}), !.dup_acks = 0]

Recovering(s, n) == [s EXCEPT !.cwnd = @ + s.mss - Min({n, @})]

Growing(s) ==
  LET grow == IF s.cwnd < s.ssthresh THEN s.mss ELSE Max({1, (s.mss * s.mss) \div s.cwnd})
  IN [s EXCEPT !.dup_acks = 0, !.cwnd = CapCwnd(@ + grow)]

ProcessNewAck(s, seg, n) ==
  CASE s.dup_acks >= 3 /\ seg.ack >= s.recover -> EndRecovery(s)
    [] s.dup_acks >= 3 /\ seg.ack < s.recover ->
         IF MayTransmit(s, 1) THEN Recovering(Transmit(s, 1), n) ELSE Closedown(s)
    [] OTHER -> Growing(s)

\* An acknowledgment that repeats the last one: the third starts a recovery.
Halved(s) == [s EXCEPT !.ssthresh = Max({InFlight(s) \div 2, 2 * s.mss})]

StartRecovery(s) ==
  [s EXCEPT !.recover = s.snd_nxt, !.cwnd = CapCwnd(s.ssthresh + 3 * s.mss)]

DupAck(s) ==
  CASE s.dup_acks = 3 ->
         IF MayTransmit(s, 1) THEN StartRecovery(Halved(Transmit(s, 1))) ELSE Closedown(s)
    [] s.dup_acks > 3 -> [s EXCEPT !.cwnd = CapCwnd(@ + s.mss)]
    [] OTHER -> s

ProcessSameAck(s, seg) ==
  CASE seg.data # <<>> -> s
    [] seg.data = <<>> /\ s.snd_una = s.snd_nxt -> [s EXCEPT !.dup_acks = 0]
    [] OTHER -> DupAck([s EXCEPT !.dup_acks = Min({@ + 1, DupCap})])

ProcessAck(s, seg) ==
  CASE s.snd_una < seg.ack /\ seg.ack <= s.snd_nxt ->
         ProcessNewAck(FreeAcked(s, seg), seg, seg.ack - s.snd_una)
    [] seg.ack = s.snd_una -> ProcessSameAck([s EXCEPT !.snd_wnd = seg.wnd * s.unit], seg)
    [] OTHER -> s

\* WriteOffset and ConsumeWriteBuffer of m_rbuf.  ahead holds the bytes
\* behind the readable ones, also the ones never written.
WriteOffset(s, data, offset) ==
  [s EXCEPT !.ahead = [i \in DOMAIN @ |->
     IF i - offset \in DOMAIN data THEN data[i - offset] ELSE @[i]]]

ConsumeWrite(s, n) ==
  [s EXCEPT !.rbuf = @ \o SubSeq(s.ahead, 1, n),
            !.ahead = [i \in DOMAIN @ |-> IF i + n \in DOMAIN @ THEN @[i + n] ELSE 0]]

\* Mutant: the saved segments are taken to have no gaps between them.
ReachedLast(rlist, n) == Max({n} \cup {r.seq + r.len : r \in rlist})

\* The first byte at or behind n that no saved segment holds.
Reached(rlist, n) ==
  LET ends == {n} \cup {r.seq + r.len : r \in rlist}
  IN Min({m \in n..Max(ends) : \A r \in rlist : m \notin r.seq..(r.seq + r.len - 1)})

\* The data of a packet, with what was received before and what does not fit
\* cut off.  Control data and data after Close is acknowledged and dropped.
Recovered(s, nxt) ==
  [ConsumeWrite(s, nxt - s.rcv_nxt) EXCEPT
     !.rcv_nxt = nxt, !.rcv_wnd = @ - (nxt - s.rcv_nxt), !.rlist = {r \in @ : r.seq > nxt}]

SaveData(s, seg, seq, data) ==
  CASE data = <<>> -> s
    [] data # <<>> /\ (seg.ctl \/ s.shutdown # "NONE") ->
         [s EXCEPT !.rcv_nxt = IF seq = @ THEN @ + Len(data) ELSE @]
    [] data # <<>> /\ ~seg.ctl /\ s.shutdown = "NONE" /\ seq = s.rcv_nxt ->
         Recovered(WriteOffset(s, data, 0), Reached(s.rlist, s.rcv_nxt + Len(data)))
    [] OTHER -> [WriteOffset(s, data, seq - s.rcv_nxt) EXCEPT
                   !.rlist = @ \cup {[seq |-> seq, len |-> Len(data)]}]

ProcessData(s, seg) ==
  LET old == Min({Max({s.rcv_nxt - seg.seq, 0}), Len(seg.data)})
      fits == Max({s.rcv_nxt + RcvSpace(s) - seg.seq, 0})
  IN SaveData(s, seg, seg.seq + old, SubSeq(seg.data, old + 1, Min({Len(seg.data), fits})))

\* How the packet must be acknowledged: at once if it is out of order or ends
\* a gap, else after a delay if it has data.
AckFlags(s, t, seg) ==
  CASE seg.seq # s.rcv_nxt -> "immediate"
    [] seg.seq = s.rcv_nxt /\ t.rcv_nxt > s.rcv_nxt + Min({Len(seg.data), RcvSpace(s)}) ->
         "immediate"
    [] seg.seq = s.rcv_nxt /\ seg.data # <<>> -> "delayed"
    [] OTHER -> "none"

\* A packet without a connect message opens the connection of a peer that was
\* connected to.
Opened(s, seg) == IF s.state = "SYN_RECEIVED" /\ ~seg.ctl THEN Open(s) ELSE s

Writeable(s) ==
  [s EXCEPT !.writeEnable = @ /\ Len(s.sbuf) >= (SndBufLen + RcvBufLen) \div 2]

\* s is the endpoint before its data was taken, t the one after.
Answer(s, t, seg, late) ==
  [AttemptSend(t, AckFlags(s, t, seg), late) EXCEPT !.readEnable = @ /\ Len(t.rbuf) = Len(s.rbuf)]

TakeData(s, seg, late) == Answer(s, ProcessData(s, seg), seg, late)

Acknowledged(s, seg, late) ==
  IF s.state = "CLOSED" THEN s ELSE TakeData(Writeable(Opened(s, seg)), seg, late)

\* The whole of process(), for a packet of this conversation and an endpoint
\* that is not closed: the endpoint afterwards.
Process(s, seg, late) ==
  Acknowledged(ProcessAck(ProcessControl([s EXCEPT !.probes = 0], seg), seg), seg, late)

----------------------------------------------------------------------------
(* Initial states                                                          *)

\* The endpoints after a handshake in which no packet was lost: the connect
\* message, its answer, and the delayed acknowledgment of the answer.
Handshake(mtu) ==
  LET begin(s) == [s EXCEPT !.out = {}, !.room = mtu]
      end(s) == [s EXCEPT !.out = {}, !.room = 0]
      syn == [begin(NewTcp(mtu)) EXCEPT !.state = "SYN_SENT"]
  IN \E x \in {AttemptSend(QueueConnect(syn), "none", FALSE)} : \E p \in x.out :
     \E y \in {Process(begin(NewTcp(mtu)), p, FALSE)} : \E q \in y.out :
     \E x1 \in {Process(begin(x), q, FALSE)} :
     \E x2 \in {Packet(x1, x1.snd_nxt, FALSE, <<>>)} : \E r \in x2.out :
     \E y1 \in {Process(begin(y), r, FALSE)} :
       tcp = [local |-> end(x2), remote |-> end(y1)]

Init ==
  /\ plan \in Plans
  /\ IF plan.open THEN Handshake(plan.mtu) ELSE tcp = [e \in Peers |-> NewTcp(plan.mtu)]
  /\ app = [e \in Peers |-> [NewApp EXCEPT !.writing = plan.open]]
  /\ net = {}
  /\ path = plan.mtu
  /\ dups = 0
  /\ fails = 0

----------------------------------------------------------------------------
(* The operations                                                          *)

\* What TcpWritePacket accepts during a handler: payloads up to the path's
\* limit, or nothing at all.
Rooms == {path} \cup IF fails < plan.failures THEN {0} ELSE {}

Enter(e, room) == [tcp[e] EXCEPT !.room = room]

\* The handler of e is over and leaves endpoint t: the callbacks it made, and
\* the packets it wrote, of which the network loses some.  rest is what is
\* left of the packets in flight.
Leave(e, t, rest) ==
  /\ tcp' = [tcp EXCEPT ![e] = [t EXCEPT !.out = {}, !.room = 0]]
  /\ \E kept \in SUBSET (IF t.room = 0 THEN {} ELSE t.out) :
       /\ Cardinality(rest) + Cardinality(kept) <= plan.inflight
       /\ net' = rest \cup {[to |-> Other(e), seg |-> seg] : seg \in kept}
  /\ fails' = fails + (IF t.room = 0 THEN 1 ELSE 0)
  /\ UNCHANGED path

\* Mutant: OnTcpReadable is not called.
CalledButReadable(e, t) ==
  app' = [app EXCEPT
    ![e].writing = \/ @
                   \/ tcp[e].state # "ESTABLISHED" /\ t.state = "ESTABLISHED"
                   \/ tcp[e].writeEnable /\ ~t.writeEnable]

\* The callbacks OnTcpOpen, OnTcpReadable and OnTcpWriteable.
Called(e, t) ==
  app' = [app EXCEPT
    ![e].writing = \/ @
                   \/ tcp[e].state # "ESTABLISHED" /\ t.state = "ESTABLISHED"
                   \/ tcp[e].writeEnable /\ ~t.writeEnable,
    ![e].reading = @ \/ (tcp[e].readEnable /\ ~t.readEnable)]

Connect(e) ==
  /\ e \in plan.connect
  /\ tcp[e].state = "LISTEN"
  /\ \E room \in Rooms, late \in BOOLEAN :
       LET s == QueueConnect([Enter(e, room) EXCEPT !.state = "SYN_SENT"])
       IN Leave(e, AttemptSend(s, "none", late), net)
  /\ UNCHANGED <<plan, app, dups>>

\* Send: the application's half of the call writes what it has left, as far as
\* it fits, and stops at EWOULDBLOCK.
WriteSize(e) == Min({SndSpace(tcp[e]), plan.bytes[e] - app[e].sent})

Write(e) ==
  /\ tcp[e].state = "ESTABLISHED" /\ ClockCheck(tcp[e])
  /\ app[e].writing /\ app[e].sent < plan.bytes[e]
  /\ app' = [app EXCEPT ![e].sent = @ + WriteSize(e), ![e].writing = WriteSize(e) > 0]

Send(e) ==
  /\ Write(e)
  /\ \/ /\ SndSpace(tcp[e]) = 0
        /\ tcp' = [tcp EXCEPT ![e].writeEnable = TRUE]
        /\ UNCHANGED <<net, path, fails>>
     \/ /\ SndSpace(tcp[e]) > 0
        /\ \E room \in Rooms, late \in BOOLEAN :
             LET data == [i \in 1..WriteSize(e) |-> app[e].sent + i]
             IN Leave(e, AttemptSend(Queue(Enter(e, room), data, FALSE), "none", late), net)
  /\ UNCHANGED <<plan, dups>>

\* Recv: the application's half reads up to n bytes and stops at EWOULDBLOCK.
Read(e, n) ==
  /\ tcp[e].state = "ESTABLISHED" /\ ClockCheck(tcp[e])
  /\ app[e].reading
  /\ app' = [app EXCEPT ![e].got = @ \o SubSeq(tcp[e].rbuf, 1, Min({n, Len(tcp[e].rbuf)})),
                        ![e].reading = tcp[e].rbuf # <<>>]

\* Mutant: the window is opened to the whole buffer, read or not.
WindowWholeBuffer(r) == RcvBufLen

\* The window after a read: it is opened again in large steps only.
WindowAfterRead(r) ==
  IF RcvSpace(r) - r.rcv_wnd >= Min({RcvBufLen \div 2, r.mss}) THEN RcvSpace(r) ELSE r.rcv_wnd

\* A window that was closed is announced when it opens.
Recv(e, n) ==
  /\ Read(e, n)
  /\ \/ /\ tcp[e].rbuf = <<>>
        /\ tcp' = [tcp EXCEPT ![e].readEnable = TRUE]
        /\ UNCHANGED <<net, path, fails>>
     \/ /\ tcp[e].rbuf # <<>>
        /\ \E room \in Rooms, late \in BOOLEAN :
           \E r \in {[Enter(e, room) EXCEPT !.rbuf = SubSeq(@, n + 1, Len(@))]} :
           \E t \in {[r EXCEPT !.rcv_wnd = WindowAfterRead(r)]} :
             Leave(e, IF r.rcv_wnd = 0 /\ t.rcv_wnd > 0
                      THEN AttemptSend(t, "immediate", late) ELSE t, net)
  /\ UNCHANGED <<plan, dups>>

Close(e, mode) ==
  /\ mode \in plan.close[e]
  /\ tcp[e].shutdown \notin {mode, "FORCEFUL"}
  /\ tcp' = [tcp EXCEPT ![e].shutdown = mode]
  /\ UNCHANGED <<plan, app, net, path, dups, fails>>

\* A packet arrives, or a copy of it does.
NotifyPacket(p) ==
  LET e == p.to IN
  /\ p \in net
  /\ ClockCheck(tcp[e])
  /\ tcp[e].state # "CLOSED"
  /\ \E copy \in BOOLEAN, room \in Rooms, late \in BOOLEAN :
       /\ copy => dups < plan.copies
       /\ dups' = dups + (IF copy THEN 1 ELSE 0)
       /\ \E t \in {Process(Enter(e, room), p.seg, late)} :
            /\ Leave(e, t, IF copy THEN net ELSE net \ {p})
            /\ Called(e, t)
  /\ UNCHANGED plan

\* The timers: retransmission, probe of a closed window, delayed acknowledgment.
Timers == {"rto", "probe", "ack"}

\* Mutant: a closed window is not probed.
ArmedButProbe(s) == {timer \in {"rto", "ack"} : IF timer = "rto" THEN s.rto ELSE s.t_ack}

Armed(s) ==
  {timer \in Timers :
     CASE timer = "rto" -> s.rto
       [] timer = "probe" -> s.snd_wnd = 0
       [] timer = "ack" -> s.t_ack}

\* The parts of NotifyClock, for the timers that are due.  A part that ends
\* the connection is the last.
Ticking(s, timer, due) == timer \in due /\ s.state # "CLOSED"

ClockRto(s, due) ==
  CASE ~Ticking(s, "rto", due) -> s
    [] Ticking(s, "rto", due) /\ ~MayTransmit(s, 1) -> Closedown(s)
    [] OTHER -> SlowStart(Halved(Transmit(s, 1)))

\* The peer's window is closed: the connection ends if nothing was received
\* for long (silent), else an old byte provokes an acknowledgment.
ClockProbe(s, due, silent) ==
  CASE ~Ticking(s, "probe", due) -> s
    [] Ticking(s, "probe", due) /\ silent -> Closedown(s)
    [] OTHER -> [Packet(s, s.snd_nxt - 1, FALSE, <<>>) EXCEPT !.probes = @ + 1]

ClockAck(s, due) ==
  IF Ticking(s, "ack", due) /\ s.t_ack THEN Packet(s, s.snd_nxt, FALSE, <<>>) ELSE s

NotifyClock(e, due) ==
  /\ ClockCheck(tcp[e])
  /\ tcp[e].state # "CLOSED"
  /\ due # {}
  /\ UNCHANGED <<plan, app, dups>>
  /\ \E room \in Rooms, silent \in (IF "probe" \in due THEN BOOLEAN ELSE {FALSE}) :
       /\ "probe" \in due => silent \/ tcp[e].probes < ProbeLimit
       /\ \E t \in {ClockAck(ClockProbe(ClockRto(Enter(e, room), due), due, silent), due)} :
            Leave(e, t, net)

\* The path begins to refuse packets with a large payload.
ShrinkPath ==
  /\ path > plan.path
  /\ path' = Max({m \in MssLevels : m < path})
  /\ UNCHANGED <<plan, tcp, app, net, dups, fails>>

\* NotifyMTU: the owner has learnt what the path accepts.
NotifyMTU(e) ==
  /\ tcp[e].advise # path
  /\ tcp' = [tcp EXCEPT ![e] =
       LET s == [@ EXCEPT !.advise = path]
       IN IF s.state = "ESTABLISHED" THEN AdjustMTU(s) ELSE s]
  /\ UNCHANGED <<plan, app, net, path, dups, fails>>

Next ==
  \/ \E e \in Peers : Connect(e) \/ Send(e) \/ NotifyMTU(e)
  \/ \E e \in Peers, n \in {1, RcvBufLen} : Recv(e, n)
  \/ \E e \in Peers, mode \in Modes : Close(e, mode)
  \/ \E p \in net : NotifyPacket(p)
  \/ \E e \in Peers : \E due \in SUBSET Armed(tcp[e]) : NotifyClock(e, due)
  \/ ShrinkPath

Spec == Init /\ [][Next]_vars

\* The applications go on, and the owners call NotifyClock when a timer is due.
\* Nothing is assumed of the network: it may lose every packet.
FairSpec ==
  /\ Spec
  /\ \A e \in Peers :
       /\ WF_app(Write(e))
       /\ WF_app(\E n \in {1, RcvBufLen} : Read(e, n))
       /\ \A timer \in Timers :
            WF_vars(\E due \in SUBSET Armed(tcp[e]) : timer \in due /\ NotifyClock(e, due))

----------------------------------------------------------------------------
(* Properties                                                              *)

\* Types of the variables; the two buffers and the saved bytes stay within
\* m_sbuf_len and m_rbuf_len.
SSegment == [seq : Nat, len : Nat, xmit : Nat, ctl : BOOLEAN]

Segment == [seq : Nat, ctl : BOOLEAN, data : Seq(Nat), ack : Nat, wnd : Nat]

TypeOK ==
  /\ plan \in Plans
  /\ \A e \in Peers :
       LET s == tcp[e] IN
       /\ s.state \in {"LISTEN", "SYN_SENT", "SYN_RECEIVED", "ESTABLISHED", "CLOSED"}
       /\ s.shutdown \in {"NONE"} \cup Modes
       /\ {s.snd_una, s.snd_nxt, s.rcv_nxt, s.recover, s.probes} \subseteq Nat
       /\ s.slist \in Seq(SSegment) /\ s.sbuf \in Seq(Nat) /\ Len(s.sbuf) <= SndBufLen
       /\ s.rlist \subseteq [seq : Nat, len : Nat]
       /\ s.rbuf \in Seq(Nat) /\ Len(s.rbuf) <= RcvBufLen
       /\ s.ahead \in [1..RcvBufLen -> Nat]
       /\ s.snd_wnd \in 0..RcvBufLen /\ s.rcv_wnd \in 0..RcvBufLen
       /\ {s.mss, s.advise} \subseteq MssLevels /\ s.unit \in {1, WndUnit}
       /\ {s.cwnd, s.ssthresh} \subseteq Nat /\ s.dup_acks \in 0..DupCap
       /\ {s.rto, s.t_ack, s.readEnable, s.writeEnable} \subseteq BOOLEAN
       /\ s.out = {} /\ s.room = 0
  /\ app \in [Peers -> [sent : Nat, got : Seq(Nat), reading : BOOLEAN, writing : BOOLEAN]]
  /\ net \subseteq [to : Peers, seg : Segment]
  /\ path \in MssLevels /\ dups \in 0..plan.copies /\ fails \in 0..plan.failures

\* What the applications see is a byte stream in each direction: Recv returns
\* the bytes Send took, each once and in order, whatever the network loses,
\* duplicates or reorders, and whatever is sent twice or saved out of order.
Stream == INSTANCE ByteStream WITH
  sent <- [e \in Peers |-> app[e].sent],
  got <- [e \in Peers |-> app[Other(e)].got]

StreamSpec == Stream!Spec

\* Every byte that Recv returned is the one Send took at that place: the data
\* that process() saves ahead of a gap is found where it was left.
InOrder == \A e \in Peers : app[e].got = [i \in 1..Len(app[e].got) |-> i]

\* The list of segments describes the send buffer: they follow each other from
\* m_snd_una to its end, and exactly those up to m_snd_nxt have been sent.
\* transmit() and attemptSend() cut segments and an acknowledgment frees part
\* of the list; a segment freed in part would keep a seq the buffer no longer
\* holds, and transmit() would read at a negative offset.
SegmentsMatch ==
  \A e \in Peers :
    LET s == tcp[e]
        end(i) == IF i = 0 THEN s.snd_una ELSE s.slist[i].seq + s.slist[i].len
        k == Len(s.slist)
    IN /\ end(k) = s.snd_una + Len(s.sbuf)
       /\ \A i \in 1..k :
            /\ s.slist[i].len > 0 /\ s.slist[i].seq = end(i - 1)
            /\ s.slist[i].xmit > 0 <=> end(i) <= s.snd_nxt

\* The window a sender believes in is one its peer has room for, also when the
\* acknowledgments that told it are late or out of order; so nothing that is
\* sent has to be cut off to fit.
WindowsAgree ==
  \A e \in Peers :
    LET s == tcp[e]
        r == tcp[Other(e)]
    IN /\ r.rcv_wnd <= RcvSpace(r)
       /\ r.rcv_nxt <= s.snd_nxt
       /\ s.snd_una + s.snd_wnd <= r.rcv_nxt + r.rcv_wnd

\* The retransmission timer runs exactly while bytes are in flight: it never
\* fires with no segment to send, which NotifyClock declares unreachable, and
\* bytes in flight are never left without it.
TimerRuns == \A e \in Peers : tcp[e].rto <=> InFlight(tcp[e]) > 0

\* An open connection with bytes to send has a timer that will send some: a
\* byte is in flight, or the peer's window is closed and is probed.  Neither
\* Nagle's algorithm nor the avoidance of small segments holds back the last
\* bytes for good.  (A write that failed may leave bytes behind: attemptSend
\* returns without a timer.)
NoStall ==
  \A e \in Peers :
    LET s == tcp[e]
    IN s.state = "ESTABLISHED" /\ ClockCheck(s) /\ s.sbuf # <<>>
         => s.rto \/ s.snd_wnd = 0 \/ fails > 0

\* No wakeup is lost: bytes that can be read have been announced by
\* OnTcpReadable since the application last found none, and an application
\* that was refused waits for an OnTcpWriteable that is still to come.
NoLostWakeup ==
  \A e \in Peers :
    LET s == tcp[e]
    IN /\ s.rbuf # <<>> => app[e].reading
       /\ s.state = "ESTABLISHED" /\ app[e].sent < plan.bytes[e] /\ ~app[e].writing
            => s.writeEnable /\ Len(s.sbuf) >= (SndBufLen + RcvBufLen) \div 2

\* An endpoint that was closed gracefully while open may be destroyed only
\* when its peer holds every byte that Send took, if the peer was not closed.
GracefulClose ==
  \A e \in Peers :
    LET s == tcp[e]
        r == tcp[Other(e)]
    IN s.shutdown = "GRACEFUL" /\ s.state = "ESTABLISHED" /\ ~ClockCheck(s) /\ r.shutdown = "NONE"
         => Len(app[Other(e)].got) + Len(r.rbuf) = app[e].sent

Gone(e) == tcp[e].state = "CLOSED" \/ ~ClockCheck(tcp[e])

\* Once a connection is open, all that its application has to send reaches the
\* other, or the connection ends: a lost packet, acknowledgment or window
\* update is made up for by the three timers, and neither peer waits for good.
Delivered ==
  \A e \in Peers :
    tcp[e].state = "ESTABLISHED" ~>
      Len(app[Other(e)].got) = plan.bytes[e] \/ Gone(e) \/ Gone(Other(e)) \/ fails > 0

\* An endpoint that was closed gracefully can be destroyed at last, also when
\* its peer is gone and acknowledges nothing.
Closes == \A e \in Peers : tcp[e].shutdown = "GRACEFUL" ~> Gone(e) \/ fails > 0
============================================================================
