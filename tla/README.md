# A verification project for WebRTC (the VS2015 tree)

TLA+ specifications, TLC configurations and TLAPS proofs for parts of `src/webrtc` whose
correctness depends on the order in which threads, messages and peers act.  Paths below are
relative to `src/webrtc`.

1. [The system](#1-the-system)
2. [What is here](#2-what-is-here)
3. [Message queues](#3-message-queues)
4. [Synchronous calls between threads](#4-synchronous-calls-between-threads)
5. [Data channels](#5-data-channels)
6. [SCTP streams](#6-sctp-streams)
7. [PseudoTcp](#7-pseudotcp)
8. [Process threads](#8-process-threads)
9. [What is proved, and how](#9-what-is-proved-and-how)
10. [What is only model-checked](#10-what-is-only-model-checked)
11. [What is not modelled](#11-what-is-not-modelled)
12. [Plan](#12-plan)

## 1. The system

WebRTC is a library.  An application drives a `PeerConnection` on a *signaling* thread; a
*worker* thread runs the media engine; a *network* thread runs sockets, ICE, DTLS and SCTP.
The three talk through `rtc::Thread`: `Invoke` (a synchronous call that runs on the other
thread), `Post` and `AsyncInvoke` (asynchronous ones).  Everything else sits on top of that.

| component | state | operations | interacts with | what is hard | what makes it correct |
|---|---|---|---|---|---|
| Message queue, `base/messagequeue.*` | list of ready messages, heap of delayed ones with a wrapping tie-breaker, quit flag, wake-up event | Post, PostDelayed, PostAt, Clear, Dispose, Get, Dispatch, Quit, Restart, destruction | any thread posts; the owner drains; handlers delete themselves | posts and quits that race with the owner's decision to sleep; deletion of handlers and of message data | every message comes out once or is cleared; no early or misordered delivery; no dead handler is called; no lost wake-up |
| Thread, `base/thread.*` | list of pending Sends, per-call `ready` flag, the queue's event | Send, Invoke, ReceiveSends, Clear, ProcessMessages, Stop | two threads at a time, nested without limit | all waits of a thread, nested or not, share one auto-reset event; mutual and nested calls | each call runs at most once and its sender is told; a waiting thread is re-entered only by the thread it waits for; nobody waits for ever |
| AsyncInvoker, `base/asyncinvoker.*` | set of closures in flight, a `destroying_` flag | AsyncInvoke, Flush, Clear, destruction | queues of several threads | destruction while closures are posted | no closure runs after its invoker is gone |
| Queue manager, `base/messagequeue.cc` | list of queues | Add, Remove, Clear, ProcessAllMessageQueues | all queues | queues that quit while it waits for them; lock order | returns; every message posted before is handled |
| Data channel, `pc/datachannel.*` | state, handshake state, three packet queues, limits, observer | Create, Send, Close, observer registration, transport created/destroyed, ready, data, stream closed | `WebRtcSession` (signals), SCTP transport (network thread, by Invoke and posted closures), the peer | blocking in the middle of a queue, closing while data is queued, signals that arrive late | order, nothing lost, OPEN before data, opens and closes in the end |
| SCTP transport, `media/sctp/sctptransport.*` | open, closing and queued-reset streams; ready flag | OpenStream, ResetStream, SendData, callbacks of usrsctp | data channels, DTLS | resets from both sides, reuse of a stream id | a stream id is not reused before both sides have reset it |
| Peer connection, session, `pc/peerconnection.*`, `pc/webrtcsession.*` | signaling state, descriptions, channels and transports | SetLocal/RemoteDescription, CreateDataChannel, Close | all of the above | offer/answer orders, rollback, renegotiation | legal transitions; channels and transports agree with the description |
| Media channels, `pc/channel.*` | enabled, writable, SRTP, muxing | SetContent, enabling, transport signals | transports, media engine | signals from the network thread | no media is sent before it is protected |
| ICE, `p2p/base/p2ptransportchannel.*`, `port.*` | connections with their states, selected one, roles | checks, nomination, sorting, pruning, timeouts | sockets, TURN, the peer | role conflicts, lost checks, timeouts | the two sides select the same pair |
| STUN/TURN, `p2p/base/stunrequest.*`, `turnport.*`, `turnserver.*` | outstanding transactions, allocations, permissions, bindings | send, retransmit, time out, refresh | sockets | late and repeated answers | an answer is matched at most once; allocations expire |
| PseudoTcp, `p2p/base/pseudotcp.*` | windows, segments, timers | Send, Recv, NotifyPacket, NotifyClock, Close | an unreliable channel | loss, duplication, reordering, wrapping sequence numbers, zero windows | the bytes received are a prefix of the bytes sent; progress |
| DTLS, `p2p/base/dtlstransportchannel.*` | handshake state | packets, writability | ICE, TLS library | handshake packets before the description | writable only after the handshake |
| Video receive pipeline, `modules/video_coding/{nack_module,packet_buffer,frame_buffer2}.*` | rings over 16-bit sequence numbers | insert, nack, decode | RTP receiver, decoder thread | wrap-around, gaps, late packets | only complete and decodable frames come out, in order |
| RTP/RTCP, pacing, `modules/rtp_rtcp`, `modules/pacing` | send queues, budgets | enqueue, send, process | process threads | priority and starvation | order within a stream, no starvation |
| Process threads, `modules/utility/source/process_thread_impl.*` | registered modules with the time of their next call, task queue, wake-up event, the worker thread | Start, Stop, RegisterModule, DeRegisterModule, WakeUp, PostTask | media modules, which call back | modules woken or deregistered, tasks posted and the thread stopped while the worker processes or is about to wait | no call after deregistration; no sleep on work; tasks once and in order; Stop returns |
| Task queues, `base/task_queue*` | tasks and timers | PostTask, PostDelayedTask | media modules | destruction | tasks in order |
| Congestion and bitrate control | estimates | filters | RTCP | numerical | - |
| Audio: coding, NetEQ, processing, devices, voice engine | signal buffers | signal processing, device I/O | codecs, OS | numerical and platform work | - |
| Call, SDK, examples, tools | composition | configuration | - | - | - |

`PROJECT.json` lists each of these with its status, and the hazards found so far, each with the
line where it bites and the property that would catch it.

## 2. What is here

| module | models | source |
|---|---|---|
| `MessageQueue` | one queue, the thread that owns it, the threads that use it | `base/messagequeue.{h,cc}`, `base/messagehandler.cc`, `base/thread.cc` |
| `ThreadSend` | `Send` between any number of threads | `base/thread.cc`, `base/messagequeue.cc` |
| `SyncCall` | what `Send` promises: the abstract specification of `ThreadSend` | `base/thread.cc` |
| `DataChannel` | one SCTP data channel with the session, transport and peer around it | `pc/datachannel.cc`, `pc/webrtcsession.cc`, `media/sctp/sctptransport.cc` |
| `SctpStreams` | stream ids, and the opening and resetting of the streams of two peers | `media/sctp/sctptransport.cc`, `pc/peerconnection.cc`, `pc/datachannel.cc`, `pc/webrtcsession.cc` |
| `PseudoTcp` | both endpoints of a connection over an unreliable network | `p2p/base/pseudotcp.cc`, `base/stream.cc` |
| `ByteStream` | what PseudoTcp promises: the abstract specification of `PseudoTcp` | `p2p/base/pseudotcp.h` |
| `ProcessThread` | the thread that calls media modules back and runs tasks | `modules/utility/source/process_thread_impl.cc`, `base/platform_thread.cc`, `base/event.cc` |
| `MCMessageQueue`, `MCThreadSend`, `MCDataChannel`, `MCSctpStreams`, `MCPseudoTcp`, `MCProcessThread` | instances for TLC | |
| `MessageQueueProofs`, `ThreadSendProofs`, `DataChannelProofs`, `PseudoTcpProofs`, `ProcessThreadProofs` | theorems, for every value of the constants | |
| `SctpStreamsProofs`, `SctpUseProofs`, `SctpSidesProofs` | theorems about `SctpStreams`, each module resting on the one before | |

Check a run with `tlc -config <run>.cfg <MC module>`, the proofs with `tlapm <module>.tla`.
Definitions whose comment starts with "A mutant of" or "Mutant:" are small plausible bugs: they are
never part of a specification; each one, put in the place of a definition further down, makes TLC
refute the property that `PROJECT.json` names beside it.

Conventions: a definition keeps the name of the code it models; variables keep the names of the
members and locals (`msgq_`, `msCurrent`, `handshake_state_`); `pc` and `loop` stand for a place
in the code between two steps.  Variables marked "history" in a declaration are read by properties
and by no guard.  No run checks for deadlock: in each of the systems everybody may simply be
finished (threads destroyed, all messages used up, the channel closed).

## 3. Message queues

**State.** `msgq_` is a set of records stamped with the number of earlier `push_back`s, which is
the list; `dmsgq_` is a set whose least element by (`msTrigger_`, `num_`) is the top of the heap;
`signaled` is the auto-reset event of the socket server; `call[c]` is the rest of the operation
that a caller is in the middle of; `pc` with `pmsg` and Get's locals is the owner.

**Steps.** A block under `crit_` is one step.  The move of due messages keeps the lock over
several steps (`pc = "scan"`).  The steps of `Get` are GetBegin (ReceiveSends, clocks), GetLock,
GetMoveDue, GetPop/GetPopAgain (pop, or leave the inner loop), GetDispose (dispose messages, whose
data may be an object whose destructor clears the queue), GetQuitCheck, GetWait, GetTimeCheck.
`Post`, `PostDelayed` and `PostAt` test IsQuitting (PostBegin), push under the lock (PostPush) and
wake the owner (WakeUpSocketServer) in separate steps, as in the code, so that everything may
happen between them.  `Quit` sets the flag and wakes; `Clear` runs at any time on any thread.
Handlers are deleted on the owner's thread (DeleteHandler, or as data of a dispose message).
`GetWait` returns on a signal, which it consumes, or on a timeout, which leaves the event alone.
`GetWaitFails` is `if (!ss_->Wait(..)) return false` (`base/messagequeue.cc:361`): the Wait of a
PhysicalSocketServer fails when select does (`base/physicalsocketserver.cc:1337`, `:1540`), and Get
returns false although nobody has called Quit.  It may happen at every wait if `WaitMayFail`; the
other SocketServers' Waits do not fail.  Thread::Start and the destructor come after Stop, which
calls Quit and joins, so Restart and DoDestroy are guarded by `stop_`.

**Runs.**

| run | instance | shows |
|---|---|---|
| `MessageQueue_dispose` | 3 messages, one of them a dispose message, 1 caller and the owner, endless and timed ProcessMessages, Waits that fail, counter modulo 2, fairness | `PendingOnce`, `OnlyLiveHandlers`, `NoLostWakeUp`, `TiesInOrder` (no message overtakes one that was ahead of it, also at equal times), `NeverEarly`, `EventuallyOut`, `QuitEnds` |
| `MessageQueue_quit` | 2 messages, 1 caller | refutes `QuitDeliversReady` |

**Bounds.** Three messages are enough for one in hand, one ready and one delayed, and for two
delayed ones to tie while a third overtakes.  One delay and the instants 0 and 1 give the cases due,
not yet due and equal; the clock passes `MaxTime` only to end a wait.  `NumMod` is 2^32 in the code:
modulo 2 the counter has wrapped after the second delayed post, and it still tells the two delayed
messages of the instance apart. The theorems have no bounds on messages, callers, handlers or
`NumMod`; what two callers do to each other, in particular, is proved and not in the instance.
`TypeOK`, `Sealed` (what was refused, handled, disposed of or cleared never comes back) and
`SoonerFirst` are proved and not checked again; in the instance `SoonerFirst` is a part of
`TiesInOrder`.

**Failing Waits.**  When a Wait fails in `Run()`, the loop of the thread is gone, with `stop_`
false: Post goes on accepting messages, and nobody takes them.  `EventuallyOut` therefore excepts a
Run that has ended.  It does not except a failing Wait as such: in a ProcessMessages with a time limit
the caller goes on, and the message comes out later.

**Finding** (`MessageQueue_quit`).  `base/messagequeue.h:204` promises that ready posts are
delivered before Get returns false.  Get leaves its loop when `msgq_` is empty, releases the lock
and then tests IsQuitting (`base/messagequeue.cc:344`): a Post and a Quit in between, in that
order, leave the message in the queue.  The sentence covers pending Sends too: one that is enqueued
at that moment is not delivered, and its sender stays blocked until the thread is destroyed.

## 4. Synchronous calls between threads

**State.** `sendlist_[t]` are the calls waiting on t, with `before` the order of arrival;
`stack[t]` are the calls that t is in the middle of, as sender or as receiver, innermost last;
`pc[c]` is the sender's place in Send, `ready[c]` is `*ready`, `waited[c]` the local of that name;
`signaled[t]` the event of t; `loop[t]`, `posts[t]`, `stop_[t]` the message loop.

**Steps.** SendBegin (refused if the receiver quits; executed at once on the own thread),
SendEnqueue, SendWake, then the loop SendCheck / SendReceive / SendWait; after the loop a sender
that has waited wakes its own thread again, for the Sends and the loop below it (`WakeAgain`).
Receive pops the first call that is admitted, runs its handler (which may begin Sends of its own:
the stack grows) until HandlerDone sets `ready` and wakes the sender.  The loop goes through
LoopSends, LoopPosts, LoopTaskDone, LoopQuitCheck, LoopWait.  Clear removes queued calls and tells
their senders; Destroy, which comes after Stop, clears all.  The Waits of the threads in `MayFail`
may fail: Send ignores that and looks at `ready` again (SendWaitFails), the loop ends (LoopWaitFails).

**Promise.** `SyncCall` knows only the status of each call: refused, or begun, executed at most
once by a receiver that is free or waits for the caller, finished or dropped, and returned after
that.  `KeepsPromise` is the refinement, with the status computed from pc, list and stack.

**Runs.**

| run | instance | shows |
|---|---|---|
| `ThreadSend_nest` | 2 threads, 3 calls that nest, post, clear, Waits of both fail, one thread quits and is destroyed | `NoLostSendWakeUp`, `KeepsPromise` |
| `ThreadSend_line` | 3 threads in a line, 3 calls between neighbours in both directions, started at both ends, Waits of tc fail, fairness | `OnlyAwaitedReenters`, `SendReturns` |

**Bounds.** Each call is made at most once, when its sender runs user code; three calls nest three
deep, which is the depth at which an inner Send swallows the wake-up of two outer waits. Calls of a
thread to itself, which run at once, are in the model and in the proofs, and in no instance.  A post
is a count (`MaxPosts` waiting at a time), since only its presence matters here.  A cycle of Sends
over three threads deadlocks by the design of the code (the comment in Send says why only the
awaited thread is served), so the liveness instance has none.  It has ta call tb, and tb and tc call
each other: tb from inside the handler of the first call, tc from a message of its own, so that the
two Sends are nested in either order or cross.

**Ended loops.**  `SendReturns` excepts the case `Abandoned`: a call is queued at a thread whose loop
has ended.  Nobody will serve it until the Thread is destroyed.  In the instance nobody quits, so the
only cause is a failing Wait in the loop of tc; a Send of tc whose own Wait fails is not excepted.

## 5. Data channels

**State.** The members of `DataChannel` under their own names; `id` says whether a stream id is
set; `send_bytes` and `received_bytes` are the byte counts of the two data queues;
`control_packets` is the local of SendQueuedControlMessages.  Of `WebRtcSession` the transport
pointer and `sctp_ready_to_send_data_`; of `SctpTransport` the ready flag and whether the stream
is open (`stream`); `events` are the closures posted to the signaling thread.

**Steps.** The channel runs on the signaling thread.  `provider_->SendData` goes to the network
thread and back, so each attempt to send is a step, and the network thread and the peer act in
between: OnReadySignal or OnMessage begins OnChannelReady, which goes on through
SendQueuedControlMessages, SendQueuedDataMessages (one message a step), SendHandshake and
UpdateState.  An attempt succeeds, blocks (the transport is not ready from then on) or, if
`MayFail`, fails otherwise; data on a stream that is not open fails.  `CloseWith` is Close together
with what UpdateState does in kClosing.  The network thread posts ready signals, data, the
OPEN_ACK and the reset of the stream by the peer (SetReadyToSendData, PeerSends, PeerAcks,
OnStreamResetEvent); OtherBlocks is another channel that meets a full buffer.  Destruction of the
transport drops its closures, but not MSG_CHANNELREADY, which the channel posts to itself.

An observer that calls back into the channel is left out: `api/datachannelinterface.h` says that
re-entrancy is not supported.

**Runs.**

| run | instance | shows |
|---|---|---|
| `DataChannel_send` | 2 messages each way, 2 blocks, errors, 2 closures waiting, fairness | `TypeOK`, `SentInOrder`, `ReceivedInOrder`, `OpenComesFirst`, `NoStall`, `NeverBack`, `Opens`, `Closes` |
| `DataChannel_error` | 1 message, fairness | refutes `ErrorCloses` |

**Bounds.** The limits of the queues are 2 and the sizes of the messages 1 and 2, so that one
message can fill a queue and two overflow it.  Two blocks let OPEN block twice (which is what it
takes to have two in the queue), or OPEN and a message.  All roles, ordered and unordered, with
and without a stream id at creation, are tried.  The theorems have none of these bounds.

**Finding and observations.**

- `DataChannel_error`: when sending *queued* data fails with an error, the channel stays in
  kClosing for ever.  SendQueuedDataMessages leaves the message in the queue
  (`pc/datachannel.cc:528`), Close waits for the queue to drain, and the transport, which is not
  blocked, sends no further signal.  A reset of the stream by the peer while data is queued leads
  to the same state, since SendData then fails with an unknown sid.  The unit test "Tests that the
  DataChannel is closed on transport errors" (`pc/datachannel_unittest.cc:550`) has an empty queue.
- A blocked OPEN is queued, and UpdateState sends another one the next time.  The copy that follows
  the first success is sent in another handshake state and therefore, on an unordered channel,
  unordered (compare the comment at `pc/datachannel.cc:626`); the peer refuses it.  Data itself is
  never sent unordered too early: `OpenComesFirst` is proved.
- The send queue may exceed its limit by one message, since `QueueSendDataMessage` tests the
  limit before it adds (`TypeOK` states the bound that holds), while
  `api/datachannelinterface.h:169` speaks of a maximum.

## 6. SCTP streams

`DataChannel` has one channel on a stream that is given.  `SctpStreams` has many channels, two peers,
and the life of the streams under them.

**State.** Of each peer `used_sids_` (SctpSidAllocator), `channels` (the channel on each sid), and
the sets `open_streams_`, `queued_reset_streams_`, `sent_reset_streams_` and the flag
`ready_to_send_data_` of its SctpTransport; `up`, whether its SCTP stack has established the
association, and `busy`, whether it has a reset of its own under way; `wire`, the packets on their
way to it, and `sig`, the closures that wait for its signaling thread.

**Steps.** Connect makes one side ready to send as soon as usrsctp_connect has begun the handshake
(`media/sctp/sctptransport.cc:617`); CommUp ends the handshake at one side, which needs the sockets
of both (OnPacketRead drops what comes before).  In between, channels open and close: the stack keeps
what is sent and takes no request for a reset (`sctptransport.cc:788`).  OnChannelReady sends OPEN, or
from the other side's channel OPEN_ACK; both are control messages, which need no open stream
(`sctptransport.cc:515`), so that an OPEN_ACK may follow the reset of its stream.

CreateDataChannel takes the first free sid of the role, reserves it and opens the stream;
AddSctpDataStream ignores a refusal of OpenStream, and so does the model.  Close and a failed Send
reset the stream and release the sid at once.  A reset is queued, and sent unless one is under way
(SendQueuedStreamResets); the network thread handles the peer's request, its agreement, its refusal
and the end of one's own (OnRequest, OnAgreed, OnFailed, OnDone), each with all branches of
OnStreamResetEvent.  OPENs, OPEN_ACKs, data and remote closes go on to the signaling thread
(OnDataChannelOpenMessage, OnDataReceived, OnStreamClosedRemotely).

usrsctp is not in the repository.  What it does with resets is taken from the comments of
OnStreamResetEvent and SendQueuedStreamResets: a request resets one direction and asks for the other;
a stack that has a reset under way refuses.  What it posts to the network thread is handled in the
step that reads the packet.  (An earlier version of the model, with ready and up in one step and without
OPEN_ACK, was also checked with that hop as a queue of its own, with the same result.)

**Mishaps.** Three things happen that the code does not cope with.  The history variable `mishaps`
records them, and the properties say which of them they exempt:

- *early*: a sid is released when its channel is closed and can be taken while the reset is not
  through.  OpenStream then refuses the stream, or the peer refuses the OPEN.  A disabled test knows
  the race (`pc/peerconnectionendtoend_unittest.cc:389`).
- *stranded*: ResetStream before the association is up queues the reset, which the stack refuses, and
  SCTP_COMM_UP is only logged.  A channel that is opened and closed between ready and up has its OPEN
  delivered and its reset not: the peer keeps a channel that this side has closed, until another stream
  is reset.  `media/sctp/sctptransportinternal.h:90` says that the reset "will have begun".  `SidesAgree`
  excepts the stream for as long as its reset is queued, and no longer.
- *overtaken*: see the finding.

**Runs.**

| run | instance | shows |
|---|---|---|
| `SctpStreams_reset` | sids 0 and 1, 2 channels, 1 message, fairness | `TypeOK` (with it, that the sets of open, queued and sent streams are disjoint), `NoLostReset`, `OpenCanSend`, `RightChannel`, `SidesAgree`, `ResetsEnd` |
| `SctpStreams_close` | the same | refutes `CloseReachesPeer` |

`ResetsEnd` says of every sid and side: again and again the stream is not being reset, or requests of
both sides are colliding.
Both stacks refuse, both transports queue and send again at once, and nothing in the code breaks the
symmetry; what does is the timing of the network.

**Bounds.** Two channels on two sids are a channel of each peer at the same time, or two of one peer
one after the other on one sid, which is what reuse needs.  All the invariants are also proved, for
any number of sids, channels and messages.

**Finding** (`SctpStreams_close`).  The peer's `open_streams_` gets a sid when its signaling thread
handles the OPEN, while the reset is handled on the network thread.  If a channel is closed soon after
it was opened, the reset overtakes the OPEN, takes the branch for an unknown sid
(`media/sctp/sctptransport.cc:1076`) and is ignored; then the channel is created, and stays open on
that side.

## 7. PseudoTcp

**State.** `tcp[e]` is the object of endpoint e with the members of PseudoTcp under their names
without `m_`; `sbuf` holds what is unacknowledged, `rbuf` what can be read, `ahead` the memory of the
receive buffer behind it, `slist` and `rlist` the segments to send and those saved out of order.
`app[e]` is the application: how much it has sent, what it has got, and whether a callback allows it
to go on.  `net` is the set of packets in flight, `path` the payload that the path accepts, and `plan`
says what applications and network may do in this behaviour.

**Steps.** Connect, Send, Recv, Close, NotifyPacket, NotifyClock and NotifyMTU, each the whole call:
process() with ProcessControl, ProcessAck and ProcessData, attemptSend() as a loop of turns with
Nagle's algorithm and the avoidance of silly windows, transmit() with cutting of segments and a retry
at a smaller size, and the writes to the network.  A packet may be delivered late, twice (`copies`) or
never; a write may fail, or be refused as too large when the path has shrunk.

**Abstractions.** A byte is its position in the stream, so that a wrong or misplaced one shows.  Sizes
are a few units instead of thousands of bytes.  A timer is armed or not, and an armed one may fire at
any time; so every order of timeouts and packets is covered, and the lengths of timers are not.  An
application reacts to a callback after the handler that makes it.

**Promise.** `ByteStream`: in each direction a count of bytes sent, and the bytes received, which are
always the next ones.  `StreamSpec` is the refinement; it is proved for orderly plans (section 9).

**Runs.**

| run | instance | shows |
|---|---|---|
| `PseudoTcp_stream` | eight plans, buffers of 5 and 4 bytes, windows in units of 2 | `TypeOK`, `SegmentsMatch`, `WindowsAgree`, `TimerRuns`, `NoStall`, `NoLostWakeup`, `GracefulClose`, `StreamSpec` |
| `PseudoTcp_live` | five plans, buffers of 4 and 3 bytes, fairness | `Delivered`, `Closes` |
| `PseudoTcp_open` | a connection from its first packet, the peer that was connected to sends | refutes `InOrder` |

The plans are single-byte segments (many in flight, with duplicate acknowledgments and recovery), a
connection from its first packet with a duplicate, simultaneous connects, a path that shrinks, a write
that fails, closes of both kinds, data both ways, and a transfer larger than the send buffer.

**Bounds.** The receive buffer is twice the unit of windows, so that a window closes, opens by less
than a unit, and is rounded; transfers exceed it, so that it fills.  Two packets in flight are enough
for one to overtake the other.  A segment is given up after 2 transmissions (15 and 30 in the code)
and a silent peer after 1 unanswered probe, so that the ends of connections are reached.  The
congestion window is capped where the peer's window already limits it.

**Finding** (`PseudoTcp_open`).  An endpoint that was connected to becomes established on any packet
without a connect message and may send before the answer to the connect message has arrived.  The data
is saved at an offset that counts the connect message; when that arrives, `m_rcv_nxt` moves past it
(`p2p/base/pseudotcp.cc:904`) and the buffer does not, so that the bytes recovered are not the ones
that were saved.

**Observation.** attemptSend returns when a write fails (`p2p/base/pseudotcp.cc:1124`); with nothing
in flight no timer is armed, and what is queued waits for the application or the peer.  `NoStall` and
`Delivered` exempt behaviours in which a write has failed.

## 8. Process threads

**State.** `modules_`, `next_callback`, `queue_`, `stop_`, `thread_` and `wake_up_` are the members;
`stop_event_` belongs to PlatformThread.  `worker` is the worker's place in Process with the locals
`now` and `next_checkpoint`, the modules it has not visited (`todo`) and the task in hand;
`controller` is the construction thread's place in Start, Stop or RegisterModule; `setting` are the
threads between the lock and `wake_up_->Set`.

**Steps.** WakeUp, PostTask and DeRegisterModule are open to all threads, to the worker from inside a
module or a task too; what they do under the lock is a step, and Set is another.  Start, Stop and
RegisterModule are cut where they leave the lock or wait: Start / StartThread, Stop / Set /
StopThread / Joined / StopEnd, RegisterModule / RegisterPush / Set.  The worker goes through
ProcessBegin (reads the clock), ProcessLock, VisitModule and ModuleReturns for each module,
TakeTask and TaskReturns for each task, Sleep, Wake and RunAgain.  It holds the lock over the modules
and between tasks, and no other thread can enter then (`CanLock`); it is free while a task runs.

**Run.** `ProcessThread_work`: two modules that wake each other up, or one module with two tasks and
two starts; a thread besides controller and worker; fairness of the threads and none of the clock.

| property | says |
|---|---|
| `NoOversleep` | when the worker is about to wait or waits, either somebody has set or is about to set the event, or there is no task, no Stop, and no module due before the end of the wait |
| `TasksInOrder` | the tasks posted are the ones that ran, the one in hand, those waiting and those deleted at the end, in this order |
| `Attachment` | ProcessThreadAttached has told the modules the truth, and Process is called of modules in the list only |
| `Served` | a module that was woken up is called or asked, a task runs, and Stop returns |

**Bounds.** The intervals are a negative one, which makes a module due at once, and 1; with the clock
at 1 or 2 and a longest wait of 2 a module is due, due later, or due behind the longest wait.  A module
or a task makes one call back; the second task is what makes order matter, the second start what makes
a flag that was not reset matter.

**Observations.** Start tells the modules and sets `thread_` after it has left the lock
(`modules/utility/source/process_thread_impl.cc:79`); a module that another thread deregisters in
between is never told that it is detached.  `Attachment` exempts it (`unnoticed`).  The code's TODO
wants DeRegisterModule on the construction thread only, which would close the gap.
`modules/utility/include/process_thread.h:63` says of RegisterModule that it "Can be called from any
thread"; the code asserts the construction thread, and the model follows the code.  Tasks that go on
posting tasks keep the worker in its loop over the queue and Stop waiting; the instance has finitely
many tasks.

## 9. What is proved, and how

All proofs are by an inductive invariant with one step per action; the provers used are Z3, Zenon
and LS4.  The only assumptions are the named ones on the constants, which TLC evaluates in every
run: `QueueAssumption` (ids and handlers of messages fit together, no two dispose messages delete
one object, a bound and a modulus are naturals; Waits may fail or not), `SendAssumption` (who calls
whom, objects of calls, which threads may quit, get messages, or have Waits that fail),
`ChannelAssumption` (sizes and limits are positive; messages are not events of another kind),
`ProcessThreadAssumption` (the callers are not the controller or the worker, intervals, also
negative ones, and times are numbers), `StreamAssumption` (there are at least two sids; the bounds
are naturals) and `PseudoTcpAssumption` (the sizes of payloads are finitely many positive numbers, a
unit of windows fits the receive buffer, which is smaller than the send buffer,
`p2p/base/pseudotcp.cc:223`).

**MessageQueueProofs** - `TypeCorrect`, `PendingOnceHolds`, `SealedHolds`, `NoLostWakeUpHolds`,
`NeverEarlyHolds`, `OnlyLiveHandlersHolds`, `SoonerFirstHolds`, `TiesInOrderHolds`.

- `PendingOnce` is not inductive alone: two callers must not be about to push the same message
  (`Holding`).
- `NoLostWakeUp` speaks of a waiting owner; its invariant `WakeInv` starts where the owner last
  looked: from there on whatever has come in is announced by the event or by a caller that is
  about to set it, and the delay computed for the wait covers the first delayed message.
- `NeverEarly` needs that `msCurrent` is never ahead of the clock and that entries carry the time
  that was asked for (`TimeInv`).
- `SoonerFirst` needs `OrderInv`: what was ahead of a message when it was posted is, as long as it
  is pending, in hand, at a smaller place of the list, or triggers sooner.  The counter plays no
  part, so the theorem holds however it wraps.
- `TiesInOrder` has the hypothesis `FewMessages`: no more messages can be posted with a delay than
  the counter has values (in the instance two, modulo 2; in the code 2^32).  Without it the property
  is false, as the comment of DoDelayPost says.  `NumInv` counts the messages that have been posted:
  while one may still come the counter has not wrapped and is above every number in the heap, so what
  was ahead comes out of the heap before (`TieInv`).

**ThreadSendProofs** - `TypeCorrect`, `CallTrackedHolds` (a call is in exactly one place, so its
handler runs at most once), `OnlyAwaitedReentersHolds`, `NoLostSendWakeUpHolds`, `Refinement`.

- `CallInv` relates stacks, lists and places: no call is twice on a stack, only its two parties
  have it, a sender that does not serve others has its call on top.
- `NoLostSendWakeUp` is the heart of nested Sends.  The wake-up for an outer call may be consumed
  by an inner wait of the same thread.  `OwedInv` says that it is then owed: an inner Send that
  has waited is above the outer one on the stack, and it signals again when it returns.  Without
  the `waited` branch at the end of Send the invariant, and the property, fail.
- `Refinement`: Spec implements SyncCall's specification under the mapping `Status`; each step of
  Send, Receive, Clear and Destroy is a step of SyncCall or leaves every status unchanged.

**DataChannelProofs** - `TypeCorrect`, `SentInOrderHolds`, `ReceivedInOrderHolds`,
`OpenComesFirstHolds`, `AssertionsHoldHolds`, `NoStallHolds`, `NeverBackHolds`.

- `TypeOK` says that the byte counts are natural numbers and bounded.  That taking a message off the
  send queue does not bring its count below zero needs that the count is the sum of the sizes
  (`BytesInv`).  The sum is stated by its partial sums, a function on `0..Len(queue)`; that these
  grow is an induction, done with the least place where they would not (`LeastNat`: a set of natural
  numbers has a least element, which the library's theorem on well-founded relations gives without
  an operator as a parameter).
- The order theorems rest on two facts about sequences: appending behind a queue is appending
  behind the whole, and moving the head of the queue behind what was sent changes nothing.
- `OpenComesFirst` needs `HandInv`: an opener's control messages are all OPENs, it leaves
  kHandshakeShouldSendOpen only by sending one, data is sent or queued only after that, and it is
  "ready" only after it has heard from the peer.
- `NoStall` needs `StallInv`, which covers the time when the flush is under way (a control message
  that blocks is queued before the flush is over), and `ConnInv`: a channel with something queued
  is connected, so the ready signal, which only OnReadySignal takes, makes it send.
- `AssertionsHold` needs that a transport which was ready once implies assigned stream ids
  (`UpInv`) and that a negotiated channel never has control messages (`NoneInv`).

**ProcessThreadProofs** - `TypeCorrect`, `TasksInOrderHolds`, `AttachmentHolds`, `NoOversleepHolds`,
for any modules, tasks, intervals and threads, and any number of starts and stops.

- All need `CtrlInv`: without `thread_`, and once Stop has joined, there is no worker.
- `TasksInOrder` needs that the worker has a task in hand only while one runs, and that tasks are
  deleted only in the destructor (`TasksInv`); the rest is associativity of appending.
- `Attachment` needs `AttachInv`: the modules in the list have been told between the two steps of
  Start, the one that RegisterModule is about to push is not in the list, and what the worker still
  has to visit is in the list, since no other thread can take the lock.
- `NoOversleep` speaks of the end of a pass; `SleepInv` starts at its beginning: unless a wake-up is
  coming, Stop has not been called and the modules already visited are not due before
  `next_checkpoint`; after the scan these are all modules, and after the tasks the queue is empty.
  A WakeUp of a module that the pass has visited, from inside a later module, is what makes the
  exemption necessary.

**SctpStreamsProofs** - `TypeCorrect`, `NoLostResetHolds`, for any number of sids, channels and
messages.

- `TypeOK` contains that the three sets of streams are disjoint, and is inductive.
- `NoLostReset` needs `Handshake`.  The packets that reset streams are a handshake of two stacks: of
  each kind at most one is on its way to a peer, a stack is busy if and only if one of five
  situations holds (its request is on its way, was agreed to, was refused; it has agreed itself, and
  the answer is on its way, or the end of the reset is), these exclude each other, and what a
  transport has in `sent_reset_streams_` is in the request or in the answer to it.  So the handlers
  that end a reset find nothing left in `sent_reset_streams_`, and send what is queued.

**SctpUseProofs** - `OpenCanSendHolds`, `RightChannelHolds`.

- `Parity`: OPENs go from the side that allocates even sids, or odd ones, to the other; a sid is
  reserved if and only if there is a channel on it.  `WireOrder` and `SigOrder`: what is on its way
  does not open a sid twice, and no request to reset a stream is ahead of its OPEN.
- A step concerns many sids, the invariant one.  `SidStep(s)` is what any step can do to the sid s
  (seventeen predicates: who has a channel, an open, queued or sent stream, which packets and closures
  mention s); `StepSid` shows that every step is one of its nine cases, and the invariant `UseInv(s)`
  is then a matter of propositional logic.
- `UseInv(s)` is `Fresh`, `CanSend` and `Gone`: until the OPEN has been handled the guest has nothing
  to do with s; a channel has an open stream or a close is posted to it; a stream is only being
  reset, or asked about, when its channel is gone.  `OpenCanSend` is `CanSend`.
- `RightChannel` needs `OneUse` besides: the channels on a sid and all messages about it, OPEN_ACKs
  included, are those of one channel.  A new channel comes only when the last use is over (no mishap
  *early*), and then `CanSend` says that no channel is left either, so that none can still send an
  OPEN_ACK.

**SctpSidesProofs** - `SidesAgreeHolds`.

- `Half(s)`: when one side only has a channel, something on its way will end this: the owner is
  connecting, its OPEN is on its way, a close is posted, or the other side has queued or sent its
  reset.  The INCOMING event for an unknown stream would break it, and is the mishap *overtaken*.
- A connecting channel is nothing on its way: `ReadyComing` says that, if its transport is ready, the
  signal that makes it ready is posted: Connect posts it for all, Init for a later one.  An association
  is up at a side only when that side is ready.
- When nothing is on its way, all alternatives of `Half` are gone but a queued reset, which is the
  exception that `SidesAgree` makes.  That it is one refused before the association was up is
  `NoLostReset`.

**PseudoTcpProofs** - `Invariant`, `TypeCorrect`, `SegmentsMatchHolds`, `WindowsAgreeHolds`,
`TimerRunsHolds`, `DataInvariant`, `NoStallHolds`, `NoLostWakeupHolds`, `GracefulCloseHolds`, for any
plan, any sizes of buffers, units and payloads, any number of bytes, packets in flight, copies and
failing writes, from the first packet or from an open connection; `StreamHolds` and `InOrderHolds`,
for all of that and orderly plans.

- Nothing about one endpoint is inductive alone: what an acknowledgment does to the segment list
  depends on what the peer may acknowledge, and that on what arrived.  `Inv` relates the two.
  `SndInv` is about the half of an endpoint that sends: the list of segments covers the buffer
  without a gap (`Listed`), what was sent comes first and ends at `m_snd_nxt`, the timer runs exactly
  while `m_snd_una < m_snd_nxt`.  `RcvInv` is about the half that receives: the announced window fits
  the buffer, and what was saved ahead of a gap lies within it.
- `Pair(s, r)` relates the sender s to the receiver r: everything received was sent, what was sent
  and the window believed in do not pass the right edge of the receiver's window (`Edge`), and all
  places where a received piece ends, `m_rcv_nxt` and the saved ones, are ends of segments that were
  sent (`Bound`).  So an acknowledgment never ends inside a segment, and process() never frees one in
  part, which is what `SegmentsMatch` needs.
- `Good(s, p, q)` says the same of a packet p from s to q, however old: its data ends at the end of a
  segment, its acknowledgment at a `Bound`, its window within the edge.  Old packets stay good because
  no step of an endpoint takes back `m_snd_nxt`, `m_rcv_nxt`, the edge, or an end of a segment
  (`Later`); so losses, copies and reordering need no case of their own.
- The parts of process(), attemptSend() and NotifyClock each keep `Handling`, the invariant inside a
  handler, where packets already written count too.  A change of fields that neither half is about is
  covered once (`AsideOf`).  The loop of attemptSend() and the sums in Unacked are functions on an
  interval; what holds of all their values is shown at the least place where it would fail (`LeastNat`).
- A probe needs a byte before `m_snd_nxt`: a window of zero can only have been announced by a peer to
  which something was sent (`m_snd_nxt = 0` implies `m_snd_wnd > 0`), which is also why a packet that
  acknowledges nothing announces a window.
- `Inv` says nothing of what the bytes are or of what the applications have done.  `DataInv` adds
  that, again with a part for every place where bytes rest.  Byte 0 of a stream is the connect message
  and byte k the k-th of the application, so a byte is right when it equals its sequence number:
  `Marked` says so of the send buffer and of the packets a handler has written, and that the connect
  message is a segment of its own; `Stamped` says so of the packets in flight; `Text` of what can be
  read and, unless the endpoint was closed, of every saved segment, in the memory where `m_rlist`
  places it.
- `Ledger` and `RcvBooks` count.  What an endpoint was given to send is what Send took and the connect
  message; what its peer has passed on or holds is `m_rcv_nxt` without the connect message, or less
  once it was closed and drops data.  With `Pair` the two meet: what is received was sent
  (`ReceivedWasSent`), and it is all of it when the send buffer is empty, which is `GracefulClose`.
- `Honest` joins these with the callbacks: `m_bReadEnable` is set exactly while the application is not
  reading, and is off when bytes can be read; an application that was refused has `m_bWriteEnable` set
  and a send buffer still above the mark at which OnTcpWriteable is called.  `NoLostWakeup` follows.
- `Drained` is `NoStall` for one endpoint.  It is not kept by the parts of process() (an
  acknowledgment may empty the flight and leave bytes queued), but attemptSend() establishes it
  whatever it began with: an endpoint that is not drained has a segment that may be sent
  (`SendableSome`: Nagle's algorithm and the avoidance of small segments hold bytes back only behind
  others), and the first turn of its loop sends it unless the write fails.
- `StreamHolds` is the refinement `Spec /\ Orderly => StreamSpec`: Send and Recv map to the steps of
  ByteStream, every other step to a stutter.  It needs that what Recv takes are the next bytes
  (`Text`) and that they were sent (`ReceivedWasSent`).  `Orderly` says that the connection is open
  from the start, or that one application connects and the other has nothing to send; the plan never
  changes.  Without it the statement is false (`PseudoTcp_open`).  What it gives is `Heard`: an
  endpoint that has not seen its peer's connect message is sent no data, so nothing is saved ahead of
  that message, which is the one thing that `Text` does not survive.

## 10. What is only model-checked

- Liveness.  `EventuallyOut`, `QuitEnds` (MessageQueue), `SendReturns` (ThreadSend), `Opens`,
  `Closes` (DataChannel), `ResetsEnd` (SctpStreams), `Delivered`, `Closes` (PseudoTcp), `Served`
  (ProcessThread) depend on fairness, which is out of the prover's reach.
- `StreamSpec` for plans that are not orderly.  One of the eight plans of `PseudoTcp_stream` is of
  that kind: both applications connect, and one sends a byte.  Plans in which the peer that was
  connected to sends violate it (`PseudoTcp_open`), so the theorem has to leave some out.
- The refuted properties: a counterexample is a behaviour of the instance.

**Fairness.**  Weak fairness of each thread's own step: the operating system runs every thread,
handlers return, an `Invoke` that has begun goes on.  Of the clock (MessageQueue): time passes. Of
SetReadyToSendData (DataChannel): a transport that is blocked drains in the end, which is what
usrsctp's send threshold callback is for; this fails if the network is gone for good, and then the
transport is destroyed.  Of the delivery of packets (SctpStreams), the handshake's included: SCTP is
reliable; the signaling threads may be slow for ever.  Of the applications that go on reading and
writing once they are called back, of the owner who calls NotifyClock when GetNextClock says so, and
of nothing about delivery (PseudoTcp): the network may lose every packet, and then the connection
ends.  Nobody is required to post, call, close, connect or quit anything, no Wait has to fail, and
in ProcessThread time need not pass.

## 11. What is not modelled

- MessageQueue: `Peek` and `fPeekKeep_` (no caller in the repository); a handler deleted on another
  thread while the owner dispatches to it (the code leaves this to the application); nested
  ProcessMessages; the leak of `pdata` when a Post is refused; timers of the operating system.
- Thread: creation, joining and wrapping of OS threads, thread-local storage; the lifetime of the
  lock of a destroyed Thread, which a released sender still enters (`base/thread.cc:402`).  In
  `ThreadSend` a Post and its wake-up are one step; `MessageQueue` has them apart.
- DataChannel: RTP data channels; statistics; text and binary; a transport that is created again for
  a closed channel.
- SctpStreams: sids chosen by the application and channels negotiated out of band; channels created
  before the DTLS role is known; blocking (in DataChannel); Start, the options of the socket, and the
  end of the association.  When a transport is destroyed, OnDataChannelDestroyed swaps the list of
  channels out before it closes them, so that their sids are not released
  (`pc/peerconnection.cc:2417`): that needs a session with a second transport, stage G.
- PseudoTcp: sequence numbers that wrap (they are compared with < and >, so a direction ends after
  4 GB), lengths of timers (probes back off to 60 s while 15 s of silence end a connection), the wrap
  of the 8-bit `m_dup_acks`, a peer without window scaling, resets, which nothing sends, options, and
  a Send from inside a callback.
- Threads: Invoke returns a default-constructed value when its call was refused or cleared
  (`base/thread.h:159`); ThreadSend records the outcome, the caller cannot tell.
- ProcessThread: the order of the modules in the list (a pass may take any), a module that deregisters
  modules from inside its Process, deregistration of a module that is not registered, the APC by which
  PlatformThread stops on Windows, and the tracing of the worker's name.
- Everything listed as not modelled in `PROJECT.json`, each with its reason.

## 12. Plan

Most important first; a stage adds modules of its own and composes with the earlier ones.

| stage | modules | runs and theorems |
|---|---|---|
| done | MessageQueue, ThreadSend with SyncCall, DataChannel, SctpStreams, PseudoTcp with ByteStream, ProcessThread | above |
| A, rest of the threads | `ProcessAll` (several queues and the manager, with locks held), `AsyncInvoker` | ProcessAllMessageQueues returns unless a queue quits; no closure runs after its invoker; lock order is acyclic (theorem) |
| D | `StunRequest`, `TurnAllocation` | at most one answer per request, retransmission times, expiry |
| E | `NackModule`, `PacketBuffer`, `FrameBuffer` | only complete frames, in order, across the wrap of sequence numbers; comparison with reference definitions |
| F | `IceChannel` (two agents), DTLS state | both select the same pair; roles converge |
| G | `Signaling` | legal offer/answer transitions, also with data channels |
| H | `PacedSender`, `TaskQueue` | no starvation; order of tasks |

Out of reach and not planned: bandwidth estimation, audio and video processing (floating point),
codecs, device access, language bindings.
