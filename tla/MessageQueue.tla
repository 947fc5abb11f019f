---------------------------- MODULE MessageQueue ----------------------------
(***************************************************************************)
(* rtc::MessageQueue (webrtc/base/messagequeue.{h,cc}) and the loop that   *)
(* drains it, rtc::Thread::ProcessMessages (webrtc/base/thread.cc).        *)
(*                                                                         *)
(* One queue is served by the thread that owns it and posted to by any     *)
(* number of other threads.  Every block of code that runs under crit_ is  *)
(* one step, except the loop that moves the due delayed messages: there    *)
(* crit_ stays held over several steps (pc = "scan").                      *)
(*                                                                         *)
(* A std::list of messages is the set of its entries, each stamped with    *)
(* the number of push_backs that preceded it; the front is the entry with  *)
(* the least stamp.  The std::priority_queue of delayed messages is the    *)
(* set of its entries; its top is the least entry by (msTrigger_, num_).   *)
(***************************************************************************)
EXTENDS Integers

CONSTANTS
  Msg,          \* the messages, each of which is posted at most once
  Handler,      \* the MessageHandlers
  Id,           \* the application's message ids
  Caller,       \* the threads that post to the queue, clear it and stop it
  NULL,         \* no handler, no message
  phandler,     \* Message::phandler of each message
  message_id,   \* Message::message_id of each message
  doomed,       \* for a dispose message, the handler that its data deletes
  MQID_ANY, MQID_DISPOSE,
  kForever,     \* the timeout of a wait without end
  Delay,        \* the delays given to PostDelayed
  Loop,         \* the arguments given to ProcessMessages
  WaitMayFail,  \* the SocketServer's Wait can fail: PhysicalSocketServer's can,
                \* NullSocketServer's cannot
  NumMod,       \* 2^32: dmsgq_next_num_ is a uint32_t
  MaxTime       \* bound of the model: no trigger and no time limit lies beyond
                \* it, and the clock passes it only to end a wait

ASSUME QueueAssumption ==
  /\ NULL \notin Msg /\ NULL \notin Handler
  /\ MQID_ANY \notin Id /\ MQID_DISPOSE \notin Id /\ MQID_ANY # MQID_DISPOSE
  /\ phandler \in [Msg -> Handler \cup {NULL}]
  /\ message_id \in [Msg -> Id \cup {MQID_DISPOSE}]
  /\ doomed \in [Msg -> Handler \cup {NULL}]
  /\ \A m \in Msg : /\ message_id[m] = MQID_DISPOSE <=> phandler[m] = NULL
                    /\ doomed[m] # NULL => phandler[m] = NULL
  /\ \A m, n \in Msg : doomed[m] = doomed[n] /\ doomed[m] # NULL => m = n
  /\ kForever \in Int /\ kForever < 0
  /\ MaxTime \in Nat /\ NumMod \in Nat \ {0}
  /\ Delay \subseteq Nat
  /\ Loop \subseteq Nat \cup {kForever}
  /\ WaitMayFail \in BOOLEAN

VARIABLES
  now,          \* TimeMillis()
  stop_, msgq_, dmsgq_, dmsgq_next_num_,
  pushed_,      \* how many push_backs msgq_ has seen: the stamp of the next
  signaled,     \* the auto-reset event of the queue's SocketServer
  alive,        \* the handlers that have not been deleted
  pc, pmsg,     \* where the queue's thread is, and the message in its hands
  msStart, msCurrent, cmsWait, cmsDelayNext, wakeAt,  \* locals of Get
  cmsLoop, msEnd,                        \* argument and local of ProcessMessages
  call,         \* call[c]: what caller c still has to do
  fate,         \* history: what has become of each message
  trigger,      \* history: the trigger time of a message, kForever if posted ready
  ahead,        \* history: of the messages ahead of it when it was pushed, those
                \* that are still pending
  readyAtQuit   \* history: the messages in msgq_ when Quit was called

queueVars == <<msgq_, dmsgq_, dmsgq_next_num_, pushed_>>
getVars   == <<msStart, msCurrent, cmsWait, cmsDelayNext, wakeAt>>
loopVars  == <<cmsLoop, msEnd>>
histVars  == <<trigger, ahead, readyAtQuit>>
vars == <<now, stop_, queueVars, signaled, alive, pc, pmsg, getVars, loopVars,
          call, fate, histVars>>

Idle == [op |-> "idle", msg |-> NULL, at |-> kForever]

Ready   == [msg : Msg, seq : Nat]
Delayed == [msTrigger : Nat, num : 0..(NumMod - 1), msg : Msg]

TypeOK ==
  /\ now \in Nat
  /\ stop_ \in BOOLEAN /\ signaled \in BOOLEAN
  /\ msgq_ \subseteq Ready /\ pushed_ \in Nat
  /\ dmsgq_ \subseteq Delayed /\ dmsgq_next_num_ \in 0..(NumMod - 1)
  /\ alive \subseteq Handler
  /\ pc \in {"idle", "get", "top", "scan", "repop", "dispose", "got", "dispatch",
             "quitcheck", "wait", "timecheck", "exited", "destroyed"}
  /\ pmsg \in Msg \cup {NULL}
  /\ msStart \in Nat /\ msCurrent \in Nat
  /\ cmsWait \in Nat \cup {kForever}
  /\ cmsDelayNext \in Nat \cup {kForever}
  /\ wakeAt \in Nat \cup {kForever}
  /\ cmsLoop \in Nat \cup {kForever} /\ msEnd \in Nat
  /\ call \in [Caller -> [op : {"idle", "push", "wake"},
                          msg : Msg \cup {NULL},
                          at : Nat \cup {kForever}]]
  /\ fate \in [Msg -> {"new", "refused", "pushing", "pending", "handled",
                       "disposed", "cleared"}]
  /\ ahead \in [Msg -> SUBSET Msg]
  /\ trigger \in [Msg -> Nat \cup {kForever}]
  /\ readyAtQuit \subseteq Msg

Init ==
  /\ now = 0 /\ stop_ = FALSE /\ signaled = FALSE
  /\ msgq_ = {} /\ dmsgq_ = {} /\ dmsgq_next_num_ = 0 /\ pushed_ = 0
  /\ alive = Handler
  /\ pc = "idle" /\ pmsg = NULL
  /\ msStart = 0 /\ msCurrent = 0 /\ cmsWait = kForever
  /\ cmsDelayNext = kForever /\ wakeAt = kForever
  /\ cmsLoop = kForever /\ msEnd = 0
  /\ call = [c \in Caller |-> Idle]
  /\ fate = [m \in Msg |-> "new"]
  /\ ahead = [m \in Msg |-> {}]
  /\ trigger = [m \in Msg |-> kForever]
  /\ readyAtQuit = {}

-----------------------------------------------------------------------------
(* The entries of the two queues. *)

\* A mutant of Before: the comparison without num_.
BeforeByTime(d, e) == d.msTrigger < e.msTrigger

\* DelayedMessage::operator<, read as "comes out of the heap before".
Before(d, e) ==
  \/ d.msTrigger < e.msTrigger
  \/ d.msTrigger = e.msTrigger /\ d.num < e.num

\* A mutant of Due: the trigger time is rounded.
DueRounded(d) == d.msTrigger <= msCurrent + 1

\* A delayed message has triggered.
Due(d) == d.msTrigger <= msCurrent

\* dmsgq_.top()
IsTop(d) == d \in dmsgq_ /\ \A e \in dmsgq_ \ {d} : ~Before(e, d)

\* msgq_.front()
IsFront(r) == r \in msgq_ /\ \A s \in msgq_ : r.seq <= s.seq

\* The messages in either queue.
Queued == {r.msg : r \in msgq_} \cup {d.msg : d \in dmsgq_}

\* A mutant of Match: MQID_ANY is an id like any other.
MatchExact(m, handler, id) ==
  /\ handler = NULL \/ handler = phandler[m]
  /\ id = message_id[m]

\* Message::Match
Match(m, handler, id) ==
  /\ handler = NULL \/ handler = phandler[m]
  /\ id = MQID_ANY \/ id = message_id[m]

\* crit_ is free unless the owner is in the middle of moving due messages.
CritFree == pc # "scan"

\* History: the messages of gone meet their end; what was recorded about their
\* place in the queue is forgotten.
Settle(gone, end) ==
  /\ fate' = [m \in Msg |-> IF m \in gone THEN end[m] ELSE fate[m]]
  /\ trigger' = [m \in Msg |-> IF m \in gone THEN kForever ELSE trigger[m]]
  /\ ahead' = [m \in Msg |-> IF m \in gone THEN {} ELSE ahead[m] \ gone]
  /\ UNCHANGED readyAtQuit

\* The loops of MessageQueue::Clear over msgq_ and dmsgq_.
ClearMatching(handler, id) ==
  /\ msgq_'  = {r \in msgq_ : ~Match(r.msg, handler, id)}
  /\ dmsgq_' = {d \in dmsgq_ : ~Match(d.msg, handler, id)}
  /\ Settle({m \in Queued : Match(m, handler, id)}, [m \in Msg |-> "cleared"])
  /\ UNCHANGED <<dmsgq_next_num_, pushed_>>

\* No thread is in the middle of posting a message for h: whoever deletes a
\* handler has stopped the callers that post for it.
NobodyPostsFor(h) ==
  \A c \in Caller : call[c].op = "push" =>
     phandler[call[c].msg] # h /\ doomed[call[c].msg] # h

-----------------------------------------------------------------------------
(* Other threads. *)

\* Post, PostDelayed and PostAt up to and including the test of IsQuitting.
\* at = kForever stands for Post; the caller keeps the handler alive until
\* the message is in the queue.
PostBegin(c, m, at) ==
  /\ call[c] = Idle /\ pc # "destroyed"
  /\ fate[m] = "new"
  /\ doomed[m] # NULL => at = kForever        \* Dispose() uses Post()
  /\ phandler[m] # NULL => phandler[m] \in alive
  /\ doomed[m] # NULL => doomed[m] \in alive
  /\ \/ /\ stop_
        /\ fate' = [fate EXCEPT ![m] = "refused"]
        /\ UNCHANGED <<call, trigger>>
     \/ /\ ~stop_
        /\ fate' = [fate EXCEPT ![m] = "pushing"]
        /\ call' = [call EXCEPT ![c] = [op |-> "push", msg |-> m, at |-> at]]
        /\ trigger' = [trigger EXCEPT ![m] = at]
  /\ UNCHANGED <<now, stop_, queueVars, signaled, alive, pc, pmsg, getVars,
                 loopVars, ahead, readyAtQuit>>

Post(c, m) == PostBegin(c, m, kForever)

\* TimeAfter(cmsDelay) is read before the message is queued.
PostDelayed(c, m, cmsDelay) ==
  now + cmsDelay <= MaxTime /\ PostBegin(c, m, now + cmsDelay)

\* PostAt takes any instant, one that has passed included.
PostAt(c, m, tstamp) == PostBegin(c, m, tstamp)

\* ++dmsgq_next_num_
AfterNum(n) == (n + 1) % NumMod

\* A mutant of ThenWakeUp: nobody calls WakeUpSocketServer.
ThenNothing == Idle

\* What is left of Post, DoDelayPost and Quit: WakeUpSocketServer.
ThenWakeUp == [op |-> "wake", msg |-> NULL, at |-> kForever]

\* The critical section of Post and of DoDelayPost.
PostPush(c) ==
  LET m == call[c].msg
      at == call[c].at
  IN  /\ call[c].op = "push" /\ CritFree
      /\ IF at = kForever
           THEN /\ msgq_' = msgq_ \cup {[msg |-> m, seq |-> pushed_]}
                /\ pushed_' = pushed_ + 1
                /\ UNCHANGED <<dmsgq_, dmsgq_next_num_>>
           ELSE /\ dmsgq_' = dmsgq_ \cup
                     {[msTrigger |-> at, num |-> dmsgq_next_num_, msg |-> m]}
                /\ dmsgq_next_num_' = AfterNum(dmsgq_next_num_)
                /\ UNCHANGED <<msgq_, pushed_>>
      /\ fate' = [fate EXCEPT ![m] = "pending"]
      /\ ahead' = [ahead EXCEPT ![m] =
           {r.msg : r \in msgq_} \cup
           {d.msg : d \in {d \in dmsgq_ : at # kForever /\ d.msTrigger <= at}}]
      /\ call' = [call EXCEPT ![c] = ThenWakeUp]
      /\ UNCHANGED <<now, stop_, signaled, alive, pc, pmsg, getVars, loopVars,
                     trigger, readyAtQuit>>

\* WakeUpSocketServer, the last step of Post, DoDelayPost and Quit.
WakeUpSocketServer(c) ==
  /\ call[c].op = "wake"
  /\ signaled' = TRUE
  /\ call' = [call EXCEPT ![c] = Idle]
  /\ UNCHANGED <<now, stop_, queueVars, alive, pc, pmsg, getVars, loopVars,
                 fate, histVars>>

Quit(c) ==
  /\ call[c] = Idle /\ pc # "destroyed" /\ ~stop_
  /\ stop_' = TRUE
  /\ call' = [call EXCEPT ![c] = ThenWakeUp]
  /\ readyAtQuit' = {r.msg : r \in msgq_}
  /\ UNCHANGED <<now, queueVars, signaled, alive, pc, pmsg, getVars, loopVars,
                 fate, trigger, ahead>>

\* Clear(phandler, id), called by any thread for one handler; only DoDestroy
\* clears for all of them.
Clear(c, handler, id) ==
  /\ call[c] = Idle /\ pc # "destroyed" /\ CritFree
  /\ ClearMatching(handler, id)
  /\ UNCHANGED <<now, stop_, signaled, alive, pc, pmsg, getVars, loopVars, call>>

-----------------------------------------------------------------------------
(* The queue's thread: ProcessMessages and Get. *)

\* The locals of Get go out of scope.
GetReturns == /\ msStart' = 0 /\ msCurrent' = 0 /\ cmsWait' = kForever
              /\ cmsDelayNext' = kForever /\ wakeAt' = kForever

\* Get returns false and ProcessMessages returns.  Run() ends the thread; a
\* caller of ProcessMessages with a finite time goes on with its own work.
GetReturnsFalse ==
  /\ pc' = IF cmsLoop = kForever THEN "exited" ELSE "idle"
  /\ GetReturns
  /\ cmsLoop' = kForever /\ msEnd' = 0

ProcessMessages(cms) ==
  /\ pc = "idle"
  /\ cms \in {0, kForever} \/ now + cms <= MaxTime
  /\ cmsLoop' = cms
  /\ msEnd' = IF cms = kForever THEN 0 ELSE now + cms
  /\ cmsWait' = cms
  /\ pc' = "get"
  /\ UNCHANGED <<now, stop_, queueVars, signaled, alive, pmsg, msStart,
                 msCurrent, cmsDelayNext, wakeAt, call, fate, histVars>>

GetBegin ==
  /\ pc = "get"
  /\ msStart' = now /\ msCurrent' = now
  /\ pc' = "top"
  /\ UNCHANGED <<now, stop_, queueVars, signaled, alive, pmsg, cmsWait,
                 cmsDelayNext, wakeAt, loopVars, call, fate, histVars>>

\* The first pass takes crit_.
GetLock ==
  /\ pc = "top"
  /\ pc' = "scan"
  /\ UNCHANGED <<now, stop_, queueVars, signaled, alive, pmsg, getVars, loopVars,
                 call, fate, histVars>>

\* One turn of the loop over the delayed messages, crit_ held.
GetMoveDue ==
  /\ pc = "scan"
  /\ \E d \in dmsgq_ :
       /\ IsTop(d) /\ Due(d)
       /\ msgq_' = msgq_ \cup {[msg |-> d.msg, seq |-> pushed_]}
       /\ dmsgq_' = dmsgq_ \ {d}
  /\ pushed_' = pushed_ + 1
  /\ UNCHANGED <<now, stop_, dmsgq_next_num_, signaled, alive, pc, pmsg, getVars,
                 loopVars, call, fate, histVars>>

\* A mutant of PopFront: the front is copied and stays.
PopNothing(r) == pmsg' = r.msg /\ UNCHANGED msgq_

\* *pmsg = msgq_.front(); msgq_.pop_front()
PopFront(r) == pmsg' = r.msg /\ msgq_' = msgq_ \ {r}

\* The front of msgq_, if there is one, leaves the queue; crit_ is released.
TakeFront ==
  \/ /\ msgq_ = {}
     /\ pc' = "quitcheck"
     /\ UNCHANGED <<msgq_, pmsg>>
  \/ \E r \in msgq_ :
       /\ IsFront(r) /\ PopFront(r)
       /\ pc' = IF message_id[r.msg] = MQID_DISPOSE THEN "dispose" ELSE "got"

GetPop ==
  /\ pc = "scan"
  /\ \A d \in dmsgq_ : IsTop(d) => ~Due(d)
  /\ \/ dmsgq_ = {} /\ cmsDelayNext' = kForever
     \/ \E d \in dmsgq_ : IsTop(d) /\ cmsDelayNext' = d.msTrigger - msCurrent
  /\ TakeFront
  /\ UNCHANGED <<now, stop_, dmsgq_, dmsgq_next_num_, pushed_, signaled, alive,
                 msStart, msCurrent, cmsWait, wakeAt, loopVars, call, fate,
                 histVars>>

\* The inner loop's later passes only pop.
GetPopAgain ==
  /\ pc = "repop"
  /\ TakeFront
  /\ UNCHANGED <<now, stop_, dmsgq_, dmsgq_next_num_, pushed_, signaled, alive,
                 getVars, loopVars, call, fate, histVars>>

\* delete pmsg->pdata: DisposeData deletes the handler, whose destructor
\* (MessageHandler::~MessageHandler) clears it from every queue.
GetDispose ==
  LET h == doomed[pmsg]
      gone == {m \in Queued : h # NULL /\ phandler[m] = h}
  IN  /\ pc = "dispose"
      /\ h # NULL => NobodyPostsFor(h)
      /\ msgq_' = {r \in msgq_ : r.msg \notin gone}
      /\ dmsgq_' = {d \in dmsgq_ : d.msg \notin gone}
      /\ alive' = alive \ {h}
      /\ Settle(gone \cup {pmsg},
                [m \in Msg |-> IF m = pmsg THEN "disposed" ELSE "cleared"])
      /\ pmsg' = NULL
      /\ pc' = "repop"
      /\ UNCHANGED <<now, stop_, dmsgq_next_num_, pushed_, signaled, getVars,
                     loopVars, call>>

\* Get has returned true: ProcessMessages calls Dispatch, OnMessage starts.
Dispatch ==
  /\ pc = "got"
  /\ pc' = "dispatch"
  /\ Settle({pmsg}, [m \in Msg |-> "handled"])
  /\ GetReturns
  /\ UNCHANGED <<now, stop_, queueVars, signaled, alive, pmsg, loopVars, call>>

\* A handler that runs deletes a handler, possibly itself, that no dispose
\* message is going to delete.
DeleteHandler(h) ==
  /\ pc = "dispatch" /\ h \in alive
  /\ NobodyPostsFor(h)
  /\ \A m \in Msg : doomed[m] = h => fate[m] \in {"new", "refused"}
  /\ alive' = alive \ {h}
  /\ ClearMatching(h, MQID_ANY)
  /\ UNCHANGED <<now, stop_, signaled, pc, pmsg, getVars, loopVars, call>>

\* OnMessage returns; ProcessMessages computes the time that is left.
DispatchEnd ==
  /\ pc = "dispatch"
  /\ pmsg' = NULL
  /\ \/ /\ cmsLoop = kForever
        /\ pc' = "get" /\ cmsWait' = kForever
        /\ UNCHANGED loopVars
     \/ /\ cmsLoop # kForever /\ now <= msEnd
        /\ pc' = "get" /\ cmsWait' = msEnd - now
        /\ UNCHANGED loopVars
     \/ /\ cmsLoop # kForever /\ msEnd < now
        /\ pc' = "idle" /\ cmsWait' = kForever
        /\ cmsLoop' = kForever /\ msEnd' = 0
  /\ UNCHANGED <<now, stop_, queueVars, signaled, alive, msStart, msCurrent,
                 cmsDelayNext, wakeAt, call, fate, histVars>>

\* A mutant of CmsNext: the delayed messages are not looked at.
CmsNextUnbounded ==
  LET left == cmsWait - (msCurrent - msStart)
  IN  IF cmsWait = kForever THEN kForever ELSE IF left < 0 THEN 0 ELSE left

\* The time ss_->Wait is given, from the times of this pass.
CmsNext ==
  LET left == cmsWait - (msCurrent - msStart)
      cmsNext == IF left < 0 THEN 0 ELSE left
  IN  IF cmsWait = kForever THEN cmsDelayNext
      ELSE IF cmsDelayNext # kForever /\ cmsDelayNext < cmsNext THEN cmsDelayNext
      ELSE cmsNext

GetQuitCheck ==
  /\ pc = "quitcheck"
  /\ \/ stop_ /\ GetReturnsFalse
     \/ /\ ~stop_
        /\ pc' = "wait"
        /\ wakeAt' = IF CmsNext = kForever THEN kForever ELSE now + CmsNext
        /\ UNCHANGED <<msStart, msCurrent, cmsWait, cmsDelayNext, loopVars>>
  /\ UNCHANGED <<now, stop_, queueVars, signaled, alive, pmsg, call, fate, histVars>>

\* ss_->Wait returns true: the event was set (and is reset), or the time is up.
GetWait ==
  /\ pc = "wait"
  /\ \/ signaled /\ signaled' = FALSE
     \/ wakeAt # kForever /\ wakeAt <= now /\ UNCHANGED signaled
  /\ pc' = "timecheck"
  /\ wakeAt' = kForever
  /\ UNCHANGED <<now, stop_, queueVars, alive, pmsg, msStart, msCurrent, cmsWait,
                 cmsDelayNext, loopVars, call, fate, histVars>>

\* ss_->Wait returns false, since select or WSAWaitForMultipleEvents has failed: Get
\* returns false although nobody has called Quit.
GetWaitFails ==
  /\ pc = "wait" /\ WaitMayFail
  /\ GetReturnsFalse
  /\ UNCHANGED <<now, stop_, queueVars, signaled, alive, pmsg, call, fate, histVars>>

GetTimeCheck ==
  /\ pc = "timecheck"
  /\ \/ cmsWait # kForever /\ now - msStart >= cmsWait /\ GetReturnsFalse
     \/ /\ cmsWait = kForever \/ now - msStart < cmsWait
        /\ pc' = "top"
        /\ msCurrent' = now /\ cmsDelayNext' = kForever
        /\ UNCHANGED <<msStart, cmsWait, wakeAt, loopVars>>
  /\ UNCHANGED <<now, stop_, queueVars, signaled, alive, pmsg, call, fate, histVars>>

\* Thread::Start on a thread that has ended and that Stop() has joined: Restart(),
\* then Run().
Restart ==
  /\ pc = "exited" /\ stop_
  /\ stop_' = FALSE
  /\ pc' = "idle"
  /\ readyAtQuit' = {}
  /\ UNCHANGED <<now, queueVars, signaled, alive, pmsg, getVars, loopVars, call,
                 fate, trigger, ahead>>

\* ~Thread, with the thread joined by Stop() and nobody inside a call: DoDestroy.
\* The dispose messages it removes delete their handlers.
DoDestroy ==
  /\ pc = "exited" /\ stop_
  /\ \A c \in Caller : call[c] = Idle
  /\ ClearMatching(NULL, MQID_ANY)
  /\ alive' = alive \ {doomed[m] : m \in Queued}
  /\ pc' = "destroyed"
  /\ UNCHANGED <<now, stop_, signaled, pmsg, getVars, loopVars, call>>

Tick ==
  /\ now < MaxTime \/ (pc = "wait" /\ now < wakeAt)
  /\ now' = now + 1
  /\ UNCHANGED <<stop_, queueVars, signaled, alive, pc, pmsg, getVars, loopVars,
                 call, fate, histVars>>

GetStep ==
  \/ GetBegin \/ GetLock \/ GetMoveDue \/ GetPop \/ GetPopAgain \/ GetDispose
  \/ Dispatch \/ DispatchEnd \/ GetQuitCheck \/ GetWait \/ GetTimeCheck

CallStep(c) == PostPush(c) \/ WakeUpSocketServer(c)

Next ==
  \/ \E c \in Caller, m \in Msg :
       \/ Post(c, m)
       \/ \E d \in Delay : PostDelayed(c, m, d)
       \/ \E t \in 0..MaxTime : PostAt(c, m, t)
  \/ \E c \in Caller : CallStep(c) \/ Quit(c)
  \/ \E c \in Caller, h \in Handler, i \in Id \cup {MQID_ANY} :
       Clear(c, h, i)
  \/ \E cms \in Loop : ProcessMessages(cms)
  \/ GetStep \/ GetWaitFails
  \/ \E h \in Handler : DeleteHandler(h)
  \/ Restart \/ DoDestroy \/ Tick

\* The operating system runs every thread and the clock; the owner goes back
\* to ProcessMessages.  Nobody has to post, quit or clear anything, and no Wait has
\* to fail.
Fairness ==
  /\ WF_vars(Tick)
  /\ WF_vars(GetStep)
  /\ WF_vars(\E cms \in Loop : ProcessMessages(cms))
  /\ \A c \in Caller : WF_vars(CallStep(c))

Spec == Init /\ [][Next]_vars
FairSpec == Spec /\ Fairness

-----------------------------------------------------------------------------
(* Properties. *)

\* The message that the owner has popped and not yet dealt with.
InHand(m) == pmsg = m /\ pc \in {"dispose", "got"}

InReady(m)   == \E r \in msgq_ : r.msg = m
InDelayed(m) == \E d \in dmsgq_ : d.msg = m

\* A message that a Post has queued, and that was neither handled, disposed of
\* nor cleared, is in exactly one place: msgq_, dmsgq_ or the hands of the
\* owner, and there only once; no other message is anywhere.  Moving the due
\* messages, popping, clearing from other threads and the deletion of handlers
\* neither lose, copy nor resurrect a message.
PendingOnce ==
  /\ \A m \in Msg :
       /\ fate[m] = "pending" <=> (InReady(m) \/ InDelayed(m) \/ InHand(m))
       /\ ~(InReady(m) /\ InDelayed(m))
       /\ InHand(m) => ~InReady(m) /\ ~InDelayed(m)
  /\ \A r, s \in msgq_ : r.msg = s.msg => r = s
  /\ \A d, e \in dmsgq_ : d.msg = e.msg => d = e

\* A message whose fate is sealed (it was refused by a queue that is quitting,
\* dispatched, disposed of or cleared) never comes back, whatever the threads do.
Sealed == [][\A m \in Msg :
               fate[m] \in {"refused", "handled", "disposed", "cleared"}
                 => fate'[m] = fate[m]]_vars

\* A message posted with a delay, or at an instant, is not popped, dispatched or
\* disposed of before that instant: the time that Get compares with, read once
\* per pass, never runs ahead of the clock.
NeverEarly ==
  \A m \in Msg : InReady(m) \/ InHand(m) => trigger[m] <= now

\* m overtook n: n was ahead of m when m was queued and is still pending, yet
\* Get has popped m.
Overtook(m, n) == InHand(m) /\ n \in ahead[m] /\ fate[n] = "pending"

\* Both were posted with a delay and trigger at the same instant.
SameTrigger(m, n) == trigger[m] = trigger[n] /\ trigger[m] # kForever

\* Messages leave in order: a ready message after those that were ready when it
\* was posted, a delayed one after those and after every delayed message that
\* triggers sooner.  Only messages with identical times may be misordered,
\* which is what DoDelayPost's comment says of the wrap of dmsgq_next_num_.
SoonerFirst ==
  \A m, n \in Msg : ~SameTrigger(m, n) => ~Overtook(m, n)

\* As long as dmsgq_next_num_ has not wrapped, messages with identical times
\* keep the order in which they were posted too.
TiesInOrder == \A m, n \in Msg : ~Overtook(m, n)

\* Someone is about to wake the owner up.
WakeComing == signaled \/ \E c \in Caller : call[c].op = "wake"

\* The owner never sleeps on work: when it waits and no wake-up is on its way,
\* no message is ready, the queue is not quitting, and if a delayed message is
\* queued the wait has an end.  A Post or a Quit that falls between the last
\* look at the queue and the wait is not lost.
NoLostWakeUp ==
  pc = "wait" /\ ~WakeComing =>
    /\ msgq_ = {} /\ ~stop_
    /\ dmsgq_ # {} => wakeAt # kForever

\* No queued message, and no message that Get is about to return or has
\* returned, belongs to a handler that has been deleted: ~MessageHandler and
\* the dispose messages remove what was posted for it.
OnlyLiveHandlers ==
  \A m \in Msg : (m \in Queued \/ InHand(m)) /\ phandler[m] # NULL
                  => phandler[m] \in alive

\* Every queued message is eventually handled, disposed of or cleared, unless the
\* queue is told to quit or a failing Wait has made Run() return: a Wait that fails in
\* a ProcessMessages with a time limit only delays the messages.
EventuallyOut ==
  \A m \in Msg :
    fate[m] = "pending" ~> (fate[m] # "pending" \/ stop_ \/ pc = "exited")

\* Quit makes the loop end, even if the thread was about to wait without end.
QuitEnds == stop_ ~> pc \in {"idle", "exited", "destroyed"}

\* What messagequeue.h says of Quit: "any pending Sends and *ready* Posts (as
\* opposed to unexpired delayed Posts) will be delivered before Get (or Peek)
\* returns false".
QuitDeliversReady ==
  pc = "exited" => \A m \in readyAtQuit : fate[m] # "pending"
=============================================================================
