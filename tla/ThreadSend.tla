----------------------------- MODULE ThreadSend -----------------------------
(***************************************************************************)
(* Synchronous calls between threads: rtc::Thread::Send, which Invoke is   *)
(* built on, ReceiveSendsFromThread, Clear and the message loop that       *)
(* receives sends (webrtc/base/thread.cc, messagequeue.cc).                *)
(*                                                                         *)
(* A thread that waits for its call goes on serving the calls of the       *)
(* thread it waits for, so calls nest: stack[t] holds, innermost last, the *)
(* calls that thread t is waiting for (src[c] = t) and those whose handler *)
(* it runs (dst[c] = t).  All waits of a thread share one auto-reset event *)
(* (its SocketServer), which nested waits can consume.                     *)
(***************************************************************************)
EXTENDS Integers, Sequences

CONSTANTS
  Thread, Call,
  src, dst,       \* the thread that issues a call and the one it is sent to
  Handler,        \* the objects that calls are made on
  phandler,       \* the object of each call
  MayQuit,        \* the threads that are told to quit
  MayPost,        \* the threads that messages are posted to
  MayFail,        \* the threads whose SocketServer's Wait can fail
  MaxPosts        \* bound of the model: posted messages per thread

ASSUME SendAssumption ==
  /\ src \in [Call -> Thread] /\ dst \in [Call -> Thread]
  /\ phandler \in [Call -> Handler]
  /\ MayQuit \subseteq Thread /\ MayPost \subseteq Thread /\ MayFail \subseteq Thread
  /\ MaxPosts \in Nat

VARIABLES
  loop,           \* loop[t]: where t is in its message loop
  stop_, posts, posted,  \* posted messages: waiting, and so far
  signaled,       \* signaled[t]: the event of t's SocketServer
  sendlist_,      \* sendlist_[t]: the calls queued at t
  before,         \* before[c]: the calls that are queued before c
  stack,          \* stack[t]: the calls that t waits for or runs
  pc,             \* pc[c]: where the sender of c is in Send
  ready, waited,  \* locals of Send
  outcome         \* history: what became of the call

loopVars == <<loop, stop_, posts, posted>>
sendVars == <<pc, ready, waited>>
vars == <<loopVars, signaled, sendlist_, before, stack, sendVars, outcome>>

TypeOK ==
  /\ loop \in [Thread -> {"sends", "posts", "task", "quitcheck", "wait", "exited",
                          "destroyed"}]
  /\ stop_ \in [Thread -> BOOLEAN]
  /\ posts \in [Thread -> Nat] /\ posted \in [Thread -> Nat]
  /\ signaled \in [Thread -> BOOLEAN]
  /\ sendlist_ \in [Thread -> SUBSET Call]
  /\ before \in [Call -> SUBSET Call]
  /\ stack \in [Thread -> Seq(Call)]
  /\ pc \in [Call -> {"new", "direct", "enqueue", "wake", "check", "receive", "wait",
                      "done"}]
  /\ ready \in [Call -> BOOLEAN] /\ waited \in [Call -> BOOLEAN]
  /\ outcome \in [Call -> {"none", "refused", "handled", "cleared"}]

Init ==
  /\ loop = [t \in Thread |-> "sends"]
  /\ stop_ = [t \in Thread |-> FALSE]
  /\ posts = [t \in Thread |-> 0] /\ posted = [t \in Thread |-> 0]
  /\ signaled = [t \in Thread |-> FALSE]
  /\ sendlist_ = [t \in Thread |-> {}]
  /\ before = [c \in Call |-> {}]
  /\ stack = [t \in Thread |-> <<>>]
  /\ pc = [c \in Call |-> "new"]
  /\ ready = [c \in Call |-> FALSE] /\ waited = [c \in Call |-> FALSE]
  /\ outcome = [c \in Call |-> "none"]

-----------------------------------------------------------------------------
(* The stack of a thread. *)

Push(t, c) == stack' = [stack EXCEPT ![t] = Append(@, c)]
PopTop(t)  == stack' = [stack EXCEPT ![t] = SubSeq(@, 1, Len(@) - 1)]

Holds(s, c) == \E i \in 1..Len(s) : s[i] = c
TopIs(s, c) == s # <<>> /\ s[Len(s)] = c

\* t is directly inside call c, as its sender or as its receiver.
OnTop(t, c) == TopIs(stack[t], c)

\* t waits in Send for c, and nothing nested is going on.
Sending(c) == OnTop(src[c], c) /\ pc[c] # "direct"

\* The handler of c is what its thread executes.
Running(c) == OnTop(dst[c], c) /\ (src[c] # dst[c] \/ pc[c] = "direct")

\* t executes code of the application: the handler of a call or of a message.
InUserCode(t) ==
  \/ \E c \in Call : dst[c] = t /\ Running(c)
  \/ stack[t] = <<>> /\ loop[t] = "task"

-----------------------------------------------------------------------------
(* Thread::Send, on the thread of the sender. *)

SendBegin(c) ==
  /\ pc[c] = "new" /\ InUserCode(src[c]) /\ loop[dst[c]] # "destroyed"
  /\ \/ /\ stop_[dst[c]]
        /\ pc' = [pc EXCEPT ![c] = "done"]
        /\ outcome' = [outcome EXCEPT ![c] = "refused"]
        /\ UNCHANGED stack
     \/ /\ ~stop_[dst[c]]
        /\ pc' = [pc EXCEPT ![c] = IF src[c] = dst[c] THEN "direct" ELSE "enqueue"]
        /\ Push(src[c], c)
        /\ UNCHANGED outcome
  /\ UNCHANGED <<loopVars, signaled, sendlist_, before, ready, waited>>

\* sendlist_.push_back, under crit_ of the receiver.
SendEnqueue(c) ==
  /\ pc[c] = "enqueue"
  /\ sendlist_' = [sendlist_ EXCEPT ![dst[c]] = @ \cup {c}]
  /\ before' = [before EXCEPT ![c] = sendlist_[dst[c]]]
  /\ pc' = [pc EXCEPT ![c] = "wake"]
  /\ UNCHANGED <<loopVars, signaled, stack, ready, waited, outcome>>

SendWake(c) ==
  /\ pc[c] = "wake"
  /\ signaled' = [signaled EXCEPT ![dst[c]] = TRUE]
  /\ pc' = [pc EXCEPT ![c] = "check"]
  /\ UNCHANGED <<loopVars, sendlist_, before, stack, ready, waited, outcome>>

\* A mutant of WakeAgain: the wake-ups consumed while waiting are gone.
WakeNever(c) == UNCHANGED signaled

\* if (waited) current_thread->socketserver()->WakeUp()
WakeAgain(c) == signaled' = [signaled EXCEPT ![src[c]] = @ \/ waited[c]]

\* while (!ready), under crit_ of the receiver; the call returns when it is.
SendCheck(c) ==
  /\ pc[c] = "check" /\ Sending(c)
  /\ \/ /\ ~ready[c]
        /\ pc' = [pc EXCEPT ![c] = "receive"]
        /\ UNCHANGED <<signaled, stack>>
     \/ /\ ready[c]
        /\ pc' = [pc EXCEPT ![c] = "done"]
        /\ PopTop(src[c])
        /\ WakeAgain(c)
  /\ UNCHANGED <<loopVars, sendlist_, before, ready, waited, outcome>>

\* A mutant of Admitted: whoever calls is served.
AdmittedAll(t, source) == sendlist_[t]

\* The calls that PopSendMessageFromThread looks at; source = {} is NULL.
Admitted(t, source) ==
  {x \in sendlist_[t] : source = {} \/ src[x] \in source}

\* A mutant of Erase: the call stays in the list.
EraseNothing(t, x) == UNCHANGED <<sendlist_, before>>

\* sendlist_.erase(it)
Erase(t, x) ==
  /\ sendlist_' = [sendlist_ EXCEPT ![t] = @ \ {x}]
  /\ before' = [y \in Call |-> before[y] \ {x}]

\* PopSendMessageFromThread finds x and its handler is called.
Receive(t, source, x) ==
  /\ x \in Admitted(t, source)
  /\ before[x] \cap Admitted(t, source) = {}
  /\ Erase(t, x)
  /\ Push(t, x)

\* current_thread->ReceiveSendsFromThread(this), one call at a time.
SendReceive(c) ==
  /\ pc[c] = "receive" /\ Sending(c)
  /\ \/ /\ \E x \in Call : Receive(src[c], {dst[c]}, x)
        /\ UNCHANGED pc
     \/ /\ Admitted(src[c], {dst[c]}) = {}
        /\ pc' = [pc EXCEPT ![c] = "wait"]
        /\ UNCHANGED <<sendlist_, before, stack>>
  /\ UNCHANGED <<loopVars, signaled, ready, waited, outcome>>

\* current_thread->socketserver()->Wait(kForever, false)
SendWait(c) ==
  /\ pc[c] = "wait" /\ Sending(c)
  /\ signaled[src[c]]
  /\ signaled' = [signaled EXCEPT ![src[c]] = FALSE]
  /\ waited' = [waited EXCEPT ![c] = TRUE]
  /\ pc' = [pc EXCEPT ![c] = "check"]
  /\ UNCHANGED <<loopVars, sendlist_, before, stack, ready, outcome>>

\* The Wait fails; Send does not look at its result.
SendWaitFails(c) ==
  /\ pc[c] = "wait" /\ Sending(c) /\ src[c] \in MayFail
  /\ waited' = [waited EXCEPT ![c] = TRUE]
  /\ pc' = [pc EXCEPT ![c] = "check"]
  /\ UNCHANGED <<loopVars, signaled, sendlist_, before, stack, ready, outcome>>

\* OnMessage returns.  The sender is told under crit_ of the receiver; a direct
\* call just returns.
HandlerDone(c) ==
  /\ Running(c)
  /\ PopTop(dst[c])
  /\ outcome' = [outcome EXCEPT ![c] = "handled"]
  /\ \/ /\ pc[c] = "direct"
        /\ pc' = [pc EXCEPT ![c] = "done"]
        /\ UNCHANGED <<ready, signaled>>
     \/ /\ pc[c] # "direct"
        /\ ready' = [ready EXCEPT ![c] = TRUE]
        /\ signaled' = [signaled EXCEPT ![src[c]] = TRUE]
        /\ UNCHANGED pc
  /\ UNCHANGED <<loopVars, sendlist_, before, waited>>

-----------------------------------------------------------------------------
(* The message loop of a thread. *)

AtLoop(t, p) == loop[t] = p /\ stack[t] = <<>>

\* ReceiveSends, first thing in every pass of Get.
LoopSends(t) ==
  /\ AtLoop(t, "sends")
  /\ \/ /\ \E x \in Call : Receive(t, {}, x)
        /\ UNCHANGED loop
     \/ /\ sendlist_[t] = {}
        /\ loop' = [loop EXCEPT ![t] = "posts"]
        /\ UNCHANGED <<sendlist_, before, stack>>
  /\ UNCHANGED <<stop_, posts, posted, signaled, sendVars, outcome>>

\* Get returns a posted message, or finds none.
LoopPosts(t) ==
  /\ AtLoop(t, "posts")
  /\ \/ /\ posts[t] > 0
        /\ posts' = [posts EXCEPT ![t] = @ - 1]
        /\ loop' = [loop EXCEPT ![t] = "task"]
     \/ /\ posts[t] = 0
        /\ loop' = [loop EXCEPT ![t] = "quitcheck"]
        /\ UNCHANGED posts
  /\ UNCHANGED <<stop_, posted, signaled, sendlist_, before, stack, sendVars, outcome>>

\* The dispatched message has been handled; ProcessMessages calls Get.
LoopTaskDone(t) ==
  /\ AtLoop(t, "task")
  /\ loop' = [loop EXCEPT ![t] = "sends"]
  /\ UNCHANGED <<stop_, posts, posted, signaled, sendlist_, before, stack, sendVars,
                 outcome>>

LoopQuitCheck(t) ==
  /\ AtLoop(t, "quitcheck")
  /\ loop' = [loop EXCEPT ![t] = IF stop_[t] THEN "exited" ELSE "wait"]
  /\ UNCHANGED <<stop_, posts, posted, signaled, sendlist_, before, stack, sendVars,
                 outcome>>

LoopWait(t) ==
  /\ AtLoop(t, "wait") /\ signaled[t]
  /\ signaled' = [signaled EXCEPT ![t] = FALSE]
  /\ loop' = [loop EXCEPT ![t] = "sends"]
  /\ UNCHANGED <<stop_, posts, posted, sendlist_, before, stack, sendVars, outcome>>

\* ss_->Wait fails: Get returns false and Run() ends, although nobody has called Quit.
LoopWaitFails(t) ==
  /\ AtLoop(t, "wait") /\ t \in MayFail
  /\ loop' = [loop EXCEPT ![t] = "exited"]
  /\ UNCHANGED <<stop_, posts, posted, signaled, sendlist_, before, stack, sendVars,
                 outcome>>

-----------------------------------------------------------------------------
(* What any thread may do to t. *)

Post(t) ==
  /\ t \in MayPost /\ posted[t] < MaxPosts /\ ~stop_[t] /\ loop[t] # "destroyed"
  /\ posts' = [posts EXCEPT ![t] = @ + 1]
  /\ posted' = [posted EXCEPT ![t] = @ + 1]
  /\ signaled' = [signaled EXCEPT ![t] = TRUE]
  /\ UNCHANGED <<loop, stop_, sendlist_, before, stack, sendVars, outcome>>

Quit(t) ==
  /\ t \in MayQuit /\ ~stop_[t]
  /\ stop_' = [stop_ EXCEPT ![t] = TRUE]
  /\ signaled' = [signaled EXCEPT ![t] = TRUE]
  /\ UNCHANGED <<loop, posts, posted, sendlist_, before, stack, sendVars, outcome>>

\* A mutant of ClearSends: the calls go and nobody tells the senders.
ClearSendsQuietly(t, gone) ==
  /\ sendlist_' = [sendlist_ EXCEPT ![t] = @ \ gone]
  /\ before' = [c \in Call |-> IF c \in gone THEN {} ELSE before[c] \ gone]
  /\ outcome' = [c \in Call |-> IF c \in gone THEN "cleared" ELSE outcome[c]]
  /\ UNCHANGED <<ready, signaled>>

\* The loop of Thread::Clear over sendlist_: the senders of the calls that go are
\* told that their call is over.
ClearSends(t, gone) ==
  /\ sendlist_' = [sendlist_ EXCEPT ![t] = @ \ gone]
  /\ before' = [c \in Call |-> IF c \in gone THEN {} ELSE before[c] \ gone]
  /\ ready' = [c \in Call |-> ready[c] \/ c \in gone]
  /\ signaled' = [u \in Thread |-> signaled[u] \/ u \in {src[c] : c \in gone}]
  /\ outcome' = [c \in Call |-> IF c \in gone THEN "cleared" ELSE outcome[c]]

\* Clear(phandler): its object is being deleted.  What was posted to it goes in
\* MessageQueue!Clear; the posted messages here belong to other objects.
Clear(t, handler) ==
  /\ loop[t] # "destroyed"
  /\ ClearSends(t, {c \in sendlist_[t] : phandler[c] = handler})
  /\ UNCHANGED <<loopVars, stack, pc, waited>>

\* ~Thread after Stop(), that is Quit and Join: DoDestroy clears what is left.
Destroy(t) ==
  /\ loop[t] = "exited" /\ stop_[t]
  /\ ClearSends(t, sendlist_[t])
  /\ loop' = [loop EXCEPT ![t] = "destroyed"]
  /\ posts' = [posts EXCEPT ![t] = 0]
  /\ UNCHANGED <<stop_, posted, stack, pc, waited>>

-----------------------------------------------------------------------------
SendStep(c) ==
  \/ SendEnqueue(c) \/ SendWake(c) \/ SendCheck(c) \/ SendReceive(c) \/ SendWait(c)

LoopStep(t) ==
  \/ LoopSends(t) \/ LoopPosts(t) \/ LoopTaskDone(t) \/ LoopQuitCheck(t) \/ LoopWait(t)

\* What t does by itself.  Handlers return; nobody has to start a call.
ThreadStep(t) ==
  \/ LoopStep(t)
  \/ \E c \in Call : src[c] = t /\ SendStep(c)
  \/ \E c \in Call : dst[c] = t /\ HandlerDone(c)

Next ==
  \/ \E c \in Call : SendBegin(c) \/ SendWaitFails(c)
  \/ \E t \in Thread : ThreadStep(t) \/ LoopWaitFails(t) \/ Post(t) \/ Quit(t) \/ Destroy(t)
  \/ \E t \in Thread, h \in Handler : Clear(t, h)

Spec == Init /\ [][Next]_vars

\* The operating system runs every thread; no Wait has to fail.
FairSpec == Spec /\ \A t \in Thread : WF_vars(ThreadStep(t))

-----------------------------------------------------------------------------
(* Properties. *)

InFlight(c) == pc[c] \in {"wake", "check", "receive", "wait"}

OnStack(t, c) == Holds(stack[t], c)

\* Where call c is: InFlight(c) as long as its sender is inside Send.
Tracked(c) ==
  LET listed == c \in sendlist_[dst[c]]
      running == OnStack(dst[c], c) /\ src[c] # dst[c]
  IN  /\ InFlight(c) <=> (listed \/ running \/ (ready[c] /\ pc[c] # "done"))
      /\ ~(listed /\ running)
      /\ ready[c] => ~listed /\ ~running
      /\ ready[c] <=> src[c] # dst[c] /\ outcome[c] \in {"handled", "cleared"}
      /\ pc[c] = "done" => outcome[c] # "none"

\* A call on its way is in exactly one place: in the receiver's sendlist_, on the
\* receiver's stack with its handler running, or over.  So the handler of a call
\* runs at most once, the sender returns only from a call that was handled or
\* cleared, and *smsg.ready is only written while the sender is inside Send.
CallTracked == \A c \in Call : Tracked(c)

\* While a thread waits for a call it runs only what the thread it waits for has
\* sent: whatever is on a stack above a call that is waited for came from that
\* call's receiver ("to avoid an arbitrary thread invoking calls on the current
\* thread", thread.cc; ThreeThreadsInvoke in thread_unittest.cc).
OnlyAwaitedReenters ==
  \A t \in Thread : \A i \in 1..(Len(stack[t]) - 1) :
    LET c == stack[t][i]
        x == stack[t][i + 1]
    IN  src[c] = t /\ pc[c] # "direct" /\ dst[x] = t /\ src[x] # t
          => src[x] = dst[c]

\* Nobody sleeps on work: a thread that waits in Send is signaled once its call
\* is over or the thread it waits for has called it, and a thread that waits in
\* its loop is signaled once it has a call, a message or the order to quit,
\* although nested waits consume the same event.
NoLostSendWakeUp ==
  /\ \A c \in Call : pc[c] = "wait" /\ Sending(c) /\ ~signaled[src[c]] =>
       /\ ~ready[c]
       /\ \A x \in Admitted(src[c], {dst[c]}) : pc[x] = "wake"
  /\ \A t \in Thread : AtLoop(t, "wait") /\ ~signaled[t] =>
       /\ \A x \in sendlist_[t] : pc[x] = "wake"
       /\ posts[t] = 0 /\ ~stop_[t]

\* How far call c has come, as its sender sees it.
Status(c) ==
  CASE pc[c] = "new" -> "idle"
    [] pc[c] = "done" /\ outcome[c] = "refused" -> "refused"
    [] pc[c] = "done" /\ outcome[c] # "refused" -> "returned"
    [] pc[c] \notin {"new", "done"} /\ OnStack(dst[c], c) -> "running"
    [] pc[c] \notin {"new", "done"} /\ ~OnStack(dst[c], c) /\ ready[c] -> "over"
    [] OTHER -> "pending"

Promise == INSTANCE SyncCall WITH status <- [c \in Call |-> Status(c)]

\* The lists, events, nested waits and loops of Send implement the promise of a
\* synchronous call that SyncCall states.
KeepsPromise == Promise!Spec

\* A call is queued at a thread whose loop has ended.
Abandoned ==
  \E c \in Call : c \in sendlist_[dst[c]] /\ loop[dst[c]] \in {"exited", "destroyed"}

\* A call returns, however calls nest and though threads call each other at the same
\* time, as long as no cycle of three or more threads call each other and no call is
\* queued at a thread whose loop has ended, by Quit or because its Wait has failed: a
\* Wait that fails inside Send loses nothing.
SendReturns == \A c \in Call : pc[c] = "enqueue" ~> pc[c] = "done" \/ Abandoned
=============================================================================
