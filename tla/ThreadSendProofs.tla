-------------------------- MODULE ThreadSendProofs --------------------------
(***************************************************************************)
(* Proofs about ThreadSend, for any number of threads, calls and objects   *)
(* and whoever calls whom.                                                 *)
(***************************************************************************)
EXTENDS ThreadSend, SequenceTheorems, TLAPS

-----------------------------------------------------------------------------
(* The stacks. *)

\* Pushing a call leaves what is below it alone.
LEMMA PushStack ==
  ASSUME NEW t \in Thread, NEW c \in Call, stack \in [Thread -> Seq(Call)], Push(t, c)
  PROVE  /\ stack' \in [Thread -> Seq(Call)]
         /\ \A u \in Thread : u # t => stack'[u] = stack[u]
         /\ Len(stack[t]) \in Nat /\ Len(stack'[t]) = Len(stack[t]) + 1
         /\ \A i \in 1..Len(stack[t]) : stack'[t][i] = stack[t][i]
         /\ stack'[t][Len(stack[t]) + 1] = c
  BY DEF Push

\* A function that is changed at c, or not at all, is the same everywhere else.
LEMMA ElsewhereSame ==
  ASSUME NEW f, NEW g, NEW c, NEW v, g = f \/ g = [f EXCEPT ![c] = v]
  PROVE  \A x \in DOMAIN f : x # c => g[x] = f[x]
  OBVIOUS

\* Popping a call leaves what is below it alone.
LEMMA PopStack ==
  ASSUME NEW t \in Thread, stack \in [Thread -> Seq(Call)], stack[t] # <<>>, PopTop(t)
  PROVE  /\ stack' \in [Thread -> Seq(Call)]
         /\ \A u \in Thread : u # t => stack'[u] = stack[u]
         /\ Len(stack[t]) \in Nat \ {0} /\ Len(stack'[t]) = Len(stack[t]) - 1
         /\ \A i \in 1..(Len(stack[t]) - 1) : stack'[t][i] = stack[t][i]
<1> DEFINE s == stack[t]
           n == Len(stack[t]) - 1
<1>1. s \in Seq(Call) /\ Len(s) \in Nat \ {0} /\ \A i \in 1..n : s[i] \in Call
  BY EmptySeq
<1>2. /\ SubSeq(s, 1, n) \in Seq(Call)
      /\ Len(SubSeq(s, 1, n)) = IF 1 <= n THEN n ELSE 0
      /\ \A i \in 1..n : SubSeq(s, 1, n)[i] = s[i]
  BY <1>1, SubSeqProperties
<1>3. stack' = [stack EXCEPT ![t] = SubSeq(s, 1, n)]
  BY DEF PopTop
<1>4. stack'[t] = SubSeq(s, 1, n) /\ \A u \in Thread : u # t => stack'[u] = stack[u]
  BY <1>3
<1>5. Len(SubSeq(s, 1, n)) = n
  <2>1. n \in Nat
    BY <1>1
  <2> DEFINE len == Len(SubSeq(s, 1, n))
  <2>2. len = IF 1 <= n THEN n ELSE 0
    BY <1>2
  <2> HIDE DEF len, n
  <2> QED
    BY <2>1, <2>2 DEF len
<1>6. stack' \in [Thread -> Seq(Call)]
  BY <1>2, <1>3
<1> QED
  BY <1>1, <1>2, <1>4, <1>5, <1>6

\* No call is twice on the stack s.
Distinct(s) == \A i, j \in 1..Len(s) : s[i] = s[j] => i = j

\* What a push does to what a stack holds.
LEMMA PushHolds ==
  ASSUME NEW t \in Thread, NEW c \in Call, stack \in [Thread -> Seq(Call)], Push(t, c)
  PROVE  /\ \A u \in Thread : u # t => stack'[u] = stack[u]
         /\ \A x \in Call : Holds(stack'[t], x) <=> Holds(stack[t], x) \/ x = c
         /\ \A x \in Call : TopIs(stack'[t], x) <=> x = c
         /\ Distinct(stack[t]) /\ ~Holds(stack[t], c) => Distinct(stack'[t])
<1>1. /\ \A u \in Thread : u # t => stack'[u] = stack[u]
      /\ Len(stack[t]) \in Nat /\ Len(stack'[t]) = Len(stack[t]) + 1
      /\ \A i \in 1..Len(stack[t]) : stack'[t][i] = stack[t][i]
      /\ stack'[t][Len(stack[t]) + 1] = c
  BY PushStack
<1>2. stack'[t] # <<>>
  BY <1>1
<1>3. \A x \in Call : Holds(stack'[t], x) <=> Holds(stack[t], x) \/ x = c
  BY <1>1 DEF Holds
<1>4. \A x \in Call : TopIs(stack'[t], x) <=> x = c
  BY <1>1, <1>2 DEF TopIs
<1>5. Distinct(stack[t]) /\ ~Holds(stack[t], c) => Distinct(stack'[t])
  BY <1>1 DEF Holds, Distinct
<1> QED
  BY <1>1, <1>3, <1>4, <1>5

\* What a pop does to what a stack holds.
LEMMA PopHolds ==
  ASSUME NEW t \in Thread, NEW c \in Call, stack \in [Thread -> Seq(Call)],
         TopIs(stack[t], c), Distinct(stack[t]), PopTop(t)
  PROVE  /\ \A u \in Thread : u # t => stack'[u] = stack[u]
         /\ \A x \in Call : Holds(stack'[t], x) <=> Holds(stack[t], x) /\ x # c
         /\ Distinct(stack'[t])
<1>1. /\ \A u \in Thread : u # t => stack'[u] = stack[u]
      /\ Len(stack[t]) \in Nat \ {0} /\ Len(stack'[t]) = Len(stack[t]) - 1
      /\ \A i \in 1..(Len(stack[t]) - 1) : stack'[t][i] = stack[t][i]
  BY PopStack DEF TopIs
<1> DEFINE n == Len(stack[t])
<1>2. stack[t][n] = c
  BY DEF TopIs
<1>3. ASSUME NEW x \in Call
      PROVE  Holds(stack'[t], x) <=> Holds(stack[t], x) /\ x # c
  <2>1. ASSUME NEW i \in 1..(n - 1) PROVE stack'[t][i] = stack[t][i] /\ stack[t][i] # c
    BY <1>1, <1>2 DEF Distinct
  <2>2. Holds(stack'[t], x) => Holds(stack[t], x) /\ x # c
    BY <1>1, <2>1 DEF Holds
  <2>3. ASSUME Holds(stack[t], x), x # c PROVE Holds(stack'[t], x)
    <3>1. PICK i \in 1..n : stack[t][i] = x
      BY <2>3 DEF Holds
    <3>2. i \in 1..(n - 1)
      BY <1>1, <1>2, <2>3, <3>1
    <3> QED
      BY <1>1, <2>1, <3>1, <3>2 DEF Holds
  <2> QED
    BY <2>2, <2>3
<1>4. Distinct(stack'[t])
  BY <1>1 DEF Distinct
<1> QED
  BY <1>1, <1>3, <1>4

\* A call that is on top is on the stack, and no other is on top.
LEMMA TopHolds ==
  ASSUME NEW t \in Thread, NEW c \in Call, stack \in [Thread -> Seq(Call)],
         TopIs(stack[t], c)
  PROVE  /\ Holds(stack[t], c)
         /\ \A x \in Call : TopIs(stack[t], x) => x = c
<1>1. Len(stack[t]) \in Nat \ {0}
  BY EmptySeq DEF TopIs
<1> QED
  BY <1>1 DEF TopIs, Holds

-----------------------------------------------------------------------------
(* Type correctness. *)

\* The initial state is well typed.
LEMMA TypeInit == Init => TypeOK
  BY SendAssumption DEF Init, TypeOK

\* Taking a call out of a list leaves lists of calls.
LEMMA EraseType ==
  ASSUME NEW t \in Thread, NEW x \in Call, TypeOK, Erase(t, x)
  PROVE  sendlist_' \in [Thread -> SUBSET Call] /\ before' \in [Call -> SUBSET Call]
  BY DEF Erase, TypeOK

\* Every step keeps the state well typed.
LEMMA TypeStep == TypeOK /\ [Next]_vars => TypeOK'
<1> SUFFICES ASSUME TypeOK PROVE [Next]_vars => TypeOK'
  OBVIOUS
<1> USE SendAssumption DEF TypeOK, AtLoop, loopVars, sendVars
<1>1. ASSUME NEW c \in Call, SendBegin(c) PROVE TypeOK'
  <2>1. stack' \in [Thread -> Seq(Call)]
    BY <1>1, PushStack DEF SendBegin
  <2>2. pc' \in [Call -> {"new", "direct", "enqueue", "wake", "check", "receive",
                          "wait", "done"}]
    <3>1. \E v \in {"done", "direct", "enqueue"} : pc' = [pc EXCEPT ![c] = v]
      BY <1>1, Zenon DEF SendBegin
    <3> QED
      BY <3>1
  <2>3. outcome' \in [Call -> {"none", "refused", "handled", "cleared"}]
    BY <1>1 DEF SendBegin
  <2> QED
    BY <1>1, <2>1, <2>2, <2>3 DEF SendBegin
<1>2. ASSUME NEW c \in Call, SendEnqueue(c) PROVE TypeOK'
  BY <1>2 DEF SendEnqueue
<1>3. ASSUME NEW c \in Call, SendWake(c) PROVE TypeOK'
  BY <1>3 DEF SendWake
<1>4. ASSUME NEW c \in Call, SendCheck(c) PROVE TypeOK'
  <2>1. stack' \in [Thread -> Seq(Call)]
    BY <1>4, PopStack DEF SendCheck, Sending, OnTop, TopIs
  <2>2. pc' \in [Call -> {"new", "direct", "enqueue", "wake", "check", "receive",
                          "wait", "done"}]
    <3>1. pc' = [pc EXCEPT ![c] = "receive"] \/ pc' = [pc EXCEPT ![c] = "done"]
      BY <1>4, Zenon DEF SendCheck
    <3> QED
      BY <3>1
  <2>3. signaled' \in [Thread -> BOOLEAN]
    <3>1. \/ signaled' = signaled
          \/ signaled' = [signaled EXCEPT ![src[c]] = @ \/ waited[c]]
      BY <1>4, Zenon DEF SendCheck, WakeAgain
    <3> QED
      BY <3>1
  <2>4. UNCHANGED <<loop, stop_, posts, posted, sendlist_, before, ready, waited, outcome>>
    BY <1>4, Zenon DEF SendCheck
  <2> QED
    BY <2>1, <2>2, <2>3, <2>4
<1>5. ASSUME NEW c \in Call, SendReceive(c) PROVE TypeOK'
  <2>1. stack' \in [Thread -> Seq(Call)]
    BY <1>5, PushStack DEF SendReceive, Receive
  <2>2. sendlist_' \in [Thread -> SUBSET Call] /\ before' \in [Call -> SUBSET Call]
    <3>1. CASE \E x \in Call : Receive(src[c], {dst[c]}, x)
      BY <3>1, EraseType DEF Receive
    <3>2. CASE UNCHANGED <<sendlist_, before>>
      BY <3>2
    <3> QED
      BY <1>5, <3>1, <3>2 DEF SendReceive
  <2>3. pc' \in [Call -> {"new", "direct", "enqueue", "wake", "check", "receive",
                          "wait", "done"}]
    <3>1. pc' = pc \/ pc' = [pc EXCEPT ![c] = "wait"]
      BY <1>5, Zenon DEF SendReceive
    <3> QED
      BY <3>1
  <2>4. UNCHANGED <<loop, stop_, posts, posted, signaled, ready, waited, outcome>>
    BY <1>5, Zenon DEF SendReceive
  <2> QED
    BY <2>1, <2>2, <2>3, <2>4
<1>6. ASSUME NEW c \in Call, SendWait(c) \/ SendWaitFails(c) PROVE TypeOK'
  <2>1. CASE SendWait(c)
    BY <2>1 DEF SendWait
  <2>2. CASE SendWaitFails(c)
    BY <2>2 DEF SendWaitFails
  <2> QED
    BY <1>6, <2>1, <2>2
<1>7. ASSUME NEW c \in Call, HandlerDone(c) PROVE TypeOK'
  <2>1. stack' \in [Thread -> Seq(Call)]
    BY <1>7, PopStack DEF HandlerDone, Running, OnTop, TopIs
  <2>2. pc' \in [Call -> {"new", "direct", "enqueue", "wake", "check", "receive",
                          "wait", "done"}]
    <3>1. pc' = pc \/ pc' = [pc EXCEPT ![c] = "done"]
      BY <1>7, Zenon DEF HandlerDone
    <3> QED
      BY <3>1
  <2>3. ready' \in [Call -> BOOLEAN]
    <3>1. ready' = ready \/ ready' = [ready EXCEPT ![c] = TRUE]
      BY <1>7, Zenon DEF HandlerDone
    <3> QED
      BY <3>1
  <2>4. signaled' \in [Thread -> BOOLEAN]
    <3>1. signaled' = signaled \/ signaled' = [signaled EXCEPT ![src[c]] = TRUE]
      BY <1>7, Zenon DEF HandlerDone
    <3> QED
      BY <3>1
  <2>5. outcome' \in [Call -> {"none", "refused", "handled", "cleared"}]
    <3>1. outcome' = [outcome EXCEPT ![c] = "handled"]
      BY <1>7, Zenon DEF HandlerDone
    <3> QED
      BY <3>1
  <2>6. UNCHANGED <<loop, stop_, posts, posted, sendlist_, before, waited>>
    BY <1>7, Zenon DEF HandlerDone
  <2> QED
    BY <2>1, <2>2, <2>3, <2>4, <2>5, <2>6
<1>8. ASSUME NEW t \in Thread, LoopSends(t) PROVE TypeOK'
  <2>1. stack' \in [Thread -> Seq(Call)]
    BY <1>8, PushStack DEF LoopSends, Receive
  <2>2. sendlist_' \in [Thread -> SUBSET Call] /\ before' \in [Call -> SUBSET Call]
    <3>1. CASE \E x \in Call : Receive(t, {}, x)
      BY <3>1, EraseType DEF Receive
    <3>2. CASE UNCHANGED <<sendlist_, before>>
      BY <3>2
    <3> QED
      BY <1>8, <3>1, <3>2 DEF LoopSends
  <2>3. loop' \in [Thread -> {"sends", "posts", "task", "quitcheck", "wait", "exited",
                              "destroyed"}]
    <3>1. loop' = loop \/ loop' = [loop EXCEPT ![t] = "posts"]
      BY <1>8, Zenon DEF LoopSends
    <3> QED
      BY <3>1
  <2>4. UNCHANGED <<stop_, posts, posted, signaled, sendVars, outcome>>
    BY <1>8 DEF LoopSends
  <2> QED
    BY <2>1, <2>2, <2>3, <2>4
<1>9. ASSUME NEW t \in Thread, LoopPosts(t) PROVE TypeOK'
  <2>1. posts' \in [Thread -> Nat]
    <3>1. posts[t] \in Nat
      OBVIOUS
    <3>2. \/ posts' = posts
          \/ posts[t] > 0 /\ posts' = [posts EXCEPT ![t] = posts[t] - 1]
      BY <1>9, Zenon DEF LoopPosts
    <3>3. posts[t] > 0 => posts[t] - 1 \in Nat
      BY <3>1, SMT
    <3>4. posts \in [Thread -> Nat]
      OBVIOUS
    <3> HIDE DEF TypeOK
    <3> QED
      BY <3>2, <3>3, <3>4, Zenon
  <2>2. \/ loop' = [loop EXCEPT ![t] = "task"]
        \/ loop' = [loop EXCEPT ![t] = "quitcheck"]
    BY <1>9 DEF LoopPosts
  <2> QED
    BY <1>9, <2>1, <2>2 DEF LoopPosts
<1>10. ASSUME NEW t \in Thread,
              LoopTaskDone(t) \/ LoopQuitCheck(t) \/ LoopWait(t) \/ LoopWaitFails(t)
       PROVE  TypeOK'
  <2>1. CASE LoopTaskDone(t)
    BY <2>1 DEF LoopTaskDone
  <2>2. CASE LoopQuitCheck(t)
    BY <2>2 DEF LoopQuitCheck
  <2>3. CASE LoopWait(t)
    BY <2>3 DEF LoopWait
  <2>4. CASE LoopWaitFails(t)
    BY <2>4 DEF LoopWaitFails
  <2> QED
    BY <1>10, <2>1, <2>2, <2>3, <2>4
<1>11. ASSUME NEW t \in Thread, Post(t) \/ Quit(t) PROVE TypeOK'
  <2>1. CASE Post(t)
    <3>1. posts[t] + 1 \in Nat /\ posted[t] + 1 \in Nat
      OBVIOUS
    <3> QED
      BY <2>1, <3>1 DEF Post
  <2>2. CASE Quit(t)
    BY <2>2 DEF Quit
  <2> QED
    BY <1>11, <2>1, <2>2
<1>12. ASSUME NEW t \in Thread, NEW h \in Handler, Clear(t, h) PROVE TypeOK'
  BY <1>12 DEF Clear, ClearSends
<1>13. ASSUME NEW t \in Thread, Destroy(t) PROVE TypeOK'
  BY <1>13 DEF Destroy, ClearSends
<1>14. ASSUME UNCHANGED vars PROVE TypeOK'
  BY <1>14 DEF vars
<1> QED
  BY <1>1, <1>2, <1>3, <1>4, <1>5, <1>6, <1>7, <1>8, <1>9, <1>10, <1>11, <1>12,
     <1>13, <1>14
  DEF Next, ThreadStep, LoopStep, SendStep

\* The state of the threads and of their calls is always well typed: no stack is
\* popped when it is empty and no message is taken from an empty queue.
THEOREM TypeCorrect == Spec => []TypeOK
  BY TypeInit, TypeStep, PTL DEF Spec
-----------------------------------------------------------------------------
(* Every call is in one place. *)

\* No call is twice on one stack.
DistinctInv == \A t \in Thread : Distinct(stack[t])

\* The sender of a call has it on its stack from the start of Send to its end.
SenderInv == \A c \in Call : OnStack(src[c], c) <=> pc[c] \notin {"new", "done"}

\* Only the sender and the receiver of a call have it on their stacks.
OwnerInv == \A t \in Thread, c \in Call : OnStack(t, c) => t = src[c] \/ t = dst[c]

\* A sender that is not serving others has its call on top.
TopInv ==
  \A c \in Call : pc[c] \in {"enqueue", "wake", "check", "wait"} => OnTop(src[c], c)

\* A direct call is one to the calling thread itself; the others go through the
\* list of their receiver.
KindInv ==
  \A c \in Call :
    /\ pc[c] = "direct" => src[c] = dst[c]
    /\ pc[c] \in {"enqueue", "wake", "check", "receive", "wait"} => src[c] # dst[c]

\* The list of a thread holds calls of other threads to it.
ListInv == \A t \in Thread : \A c \in sendlist_[t] : dst[c] = t /\ src[c] # t

\* Only a thread that drains its list or handles a message can be inside a call.
IdleInv == \A t \in Thread : stack[t] # <<>> => loop[t] \in {"sends", "task"}

CallInv ==
  /\ DistinctInv /\ SenderInv /\ OwnerInv /\ TopInv
  /\ KindInv /\ ListInv /\ IdleInv
  /\ CallTracked

\* Initially nothing is on a stack or in a list.
LEMMA CallInit == Init => CallInv
<1> SUFFICES ASSUME Init PROVE CallInv
  OBVIOUS
<1> USE SendAssumption DEF OnStack, OnTop
<1>1. \A t \in Thread : stack[t] = <<>> /\ \A c \in Call : ~Holds(stack[t], c)
  <2>1. \A t \in Thread : stack[t] = <<>>
    BY DEF Init
  <2>2. \A c \in Call : ~Holds(<<>>, c)
    BY DEF Holds
  <2> QED
    BY <2>1, <2>2
<1>2. DistinctInv
  BY <1>1 DEF Distinct, DistinctInv
<1>3. SenderInv /\ OwnerInv
  BY <1>1 DEF Init, SenderInv, OwnerInv
<1>4. TopInv /\ KindInv
  BY DEF Init, TopInv, KindInv
<1>5. ListInv /\ IdleInv
  BY <1>1 DEF Init, ListInv, IdleInv
<1>6. CallTracked
  <2>1. \A c \in Call : /\ sendlist_[dst[c]] = {} /\ ~Holds(stack[dst[c]], c)
                        /\ ~ready[c] /\ pc[c] = "new" /\ outcome[c] = "none"
    BY <1>1 DEF Init
  <2> QED
    BY <2>1 DEF CallTracked, Tracked, InFlight
<1> QED
  BY <1>2, <1>3, <1>4, <1>5, <1>6 DEF CallInv

\* The start of a call.
LEMMA CallBegin ==
  ASSUME TypeOK, CallInv, NEW c \in Call, SendBegin(c)
  PROVE  CallInv'
<1> USE SendAssumption DEF TypeOK, OnStack, OnTop, CallInv
<1>a. /\ pc[c] = "new" /\ InUserCode(src[c]) /\ ~Holds(stack[src[c]], c)
      /\ UNCHANGED <<loopVars, signaled, sendlist_, before, ready, waited>>
  BY DEF SendBegin, SenderInv
<1>b. ~InFlight(c) /\ c \notin sendlist_[dst[c]] /\ ~ready[c]
  BY <1>a DEF CallTracked, Tracked, InFlight
<1>1. CASE /\ pc' = [pc EXCEPT ![c] = "done"]
           /\ outcome' = [outcome EXCEPT ![c] = "refused"]
           /\ UNCHANGED stack
  <2>1. DistinctInv' /\ OwnerInv'
    BY <1>1 DEF DistinctInv, OwnerInv
  <2>2. SenderInv'
    BY <1>1, <1>a DEF SenderInv
  <2>3. TopInv' /\ KindInv'
    BY <1>1 DEF TopInv, KindInv
  <2>4. ListInv' /\ IdleInv'
    BY <1>1, <1>a DEF ListInv, IdleInv, loopVars
  <2>5. CallTracked'
    BY <1>1, <1>a, <1>b DEF CallTracked, Tracked, InFlight
  <2> QED
    BY <2>1, <2>2, <2>3, <2>4, <2>5
<1>2. CASE /\ pc' = [pc EXCEPT ![c] = IF src[c] = dst[c] THEN "direct" ELSE "enqueue"]
           /\ Push(src[c], c)
           /\ UNCHANGED outcome
  <2>1. /\ \A u \in Thread : u # src[c] => stack'[u] = stack[u]
        /\ \A x \in Call : Holds(stack'[src[c]], x) <=> Holds(stack[src[c]], x) \/ x = c
        /\ \A x \in Call : TopIs(stack'[src[c]], x) <=> x = c
        /\ Distinct(stack'[src[c]])
    BY <1>2, <1>a, PushHolds DEF DistinctInv
  <2>2. DistinctInv' /\ OwnerInv'
    BY <2>1 DEF DistinctInv, OwnerInv
  <2>3. SenderInv'
    BY <1>2, <2>1 DEF SenderInv
  <2>4. TopInv'
    <3>1. ASSUME NEW x \in Call, pc[x] \in {"enqueue", "wake", "check", "wait"}
          PROVE  src[x] # src[c]
      <4>1. TopIs(stack[src[x]], x) /\ src[x] # dst[x] /\ pc[x] # "direct"
        BY <3>1 DEF TopInv, KindInv
      <4>2. ASSUME NEW y \in Call, dst[y] = src[c], Running(y) PROVE src[x] # src[c]
        BY <4>1, <4>2, TopHolds DEF Running
      <4>3. ASSUME stack[src[c]] = <<>> PROVE src[x] # src[c]
        BY <4>1, <4>3 DEF TopIs
      <4> QED
        BY <4>2, <4>3, <1>a DEF InUserCode
    <3> QED
      BY <1>2, <2>1, <3>1 DEF TopInv
  <2>5. KindInv'
    BY <1>2 DEF KindInv
  <2>6. ListInv' /\ IdleInv'
    <3>1. loop[src[c]] \in {"sends", "task"}
      BY <1>a DEF InUserCode, Running, TopIs, IdleInv
    <3> QED
      BY <1>a, <2>1, <3>1 DEF ListInv, IdleInv, loopVars
  <2>7. CallTracked'
    <3>1. \A x \in Call : src[x] # dst[x] =>
            (Holds(stack'[dst[x]], x) <=> Holds(stack[dst[x]], x))
      BY <2>1
    <3> QED
      BY <1>2, <1>a, <1>b, <3>1 DEF CallTracked, Tracked, InFlight
  <2> QED
    BY <2>2, <2>3, <2>4, <2>5, <2>6, <2>7
<1> QED
  BY <1>1, <1>2 DEF SendBegin

\* The steps of a sender that leave its stack alone.
LEMMA CallSend ==
  ASSUME TypeOK, CallInv, NEW c \in Call,
         SendEnqueue(c) \/ SendWake(c) \/ SendWait(c) \/ SendWaitFails(c)
  PROVE  CallInv'
<1> USE SendAssumption DEF TypeOK, OnStack, OnTop, CallInv
<1>1. UNCHANGED <<stack, loop, ready, outcome>>
  BY DEF SendEnqueue, SendWake, SendWait, SendWaitFails, loopVars
<1>2. DistinctInv' /\ OwnerInv' /\ IdleInv'
  BY <1>1 DEF DistinctInv, OwnerInv, IdleInv
<1>3. \/ pc[c] = "enqueue" /\ pc' = [pc EXCEPT ![c] = "wake"]
      \/ pc[c] = "wake" /\ pc' = [pc EXCEPT ![c] = "check"]
      \/ pc[c] = "wait" /\ pc' = [pc EXCEPT ![c] = "check"]
  BY DEF SendEnqueue, SendWake, SendWait, SendWaitFails
<1>4. SenderInv' /\ TopInv' /\ KindInv'
  <2>1. SenderInv'
    BY <1>1, <1>3 DEF SenderInv
  <2>2. TopInv'
    BY <1>1, <1>3 DEF TopInv
  <2>3. KindInv'
    BY <1>1, <1>3 DEF KindInv
  <2> QED
    BY <2>1, <2>2, <2>3
<1>5. ListInv' /\ CallTracked'
  <2>1. CASE SendEnqueue(c)
    <3>1. sendlist_' = [sendlist_ EXCEPT ![dst[c]] = @ \cup {c}]
          /\ pc[c] = "enqueue" /\ pc' = [pc EXCEPT ![c] = "wake"]
      BY <2>1 DEF SendEnqueue
    <3>2. src[c] # dst[c] /\ c \notin sendlist_[dst[c]] /\ ~Holds(stack[dst[c]], c)
          /\ ~ready[c]
      BY <3>1 DEF KindInv, CallTracked, Tracked, InFlight
    <3>3. ListInv'
      BY <3>1, <3>2 DEF ListInv
    <3>4. CallTracked'
      BY <1>1, <3>1, <3>2 DEF CallTracked, Tracked, InFlight
    <3> QED
      BY <3>3, <3>4
  <2>2. CASE ~SendEnqueue(c)
    <3>1. UNCHANGED sendlist_
      BY <2>2 DEF SendWake, SendWait, SendWaitFails
    <3>2. pc[c] # "enqueue"
      BY <2>2 DEF SendWake, SendWait, SendWaitFails
    <3>3. ListInv'
      BY <3>1 DEF ListInv
    <3>4. CallTracked'
      BY <1>1, <1>3, <3>1, <3>2 DEF CallTracked, Tracked, InFlight
    <3> QED
      BY <3>3, <3>4
  <2> QED
    BY <2>1, <2>2
<1> QED
  BY <1>2, <1>4, <1>5

\* A thread t that is at the start of its loop, or waits for a call on top of its
\* stack, takes x from its list and runs it.
LEMMA CallReceive ==
  ASSUME TypeOK, CallInv, NEW t \in Thread, NEW source, NEW x \in Call,
         Receive(t, source, x),
         loop[t] \in {"sends", "task"},
         \A c \in Call : OnTop(t, c) => pc[c] = "receive",
         UNCHANGED <<loopVars, sendVars, outcome>>
  PROVE  CallInv'
<1> USE SendAssumption DEF TypeOK, OnStack, OnTop, CallInv
<1>1. x \in sendlist_[t] /\ sendlist_' = [sendlist_ EXCEPT ![t] = @ \ {x}] /\ Push(t, x)
  BY DEF Receive, Admitted, Erase
<1>2. dst[x] = t /\ src[x] # t /\ InFlight(x) /\ ~Holds(stack[t], x) /\ ~ready[x]
  BY <1>1 DEF ListInv, CallTracked, Tracked
<1>3. /\ \A u \in Thread : u # t => stack'[u] = stack[u]
      /\ \A y \in Call : Holds(stack'[t], y) <=> Holds(stack[t], y) \/ y = x
      /\ \A y \in Call : TopIs(stack'[t], y) <=> y = x
      /\ Distinct(stack'[t])
  BY <1>1, <1>2, PushHolds DEF DistinctInv
<1>4. UNCHANGED <<loop, pc, ready, outcome>>
  BY DEF loopVars, sendVars
<1>5. DistinctInv' /\ OwnerInv'
  <2>1. DistinctInv'
    <3>1. ASSUME NEW u \in Thread PROVE Distinct(stack'[u])
      BY <1>3, Zenon DEF DistinctInv
    <3> QED
      BY <3>1 DEF DistinctInv
  <2>2. OwnerInv'
    <3>1. ASSUME NEW u \in Thread, NEW y \in Call, Holds(stack'[u], y)
          PROVE  u = src[y] \/ u = dst[y]
      <4>1. CASE u = t /\ y = x
        BY <1>2, <4>1
      <4>2. CASE ~(u = t /\ y = x)
        BY <1>3, <3>1, <4>2 DEF OwnerInv
      <4> QED
        BY <4>1, <4>2
    <3> QED
      BY <3>1 DEF OwnerInv
  <2> QED
    BY <2>1, <2>2
<1>6. SenderInv'
  <2>1. ASSUME NEW y \in Call PROVE Holds(stack'[src[y]], y) <=> Holds(stack[src[y]], y)
    BY <1>2, <1>3
  <2> QED
    BY <1>4, <2>1 DEF SenderInv
<1>7. TopInv'
  BY <1>3, <1>4 DEF TopInv
<1>8. KindInv' /\ ListInv' /\ IdleInv'
  <2>1. KindInv'
    BY <1>4 DEF KindInv
  <2>2. ListInv'
    BY <1>1 DEF ListInv
  <2>3. IdleInv'
    BY <1>3, <1>4 DEF IdleInv
  <2> QED
    BY <2>1, <2>2, <2>3
<1>9. CallTracked'
  <2>1. \A y \in Call : y # x => (Holds(stack'[dst[y]], y) <=> Holds(stack[dst[y]], y))
    BY <1>3
  <2>2. \A y \in Call : y # x => (y \in sendlist_'[dst[y]] <=> y \in sendlist_[dst[y]])
    BY <1>1
  <2>3. x \notin sendlist_'[dst[x]] /\ Holds(stack'[dst[x]], x)
    BY <1>1, <1>2, <1>3
  <2> QED
    BY <1>2, <1>4, <2>1, <2>2, <2>3 DEF CallTracked, Tracked, InFlight
<1> QED
  BY <1>5, <1>6, <1>7, <1>8, <1>9

\* The end of a call: its sender finds it ready, or its handler returns.  It is
\* the innermost call c of thread t.
LEMMA CallEnd ==
  ASSUME TypeOK, CallInv, NEW t \in Thread, NEW c \in Call, OnTop(t, c), PopTop(t),
         UNCHANGED <<loop, sendlist_>>,
         \/ t = src[c] /\ src[c] # dst[c] /\ ready[c] /\ pc[c] = "check"
            /\ pc' = [pc EXCEPT ![c] = "done"] /\ UNCHANGED <<ready, outcome>>
         \/ t = dst[c] /\ pc[c] = "direct" /\ pc' = [pc EXCEPT ![c] = "done"]
            /\ outcome' = [outcome EXCEPT ![c] = "handled"] /\ UNCHANGED ready
         \/ t = dst[c] /\ src[c] # dst[c] /\ UNCHANGED pc
            /\ outcome' = [outcome EXCEPT ![c] = "handled"]
            /\ ready' = [ready EXCEPT ![c] = TRUE]
  PROVE  CallInv'
<1> USE SendAssumption DEF TypeOK, OnStack, OnTop, CallInv
<1>1. /\ \A u \in Thread : u # t => stack'[u] = stack[u]
      /\ \A x \in Call : Holds(stack'[t], x) <=> Holds(stack[t], x) /\ x # c
      /\ Distinct(stack'[t])
  BY PopHolds DEF DistinctInv
<1>2. Holds(stack[t], c) /\ \A x \in Call : TopIs(stack[t], x) => x = c
  BY TopHolds
<1>3. DistinctInv'
  BY <1>1 DEF DistinctInv
<1>4. OwnerInv'
  BY <1>1 DEF OwnerInv
<1>5. SenderInv'
  <2>1. CASE pc' = [pc EXCEPT ![c] = "done"] /\ t = src[c]
    BY <1>1, <2>1 DEF SenderInv
  <2>2. CASE t = dst[c] /\ src[c] # dst[c] /\ UNCHANGED pc
    BY <1>1, <2>2 DEF SenderInv
  <2> QED
    BY <2>1, <2>2 DEF KindInv
<1>6. TopInv'
  <2> SUFFICES ASSUME NEW x \in Call, pc'[x] \in {"enqueue", "wake", "check", "wait"}
               PROVE  TopIs(stack'[src[x]], x)
    BY DEF TopInv
  <2>1. pc[x] = pc'[x]
    <3>1. pc' = pc \/ pc' = [pc EXCEPT ![c] = "done"]
      OBVIOUS
    <3> QED
      BY <3>1
  <2>2. TopIs(stack[src[x]], x) /\ src[x] # dst[x]
    BY <2>1 DEF TopInv, KindInv
  <2>3. src[x] # t
    <3>1. CASE x = c
      BY <2>1, <2>2, <3>1
    <3>2. CASE x # c
      BY <1>2, <2>2, <3>2
    <3> QED
      BY <3>1, <3>2
  <2> QED
    BY <1>1, <2>2, <2>3
<1>7. KindInv'
  <2>1. pc' = pc \/ pc' = [pc EXCEPT ![c] = "done"]
    OBVIOUS
  <2>2. \A x \in Call : pc'[x] = pc[x] \/ pc'[x] = "done"
    BY <2>1
  <2>3. KindInv
    OBVIOUS
  <2> QED
    BY <2>2, <2>3 DEF KindInv
<1>8. ListInv'
  BY DEF ListInv
<1>9. IdleInv'
  <2>1. stack[t] # <<>>
    BY DEF TopIs
  <2> QED
    BY <1>1, <2>1 DEF IdleInv
<1>10. CallTracked'
  <2>1. \A x \in Call : x # c \/ t # dst[c] =>
          (Holds(stack'[dst[x]], x) <=> Holds(stack[dst[x]], x))
    BY <1>1
  <2>2. ASSUME NEW x \in Call, x # c PROVE Tracked(x)'
    <3>1. pc'[x] = pc[x] /\ ready'[x] = ready[x] /\ outcome'[x] = outcome[x]
      BY <2>2
    <3> QED
      BY <2>1, <2>2, <3>1 DEF CallTracked, Tracked, InFlight
  <2>3. Tracked(c)'
    <3>1. CASE t = src[c] /\ src[c] # dst[c] /\ ready[c] /\ pc[c] = "check"
               /\ pc' = [pc EXCEPT ![c] = "done"] /\ UNCHANGED <<ready, outcome>>
      BY <2>1, <3>1 DEF CallTracked, Tracked, InFlight
    <3>2. CASE t = dst[c] /\ pc[c] = "direct" /\ pc' = [pc EXCEPT ![c] = "done"]
               /\ outcome' = [outcome EXCEPT ![c] = "handled"] /\ UNCHANGED ready
      BY <3>2 DEF CallTracked, Tracked, InFlight, KindInv
    <3>3. CASE t = dst[c] /\ src[c] # dst[c] /\ UNCHANGED pc
               /\ outcome' = [outcome EXCEPT ![c] = "handled"]
               /\ ready' = [ready EXCEPT ![c] = TRUE]
      BY <1>1, <1>2, <3>3 DEF CallTracked, Tracked, InFlight
    <3> QED
      BY <3>1, <3>2, <3>3
  <2> QED
    BY <2>2, <2>3 DEF CallTracked
<1> QED
  BY <1>3, <1>4, <1>5, <1>6, <1>7, <1>8, <1>9, <1>10

\* A step of a sender or of a handler.
LEMMA CallThread ==
  ASSUME TypeOK, CallInv, NEW c \in Call, SendStep(c) \/ HandlerDone(c)
  PROVE  CallInv'
<1> USE SendAssumption
<1>1. CASE SendEnqueue(c) \/ SendWake(c) \/ SendWait(c)
  BY <1>1, CallSend
<1>2. CASE SendCheck(c)
  <2>1. CASE ~ready[c]
    <3>1. UNCHANGED <<stack, loop, ready, outcome, sendlist_>>
          /\ pc[c] = "check" /\ pc' = [pc EXCEPT ![c] = "receive"]
      BY <1>2, <2>1 DEF SendCheck, loopVars
    <3>2. DistinctInv' /\ OwnerInv' /\ IdleInv' /\ ListInv'
      BY <3>1 DEF CallInv, DistinctInv, OwnerInv, IdleInv, ListInv, OnStack
    <3>3. SenderInv' /\ TopInv'
      BY <3>1 DEF CallInv, SenderInv, TopInv, OnStack, OnTop, TypeOK
    <3>4. KindInv' /\ CallTracked'
      BY <3>1 DEF CallInv, KindInv, CallTracked, Tracked, InFlight, OnStack, TypeOK
    <3> QED
      BY <3>2, <3>3, <3>4 DEF CallInv
  <2>2. CASE ready[c]
    <3>1. /\ OnTop(src[c], c) /\ PopTop(src[c]) /\ UNCHANGED <<loop, sendlist_>>
          /\ pc[c] = "check" /\ pc' = [pc EXCEPT ![c] = "done"]
          /\ UNCHANGED <<ready, outcome>>
      BY <1>2, <2>2 DEF SendCheck, Sending, loopVars
    <3>2. src[c] # dst[c] /\ src[c] \in Thread
      BY <3>1 DEF CallInv, KindInv
    <3> QED
      BY <2>2, <3>1, <3>2, CallEnd
  <2> QED
    BY <2>1, <2>2
<1>3. CASE SendReceive(c)
  <2>a. OnTop(src[c], c) /\ src[c] \in Thread /\ pc[c] = "receive"
        /\ UNCHANGED <<loopVars, ready, waited, outcome>>
    BY <1>3 DEF SendReceive, Sending
  <2>1. CASE pc' = [pc EXCEPT ![c] = "wait"] /\ UNCHANGED <<sendlist_, before, stack>>
    <3>1. UNCHANGED <<stack, loop, ready, outcome, sendlist_>>
      BY <2>a, <2>1 DEF loopVars
    <3>2. DistinctInv' /\ OwnerInv' /\ IdleInv' /\ ListInv'
      BY <3>1 DEF CallInv, DistinctInv, OwnerInv, IdleInv, ListInv, OnStack
    <3>3. SenderInv' /\ TopInv'
      BY <2>a, <2>1, <3>1 DEF CallInv, SenderInv, TopInv, OnStack, OnTop, TypeOK
    <3>4. KindInv' /\ CallTracked'
      BY <2>a, <2>1, <3>1
      DEF CallInv, KindInv, CallTracked, Tracked, InFlight, OnStack, TypeOK
    <3> QED
      BY <3>2, <3>3, <3>4 DEF CallInv
  <2>2. CASE (\E x \in Call : Receive(src[c], {dst[c]}, x)) /\ UNCHANGED pc
    <3>1. PICK x \in Call : Receive(src[c], {dst[c]}, x)
      BY <2>2
    <3>2. \A y \in Call : OnTop(src[c], y) => pc[y] = "receive"
      BY <2>a, TopHolds DEF OnTop, TypeOK
    <3>3. loop[src[c]] \in {"sends", "task"}
      BY <2>a DEF CallInv, IdleInv, OnTop, TopIs
    <3>4. UNCHANGED <<loopVars, sendVars, outcome>>
      BY <2>a, <2>2 DEF sendVars
    <3> QED
      BY <2>a, <3>1, <3>2, <3>3, <3>4, CallReceive
  <2> QED
    BY <1>3, <2>1, <2>2 DEF SendReceive
<1>4. CASE HandlerDone(c)
  <2>1. /\ OnTop(dst[c], c) /\ PopTop(dst[c]) /\ dst[c] \in Thread
        /\ UNCHANGED <<loop, sendlist_>>
        /\ outcome' = [outcome EXCEPT ![c] = "handled"]
    BY <1>4 DEF HandlerDone, Running, loopVars
  <2>2. CASE pc[c] = "direct" /\ pc' = [pc EXCEPT ![c] = "done"] /\ UNCHANGED ready
    BY <2>1, <2>2, CallEnd
  <2>3. CASE src[c] # dst[c] /\ ready' = [ready EXCEPT ![c] = TRUE] /\ UNCHANGED pc
    BY <2>1, <2>3, CallEnd
  <2> QED
    BY <1>4, <2>2, <2>3 DEF HandlerDone, Running
<1> QED
  BY <1>1, <1>2, <1>3, <1>4 DEF SendStep

\* A step of the message loop.
LEMMA CallLoop ==
  ASSUME TypeOK, CallInv, NEW t \in Thread, LoopStep(t) \/ LoopWaitFails(t)
  PROVE  CallInv'
<1> USE SendAssumption
<1>a. stack[t] = <<>>
  BY DEF LoopStep, LoopSends, LoopPosts, LoopTaskDone, LoopQuitCheck, LoopWait,
         LoopWaitFails, AtLoop
<1>1. CASE \E x \in Call : LoopSends(t) /\ UNCHANGED loop /\ Receive(t, {}, x)
  <2>1. PICK x \in Call : LoopSends(t) /\ UNCHANGED loop /\ Receive(t, {}, x)
    BY <1>1
  <2>2. loop[t] = "sends" /\ UNCHANGED <<loopVars, sendVars, outcome>>
    BY <2>1 DEF LoopSends, AtLoop, loopVars
  <2>3. \A c \in Call : OnTop(t, c) => pc[c] = "receive"
    BY <1>a DEF OnTop, TopIs
  <2> QED
    BY <2>1, <2>2, <2>3, CallReceive
<1>2. CASE UNCHANGED <<sendlist_, stack, pc, ready, outcome>>
           /\ \A u \in Thread : u # t => loop'[u] = loop[u]
  <2>1. DistinctInv' /\ OwnerInv' /\ ListInv'
    BY <1>2 DEF CallInv, DistinctInv, OwnerInv, ListInv, OnStack
  <2>2. SenderInv' /\ TopInv'
    BY <1>2 DEF CallInv, SenderInv, TopInv, OnStack, OnTop
  <2>3. KindInv' /\ CallTracked'
    BY <1>2 DEF CallInv, KindInv, CallTracked, Tracked, InFlight, OnStack
  <2>4. IdleInv'
    BY <1>a, <1>2 DEF CallInv, IdleInv
  <2> QED
    BY <2>1, <2>2, <2>3, <2>4 DEF CallInv
<1>3. LoopSends(t) => \/ \E x \in Call : UNCHANGED loop /\ Receive(t, {}, x)
                      \/ UNCHANGED <<sendlist_, stack, pc, ready, outcome>>
                         /\ \A u \in Thread : u # t => loop'[u] = loop[u]
  BY DEF LoopSends, TypeOK, sendVars
<1>4. LoopPosts(t) \/ LoopTaskDone(t) \/ LoopQuitCheck(t) \/ LoopWait(t)
      \/ LoopWaitFails(t)
        => UNCHANGED <<sendlist_, stack, pc, ready, outcome>>
           /\ \A u \in Thread : u # t => loop'[u] = loop[u]
  BY DEF LoopPosts, LoopTaskDone, LoopQuitCheck, LoopWait, LoopWaitFails, TypeOK, sendVars
<1> QED
  BY <1>1, <1>2, <1>3, <1>4 DEF LoopStep

\* Calls are dropped by Clear or by the destructor.
LEMMA CallClear ==
  ASSUME TypeOK, CallInv, NEW t \in Thread, NEW gone \in SUBSET sendlist_[t],
         ClearSends(t, gone), UNCHANGED <<stack, pc>>,
         \A u \in Thread : loop'[u] # loop[u] => stack[u] = <<>>
  PROVE  CallInv'
<1> USE SendAssumption DEF TypeOK, OnStack, OnTop, CallInv
<1>1. /\ sendlist_' = [sendlist_ EXCEPT ![t] = @ \ gone]
      /\ ready' = [c \in Call |-> ready[c] \/ c \in gone]
      /\ outcome' = [c \in Call |-> IF c \in gone THEN "cleared" ELSE outcome[c]]
  BY DEF ClearSends
<1>2. DistinctInv' /\ OwnerInv' /\ KindInv'
  BY DEF DistinctInv, OwnerInv, KindInv
<1>3. SenderInv' /\ TopInv'
  BY DEF SenderInv, TopInv
<1>4. ListInv'
  BY <1>1 DEF ListInv
<1>5. IdleInv'
  BY DEF IdleInv
<1>6. CallTracked'
  <2>1. ASSUME NEW c \in Call, c \notin gone PROVE Tracked(c)'
    <3>1. ready'[c] = ready[c] /\ outcome'[c] = outcome[c]
          /\ (c \in sendlist_'[dst[c]] <=> c \in sendlist_[dst[c]])
      BY <1>1, <2>1
    <3> QED
      BY <3>1 DEF CallTracked, Tracked, InFlight
  <2>2. ASSUME NEW c \in Call, c \in gone PROVE Tracked(c)'
    <3>1. c \in sendlist_[dst[c]] /\ dst[c] = t /\ src[c] # dst[c]
      BY <2>2 DEF ListInv
    <3>2. ready'[c] /\ outcome'[c] = "cleared" /\ c \notin sendlist_'[dst[c]]
      BY <1>1, <2>2, <3>1
    <3>3. Tracked(c)
      BY DEF CallTracked
    <3> QED
      BY <3>1, <3>2, <3>3 DEF Tracked, InFlight
  <2> QED
    BY <2>1, <2>2 DEF CallTracked
<1> QED
  BY <1>2, <1>3, <1>4, <1>5, <1>6

\* Every step keeps every call in its place.
LEMMA CallStep == TypeOK /\ CallInv /\ [Next]_vars => CallInv'
<1> SUFFICES ASSUME TypeOK, CallInv PROVE [Next]_vars => CallInv'
  OBVIOUS
<1>1. ASSUME NEW t \in Thread, ThreadStep(t) PROVE CallInv'
  BY <1>1, CallThread, CallLoop DEF ThreadStep
<1>2. ASSUME (\E t \in Thread : Post(t) \/ Quit(t)) \/ UNCHANGED vars PROVE CallInv'
  <2>1. UNCHANGED <<sendlist_, stack, pc, ready, outcome, loop>>
    BY <1>2 DEF Post, Quit, vars, loopVars, sendVars
  <2>2. DistinctInv' /\ OwnerInv' /\ ListInv' /\ IdleInv'
    BY <2>1 DEF CallInv, DistinctInv, OwnerInv, ListInv, IdleInv, OnStack
  <2>3. SenderInv' /\ TopInv'
    BY <2>1 DEF CallInv, SenderInv, TopInv, OnStack, OnTop
  <2>4. KindInv' /\ CallTracked'
    BY <2>1 DEF CallInv, KindInv, CallTracked, Tracked, InFlight, OnStack
  <2> QED
    BY <2>2, <2>3, <2>4 DEF CallInv
<1>3. ASSUME NEW t \in Thread, NEW h \in Handler, Clear(t, h) PROVE CallInv'
  <2>1. {c \in sendlist_[t] : phandler[c] = h} \in SUBSET sendlist_[t]
    OBVIOUS
  <2> QED
    BY <1>3, <2>1, CallClear DEF Clear, loopVars
<1>4. ASSUME NEW t \in Thread, Destroy(t) PROVE CallInv'
  <2>1. \A u \in Thread : loop'[u] # loop[u] => stack[u] = <<>>
    BY <1>4 DEF Destroy, CallInv, IdleInv, TypeOK
  <2> QED
    BY <1>4, <2>1, CallClear DEF Destroy
<1> QED
  BY <1>1, <1>2, <1>3, <1>4, CallBegin, CallSend, CallLoop DEF Next

\* However calls nest, cross and are cleared, a call on its way is in exactly one
\* place: its handler runs at most once and its sender is always told.
THEOREM CallTrackedHolds == Spec => []CallTracked
<1>1. Init => CallInv
  BY CallInit
<1>2. TypeOK /\ CallInv /\ [Next]_vars => CallInv'
  BY CallStep
<1>3. CallInv => CallTracked
  BY DEF CallInv
<1> QED
  BY <1>1, <1>2, <1>3, TypeCorrect, PTL DEF Spec

-----------------------------------------------------------------------------
(* A waiting thread is re-entered only by the thread it waits for. *)

\* Steps that leave the stacks alone.
LEMMA ReenterSame ==
  ASSUME TypeOK, OnlyAwaitedReenters, UNCHANGED stack,
         \A c \in Call : pc[c] = "direct" => pc'[c] = "direct"
  PROVE  OnlyAwaitedReenters'
<1> SUFFICES ASSUME NEW t \in Thread, NEW i \in 1..(Len(stack[t]) - 1),
                    src[stack[t][i]] = t, pc'[stack[t][i]] # "direct",
                    dst[stack[t][i + 1]] = t, src[stack[t][i + 1]] # t
             PROVE  src[stack[t][i + 1]] = dst[stack[t][i]]
  BY DEF OnlyAwaitedReenters
<1>1. stack[t][i] \in Call
  BY DEF TypeOK
<1> QED
  BY <1>1 DEF OnlyAwaitedReenters

\* Steps that push a call that the innermost call admits.
LEMMA ReenterPush ==
  ASSUME TypeOK, OnlyAwaitedReenters, NEW t \in Thread, NEW x \in Call, Push(t, x),
         \A c \in Call : pc[c] = "direct" => pc'[c] = "direct",
         \A c \in Call : OnTop(t, c) /\ src[x] # t => src[x] = dst[c]
  PROVE  OnlyAwaitedReenters'
<1>1. /\ \A u \in Thread : u # t => stack'[u] = stack[u]
      /\ Len(stack[t]) \in Nat /\ Len(stack'[t]) = Len(stack[t]) + 1
      /\ \A i \in 1..Len(stack[t]) : stack'[t][i] = stack[t][i]
      /\ stack'[t][Len(stack[t]) + 1] = x
  BY PushStack DEF TypeOK
<1> SUFFICES ASSUME NEW u \in Thread, NEW i \in 1..(Len(stack'[u]) - 1),
                    src[stack'[u][i]] = u, pc'[stack'[u][i]] # "direct",
                    dst[stack'[u][i + 1]] = u, src[stack'[u][i + 1]] # u
             PROVE  src[stack'[u][i + 1]] = dst[stack'[u][i]]
  BY DEF OnlyAwaitedReenters
<1>2. CASE u # t
  <2>1. stack'[u] = stack[u] /\ stack[u][i] \in Call
    BY <1>1, <1>2 DEF TypeOK
  <2> QED
    BY <2>1 DEF OnlyAwaitedReenters
<1>3. CASE u = t /\ i < Len(stack[t])
  <2>1. /\ stack'[u][i] = stack[u][i] /\ stack'[u][i + 1] = stack[u][i + 1]
        /\ i \in 1..(Len(stack[u]) - 1)
    BY <1>1, <1>3
  <2>2. stack[u][i] \in Call
    BY <1>1, <1>3 DEF TypeOK
  <2> QED
    BY <2>1, <2>2 DEF OnlyAwaitedReenters
<1>4. CASE u = t /\ i = Len(stack[t])
  <2>1. stack'[u][i] = stack[u][i] /\ stack'[u][i + 1] = x
    BY <1>1, <1>4
  <2>2. stack[u][i] \in Call /\ stack[u] # <<>>
    BY <1>1, <1>4 DEF TypeOK
  <2>3. OnTop(t, stack[u][i])
    BY <1>4, <2>2 DEF OnTop, TopIs
  <2> QED
    BY <1>4, <2>1, <2>2, <2>3
<1> QED
  BY <1>1, <1>2, <1>3, <1>4

\* Steps that pop the innermost call.
LEMMA ReenterPop ==
  ASSUME TypeOK, CallInv, OnlyAwaitedReenters, NEW t \in Thread, NEW c \in Call,
         OnTop(t, c), PopTop(t), pc[c] = "direct" => t = src[c],
         \A y \in Call : y # c /\ pc[y] = "direct" => pc'[y] = "direct"
  PROVE  OnlyAwaitedReenters'
<1>1. /\ \A u \in Thread : u # t => stack'[u] = stack[u]
      /\ Len(stack[t]) \in Nat \ {0} /\ Len(stack'[t]) = Len(stack[t]) - 1
      /\ \A i \in 1..(Len(stack[t]) - 1) : stack'[t][i] = stack[t][i]
  BY PopStack DEF TypeOK, OnTop, TopIs
<1> SUFFICES ASSUME NEW u \in Thread, NEW i \in 1..(Len(stack'[u]) - 1),
                    src[stack'[u][i]] = u, pc'[stack'[u][i]] # "direct",
                    dst[stack'[u][i + 1]] = u, src[stack'[u][i + 1]] # u
             PROVE  src[stack'[u][i + 1]] = dst[stack'[u][i]]
  BY DEF OnlyAwaitedReenters
<1>2. /\ stack'[u][i] = stack[u][i] /\ stack'[u][i + 1] = stack[u][i + 1]
      /\ i \in 1..(Len(stack[u]) - 1)
  <2>1. CASE u # t
    BY <1>1, <2>1
  <2>2. CASE u = t
    BY <1>1, <2>2
  <2> QED
    BY <2>1, <2>2
<1>3. stack[u][i] \in Call
  BY <1>2 DEF TypeOK
<1>4. pc[stack[u][i]] # "direct"
  <2>1. CASE stack[u][i] # c
    BY <1>2, <1>3, <2>1
  <2>2. CASE stack[u][i] = c /\ u = t
    <3>1. stack[t][Len(stack[t])] = c /\ Len(stack[t]) \in 1..Len(stack[t])
      BY <1>1 DEF OnTop, TopIs
    <3>2. i = Len(stack[t])
      BY <1>2, <2>2, <3>1 DEF CallInv, DistinctInv, Distinct
    <3> QED
      BY <1>1, <1>2, <2>2, <3>2
  <2>3. CASE stack[u][i] = c /\ u # t
    BY <1>2, <2>3
  <2> QED
    BY <2>1, <2>2, <2>3
<1> QED
  BY <1>2, <1>4 DEF OnlyAwaitedReenters

\* Every step keeps the threads from being re-entered by others.
LEMMA ReenterStep ==
  TypeOK /\ CallInv /\ OnlyAwaitedReenters /\ [Next]_vars => OnlyAwaitedReenters'
<1> SUFFICES ASSUME TypeOK, CallInv, OnlyAwaitedReenters
             PROVE  [Next]_vars => OnlyAwaitedReenters'
  OBVIOUS
<1> USE SendAssumption
<1>1. ASSUME NEW c \in Call, SendBegin(c) PROVE OnlyAwaitedReenters'
  <2>1. \A y \in Call : pc[y] = "direct" => pc'[y] = "direct"
    BY <1>1 DEF SendBegin, TypeOK
  <2>2. UNCHANGED stack \/ Push(src[c], c)
    BY <1>1 DEF SendBegin
  <2> QED
    BY <2>1, <2>2, ReenterSame, ReenterPush
<1>2. ASSUME NEW c \in Call,
             SendEnqueue(c) \/ SendWake(c) \/ SendWait(c) \/ SendWaitFails(c)
      PROVE  OnlyAwaitedReenters'
  <2>1. \A y \in Call : pc[y] = "direct" => pc'[y] = "direct"
    BY <1>2 DEF SendEnqueue, SendWake, SendWait, SendWaitFails, TypeOK
  <2> QED
    BY <1>2, <2>1, ReenterSame DEF SendEnqueue, SendWake, SendWait, SendWaitFails
<1>3. ASSUME NEW c \in Call, SendCheck(c) PROVE OnlyAwaitedReenters'
  <2>1. \A y \in Call : pc[y] = "direct" => pc'[y] = "direct"
    BY <1>3 DEF SendCheck, TypeOK
  <2>2. UNCHANGED stack \/ (PopTop(src[c]) /\ OnTop(src[c], c))
    BY <1>3 DEF SendCheck, Sending
  <2> QED
    BY <2>1, <2>2, ReenterSame, ReenterPop
<1>4. ASSUME NEW c \in Call, SendReceive(c) PROVE OnlyAwaitedReenters'
  <2>1. \A y \in Call : pc[y] = "direct" => pc'[y] = "direct"
    BY <1>4 DEF SendReceive, TypeOK
  <2>2. CASE UNCHANGED stack
    BY <2>1, <2>2, ReenterSame
  <2>3. CASE \E x \in Call : Receive(src[c], {dst[c]}, x)
    <3>1. PICK x \in Call : Receive(src[c], {dst[c]}, x)
      BY <2>3
    <3>2. src[x] = dst[c] /\ Push(src[c], x)
      BY <3>1 DEF Receive, Admitted
    <3>3. \A y \in Call : OnTop(src[c], y) => y = c
      BY <1>4, TopHolds DEF SendReceive, Sending, OnTop, TypeOK
    <3> QED
      BY <2>1, <3>2, <3>3, ReenterPush
  <2> QED
    BY <1>4, <2>2, <2>3 DEF SendReceive
<1>5. ASSUME NEW c \in Call, HandlerDone(c) PROVE OnlyAwaitedReenters'
  <2>1. \A y \in Call : y # c /\ pc[y] = "direct" => pc'[y] = "direct"
    BY <1>5 DEF HandlerDone, TypeOK
  <2>2. PopTop(dst[c]) /\ OnTop(dst[c], c)
    BY <1>5 DEF HandlerDone, Running
  <2>3. pc[c] = "direct" => dst[c] = src[c]
    BY DEF CallInv, KindInv
  <2> QED
    BY <2>1, <2>2, <2>3, ReenterPop
<1>6. ASSUME NEW t \in Thread, LoopStep(t) PROVE OnlyAwaitedReenters'
  <2>1. UNCHANGED pc
    BY <1>6 DEF LoopStep, LoopSends, LoopPosts, LoopTaskDone, LoopQuitCheck, LoopWait,
                sendVars
  <2>2. stack[t] = <<>>
    BY <1>6 DEF LoopStep, LoopSends, LoopPosts, LoopTaskDone, LoopQuitCheck, LoopWait,
                AtLoop
  <2>3. UNCHANGED stack \/ \E x \in Call : Push(t, x)
    BY <1>6 DEF LoopStep, LoopSends, LoopPosts, LoopTaskDone, LoopQuitCheck, LoopWait,
                Receive
  <2>4. \A y \in Call : ~OnTop(t, y)
    BY <2>2 DEF OnTop, TopIs
  <2> QED
    BY <2>1, <2>3, <2>4, ReenterSame, ReenterPush
<1>7. ASSUME UNCHANGED <<stack, pc>> PROVE OnlyAwaitedReenters'
  BY <1>7, ReenterSame
<1>8. ASSUME NEW t \in Thread, LoopWaitFails(t) \/ Post(t) \/ Quit(t) \/ Destroy(t)
      PROVE  UNCHANGED <<stack, pc>>
  BY <1>8 DEF LoopWaitFails, Post, Quit, Destroy, sendVars
<1>9. ASSUME NEW t \in Thread, NEW h \in Handler, Clear(t, h)
      PROVE  UNCHANGED <<stack, pc>>
  BY <1>9 DEF Clear
<1>10. ASSUME UNCHANGED vars PROVE UNCHANGED <<stack, pc>>
  BY <1>10 DEF vars, sendVars
<1> QED
  BY <1>1, <1>2, <1>3, <1>4, <1>5, <1>6, <1>7, <1>8, <1>9, <1>10
  DEF Next, ThreadStep, SendStep

\* While a thread waits for a call, only the thread it waits for can run calls on
\* it, whatever the other threads do.
THEOREM OnlyAwaitedReentersHolds == Spec => []OnlyAwaitedReenters
<1>1. Init => OnlyAwaitedReenters
  BY DEF Init, OnlyAwaitedReenters
<1>2. TypeOK /\ CallInv /\ OnlyAwaitedReenters /\ [Next]_vars => OnlyAwaitedReenters'
  BY ReenterStep
<1>3. Init => CallInv
  BY CallInit
<1>4. TypeOK /\ CallInv /\ [Next]_vars => CallInv'
  BY CallStep
<1> QED
  BY <1>1, <1>2, <1>3, <1>4, TypeCorrect, PTL DEF Spec

-----------------------------------------------------------------------------
(* No wake-up is lost. *)

\* x is on the stack s above c.
Above(s, c, x) == \E i, j \in 1..Len(s) : i < j /\ s[i] = c /\ s[j] = x

\* The wake-up that tells c's sender that c is over is either still there or was
\* consumed by a nested Send, which will repeat it when it returns.
Owed(c) ==
  \/ signaled[src[c]]
  \/ \E x \in Call : /\ src[x] = src[c] /\ InFlight(x) /\ waited[x]
                      /\ Above(stack[src[c]], c, x)

OwedInv == \A c \in Call : pc[c] \in {"receive", "wait"} /\ ready[c] => Owed(c)

\* A sender that waits unsignaled has no call of the thread it waits for, save one
\* whose sender is about to wake it.
AdmitInv ==
  \A c \in Call : pc[c] = "wait" /\ ~signaled[src[c]] =>
    \A x \in sendlist_[src[c]] : src[x] = dst[c] => pc[x] = "wake"

\* A loop that has passed a check and is not signaled would pass it again.
LoopInv ==
  \A t \in Thread : ~signaled[t] =>
    /\ loop[t] \in {"posts", "quitcheck", "wait"} => \A x \in sendlist_[t] : pc[x] = "wake"
    /\ loop[t] \in {"quitcheck", "wait"} => posts[t] = 0
    /\ loop[t] = "wait" => ~stop_[t]

WakeInv == OwedInv /\ AdmitInv /\ LoopInv

\* What is above what when a call is pushed.
LEMMA PushAbove ==
  ASSUME NEW t \in Thread, NEW c \in Call, stack \in [Thread -> Seq(Call)], Push(t, c)
  PROVE  \A u \in Thread, x, y \in Call : Above(stack[u], x, y) => Above(stack'[u], x, y)
<1>1. /\ \A u \in Thread : u # t => stack'[u] = stack[u]
      /\ Len(stack[t]) \in Nat /\ Len(stack'[t]) = Len(stack[t]) + 1
      /\ \A i \in 1..Len(stack[t]) : stack'[t][i] = stack[t][i]
  BY PushStack
<1> SUFFICES ASSUME NEW u \in Thread, NEW x \in Call, NEW y \in Call,
                    Above(stack[u], x, y)
             PROVE  Above(stack'[u], x, y)
  OBVIOUS
<1>2. CASE u # t
  BY <1>1, <1>2
<1>3. CASE u = t
  BY <1>1, <1>3 DEF Above
<1> QED
  BY <1>2, <1>3

\* What is above what when a call is popped.
LEMMA PopAbove ==
  ASSUME NEW t \in Thread, NEW c \in Call, stack \in [Thread -> Seq(Call)],
         TopIs(stack[t], c), PopTop(t)
  PROVE  \A u \in Thread, x, y \in Call :
           Above(stack[u], x, y) /\ ~(u = t /\ y = c) => Above(stack'[u], x, y)
<1>1. /\ \A u \in Thread : u # t => stack'[u] = stack[u]
      /\ Len(stack[t]) \in Nat \ {0} /\ Len(stack'[t]) = Len(stack[t]) - 1
      /\ \A i \in 1..(Len(stack[t]) - 1) : stack'[t][i] = stack[t][i]
  BY PopStack DEF TopIs
<1> SUFFICES ASSUME NEW u \in Thread, NEW x \in Call, NEW y \in Call,
                    Above(stack[u], x, y), ~(u = t /\ y = c)
             PROVE  Above(stack'[u], x, y)
  OBVIOUS
<1>2. CASE u # t
  BY <1>1, <1>2
<1>3. CASE u = t
  <2>1. PICK i, j \in 1..Len(stack[t]) : i < j /\ stack[t][i] = x /\ stack[t][j] = y
    BY <1>3 DEF Above
  <2>2. j # Len(stack[t])
    BY <1>3, <2>1 DEF TopIs
  <2>3. i \in 1..(Len(stack[t]) - 1) /\ j \in 1..(Len(stack[t]) - 1)
    BY <1>1, <2>1, <2>2
  <2> QED
    BY <1>1, <1>3, <2>1, <2>3 DEF Above
<1> QED
  BY <1>2, <1>3

\* The top of a stack is above everything else on it and nothing is above it.
LEMMA TopAbove ==
  ASSUME NEW t \in Thread, NEW c \in Call, stack \in [Thread -> Seq(Call)],
         TopIs(stack[t], c), Distinct(stack[t])
  PROVE  /\ \A x \in Call : Holds(stack[t], x) /\ x # c => Above(stack[t], x, c)
         /\ \A x \in Call : ~Above(stack[t], c, x)
<1>1. Len(stack[t]) \in Nat \ {0} /\ stack[t][Len(stack[t])] = c
  BY EmptySeq DEF TopIs
<1>2. ASSUME NEW x \in Call, Holds(stack[t], x), x # c PROVE Above(stack[t], x, c)
  <2>1. PICK i \in 1..Len(stack[t]) : stack[t][i] = x
    BY <1>2 DEF Holds
  <2>2. i < Len(stack[t])
    BY <1>1, <1>2, <2>1
  <2> QED
    BY <1>1, <2>1, <2>2 DEF Above
<1>3. ASSUME NEW x \in Call PROVE ~Above(stack[t], c, x)
  BY <1>1 DEF Above, Distinct
<1> QED
  BY <1>2, <1>3

\* Initially no thread waits.
LEMMA WakeInit == Init => WakeInv
  BY SendAssumption DEF Init, WakeInv, OwedInv, AdmitInv, LoopInv

\* A step that takes no signal, ends no wait and only adds to the stacks.
LEMMA OwedKept ==
  ASSUME TypeOK, OwedInv, NEW c \in Call, pc[c] \in {"receive", "wait"}, ready[c],
         signaled[src[c]] => signaled'[src[c]],
         \A x \in Call : src[x] = src[c] /\ InFlight(x) /\ waited[x]
                           /\ Above(stack[src[c]], c, x)
                         => \/ signaled'[src[c]]
                            \/ InFlight(x)' /\ waited'[x]
                               /\ Above(stack'[src[c]], c, x)
  PROVE  Owed(c)'
  BY DEF OwedInv, Owed

\* Every step keeps the wake-ups that are owed.
LEMMA OwedStep == TypeOK /\ CallInv /\ OwedInv /\ [Next]_vars => OwedInv'
<1> SUFFICES ASSUME TypeOK, CallInv, OwedInv, NEW c \in Call,
                    pc'[c] \in {"receive", "wait"}, ready'[c]
             PROVE  [Next]_vars => Owed(c)'
  BY DEF OwedInv
<1> USE SendAssumption
<1>1. ASSUME NEW b \in Call, SendBegin(b) PROVE Owed(c)'
  <2>1. pc[b] = "new" /\ pc'[b] \in {"done", "direct", "enqueue"}
        /\ (\A x \in Call : x # b => pc'[x] = pc[x])
        /\ UNCHANGED <<signaled, ready, waited>>
    BY <1>1 DEF SendBegin, TypeOK
  <2>2. UNCHANGED stack \/ Push(src[b], b)
    BY <1>1 DEF SendBegin
  <2>3. \A x \in Call : Above(stack[src[c]], c, x) => Above(stack'[src[c]], c, x)
    BY <2>2, PushAbove DEF TypeOK
  <2> QED
    BY <2>1, <2>3, OwedKept DEF InFlight
<1>2. ASSUME NEW b \in Call, SendEnqueue(b) \/ SendWake(b) PROVE Owed(c)'
  <2>1. /\ pc[b] \in {"enqueue", "wake"} /\ pc'[b] \in {"wake", "check"}
        /\ \A x \in Call : x # b => pc'[x] = pc[x]
        /\ UNCHANGED <<ready, waited, stack>>
    BY <1>2 DEF SendEnqueue, SendWake, TypeOK
  <2>2. \A t \in Thread : signaled[t] => signaled'[t]
    BY <1>2 DEF SendEnqueue, SendWake, TypeOK
  <2> QED
    BY <2>1, <2>2, OwedKept DEF InFlight
<1>3. ASSUME NEW b \in Call, SendCheck(b), ~ready[b] PROVE Owed(c)'
  <2>1. /\ pc[b] = "check" /\ pc'[b] = "receive"
        /\ \A x \in Call : x # b => pc'[x] = pc[x]
        /\ UNCHANGED <<ready, waited, stack, signaled>>
    BY <1>3 DEF SendCheck, TypeOK
  <2> QED
    BY <1>3, <2>1, OwedKept DEF InFlight
<1>4. ASSUME NEW b \in Call, SendCheck(b), ready[b] PROVE Owed(c)'
  <2>1. /\ pc[b] = "check" /\ pc'[b] = "done"
        /\ \A x \in Call : x # b => pc'[x] = pc[x]
        /\ UNCHANGED <<ready, waited>>
    BY <1>4 DEF SendCheck, TypeOK
  <2>2. PopTop(src[b]) /\ TopIs(stack[src[b]], b)
    BY <1>4 DEF SendCheck, Sending, OnTop
  <2>3. /\ \A t \in Thread : signaled[t] => signaled'[t]
        /\ waited[b] => signaled'[src[b]]
    <3>1. signaled' = [signaled EXCEPT ![src[b]] = @ \/ waited[b]]
      BY <1>4, Zenon DEF SendCheck, WakeAgain
    <3>2. signaled \in [Thread -> BOOLEAN] /\ src[b] \in Thread
      BY DEF TypeOK
    <3> QED
      BY <3>1, <3>2, Zenon
  <2>4. \A u \in Thread, x, y \in Call :
           Above(stack[u], x, y) /\ ~(u = src[b] /\ y = b) => Above(stack'[u], x, y)
    BY <2>2, PopAbove DEF TypeOK
  <2> QED
    BY <2>1, <2>3, <2>4, OwedKept DEF InFlight
<1>5. ASSUME NEW b \in Call, SendReceive(b) PROVE Owed(c)'
  <2>1. /\ pc[b] = "receive" /\ pc'[b] \in {"receive", "wait"}
        /\ \A x \in Call : x # b => pc'[x] = pc[x]
        /\ UNCHANGED <<ready, waited, signaled>>
    BY <1>5 DEF SendReceive, TypeOK
  <2>2. UNCHANGED stack \/ \E x \in Call : Push(src[b], x)
    BY <1>5 DEF SendReceive, Receive
  <2>3. \A x \in Call : Above(stack[src[c]], c, x) => Above(stack'[src[c]], c, x)
    BY <2>2, PushAbove DEF TypeOK
  <2> QED
    BY <2>1, <2>3, OwedKept DEF InFlight
<1>6. ASSUME NEW b \in Call, SendWait(b) \/ SendWaitFails(b) PROVE Owed(c)'
  <2>0. /\ pc[b] = "wait" /\ pc' = [pc EXCEPT ![b] = "check"]
        /\ waited' = [waited EXCEPT ![b] = TRUE]
        /\ UNCHANGED <<ready, stack>> /\ TopIs(stack[src[b]], b)
        /\ signaled' = signaled \/ signaled' = [signaled EXCEPT ![src[b]] = FALSE]
    BY <1>6, Zenon DEF SendWait, SendWaitFails, Sending, OnTop
  <2>1. /\ pc[b] = "wait" /\ pc'[b] = "check" /\ waited'[b]
        /\ \A x \in Call : x # b => pc'[x] = pc[x] /\ waited'[x] = waited[x]
        /\ UNCHANGED <<ready, stack>> /\ TopIs(stack[src[b]], b)
        /\ \A t \in Thread : t # src[b] => signaled'[t] = signaled[t]
    BY <2>0 DEF TypeOK
  <2>2. c # b /\ InFlight(b)' /\ pc[c] \in {"receive", "wait"} /\ ready[c]
    BY <2>1 DEF InFlight
  <2>3. CASE src[c] = src[b]
    <3>1. Holds(stack[src[c]], c)
      BY <2>2 DEF CallInv, SenderInv, OnStack
    <3>2. Above(stack'[src[c]], c, b)
      BY <2>1, <2>2, <2>3, <3>1, TopAbove DEF CallInv, DistinctInv, TypeOK
    <3> QED
      BY <2>1, <2>2, <2>3, <3>2 DEF Owed
  <2>4. CASE src[c] # src[b]
    BY <2>1, <2>2, <2>4, OwedKept DEF InFlight
  <2> QED
    BY <2>3, <2>4
<1>7. ASSUME NEW b \in Call, HandlerDone(b) PROVE Owed(c)'
  <2>1. /\ \A x \in Call : x # b => pc'[x] = pc[x] /\ ready'[x] = ready[x]
        /\ pc[b] = "direct" => pc'[b] = "done" /\ UNCHANGED <<ready, signaled>>
        /\ pc[b] # "direct" => UNCHANGED pc /\ signaled'[src[b]]
        /\ UNCHANGED waited /\ TopIs(stack[dst[b]], b) /\ PopTop(dst[b])
    BY <1>7 DEF HandlerDone, Running, OnTop, TypeOK
  <2>2. \A t \in Thread : signaled[t] => signaled'[t]
    BY <1>7 DEF HandlerDone, TypeOK
  <2>3. CASE c = b
    BY <2>1, <2>3 DEF Owed
  <2>4. CASE c # b
    <3>1. \A u \in Thread, x, y \in Call :
             Above(stack[u], x, y) /\ ~(u = dst[b] /\ y = b) => Above(stack'[u], x, y)
      <4>1. stack \in [Thread -> Seq(Call)] /\ dst[b] \in Thread
        BY DEF TypeOK
      <4> QED
        BY <2>1, <4>1, PopAbove
    <3>2. \A x \in Call : src[x] = src[c] /\ InFlight(x) => ~(src[c] = dst[b] /\ x = b)
      BY DEF CallInv, KindInv, InFlight
    <3>3. \A x \in Call : InFlight(x) => InFlight(x)'
      BY <2>1 DEF InFlight
    <3> QED
      BY <2>1, <2>2, <2>4, <3>1, <3>2, <3>3, OwedKept
  <2> QED
    BY <2>3, <2>4
<1>8. ASSUME NEW t \in Thread, LoopStep(t) \/ LoopWaitFails(t) PROVE Owed(c)'
  <2>1. UNCHANGED <<pc, ready, waited>>
    BY <1>8 DEF LoopStep, LoopSends, LoopPosts, LoopTaskDone, LoopQuitCheck, LoopWait,
                LoopWaitFails, sendVars
  <2>2. stack[t] = <<>>
    BY <1>8 DEF LoopStep, LoopSends, LoopPosts, LoopTaskDone, LoopQuitCheck, LoopWait,
                LoopWaitFails, AtLoop
  <2>3. UNCHANGED stack \/ \E x \in Call : Push(t, x)
    BY <1>8 DEF LoopStep, LoopSends, LoopPosts, LoopTaskDone, LoopQuitCheck, LoopWait,
                LoopWaitFails, Receive
  <2>4. \A x \in Call : Above(stack[src[c]], c, x) => Above(stack'[src[c]], c, x)
    BY <2>3, PushAbove DEF TypeOK
  <2>5. \A u \in Thread : u # t => signaled'[u] = signaled[u]
    BY <1>8 DEF LoopStep, LoopSends, LoopPosts, LoopTaskDone, LoopQuitCheck, LoopWait,
                LoopWaitFails, TypeOK
  <2>6. src[c] # t
    <3>1. Holds(stack[src[c]], c)
      BY <2>1 DEF CallInv, SenderInv, OnStack
    <3>2. ~Holds(<<>>, c)
      BY DEF Holds
    <3> QED
      BY <2>2, <3>1, <3>2
  <2> QED
    BY <2>1, <2>4, <2>5, <2>6, OwedKept DEF InFlight
<1>9. ASSUME NEW t \in Thread, NEW gone \in SUBSET sendlist_[t], ClearSends(t, gone),
             UNCHANGED <<stack, pc, waited>>
      PROVE  Owed(c)'
  <2>1. /\ \A u \in Thread : signaled[u] => signaled'[u]
        /\ c \in gone => signaled'[src[c]]
        /\ c \notin gone => ready[c]
    BY <1>9 DEF ClearSends, TypeOK
  <2>2. CASE c \in gone
    BY <2>1, <2>2 DEF Owed
  <2>3. CASE c \notin gone
    BY <1>9, <2>1, <2>3, OwedKept DEF InFlight
  <2> QED
    BY <2>2, <2>3
<1>10. ASSUME NEW t \in Thread, NEW h \in Handler, Clear(t, h) PROVE Owed(c)'
  <2>1. {x \in sendlist_[t] : phandler[x] = h} \in SUBSET sendlist_[t]
    OBVIOUS
  <2> QED
    BY <1>9, <1>10, <2>1 DEF Clear
<1>11. ASSUME NEW t \in Thread, Destroy(t) PROVE Owed(c)'
  BY <1>9, <1>11 DEF Destroy
<1>12. ASSUME (\E t \in Thread : Post(t) \/ Quit(t)) \/ UNCHANGED vars PROVE Owed(c)'
  <2>1. UNCHANGED <<stack, pc, ready, waited>>
    BY <1>12 DEF Post, Quit, vars, sendVars
  <2>2. \A u \in Thread : signaled[u] => signaled'[u]
    <3>1. \/ signaled' = signaled
          \/ \E u \in Thread : signaled' = [signaled EXCEPT ![u] = TRUE]
      BY <1>12, Zenon DEF Post, Quit, vars
    <3> QED
      BY <3>1 DEF TypeOK
  <2> QED
    BY <2>1, <2>2, OwedKept DEF InFlight
<1> QED
  BY <1>1, <1>2, <1>3, <1>4, <1>5, <1>6, <1>7, <1>8, <1>10, <1>11, <1>12
  DEF Next, ThreadStep, SendStep

\* Receiving a call adds nothing to a list.
LEMMA ReceiveShrinks ==
  ASSUME TypeOK, NEW u \in Thread, NEW source, NEW y \in Call, Receive(u, source, y)
  PROVE  \A t \in Thread : sendlist_'[t] \subseteq sendlist_[t]
  BY DEF Receive, Erase, TypeOK

\* A call that appears in a list, or whose sender passes the wake-up, comes with a
\* signal to the receiver.
LEMMA ListSignals ==
  ASSUME TypeOK, CallInv, [Next]_vars, NEW t \in Thread, NEW x \in Call,
         x \in sendlist_'[t], pc'[x] # "wake", ~signaled'[t]
  PROVE  x \in sendlist_[t] /\ pc[x] # "wake"
<1> USE SendAssumption DEF TypeOK
<1> DEFINE Goal == x \in sendlist_[t] /\ pc[x] # "wake"
<1>1. ASSUME NEW b \in Call, SendBegin(b) PROVE Goal
  <2>1. UNCHANGED sendlist_ /\ pc[b] = "new" /\ \A y \in Call : y # b => pc'[y] = pc[y]
    BY <1>1 DEF SendBegin
  <2> QED
    BY <2>1
<1>2. ASSUME NEW b \in Call, SendEnqueue(b) PROVE Goal
  BY <1>2 DEF SendEnqueue
<1>3. ASSUME NEW b \in Call, SendWake(b) PROVE Goal
  <2>1. UNCHANGED sendlist_ /\ signaled'[dst[b]] /\ \A y \in Call : y # b => pc'[y] = pc[y]
    BY <1>3 DEF SendWake
  <2>2. dst[x] = t
    BY <2>1 DEF CallInv, ListInv
  <2> QED
    BY <2>1, <2>2
<1>4. ASSUME NEW b \in Call, SendCheck(b) \/ SendWait(b) \/ SendWaitFails(b) PROVE Goal
  <2>1. UNCHANGED sendlist_ /\ pc[b] \in {"check", "wait"}
        /\ \A y \in Call : y # b => pc'[y] = pc[y]
    <3>1. /\ UNCHANGED sendlist_ /\ pc[b] \in {"check", "wait"}
          /\ \E v : pc' = [pc EXCEPT ![b] = v]
      BY <1>4, Zenon DEF SendCheck, SendWait, SendWaitFails
    <3>2. DOMAIN pc = Call
      OBVIOUS
    <3> QED
      BY <3>1, <3>2, ElsewhereSame
  <2> QED
    BY <2>1
<1>5. ASSUME NEW b \in Call, SendReceive(b) PROVE Goal
  <2>1. pc[b] = "receive" /\ \A y \in Call : y # b => pc'[y] = pc[y]
    BY <1>5 DEF SendReceive
  <2>2. UNCHANGED sendlist_ \/ \E y \in Call : Receive(src[b], {dst[b]}, y)
    BY <1>5 DEF SendReceive
  <2>3. x \in sendlist_[t]
    BY <2>2, ReceiveShrinks
  <2> QED
    BY <2>1, <2>3
<1>6. ASSUME NEW b \in Call, HandlerDone(b) PROVE Goal
  <2>1. UNCHANGED sendlist_ /\ (pc'[b] = pc[b] \/ pc[b] = "direct")
        /\ \A y \in Call : y # b => pc'[y] = pc[y]
    BY <1>6 DEF HandlerDone
  <2> QED
    BY <2>1
<1>7. ASSUME NEW u \in Thread, LoopStep(u) PROVE Goal
  <2>1. UNCHANGED pc
    BY <1>7 DEF LoopStep, LoopSends, LoopPosts, LoopTaskDone, LoopQuitCheck, LoopWait,
                sendVars
  <2>2. CASE LoopSends(u)
    <3>1. UNCHANGED sendlist_ \/ \E y \in Call : Receive(u, {}, y)
      BY <2>2 DEF LoopSends
    <3> QED
      BY <2>1, <3>1, ReceiveShrinks
  <2>3. CASE ~LoopSends(u)
    BY <1>7, <2>1, <2>3 DEF LoopStep, LoopPosts, LoopTaskDone, LoopQuitCheck, LoopWait
  <2> QED
    BY <2>2, <2>3
<1>8. ASSUME NEW u \in Thread, NEW h \in Handler, Clear(u, h) PROVE Goal
  BY <1>8 DEF Clear, ClearSends
<1>9. ASSUME NEW u \in Thread, Destroy(u) PROVE Goal
  BY <1>9 DEF Destroy, ClearSends
<1>10. ASSUME (\E u \in Thread : LoopWaitFails(u) \/ Post(u) \/ Quit(u)) \/ UNCHANGED vars
       PROVE  Goal
  BY <1>10 DEF LoopWaitFails, Post, Quit, vars, sendVars
<1> QED
  BY <1>1, <1>2, <1>3, <1>4, <1>5, <1>6, <1>7, <1>8, <1>9, <1>10
  DEF Next, ThreadStep, SendStep

\* Only the waits of a thread consume its signal.
LEMMA SignalConsumed ==
  ASSUME TypeOK, [Next]_vars, NEW t \in Thread, signaled[t], ~signaled'[t]
  PROVE  LoopWait(t) \/ \E b \in Call : src[b] = t /\ SendWait(b)
<1> USE SendAssumption DEF TypeOK
<1>1. ASSUME NEW b \in Call, SendBegin(b) \/ SendEnqueue(b) \/ SendWake(b)
                              \/ SendReceive(b) \/ SendWaitFails(b) \/ HandlerDone(b)
      PROVE  FALSE
  <2>1. CASE SendBegin(b) \/ SendEnqueue(b) \/ SendReceive(b) \/ SendWaitFails(b)
    BY <2>1, Zenon DEF SendBegin, SendEnqueue, SendReceive, SendWaitFails
  <2>2. CASE SendWake(b)
    <3>1. signaled' = [signaled EXCEPT ![dst[b]] = TRUE]
      BY <2>2, Zenon DEF SendWake
    <3> QED
      BY <3>1
  <2>3. CASE HandlerDone(b)
    <3>1. signaled' = signaled \/ signaled' = [signaled EXCEPT ![src[b]] = TRUE]
      BY <2>3, Zenon DEF HandlerDone
    <3> QED
      BY <3>1
  <2> QED
    BY <1>1, <2>1, <2>2, <2>3
<1>2. ASSUME NEW b \in Call, SendCheck(b) PROVE FALSE
  <2>1. \/ signaled' = signaled
        \/ signaled' = [signaled EXCEPT ![src[b]] = @ \/ waited[b]]
    BY <1>2, Zenon DEF SendCheck, WakeAgain
  <2>2. signaled \in [Thread -> BOOLEAN]
    OBVIOUS
  <2>3. signaled'[t] = signaled[t] \/ signaled'[t] = (signaled[t] \/ waited[b])
    BY <2>1, <2>2, Zenon
  <2> QED
    BY <2>3, Zenon
<1>3. ASSUME NEW b \in Call, SendWait(b) PROVE src[b] = t
  <2>1. signaled' = [signaled EXCEPT ![src[b]] = FALSE]
    BY <1>3, Zenon DEF SendWait
  <2> QED
    BY <2>1
<1>4. ASSUME NEW u \in Thread, LoopStep(u) PROVE LoopWait(t)
  <2>1. LoopWait(u)
    BY <1>4, Zenon DEF LoopStep, LoopSends, LoopPosts, LoopTaskDone, LoopQuitCheck
  <2>2. signaled' = [signaled EXCEPT ![u] = FALSE]
    BY <2>1, Zenon DEF LoopWait
  <2>3. u = t
    BY <2>2
  <2> QED
    BY <2>1, <2>3
<1>5. ASSUME NEW u \in Thread, NEW h \in Handler, Clear(u, h) PROVE FALSE
  <2>1. signaled'[t] = (signaled[t] \/ \E c \in sendlist_[u] :
                                           phandler[c] = h /\ t = src[c])
    BY <1>5 DEF Clear, ClearSends
  <2> QED
    BY <2>1
<1>6. ASSUME NEW u \in Thread, Destroy(u) PROVE FALSE
  <2>1. signaled'[t] = (signaled[t] \/ \E c \in sendlist_[u] : t = src[c])
    BY <1>6 DEF Destroy, ClearSends
  <2> QED
    BY <2>1
<1>7. ASSUME (\E u \in Thread : LoopWaitFails(u) \/ Post(u) \/ Quit(u)) \/ UNCHANGED vars
      PROVE  FALSE
  <2>1. \/ signaled' = signaled
        \/ \E u \in Thread : signaled' = [signaled EXCEPT ![u] = TRUE]
    BY <1>7, Zenon DEF LoopWaitFails, Post, Quit, vars
  <2> QED
    BY <2>1
<1> QED
  BY <1>1, <1>2, <1>3, <1>4, <1>5, <1>6, <1>7 DEF Next, ThreadStep, SendStep

\* Every step leaves no waiting sender with a call it should serve.
LEMMA AdmitStep == TypeOK /\ CallInv /\ AdmitInv /\ [Next]_vars => AdmitInv'
<1> SUFFICES ASSUME TypeOK, CallInv, AdmitInv, [Next]_vars,
                    NEW c \in Call, pc'[c] = "wait", ~signaled'[src[c]],
                    NEW x \in sendlist_'[src[c]], src[x] = dst[c], pc'[x] # "wake"
             PROVE  FALSE
  BY DEF AdmitInv
<1> USE SendAssumption
<1>a. x \in Call /\ src[c] \in Thread
  BY TypeStep DEF TypeOK
<1>b. x \in sendlist_[src[c]] /\ pc[x] # "wake"
  BY <1>a, ListSignals
<1>1. CASE pc[c] = "wait"
  <2>1. signaled[src[c]] /\ TopIs(stack[src[c]], c)
    BY <1>b, <1>1 DEF AdmitInv, CallInv, TopInv, OnTop
  <2>2. ~LoopWait(src[c])
    BY <2>1 DEF LoopWait, AtLoop, TopIs
  <2>3. ASSUME NEW b \in Call, src[b] = src[c], SendWait(b) PROVE FALSE
    <3>1. b = c
      BY <1>a, <2>1, <2>3, TopHolds DEF SendWait, Sending, OnTop, TypeOK
    <3> QED
      BY <2>3, <3>1 DEF SendWait, TypeOK
  <2> QED
    BY <1>a, <2>1, <2>2, <2>3, SignalConsumed
<1>2. CASE pc[c] # "wait"
  <2>1. SendReceive(c)
    <3>1. ASSUME NEW b \in Call, SendBegin(b) \/ SendEnqueue(b) \/ SendWake(b)
                                \/ SendWait(b) \/ SendWaitFails(b) \/ SendCheck(b)
                                \/ HandlerDone(b)
          PROVE  FALSE
      <4>1. \/ pc' = pc
            \/ \E v \in {"done", "direct", "enqueue", "wake", "check", "receive"} :
                 pc' = [pc EXCEPT ![b] = v]
        BY <3>1, Zenon DEF SendBegin, SendEnqueue, SendWake, SendWait,
                           SendWaitFails, SendCheck, HandlerDone
      <4> QED
        BY <1>2, <4>1 DEF TypeOK
    <3>2. ASSUME NEW b \in Call, SendReceive(b) PROVE b = c
      BY <1>2, <3>2 DEF SendReceive, TypeOK
    <3>3. ASSUME NEW u \in Thread,
                 LoopStep(u) \/ LoopWaitFails(u) \/ Post(u) \/ Quit(u) \/ Destroy(u)
          PROVE  FALSE
      BY <1>2, <3>3 DEF LoopStep, LoopSends, LoopPosts, LoopTaskDone, LoopQuitCheck,
                        LoopWait, LoopWaitFails, Post, Quit, Destroy, sendVars
    <3>4. ASSUME NEW u \in Thread, NEW h \in Handler, Clear(u, h) PROVE FALSE
      BY <1>2, <3>4 DEF Clear
    <3>5. ASSUME UNCHANGED vars PROVE FALSE
      BY <1>2, <3>5 DEF vars, sendVars
    <3> QED
      BY <3>1, <3>2, <3>3, <3>4, <3>5 DEF Next, ThreadStep, SendStep
  <2>2. Admitted(src[c], {dst[c]}) = {}
    BY <1>2, <2>1 DEF SendReceive
  <2> QED
    BY <1>b, <2>2 DEF Admitted
<1> QED
  BY <1>1, <1>2

\* Every step leaves no loop waiting with work.
LEMMA LoopWakeStep == TypeOK /\ CallInv /\ LoopInv /\ [Next]_vars => LoopInv'
<1> SUFFICES ASSUME TypeOK, CallInv, LoopInv, [Next]_vars,
                    NEW t \in Thread, ~signaled'[t]
             PROVE  /\ loop'[t] \in {"posts", "quitcheck", "wait"} =>
                         \A x \in sendlist_'[t] : pc'[x] = "wake"
                    /\ loop'[t] \in {"quitcheck", "wait"} => posts'[t] = 0
                    /\ loop'[t] = "wait" => ~stop_'[t]
  BY DEF LoopInv
<1> USE SendAssumption
<1>1. /\ ~LoopWait(t) /\ signaled[t] => loop[t] \in {"sends", "task"}
      /\ LoopWait(t) => loop'[t] = "sends"
  <2>1. ASSUME NEW b \in Call, src[b] = t, SendWait(b) PROVE loop[t] \in {"sends", "task"}
    BY <2>1 DEF SendWait, Sending, OnTop, TopIs, CallInv, IdleInv
  <2> QED
    BY <2>1, SignalConsumed DEF LoopWait, TypeOK
<1>2. \/ loop'[t] = loop[t]
      \/ LoopStep(t) \/ loop'[t] \in {"exited", "destroyed"}
  <2>1. ASSUME NEW b \in Call, SendBegin(b) \/ SendStep(b) \/ SendWaitFails(b) \/ HandlerDone(b)
        PROVE  UNCHANGED loop
    BY <2>1 DEF SendBegin, SendStep, SendEnqueue, SendWake, SendWait, SendWaitFails,
                SendCheck, SendReceive, HandlerDone, loopVars
  <2>2. ASSUME NEW u \in Thread, u # t, LoopStep(u) PROVE loop'[t] = loop[t]
    BY <2>2 DEF LoopStep, LoopSends, LoopPosts, LoopTaskDone, LoopQuitCheck, LoopWait,
                TypeOK
  <2>3. ASSUME NEW u \in Thread, Post(u) \/ Quit(u) PROVE UNCHANGED loop
    BY <2>3 DEF Post, Quit
  <2>4. ASSUME NEW u \in Thread, LoopWaitFails(u) \/ Destroy(u)
        PROVE  loop'[t] \in {loop[t], "exited", "destroyed"}
    BY <2>4 DEF LoopWaitFails, Destroy, TypeOK
  <2>5. ASSUME NEW u \in Thread, NEW h \in Handler, Clear(u, h) PROVE UNCHANGED loop
    BY <2>5 DEF Clear, loopVars
  <2>6. ASSUME UNCHANGED vars PROVE UNCHANGED loop
    BY <2>6 DEF vars, loopVars
  <2> QED
    BY <2>1, <2>2, <2>3, <2>4, <2>5, <2>6 DEF Next, ThreadStep
<1>3. loop'[t] \in {"posts", "quitcheck", "wait"} => \A x \in sendlist_'[t] : pc'[x] = "wake"
  <2> SUFFICES ASSUME loop'[t] \in {"posts", "quitcheck", "wait"},
                      NEW x \in sendlist_'[t], pc'[x] # "wake"
               PROVE  FALSE
    OBVIOUS
  <2>1. x \in Call
    BY TypeStep DEF TypeOK
  <2>2. x \in sendlist_[t] /\ pc[x] # "wake"
    BY <2>1, ListSignals
  <2>3. loop[t] = "sends" => sendlist_[t] = {}
    BY <1>2 DEF LoopStep, LoopSends, LoopPosts, LoopTaskDone, LoopQuitCheck, LoopWait,
                AtLoop, TypeOK
  <2>4. loop[t] \in {"sends", "posts", "quitcheck", "wait"} /\ ~LoopWait(t)
    BY <1>1, <1>2 DEF LoopStep, LoopSends, LoopPosts, LoopTaskDone, LoopQuitCheck,
                LoopWait, AtLoop, TypeOK
  <2> QED
    BY <1>1, <2>2, <2>3, <2>4 DEF LoopInv
<1>4. loop'[t] \in {"quitcheck", "wait"} => posts'[t] = 0
  <2> SUFFICES ASSUME loop'[t] \in {"quitcheck", "wait"} PROVE posts'[t] = 0
    OBVIOUS
  <2>1. ~LoopWait(t) /\ loop[t] \in {"posts", "quitcheck", "wait"}
    BY <1>1, <1>2 DEF LoopStep, LoopSends, LoopPosts, LoopTaskDone, LoopQuitCheck,
                LoopWait, AtLoop, TypeOK
  <2>2. CASE LoopPosts(t)
    BY <2>2 DEF LoopPosts, TypeOK
  <2>3. CASE ~LoopPosts(t)
    <3>1. loop[t] \in {"quitcheck", "wait"}
      BY <1>2, <2>1, <2>3 DEF LoopStep, LoopSends, LoopTaskDone, LoopQuitCheck, AtLoop,
                              TypeOK
    <3>2. posts[t] = 0
      BY <1>1, <2>1, <3>1 DEF LoopInv
    <3>3. posts'[t] = posts[t] \/ posts'[t] = 0
      <4>1. ASSUME NEW b \in Call, SendBegin(b) \/ SendStep(b) \/ SendWaitFails(b) \/ HandlerDone(b)
            PROVE  UNCHANGED posts
        BY <4>1 DEF SendBegin, SendStep, SendEnqueue, SendWake, SendWait, SendWaitFails,
                    SendCheck, SendReceive, HandlerDone, loopVars
      <4>2. ASSUME NEW u \in Thread, LoopStep(u) \/ LoopWaitFails(u)
            PROVE  posts'[t] = posts[t]
        BY <2>3, <4>2 DEF LoopStep, LoopSends, LoopPosts, LoopTaskDone, LoopQuitCheck,
                          LoopWait, LoopWaitFails, TypeOK
      <4>3. ASSUME NEW u \in Thread, Post(u) PROVE posts'[t] = posts[t]
        BY <4>3 DEF Post, TypeOK
      <4>4. ASSUME NEW u \in Thread, Quit(u) PROVE UNCHANGED posts
        BY <4>4 DEF Quit
      <4>5. ASSUME NEW u \in Thread, Destroy(u) PROVE posts'[t] \in {posts[t], 0}
        BY <4>5 DEF Destroy, TypeOK
      <4>6. ASSUME NEW u \in Thread, NEW h \in Handler, Clear(u, h) PROVE UNCHANGED posts
        BY <4>6 DEF Clear, loopVars
      <4>7. ASSUME UNCHANGED vars PROVE UNCHANGED posts
        BY <4>7 DEF vars, loopVars
      <4> QED
        BY <4>1, <4>2, <4>3, <4>4, <4>5, <4>6, <4>7 DEF Next, ThreadStep
    <3> QED
      BY <3>2, <3>3
  <2> QED
    BY <2>2, <2>3
<1>5. loop'[t] = "wait" => ~stop_'[t]
  <2> SUFFICES ASSUME loop'[t] = "wait" PROVE ~stop_'[t]
    OBVIOUS
  <2>1. CASE LoopQuitCheck(t)
    BY <2>1 DEF LoopQuitCheck, TypeOK
  <2>2. CASE ~LoopQuitCheck(t)
    <3>1. ~LoopWait(t) /\ loop[t] = "wait"
      BY <1>1, <1>2, <2>2 DEF LoopStep, LoopSends, LoopPosts, LoopTaskDone, LoopWait,
                              AtLoop, TypeOK
    <3>2. ~stop_[t]
      BY <1>1, <3>1 DEF LoopInv
    <3>3. stop_'[t] = stop_[t]
      <4>1. ASSUME NEW b \in Call, SendBegin(b) \/ SendStep(b) \/ SendWaitFails(b) \/ HandlerDone(b)
            PROVE  UNCHANGED stop_
        BY <4>1 DEF SendBegin, SendStep, SendEnqueue, SendWake, SendWait, SendWaitFails,
                    SendCheck, SendReceive, HandlerDone, loopVars
      <4>2. ASSUME NEW u \in Thread, LoopStep(u) \/ LoopWaitFails(u) \/ Post(u) \/ Destroy(u)
            PROVE  UNCHANGED stop_
        BY <4>2 DEF LoopStep, LoopSends, LoopPosts, LoopTaskDone, LoopQuitCheck,
                    LoopWait, LoopWaitFails, Post, Destroy
      <4>3. ASSUME NEW u \in Thread, Quit(u) PROVE stop_'[t] = stop_[t]
        BY <4>3 DEF Quit, TypeOK
      <4>4. ASSUME NEW u \in Thread, NEW h \in Handler, Clear(u, h) PROVE UNCHANGED stop_
        BY <4>4 DEF Clear, loopVars
      <4>5. ASSUME UNCHANGED vars PROVE UNCHANGED stop_
        BY <4>5 DEF vars, loopVars
      <4> QED
        BY <4>1, <4>2, <4>3, <4>4, <4>5 DEF Next, ThreadStep
    <3> QED
      BY <3>2, <3>3
  <2> QED
    BY <2>1, <2>2
<1> QED
  BY <1>3, <1>4, <1>5

\* No thread sleeps on work: not a sender whose call is over or whose callee calls
\* back, and not a loop with a call, a message or the order to quit, although all
\* waits of a thread, nested or not, consume one event.
THEOREM NoLostSendWakeUpHolds == Spec => []NoLostSendWakeUp
<1>1. Init => CallInv /\ WakeInv
  BY CallInit, WakeInit
<1>2. TypeOK /\ CallInv /\ WakeInv /\ [Next]_vars => CallInv' /\ WakeInv'
  BY CallStep, OwedStep, AdmitStep, LoopWakeStep DEF WakeInv
<1>3. TypeOK /\ CallInv /\ WakeInv => NoLostSendWakeUp
  <2> SUFFICES ASSUME TypeOK, CallInv, WakeInv PROVE NoLostSendWakeUp
    OBVIOUS
  <2>1. ASSUME NEW c \in Call, pc[c] = "wait", Sending(c), ~signaled[src[c]]
        PROVE  ~ready[c] /\ \A x \in Admitted(src[c], {dst[c]}) : pc[x] = "wake"
    <3>1. \A x \in Call : ~Above(stack[src[c]], c, x)
      BY <2>1, TopAbove, SendAssumption
      DEF Sending, OnTop, CallInv, DistinctInv, TypeOK
    <3>2. ~ready[c]
      BY <2>1, <3>1 DEF WakeInv, OwedInv, Owed
    <3>3. \A x \in Admitted(src[c], {dst[c]}) : pc[x] = "wake"
      BY <2>1 DEF WakeInv, AdmitInv, Admitted
    <3> QED
      BY <3>2, <3>3
  <2>2. ASSUME NEW t \in Thread, AtLoop(t, "wait"), ~signaled[t]
        PROVE  (\A x \in sendlist_[t] : pc[x] = "wake") /\ posts[t] = 0 /\ ~stop_[t]
    BY <2>2 DEF WakeInv, LoopInv, AtLoop
  <2> QED
    BY <2>1, <2>2 DEF NoLostSendWakeUp
<1> QED
  BY <1>1, <1>2, <1>3, TypeCorrect, PTL DEF Spec

-----------------------------------------------------------------------------
(* ThreadSend implements SyncCall. *)

statuses == [c \in Call |-> Status(c)]

\* Initially every call is idle.
LEMMA RefinesInit == Init => Promise!Init
  BY DEF Init, Promise!Init, Status

\* What each status means.
Meaning(c) ==
  /\ pc[c] = "new" => Status(c) = "idle"
  /\ pc[c] = "done" => Status(c) = IF outcome[c] = "refused" THEN "refused" ELSE "returned"
  /\ pc[c] \notin {"new", "done"} /\ Holds(stack[dst[c]], c) => Status(c) = "running"
  /\ pc[c] \notin {"new", "done"} /\ ~Holds(stack[dst[c]], c) =>
       Status(c) = IF ready[c] THEN "over" ELSE "pending"

\* Status is what Meaning says, before and after a step.
LEMMA StatusMeaning ==
  ASSUME TypeOK, TypeOK', NEW c \in Call
  PROVE  Meaning(c) /\ Meaning(c)'
<1>1. Meaning(c)
  BY DEF Meaning, Status, OnStack, TypeOK
<1>2. Meaning(c)'
  BY DEF Meaning, Status, OnStack, TypeOK
<1> QED
  BY <1>1, <1>2

\* A call that a step leaves where it was keeps its status.
LEMMA StatusSame ==
  ASSUME TypeOK, TypeOK', NEW c \in Call,
         pc'[c] = pc[c] \/ {pc[c], pc'[c]} \cap {"new", "done"} = {},
         outcome'[c] = outcome[c], ready'[c] = ready[c],
         Holds(stack'[dst[c]], c) <=> Holds(stack[dst[c]], c)
  PROVE  Status(c)' = Status(c)
<1>1. Meaning(c) /\ Meaning(c)'
  BY StatusMeaning
<1>2. (pc[c] = "new" <=> pc'[c] = "new") /\ (pc[c] = "done" <=> pc'[c] = "done")
  OBVIOUS
<1> QED
  BY <1>1, <1>2 DEF Meaning

\* The status of one call changes.
LEMMA StatusChange ==
  ASSUME NEW c \in Call, NEW v, \A x \in Call : x # c => Status(x)' = Status(x),
         Status(c)' = v
  PROVE  statuses' = [statuses EXCEPT ![c] = v]
  BY DEF statuses

\* The start of a call begins or refuses it.
LEMMA RefinesBegin ==
  ASSUME TypeOK, TypeOK', CallInv, NEW c \in Call, SendBegin(c)
  PROVE  Promise!Refuse(c) \/ Promise!Begin(c)
<1> USE SendAssumption DEF CallInv
<1>1. /\ pc[c] = "new" /\ ~ready[c] /\ ~Holds(stack[src[c]], c)
      /\ src[c] # dst[c] => ~Holds(stack[dst[c]], c)
      /\ UNCHANGED ready /\ \A x \in Call : x # c => pc'[x] = pc[x]
  <2>1. pc[c] = "new" /\ UNCHANGED ready /\ \A x \in Call : x # c => pc'[x] = pc[x]
    <3>1. pc[c] = "new" /\ UNCHANGED ready
      BY Zenon DEF SendBegin
    <3>2. \E v : pc' = [pc EXCEPT ![c] = v]
      BY Zenon DEF SendBegin
    <3>3. \A x \in Call : x # c => pc'[x] = pc[x]
      <4>1. DOMAIN pc = Call
        BY DEF TypeOK
      <4> QED
        BY <3>2, <4>1, ElsewhereSame
    <3> QED
      BY <3>1, <3>3
  <2>2. ~Holds(stack[src[c]], c)
    BY <2>1 DEF SenderInv, OnStack
  <2>3. ~ready[c] /\ (src[c] # dst[c] => ~Holds(stack[dst[c]], c))
    BY <2>1 DEF CallTracked, Tracked, InFlight, OnStack
  <2> QED
    BY <2>1, <2>2, <2>3
<1>2. Status(c) = "idle" /\ Meaning(c)'
  BY <1>1, StatusMeaning DEF Meaning
<1>3. CASE pc' = [pc EXCEPT ![c] = "done"] /\ UNCHANGED stack
           /\ outcome' = [outcome EXCEPT ![c] = "refused"]
  <2>1. \A x \in Call : x # c => Status(x)' = Status(x)
    <3> SUFFICES ASSUME NEW x \in Call, x # c PROVE Status(x)' = Status(x)
      OBVIOUS
    <3>1. outcome'[x] = outcome[x]
      BY <1>3 DEF TypeOK
    <3> QED
      BY <1>1, <1>3, <3>1, StatusSame
  <2>2. Status(c)' = "refused"
    BY <1>2, <1>3 DEF Meaning, TypeOK
  <2>3. statuses' = [statuses EXCEPT ![c] = "refused"]
    BY <2>1, <2>2, StatusChange
  <2> QED
    BY <1>2, <2>3 DEF Promise!Refuse, statuses
<1>4. CASE pc' = [pc EXCEPT ![c] = IF src[c] = dst[c] THEN "direct" ELSE "enqueue"]
           /\ Push(src[c], c) /\ UNCHANGED outcome
  <2>1. /\ \A u \in Thread : u # src[c] => stack'[u] = stack[u]
        /\ \A x \in Call : Holds(stack'[src[c]], x) <=> Holds(stack[src[c]], x) \/ x = c
    <3>1. src[c] \in Thread /\ stack \in [Thread -> Seq(Call)]
      BY DEF TypeOK
    <3> QED
      BY <1>4, <3>1, PushHolds
  <2>2. \A x \in Call : x # c => Status(x)' = Status(x)
    <3> SUFFICES ASSUME NEW x \in Call, x # c PROVE Status(x)' = Status(x)
      OBVIOUS
    <3>1. Holds(stack'[dst[x]], x) <=> Holds(stack[dst[x]], x)
      BY <2>1
    <3> QED
      BY <1>1, <1>4, <3>1, StatusSame
  <2>3. Status(c)' = IF src[c] = dst[c] THEN "running" ELSE "pending"
    <3>1. Holds(stack'[dst[c]], c) <=> src[c] = dst[c]
      BY <1>1, <2>1
    <3>2. pc'[c] \notin {"new", "done"} /\ ~ready'[c]
      BY <1>1, <1>4 DEF TypeOK
    <3> QED
      BY <1>2, <3>1, <3>2 DEF Meaning
  <2>4. statuses' = [statuses EXCEPT ![c] = IF src[c] = dst[c] THEN "running" ELSE "pending"]
    BY <2>2, <2>3, StatusChange
  <2> QED
    BY <1>2, <2>4 DEF Promise!Begin, statuses
<1> QED
  BY <1>3, <1>4 DEF SendBegin

\* Receiving a call executes it.
LEMMA RefinesReceive ==
  ASSUME TypeOK, TypeOK', CallInv, NEW t \in Thread, NEW source, NEW c \in Call,
         Receive(t, source, c), UNCHANGED <<pc, ready, outcome>>,
         \/ stack[t] = <<>>
         \/ \E x \in Call : src[x] = t /\ dst[x] = src[c] /\ pc[x] = "receive"
  PROVE  Promise!Execute(c)
<1> USE SendAssumption DEF CallInv
<1>1. c \in sendlist_[t] /\ Push(t, c)
  BY DEF Receive, Admitted
<1>2. dst[c] = t /\ src[c] # t /\ InFlight(c) /\ ~Holds(stack[t], c) /\ ~ready[c]
  BY <1>1 DEF ListInv, CallTracked, Tracked, OnStack
<1>3. /\ \A u \in Thread : u # t => stack'[u] = stack[u]
      /\ \A x \in Call : Holds(stack'[t], x) <=> Holds(stack[t], x) \/ x = c
  BY <1>1, PushHolds DEF TypeOK
<1>4. \A x \in Call : x # c => Status(x)' = Status(x)
  <2> SUFFICES ASSUME NEW x \in Call, x # c PROVE Status(x)' = Status(x)
    OBVIOUS
  <2>1. Holds(stack'[dst[x]], x) <=> Holds(stack[dst[x]], x)
    BY <1>3
  <2> QED
    BY <2>1, StatusSame
<1>5. Status(c) = "pending" /\ Status(c)' = "running"
  <2>1. pc[c] \notin {"new", "done"}
    BY <1>2 DEF InFlight
  <2>2. Holds(stack'[dst[c]], c) /\ ~Holds(stack[dst[c]], c)
    BY <1>2, <1>3
  <2> QED
    BY <1>2, <2>1, <2>2, StatusMeaning DEF Meaning
<1>6. statuses' = [statuses EXCEPT ![c] = "running"]
  BY <1>4, <1>5, StatusChange
<1>7. \/ \A x \in Call : src[x] = dst[c] => statuses[x] \notin {"pending", "running", "over"}
      \/ \E x \in Call : src[x] = dst[c] /\ dst[x] = src[c]
                         /\ statuses[x] \in {"pending", "running", "over"}
  <2>1. CASE stack[t] = <<>>
    <3> SUFFICES ASSUME NEW x \in Call, src[x] = t
                 PROVE  Status(x) \notin {"pending", "running", "over"}
      BY <1>2 DEF statuses
    <3>1. ~Holds(<<>>, x)
      BY DEF Holds
    <3>2. pc[x] \in {"new", "done"}
      BY <2>1, <3>1 DEF SenderInv, OnStack
    <3> QED
      BY <3>2, StatusMeaning DEF Meaning
  <2>2. CASE \E x \in Call : src[x] = t /\ dst[x] = src[c] /\ pc[x] = "receive"
    <3>1. PICK x \in Call : src[x] = t /\ dst[x] = src[c] /\ pc[x] = "receive"
      BY <2>2
    <3>2. Status(x) \in {"pending", "running", "over"}
      BY <3>1, StatusMeaning DEF Meaning
    <3> QED
      BY <1>2, <3>1, <3>2 DEF statuses
  <2> QED
    BY <2>1, <2>2
<1> QED
  BY <1>5, <1>6, <1>7 DEF Promise!Execute, Promise!Outstanding, statuses

\* The end of a handler finishes the call.
LEMMA RefinesHandlerDone ==
  ASSUME TypeOK, TypeOK', CallInv, NEW c \in Call, HandlerDone(c)
  PROVE  Promise!Finish(c)
<1> USE SendAssumption DEF CallInv
<1>1. /\ TopIs(stack[dst[c]], c) /\ PopTop(dst[c])
      /\ \A x \in Call : x # c => /\ pc'[x] = pc[x] /\ outcome'[x] = outcome[x]
                                   /\ ready'[x] = ready[x]
      /\ outcome'[c] = "handled"
      /\ src[c] # dst[c] \/ pc[c] = "direct"
  <2>1. /\ TopIs(stack[dst[c]], c) /\ PopTop(dst[c])
        /\ src[c] # dst[c] \/ pc[c] = "direct"
    BY DEF HandlerDone, Running, OnTop
  <2>2. outcome'[c] = "handled" /\ \A x \in Call : x # c => outcome'[x] = outcome[x]
    <3>1. outcome' = [outcome EXCEPT ![c] = "handled"]
      BY Zenon DEF HandlerDone
    <3> QED
      BY <3>1 DEF TypeOK
  <2>3. \A x \in Call : x # c => pc'[x] = pc[x] /\ ready'[x] = ready[x]
    <3>1. pc' = [pc EXCEPT ![c] = "done"] \/ UNCHANGED pc
      BY Zenon DEF HandlerDone
    <3>2. ready' = [ready EXCEPT ![c] = TRUE] \/ UNCHANGED ready
      BY Zenon DEF HandlerDone
    <3>3. DOMAIN pc = Call /\ DOMAIN ready = Call
      BY DEF TypeOK
    <3>4. \A x \in Call : x # c => pc'[x] = pc[x]
      BY <3>1, <3>3, ElsewhereSame
    <3>5. \A x \in Call : x # c => ready'[x] = ready[x]
      BY <3>2, <3>3, ElsewhereSame
    <3> QED
      BY <3>4, <3>5
  <2> QED
    BY <2>1, <2>2, <2>3
<1>2. dst[c] \in Thread /\ stack \in [Thread -> Seq(Call)] /\ Distinct(stack[dst[c]])
  BY DEF TypeOK, DistinctInv
<1>3. /\ \A u \in Thread : u # dst[c] => stack'[u] = stack[u]
      /\ \A x \in Call : Holds(stack'[dst[c]], x) <=> Holds(stack[dst[c]], x) /\ x # c
      /\ Holds(stack[dst[c]], c)
  BY <1>1, <1>2, PopHolds, TopHolds
<1>4. \A x \in Call : x # c => Status(x)' = Status(x)
  <2> SUFFICES ASSUME NEW x \in Call, x # c PROVE Status(x)' = Status(x)
    OBVIOUS
  <2>1. Holds(stack'[dst[x]], x) <=> Holds(stack[dst[x]], x)
    BY <1>3
  <2> QED
    BY <1>1, <2>1, StatusSame
<1>5. pc[c] \notin {"new", "done"} /\ (pc[c] = "direct" <=> src[c] = dst[c])
  <2>1. CASE src[c] = dst[c]
    BY <1>1, <2>1 DEF KindInv
  <2>2. CASE src[c] # dst[c]
    <3>1. InFlight(c)
      BY <1>3, <2>2 DEF CallTracked, Tracked, OnStack
    <3> QED
      BY <2>2, <3>1 DEF InFlight
  <2> QED
    BY <2>1, <2>2
<1>6. Status(c) = "running"
  BY <1>3, <1>5, StatusMeaning DEF Meaning
<1>7. Status(c)' = IF src[c] = dst[c] THEN "returned" ELSE "over"
  <2>1. CASE src[c] = dst[c]
    <3>1. pc'[c] = "done"
      BY <1>5, <2>1 DEF HandlerDone, TypeOK
    <3> QED
      BY <1>1, <2>1, <3>1, StatusMeaning DEF Meaning
  <2>2. CASE src[c] # dst[c]
    <3>1. pc'[c] = pc[c] /\ ready'[c]
      BY <1>5, <2>2 DEF HandlerDone, TypeOK
    <3>2. ~Holds(stack'[dst[c]], c)
      BY <1>3
    <3> QED
      BY <1>5, <2>2, <3>1, <3>2, StatusMeaning DEF Meaning
  <2> QED
    BY <2>1, <2>2
<1>8. statuses' = [statuses EXCEPT ![c] = IF src[c] = dst[c] THEN "returned" ELSE "over"]
  BY <1>4, <1>7, StatusChange
<1> QED
  BY <1>6, <1>8 DEF Promise!Finish, statuses

\* A sender that finds its call ready returns from it.
LEMMA RefinesReturn ==
  ASSUME TypeOK, TypeOK', CallInv, NEW c \in Call, SendCheck(c), ready[c]
  PROVE  Promise!Return(c)
<1> USE SendAssumption DEF CallInv
<1>1. /\ TopIs(stack[src[c]], c) /\ PopTop(src[c]) /\ pc[c] = "check" /\ pc'[c] = "done"
      /\ \A x \in Call : x # c => pc'[x] = pc[x]
      /\ UNCHANGED <<ready, outcome>>
  BY DEF SendCheck, Sending, OnTop, TypeOK
<1>2. src[c] \in Thread /\ stack \in [Thread -> Seq(Call)] /\ Distinct(stack[src[c]])
  BY DEF TypeOK, DistinctInv
<1>3. /\ \A u \in Thread : u # src[c] => stack'[u] = stack[u]
      /\ \A x \in Call : Holds(stack'[src[c]], x) <=> Holds(stack[src[c]], x) /\ x # c
  BY <1>1, <1>2, PopHolds
<1>4. \A x \in Call : x # c => Status(x)' = Status(x)
  <2> SUFFICES ASSUME NEW x \in Call, x # c PROVE Status(x)' = Status(x)
    OBVIOUS
  <2>1. Holds(stack'[dst[x]], x) <=> Holds(stack[dst[x]], x)
    BY <1>3
  <2> QED
    BY <1>1, <2>1, StatusSame
<1>5. ~Holds(stack[dst[c]], c) /\ outcome[c] \in {"handled", "cleared"}
  BY <1>1 DEF CallTracked, Tracked, OnStack
<1>6. Status(c) = "over"
  BY <1>1, <1>5, StatusMeaning DEF Meaning
<1>7. Status(c)' = "returned"
  BY <1>1, <1>5, StatusMeaning DEF Meaning
<1>8. statuses' = [statuses EXCEPT ![c] = "returned"]
  BY <1>4, <1>7, StatusChange
<1> QED
  BY <1>6, <1>8 DEF Promise!Return, statuses

\* Clearing calls drops them.
LEMMA RefinesClear ==
  ASSUME TypeOK, TypeOK', CallInv, NEW t \in Thread, NEW gone \in SUBSET sendlist_[t],
         ClearSends(t, gone), UNCHANGED <<stack, pc>>
  PROVE  Promise!Next
<1> USE SendAssumption DEF CallInv
<1>1. /\ \A c \in Call : c \notin gone => ready'[c] = ready[c] /\ outcome'[c] = outcome[c]
      /\ \A c \in gone : c \in Call /\ ready'[c]
  BY DEF ClearSends, TypeOK
<1>2. \A c \in Call : c \notin gone => Status(c)' = Status(c)
  BY <1>1, StatusSame
<1>3. \A c \in gone : Status(c) = "pending" /\ Status(c)' = "over"
  <2> SUFFICES ASSUME NEW c \in gone PROVE Status(c) = "pending" /\ Status(c)' = "over"
    OBVIOUS
  <2>1. c \in Call /\ c \in sendlist_[dst[c]]
    BY <1>1 DEF ListInv
  <2>2. InFlight(c) /\ ~ready[c] /\ ~Holds(stack[dst[c]], c)
    BY <2>1 DEF CallTracked, Tracked, OnStack, ListInv
  <2> QED
    BY <1>1, <2>1, <2>2, StatusMeaning DEF Meaning, InFlight
<1>4. statuses' = [c \in Call |-> IF c \in gone THEN "over" ELSE statuses[c]]
  BY <1>2, <1>3 DEF statuses
<1>5. gone \in SUBSET {c \in Call : statuses[c] = "pending"}
  BY <1>1, <1>3 DEF statuses
<1> QED
  BY <1>4, <1>5 DEF Promise!Next, Promise!Drop, statuses

\* Every step of ThreadSend is a step of SyncCall or leaves the statuses alone.
LEMMA RefinesStep ==
  TypeOK /\ TypeOK' /\ CallInv /\ [Next]_vars
    => Promise!Next \/ UNCHANGED [c \in Call |-> Status(c)]
<1> SUFFICES ASSUME TypeOK, TypeOK', CallInv
             PROVE  [Next]_vars => Promise!Next \/ UNCHANGED statuses
  BY DEF statuses
<1> USE SendAssumption
<1> DEFINE Goal == Promise!Next \/ UNCHANGED statuses
<1>1. ASSUME UNCHANGED <<stack, ready, outcome>>,
             \A x \in Call : pc'[x] = pc[x] \/ {pc[x], pc'[x]} \cap {"new", "done"} = {}
      PROVE  Goal
  <2>1. \A x \in Call : Status(x)' = Status(x)
    BY <1>1, StatusSame
  <2> QED
    BY <2>1 DEF statuses
<1>2. ASSUME NEW c \in Call, SendBegin(c) PROVE Goal
  BY <1>2, RefinesBegin DEF Promise!Next
<1>3. ASSUME NEW c \in Call,
             SendEnqueue(c) \/ SendWake(c) \/ SendWait(c) \/ SendWaitFails(c)
      PROVE  Goal
  <2>1. UNCHANGED <<stack, ready, outcome>>
    BY <1>3 DEF SendEnqueue, SendWake, SendWait, SendWaitFails
  <2>2. /\ \A x \in Call : x # c => pc'[x] = pc[x]
        /\ pc[c] \in {"enqueue", "wake", "wait"} /\ pc'[c] \in {"wake", "check"}
    <3>1. /\ pc[c] \in {"enqueue", "wake", "wait"}
          /\ \/ pc' = [pc EXCEPT ![c] = "wake"]
             \/ pc' = [pc EXCEPT ![c] = "check"]
      BY <1>3 DEF SendEnqueue, SendWake, SendWait, SendWaitFails
    <3> QED
      BY <3>1 DEF TypeOK
  <2> QED
    BY <1>1, <2>1, <2>2
<1>4. ASSUME NEW c \in Call, SendCheck(c) PROVE Goal
  <2>1. CASE ready[c]
    BY <1>4, <2>1, RefinesReturn DEF Promise!Next
  <2>2. CASE ~ready[c]
    <3>1. UNCHANGED <<stack, ready, outcome>>
      BY <1>4, <2>2 DEF SendCheck
    <3>2. /\ \A x \in Call : x # c => pc'[x] = pc[x]
          /\ pc[c] = "check" /\ pc'[c] = "receive"
      BY <1>4, <2>2 DEF SendCheck, TypeOK
    <3> QED
      BY <1>1, <3>1, <3>2
  <2> QED
    BY <2>1, <2>2
<1>5. ASSUME NEW c \in Call, SendReceive(c) PROVE Goal
  <2>1. pc[c] = "receive" /\ UNCHANGED <<ready, outcome>> /\ src[c] \in Thread
    BY <1>5 DEF SendReceive
  <2>2. CASE pc' = [pc EXCEPT ![c] = "wait"] /\ UNCHANGED stack
    <3>1. /\ \A x \in Call : x # c => pc'[x] = pc[x]
          /\ pc'[c] = "wait"
      BY <2>2 DEF TypeOK
    <3> QED
      BY <1>1, <2>1, <2>2, <3>1
  <2>3. CASE (\E x \in Call : Receive(src[c], {dst[c]}, x)) /\ UNCHANGED pc
    <3>1. PICK x \in Call : Receive(src[c], {dst[c]}, x)
      BY <2>3
    <3>2. src[x] = dst[c]
      BY <3>1 DEF Receive, Admitted
    <3>3. Promise!Execute(x)
      BY <2>1, <2>3, <3>1, <3>2, RefinesReceive
    <3> QED
      BY <3>3 DEF Promise!Next
  <2> QED
    BY <1>5, <2>2, <2>3 DEF SendReceive
<1>6. ASSUME NEW c \in Call, HandlerDone(c) PROVE Goal
  BY <1>6, RefinesHandlerDone DEF Promise!Next
<1>7. ASSUME NEW t \in Thread, LoopStep(t) PROVE Goal
  <2>1. UNCHANGED <<pc, ready, outcome>> /\ stack[t] = <<>>
    BY <1>7 DEF LoopStep, LoopSends, LoopPosts, LoopTaskDone, LoopQuitCheck, LoopWait,
                AtLoop, sendVars
  <2>2. UNCHANGED stack \/ \E x \in Call : Receive(t, {}, x)
    BY <1>7 DEF LoopStep, LoopSends, LoopPosts, LoopTaskDone, LoopQuitCheck, LoopWait
  <2>3. ASSUME NEW x \in Call, Receive(t, {}, x) PROVE Goal
    BY <2>1, <2>3, RefinesReceive DEF Promise!Next
  <2> QED
    BY <1>1, <2>1, <2>2, <2>3
<1>8. ASSUME NEW t \in Thread, LoopWaitFails(t) \/ Post(t) \/ Quit(t) PROVE Goal
  <2>1. UNCHANGED <<pc, stack, ready, outcome>>
    BY <1>8 DEF LoopWaitFails, Post, Quit, sendVars
  <2> QED
    BY <1>1, <2>1
<1>9. ASSUME NEW t \in Thread, NEW h \in Handler, Clear(t, h) PROVE Goal
  <2>1. {c \in sendlist_[t] : phandler[c] = h} \in SUBSET sendlist_[t]
    OBVIOUS
  <2> QED
    BY <1>9, <2>1, RefinesClear DEF Clear
<1>10. ASSUME NEW t \in Thread, Destroy(t) PROVE Goal
  BY <1>10, RefinesClear DEF Destroy
<1>11. ASSUME UNCHANGED vars PROVE Goal
  <2>1. UNCHANGED <<pc, stack, ready, outcome>>
    BY <1>11 DEF vars, sendVars
  <2> QED
    BY <1>1, <2>1
<1> QED
  BY <1>2, <1>3, <1>4, <1>5, <1>6, <1>7, <1>8, <1>9, <1>10, <1>11
  DEF Next, ThreadStep, SendStep

\* Send, with its lists, events, nested waits and loops, implements the synchronous
\* call of SyncCall, for any threads and calls.
THEOREM Refinement == Spec => KeepsPromise
<1>1. Init => Promise!Init
  BY RefinesInit
<1>2. TypeOK /\ TypeOK' /\ CallInv /\ [Next]_vars
        => [Promise!Next]_[c \in Call |-> Status(c)]
  BY RefinesStep
<1>3. Init => CallInv
  BY CallInit
<1>4. TypeOK /\ CallInv /\ [Next]_vars => CallInv'
  BY CallStep
<1> QED
  BY <1>1, <1>2, <1>3, <1>4, TypeCorrect, PTL DEF Spec, KeepsPromise, Promise!Spec
=============================================================================
