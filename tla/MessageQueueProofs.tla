------------------------- MODULE MessageQueueProofs -------------------------
(***************************************************************************)
(* Proofs about MessageQueue, for any number of messages, handlers and     *)
(* callers and any bounds.                                                 *)
(***************************************************************************)
EXTENDS MessageQueue, FiniteSetTheorems, TLAPS

\* A caller that is about to push has a message to push.
PushHasMsg == \A c \in Caller : call[c].op = "push" => call[c].msg \in Msg

TypeInv == TypeOK /\ PushHasMsg

\* What a caller has left to do.
CallRec == [op : {"idle", "push", "wake"}, msg : Msg \cup {NULL},
            at : Nat \cup {kForever}]

\* The records that the actions store in call are of its type.
LEMMA IdleType == Idle \in CallRec /\ ThenWakeUp \in CallRec
  BY DEF Idle, ThenWakeUp, CallRec

\* The initial state is well typed.
LEMMA TypeInit == Init => TypeInv
<1> SUFFICES ASSUME Init PROVE TypeInv
  OBVIOUS
<1> USE QueueAssumption DEF Init
<1>1. /\ call \in [Caller -> CallRec]
      /\ PushHasMsg
  BY IdleType DEF PushHasMsg, Idle
<1>2. /\ dmsgq_next_num_ \in 0..(NumMod - 1)
      /\ msgq_ \subseteq Ready /\ dmsgq_ \subseteq Delayed /\ pushed_ \in Nat
  OBVIOUS
<1>3. /\ fate \in [Msg -> {"new", "refused", "pushing", "pending", "handled",
                           "disposed", "cleared"}]
      /\ trigger \in [Msg -> Nat \cup {kForever}]
      /\ ahead \in [Msg -> SUBSET Msg]
  OBVIOUS
<1> QED
  BY <1>1, <1>2, <1>3 DEF TypeInv, TypeOK, CallRec

\* Every step keeps the state well typed.
LEMMA TypeStep == TypeInv /\ [Next]_vars => TypeInv'
<1> SUFFICES ASSUME TypeInv, [Next]_vars PROVE TypeInv'
  OBVIOUS
<1> USE QueueAssumption DEF TypeInv, TypeOK, PushHasMsg
<1>1. ASSUME NEW c \in Caller, NEW m \in Msg, NEW at \in Nat \cup {kForever},
             PostBegin(c, m, at)
      PROVE  TypeInv'
  <2>1. [op |-> "push", msg |-> m, at |-> at] \in CallRec
    BY DEF CallRec
  <2>2. \/ UNCHANGED <<call, trigger>> /\ fate' = [fate EXCEPT ![m] = "refused"]
        \/ /\ call' = [call EXCEPT ![c] = [op |-> "push", msg |-> m, at |-> at]]
           /\ trigger' = [trigger EXCEPT ![m] = at]
           /\ fate' = [fate EXCEPT ![m] = "pushing"]
    BY <1>1, Zenon DEF PostBegin
  <2>3. /\ call' \in [Caller -> CallRec]
        /\ PushHasMsg'
    <3>1. call' \in [Caller -> CallRec]
      BY <2>1, <2>2 DEF CallRec
    <3>2. \A x \in Caller : call'[x] = call[x] \/ call'[x].msg = m
      BY <2>2 DEF CallRec
    <3> QED
      BY <3>1, <3>2
  <2>4. /\ fate' \in [Msg -> {"new", "refused", "pushing", "pending", "handled",
                              "disposed", "cleared"}]
        /\ trigger' \in [Msg -> Nat \cup {kForever}]
    <3>1. CASE UNCHANGED <<call, trigger>> /\ fate' = [fate EXCEPT ![m] = "refused"]
      BY <3>1
    <3>2. CASE /\ trigger' = [trigger EXCEPT ![m] = at]
               /\ fate' = [fate EXCEPT ![m] = "pushing"]
      BY <3>2
    <3> QED
      BY <2>2, <3>1, <3>2, Zenon
  <2> QED
    BY <1>1, <2>3, <2>4 DEF PostBegin, CallRec, queueVars, getVars, loopVars
<1>2. ASSUME NEW c \in Caller, PostPush(c) PROVE TypeInv'
  <2> DEFINE m == call[c].msg
             at == call[c].at
  <2>1. m \in Msg /\ at \in Nat \cup {kForever}
    BY <1>2 DEF PostPush
  <2>2. msgq_' \subseteq Ready /\ pushed_' \in Nat
    BY <1>2, <2>1 DEF PostPush, Ready
  <2>3. dmsgq_' \subseteq Delayed /\ dmsgq_next_num_' \in 0..(NumMod - 1)
    BY <1>2, <2>1 DEF PostPush, Delayed, AfterNum
  <2>4. /\ call' \in [Caller -> CallRec]
        /\ PushHasMsg'
    BY <1>2, IdleType DEF PostPush, CallRec, ThenWakeUp
  <2>5. ahead' \in [Msg -> SUBSET Msg]
    <3>1. {r.msg : r \in msgq_} \subseteq Msg /\ {d.msg : d \in dmsgq_} \subseteq Msg
      BY DEF Ready, Delayed
    <3> QED
      BY <1>2, <2>1, <3>1 DEF PostPush
  <2>6. fate' \in [Msg -> {"new", "refused", "pushing", "pending", "handled",
                          "disposed", "cleared"}]
    BY <1>2 DEF PostPush
  <2> QED
    BY <1>2, <2>2, <2>3, <2>4, <2>5, <2>6 DEF PostPush, CallRec, getVars, loopVars
<1>3. ASSUME NEW c \in Caller, WakeUpSocketServer(c) PROVE TypeInv'
  BY <1>3 DEF WakeUpSocketServer, Idle, queueVars, getVars, loopVars, histVars
<1>4. ASSUME NEW c \in Caller, Quit(c) PROVE TypeInv'
  BY <1>4 DEF Quit, Idle, ThenWakeUp, Ready, queueVars, getVars, loopVars
<1>5. ASSUME NEW handler, NEW id, ClearMatching(handler, id),
             UNCHANGED <<now, stop_, signaled, pmsg, getVars, loopVars, call>>,
             alive' \subseteq Handler, pc' = pc \/ pc' = "destroyed"
      PROVE  TypeInv'
  BY <1>5 DEF ClearMatching, Settle, getVars, loopVars
<1>6. ASSUME NEW cms \in Loop, ProcessMessages(cms) PROVE TypeInv'
  BY <1>6 DEF ProcessMessages, queueVars, histVars
<1>7. CASE GetBegin
  BY <1>7 DEF GetBegin, queueVars, loopVars, histVars
<1>8. CASE GetLock
  BY <1>8 DEF GetLock, queueVars, getVars, loopVars, histVars
<1>9. CASE GetMoveDue
  BY <1>9 DEF GetMoveDue, Ready, Delayed, getVars, loopVars, histVars
<1>10. CASE GetPop
  BY <1>10 DEF GetPop, TakeFront, PopFront, IsTop, Due, Ready, Delayed, loopVars, histVars
<1>11. CASE GetPopAgain
  BY <1>11 DEF GetPopAgain, TakeFront, PopFront, Ready, getVars, loopVars, histVars
<1>12. CASE GetDispose
  BY <1>12 DEF GetDispose, Settle, getVars, loopVars
<1>13. CASE Dispatch
  BY <1>13 DEF Dispatch, Settle, GetReturns, queueVars, loopVars
<1>14. CASE DispatchEnd
  BY <1>14 DEF DispatchEnd, queueVars, loopVars, histVars
<1>15. CASE GetQuitCheck
  BY <1>15 DEF GetQuitCheck, CmsNext, GetReturnsFalse, GetReturns, queueVars, loopVars, histVars
<1>16. CASE GetWait
  BY <1>16 DEF GetWait, queueVars, loopVars, histVars
<1>17. CASE GetWaitFails \/ GetTimeCheck
  BY <1>17 DEF GetWaitFails, GetTimeCheck, GetReturnsFalse, GetReturns, queueVars,
     loopVars, histVars
<1>18. CASE Restart
  BY <1>18 DEF Restart, queueVars, getVars, loopVars
<1>19. CASE Tick
  BY <1>19 DEF Tick, queueVars, getVars, loopVars, histVars
<1>20. CASE DoDestroy
  BY <1>5, <1>20 DEF DoDestroy
<1>21. ASSUME NEW c \in Caller, NEW h \in Handler, NEW i, Clear(c, h, i) PROVE TypeInv'
  BY <1>5, <1>21 DEF Clear
<1>22. ASSUME NEW h \in Handler, DeleteHandler(h) PROVE TypeInv'
  BY <1>5, <1>22 DEF DeleteHandler
<1>23. CASE UNCHANGED vars
  BY <1>23 DEF vars, queueVars, getVars, loopVars, histVars
<1> QED
  BY <1>1, <1>2, <1>3, <1>4, <1>6, <1>7, <1>8, <1>9, <1>10, <1>11, <1>12, <1>13, <1>14,
     <1>15, <1>16, <1>17, <1>18, <1>19, <1>20, <1>21, <1>22, <1>23
     DEF Next, GetStep, CallStep, Post, PostDelayed, PostAt

\* The queue's state is always well typed.
THEOREM TypeCorrect == Spec => []TypeOK
<1>1. TypeInv => TypeOK
  BY DEF TypeInv
<1> QED
  BY TypeInit, TypeStep, <1>1, PTL DEF Spec

-----------------------------------------------------------------------------
(* PendingOnce is inductive together with what the callers hold. *)

\* A caller that is about to push holds a message that nobody else has and that
\* is in no queue; the owner has a message in its hands when pc says so.
Holding ==
  /\ \A c \in Caller : call[c].op = "push" => fate[call[c].msg] = "pushing"
  /\ \A c, d \in Caller :
       call[c].op = "push" /\ call[d].op = "push" /\ call[c].msg = call[d].msg => c = d
  /\ pc \in {"dispose", "got"} => pmsg \in Msg

PlaceInv == PendingOnce /\ Holding

\* Steps that leave the queues, the fates and the hands of everyone alone.
LEMMA PlaceSame ==
  ASSUME PlaceInv, UNCHANGED <<msgq_, dmsgq_, fate, pmsg>>,
         \A c \in Caller : call'[c].op = "push" => call'[c] = call[c],
         pc' = pc \/ (pc \notin {"dispose", "got"} /\ pc' \notin {"dispose", "got"})
  PROVE  PlaceInv'
  BY DEF PlaceInv, PendingOnce, Holding, InHand, InReady, InDelayed

\* Settling messages that are taken out of the queues at the same time.
LEMMA PlaceRemove ==
  ASSUME TypeInv, PlaceInv, NEW gone \in SUBSET Queued,
         NEW end, \A m \in gone : end[m] # "pending" /\ end[m] # "pushing",
         msgq_' = {r \in msgq_ : r.msg \notin gone},
         dmsgq_' = {d \in dmsgq_ : d.msg \notin gone},
         fate' = [m \in Msg |-> IF m \in gone THEN end[m] ELSE fate[m]],
         UNCHANGED <<pmsg, call>>,
         pc' = pc \/ (pc \notin {"dispose", "got"} /\ pc' \notin {"dispose", "got"})
  PROVE  PlaceInv'
<1>1. \A m \in Msg : /\ InReady(m)' <=> InReady(m) /\ m \notin gone
                     /\ InDelayed(m)' <=> InDelayed(m) /\ m \notin gone
                     /\ InHand(m)' <=> InHand(m)
  BY DEF InReady, InDelayed, InHand
<1>2. \A m \in gone : m \in Msg /\ fate[m] = "pending" /\ ~InHand(m)
  BY DEF Queued, PlaceInv, PendingOnce, InReady, InDelayed, TypeInv, TypeOK, Ready, Delayed
<1>3. \A m \in Msg : fate'[m] = IF m \in gone THEN end[m] ELSE fate[m]
  OBVIOUS
<1>4. PendingOnce'
  BY <1>1, <1>2, <1>3 DEF PlaceInv, PendingOnce
<1>5. Holding'
  BY <1>2, <1>3 DEF PlaceInv, Holding, TypeInv, PushHasMsg
<1> QED
  BY <1>4, <1>5 DEF PlaceInv

\* Popping the front hands it to the owner.
LEMMA PlacePop ==
  ASSUME TypeInv, PlaceInv, pc \notin {"dispose", "got"}, TakeFront,
         UNCHANGED <<dmsgq_, fate, call>>
  PROVE  PlaceInv'
<1>1. CASE msgq_ = {} /\ pc' = "quitcheck" /\ UNCHANGED <<msgq_, pmsg>>
  BY <1>1, PlaceSame
<1>2. ASSUME NEW r \in msgq_, PopFront(r), pc' \in {"dispose", "got"}
      PROVE  PlaceInv'
  <2>1. r.msg \in Msg /\ pmsg' = r.msg /\ msgq_' = msgq_ \ {r}
    BY <1>2 DEF PopFront, TypeInv, TypeOK, Ready
  <2>2. \A m \in Msg : /\ InReady(m)' <=> InReady(m) /\ m # r.msg
                       /\ InDelayed(m)' <=> InDelayed(m)
                       /\ InHand(m)' <=> m = r.msg
                       /\ ~InHand(m)
    BY <1>2, <2>1 DEF PlaceInv, PendingOnce, InReady, InDelayed, InHand
  <2>3. InReady(r.msg) /\ ~InDelayed(r.msg)
    BY <1>2, <2>1 DEF PlaceInv, PendingOnce, InReady
  <2>4. PendingOnce'
    BY <2>1, <2>2, <2>3 DEF PlaceInv, PendingOnce
  <2>5. Holding'
    BY <2>1 DEF PlaceInv, Holding
  <2> QED
    BY <2>4, <2>5 DEF PlaceInv
<1> QED
  BY <1>1, <1>2 DEF TakeFront

\* In the initial state every message is in its place: nowhere.
LEMMA PlaceInit == Init => PlaceInv
  BY DEF Init, PlaceInv, PendingOnce, Holding, InHand, InReady, InDelayed, Idle

\* Every step keeps every pending message in exactly one place.
LEMMA PlaceStep == TypeInv /\ PlaceInv /\ [Next]_vars => PlaceInv'
<1> SUFFICES ASSUME TypeInv, PlaceInv, [Next]_vars PROVE PlaceInv'
  OBVIOUS
<1>1. ASSUME NEW c \in Caller, NEW m \in Msg, NEW at, PostBegin(c, m, at)
      PROVE  PlaceInv'
  <2>1. /\ fate[m] = "new" /\ UNCHANGED <<msgq_, dmsgq_, pmsg, pc>>
        /\ \/ fate' = [fate EXCEPT ![m] = "refused"] /\ UNCHANGED call
           \/ /\ fate' = [fate EXCEPT ![m] = "pushing"]
              /\ call' = [call EXCEPT ![c] = [op |-> "push", msg |-> m, at |-> at]]
    BY <1>1, Zenon DEF PostBegin, queueVars
  <2>2. \A n \in Msg : /\ fate'[n] = "pending" <=> fate[n] = "pending"
                       /\ fate[n] = "pushing" => fate'[n] = "pushing"
    BY <2>1 DEF TypeInv, TypeOK
  <2>3. PendingOnce'
    BY <2>1, <2>2 DEF PlaceInv, PendingOnce, InReady, InDelayed, InHand
  <2>4. \A x \in Caller : call'[x].op = "push" =>
           \/ call'[x] = call[x]
           \/ x = c /\ call'[x].msg = m /\ fate'[m] = "pushing"
    BY <2>1 DEF TypeInv, TypeOK
  <2>5. Holding'
    BY <2>1, <2>2, <2>4 DEF PlaceInv, Holding, TypeInv, PushHasMsg
  <2> QED
    BY <2>3, <2>5 DEF PlaceInv
<1>2. ASSUME NEW c \in Caller, PostPush(c) PROVE PlaceInv'
  <2> DEFINE m == call[c].msg
  <2>1. m \in Msg /\ fate[m] = "pushing"
    BY <1>2 DEF PostPush, TypeInv, PushHasMsg, PlaceInv, Holding
  <2>2. /\ fate' = [fate EXCEPT ![m] = "pending"]
        /\ call' = [call EXCEPT ![c] = ThenWakeUp]
        /\ UNCHANGED <<pc, pmsg>>
    BY <1>2 DEF PostPush
  <2>3. ~InReady(m) /\ ~InDelayed(m) /\ ~InHand(m)
    BY <2>1 DEF PlaceInv, PendingOnce
  <2>4. /\ \A x \in Msg : InHand(x)' <=> InHand(x)
        /\ \A x \in Msg : fate'[x] = IF x = m THEN "pending" ELSE fate[x]
    BY <2>1, <2>2 DEF InHand, TypeInv, TypeOK
  <2>5. ASSUME call[c].at = kForever PROVE PendingOnce'
    <3> DEFINE new == [msg |-> m, seq |-> pushed_]
    <3>1. msgq_' = msgq_ \cup {new} /\ dmsgq_' = dmsgq_ /\ new.msg = m
      BY <1>2, <2>5 DEF PostPush
    <3> HIDE DEF new, m
    <3>2. \A x \in Msg : /\ InReady(x)' <=> InReady(x) \/ x = m
                         /\ InDelayed(x)' <=> InDelayed(x)
      BY <3>1 DEF InReady, InDelayed
    <3>3. \A r, s \in msgq_' : r.msg = s.msg => r = s
      BY <2>3, <3>1 DEF InReady, PlaceInv, PendingOnce
    <3> QED
      BY <2>1, <2>3, <2>4, <3>1, <3>2, <3>3 DEF PlaceInv, PendingOnce
  <2>6. ASSUME call[c].at # kForever PROVE PendingOnce'
    <3> DEFINE new == [msTrigger |-> call[c].at, num |-> dmsgq_next_num_, msg |-> m]
    <3>1. dmsgq_' = dmsgq_ \cup {new} /\ msgq_' = msgq_ /\ new.msg = m
      BY <1>2, <2>6 DEF PostPush
    <3> HIDE DEF new, m
    <3>2. \A x \in Msg : /\ InReady(x)' <=> InReady(x)
                         /\ InDelayed(x)' <=> InDelayed(x) \/ x = m
      BY <3>1 DEF InReady, InDelayed
    <3>3. \A r, s \in dmsgq_' : r.msg = s.msg => r = s
      BY <2>3, <3>1 DEF InDelayed, PlaceInv, PendingOnce
    <3> QED
      BY <2>1, <2>3, <2>4, <3>1, <3>2, <3>3 DEF PlaceInv, PendingOnce
  <2>7. Holding'
    <3>1. \A x \in Caller : call'[x] = IF x = c THEN ThenWakeUp ELSE call[x]
      BY <2>2 DEF TypeInv, TypeOK
    <3>2. ThenWakeUp.op # "push" /\ call[c].op = "push"
      BY <1>2 DEF ThenWakeUp, PostPush
    <3>3. \A x \in Caller : call'[x].op = "push" =>
             x # c /\ call'[x] = call[x] /\ call[x].msg # m
      BY <3>1, <3>2 DEF PlaceInv, Holding
    <3> HIDE DEF m
    <3> QED
      BY <2>2, <2>4, <3>3 DEF PlaceInv, Holding, TypeInv, PushHasMsg
  <2> QED
    BY <2>5, <2>6, <2>7 DEF PlaceInv
<1>3. ASSUME NEW c \in Caller, WakeUpSocketServer(c) \/ Quit(c) PROVE PlaceInv'
  <2>1. \A x \in Caller : call'[x].op = "push" => call'[x] = call[x]
    BY <1>3 DEF WakeUpSocketServer, Quit, Idle, ThenWakeUp, TypeInv, TypeOK
  <2> QED
    BY <1>3, <2>1, PlaceSame DEF WakeUpSocketServer, Quit, queueVars
<1>4. ASSUME NEW handler, NEW id, ClearMatching(handler, id), UNCHANGED <<pmsg, call>>,
             pc' = pc \/ (pc = "exited" /\ pc' = "destroyed")
      PROVE  PlaceInv'
  <2> DEFINE gone == {m \in Queued : Match(m, handler, id)}
             end == [m \in Msg |-> "cleared"]
  <2>1. /\ msgq_' = {r \in msgq_ : r.msg \notin gone}
        /\ dmsgq_' = {d \in dmsgq_ : d.msg \notin gone}
        /\ fate' = [m \in Msg |-> IF m \in gone THEN end[m] ELSE fate[m]]
    BY <1>4 DEF ClearMatching, Settle, Queued
  <2>2. gone \subseteq Msg
    BY DEF Queued, TypeInv, TypeOK, Ready, Delayed
  <2> HIDE DEF gone
  <2>3. \A m \in gone : end[m] = "cleared"
    BY <2>2
  <2> HIDE DEF end
  <2>4. gone \in SUBSET Queued
    BY DEF gone
  <2> QED
    BY <1>4, <2>1, <2>3, <2>4, PlaceRemove
<1>5. ASSUME NEW cms \in Loop, ProcessMessages(cms) PROVE PlaceInv'
  BY <1>5, PlaceSame DEF ProcessMessages, queueVars
<1>6. CASE GetBegin \/ GetLock \/ GetQuitCheck \/ GetWait \/ GetWaitFails \/ GetTimeCheck
           \/ Tick \/ Restart
  <2>1. UNCHANGED <<msgq_, dmsgq_, fate, pmsg, call>>
    BY <1>6, Zenon DEF GetBegin, GetLock, GetQuitCheck, GetWait, GetWaitFails,
       GetTimeCheck, Tick, Restart, queueVars
  <2>2. pc' = pc \/ (pc \notin {"dispose", "got"} /\ pc' \notin {"dispose", "got"})
    BY <1>6 DEF GetBegin, GetLock, GetQuitCheck, GetWait, GetWaitFails, GetTimeCheck, Tick,
       Restart, GetReturnsFalse
  <2> QED
    BY <2>1, <2>2, PlaceSame
<1>7. CASE GetMoveDue
  <2>1. PICK d \in dmsgq_ : /\ msgq_' = msgq_ \cup {[msg |-> d.msg, seq |-> pushed_]}
                            /\ dmsgq_' = dmsgq_ \ {d}
    BY <1>7 DEF GetMoveDue
  <2> DEFINE new == [msg |-> d.msg, seq |-> pushed_]
  <2>11. msgq_' = msgq_ \cup {new} /\ new.msg = d.msg
    BY <2>1
  <2> HIDE DEF new
  <2>2. d.msg \in Msg /\ UNCHANGED <<pc, pmsg, call, fate>> /\ pc = "scan"
    BY <1>7 DEF GetMoveDue, TypeInv, TypeOK, Delayed
  <2>3. InDelayed(d.msg) /\ ~InReady(d.msg) /\ ~InHand(d.msg)
    BY <2>2 DEF InDelayed, PlaceInv, PendingOnce, InHand
  <2>4. \A x \in Msg : /\ InReady(x)' <=> InReady(x) \/ x = d.msg
                       /\ InDelayed(x)' <=> InDelayed(x) /\ x # d.msg
                       /\ InHand(x)' <=> InHand(x)
    BY <2>1, <2>11, <2>2 DEF InReady, InDelayed, InHand, PlaceInv, PendingOnce
  <2>5. /\ \A r, s \in msgq_' : r.msg = s.msg => r = s
        /\ \A r, s \in dmsgq_' : r.msg = s.msg => r = s
    BY <2>1, <2>11, <2>3 DEF InReady, PlaceInv, PendingOnce
  <2>6. PendingOnce'
    BY <2>2, <2>3, <2>4, <2>5 DEF PlaceInv, PendingOnce
  <2>7. Holding'
    BY <2>2 DEF PlaceInv, Holding
  <2> QED
    BY <2>6, <2>7 DEF PlaceInv
<1>8. CASE GetPop \/ GetPopAgain
  BY <1>8, PlacePop DEF GetPop, GetPopAgain
<1>9. CASE GetDispose
  <2> DEFINE gone == {m \in Queued : doomed[pmsg] # NULL /\ phandler[m] = doomed[pmsg]}
  <2>1. /\ msgq_' = {r \in msgq_ : r.msg \notin gone}
        /\ dmsgq_' = {d \in dmsgq_ : d.msg \notin gone}
        /\ pc = "dispose" /\ pc' = "repop" /\ UNCHANGED call
    BY <1>9 DEF GetDispose
  <2>2. \A m \in Msg : fate'[m] = IF m = pmsg THEN "disposed"
                                  ELSE IF m \in gone THEN "cleared" ELSE fate[m]
    BY <1>9 DEF GetDispose, Settle
  <2>3. gone \subseteq Queued
    OBVIOUS
  <2> HIDE DEF gone
  <2>4. \A m \in Msg : /\ InReady(m)' <=> InReady(m) /\ m \notin gone
                       /\ InDelayed(m)' <=> InDelayed(m) /\ m \notin gone
                       /\ ~InHand(m)'
                       /\ InHand(m) <=> m = pmsg
    BY <2>1 DEF InReady, InDelayed, InHand
  <2>5. \A m \in gone : m \in Msg /\ (InReady(m) \/ InDelayed(m))
    BY <2>3 DEF Queued, InReady, InDelayed, TypeInv, TypeOK, Ready, Delayed
  <2>6. PendingOnce'
    BY <2>1, <2>2, <2>4, <2>5 DEF PlaceInv, PendingOnce
  <2>7. \A m \in Msg : fate[m] = "pushing" => fate'[m] = "pushing"
    BY <2>2, <2>4, <2>5 DEF PlaceInv, PendingOnce
  <2>8. Holding'
    BY <2>1, <2>7 DEF PlaceInv, Holding, TypeInv, PushHasMsg
  <2> QED
    BY <2>6, <2>8 DEF PlaceInv
<1>10. CASE Dispatch
  <2>1. /\ UNCHANGED <<msgq_, dmsgq_, call>> /\ pc = "got" /\ pc' = "dispatch"
        /\ \A m \in Msg : fate'[m] = IF m = pmsg THEN "handled" ELSE fate[m]
    BY <1>10 DEF Dispatch, Settle, queueVars
  <2>2. \A m \in Msg : InHand(m) <=> m = pmsg
    BY <2>1 DEF InHand
  <2>3. \A m \in Msg : /\ InReady(m)' <=> InReady(m)
                       /\ InDelayed(m)' <=> InDelayed(m)
                       /\ ~InHand(m)'
    BY <2>1 DEF InHand, InReady, InDelayed
  <2>4. PendingOnce'
    BY <2>1, <2>2, <2>3 DEF PlaceInv, PendingOnce
  <2>5. Holding'
    BY <2>1, <2>2 DEF PlaceInv, PendingOnce, Holding, TypeInv, PushHasMsg
  <2> QED
    BY <2>4, <2>5 DEF PlaceInv
<1>11. CASE DispatchEnd
  <2>1. /\ UNCHANGED <<msgq_, dmsgq_, call, fate>> /\ pc = "dispatch"
        /\ pc' \notin {"dispose", "got"}
    BY <1>11 DEF DispatchEnd, queueVars
  <2> QED
    BY <2>1 DEF PlaceInv, PendingOnce, Holding, InHand, InReady, InDelayed
<1>12. CASE DoDestroy
  BY <1>4, <1>12 DEF DoDestroy
<1>13. ASSUME NEW c \in Caller, NEW h, NEW i, Clear(c, h, i) PROVE PlaceInv'
  BY <1>4, <1>13 DEF Clear
<1>14. ASSUME NEW h \in Handler, DeleteHandler(h) PROVE PlaceInv'
  BY <1>4, <1>14 DEF DeleteHandler
<1>15. CASE UNCHANGED vars
  BY <1>15, PlaceSame DEF vars, queueVars
<1> QED
  BY <1>1, <1>2, <1>3, <1>5, <1>6, <1>7, <1>8, <1>9, <1>10, <1>11, <1>12, <1>13,
     <1>14, <1>15
     DEF Next, GetStep, CallStep, Post, PostDelayed, PostAt

\* No interleaving of posts, moves of due messages, pops, clears and deletions of
\* handlers loses a queued message or has it in two places.
THEOREM PendingOnceHolds == Spec => []PendingOnce
<1>1. TypeInv /\ PlaceInv /\ [Next]_vars => (TypeInv /\ PlaceInv)'
  BY TypeStep, PlaceStep
<1>2. PlaceInv => PendingOnce
  BY DEF PlaceInv
<1> QED
  BY TypeInit, PlaceInit, <1>1, <1>2, PTL DEF Spec

-----------------------------------------------------------------------------
(* A sealed fate stays sealed: only messages that are new, being pushed or   *)
(* pending change their fate, by PlaceInv.                                   *)

SealedStep ==
  \A m \in Msg : fate[m] \in {"refused", "handled", "disposed", "cleared"}
                   => fate'[m] = fate[m]

\* Settling what is queued or in hand touches no sealed message.
LEMMA SettleSealed ==
  ASSUME TypeInv, PlaceInv, NEW gone, NEW end, Settle(gone, end),
         \A m \in gone \cap Msg : m \in Queued \/ InHand(m)
  PROVE  SealedStep
<1>1. \A m \in gone \cap Msg : fate[m] = "pending"
  BY DEF Queued, PlaceInv, PendingOnce, InReady, InDelayed
<1> QED
  BY <1>1 DEF Settle, SealedStep

\* No step changes a sealed fate.
LEMMA SealedNext == TypeInv /\ PlaceInv /\ [Next]_vars => SealedStep
<1> SUFFICES ASSUME TypeInv, PlaceInv, [Next]_vars PROVE SealedStep
  OBVIOUS
<1>1. ASSUME NEW c \in Caller, NEW m \in Msg, NEW at, PostBegin(c, m, at)
      PROVE  SealedStep
  BY <1>1 DEF PostBegin, SealedStep, TypeInv, TypeOK
<1>2. ASSUME NEW c \in Caller, PostPush(c) PROVE SealedStep
  BY <1>2 DEF PostPush, SealedStep, TypeInv, TypeOK, PlaceInv, Holding
<1>3. CASE fate' = fate
  BY <1>3 DEF SealedStep
<1>4. ASSUME NEW handler, NEW id, ClearMatching(handler, id) PROVE SealedStep
  BY <1>4, SettleSealed DEF ClearMatching
<1>5. CASE GetDispose
  BY <1>5, SettleSealed DEF GetDispose, InHand
<1>6. CASE Dispatch
  BY <1>6, SettleSealed DEF Dispatch, InHand
<1>7. CASE \E c \in Caller : WakeUpSocketServer(c) \/ Quit(c)
  BY <1>3, <1>7, Zenon DEF WakeUpSocketServer, Quit
<1>8. CASE \E cms \in Loop : ProcessMessages(cms)
  BY <1>3, <1>8, Zenon DEF ProcessMessages
<1>9. CASE GetBegin \/ GetLock \/ GetMoveDue \/ GetPop \/ GetPopAgain \/ DispatchEnd
           \/ GetQuitCheck \/ GetWait \/ GetWaitFails \/ GetTimeCheck \/ Tick \/ Restart
  BY <1>3, <1>9, Zenon DEF GetBegin, GetLock, GetMoveDue, GetPop, GetPopAgain,
     DispatchEnd, GetQuitCheck, GetWait, GetWaitFails, GetTimeCheck, Tick, Restart
<1>10. CASE DoDestroy
  BY <1>4, <1>10 DEF DoDestroy
<1>11. CASE \E c \in Caller, h \in Handler, i \in Id \cup {MQID_ANY} : Clear(c, h, i)
  BY <1>4, <1>11 DEF Clear
<1>12. CASE \E h \in Handler : DeleteHandler(h)
  BY <1>4, <1>12 DEF DeleteHandler
<1>13. CASE UNCHANGED vars
  BY <1>3, <1>13 DEF vars
<1> QED
  BY <1>1, <1>2, <1>5, <1>6, <1>7, <1>8, <1>9, <1>10, <1>11, <1>12, <1>13
     DEF Next, GetStep, CallStep, Post, PostDelayed, PostAt

\* A message that was refused, handled, disposed of or cleared stays so.
THEOREM SealedHolds == Spec => Sealed
<1>1. TypeInv /\ PlaceInv /\ [Next]_vars => (TypeInv /\ PlaceInv)'
  BY TypeStep, PlaceStep
<1>2. TypeInv /\ PlaceInv /\ [Next]_vars => [SealedStep]_vars
  BY SealedNext
<1> QED
  BY TypeInit, PlaceInit, <1>1, <1>2, PTL DEF Spec, Sealed, SealedStep

-----------------------------------------------------------------------------
(* No wake-up is lost. *)

\* From the last look at the queues to the wait: what has come in since is
\* announced by a wake-up, and the delay of the first delayed message is known.
WakeInv ==
  /\ pc \in {"quitcheck", "wait"} /\ ~WakeComing => msgq_ = {}
  /\ pc \in {"dispose", "repop", "quitcheck"} /\ ~WakeComing /\ dmsgq_ # {}
       => cmsDelayNext # kForever
  /\ pc = "wait" /\ ~WakeComing => ~stop_
  /\ pc = "wait" /\ ~WakeComing /\ dmsgq_ # {} => wakeAt # kForever

\* Steps that add nothing and leave the owner where it is.
LEMMA WakeSame ==
  ASSUME WakeInv, WakeComing => WakeComing', pc' = pc,
         msgq_' \subseteq msgq_, dmsgq_' \subseteq dmsgq_, stop_' = stop_,
         UNCHANGED <<cmsDelayNext, wakeAt>>
  PROVE  WakeInv'
  BY DEF WakeInv

\* Steps after which the owner is not on its way to the wait.
LEMMA WakeElsewhere ==
  ASSUME pc' \notin {"dispose", "repop", "quitcheck", "wait"}
  PROVE  WakeInv'
  BY DEF WakeInv

\* The wake-up invariant holds initially.
LEMMA WakeInit == Init => WakeInv
  BY DEF Init, WakeInv

\* No step leaves the owner on its way to the wait with unannounced work.
LEMMA WakeStep == TypeInv /\ WakeInv /\ [Next]_vars => WakeInv'
<1> SUFFICES ASSUME TypeInv, WakeInv, [Next]_vars PROVE WakeInv'
  OBVIOUS
<1>1. ASSUME NEW c \in Caller, NEW m \in Msg, NEW at, PostBegin(c, m, at)
      PROVE  WakeInv'
  <2>1. call[c] = Idle /\ \A x \in Caller \ {c} : call'[x] = call[x]
    BY <1>1, Zenon DEF PostBegin, TypeInv, TypeOK
  <2>2. WakeComing => WakeComing'
    BY <1>1, <2>1 DEF WakeComing, PostBegin, Idle
  <2> QED
    BY <1>1, <2>2, WakeSame DEF PostBegin, queueVars, getVars
<1>2. ASSUME NEW c \in Caller, PostPush(c) \/ Quit(c) PROVE WakeInv'
  <2>1. call'[c].op = "wake"
    BY <1>2 DEF PostPush, Quit, ThenWakeUp, TypeInv, TypeOK
  <2> QED
    BY <1>2, <2>1 DEF WakeInv, WakeComing
<1>3. ASSUME NEW c \in Caller, WakeUpSocketServer(c) PROVE WakeInv'
  BY <1>3 DEF WakeUpSocketServer, WakeInv, WakeComing
<1>4. ASSUME NEW handler, NEW id, ClearMatching(handler, id),
             UNCHANGED <<stop_, signaled, pc, getVars, call>>
      PROVE  WakeInv'
  BY <1>4, WakeSame DEF ClearMatching, WakeComing, getVars
<1>5. CASE GetBegin \/ GetLock \/ GetMoveDue \/ Dispatch \/ DispatchEnd \/ GetWait
           \/ GetWaitFails \/ GetTimeCheck \/ Restart \/ DoDestroy
  BY <1>5, WakeElsewhere DEF GetBegin, GetLock, GetMoveDue, Dispatch, DispatchEnd,
     GetWait, GetWaitFails, GetTimeCheck, Restart, DoDestroy, GetReturnsFalse
<1>6. CASE \E cms \in Loop : ProcessMessages(cms)
  BY <1>6, WakeElsewhere DEF ProcessMessages
<1>7. CASE GetPop
  <2>1. dmsgq_ # {} => cmsDelayNext' # kForever
    BY <1>7, QueueAssumption DEF GetPop, Due, TypeInv, TypeOK, Delayed
  <2>2. pc' \in {"dispose", "got", "quitcheck"} /\ (pc' = "quitcheck" => msgq_' = {})
    BY <1>7 DEF GetPop, TakeFront
  <2> QED
    BY <1>7, <2>1, <2>2 DEF GetPop, WakeInv
<1>8. CASE GetPopAgain
  <2>1. pc' \in {"dispose", "got", "quitcheck"} /\ (pc' = "quitcheck" => msgq_' = {})
    BY <1>8 DEF GetPopAgain, TakeFront
  <2> QED
    BY <1>8, <2>1 DEF GetPopAgain, WakeInv, WakeComing, getVars
<1>9. CASE GetDispose
  BY <1>9 DEF GetDispose, WakeInv, WakeComing, getVars
<1>10. CASE GetQuitCheck
  <2>1. CASE pc' \in {"idle", "exited"}
    BY <2>1, WakeElsewhere
  <2>2. CASE ~stop_ /\ pc' = "wait"
    <3>1. cmsDelayNext # kForever => wakeAt' # kForever
      BY <1>10, <2>2, QueueAssumption
         DEF GetQuitCheck, GetReturnsFalse, CmsNext, TypeInv, TypeOK
    <3>2. UNCHANGED <<msgq_, dmsgq_, stop_>> /\ WakeComing' = WakeComing /\ pc = "quitcheck"
      BY <1>10 DEF GetQuitCheck, queueVars, WakeComing
    <3> QED
      BY <2>2, <3>1, <3>2 DEF WakeInv
  <2> QED
    BY <1>10, <2>1, <2>2, Zenon DEF GetQuitCheck, GetReturnsFalse
<1>11. CASE Tick
  BY <1>11, WakeSame DEF Tick, queueVars, getVars, WakeComing
<1>12. CASE \E c \in Caller, h \in Handler, i \in Id \cup {MQID_ANY} : Clear(c, h, i)
  BY <1>4, <1>12 DEF Clear
<1>13. CASE \E h \in Handler : DeleteHandler(h)
  BY <1>4, <1>13 DEF DeleteHandler
<1>14. CASE UNCHANGED vars
  BY <1>14, WakeSame DEF vars, queueVars, getVars, WakeComing
<1> QED
  BY <1>1, <1>2, <1>3, <1>5, <1>6, <1>7, <1>8, <1>9, <1>10, <1>11, <1>12, <1>13, <1>14
     DEF Next, GetStep, CallStep, Post, PostDelayed, PostAt

\* The owner never waits while work is there and nobody is about to wake it.
THEOREM NoLostWakeUpHolds == Spec => []NoLostWakeUp
<1>1. TypeInv /\ WakeInv /\ [Next]_vars => (TypeInv /\ WakeInv)'
  BY TypeStep, WakeStep
<1>2. WakeInv => NoLostWakeUp
  BY DEF WakeInv, NoLostWakeUp
<1> QED
  BY TypeInit, WakeInit, <1>1, <1>2, PTL DEF Spec

-----------------------------------------------------------------------------
(* No delayed message comes out early. *)

\* The times recorded in the queues are the ones asked for, and the time that
\* Get compares them with is not ahead of the clock.
TimeInv ==
  /\ msCurrent <= now
  /\ \A c \in Caller : call[c].op = "push" => trigger[call[c].msg] = call[c].at
  /\ \A d \in dmsgq_ : d.msTrigger = trigger[d.msg]
  /\ NeverEarly

\* Settling messages that leave the queues at the same time.
LEMMA TimeSettle ==
  ASSUME TypeInv, PlaceInv, TimeInv, NEW gone, NEW end, Settle(gone, end),
         \A m \in gone \cap Msg : fate[m] = "pending",
         msgq_' \subseteq msgq_, dmsgq_' \subseteq dmsgq_,
         \A r \in msgq_' : r.msg \notin gone,
         \A d \in dmsgq_' : d.msg \notin gone,
         \A m \in Msg : InHand(m)' => InHand(m) /\ m \notin gone,
         call' = call, now' = now, msCurrent' \in {0, msCurrent}
  PROVE  TimeInv'
<1>1. \A m \in Msg : trigger'[m] = IF m \in gone THEN kForever ELSE trigger[m]
  BY DEF Settle
<1>2. msCurrent' <= now'
  BY DEF TimeInv, TypeInv, TypeOK
<1>3. \A c \in Caller : call'[c].op = "push" => trigger'[call'[c].msg] = call'[c].at
  BY <1>1 DEF TimeInv, TypeInv, PushHasMsg, PlaceInv, Holding
<1>4. \A d \in dmsgq_' : d.msTrigger = trigger'[d.msg]
  BY <1>1 DEF TimeInv, TypeInv, TypeOK, Delayed
<1>5. NeverEarly'
  BY <1>1 DEF TimeInv, NeverEarly, InReady
<1> QED
  BY <1>2, <1>3, <1>4, <1>5 DEF TimeInv

\* Steps that leave the queues, the triggers and what is in hand alone.
LEMMA TimeSame ==
  ASSUME TypeInv, TimeInv, UNCHANGED <<msgq_, dmsgq_, trigger>>,
         \A c \in Caller : call'[c].op = "push" => call'[c] = call[c],
         \A m \in Msg : InHand(m)' => InHand(m),
         now' \in Nat, now <= now', msCurrent' <= now'
  PROVE  TimeInv'
<1>1. NeverEarly'
  BY QueueAssumption DEF TimeInv, NeverEarly, InReady, TypeInv, TypeOK
<1> QED
  BY <1>1 DEF TimeInv

\* The invariant on times holds initially.
LEMMA TimeInit == Init => TimeInv
  BY QueueAssumption DEF Init, TimeInv, NeverEarly, InReady, InHand, Idle

\* Every step keeps the recorded times and the clock in agreement.
LEMMA TimeStep == TypeInv /\ PlaceInv /\ TimeInv /\ [Next]_vars => TimeInv'
<1> SUFFICES ASSUME TypeInv, PlaceInv, TimeInv, [Next]_vars PROVE TimeInv'
  OBVIOUS
<1>0. now \in Nat /\ msCurrent \in Nat /\ msCurrent <= now
  BY DEF TypeInv, TypeOK, TimeInv
<1>1. ASSUME NEW c \in Caller, NEW m \in Msg, NEW at, PostBegin(c, m, at)
      PROVE  TimeInv'
  <2>1. /\ fate[m] = "new"
        /\ UNCHANGED <<now, msgq_, dmsgq_, msCurrent, pc, pmsg>>
        /\ \/ UNCHANGED <<call, trigger>>
           \/ /\ call' = [call EXCEPT ![c] = [op |-> "push", msg |-> m, at |-> at]]
              /\ trigger' = [trigger EXCEPT ![m] = at]
    BY <1>1, Zenon DEF PostBegin, queueVars, getVars
  <2>2. \A x \in Msg : x # m => trigger'[x] = trigger[x]
    BY <2>1 DEF TypeInv, TypeOK
  <2>3. ~InReady(m) /\ ~InDelayed(m) /\ ~InHand(m)
    BY <2>1 DEF PlaceInv, PendingOnce
  <2>4. \A x \in Caller : call'[x].op = "push" =>
           \/ call'[x] = call[x] /\ call[x].msg # m
           \/ call'[x].msg = m /\ trigger'[m] = call'[x].at
    BY <2>1 DEF TypeInv, TypeOK, PlaceInv, Holding
  <2>5. \A x \in Caller : call'[x].op = "push" => trigger'[call'[x].msg] = call'[x].at
    BY <2>2, <2>4 DEF TimeInv, TypeInv, PushHasMsg
  <2>6. \A d \in dmsgq_' : d.msTrigger = trigger'[d.msg]
    BY <2>1, <2>2, <2>3 DEF TimeInv, InDelayed, TypeInv, TypeOK, Delayed
  <2>7. NeverEarly'
    BY <2>1, <2>2, <2>3 DEF TimeInv, NeverEarly, InReady, InHand
  <2> QED
    BY <1>0, <2>1, <2>5, <2>6, <2>7 DEF TimeInv
<1>2. ASSUME NEW c \in Caller, PostPush(c) PROVE TimeInv'
  <2> DEFINE m == call[c].msg
             at == call[c].at
  <2>1. m \in Msg /\ trigger[m] = at /\ at \in Nat \cup {kForever}
    BY <1>2 DEF PostPush, TypeInv, TypeOK, PushHasMsg, TimeInv
  <2>2. UNCHANGED <<now, msCurrent, trigger, pc, pmsg>>
    BY <1>2 DEF PostPush, getVars
  <2>3. \A x \in Caller : call'[x].op = "push" => call'[x] = call[x]
    BY <1>2 DEF PostPush, ThenWakeUp, TypeInv, TypeOK
  <2>4. \A x \in Msg : InReady(x)' => InReady(x) \/ (x = m /\ at = kForever)
    BY <1>2 DEF PostPush, InReady
  <2>5. NeverEarly'
    BY <2>1, <2>2, <2>4, QueueAssumption DEF NeverEarly, InHand, TimeInv, TypeInv, TypeOK
  <2>6. \A d \in dmsgq_' : d.msTrigger = trigger'[d.msg]
    BY <1>2, <2>1, <2>2 DEF PostPush, TimeInv
  <2> QED
    BY <1>0, <2>2, <2>3, <2>5, <2>6 DEF TimeInv
<1>3. ASSUME NEW c \in Caller, WakeUpSocketServer(c) \/ Quit(c) PROVE TimeInv'
  <2>1. \A x \in Caller : call'[x].op = "push" => call'[x] = call[x]
    BY <1>3 DEF WakeUpSocketServer, Quit, Idle, ThenWakeUp, TypeInv, TypeOK
  <2> QED
    BY <1>0, <1>3, <2>1, TimeSame
       DEF WakeUpSocketServer, Quit, queueVars, getVars, histVars, InHand
<1>4. ASSUME NEW handler, NEW id, ClearMatching(handler, id),
             UNCHANGED <<now, msCurrent, pmsg, call>>,
             pc' = pc \/ pc' = "destroyed"
      PROVE  TimeInv'
  <2> DEFINE gone == {m \in Queued : Match(m, handler, id)}
             end == [m \in Msg |-> "cleared"]
  <2>1. /\ msgq_' = {r \in msgq_ : r.msg \notin gone}
        /\ dmsgq_' = {d \in dmsgq_ : d.msg \notin gone}
        /\ Settle(gone, end)
    BY <1>4 DEF ClearMatching, Queued
  <2>2. \A m \in gone \cap Msg : fate[m] = "pending" /\ ~InHand(m)
    BY DEF Queued, PlaceInv, PendingOnce, InReady, InDelayed
  <2> HIDE DEF gone, end
  <2>3. \A m \in Msg : InHand(m)' => InHand(m) /\ m \notin gone
    BY <1>4, <2>2 DEF InHand
  <2> QED
    BY <1>4, <2>1, <2>2, <2>3, TimeSettle
<1>5. CASE GetBegin \/ GetLock \/ GetQuitCheck \/ GetWait \/ GetWaitFails \/ GetTimeCheck
           \/ Tick \/ Restart \/ DispatchEnd
  <2>1. UNCHANGED <<msgq_, dmsgq_, trigger, call>>
    BY <1>5, Zenon DEF GetBegin, GetLock, GetQuitCheck, GetWait, GetWaitFails,
       GetTimeCheck, Tick, Restart, DispatchEnd, queueVars, histVars
  <2>2. now' \in Nat /\ now <= now' /\ msCurrent' <= now'
    BY <1>0, <1>5 DEF GetBegin, GetLock, GetQuitCheck, GetWait, GetWaitFails, GetTimeCheck,
       Tick, Restart, DispatchEnd, GetReturnsFalse, GetReturns, getVars
  <2>3. \A m \in Msg : InHand(m)' => InHand(m)
    BY <1>5 DEF GetBegin, GetLock, GetQuitCheck, GetWait, GetWaitFails, GetTimeCheck, Tick,
       Restart, DispatchEnd, GetReturnsFalse, InHand
  <2> QED
    BY <2>1, <2>2, <2>3, TimeSame
<1>6. CASE \E cms \in Loop : ProcessMessages(cms)
  BY <1>0, <1>6, TimeSame DEF ProcessMessages, queueVars, histVars, InHand
<1>7. CASE GetMoveDue
  <2>1. PICK d \in dmsgq_ : /\ Due(d)
                            /\ msgq_' = msgq_ \cup {[msg |-> d.msg, seq |-> pushed_]}
                            /\ dmsgq_' = dmsgq_ \ {d}
    BY <1>7 DEF GetMoveDue
  <2>2. UNCHANGED <<now, msCurrent, trigger, call, pc, pmsg>>
    BY <1>7 DEF GetMoveDue, getVars, histVars
  <2>3. trigger[d.msg] <= now /\ d.msg \in Msg
    BY <1>0, <2>1 DEF Due, TimeInv, TypeInv, TypeOK, Delayed
  <2>4. \A x \in Msg : InReady(x)' => InReady(x) \/ x = d.msg
    BY <2>1 DEF InReady
  <2>5. NeverEarly'
    BY <2>2, <2>3, <2>4 DEF NeverEarly, InHand, TimeInv
  <2> QED
    BY <1>0, <2>1, <2>2, <2>5 DEF TimeInv
<1>8. CASE GetPop \/ GetPopAgain
  <2>1. UNCHANGED <<now, msCurrent, trigger, call, dmsgq_>> /\ TakeFront
    BY <1>8, Zenon DEF GetPop, GetPopAgain, getVars, histVars
  <2>2. \A m \in Msg : InHand(m)' \/ InReady(m)' => InHand(m) \/ InReady(m)
    BY <2>1 DEF TakeFront, PopFront, InHand, InReady
  <2>3. NeverEarly'
    BY <2>1, <2>2 DEF NeverEarly, TimeInv
  <2> QED
    BY <1>0, <2>1, <2>3 DEF TimeInv
<1>9. CASE GetDispose
  <2> DEFINE gone == {m \in Queued : doomed[pmsg] # NULL /\ phandler[m] = doomed[pmsg]}
             end == [m \in Msg |-> IF m = pmsg THEN "disposed" ELSE "cleared"]
  <2>1. /\ msgq_' = {r \in msgq_ : r.msg \notin gone}
        /\ dmsgq_' = {d \in dmsgq_ : d.msg \notin gone}
        /\ pc = "dispose" /\ pc' = "repop" /\ UNCHANGED <<call, now, msCurrent>>
        /\ Settle(gone \cup {pmsg}, end)
    BY <1>9 DEF GetDispose, getVars
  <2>2. \A m \in gone : m \in Queued
    OBVIOUS
  <2> HIDE DEF gone, end
  <2>3. \A m \in (gone \cup {pmsg}) \cap Msg : fate[m] = "pending"
    BY <2>1, <2>2 DEF Queued, PlaceInv, PendingOnce, InReady, InDelayed, InHand
  <2>4. /\ \A r \in msgq_' : r.msg \notin gone \cup {pmsg}
        /\ \A d \in dmsgq_' : d.msg \notin gone \cup {pmsg}
    BY <2>1 DEF PlaceInv, PendingOnce, Holding, InReady, InDelayed, InHand
  <2>5. \A m \in Msg : ~InHand(m)'
    BY <2>1 DEF InHand
  <2> QED
    BY <2>1, <2>3, <2>4, <2>5, TimeSettle
<1>10. CASE Dispatch
  <2>1. /\ UNCHANGED <<msgq_, dmsgq_, call, now>> /\ pc = "got" /\ pc' = "dispatch"
        /\ msCurrent' = 0 /\ Settle({pmsg}, [m \in Msg |-> "handled"])
    BY <1>10 DEF Dispatch, GetReturns, queueVars
  <2>2. InHand(pmsg) /\ pmsg \in Msg
    BY <2>1 DEF InHand, PlaceInv, Holding
  <2>3. fate[pmsg] = "pending" /\ ~InReady(pmsg) /\ ~InDelayed(pmsg)
    BY <2>2 DEF PlaceInv, PendingOnce
  <2>4. \A m \in Msg : ~InHand(m)'
    BY <2>1 DEF InHand
  <2> QED
    BY <2>1, <2>2, <2>3, <2>4, TimeSettle DEF InReady, InDelayed
<1>11. CASE DoDestroy
  BY <1>4, <1>11 DEF DoDestroy, getVars
<1>12. CASE \E c \in Caller, h \in Handler, i \in Id \cup {MQID_ANY} : Clear(c, h, i)
  BY <1>4, <1>12 DEF Clear, getVars
<1>13. CASE \E h \in Handler : DeleteHandler(h)
  BY <1>4, <1>13 DEF DeleteHandler, getVars
<1>14. CASE UNCHANGED vars
  BY <1>0, <1>14, TimeSame DEF vars, queueVars, getVars, histVars, InHand
<1> QED
  BY <1>1, <1>2, <1>3, <1>5, <1>6, <1>7, <1>8, <1>9, <1>10, <1>11, <1>12, <1>13, <1>14
     DEF Next, GetStep, CallStep, Post, PostDelayed, PostAt

\* A message with a trigger time is neither ready nor popped before that time.
THEOREM NeverEarlyHolds == Spec => []NeverEarly
<1>1. TypeInv /\ PlaceInv /\ TimeInv /\ [Next]_vars => (TypeInv /\ PlaceInv /\ TimeInv)'
  BY TypeStep, PlaceStep, TimeStep
<1>2. TimeInv => NeverEarly
  BY DEF TimeInv
<1> QED
  BY TypeInit, PlaceInit, TimeInit, <1>1, <1>2, PTL DEF Spec

-----------------------------------------------------------------------------
(* Messages only for handlers that are alive. *)

LiveInv ==
  /\ OnlyLiveHandlers
  /\ \A c \in Caller : call[c].op = "push" /\ phandler[call[c].msg] # NULL
                         => phandler[call[c].msg] \in alive

\* Steps that kill nobody and queue nothing new.
LEMMA LiveSame ==
  ASSUME LiveInv, alive' = alive,
         \A m \in Msg : (m \in Queued \/ InHand(m))' => m \in Queued \/ InHand(m),
         \A c \in Caller : call'[c].op = "push" => call'[c] = call[c]
  PROVE  LiveInv'
  BY DEF LiveInv, OnlyLiveHandlers

\* Nothing is queued initially, so nothing for a dead handler.
LEMMA LiveInit == Init => LiveInv
  BY DEF Init, LiveInv, OnlyLiveHandlers, Queued, InHand, Idle

\* Every step that deletes a handler removes its messages, and no step
\* queues one for it.
LEMMA LiveStep == TypeInv /\ PlaceInv /\ LiveInv /\ [Next]_vars => LiveInv'
<1> SUFFICES ASSUME TypeInv, PlaceInv, LiveInv, [Next]_vars PROVE LiveInv'
  OBVIOUS
<1>1. ASSUME NEW c \in Caller, NEW m \in Msg, NEW at, PostBegin(c, m, at)
      PROVE  LiveInv'
  <2>1. /\ UNCHANGED <<msgq_, dmsgq_, pc, pmsg, alive>>
        /\ phandler[m] # NULL => phandler[m] \in alive
        /\ \/ UNCHANGED call
           \/ call' = [call EXCEPT ![c] = [op |-> "push", msg |-> m, at |-> at]]
    BY <1>1, Zenon DEF PostBegin, queueVars
  <2>2. \A x \in Caller : call'[x] = call[x] \/ call'[x].msg = m
    BY <2>1 DEF TypeInv, TypeOK
  <2> QED
    BY <2>1, <2>2 DEF LiveInv, OnlyLiveHandlers, Queued, InHand
<1>2. ASSUME NEW c \in Caller, PostPush(c) PROVE LiveInv'
  <2> DEFINE m == call[c].msg
  <2>1. UNCHANGED <<pc, pmsg, alive>> /\ call[c].op = "push"
    BY <1>2 DEF PostPush
  <2>2. \A x \in Caller : call'[x].op = "push" => call'[x] = call[x]
    BY <1>2 DEF PostPush, ThenWakeUp, TypeInv, TypeOK
  <2>3. \A x \in Msg : x \in Queued' => x \in Queued \/ x = m
    BY <1>2 DEF PostPush, Queued
  <2> QED
    BY <2>1, <2>2, <2>3 DEF LiveInv, OnlyLiveHandlers, InHand
<1>3. ASSUME NEW c \in Caller, WakeUpSocketServer(c) \/ Quit(c) PROVE LiveInv'
  <2>1. \A x \in Caller : call'[x].op = "push" => call'[x] = call[x]
    BY <1>3 DEF WakeUpSocketServer, Quit, Idle, ThenWakeUp, TypeInv, TypeOK
  <2> QED
    BY <1>3, <2>1, LiveSame DEF WakeUpSocketServer, Quit, queueVars, InHand, Queued
<1>4. CASE GetBegin \/ GetLock \/ GetQuitCheck \/ GetWait \/ GetWaitFails \/ GetTimeCheck
           \/ Tick \/ Restart \/ Dispatch \/ DispatchEnd
  <2>1. UNCHANGED <<msgq_, dmsgq_, alive, call>>
    BY <1>4, Zenon DEF GetBegin, GetLock, GetQuitCheck, GetWait, GetWaitFails,
       GetTimeCheck, Tick, Restart, Dispatch, DispatchEnd, queueVars
  <2>2. \A m \in Msg : InHand(m)' => InHand(m)
    BY <1>4 DEF GetBegin, GetLock, GetQuitCheck, GetWait, GetWaitFails, GetTimeCheck, Tick,
       Restart, Dispatch, DispatchEnd, GetReturnsFalse, InHand
  <2> QED
    BY <2>1, <2>2, LiveSame DEF Queued
<1>5. CASE \E cms \in Loop : ProcessMessages(cms)
  BY <1>5, LiveSame DEF ProcessMessages, queueVars, InHand, Queued
<1>6. CASE GetMoveDue
  <2>1. UNCHANGED <<alive, call, pc, pmsg>>
    BY <1>6 DEF GetMoveDue
  <2>2. \A m \in Msg : m \in Queued' => m \in Queued
    BY <1>6 DEF GetMoveDue, Queued
  <2> QED
    BY <2>1, <2>2, LiveSame DEF InHand
<1>7. CASE GetPop \/ GetPopAgain
  <2>1. UNCHANGED <<alive, call, dmsgq_>> /\ TakeFront
    BY <1>7, Zenon DEF GetPop, GetPopAgain
  <2>2. \A m \in Msg : (m \in Queued \/ InHand(m))' => m \in Queued \/ InHand(m)
    BY <2>1 DEF TakeFront, PopFront, InHand, Queued
  <2> QED
    BY <2>1, <2>2, LiveSame
<1>8. CASE GetDispose
  <2> DEFINE h == doomed[pmsg]
  <2>1. /\ UNCHANGED call /\ alive' = alive \ {h} /\ pc' = "repop"
        /\ h # NULL => NobodyPostsFor(h)
        /\ \A r \in msgq_' : r \in msgq_ /\ (h # NULL => phandler[r.msg] # h)
        /\ \A d \in dmsgq_' : d \in dmsgq_ /\ (h # NULL => phandler[d.msg] # h)
    BY <1>8 DEF GetDispose, Queued
  <2>2. \A m \in Queued' : m \in Queued /\ (h # NULL => phandler[m] # h)
    BY <2>1 DEF Queued
  <2> QED
    BY <2>1, <2>2 DEF LiveInv, OnlyLiveHandlers, InHand, NobodyPostsFor
<1>9. CASE DoDestroy
  <2>1. \A m : Match(m, NULL, MQID_ANY)
    BY DEF Match
  <2>2. Queued' = {} /\ pc' = "destroyed"
    BY <1>9, <2>1 DEF DoDestroy, ClearMatching, Queued
  <2>3. \A c \in Caller : call'[c].op # "push"
    BY <1>9 DEF DoDestroy, Idle
  <2> QED
    BY <2>2, <2>3 DEF LiveInv, OnlyLiveHandlers, InHand
<1>10. CASE \E c \in Caller, h \in Handler, i \in Id \cup {MQID_ANY} : Clear(c, h, i)
  <2>1. PICK h \in Handler, i \in Id \cup {MQID_ANY} : ClearMatching(h, i) /\ UNCHANGED <<alive, call, pc, pmsg>>
    BY <1>10 DEF Clear
  <2>2. \A m \in Queued' : m \in Queued
    BY <2>1 DEF ClearMatching, Queued
  <2> QED
    BY <2>1, <2>2, LiveSame DEF InHand
<1>11. ASSUME NEW h \in Handler, DeleteHandler(h) PROVE LiveInv'
  <2>1. /\ UNCHANGED <<call, pc>> /\ alive' = alive \ {h} /\ pc = "dispatch"
        /\ NobodyPostsFor(h) /\ ClearMatching(h, MQID_ANY)
    BY <1>11 DEF DeleteHandler
  <2>2. \A m : phandler[m] = h => Match(m, h, MQID_ANY)
    BY DEF Match
  <2>3. \A m \in Queued' : m \in Queued /\ phandler[m] # h
    BY <2>1, <2>2 DEF ClearMatching, Queued
  <2> QED
    BY <2>1, <2>3 DEF LiveInv, OnlyLiveHandlers, InHand, NobodyPostsFor
<1>12. CASE UNCHANGED vars
  BY <1>12, LiveSame DEF vars, queueVars, InHand, Queued
<1> QED
  BY <1>1, <1>2, <1>3, <1>4, <1>5, <1>6, <1>7, <1>8, <1>9, <1>10, <1>11, <1>12
     DEF Next, GetStep, CallStep, Post, PostDelayed, PostAt

\* A deleted handler has no message in the queues, and none that Get returns.
THEOREM OnlyLiveHandlersHolds == Spec => []OnlyLiveHandlers
<1>1. TypeInv /\ PlaceInv /\ LiveInv /\ [Next]_vars => (TypeInv /\ PlaceInv /\ LiveInv)'
  BY TypeStep, PlaceStep, LiveStep
<1>2. LiveInv => OnlyLiveHandlers
  BY DEF LiveInv
<1> QED
  BY TypeInit, PlaceInit, LiveInit, <1>1, <1>2, PTL DEF Spec

-----------------------------------------------------------------------------
(* Messages come out in order. *)

\* What is ahead of a message is pending, and stays ahead of it: for a ready
\* message it is in hand or at a smaller place of msgq_, for a delayed one it
\* is in hand, ready, or triggers sooner.
OrderInv ==
  /\ \A r \in msgq_ : r.seq < pushed_
  /\ \A m \in Msg : \A n \in ahead[m] : fate[n] = "pending"
  /\ \A r \in msgq_ : \A n \in ahead[r.msg] : ~SameTrigger(r.msg, n) =>
       InHand(n) \/ \E s \in msgq_ : s.msg = n /\ s.seq < r.seq
  /\ \A d \in dmsgq_ : \A n \in ahead[d.msg] : ~SameTrigger(d.msg, n) =>
       InHand(n) \/ InReady(n) \/ trigger[n] < trigger[d.msg]
  /\ SoonerFirst

\* Steps that leave the queues and what is recorded about them alone.
LEMMA OrderSame ==
  ASSUME TypeInv, OrderInv, UNCHANGED <<msgq_, dmsgq_, trigger, ahead, fate, pushed_>>,
         \A m \in Msg : InHand(m)' <=> InHand(m)
  PROVE  OrderInv'
<1>1. /\ \A m \in Msg : \A n \in ahead[m] : n \in Msg
      /\ \A r \in msgq_ : r.msg \in Msg
      /\ \A d \in dmsgq_ : d.msg \in Msg
  BY DEF TypeInv, TypeOK, Ready, Delayed
<1>2. \A m, n \in Msg : SameTrigger(m, n)' <=> SameTrigger(m, n)
  BY DEF SameTrigger
<1>3. \A m \in Msg : InReady(m)' <=> InReady(m)
  BY DEF InReady
<1>4. SoonerFirst'
  BY <1>1, <1>2 DEF OrderInv, SoonerFirst, Overtook
<1>5. \A r \in msgq_' : \A n \in ahead'[r.msg] : ~SameTrigger(r.msg, n)' =>
        InHand(n)' \/ \E s \in msgq_' : s.msg = n /\ s.seq < r.seq
  BY <1>1, <1>2 DEF OrderInv
<1>6. \A d \in dmsgq_' : \A n \in ahead'[d.msg] : ~SameTrigger(d.msg, n)' =>
        InHand(n)' \/ InReady(n)' \/ trigger'[n] < trigger'[d.msg]
  BY <1>1, <1>2, <1>3 DEF OrderInv
<1> QED
  BY <1>4, <1>5, <1>6 DEF OrderInv

\* Settling messages that leave the queues, or the owner's hands, with it.
LEMMA OrderSettle ==
  ASSUME TypeInv, PlaceInv, OrderInv, NEW gone, NEW end, Settle(gone, end),
         msgq_' = {r \in msgq_ : r.msg \notin gone},
         dmsgq_' = {d \in dmsgq_ : d.msg \notin gone},
         \A m \in Msg : InHand(m)' <=> InHand(m) /\ m \notin gone,
         pushed_' = pushed_
  PROVE  OrderInv'
<1>1. \A m \in Msg : /\ m \in gone => ahead'[m] = {}
                     /\ m \notin gone => /\ ahead'[m] = ahead[m] \ gone
                                         /\ trigger'[m] = trigger[m]
                                         /\ fate'[m] = fate[m]
  BY DEF Settle
<1>2. \A m \in Msg : \A n \in ahead'[m] :
         /\ m \notin gone /\ n \notin gone /\ n \in ahead[m] /\ n \in Msg
         /\ SameTrigger(m, n)' <=> SameTrigger(m, n)
         /\ InHand(n)' <=> InHand(n)
         /\ InHand(m)' <=> InHand(m)
         /\ fate'[n] = fate[n]
         /\ trigger'[n] = trigger[n] /\ trigger'[m] = trigger[m]
  BY <1>1 DEF TypeInv, TypeOK, SameTrigger
<1>3. /\ \A r \in msgq_' : r \in msgq_ /\ r.msg \in Msg
      /\ \A d \in dmsgq_' : d \in dmsgq_ /\ d.msg \in Msg
      /\ \A r \in msgq_ : r.msg \notin gone => r \in msgq_'
  BY DEF TypeInv, TypeOK, Ready, Delayed
<1>4. \A m \in Msg : \A n \in ahead'[m] : fate'[n] = "pending"
  BY <1>2 DEF OrderInv
<1>5. \A r \in msgq_' : \A n \in ahead'[r.msg] : ~SameTrigger(r.msg, n)' =>
        InHand(n)' \/ \E s \in msgq_' : s.msg = n /\ s.seq < r.seq
  BY <1>2, <1>3 DEF OrderInv
<1>6. \A d \in dmsgq_' : \A n \in ahead'[d.msg] : ~SameTrigger(d.msg, n)' =>
        InHand(n)' \/ InReady(n)' \/ trigger'[n] < trigger'[d.msg]
  BY <1>2, <1>3 DEF OrderInv, InReady
<1>7. SoonerFirst'
  BY <1>2 DEF OrderInv, SoonerFirst, Overtook
<1>8. \A r \in msgq_' : r.seq < pushed_'
  BY <1>3 DEF OrderInv
<1> QED
  BY <1>4, <1>5, <1>6, <1>7, <1>8 DEF OrderInv

\* The invariant on the order holds initially.
LEMMA OrderInit == Init => OrderInv
  BY DEF Init, OrderInv, SoonerFirst, Overtook, InHand

\* Every step keeps what is ahead of a message ahead of it.
LEMMA OrderStep ==
  TypeInv /\ PlaceInv /\ TimeInv /\ OrderInv /\ [Next]_vars => OrderInv'
<1> SUFFICES ASSUME TypeInv, PlaceInv, TimeInv, OrderInv, [Next]_vars PROVE OrderInv'
  OBVIOUS
<1>0. /\ \A m \in Msg : \A n \in ahead[m] : n \in Msg /\ fate[n] = "pending"
      /\ \A r \in msgq_ : r.msg \in Msg /\ r.seq \in Nat /\ fate[r.msg] = "pending"
      /\ \A d \in dmsgq_ : d.msg \in Msg /\ fate[d.msg] = "pending"
  BY DEF OrderInv, PlaceInv, PendingOnce, InReady, InDelayed, TypeInv, TypeOK, Ready, Delayed
<1>1. ASSUME NEW c \in Caller, NEW m \in Msg, NEW at, PostBegin(c, m, at)
      PROVE  OrderInv'
  <2>1. /\ fate[m] = "new" /\ UNCHANGED <<msgq_, dmsgq_, pushed_, pc, pmsg, ahead>>
        /\ \/ fate' = [fate EXCEPT ![m] = "refused"] /\ UNCHANGED trigger
           \/ /\ fate' = [fate EXCEPT ![m] = "pushing"]
              /\ trigger' = [trigger EXCEPT ![m] = at]
    BY <1>1, Zenon DEF PostBegin, queueVars
  <2>2. \A x \in Msg : x # m => trigger'[x] = trigger[x] /\ fate'[x] = fate[x]
    BY <2>1 DEF TypeInv, TypeOK
  <2>3. \A x \in Msg : InHand(x)' <=> InHand(x)
    BY <2>1 DEF InHand
  <2>4. \A x, n \in Msg : fate[x] = "pending" /\ fate[n] = "pending" =>
           (SameTrigger(x, n)' <=> SameTrigger(x, n))
    BY <2>1, <2>2 DEF SameTrigger
  <2>5. SoonerFirst'
    <3>1. \A x \in Msg : InHand(x) => fate[x] = "pending"
      BY DEF PlaceInv, PendingOnce
    <3> QED
      BY <1>0, <2>1, <2>3, <2>4, <3>1 DEF OrderInv, SoonerFirst, Overtook
  <2>6. \A x \in Msg : \A n \in ahead'[x] : fate'[n] = "pending"
    BY <1>0, <2>1, <2>2
  <2>7. \A r \in msgq_' : \A n \in ahead'[r.msg] : ~SameTrigger(r.msg, n)' =>
          InHand(n)' \/ \E s \in msgq_' : s.msg = n /\ s.seq < r.seq
    BY <1>0, <2>1, <2>3, <2>4 DEF OrderInv
  <2>8. \A d \in dmsgq_' : \A n \in ahead'[d.msg] : ~SameTrigger(d.msg, n)' =>
          InHand(n)' \/ InReady(n)' \/ trigger'[n] < trigger'[d.msg]
    BY <1>0, <2>1, <2>2, <2>3, <2>4 DEF OrderInv, InReady
  <2>9. \A r \in msgq_' : r.seq < pushed_'
    BY <2>1 DEF OrderInv
  <2> QED
    BY <2>5, <2>6, <2>7, <2>8, <2>9 DEF OrderInv
<1>2. ASSUME NEW c \in Caller, PostPush(c) PROVE OrderInv'
  <2>0. PICK m \in Msg, at \in Nat \cup {kForever} : m = call[c].msg /\ at = call[c].at
    BY <1>2 DEF PostPush, TypeInv, TypeOK, PushHasMsg
  <2>1. m \in Msg /\ trigger[m] = at /\ at \in Nat \cup {kForever} /\ fate[m] = "pushing"
    BY <1>2, <2>0 DEF PostPush, TimeInv, PlaceInv, Holding
  <2>2. /\ UNCHANGED <<trigger, pc, pmsg>>
        /\ fate' = [fate EXCEPT ![m] = "pending"]
        /\ ahead' = [ahead EXCEPT ![m] =
             {r.msg : r \in msgq_} \cup
             {d.msg : d \in {d \in dmsgq_ : at # kForever /\ d.msTrigger <= at}}]
    BY <1>2, <2>0 DEF PostPush
  <2> DEFINE new == [msg |-> m, seq |-> pushed_]
             dnew == [msTrigger |-> at, num |-> dmsgq_next_num_, msg |-> m]
  <2>3. /\ new.msg = m /\ new.seq = pushed_ /\ dnew.msg = m
        /\ \/ msgq_' = msgq_ \cup {new} /\ pushed_' = pushed_ + 1 /\ dmsgq_' = dmsgq_
              /\ at = kForever
           \/ msgq_' = msgq_ /\ pushed_' = pushed_ /\ dmsgq_' = dmsgq_ \cup {dnew}
              /\ at # kForever
    BY <1>2, <2>0 DEF PostPush
  <2> HIDE DEF new, dnew
  <2>4. ~InReady(m) /\ ~InDelayed(m) /\ ~InHand(m)
    BY <2>1 DEF PlaceInv, PendingOnce
  <2>5. \A x \in Msg : InHand(x)' <=> InHand(x)
    BY <2>2 DEF InHand
  <2>6. \A x, y \in Msg : SameTrigger(x, y)' <=> SameTrigger(x, y)
    BY <2>2 DEF SameTrigger
  <2>7. /\ \A x \in Msg : x # m => ahead'[x] = ahead[x]
        /\ \A n \in ahead'[m] : \/ InReady(n)
                                \/ \E d \in dmsgq_ : d.msg = n /\ d.msTrigger <= at
                                                      /\ at # kForever
    BY <2>1, <2>2 DEF TypeInv, TypeOK, InReady
  <2>8. \A n \in ahead'[m] : n \in Msg /\ fate[n] = "pending" /\ n # m
    BY <1>0, <2>1, <2>7 DEF InReady
  <2>9. \A x \in Msg : \A n \in ahead'[x] : fate'[n] = "pending"
    <3>1. \A n \in Msg : fate[n] = "pending" => fate'[n] = "pending"
      BY <2>1, <2>2 DEF TypeInv, TypeOK
    <3> QED
      BY <1>0, <2>7, <2>8, <3>1
  <2>10. \A r \in msgq_' : r.seq < pushed_'
    BY <2>3 DEF OrderInv, TypeInv, TypeOK, Ready
  <2>11. \A r \in msgq_' : \A n \in ahead'[r.msg] : ~SameTrigger(r.msg, n)' =>
          InHand(n)' \/ \E s \in msgq_' : s.msg = n /\ s.seq < r.seq
    <3>1. ASSUME NEW r \in msgq_, NEW n \in ahead'[r.msg], ~SameTrigger(r.msg, n)'
          PROVE  InHand(n)' \/ \E s \in msgq_' : s.msg = n /\ s.seq < r.seq
      <4>1. r.msg # m
        BY <2>4 DEF InReady
      <4> QED
        BY <1>0, <2>3, <2>5, <2>6, <2>7, <3>1, <4>1 DEF OrderInv
    <3>2. ASSUME at = kForever, NEW n \in ahead'[m]
          PROVE  \E s \in msgq_' : s.msg = n /\ s.seq < new.seq
      <4>1. PICK s \in msgq_ : s.msg = n
        BY <2>7, <3>2 DEF InReady
      <4> QED
        BY <2>3, <3>2, <4>1 DEF OrderInv
    <3>3. ASSUME NEW r \in msgq_', r \notin msgq_ PROVE r = new /\ at = kForever
      BY <2>3, <3>3
    <3> QED
      BY <2>3, <3>1, <3>2, <3>3
  <2>12. \A d \in dmsgq_' : \A n \in ahead'[d.msg] : ~SameTrigger(d.msg, n)' =>
          InHand(n)' \/ InReady(n)' \/ trigger'[n] < trigger'[d.msg]
    <3>1. \A n \in Msg : InReady(n) => InReady(n)'
      BY <2>3 DEF InReady
    <3>2. ASSUME NEW d \in dmsgq_, NEW n \in ahead'[d.msg], ~SameTrigger(d.msg, n)'
          PROVE  InHand(n)' \/ InReady(n)' \/ trigger'[n] < trigger'[d.msg]
      <4>1. d.msg # m
        BY <2>4 DEF InDelayed
      <4> QED
        BY <1>0, <2>2, <2>5, <2>6, <2>7, <3>1, <3>2, <4>1 DEF OrderInv
    <3>3. ASSUME at # kForever, NEW n \in ahead'[m], ~SameTrigger(m, n)'
          PROVE  InReady(n)' \/ trigger'[n] < trigger'[m]
      <4>1. CASE InReady(n)
        BY <2>8, <3>1, <4>1
      <4>2. CASE \E d \in dmsgq_ : d.msg = n /\ d.msTrigger <= at
        <5>1. PICK d \in dmsgq_ : d.msg = n /\ d.msTrigger <= at
          BY <4>2
        <5>2. trigger[n] = d.msTrigger /\ d.msTrigger \in Nat
          BY <5>1 DEF TimeInv, TypeInv, TypeOK, Delayed
        <5>3. trigger[n] # trigger[m]
          BY <2>1, <2>6, <2>8, <3>3 DEF SameTrigger
        <5> QED
          BY <2>1, <2>2, <3>3, <5>1, <5>2, <5>3
      <4> QED
        BY <2>7, <4>1, <4>2
    <3>4. ASSUME NEW d \in dmsgq_', d \notin dmsgq_ PROVE d = dnew /\ at # kForever
      BY <2>3, <3>4
    <3> QED
      BY <2>3, <3>2, <3>3, <3>4
  <2>13. SoonerFirst'
    BY <2>4, <2>5, <2>6, <2>7, <1>0 DEF OrderInv, SoonerFirst, Overtook
  <2> QED
    BY <2>9, <2>10, <2>11, <2>12, <2>13 DEF OrderInv
<1>3. ASSUME NEW c \in Caller, WakeUpSocketServer(c) \/ Quit(c) PROVE OrderInv'
  BY <1>3, OrderSame DEF WakeUpSocketServer, Quit, queueVars, histVars, InHand
<1>4. ASSUME NEW handler, NEW id, ClearMatching(handler, id), UNCHANGED pmsg,
             pc' = pc \/ (pc = "exited" /\ pc' = "destroyed")
      PROVE  OrderInv'
  <2> DEFINE gone == {m \in Queued : Match(m, handler, id)}
             end == [m \in Msg |-> "cleared"]
  <2>1. /\ msgq_' = {r \in msgq_ : r.msg \notin gone}
        /\ dmsgq_' = {d \in dmsgq_ : d.msg \notin gone}
        /\ Settle(gone, end) /\ pushed_' = pushed_
    BY <1>4 DEF ClearMatching, Queued
  <2>2. \A m \in gone \cap Msg : ~InHand(m)
    BY DEF Queued, PlaceInv, PendingOnce, InReady, InDelayed
  <2> HIDE DEF gone, end
  <2>3. \A m \in Msg : InHand(m)' <=> InHand(m) /\ m \notin gone
    BY <1>4, <2>2 DEF InHand
  <2> QED
    BY <2>1, <2>3, OrderSettle
<1>5. CASE GetBegin \/ GetLock \/ GetQuitCheck \/ GetWait \/ GetWaitFails \/ GetTimeCheck
           \/ Tick \/ Restart \/ DispatchEnd
  <2>1. UNCHANGED <<msgq_, dmsgq_, trigger, ahead, fate, pushed_>>
    BY <1>5, Zenon DEF GetBegin, GetLock, GetQuitCheck, GetWait, GetWaitFails,
       GetTimeCheck, Tick, Restart, DispatchEnd, queueVars, histVars
  <2>2. \A m \in Msg : InHand(m)' <=> InHand(m)
    BY <1>5 DEF GetBegin, GetLock, GetQuitCheck, GetWait, GetWaitFails, GetTimeCheck, Tick,
       Restart, DispatchEnd, GetReturnsFalse, InHand
  <2> QED
    BY <2>1, <2>2, OrderSame
<1>6. CASE \E cms \in Loop : ProcessMessages(cms)
  BY <1>6, OrderSame DEF ProcessMessages, queueVars, histVars, InHand
<1>7. CASE GetMoveDue
  <2>1. PICK d \in dmsgq_ : /\ IsTop(d)
                            /\ msgq_' = msgq_ \cup {[msg |-> d.msg, seq |-> pushed_]}
                            /\ dmsgq_' = dmsgq_ \ {d}
    BY <1>7 DEF GetMoveDue
  <2>2. /\ UNCHANGED <<trigger, ahead, fate, pc, pmsg>> /\ pc = "scan"
        /\ pushed_' = pushed_ + 1 /\ pushed_ \in Nat
    BY <1>7 DEF GetMoveDue, histVars, TypeInv, TypeOK
  <2> DEFINE new == [msg |-> d.msg, seq |-> pushed_]
  <2>3. msgq_' = msgq_ \cup {new} /\ new.msg = d.msg /\ new.seq = pushed_
    BY <2>1
  <2> HIDE DEF new
  <2>4. /\ \A x \in Msg : ~InHand(x) /\ ~InHand(x)'
        /\ \A x, y \in Msg : SameTrigger(x, y)' <=> SameTrigger(x, y)
    BY <2>2 DEF InHand, SameTrigger
  <2>5. \A r \in msgq_' : r.seq < pushed_'
    BY <1>0, <2>2, <2>3 DEF OrderInv
  <2>6. \A n \in ahead[d.msg] : ~SameTrigger(d.msg, n) => InReady(n)
    <3> SUFFICES ASSUME NEW n \in ahead[d.msg], ~SameTrigger(d.msg, n), ~InReady(n)
                 PROVE  FALSE
      OBVIOUS
    <3>1. n \in Msg /\ fate[n] = "pending" /\ trigger[n] < trigger[d.msg]
      BY <1>0, <2>4 DEF OrderInv
    <3>2. PICK e \in dmsgq_ : e.msg = n
      BY <2>4, <3>1 DEF PlaceInv, PendingOnce, InDelayed
    <3>3. e.msTrigger < d.msTrigger /\ e # d
      BY <3>1, <3>2 DEF TimeInv, TypeInv, TypeOK, Delayed
    <3> QED
      BY <2>1, <3>3 DEF IsTop, Before
  <2>7. \A r \in msgq_' : \A n \in ahead'[r.msg] : ~SameTrigger(r.msg, n)' =>
          InHand(n)' \/ \E s \in msgq_' : s.msg = n /\ s.seq < r.seq
    <3>1. ASSUME NEW r \in msgq_, NEW n \in ahead'[r.msg], ~SameTrigger(r.msg, n)'
          PROVE  \E s \in msgq_' : s.msg = n /\ s.seq < r.seq
      BY <1>0, <2>2, <2>3, <2>4, <3>1 DEF OrderInv
    <3>2. ASSUME NEW n \in ahead'[d.msg], ~SameTrigger(d.msg, n)'
          PROVE  \E s \in msgq_' : s.msg = n /\ s.seq < new.seq
      BY <1>0, <2>2, <2>3, <2>4, <2>6, <3>2 DEF OrderInv, InReady
    <3> QED
      BY <2>3, <3>1, <3>2
  <2>8. \A e \in dmsgq_' : \A n \in ahead'[e.msg] : ~SameTrigger(e.msg, n)' =>
          InHand(n)' \/ InReady(n)' \/ trigger'[n] < trigger'[e.msg]
    <3>1. \A n \in Msg : InReady(n) => InReady(n)'
      BY <2>3 DEF InReady
    <3> QED
      BY <1>0, <2>1, <2>2, <2>4, <3>1 DEF OrderInv
  <2>9. SoonerFirst'
    BY <2>4 DEF SoonerFirst, Overtook
  <2>10. \A x \in Msg : \A n \in ahead'[x] : fate'[n] = "pending"
    BY <2>2 DEF OrderInv
  <2> QED
    BY <2>5, <2>7, <2>8, <2>9, <2>10 DEF OrderInv
<1>8. CASE GetPop \/ GetPopAgain
  <2>1. /\ UNCHANGED <<trigger, ahead, fate, dmsgq_, pushed_>> /\ TakeFront
        /\ pc \in {"scan", "repop"}
    BY <1>8 DEF GetPop, GetPopAgain, histVars
  <2>2. \A x \in Msg : ~InHand(x)
    BY <2>1 DEF InHand
  <2>3. CASE msgq_ = {} /\ pc' = "quitcheck" /\ UNCHANGED <<msgq_, pmsg>>
    BY <2>1, <2>2, <2>3, OrderSame DEF InHand
  <2>4. ASSUME NEW r \in msgq_, IsFront(r), PopFront(r), pc' \in {"dispose", "got"}
        PROVE  OrderInv'
    <3>1. /\ r.msg \in Msg /\ msgq_' = msgq_ \ {r}
          /\ \A x \in Msg : InHand(x)' <=> x = r.msg
          /\ \A x, y \in Msg : SameTrigger(x, y)' <=> SameTrigger(x, y)
      BY <1>0, <2>1, <2>4 DEF PopFront, InHand, SameTrigger
    <3>2. \A n \in ahead[r.msg] : SameTrigger(r.msg, n)
      BY <1>0, <2>2, <2>4 DEF OrderInv, IsFront
    <3>3. SoonerFirst'
      BY <2>1, <3>1, <3>2 DEF SoonerFirst, Overtook
    <3>4. \A s \in msgq_' : \A n \in ahead'[s.msg] : ~SameTrigger(s.msg, n)' =>
            InHand(n)' \/ \E t \in msgq_' : t.msg = n /\ t.seq < s.seq
      BY <1>0, <2>1, <2>2, <3>1 DEF OrderInv
    <3>5. \A e \in dmsgq_' : \A n \in ahead'[e.msg] : ~SameTrigger(e.msg, n)' =>
            InHand(n)' \/ InReady(n)' \/ trigger'[n] < trigger'[e.msg]
      <4>1. \A n \in Msg : InReady(n) => InReady(n)' \/ InHand(n)'
        BY <3>1 DEF InReady
      <4> QED
        BY <1>0, <2>1, <2>2, <3>1, <4>1 DEF OrderInv
    <3>6. /\ \A s \in msgq_' : s.seq < pushed_'
          /\ \A x \in Msg : \A n \in ahead'[x] : fate'[n] = "pending"
      BY <2>1, <3>1 DEF OrderInv
    <3> QED
      BY <3>3, <3>4, <3>5, <3>6 DEF OrderInv
  <2> QED
    BY <2>1, <2>3, <2>4 DEF TakeFront
<1>9. CASE GetDispose
  <2> DEFINE gone == {m \in Queued : doomed[pmsg] # NULL /\ phandler[m] = doomed[pmsg]}
             end == [m \in Msg |-> IF m = pmsg THEN "disposed" ELSE "cleared"]
  <2>1. /\ msgq_' = {r \in msgq_ : r.msg \notin gone}
        /\ dmsgq_' = {d \in dmsgq_ : d.msg \notin gone}
        /\ pc = "dispose" /\ pc' = "repop" /\ UNCHANGED pushed_
        /\ Settle(gone \cup {pmsg}, end)
    BY <1>9 DEF GetDispose
  <2> HIDE DEF gone, end
  <2>2. /\ \A r \in msgq_ : r.msg # pmsg
        /\ \A d \in dmsgq_ : d.msg # pmsg
    BY <1>0, <2>1 DEF PlaceInv, PendingOnce, InReady, InDelayed, InHand
  <2>3. /\ msgq_' = {r \in msgq_ : r.msg \notin gone \cup {pmsg}}
        /\ dmsgq_' = {d \in dmsgq_ : d.msg \notin gone \cup {pmsg}}
    BY <2>1, <2>2
  <2>4. \A m \in Msg : InHand(m)' <=> InHand(m) /\ m \notin gone \cup {pmsg}
    BY <2>1 DEF InHand
  <2> QED
    BY <2>1, <2>3, <2>4, OrderSettle
<1>10. CASE Dispatch
  <2>1. /\ UNCHANGED <<msgq_, dmsgq_, pushed_>> /\ pc = "got" /\ pc' = "dispatch"
        /\ Settle({pmsg}, [m \in Msg |-> "handled"])
    BY <1>10 DEF Dispatch, queueVars
  <2>2. /\ \A r \in msgq_ : r.msg # pmsg
        /\ \A d \in dmsgq_ : d.msg # pmsg
    BY <1>0, <2>1 DEF PlaceInv, PendingOnce, InReady, InDelayed, InHand
  <2>3. /\ msgq_' = {r \in msgq_ : r.msg \notin {pmsg}}
        /\ dmsgq_' = {d \in dmsgq_ : d.msg \notin {pmsg}}
    BY <2>1, <2>2
  <2>4. \A m \in Msg : InHand(m)' <=> InHand(m) /\ m \notin {pmsg}
    BY <2>1 DEF InHand
  <2> QED
    BY <2>1, <2>3, <2>4, OrderSettle
<1>11. CASE DoDestroy
  BY <1>4, <1>11 DEF DoDestroy
<1>12. CASE \E c \in Caller, h \in Handler, i \in Id \cup {MQID_ANY} : Clear(c, h, i)
  BY <1>4, <1>12 DEF Clear
<1>13. CASE \E h \in Handler : DeleteHandler(h)
  BY <1>4, <1>13 DEF DeleteHandler
<1>14. CASE UNCHANGED vars
  BY <1>14, OrderSame DEF vars, queueVars, histVars, InHand
<1> QED
  BY <1>1, <1>2, <1>3, <1>5, <1>6, <1>7, <1>8, <1>9, <1>10, <1>11, <1>12, <1>13, <1>14
     DEF Next, GetStep, CallStep, Post, PostDelayed, PostAt

\* No message overtakes one that was ahead of it, unless both were delayed to
\* the same instant, however far dmsgq_next_num_ has counted.
THEOREM SoonerFirstHolds == Spec => []SoonerFirst
<1> DEFINE I == TypeInv /\ PlaceInv /\ TimeInv /\ OrderInv
<1>1. Init => I
  BY TypeInit, PlaceInit, TimeInit, OrderInit
<1>2. I /\ [Next]_vars => I'
  BY TypeStep, PlaceStep, TimeStep, OrderStep
<1>3. I => SoonerFirst
  BY DEF OrderInv
<1> QED
  BY <1>1, <1>2, <1>3, PTL DEF Spec

-----------------------------------------------------------------------------
(* Messages with identical times keep their order until dmsgq_next_num_ wraps. *)

\* The messages that may be posted with a delay: Dispose() uses Post().
Delayable == {m \in Msg : doomed[m] = NULL}

\* No more of them are ever posted than dmsgq_next_num_ can count.
FewMessages == IsFiniteSet(Msg) /\ Cardinality(Delayable) <= NumMod

\* Those that are in the queue, or were.
Counted == {m \in Delayable : fate[m] \notin {"new", "refused", "pushing"}}

\* As long as a message may still be posted with a delay, dmsgq_next_num_ has not
\* wrapped and is greater than every number in the queue.
NumInv ==
  /\ \A c \in Caller :
       call[c].op = "push" /\ call[c].at # kForever => doomed[call[c].msg] = NULL
  /\ (\E m \in Delayable : fate[m] \in {"new", "pushing"}) =>
       /\ dmsgq_next_num_ <= Cardinality(Counted)
       /\ \A d \in dmsgq_ : d.num < dmsgq_next_num_

\* What OrderInv says of messages that trigger at different times, said of all: what
\* is ahead of a delayed message is in hand, ready, or comes out of the heap before.
TieInv ==
  /\ \A r \in msgq_ : \A n \in ahead[r.msg] :
       InHand(n) \/ \E s \in msgq_ : s.msg = n /\ s.seq < r.seq
  /\ \A d \in dmsgq_ : \A n \in ahead[d.msg] :
       InHand(n) \/ InReady(n) \/ \E e \in dmsgq_ : e.msg = n /\ Before(e, d)
  /\ TiesInOrder

\* Steps that post nothing with a delay.
LEMMA NumSame ==
  ASSUME NumInv, UNCHANGED dmsgq_next_num_, dmsgq_' \subseteq dmsgq_,
         \A c \in Caller : call'[c].op = "push" => call'[c] = call[c],
         \A m \in Msg : \/ fate'[m] = fate[m]
                        \/ /\ fate[m] \notin {"new", "refused", "pushing"}
                           /\ fate'[m] \notin {"new", "refused", "pushing"}
  PROVE  NumInv'
<1>1. \A m \in Delayable : m \in Msg
  BY DEF Delayable
<1>2. Counted' = Counted
  BY <1>1 DEF Counted
<1>3. \A c \in Caller :
        call'[c].op = "push" /\ call'[c].at # kForever => doomed[call'[c].msg] = NULL
  BY DEF NumInv
<1>4. (\E m \in Delayable : fate'[m] \in {"new", "pushing"}) =>
         \E m \in Delayable : fate[m] \in {"new", "pushing"}
  BY <1>1
<1> QED
  BY <1>2, <1>3, <1>4 DEF NumInv

\* What has been counted leaves room for one that has not.
LEMMA CountedRoom ==
  ASSUME FewMessages, NEW m \in Delayable, m \notin Counted
  PROVE  /\ IsFiniteSet(Counted) /\ Cardinality(Counted) \in Nat
         /\ Cardinality(Counted) + 1 <= NumMod
<1>1. IsFiniteSet(Delayable)
  BY FS_Subset DEF FewMessages, Delayable
<1>2. Counted \cup {m} \subseteq Delayable
  BY DEF Counted
<1>3. IsFiniteSet(Counted)
  BY <1>1, FS_Subset DEF Counted
<1>4. Cardinality(Counted \cup {m}) = Cardinality(Counted) + 1
  BY <1>3, FS_AddElement
<1>5. Cardinality(Counted \cup {m}) <= Cardinality(Delayable)
  BY <1>1, <1>2, FS_Subset
<1>6. Cardinality(Counted) \in Nat /\ Cardinality(Delayable) \in Nat
  BY <1>1, <1>3, FS_CardinalityType
<1> QED
  BY <1>3, <1>4, <1>5, <1>6, QueueAssumption DEF FewMessages

\* The numbers hold initially.
LEMMA NumInit == Init => NumInv
<1> SUFFICES ASSUME Init PROVE NumInv
  OBVIOUS
<1>1. Counted = {}
  BY DEF Init, Counted, Delayable
<1>2. Cardinality(Counted) = 0
  BY <1>1, FS_EmptySet
<1> QED
  BY <1>2 DEF Init, NumInv, Idle

\* Every step keeps the numbers.
LEMMA NumStep ==
  ASSUME FewMessages, TypeInv, PlaceInv, NumInv, [Next]_vars
  PROVE  NumInv'
<1>0. \A m \in Msg : InHand(m) \/ InReady(m) \/ InDelayed(m) => fate[m] = "pending"
  BY DEF PlaceInv, PendingOnce
<1>1. ASSUME NEW c \in Caller, NEW m \in Msg, NEW at, PostBegin(c, m, at)
      PROVE  NumInv'
  <2>1. /\ fate[m] = "new" /\ UNCHANGED <<dmsgq_, dmsgq_next_num_>>
        /\ doomed[m] # NULL => at = kForever
        /\ \/ fate' = [fate EXCEPT ![m] = "refused"] /\ UNCHANGED call
           \/ /\ fate' = [fate EXCEPT ![m] = "pushing"]
              /\ call' = [call EXCEPT ![c] = [op |-> "push", msg |-> m, at |-> at]]
    BY <1>1, Zenon DEF PostBegin, queueVars
  <2>2. \A x \in Msg : IF x = m THEN fate'[x] \in {"refused", "pushing"}
                                ELSE fate'[x] = fate[x]
    BY <2>1 DEF TypeInv, TypeOK
  <2>3. Counted' = Counted
    BY <2>1, <2>2 DEF Counted, Delayable
  <2>4. (\E x \in Delayable : fate'[x] \in {"new", "pushing"}) =>
           \E x \in Delayable : fate[x] \in {"new", "pushing"}
    BY <2>1, <2>2 DEF Delayable
  <2>5. \A b \in Caller :
          call'[b].op = "push" /\ call'[b].at # kForever => doomed[call'[b].msg] = NULL
    BY <2>1 DEF NumInv, TypeInv, TypeOK
  <2> QED
    BY <2>1, <2>3, <2>4, <2>5 DEF NumInv
<1>2. ASSUME NEW c \in Caller, PostPush(c) PROVE NumInv'
  <2>0. PICK m \in Msg, at \in Nat \cup {kForever} : m = call[c].msg /\ at = call[c].at
    BY <1>2 DEF PostPush, TypeInv, TypeOK, PushHasMsg
  <2>1. /\ fate[m] = "pushing" /\ (at # kForever => m \in Delayable)
        /\ (at # kForever => doomed[m] = NULL)
    BY <1>2, <2>0 DEF PostPush, PlaceInv, Holding, NumInv, Delayable
  <2>2. /\ fate' = [fate EXCEPT ![m] = "pending"]
        /\ call' = [call EXCEPT ![c] = ThenWakeUp]
    BY <1>2, <2>0 DEF PostPush
  <2>3. \A x \in Msg : fate'[x] = IF x = m THEN "pending" ELSE fate[x]
    BY <2>2 DEF TypeInv, TypeOK
  <2>4. \A b \in Caller :
          call'[b].op = "push" /\ call'[b].at # kForever => doomed[call'[b].msg] = NULL
    BY <2>2 DEF NumInv, TypeInv, TypeOK, ThenWakeUp
  <2>5. CASE m \notin Delayable
    <3>1. UNCHANGED <<dmsgq_, dmsgq_next_num_>>
      BY <1>2, <2>0, <2>1, <2>5 DEF PostPush
    <3>2. Counted' = Counted
      BY <2>3, <2>5 DEF Counted, Delayable
    <3>3. (\E x \in Delayable : fate'[x] \in {"new", "pushing"}) =>
             \E x \in Delayable : fate[x] \in {"new", "pushing"}
      BY <2>3 DEF Delayable
    <3> QED
      BY <2>4, <3>1, <3>2, <3>3 DEF NumInv
  <2>6. CASE m \in Delayable
    <3>1. /\ dmsgq_next_num_ <= Cardinality(Counted)
          /\ \A d \in dmsgq_ : d.num < dmsgq_next_num_
      BY <2>1, <2>6 DEF NumInv
    <3>2. m \notin Counted /\ Counted' = Counted \cup {m}
      BY <2>1, <2>3, <2>6 DEF Counted, Delayable
    <3>3. /\ IsFiniteSet(Counted) /\ Cardinality(Counted) \in Nat
          /\ Cardinality(Counted') = Cardinality(Counted) + 1
      BY <2>6, <3>2, CountedRoom, FS_AddElement
    <3>4. ASSUME NEW x \in Delayable, fate'[x] \in {"new", "pushing"}
          PROVE  /\ dmsgq_next_num_' <= Cardinality(Counted')
                 /\ \A d \in dmsgq_' : d.num < dmsgq_next_num_'
      <4>1. x \notin Counted /\ x # m
        BY <2>3, <3>4 DEF Counted, Delayable
      <4>2. Cardinality(Counted) + 2 <= NumMod
        <5>1. IsFiniteSet(Delayable)
          BY FS_Subset DEF FewMessages, Delayable
        <5>2. Counted' \cup {x} \subseteq Delayable
          BY <2>6, <3>2 DEF Counted
        <5>3. IsFiniteSet(Counted')
          BY <3>2, <3>3, FS_AddElement
        <5>4. x \notin Counted'
          BY <3>2, <4>1
        <5>5. Cardinality(Counted' \cup {x}) = Cardinality(Counted') + 1
          BY <5>3, <5>4, FS_AddElement
        <5>6. Cardinality(Counted' \cup {x}) <= Cardinality(Delayable)
          BY <5>1, <5>2, FS_Subset
        <5>7. Cardinality(Delayable) \in Nat
          BY <5>1, FS_CardinalityType
        <5> QED
          BY <3>3, <5>5, <5>6, <5>7, QueueAssumption DEF FewMessages
      <4>3. dmsgq_next_num_ \in Nat /\ \A d \in dmsgq_ : d.num \in Nat
        BY DEF TypeInv, TypeOK, Delayed
      <4>4. CASE at = kForever
        <5>1. UNCHANGED <<dmsgq_, dmsgq_next_num_>>
          BY <1>2, <2>0, <4>4 DEF PostPush
        <5> QED
          BY <3>1, <3>3, <4>3, <5>1
      <4>5. CASE at # kForever
        <5>1. /\ dmsgq_' = dmsgq_ \cup
                   {[msTrigger |-> at, num |-> dmsgq_next_num_, msg |-> m]}
              /\ dmsgq_next_num_' = (dmsgq_next_num_ + 1) % NumMod
          BY <1>2, <2>0, <4>5 DEF PostPush, AfterNum
        <5>2. dmsgq_next_num_ + 1 < NumMod
          BY <3>1, <3>3, <4>2, <4>3, QueueAssumption
        <5>3. dmsgq_next_num_' = dmsgq_next_num_ + 1
          BY <4>3, <5>1, <5>2, QueueAssumption
        <5>4. \A d \in dmsgq_' : d \in dmsgq_ \/ d.num = dmsgq_next_num_
          BY <5>1
        <5> QED
          BY <3>1, <3>3, <4>3, <5>3, <5>4
      <4> QED
        BY <4>4, <4>5
    <3> QED
      BY <2>4, <3>4 DEF NumInv
  <2> QED
    BY <2>5, <2>6
<1>3. ASSUME NEW gone, NEW end, Settle(gone, end), UNCHANGED <<dmsgq_next_num_, call>>,
             \A m \in gone \cap Msg : fate[m] = "pending",
             \A m \in Msg : end[m] \in {"cleared", "disposed", "handled"},
             dmsgq_' \subseteq dmsgq_
      PROVE  NumInv'
  <2>1. \A m \in Msg : fate'[m] = IF m \in gone THEN end[m] ELSE fate[m]
    BY <1>3 DEF Settle
  <2> QED
    BY <1>3, <2>1, NumSame
<1>4. ASSUME NEW handler, NEW id, ClearMatching(handler, id), UNCHANGED call PROVE NumInv'
  <2> DEFINE gone == {m \in Queued : Match(m, handler, id)}
             end == [m \in Msg |-> "cleared"]
  <2>1. /\ dmsgq_' \subseteq dmsgq_ /\ UNCHANGED dmsgq_next_num_
        /\ Settle(gone, end)
    BY <1>4 DEF ClearMatching
  <2>2. \A m \in gone \cap Msg : fate[m] = "pending"
    BY <1>0 DEF Queued, InReady, InDelayed
  <2>3. \A m \in Msg : end[m] \in {"cleared", "disposed", "handled"}
    OBVIOUS
  <2> HIDE DEF gone, end
  <2> QED
    BY <1>3, <1>4, <2>1, <2>2, <2>3
<1>5. CASE GetDispose
  <2> DEFINE gone == {m \in Queued : doomed[pmsg] # NULL /\ phandler[m] = doomed[pmsg]}
             end == [m \in Msg |-> IF m = pmsg THEN "disposed" ELSE "cleared"]
  <2>1. /\ dmsgq_' \subseteq dmsgq_ /\ UNCHANGED <<dmsgq_next_num_, call>>
        /\ pc = "dispose" /\ Settle(gone \cup {pmsg}, end)
    BY <1>5 DEF GetDispose
  <2>2. \A m \in (gone \cup {pmsg}) \cap Msg : fate[m] = "pending"
    BY <1>0, <2>1 DEF Queued, InReady, InDelayed, InHand
  <2>3. \A m \in Msg : end[m] \in {"cleared", "disposed", "handled"}
    OBVIOUS
  <2> HIDE DEF gone, end
  <2> QED
    BY <1>3, <2>1, <2>2, <2>3
<1>6. CASE Dispatch
  <2> DEFINE end == [m \in Msg |-> "handled"]
  <2>1. /\ UNCHANGED <<dmsgq_, dmsgq_next_num_, call>> /\ pc = "got"
        /\ Settle({pmsg}, end)
    BY <1>6 DEF Dispatch, queueVars
  <2>2. \A m \in {pmsg} \cap Msg : fate[m] = "pending"
    BY <1>0, <2>1 DEF InHand
  <2>3. \A m \in Msg : end[m] \in {"cleared", "disposed", "handled"}
    OBVIOUS
  <2> HIDE DEF end
  <2> QED
    BY <1>3, <2>1, <2>2, <2>3
<1>7. CASE DoDestroy
  BY <1>4, <1>7 DEF DoDestroy
<1>8. CASE \E c \in Caller, h \in Handler, i \in Id \cup {MQID_ANY} : Clear(c, h, i)
  BY <1>4, <1>8 DEF Clear
<1>9. CASE \E h \in Handler : DeleteHandler(h)
  BY <1>4, <1>9 DEF DeleteHandler
<1>10. ASSUME NEW c \in Caller, WakeUpSocketServer(c) \/ Quit(c) PROVE NumInv'
  <2>1. /\ UNCHANGED <<dmsgq_, dmsgq_next_num_, fate>>
        /\ call' = [call EXCEPT ![c] = Idle] \/ call' = [call EXCEPT ![c] = ThenWakeUp]
    BY <1>10 DEF WakeUpSocketServer, Quit, queueVars
  <2>2. \A b \in Caller : call'[b].op = "push" => call'[b] = call[b]
    BY <2>1 DEF TypeInv, TypeOK, Idle, ThenWakeUp
  <2> QED
    BY <2>1, <2>2, NumSame
<1>11. CASE \/ GetBegin \/ GetLock \/ GetQuitCheck \/ GetWait \/ GetWaitFails
            \/ GetTimeCheck \/ Tick \/ Restart \/ DispatchEnd \/ GetMoveDue \/ GetPop \/ GetPopAgain
            \/ (\E cms \in Loop : ProcessMessages(cms)) \/ UNCHANGED vars
  <2>1. UNCHANGED <<dmsgq_next_num_, fate, call>> /\ dmsgq_' \subseteq dmsgq_
    BY <1>11 DEF GetBegin, GetLock, GetQuitCheck, GetWait, GetWaitFails, GetTimeCheck,
       Tick, Restart, DispatchEnd, GetMoveDue, GetPop, GetPopAgain, ProcessMessages, queueVars, vars
  <2> QED
    BY <2>1, NumSame
<1> QED
  BY <1>1, <1>2, <1>5, <1>6, <1>7, <1>8, <1>9, <1>10, <1>11
     DEF Next, GetStep, CallStep, Post, PostDelayed, PostAt

\* Steps that leave the queues and what is recorded about them alone.
LEMMA TieSame ==
  ASSUME TypeInv, TieInv, UNCHANGED <<msgq_, dmsgq_, ahead, fate>>,
         \A m \in Msg : InHand(m)' <=> InHand(m)
  PROVE  TieInv'
<1>1. /\ \A m \in Msg : \A n \in ahead[m] : n \in Msg
      /\ \A r \in msgq_ : r.msg \in Msg
      /\ \A d \in dmsgq_ : d.msg \in Msg
  BY DEF TypeInv, TypeOK, Ready, Delayed
<1>2. \A m \in Msg : InReady(m)' <=> InReady(m)
  BY DEF InReady
<1>3. TiesInOrder'
  BY <1>1 DEF TieInv, TiesInOrder, Overtook
<1>4. \A r \in msgq_' : \A n \in ahead'[r.msg] :
        InHand(n)' \/ \E s \in msgq_' : s.msg = n /\ s.seq < r.seq
  BY <1>1 DEF TieInv
<1>5. \A d \in dmsgq_' : \A n \in ahead'[d.msg] :
        InHand(n)' \/ InReady(n)' \/ \E e \in dmsgq_' : e.msg = n /\ Before(e, d)
  BY <1>1, <1>2 DEF TieInv
<1> QED
  BY <1>3, <1>4, <1>5 DEF TieInv, Before

\* Settling messages that leave the queues, or the owner's hands, with it.
LEMMA TieSettle ==
  ASSUME TypeInv, TieInv, NEW gone, NEW end, Settle(gone, end),
         msgq_' = {r \in msgq_ : r.msg \notin gone},
         dmsgq_' = {d \in dmsgq_ : d.msg \notin gone},
         \A m \in Msg : InHand(m)' <=> InHand(m) /\ m \notin gone
  PROVE  TieInv'
<1>1. \A m \in Msg : /\ m \in gone => ahead'[m] = {}
                     /\ m \notin gone => ahead'[m] = ahead[m] \ gone /\ fate'[m] = fate[m]
  BY DEF Settle
<1>2. \A m \in Msg : \A n \in ahead'[m] :
         /\ m \notin gone /\ n \notin gone /\ n \in ahead[m] /\ n \in Msg
         /\ InHand(n)' <=> InHand(n)
         /\ InHand(m)' <=> InHand(m)
         /\ fate'[n] = fate[n]
  BY <1>1 DEF TypeInv, TypeOK
<1>3. /\ \A r \in msgq_' : r \in msgq_ /\ r.msg \in Msg
      /\ \A d \in dmsgq_' : d \in dmsgq_ /\ d.msg \in Msg
      /\ \A r \in msgq_ : r.msg \notin gone => r \in msgq_'
      /\ \A d \in dmsgq_ : d.msg \notin gone => d \in dmsgq_'
  BY DEF TypeInv, TypeOK, Ready, Delayed
<1>4. \A r \in msgq_' : \A n \in ahead'[r.msg] :
        InHand(n)' \/ \E s \in msgq_' : s.msg = n /\ s.seq < r.seq
  BY <1>2, <1>3 DEF TieInv
<1>5. \A d \in dmsgq_' : \A n \in ahead'[d.msg] :
        InHand(n)' \/ InReady(n)' \/ \E e \in dmsgq_' : e.msg = n /\ Before(e, d)
  BY <1>2, <1>3 DEF TieInv, InReady
<1>6. TiesInOrder'
  BY <1>2 DEF TieInv, TiesInOrder, Overtook
<1> QED
  BY <1>4, <1>5, <1>6 DEF TieInv, Before

\* The order holds initially.
LEMMA TieInit == Init => TieInv
  BY DEF Init, TieInv, TiesInOrder, Overtook, InHand

\* Every step keeps what is ahead of a message ahead of it.
LEMMA TieStep ==
  ASSUME TypeInv, PlaceInv, OrderInv, NumInv, TieInv, [Next]_vars
  PROVE  TieInv'
<1>0. /\ \A m \in Msg : \A n \in ahead[m] : n \in Msg /\ fate[n] = "pending"
      /\ \A r \in msgq_ : r.msg \in Msg /\ r.seq \in Nat /\ fate[r.msg] = "pending"
      /\ \A d \in dmsgq_ : d.msg \in Msg /\ fate[d.msg] = "pending"
      /\ \A r \in msgq_ : r.seq < pushed_
  BY DEF OrderInv, PlaceInv, PendingOnce, InReady, InDelayed, TypeInv, TypeOK, Ready, Delayed
<1>1. ASSUME NEW c \in Caller, NEW m \in Msg, NEW at, PostBegin(c, m, at)
      PROVE  TieInv'
  <2>1. /\ fate[m] = "new" /\ UNCHANGED <<msgq_, dmsgq_, pc, pmsg, ahead>>
        /\ \/ fate' = [fate EXCEPT ![m] = "refused"]
           \/ fate' = [fate EXCEPT ![m] = "pushing"]
    BY <1>1, Zenon DEF PostBegin, queueVars
  <2>2. \A x \in Msg : fate'[x] = "pending" <=> fate[x] = "pending"
    BY <2>1 DEF TypeInv, TypeOK
  <2>3. \A x \in Msg : (InHand(x)' <=> InHand(x)) /\ (InReady(x)' <=> InReady(x))
    BY <2>1 DEF InHand, InReady
  <2>4. TiesInOrder'
    BY <2>1, <2>2, <2>3 DEF TieInv, TiesInOrder, Overtook
  <2>5. \A r \in msgq_' : \A n \in ahead'[r.msg] :
          InHand(n)' \/ \E s \in msgq_' : s.msg = n /\ s.seq < r.seq
    BY <1>0, <2>1, <2>3 DEF TieInv
  <2>6. \A d \in dmsgq_' : \A n \in ahead'[d.msg] :
          InHand(n)' \/ InReady(n)' \/ \E e \in dmsgq_' : e.msg = n /\ Before(e, d)
    BY <1>0, <2>1, <2>3 DEF TieInv
  <2> QED
    BY <2>4, <2>5, <2>6 DEF TieInv, Before
<1>2. ASSUME NEW c \in Caller, PostPush(c) PROVE TieInv'
  <2>0. PICK m \in Msg, at \in Nat \cup {kForever} : m = call[c].msg /\ at = call[c].at
    BY <1>2 DEF PostPush, TypeInv, TypeOK, PushHasMsg
  <2>1. fate[m] = "pushing" /\ (at # kForever => m \in Delayable)
    BY <1>2, <2>0 DEF PostPush, PlaceInv, Holding, NumInv, Delayable
  <2>2. /\ UNCHANGED <<pc, pmsg>>
        /\ fate' = [fate EXCEPT ![m] = "pending"]
        /\ ahead' = [ahead EXCEPT ![m] =
             {r.msg : r \in msgq_} \cup
             {d.msg : d \in {d \in dmsgq_ : at # kForever /\ d.msTrigger <= at}}]
    BY <1>2, <2>0 DEF PostPush
  <2> DEFINE new == [msg |-> m, seq |-> pushed_]
             dnew == [msTrigger |-> at, num |-> dmsgq_next_num_, msg |-> m]
  <2>3. /\ new.msg = m /\ new.seq = pushed_
        /\ dnew.msg = m /\ dnew.msTrigger = at /\ dnew.num = dmsgq_next_num_
        /\ \/ msgq_' = msgq_ \cup {new} /\ dmsgq_' = dmsgq_ /\ at = kForever
           \/ msgq_' = msgq_ /\ dmsgq_' = dmsgq_ \cup {dnew} /\ at # kForever
    BY <1>2, <2>0 DEF PostPush
  <2> HIDE DEF new, dnew
  <2>4. ~InReady(m) /\ ~InDelayed(m) /\ ~InHand(m)
    BY <2>1 DEF PlaceInv, PendingOnce
  <2>5. \A x \in Msg : (InHand(x)' <=> InHand(x)) /\ (InReady(x) => InReady(x)')
    BY <2>2, <2>3 DEF InHand, InReady
  <2>6. /\ \A x \in Msg : x # m => ahead'[x] = ahead[x]
        /\ \A n \in ahead'[m] : \/ InReady(n)
                                \/ \E d \in dmsgq_ : d.msg = n /\ d.msTrigger <= at
                                                      /\ at # kForever
    BY <2>2 DEF TypeInv, TypeOK, InReady
  <2>7. \A n \in ahead'[m] : n \in Msg
    BY <1>0, <2>6 DEF InReady
  <2>8. \A r \in msgq_' : \A n \in ahead'[r.msg] :
          InHand(n)' \/ \E s \in msgq_' : s.msg = n /\ s.seq < r.seq
    <3>1. ASSUME NEW r \in msgq_, NEW n \in ahead'[r.msg]
          PROVE  InHand(n)' \/ \E s \in msgq_' : s.msg = n /\ s.seq < r.seq
      <4>1. r.msg # m
        BY <2>4 DEF InReady
      <4> QED
        BY <1>0, <2>3, <2>5, <2>6, <3>1, <4>1 DEF TieInv
    <3>2. ASSUME at = kForever, NEW n \in ahead'[m]
          PROVE  \E s \in msgq_' : s.msg = n /\ s.seq < new.seq
      <4>1. PICK s \in msgq_ : s.msg = n
        BY <2>6, <3>2 DEF InReady
      <4> QED
        BY <1>0, <2>3, <3>2, <4>1
    <3>3. ASSUME NEW r \in msgq_', r \notin msgq_ PROVE r = new /\ at = kForever
      BY <2>3, <3>3
    <3> QED
      BY <2>3, <3>1, <3>2, <3>3
  <2>9. \A d \in dmsgq_' : \A n \in ahead'[d.msg] :
          InHand(n)' \/ InReady(n)' \/ \E e \in dmsgq_' : e.msg = n /\ Before(e, d)
    <3>1. ASSUME NEW d \in dmsgq_, NEW n \in ahead'[d.msg]
          PROVE  InHand(n)' \/ InReady(n)' \/ \E e \in dmsgq_' : e.msg = n /\ Before(e, d)
      <4>1. d.msg # m
        BY <2>4 DEF InDelayed
      <4> QED
        BY <1>0, <2>3, <2>5, <2>6, <3>1, <4>1 DEF TieInv
    <3>2. ASSUME at # kForever, NEW n \in ahead'[m]
          PROVE  InReady(n)' \/ \E e \in dmsgq_' : e.msg = n /\ Before(e, dnew)
      <4>1. CASE InReady(n)
        BY <2>5, <2>7, <4>1
      <4>2. CASE \E d \in dmsgq_ : d.msg = n /\ d.msTrigger <= at
        <5>1. PICK d \in dmsgq_ : d.msg = n /\ d.msTrigger <= at
          BY <4>2
        <5>2. d.num < dmsgq_next_num_
          BY <2>1, <3>2 DEF NumInv
        <5>3. d.msTrigger \in Nat /\ at \in Nat
          BY <3>2 DEF TypeInv, TypeOK, Delayed
        <5>4. Before(d, dnew)
          BY <2>3, <5>1, <5>2, <5>3 DEF Before
        <5> QED
          BY <2>3, <5>1, <5>4
      <4> QED
        BY <2>6, <4>1, <4>2
    <3>3. ASSUME NEW d \in dmsgq_', d \notin dmsgq_ PROVE d = dnew /\ at # kForever
      BY <2>3, <3>3
    <3> QED
      BY <2>3, <3>1, <3>2, <3>3
  <2>10. TiesInOrder'
    <3> SUFFICES ASSUME NEW x \in Msg, NEW n \in Msg, Overtook(x, n)' PROVE FALSE
      BY DEF TiesInOrder
    <3>1. InHand(x) /\ x # m /\ n \in ahead[x]
      BY <2>4, <2>5, <2>6 DEF Overtook
    <3> QED
      BY <1>0, <3>1 DEF TieInv, TiesInOrder, Overtook
  <2> QED
    BY <2>8, <2>9, <2>10 DEF TieInv, Before
<1>3. ASSUME NEW c \in Caller, WakeUpSocketServer(c) \/ Quit(c) PROVE TieInv'
  BY <1>3, TieSame DEF WakeUpSocketServer, Quit, queueVars, histVars, InHand
<1>4. ASSUME NEW handler, NEW id, ClearMatching(handler, id), UNCHANGED pmsg,
             pc' = pc \/ (pc = "exited" /\ pc' = "destroyed")
      PROVE  TieInv'
  <2> DEFINE gone == {m \in Queued : Match(m, handler, id)}
             end == [m \in Msg |-> "cleared"]
  <2>1. /\ msgq_' = {r \in msgq_ : r.msg \notin gone}
        /\ dmsgq_' = {d \in dmsgq_ : d.msg \notin gone}
        /\ Settle(gone, end)
    BY <1>4 DEF ClearMatching, Queued
  <2>2. \A m \in gone \cap Msg : ~InHand(m)
    BY DEF Queued, PlaceInv, PendingOnce, InReady, InDelayed
  <2> HIDE DEF gone, end
  <2>3. \A m \in Msg : InHand(m)' <=> InHand(m) /\ m \notin gone
    BY <1>4, <2>2 DEF InHand
  <2> QED
    BY <2>1, <2>3, TieSettle
<1>5. CASE GetBegin \/ GetLock \/ GetQuitCheck \/ GetWait \/ GetWaitFails \/ GetTimeCheck
           \/ Tick \/ Restart \/ DispatchEnd
  <2>1. UNCHANGED <<msgq_, dmsgq_, ahead, fate>>
    BY <1>5, Zenon DEF GetBegin, GetLock, GetQuitCheck, GetWait, GetWaitFails,
       GetTimeCheck, Tick, Restart, DispatchEnd, queueVars, histVars
  <2>2. \A m \in Msg : InHand(m)' <=> InHand(m)
    BY <1>5 DEF GetBegin, GetLock, GetQuitCheck, GetWait, GetWaitFails, GetTimeCheck, Tick,
       Restart, DispatchEnd, GetReturnsFalse, InHand
  <2> QED
    BY <2>1, <2>2, TieSame
<1>6. CASE \E cms \in Loop : ProcessMessages(cms)
  BY <1>6, TieSame DEF ProcessMessages, queueVars, histVars, InHand
<1>7. CASE GetMoveDue
  <2>1. PICK d \in dmsgq_ : /\ IsTop(d)
                            /\ msgq_' = msgq_ \cup {[msg |-> d.msg, seq |-> pushed_]}
                            /\ dmsgq_' = dmsgq_ \ {d}
    BY <1>7 DEF GetMoveDue
  <2>2. UNCHANGED <<ahead, fate, pc, pmsg>> /\ pc = "scan" /\ pushed_ \in Nat
    BY <1>7 DEF GetMoveDue, histVars, TypeInv, TypeOK
  <2> DEFINE new == [msg |-> d.msg, seq |-> pushed_]
  <2>3. msgq_' = msgq_ \cup {new} /\ new.msg = d.msg /\ new.seq = pushed_
    BY <2>1
  <2> HIDE DEF new
  <2>4. \A x \in Msg : ~InHand(x) /\ ~InHand(x)'
    BY <2>2 DEF InHand
  <2>5. \A n \in ahead[d.msg] : InReady(n)
    <3> SUFFICES ASSUME NEW n \in ahead[d.msg], ~InReady(n) PROVE FALSE
      OBVIOUS
    <3>1. PICK e \in dmsgq_ : e.msg = n /\ Before(e, d)
      BY <1>0, <2>4 DEF TieInv
    <3>2. e # d
      BY <3>1 DEF Before, TypeInv, TypeOK, Delayed
    <3> QED
      BY <2>1, <3>1, <3>2 DEF IsTop
  <2>6. \A r \in msgq_' : \A n \in ahead'[r.msg] :
          InHand(n)' \/ \E s \in msgq_' : s.msg = n /\ s.seq < r.seq
    <3>1. ASSUME NEW r \in msgq_, NEW n \in ahead'[r.msg]
          PROVE  \E s \in msgq_' : s.msg = n /\ s.seq < r.seq
      BY <1>0, <2>2, <2>3, <2>4, <3>1 DEF TieInv
    <3>2. ASSUME NEW n \in ahead'[d.msg]
          PROVE  \E s \in msgq_' : s.msg = n /\ s.seq < new.seq
      BY <1>0, <2>2, <2>3, <2>5, <3>2 DEF InReady
    <3> QED
      BY <2>3, <3>1, <3>2
  <2>7. \A f \in dmsgq_' : \A n \in ahead'[f.msg] :
          InHand(n)' \/ InReady(n)' \/ \E e \in dmsgq_' : e.msg = n /\ Before(e, f)
    <3>1. \A n \in Msg : InReady(n) => InReady(n)'
      BY <2>3 DEF InReady
    <3>2. \A e \in dmsgq_ : e \in dmsgq_' \/ InReady(e.msg)'
      BY <2>1, <2>3 DEF InReady
    <3> QED
      BY <1>0, <2>1, <2>2, <2>4, <3>1, <3>2 DEF TieInv
  <2>8. TiesInOrder'
    BY <2>4 DEF TiesInOrder, Overtook
  <2> QED
    BY <2>6, <2>7, <2>8 DEF TieInv, Before
<1>8. CASE GetPop \/ GetPopAgain
  <2>1. /\ UNCHANGED <<ahead, fate, dmsgq_>> /\ TakeFront /\ pc \in {"scan", "repop"}
    BY <1>8 DEF GetPop, GetPopAgain, histVars
  <2>2. \A x \in Msg : ~InHand(x)
    BY <2>1 DEF InHand
  <2>3. CASE msgq_ = {} /\ pc' = "quitcheck" /\ UNCHANGED <<msgq_, pmsg>>
    BY <2>1, <2>2, <2>3, TieSame DEF InHand
  <2>4. ASSUME NEW r \in msgq_, IsFront(r), PopFront(r), pc' \in {"dispose", "got"}
        PROVE  TieInv'
    <3>1. /\ r.msg \in Msg /\ msgq_' = msgq_ \ {r}
          /\ \A x \in Msg : InHand(x)' <=> x = r.msg
      BY <1>0, <2>1, <2>4 DEF PopFront, InHand
    <3>2. ahead[r.msg] = {}
      BY <1>0, <2>2, <2>4 DEF TieInv, IsFront
    <3>3. TiesInOrder'
      BY <2>1, <3>1, <3>2 DEF TiesInOrder, Overtook
    <3>4. \A s \in msgq_' : \A n \in ahead'[s.msg] :
            InHand(n)' \/ \E t \in msgq_' : t.msg = n /\ t.seq < s.seq
      BY <1>0, <2>1, <2>2, <3>1 DEF TieInv
    <3>5. \A d \in dmsgq_' : \A n \in ahead'[d.msg] :
            InHand(n)' \/ InReady(n)' \/ \E e \in dmsgq_' : e.msg = n /\ Before(e, d)
      <4>1. \A n \in Msg : InReady(n) => InReady(n)' \/ InHand(n)'
        BY <3>1 DEF InReady
      <4> QED
        BY <1>0, <2>1, <2>2, <3>1, <4>1 DEF TieInv
    <3> QED
      BY <3>3, <3>4, <3>5 DEF TieInv, Before
  <2> QED
    BY <2>1, <2>3, <2>4 DEF TakeFront
<1>9. CASE GetDispose
  <2> DEFINE gone == {m \in Queued : doomed[pmsg] # NULL /\ phandler[m] = doomed[pmsg]}
             end == [m \in Msg |-> IF m = pmsg THEN "disposed" ELSE "cleared"]
  <2>1. /\ msgq_' = {r \in msgq_ : r.msg \notin gone}
        /\ dmsgq_' = {d \in dmsgq_ : d.msg \notin gone}
        /\ pc = "dispose" /\ pc' = "repop"
        /\ Settle(gone \cup {pmsg}, end)
    BY <1>9 DEF GetDispose
  <2> HIDE DEF gone, end
  <2>2. /\ \A r \in msgq_ : r.msg # pmsg
        /\ \A d \in dmsgq_ : d.msg # pmsg
    BY <1>0, <2>1 DEF PlaceInv, PendingOnce, InReady, InDelayed, InHand
  <2>3. /\ msgq_' = {r \in msgq_ : r.msg \notin gone \cup {pmsg}}
        /\ dmsgq_' = {d \in dmsgq_ : d.msg \notin gone \cup {pmsg}}
    BY <2>1, <2>2
  <2>4. \A m \in Msg : InHand(m)' <=> InHand(m) /\ m \notin gone \cup {pmsg}
    BY <2>1 DEF InHand
  <2> QED
    BY <2>1, <2>3, <2>4, TieSettle
<1>10. CASE Dispatch
  <2>1. /\ UNCHANGED <<msgq_, dmsgq_>> /\ pc = "got" /\ pc' = "dispatch"
        /\ Settle({pmsg}, [m \in Msg |-> "handled"])
    BY <1>10 DEF Dispatch, queueVars
  <2>2. /\ \A r \in msgq_ : r.msg # pmsg
        /\ \A d \in dmsgq_ : d.msg # pmsg
    BY <1>0, <2>1 DEF PlaceInv, PendingOnce, InReady, InDelayed, InHand
  <2>3. /\ msgq_' = {r \in msgq_ : r.msg \notin {pmsg}}
        /\ dmsgq_' = {d \in dmsgq_ : d.msg \notin {pmsg}}
    BY <2>1, <2>2
  <2>4. \A m \in Msg : InHand(m)' <=> InHand(m) /\ m \notin {pmsg}
    BY <2>1 DEF InHand
  <2> QED
    BY <2>1, <2>3, <2>4, TieSettle
<1>11. CASE DoDestroy
  BY <1>4, <1>11 DEF DoDestroy
<1>12. CASE \E c \in Caller, h \in Handler, i \in Id \cup {MQID_ANY} : Clear(c, h, i)
  BY <1>4, <1>12 DEF Clear
<1>13. CASE \E h \in Handler : DeleteHandler(h)
  BY <1>4, <1>13 DEF DeleteHandler
<1>14. CASE UNCHANGED vars
  BY <1>14, TieSame DEF vars, queueVars, histVars, InHand
<1> QED
  BY <1>1, <1>2, <1>3, <1>5, <1>6, <1>7, <1>8, <1>9, <1>10, <1>11, <1>12, <1>13, <1>14
     DEF Next, GetStep, CallStep, Post, PostDelayed, PostAt

\* As long as no more messages are posted with a delay than dmsgq_next_num_ can count,
\* no message overtakes one that was ahead of it, identical times included: the heap
\* gives them back in the order of num_, and Clear does not disturb it.
THEOREM TiesInOrderHolds == ASSUME FewMessages PROVE Spec => []TiesInOrder
<1> DEFINE I == TypeInv /\ PlaceInv /\ TimeInv /\ OrderInv /\ NumInv /\ TieInv
<1>1. Init => I
  BY TypeInit, PlaceInit, TimeInit, OrderInit, NumInit, TieInit
<1>2. I /\ [Next]_vars => I'
  BY TypeStep, PlaceStep, TimeStep, OrderStep, NumStep, TieStep
<1>3. I => TiesInOrder
  BY DEF TieInv
<1> QED
  BY <1>1, <1>2, <1>3, PTL DEF Spec
=============================================================================
