------------------------ MODULE ProcessThreadProofs ------------------------
(***************************************************************************)
(* Theorems about ProcessThread, for every value of its constants: any     *)
(* modules, tasks and threads, and any intervals that modules return.      *)
(***************************************************************************)
EXTENDS ProcessThread, SequenceTheorems, TLAPS

(* Types *)

\* Every step keeps the types of the shared state.
LEMMA StepSharedTypes ==
  ASSUME TypeOK, [Next]_vars
  PROVE  SharedTypes'
<1>1. ASSUME NEW p \in Thread, Set(p) PROVE SharedTypes'
  BY <1>1, TypeOK DEF Set, TypeOK, SharedTypes, control, history
<1>2. ASSUME NEW p \in Thread, NEW m \in Mod, WakeUp(p, m) PROVE SharedTypes'
  BY <1>2, TypeOK DEF WakeUp, TypeOK, SharedTypes, control, history, ThenSet,
     kCallProcessImmediately
<1>3. ASSUME NEW p \in Thread, NEW m \in Mod, DeRegisterModule(p, m) PROVE SharedTypes'
  BY <1>3, TypeOK DEF DeRegisterModule, TypeOK, SharedTypes, control, kCallProcessImmediately
<1>4. ASSUME NEW p \in Thread, NEW t \in Task, PostTask(p, t) PROVE SharedTypes'
  BY <1>4, TypeOK DEF PostTask, TypeOK, SharedTypes, control, ThenSet
<1>5. CASE Start
  BY <1>5, TypeOK DEF Start, TypeOK, SharedTypes, shared
<1>6. CASE StartThread
  BY <1>6, TypeOK DEF StartThread, TypeOK, SharedTypes, shared, history
<1>7. CASE Stop
  BY <1>7, TypeOK DEF Stop, TypeOK, SharedTypes, history, ThenSet, Thread
<1>8. CASE StopThread
  BY <1>8, TypeOK DEF StopThread, TypeOK, SharedTypes, shared, history
<1>9. CASE Joined
  BY <1>9, TypeOK DEF Joined, TypeOK, SharedTypes, shared, history
<1>10. CASE StopEnd
  BY <1>10, TypeOK DEF StopEnd, TypeOK, SharedTypes, shared
<1>11. ASSUME NEW m \in Mod, RegisterModule(m) PROVE SharedTypes'
  BY <1>11, TypeOK DEF RegisterModule, TypeOK, SharedTypes, shared
<1>12. CASE RegisterPush
  BY <1>12, TypeOK DEF RegisterPush, TypeOK, SharedTypes, history, ThenSet, Thread,
     ControlTypes, kCallProcessImmediately
<1>13. CASE Destroy
  BY <1>13, TypeOK DEF Destroy, TypeOK, SharedTypes
<1>14. CASE ProcessBegin
  BY <1>14, TypeOK DEF ProcessBegin, TypeOK, SharedTypes, shared, control, history
<1>15. CASE ProcessLock
  BY <1>15, TypeOK DEF ProcessLock, TypeOK, SharedTypes, shared, control, history
<1>16. ASSUME NEW m \in Mod, NEW interval \in Interval, VisitModule(m, interval) PROVE
   SharedTypes'
  BY <1>16, TypeOK, ProcessThreadAssumption DEF VisitModule, TypeOK, SharedTypes, control,
     history, WorkerTypes, WorkerType, Visited, NextCallbackTime
<1>17. ASSUME NEW interval \in Interval, ModuleReturns(interval) PROVE SharedTypes'
  BY <1>17, TypeOK, ProcessThreadAssumption DEF ModuleReturns, TypeOK, SharedTypes, control,
     history, WorkerTypes, Visited, NextCallbackTime
<1>18. CASE ScanEnds
  BY <1>18, TypeOK DEF ScanEnds, TypeOK, SharedTypes, shared, control, history
<1>19. CASE TakeTask
  BY <1>19, TypeOK DEF TakeTask, TypeOK, SharedTypes, control, history
<1>20. CASE TaskReturns
  BY <1>20, TypeOK DEF TaskReturns, TypeOK, SharedTypes, shared, control
<1>21. CASE TasksEnd
  BY <1>21, TypeOK DEF TasksEnd, TypeOK, SharedTypes, shared, control, history
<1>22. CASE Sleep
  BY <1>22, TypeOK DEF Sleep, TypeOK, SharedTypes, shared, control, history
<1>23. CASE Wake
  BY <1>23, TypeOK DEF Wake, TypeOK, SharedTypes, control, history
<1>24. CASE RunAgain
  BY <1>24, TypeOK DEF RunAgain, TypeOK, SharedTypes, shared, control, history
<1>25. CASE Tick
  BY <1>25, TypeOK DEF Tick, TypeOK, SharedTypes, shared, control, history
<1>26. CASE UNCHANGED vars
  BY <1>26, TypeOK DEF vars, shared, control, history, TypeOK, SharedTypes
<1> QED
  BY <1>1, <1>2, <1>3, <1>4, <1>5, <1>6, <1>7, <1>8, <1>9, <1>10, <1>11, <1>12, <1>13, <1>14,
     <1>15, <1>16, <1>17, <1>18, <1>19, <1>20, <1>21, <1>22, <1>23, <1>24, <1>25, <1>26
     DEF Next, WorkerStep, ControllerStep

\* Every step keeps the types of the controller's state.
LEMMA StepControlTypes ==
  ASSUME TypeOK, [Next]_vars
  PROVE  ControlTypes'
<1>1. ASSUME NEW p \in Thread, Set(p) PROVE ControlTypes'
  BY <1>1, TypeOK DEF Set, TypeOK, ControlTypes, control, history
<1>2. ASSUME NEW p \in Thread, NEW m \in Mod, WakeUp(p, m) PROVE ControlTypes'
  BY <1>2, TypeOK DEF WakeUp, TypeOK, ControlTypes, control, history
<1>3. ASSUME NEW p \in Thread, NEW m \in Mod, DeRegisterModule(p, m) PROVE ControlTypes'
  BY <1>3, TypeOK DEF DeRegisterModule, TypeOK, ControlTypes, control
<1>4. ASSUME NEW p \in Thread, NEW t \in Task, PostTask(p, t) PROVE ControlTypes'
  BY <1>4, TypeOK DEF PostTask, TypeOK, ControlTypes, control
<1>5. CASE Start
  BY <1>5, TypeOK DEF Start, TypeOK, ControlTypes, shared, ControllerType
<1>6. CASE StartThread
  BY <1>6, TypeOK DEF StartThread, TypeOK, ControlTypes, shared, history, ControllerType
<1>7. CASE Stop
  BY <1>7, TypeOK DEF Stop, TypeOK, ControlTypes, history, ControllerType
<1>8. CASE StopThread
  BY <1>8, TypeOK DEF StopThread, TypeOK, ControlTypes, shared, history, ControllerType
<1>9. CASE Joined
  BY <1>9, TypeOK DEF Joined, TypeOK, ControlTypes, shared, history, ControllerType
<1>10. CASE StopEnd
  BY <1>10, TypeOK DEF StopEnd, TypeOK, ControlTypes, shared, ControllerType
<1>11. ASSUME NEW m \in Mod, RegisterModule(m) PROVE ControlTypes'
  BY <1>11, TypeOK DEF RegisterModule, TypeOK, ControlTypes, shared, ControllerType
<1>12. CASE RegisterPush
  BY <1>12, TypeOK DEF RegisterPush, TypeOK, ControlTypes, history, ControllerType, NoModule
<1>13. CASE Destroy
  BY <1>13, TypeOK DEF Destroy, TypeOK, ControlTypes, ControllerType
<1>14. CASE ProcessBegin
  BY <1>14, TypeOK DEF ProcessBegin, TypeOK, ControlTypes, shared, control, history
<1>15. CASE ProcessLock
  BY <1>15, TypeOK DEF ProcessLock, TypeOK, ControlTypes, shared, control, history
<1>16. ASSUME NEW m \in Mod, NEW interval \in Interval, VisitModule(m, interval) PROVE
   ControlTypes'
  BY <1>16, TypeOK DEF VisitModule, TypeOK, ControlTypes, control, history
<1>17. ASSUME NEW interval \in Interval, ModuleReturns(interval) PROVE ControlTypes'
  BY <1>17, TypeOK DEF ModuleReturns, TypeOK, ControlTypes, control, history
<1>18. CASE ScanEnds
  BY <1>18, TypeOK DEF ScanEnds, TypeOK, ControlTypes, shared, control, history
<1>19. CASE TakeTask
  BY <1>19, TypeOK DEF TakeTask, TypeOK, ControlTypes, control, history
<1>20. CASE TaskReturns
  BY <1>20, TypeOK DEF TaskReturns, TypeOK, ControlTypes, shared, control
<1>21. CASE TasksEnd
  BY <1>21, TypeOK DEF TasksEnd, TypeOK, ControlTypes, shared, control, history
<1>22. CASE Sleep
  BY <1>22, TypeOK DEF Sleep, TypeOK, ControlTypes, shared, control, history
<1>23. CASE Wake
  BY <1>23, TypeOK DEF Wake, TypeOK, ControlTypes, control, history
<1>24. CASE RunAgain
  BY <1>24, TypeOK DEF RunAgain, TypeOK, ControlTypes, shared, control, history
<1>25. CASE Tick
  BY <1>25, TypeOK DEF Tick, TypeOK, ControlTypes, shared, control, history
<1>26. CASE UNCHANGED vars
  BY <1>26, TypeOK DEF vars, shared, control, history, TypeOK, ControlTypes
<1> QED
  BY <1>1, <1>2, <1>3, <1>4, <1>5, <1>6, <1>7, <1>8, <1>9, <1>10, <1>11, <1>12, <1>13, <1>14,
     <1>15, <1>16, <1>17, <1>18, <1>19, <1>20, <1>21, <1>22, <1>23, <1>24, <1>25, <1>26
     DEF Next, WorkerStep, ControllerStep

\* Every step keeps the types of the histories.
LEMMA StepHistoryTypes ==
  ASSUME TypeOK, [Next]_vars
  PROVE  HistoryTypes'
<1>1. ASSUME NEW p \in Thread, Set(p) PROVE HistoryTypes'
  BY <1>1, TypeOK DEF Set, TypeOK, HistoryTypes, control, history
<1>2. ASSUME NEW p \in Thread, NEW m \in Mod, WakeUp(p, m) PROVE HistoryTypes'
  BY <1>2, TypeOK DEF WakeUp, TypeOK, HistoryTypes, control, history
<1>3. ASSUME NEW p \in Thread, NEW m \in Mod, DeRegisterModule(p, m) PROVE HistoryTypes'
  BY <1>3, TypeOK DEF DeRegisterModule, TypeOK, HistoryTypes, control
<1>4. ASSUME NEW p \in Thread, NEW t \in Task, PostTask(p, t) PROVE HistoryTypes'
  BY <1>4, TypeOK DEF PostTask, TypeOK, HistoryTypes, control
<1>5. CASE Start
  BY <1>5, TypeOK DEF Start, TypeOK, HistoryTypes, shared
<1>6. CASE StartThread
  BY <1>6, TypeOK DEF StartThread, TypeOK, HistoryTypes, shared, history
<1>7. CASE Stop
  BY <1>7, TypeOK DEF Stop, TypeOK, HistoryTypes, history
<1>8. CASE StopThread
  BY <1>8, TypeOK DEF StopThread, TypeOK, HistoryTypes, shared, history
<1>9. CASE Joined
  BY <1>9, TypeOK DEF Joined, TypeOK, HistoryTypes, shared, history
<1>10. CASE StopEnd
  BY <1>10, TypeOK DEF StopEnd, TypeOK, HistoryTypes, shared
<1>11. ASSUME NEW m \in Mod, RegisterModule(m) PROVE HistoryTypes'
  BY <1>11, TypeOK DEF RegisterModule, TypeOK, HistoryTypes, shared, ControlTypes
<1>12. CASE RegisterPush
  BY <1>12, TypeOK DEF RegisterPush, TypeOK, HistoryTypes, history
<1>13. CASE Destroy
  BY <1>13, TypeOK DEF Destroy, TypeOK, HistoryTypes, SharedTypes
<1>14. CASE ProcessBegin
  BY <1>14, TypeOK DEF ProcessBegin, TypeOK, HistoryTypes, shared, control, history
<1>15. CASE ProcessLock
  BY <1>15, TypeOK DEF ProcessLock, TypeOK, HistoryTypes, shared, control, history
<1>16. ASSUME NEW m \in Mod, NEW interval \in Interval, VisitModule(m, interval) PROVE
   HistoryTypes'
  BY <1>16, TypeOK DEF VisitModule, TypeOK, HistoryTypes, control, history
<1>17. ASSUME NEW interval \in Interval, ModuleReturns(interval) PROVE HistoryTypes'
  BY <1>17, TypeOK DEF ModuleReturns, TypeOK, HistoryTypes, control, history
<1>18. CASE ScanEnds
  BY <1>18, TypeOK DEF ScanEnds, TypeOK, HistoryTypes, shared, control, history
<1>19. CASE TakeTask
  BY <1>19, TypeOK DEF TakeTask, TypeOK, HistoryTypes, control, history
<1>20. CASE TaskReturns
  BY <1>20, TypeOK DEF TaskReturns, TypeOK, HistoryTypes, shared, control, WorkerTypes,
     WorkerType
<1>21. CASE TasksEnd
  BY <1>21, TypeOK DEF TasksEnd, TypeOK, HistoryTypes, shared, control, history
<1>22. CASE Sleep
  BY <1>22, TypeOK DEF Sleep, TypeOK, HistoryTypes, shared, control, history
<1>23. CASE Wake
  BY <1>23, TypeOK DEF Wake, TypeOK, HistoryTypes, control, history
<1>24. CASE RunAgain
  BY <1>24, TypeOK DEF RunAgain, TypeOK, HistoryTypes, shared, control, history
<1>25. CASE Tick
  BY <1>25, TypeOK DEF Tick, TypeOK, HistoryTypes, shared, control, history
<1>26. CASE UNCHANGED vars
  BY <1>26, TypeOK DEF vars, shared, control, history, TypeOK, HistoryTypes
<1> QED
  BY <1>1, <1>2, <1>3, <1>4, <1>5, <1>6, <1>7, <1>8, <1>9, <1>10, <1>11, <1>12, <1>13, <1>14,
     <1>15, <1>16, <1>17, <1>18, <1>19, <1>20, <1>21, <1>22, <1>23, <1>24, <1>25, <1>26
     DEF Next, WorkerStep, ControllerStep

\* A worker without variables is well typed, wherever it is.
LEMMA FreshWorker ==
  /\ NoWorker \in WorkerType /\ NoWorker.hand = <<>>
  /\ \A place \in {"begin", "looped", "ended"} :
       LET w == [NoWorker EXCEPT !.pc = place]
       IN  w \in WorkerType /\ w.pc = place /\ w.hand = <<>>
<1>1. NoWorker \in WorkerType /\ NoWorker.hand = <<>>
  BY DEF NoWorker, NoModule, WorkerType
<1>2. ASSUME NEW place \in {"begin", "looped", "ended"}
      PROVE  LET w == [NoWorker EXCEPT !.pc = place]
             IN  w \in WorkerType /\ w.pc = place /\ w.hand = <<>>
  BY <1>1 DEF WorkerType
<1> QED
  BY <1>1, <1>2

\* What the worker's record is after a call from inside a module or a task.
LEMMA CalledTypes ==
  ASSUME NEW p, WorkerTypes, Called(p), UNCHANGED now
  PROVE  WorkerTypes'
<1>1. worker \in WorkerType /\ now \in Nat
  BY DEF WorkerTypes
<1>2. worker' \in WorkerType /\ worker'.pc = worker.pc /\ worker'.module = worker.module
  BY <1>1 DEF Called, WorkerType
<1> QED
  BY <1>1, <1>2 DEF WorkerTypes

\* What it is after a module has been visited.
LEMMA VisitedTypes ==
  ASSUME NEW m, NEW time \in Nat, WorkerTypes, Visited(m, time), UNCHANGED now
  PROVE  WorkerTypes'
<1> DEFINE checkpoint == IF time < worker.next_checkpoint THEN time ELSE worker.next_checkpoint
<1>1. worker \in WorkerType /\ now \in Nat
  BY DEF WorkerTypes
<1>2. worker' = [worker EXCEPT !.pc = "scan", !.todo = worker.todo \ {m}, !.module = NoModule,
                               !.calls = 0, !.next_checkpoint = checkpoint]
  BY <1>1 DEF Visited, WorkerType
<1>3. checkpoint \in Nat /\ worker.todo \ {m} \in SUBSET Mod
  BY <1>1 DEF WorkerType
<1> HIDE DEF checkpoint
<1>4. worker' \in WorkerType /\ worker'.pc = "scan"
  BY <1>1, <1>2, <1>3 DEF WorkerType
<1> QED
  BY <1>1, <1>4 DEF WorkerTypes

\* Every step keeps the types of the worker's state.
LEMMA StepWorkerTypes ==
  ASSUME TypeOK, [Next]_vars
  PROVE  WorkerTypes'
<1>1. ASSUME NEW p \in Thread, Set(p) PROVE WorkerTypes'
  BY <1>1, TypeOK DEF Set, TypeOK, WorkerTypes, control, history
<1>2. ASSUME NEW p \in Thread, NEW m \in Mod, WakeUp(p, m) PROVE WorkerTypes'
  BY <1>2, CalledTypes, TypeOK DEF TypeOK, WakeUp
<1>3. ASSUME NEW p \in Thread, NEW m \in Mod, DeRegisterModule(p, m) PROVE WorkerTypes'
  BY <1>3, CalledTypes, TypeOK DEF TypeOK, DeRegisterModule
<1>4. ASSUME NEW p \in Thread, NEW t \in Task, PostTask(p, t) PROVE WorkerTypes'
  BY <1>4, CalledTypes, TypeOK DEF TypeOK, PostTask
<1>5. CASE Start
  BY <1>5, TypeOK DEF Start, TypeOK, WorkerTypes, shared
<1>6. CASE StartThread
  <2>1. worker \in WorkerType /\ now \in Nat
    BY DEF TypeOK, WorkerTypes
  <2>2. worker' \in WorkerType /\ worker'.pc = "begin"
    BY <1>6, <2>1, FreshWorker DEF StartThread
  <2> QED
    BY <1>6, <2>1, <2>2 DEF StartThread, WorkerTypes
<1>7. CASE Stop
  BY <1>7, TypeOK DEF Stop, TypeOK, WorkerTypes, history
<1>8. CASE StopThread
  BY <1>8, TypeOK DEF StopThread, TypeOK, WorkerTypes, shared, history
<1>9. CASE Joined
  <2>1. worker \in WorkerType /\ now \in Nat
    BY DEF TypeOK, WorkerTypes
  <2>2. worker' \in WorkerType /\ worker'.pc = "none"
    BY <1>9, <2>1 DEF Joined, NoWorker, NoModule, WorkerType
  <2> QED
    BY <1>9, <2>1, <2>2 DEF Joined, WorkerTypes
<1>10. CASE StopEnd
  BY <1>10, TypeOK DEF StopEnd, TypeOK, WorkerTypes, shared
<1>11. ASSUME NEW m \in Mod, RegisterModule(m) PROVE WorkerTypes'
  BY <1>11, TypeOK DEF RegisterModule, TypeOK, WorkerTypes, shared
<1>12. CASE RegisterPush
  BY <1>12, TypeOK DEF RegisterPush, TypeOK, WorkerTypes, history
<1>13. CASE Destroy
  BY <1>13, TypeOK DEF Destroy, TypeOK, WorkerTypes
<1>14. CASE ProcessBegin
  <2>1. worker \in WorkerType /\ now \in Nat
    BY DEF TypeOK, WorkerTypes
  <2>3. now + kLongestWait \in Nat
    BY <2>1, ProcessThreadAssumption
  <2>2. worker' \in WorkerType /\ worker'.pc = "locking"
    BY <1>14, <2>1, <2>3 DEF ProcessBegin, WorkerType
  <2> QED
    BY <1>14, <2>1, <2>2 DEF ProcessBegin, WorkerTypes
<1>15. CASE ProcessLock
  <2>1. worker \in WorkerType /\ now \in Nat /\ modules_ \in SUBSET Mod
    BY DEF TypeOK, SharedTypes, WorkerTypes
  <2>2. worker' \in WorkerType /\ worker'.pc # "module"
    <3>1. CASE stop_
      BY <1>15, <3>1, FreshWorker DEF ProcessLock
    <3>2. CASE ~stop_
      BY <1>15, <2>1, <3>2 DEF ProcessLock, WorkerType
    <3> QED
      BY <3>1, <3>2
  <2> QED
    BY <1>15, <2>1, <2>2 DEF ProcessLock, WorkerTypes
<1>16. ASSUME NEW m \in Mod, NEW interval \in Interval, VisitModule(m, interval) PROVE
   WorkerTypes'
  <2> DEFINE time == IF next_callback[m] = 0 THEN NextCallbackTime(worker.now, interval)
                     ELSE next_callback[m]
  <2>1. worker \in WorkerType /\ now \in Nat
    BY DEF TypeOK, WorkerTypes
  <2>2. CASE Due(time) /\ worker' = [worker EXCEPT !.pc = "module", !.module = m]
    <3>1. worker' \in WorkerType /\ worker'.module \in Mod
      BY <2>1, <2>2 DEF WorkerType
    <3> QED
      BY <1>16, <2>1, <3>1 DEF VisitModule, WorkerTypes
  <2>3. CASE ~Due(time) /\ Visited(m, time)
    <3>1. time \in Nat
      BY <2>1, <2>3, ProcessThreadAssumption
      DEF TypeOK, SharedTypes, WorkerType, NextCallbackTime, Due, kCallProcessImmediately
    <3> HIDE DEF time
    <3> QED
      BY <1>16, <2>3, <3>1, VisitedTypes, TypeOK DEF TypeOK, VisitModule
  <2> QED
    BY <1>16, <2>2, <2>3 DEF VisitModule
<1>17. ASSUME NEW interval \in Interval, ModuleReturns(interval) PROVE WorkerTypes'
  <2>1. NextCallbackTime(now, interval) \in Nat
    BY ProcessThreadAssumption DEF TypeOK, WorkerTypes, NextCallbackTime
  <2> QED
    BY <1>17, <2>1, VisitedTypes, TypeOK DEF TypeOK, ModuleReturns
<1>18. CASE ScanEnds
  <2>1. worker \in WorkerType /\ now \in Nat
    BY DEF TypeOK, WorkerTypes
  <2>2. worker' \in WorkerType /\ worker'.pc = "tasks"
    BY <1>18, <2>1 DEF ScanEnds, WorkerType
  <2> QED
    BY <1>18, <2>1, <2>2 DEF ScanEnds, WorkerTypes
<1>19. CASE TakeTask
  <2>1. worker \in WorkerType /\ now \in Nat
    BY DEF TypeOK, WorkerTypes
  <2>3. <<Head(queue_)>> \in Seq(Task)
    BY <1>19 DEF TypeOK, SharedTypes, TakeTask
  <2>2. worker' \in WorkerType /\ worker'.pc = "task"
    BY <1>19, <2>1, <2>3 DEF TakeTask, WorkerType
  <2> QED
    BY <1>19, <2>1, <2>2 DEF TakeTask, WorkerTypes
<1>20. CASE TaskReturns
  <2>1. worker \in WorkerType /\ now \in Nat
    BY DEF TypeOK, WorkerTypes
  <2>3. <<>> \in Seq(Task)
    OBVIOUS
  <2>2. worker' \in WorkerType /\ worker'.pc = "tasks"
    BY <1>20, <2>1, <2>3 DEF TaskReturns, WorkerType
  <2> QED
    BY <1>20, <2>1, <2>2 DEF TaskReturns, WorkerTypes
<1>21. CASE TasksEnd
  <2>1. worker \in WorkerType /\ now \in Nat
    BY DEF TypeOK, WorkerTypes
  <2>2. worker' \in WorkerType /\ worker'.pc = "sleep"
    BY <1>21, <2>1 DEF TasksEnd, WorkerType
  <2> QED
    BY <1>21, <2>1, <2>2 DEF TasksEnd, WorkerTypes
<1>22. CASE Sleep
  <2>1. worker \in WorkerType /\ now \in Nat
    BY DEF TypeOK, WorkerTypes
  <2>2. worker' \in WorkerType /\ worker'.pc \in {"waiting", "looped"}
    BY <1>22, <2>1, FreshWorker DEF Sleep, Looped, WorkerType
  <2> QED
    BY <1>22, <2>1, <2>2 DEF Sleep, WorkerTypes
<1>23. CASE Wake
  <2>1. worker \in WorkerType /\ now \in Nat
    BY DEF TypeOK, WorkerTypes
  <2>2. worker' \in WorkerType /\ worker'.pc = "looped"
    BY <1>23, <2>1, FreshWorker DEF Wake, Looped
  <2> QED
    BY <1>23, <2>1, <2>2 DEF Wake, WorkerTypes
<1>24. CASE RunAgain
  <2>1. worker \in WorkerType /\ now \in Nat
    BY DEF TypeOK, WorkerTypes
  <2>2. worker' \in WorkerType /\ worker'.pc \in {"ended", "begin"}
    BY <1>24, <2>1 DEF RunAgain, WorkerType
  <2> QED
    BY <1>24, <2>1, <2>2 DEF RunAgain, WorkerTypes
<1>25. CASE Tick
  BY <1>25, TypeOK DEF Tick, TypeOK, WorkerTypes, shared, control, history
<1>26. CASE UNCHANGED vars
  BY <1>26, TypeOK DEF vars, shared, control, history, TypeOK, WorkerTypes
<1> QED
  BY <1>1, <1>2, <1>3, <1>4, <1>5, <1>6, <1>7, <1>8, <1>9, <1>10, <1>11, <1>12, <1>13, <1>14,
     <1>15, <1>16, <1>17, <1>18, <1>19, <1>20, <1>21, <1>22, <1>23, <1>24, <1>25, <1>26
     DEF Next, WorkerStep, ControllerStep

\* The state of the object, its worker and the threads that use it is always well typed.
THEOREM TypeCorrect == Spec => []TypeOK
<1>1. Init => TypeOK
  <2> SUFFICES ASSUME Init PROVE TypeOK
    OBVIOUS
  <2>1. SharedTypes
    <3>1. next_callback \in [Mod -> Nat \cup {kCallProcessImmediately}]
      BY DEF Init
    <3>2. queue_ \in Seq(Task)
      BY DEF Init
    <3> QED
      BY <3>1, <3>2 DEF Init, SharedTypes
  <2>3. ControlTypes
    BY DEF Init, ControlTypes, ControllerType
  <2>4. HistoryTypes
    BY DEF Init, HistoryTypes
  <2>2. WorkerTypes
    BY DEF Init, WorkerTypes, WorkerType, NoWorker, NoModule
  <2> QED
    BY <2>1, <2>2, <2>3, <2>4 DEF TypeOK
<1>2. TypeOK /\ [Next]_vars => TypeOK'
  BY StepSharedTypes, StepControlTypes, StepHistoryTypes, StepWorkerTypes DEF TypeOK
<1> QED
  BY <1>1, <1>2, PTL DEF Spec

----------------------------------------------------------------------------
(* Controller and worker *)

\* The controller and the worker are in step: without thread_, and once it has joined, there is
\* no worker.
CtrlInv ==
  /\ ~thread_ \/ controller.pc = "joined" => worker.pc = "none"
  /\ controller.pc = "starting" => ~thread_

\* A call from inside a module or a task moves the worker nowhere.
LEMMA CalledKeeps ==
  ASSUME NEW p, WorkerTypes, Called(p)
  PROVE  /\ worker'.pc = worker.pc /\ worker'.hand = worker.hand /\ worker'.todo = worker.todo
         /\ worker'.module = worker.module /\ worker'.next_checkpoint = worker.next_checkpoint
BY DEF WorkerTypes, WorkerType, Called

\* Every step keeps the controller and the worker in step.
LEMMA StepCtrlInv ==
  ASSUME TypeOK, CtrlInv, [Next]_vars
  PROVE  CtrlInv'
<1>1. ASSUME NEW p \in Thread, Set(p) PROVE CtrlInv'
  BY <1>1, TypeOK, CtrlInv DEF Set, TypeOK, CtrlInv, control, history
<1>2. ASSUME NEW p \in Thread, NEW m \in Mod, WakeUp(p, m) PROVE CtrlInv'
  BY <1>2, CalledKeeps, CtrlInv, TypeOK DEF TypeOK, CtrlInv, control, WakeUp
<1>3. ASSUME NEW p \in Thread, NEW m \in Mod, DeRegisterModule(p, m) PROVE CtrlInv'
  BY <1>3, CalledKeeps, CtrlInv, TypeOK DEF TypeOK, CtrlInv, control, DeRegisterModule
<1>4. ASSUME NEW p \in Thread, NEW t \in Task, PostTask(p, t) PROVE CtrlInv'
  BY <1>4, CalledKeeps, CtrlInv, TypeOK DEF TypeOK, CtrlInv, control, PostTask
<1>5. CASE Start
  BY <1>5, TypeOK, CtrlInv DEF Start, TypeOK, CtrlInv, shared, ControlTypes, ControllerType,
     MayCall
<1>6. CASE StartThread
  BY <1>6, TypeOK, CtrlInv DEF StartThread, TypeOK, CtrlInv, shared, history, ControlTypes,
     ControllerType
<1>7. CASE Stop
  BY <1>7, TypeOK, CtrlInv DEF Stop, TypeOK, CtrlInv, history, ControlTypes, ControllerType
<1>8. CASE StopThread
  BY <1>8, TypeOK, CtrlInv DEF StopThread, TypeOK, CtrlInv, shared, history, ControlTypes,
     ControllerType
<1>9. CASE Joined
  BY <1>9, TypeOK, CtrlInv DEF Joined, TypeOK, CtrlInv, shared, history, ControlTypes,
     ControllerType, NoWorker
<1>10. CASE StopEnd
  BY <1>10, TypeOK, CtrlInv DEF StopEnd, TypeOK, CtrlInv, shared, ControlTypes, ControllerType
<1>11. ASSUME NEW m \in Mod, RegisterModule(m) PROVE CtrlInv'
  BY <1>11, TypeOK, CtrlInv DEF RegisterModule, TypeOK, CtrlInv, shared, ControlTypes,
     ControllerType, MayCall
<1>12. CASE RegisterPush
  BY <1>12, TypeOK, CtrlInv DEF RegisterPush, TypeOK, CtrlInv, history, ControlTypes,
     ControllerType
<1>13. CASE Destroy
  BY <1>13, TypeOK, CtrlInv DEF Destroy, TypeOK, CtrlInv, ControlTypes, ControllerType
<1>14. CASE ProcessBegin
  BY <1>14, TypeOK, CtrlInv DEF ProcessBegin, TypeOK, CtrlInv, shared, control, history,
     WorkerTypes, WorkerType
<1>15. CASE ProcessLock
  BY <1>15, TypeOK, CtrlInv, FreshWorker DEF ProcessLock, TypeOK, CtrlInv, shared, control,
     history, WorkerTypes, WorkerType
<1>16. ASSUME NEW m \in Mod, NEW interval \in Interval, VisitModule(m, interval) PROVE CtrlInv'
  BY <1>16, TypeOK, CtrlInv DEF VisitModule, TypeOK, CtrlInv, control, history, WorkerTypes,
     WorkerType, Visited
<1>17. ASSUME NEW interval \in Interval, ModuleReturns(interval) PROVE CtrlInv'
  BY <1>17, TypeOK, CtrlInv DEF ModuleReturns, TypeOK, CtrlInv, control, history, WorkerTypes,
     WorkerType, Visited
<1>18. CASE ScanEnds
  BY <1>18, TypeOK, CtrlInv DEF ScanEnds, TypeOK, CtrlInv, shared, control, history,
     WorkerTypes, WorkerType
<1>19. CASE TakeTask
  BY <1>19, TypeOK, CtrlInv DEF TakeTask, TypeOK, CtrlInv, control, history, WorkerTypes,
     WorkerType
<1>20. CASE TaskReturns
  BY <1>20, TypeOK, CtrlInv DEF TaskReturns, TypeOK, CtrlInv, shared, control, WorkerTypes,
     WorkerType
<1>21. CASE TasksEnd
  BY <1>21, TypeOK, CtrlInv DEF TasksEnd, TypeOK, CtrlInv, shared, control, history,
     WorkerTypes, WorkerType
<1>22. CASE Sleep
  BY <1>22, TypeOK, CtrlInv, FreshWorker DEF Sleep, TypeOK, CtrlInv, shared, control, history,
     WorkerTypes, WorkerType, Looped
<1>23. CASE Wake
  BY <1>23, TypeOK, CtrlInv, FreshWorker DEF Wake, TypeOK, CtrlInv, control, history,
     WorkerTypes, WorkerType, Looped
<1>24. CASE RunAgain
  BY <1>24, TypeOK, CtrlInv DEF RunAgain, TypeOK, CtrlInv, shared, control, history,
     WorkerTypes, WorkerType
<1>25. CASE Tick
  BY <1>25, TypeOK, CtrlInv DEF Tick, TypeOK, CtrlInv, shared, control, history
<1>26. CASE UNCHANGED vars
  BY <1>26, TypeOK, CtrlInv DEF vars, shared, control, history, TypeOK, CtrlInv
<1> QED
  BY <1>1, <1>2, <1>3, <1>4, <1>5, <1>6, <1>7, <1>8, <1>9, <1>10, <1>11, <1>12, <1>13, <1>14,
     <1>15, <1>16, <1>17, <1>18, <1>19, <1>20, <1>21, <1>22, <1>23, <1>24, <1>25, <1>26
     DEF Next, WorkerStep, ControllerStep

\* The controller and the worker are in step in every reachable state.
LEMMA InStep == Spec => []CtrlInv
<1>1. Init => CtrlInv
  BY DEF Init, CtrlInv, NoWorker
<1> QED
  BY <1>1, StepCtrlInv, TypeCorrect, PTL DEF Spec

----------------------------------------------------------------------------
(* Tasks *)

\* Between tasks the worker has none in hand, and tasks are deleted only at the end.
TasksInv ==
  /\ TasksInOrder
  /\ worker.pc # "task" => worker.hand = <<>>
  /\ IF controller.pc = "gone" THEN queue_ = <<>> ELSE deleted = <<>>

\* PostTask appends behind what has run, is in hand and waits.
LEMMA AppendBehind ==
  ASSUME NEW a \in Seq(Task), NEW q \in Seq(Task), NEW t \in Task
  PROVE  Append(a \o q, t) = a \o Append(q, t)
<1>1. <<t>> \in Seq(Task) /\ a \o q \in Seq(Task)
  OBVIOUS
<1>2. Append(a \o q, t) = (a \o q) \o <<t>> /\ Append(q, t) = q \o <<t>>
  BY <1>1, AppendIsConcat
<1> QED
  BY <1>1, <1>2, ConcatAssociative

\* Taking the head off the queue into the hand leaves the whole as it was.
LEMMA TakeHead ==
  ASSUME NEW a \in Seq(Task), NEW q \in Seq(Task), q # <<>>
  PROVE  (a \o <<Head(q)>>) \o Tail(q) = a \o q
<1>1. Head(q) \in Task /\ Tail(q) \in Seq(Task) /\ <<Head(q)>> \in Seq(Task)
  BY HeadTailProperties
<1>2. <<Head(q)>> \o Tail(q) = q
  BY <1>1, HeadTailAppend, HeadTailProperties
<1> QED
  BY <1>1, <1>2, ConcatAssociative

\* The empty sequence adds nothing.
LEMMA NothingAdded ==
  ASSUME NEW a \in Seq(Task)
  PROVE  a \o <<>> = a
BY ConcatEmptySeq

\* Every step keeps the tasks in order.
LEMMA StepTasksInv ==
  ASSUME TypeOK, CtrlInv, TasksInv, [Next]_vars
  PROVE  TasksInv'
<1>1. ASSUME NEW p \in Thread, Set(p) PROVE TasksInv'
  BY <1>1, TypeOK, TasksInv DEF Set, TypeOK, TasksInv, TasksInOrder, control, history
<1>2. ASSUME NEW p \in Thread, NEW m \in Mod, WakeUp(p, m) PROVE TasksInv'
  BY <1>2, CalledKeeps, TasksInv, TypeOK DEF TypeOK, TasksInv, TasksInOrder, control, history,
     WakeUp
<1>3. ASSUME NEW p \in Thread, NEW m \in Mod, DeRegisterModule(p, m) PROVE TasksInv'
  BY <1>3, CalledKeeps, TasksInv, TypeOK DEF TypeOK, TasksInv, TasksInOrder, control, history,
     DeRegisterModule
<1>4. ASSUME NEW p \in Thread, NEW t \in Task, PostTask(p, t) PROVE TasksInv'
  <2>1. /\ worker'.pc = worker.pc /\ worker'.hand = worker.hand
        /\ controller' = controller /\ deleted' = deleted /\ ran' = ran
        /\ queue_' = Append(queue_, t) /\ posted' = Append(posted, t)
    BY <1>4, CalledKeeps DEF TypeOK, PostTask, control
  <2>2. controller.pc # "gone" /\ deleted = <<>>
    BY <1>4 DEF PostTask, MayCall, TasksInv
  <2>3. /\ ran \in Seq(Task) /\ worker.hand \in Seq(Task) /\ queue_ \in Seq(Task)
        /\ ran \o worker.hand \in Seq(Task)
    BY DEF TypeOK, SharedTypes, HistoryTypes, WorkerTypes, WorkerType
  <2>4. posted = (ran \o worker.hand) \o queue_
    BY <2>2, <2>3, NothingAdded DEF TasksInv, TasksInOrder
  <2> DEFINE done == ran \o worker.hand
  <2>5. posted' = done \o Append(queue_, t)
    <3>1. done \in Seq(Task) /\ queue_ \in Seq(Task) /\ posted' = Append(done \o queue_, t)
      BY <2>1, <2>3, <2>4
    <3> HIDE DEF done
    <3>2. Append(done \o queue_, t) = done \o Append(queue_, t)
      BY <3>1, <1>4, AppendBehind
    <3> QED
      BY <3>1, <3>2
  <2>6. posted' = ran' \o worker'.hand \o queue_' \o deleted'
    BY <2>1, <2>2, <2>3, <2>5, NothingAdded
  <2> QED
    BY <2>1, <2>2, <2>6 DEF TasksInv, TasksInOrder
<1>5. CASE Start
  BY <1>5, TypeOK, TasksInv DEF Start, TypeOK, TasksInv, TasksInOrder, shared, ControlTypes,
     ControllerType, MayCall
<1>6. CASE StartThread
  <2>1. worker.hand = <<>>
    BY <1>6 DEF StartThread, CtrlInv, TasksInv
  <2>2. worker'.hand = <<>> /\ controller'.pc = "idle" /\ controller.pc = "starting"
    BY <1>6, FreshWorker DEF StartThread, TypeOK, ControlTypes, ControllerType
  <2> QED
    BY <1>6, <2>1, <2>2 DEF StartThread, shared, history, TasksInv, TasksInOrder
<1>7. CASE Stop
  BY <1>7, TypeOK, TasksInv DEF Stop, TypeOK, TasksInv, TasksInOrder, history, ControlTypes,
     ControllerType, MayCall
<1>8. CASE StopThread
  BY <1>8, TypeOK, TasksInv DEF StopThread, TypeOK, TasksInv, TasksInOrder, shared, history,
     ControlTypes, ControllerType
<1>9. CASE Joined
  <2>1. worker.hand = <<>>
    BY <1>9 DEF Joined, TasksInv
  <2>2. worker'.hand = <<>> /\ controller'.pc = "joined" /\ controller.pc = "joining"
    BY <1>9, FreshWorker DEF Joined, TypeOK, ControlTypes, ControllerType
  <2> QED
    BY <1>9, <2>1, <2>2 DEF Joined, shared, history, TasksInv, TasksInOrder
<1>10. CASE StopEnd
  BY <1>10, TypeOK, TasksInv DEF StopEnd, TypeOK, TasksInv, TasksInOrder, shared, ControlTypes,
     ControllerType
<1>11. ASSUME NEW m \in Mod, RegisterModule(m) PROVE TasksInv'
  BY <1>11, TypeOK, TasksInv DEF RegisterModule, TypeOK, TasksInv, TasksInOrder, shared,
     ControlTypes, ControllerType, MayCall
<1>12. CASE RegisterPush
  BY <1>12, TypeOK, TasksInv DEF RegisterPush, TypeOK, TasksInv, TasksInOrder, history,
     ControlTypes, ControllerType
<1>13. CASE Destroy
  <2>1. /\ controller'.pc = "gone" /\ deleted = <<>> /\ queue_' = <<>> /\ deleted' = queue_
        /\ UNCHANGED <<posted, ran, worker>>
    BY <1>13 DEF Destroy, MayCall, TypeOK, ControlTypes, ControllerType, TasksInv
  <2>2. ran \in Seq(Task) /\ worker.hand \in Seq(Task) /\ queue_ \in Seq(Task)
    BY DEF TypeOK, SharedTypes, HistoryTypes, WorkerTypes, WorkerType
  <2>3. posted = ran \o worker.hand \o <<>> \o queue_
    BY <2>1, <2>2 DEF TasksInv, TasksInOrder
  <2> QED
    BY <2>1, <2>3 DEF TasksInv, TasksInOrder
<1>14. CASE ProcessBegin
  BY <1>14, TypeOK, TasksInv DEF ProcessBegin, TypeOK, TasksInv, TasksInOrder, shared, control,
     history, WorkerTypes, WorkerType
<1>15. CASE ProcessLock
  BY <1>15, TypeOK, TasksInv, FreshWorker DEF ProcessLock, TypeOK, TasksInv, TasksInOrder,
     shared, control, history, WorkerTypes, WorkerType
<1>16. ASSUME NEW m \in Mod, NEW interval \in Interval, VisitModule(m, interval) PROVE TasksInv'
  BY <1>16, TypeOK, TasksInv DEF VisitModule, TypeOK, TasksInv, TasksInOrder, control, history,
     WorkerTypes, WorkerType, Visited
<1>17. ASSUME NEW interval \in Interval, ModuleReturns(interval) PROVE TasksInv'
  BY <1>17, TypeOK, TasksInv DEF ModuleReturns, TypeOK, TasksInv, TasksInOrder, control,
     history, WorkerTypes, WorkerType, Visited
<1>18. CASE ScanEnds
  BY <1>18, TypeOK, TasksInv DEF ScanEnds, TypeOK, TasksInv, TasksInOrder, shared, control,
     history, WorkerTypes, WorkerType
<1>19. CASE TakeTask
  <2>1. /\ worker.hand = <<>> /\ queue_ # <<>> /\ controller.pc # "gone" /\ deleted = <<>>
        /\ queue_' = Tail(queue_) /\ UNCHANGED <<posted, ran, deleted, controller>>
    BY <1>19 DEF TakeTask, history, control, TasksInv
  <2>2. ran \in Seq(Task) /\ queue_ \in Seq(Task)
    BY DEF TypeOK, SharedTypes, HistoryTypes
  <2>3. worker'.pc = "task" /\ worker'.hand = <<Head(queue_)>>
    BY <1>19 DEF TakeTask, TypeOK, WorkerTypes, WorkerType
  <2>4. posted = ran \o queue_
    BY <2>1, <2>2 DEF TasksInv, TasksInOrder
  <2>5. posted = (ran \o <<Head(queue_)>>) \o Tail(queue_)
    BY <2>1, <2>2, <2>4, TakeHead
  <2>6. posted = (ran \o <<Head(queue_)>>) \o Tail(queue_) \o <<>>
    BY <2>1, <2>2, <2>4, <2>5, NothingAdded
  <2> QED
    BY <2>1, <2>3, <2>6 DEF TasksInv, TasksInOrder
<1>20. CASE TaskReturns
  <2>1. worker'.pc = "tasks" /\ worker'.hand = <<>>
    BY <1>20 DEF TaskReturns, TypeOK, WorkerTypes, WorkerType
  <2>2. ran' = ran \o worker.hand /\ UNCHANGED <<posted, queue_, deleted, controller>>
    BY <1>20 DEF TaskReturns, shared, control
  <2>3. ran \in Seq(Task) /\ worker.hand \in Seq(Task)
    BY DEF TypeOK, HistoryTypes, WorkerTypes, WorkerType
  <2>4. ran' \o <<>> = ran \o worker.hand
    BY <2>2, <2>3
  <2> QED
    BY <2>1, <2>2, <2>4 DEF TasksInv, TasksInOrder
<1>21. CASE TasksEnd
  BY <1>21, TypeOK, TasksInv DEF TasksEnd, TypeOK, TasksInv, TasksInOrder, shared, control,
     history, WorkerTypes, WorkerType
<1>22. CASE Sleep
  BY <1>22, TypeOK, TasksInv, FreshWorker DEF Sleep, TypeOK, TasksInv, TasksInOrder, shared,
     control, history, WorkerTypes, WorkerType, Looped
<1>23. CASE Wake
  BY <1>23, TypeOK, TasksInv, FreshWorker DEF Wake, TypeOK, TasksInv, TasksInOrder, control,
     history, WorkerTypes, WorkerType, Looped
<1>24. CASE RunAgain
  BY <1>24, TypeOK, TasksInv DEF RunAgain, TypeOK, TasksInv, TasksInOrder, shared, control,
     history, WorkerTypes, WorkerType
<1>25. CASE Tick
  BY <1>25, TypeOK, TasksInv DEF Tick, TypeOK, TasksInv, TasksInOrder, shared, control, history
<1>26. CASE UNCHANGED vars
  BY <1>26, TypeOK, TasksInv DEF vars, shared, control, history, TypeOK, TasksInv, TasksInOrder
<1> QED
  BY <1>1, <1>2, <1>3, <1>4, <1>5, <1>6, <1>7, <1>8, <1>9, <1>10, <1>11, <1>12, <1>13, <1>14,
     <1>15, <1>16, <1>17, <1>18, <1>19, <1>20, <1>21, <1>22, <1>23, <1>24, <1>25, <1>26
     DEF Next, WorkerStep, ControllerStep

\* PostTask, the loop over the tasks, Stop, Start and the destructor: tasks run in the order in
\* which they were posted, each once, and those that have not run wait or were deleted.
THEOREM TasksInOrderHolds == Spec => []TasksInOrder
<1>1. Init => TasksInv
  BY NothingAdded DEF Init, TasksInv, TasksInOrder, NoWorker
<1>2. TasksInv => TasksInOrder
  BY DEF TasksInv
<1> QED
  BY <1>1, <1>2, StepTasksInv, TypeCorrect, InStep, PTL DEF Spec

----------------------------------------------------------------------------
(* Attachment *)

\* What makes Attachment inductive: Start tells every module in the list and holds to it until
\* thread_ is set, RegisterModule tells the one it is about to push, and the worker has only
\* modules of the list ahead of it.
AttachInv ==
  /\ Attachment
  /\ controller.pc = "starting" => \A m \in modules_ : attached[m]
  /\ controller.pc = "registering" =>
       controller.module \notin modules_ /\ (thread_ => attached[controller.module])
  /\ worker.pc \in {"scan", "module"} => worker.todo \subseteq modules_

\* Every step keeps the modules told.
LEMMA StepAttachInv ==
  ASSUME TypeOK, CtrlInv, AttachInv, [Next]_vars
  PROVE  AttachInv'
<1>1. ASSUME NEW p \in Thread, Set(p) PROVE AttachInv'
  BY <1>1, TypeOK, AttachInv DEF Set, TypeOK, AttachInv, Attachment, control, history
<1>2. ASSUME NEW p \in Thread, NEW m \in Mod, WakeUp(p, m) PROVE AttachInv'
  BY <1>2, CalledKeeps, AttachInv, TypeOK DEF TypeOK, AttachInv, Attachment, control, history,
     WakeUp
<1>3. ASSUME NEW p \in Thread, NEW m \in Mod, DeRegisterModule(p, m) PROVE AttachInv'
  BY <1>3, CalledKeeps, AttachInv, TypeOK
  DEF TypeOK, SharedTypes, HistoryTypes, AttachInv, Attachment, control, CanLock,
     DeRegisterModule
<1>4. ASSUME NEW p \in Thread, NEW t \in Task, PostTask(p, t) PROVE AttachInv'
  BY <1>4, CalledKeeps, AttachInv, TypeOK DEF TypeOK, AttachInv, Attachment, control, history,
     PostTask
<1>5. CASE Start
  BY <1>5, TypeOK, AttachInv, CtrlInv DEF Start, TypeOK, AttachInv, Attachment, shared,
     ControlTypes, ControllerType, MayCall, SharedTypes, HistoryTypes
<1>6. CASE StartThread
  BY <1>6, TypeOK, AttachInv, CtrlInv, FreshWorker DEF StartThread, TypeOK, AttachInv,
     Attachment, shared, history, ControlTypes, ControllerType, CtrlInv
<1>7. CASE Stop
  BY <1>7, TypeOK, AttachInv DEF Stop, TypeOK, AttachInv, Attachment, history, ControlTypes,
     ControllerType, MayCall
<1>8. CASE StopThread
  BY <1>8, TypeOK, AttachInv DEF StopThread, TypeOK, AttachInv, Attachment, shared, history,
     ControlTypes, ControllerType
<1>9. CASE Joined
  BY <1>9, TypeOK, AttachInv DEF Joined, TypeOK, AttachInv, Attachment, shared, history,
     ControlTypes, ControllerType, NoWorker
<1>10. CASE StopEnd
  <2>1. /\ controller.pc = "joined" /\ controller'.pc = "idle" /\ ~thread_'
        /\ UNCHANGED <<modules_, worker, unnoticed>>
    BY <1>10 DEF StopEnd, shared, TypeOK, ControlTypes, ControllerType
  <2>2. ASSUME NEW m \in Mod, attached'[m], m \notin unnoticed PROVE FALSE
    <3>1. attached[m] /\ m \notin modules_
      BY <1>10, <2>2 DEF StopEnd
    <3> QED
      BY <2>1, <2>2, <3>1 DEF AttachInv, Attachment
  <2> QED
    BY <2>1, <2>2 DEF AttachInv, Attachment
<1>11. ASSUME NEW m \in Mod, RegisterModule(m) PROVE AttachInv'
  BY <1>11, TypeOK, AttachInv DEF RegisterModule, TypeOK, AttachInv, Attachment, shared,
     ControlTypes, ControllerType, MayCall, SharedTypes, HistoryTypes
<1>12. CASE RegisterPush
  BY <1>12, TypeOK, AttachInv DEF RegisterPush, TypeOK, AttachInv, Attachment, history,
     ControlTypes, ControllerType, SharedTypes, HistoryTypes, CanLock, NoModule
<1>13. CASE Destroy
  BY <1>13, TypeOK, AttachInv DEF Destroy, TypeOK, AttachInv, Attachment, ControlTypes,
     ControllerType, MayCall
<1>14. CASE ProcessBegin
  BY <1>14, TypeOK, AttachInv DEF ProcessBegin, TypeOK, AttachInv, Attachment, shared, control,
     history, WorkerTypes, WorkerType
<1>15. CASE ProcessLock
  BY <1>15, TypeOK, AttachInv, FreshWorker DEF ProcessLock, TypeOK, AttachInv, Attachment,
     shared, control, history, WorkerTypes, WorkerType, SharedTypes
<1>16. ASSUME NEW m \in Mod, NEW interval \in Interval, VisitModule(m, interval) PROVE
   AttachInv'
  <2> DEFINE time == IF next_callback[m] = 0 THEN NextCallbackTime(worker.now, interval)
                     ELSE next_callback[m]
  <2>1. worker \in WorkerType /\ m \in worker.todo /\ worker.pc = "scan"
    BY <1>16 DEF TypeOK, WorkerTypes, VisitModule
  <2>2. CASE Due(time) /\ worker' = [worker EXCEPT !.pc = "module", !.module = m]
    <3>1. worker'.pc = "module" /\ worker'.module = m /\ worker'.todo = worker.todo
      BY <2>1, <2>2 DEF WorkerType
    <3> QED
      BY <1>16, <2>1, <3>1 DEF VisitModule, control, history, AttachInv, Attachment
  <2>3. CASE ~Due(time) /\ Visited(m, time)
    <3>1. worker'.pc = "scan" /\ worker'.todo = worker.todo \ {m}
      BY <2>1, <2>3 DEF Visited, WorkerType
    <3> QED
      BY <1>16, <2>1, <3>1 DEF VisitModule, control, history, AttachInv, Attachment
  <2> QED
    BY <1>16, <2>2, <2>3 DEF VisitModule
<1>17. ASSUME NEW interval \in Interval, ModuleReturns(interval) PROVE AttachInv'
  BY <1>17, TypeOK, AttachInv DEF ModuleReturns, TypeOK, AttachInv, Attachment, control,
     history, WorkerTypes, WorkerType, Visited
<1>18. CASE ScanEnds
  BY <1>18, TypeOK, AttachInv DEF ScanEnds, TypeOK, AttachInv, Attachment, shared, control,
     history, WorkerTypes, WorkerType
<1>19. CASE TakeTask
  BY <1>19, TypeOK, AttachInv DEF TakeTask, TypeOK, AttachInv, Attachment, control, history,
     WorkerTypes, WorkerType
<1>20. CASE TaskReturns
  BY <1>20, TypeOK, AttachInv DEF TaskReturns, TypeOK, AttachInv, Attachment, shared, control,
     WorkerTypes, WorkerType
<1>21. CASE TasksEnd
  BY <1>21, TypeOK, AttachInv DEF TasksEnd, TypeOK, AttachInv, Attachment, shared, control,
     history, WorkerTypes, WorkerType
<1>22. CASE Sleep
  BY <1>22, TypeOK, AttachInv, FreshWorker DEF Sleep, TypeOK, AttachInv, Attachment, shared,
     control, history, WorkerTypes, WorkerType, Looped
<1>23. CASE Wake
  BY <1>23, TypeOK, AttachInv, FreshWorker DEF Wake, TypeOK, AttachInv, Attachment, control,
     history, WorkerTypes, WorkerType, Looped
<1>24. CASE RunAgain
  BY <1>24, TypeOK, AttachInv DEF RunAgain, TypeOK, AttachInv, Attachment, shared, control,
     history, WorkerTypes, WorkerType
<1>25. CASE Tick
  BY <1>25, TypeOK, AttachInv DEF Tick, TypeOK, AttachInv, Attachment, shared, control, history
<1>26. CASE UNCHANGED vars
  BY <1>26, TypeOK, AttachInv DEF vars, shared, control, history, TypeOK, AttachInv, Attachment
<1> QED
  BY <1>1, <1>2, <1>3, <1>4, <1>5, <1>6, <1>7, <1>8, <1>9, <1>10, <1>11, <1>12, <1>13, <1>14,
     <1>15, <1>16, <1>17, <1>18, <1>19, <1>20, <1>21, <1>22, <1>23, <1>24, <1>25, <1>26
     DEF Next, WorkerStep, ControllerStep

\* RegisterModule, DeRegisterModule, Start and Stop on their threads, and Process: modules are
\* told the truth about the thread, and no module outside the list is called.
THEOREM AttachmentHolds == Spec => []Attachment
<1>1. Init => AttachInv
  BY DEF Init, AttachInv, Attachment, NoWorker
<1>2. AttachInv => Attachment
  BY DEF AttachInv
<1> QED
  BY <1>1, <1>2, StepAttachInv, TypeCorrect, InStep, PTL DEF Spec

----------------------------------------------------------------------------
(* Sleep *)

\* What makes NoOversleep inductive.  From the start of the scan on, unless a wake-up is coming,
\* Stop has not been called and the modules already visited are not due before next_checkpoint;
\* after the scan all are, and after the tasks there are none.
SleepInv ==
  /\ /\ worker.pc \in {"scan", "module", "tasks", "task", "sleep", "waiting"}
     /\ ~WakeComing
     => /\ ~stop_
        /\ \A m \in modules_ \ worker.todo : next_callback[m] >= worker.next_checkpoint
  /\ worker.pc \in {"tasks", "task", "sleep", "waiting"} => worker.todo = {}
  /\ worker.pc \in {"sleep", "waiting"} /\ ~WakeComing => queue_ = <<>>
  /\ worker.pc = "module" => worker.module \in worker.todo

\* A module that has been visited is not due before next_checkpoint, and the others are not
\* due before it either, if they were not.
LEMMA VisitedCheckpoint ==
  ASSUME NEW m \in Mod, NEW time \in Int, TypeOK, Visited(m, time)
  PROVE  /\ worker'.pc = "scan" /\ worker'.todo = worker.todo \ {m}
         /\ next_callback'[m] >= worker'.next_checkpoint
         /\ \A n \in Mod \ {m} : next_callback[n] >= worker.next_checkpoint
                                    => next_callback'[n] >= worker'.next_checkpoint
<1> DEFINE checkpoint == IF time < worker.next_checkpoint THEN time ELSE worker.next_checkpoint
<1>1. worker \in WorkerType /\ next_callback \in [Mod -> Nat \cup {kCallProcessImmediately}]
  BY DEF TypeOK, SharedTypes, WorkerTypes
<1>2. /\ worker'.pc = "scan" /\ worker'.todo = worker.todo \ {m}
      /\ worker'.next_checkpoint = checkpoint
      /\ next_callback' = [next_callback EXCEPT ![m] = time]
  BY <1>1 DEF Visited, WorkerType
<1>3. checkpoint <= time /\ checkpoint <= worker.next_checkpoint /\ checkpoint \in Int
      /\ worker.next_checkpoint \in Int
  BY <1>1 DEF WorkerType
<1> HIDE DEF checkpoint
<1>4. \A n \in Mod : next_callback[n] \in Int
  BY <1>1 DEF kCallProcessImmediately
<1> QED
  BY <1>1, <1>2, <1>3, <1>4

\* Every step keeps the worker from sleeping on work.
LEMMA StepSleepInv ==
  ASSUME TypeOK, CtrlInv, SleepInv, [Next]_vars
  PROVE  SleepInv'
<1>1. ASSUME NEW p \in Thread, Set(p) PROVE SleepInv'
  BY <1>1, TypeOK, SleepInv DEF Set, TypeOK, SleepInv, WakeComing, control, history
<1>2. ASSUME NEW p \in Thread, NEW m \in Mod, WakeUp(p, m) PROVE SleepInv'
  BY <1>2, CalledKeeps, SleepInv, TypeOK DEF TypeOK, SleepInv, WakeComing, ThenSet, control,
     history, WakeUp
<1>3. ASSUME NEW p \in Thread, NEW m \in Mod, DeRegisterModule(p, m) PROVE SleepInv'
  BY <1>3, CalledKeeps, SleepInv, TypeOK
  DEF TypeOK, SharedTypes, SleepInv, WakeComing, control, DeRegisterModule
<1>4. ASSUME NEW p \in Thread, NEW t \in Task, PostTask(p, t) PROVE SleepInv'
  BY <1>4, CalledKeeps, SleepInv, TypeOK DEF TypeOK, SleepInv, WakeComing, ThenSet, control,
     history, PostTask
<1>5. CASE Start
  BY <1>5, TypeOK, SleepInv DEF Start, TypeOK, SleepInv, WakeComing, shared
<1>6. CASE StartThread
  BY <1>6, TypeOK, SleepInv, FreshWorker DEF StartThread, TypeOK, SleepInv, WakeComing, shared,
     history
<1>7. CASE Stop
  BY <1>7, TypeOK, SleepInv DEF Stop, TypeOK, SleepInv, WakeComing, history, ThenSet
<1>8. CASE StopThread
  BY <1>8, TypeOK, SleepInv DEF StopThread, TypeOK, SleepInv, WakeComing, shared, history
<1>9. CASE Joined
  BY <1>9, TypeOK, SleepInv DEF Joined, TypeOK, SleepInv, WakeComing, shared, history, NoWorker
<1>10. CASE StopEnd
  BY <1>10, TypeOK, SleepInv DEF StopEnd, TypeOK, SleepInv, WakeComing, shared
<1>11. ASSUME NEW m \in Mod, RegisterModule(m) PROVE SleepInv'
  BY <1>11, TypeOK, SleepInv DEF RegisterModule, TypeOK, SleepInv, WakeComing, shared
<1>12. CASE RegisterPush
  BY <1>12, TypeOK, SleepInv DEF RegisterPush, TypeOK, SleepInv, WakeComing, history, ThenSet
<1>13. CASE Destroy
  BY <1>13, TypeOK, SleepInv DEF Destroy, TypeOK, SleepInv, WakeComing
<1>14. CASE ProcessBegin
  BY <1>14, TypeOK, SleepInv DEF ProcessBegin, TypeOK, SleepInv, WakeComing, shared, control,
     history, WorkerTypes, WorkerType
<1>15. CASE ProcessLock
  BY <1>15, TypeOK, SleepInv, FreshWorker DEF ProcessLock, TypeOK, SleepInv, WakeComing, shared,
     control, history, WorkerTypes, WorkerType, SharedTypes
<1>16. ASSUME NEW m \in Mod, NEW interval \in Interval, VisitModule(m, interval) PROVE SleepInv'
  <2> DEFINE time == IF next_callback[m] = 0 THEN NextCallbackTime(worker.now, interval)
                     ELSE next_callback[m]
  <2>1. worker \in WorkerType /\ m \in worker.todo /\ worker.pc = "scan"
    BY <1>16 DEF TypeOK, WorkerTypes, VisitModule
  <2>2. CASE /\ Due(time) /\ worker' = [worker EXCEPT !.pc = "module", !.module = m]
             /\ next_callback' = [next_callback EXCEPT ![m] = time]
    <3>1. /\ worker'.pc = "module" /\ worker'.module = m /\ worker'.todo = worker.todo
          /\ worker'.next_checkpoint = worker.next_checkpoint
      BY <2>1, <2>2 DEF WorkerType
    <3>2. \A n \in modules_ \ worker.todo : next_callback'[n] = next_callback[n]
      BY <2>1, <2>2 DEF TypeOK, SharedTypes
    <3> QED
      BY <1>16, <2>1, <3>1, <3>2 DEF VisitModule, control, SleepInv, WakeComing
  <2>3. CASE ~Due(time) /\ Visited(m, time)
    <3>1. time \in Int /\ worker.next_checkpoint \in Int
      BY <2>1, <2>3, ProcessThreadAssumption
      DEF TypeOK, SharedTypes, WorkerType, NextCallbackTime, kCallProcessImmediately
    <3> HIDE DEF time
    <3>2. /\ worker'.pc = "scan" /\ worker'.todo = worker.todo \ {m}
          /\ next_callback'[m] >= worker'.next_checkpoint
          /\ \A n \in Mod \ {m} : next_callback[n] >= worker.next_checkpoint
                                     => next_callback'[n] >= worker'.next_checkpoint
      BY <2>3, <3>1, VisitedCheckpoint
    <3>3. modules_ \subseteq Mod
      BY DEF TypeOK, SharedTypes
    <3>4. UNCHANGED <<modules_, wake_up_, setting, stop_>>
      BY <1>16 DEF VisitModule, control
    <3>5. ASSUME ~WakeComing, NEW n \in modules_ \ (worker.todo \ {m})
          PROVE  next_callback'[n] >= worker'.next_checkpoint
      <4>1. CASE n = m
        BY <3>2, <4>1
      <4>2. CASE n # m
        <5>1. n \in modules_ \ worker.todo /\ n \in Mod \ {m}
          BY <3>3, <3>5, <4>2
        <5>2. next_callback[n] >= worker.next_checkpoint
          BY <2>1, <3>5, <5>1 DEF SleepInv
        <5> QED
          BY <3>2, <5>1, <5>2
      <4> QED
        BY <4>1, <4>2
    <3> QED
      BY <2>1, <3>2, <3>4, <3>5 DEF SleepInv, WakeComing
  <2> QED
    BY <1>16, <2>2, <2>3 DEF VisitModule
<1>17. ASSUME NEW interval \in Interval, ModuleReturns(interval) PROVE SleepInv'
  <2>1. worker \in WorkerType /\ worker.module \in worker.todo /\ worker.pc = "module"
    BY <1>17 DEF TypeOK, WorkerTypes, ModuleReturns, SleepInv
  <2>2. NextCallbackTime(now, interval) \in Int /\ worker.module \in Mod
    BY <2>1, ProcessThreadAssumption DEF TypeOK, WorkerTypes, WorkerType, NextCallbackTime
  <2> DEFINE m == worker.module
  <2>3. /\ worker'.pc = "scan" /\ worker'.todo = worker.todo \ {m}
        /\ next_callback'[m] >= worker'.next_checkpoint
        /\ \A n \in Mod \ {m} : next_callback[n] >= worker.next_checkpoint
                                   => next_callback'[n] >= worker'.next_checkpoint
    BY <1>17, <2>2, VisitedCheckpoint DEF ModuleReturns
  <2>4. modules_ \subseteq Mod
    BY DEF TypeOK, SharedTypes
  <2>5. UNCHANGED <<modules_, wake_up_, setting, stop_>>
    BY <1>17 DEF ModuleReturns, control
  <2> HIDE DEF m
  <2>6. ASSUME ~WakeComing, NEW n \in modules_ \ (worker.todo \ {m})
        PROVE  next_callback'[n] >= worker'.next_checkpoint
    <3>1. CASE n = m
      BY <2>3, <3>1
    <3>2. CASE n # m
      <4>1. n \in modules_ \ worker.todo /\ n \in Mod \ {m}
        BY <2>4, <2>6, <3>2
      <4>2. next_callback[n] >= worker.next_checkpoint
        BY <2>1, <2>6, <4>1 DEF SleepInv
      <4> QED
        BY <2>3, <4>1, <4>2
    <3> QED
      BY <3>1, <3>2
  <2> QED
    BY <2>1, <2>3, <2>5, <2>6 DEF SleepInv, WakeComing
<1>18. CASE ScanEnds
  BY <1>18, TypeOK, SleepInv DEF ScanEnds, TypeOK, SleepInv, WakeComing, shared, control,
     history, WorkerTypes, WorkerType
<1>19. CASE TakeTask
  BY <1>19, TypeOK, SleepInv DEF TakeTask, TypeOK, SleepInv, WakeComing, control, history,
     WorkerTypes, WorkerType
<1>20. CASE TaskReturns
  BY <1>20, TypeOK, SleepInv DEF TaskReturns, TypeOK, SleepInv, WakeComing, shared, control,
     WorkerTypes, WorkerType
<1>21. CASE TasksEnd
  BY <1>21, TypeOK, SleepInv DEF TasksEnd, TypeOK, SleepInv, WakeComing, shared, control,
     history, WorkerTypes, WorkerType
<1>22. CASE Sleep
  BY <1>22, TypeOK, SleepInv, FreshWorker DEF Sleep, TypeOK, SleepInv, WakeComing, shared,
     control, history, WorkerTypes, WorkerType, Looped
<1>23. CASE Wake
  BY <1>23, TypeOK, SleepInv, FreshWorker DEF Wake, TypeOK, SleepInv, WakeComing, control,
     history, WorkerTypes, WorkerType, Looped
<1>24. CASE RunAgain
  BY <1>24, TypeOK, SleepInv DEF RunAgain, TypeOK, SleepInv, WakeComing, shared, control,
     history, WorkerTypes, WorkerType
<1>25. CASE Tick
  BY <1>25, TypeOK, SleepInv DEF Tick, TypeOK, SleepInv, WakeComing, shared, control, history
<1>26. CASE UNCHANGED vars
  BY <1>26, TypeOK, SleepInv DEF vars, shared, control, history, TypeOK, SleepInv, WakeComing
<1> QED
  BY <1>1, <1>2, <1>3, <1>4, <1>5, <1>6, <1>7, <1>8, <1>9, <1>10, <1>11, <1>12, <1>13, <1>14,
     <1>15, <1>16, <1>17, <1>18, <1>19, <1>20, <1>21, <1>22, <1>23, <1>24, <1>25, <1>26
     DEF Next, WorkerStep, ControllerStep

\* Process against everything that sets wake_up_: the worker never sleeps on work.
THEOREM NoOversleepHolds == Spec => []NoOversleep
<1>1. Init => SleepInv
  BY DEF Init, SleepInv, NoWorker
<1>2. SleepInv => NoOversleep
  BY DEF SleepInv, NoOversleep
<1> QED
  BY <1>1, <1>2, StepSleepInv, TypeCorrect, InStep, PTL DEF Spec
============================================================================
