--------------------------- MODULE ProcessThread ---------------------------
(***************************************************************************)
(* ProcessThreadImpl (webrtc/modules/utility/source/process_thread_impl.cc):*)
(* a worker thread that calls modules back when they are due, or when they *)
(* are woken up, and that runs the tasks posted to it.                     *)
(*                                                                         *)
(* One thread, the controller, constructs the object, starts and stops the *)
(* worker, registers modules and destroys the object; every thread wakes   *)
(* modules up, posts tasks and deregisters modules, the worker too, from   *)
(* inside a module or a task.                                              *)
(*                                                                         *)
(* Abstractions.  lock_ is held for longer than one step by the worker     *)
(* only, so that what the others do under it is one step.  The order of    *)
(* modules_ is left out: a pass may visit the modules in any order.        *)
(***************************************************************************)
EXTENDS Integers, Sequences

CONSTANTS
  Mod,            \* modules
  Task,           \* tasks, each posted at most once
  Caller,         \* threads other than the controller and the worker
  Interval,       \* what TimeUntilNextProcess may return
  kLongestWait,   \* the 1000 * 60 in Process
  MaxTime,        \* bound on the clock
  Plans           \* the modules and tasks used, and a bound on the calls of Start

ASSUME ProcessThreadAssumption ==
  /\ {"controller", "worker"} \cap Caller = {}
  /\ Interval \subseteq Int /\ Interval # {}
  /\ kLongestWait \in Nat \ {0} /\ MaxTime \in Nat
  /\ Plans \subseteq [mods : SUBSET Mod, tasks : SUBSET Task, starts : Nat]

VARIABLES
  plan,            \* what the threads use
  modules_,        \* the modules in the list
  next_callback,   \* next_callback[m], of a module in the list, 0 of others
  queue_,          \* tasks that wait
  stop_,           \* Stop has been called
  thread_,         \* thread_ is not null
  wake_up_,        \* the event is set
  stop_event_,     \* the event of PlatformThread
  now,             \* the clock
  worker,          \* the worker's place in Process, and its local variables
  controller,      \* the controller's place in Start, Stop or RegisterModule
  setting,         \* threads that have left lock_ and are about to call wake_up_->Set
  starts,          \* calls of Start so far
  attached,        \* attached[m]: what ProcessThreadAttached told m last
  unnoticed,       \* history: modules deregistered inside Start, see Start
  posted, ran, deleted  \* history: tasks in the order of PostTask, of Run, of ~ProcessThreadImpl

shared == <<modules_, next_callback, queue_, wake_up_, setting>>
control == <<plan, stop_, thread_, stop_event_, controller, starts>>
history == <<attached, unnoticed, posted, ran, deleted>>
vars == <<shared, control, history, now, worker>>

kCallProcessImmediately == -1

Thread == Caller \cup {"controller", "worker"}

NoModule == "none"

\* pc: "none" no thread; "begin", "locking" before the lock; "scan" in the loop over the
\* modules, of which todo are left; "module" in Process of module; "tasks" in the loop
\* over the tasks; "task" in Run of the task in hand; "sleep" before the wait; "waiting"
\* in it; "looped" after a pass; "ended" after the last.
NoWorker ==
  [pc |-> "none", now |-> 0, next_checkpoint |-> 0, todo |-> {}, module |-> NoModule,
   hand |-> <<>>, calls |-> 0]

Init ==
  /\ plan \in Plans
  /\ modules_ = {} /\ next_callback = [m \in Mod |-> 0]
  /\ queue_ = <<>>
  /\ stop_ = FALSE /\ thread_ = FALSE /\ wake_up_ = FALSE /\ stop_event_ = FALSE
  /\ now = 1
  /\ worker = NoWorker
  /\ controller = [pc |-> "idle", module |-> NoModule]
  /\ setting = {}
  /\ starts = 0
  /\ attached = [m \in Mod |-> FALSE] /\ unnoticed = {}
  /\ posted = <<>> /\ ran = <<>> /\ deleted = <<>>

\* A mutant of CanLock: the lock does not keep the others out.
CanLockAlways(p) == TRUE

\* p can enter lock_: the worker does not hold it, or p is the worker (CriticalSection
\* is recursive).
CanLock(p) == worker.pc \in {"scan", "module", "tasks"} => p = "worker"

\* p is in code that may call the public methods.  A module or a task makes one call.
MayCall(p) ==
  /\ controller.pc # "gone"
  /\ p \notin setting
  /\ p = "controller" => controller.pc = "idle"
  /\ p = "worker" => worker.pc \in {"module", "task"} /\ worker.calls = 0

Called(p) ==
  worker' = IF p = "worker" THEN [worker EXCEPT !.calls = 1] ELSE worker

\* A mutant of ThenSet: the worker is not woken.
ThenNoSet(p) == UNCHANGED setting

\* What follows lock_ in the methods: wake_up_->Set.
ThenSet(p) == setting' = setting \cup {p}

Set(p) ==
  /\ p \in setting
  /\ setting' = setting \ {p}
  /\ wake_up_' = TRUE
  /\ UNCHANGED <<modules_, next_callback, queue_, control, history, now, worker>>

----------------------------------------------------------------------------
(* Any thread                                                              *)

WakeUp(p, m) ==
  /\ MayCall(p) /\ CanLock(p)
  /\ m \in plan.mods
  /\ next_callback' =
       IF m \in modules_ THEN [next_callback EXCEPT ![m] = kCallProcessImmediately]
       ELSE next_callback
  /\ ThenSet(p)
  /\ Called(p)
  /\ UNCHANGED <<modules_, queue_, wake_up_, control, history, now>>

PostTask(p, t) ==
  /\ MayCall(p) /\ CanLock(p)
  /\ t \in plan.tasks /\ \A i \in DOMAIN posted : posted[i] # t
  /\ queue_' = Append(queue_, t)
  /\ posted' = Append(posted, t)
  /\ ThenSet(p)
  /\ Called(p)
  /\ UNCHANGED <<modules_, next_callback, wake_up_, control, attached, unnoticed, ran, deleted, now>>

\* A module is deregistered by whoever had it registered, and once.  The worker calls it
\* from a task only: from a module it would remove an element of the list that Process
\* goes over.
DeRegisterModule(p, m) ==
  /\ MayCall(p) /\ CanLock(p)
  /\ p = "worker" => worker.pc = "task"
  /\ m \in modules_
  /\ modules_' = modules_ \ {m}
  /\ next_callback' = [next_callback EXCEPT ![m] = 0]
  /\ attached' = IF thread_ THEN [attached EXCEPT ![m] = FALSE] ELSE attached
  /\ unnoticed' = IF controller.pc = "starting" THEN unnoticed \cup {m} ELSE unnoticed
  /\ Called(p)
  /\ UNCHANGED <<queue_, wake_up_, setting, control, posted, ran, deleted, now>>

----------------------------------------------------------------------------
(* The controller                                                          *)

\* The modules are told, and then, outside lock_, thread_ is set: a module that another
\* thread deregisters between the two is told that it was attached, and never that it
\* was detached.
Start ==
  /\ MayCall("controller") /\ CanLock("controller")
  /\ ~thread_ /\ starts < plan.starts
  /\ starts' = starts + 1
  /\ attached' = [m \in Mod |-> attached[m] \/ m \in modules_]
  /\ controller' = [controller EXCEPT !.pc = "starting"]
  /\ UNCHANGED <<shared, plan, stop_, thread_, stop_event_, unnoticed, posted, ran, deleted, now, worker>>

StartThread ==
  /\ controller.pc = "starting"
  /\ thread_' = TRUE
  /\ stop_event_' = FALSE
  /\ worker' = [NoWorker EXCEPT !.pc = "begin"]
  /\ controller' = [controller EXCEPT !.pc = "idle"]
  /\ UNCHANGED <<shared, plan, stop_, starts, history, now>>

Stop ==
  /\ MayCall("controller") /\ CanLock("controller")
  /\ thread_
  /\ stop_' = TRUE
  /\ ThenSet("controller")
  /\ controller' = [controller EXCEPT !.pc = "stopping"]
  /\ UNCHANGED <<modules_, next_callback, queue_, wake_up_, plan, thread_, stop_event_, starts,
                 history, now, worker>>

\* PlatformThread::Stop sets its event, and then waits for the thread to end.
StopThread ==
  /\ controller.pc = "stopping" /\ "controller" \notin setting
  /\ stop_event_' = TRUE
  /\ controller' = [controller EXCEPT !.pc = "joining"]
  /\ UNCHANGED <<shared, plan, stop_, thread_, starts, history, now, worker>>

\* A mutant of Joined: stop_ is left set.
JoinedStopped ==
  /\ controller.pc = "joining" /\ worker.pc = "ended"
  /\ worker' = NoWorker
  /\ controller' = [controller EXCEPT !.pc = "joined"]
  /\ UNCHANGED <<shared, plan, stop_, thread_, stop_event_, starts, history, now>>

Joined ==
  /\ controller.pc = "joining" /\ worker.pc = "ended"
  /\ stop_' = FALSE
  /\ worker' = NoWorker
  /\ controller' = [controller EXCEPT !.pc = "joined"]
  /\ UNCHANGED <<shared, plan, thread_, stop_event_, starts, history, now>>

StopEnd ==
  /\ controller.pc = "joined" /\ CanLock("controller")
  /\ thread_' = FALSE
  /\ attached' = [m \in Mod |-> attached[m] /\ m \notin modules_]
  /\ controller' = [controller EXCEPT !.pc = "idle"]
  /\ UNCHANGED <<shared, plan, stop_, stop_event_, starts, unnoticed, posted, ran, deleted, now, worker>>

\* The module is told before it is in the list, without the lock.
RegisterModule(m) ==
  /\ MayCall("controller")
  /\ m \in plan.mods \ modules_
  /\ attached' = [attached EXCEPT ![m] = @ \/ thread_]
  /\ controller' = [pc |-> "registering", module |-> m]
  /\ UNCHANGED <<shared, plan, stop_, thread_, stop_event_, starts, unnoticed, posted, ran, deleted,
                 now, worker>>

RegisterPush ==
  /\ controller.pc = "registering" /\ CanLock("controller")
  /\ modules_' = modules_ \cup {controller.module}
  /\ next_callback' = [next_callback EXCEPT ![controller.module] = 0]
  /\ ThenSet("controller")
  /\ controller' = [pc |-> "idle", module |-> NoModule]
  /\ UNCHANGED <<queue_, wake_up_, plan, stop_, thread_, stop_event_, starts, history, now, worker>>

\* ~ProcessThreadImpl: nobody uses the object any more, and the worker is stopped.
Destroy ==
  /\ MayCall("controller") /\ setting = {}
  /\ ~thread_
  /\ queue_' = <<>>
  /\ deleted' = queue_
  /\ controller' = [controller EXCEPT !.pc = "gone"]
  /\ UNCHANGED <<modules_, next_callback, wake_up_, setting, plan, stop_, thread_, stop_event_, starts,
                 attached, unnoticed, posted, ran, now, worker>>

----------------------------------------------------------------------------
(* The worker: PlatformThread::Run and Process                             *)

\* Process reads the clock once, before it has the lock.
ProcessBegin ==
  /\ worker.pc = "begin"
  /\ worker' = [worker EXCEPT !.pc = "locking", !.now = now, !.next_checkpoint = now + kLongestWait]
  /\ UNCHANGED <<shared, control, history, now>>

ProcessLock ==
  /\ worker.pc = "locking"
  /\ worker' = IF stop_ THEN [NoWorker EXCEPT !.pc = "ended"]
               ELSE [worker EXCEPT !.pc = "scan", !.todo = modules_]
  /\ UNCHANGED <<shared, control, history, now>>

\* A mutant of NextCallbackTime: an interval that is negative is not taken for 0.
NextCallbackTimeBehind(time_now, interval) == time_now + interval

\* GetNextCallbackTime
NextCallbackTime(time_now, interval) ==
  IF interval < 0 THEN time_now ELSE time_now + interval

\* The module is called when its time has come, which it has for kCallProcessImmediately.
Due(time) == time <= worker.now \/ time = kCallProcessImmediately

\* The module m has been dealt with in this pass and is due next at time.
Visited(m, time) ==
  /\ next_callback' = [next_callback EXCEPT ![m] = time]
  /\ worker' = [worker EXCEPT !.pc = "scan", !.todo = @ \ {m}, !.module = NoModule,
                              !.calls = 0,
                              !.next_checkpoint = IF time < @ THEN time ELSE @]

VisitModule(m, interval) ==
  LET time == IF next_callback[m] = 0 THEN NextCallbackTime(worker.now, interval)
              ELSE next_callback[m]
  IN /\ worker.pc = "scan" /\ m \in worker.todo
     /\ \/ /\ Due(time)
           /\ next_callback' = [next_callback EXCEPT ![m] = time]
           /\ worker' = [worker EXCEPT !.pc = "module", !.module = m]
        \/ /\ ~Due(time)
           /\ Visited(m, time)
     /\ UNCHANGED <<modules_, queue_, wake_up_, setting, control, history, now>>

\* Module::Process returns, and the module is asked when it wants to be called next; a
\* WakeUp that it made of itself is overwritten.
ModuleReturns(interval) ==
  /\ worker.pc = "module" /\ "worker" \notin setting
  /\ Visited(worker.module, NextCallbackTime(now, interval))
  /\ UNCHANGED <<modules_, queue_, wake_up_, setting, control, history, now>>

ScanEnds ==
  /\ worker.pc = "scan" /\ worker.todo = {}
  /\ worker' = [worker EXCEPT !.pc = "tasks", !.now = 0]
  /\ UNCHANGED <<shared, control, history, now>>

\* A mutant of TakeTask: the task stays in the queue while it runs.
TakeTaskUnpopped ==
  /\ worker.pc = "tasks" /\ queue_ # <<>>
  /\ worker' = [worker EXCEPT !.pc = "task", !.hand = <<Head(queue_)>>]
  /\ UNCHANGED <<shared, control, history, now>>

\* The task is taken out, and lock_ is left while it runs.
TakeTask ==
  /\ worker.pc = "tasks" /\ queue_ # <<>>
  /\ queue_' = Tail(queue_)
  /\ worker' = [worker EXCEPT !.pc = "task", !.hand = <<Head(queue_)>>]
  /\ UNCHANGED <<modules_, next_callback, wake_up_, setting, control, history, now>>

TaskReturns ==
  /\ worker.pc = "task" /\ "worker" \notin setting
  /\ ran' = ran \o worker.hand
  /\ worker' = [worker EXCEPT !.pc = "tasks", !.hand = <<>>, !.calls = 0]
  /\ UNCHANGED <<shared, control, attached, unnoticed, posted, deleted, now>>

TasksEnd ==
  /\ worker.pc = "tasks" /\ queue_ = <<>>
  /\ worker' = [worker EXCEPT !.pc = "sleep"]
  /\ UNCHANGED <<shared, control, history, now>>

\* Process returns true; its variables are gone.
Looped == [NoWorker EXCEPT !.pc = "looped"]

\* The worker waits only if next_checkpoint has not passed meanwhile.
Sleep ==
  /\ worker.pc = "sleep"
  /\ worker' = IF worker.next_checkpoint > now THEN [worker EXCEPT !.pc = "waiting"] ELSE Looped
  /\ UNCHANGED <<shared, control, history, now>>

\* Event::Wait: the event resets itself, or the time is over.
Wake ==
  /\ worker.pc = "waiting"
  /\ \/ wake_up_ /\ wake_up_' = FALSE
     \/ worker.next_checkpoint <= now /\ UNCHANGED wake_up_
  /\ worker' = Looped
  /\ UNCHANGED <<modules_, next_callback, queue_, setting, control, history, now>>

\* PlatformThread::Run goes on until its event is set.
RunAgain ==
  /\ worker.pc = "looped"
  /\ worker' = [worker EXCEPT !.pc = IF stop_event_ THEN "ended" ELSE "begin"]
  /\ UNCHANGED <<shared, control, history, now>>

Tick ==
  /\ now < MaxTime
  /\ now' = now + 1
  /\ UNCHANGED <<shared, control, history, worker>>

WorkerStep ==
  \/ ProcessBegin \/ ProcessLock \/ ScanEnds \/ TakeTask \/ TaskReturns \/ TasksEnd
  \/ Sleep \/ Wake \/ RunAgain
  \/ \E interval \in Interval : ModuleReturns(interval) \/ \E m \in Mod : VisitModule(m, interval)

ControllerStep == StartThread \/ StopThread \/ Joined \/ StopEnd

Next ==
  \/ \E p \in Thread :
       \/ Set(p)
       \/ \E m \in Mod : WakeUp(p, m) \/ DeRegisterModule(p, m)
       \/ \E t \in Task : PostTask(p, t)
  \/ Start \/ Stop \/ Destroy \/ ControllerStep \/ RegisterPush
  \/ \E m \in Mod : RegisterModule(m)
  \/ WorkerStep
  \/ Tick

Spec == Init /\ [][Next]_vars

\* The operating system runs the threads, and modules and tasks return.  Nothing is
\* assumed of lock_, of the clock, or of who calls what.
FairSpec ==
  /\ Spec
  /\ WF_vars(WorkerStep)
  /\ WF_vars(ControllerStep)
  /\ \A p \in Thread : WF_vars(Set(p))

----------------------------------------------------------------------------
(* Properties                                                              *)

\* Types of the variables.  No interval that a module returns makes next_callback a
\* negative number other than kCallProcessImmediately.
WorkerType ==
  [pc : {"none", "begin", "locking", "scan", "module", "tasks", "task", "sleep", "waiting",
         "looped", "ended"},
   now : Nat, next_checkpoint : Nat, todo : SUBSET Mod, module : Mod \cup {NoModule},
   hand : Seq(Task), calls : {0, 1}]

ControllerType ==
  [pc : {"idle", "starting", "stopping", "joining", "joined", "registering", "gone"},
   module : Mod \cup {NoModule}]

SharedTypes ==
  /\ modules_ \subseteq Mod
  /\ next_callback \in [Mod -> Nat \cup {kCallProcessImmediately}]
  /\ queue_ \in Seq(Task)
  /\ wake_up_ \in BOOLEAN /\ setting \subseteq Thread

ControlTypes ==
  /\ plan \in Plans
  /\ stop_ \in BOOLEAN /\ thread_ \in BOOLEAN /\ stop_event_ \in BOOLEAN
  /\ controller \in ControllerType /\ starts \in Nat
  /\ controller.pc = "registering" => controller.module \in Mod

HistoryTypes ==
  /\ attached \in [Mod -> BOOLEAN] /\ unnoticed \subseteq Mod
  /\ posted \in Seq(Task) /\ ran \in Seq(Task) /\ deleted \in Seq(Task)

WorkerTypes ==
  /\ now \in Nat /\ worker \in WorkerType
  /\ worker.pc = "module" => worker.module \in Mod

TypeOK == SharedTypes /\ ControlTypes /\ HistoryTypes /\ WorkerTypes

\* Someone has set, or is about to set, the event the worker waits for.
WakeComing == wake_up_ \/ setting # {}

\* The worker never sleeps on work.  From the moment it has left lock_ for the last time
\* in a pass, unless a wake-up is coming, no task waits, Stop has not been called, and no
\* module is due before the end of the wait: neither one that was woken up or registered
\* while a task ran or after the scan, nor one that another module woke up in its Process.
NoOversleep ==
  worker.pc \in {"sleep", "waiting"} /\ ~WakeComing =>
    /\ queue_ = <<>> /\ ~stop_
    /\ \A m \in modules_ : next_callback[m] >= worker.next_checkpoint

\* Tasks are run in the order in which PostTask took lock_, each once, and none is lost:
\* one that has not run, also over a Stop and a Start, waits, or was deleted by
\* ~ProcessThreadImpl.
TasksInOrder == posted = ran \o worker.hand \o queue_ \o deleted

\* What modules are told by ProcessThreadAttached agrees with the thread: a module in the
\* list of a running thread knows of it, and only such a module does, apart from one that
\* was deregistered inside Start.  And Process is called of modules in the list only, so
\* that a module may be destroyed once DeRegisterModule has returned.
Attachment ==
  /\ \A m \in Mod :
       /\ m \in modules_ /\ thread_ => attached[m]
       /\ attached[m] /\ m \notin unnoticed =>
            \/ m \in modules_ /\ (thread_ \/ controller.pc = "starting")
            \/ thread_ /\ controller = [pc |-> "registering", module |-> m]
  /\ worker.pc = "module" => worker.module \in modules_

\* A module that was woken up is called, or asked when it wants to be, and a task is run,
\* unless the thread is stopped first; and Stop returns, whether the worker waits, is about
\* to, or is in the middle of a pass.
Served ==
  /\ \A m \in Mod :
       thread_ /\ m \in modules_ /\ next_callback[m] = kCallProcessImmediately
         ~> ~thread_ \/ m \notin modules_ \/ next_callback[m] # kCallProcessImmediately
  /\ \A t \in Task : thread_ /\ (\E i \in DOMAIN queue_ : queue_[i] = t)
                       ~> ~thread_ \/ \A i \in DOMAIN queue_ : queue_[i] # t
  /\ controller.pc = "stopping" ~> controller.pc = "idle"
============================================================================
