------------------------------ MODULE SyncCall ------------------------------
(***************************************************************************)
(* What Thread::Send and Invoke promise, without lists, events or loops: a *)
(* call is refused, or executes at most once on its receiver and returns   *)
(* after that, or is dropped before it executes and returns.  A thread     *)
(* that has calls of its own outstanding executes only calls of threads    *)
(* that it is calling.                                                     *)
(***************************************************************************)
CONSTANTS Call, src, dst

VARIABLE status    \* how far each call has come

Init == status = [c \in Call |-> "idle"]

Outstanding(c) == status[c] \in {"pending", "running", "over"}

Refuse(c) ==
  /\ status[c] = "idle"
  /\ status' = [status EXCEPT ![c] = "refused"]

\* A call of a thread to itself executes at once.
Begin(c) ==
  /\ status[c] = "idle"
  /\ status' = [status EXCEPT ![c] = IF src[c] = dst[c] THEN "running" ELSE "pending"]

Execute(c) ==
  /\ status[c] = "pending"
  /\ \/ \A x \in Call : src[x] = dst[c] => ~Outstanding(x)
     \/ \E x \in Call : src[x] = dst[c] /\ dst[x] = src[c] /\ Outstanding(x)
  /\ status' = [status EXCEPT ![c] = "running"]

Finish(c) ==
  /\ status[c] = "running"
  /\ status' = [status EXCEPT ![c] = IF src[c] = dst[c] THEN "returned" ELSE "over"]

\* The calls to an object that goes, or to a thread that ends.
Drop(gone) ==
  status' = [c \in Call |-> IF c \in gone THEN "over" ELSE status[c]]

Return(c) ==
  /\ status[c] = "over"
  /\ status' = [status EXCEPT ![c] = "returned"]

Next ==
  \/ \E c \in Call : Refuse(c) \/ Begin(c) \/ Execute(c) \/ Finish(c) \/ Return(c)
  \/ \E gone \in SUBSET {c \in Call : status[c] = "pending"} : Drop(gone)

Spec == Init /\ [][Next]_status
=============================================================================
