-------------------------- MODULE MCProcessThread --------------------------
(* An instance of ProcessThread for TLC. *)
EXTENDS ProcessThread

CONSTANTS m1, m2, t1, t2

\* A module that has fallen behind, and one that is due in a while.
Intervals == {-3, 1}

\* Two modules that wake each other up; tasks in order, also over a restart.
WorkPlans ==
  {[mods |-> {m1, m2}, tasks |-> {}, starts |-> 1],
   [mods |-> {m1}, tasks |-> {t1, t2}, starts |-> 2]}
============================================================================
