SPECIFICATION FairSpec
CONSTANTS
  h1 = h1  m1 = m1  m2 = m2  m3 = m3
  i1 = i1  i2 = i2  any = any  dispose = dispose
  c1 = c1
  Msg = {m1, m2, m3}
  Handler = {h1}
  Id = {i1, i2}
  Caller = {c1}
  NULL = NULL
  phandler <- DisposeHandlers
  message_id <- DisposeIds
  doomed <- DisposeDoomed
  MQID_ANY = any
  MQID_DISPOSE = dispose
  kForever <- Forever
  Delay = {1}
  Loop <- LoopBoth
  WaitMayFail = TRUE
  NumMod = 2
  MaxTime = 1
CHECK_DEADLOCK FALSE
INVARIANTS PendingOnce OnlyLiveHandlers NoLostWakeUp TiesInOrder NeverEarly
PROPERTIES EventuallyOut QuitEnds
