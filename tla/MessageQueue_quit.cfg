SPECIFICATION Spec
CONSTANTS
  h1 = h1  m1 = m1  m2 = m2  m3 = m3
  i1 = i1  i2 = i2  any = any  dispose = dispose
  c1 = c1
  Msg = {m1, m2}
  Handler = {h1}
  Id = {i1, i2}
  Caller = {c1}
  NULL = NULL
  phandler <- MarkHandlers
  message_id <- MarkIds
  doomed <- MarkDoomed
  MQID_ANY = any
  MQID_DISPOSE = dispose
  kForever <- Forever
  Delay = {1}
  Loop <- LoopForever
  WaitMayFail = FALSE
  NumMod = 4
  MaxTime = 1
CHECK_DEADLOCK FALSE
INVARIANTS QuitDeliversReady
