SPECIFICATION Spec
CONSTANTS
  ta = ta  tb = tb  tc = tc
  c1 = c1  c2 = c2  c3 = c3
  h1 = h1  h2 = h2
  Thread = {ta, tb}
  Call = {c1, c2, c3}
  src <- NestSrc
  dst <- NestDst
  Handler = {h1, h2}
  phandler <- NestHandler
  MayQuit = {tb}
  MayFail = {ta, tb}
  MaxPosts = 1
  MayPost = {ta, tb}
CHECK_DEADLOCK FALSE
INVARIANTS NoLostSendWakeUp
PROPERTIES KeepsPromise
