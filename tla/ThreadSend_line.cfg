SPECIFICATION FairSpec
CONSTANTS
  ta = ta  tb = tb  tc = tc
  c1 = c1  c2 = c2  c3 = c3
  h1 = h1  h2 = h2
  Thread = {ta, tb, tc}
  Call = {c1, c2, c3}
  src <- LineSrc
  dst <- LineDst
  Handler = {h1}
  phandler <- LineHandler
  MayQuit = {}
  MayFail = {tc}
  MaxPosts = 1
  MayPost = {ta, tc}
CHECK_DEADLOCK FALSE
INVARIANTS OnlyAwaitedReenters
PROPERTIES SendReturns
