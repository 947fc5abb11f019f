SPECIFICATION Spec
CONSTANTS
  Plans <- OpenPlans
  SndBufLen = 6
  RcvBufLen = 5
  WndUnit = 1
  MssLevels = {1, 2}
  XmitLimit = 2
  SynLimit = 2
  ProbeLimit = 1
CHECK_DEADLOCK FALSE
INVARIANT
  InOrder
