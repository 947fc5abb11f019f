SPECIFICATION FairSpec
CONSTANTS
  Plans <- LivePlans
  SndBufLen = 4
  RcvBufLen = 3
  WndUnit = 2
  MssLevels = {1, 2}
  XmitLimit = 2
  SynLimit = 2
  ProbeLimit = 1
CHECK_DEADLOCK FALSE
PROPERTIES
  Delivered Closes
