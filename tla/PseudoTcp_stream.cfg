SPECIFICATION Spec
CONSTANTS
  Plans <- StreamPlans
  SndBufLen = 5
  RcvBufLen = 4
  WndUnit = 2
  MssLevels = {1, 2}
  XmitLimit = 2
  SynLimit = 2
  ProbeLimit = 1
CHECK_DEADLOCK FALSE
INVARIANTS
  TypeOK SegmentsMatch WindowsAgree TimerRuns NoStall NoLostWakeup GracefulClose
PROPERTIES
  StreamSpec
