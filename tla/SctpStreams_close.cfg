SPECIFICATION Spec
CONSTANTS
  kMaxSctpSid = 1
  MaxChannels = 2
  MaxData = 1
CHECK_DEADLOCK FALSE
INVARIANTS CloseReachesPeer
