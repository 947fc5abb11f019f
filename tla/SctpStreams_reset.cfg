SPECIFICATION FairSpec
CONSTANTS
  kMaxSctpSid = 1
  MaxChannels = 2
  MaxData = 1
CHECK_DEADLOCK FALSE
INVARIANTS TypeOK NoLostReset OpenCanSend RightChannel SidesAgree
PROPERTIES ResetsEnd
