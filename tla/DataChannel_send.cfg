SPECIFICATION FairSpec
CONSTANTS
  m1 = m1  m2 = m2  r1 = r1  r2 = r2
  Msg = {m1, m2}
  RemoteMsg = {r1, r2}
  size <- Sizes
  kMaxQueuedSendDataBytes = 2
  kMaxQueuedReceivedDataBytes = 2
  MayFail = TRUE
  MaxBlocks = 2
  MaxEvents = 2
CHECK_DEADLOCK FALSE
INVARIANTS TypeOK SentInOrder OpenComesFirst NoStall ReceivedInOrder
PROPERTIES NeverBack Opens Closes
