SPECIFICATION FairSpec
CONSTANTS
  Writers = {w1, w2}
  msgChanLen = 2
  MaxMsgs = 3
  MaxFlushes = 2
INVARIANTS TypeOK InOrder
PROPERTIES FlushWrites LogReturns
CHECK_DEADLOCK FALSE
