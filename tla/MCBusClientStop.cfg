SPECIFICATION FairSpec
CONSTANTS
  m1 = m1
  m2 = m2
  MsgIds <- MCMsgIds
  MaxFaults = 0
  MaxStarts = 1
  MaxInbox = 2

PROPERTY StopReturns
CHECK_DEADLOCK FALSE
