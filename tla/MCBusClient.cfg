SPECIFICATION FairSpec
CONSTANTS
  m1 = m1
  m2 = m2
  MsgIds <- MCMsgIds
  MaxFaults = 1
  MaxStarts = 1
  MaxInbox = 2
INVARIANT InUseRegistered
 
CHECK_DEADLOCK FALSE
