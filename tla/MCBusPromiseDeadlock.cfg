SPECIFICATION FairSpec
CONSTANTS
  Requesters = {r1, r2}
  MaxIds = 2
  Answers = 1
PROPERTY RequestEnds
CHECK_DEADLOCK FALSE
