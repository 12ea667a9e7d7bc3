SPECIFICATION MCServerSpec
CONSTANTS
  r1 = r1
  r2 = r2
  Requesters <- MCRequesters
  MaxIds = 3
  Answers = 2
  MaxPackages = 2
  DataCells = {0, 1}
  MaxConns = 3
  MaxRequests = 1
  MaxNames = 3
INVARIANTS NoDangling SetOnce EntriesExact  SessionsExact AnsweredOnce EntryLive
 
CHECK_DEADLOCK FALSE
