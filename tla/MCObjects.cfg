SPECIFICATION ObjectsSpec
CONSTANTS
  Machines = {0, 1}
  MachineRange = 2
  SeqRange = 2
  Word = 12
  MaxClock = 2
  MaxBack = 1
  a = a
  b = b
  Items = {a, b}
  Capacity = 3
  SizeWord = 6
  MaxCall = 4
  Names = {"a", "b"}
  MaxDepth = 2
  FileContents = {"x", "y"}
  MaxDay = 3
  MaxBytes = 3
  MaxObjects = 3
  MaxValues = 2
  MaxFd = 2
  MaxChunks = 3
  MaxFifos = 2
  MaxSent = 3
  MaxPid = 2
  MaxStarts = 2
  MaxBlocks = 3
  Cuts = {0, 1, 4, 9}
  CountWidth = 10
  Pieces = {0, 1, 55, 64, 72, 1024, 1080}
  MaxFed = 200
  Samples = {0, 109, 255}
  MaxText = 4
  MaxValue = 3
  MaxPayload = 2
  MaxChanges = 3
  MaxArgs = 3
  MaxNews = 3
  MaxCalls = 3
  GroupCounts = {0, 1, 6, 7, 8}
  MaxTexts = 1
  MaxAsked = 3
  MaxSockets = 2
  MaxStored = 4
INVARIANTS  IdsDistinct DataExact HandlesExact 
PROPERTIES ImplementsFifo GenReturns
CHECK_DEADLOCK FALSE
