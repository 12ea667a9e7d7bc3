SPECIFICATION MonitorSpec
CONSTANTS
  Items <- MCItems
  Workers <- MCWorkers
  WHEEL_SIZE = 2
  Alarms = {a1, a2}
  Delays <- MCDelays
  Horizon = 4
  MaxRecords = 3
  MaxLoggers = 3
  MaxMessages = 3
  MaxCrashes = 1
  MaxSignals = 1
  Conns = {c1, c2}
  MaxInfos = 3
INVARIANTS  WheelOnTime LogsExact  SlotWhole PollExact
PROPERTY CallsReturn
CHECK_DEADLOCK FALSE
