\* Liveness: two timers, an interval or a timeout each, and one cancel.
\* It may stop for good: in the crash, in the deadlock of a full pool, at the end.
CONSTANTS
  t1 = t1
  t2 = t2
  None = None
  Owner = Owner
  Tasks = {t1, t2}
  Nesting = {t1}
  PoolSize = 1
  Timeouts = {1}
  Horizon = 2
  MaxCancels = 1
SPECIFICATION FairSpec
PROPERTY Served
CHECK_DEADLOCK FALSE
