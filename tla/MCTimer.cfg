\* Safety: three timers, so that one may be put in, or taken out, between two
\* others; the callback of t1 sets and cancels timers too; a pool of one thread.
\* It may stop for good: in the crash, in the deadlock of a full pool, at the end.
CONSTANTS
  t1 = t1
  t2 = t2
  t3 = t3
  None = None
  Owner = Owner
  Tasks = {t1, t2, t3}
  Nesting = {t1}
  PoolSize = 1
  Timeouts = {1}
  Horizon = 2
  MaxCancels = 1
SPECIFICATION Spec
SYMMETRY Symmetry
INVARIANT Linked
INVARIANT InOnePlace
INVARIANT NothingLeft
PROPERTY NotEarly
CHECK_DEADLOCK FALSE
