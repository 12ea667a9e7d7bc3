\* Safety: three clients and a pool of two threads out of three, one task that
\* submits another.  Anybody may wait in exec() for ever; nobody calls waitAll().
CONSTANTS
  c1 = c1
  c2 = c2
  c3 = c3
  w1 = w1
  w2 = w2
  w3 = w3
  t1 = t1
  t2 = t2
  t3 = t3
  t4 = t4
  None = None
  Clients = {c1, c2, c3}
  Workers = {w1, w2, w3}
  Tasks = {t1, t2, t3, t4}
  MaxSize = 2
  Nesting = {t1}
  Untimed = {c1, c2, c3, w1, w2, w3}
  WaitAllers = {}
SPECIFICATION Spec
SYMMETRY Symmetry
INVARIANT ThreadsAccounted
INVARIANT HandedOnce
INVARIANT ExactlyOnce
INVARIANT NoIdleStranded
