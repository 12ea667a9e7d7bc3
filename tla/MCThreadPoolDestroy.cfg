CONSTANTS
  c1 = c1
  c2 = c2
  w1 = w1
  w2 = w2
  w3 = w3
  t1 = t1
  t2 = t2
  t3 = t3
  None = None
  Clients = {c1, c2}
  Workers = {w1, w2}
  Tasks = {t1, t2}
  MaxSize = 1
  Nesting = {}
  Untimed = {c1, c2}
  WaitAllers = {}
SPECIFICATION FairSpec
PROPERTY DestructorReturns
