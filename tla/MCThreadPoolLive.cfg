\* Liveness and refinement: a pool of one thread; c2 may wait for ever, in
\* exec() and in waitAll(), c1 and the nested call have timeouts.
CONSTANTS
  c1 = c1
  c2 = c2
  w1 = w1
  w2 = w2
  t1 = t1
  t2 = t2
  t3 = t3
  None = None
  Clients = {c1, c2}
  Workers = {w1, w2}
  Tasks = {t1, t2, t3}
  MaxSize = 1
  Nesting = {t1}
  Untimed = {c2}
  WaitAllers = {c2}
SPECIFICATION FairSpec
 
 
PROPERTY ImplementsTaskPool
