--------------------------------- MODULE Timer ---------------------------------
(***************************************************************************)
(* Timer (Timer.cpp): a thread that keeps the tasks in a list, in the      *)
(* order of their deadlines, linked by pointers, and hands those that are  *)
(* due to a ThreadPool; the callbacks in the pool; and the owner.  Owner   *)
(* and callbacks set and cancel timers.                                    *)
(*                                                                         *)
(* The pool is what TaskPool says of it: exec() waits while PoolSize       *)
(* runnables are in hand, and one accepted is run once.                    *)
(*                                                                         *)
(* m_mutex is held over a step only by the timer thread in a pass of the   *)
(* list, m_mutexNewTask only by cancelTimeout() while it searches.         *)
(***************************************************************************)
EXTENDS Integers, Sequences, FiniteSets, FiniteSetsExt, SequencesExt

CONSTANTS
  Tasks,       \* the TimerTask objects that may be made; a task is its own id
  Owner,       \* the thread the Timer belongs to
  None,        \* nullptr
  PoolSize,    \* taskThreadCnt of the constructor
  Nesting,     \* the tasks whose callbacks set and cancel timers
  Timeouts,    \* the timeouts asked for, in ticks
  Horizon,     \* bound: the clock stops here, where every deadline falls due
  MaxCancels   \* bound: calls of cancelTimeout()

ASSUME TimerAssumption ==
  /\ IsFiniteSet(Tasks) /\ Owner \notin Tasks /\ None \notin Tasks /\ Nesting \subseteq Tasks
  /\ PoolSize \in Nat \ {0} /\ Horizon \in Nat /\ MaxCancels \in Nat /\ Timeouts \subseteq Nat

VARIABLES
  now,             \* m_tick.tock()
  tpc,             \* where the timer thread is
  at, links,       \* p of its pass; prev and next of the task it takes out
  m_tasks,         \* the list: its head, and next and prev of every task
  m_insertTasks,   \* set, and not yet in the list
  m_reapetTasks,   \* the intervals not cancelled
  m_stop,
  life,            \* "new", "made" by a caller, "live" or "freed"
  repeats, timeout, deadline, cancled,   \* the fields of the tasks
  stage,           \* its callback: "out" of the pool, "accepted" or "running"
  cpc, arg, walk,  \* the callers: what they are in, on which task, and where in the list
  crashed,         \* a null pointer, or freed memory, was written to or followed
  cancels

thread == <<at, links>>
fields == <<repeats, timeout>>
callers == <<cpc, arg, walk>>
vars == <<now, tpc, thread, m_tasks, m_insertTasks, m_reapetTasks, m_stop, life, fields, deadline,
          cancled, stage, callers, crashed, cancels>>

Callers == Nesting \cup {Owner}
Never == Horizon + 1
InHand == {t \in Tasks : stage[t] # "out"}

Init ==
  /\ now = 0
  /\ tpc = "top" /\ at = None /\ links = <<None, None>>
  /\ m_tasks = [head |-> None, next |-> [t \in Tasks |-> None], prev |-> [t \in Tasks |-> None]]
  /\ m_insertTasks = <<>> /\ m_reapetTasks = {} /\ m_stop = FALSE
  /\ life = [t \in Tasks |-> "new"]
  /\ repeats = [t \in Tasks |-> FALSE] /\ timeout = [t \in Tasks |-> 0]
  /\ deadline = [t \in Tasks |-> 0] /\ cancled = [t \in Tasks |-> FALSE]
  /\ stage = [t \in Tasks |-> "out"]
  /\ cpc = [c \in Callers |-> "idle"]
  /\ arg = [c \in Callers |-> None] /\ walk = [c \in Callers |-> None]
  /\ crashed = FALSE /\ cancels = 0

NewTaskMutexFree == \A c \in Callers : cpc[c] # "walk"
MutexFree == tpc \notin {"pass", "unlink"}

\* m_cond.notify_one(): who is not asleep hears nothing.
notify_one == tpc' = IF tpc = "waiting" THEN "woken" ELSE tpc

Alive == ~crashed

Tick ==
  /\ Alive /\ now < Horizon
  /\ now' = now + 1
  /\ UNCHANGED <<tpc, thread, m_tasks, m_insertTasks, m_reapetTasks, m_stop, life, fields, deadline,
                 cancled, stage, callers, crashed, cancels>>

-----------------------------------------------------------------------------
\* The list.

\* The tasks a walk along next meets.
Chain(list) ==
  LET node[i \in 1..Cardinality(Tasks)] ==
        IF i = 1 THEN list.head ELSE IF node[i - 1] = None THEN None ELSE list.next[node[i - 1]]
  IN  [i \in 1..Cardinality({j \in 1..Cardinality(Tasks) : node[j] # None}) |-> node[i]]

\* processNewTask: before the first task that is not due earlier, else at the end.
processNewTask(list, t) ==
  LET chain == Chain(list)
      later == {i \in DOMAIN chain : deadline[chain[i]] >= deadline[t]}
      n     == IF later = {} THEN None ELSE chain[Min(later)]
      p     == IF chain = <<>> THEN None ELSE IF later = {} THEN Last(chain) ELSE list.prev[n]
  IN  [head |-> IF p = None THEN t ELSE list.head,
       next |-> [x \in Tasks |-> CASE x = t -> n [] x = p -> t [] OTHER -> list.next[x]],
       prev |-> [x \in Tasks |-> CASE x = t -> p [] x = n -> t [] OTHER -> list.prev[x]]]

\* The list after processNewTask() of each of news.
Processed(list, news) ==
  LET after[i \in 0..Len(news)] == IF i = 0 THEN list ELSE processNewTask(after[i - 1], news[i])
  IN  after[Len(news)]

\* Defect: the task that follows keeps its prev.
UnlinkedForward(list, p, n) ==
  [head |-> IF p = None THEN n ELSE list.head,
   next |-> [x \in Tasks |-> IF x = p THEN n ELSE list.next[x]],
   prev |-> list.prev]

\* A task is taken out; p and n are its links as read before it went to the pool.
Unlinked(list, p, n) ==
  [head |-> IF p = None THEN n ELSE list.head,
   next |-> [x \in Tasks |-> IF x = p THEN n ELSE list.next[x]],
   prev |-> [x \in Tasks |-> IF x = n THEN p ELSE list.prev[x]]]

-----------------------------------------------------------------------------
\* timerThreadFunc.

TestStop ==
  /\ Alive /\ tpc = "top"
  /\ tpc' = IF m_stop THEN "ended" ELSE "collect"
  /\ UNCHANGED <<now, thread, m_tasks, m_insertTasks, m_reapetTasks, m_stop, life, fields, deadline,
                 cancled, stage, callers, crashed, cancels>>

\* Defect: m_insertTasks is not cleared.
processNewTasksKeeping ==
  /\ Alive /\ tpc = "collect" /\ NewTaskMutexFree
  /\ m_tasks' = Processed(m_tasks, m_insertTasks)
  /\ tpc' = "sleep"
  /\ UNCHANGED <<now, thread, m_insertTasks, m_reapetTasks, m_stop, life, fields, deadline, cancled,
                 stage, callers, crashed, cancels>>

processNewTasks ==
  /\ Alive /\ tpc = "collect" /\ NewTaskMutexFree
  /\ m_tasks' = Processed(m_tasks, m_insertTasks)
  /\ m_insertTasks' = <<>>
  /\ tpc' = "sleep"
  /\ UNCHANGED <<now, thread, m_reapetTasks, m_stop, life, fields, deadline, cancled, stage,
                 callers, crashed, cancels>>

\* Defect: a deadline that has passed counts as no task.
NextWakeMissed ==
  IF m_tasks.head = None \/ deadline[m_tasks.head] <= now THEN Never ELSE deadline[m_tasks.head]

\* getNextWaitMs() as the time until when to wait: nobody else changes the
\* list, so it stays what it was when the wait began.
NextWake == IF m_tasks.head = None THEN Never ELSE deadline[m_tasks.head]

Sleep ==
  /\ Alive /\ tpc = "sleep"
  /\ tpc' = "waiting"
  /\ UNCHANGED <<now, thread, m_tasks, m_insertTasks, m_reapetTasks, m_stop, life, fields, deadline,
                 cancled, stage, callers, crashed, cancels>>

StopWaiting ==
  /\ Alive /\ tpc = "waiting"
  /\ tpc' = "woken"
  /\ UNCHANGED <<now, thread, m_tasks, m_insertTasks, m_reapetTasks, m_stop, life, fields, deadline,
                 cancled, stage, callers, crashed, cancels>>

TimedOut == now >= NextWake /\ StopWaiting
SpuriousWake == now < NextWake /\ StopWaiting

Wake ==
  /\ Alive /\ tpc = "woken"
  /\ tpc' = IF m_tasks.head = None THEN "top" ELSE IF m_stop THEN "ended" ELSE "pass"
  /\ at' = m_tasks.head
  /\ UNCHANGED <<now, links, m_tasks, m_insertTasks, m_reapetTasks, m_stop, life, fields,
                 deadline, cancled, stage, callers, crashed, cancels>>

Due(t) == now >= deadline[t] \/ cancled[t]

NotDue ==
  /\ Alive /\ tpc = "pass" /\ at # None /\ ~Due(at)
  /\ at' = m_tasks.next[at]
  /\ UNCHANGED <<now, tpc, links, m_tasks, m_insertTasks, m_reapetTasks, m_stop, life,
                 fields, deadline, cancled, stage, callers, crashed, cancels>>

\* m_threadPool.exec() with m_mutex held: waits while the pool is full.
HandOver ==
  /\ Alive /\ tpc = "pass" /\ at # None /\ Due(at)
  /\ Cardinality(InHand) < PoolSize
  /\ stage' = [stage EXCEPT ![at] = "accepted"]
  /\ links' = <<m_tasks.prev[at], m_tasks.next[at]>>
  /\ tpc' = "unlink"
  /\ UNCHANGED <<now, at, m_tasks, m_insertTasks, m_reapetTasks, m_stop, life, fields,
                 deadline, cancled, callers, crashed, cancels>>

\* next->prev is written without a test of next, unless the task is the first.
Unlink ==
  /\ Alive /\ tpc = "unlink"
  /\ m_tasks' = Unlinked(m_tasks, links[1], links[2])
  /\ crashed' = (links[1] # None /\ links[2] = None)
  /\ at' = links[2]
  /\ tpc' = "pass"
  /\ links' = <<None, None>>
  /\ UNCHANGED <<now, m_insertTasks, m_reapetTasks, m_stop, life, fields, deadline, cancled,
                 stage, callers, cancels>>

EndPass ==
  /\ Alive /\ tpc = "pass" /\ at = None
  /\ tpc' = "top"
  /\ UNCHANGED <<now, thread, m_tasks, m_insertTasks, m_reapetTasks, m_stop, life, fields, deadline,
                 cancled, stage, callers, crashed, cancels>>

TimerThread == \/ TestStop \/ processNewTasks \/ Sleep \/ TimedOut \/ Wake
               \/ NotDue \/ HandOver \/ Unlink \/ EndPass

-----------------------------------------------------------------------------
\* A task is inserted, or deleted once the Timer stops.
insertTask(t) ==
  IF m_stop
    THEN /\ life' = [life EXCEPT ![t] = "freed"]
         /\ UNCHANGED <<tpc, deadline, m_insertTasks>>
    ELSE /\ deadline' = [deadline EXCEPT ![t] = IF now + timeout[t] < Horizon THEN now + timeout[t]
                                                                             ELSE Horizon]
         /\ m_insertTasks' = Append(m_insertTasks, t)
         /\ life' = [life EXCEPT ![t] = "live"]
         /\ notify_one

\* Defect: execTask does not look at cancled.
BeginExecAlways(t) ==
  /\ Alive /\ stage[t] = "accepted"
  /\ stage' = [stage EXCEPT ![t] = "running"]
  /\ UNCHANGED <<now, tpc, thread, m_tasks, m_insertTasks, m_reapetTasks, m_stop, life, fields,
                 deadline, cancled, callers, crashed, cancels>>

\* execTask in a thread of the pool: the test of cancled, ...
BeginExec(t) ==
  /\ Alive /\ stage[t] = "accepted"
  /\ IF cancled[t]
       THEN stage' = [stage EXCEPT ![t] = "out"] /\ life' = [life EXCEPT ![t] = "freed"]
       ELSE stage' = [stage EXCEPT ![t] = "running"] /\ UNCHANGED life
  /\ UNCHANGED <<now, tpc, thread, m_tasks, m_insertTasks, m_reapetTasks, m_stop, fields, deadline,
                 cancled, callers, crashed, cancels>>

\* ... and what follows the callback.
EndExec(t) ==
  /\ Alive /\ stage[t] = "running" /\ (t \in Nesting => cpc[t] = "idle")
  /\ stage' = [stage EXCEPT ![t] = "out"]
  /\ IF repeats[t]
       THEN NewTaskMutexFree /\ insertTask(t)
       ELSE /\ life' = [life EXCEPT ![t] = "freed"]
            /\ UNCHANGED <<tpc, deadline, m_insertTasks>>
  /\ UNCHANGED <<now, thread, m_tasks, m_reapetTasks, m_stop, fields, cancled, callers, crashed,
                 cancels>>

-----------------------------------------------------------------------------
\* The calls, by the owner and by callbacks.

MayCall(c) == cpc[c] = "idle" /\ c \in {Owner} \cup {t \in Nesting : stage[t] = "running"}

Make(c, t, ms, repeat) ==
  /\ Alive /\ MayCall(c) /\ NewTaskMutexFree /\ life[t] = "new"
  /\ life' = [life EXCEPT ![t] = "made"]
  /\ repeats' = [repeats EXCEPT ![t] = repeat] /\ timeout' = [timeout EXCEPT ![t] = ms]
  /\ cpc' = [cpc EXCEPT ![c] = "insert"] /\ arg' = [arg EXCEPT ![c] = t]
  /\ UNCHANGED <<now, tpc, thread, m_tasks, m_insertTasks, m_stop, deadline, cancled, stage, walk,
                 crashed, cancels>>

setTimeout(c, t, ms)  == Make(c, t, ms, FALSE) /\ UNCHANGED m_reapetTasks
setInterval(c, t, ms) == Make(c, t, ms, TRUE) /\ m_reapetTasks' = m_reapetTasks \cup {t}

\* The call is over.
Return(c) == cpc' = [cpc EXCEPT ![c] = "idle"] /\ arg' = [arg EXCEPT ![c] = None]

Insert(c) ==
  /\ Alive /\ cpc[c] = "insert" /\ NewTaskMutexFree
  /\ insertTask(arg[c])
  /\ Return(c)
  /\ UNCHANGED <<now, thread, m_tasks, m_reapetTasks, m_stop, fields, cancled, stage, walk, crashed,
                 cancels>>

\* cancelTimeout with the id of a task some call has returned.
cancelTimeout(c, t) ==
  /\ Alive /\ MayCall(c) /\ cancels < MaxCancels
  /\ life[t] \in {"live", "freed"}
  /\ cancels' = cancels + 1
  /\ cpc' = [cpc EXCEPT ![c] = "lock"] /\ arg' = [arg EXCEPT ![c] = t]
  /\ UNCHANGED <<now, tpc, thread, m_tasks, m_insertTasks, m_reapetTasks, m_stop, life, fields,
                 deadline, cancled, stage, walk, crashed>>

\* m_mutex is taken and, with the end of its block, released at once.
LockUnlock(c) ==
  /\ Alive /\ cpc[c] = "lock" /\ MutexFree
  /\ cpc' = [cpc EXCEPT ![c] = "scan"]
  /\ UNCHANGED <<now, tpc, thread, m_tasks, m_insertTasks, m_reapetTasks, m_stop, life, fields,
                 deadline, cancled, stage, arg, walk, crashed, cancels>>

Cancel(c) == cancled' = [cancled EXCEPT ![arg[c]] = TRUE] /\ notify_one /\ Return(c)

\* The intervals; one freed by a stopping Timer is still among them, and
\* reading it may end the program or not.
ScanIntervals(c) ==
  /\ Alive /\ cpc[c] = "scan" /\ NewTaskMutexFree
  /\ crashed' \in {FALSE, \E t \in m_reapetTasks : life[t] = "freed"}
  /\ m_reapetTasks' = m_reapetTasks \ {arg[c]}
  /\ IF arg[c] \in m_reapetTasks
       THEN Cancel(c) /\ UNCHANGED walk
       ELSE /\ cpc' = [cpc EXCEPT ![c] = "walk"]
            /\ walk' = [walk EXCEPT ![c] = m_tasks.head]
            /\ UNCHANGED <<tpc, cancled, arg>>
  /\ UNCHANGED <<now, thread, m_tasks, m_insertTasks, m_stop, life, fields, deadline, stage, cancels>>

\* The list, without m_mutex: the task looked at may have been freed meanwhile.
WalkList(c) ==
  /\ Alive /\ cpc[c] = "walk" /\ walk[c] # None
  /\ crashed' \in {FALSE, life[walk[c]] = "freed"}
  /\ IF walk[c] = arg[c]
       THEN Cancel(c) /\ walk' = [walk EXCEPT ![c] = None]
       ELSE /\ walk' = [walk EXCEPT ![c] = m_tasks.next[walk[c]]]
            /\ UNCHANGED <<tpc, cancled, cpc, arg>>
  /\ UNCHANGED <<now, thread, m_tasks, m_insertTasks, m_reapetTasks, m_stop, life, fields, deadline,
                 stage, cancels>>

ScanInserted(c) ==
  /\ Alive /\ cpc[c] = "walk" /\ walk[c] = None
  /\ IF Contains(m_insertTasks, arg[c])
       THEN Cancel(c)
       ELSE Return(c) /\ UNCHANGED <<tpc, cancled>>
  /\ UNCHANGED <<now, thread, m_tasks, m_insertTasks, m_reapetTasks, m_stop, life, fields, deadline,
                 stage, walk, crashed, cancels>>

CallSteps(c) == Insert(c) \/ LockUnlock(c) \/ ScanIntervals(c) \/ WalkList(c) \/ ScanInserted(c)

-----------------------------------------------------------------------------
\* ~Timer: m_stop and the notify, the join, waitAll(), the deletes.

BeginDestroy ==
  /\ Alive /\ cpc[Owner] = "idle"
  /\ m_stop' = TRUE
  /\ notify_one
  /\ cpc' = [cpc EXCEPT ![Owner] = "join"]
  /\ UNCHANGED <<now, thread, m_tasks, m_insertTasks, m_reapetTasks, life, fields, deadline, cancled,
                 stage, arg, walk, crashed, cancels>>

Join ==
  /\ Alive /\ cpc[Owner] = "join" /\ tpc = "ended"
  /\ cpc' = [cpc EXCEPT ![Owner] = "waitAll"]
  /\ UNCHANGED <<now, tpc, thread, m_tasks, m_insertTasks, m_reapetTasks, m_stop, life, fields,
                 deadline, cancled, stage, arg, walk, crashed, cancels>>

\* Defect: the destructor does not wait for the pool.
DeleteTasksEarly ==
  /\ Alive /\ cpc[Owner] = "waitAll"
  /\ life' = [t \in Tasks |-> IF Contains(Chain(m_tasks) \o m_insertTasks, t) THEN "freed" ELSE life[t]]
  /\ cpc' = [cpc EXCEPT ![Owner] = "gone"]
  /\ UNCHANGED <<now, tpc, thread, m_tasks, m_insertTasks, m_reapetTasks, m_stop, fields, deadline,
                 cancled, stage, arg, walk, crashed, cancels>>

DeleteTasks ==
  /\ Alive /\ cpc[Owner] = "waitAll" /\ InHand = {}
  /\ life' = [t \in Tasks |-> IF Contains(Chain(m_tasks) \o m_insertTasks, t) THEN "freed" ELSE life[t]]
  /\ cpc' = [cpc EXCEPT ![Owner] = "gone"]
  /\ UNCHANGED <<now, tpc, thread, m_tasks, m_insertTasks, m_reapetTasks, m_stop, fields, deadline,
                 cancled, stage, arg, walk, crashed, cancels>>

-----------------------------------------------------------------------------
Next ==
  \/ Tick \/ TimerThread \/ SpuriousWake
  \/ \E t \in Tasks : BeginExec(t) \/ EndExec(t)
  \/ \E c \in Callers, t \in Tasks :
       \/ \E ms \in Timeouts : setTimeout(c, t, ms) \/ setInterval(c, t, ms)
       \/ cancelTimeout(c, t)
  \/ \E c \in Callers : CallSteps(c)
  \/ BeginDestroy \/ Join \/ DeleteTasks

Spec == Init /\ [][Next]_vars

\* Threads run, callbacks return, the clock goes on, and who waits for a mutex
\* that is free again and again gets it.  Nobody need call anything.
Fairness ==
  /\ WF_vars(Tick)
  /\ WF_vars(TimerThread) /\ SF_vars(processNewTasks)
  /\ \A t \in Tasks : WF_vars(BeginExec(t)) /\ SF_vars(EndExec(t))
  /\ \A c \in Callers : SF_vars(CallSteps(c))

FairSpec == Spec /\ Fairness

-----------------------------------------------------------------------------
\* The variables hold what the code may put there.
TypeOK ==
  /\ now \in 0..Horizon
  /\ tpc \in {"top", "collect", "sleep", "waiting", "woken", "pass", "unlink", "ended"}
  /\ at \in Tasks \cup {None} /\ links \in (Tasks \cup {None}) \X (Tasks \cup {None})
  /\ m_tasks \in [head : Tasks \cup {None}, next : [Tasks -> Tasks \cup {None}],
                  prev : [Tasks -> Tasks \cup {None}]]
  /\ m_insertTasks \in Seq(Tasks) /\ m_reapetTasks \subseteq Tasks /\ m_stop \in BOOLEAN
  /\ life \in [Tasks -> {"new", "made", "live", "freed"}]
  /\ repeats \in [Tasks -> BOOLEAN] /\ cancled \in [Tasks -> BOOLEAN]
  /\ timeout \in [Tasks -> Timeouts \cup {0}] /\ deadline \in [Tasks -> 0..Horizon]
  /\ stage \in [Tasks -> {"out", "accepted", "running"}] /\ Cardinality(InHand) <= PoolSize
  /\ cpc \in [Callers -> {"idle", "insert", "lock", "scan", "walk", "join", "waitAll", "gone"}]
  /\ arg \in [Callers -> Tasks \cup {None}] /\ walk \in [Callers -> Tasks \cup {None}]
  /\ crashed \in BOOLEAN /\ cancels \in 0..MaxCancels

\* Between two passes' writes, next and prev describe one list, in the order
\* of the deadlines, whatever was inserted, run, run again and cancelled.
Linked ==
  ~crashed /\ tpc # "unlink" /\ cpc[Owner] # "gone" =>
    LET chain == Chain(m_tasks) IN
      /\ \A i \in DOMAIN chain :
           /\ m_tasks.prev[chain[i]] = IF i = 1 THEN None ELSE chain[i - 1]
           /\ i = Len(chain) => m_tasks.next[chain[i]] = None
      /\ \A i, j \in DOMAIN chain : i < j => deadline[chain[i]] <= deadline[chain[j]]

\* A task is in one place, m_insertTasks, the list or the pool, until it is
\* deleted, once: it is neither lost nor handed to the pool twice, and nobody
\* but a walking cancelTimeout() still holds a pointer to one deleted.
InOnePlace ==
  ~crashed /\ cpc[Owner] # "gone" =>
    \A t \in Tasks :
      LET places == (IF Contains(m_insertTasks, t) THEN {"inserted"} ELSE {})
                    \cup (IF Contains(Chain(m_tasks), t) /\ ~(tpc = "unlink" /\ at = t) THEN {"list"} ELSE {})
                    \cup (IF stage[t] # "out" THEN {"pool"} ELSE {})
      IN  /\ life[t] = "live" => Cardinality(places) = 1
          /\ life[t] # "live" => places = {}
          /\ Cardinality({i \in DOMAIN m_insertTasks : m_insertTasks[i] = t}) <= 1

\* When the destructor returns every task is deleted: those in the lists, and
\* those whose callbacks were still running or set more timers.
NothingLeft == cpc[Owner] = "gone" => \A t \in Tasks : life[t] \in {"new", "freed"}

\* A callback begins no earlier than its deadline, although a cancel, and the
\* pass it brings about, takes the task out of the list early.
NotEarly == [][\A t \in Tasks : stage[t] = "accepted" /\ stage'[t] = "running" => now >= deadline[t]]_vars

\* The timer thread waits, with m_mutex, for a thread of a pool in which every
\* callback waits in cancelTimeout() for m_mutex.
Jammed ==
  /\ tpc = "pass" /\ Cardinality(InHand) = PoolSize
  /\ \A t \in InHand : t \in Nesting /\ cpc[t] = "lock"

\* The notify of insertTask() came between processNewTasks() and the wait of a
\* thread with no task.
Overslept == tpc = "waiting" /\ NextWake = Never /\ m_insertTasks # <<>>

\* A task that was inserted is handed to the pool in the end.  Only the
\* Timer's end, the two ways above and a crash keep it from it.
Served ==
  \A t \in Tasks :
    life[t] = "live" /\ stage[t] = "out"
      ~> stage[t] # "out" \/ m_stop \/ crashed \/ Jammed \/ Overslept
=============================================================================
