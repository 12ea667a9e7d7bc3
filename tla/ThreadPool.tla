------------------------------ MODULE ThreadPool ------------------------------
(***************************************************************************)
(* ff::ThreadPool and its TaskThread (ff/src/thread/ThreadPool.cpp): a     *)
(* pool mutex and condition variable shared by exec() and waitAll(), one   *)
(* mutex and condition variable per TaskThread, the worker loop, and the   *)
(* destructor.  One action is one critical section of the pool mutex or    *)
(* one stretch of code between two points where the thread may be          *)
(* descheduled.  The pool mutex is held across actions only by the         *)
(* destructor and a TaskThread's own mutex only by that thread while it    *)
(* runs its task, so both are read off the program counters.               *)
(***************************************************************************)
EXTENDS Naturals, FiniteSets

CONSTANTS
  Clients,      \* threads of the user that call exec() and waitAll()
  Workers,      \* the TaskThread objects that may ever be allocated
  Tasks,        \* the runnables; each is submitted at most once
  MaxSize,      \* m_maxSize
  Nesting,      \* tasks that may themselves call exec() while they run
  Untimed,      \* callers that may use exec() without a timeout
  WaitAllers,   \* clients that may call waitAll()
  None          \* no task, no thread

Callers == Clients \cup Workers

ASSUME PoolAssumption ==
  /\ MaxSize \in Nat
  /\ IsFiniteSet(Clients) /\ IsFiniteSet(Workers)
  /\ Clients \cap Workers = {}
  /\ Nesting \subseteq Tasks
  /\ Untimed \subseteq Callers
  /\ WaitAllers \subseteq Clients
  /\ None \notin Tasks \cup Workers

VARIABLES
  idle,     \* m_idelThreads
  busy,     \* m_busyThreads
  wpc,      \* wpc[w]: where TaskThread w is in TaskThread::run
  task,     \* task[w]: TaskThread::m_task
  exit,     \* exit[w]: TaskThread::m_exit
  cpc,      \* cpc[p]: where caller p is in exec() or waitAll()
  arg,      \* arg[p]: the runnable p's exec() was given
  timed,    \* timed[p]: whether p's exec() has a timeout
  got,      \* got[p]: the thread getThread() returned to p
  fate,     \* fate[t]: what exec() said of task t
  ran,      \* ran[t]: how often task t has been run to its end
  dpc       \* where the owner is in ~ThreadPool

vars == <<idle, busy, wpc, task, exit, cpc, arg, timed, got, fate, ran, dpc>>

workerVars == <<wpc, task, exit>>
callVars   == <<cpc, arg, timed, got, fate>>

WorkerStates == {"none", "check", "lock", "waiting", "woken", "running",
                 "putting", "returning", "exited", "deleted"}
CallStates   == {"out", "get", "wait", "woken", "expired", "set",
                 "all", "allWait", "allWoken"}
InExec       == {"get", "wait", "woken", "expired", "set"}

\* Threads asleep on the pool's m_cond; exec() and waitAll() share it.
Asleep == {p \in Callers : cpc[p] \in {"wait", "allWait"}}

\* Threads on their way back from m_cond with the predicate still to be read.
Roused == {p \in Callers : cpc[p] \in {"woken", "expired"}}

PoolMutexFree == dpc # "stopping"

\* TaskThread::m_mutex is held by w itself from the moment it finds a task.
OwnMutexFree(w) == wpc[w] \notin {"running", "putting", "returning"}

Init ==
  /\ idle = {} /\ busy = {}
  /\ wpc = [w \in Workers |-> "none"]
  /\ task = [w \in Workers |-> None]
  /\ exit = [w \in Workers |-> FALSE]
  /\ cpc = [p \in Callers |-> "out"]
  /\ arg = [p \in Callers |-> None]
  /\ timed = [p \in Callers |-> FALSE]
  /\ got = [p \in Callers |-> None]
  /\ fate = [t \in Tasks |-> "new"]
  /\ ran = [t \in Tasks |-> 0]
  /\ dpc = "alive"

-----------------------------------------------------------------------------
(* exec() and waitAll(), by any caller p *)

\* The object outlives the calls its user makes, so clients call before the
\* destructor starts; a task may call exec() whenever it runs.
MayCall(p) == \/ p \in Clients /\ dpc = "alive"
              \/ p \in Workers /\ wpc[p] = "running" /\ task[p] \in Nesting

CallExec(p) ==
  /\ cpc[p] = "out" /\ MayCall(p)
  /\ \E t \in Tasks, b \in BOOLEAN :
       /\ fate[t] = "new"
       /\ b \/ p \in Untimed
       /\ arg' = [arg EXCEPT ![p] = t]
       /\ timed' = [timed EXCEPT ![p] = b]
       /\ fate' = [fate EXCEPT ![t] = "called"]
  /\ cpc' = [cpc EXCEPT ![p] = "get"]
  /\ UNCHANGED <<idle, busy, workerVars, got, ran, dpc>>

\* Defect: the iterator is not erased from m_idelThreads.
TakeIdleWithoutErase(p) ==
  /\ \E w \in idle : /\ busy' = busy \cup {w}
                     /\ got' = [got EXCEPT ![p] = w]
  /\ cpc' = [cpc EXCEPT ![p] = "set"]
  /\ UNCHANGED <<idle, workerVars, arg, timed, fate, ran, dpc>>

\* getThread moves an idle thread to the busy set and returns it.
TakeIdle(p) ==
  /\ \E w \in idle : /\ idle' = idle \ {w}
                     /\ busy' = busy \cup {w}
                     /\ got' = [got EXCEPT ![p] = w]
  /\ cpc' = [cpc EXCEPT ![p] = "set"]
  /\ UNCHANGED <<workerVars, arg, timed, fate, ran, dpc>>

\* Defect: busy threads are not counted.
PoolSizeIdleOnly == Cardinality(idle)

\* The number of threads getThread compares with m_maxSize.
PoolSize == Cardinality(idle) + Cardinality(busy)

\* getThread creates and starts a new TaskThread, which enters run().
StartThread(p) ==
  /\ idle = {} /\ PoolSize < MaxSize
  /\ \E w \in Workers : /\ wpc[w] = "none"
                        /\ wpc' = [wpc EXCEPT ![w] = "check"]
                        /\ busy' = busy \cup {w}
                        /\ got' = [got EXCEPT ![p] = w]
  /\ cpc' = [cpc EXCEPT ![p] = "set"]
  /\ UNCHANGED <<idle, task, exit, arg, timed, fate, ran, dpc>>

Sleep(p) ==
  /\ cpc' = [cpc EXCEPT ![p] = "wait"]
  /\ UNCHANGED <<idle, busy, workerVars, arg, timed, got, fate, ran, dpc>>

GetThread(p) ==
  /\ cpc[p] = "get" /\ PoolMutexFree
  /\ \/ TakeIdle(p)
     \/ StartThread(p)
     \/ idle = {} /\ PoolSize >= MaxSize /\ Sleep(p)

\* Back from wait or wait_for with a notification: the predicate is read again.
WakeInGetThread(p) ==
  /\ cpc[p] = "woken" /\ PoolMutexFree
  /\ \/ TakeIdle(p)
     \/ idle = {} /\ Sleep(p)

Timeout(p) ==
  /\ cpc[p] = "wait" /\ timed[p]
  /\ cpc' = [cpc EXCEPT ![p] = "expired"]
  /\ UNCHANGED <<idle, busy, workerVars, arg, timed, got, fate, ran, dpc>>

\* wait_for returns the predicate: a thread that went idle meanwhile is taken,
\* otherwise getThread returns nullptr and exec() returns false.
ExpireInGetThread(p) ==
  /\ cpc[p] = "expired" /\ PoolMutexFree
  /\ \/ TakeIdle(p)
     \/ /\ idle = {}
        /\ cpc' = [cpc EXCEPT ![p] = "out"]
        /\ arg' = [arg EXCEPT ![p] = None]
        /\ fate' = [fate EXCEPT ![arg[p]] = "refused"]
        /\ UNCHANGED <<idle, busy, workerVars, timed, got, ran, dpc>>

\* Defect: setTask does not notify.
SetTaskSilently(p) ==
  /\ cpc[p] = "set" /\ OwnMutexFree(got[p])
  /\ task' = [task EXCEPT ![got[p]] = arg[p]]
  /\ fate' = [fate EXCEPT ![arg[p]] = "accepted"]
  /\ cpc' = [cpc EXCEPT ![p] = "out"]
  /\ arg' = [arg EXCEPT ![p] = None]
  /\ got' = [got EXCEPT ![p] = None]
  /\ UNCHANGED <<idle, busy, wpc, exit, timed, ran, dpc>>

\* setTask: under the thread's mutex, set m_task and notify its m_cond.
SetTask(p) ==
  /\ cpc[p] = "set" /\ OwnMutexFree(got[p])
  /\ task' = [task EXCEPT ![got[p]] = arg[p]]
  /\ wpc' = [wpc EXCEPT ![got[p]] = IF @ = "waiting" THEN "woken" ELSE @]
  /\ fate' = [fate EXCEPT ![arg[p]] = "accepted"]
  /\ cpc' = [cpc EXCEPT ![p] = "out"]
  /\ arg' = [arg EXCEPT ![p] = None]
  /\ got' = [got EXCEPT ![p] = None]
  /\ UNCHANGED <<idle, busy, exit, timed, ran, dpc>>

CallWaitAll(p) ==
  /\ p \in WaitAllers /\ cpc[p] = "out" /\ dpc = "alive"
  /\ cpc' = [cpc EXCEPT ![p] = "all"]
  /\ UNCHANGED <<idle, busy, workerVars, arg, timed, got, fate, ran, dpc>>

\* waitAll waits on the same m_cond, for the busy set to be empty.
WaitAll(p) ==
  /\ cpc[p] \in {"all", "allWoken"} /\ PoolMutexFree
  /\ cpc' = [cpc EXCEPT ![p] = IF busy = {} THEN "out" ELSE "allWait"]
  /\ UNCHANGED <<idle, busy, workerVars, arg, timed, got, fate, ran, dpc>>

-----------------------------------------------------------------------------
(* TaskThread::run *)

MoveWorker(w, from, to) ==
  /\ wpc[w] = from
  /\ wpc' = [wpc EXCEPT ![w] = to]
  /\ UNCHANGED <<idle, busy, task, exit, callVars, ran, dpc>>

\* while (!m_exit), read without the mutex.
CheckExit(w) == MoveWorker(w, "check", IF exit[w] THEN "exited" ELSE "lock")

\* Take m_mutex; wait if there is no task, else go and run it.
LockAndTest(w) ==
  MoveWorker(w, "lock", IF task[w] = None THEN "waiting" ELSE "running")

\* Back from wait(): `if (!m_task) continue`.
WakeInRun(w) ==
  MoveWorker(w, "woken", IF task[w] = None THEN "check" ELSE "running")

\* Defect: m_task is not reset.
FinishWithoutReset(w) ==
  /\ wpc[w] = "running" /\ cpc[w] = "out"
  /\ ran' = [ran EXCEPT ![task[w]] = @ + 1]
  /\ wpc' = [wpc EXCEPT ![w] = "putting"]
  /\ UNCHANGED <<idle, busy, task, exit, callVars, dpc>>

\* m_task->run() returns and m_task is reset, all under m_mutex.
FinishTask(w) ==
  /\ wpc[w] = "running" /\ cpc[w] = "out"
  /\ ran' = [ran EXCEPT ![task[w]] = @ + 1]
  /\ task' = [task EXCEPT ![w] = None]
  /\ wpc' = [wpc EXCEPT ![w] = "putting"]
  /\ UNCHANGED <<idle, busy, exit, callVars, dpc>>

\* Defect: PutTaskThreadPtr notifies nobody.
NotifyNobody == UNCHANGED cpc

\* notify_one on the pool's m_cond: whichever sleeper the scheduler picks.
NotifyOne ==
  IF Asleep = {}
    THEN UNCHANGED cpc
    ELSE \E p \in Asleep :
           cpc' = [cpc EXCEPT ![p] = IF @ = "wait" THEN "woken" ELSE "allWoken"]

\* PutTaskThreadPtr, while the worker still holds its own mutex.
PutTaskThreadPtr(w) ==
  /\ wpc[w] = "putting" /\ PoolMutexFree
  /\ busy' = busy \ {w}
  /\ idle' = idle \cup {w}
  /\ NotifyOne
  /\ wpc' = [wpc EXCEPT ![w] = "returning"]
  /\ UNCHANGED <<task, exit, arg, timed, got, fate, ran, dpc>>

\* The end of the loop body releases m_mutex.
Return(w) == MoveWorker(w, "returning", "check")

-----------------------------------------------------------------------------
(* Spurious wakeups, which std::condition_variable allows *)

SpuriousInRun(w) == MoveWorker(w, "waiting", "woken")

SpuriousInPool(p) ==
  /\ p \in Asleep
  /\ cpc' = [cpc EXCEPT ![p] = IF @ = "wait" THEN "woken" ELSE "allWoken"]
  /\ UNCHANGED <<idle, busy, workerVars, arg, timed, got, fate, ran, dpc>>

-----------------------------------------------------------------------------
(* ~ThreadPool, run by the owner once no client is inside a call *)

MoveOwner(from, to) ==
  /\ dpc = from
  /\ dpc' = to
  /\ UNCHANGED <<idle, busy, workerVars, callVars, ran>>

BeginDestroy == (\A p \in Clients : cpc[p] = "out") /\ MoveOwner("alive", "polling")

\* The polling loop reads m_busyThreads under the mutex, and leaves it if empty.
PollBusy == busy = {} /\ MoveOwner("polling", "locking")

\* The mutex is taken again and kept to the end of the destructor.
LockPool == MoveOwner("locking", "stopping")

\* TaskThread::stop for one idle thread.
StopThread(w) ==
  /\ dpc = "stopping" /\ w \in idle /\ ~exit[w] /\ OwnMutexFree(w)
  /\ exit' = [exit EXCEPT ![w] = TRUE]
  /\ wpc' = [wpc EXCEPT ![w] = IF @ = "waiting" THEN "woken" ELSE @]
  /\ UNCHANGED <<idle, busy, task, callVars, ran, dpc>>

\* delete pThread: ~TaskThread joins the thread.  Starts when all are stopped.
DeleteThread(w) ==
  /\ dpc = "stopping" /\ w \in idle
  /\ \A v \in idle : exit[v]
  /\ MoveWorker(w, "exited", "deleted")

EndDestroy == /\ \A w \in idle : wpc[w] = "deleted"
              /\ MoveOwner("stopping", "destroyed")

\* Nothing is left to do: stuttering here is termination, not deadlock.
Terminated == dpc = "destroyed" /\ UNCHANGED vars

-----------------------------------------------------------------------------
ExecStep(p) == \/ GetThread(p) \/ WakeInGetThread(p) \/ Timeout(p)
               \/ ExpireInGetThread(p) \/ SetTask(p)

RunStep(w) == \/ CheckExit(w) \/ LockAndTest(w) \/ WakeInRun(w)
              \/ FinishTask(w) \/ PutTaskThreadPtr(w) \/ Return(w)

DestroyStep == \/ PollBusy \/ LockPool \/ EndDestroy
               \/ \E w \in Workers : StopThread(w) \/ DeleteThread(w)

Next ==
  \/ \E p \in Callers : CallExec(p) \/ ExecStep(p) \/ SpuriousInPool(p)
  \/ \E p \in WaitAllers : CallWaitAll(p) \/ WaitAll(p)
  \/ \E w \in Workers : RunStep(w) \/ SpuriousInRun(w)
  \/ BeginDestroy \/ DestroyStep \/ Terminated

Spec == Init /\ [][Next]_vars

\* The scheduler runs every runnable thread and tasks end.  wait_for has one
\* absolute deadline, so a timeout comes however often the wait is interrupted:
\* strong fairness.  Calling, and waking up for no reason, are never owed.
Fairness ==
  /\ \A p \in Callers : WF_vars(ExecStep(p)) /\ SF_vars(Timeout(p))
  /\ \A p \in WaitAllers : WF_vars(WaitAll(p))
  /\ \A w \in Workers : WF_vars(RunStep(w))
  /\ WF_vars(DestroyStep)

FairSpec == Spec /\ Fairness

-----------------------------------------------------------------------------
(* Properties *)

\* Types, and the call frame of each caller: it has a runnable exactly while it
\* is in exec(), and a thread, never nullptr, exactly when it is about to use it.
TypeOK ==
  /\ idle \subseteq Workers
  /\ busy \subseteq Workers
  /\ wpc \in [Workers -> WorkerStates]
  /\ task \in [Workers -> Tasks \cup {None}]
  /\ exit \in [Workers -> BOOLEAN]
  /\ cpc \in [Callers -> CallStates]
  /\ arg \in [Callers -> Tasks \cup {None}]
  /\ timed \in [Callers -> BOOLEAN]
  /\ got \in [Callers -> Workers \cup {None}]
  /\ fate \in [Tasks -> {"new", "called", "accepted", "refused"}]
  /\ ran \in [Tasks -> Nat]
  /\ dpc \in {"alive", "polling", "locking", "stopping", "destroyed"}
  /\ \A p \in Callers : /\ arg[p] # None <=> cpc[p] \in InExec
                        /\ got[p] # None <=> cpc[p] = "set"

\* Every thread ever started is in exactly one of the two sets, and there are
\* never more than m_maxSize of them, however getThread, PutTaskThreadPtr and
\* nested calls interleave.  The destructor frees what is in the idle set, so a
\* thread in neither set would outlive the pool.
ThreadsAccounted ==
  /\ idle \cap busy = {}
  /\ idle \cup busy = {w \in Workers : wpc[w] # "none"}
  /\ PoolSize <= MaxSize

\* A thread getThread returned belongs to one caller until setTask: it is busy,
\* empty-handed and promised to nobody else, so setTask overwrites no task.
HandedOnce ==
  \A p \in Callers : cpc[p] = "set" =>
    /\ got[p] \in busy
    /\ task[got[p]] = None
    /\ \A q \in Callers \ {p} : cpc[q] = "set" => got[q] # got[p]

\* exec() that returned true runs the task once, exec() that returned false
\* never does: an accepted task is in the hands of exactly one thread, which is
\* busy, or has run once; any other task has not run and is in no thread.
ExactlyOnce ==
  \A t \in Tasks :
    LET holders == {w \in Workers : task[w] = t}
    IN IF fate[t] = "accepted" /\ ran[t] = 0
         THEN \E w \in busy : holders = {w}
         ELSE /\ holders = {}
              /\ ran[t] = IF fate[t] = "accepted" THEN 1 ELSE 0

\* Nobody sleeps in exec() beside an idle thread no wakeup is on its way for:
\* PutTaskThreadPtr's notify_one and the steals of late callers balance.  True
\* as long as nobody is in waitAll(), which takes wakeups meant for exec().
NoIdleStranded ==
  WaitAllers = {} /\ Asleep # {} => Cardinality(idle) <= Cardinality(Roused)

\* A call of exec() comes back, even of a task into its own full pool if it has
\* a timeout.
ExecReturns == \A p \in Callers : cpc[p] # "out" ~> cpc[p] = "out"

\* waitAll() comes back although exec() callers may take its wakeup.
WaitAllReturns == \A p \in WaitAllers : cpc[p] = "all" ~> cpc[p] = "out"

\* ~ThreadPool comes back.
DestructorReturns == dpc = "polling" ~> dpc = "destroyed"

-----------------------------------------------------------------------------
(* The pool implements TaskPool *)

Holding(t, states) == \E w \in Workers : task[w] = t /\ wpc[w] \in states

PhaseOf(t) ==
  CASE fate[t] = "new"      -> "new"
    [] fate[t] = "called"   -> "waiting"
    [] fate[t] = "refused"  -> "refused"
    [] fate[t] = "accepted" -> IF ran[t] > 0 THEN "done"
                               ELSE IF Holding(t, {"running"}) THEN "running"
                               ELSE "accepted"

Abstract == INSTANCE TaskPool WITH
              phase  <- [t \in Tasks |-> PhaseOf(t)],
              closed <- dpc \in {"locking", "stopping", "destroyed"}

\* Every step of the pool is a step of TaskPool or changes nothing there, and
\* an accepted task is run: in particular ~ThreadPool leaves its loop only when
\* everything accepted, by tasks as well as by clients, has run.
ImplementsTaskPool == Abstract!FairSpec
=============================================================================
