--------------------------- MODULE ThreadPoolProofs ---------------------------
(***************************************************************************)
(* ThreadPool's safety invariants hold for every number of clients,        *)
(* threads and tasks and every m_maxSize.  None of them is inductive by    *)
(* itself: ExactlyOnce needs that a promised thread is empty-handed, which *)
(* needs that a thread goes idle only after it let go of its task, which   *)
(* needs to know where in run() a thread may have one.  IInv says all of   *)
(* it at once.                                                             *)
(***************************************************************************)
EXTENDS ThreadPool, FiniteSetTheorems, TLAPS

\* Where in run() a thread may be, given its task and its m_exit.
WorkerInv ==
  \A w \in Workers :
    /\ task[w] # None => /\ w \in busy
                         /\ wpc[w] \in {"check", "lock", "woken", "running"}
    /\ wpc[w] = "running" => task[w] # None
    /\ wpc[w] = "putting" => w \in busy
    /\ exit[w] => w \in idle /\ dpc \in {"stopping", "destroyed"}
    /\ wpc[w] \in {"exited", "deleted"} => exit[w]
    /\ cpc[w] # "out" => wpc[w] = "running"

\* A promised thread has neither a task nor one just finished.
PromiseInv ==
  \A p \in Callers : cpc[p] = "set" => wpc[got[p]] \notin {"running", "putting"}

\* Each runnable inside exec() is there once, and has no fate yet.
CallInv ==
  /\ \A p \in Callers : arg[p] # None => fate[arg[p]] = "called"
  /\ \A p, q \in Callers : arg[p] # None /\ arg[p] = arg[q] => p = q

\* The destructor runs alone: no client calls, and no thread once it has left
\* its polling loop.
DestroyInv ==
  /\ dpc # "alive" => \A p \in Clients : cpc[p] = "out"
  /\ dpc \in {"locking", "stopping", "destroyed"} => busy = {}

IInv == /\ TypeOK /\ ThreadsAccounted /\ HandedOnce /\ ExactlyOnce
        /\ WorkerInv /\ PromiseInv /\ CallInv /\ DestroyInv

-----------------------------------------------------------------------------
\* The bound on the number of threads, whose arithmetic the sets hide: getThread
\* adds one thread below m_maxSize, and moving a thread keeps the number.
LEMMA PoolBound ==
  ASSUME TypeOK, ThreadsAccounted
  PROVE  /\ IsFiniteSet(idle) /\ IsFiniteSet(busy)
         /\ Cardinality(idle) \in Nat /\ Cardinality(busy) \in Nat
         /\ \A w \in idle : Cardinality(idle \ {w}) + Cardinality(busy \cup {w}) = PoolSize
         /\ \A w \in busy : Cardinality(idle \cup {w}) + Cardinality(busy \ {w}) = PoolSize
         /\ \A w \in Workers \ (idle \cup busy) :
              Cardinality(idle) + Cardinality(busy \cup {w}) = PoolSize + 1
<1>1. IsFiniteSet(idle) /\ IsFiniteSet(busy)
  BY FS_Subset, PoolAssumption DEF TypeOK
<1>2. Cardinality(idle) \in Nat /\ Cardinality(busy) \in Nat
  BY <1>1, FS_CardinalityType
<1>3. ASSUME NEW w \in idle
      PROVE  Cardinality(idle \ {w}) + Cardinality(busy \cup {w}) = PoolSize
  <2>1. w \notin busy
    BY DEF ThreadsAccounted
  <2>2. Cardinality(idle \ {w}) = Cardinality(idle) - 1
    BY <1>1, FS_RemoveElement
  <2>3. Cardinality(busy \cup {w}) = Cardinality(busy) + 1
    BY <1>1, <2>1, FS_AddElement
  <2>4. QED
    BY <1>2, <2>2, <2>3 DEF PoolSize
<1>4. ASSUME NEW w \in busy
      PROVE  Cardinality(idle \cup {w}) + Cardinality(busy \ {w}) = PoolSize
  <2>1. w \notin idle
    BY DEF ThreadsAccounted
  <2>2. Cardinality(busy \ {w}) = Cardinality(busy) - 1
    BY <1>1, FS_RemoveElement
  <2>3. Cardinality(idle \cup {w}) = Cardinality(idle) + 1
    BY <1>1, <2>1, FS_AddElement
  <2>4. QED
    BY <1>2, <2>2, <2>3 DEF PoolSize
<1>5. ASSUME NEW w \in Workers \ (idle \cup busy)
      PROVE  Cardinality(idle) + Cardinality(busy \cup {w}) = PoolSize + 1
  <2>1. Cardinality(busy \cup {w}) = Cardinality(busy) + 1
    BY <1>1, FS_AddElement
  <2>2. QED
    BY <1>2, <2>1 DEF PoolSize
<1>6. QED
  BY <1>1, <1>2, <1>3, <1>4, <1>5

-----------------------------------------------------------------------------
(* The inductive invariant *)

LEMMA IInvInit == Init => IInv
<1> SUFFICES ASSUME Init PROVE IInv
  OBVIOUS
<1> USE PoolAssumption DEF Init
<1>1. TypeOK
  BY DEF TypeOK, Callers, InExec, WorkerStates, CallStates
<1>2. ThreadsAccounted
  BY FS_EmptySet DEF ThreadsAccounted, PoolSize
<1>3. HandedOnce /\ PromiseInv /\ CallInv /\ DestroyInv
  BY DEF HandedOnce, PromiseInv, CallInv, DestroyInv, Callers
<1>4. ExactlyOnce
  BY DEF ExactlyOnce
<1>5. WorkerInv
  BY DEF WorkerInv, Callers
<1>6. QED
  BY <1>1, <1>2, <1>3, <1>4, <1>5 DEF IInv

LEMMA IInvStep == IInv /\ [Next]_vars => IInv'
<1> SUFFICES ASSUME IInv, [Next]_vars PROVE IInv'
  OBVIOUS
<1> USE PoolAssumption
    DEF IInv, TypeOK, ThreadsAccounted, HandedOnce, ExactlyOnce, WorkerInv, PromiseInv,
        CallInv, DestroyInv, Callers, InExec, WorkerStates, CallStates,
        callVars, workerVars
<1>1. ASSUME NEW p \in Callers, CallExec(p) PROVE IInv'
  BY <1>1 DEF CallExec, MayCall, PoolSize
<1>2. ASSUME NEW p \in Callers, cpc[p] \in {"get", "woken", "expired"}, TakeIdle(p)
      PROVE  IInv'
  <2>1. PICK w \in idle : /\ idle' = idle \ {w}
                          /\ busy' = busy \cup {w}
                          /\ got' = [got EXCEPT ![p] = w]
    BY <1>2 DEF TakeIdle
  <2>2. PoolSize' = PoolSize
    BY <2>1, PoolBound DEF PoolSize
  <2>3. ThreadsAccounted'
    BY <1>2, <2>1, <2>2 DEF TakeIdle
  <2>4. TypeOK' /\ HandedOnce' /\ PromiseInv'
    BY <1>2, <2>1 DEF TakeIdle
  <2>5. ExactlyOnce' /\ WorkerInv' /\ CallInv' /\ DestroyInv'
    BY <1>2, <2>1 DEF TakeIdle
  <2>6. QED
    BY <2>3, <2>4, <2>5
<1>3. ASSUME NEW p \in Callers, cpc[p] = "get", StartThread(p)
      PROVE  IInv'
  <2>1. PICK w \in Workers : /\ wpc[w] = "none"
                             /\ wpc' = [wpc EXCEPT ![w] = "check"]
                             /\ busy' = busy \cup {w}
                             /\ got' = [got EXCEPT ![p] = w]
    BY <1>3 DEF StartThread
  <2>2. w \notin idle \cup busy
    BY <2>1
  <2>3. PoolSize' <= MaxSize
    BY <1>3, <2>1, <2>2, PoolBound DEF StartThread, PoolSize
  <2>4. ThreadsAccounted'
    BY <1>3, <2>1, <2>2, <2>3 DEF StartThread
  <2>5. TypeOK'
    BY <1>3, <2>1 DEF StartThread
  <2>6. HandedOnce'
    BY <1>3, <2>1, <2>2 DEF StartThread
  <2>7. PromiseInv' /\ CallInv' /\ DestroyInv'
    BY <1>3, <2>1, <2>2 DEF StartThread
  <2>8. ExactlyOnce'
    BY <1>3, <2>1 DEF StartThread
  <2>9. WorkerInv'
    BY <1>3, <2>1 DEF StartThread
  <2>10. QED
    BY <2>4, <2>5, <2>6, <2>7, <2>8, <2>9
<1>4. ASSUME NEW p \in Callers, cpc[p] \in {"get", "woken"}, Sleep(p) PROVE IInv'
  BY <1>4 DEF Sleep, PoolSize
<1>5. ASSUME NEW p \in Callers, Timeout(p) PROVE IInv'
  BY <1>5 DEF Timeout, PoolSize
<1>6. ASSUME NEW p \in Callers, ExpireInGetThread(p)
      PROVE  IInv'
  <2>1. CASE TakeIdle(p)
    BY <1>6, <2>1, <1>2 DEF ExpireInGetThread
  <2>2. CASE ~TakeIdle(p)
    <3>1. arg[p] \in Tasks /\ fate[arg[p]] = "called"
      BY <1>6 DEF ExpireInGetThread
    <3>2. TypeOK' /\ ThreadsAccounted' /\ HandedOnce' /\ PromiseInv' /\ CallInv' /\ DestroyInv'
      BY <1>6, <2>2, <3>1 DEF ExpireInGetThread, PoolSize
    <3>3. ExactlyOnce' /\ WorkerInv'
      BY <1>6, <2>2, <3>1 DEF ExpireInGetThread
    <3>4. QED
      BY <3>2, <3>3
  <2>3. QED
    BY <2>1, <2>2
<1>7. ASSUME NEW p \in Callers, SetTask(p)
      PROVE  IInv'
  <2>1. /\ got[p] \in busy /\ task[got[p]] = None
        /\ arg[p] \in Tasks /\ fate[arg[p]] = "called"
    BY <1>7 DEF SetTask
  <2>2. TypeOK' /\ ThreadsAccounted' /\ HandedOnce' /\ PromiseInv' /\ CallInv' /\ DestroyInv'
    BY <1>7, <2>1 DEF SetTask, OwnMutexFree, PoolSize
  <2>3. WorkerInv'
    BY <1>7, <2>1 DEF SetTask, OwnMutexFree
  <2>4. ExactlyOnce'
    BY <1>7, <2>1 DEF SetTask
  <2>5. QED
    BY <2>2, <2>3, <2>4
<1>8. ASSUME NEW p \in Callers, SpuriousInPool(p) PROVE IInv'
  BY <1>8 DEF SpuriousInPool, Asleep, PoolSize
<1>9. ASSUME NEW p \in WaitAllers, CallWaitAll(p) PROVE IInv'
  BY <1>9 DEF CallWaitAll, PoolSize
<1>10. ASSUME NEW p \in WaitAllers, WaitAll(p) PROVE IInv'
  BY <1>10 DEF WaitAll, PoolSize
<1>11. ASSUME NEW w \in Workers, CheckExit(w) PROVE IInv'
  BY <1>11 DEF CheckExit, MoveWorker, PoolSize
<1>12. ASSUME NEW w \in Workers, LockAndTest(w) PROVE IInv'
  BY <1>12 DEF LockAndTest, MoveWorker, PoolSize
<1>13. ASSUME NEW w \in Workers, WakeInRun(w) \/ SpuriousInRun(w) PROVE IInv'
  BY <1>13 DEF WakeInRun, SpuriousInRun, MoveWorker, PoolSize
<1>14. ASSUME NEW w \in Workers, FinishTask(w) PROVE IInv'
  BY <1>14 DEF FinishTask, PoolSize
<1>15. ASSUME NEW w \in Workers, PutTaskThreadPtr(w)
      PROVE  IInv'
  <2>1. w \in busy
    BY <1>15 DEF PutTaskThreadPtr
  <2>2. PoolSize' = PoolSize
    BY <1>15, <2>1, PoolBound DEF PutTaskThreadPtr, PoolSize
  <2>3. ThreadsAccounted'
    <3>1. idle' \cap busy' = {}
      BY <1>15, <2>1 DEF PutTaskThreadPtr
    <3>2. idle' \cup busy' = {v \in Workers : wpc'[v] # "none"}
      BY <1>15, <2>1 DEF PutTaskThreadPtr
    <3>3. QED
      BY <2>2, <3>1, <3>2
  <2>4. \/ cpc' = cpc
        \/ \E p \in Callers :
             \/ cpc[p] = "wait" /\ cpc' = [cpc EXCEPT ![p] = "woken"]
             \/ cpc[p] = "allWait" /\ cpc' = [cpc EXCEPT ![p] = "allWoken"]
    BY <1>15 DEF PutTaskThreadPtr, NotifyOne, Asleep
  <2>5. TypeOK'
    BY <1>15, <2>4 DEF PutTaskThreadPtr
  <2>6. HandedOnce' /\ PromiseInv' /\ CallInv' /\ DestroyInv'
    BY <1>15, <2>1, <2>4 DEF PutTaskThreadPtr
  <2>7. ExactlyOnce'
    BY <1>15, <2>1 DEF PutTaskThreadPtr
  <2>8. WorkerInv'
    BY <1>15, <2>1, <2>4 DEF PutTaskThreadPtr
  <2>9. QED
    BY <2>3, <2>5, <2>6, <2>7, <2>8
<1>16. ASSUME NEW w \in Workers, Return(w) PROVE IInv'
  BY <1>16 DEF Return, MoveWorker, PoolSize
<1>17. ASSUME BeginDestroy \/ PollBusy \/ LockPool \/ EndDestroy PROVE IInv'
  BY <1>17 DEF BeginDestroy, PollBusy, LockPool, EndDestroy, MoveOwner, PoolSize
<1>18. ASSUME NEW w \in Workers, StopThread(w) PROVE IInv'
  BY <1>18 DEF StopThread, OwnMutexFree, PoolSize
<1>19. ASSUME NEW w \in Workers, DeleteThread(w) PROVE IInv'
  BY <1>19 DEF DeleteThread, MoveWorker, PoolSize
<1>20. ASSUME UNCHANGED vars PROVE IInv'
  BY <1>20 DEF vars, PoolSize
<1>21. QED
  BY <1>1, <1>2, <1>3, <1>4, <1>5, <1>6, <1>7, <1>8, <1>9, <1>10, <1>11, <1>12, <1>13, <1>14, <1>15, <1>16, <1>17, <1>18, <1>19, <1>20
  DEF Next, ExecStep, RunStep, DestroyStep, Terminated, GetThread, WakeInGetThread

LEMMA Invariant == Spec => []IInv
<1>1. QED
  BY IInvInit, IInvStep, PTL DEF Spec

-----------------------------------------------------------------------------
(* The theorems *)

\* The variables keep their types, and getThread's result is used only when it
\* is a thread.
THEOREM TypeCorrect == Spec => []TypeOK
<1>1. IInv => TypeOK
  BY DEF IInv
<1>2. QED
  BY <1>1, Invariant, PTL

\* No thread is lost or counted twice, and m_maxSize is never exceeded.
THEOREM ThreadsAccountedAlways == Spec => []ThreadsAccounted
<1>1. IInv => ThreadsAccounted
  BY DEF IInv
<1>2. QED
  BY <1>1, Invariant, PTL

\* A thread is promised to one caller at a time, and setTask overwrites nothing.
THEOREM HandedOnceAlways == Spec => []HandedOnce
<1>1. IInv => HandedOnce
  BY DEF IInv
<1>2. QED
  BY <1>1, Invariant, PTL

\* A task exec() accepted runs exactly once, a refused one never.
THEOREM ExactlyOnceAlways == Spec => []ExactlyOnce
<1>1. IInv => ExactlyOnce
  BY DEF IInv
<1>2. QED
  BY <1>1, Invariant, PTL

-----------------------------------------------------------------------------
(* No sleeper is stranded beside an idle thread *)

\* Without waitAll() everybody on the pool's m_cond waits for an idle thread.
OnlyExec == WaitAllers = {} => \A p \in Callers : cpc[p] \in InExec \cup {"out"}

LEMMA OnlyExecStep == IInv /\ OnlyExec /\ [Next]_vars => OnlyExec'
<1> SUFFICES ASSUME IInv, OnlyExec, [Next]_vars, WaitAllers = {}
             PROVE  \A p \in Callers : cpc'[p] \in InExec \cup {"out"}
  BY DEF OnlyExec
<1> USE DEF OnlyExec, InExec, IInv, TypeOK, callVars
<1>1. ASSUME NEW p \in Callers, CallExec(p) \/ ExecStep(p) \/ SpuriousInPool(p)
      PROVE  \A q \in Callers : cpc'[q] \in InExec \cup {"out"}
  BY <1>1 DEF CallExec, ExecStep, SpuriousInPool, GetThread, WakeInGetThread, Timeout,
              ExpireInGetThread, SetTask, TakeIdle, StartThread, Sleep, Asleep
<1>2. ASSUME NEW w \in Workers, RunStep(w) \/ SpuriousInRun(w)
      PROVE  \A q \in Callers : cpc'[q] \in InExec \cup {"out"}
  BY <1>2 DEF RunStep, SpuriousInRun, CheckExit, LockAndTest, WakeInRun, FinishTask, Return,
              MoveWorker, PutTaskThreadPtr, NotifyOne, Asleep
<1>3. ASSUME BeginDestroy \/ DestroyStep \/ Terminated \/ UNCHANGED vars
      PROVE  \A q \in Callers : cpc'[q] \in InExec \cup {"out"}
  BY <1>3 DEF BeginDestroy, DestroyStep, Terminated, vars, PollBusy, LockPool, EndDestroy,
              MoveOwner, StopThread, DeleteThread, MoveWorker
<1>4. QED
  BY <1>1, <1>2, <1>3 DEF Next

\* One more caller roused, or one fewer, for one more idle thread, or one fewer.
LEMMA Balance ==
  ASSUME TypeOK
  PROVE  /\ IsFiniteSet(Roused) /\ Cardinality(Roused) \in Nat
         /\ IsFiniteSet(idle) /\ Cardinality(idle) \in Nat
         /\ \A p \in Callers \ Roused : Cardinality(Roused \cup {p}) = Cardinality(Roused) + 1
         /\ \A p \in Roused : Cardinality(Roused \ {p}) = Cardinality(Roused) - 1
         /\ \A w : Cardinality(idle \cup {w}) <= Cardinality(idle) + 1
         /\ \A w \in idle : Cardinality(idle \ {w}) = Cardinality(idle) - 1
<1>1. IsFiniteSet(Callers)
  BY FS_Union, PoolAssumption DEF Callers
<1>2. IsFiniteSet(Roused) /\ IsFiniteSet(idle)
  BY <1>1, FS_Subset, PoolAssumption DEF Roused, TypeOK
<1>3. Cardinality(Roused) \in Nat /\ Cardinality(idle) \in Nat
  BY <1>2, FS_CardinalityType
<1>4. \A p \in Callers \ Roused : Cardinality(Roused \cup {p}) = Cardinality(Roused) + 1
  BY <1>2, FS_AddElement
<1>5. \A p \in Roused : Cardinality(Roused \ {p}) = Cardinality(Roused) - 1
  BY <1>2, FS_RemoveElement
<1>6. ASSUME NEW w
      PROVE  Cardinality(idle \cup {w}) <= Cardinality(idle) + 1
  <2>1. Cardinality(idle \cup {w}) = IF w \in idle THEN Cardinality(idle)
                                                   ELSE Cardinality(idle) + 1
    BY <1>2, FS_AddElement
  <2>2. QED
    BY <1>3, <2>1
<1>7. \A w \in idle : Cardinality(idle \ {w}) = Cardinality(idle) - 1
  BY <1>2, FS_RemoveElement
<1>8. QED
  BY <1>2, <1>3, <1>4, <1>5, <1>6, <1>7

LEMMA NoIdleStrandedStep ==
  IInv /\ OnlyExec /\ NoIdleStranded /\ [Next]_vars => NoIdleStranded'
<1> SUFFICES ASSUME IInv, OnlyExec, NoIdleStranded, [Next]_vars, WaitAllers = {}, Asleep' # {}
             PROVE  Cardinality(idle') <= Cardinality(Roused')
  BY DEF NoIdleStranded
<1>0. TypeOK /\ TypeOK'
  BY IInvStep DEF IInv
<1> DEFINE Goal == Cardinality(idle') <= Cardinality(Roused')
<1>1. ASSUME UNCHANGED idle, Asleep \subseteq Asleep', Roused' = Roused, Asleep' \subseteq Asleep
      PROVE  Goal
  BY <1>1 DEF NoIdleStranded
<1>2. ASSUME NEW p \in Callers, CallExec(p)
      PROVE  Goal
  BY <1>0, <1>1, <1>2 DEF CallExec, Asleep, Roused, TypeOK
<1>3. ASSUME NEW p \in Callers, cpc[p] \in {"get", "woken", "expired"}, TakeIdle(p)
      PROVE  Goal
  <2>1. PICK w \in idle : idle' = idle \ {w}
    BY <1>3 DEF TakeIdle
  <2>2. Asleep' = Asleep /\ Roused' = Roused \ {p}
    BY <1>0, <1>3 DEF TakeIdle, Asleep, Roused, TypeOK
  <2>3. Cardinality(idle) <= Cardinality(Roused)
    BY <2>2 DEF NoIdleStranded
  <2>4. CASE p \in Roused
    BY <1>0, <2>1, <2>2, <2>3, <2>4, Balance
  <2>5. CASE p \notin Roused
    <3>1. Roused' = Roused
      BY <2>2, <2>5
    <3>2. QED
      BY <1>0, <2>1, <2>3, <3>1, Balance
  <2>6. QED
    BY <2>4, <2>5
<1>4. ASSUME idle' = {}
      PROVE  Goal
  <2>1. Cardinality(Roused') \in Nat
    <3>1. IsFiniteSet(Callers)
      BY FS_Union, PoolAssumption DEF Callers
    <3>2. IsFiniteSet(Roused')
      BY <3>1, FS_Subset DEF Roused
    <3>3. QED
      BY <3>2, FS_CardinalityType
  <2>2. QED
    BY <1>4, <2>1, FS_EmptySet
<1>5. ASSUME NEW p \in Callers, StartThread(p) \/ Sleep(p), idle = {}
      PROVE  Goal
  BY <1>4, <1>5 DEF StartThread, Sleep
<1>6. ASSUME NEW p \in Callers, cpc[p] = "wait", UNCHANGED idle,
             cpc' = [cpc EXCEPT ![p] = "woken"] \/ cpc' = [cpc EXCEPT ![p] = "expired"]
      PROVE  Goal
  <2>1. Roused' = Roused \cup {p} /\ p \notin Roused
    BY <1>0, <1>6 DEF Roused, TypeOK
  <2>2. p \in Asleep
    BY <1>6 DEF Asleep
  <2>3. Cardinality(idle) <= Cardinality(Roused)
    BY <2>2 DEF NoIdleStranded
  <2>4. QED
    BY <1>0, <1>6, <2>1, <2>3, Balance
<1>7. ASSUME NEW p \in Callers, Timeout(p) \/ SpuriousInPool(p)
      PROVE  Goal
  BY <1>0, <1>6, <1>7 DEF Timeout, SpuriousInPool, Asleep, OnlyExec, InExec
<1>8. ASSUME NEW p \in Callers, ExpireInGetThread(p)
      PROVE  Goal
  BY <1>3, <1>4, <1>8 DEF ExpireInGetThread
<1>9. ASSUME NEW p \in Callers, SetTask(p)
      PROVE  Goal
  BY <1>0, <1>1, <1>9 DEF SetTask, Asleep, Roused, TypeOK
<1>10. ASSUME NEW w \in Workers, PutTaskThreadPtr(w)
       PROVE  Goal
  <2>1. Asleep # {}
    BY <1>10 DEF PutTaskThreadPtr, NotifyOne, Asleep
  <2>2. PICK p \in Callers : cpc[p] = "wait" /\ cpc' = [cpc EXCEPT ![p] = "woken"]
    BY <1>10, <2>1 DEF PutTaskThreadPtr, NotifyOne, Asleep, OnlyExec, InExec
  <2>3. Roused' = Roused \cup {p} /\ p \notin Roused
    BY <1>0, <2>2 DEF Roused, TypeOK
  <2>4. Cardinality(idle) <= Cardinality(Roused)
    BY <2>1 DEF NoIdleStranded
  <2>5. idle' = idle \cup {w}
    BY <1>10 DEF PutTaskThreadPtr
  <2>6. Cardinality(idle') <= Cardinality(idle) + 1
    BY <1>0, <2>5, Balance
  <2>7. Cardinality(Roused') = Cardinality(Roused) + 1
    BY <1>0, <2>3, Balance
  <2>8. Cardinality(idle') \in Nat
    BY <1>0, <2>5, FS_AddElement, FS_CardinalityType, Balance
  <2>9. QED
    BY <1>0, <2>4, <2>6, <2>7, <2>8, Balance
<1>11. ASSUME NEW w \in Workers,
              CheckExit(w) \/ LockAndTest(w) \/ WakeInRun(w) \/ FinishTask(w) \/ Return(w)
                \/ SpuriousInRun(w) \/ StopThread(w) \/ DeleteThread(w)
       PROVE  Goal
  <2>1. UNCHANGED <<idle, cpc>>
    BY <1>11 DEF CheckExit, LockAndTest, WakeInRun, FinishTask, Return, SpuriousInRun,
                 StopThread, DeleteThread, MoveWorker, callVars
  <2>2. QED
    BY <1>1, <2>1 DEF Asleep, Roused
<1>12. ASSUME BeginDestroy \/ PollBusy \/ LockPool \/ EndDestroy \/ Terminated \/ UNCHANGED vars
       PROVE  Goal
  <2>1. UNCHANGED <<idle, cpc>>
    BY <1>12 DEF BeginDestroy, PollBusy, LockPool, EndDestroy, Terminated, MoveOwner, callVars,
                 vars
  <2>2. QED
    BY <1>1, <2>1 DEF Asleep, Roused
<1>13. ASSUME NEW p \in Callers, GetThread(p) \/ WakeInGetThread(p)
       PROVE  Goal
  <2>1. CASE TakeIdle(p)
    BY <1>3, <1>13, <2>1 DEF GetThread, WakeInGetThread
  <2>2. CASE StartThread(p)
    BY <1>5, <2>2 DEF StartThread
  <2>3. CASE Sleep(p) /\ idle = {}
    BY <1>5, <2>3
  <2>4. QED
    BY <1>13, <2>1, <2>2, <2>3 DEF GetThread, WakeInGetThread
<1>14. QED
  BY <1>2, <1>7, <1>8, <1>9, <1>10, <1>11, <1>12, <1>13 DEF Next, ExecStep, RunStep, DestroyStep

\* If nobody uses waitAll(), a caller never sleeps in exec() while a thread is
\* idle and no wakeup is on its way.
THEOREM NoIdleStrandedAlways == Spec => []NoIdleStranded
<1>1. Init => OnlyExec /\ NoIdleStranded
  BY DEF Init, OnlyExec, NoIdleStranded, Asleep, InExec
<1>2. QED
  BY <1>1, Invariant, OnlyExecStep, NoIdleStrandedStep, PTL DEF Spec

-----------------------------------------------------------------------------
\* The refinement.  Every step of the pool is a step of TaskPool under the mapping
\* of PhaseOf, or changes nothing there.  (TLC checks the liveness part.)

\* A task whose exec() has not returned is the argument of some caller.
CalledInv == \A t \in Tasks : fate[t] = "called" => \E p \in Callers : arg[p] = t

LEMMA CalledStep == IInv /\ CalledInv /\ [Next]_vars => CalledInv'
<1> SUFFICES ASSUME IInv, CalledInv, [Next]_vars PROVE CalledInv'
  OBVIOUS
<1> USE PoolAssumption DEF IInv, TypeOK, CallInv, CalledInv, callVars
<1>1. ASSUME NEW p \in Callers, CallExec(p) PROVE CalledInv'
  <2>1. PICK t \in Tasks : /\ arg' = [arg EXCEPT ![p] = t]
                            /\ fate' = [fate EXCEPT ![t] = "called"]
    BY <1>1 DEF CallExec
  <2>2. arg[p] = None
    BY <1>1 DEF CallExec, InExec
  <2>3. QED
    BY <2>1, <2>2
<1>2. ASSUME NEW p \in Callers, ExpireInGetThread(p), ~TakeIdle(p) PROVE CalledInv'
  BY <1>2 DEF ExpireInGetThread
<1>3. ASSUME NEW p \in Callers, SetTask(p) PROVE CalledInv'
  BY <1>3 DEF SetTask
<1>4. ASSUME UNCHANGED <<arg, fate>> PROVE CalledInv'
  BY <1>4
<1>5. ASSUME NEW p \in Callers, GetThread(p) \/ WakeInGetThread(p) \/ TakeIdle(p) \/ Timeout(p)
                                  \/ SpuriousInPool(p)
      PROVE  CalledInv'
  BY <1>4, <1>5 DEF GetThread, WakeInGetThread, TakeIdle, StartThread, Sleep, Timeout,
                    SpuriousInPool
<1>6. ASSUME NEW p \in WaitAllers, CallWaitAll(p) \/ WaitAll(p) PROVE CalledInv'
  BY <1>4, <1>6 DEF CallWaitAll, WaitAll
<1>7. ASSUME NEW w \in Workers, RunStep(w) \/ SpuriousInRun(w) PROVE CalledInv'
  BY <1>4, <1>7 DEF RunStep, SpuriousInRun, CheckExit, LockAndTest, WakeInRun, FinishTask,
                    PutTaskThreadPtr, Return, MoveWorker
<1>8. ASSUME BeginDestroy \/ DestroyStep \/ Terminated \/ UNCHANGED vars PROVE CalledInv'
  BY <1>4, <1>8 DEF BeginDestroy, DestroyStep, Terminated, vars, PollBusy, LockPool, EndDestroy,
                    MoveOwner, StopThread, DeleteThread, MoveWorker
<1>9. QED
  BY <1>1, <1>2, <1>3, <1>5, <1>6, <1>7, <1>8 DEF Next, ExecStep

-----------------------------------------------------------------------------
\* The phase of a task, in one line for each value of its fate.
LEMMA PhaseCases ==
  ASSUME TypeOK, NEW t \in Tasks
  PROVE  /\ fate[t] = "new" => PhaseOf(t) = "new"
         /\ fate[t] = "called" => PhaseOf(t) = "waiting"
         /\ fate[t] = "refused" => PhaseOf(t) = "refused"
         /\ fate[t] = "accepted" /\ ran[t] > 0 => PhaseOf(t) = "done"
         /\ fate[t] = "accepted" /\ ~(ran[t] > 0) /\ Holding(t, {"running"})
              => PhaseOf(t) = "running"
         /\ fate[t] = "accepted" /\ ~(ran[t] > 0) /\ ~Holding(t, {"running"})
              => PhaseOf(t) = "accepted"
<1>1. fate[t] \in {"new", "called", "accepted", "refused"}
  BY DEF TypeOK
<1>2. QED
  BY <1>1 DEF PhaseOf

\* A step that leaves fate, ran and the running tasks alone moves no task.
LEMMA PhaseUnchanged ==
  ASSUME UNCHANGED <<fate, ran>>,
         \A t \in Tasks : Holding(t, {"running"})' <=> Holding(t, {"running"})
  PROVE  \A t \in Tasks : PhaseOf(t)' = PhaseOf(t)
BY DEF PhaseOf

LEMMA InHandBound ==
  ASSUME IInv, NEW w \in busy, task[w] = None
  PROVE  Cardinality(Abstract!InHand) < MaxSize
<1> USE PoolAssumption DEF IInv
<1> DEFINE H == {v \in busy : task[v] \in Abstract!InHand}
           f == [v \in H |-> task[v]]
<1>1. ASSUME NEW t \in Abstract!InHand PROVE \E v \in H : task[v] = t
  <2>1. t \in Tasks /\ PhaseOf(t) \in {"accepted", "running"}
    BY DEF Abstract!InHand
  <2>2. fate[t] = "accepted" /\ ~(ran[t] > 0)
    <3>1. fate[t] \in {"new", "called", "accepted", "refused"}
      BY <2>1 DEF TypeOK
    <3>2. QED
      BY <2>1, <3>1, PhaseCases
  <2>3. ran[t] = 0
    BY <2>1, <2>2 DEF TypeOK
  <2>4. PICK v \in busy : {u \in Workers : task[u] = t} = {v}
    BY <2>1, <2>2, <2>3 DEF ExactlyOnce
  <2>5. QED
    BY <2>4
<1>2. f \in Surjection(H, Abstract!InHand)
  BY <1>1 DEF Surjection
<1>3. H \subseteq busy \ {w}
  <2>1. None \notin Abstract!InHand
    BY DEF Abstract!InHand
  <2>2. QED
    BY <2>1
<1>4. /\ IsFiniteSet(busy \ {w})
      /\ Cardinality(busy \ {w}) = Cardinality(busy) - 1
  BY PoolBound, FS_RemoveElement
<1>5. IsFiniteSet(H) /\ Cardinality(H) <= Cardinality(busy \ {w})
  BY <1>3, <1>4, FS_Subset
<1>6. Cardinality(Abstract!InHand) <= Cardinality(H) /\ IsFiniteSet(Abstract!InHand)
  BY <1>2, <1>5, FS_Surjection
<1>7. /\ Cardinality(Abstract!InHand) \in Nat
      /\ Cardinality(H) \in Nat /\ Cardinality(busy) \in Nat /\ Cardinality(idle) \in Nat
  BY <1>5, <1>6, FS_CardinalityType, PoolBound
<1>8. Cardinality(idle) + Cardinality(busy) <= MaxSize
  BY DEF ThreadsAccounted, PoolSize
<1>9. QED
  BY <1>4, <1>5, <1>6, <1>7, <1>8

\* What it takes to be a step of one task, or of none.
LEMMA OneTaskMoves ==
  ASSUME NEW t \in Tasks, NEW from, NEW to,
         PhaseOf(t) = from, PhaseOf(t)' = to,
         \A u \in Tasks \ {t} : PhaseOf(u)' = PhaseOf(u),
         (dpc \in {"locking", "stopping", "destroyed"})'
           = (dpc \in {"locking", "stopping", "destroyed"})
  PROVE  Abstract!Become(t, from, to)
BY DEF Abstract!Become

LEMMA NoTaskMoves ==
  ASSUME \A t \in Tasks : PhaseOf(t)' = PhaseOf(t),
         (dpc \in {"locking", "stopping", "destroyed"})'
           = (dpc \in {"locking", "stopping", "destroyed"})
  PROVE  UNCHANGED Abstract!vars
BY DEF Abstract!vars

LEMMA RefinementStep ==
  IInv /\ CalledInv /\ [Next]_vars => [Abstract!Next]_(Abstract!vars)
<1> SUFFICES ASSUME IInv, CalledInv, [Next]_vars
             PROVE  Abstract!Next \/ UNCHANGED Abstract!vars
  OBVIOUS
<1> USE PoolAssumption DEF IInv
<1>0. TypeOK /\ TypeOK' /\ IInv'
  BY IInvStep
<1>1. ASSUME NEW p \in Callers, CallExec(p) PROVE Abstract!Next
  <2>1. PICK t \in Tasks : fate[t] = "new" /\ fate' = [fate EXCEPT ![t] = "called"]
    BY <1>1 DEF CallExec
  <2>2. dpc \notin {"locking", "stopping", "destroyed"} /\ dpc' = dpc
    BY <1>1 DEF CallExec, MayCall, DestroyInv, WorkerInv
  <2>3. UNCHANGED <<ran, task, wpc>>
    BY <1>1 DEF CallExec, workerVars
  <2>4. PhaseOf(t) = "new" /\ PhaseOf(t)' = "waiting"
    <3>1. fate'[t] = "called"
      BY <1>0, <2>1 DEF TypeOK
    <3>2. QED
      BY <1>0, <2>1, <3>1 DEF PhaseOf
  <2>5. \A u \in Tasks \ {t} : PhaseOf(u)' = PhaseOf(u)
    BY <1>0, <2>1, <2>3 DEF PhaseOf, Holding, TypeOK
  <2>6. Abstract!Submit(t)
    BY <2>2, <2>4, <2>5, OneTaskMoves DEF Abstract!Submit
  <2>7. QED
    BY <2>6 DEF Abstract!Next
<1>2. ASSUME NEW p \in Callers, ExpireInGetThread(p), ~TakeIdle(p) PROVE Abstract!Next
  <2>1. PICK t \in Tasks : t = arg[p] /\ fate[t] = "called"
    BY <1>0, <1>2 DEF ExpireInGetThread, TypeOK, InExec, CallInv
  <2>2. /\ fate' = [fate EXCEPT ![t] = "refused"]
        /\ UNCHANGED <<ran, task, wpc, dpc>>
    BY <1>2, <2>1 DEF ExpireInGetThread, workerVars
  <2>3. PhaseOf(t) = "waiting" /\ PhaseOf(t)' = "refused"
    <3>1. fate'[t] = "refused"
      BY <1>0, <2>1, <2>2 DEF TypeOK
    <3>2. QED
      BY <2>1, <3>1 DEF PhaseOf
  <2>4. \A u \in Tasks \ {t} : PhaseOf(u)' = PhaseOf(u)
    BY <1>0, <2>2 DEF PhaseOf, Holding, TypeOK
  <2>5. Abstract!Refuse(t)
    BY <2>1, <2>2, <2>3, <2>4, OneTaskMoves DEF Abstract!Refuse
  <2>6. QED
    BY <2>1, <2>5 DEF Abstract!Next
<1>3. ASSUME NEW p \in Callers, SetTask(p) PROVE Abstract!Next
  <2>1. PICK t \in Tasks : t = arg[p] /\ fate[t] = "called" /\ ran[t] = 0
    BY <1>0, <1>3 DEF SetTask, TypeOK, InExec, CallInv, ExactlyOnce
  <2>2. PICK w \in Workers : w = got[p] /\ w \in busy /\ task[w] = None
    BY <1>0, <1>3 DEF SetTask, HandedOnce, TypeOK
  <2>3. /\ fate' = [fate EXCEPT ![t] = "accepted"]
        /\ task' = [task EXCEPT ![w] = t]
        /\ wpc' = [wpc EXCEPT ![w] = IF @ = "waiting" THEN "woken" ELSE @]
        /\ wpc[w] # "running"
        /\ UNCHANGED <<ran, dpc>>
    BY <1>3, <2>1, <2>2 DEF SetTask, OwnMutexFree
  <2>4. \A u \in Tasks : Holding(u, {"running"})' <=> Holding(u, {"running"})
    BY <1>0, <2>1, <2>2, <2>3 DEF Holding, TypeOK
  <2>5. ~Holding(t, {"running"})
    BY <2>1 DEF Holding, ExactlyOnce
  <2>6. PhaseOf(t) = "waiting" /\ PhaseOf(t)' = "accepted"
    <3>1. fate'[t] = "accepted" /\ ~(ran'[t] > 0)
      BY <1>0, <2>1, <2>3 DEF TypeOK
    <3>2. QED
      BY <2>1, <2>4, <2>5, <3>1 DEF PhaseOf
  <2>7. \A u \in Tasks \ {t} : PhaseOf(u)' = PhaseOf(u)
    BY <1>0, <2>3, <2>4 DEF PhaseOf, TypeOK
  <2>8. Cardinality(Abstract!InHand) < MaxSize
    BY <2>2, InHandBound
  <2>9. Abstract!Become(t, "waiting", "accepted")
    BY <2>3, <2>6, <2>7, OneTaskMoves
  <2>10. Abstract!Accept(t)
    BY <2>8, <2>9 DEF Abstract!Accept, Abstract!Cardinality, Cardinality
  <2>11. QED
    BY <2>10 DEF Abstract!Next
<1>4. ASSUME NEW w \in Workers, task[w] # None, wpc[w] \in {"lock", "woken"},
             MoveWorker(w, wpc[w], "running")
      PROVE  Abstract!Next
  <2>1. PICK t \in Tasks : t = task[w]
    BY <1>0, <1>4 DEF TypeOK
  <2>2. /\ wpc' = [wpc EXCEPT ![w] = "running"]
        /\ UNCHANGED <<fate, ran, task, dpc>>
    BY <1>4 DEF MoveWorker, callVars
  <2>3. /\ fate[t] = "accepted" /\ ran[t] = 0
        /\ \A v \in Workers : task[v] = t => v = w
    BY <1>4, <2>1 DEF ExactlyOnce
  <2>4. ~Holding(t, {"running"}) /\ Holding(t, {"running"})'
    BY <1>0, <1>4, <2>1, <2>2, <2>3 DEF Holding, TypeOK
  <2>5. PhaseOf(t) = "accepted" /\ PhaseOf(t)' = "running"
    BY <2>2, <2>3, <2>4 DEF PhaseOf
  <2>6. \A u \in Tasks \ {t} : PhaseOf(u)' = PhaseOf(u)
    <3>1. \A u \in Tasks \ {t} : Holding(u, {"running"})' <=> Holding(u, {"running"})
      BY <1>0, <2>1, <2>2 DEF Holding, TypeOK
    <3>2. QED
      BY <2>2, <3>1 DEF PhaseOf
  <2>7. Abstract!Start(t)
    BY <2>1, <2>2, <2>5, <2>6, OneTaskMoves DEF Abstract!Start
  <2>8. QED
    BY <2>1, <2>7 DEF Abstract!Next
<1>5. ASSUME NEW w \in Workers, FinishTask(w) PROVE Abstract!Next
  <2>1. PICK t \in Tasks : t = task[w]
    BY <1>0, <1>5 DEF FinishTask, WorkerInv, TypeOK
  <2>2. /\ wpc[w] = "running"
        /\ wpc' = [wpc EXCEPT ![w] = "putting"]
        /\ task' = [task EXCEPT ![w] = None]
        /\ ran' = [ran EXCEPT ![t] = @ + 1]
        /\ UNCHANGED <<fate, dpc>>
    BY <1>5, <2>1 DEF FinishTask, callVars
  <2>3. fate[t] = "accepted" /\ ran[t] = 0
    BY <2>1 DEF ExactlyOnce
  <2>4. Holding(t, {"running"})
    BY <2>1, <2>2 DEF Holding
  <2>5. PhaseOf(t) = "running" /\ PhaseOf(t)' = "done"
    <3>1. ran'[t] > 0 /\ ~(ran[t] > 0)
      BY <1>0, <2>1, <2>2, <2>3 DEF TypeOK
    <3>2. QED
      BY <2>2, <2>3, <2>4, <3>1 DEF PhaseOf
  <2>6. \A u \in Tasks \ {t} : PhaseOf(u)' = PhaseOf(u)
    <3>1. \A u \in Tasks \ {t} : Holding(u, {"running"})' <=> Holding(u, {"running"})
      BY <1>0, <2>1, <2>2 DEF Holding, TypeOK
    <3>2. \A u \in Tasks \ {t} : ran'[u] = ran[u]
      BY <1>0, <2>2 DEF TypeOK
    <3>3. QED
      BY <2>2, <3>1, <3>2 DEF PhaseOf
  <2>7. Abstract!Finish(t)
    BY <2>1, <2>2, <2>5, <2>6, OneTaskMoves DEF Abstract!Finish
  <2>8. QED
    BY <2>1, <2>7 DEF Abstract!Next
<1>6. ASSUME PollBusy PROVE Abstract!Next
  <2>1. /\ busy = {} /\ dpc = "polling" /\ dpc' = "locking"
        /\ UNCHANGED <<fate, ran, task, wpc>>
    BY <1>6 DEF PollBusy, MoveOwner, workerVars, callVars
  <2>2. \A p \in Callers : cpc[p] = "out"
    <3>1. \A p \in Clients : cpc[p] = "out"
      BY <2>1 DEF DestroyInv
    <3>2. \A w \in Workers : cpc[w] = "out"
      BY <2>1 DEF WorkerInv
    <3>3. QED
      BY <3>1, <3>2 DEF Callers
  <2>3. ASSUME NEW t \in Tasks PROVE PhaseOf(t) \in {"new", "done", "refused"}
    <3>1. fate[t] # "called"
      BY <1>0, <2>2 DEF CalledInv, TypeOK, InExec
    <3>2. fate[t] = "accepted" => ran[t] > 0
      BY <1>0, <2>1 DEF ExactlyOnce, TypeOK
    <3>3. fate[t] \in {"new", "called", "accepted", "refused"}
      BY <1>0 DEF TypeOK
    <3>4. QED
      BY <1>0, <3>1, <3>2, <3>3, PhaseCases
  <2>4. \A t \in Tasks : PhaseOf(t)' = PhaseOf(t)
    BY <2>1 DEF PhaseOf, Holding
  <2>5. Abstract!Close
    BY <2>1, <2>3, <2>4 DEF Abstract!Close
  <2>6. QED
    BY <2>5 DEF Abstract!Next
<1>7. ASSUME UNCHANGED <<fate, ran, task, wpc, dpc>> PROVE UNCHANGED Abstract!vars
  <2>1. \A t \in Tasks : PhaseOf(t)' = PhaseOf(t)
    BY <1>7 DEF PhaseOf, Holding
  <2>2. QED
    BY <1>7, <2>1, NoTaskMoves
<1>8. ASSUME NEW p \in Callers,
             TakeIdle(p) \/ Sleep(p) \/ Timeout(p) \/ SpuriousInPool(p)
      PROVE  UNCHANGED Abstract!vars
  BY <1>7, <1>8 DEF TakeIdle, Sleep, Timeout, SpuriousInPool, workerVars
<1>9. ASSUME NEW p \in WaitAllers, CallWaitAll(p) \/ WaitAll(p) PROVE UNCHANGED Abstract!vars
  BY <1>7, <1>9 DEF CallWaitAll, WaitAll, workerVars
<1>10. ASSUME NEW w \in Workers, UNCHANGED <<fate, ran, task, dpc>>,
              NEW to \in WorkerStates \ {"running"}, wpc[w] # "running",
              wpc' = [wpc EXCEPT ![w] = to]
       PROVE  UNCHANGED Abstract!vars
  <2>1. \A t \in Tasks : Holding(t, {"running"})' <=> Holding(t, {"running"})
    BY <1>0, <1>10 DEF Holding, TypeOK
  <2>2. QED
    BY <1>10, <2>1, PhaseUnchanged, NoTaskMoves
<1>11. ASSUME NEW p \in Callers, StartThread(p) PROVE UNCHANGED Abstract!vars
  BY <1>10, <1>11 DEF StartThread, WorkerStates
<1>12. ASSUME NEW w \in Workers, LockAndTest(w) \/ WakeInRun(w)
       PROVE  Abstract!Next \/ UNCHANGED Abstract!vars
  <2>1. CASE task[w] = None
    BY <1>10, <1>12, <2>1 DEF LockAndTest, WakeInRun, MoveWorker, callVars, WorkerStates
  <2>2. CASE task[w] # None
    BY <1>4, <1>12, <2>2 DEF LockAndTest, WakeInRun, MoveWorker
  <2>3. QED
    BY <2>1, <2>2
<1>13. ASSUME NEW w \in Workers, CheckExit(w) \/ Return(w) \/ SpuriousInRun(w) \/ DeleteThread(w)
       PROVE  UNCHANGED Abstract!vars
  BY <1>10, <1>13 DEF CheckExit, Return, SpuriousInRun, DeleteThread, MoveWorker, callVars,
                      WorkerStates
<1>14. ASSUME NEW w \in Workers, PutTaskThreadPtr(w) PROVE UNCHANGED Abstract!vars
  BY <1>10, <1>14 DEF PutTaskThreadPtr, WorkerStates
<1>15. ASSUME NEW w \in Workers, StopThread(w) PROVE UNCHANGED Abstract!vars
  <2>1. PICK to \in WorkerStates \ {"running"} : wpc' = [wpc EXCEPT ![w] = to]
    BY <1>0, <1>15 DEF StopThread, OwnMutexFree, TypeOK, WorkerStates
  <2>2. QED
    BY <1>10, <1>15, <2>1 DEF StopThread, OwnMutexFree, callVars
<1>16. ASSUME BeginDestroy \/ LockPool \/ EndDestroy PROVE UNCHANGED Abstract!vars
  <2>1. /\ UNCHANGED <<fate, ran, task, wpc>>
        /\ (dpc \in {"locking", "stopping", "destroyed"})'
             = (dpc \in {"locking", "stopping", "destroyed"})
    BY <1>16 DEF BeginDestroy, LockPool, EndDestroy, MoveOwner, workerVars, callVars
  <2>2. \A t \in Tasks : PhaseOf(t)' = PhaseOf(t)
    BY <2>1 DEF PhaseOf, Holding
  <2>3. QED
    BY <2>1, <2>2, NoTaskMoves
<1>17. ASSUME Terminated \/ UNCHANGED vars PROVE UNCHANGED Abstract!vars
  BY <1>7, <1>17 DEF Terminated, vars
<1>18. ASSUME NEW p \in Callers, ExecStep(p) PROVE Abstract!Next \/ UNCHANGED Abstract!vars
  BY <1>2, <1>3, <1>8, <1>11, <1>18
  DEF ExecStep, GetThread, WakeInGetThread, ExpireInGetThread
<1>19. ASSUME NEW w \in Workers, RunStep(w) PROVE Abstract!Next \/ UNCHANGED Abstract!vars
  BY <1>5, <1>12, <1>13, <1>14, <1>19 DEF RunStep
<1>20. QED
  BY <1>1, <1>6, <1>8, <1>9, <1>13, <1>15, <1>16, <1>17, <1>18, <1>19 DEF Next, DestroyStep

LEMMA RefinementInit == Init => Abstract!Init /\ CalledInv
BY DEF Init, Abstract!Init, PhaseOf, CalledInv

\* ThreadPool implements TaskPool: exec() accepts a task only while fewer than
\* m_maxSize are in hand, every accepted task is run once, a refused one never,
\* and ~ThreadPool leaves its polling loop only when nothing is left to run.
THEOREM PoolImplementsTaskPool == Spec => Abstract!Spec
<1>1. Init => Abstract!Init /\ CalledInv
  BY RefinementInit
<1>2. QED
  BY <1>1, Invariant, CalledStep, RefinementStep, PTL DEF Spec, Abstract!Spec
=============================================================================
