-------------------------------- MODULE Gates --------------------------------
(***************************************************************************)
(* Classes around one flag and one condition variable: Delayable,          *)
(* Application's run() and exit(), Synchronizable, and Thread with its     *)
(* destructor.  Each is a class of its own; u1 and u3 wait, u2 wakes.      *)
(***************************************************************************)
EXTENDS Monitor

(***************************************************************************)
(* Class "delay" (src/thread/Delayable.cpp).  time: the delay has passed;  *)
(* hit: cancel()'s notify found a sleeper; result: what delay() returned.  *)
(***************************************************************************)
DelayInit ==
  /\ class = "delay"
  /\ pc = [t \in {"u1", "u2"} |-> "idle"]
  /\ obj = [canceled |-> TRUE, asleep |-> FALSE, time |-> FALSE, hit |-> FALSE, result |-> "none"]

delay ==
  /\ class = "delay" /\ At("u1", "idle")
  /\ obj' = [obj EXCEPT !.canceled = FALSE, !.time = FALSE, !.hit = FALSE, !.result = "none"]
  /\ Go("u1", "lock") /\ UNCHANGED class

(* The loop asks the clock before it waits again.                           *)
delayWait ==
  /\ class = "delay" /\ At("u1", "lock")
  /\ IF obj.time THEN obj' = [obj EXCEPT !.result = "elapsed"] /\ Go("u1", "idle")
     ELSE obj' = [obj EXCEPT !.asleep = TRUE] /\ Go("u1", "wait")
  /\ UNCHANGED class

delayTime ==
  /\ class = "delay" /\ At("u1", "wait") /\ obj.asleep
  /\ obj' = [obj EXCEPT !.time = TRUE, !.asleep = FALSE, !.result = "elapsed"]
  /\ Go("u1", "idle") /\ UNCHANGED class

delayPassing ==
  /\ class = "delay" /\ At("u1", "lock") /\ ~obj.time
  /\ obj' = [obj EXCEPT !.time = TRUE]
  /\ Stay

delayWokenAnyway ==
  /\ class = "delay" /\ At("u1", "wait") /\ ~obj.asleep
  /\ Go("u1", "lock") /\ UNCHANGED <<class, obj>>

delayWoken ==
  /\ class = "delay" /\ At("u1", "wait") /\ ~obj.asleep
  /\ IF obj.canceled THEN obj' = [obj EXCEPT !.result = "canceled"] /\ Go("u1", "idle")
     ELSE Go("u1", "lock") /\ UNCHANGED obj
  /\ UNCHANGED class

(* cancel(): the flag without the mutex, the notify with it.                *)
cancel ==
  /\ class = "delay" /\ At("u2", "idle")
  /\ obj' = [obj EXCEPT !.canceled = TRUE]
  /\ Go("u2", "notify") /\ UNCHANGED class

cancelNotify ==
  /\ class = "delay" /\ At("u2", "notify")
  /\ obj' = [obj EXCEPT !.hit = @ \/ (obj.asleep /\ obj.canceled), !.asleep = FALSE]
  /\ Go("u2", "idle") /\ UNCHANGED class

(***************************************************************************)
(* Class "app" (src/app/ApplicationImpl.cpp): u1 and u3 call run(), u2     *)
(* exit(1).  ended: the runs exit() was for and that have not returned.    *)
(***************************************************************************)
Runs == {"u1", "u3"}
AppInit ==
  /\ class = "app"
  /\ pc = [t \in Callers |-> "idle"]
  /\ obj = [running |-> FALSE, exitCode |-> 0, ended |-> {}, again |-> FALSE,
            result |-> [t \in Runs |-> 0]]

run(t) ==
  /\ class = "app" /\ At(t, "idle")
  /\ IF obj.running
     THEN obj' = [obj EXCEPT !.result[t] = -1] /\ UNCHANGED pc
     ELSE /\ obj' = [obj EXCEPT !.running = TRUE, !.exitCode = 0,
                                !.again = \E u \in Runs : InCall(u)]
          /\ Go(t, "running")
  /\ UNCHANGED class

(* onInitialize() and onRun() return; then the wait under the predicate.    *)
runWaits(t) ==
  /\ class = "app" /\ At(t, "running")
  /\ Go(t, "waiting") /\ UNCHANGED <<class, obj>>

runWoken(t) ==
  /\ class = "app" /\ At(t, "waiting") /\ ~obj.running
  /\ Go(t, "leaving") /\ UNCHANGED <<class, obj>>

runReturns(t) ==
  /\ class = "app" /\ At(t, "leaving")
  /\ obj' = [obj EXCEPT !.running = FALSE, !.result[t] = obj.exitCode, !.ended = @ \ {t}]
  /\ Go(t, "idle") /\ UNCHANGED class

exitAnyway ==
  /\ class = "app" /\ At("u2", "idle")
  /\ obj' = [obj EXCEPT !.exitCode = 1, !.ended = {t \in Runs : InCall(t)}]
  /\ Stay

exit ==
  /\ class = "app" /\ At("u2", "idle") /\ obj.running
  /\ obj' = [obj EXCEPT !.running = FALSE, !.exitCode = 1, !.ended = {t \in Runs : InCall(t)}]
  /\ Stay

(***************************************************************************)
(* Class "sync" (src/thread/Synchronizable.cpp): wait() with and without a *)
(* predicate or a time, notifyOne() and notifyAll().  The predicate is a   *)
(* flag u2 sets; `early`: the notify a plain wait() came too late for.     *)
(***************************************************************************)
Waiters == {"u1", "u3"}
SyncInit ==
  /\ class = "sync"
  /\ pc = [t \in Callers |-> "idle"]
  /\ obj = [asleep |-> {}, flag |-> FALSE, how |-> [t \in Waiters |-> "plain"]]

syncWait(t, how) ==
  /\ class = "sync" /\ At(t, "idle")
  /\ obj' = [obj EXCEPT !.how[t] = how,
               !.asleep = IF how \in {"predicate", "both"} /\ obj.flag THEN @ ELSE @ \union {t}]
  /\ Go(t, "wait") /\ UNCHANGED class

syncWoken(t) ==
  /\ class = "sync" /\ At(t, "wait") /\ t \notin obj.asleep
  /\ IF obj.how[t] \in {"predicate", "both"} /\ ~obj.flag
     THEN obj' = [obj EXCEPT !.asleep = @ \union {t}] /\ UNCHANGED pc
     ELSE Go(t, "idle") /\ UNCHANGED obj
  /\ UNCHANGED class

syncTimeout(t) ==
  /\ class = "sync" /\ At(t, "wait") /\ t \in obj.asleep /\ obj.how[t] \in {"time", "both"}
  /\ obj' = [obj EXCEPT !.asleep = @ \ {t}]
  /\ Go(t, "idle") /\ UNCHANGED class

notifyOne ==
  /\ class = "sync" /\ At("u2", "idle")
  /\ obj' \in IF obj.asleep = {} THEN {[obj EXCEPT !.flag = TRUE]}
              ELSE {[obj EXCEPT !.flag = TRUE, !.asleep = @ \ {t}] : t \in obj.asleep}
  /\ Stay

notifyAll ==
  /\ class = "sync" /\ At("u2", "idle")
  /\ obj' = [obj EXCEPT !.flag = TRUE, !.asleep = {}]
  /\ Stay

(***************************************************************************)
(* Class "thread" (src/thread/Thread.cpp): u1 owns an object of a class    *)
(* derived from Thread.  The derived part is destroyed before ~Thread()    *)
(* joins.  joinable: m_thread's state; part: the derived part lives.       *)
(***************************************************************************)
ThreadInit ==
  /\ class = "thread"
  /\ pc = [t \in {"u1", "body"} |-> IF t = "u1" THEN "idle" ELSE "done"]
  /\ obj = [joinable |-> FALSE, part |-> TRUE, joined |-> FALSE, detached |-> FALSE, on |-> {}]

threadStart ==
  /\ class = "thread" /\ At("u1", "idle") /\ ~obj.joinable /\ ~obj.detached /\ At("body", "done")
  /\ obj' = [obj EXCEPT !.joinable = TRUE, !.joined = FALSE]
  /\ Go("body", "begin") /\ UNCHANGED class

(* m_runnable->run(): of the derived class, or of Thread once that is gone; *)
(* the run ends later, with the derived part or without.                    *)
threadRun ==
  /\ class = "thread" /\ At("body", "begin")
  /\ obj' = [obj EXCEPT !.on = @ \union {obj.part}]
  /\ Go("body", "run") /\ UNCHANGED class
threadEnds ==
  /\ class = "thread" /\ At("body", "run")
  /\ obj' = [obj EXCEPT !.on = @ \union {obj.part}]
  /\ Go("body", "done") /\ UNCHANGED class

threadJoin ==
  /\ class = "thread" /\ At("u1", "idle") /\ obj.joinable /\ At("body", "done")
  /\ obj' = [obj EXCEPT !.joinable = FALSE, !.joined = TRUE]
  /\ Stay
detach ==
  /\ class = "thread" /\ At("u1", "idle") /\ obj.joinable
  /\ obj' = [obj EXCEPT !.joinable = FALSE, !.detached = TRUE]
  /\ Stay
destroyDerived ==
  /\ class = "thread" /\ At("u1", "idle") /\ obj.part
  /\ obj' = [obj EXCEPT !.part = FALSE]
  /\ Go("u1", "base") /\ UNCHANGED class
threadDestroyed ==
  /\ class = "thread" /\ At("u1", "base")
  /\ obj.joinable => At("body", "done")
  /\ obj' = [obj EXCEPT !.joinable = FALSE]
  /\ Go("u1", "done") /\ UNCHANGED class

DelayNext ==
  delay \/ delayWait \/ delayTime \/ delayPassing \/ delayWoken \/ cancel \/ cancelNotify
AppNext == exit \/ \E t \in Runs : run(t) \/ runWaits(t) \/ runWoken(t) \/ runReturns(t)
SyncNext ==
  \/ \E t \in Waiters : \/ \E h \in {"plain", "predicate", "time", "both"} : syncWait(t, h)
                        \/ syncWoken(t) \/ syncTimeout(t)
  \/ notifyOne \/ notifyAll
ThreadNext ==
  threadStart \/ threadRun \/ threadEnds \/ threadJoin \/ detach \/ destroyDerived \/ threadDestroyed

GatesInit == DelayInit \/ AppInit \/ SyncInit \/ ThreadInit
GatesNext == DelayNext \/ AppNext \/ SyncNext \/ ThreadNext
GatesSpec == GatesInit /\ [][GatesNext]_mvars

-----------------------------------------------------------------------------
(* A delay that cancel() found asleep returns false, unless its time was up *)
(* before it looked: no cancel is taken for the end of the delay.           *)
CancelSeen ==
  class = "delay" /\ obj.hit /\ obj.result # "none" => obj.result = "canceled"

(* What exit() was called for is what run() returns: a run that it ended    *)
(* returns its code, unless another run() began before this one was back.   *)
ExitCodeKept ==
  class = "app" /\ ~obj.again =>
    \A t \in obj.ended : InCall(t) => ~obj.running /\ obj.exitCode = 1

(* A thread that was joined before its object was destroyed ran on a whole  *)
(* object.                                                                  *)
RunsOnWhole == class = "thread" /\ obj.part => FALSE \notin obj.on

(* A delay that a cancel() found asleep returns false; run() returns what   *)
(* exit() was called with; a thread that was joined ran on a whole object.  *)
GatesExact == CancelSeen /\ ExitCodeKept /\ RunsOnWhole

(* What a call that never returns waits for.                                *)
RunWaits(t) == class = "app" /\ t \in Runs /\ (obj.running \/ obj.again)
SyncWaits(t) == class = "sync" /\ t \in Waiters /\ t \in obj.asleep /\
                  (obj.how[t] = "plain" \/ obj.how[t] = "predicate")

GateStep(t) ==
  \/ t = "u1" /\ (delayWait \/ delayTime \/ delayWoken \/ threadDestroyed)
  \/ t = "u2" /\ cancelNotify
  \/ t \in Runs /\ (runWaits(t) \/ runWoken(t) \/ runReturns(t))
  \/ t \in Waiters /\ (syncWoken(t) \/ syncTimeout(t))
BodyStep == threadRun \/ threadEnds
=============================================================================
