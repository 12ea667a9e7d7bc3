------------------------------ MODULE MCMonitors ------------------------------
(* One behaviour is about one class; the classes share no state.            *)
EXTENDS BlockingList, TimingWheel, Logging, Gates, Ipc, EPoll

(* Tasks nobody has seen yet differ in name only: the first is as good as   *)
(* any.                                                                     *)
FirstNew == CHOOSE x \in obj.new : TRUE

PoolFirst == PoolOthers \/ (obj.new # {} /\ poolExec(FirstNew))
WheelFirst == WheelOthers \/ (obj.new # {} /\ \E d \in Delays : addTask(FirstNew, d))

MonitorInit ==
  \/ ListInit \/ ListsInit \/ PoolInit \/ WheelInit \/ LoggerInit \/ LogInit
  \/ DelayInit \/ AppInit \/ SyncInit \/ ThreadInit \/ ShmInit \/ EPollInit
MonitorNext ==
  \/ class = "list" /\ ListNext
  \/ class = "lists" /\ ListsNext
  \/ class = "pool" /\ PoolFirst
  \/ class = "wheel" /\ WheelFirst
  \/ class = "logger" /\ LoggerNext
  \/ class = "log" /\ LogNext
  \/ class = "delay" /\ DelayNext
  \/ class = "app" /\ AppNext
  \/ class = "sync" /\ SyncNext
  \/ class = "thread" /\ ThreadNext
  \/ class = "shm" /\ ShmNext
  \/ class = "epoll" /\ EPollNext
(* Every thread goes on; a behaviour has the threads of one class only.     *)
CallStep(t) ==
  \/ class \in {"list", "lists", "pool"} /\ ListStep(t)
  \/ class = "wheel" /\ WheelStep(t)
  \/ class \in {"logger", "log"} /\ LogStep(t)
  \/ class \in {"delay", "app", "sync", "thread"} /\ GateStep(t)
  \/ class = "shm" /\ ShmStep(t)
  \/ class = "epoll" /\ EPollStep(t)
Background1 ==
  \/ class = "pool" /\ WorkerStep("w1")
  \/ class = "wheel" /\ TimingStep
  \/ class = "logger" /\ BatchStep
  \/ class = "thread" /\ BodyStep
  \/ class = "epoll" /\ PollStep
Background2 == (class = "pool" /\ WorkerStep("w2")) \/ (class = "wheel" /\ ExecStep)
MonitorSpec ==
  /\ MonitorInit /\ [][MonitorNext]_mvars
  /\ \A t \in Callers : WF_mvars(CallStep(t)) /\ SF_mvars(class \in {"list", "lists"} /\ ListAtLast(t))
  /\ WF_mvars(Background1) /\ WF_mvars(Background2)

(* Every call is over again and again, or waits for what the code lets it   *)
(* wait for.                                                                *)
MayWait(t) ==
  \/ PopWaits(t) \/ CrossLocked \/ StopRejoins(t) \/ WheelNotifyLost(t) \/ RunWaits(t)
  \/ SyncWaits(t) \/ ShmWaits(t)
CallsReturn == \A t \in Callers : InCall(t) ~> (~InCall(t) \/ MayWait(t))

MCItems == 1..3
MCWorkers == {"w1", "w2"}
MCDelays == {3}
=============================================================================
