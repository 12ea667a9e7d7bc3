----------------------------- MODULE TimingWheel -----------------------------
(***************************************************************************)
(* TimingWheel (src/timer/TimingWheel.cpp): WHEEL_SIZE slots of tasks with *)
(* a number of rounds; a timing thread that turns the wheel by the         *)
(* milliseconds that passed; threads that run the tasks that came due; its *)
(* users, u1 adding and cancelling, u2 destroying.                         *)
(***************************************************************************)
EXTENDS Monitor, SequencesExt

CONSTANTS WHEEL_SIZE, Alarms, \* the tasks
          Delays,             \* the delays asked for
          Horizon             \* bound: the clock stops here

ASSUME WheelAssumption ==
  /\ WHEEL_SIZE \in Nat \ {0} /\ Horizon \in Nat
  /\ IsFiniteSet(Alarms) /\ Delays \subseteq Nat

NoSlot == WHEEL_SIZE
Slots == 0..WHEEL_SIZE - 1

(* due: what addTask() was asked for; slot and round: where it put the task;*)
(* whole: a delay that is a multiple of the wheel's size, so that the slot  *)
(* is the current one; queue: m_expiredTaskFuncs; early: tasks put there    *)
(* before their time; before: tasks added before the timing thread set the ticker.  *)
(* lastTock is kept as a time of the clock, m_ticker's start being 0 or     *)
(* began.  std::set orders tasks by address: no property reads it.          *)
WheelInit ==
  /\ class = "wheel"
  /\ pc = [t \in {"u1", "u2", "timing", "exec"} |->
             CASE t = "timing" -> "begin" [] t = "exec" -> "loop" [] OTHER -> "idle"]
  /\ obj = [now |-> 0, lastTock |-> 0, pos |-> 0, stoped |-> FALSE,
            began |-> 0, before |-> {}, new |-> Alarms, whole |-> {}, cancled |-> {}, due |-> [a \in Alarms |-> 0],
            slot |-> [a \in Alarms |-> NoSlot], round |-> [a \in Alarms |-> 0],
            queue |-> <<>>, early |-> {}, ran |-> [a \in Alarms |-> 0], asleep |-> FALSE]

(* A millisecond of the steady clock behind Tick.                           *)
ClockTick ==
  /\ class = "wheel" /\ obj.now < Horizon
  /\ obj' = [obj EXCEPT !.now = @ + 1]
  /\ Stay

(* addTask(): the time since the wheel was last turned is added, as the     *)
(* slots are counted from where it stood then.                              *)
addTaskFromNow(a, delayMs) ==
  /\ class = "wheel" /\ At("u1", "idle") /\ a \in obj.new /\ ~obj.stoped
  /\ obj' = [obj EXCEPT !.new = @ \ {a}, !.due[a] = obj.now + delayMs,
                        !.round[a] = delayMs \div WHEEL_SIZE,
                        !.slot[a] = (obj.pos + (delayMs % WHEEL_SIZE)) % WHEEL_SIZE]
  /\ Stay

addTask(a, delayMs) ==
  /\ class = "wheel" /\ At("u1", "idle") /\ a \in obj.new /\ ~obj.stoped
  /\ LET d == delayMs + (obj.now - obj.lastTock)
     IN obj' = [obj EXCEPT !.new = @ \ {a}, !.due[a] = obj.now + delayMs,
                           !.whole = IF d % WHEEL_SIZE = 0 THEN @ \union {a} ELSE @,
                           !.before = IF At("timing", "begin") THEN @ \union {a} ELSE @,
                           !.round[a] = d \div WHEEL_SIZE,
                           !.slot[a] = (obj.pos + (d % WHEEL_SIZE)) % WHEEL_SIZE]
  /\ Stay

(* A cancelled task that has left the wheel runs all the same.              *)
cancle(a) ==
  /\ class = "wheel" /\ obj.slot[a] # NoSlot /\ a \notin obj.cancled
  /\ obj' = [obj EXCEPT !.cancled = @ \union {a}]
  /\ Stay

(***************************************************************************)
(* doTick().  Whole rounds first, for every slot: a task with fewer rounds *)
(* left than passed is due.  Then the rest, slot by slot: a task with no   *)
(* round left is due, another has one less.  A cancelled task only leaves. *)
(***************************************************************************)
InWheel == {a \in Alarms : obj.slot[a] # NoSlot}
RoundsDue(r) ==
  {a \in InWheel : r > 0 /\ (a \in obj.cancled \/ obj.round[a] = 0 \/ r > obj.round[a])}
SlotsMet(tick) == {a \in InWheel : \E i \in 1..tick : obj.slot[a] = (obj.pos + i) % WHEEL_SIZE}

(* The state after `out` left the wheel and the others' rounds are `left`.  *)
Turned(out, left, tick) ==
  [obj EXCEPT !.lastTock = obj.now, !.pos = (@ + tick) % WHEEL_SIZE,
     !.slot = [a \in Alarms |-> IF a \in out THEN NoSlot ELSE @[a]],
     !.round = left,
     !.due = [a \in Alarms |-> IF a \in out THEN 0 ELSE @[a]],
     !.early = @ \union {a \in out \ obj.cancled : obj.now < obj.due[a]},
     !.whole = @ \ out, !.before = @ \ out,
     !.queue = @ \o SetToSeq(out \ obj.cancled),
     !.asleep = @ /\ out \subseteq obj.cancled]

(* Without the whole rounds.                                                *)
doTickRestOnly(passed) ==
  LET met == SlotsMet(passed % WHEEL_SIZE)
      last == {a \in met : a \in obj.cancled \/ obj.round[a] = 0}
  IN Turned(last, [a \in Alarms |-> IF a \in met \ last THEN obj.round[a] - 1 ELSE obj.round[a]],
            passed % WHEEL_SIZE)

doTick(passed) ==
  LET r == passed \div WHEEL_SIZE
      due == RoundsDue(r)
      met == SlotsMet(passed % WHEEL_SIZE) \ due
      last == {a \in met : a \in obj.cancled \/ obj.round[a] = r}
  IN Turned(due \union last,
            [a \in Alarms |-> IF a \in InWheel \ (due \union last)
                              THEN obj.round[a] - r - (IF a \in met THEN 1 ELSE 0)
                              ELSE 0],
            passed % WHEEL_SIZE)

(* run() starts the ticker anew: the slots are counted from here, for tasks *)
(* that were added before as well.                                          *)
timingBegin ==
  /\ class = "wheel" /\ At("timing", "begin")
  /\ obj' = [obj EXCEPT !.lastTock = obj.now, !.began = obj.now]
  /\ Go("timing", "loop") /\ UNCHANGED class

(* The timing thread: wakes up at some time, by notify, timeout or neither. *)
timingRun ==
  /\ class = "wheel" /\ At("timing", "loop") /\ ~obj.stoped /\ obj.now > obj.lastTock
  /\ obj' = doTick(obj.now - obj.lastTock)
  /\ Stay

timingEnds ==
  /\ class = "wheel" /\ At("timing", "loop") /\ obj.stoped
  /\ Go("timing", "done") /\ UNCHANGED <<class, obj>>

(* A thread that runs tasks reads m_stoped before it takes m_mutexExec, and *)
(* waits without a predicate.                                               *)
execLoop ==
  /\ class = "wheel" /\ At("exec", "loop")
  /\ Go("exec", IF obj.stoped THEN "done" ELSE "take") /\ UNCHANGED <<class, obj>>

execWait ==
  /\ class = "wheel" /\ At("exec", "take") /\ obj.queue = <<>>
  /\ obj' = [obj EXCEPT !.asleep = TRUE]
  /\ Go("exec", "woken") /\ UNCHANGED class

execTake ==
  /\ class = "wheel" /\ ~obj.asleep
  /\ At("exec", "woken") \/ (At("exec", "take") /\ obj.queue # <<>>)
  /\ IF obj.stoped THEN Go("exec", "done") /\ UNCHANGED obj
     ELSE IF obj.queue = <<>> THEN Go("exec", "loop") /\ UNCHANGED obj
     ELSE /\ obj' = [obj EXCEPT !.queue = Tail(@), !.ran[Head(obj.queue)] = @ + 1]
          /\ Go("exec", "loop")
  /\ UNCHANGED class

(* ~TimingWheel(): m_stoped under m_mutex, join the timing thread, notify   *)
(* under m_mutexExec, join the others.                                      *)
destroyWheel ==
  /\ class = "wheel" /\ At("u2", "idle") /\ ~obj.stoped
  /\ obj' = [obj EXCEPT !.stoped = TRUE]
  /\ Go("u2", "join") /\ UNCHANGED class
wheelNotify ==
  /\ class = "wheel" /\ At("u2", "join") /\ At("timing", "done")
  /\ obj' = [obj EXCEPT !.asleep = FALSE]
  /\ Go("u2", "join2") /\ UNCHANGED class
wheelJoined ==
  /\ class = "wheel" /\ At("u2", "join2") /\ At("exec", "done")
  /\ Go("u2", "done") /\ UNCHANGED <<class, obj>>

WheelOthers ==
  \/ ClockTick \/ timingBegin \/ timingRun \/ timingEnds \/ execLoop \/ execWait \/ execTake
  \/ destroyWheel \/ wheelNotify \/ wheelJoined
  \/ \E a \in Alarms : cancle(a)
WheelNext == WheelOthers \/ \E a \in Alarms, d \in Delays : addTask(a, d)
WheelSpec == WheelInit /\ [][WheelNext]_mvars

-----------------------------------------------------------------------------
(* No task comes due before its time, and whenever the wheel has been       *)
(* turned each task due by then has left it: a whole turn late when its     *)
(* slot was the one the wheel stood at, and late by what run() took to      *)
(* begin when it was added before.  It runs once.                           *)
Lateness(a) ==
  (IF a \in obj.whole THEN WHEEL_SIZE ELSE 0) + (IF a \in obj.before THEN obj.began ELSE 0)
WheelOnTime ==
  class = "wheel" =>
    \A a \in Alarms \ obj.new :
      /\ a \notin obj.early
      /\ obj.slot[a] # NoSlot => obj.lastTock < obj.due[a] + Lateness(a)
      /\ obj.ran[a] <= 1

(* The destructor's notify falls between a thread's look at m_stoped and    *)
(* its wait.                                                                *)
WheelNotifyLost(t) == class = "wheel" /\ At("u2", "join2") /\ obj.asleep

WheelStep(t) == t = "u2" /\ (wheelNotify \/ wheelJoined)
TimingStep == timingBegin \/ timingRun \/ timingEnds
ExecStep == execLoop \/ execWait \/ execTake
=============================================================================
