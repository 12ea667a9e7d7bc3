---------------------------- MODULE BlockingList ----------------------------
(***************************************************************************)
(* BlockingList (include/ff/BlockingList.h): a list, a mutex and a         *)
(* condition variable; and SimpleThreadPool (src/thread/ThreadPool.cpp),   *)
(* threads around one such list.                                           *)
(*                                                                         *)
(* Class "list": u1 calls what puts items in or changes the list, u2 and   *)
(* u3 take items out and may wait for them.  Class "lists": two threads    *)
(* call operations on two lists that lock both.  Class "pool": u1 calls    *)
(* exec(), u2 stop(), u3 start(), over pool threads.                       *)
(***************************************************************************)
EXTENDS Monitor, SequencesExt

CONSTANTS Items,    \* what is put into a list: numbers, for sort and merge
          Workers   \* the threads a pool may start

ASSUME ListAssumption ==
  /\ IsFiniteSet(Items) /\ Items \subseteq Nat \ {0}
  /\ Workers \intersect Callers = {}

Takers == {"u2", "u3"}
NoItem == 0

(***************************************************************************)
(* Class "list".  took[t] is the item of t's last pop, gone are the items  *)
(* cleared away or unique()d, back those that were popped, asleep the      *)
(* threads in m_cond.wait, bulk that items arrived with less than one      *)
(* notification each.                                                      *)
(***************************************************************************)
ListInit ==
  /\ class = "list"
  /\ pc = [t \in Callers |-> "idle"]
  /\ obj = [list |-> <<>>, new |-> Items, asleep |-> {}, timed |-> {},
            got |-> {}, gone |-> {}, bulk |-> FALSE]

(* notify_one: one of the waiting threads, if any, goes on to test again.   *)
NotifyOne(o) ==
  IF o.asleep = {} THEN {o} ELSE {[o EXCEPT !.asleep = @ \ {t}] : t \in o.asleep}

Put(l, x) == [obj EXCEPT !.list = l, !.new = @ \ {x}]

push_front(x) ==
  /\ class = "list" /\ x \in obj.new
  /\ obj' \in NotifyOne(Put(<<x>> \o obj.list, x))
  /\ Stay

push_back_silent(x) ==
  /\ class = "list" /\ x \in obj.new
  /\ obj' = Put(Append(obj.list, x), x)
  /\ Stay

push_back(x) ==
  /\ class = "list" /\ x \in obj.new
  /\ obj' \in NotifyOne(Put(Append(obj.list, x), x))
  /\ Stay

(* merge() of another list: both sorted, as std::list::merge requires; one  *)
(* thread is notified however many items there are.                         *)
Sorted(s) == \A i \in 1..Len(s) - 1 : s[i] <= s[i + 1]
SortedSeq(S) ==
  [i \in 1..Cardinality(S) |-> CHOOSE x \in S : Cardinality({y \in S : y < x}) = i - 1]
merge ==
  /\ class = "list" /\ Sorted(obj.list)
  /\ \E M \in SUBSET obj.new :
       /\ Cardinality(M) > 1
       /\ obj' \in NotifyOne([obj EXCEPT !.list = SortedSeq(ToSet(obj.list) \union M),
                                         !.new = @ \ M, !.bulk = TRUE])
  /\ Stay

(* operator=(BlockingList&&): the list is replaced and nobody notified.     *)
moveAssign ==
  /\ class = "list"
  /\ \E M \in SUBSET obj.new :
       /\ M # {}
       /\ obj' = [obj EXCEPT !.list = SortedSeq(M), !.new = @ \ M, !.bulk = TRUE,
                             !.gone = @ \union ToSet(obj.list)]
  /\ Stay

clear ==
  /\ class = "list"
  /\ obj' = [obj EXCEPT !.list = <<>>, !.gone = @ \union ToSet(obj.list)]
  /\ Stay

sort ==
  /\ class = "list"
  /\ obj' = [obj EXCEPT !.list = SortedSeq(ToSet(@))]
  /\ Stay

notify ==
  /\ class = "list" /\ obj.asleep # {}
  /\ obj' \in NotifyOne(obj)
  /\ Stay

(* Taking: from the front or the back of the list as it is now.             *)
Taken(l) ==
  [obj EXCEPT !.list = l, !.got = @ \union (ToSet(obj.list) \ ToSet(l))]
FrontOrBack == {Tail(obj.list), Front(obj.list)}

try_pop ==
  /\ class = "list" /\ obj.list # <<>>
  /\ \E l \in FrontOrBack : obj' = Taken(l)
  /\ Stay

(* pop_front() and pop_back(), with a timeout or without: enter, then wait  *)
(* under the predicate, which is tested again after every wakeup.           *)
pop(t, timed) ==
  /\ class = "list" /\ At(t, "idle")
  /\ obj' = [obj EXCEPT !.timed = IF timed THEN @ \union {t} ELSE @ \ {t}]
  /\ Go(t, "test") /\ UNCHANGED class

popTest(t) ==
  /\ class = "list" /\ At(t, "test") /\ t \notin obj.asleep
  /\ IF obj.list = <<>>
     THEN obj' = [obj EXCEPT !.asleep = @ \union {t}] /\ UNCHANGED pc
     ELSE (\E l \in FrontOrBack : obj' = Taken(l)) /\ Go(t, "idle")
  /\ UNCHANGED class

(* The timeout: the predicate decides, whether or not there was a notify.   *)
popTimeout(t) ==
  /\ class = "list" /\ t \in obj.asleep \intersect obj.timed
  /\ obj' \in {[o EXCEPT !.asleep = @ \ {t}] :
                 o \in IF obj.list = <<>> THEN {obj} ELSE {Taken(l) : l \in FrontOrBack}}
  /\ Go(t, "idle") /\ UNCHANGED class

ListNext ==
  \/ \E x \in Items : push_front(x) \/ push_back(x)
  \/ merge \/ moveAssign \/ clear \/ sort \/ notify \/ try_pop
  \/ \E t \in Takers : popTest(t) \/ popTimeout(t) \/ \E b \in BOOLEAN : pop(t, b)

(***************************************************************************)
(* Class "lists": operations that hold the mutexes of two lists.           *)
(***************************************************************************)
Lists == {"a", "b"}
Pairs == {"u1", "u2"}
ListsInit ==
  /\ class = "lists"
  /\ pc = [t \in Pairs |-> "idle"]
  /\ obj = [owner |-> [l \in Lists |-> "none"], want |-> [t \in Pairs |-> <<>>]]

(* Copy and move (construction excepted: nobody else has a new list), merge *)
(* of a BlockingList and the comparisons: the other list's mutex first, or  *)
(* the left operand's; then this one's.                                     *)
both(t, src, dst) ==
  /\ class = "lists" /\ At(t, "idle")
  /\ obj' = [obj EXCEPT !.want[t] = <<src, dst>>]
  /\ Go(t, "lock") /\ UNCHANGED class

lockNext(t) ==
  /\ class = "lists" /\ At(t, "lock") /\ obj.want[t] # <<>>
  /\ obj.owner[Head(obj.want[t])] = "none"
  /\ obj' = [obj EXCEPT !.owner[Head(obj.want[t])] = t, !.want[t] = Tail(@)]
  /\ UNCHANGED <<class, pc>>

unlockBoth(t) ==
  /\ class = "lists" /\ At(t, "lock") /\ obj.want[t] = <<>>
  /\ obj' = [obj EXCEPT !.owner = [l \in Lists |-> IF @[l] = t THEN "none" ELSE @[l]]]
  /\ Go(t, "idle") /\ UNCHANGED class

ListsNext == \E t \in Pairs : lockNext(t) \/ unlockBoth(t) \/ \E a, b \in Lists : both(t, a, b)

(* Each of the two lists is held by a thread that wants the other; or a     *)
(* list was given to itself.                                                *)
CrossLocked ==
  class = "lists" /\
  \E t \in Pairs : obj.want[t] # <<>> /\ 
    \/ obj.owner[Head(obj.want[t])] = t
    \/ \E u \in Pairs : /\ obj.want[u] # <<>>
                        /\ obj.owner[Head(obj.want[t])] = u
                        /\ obj.owner[Head(obj.want[u])] = t

(***************************************************************************)
(* Class "pool".  A task is an item; life counts the successful start()s,  *)
(* born[x] is the life in which exec() found the pool running.             *)
(***************************************************************************)
MaxLife == 2   \* bound: start() is called this often
PoolInit ==
  /\ class = "pool"
  /\ pc = [t \in Callers \union Workers |-> IF t \in Callers THEN "idle" ELSE "done"]
  /\ obj = [stoped |-> TRUE, list |-> <<>>, new |-> Items, threads |-> {}, life |-> 0,
            born |-> [x \in Items |-> 0], hand |-> [w \in Workers |-> NoItem],
            ranIn |-> [x \in Items |-> {}], gone |-> {}, late |-> {},
            holds |-> NoItem, rejoined |-> FALSE]

(* start(): one exchange of m_stoped decides; m_threads gets a new thread.  *)
poolStart(w) ==
  /\ class = "pool" /\ At("u3", "idle") /\ obj.stoped /\ obj.life < MaxLife
  /\ At(w, "done")
  /\ obj' = [obj EXCEPT !.stoped = FALSE, !.life = @ + 1, !.threads = @ \union {w},
                        !.rejoined = @ \/ At("u2", "join")]
  /\ Go(w, "loop") /\ UNCHANGED class

poolStop ==
  /\ class = "pool" /\ At("u2", "idle") /\ ~obj.stoped
  /\ obj' = [obj EXCEPT !.stoped = TRUE]
  /\ Go("u2", "join") /\ UNCHANGED class

poolJoined ==
  /\ class = "pool" /\ At("u2", "join")
  /\ \A w \in obj.threads : At(w, "done")
  /\ obj' = [obj EXCEPT !.list = <<>>, !.gone = @ \union ToSet(obj.list)]
  /\ Go("u2", "idle") /\ UNCHANGED class

poolExec(x) ==
  /\ class = "pool" /\ At("u1", "idle") /\ x \in obj.new /\ ~obj.stoped
  /\ obj' = [obj EXCEPT !.new = @ \ {x}, !.born[x] = obj.life, !.holds = x]
  /\ Go("u1", "push") /\ UNCHANGED class

(* late: the pool was stopped since, and its list may be cleared already.   *)
poolPush ==
  /\ class = "pool" /\ At("u1", "push")
  /\ obj' = [obj EXCEPT !.list = Append(@, obj.holds), !.holds = NoItem,
                        !.late = IF obj.stoped \/ obj.born[obj.holds] # obj.life
                                 THEN @ \union {obj.holds} ELSE @]
  /\ Go("u1", "idle") /\ UNCHANGED class

workerLoop(w) ==
  /\ class = "pool" /\ At(w, "loop")
  /\ Go(w, IF obj.stoped THEN "done" ELSE "pop")
  /\ UNCHANGED <<class, obj>>

workerKeeps(w) ==
  /\ class = "pool" /\ At(w, "pop") /\ obj.list # <<>>
  /\ obj' = [obj EXCEPT !.hand[w] = Head(obj.list)]
  /\ Go(w, "task") /\ UNCHANGED class

(* pop_front(task, 100): a task, or none within the time.                   *)
workerPop(w) ==
  /\ class = "pool" /\ At(w, "pop")
  /\ IF obj.list = <<>> THEN UNCHANGED obj /\ Go(w, "loop")
     ELSE /\ obj' = [obj EXCEPT !.hand[w] = Head(obj.list), !.list = Tail(@)]
          /\ Go(w, "task")
  /\ UNCHANGED class

workerTask(w) ==
  /\ class = "pool" /\ At(w, "task")
  /\ obj' = [obj EXCEPT !.ranIn[obj.hand[w]] = @ \union {<<w, obj.life>>}, !.hand[w] = NoItem]
  /\ Go(w, "loop") /\ UNCHANGED class

PoolOthers ==
  \/ poolStop \/ poolJoined \/ poolPush
  \/ \E w \in Workers : poolStart(w) \/ workerLoop(w) \/ workerPop(w) \/ workerTask(w)
PoolNext == PoolOthers \/ \E x \in Items : poolExec(x)

BlockInit == ListInit \/ ListsInit \/ PoolInit
BlockNext ==
  \/ class = "list" /\ ListNext
  \/ class = "lists" /\ ListsNext
  \/ class = "pool" /\ PoolNext
BlockSpec == BlockInit /\ [][BlockNext]_mvars

-----------------------------------------------------------------------------
(* Items are not lost and not taken twice: an item is new, in the list,     *)
(* taken, or thrown away, and one of them.  A task of the pool has one      *)
(* place, too, and runs in the life of the pool that accepted it; only one  *)
(* that exec() pushes after a stop() may be left to the next life.          *)
Places ==
  IF class = "list"
  THEN <<obj.new, ToSet(obj.list), obj.got, obj.gone>>
  ELSE <<obj.new, ToSet(obj.list), {obj.holds}, obj.gone,
         {x \in Items : obj.ranIn[x] # {}}, {obj.hand[w] : w \in Workers}>>
ItemsExact ==
  /\ class \in {"list", "pool"} =>
       \A x \in Items : \E p \in DOMAIN Places : {q \in DOMAIN Places : x \in Places[q]} = {p}
  /\ class = "list" => IsInjective(obj.list)
  /\ class = "pool" => \A x \in Items :
       /\ Cardinality(obj.ranIn[x]) <= 1
       /\ x \in obj.late \/ obj.rejoined \/ \A r \in obj.ranIn[x] : r[2] = obj.born[x]

(* Nobody sleeps in a pop beside an item, unless items came in bulk: then   *)
(* one sleeper was woken for all of them, or none.                          *)
NoneBesideItems ==
  class = "list" /\ ~obj.bulk =>
    obj.asleep = {} \/
    Cardinality({t \in Takers : At(t, "test") /\ t \notin obj.asleep}) >= Len(obj.list)

(* An element of a list is taken once, and nobody waits beside one but for  *)
(* the notification a bulk insertion leaves out.                            *)
ListsExact == ItemsExact /\ NoneBesideItems

(* What a call that never returns waits for, where the code lets it happen. *)
PopWaits(t) ==
  class = "list" /\ t \notin obj.timed /\ (obj.list = <<>> \/ obj.bulk)
StopRejoins(t) == class = "pool" /\ t = "u2" /\ obj.rejoined

(* What thread t does of itself once it is in a call; and what it does at   *)
(* last though others keep coming first: time out, get a mutex.             *)
ListStep(t) ==
  \/ t \in Takers /\ popTest(t)
  \/ t \in Pairs /\ unlockBoth(t)
  \/ t = "u1" /\ poolPush
  \/ t = "u2" /\ poolJoined
ListAtLast(t) == (t \in Takers /\ popTimeout(t)) \/ (t \in Pairs /\ lockNext(t))
WorkerStep(w) == workerLoop(w) \/ workerPop(w) \/ workerTask(w)
=============================================================================
