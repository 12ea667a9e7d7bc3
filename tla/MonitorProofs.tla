---------------------------- MODULE MonitorProofs ----------------------------
(***************************************************************************)
(* What Monitor's classes keep, for any number of calls, messages,         *)
(* processes that end, signals, connections, FdInfos, records, loggers,    *)
(* tasks of a wheel, items of a list and threads of a pool; and BusClient, *)
(* the client that is made of such, for any handlers, faults, restarts and *)
(* packages on the way.                                                    *)
(***************************************************************************)
EXTENDS DsPromise, Ipc, EPoll, Gates, Logging, TimingWheel,
        BlockingList, BusClient, FiniteSetTheorems, SequenceTheorems, WellFoundedInduction, TLAPS

-----------------------------------------------------------------------------
(* DsPromise.  Only who is in a call has an answer; the poll thread holds   *)
(* the table's mutex from where it found the entry to where it takes it out,*)
(* and nobody else takes one out without that mutex.                        *)
InDsCall == {"get", "drop", "remove"}
DsTypeOK ==
  /\ pc \in [Users \union {"poll"} -> {"idle", "set"} \union InDsCall]
  /\ DOMAIN obj = {"entry", "asked", "answer", "table", "own", "given", "calls"}
  /\ obj.entry \in Users \union {NoUser} /\ obj.table \in {"poll", NoUser}
DsInv ==
  /\ class = "dsPromise" /\ DsTypeOK
  /\ \A u \in Users : u \in obj.answer => pc[u] \in InDsCall
  /\ pc["poll"] = "set" <=> obj.table = "poll"
  /\ pc["poll"] = "set" => obj.entry # NoUser
  /\ obj.entry # NoUser => pc[obj.entry] \in InDsCall /\ obj.entry \notin obj.answer

(* Before the first call nobody has an answer and the table is empty.       *)
LEMMA DsInvInit == DsInit => DsInv
BY DEF DsInit, DsInv, DsTypeOK, InDsCall, Users, NoUser

(* Every step of a user, the poll thread or the network keeps DsInv.        *)
LEMMA DsInvNext == DsInv /\ [DsNext]_mvars => DsInv'
<1> SUFFICES ASSUME DsInv, [DsNext]_mvars PROVE DsInv'
  OBVIOUS
<1> USE DEF DsInv, DsTypeOK, InDsCall, Users, NoUser, At, Go, Stay, Free
<1>1. ASSUME NEW u \in Users, dsSend(u) PROVE DsInv'
  <2>1. /\ obj'.entry = IF obj.entry = NoUser THEN u ELSE obj.entry
        /\ obj'.answer = obj.answer /\ obj'.table = obj.table
    BY <1>1 DEF dsSend
  <2>2. pc' = [pc EXCEPT ![u] = "get"]
    BY <1>1 DEF dsSend
  <2>3. DOMAIN obj' = DOMAIN obj /\ class' = class /\ pc[u] = "idle"
    BY <1>1 DEF dsSend
  <2> QED
    BY <2>1, <2>2, <2>3
<1>2. ASSUME NEW u \in Users, getSet(u) PROVE DsInv'
  <2>1. obj'.entry = obj.entry /\ obj'.answer = obj.answer /\ obj'.table = obj.table
    BY <1>2 DEF getSet
  <2>2. pc' = [pc EXCEPT ![u] = "drop"]
    BY <1>2 DEF getSet
  <2>3. DOMAIN obj' = DOMAIN obj /\ class' = class /\ pc[u] = "get"
    BY <1>2 DEF getSet
  <2> QED
    BY <2>1, <2>2, <2>3
<1>3. ASSUME NEW u \in Users, getTimeout(u) PROVE DsInv'
  <2>1. obj'.entry = obj.entry /\ obj'.answer = obj.answer /\ obj'.table = obj.table
    BY <1>3 DEF getTimeout
  <2>2. pc' = [pc EXCEPT ![u] = "drop"]
    BY <1>3 DEF getTimeout
  <2>3. DOMAIN obj' = DOMAIN obj /\ class' = class /\ pc[u] = "get"
    BY <1>3 DEF getTimeout
  <2> QED
    BY <2>1, <2>2, <2>3
<1>4. ASSUME NEW u \in Users, dropLock(u) PROVE DsInv'
  <2>1. obj'.entry = obj.entry /\ obj'.answer = obj.answer /\ obj'.table = obj.table
    BY <1>4 DEF dropLock
  <2>2. pc' = [pc EXCEPT ![u] = "remove"]
    BY <1>4 DEF dropLock
  <2>3. DOMAIN obj' = DOMAIN obj /\ class' = class /\ pc[u] = "drop"
    BY <1>4 DEF dropLock
  <2> QED
    BY <2>1, <2>2, <2>3
<1>5. ASSUME NEW u \in Users, dsRemovePromise(u) PROVE DsInv'
  <2>1. obj'.entry = NoUser /\ obj'.answer = obj.answer \ {u} /\ obj'.table = obj.table
    BY <1>5 DEF dsRemovePromise
  <2>2. pc' = [pc EXCEPT ![u] = "idle"]
    BY <1>5 DEF dsRemovePromise
  <2>3. DOMAIN obj' = DOMAIN obj /\ class' = class /\ obj.table = NoUser
    BY <1>5 DEF dsRemovePromise
  <2> QED
    BY <2>1, <2>2, <2>3
<1>6. CASE dsHandleRsp
  <2>1. CASE obj.entry = NoUser
    <3>1. obj' = [obj EXCEPT !.asked = obj.asked - 1] /\ UNCHANGED <<pc, class>>
      BY <1>6, <2>1 DEF dsHandleRsp
    <3> QED
      BY <3>1
  <2>2. CASE obj.entry # NoUser
    <3>1. /\ obj' = [obj EXCEPT !.asked = obj.asked - 1, !.table = "poll"] /\ class' = class
          /\ pc' = [pc EXCEPT !["poll"] = "set"] /\ obj.table = NoUser
      BY <1>6, <2>2 DEF dsHandleRsp
    <3>2. /\ obj'.entry = obj.entry /\ obj'.answer = obj.answer /\ obj'.table = "poll"
          /\ DOMAIN obj' = DOMAIN obj
      BY <3>1
    <3> QED
      BY <2>2, <3>1, <3>2
  <2> QED
    BY <2>1, <2>2
<1>7. CASE dsSet
  <2>1. obj'.entry = NoUser /\ obj'.answer = obj.answer \union {obj.entry} /\ obj'.table = NoUser
    BY <1>7 DEF dsSet
  <2>2. pc' = [pc EXCEPT !["poll"] = "idle"]
    BY <1>7 DEF dsSet
  <2>3. DOMAIN obj' = DOMAIN obj /\ class' = class /\ pc["poll"] = "set"
    BY <1>7 DEF dsSet
  <2> QED
    BY <2>1, <2>2, <2>3
<1>8. CASE noAnswer
  <2>1. obj'.entry = obj.entry /\ obj'.answer = obj.answer /\ obj'.table = obj.table
    BY <1>8 DEF noAnswer
  <2>2. pc' = pc
    BY <1>8 DEF noAnswer
  <2>3. DOMAIN obj' = DOMAIN obj /\ class' = class
    BY <1>8 DEF noAnswer
  <2> QED
    BY <2>1, <2>2, <2>3
<1>9. CASE UNCHANGED mvars
  BY <1>9 DEF mvars
<1> QED
  BY <1>1, <1>2, <1>3, <1>4, <1>5, <1>6, <1>7, <1>8, <1>9 DEF DsNext

(* The entry of the table is the promise of a call that is under way, and   *)
(* has no answer: however the two users' calls with the one id, their       *)
(* timeouts and the answers fall together.                                  *)
THEOREM EntryLiveAlways == DsSpec => []EntryLive
<1>1. DsInv => EntryLive
  BY DEF DsInv, EntryLive, InDsCall
<1> QED
  BY <1>1, DsInvInit, DsInvNext, PTL DEF DsSpec

-----------------------------------------------------------------------------
(* SHMConnection.  What one thread does between its two semaphores nobody   *)
(* else can see half of, because of one count: the two semaphores, the      *)
(* threads between them and what processes took with them make 1.           *)
Holding == {"length", "data", "copy"}
One(t) == IF pc[t] \in Holding THEN 1 ELSE 0
Seen(m) == \E i \in DOMAIN obj.read : obj.read[i] = <<m, m>>

ShmTypeOK ==
  /\ class = "shm" /\ pc \in [Callers -> {"idle", "out", "in"} \union Holding]
  /\ DOMAIN obj = {"in", "out", "len", "data", "hold", "sent", "posted", "read", "broken",
                   "crashes", "signals", "intr"}
  /\ obj.in \in Nat /\ obj.out \in Nat /\ obj.broken \in Nat /\ obj.sent \in Nat
  /\ obj.len \in Nat /\ obj.data \in Nat /\ obj.hold \in [Callers -> Nat]
  /\ obj.posted \subseteq 1..obj.sent /\ obj.read \in Seq(Nat \X Nat) /\ obj.intr \in BOOLEAN
ShmPlaces ==
  /\ pc["u2"] \in {"idle", "in", "length", "copy"}
  /\ \A t \in ShmWriters : /\ pc[t] \in {"idle", "out", "length", "data"}
                           /\ pc[t] # "idle" => obj.hold[t] \in 1..obj.sent
OneInSlot == obj.in + obj.out + obj.broken + One("u1") + One("u2") + One("u3") = 1

(* A message that is being written is no other thread's and was not handed  *)
(* over; its length is in the slot before its data is.                      *)
WrittenOnce ==
  /\ \A t \in ShmWriters : pc[t] # "idle" =>
       /\ obj.hold[t] \notin obj.posted
       /\ \A u \in ShmWriters : pc[u] # "idle" /\ obj.hold[u] = obj.hold[t] => u = t
  /\ \A t \in ShmWriters : pc[t] = "data" => obj.len = obj.hold[t]
(* A full slot has one message, whole, that nobody read; a free one has one *)
(* that was read.                                                           *)
SlotFull ==
  /\ obj.in > 0 \/ pc["u2"] \in {"length", "copy"} =>
       obj.len = obj.data /\ obj.data \in obj.posted /\ ~Seen(obj.data)
  /\ pc["u2"] = "copy" => obj.hold["u2"] = obj.len
  /\ (obj.out > 0 \/ \E t \in ShmWriters : pc[t] \in Holding) => \A m \in obj.posted : Seen(m)
ReadOnce ==
  /\ \A i \in DOMAIN obj.read : \E m \in obj.posted : obj.read[i] = <<m, m>>
  /\ \A i, j \in DOMAIN obj.read : obj.read[i] = obj.read[j] => i = j
  /\ \A m \in obj.posted : m = obj.data \/ Seen(m)
(* Until a wait for the free slot is interrupted.                           *)
ShmInv ==
  /\ ShmTypeOK /\ ShmPlaces
  /\ ~obj.intr => OneInSlot /\ WrittenOnce /\ SlotFull /\ ReadOnce

(* How many of three threads are in a set, as a sum.                        *)
In(u, S) == IF u \in S THEN 1 ELSE 0
LEMMA HeldCount ==
  ASSUME NEW S, S \subseteq Callers
  PROVE  Cardinality(S) = In("u1", S) + In("u2", S) + In("u3", S)
<1>1. Cardinality({}) = 0 /\ IsFiniteSet({})
  BY FS_EmptySet
<1>2. DEFINE A == S \intersect {"u1"}
             B == S \intersect {"u1", "u2"}
<1>3. IsFiniteSet(A) /\ Cardinality(A) = In("u1", S)
  <2>1. IF "u1" \in S THEN A = {"u1"} ELSE A = {}
    OBVIOUS
  <2> QED
    BY <1>1, <2>1, FS_Singleton DEF In
<1>4. IsFiniteSet(B) /\ Cardinality(B) = In("u1", S) + In("u2", S)
  <2>1. "u2" \notin A /\ (IF "u2" \in S THEN B = A \union {"u2"} ELSE B = A)
    OBVIOUS
  <2> HIDE DEF A, B
  <2> QED
    BY <1>3, <2>1, FS_AddElement DEF In
<1>5. Cardinality(S) = In("u1", S) + In("u2", S) + In("u3", S)
  <2>1. "u3" \notin B /\ (IF "u3" \in S THEN S = B \union {"u3"} ELSE S = B)
    BY DEF Callers
  <2> HIDE DEF B
  <2> QED
    BY <1>4, <2>1, FS_AddElement DEF In
<1> QED
  BY <1>5

(* What Append adds, and what it leaves.                                    *)
LEMMA AppendParts ==
  ASSUME NEW S, NEW s \in Seq(S), NEW e \in S
  PROVE  /\ DOMAIN Append(s, e) = DOMAIN s \union {Len(s) + 1} /\ Len(s) + 1 \notin DOMAIN s
         /\ \A i \in DOMAIN s : Append(s, e)[i] = s[i]
         /\ Append(s, e)[Len(s) + 1] = e
<1>1. DOMAIN s = 1..Len(s) /\ Len(s) \in Nat /\ DOMAIN Append(s, e) = 1..(Len(s) + 1)
  OBVIOUS
<1>2. \A i \in 1..(Len(s) + 1) : Append(s, e)[i] = IF i = Len(s) + 1 THEN e ELSE s[i]
  OBVIOUS
<1> QED
  BY <1>1, <1>2

(* A new pair of semaphores says that the slot is free.                     *)
LEMMA ShmInvInit == ShmInit => ShmInv
BY DEF ShmInit, ShmInv, ShmTypeOK, ShmPlaces, OneInSlot, WrittenOnce, SlotFull, ReadOnce, One,
   Holding, Seen, Callers, ShmWriters

(* Every step of a writer or the reader, a crash or a signal keeps ShmInv:  *)
(* first who can be between the semaphores with whom, then one step each.   *)
LEMMA ShmInvNext == ShmInv /\ [ShmNext]_mvars => ShmInv'
<1> SUFFICES ASSUME ShmInv, [ShmNext]_mvars PROVE ShmInv'
  OBVIOUS
<1> USE DEF At, Go
<1>0. /\ ShmTypeOK /\ ShmPlaces
      /\ ~obj.intr => OneInSlot /\ WrittenOnce /\ SlotFull /\ ReadOnce
  BY DEF ShmInv
<1>1. ASSUME ~obj.intr
      PROVE  /\ obj.in > 0 => obj.out = 0 /\ \A u \in Callers : pc[u] \notin Holding
             /\ obj.out > 0 => obj.in = 0 /\ \A u \in Callers : pc[u] \notin Holding
             /\ \A t \in Callers : pc[t] \in Holding =>
                  obj.in = 0 /\ obj.out = 0 /\ \A u \in Callers : pc[u] \in Holding => u = t
  <2>1. \A u \in Callers : One(u) \in {0, 1} /\ (pc[u] \in Holding <=> One(u) = 1)
    BY DEF One
  <2>2. One("u1") \in {0, 1} /\ One("u2") \in {0, 1} /\ One("u3") \in {0, 1}
    BY <2>1 DEF Callers
  <2> DEFINE sum == obj.in + obj.out + obj.broken + One("u1") + One("u2") + One("u3")
  <2>0. obj.in \in Nat /\ obj.out \in Nat /\ obj.broken \in Nat /\ sum = 1
    BY <1>0, <1>1 DEF ShmTypeOK, OneInSlot
  <2>3. obj.in > 0 => obj.out = 0 /\ One("u1") = 0 /\ One("u2") = 0 /\ One("u3") = 0
    BY <2>0, <2>2
  <2>4. obj.out > 0 => obj.in = 0 /\ One("u1") = 0 /\ One("u2") = 0 /\ One("u3") = 0
    BY <2>0, <2>2
  <2>5. ASSUME NEW t \in Callers, One(t) = 1
        PROVE  obj.in = 0 /\ obj.out = 0 /\ \A u \in Callers : One(u) = 1 => u = t
    <3>1. CASE t = "u1"
      <4>1. One("u1") = 1
        BY <2>5, <3>1
      <4>2. One("u2") = 0 /\ One("u3") = 0 /\ obj.in = 0 /\ obj.out = 0
        BY <2>0, <2>2, <4>1
      <4> QED
        BY <3>1, <4>2 DEF Callers
    <3>2. CASE t = "u2"
      <4>1. One("u2") = 1
        BY <2>5, <3>2
      <4>2. One("u1") = 0 /\ One("u3") = 0 /\ obj.in = 0 /\ obj.out = 0
        BY <2>0, <2>2, <4>1
      <4> QED
        BY <3>2, <4>2 DEF Callers
    <3>3. CASE t = "u3"
      <4>1. One("u3") = 1
        BY <2>5, <3>3
      <4>2. One("u1") = 0 /\ One("u2") = 0 /\ obj.in = 0 /\ obj.out = 0
        BY <2>0, <2>2, <4>1
      <4> QED
        BY <3>3, <4>2 DEF Callers
    <3> QED
      BY <3>1, <3>2, <3>3 DEF Callers
  <2> QED
    BY <2>1, <2>3, <2>4, <2>5 DEF Callers
<1>2. ASSUME NEW t \in ShmWriters, shmWrite(t) PROVE ShmInv'
  <2>1. /\ obj'.in = obj.in /\ obj'.out = obj.out /\ obj'.len = obj.len
        /\ obj'.data = obj.data /\ obj'.hold = [obj.hold EXCEPT ![t] = obj.sent + 1]
        /\ obj'.sent = obj.sent + 1
        /\ obj'.posted = obj.posted /\ obj'.read = obj.read /\ obj'.broken = obj.broken
        /\ obj'.intr = obj.intr
        /\ DOMAIN obj' = DOMAIN obj /\ class' = class
    BY <1>2 DEF shmWrite
  <2>2. pc' = [pc EXCEPT ![t] = "out"] /\ pc[t] = "idle"
    BY <1>2 DEF shmWrite
  <2>3. \A m : Seen(m)' <=> Seen(m)
    BY <2>1 DEF Seen
  <2>4. ShmTypeOK' /\ ShmPlaces'
    BY <1>0, <2>1, <2>2 DEF ShmTypeOK, ShmPlaces, Holding, Callers, ShmWriters
  <2>5. ASSUME ~obj'.intr PROVE OneInSlot' /\ WrittenOnce' /\ SlotFull' /\ ReadOnce'
    <3>1. ~obj.intr
      BY <2>1, <2>5
    <3>2. OneInSlot'
      <4>1. One("u1")' = One("u1") /\ One("u2")' = One("u2") /\ One("u3")' = One("u3")
        BY <1>0, <2>1, <2>2 DEF One, Holding, ShmTypeOK, Callers, ShmWriters
      <4> QED
        BY <1>0, <3>1, <2>1, <4>1 DEF OneInSlot
    <3>3. WrittenOnce'
      BY <3>1, <1>1, <2>1, <2>2 DEF ShmInv, WrittenOnce, Holding, ShmTypeOK, ShmPlaces, Callers,
         ShmWriters
    <3>4. SlotFull'
      BY <3>1, <1>1, <2>1, <2>2, <2>3 DEF ShmInv, SlotFull, Holding, ShmTypeOK, ShmPlaces,
         Callers, ShmWriters
    <3>5. ReadOnce'
      BY <1>0, <3>1, <2>1, <2>3 DEF ReadOnce
    <3> QED
      BY <3>2, <3>3, <3>4, <3>5
  <2> QED
    BY <2>4, <2>5 DEF ShmInv
<1>3. ASSUME NEW t \in ShmWriters, shmOut(t) PROVE ShmInv'
  <2>1. /\ obj'.in = obj.in /\ obj'.len = obj.len /\ obj'.data = obj.data
        /\ obj'.hold = obj.hold /\ obj'.sent = obj.sent /\ obj'.posted = obj.posted
        /\ obj'.read = obj.read /\ obj'.broken = obj.broken
        /\ obj'.intr \in BOOLEAN /\ obj'.out \in Nat
        /\ ~obj'.intr => ~obj.intr /\ obj.out > 0 /\ obj'.out = obj.out - 1
        /\ DOMAIN obj' = DOMAIN obj /\ class' = class
    <3>1. CASE obj.out > 0 /\ obj' = [obj EXCEPT !.out = @ - 1]
      BY <1>3, <3>1 DEF shmOut, ShmInv, ShmTypeOK
    <3>2. CASE obj' = [obj EXCEPT !.signals = @ + 1, !.intr = TRUE]
      BY <1>3, <3>2 DEF shmOut, ShmInv, ShmTypeOK
    <3> QED
      BY <1>3, <3>1, <3>2 DEF shmOut
  <2>2. pc' = [pc EXCEPT ![t] = "length"] /\ pc[t] = "out"
    BY <1>3 DEF shmOut
  <2>3. \A m : Seen(m)' <=> Seen(m)
    BY <2>1 DEF Seen
  <2>4. ShmTypeOK' /\ ShmPlaces'
    BY <1>0, <2>1, <2>2 DEF ShmTypeOK, ShmPlaces, Holding, Callers, ShmWriters
  <2>5. ASSUME ~obj'.intr PROVE OneInSlot' /\ WrittenOnce' /\ SlotFull' /\ ReadOnce'
    <3>1. ~obj.intr
      BY <2>1, <2>5
    <3>2. OneInSlot'
      <4>1. /\ \A u \in Callers : One(u) = 0
            /\ \A u \in Callers : One(u)' = IF u = t THEN 1 ELSE 0
        BY <3>1, <1>1, <2>1, <2>2, <2>5 DEF One, Holding, ShmInv, ShmTypeOK
      <4>2. /\ One("u1") = 0 /\ One("u2") = 0 /\ One("u3") = 0
            /\ \/ One("u1")' = 1 /\ One("u2")' = 0 /\ One("u3")' = 0
               \/ One("u1")' = 0 /\ One("u2")' = 0 /\ One("u3")' = 1
        BY <4>1 DEF Callers, ShmWriters
      <4>3. One("u1")' + One("u2")' + One("u3")' = 1
        BY <4>2
      <4>4. obj.in + obj.out + obj.broken = 1
        BY <3>1, <4>2 DEF OneInSlot, ShmInv, ShmTypeOK
      <4>5. obj'.in + obj'.out + obj'.broken = 0
        <5>1. obj.in \in Nat /\ obj.out \in Nat /\ obj.broken \in Nat
          BY <1>0 DEF ShmTypeOK
        <5> QED
          BY <4>4, <2>1, <2>5, <5>1
      <4> QED
        BY <4>2, <4>5, <2>4 DEF OneInSlot, ShmTypeOK
    <3>3. WrittenOnce'
      BY <3>1, <1>1, <2>1, <2>2 DEF ShmInv, WrittenOnce, Holding, ShmTypeOK, ShmPlaces, Callers,
         ShmWriters
    <3>4. SlotFull'
      <4>1. /\ obj.in = 0 /\ \A u \in Callers : pc[u] \notin Holding
            /\ \A m \in obj.posted : Seen(m)
        BY <3>1, <1>1, <2>1, <2>5 DEF ShmInv, SlotFull, ShmTypeOK
      <4>2. pc'["u2"] \notin {"length", "copy"}
        BY <4>1, <2>2 DEF ShmInv, ShmTypeOK, Holding, Callers, ShmWriters
      <4> QED
        BY <4>1, <4>2, <2>1, <2>3 DEF SlotFull
    <3>5. ReadOnce'
      BY <1>0, <3>1, <2>1, <2>3 DEF ReadOnce
    <3> QED
      BY <3>2, <3>3, <3>4, <3>5
  <2> QED
    BY <2>4, <2>5 DEF ShmInv
<1>4. ASSUME NEW t \in ShmWriters, shmLength(t) PROVE ShmInv'
  <2>1. /\ obj'.in = obj.in /\ obj'.out = obj.out /\ obj'.len = obj.hold[t]
        /\ obj'.data = obj.data /\ obj'.hold = obj.hold /\ obj'.sent = obj.sent
        /\ obj'.posted = obj.posted /\ obj'.read = obj.read /\ obj'.broken = obj.broken
        /\ obj'.intr = obj.intr
        /\ DOMAIN obj' = DOMAIN obj /\ class' = class
    BY <1>4 DEF shmLength
  <2>2. pc' = [pc EXCEPT ![t] = "data"] /\ pc[t] = "length"
    BY <1>4 DEF shmLength
  <2>3. \A m : Seen(m)' <=> Seen(m)
    BY <2>1 DEF Seen
  <2>4. ShmTypeOK' /\ ShmPlaces'
    BY <1>0, <2>1, <2>2 DEF ShmTypeOK, ShmPlaces, Holding, Callers, ShmWriters
  <2>5. ASSUME ~obj'.intr PROVE OneInSlot' /\ WrittenOnce' /\ SlotFull' /\ ReadOnce'
    <3>1. ~obj.intr
      BY <2>1, <2>5
    <3>2. OneInSlot'
      <4>1. One("u1")' = One("u1") /\ One("u2")' = One("u2") /\ One("u3")' = One("u3")
        BY <1>0, <2>1, <2>2 DEF One, Holding, ShmTypeOK, Callers, ShmWriters
      <4> QED
        BY <1>0, <3>1, <2>1, <4>1 DEF OneInSlot
    <3>3. WrittenOnce'
      BY <3>1, <1>1, <2>1, <2>2 DEF ShmInv, WrittenOnce, Holding, ShmTypeOK, ShmPlaces, Callers,
         ShmWriters
    <3>4. SlotFull'
      BY <3>1, <1>1, <2>1, <2>2, <2>3 DEF ShmInv, SlotFull, Holding, ShmTypeOK, ShmPlaces,
         Callers, ShmWriters
    <3>5. ReadOnce'
      BY <1>0, <3>1, <2>1, <2>3 DEF ReadOnce
    <3> QED
      BY <3>2, <3>3, <3>4, <3>5
  <2> QED
    BY <2>4, <2>5 DEF ShmInv
<1>5. ASSUME NEW t \in ShmWriters, shmData(t) PROVE ShmInv'
  <2>1. /\ obj'.in = obj.in + 1 /\ obj'.out = obj.out /\ obj'.len = obj.len
        /\ obj'.data = obj.hold[t] /\ obj'.hold = obj.hold /\ obj'.sent = obj.sent
        /\ obj'.posted = obj.posted \union {obj.hold[t]} /\ obj'.read = obj.read
        /\ obj'.broken = obj.broken
        /\ obj'.intr = obj.intr
        /\ DOMAIN obj' = DOMAIN obj /\ class' = class
    BY <1>5 DEF shmData
  <2>2. pc' = [pc EXCEPT ![t] = "idle"] /\ pc[t] = "data"
    BY <1>5 DEF shmData
  <2>3. \A m : Seen(m)' <=> Seen(m)
    BY <2>1 DEF Seen
  <2>4. ShmTypeOK' /\ ShmPlaces'
    BY <1>0, <2>1, <2>2 DEF ShmTypeOK, ShmPlaces, Holding, Callers, ShmWriters
  <2>5. ASSUME ~obj'.intr PROVE OneInSlot' /\ WrittenOnce' /\ SlotFull' /\ ReadOnce'
    <3>1. ~obj.intr
      BY <2>1, <2>5
    <3>2. OneInSlot'
      <4>1. \A u \in Callers : One(u) = (IF u = t THEN 1 ELSE One(u))
                                /\ One(u)' = (IF u = t THEN 0 ELSE One(u))
        BY <1>0, <2>1, <2>2 DEF One, Holding, ShmTypeOK
      <4>2. /\ One("u2")' = One("u2")
            /\ \/ One("u1") = 1 /\ One("u1")' = 0 /\ One("u3")' = One("u3")
               \/ One("u3") = 1 /\ One("u3")' = 0 /\ One("u1")' = One("u1")
        BY <4>1 DEF Callers, ShmWriters
      <4>3. One("u1") \in Nat /\ One("u2") \in Nat /\ One("u3") \in Nat
        BY DEF One
      <4>4. /\ obj'.in = obj.in + 1 /\ obj'.out = obj.out /\ obj'.broken = obj.broken
            /\ obj.in \in Nat /\ obj.out \in Nat /\ obj.broken \in Nat
        BY <1>0, <2>1 DEF ShmTypeOK
      <4> QED
        BY <1>0, <3>1, <4>2, <4>3, <4>4 DEF OneInSlot
    <3>3. WrittenOnce'
      BY <3>1, <1>1, <2>1, <2>2 DEF ShmInv, WrittenOnce, Holding, ShmTypeOK, ShmPlaces, Callers,
         ShmWriters
    <3>4. SlotFull'
      <4>1. /\ obj.out = 0 /\ obj.len = obj.hold[t] /\ obj.hold[t] \notin obj.posted
            /\ \A u \in Callers : pc[u] \in Holding => u = t
        BY <3>1, <1>1, <2>2 DEF ShmInv, ShmTypeOK, WrittenOnce, Holding, Callers, ShmWriters
      <4>2. ~Seen(obj.hold[t])
        BY <3>1, <4>1 DEF ShmInv, ReadOnce, Seen
      <4>3. \A u \in Callers : pc'[u] \notin Holding
        BY <4>1, <2>2 DEF ShmInv, ShmTypeOK, Holding, Callers, ShmWriters
      <4> QED
        BY <4>1, <4>2, <4>3, <2>1, <2>3 DEF SlotFull, Holding, Callers, ShmWriters, ShmInv,
           ShmTypeOK
    <3>5. ReadOnce'
      <4>1. \A m \in obj.posted : Seen(m)
        BY <1>0, <3>1, <2>2 DEF SlotFull, Holding
      <4> QED
        BY <1>0, <3>1, <2>1, <2>3, <4>1 DEF ReadOnce
    <3> QED
      BY <3>2, <3>3, <3>4, <3>5
  <2> QED
    BY <2>4, <2>5 DEF ShmInv
<1>6. CASE shmRead
  <2>1. /\ obj'.in = obj.in /\ obj'.out = obj.out /\ obj'.len = obj.len
        /\ obj'.data = obj.data /\ obj'.hold = obj.hold /\ obj'.sent = obj.sent
        /\ obj'.posted = obj.posted /\ obj'.read = obj.read /\ obj'.broken = obj.broken
        /\ obj'.intr = obj.intr
        /\ DOMAIN obj' = DOMAIN obj /\ class' = class
    BY <1>6 DEF shmRead
  <2>2. pc' = [pc EXCEPT !["u2"] = "in"] /\ pc["u2"] = "idle"
    BY <1>6 DEF shmRead
  <2>3. \A m : Seen(m)' <=> Seen(m)
    BY <2>1 DEF Seen
  <2>4. ShmTypeOK' /\ ShmPlaces'
    BY <1>0, <2>1, <2>2 DEF ShmTypeOK, ShmPlaces, Holding, Callers, ShmWriters
  <2>5. ASSUME ~obj'.intr PROVE OneInSlot' /\ WrittenOnce' /\ SlotFull' /\ ReadOnce'
    <3>1. ~obj.intr
      BY <2>1, <2>5
    <3>2. OneInSlot'
      <4>1. One("u1")' = One("u1") /\ One("u2")' = One("u2") /\ One("u3")' = One("u3")
        BY <1>0, <2>1, <2>2 DEF One, Holding, ShmTypeOK, Callers, ShmWriters
      <4> QED
        BY <1>0, <3>1, <2>1, <4>1 DEF OneInSlot
    <3>3. WrittenOnce'
      BY <3>1, <1>1, <2>1, <2>2 DEF ShmInv, WrittenOnce, Holding, ShmTypeOK, ShmPlaces, Callers,
         ShmWriters
    <3>4. SlotFull'
      BY <3>1, <1>1, <2>1, <2>2, <2>3 DEF ShmInv, SlotFull, Holding, ShmTypeOK, ShmPlaces,
         Callers, ShmWriters
    <3>5. ReadOnce'
      BY <1>0, <3>1, <2>1, <2>3 DEF ReadOnce
    <3> QED
      BY <3>2, <3>3, <3>4, <3>5
  <2> QED
    BY <2>4, <2>5 DEF ShmInv
<1>7. CASE shmIn
  <2>1. CASE obj.in > 0
    <3>1. /\ obj' = [obj EXCEPT !.in = obj.in - 1] /\ class' = class
          /\ pc' = [pc EXCEPT !["u2"] = "length"] /\ pc["u2"] = "in"
      BY <1>7, <2>1 DEF shmIn
    <3>2. /\ obj'.in = obj.in - 1 /\ obj'.out = obj.out /\ obj'.len = obj.len
          /\ obj'.data = obj.data /\ obj'.hold = obj.hold /\ obj'.sent = obj.sent
          /\ obj'.posted = obj.posted /\ obj'.read = obj.read /\ obj'.broken = obj.broken
          /\ obj'.intr = obj.intr
          /\ DOMAIN obj' = DOMAIN obj /\ class' = class
      BY <3>1
    <3>3. pc' = [pc EXCEPT !["u2"] = "length"] /\ pc["u2"] = "in"
      BY <3>1
    <3>4. \A m : Seen(m)' <=> Seen(m)
      BY <3>2 DEF Seen
    <3>5. ShmTypeOK' /\ ShmPlaces'
      BY <2>1, <3>2, <3>3 DEF ShmInv, ShmTypeOK, ShmPlaces, Holding, Callers, ShmWriters
    <3>6. ASSUME ~obj'.intr PROVE OneInSlot' /\ WrittenOnce' /\ SlotFull' /\ ReadOnce'
      <4>1. ~obj.intr
        BY <3>2, <3>6
      <4>2. OneInSlot'
        <5>1. /\ \A u \in Callers : One(u) = 0
              /\ \A u \in Callers : One(u)' = IF u = "u2" THEN 1 ELSE 0
          BY <4>1, <1>1, <2>1, <3>3 DEF One, Holding, ShmInv, ShmTypeOK
        <5>2. /\ One("u1") = 0 /\ One("u2") = 0 /\ One("u3") = 0
              /\ One("u1")' = 0 /\ One("u2")' = 1 /\ One("u3")' = 0
          BY <5>1 DEF Callers
        <5> QED
          BY <4>1, <2>1, <3>2, <5>2 DEF OneInSlot, ShmInv, ShmTypeOK
      <4>3. WrittenOnce'
        BY <4>1, <1>1, <3>2, <3>3 DEF ShmInv, WrittenOnce, Holding, ShmTypeOK, ShmPlaces,
           Callers, ShmWriters
      <4>4. SlotFull'
        <5>1. /\ obj.out = 0 /\ \A u \in Callers : pc[u] \notin Holding
              /\ obj.len = obj.data /\ obj.data \in obj.posted /\ ~Seen(obj.data)
          BY <4>1, <1>1, <2>1 DEF ShmInv, SlotFull, ShmTypeOK
        <5>2. \A t \in ShmWriters : pc'[t] \notin Holding
          BY <5>1, <3>3 DEF ShmInv, ShmTypeOK, Callers, ShmWriters
        <5>3. pc'["u2"] = "length"
          BY <3>3 DEF ShmInv, ShmTypeOK, Callers
        <5> QED
          BY <5>1, <5>2, <5>3, <3>2, <3>4 DEF SlotFull
      <4>5. ReadOnce'
        BY <1>0, <4>1, <3>2, <3>4 DEF ReadOnce
      <4> QED
        BY <4>2, <4>3, <4>4, <4>5
    <3> QED
      BY <3>5, <3>6 DEF ShmInv
  <2>2. CASE ~(obj.in > 0)
    <3>1. obj' = obj /\ class' = class /\ pc' = [pc EXCEPT !["u2"] = "idle"] /\ pc["u2"] = "in"
      BY <1>7, <2>2 DEF shmIn
    <3>2. ShmTypeOK' /\ ShmPlaces'
      BY <3>1 DEF ShmInv, ShmTypeOK, ShmPlaces, Callers, ShmWriters
    <3>3. OneInSlot => OneInSlot'
      <4>1. One("u1")' = One("u1") /\ One("u2")' = One("u2") /\ One("u3")' = One("u3")
        BY <3>1 DEF ShmInv, ShmTypeOK, One, Callers, Holding
      <4> QED
        BY <3>1, <4>1 DEF OneInSlot
    <3>4. WrittenOnce => WrittenOnce'
      BY <3>1 DEF WrittenOnce, ShmInv, ShmTypeOK, Callers, ShmWriters
    <3>5. SlotFull /\ ReadOnce => SlotFull' /\ ReadOnce'
      BY <3>1 DEF SlotFull, ReadOnce, Seen, ShmInv, ShmTypeOK, Callers, ShmWriters, Holding
    <3> QED
      BY <3>1, <3>2, <3>3, <3>4, <3>5 DEF ShmInv
  <2> QED
    BY <2>1, <2>2
<1>8. CASE shmGot
  <2>1. /\ obj'.in = obj.in /\ obj'.out = obj.out /\ obj'.len = obj.len
        /\ obj'.data = obj.data /\ obj'.hold = [obj.hold EXCEPT !["u2"] = obj.len]
        /\ obj'.sent = obj.sent
        /\ obj'.posted = obj.posted /\ obj'.read = obj.read /\ obj'.broken = obj.broken
        /\ obj'.intr = obj.intr
        /\ DOMAIN obj' = DOMAIN obj /\ class' = class
    BY <1>8 DEF shmGot
  <2>2. pc' = [pc EXCEPT !["u2"] = "copy"] /\ pc["u2"] = "length"
    BY <1>8 DEF shmGot
  <2>3. \A m : Seen(m)' <=> Seen(m)
    BY <2>1 DEF Seen
  <2>4. ShmTypeOK' /\ ShmPlaces'
    BY <1>0, <2>1, <2>2 DEF ShmTypeOK, ShmPlaces, Holding, Callers, ShmWriters
  <2>5. ASSUME ~obj'.intr PROVE OneInSlot' /\ WrittenOnce' /\ SlotFull' /\ ReadOnce'
    <3>1. ~obj.intr
      BY <2>1, <2>5
    <3>2. OneInSlot'
      <4>1. One("u1")' = One("u1") /\ One("u2")' = One("u2") /\ One("u3")' = One("u3")
        BY <1>0, <2>1, <2>2 DEF One, Holding, ShmTypeOK, Callers, ShmWriters
      <4> QED
        BY <1>0, <3>1, <2>1, <4>1 DEF OneInSlot
    <3>3. WrittenOnce'
      BY <3>1, <1>1, <2>1, <2>2 DEF ShmInv, WrittenOnce, Holding, ShmTypeOK, ShmPlaces, Callers,
         ShmWriters
    <3>4. SlotFull'
      BY <3>1, <1>1, <2>1, <2>2, <2>3 DEF ShmInv, SlotFull, Holding, ShmTypeOK, ShmPlaces,
         Callers, ShmWriters
    <3>5. ReadOnce'
      BY <1>0, <3>1, <2>1, <2>3 DEF ReadOnce
    <3> QED
      BY <3>2, <3>3, <3>4, <3>5
  <2> QED
    BY <2>4, <2>5 DEF ShmInv
<1>9. CASE shmCopied
  <2>1. /\ obj'.in = obj.in /\ obj'.out = obj.out + 1 /\ obj'.len = obj.len
        /\ obj'.data = obj.data /\ obj'.hold = obj.hold /\ obj'.sent = obj.sent
        /\ obj'.posted = obj.posted
        /\ obj'.read = Append(obj.read, <<obj.hold["u2"], obj.data>>) /\ obj'.broken = obj.broken
        /\ obj'.intr = obj.intr
        /\ DOMAIN obj' = DOMAIN obj /\ class' = class
    BY <1>9 DEF shmCopied
  <2>2. pc' = [pc EXCEPT !["u2"] = "idle"] /\ pc["u2"] = "copy"
    BY <1>9 DEF shmCopied
  <2>3. ASSUME ~obj.intr
        PROVE  /\ DOMAIN obj'.read = DOMAIN obj.read \union {Len(obj.read) + 1}
               /\ Len(obj.read) + 1 \notin DOMAIN obj.read
               /\ \A i \in DOMAIN obj.read : obj'.read[i] = obj.read[i]
               /\ obj'.read[Len(obj.read) + 1] = <<obj.data, obj.data>>
    <3>1. obj'.read = Append(obj.read, <<obj.data, obj.data>>)
      BY <2>1, <2>2, <2>3 DEF ShmInv, SlotFull
    <3>2. obj.read \in Seq(Nat \X Nat) /\ <<obj.data, obj.data>> \in Nat \X Nat
      BY DEF ShmInv, ShmTypeOK
    <3> DEFINE s == obj.read
               e == <<obj.data, obj.data>>
    <3>3. s \in Seq(Nat \X Nat) /\ e \in Nat \X Nat /\ obj.read = s /\ obj'.read = Append(s, e)
      BY <3>1, <3>2
    <3>4. e = <<obj.data, obj.data>>
      OBVIOUS
    <3> HIDE DEF s, e
    <3>5. /\ DOMAIN Append(s, e) = DOMAIN s \union {Len(s) + 1} /\ Len(s) + 1 \notin DOMAIN s
          /\ \A i \in DOMAIN s : Append(s, e)[i] = s[i]
          /\ Append(s, e)[Len(s) + 1] = e
      BY ONLY <3>3, AppendParts
    <3> QED
      BY <3>3, <3>4, <3>5
  <2>4. ASSUME ~obj.intr, NEW m PROVE Seen(m)' <=> Seen(m) \/ m = obj.data
    <3> DEFINE s == obj.read
               r == obj'.read
    <3>1. /\ DOMAIN r = DOMAIN s \union {Len(s) + 1} /\ \A i \in DOMAIN s : r[i] = s[i]
          /\ r[Len(s) + 1] = <<obj.data, obj.data>>
      BY <2>3, <2>4
    <3>2. /\ Seen(m) <=> \E i \in DOMAIN s : s[i] = <<m, m>>
          /\ Seen(m)' <=> \E i \in DOMAIN r : r[i] = <<m, m>>
      BY DEF Seen
    <3>3. <<m, m>> = <<obj.data, obj.data>> <=> m = obj.data
      OBVIOUS
    <3> HIDE DEF s, r
    <3> QED
      BY <3>1, <3>2, <3>3
  <2>5. ShmTypeOK' /\ ShmPlaces'
    BY <1>0, <2>1, <2>2 DEF ShmTypeOK, ShmPlaces, Holding, Callers, ShmWriters
  <2>6. ASSUME ~obj'.intr PROVE OneInSlot' /\ WrittenOnce' /\ SlotFull' /\ ReadOnce'
    <3>1. ~obj.intr
      BY <2>1, <2>6
    <3>2. OneInSlot'
      <4>1. /\ One("u1")' = One("u1") /\ One("u3")' = One("u3")
            /\ One("u2") = 1 /\ One("u2")' = 0
        BY <2>1, <2>2 DEF One, Holding, ShmInv, ShmTypeOK, Callers
      <4>2. /\ obj'.in = obj.in /\ obj'.out = obj.out + 1 /\ obj'.broken = obj.broken
            /\ obj.in \in Nat /\ obj.out \in Nat /\ obj.broken \in Nat
        BY <2>1 DEF ShmInv, ShmTypeOK
      <4>3. One("u1") \in {0, 1} /\ One("u3") \in {0, 1}
        BY DEF One
      <4> QED
        BY <3>1, <4>1, <4>2, <4>3 DEF OneInSlot, ShmInv
    <3>3. WrittenOnce'
      BY <3>1, <1>1, <2>1, <2>2 DEF ShmInv, WrittenOnce, Holding, ShmTypeOK, ShmPlaces, Callers,
         ShmWriters
    <3>4. SlotFull'
      BY <3>1, <1>1, <2>1, <2>2, <2>4, <2>3 DEF ShmInv, SlotFull, Holding, ShmTypeOK, ShmPlaces,
         Callers, ShmWriters, ReadOnce
    <3>5. ReadOnce'
      <4>1. obj.data \in obj.posted /\ ~Seen(obj.data) /\ obj'.posted = obj.posted
        BY <3>1, <2>1, <2>2 DEF ShmInv, SlotFull
      <4>2. \A i \in DOMAIN obj'.read : \E m \in obj'.posted : obj'.read[i] = <<m, m>>
        BY <3>1, <4>1, <2>3 DEF ShmInv, ReadOnce
      <4>3. \A i, j \in DOMAIN obj'.read : obj'.read[i] = obj'.read[j] => i = j
        <5>1. \A i \in DOMAIN obj.read : obj'.read[i] # obj'.read[Len(obj.read) + 1]
          BY <3>1, <4>1, <2>3 DEF Seen
        <5> QED
          BY <3>1, <5>1, <2>3 DEF ShmInv, ReadOnce
      <4>4. \A m \in obj'.posted : m = obj'.data \/ Seen(m)'
        BY <3>1, <4>1, <2>1, <2>4 DEF ShmInv, ReadOnce
      <4> QED
        BY <4>2, <4>3, <4>4 DEF ReadOnce, Seen
    <3> QED
      BY <3>2, <3>3, <3>4, <3>5
  <2> QED
    BY <2>5, <2>6 DEF ShmInv
<1>10. ASSUME NEW t \in Callers, shmRestart(t) PROVE ShmInv'
  <2> DEFINE held == {u \in Process(t) : pc[u] \in Holding}
             Ended(u) == u \in Process(t)
  <2>1. /\ obj'.in = obj.in /\ obj'.out = obj.out /\ obj'.len = obj.len
        /\ obj'.data = obj.data /\ obj'.sent = obj.sent /\ obj'.posted = obj.posted
        /\ obj'.read = obj.read /\ obj'.intr = obj.intr
        /\ obj'.hold = [u \in Callers |-> IF Ended(u) THEN 0 ELSE obj.hold[u]]
        /\ DOMAIN obj' = DOMAIN obj /\ class' = class
    BY <1>10 DEF shmRestart
  <2>2. pc' = [u \in Callers |-> IF Ended(u) THEN "idle" ELSE pc[u]]
    BY <1>10 DEF shmRestart
  <2>3. obj'.broken = obj.broken + In("u1", held) + In("u2", held) + In("u3", held)
    <3>1. held \subseteq Callers
      BY DEF Process, Callers, ShmWriters
    <3>2. obj'.broken = obj.broken + Cardinality(held)
      BY <1>10 DEF shmRestart, Holding
    <3> HIDE DEF held
    <3>3. Cardinality(held) = In("u1", held) + In("u2", held) + In("u3", held)
      BY <3>1, HeldCount
    <3>4. obj.broken \in Nat /\ \A u \in Callers : In(u, held) \in Nat
      BY DEF ShmInv, ShmTypeOK, In
    <3> QED
      BY <3>2, <3>3, <3>4 DEF Callers
  <2>4. /\ Ended("u1") <=> Ended("u3")
        /\ Ended("u2") <=> ~Ended("u1")
    BY DEF Process, ShmWriters
  <2>5. \A u \in Callers : In(u, held) = IF Ended(u) THEN One(u) ELSE 0
    BY DEF In, One
  <2> HIDE DEF held, Ended
  <2>6. \A m : Seen(m)' <=> Seen(m)
    BY <2>1 DEF Seen
  <2>7. ShmTypeOK' /\ ShmPlaces'
    <3>1. obj'.broken \in Nat
      BY <2>3 DEF ShmInv, ShmTypeOK, In
    <3>2. /\ obj'.hold \in [Callers -> Nat]
          /\ pc' \in [Callers -> {"idle", "out", "in"} \union Holding]
      BY <2>1, <2>2 DEF ShmInv, ShmTypeOK
    <3>3. ShmPlaces'
      BY <2>1, <2>2 DEF ShmInv, ShmPlaces, Callers, ShmWriters
    <3> QED
      BY <2>1, <3>1, <3>2, <3>3 DEF ShmInv, ShmTypeOK
  <2>8. ASSUME ~obj'.intr PROVE OneInSlot' /\ WrittenOnce' /\ SlotFull' /\ ReadOnce'
    <3>1. ~obj.intr
      BY <2>1, <2>8
    <3>2. OneInSlot'
      <4>1. \A u \in Callers : One(u) \in {0, 1} /\ One(u)' = IF Ended(u) THEN 0 ELSE One(u)
        BY <2>2 DEF One, Holding
      <4>2. \A u \in Callers : One(u)' + In(u, held) = One(u)
        BY <4>1, <2>5
      <4>3. /\ One("u1")' + In("u1", held) = One("u1") /\ One("u2")' + In("u2", held) = One("u2")
            /\ One("u3")' + In("u3", held) = One("u3")
        BY <4>2 DEF Callers
      <4>4. \A u \in Callers : One(u)' \in Nat /\ In(u, held) \in Nat
        BY <4>1, <2>5
      <4>5. /\ One("u1")' \in Nat /\ One("u2")' \in Nat /\ One("u3")' \in Nat
            /\ In("u1", held) \in Nat /\ In("u2", held) \in Nat /\ In("u3", held) \in Nat
            /\ One("u1") \in Nat /\ One("u2") \in Nat /\ One("u3") \in Nat
        BY <4>1, <4>4 DEF Callers
      <4>6. obj'.broken + One("u1")' + One("u2")' + One("u3")'
              = obj.broken + One("u1") + One("u2") + One("u3")
        <5>1. obj.broken \in Nat
          BY DEF ShmInv, ShmTypeOK
        <5> QED
          BY <4>3, <4>5, <5>1, <2>3
      <4>7. /\ obj.in \in Nat /\ obj.out \in Nat /\ obj.broken \in Nat
            /\ obj'.in = obj.in /\ obj'.out = obj.out /\ obj'.broken \in Nat
        BY <2>1, <2>7 DEF ShmInv, ShmTypeOK
      <4>8. obj.in + obj.out + (obj.broken + One("u1") + One("u2") + One("u3")) = 1
        BY <3>1, <4>5, <4>7 DEF OneInSlot, ShmInv
      <4>9. obj'.in + obj'.out + (obj'.broken + One("u1")' + One("u2")' + One("u3")') = 1
        BY <4>6, <4>7, <4>8
      <4> QED
        BY <4>5, <4>7, <4>9 DEF OneInSlot
    <3>3. WrittenOnce'
      BY <3>1, <1>1, <2>1, <2>2, <2>3, <2>4, <2>5 DEF ShmInv, WrittenOnce, Holding, ShmTypeOK,
         ShmPlaces, Callers, ShmWriters
    <3>4. SlotFull'
      BY <3>1, <1>1, <2>1, <2>2, <2>3, <2>4, <2>5, <2>6 DEF ShmInv, SlotFull, Holding, ShmTypeOK,
         ShmPlaces, Callers, ShmWriters
    <3>5. ReadOnce'
      BY <1>0, <3>1, <2>1, <2>3, <2>6 DEF ReadOnce
    <3> QED
      BY <3>2, <3>3, <3>4, <3>5
  <2> QED
    BY <2>7, <2>8 DEF ShmInv
<1>11. CASE UNCHANGED mvars
  <2>1. class' = class /\ pc' = pc /\ obj' = obj
    BY <1>11 DEF mvars
  <2>2. ShmTypeOK' /\ ShmPlaces'
    BY <2>1 DEF ShmInv, ShmTypeOK, ShmPlaces
  <2>3. (OneInSlot' <=> OneInSlot) /\ (WrittenOnce' <=> WrittenOnce)
    BY <2>1 DEF OneInSlot, One, WrittenOnce
  <2>4. (SlotFull' <=> SlotFull) /\ (ReadOnce' <=> ReadOnce)
    BY <2>1 DEF SlotFull, ReadOnce, Seen
  <2> QED
    BY <2>1, <2>2, <2>3, <2>4 DEF ShmInv
<1> QED
  BY <1>2, <1>3, <1>4, <1>5, <1>6, <1>7, <1>8, <1>9, <1>10, <1>11 DEF ShmNext

(* SlotWhole, however many messages are written, processes end and signals  *)
(* arrive: a message is read once, whole, or is still in the slot.          *)
THEOREM SlotWholeAlways == ShmSpec => []SlotWhole
<1>1. ShmInv => SlotWhole
  <2> SUFFICES ASSUME ShmInv, class = "shm", ~obj.intr PROVE SlotWhole
    BY DEF SlotWhole
  <2> DEFINE H == {t \in Callers : pc[t] \in {"length", "data", "copy"}}
  <2>1. Cardinality(H) = In("u1", H) + In("u2", H) + In("u3", H)
    <3>1. H \subseteq Callers
      OBVIOUS
    <3> HIDE DEF H
    <3> QED
      BY <3>1, HeldCount
  <2>2. obj.in + obj.out + obj.broken + Cardinality(H) = 1
    <3>1. \A u \in Callers : In(u, H) = One(u)
      BY DEF In, One, Holding
    <3>2. obj.in + obj.out + obj.broken + (One("u1") + One("u2") + One("u3")) = 1
      <4>1. One("u1") \in Nat /\ One("u2") \in Nat /\ One("u3") \in Nat
        BY DEF One
      <4> QED
        <5>1. obj.in \in Nat /\ obj.out \in Nat /\ obj.broken \in Nat
          BY DEF ShmInv, ShmTypeOK
        <5>2. OneInSlot
          BY DEF ShmInv
        <5> QED
          BY <4>1, <5>1, <5>2 DEF OneInSlot
    <3> HIDE DEF H
    <3> QED
      BY <2>1, <3>1, <3>2 DEF Callers
  <2>3. \A i \in DOMAIN obj.read : obj.read[i][1] = obj.read[i][2]
    BY DEF ShmInv, ReadOnce
  <2>4. IsInjective(obj.read)
    BY DEF ShmInv, ReadOnce, IsInjective
  <2>5. \A m \in obj.posted : m = obj.data \/ <<m, m>> \in ToSet(obj.read)
    BY DEF ShmInv, ReadOnce, Seen, ToSet
  <2> QED
    BY <2>2, <2>3, <2>4, <2>5 DEF SlotWhole
<1> QED
  BY <1>1, ShmInvInit, ShmInvNext, PTL DEF ShmSpec

-----------------------------------------------------------------------------
(* EPoll.  No two connections have one descriptor; a FdInfo of the table is *)
(* not deleted, is the only one of its descriptor and the one the kernel    *)
(* has, if the kernel has one.  With a careful user the table's FdInfo of a *)
(* descriptor is that of the connection which has it now and has not been   *)
(* told of a hangup (OwnerInv), so the pointers that are left of a batch    *)
(* are to different FdInfos, none of them deleted (BatchInv).               *)
EPollTypeOK ==
  /\ class = "epoll"
  /\ pc \in [{"u1", "u3", "poll"} -> {"idle", "add", "events", "join", "loop", "follow", "done"}]
  /\ DOMAIN obj = {"fd", "table", "kset", "asked", "made", "who", "freed", "hup", "batch", "told",
                   "dead", "adds", "careful", "wild", "selfStop", "stoped", "ended"}
  /\ obj.fd \in [Conns -> {0} \union Fds] /\ obj.who \in [InfoIds -> Conns]
  /\ obj.table \in [Fds -> Nat] /\ obj.kset \in [Fds -> Nat]
  /\ obj.made \in 0..MaxInfos /\ obj.adds \in Conns
OneFdEach == \A c, d \in Conns : obj.fd[c] = obj.fd[d] /\ obj.fd[c] # 0 => c = d
AddInv ==
  /\ pc["u1"] \in {"add", "events"} => obj.fd[obj.adds] # 0
  /\ pc["u1"] = "add" => obj.made < MaxInfos
TableInv ==
  /\ \A f \in Fds : /\ obj.table[f] <= obj.made /\ obj.kset[f] \in {0, obj.table[f]}
                    /\ obj.table[f] # 0 => obj.table[f] \notin obj.freed
  /\ \A f, g \in Fds : obj.table[f] = obj.table[g] /\ obj.table[f] # 0 => f = g
  /\ obj.freed \subseteq 1..obj.made
OwnerInv ==
  /\ \A f \in Fds :
       obj.table[f] # 0 => /\ obj.kset[f] = obj.table[f] /\ obj.fd[obj.who[obj.table[f]]] = f
                           /\ obj.who[obj.table[f]] \notin obj.told \union obj.dead
  /\ \A i \in 1..obj.made : i \notin obj.freed => \E f \in Fds : obj.table[f] = i
  /\ pc["u1"] = "add" => /\ obj.table[obj.fd[obj.adds]] = 0
                         /\ obj.adds \notin obj.told \union obj.dead
BatchInv ==
  /\ ~obj.wild
  /\ \A e \in obj.batch : e[1] \in 1..obj.made /\ e[1] \notin obj.freed
  /\ \A e, d \in obj.batch : e[1] = d[1] => e = d
EPollInv ==
  /\ EPollTypeOK /\ OneFdEach /\ AddInv /\ TableInv
  /\ obj.careful => OwnerInv /\ BatchInv

\* Every set of naturals with an element has a least one.
LEMMA LeastIndex ==
  ASSUME NEW T \in SUBSET Nat, T # {}
  PROVE  \E m \in T : \A k \in T : m <= k
<1> DEFINE R == OpToRel(<, Nat)
<1>1. IsWellFoundedOn(R, Nat)
  BY NatLessThanWellFounded
<1>2. PICK m \in T : \A k \in T : ~ (<<k, m>> \in R)
  <2> HIDE DEF R
  <2> QED BY <1>1, WFMin
<1>3. R = {ss \in Nat \X Nat : ss[1] < ss[2]}
  BY DEF OpToRel
<1> HIDE DEF R
<1>4. ASSUME NEW k \in T PROVE m <= k
  <2>1. <<k, m>> \in Nat \X Nat /\ <<k, m>>[1] = k /\ <<k, m>>[2] = m
    OBVIOUS
  <2>2. ~ (k < m)
    BY <1>2, <1>3, <2>1, Zenon
  <2>3. QED
    BY <2>2
<1>5. QED
  BY <1>4

(* At first no descriptor is open and no FdInfo has been made.              *)
LEMMA EPollInvInit == EPollInit => EPollInv
<1> SUFFICES ASSUME EPollInit PROVE EPollInv
  OBVIOUS
<1>1. /\ class = "epoll" /\ obj.fd = [c \in Conns |-> 0] /\ obj.table = [f \in Fds |-> NoInfo]
      /\ obj.kset = [f \in Fds |-> NoInfo] /\ obj.made = 0 /\ obj.freed = {} /\ obj.batch = {}
      /\ obj.wild = FALSE
      /\ DOMAIN obj = {"fd", "table", "kset", "asked", "made", "who", "freed", "hup", "batch",
                       "told", "dead", "adds", "careful", "wild", "selfStop", "stoped", "ended"}
  BY DEF EPollInit
<1>2. (CHOOSE c \in Conns : TRUE) \in Conns
  BY EPollAssumption
<1>3. /\ obj.adds = (CHOOSE c \in Conns : TRUE)
      /\ obj.who = [i \in InfoIds |-> CHOOSE c \in Conns : TRUE]
  BY DEF EPollInit
<1>4. EPollTypeOK
  BY <1>1, <1>2, <1>3, EPollAssumption DEF EPollInit, EPollTypeOK, NoInfo
<1>5. OneFdEach /\ AddInv /\ TableInv /\ OwnerInv /\ BatchInv
  BY <1>1 DEF EPollInit, OneFdEach, AddInv, TableInv, OwnerInv, BatchInv, NoInfo
<1> QED
  BY <1>4, <1>5 DEF EPollInv

(* Socket() finds a descriptor that is not open: there are as many as       *)
(* connections, and the one it is for has none.                             *)
LEMMA FdLeft ==
  ASSUME NEW fd \in [Conns -> {0} \union Fds], NEW c \in Conns, fd[c] = 0
  PROVE  LET free == {f \in Fds : \A d \in Conns : fd[d] # f}
         IN (CHOOSE f \in free : \A g \in free : f <= g) \in free
<1> DEFINE free == {f \in Fds : \A d \in Conns : fd[d] # f}
<1>1. IsFiniteSet(Conns) /\ Cardinality(Conns) \in Nat
  BY EPollAssumption, FS_CardinalityType
<1>2. free # {}
  <2> SUFFICES ASSUME free = {} PROVE FALSE
    OBVIOUS
  <2> DEFINE D == {d \in Conns : fd[d] # 0}
             h == [d \in D |-> fd[d]]
  <2>1. h \in Surjection(D, Fds)
    <3>1. \A f \in Fds : \E d \in Conns : fd[d] = f
      OBVIOUS
    <3>2. \A f \in Fds : f # 0
      BY <1>1 DEF Fds
    <3>3. \A f \in Fds : \E d \in D : h[d] = f
      BY <3>1, <3>2
    <3>4. h \in [D -> Fds]
      OBVIOUS
    <3> HIDE DEF D, h
    <3> QED
      BY <3>3, <3>4 DEF Surjection
  <2>2. D \subseteq Conns \ {c}
    OBVIOUS
  <2>3. IsFiniteSet(Conns \ {c}) /\ Cardinality(Conns \ {c}) = Cardinality(Conns) - 1
    BY <1>1, FS_RemoveElement
  <2>4. IsFiniteSet(D) /\ Cardinality(D) <= Cardinality(Conns) - 1
    <3> HIDE DEF D
    <3> QED
      BY <2>2, <2>3, FS_Subset
  <2>5. Cardinality(Fds) = Cardinality(Conns)
    <3> DEFINE n == Cardinality(Conns)
    <3>1. n \in Nat
      BY <1>1
    <3> HIDE DEF n
    <3>2. Cardinality(1..n) = n
      <4>1. 1 \in Int /\ n \in Int /\ (IF 1 > n THEN 0 ELSE n - 1 + 1) = n
        BY <3>1
      <4> QED
        BY <4>1, FS_Interval, Zenon
    <3> QED
      BY <3>2 DEF Fds, n
  <2>6. Cardinality(Fds) <= Cardinality(D) /\ Cardinality(D) \in Nat
    <3> HIDE DEF D, h
    <3> QED
      BY <2>1, <2>4, FS_Surjection, FS_CardinalityType
  <2> HIDE DEF D
  <2> QED
    BY <1>1, <2>4, <2>5, <2>6
<1>3. free \in SUBSET Nat
  BY <1>1 DEF Fds
<1> HIDE DEF free
<1>4. \E f \in free : \A g \in free : f <= g
  BY <1>2, <1>3, LeastIndex
<1>5. (CHOOSE f \in free : \A g \in free : f <= g) \in free
  BY <1>4
<1> QED
  BY <1>5 DEF free

(* What closing a connection's descriptor leaves of the state.              *)
LEMMA ClosedIs ==
  ASSUME EPollInv, NEW c \in Conns
  PROVE  LET o == Closed(obj, c)
         IN /\ o.fd = [obj.fd EXCEPT ![c] = 0] /\ o.table = obj.table /\ o.made = obj.made
            /\ o.who = obj.who /\ o.freed = obj.freed /\ o.batch = obj.batch /\ o.told = obj.told
            /\ o.dead = obj.dead /\ o.careful = obj.careful /\ o.wild = obj.wild
            /\ o.adds = obj.adds /\ DOMAIN o = DOMAIN obj
            /\ o.kset \in [Fds -> Nat]
            /\ \A f \in Fds : o.kset[f] = IF f = obj.fd[c] THEN 0 ELSE obj.kset[f]
<1>1. 0 \notin Fds
  BY DEF Fds
<1>2. CASE obj.fd[c] = 0
  BY <1>1, <1>2 DEF Closed, EPollInv, EPollTypeOK
<1>3. CASE obj.fd[c] # 0
  <2> DEFINE o == [obj EXCEPT !.fd = [obj.fd EXCEPT ![c] = 0],
                              !.kset = [obj.kset EXCEPT ![obj.fd[c]] = 0],
                              !.hup = obj.hup \ {obj.fd[c]}]
  <2>1. Closed(obj, c) = o
    BY <1>3 DEF Closed, NoInfo
  <2>2. obj.fd[c] \in Fds
    BY <1>3 DEF EPollInv, EPollTypeOK
  <2>3. /\ o.fd = [obj.fd EXCEPT ![c] = 0] /\ o.kset = [obj.kset EXCEPT ![obj.fd[c]] = 0]
        /\ o.table = obj.table /\ o.made = obj.made
        /\ o.who = obj.who /\ o.freed = obj.freed /\ o.batch = obj.batch /\ o.told = obj.told
        /\ o.dead = obj.dead /\ o.careful = obj.careful /\ o.wild = obj.wild
        /\ o.adds = obj.adds /\ DOMAIN o = DOMAIN obj
    BY DEF EPollInv, EPollTypeOK
  <2> HIDE DEF o
  <2> QED
    BY <2>1, <2>2, <2>3 DEF EPollInv, EPollTypeOK
<1> QED
  BY <1>2, <1>3

(* What closing c's descriptor and dropping its callback keep: the entry of *)
(* the descriptor it had, if any, is not in use.                            *)
LEMMA DropKept ==
  ASSUME EPollInv, NEW c \in Conns, MayDrop(c), obj.careful
  PROVE  \A f \in Fds : obj.table[f] # 0 => f # obj.fd[c] /\ obj.who[obj.table[f]] # c
<1> SUFFICES ASSUME NEW f \in Fds, obj.table[f] # 0
             PROVE  f # obj.fd[c] /\ obj.who[obj.table[f]] # c
  OBVIOUS
<1>1. obj.fd[obj.who[obj.table[f]]] = f /\ obj.who[obj.table[f]] \notin obj.told
  BY DEF EPollInv, OwnerInv
<1>2. f # 0
  BY DEF Fds
<1>3. obj.table[f] \in InfoIds /\ obj.who[obj.table[f]] \in Conns
  BY EPollAssumption DEF EPollInv, EPollTypeOK, TableInv, InfoIds
<1> QED
  BY <1>1, <1>2, <1>3 DEF MayDrop, EPollInv, OneFdEach

(* Every step of the user, the poll thread or PollMgr keeps EPollInv.       *)
LEMMA EPollInvNext == EPollInv /\ [EPollNext]_mvars => EPollInv'
<1> SUFFICES ASSUME EPollInv, [EPollNext]_mvars PROVE EPollInv'
  OBVIOUS
<1> USE DEF At, Go, Stay, NoInfo
<1>0. /\ 0 \notin Fds /\ Fds \subseteq Nat
      /\ MaxInfos \in Nat
  BY EPollAssumption, FS_CardinalityType DEF Fds
<1>1. ASSUME NEW c \in Conns, createTcp(c) PROVE EPollInv'
  <2> DEFINE o == Closed(obj, c)
             n == LowestFree(o)
  <2>1. obj' = [o EXCEPT !.fd = [o.fd EXCEPT ![c] = n], !.told = o.told \ {c}, !.adds = c]
    BY <1>1 DEF createTcp
  <2>2. /\ o.fd = [obj.fd EXCEPT ![c] = 0] /\ o.table = obj.table /\ o.made = obj.made
        /\ o.who = obj.who /\ o.freed = obj.freed /\ o.batch = obj.batch /\ o.told = obj.told
        /\ o.dead = obj.dead /\ o.careful = obj.careful /\ o.wild = obj.wild
        /\ o.adds = obj.adds /\ DOMAIN o = DOMAIN obj
        /\ o.kset \in [Fds -> Nat]
        /\ \A f \in Fds : o.kset[f] = IF f = obj.fd[c] THEN 0 ELSE obj.kset[f]
    <3> HIDE DEF o
    <3> QED
      BY ClosedIs DEF o
  <2>3. n \in Fds /\ \A d \in Conns : o.fd[d] # n
    <3>1. o.fd \in [Conns -> {0} \union Fds] /\ o.fd[c] = 0
      BY <2>2 DEF EPollInv, EPollTypeOK
    <3> HIDE DEF o
    <3>2. n \in {f \in Fds : \A d \in Conns : o.fd[d] # f}
      BY <3>1, FdLeft DEF LowestFree, FreeFds
    <3> QED
      BY <3>2
  <2>4. /\ c \notin obj.dead /\ MayDrop(c) /\ obj.made < MaxInfos
        /\ pc' = [pc EXCEPT !["u1"] = "add"] /\ class' = class
    BY <1>1 DEF createTcp
  <2> HIDE DEF o, n
  <2>5. /\ obj'.fd = [obj.fd EXCEPT ![c] = n] /\ obj'.table = obj.table /\ obj'.kset = o.kset
        /\ obj'.made = obj.made /\ obj'.who = obj.who /\ obj'.freed = obj.freed
        /\ obj'.batch = obj.batch /\ obj'.told = obj.told \ {c} /\ obj'.dead = obj.dead
        /\ obj'.adds = c /\ obj'.careful = obj.careful /\ obj'.wild = obj.wild
        /\ DOMAIN obj' = DOMAIN obj
    <3>1. o.told = obj.told /\ o.fd = [obj.fd EXCEPT ![c] = 0]
      BY <2>2
    <3>2. [o.fd EXCEPT ![c] = n] = [obj.fd EXCEPT ![c] = n]
      BY <3>1
    <3> QED
      BY <2>1, <2>2, <3>2 DEF EPollInv, EPollTypeOK
  <2>6. EPollTypeOK'
    BY <2>2, <2>3, <2>4, <2>5 DEF EPollInv, EPollTypeOK
  <2>7. OneFdEach'
    BY <2>2, <2>3, <2>5, <1>0 DEF EPollInv, EPollTypeOK, OneFdEach
  <2>8. AddInv'
    BY <2>3, <2>4, <2>5, <1>0 DEF EPollInv, EPollTypeOK, AddInv
  <2>9. TableInv'
    BY <2>2, <2>5 DEF EPollInv, EPollTypeOK, TableInv
  <2>10. ASSUME obj'.careful PROVE OwnerInv' /\ BatchInv'
    <3>1. \A f \in Fds : obj.table[f] # 0 => f # obj.fd[c] /\ obj.who[obj.table[f]] # c
      BY <2>10, <2>4, <2>5, DropKept
    <3>2. OwnerInv /\ BatchInv
      BY <2>10, <2>5 DEF EPollInv
    <3>3. \A f \in Fds : obj.table[f] # 0 => obj.who[obj.table[f]] \in Conns
      BY <1>0 DEF EPollInv, EPollTypeOK, TableInv, InfoIds
    <3>4. obj.table[n] = 0
      BY <2>2, <2>3, <3>1, <3>2, <3>3 DEF OwnerInv, EPollInv, EPollTypeOK
    <3>5. \A f \in Fds :
            obj'.table[f] # 0 => /\ obj'.kset[f] = obj'.table[f]
                                 /\ obj'.fd[obj'.who[obj'.table[f]]] = f
                                 /\ obj'.who[obj'.table[f]] \notin obj'.told \union obj'.dead
      BY <2>2, <2>5, <3>1, <3>2, <3>3 DEF OwnerInv, EPollInv, EPollTypeOK
    <3>6. pc'["u1"] = "add" => /\ obj'.table[obj'.fd[obj'.adds]] = 0
                               /\ obj'.adds \notin obj'.told \union obj'.dead
      BY <2>4, <2>5, <3>4 DEF EPollInv, EPollTypeOK
    <3>7. OwnerInv'
      BY <2>5, <3>2, <3>5, <3>6 DEF OwnerInv
    <3> QED
      BY <2>5, <3>2, <3>7 DEF BatchInv
  <2> QED
    BY <2>6, <2>7, <2>8, <2>9, <2>10 DEF EPollInv
<1>2. ASSUME NEW c \in Conns, destroyConn(c) PROVE EPollInv'
  <2> DEFINE o == Closed(obj, c)
  <2>1. obj' = [o EXCEPT !.dead = o.dead \union {c}, !.told = o.told \ {c}]
    BY <1>2 DEF destroyConn
  <2>2. /\ o.fd = [obj.fd EXCEPT ![c] = 0] /\ o.table = obj.table /\ o.made = obj.made
        /\ o.who = obj.who /\ o.freed = obj.freed /\ o.batch = obj.batch /\ o.told = obj.told
        /\ o.dead = obj.dead /\ o.careful = obj.careful /\ o.wild = obj.wild
        /\ o.adds = obj.adds /\ DOMAIN o = DOMAIN obj
        /\ o.kset \in [Fds -> Nat]
        /\ \A f \in Fds : o.kset[f] = IF f = obj.fd[c] THEN 0 ELSE obj.kset[f]
    <3> HIDE DEF o
    <3> QED
      BY ClosedIs DEF o
  <2>4. MayDrop(c) /\ pc' = pc /\ class' = class /\ pc["u1"] = "idle"
    BY <1>2 DEF destroyConn
  <2> HIDE DEF o
  <2>5. /\ obj'.fd = [obj.fd EXCEPT ![c] = 0] /\ obj'.table = obj.table /\ obj'.kset = o.kset
        /\ obj'.made = obj.made /\ obj'.who = obj.who /\ obj'.freed = obj.freed
        /\ obj'.batch = obj.batch /\ obj'.told = obj.told \ {c}
        /\ obj'.dead = obj.dead \union {c}
        /\ obj'.adds = obj.adds /\ obj'.careful = obj.careful /\ obj'.wild = obj.wild
        /\ DOMAIN obj' = DOMAIN obj
    BY <2>1, <2>2 DEF EPollInv, EPollTypeOK
  <2>6. EPollTypeOK'
    BY <2>2, <2>4, <2>5 DEF EPollInv, EPollTypeOK
  <2>7. OneFdEach'
    BY <2>5 DEF EPollInv, EPollTypeOK, OneFdEach
  <2>8. AddInv'
    BY <2>4, <2>5 DEF EPollInv, AddInv
  <2>9. TableInv'
    BY <2>2, <2>5 DEF EPollInv, EPollTypeOK, TableInv
  <2>10. ASSUME obj'.careful PROVE OwnerInv' /\ BatchInv'
    <3>1. \A f \in Fds : obj.table[f] # 0 => f # obj.fd[c] /\ obj.who[obj.table[f]] # c
      BY <2>10, <2>4, <2>5, DropKept
    <3>2. OwnerInv /\ BatchInv
      BY <2>10, <2>5 DEF EPollInv
    <3>3. \A f \in Fds : obj.table[f] # 0 => obj.who[obj.table[f]] \in Conns
      BY <1>0 DEF EPollInv, EPollTypeOK, TableInv, InfoIds
    <3>5. \A f \in Fds :
            obj'.table[f] # 0 => /\ obj'.kset[f] = obj'.table[f]
                                 /\ obj'.fd[obj'.who[obj'.table[f]]] = f
                                 /\ obj'.who[obj'.table[f]] \notin obj'.told \union obj'.dead
      BY <2>2, <2>5, <3>1, <3>2, <3>3 DEF OwnerInv, EPollInv, EPollTypeOK
    <3>7. OwnerInv'
      BY <2>4, <2>5, <3>2, <3>5 DEF OwnerInv
    <3> QED
      BY <2>5, <3>2, <3>7 DEF BatchInv
  <2> QED
    BY <2>6, <2>7, <2>8, <2>9, <2>10 DEF EPollInv
<1>3. CASE addFd
  <2> DEFINE f == obj.fd[obj.adds]
             i == obj.made + 1
  <2>1. /\ f \in Fds /\ i \in InfoIds /\ i \in Nat /\ i # 0
        /\ obj.made \in Nat /\ i \in 0..MaxInfos /\ pc["u1"] = "add"
    BY <1>0, <1>3 DEF addFd, EPollInv, EPollTypeOK, AddInv, InfoIds
  <2>2. /\ obj'.made = i /\ obj'.who = [obj.who EXCEPT ![i] = obj.adds]
        /\ obj'.table = [obj.table EXCEPT ![f] = i] /\ obj'.kset = [obj.kset EXCEPT ![f] = i]
        /\ obj'.fd = obj.fd /\ obj'.freed = obj.freed /\ obj'.batch = obj.batch
        /\ obj'.told = obj.told /\ obj'.dead = obj.dead /\ obj'.adds = obj.adds
        /\ obj'.careful = obj.careful /\ obj'.wild = obj.wild /\ DOMAIN obj' = DOMAIN obj
    BY <1>3 DEF addFd, EPollInv, EPollTypeOK
  <2>3. pc' = [pc EXCEPT !["u1"] = "events"] /\ class' = class
    BY <1>3 DEF addFd
  <2>4. i = obj.made + 1
    OBVIOUS
  <2> HIDE DEF f, i
  <2>5. EPollTypeOK'
    BY <2>1, <2>2, <2>3 DEF EPollInv, EPollTypeOK
  <2>6. OneFdEach' /\ AddInv'
    BY <2>1, <2>2, <2>3, <1>0 DEF EPollInv, EPollTypeOK, OneFdEach, AddInv
  <2>7. TableInv'
    <3>1. \A g \in Fds : obj.table[g] <= obj.made /\ obj.table[g] \in Nat /\ obj.table[g] # i
      BY <2>1, <2>4 DEF EPollInv, EPollTypeOK, TableInv
    <3>2. i \notin obj.freed
      BY <2>1, <2>4 DEF EPollInv, TableInv
    <3>3. \A g \in Fds : obj'.table[g] = (IF g = f THEN i ELSE obj.table[g])
                         /\ obj'.kset[g] = (IF g = f THEN i ELSE obj.kset[g])
      BY <2>2 DEF EPollInv, EPollTypeOK
    <3>4. \A g \in Fds : obj'.table[g] <= obj'.made
      BY <2>1, <2>2, <2>4, <3>1, <3>3
    <3>5. obj'.freed \subseteq 1..obj'.made
      BY <2>1, <2>2, <2>4 DEF EPollInv, TableInv
    <3>6. \A g, h \in Fds : obj'.table[g] = obj'.table[h] /\ obj'.table[g] # 0 => g = h
      BY <3>1, <3>3 DEF EPollInv, TableInv
    <3>7. \A g \in Fds : /\ obj'.kset[g] \in {0, obj'.table[g]}
                         /\ obj'.table[g] # 0 => obj'.table[g] \notin obj'.freed
      BY <2>2, <3>2, <3>3 DEF EPollInv, TableInv
    <3> QED
      BY <3>4, <3>5, <3>6, <3>7 DEF TableInv
  <2>8. ASSUME obj'.careful PROVE OwnerInv' /\ BatchInv'
    <3>1. OwnerInv /\ BatchInv
      BY <2>2, <2>8 DEF EPollInv
    <3>2. \A g \in Fds : obj.table[g] # i /\ (obj.table[g] # 0 => obj.table[g] \in InfoIds)
      BY <2>1, <2>4, <1>0 DEF EPollInv, EPollTypeOK, TableInv, InfoIds
    <3>3. /\ \A g \in Fds : /\ obj'.table[g] = (IF g = f THEN i ELSE obj.table[g])
                            /\ obj'.kset[g] = (IF g = f THEN i ELSE obj.kset[g])
          /\ \A k \in InfoIds : obj'.who[k] = IF k = i THEN obj.adds ELSE obj.who[k]
      BY <2>2 DEF EPollInv, EPollTypeOK
    <3>4. \A g \in Fds :
            obj'.table[g] # 0 => /\ obj'.kset[g] = obj'.table[g]
                                 /\ obj'.fd[obj'.who[obj'.table[g]]] = g
                                 /\ obj'.who[obj'.table[g]] \notin obj'.told \union obj'.dead
      <4> SUFFICES ASSUME NEW g \in Fds, obj'.table[g] # 0
                   PROVE  /\ obj'.kset[g] = obj'.table[g]
                          /\ obj'.fd[obj'.who[obj'.table[g]]] = g
                          /\ obj'.who[obj'.table[g]] \notin obj'.told \union obj'.dead
        OBVIOUS
      <4>1. CASE g = f
        <5>1. f = obj.fd[obj.adds]
          BY DEF f
        <5>2. obj'.table[g] = i /\ obj'.kset[g] = i /\ obj'.who[i] = obj.adds
          BY <4>1, <3>3, <2>1
        <5> QED
          BY <4>1, <5>1, <5>2, <2>1, <2>2, <3>1 DEF OwnerInv
      <4>2. CASE g # f
        <5>1. obj'.table[g] = obj.table[g] /\ obj'.kset[g] = obj.kset[g]
          BY <4>2, <3>3
        <5>2. obj'.who[obj.table[g]] = obj.who[obj.table[g]]
          BY <5>1, <3>2, <3>3
        <5> QED
          BY <5>1, <5>2, <2>2, <3>1 DEF OwnerInv
      <4> QED
        BY <4>1, <4>2
    <3>5. \A k \in 1..obj'.made : k \notin obj'.freed => \E g \in Fds : obj'.table[g] = k
      <4> SUFFICES ASSUME NEW k \in 1..obj'.made, k \notin obj'.freed
                   PROVE  \E g \in Fds : obj'.table[g] = k
        OBVIOUS
      <4>1. CASE k = i
        BY <4>1, <2>1, <3>3
      <4>2. CASE k # i
        <5>1. k \in 1..obj.made /\ k \notin obj.freed
          BY <4>2, <2>1, <2>2, <2>4
        <5>2. PICK g \in Fds : obj.table[g] = k
          BY <5>1, <3>1 DEF OwnerInv
        <5>3. g # f
          <6>1. obj.table[f] = 0
            BY <2>1, <3>1 DEF OwnerInv, f
          <6> QED
            BY <6>1, <5>1, <5>2
        <5> QED
          BY <5>2, <5>3, <3>3
      <4> QED
        BY <4>1, <4>2
    <3>6. OwnerInv'
      BY <3>4, <3>5, <2>3 DEF OwnerInv, EPollInv, EPollTypeOK
    <3>7. BatchInv'
      BY <3>1, <2>1, <2>2, <2>4 DEF BatchInv
    <3> QED
      BY <3>6, <3>7
  <2> QED
    BY <2>5, <2>6, <2>7, <2>8 DEF EPollInv
<1>4. CASE addEvents
  <2>1. /\ obj'.fd = obj.fd /\ obj'.table = obj.table /\ obj'.kset = obj.kset
        /\ obj'.made = obj.made /\ obj'.who = obj.who /\ obj'.freed = obj.freed
        /\ obj'.batch = obj.batch /\ obj'.told = obj.told /\ obj'.dead = obj.dead
        /\ obj'.adds = obj.adds /\ obj'.careful = obj.careful /\ obj'.wild = obj.wild
        /\ DOMAIN obj' = DOMAIN obj /\ class' = class /\ pc' = [pc EXCEPT !["u1"] = "idle"]
    BY <1>4 DEF addEvents, EPollInv, EPollTypeOK
  <2> QED
    BY <2>1 DEF EPollInv, EPollTypeOK, OneFdEach, AddInv, TableInv, OwnerInv, BatchInv
<1>5. ASSUME NEW c \in Conns, peerCloses(c) PROVE EPollInv'
  <2>1. /\ obj'.fd = obj.fd /\ obj'.table = obj.table /\ obj'.kset = obj.kset
        /\ obj'.made = obj.made /\ obj'.who = obj.who /\ obj'.freed = obj.freed
        /\ obj'.batch = obj.batch /\ obj'.told = obj.told /\ obj'.dead = obj.dead
        /\ obj'.adds = obj.adds /\ obj'.careful = obj.careful /\ obj'.wild = obj.wild
        /\ DOMAIN obj' = DOMAIN obj /\ class' = class /\ pc' = pc
    BY <1>5 DEF peerCloses, EPollInv, EPollTypeOK
  <2> QED
    BY <2>1 DEF EPollInv, EPollTypeOK, OneFdEach, AddInv, TableInv, OwnerInv, BatchInv
<1>6. CASE doPoll
  <2>1. CASE obj.stoped
    <3>1. obj' = obj /\ class' = class /\ pc' = [pc EXCEPT !["poll"] = "done"]
      BY <1>6, <2>1 DEF doPoll
    <3> QED
      BY <3>1 DEF EPollInv, EPollTypeOK, OneFdEach, AddInv, TableInv, OwnerInv, BatchInv
  <2>2. CASE ~obj.stoped
    <3> DEFINE batch == {<<obj.kset[f], f \in obj.hup>> : f \in ReadyFds}
    <3>1. /\ obj'.fd = obj.fd /\ obj'.table = obj.table /\ obj'.kset = obj.kset
          /\ obj'.made = obj.made /\ obj'.who = obj.who /\ obj'.freed = obj.freed
          /\ obj'.batch = batch /\ obj'.told = obj.told /\ obj'.dead = obj.dead
          /\ obj'.adds = obj.adds /\ obj'.careful = obj.careful /\ obj'.wild = obj.wild
          /\ DOMAIN obj' = DOMAIN obj /\ class' = class /\ pc' = [pc EXCEPT !["poll"] = "follow"]
      BY <1>6, <2>2 DEF doPoll, EPollInv, EPollTypeOK
    <3>2. EPollTypeOK' /\ OneFdEach' /\ AddInv' /\ TableInv'
      BY <3>1 DEF EPollInv, EPollTypeOK, OneFdEach, AddInv, TableInv
    <3>3. ASSUME obj.careful PROVE OwnerInv' /\ BatchInv'
      <4>1. \A e \in batch : \E f \in Fds : /\ obj.kset[f] # 0 /\ e[1] = obj.kset[f]
                                            /\ e = <<obj.kset[f], f \in obj.hup>>
        BY DEF ReadyFds
      <4>2. \A f \in Fds : obj.kset[f] # 0 => /\ obj.kset[f] = obj.table[f]
                                              /\ obj.kset[f] \in 1..obj.made
                                              /\ obj.kset[f] \notin obj.freed
        BY DEF EPollInv, EPollTypeOK, TableInv
      <4>3. \A e, d \in batch : e[1] = d[1] => e = d
        BY <4>1, <4>2 DEF EPollInv, TableInv
      <4>4. \A e \in batch : e[1] \in 1..obj.made /\ e[1] \notin obj.freed
        BY <4>1, <4>2
      <4>5. OwnerInv'
        BY <3>1, <3>3 DEF EPollInv, EPollTypeOK, OwnerInv
      <4> HIDE DEF batch
      <4> QED
        BY <4>3, <4>4, <4>5, <3>1, <3>3 DEF BatchInv, EPollInv
    <3> HIDE DEF batch
    <3> QED
      BY <3>1, <3>2, <3>3 DEF EPollInv
  <2> QED
    BY <2>1, <2>2
<1>7. CASE batchDone
  <2>1. obj' = obj /\ class' = class /\ pc' = [pc EXCEPT !["poll"] = "loop"]
    BY <1>7 DEF batchDone
  <2> QED
    BY <2>1 DEF EPollInv, EPollTypeOK, OneFdEach, AddInv, TableInv, OwnerInv, BatchInv
<1>8. ASSUME NEW i \in InfoIds, NEW b \in BOOLEAN, update(i, b) PROVE EPollInv'
  <2> DEFINE e == <<i, b>>
             c == obj.who[i]
             f == obj.fd[c]
  <2>1. e \in obj.batch /\ pc' = pc /\ class' = class /\ c \in Conns
    BY <1>8 DEF update, EPollInv, EPollTypeOK
  <2>2. CASE b /\ ~Gone(i) /\ f # 0 /\ obj.table[f] # 0
    <3>1. f \in Fds
      BY <2>1, <2>2 DEF EPollInv, EPollTypeOK
    <3>2. obj' = [[obj EXCEPT !.freed = @ \union {obj.table[f]}, !.table[f] = 0, !.kset[f] = 0,
                              !.asked = @ \ {f}]
                    EXCEPT !.batch = @ \ {e}, !.wild = @ \/ FALSE, !.told = @ \union {c}]
      BY <1>8, <2>2 DEF update, delFd
    <3>3. /\ obj'.fd = obj.fd /\ obj'.table = [obj.table EXCEPT ![f] = 0]
          /\ obj'.kset = [obj.kset EXCEPT ![f] = 0] /\ obj'.made = obj.made
          /\ obj'.who = obj.who /\ obj'.freed = obj.freed \union {obj.table[f]}
          /\ obj'.batch = obj.batch \ {e} /\ obj'.told = obj.told \union {c}
          /\ obj'.dead = obj.dead /\ obj'.adds = obj.adds /\ obj'.careful = obj.careful
          /\ obj'.wild = (obj.wild \/ FALSE)
          /\ DOMAIN obj' = DOMAIN obj
      <4> HIDE DEF f, c, e
      <4> QED
        BY <3>2 DEF EPollInv, EPollTypeOK
    <3>4. \A g \in Fds : /\ obj'.table[g] = (IF g = f THEN 0 ELSE obj.table[g])
                         /\ obj'.kset[g] = (IF g = f THEN 0 ELSE obj.kset[g])
      BY <3>3 DEF EPollInv, EPollTypeOK
    <3>5. obj.table[f] \in 1..obj.made
      BY <2>2, <3>1 DEF EPollInv, EPollTypeOK, TableInv
    <3> HIDE DEF f, c, e
    <3>6. EPollTypeOK' /\ OneFdEach' /\ AddInv'
      BY <2>1, <3>1, <3>3 DEF EPollInv, EPollTypeOK, OneFdEach, AddInv
    <3>7. TableInv'
      <4>1. \A g \in Fds : g # f => obj.table[g] = 0 \/ obj.table[g] # obj.table[f]
        BY <3>1 DEF EPollInv, TableInv
      <4> QED
        BY <4>1, <3>3, <3>4, <3>5 DEF EPollInv, EPollTypeOK, TableInv
    <3>8. ASSUME obj.careful PROVE OwnerInv' /\ BatchInv'
      <4>1. OwnerInv /\ BatchInv
        BY <3>8 DEF EPollInv
      <4>2. \A g \in Fds : obj.table[g] # 0 => obj.who[obj.table[g]] \in Conns
        BY <1>0 DEF EPollInv, EPollTypeOK, TableInv, InfoIds
      <4>3. i \in 1..obj.made /\ i \notin obj.freed /\ e[1] = i
        BY <2>1, <4>1 DEF BatchInv, e
      <4>4. obj.table[f] = i
        <5>1. PICK g \in Fds : obj.table[g] = i
          BY <4>1, <4>3 DEF OwnerInv
        <5> QED
          BY <5>1, <4>1, <4>3 DEF OwnerInv, f, c
      <4>5. \A g \in Fds : g # f /\ obj.table[g] # 0 => obj.who[obj.table[g]] # c
        BY <4>1 DEF OwnerInv, f
      <4>6. pc'["u1"] = "add" => /\ obj'.table[obj'.fd[obj'.adds]] = 0
                                 /\ obj'.adds \notin obj'.told \union obj'.dead
        <5> SUFFICES ASSUME pc["u1"] = "add"
                     PROVE  /\ obj'.table[obj'.fd[obj'.adds]] = 0
                            /\ obj'.adds \notin obj'.told \union obj'.dead
          BY <2>1
        <5>1. /\ obj.table[obj.fd[obj.adds]] = 0 /\ obj.adds \notin obj.told \union obj.dead
              /\ obj.fd[obj.adds] # 0 /\ obj.fd[obj.adds] \in Fds
          BY <4>1 DEF OwnerInv, EPollInv, EPollTypeOK, AddInv
        <5>2. obj.adds # c
          BY <5>1, <2>2, <4>4, <4>3 DEF f
        <5> QED
          BY <5>1, <5>2, <3>3, <3>4
      <4>7. OwnerInv'
        <5>1. \A k \in 1..obj'.made : k \notin obj'.freed => \E g \in Fds : obj'.table[g] = k
          BY <3>3, <3>4, <4>1 DEF OwnerInv
        <5>2. \A g \in Fds :
                obj'.table[g] # 0 => /\ obj'.kset[g] = obj'.table[g]
                                     /\ obj'.fd[obj'.who[obj'.table[g]]] = g
                                     /\ obj'.who[obj'.table[g]] \notin obj'.told \union obj'.dead
          BY <3>3, <3>4, <4>1, <4>5 DEF OwnerInv
        <5> QED
          BY <5>1, <5>2, <4>6 DEF OwnerInv
      <4>8. BatchInv'
        BY <2>1, <3>3, <4>1, <4>3, <4>4 DEF BatchInv
      <4> QED
        BY <4>7, <4>8
    <3> QED
      BY <3>3, <3>6, <3>7, <3>8 DEF EPollInv
  <2>3. CASE ~(b /\ ~Gone(i) /\ f # 0 /\ obj.table[f] # 0)
    <3> DEFINE told == IF b /\ ~Gone(i) THEN obj.told \union {c} ELSE obj.told
    <3>1. (IF b /\ ~Gone(i) THEN delFd(f) ELSE obj) = obj
      BY <2>3 DEF delFd
    <3>2. obj' = [obj EXCEPT !.batch = @ \ {e}, !.wild = @ \/ Gone(i), !.told = told]
      BY <1>8, <3>1 DEF update
    <3>3. /\ obj'.fd = obj.fd /\ obj'.table = obj.table /\ obj'.kset = obj.kset
          /\ obj'.made = obj.made /\ obj'.who = obj.who /\ obj'.freed = obj.freed
          /\ obj'.batch = obj.batch \ {e} /\ obj'.told = told /\ obj'.dead = obj.dead
          /\ obj'.adds = obj.adds /\ obj'.careful = obj.careful
          /\ obj'.wild = (obj.wild \/ Gone(i))
          /\ DOMAIN obj' = DOMAIN obj
      <4> HIDE DEF told, f, c, e
      <4> QED
        BY <3>2 DEF EPollInv, EPollTypeOK
    <3>4. EPollTypeOK' /\ OneFdEach' /\ AddInv' /\ TableInv'
      BY <2>1, <3>3 DEF EPollInv, EPollTypeOK, OneFdEach, AddInv, TableInv
    <3>5. ASSUME obj.careful PROVE OwnerInv' /\ BatchInv'
      <4>1. OwnerInv /\ BatchInv
        BY <3>5 DEF EPollInv
      <4>2. i \in 1..obj.made /\ i \notin obj.freed
        BY <2>1, <4>1 DEF BatchInv
      <4>3. PICK g \in Fds : obj.table[g] = i
        BY <4>1, <4>2 DEF OwnerInv
      <4>4. f = g /\ obj.table[f] # 0 /\ f # 0 /\ c \notin obj.dead
        BY <1>0, <4>1, <4>2, <4>3 DEF OwnerInv
      <4>5. ~Gone(i) /\ ~b
        BY <2>3, <4>2, <4>4 DEF Gone
      <4>6. obj'.told = obj.told /\ ~obj'.wild
        BY <3>3, <4>5, <4>1 DEF BatchInv
      <4>7. OwnerInv'
        BY <2>1, <3>3, <4>1, <4>6 DEF OwnerInv
      <4> HIDE DEF e
      <4>8. BatchInv'
        BY <3>3, <4>1, <4>6 DEF BatchInv
      <4> QED
        BY <4>7, <4>8
    <3> HIDE DEF told
    <3> QED
      BY <3>3, <3>4, <3>5 DEF EPollInv
  <2> QED
    BY <2>2, <2>3
<1>9. CASE pollStart
  <2>1. /\ obj'.fd = obj.fd /\ obj'.table = obj.table /\ obj'.kset = obj.kset
        /\ obj'.made = obj.made /\ obj'.who = obj.who /\ obj'.freed = obj.freed
        /\ obj'.batch = obj.batch /\ obj'.told = obj.told /\ obj'.dead = obj.dead
        /\ obj'.adds = obj.adds /\ obj'.careful = obj.careful /\ obj'.wild = obj.wild
        /\ DOMAIN obj' = DOMAIN obj /\ class' = class
    BY <1>9 DEF pollStart, EPollInv, EPollTypeOK
  <2>2. pc' = pc \/ pc' = [pc EXCEPT !["poll"] = "loop"]
    BY <1>9 DEF pollStart, EPollInv, EPollTypeOK
  <2> QED
    BY <2>1, <2>2 DEF EPollInv, EPollTypeOK, OneFdEach, AddInv, TableInv, OwnerInv, BatchInv
<1>10. CASE pollStop
  <2>1. /\ obj'.fd = obj.fd /\ obj'.table = obj.table /\ obj'.kset = obj.kset
        /\ obj'.made = obj.made /\ obj'.who = obj.who /\ obj'.freed = obj.freed
        /\ obj'.batch = obj.batch /\ obj'.told = obj.told /\ obj'.dead = obj.dead
        /\ obj'.adds = obj.adds /\ obj'.careful = obj.careful /\ obj'.wild = obj.wild
        /\ DOMAIN obj' = DOMAIN obj /\ class' = class /\ pc' = [pc EXCEPT !["u3"] = "join"]
    BY <1>10 DEF pollStop, EPollInv, EPollTypeOK
  <2> QED
    BY <2>1 DEF EPollInv, EPollTypeOK, OneFdEach, AddInv, TableInv, OwnerInv, BatchInv
<1>11. CASE pollJoined
  <2>1. obj' = obj /\ class' = class /\ pc' = [pc EXCEPT !["u3"] = "idle"]
    BY <1>11 DEF pollJoined
  <2> QED
    BY <2>1 DEF EPollInv, EPollTypeOK, OneFdEach, AddInv, TableInv, OwnerInv, BatchInv
<1>12. CASE pollStopSelf
  <2>1. /\ obj'.fd = obj.fd /\ obj'.table = obj.table /\ obj'.kset = obj.kset
        /\ obj'.made = obj.made /\ obj'.who = obj.who /\ obj'.freed = obj.freed
        /\ obj'.batch = obj.batch /\ obj'.told = obj.told /\ obj'.dead = obj.dead
        /\ obj'.adds = obj.adds /\ obj'.careful = obj.careful /\ obj'.wild = obj.wild
        /\ DOMAIN obj' = DOMAIN obj /\ class' = class /\ pc' = pc
    BY <1>12 DEF pollStopSelf, EPollInv, EPollTypeOK
  <2> QED
    BY <2>1 DEF EPollInv, EPollTypeOK, OneFdEach, AddInv, TableInv, OwnerInv, BatchInv
<1>13. CASE UNCHANGED mvars
  <2>1. obj' = obj /\ class' = class /\ pc' = pc
    BY <1>13 DEF mvars
  <2> QED
    BY <2>1 DEF EPollInv, EPollTypeOK, OneFdEach, AddInv, TableInv, OwnerInv, BatchInv
<1> QED
  BY <1>1, <1>2, <1>3, <1>4, <1>5, <1>6, <1>7, <1>8, <1>9, <1>10, <1>11, <1>12, <1>13
     DEF EPollNext

(* PollExact, for any number of connections and FdInfos: with a user who    *)
(* waits for the close callback the poll thread, which holds no lock while  *)
(* it follows its batch, never meets what is gone; and with any user the    *)
(* kernel's pointers are to FdInfos of the table.                           *)
THEOREM PollExactAlways == EPollSpec => []PollExact
<1>1. EPollInv => PollExact
  <2> SUFFICES ASSUME EPollInv PROVE PointersLive /\ SetMatchesTable
    BY DEF PollExact
  <2>1. SetMatchesTable
    BY DEF SetMatchesTable, EPollInv, TableInv, NoInfo
  <2>2. ASSUME obj.careful, NEW i \in 1..obj.made
        PROVE  (i \in obj.freed) # (\E f \in Fds : obj.table[f] = i /\ obj.kset[f] = i)
    <3>1. i # 0
      BY DEF EPollInv, EPollTypeOK
    <3>2. i \in obj.freed => ~\E f \in Fds : obj.table[f] = i
      BY <3>1 DEF EPollInv, TableInv
    <3>3. i \notin obj.freed => \E f \in Fds : obj.table[f] = i /\ obj.kset[f] = i
      BY <2>2, <3>1 DEF EPollInv, OwnerInv
    <3> QED
      BY <3>2, <3>3
  <2>3. PointersLive
    BY <2>2 DEF PointersLive, EPollInv, BatchInv
  <2> QED
    BY <2>1, <2>3
<1> QED
  BY <1>1, EPollInvInit, EPollInvNext, PTL DEF EPollSpec

-----------------------------------------------------------------------------
(* Gates.  A delay whose sleeper a cancel() has found is awake, canceled,   *)
(* and on its way to return false; a run() that exit() was for has not      *)
(* returned, and while no other began meanwhile the flag and the code are   *)
(* what exit() left.                                                        *)
DelayInv ==
  /\ pc \in [{"u1", "u2"} -> {"idle", "lock", "wait", "notify"}]
  /\ DOMAIN obj = {"canceled", "asleep", "time", "hit", "result"}
  /\ pc["u1"] # "notify" /\ (pc["u1"] \in {"lock", "wait"} => obj.result = "none")
  /\ obj.asleep => pc["u1"] = "wait" /\ ~obj.hit
  /\ obj.hit /\ pc["u1"] = "wait" => obj.canceled
  /\ obj.hit => pc["u1"] # "lock"
  /\ obj.hit /\ pc["u1"] = "idle" => obj.result = "canceled"
AppInv ==
  /\ pc \in [Callers -> {"idle", "running", "waiting", "leaving"}]
  /\ DOMAIN obj = {"running", "exitCode", "ended", "again", "result"}
  /\ obj.ended \subseteq Runs /\ \A t \in obj.ended : pc[t] # "idle"
  /\ ~obj.again /\ obj.ended # {} => ~obj.running /\ obj.exitCode = 1
ThreadInv ==
  /\ DOMAIN obj = {"joinable", "part", "joined", "detached", "on"}
  /\ obj.part => FALSE \notin obj.on
GatesInv ==
  /\ class \in {"delay", "app", "sync", "thread"}
  /\ class = "delay" => DelayInv
  /\ class = "app" => AppInv
  /\ class = "thread" => ThreadInv

(* Every class begins with nobody waiting.                                  *)
LEMMA GatesInvInit == GatesInit => GatesInv
<1>1. DelayInit => class = "delay" /\ DelayInv
  BY DEF DelayInit, DelayInv
<1>2. AppInit => class = "app" /\ AppInv
  BY DEF AppInit, AppInv
<1>3. ThreadInit => class = "thread" /\ ThreadInv
  BY DEF ThreadInit, ThreadInv
<1>4. SyncInit => class = "sync"
  BY DEF SyncInit
<1> QED
  BY <1>1, <1>2, <1>3, <1>4 DEF GatesInit, GatesInv

(* Every step of delay(), cancel() and the clock keeps DelayInv.            *)
LEMMA DelayStep == class = "delay" /\ DelayInv /\ DelayNext => class' = "delay" /\ DelayInv'
<1> SUFFICES ASSUME class = "delay", DelayInv, DelayNext PROVE class' = "delay" /\ DelayInv'
  OBVIOUS
<1> USE DEF At, Go, Stay
<1>1. CASE delay
  <2>1. /\ obj'.canceled = FALSE /\ obj'.asleep = obj.asleep /\ obj'.hit = FALSE
        /\ obj'.result = "none" /\ DOMAIN obj' = DOMAIN obj
        /\ class' = class /\ pc' = [pc EXCEPT !["u1"] = "lock"] /\ pc["u1"] = "idle"
    BY <1>1 DEF delay, DelayInv
  <2> QED
    BY <2>1 DEF DelayInv
<1>2. CASE delayWait
  <2>1. CASE obj.time
    <3>1. /\ obj'.canceled = obj.canceled /\ obj'.asleep = obj.asleep /\ obj'.hit = obj.hit
          /\ obj'.result = "elapsed" /\ DOMAIN obj' = DOMAIN obj
          /\ class' = class /\ pc' = [pc EXCEPT !["u1"] = "idle"] /\ pc["u1"] = "lock"
      BY <1>2, <2>1 DEF delayWait, DelayInv
    <3> QED
      BY <3>1 DEF DelayInv
  <2>2. CASE ~obj.time
    <3>1. /\ obj'.canceled = obj.canceled /\ obj'.asleep = TRUE /\ obj'.hit = obj.hit
          /\ obj'.result = obj.result /\ DOMAIN obj' = DOMAIN obj
          /\ class' = class /\ pc' = [pc EXCEPT !["u1"] = "wait"] /\ pc["u1"] = "lock"
      BY <1>2, <2>2 DEF delayWait, DelayInv
    <3> QED
      BY <3>1 DEF DelayInv
  <2> QED
    BY <2>1, <2>2
<1>3. CASE delayTime
  <2>1. /\ obj'.canceled = obj.canceled /\ obj'.asleep = FALSE /\ obj'.hit = obj.hit
        /\ obj'.result = "elapsed" /\ DOMAIN obj' = DOMAIN obj /\ obj.asleep
        /\ class' = class /\ pc' = [pc EXCEPT !["u1"] = "idle"]
    BY <1>3 DEF delayTime, DelayInv
  <2> QED
    BY <2>1 DEF DelayInv
<1>4. CASE delayPassing
  <2>1. /\ obj'.canceled = obj.canceled /\ obj'.asleep = obj.asleep /\ obj'.hit = obj.hit
        /\ obj'.result = obj.result /\ DOMAIN obj' = DOMAIN obj
        /\ class' = class /\ pc' = pc
    BY <1>4 DEF delayPassing, DelayInv
  <2> QED
    BY <2>1 DEF DelayInv
<1>5. CASE delayWoken
  <2>1. CASE obj.canceled
    <3>1. /\ obj'.canceled = obj.canceled /\ obj'.asleep = obj.asleep /\ obj'.hit = obj.hit
          /\ obj'.result = "canceled" /\ DOMAIN obj' = DOMAIN obj /\ ~obj.asleep
          /\ class' = class /\ pc' = [pc EXCEPT !["u1"] = "idle"] /\ pc["u1"] = "wait"
      BY <1>5, <2>1 DEF delayWoken, DelayInv
    <3> QED
      BY <3>1 DEF DelayInv
  <2>2. CASE ~obj.canceled
    <3>1. /\ obj' = obj /\ class' = class /\ ~obj.asleep
          /\ pc' = [pc EXCEPT !["u1"] = "lock"] /\ pc["u1"] = "wait"
      BY <1>5, <2>2 DEF delayWoken
    <3> QED
      BY <2>2, <3>1 DEF DelayInv
  <2> QED
    BY <2>1, <2>2
<1>6. CASE cancel
  <2>1. /\ obj'.canceled = TRUE /\ obj'.asleep = obj.asleep /\ obj'.hit = obj.hit
        /\ obj'.result = obj.result /\ DOMAIN obj' = DOMAIN obj
        /\ class' = class /\ pc' = [pc EXCEPT !["u2"] = "notify"]
    BY <1>6 DEF cancel, DelayInv
  <2> QED
    BY <2>1 DEF DelayInv
<1>7. CASE cancelNotify
  <2>1. /\ obj'.canceled = obj.canceled /\ obj'.asleep = FALSE
        /\ obj'.hit = (obj.hit \/ (obj.asleep /\ obj.canceled))
        /\ obj'.result = obj.result /\ DOMAIN obj' = DOMAIN obj
        /\ class' = class /\ pc' = [pc EXCEPT !["u2"] = "idle"]
    BY <1>7 DEF cancelNotify, DelayInv
  <2> QED
    BY <2>1 DEF DelayInv
<1> QED
  BY <1>1, <1>2, <1>3, <1>4, <1>5, <1>6, <1>7 DEF DelayNext

(* Every step of run() and exit() keeps AppInv.                             *)
LEMMA AppStep == class = "app" /\ AppInv /\ AppNext => class' = "app" /\ AppInv'
<1> SUFFICES ASSUME class = "app", AppInv, AppNext PROVE class' = "app" /\ AppInv'
  OBVIOUS
<1> USE DEF At, Go, Stay, Runs, Callers
<1>1. CASE exit
  <2>1. /\ obj'.running = FALSE /\ obj'.exitCode = 1 /\ obj'.ended = {t \in Runs : InCall(t)}
        /\ obj'.again = obj.again /\ DOMAIN obj' = DOMAIN obj
        /\ class' = class /\ pc' = pc
    BY <1>1 DEF exit, AppInv
  <2> QED
    BY <2>1 DEF AppInv, InCall, Rest
<1>2. ASSUME NEW t \in Runs, run(t) PROVE class' = "app" /\ AppInv'
  <2>1. CASE obj.running
    <3>1. /\ obj'.running = obj.running /\ obj'.exitCode = obj.exitCode
          /\ obj'.ended = obj.ended /\ obj'.again = obj.again /\ DOMAIN obj' = DOMAIN obj
          /\ class' = class /\ pc' = pc
      BY <1>2, <2>1 DEF run, AppInv
    <3> QED
      BY <3>1 DEF AppInv
  <2>2. CASE ~obj.running
    <3>1. /\ obj'.running = TRUE /\ obj'.exitCode = 0 /\ obj'.ended = obj.ended
          /\ obj'.again = (\E u \in Runs : InCall(u)) /\ DOMAIN obj' = DOMAIN obj
          /\ class' = class /\ pc' = [pc EXCEPT ![t] = "running"] /\ pc[t] = "idle"
      BY <1>2, <2>2 DEF run, AppInv
    <3>2. \A u \in obj.ended : InCall(u)
      BY DEF AppInv, InCall, Rest
    <3>3. obj.ended # {} => obj'.again
      BY <3>1, <3>2 DEF AppInv
    <3> QED
      BY <3>1, <3>3 DEF AppInv
  <2> QED
    BY <2>1, <2>2
<1>3. ASSUME NEW t \in Runs, runWaits(t) PROVE class' = "app" /\ AppInv'
  <2>1. obj' = obj /\ class' = class /\ pc' = [pc EXCEPT ![t] = "waiting"]
    BY <1>3 DEF runWaits
  <2> QED
    BY <2>1 DEF AppInv
<1>4. ASSUME NEW t \in Runs, runWoken(t) PROVE class' = "app" /\ AppInv'
  <2>1. obj' = obj /\ class' = class /\ pc' = [pc EXCEPT ![t] = "leaving"]
    BY <1>4 DEF runWoken
  <2> QED
    BY <2>1 DEF AppInv
<1>5. ASSUME NEW t \in Runs, runReturns(t) PROVE class' = "app" /\ AppInv'
  <2>1. /\ obj'.running = FALSE /\ obj'.exitCode = obj.exitCode /\ obj'.ended = obj.ended \ {t}
        /\ obj'.again = obj.again /\ DOMAIN obj' = DOMAIN obj
        /\ class' = class /\ pc' = [pc EXCEPT ![t] = "idle"]
    BY <1>5 DEF runReturns, AppInv
  <2> QED
    BY <2>1 DEF AppInv
<1> QED
  BY <1>1, <1>2, <1>3, <1>4, <1>5 DEF AppNext

(* Every step of the thread and of its owner keeps ThreadInv: once the      *)
(* derived part is gone it does not come back.                              *)
LEMMA ThreadStep ==
  class = "thread" /\ ThreadInv /\ ThreadNext => class' = "thread" /\ ThreadInv'
<1> SUFFICES ASSUME class = "thread", ThreadInv, ThreadNext
             PROVE  class' = "thread" /\ ThreadInv'
  OBVIOUS
<1> USE DEF At, Go, Stay
<1>1. CASE threadStart \/ threadJoin \/ detach \/ threadDestroyed
  <2>1. obj'.part = obj.part /\ obj'.on = obj.on /\ DOMAIN obj' = DOMAIN obj /\ class' = class
    BY <1>1 DEF threadStart, threadJoin, detach, threadDestroyed, ThreadInv
  <2> QED
    BY <2>1 DEF ThreadInv
<1>2. CASE threadRun \/ threadEnds
  <2>1. /\ obj'.part = obj.part /\ obj'.on = obj.on \union {obj.part}
        /\ DOMAIN obj' = DOMAIN obj /\ class' = class
    BY <1>2 DEF threadRun, threadEnds, ThreadInv
  <2> QED
    BY <2>1 DEF ThreadInv
<1>3. CASE destroyDerived
  <2>1. /\ obj'.part = FALSE /\ DOMAIN obj' = DOMAIN obj /\ class' = class
    BY <1>3 DEF destroyDerived, ThreadInv
  <2> QED
    BY <2>1 DEF ThreadInv
<1> QED
  BY <1>1, <1>2, <1>3 DEF ThreadNext

(* Every step of one of the classes keeps GatesInv.                         *)
LEMMA GatesInvNext == GatesInv /\ [GatesNext]_mvars => GatesInv'
<1> SUFFICES ASSUME GatesInv, [GatesNext]_mvars PROVE GatesInv'
  OBVIOUS
<1>1. CASE UNCHANGED mvars
  <2>1. class' = class /\ pc' = pc /\ obj' = obj
    BY <1>1 DEF mvars
  <2> QED
    BY <2>1 DEF GatesInv, DelayInv, AppInv, ThreadInv
<1>2. CASE DelayNext
  <2>1. class = "delay"
    BY <1>2 DEF DelayNext, delay, delayWait, delayTime, delayPassing, delayWoken, cancel,
       cancelNotify
  <2> QED
    BY <1>2, <2>1, DelayStep DEF GatesInv
<1>3. CASE AppNext
  <2>1. class = "app"
    BY <1>3 DEF AppNext, exit, run, runWaits, runWoken, runReturns
  <2> QED
    BY <1>3, <2>1, AppStep DEF GatesInv
<1>4. CASE SyncNext
  <2>1. class = "sync" /\ class' = class
    BY <1>4 DEF SyncNext, syncWait, syncWoken, syncTimeout, notifyOne, notifyAll, Stay
  <2> QED
    BY <2>1 DEF GatesInv
<1>5. CASE ThreadNext
  <2>1. class = "thread"
    BY <1>5 DEF ThreadNext, threadStart, threadRun, threadEnds, threadJoin, detach,
       destroyDerived, threadDestroyed
  <2> QED
    BY <1>5, <2>1, ThreadStep DEF GatesInv
<1> QED
  BY <1>1, <1>2, <1>3, <1>4, <1>5 DEF GatesNext

(* GatesExact, whatever the callers do: a cancel that found the sleeper is  *)
(* seen, run() has the code of the exit() that ended it, and a thread whose *)
(* object still is whole has run on a whole object.                         *)
THEOREM GatesExactAlways == GatesSpec => []GatesExact
<1>1. GatesInv => GatesExact
  <2> SUFFICES ASSUME GatesInv PROVE CancelSeen /\ ExitCodeKept /\ RunsOnWhole
    BY DEF GatesExact
  <2>1. CancelSeen
    BY DEF CancelSeen, GatesInv, DelayInv
  <2>2. ExitCodeKept
    BY DEF ExitCodeKept, GatesInv, AppInv
  <2>3. RunsOnWhole
    BY DEF RunsOnWhole, GatesInv, ThreadInv
  <2> QED
    BY <2>1, <2>2, <2>3
<1> QED
  BY <1>1, GatesInvInit, GatesInvNext, PTL DEF GatesSpec

-----------------------------------------------------------------------------
(* Logging.  The records are those written, those in the batch and those    *)
(* not yet taken, in this order (All); a batch is on hand only between the  *)
(* two mutexes, and without a thread nothing is left to write.  An entry of *)
(* the table is there, or was removed, for whoever found one; and no two    *)
(* callers are about to make one unless they raced.                         *)
All == obj.out \o obj.batch \o obj.infos
Complete(s) == ToSet(s) = 1..obj.logged /\ Len(s) = obj.logged
LogListInv ==
  /\ pc \in [Callers \union {"batch"} -> {"idle", "done", "join", "loop", "woken", "write"}]
  /\ DOMAIN obj = {"threading", "stoped", "infos", "batch", "out", "logged", "asleep",
                   "overtaken", "starts"}
  /\ obj.logged \in Nat
  /\ obj.infos \in Seq(Nat) /\ obj.batch \in Seq(Nat) /\ obj.out \in Seq(Nat)
  /\ pc["batch"] # "write" => obj.batch = <<>>
  /\ ~obj.threading => obj.infos = <<>> /\ obj.batch = <<>>
  /\ Complete(All)
  /\ ~obj.overtaken => \A i \in 1..obj.logged : All[i] = i
LogTableInv ==
  /\ pc \in [Callers -> {"idle", "get", "create", "log"}]
  /\ DOMAIN obj = {"table", "made", "got", "dead", "lostOn", "raced"}
  /\ obj.made \in Nat /\ obj.table \in Nat /\ obj.got \in [Creators -> Nat]
  /\ \A t \in Creators : pc[t] = "get" /\ obj.table = 0 => obj.dead # {}
  /\ ~obj.raced => \A t, u \in Creators :
       pc[t] = "create" => obj.table = 0 /\ (pc[u] = "create" => u = t)
  /\ ~obj.raced => \A t \in Creators : pc[t] = "log" =>
       IF obj.got[t] = 0 THEN obj.dead # {} ELSE obj.got[t] \in {obj.table} \union obj.dead
LoggingInv ==
  /\ class \in {"logger", "log"}
  /\ class = "logger" => LogListInv
  /\ class = "log" => LogTableInv

(* The elements of a concatenation are those of its parts.                  *)
LEMMA ToSetConcat ==
  ASSUME NEW S, NEW s \in Seq(S), NEW t \in Seq(S)
  PROVE  ToSet(s \o t) = ToSet(s) \union ToSet(t)
<1>1. Len(s \o t) = Len(s) + Len(t) /\ Len(s) \in Nat /\ Len(t) \in Nat
  BY ConcatProperties, LenProperties
<1>2. /\ \A i \in 1..Len(s) : (s \o t)[i] = s[i]
      /\ \A i \in 1..Len(t) : (s \o t)[Len(s) + i] = t[i]
  BY <1>1, ConcatProperties
<1>3. ASSUME NEW i \in 1..Len(s \o t) PROVE (s \o t)[i] \in ToSet(s) \union ToSet(t)
  <2>1. CASE i <= Len(s)
    BY <1>1, <1>2, <2>1 DEF ToSet
  <2>2. CASE ~(i <= Len(s))
    <3>1. i - Len(s) \in 1..Len(t) /\ i = Len(s) + (i - Len(s))
      BY <1>1, <2>2
    <3>2. (s \o t)[i] = t[i - Len(s)]
      BY <1>2, <3>1
    <3> QED
      BY <3>1, <3>2 DEF ToSet
  <2> QED
    BY <2>1, <2>2
<1>4. \A i \in 1..Len(s) : i \in 1..Len(s \o t)
  BY <1>1
<1>5. \A i \in 1..Len(t) : Len(s) + i \in 1..Len(s \o t)
  BY <1>1
<1>6. s \o t \in Seq(S)
  BY ConcatProperties
<1>7. DOMAIN s = 1..Len(s) /\ DOMAIN t = 1..Len(t) /\ DOMAIN (s \o t) = 1..Len(s \o t)
  BY <1>6, LenProperties
<1> DEFINE st == s \o t
<1>8. ToSet(st) \subseteq ToSet(s) \union ToSet(t)
  BY <1>3, <1>7 DEF ToSet
<1>9. \A i \in 1..Len(s) : s[i] \in ToSet(st)
  <2>1. \A i \in 1..Len(s) : i \in DOMAIN st /\ st[i] = s[i]
    BY <1>2, <1>4, <1>7
  <2> HIDE DEF st
  <2> QED
    BY <2>1 DEF ToSet
<1>10. \A i \in 1..Len(t) : t[i] \in ToSet(st)
  <2>1. \A i \in 1..Len(t) : Len(s) + i \in DOMAIN st /\ st[Len(s) + i] = t[i]
    BY <1>2, <1>5, <1>7
  <2> HIDE DEF st
  <2> QED
    BY <2>1 DEF ToSet
<1> HIDE DEF st
<1>11. ToSet(s) \subseteq ToSet(st) /\ ToSet(t) \subseteq ToSet(st)
  BY <1>7, <1>9, <1>10 DEF ToSet
<1> QED
  BY <1>8, <1>11 DEF st

(* What three sequences in a row are made of.                               *)
LEMMA ThreeInRow ==
  \A a, b, c \in Seq(Nat) :
    /\ (a \o b) \o c \in Seq(Nat) /\ (a \o b) \o c = a \o (b \o c)
    /\ ToSet((a \o b) \o c) = ToSet(a) \union ToSet(b) \union ToSet(c)
    /\ Len((a \o b) \o c) = Len(a) + Len(b) + Len(c)
    /\ Len(a) \in Nat /\ Len(b) \in Nat /\ Len(c) \in Nat
<1>1. \A s, t \in Seq(Nat) : ToSet(s \o t) = ToSet(s) \union ToSet(t)
  BY ToSetConcat
<1>2. \A s, t \in Seq(Nat) : s \o t \in Seq(Nat) /\ Len(s \o t) = Len(s) + Len(t)
  OBVIOUS
<1>3. \A a, b, c \in Seq(Nat) : (a \o b) \o c = a \o (b \o c)
  OBVIOUS
<1> SUFFICES ASSUME NEW a \in Seq(Nat), NEW b \in Seq(Nat), NEW c \in Seq(Nat)
             PROVE  /\ (a \o b) \o c \in Seq(Nat) /\ (a \o b) \o c = a \o (b \o c)
                    /\ ToSet((a \o b) \o c) = ToSet(a) \union ToSet(b) \union ToSet(c)
                    /\ Len((a \o b) \o c) = Len(a) + Len(b) + Len(c)
                    /\ Len(a) \in Nat /\ Len(b) \in Nat /\ Len(c) \in Nat
  OBVIOUS
<1>0. (a \o b) \o c = a \o (b \o c)
  BY <1>3
<1> DEFINE ab == a \o b
<1>4. ab \in Seq(Nat) /\ Len(ab) = Len(a) + Len(b) /\ ToSet(ab) = ToSet(a) \union ToSet(b)
  BY <1>1, <1>2
<1>5. Len(a) \in Nat /\ Len(b) \in Nat /\ Len(c) \in Nat
  BY LenProperties
<1> HIDE DEF ab
<1>6. ab \o c \in Seq(Nat) /\ Len(ab \o c) = Len(ab) + Len(c)
  BY <1>2, <1>4
<1>7. ToSet(ab \o c) = ToSet(a) \union ToSet(b) \union ToSet(c)
  BY <1>1, <1>4
<1> QED
  BY <1>0, <1>4, <1>5, <1>6, <1>7 DEF ab

(* One record more at the end: the next number.                             *)
LEMMA RecordAdded ==
  ASSUME NEW s \in Seq(Nat), NEW n \in Nat, ToSet(s) = 1..n, Len(s) = n
  PROVE  LET r == Append(s, n + 1)
         IN /\ ToSet(r) = 1..(n + 1) /\ Len(r) = n + 1
            /\ (\A i \in 1..n : s[i] = i) => \A i \in 1..(n + 1) : r[i] = i
<1> DEFINE r == Append(s, n + 1)
<1>1. /\ r \in Seq(Nat) /\ Len(r) = n + 1 /\ \A i \in 1..n : r[i] = s[i]
      /\ r[n + 1] = n + 1
  BY AppendProperties
<1>2. r = s \o <<n + 1>> /\ <<n + 1>> \in Seq(Nat)
  BY AppendIsConcat
<1>3. ToSet(<<n + 1>>) = {n + 1}
  BY DEF ToSet
<1>4. ToSet(r) = ToSet(s) \union {n + 1}
  <2> HIDE DEF r
  <2>1. ToSet(s \o <<n + 1>>) = ToSet(s) \union ToSet(<<n + 1>>)
    <3>1. \A a, b \in Seq(Nat) : ToSet(a \o b) = ToSet(a) \union ToSet(b)
      BY ToSetConcat
    <3> QED
      BY <1>2, <3>1, Zenon
  <2> QED
    BY <2>1, <1>2, <1>3
<1>5. (1..n) \union {n + 1} = 1..(n + 1)
  OBVIOUS
<1> HIDE DEF r
<1> QED
  BY <1>1, <1>4, <1>5 DEF r

(* At first nothing was logged and no logger made.                          *)
LEMMA LoggingInvInit == LoggingInit => LoggingInv
<1>1. LoggerInit => class = "logger" /\ LogListInv
  <2> SUFFICES ASSUME LoggerInit PROVE class = "logger" /\ LogListInv
    OBVIOUS
  <2>1. /\ obj.infos = <<>> /\ obj.batch = <<>> /\ obj.out = <<>> /\ obj.logged = 0
        /\ DOMAIN obj = {"threading", "stoped", "infos", "batch", "out", "logged", "asleep",
                         "overtaken", "starts"}
    BY DEF LoggerInit
  <2>2. <<>> \o <<>> \o <<>> = <<>>
    OBVIOUS
  <2>3. ToSet(<<>>) = {} /\ 1..0 = {}
    BY DEF ToSet
  <2> QED
    BY <2>1, <2>2, <2>3 DEF LoggerInit, LogListInv, Complete, All
<1>2. LogInit => class = "log" /\ LogTableInv
  BY DEF LogInit, LogTableInv, Creators, Callers
<1> QED
  BY <1>1, <1>2 DEF LoggingInit, LoggingInv

(* Every step of the callers of a Logger and of its thread keeps the        *)
(* records, and their order but for a flush() that overtakes a batch.       *)
LEMMA LogListStep ==
  class = "logger" /\ LogListInv /\ LoggerNext => class' = "logger" /\ LogListInv'
<1> SUFFICES ASSUME class = "logger", LogListInv, LoggerNext
             PROVE  class' = "logger" /\ LogListInv'
  OBVIOUS
<1> USE DEF At, Go, Stay
<1>0. /\ obj.out \in Seq(Nat) /\ obj.batch \in Seq(Nat) /\ obj.infos \in Seq(Nat)
      /\ obj.logged \in Nat /\ <<>> \in Seq(Nat)
      /\ obj.out \o obj.batch \in Seq(Nat) /\ All \in Seq(Nat)
      /\ \A s \in Seq(Nat) : s \o <<>> = s /\ <<>> \o s = s
  BY ConcatProperties, ConcatEmptySeq DEF LogListInv, All
<1>1. CASE LogStart \/ LogStop \/ LogJoined
  <2>1. /\ obj'.infos = obj.infos /\ obj'.batch = obj.batch /\ obj'.out = obj.out
        /\ obj'.logged = obj.logged /\ obj'.threading = obj.threading
        /\ obj'.overtaken = obj.overtaken /\ DOMAIN obj' = DOMAIN obj /\ class' = class
    BY <1>1 DEF LogStart, LogStop, LogJoined, LogListInv
  <2>2. \/ pc' = [pc EXCEPT !["batch"] = "loop"] /\ pc["batch"] = "done"
        \/ pc' = [pc EXCEPT !["u3"] = "join"] \/ pc' = [pc EXCEPT !["u3"] = "idle"]
    BY <1>1 DEF LogStart, LogStop, LogJoined
  <2> QED
    BY <2>1, <2>2 DEF LogListInv, All, Complete, Callers
<1>2. CASE LogRecord
  <2> DEFINE r == obj.logged + 1
  <2>1. /\ obj'.logged = r /\ obj'.batch = obj.batch /\ obj'.threading = obj.threading
        /\ obj'.overtaken = obj.overtaken /\ DOMAIN obj' = DOMAIN obj
        /\ class' = class /\ pc' = pc
        /\ obj'.infos = IF obj.threading THEN Append(obj.infos, r) ELSE obj.infos
        /\ obj'.out = IF obj.threading THEN obj.out ELSE Append(obj.out, r)
    BY <1>2 DEF LogRecord, LogListInv
  <2>2. r \in Nat /\ <<r>> \in Seq(Nat)
    BY <1>0
  <2> HIDE DEF r
  <2>3. All' = Append(All, r)
    <3>1. CASE obj.threading
      <4>1. Append(obj.infos, r) = obj.infos \o <<r>> /\ Append(All, r) = All \o <<r>>
        BY <1>0, <2>2, AppendIsConcat
      <4>2. (obj.out \o obj.batch) \o (obj.infos \o <<r>>) = All \o <<r>>
        <5> DEFINE x == obj.out \o obj.batch
                   y == <<r>>
        <5>1. x \in Seq(Nat) /\ y \in Seq(Nat) /\ obj.infos \in Seq(Nat)
          BY <1>0, <2>2
        <5> HIDE DEF x, y
        <5>2. (x \o obj.infos) \o y = x \o (obj.infos \o y)
          BY <5>1, ThreeInRow
        <5> QED
          BY <5>2 DEF All, x, y
      <4> QED
        BY <3>1, <4>1, <4>2, <2>1 DEF All
    <3>2. CASE ~obj.threading
      <4>1. obj.batch = <<>> /\ obj.infos = <<>>
        BY <3>2 DEF LogListInv
      <4>2. Append(obj.out, r) \in Seq(Nat)
        BY <1>0, <2>2, AppendProperties
      <4> QED
        BY <3>2, <4>1, <4>2, <1>0, <2>1 DEF All
    <3> QED
      BY <3>1, <3>2
  <2>4. /\ ToSet(All') = 1..r /\ Len(All') = r
        /\ (\A i \in 1..obj.logged : All[i] = i) => \A i \in 1..r : All'[i] = i
    <3>1. ToSet(All) = 1..obj.logged /\ Len(All) = obj.logged
      BY DEF LogListInv, Complete
    <3> QED
      BY <1>0, <2>3, <3>1, RecordAdded DEF r
  <2>5. /\ obj'.infos \in Seq(Nat) /\ obj'.out \in Seq(Nat)
        /\ ~obj'.threading => obj'.infos = <<>>
    BY <1>0, <2>1, <2>2, AppendProperties DEF LogListInv
  <2> QED
    BY <2>1, <2>2, <2>4, <2>5 DEF LogListInv, Complete
<1>3. CASE flush
  <2>1. /\ obj'.out = obj.out \o obj.infos /\ obj'.infos = <<>> /\ obj'.batch = obj.batch
        /\ obj'.overtaken = (obj.overtaken \/ (obj.batch # <<>> /\ obj.infos # <<>>))
        /\ obj'.logged = obj.logged /\ obj'.threading = obj.threading
        /\ DOMAIN obj' = DOMAIN obj /\ class' = class /\ pc' = pc
    BY <1>3 DEF flush, LogListInv
  <2>2. obj.out \o obj.infos \in Seq(Nat) /\ (obj.out \o obj.infos) \o obj.batch \in Seq(Nat)
    BY <1>0, ConcatProperties
  <2>3. All' = (obj.out \o obj.infos) \o obj.batch
    BY <1>0, <2>1, <2>2 DEF All
  <2>4. ToSet(All') = ToSet(All) /\ Len(All') = Len(All)
    <3> DEFINE now == (obj.out \o obj.infos) \o obj.batch
               old == (obj.out \o obj.batch) \o obj.infos
    <3>1. /\ ToSet(now) = ToSet(obj.out) \union ToSet(obj.infos) \union ToSet(obj.batch)
          /\ Len(now) = Len(obj.out) + Len(obj.infos) + Len(obj.batch)
          /\ Len(obj.out) \in Nat /\ Len(obj.batch) \in Nat /\ Len(obj.infos) \in Nat
      BY <1>0, ThreeInRow
    <3>2. /\ ToSet(old) = ToSet(obj.out) \union ToSet(obj.batch) \union ToSet(obj.infos)
          /\ Len(old) = Len(obj.out) + Len(obj.batch) + Len(obj.infos)
      BY <1>0, ThreeInRow
    <3>3. All' = now /\ All = old
      BY <2>3 DEF All
    <3> HIDE DEF now, old
    <3>4. Len(now) = Len(old)
      <4>1. \A i, j, k \in Nat : i + j + k = i + k + j
        OBVIOUS
      <4> QED
        BY <3>1, <3>2, <4>1, Zenon
    <3>5. ToSet(now) = ToSet(old)
      BY <3>1, <3>2
    <3> QED
      BY <3>3, <3>4, <3>5
  <2>6. ~obj'.overtaken => All' = All /\ ~obj.overtaken
    <3>1. ~obj'.overtaken => ~obj.overtaken /\ (obj.batch = <<>> \/ obj.infos = <<>>)
      BY <2>1
    <3> QED
      <4>1. \A a, b \in Seq(Nat) : (a \o b) \o <<>> = a \o b /\ (a \o <<>>) \o b = a \o b
        OBVIOUS
      <4>2. /\ (obj.out \o obj.batch) \o <<>> = obj.out \o obj.batch
            /\ (obj.out \o <<>>) \o obj.batch = obj.out \o obj.batch
            /\ (obj.out \o obj.infos) \o <<>> = obj.out \o obj.infos
            /\ (obj.out \o <<>>) \o obj.infos = obj.out \o obj.infos
        BY <1>0, <4>1
      <4>3. obj.batch = <<>> => All' = All
        BY <2>3, <4>2 DEF All
      <4>4. obj.infos = <<>> => All' = All
        BY <2>3, <4>2 DEF All
      <4> QED
        BY <3>1, <4>3, <4>4
  <2> QED
    BY <1>0, <2>1, <2>2, <2>4, <2>6 DEF LogListInv, Complete
<1>4. CASE BatchTake
  <2>1. pc["batch"] # "write" /\ obj.batch = <<>> /\ class' = class
    BY <1>4 DEF BatchTake, LogListInv
  <2>2. CASE ~obj.stoped /\ obj.infos # <<>>
    <3>1. /\ obj'.batch = obj.infos /\ obj'.infos = <<>> /\ obj'.out = obj.out
          /\ obj'.logged = obj.logged /\ obj'.threading = obj.threading
          /\ obj'.overtaken = obj.overtaken /\ DOMAIN obj' = DOMAIN obj
          /\ pc' = [pc EXCEPT !["batch"] = "write"]
      <4>1. /\ obj' = [obj EXCEPT !.batch = obj.infos, !.infos = <<>>]
            /\ pc' = [pc EXCEPT !["batch"] = "write"]
        BY <1>4, <2>2 DEF BatchTake
      <4> QED
        BY <4>1 DEF LogListInv
    <3>2. All' = All
      <4>1. obj.out \o obj.infos \in Seq(Nat)
        BY <1>0, ConcatProperties
      <4> QED
        BY <1>0, <2>1, <3>1, <4>1 DEF All
    <3> QED
      BY <1>0, <2>1, <2>2, <3>1, <3>2 DEF LogListInv, Complete, Callers
  <2>3. CASE ~(~obj.stoped /\ obj.infos # <<>>)
    <3>1. /\ obj'.infos = obj.infos /\ obj'.batch = obj.batch /\ obj'.out = obj.out
          /\ obj'.logged = obj.logged /\ obj'.threading = obj.threading
          /\ obj'.overtaken = obj.overtaken /\ DOMAIN obj' = DOMAIN obj
          /\ \E l \in {"done", "woken", "loop"} : pc' = [pc EXCEPT !["batch"] = l]
      BY <1>4, <2>3 DEF BatchTake, LogListInv
    <3> QED
      BY <2>1, <3>1 DEF LogListInv, All, Complete, Callers
  <2> QED
    BY <2>2, <2>3
<1>5. CASE BatchWrite
  <2>1. /\ obj'.out = obj.out \o obj.batch /\ obj'.batch = <<>> /\ obj'.infos = obj.infos
        /\ obj'.logged = obj.logged /\ obj'.threading = obj.threading
        /\ obj'.overtaken = obj.overtaken /\ DOMAIN obj' = DOMAIN obj
        /\ class' = class /\ pc' = [pc EXCEPT !["batch"] = "loop"]
    BY <1>5 DEF BatchWrite, LogListInv
  <2>2. All' = All
    BY <1>0, <2>1 DEF All
  <2> QED
    BY <1>0, <2>1, <2>2 DEF LogListInv, Complete, Callers
<1> QED
  BY <1>1, <1>2, <1>3, <1>4, <1>5 DEF LoggerNext

(* Every step of a caller of Log keeps what the callers may hold.           *)
LEMMA LogTableStep ==
  class = "log" /\ LogTableInv /\ LogNext => class' = "log" /\ LogTableInv'
<1> SUFFICES ASSUME class = "log", LogTableInv, LogNext PROVE class' = "log" /\ LogTableInv'
  OBVIOUS
<1> USE DEF At, Go, Stay, Creators, Callers
<1>1. ASSUME NEW t \in Creators, HasLogger(t) PROVE class' = "log" /\ LogTableInv'
  <2>1. /\ obj'.table = obj.table /\ obj'.made = obj.made /\ obj'.got = obj.got
        /\ obj'.dead = obj.dead
        /\ obj'.raced = (obj.raced \/ (obj.table = 0 /\ \E u \in Creators : pc[u] = "create"))
        /\ DOMAIN obj' = DOMAIN obj /\ class' = class
    BY <1>1 DEF HasLogger, LogTableInv
  <2>2. CASE obj.table # 0
    <3>1. pc' = [pc EXCEPT ![t] = "get"]
      BY <1>1, <2>2 DEF HasLogger
    <3> QED
      BY <2>1, <2>2, <3>1 DEF LogTableInv
  <2>3. CASE obj.table = 0
    <3>1. pc' = [pc EXCEPT ![t] = "create"]
      BY <1>1, <2>3 DEF HasLogger
    <3> QED
      BY <2>1, <2>3, <3>1 DEF LogTableInv
  <2> QED
    BY <2>2, <2>3
<1>2. ASSUME NEW t \in Creators, GetLogger(t) PROVE class' = "log" /\ LogTableInv'
  <2>1. /\ obj'.table = obj.table /\ obj'.made = obj.made
        /\ obj'.got = [obj.got EXCEPT ![t] = obj.table]
        /\ obj'.dead = obj.dead /\ obj'.raced = obj.raced
        /\ DOMAIN obj' = DOMAIN obj /\ class' = class
        /\ pc' = [pc EXCEPT ![t] = "log"] /\ pc[t] = "get"
    BY <1>2 DEF GetLogger, LogTableInv
  <2> QED
    BY <2>1 DEF LogTableInv
<1>3. ASSUME NEW t \in Creators, CreateLogger(t) PROVE class' = "log" /\ LogTableInv'
  <2>1. /\ obj'.table = (IF obj.table = 0 THEN obj.made + 1 ELSE obj.table)
        /\ obj'.made = obj.made + 1
        /\ obj'.got = [obj.got EXCEPT ![t] = obj.made + 1]
        /\ obj'.dead = obj.dead /\ obj'.raced = obj.raced
        /\ DOMAIN obj' = DOMAIN obj /\ class' = class
        /\ pc' = [pc EXCEPT ![t] = "log"] /\ pc[t] = "create"
    BY <1>3 DEF CreateLogger, LogTableInv
  <2> QED
    BY <2>1 DEF LogTableInv
<1>4. ASSUME NEW t \in Creators, LogOn(t) PROVE class' = "log" /\ LogTableInv'
  <2>1. /\ obj'.table = obj.table /\ obj'.made = obj.made /\ obj'.got = obj.got
        /\ obj'.dead = obj.dead /\ obj'.raced = obj.raced
        /\ DOMAIN obj' = DOMAIN obj /\ class' = class
        /\ pc' = [pc EXCEPT ![t] = "idle"]
    BY <1>4 DEF LogOn, LogTableInv
  <2> QED
    BY <2>1 DEF LogTableInv
<1>5. CASE RemoveLogger
  <2>1. /\ obj'.table = 0 /\ obj'.made = obj.made /\ obj'.got = obj.got
        /\ obj'.dead = obj.dead \union {obj.table} /\ obj'.raced = obj.raced
        /\ DOMAIN obj' = DOMAIN obj /\ class' = class /\ pc' = pc
    BY <1>5 DEF RemoveLogger, LogTableInv
  <2> QED
    BY <2>1 DEF LogTableInv
<1> QED
  BY <1>1, <1>2, <1>3, <1>4, <1>5 DEF LogNext

(* Every step of either class keeps LoggingInv.                             *)
LEMMA LoggingInvNext == LoggingInv /\ [LoggingNext]_mvars => LoggingInv'
<1> SUFFICES ASSUME LoggingInv, [LoggingNext]_mvars PROVE LoggingInv'
  OBVIOUS
<1>1. CASE UNCHANGED mvars
  <2>1. class' = class /\ pc' = pc /\ obj' = obj
    BY <1>1 DEF mvars
  <2> QED
    BY <2>1 DEF LoggingInv, LogListInv, LogTableInv, Complete, All
<1>2. CASE LoggerNext
  <2>1. class = "logger"
    BY <1>2 DEF LoggerNext, LogStart, LogRecord, flush, LogStop, LogJoined, BatchTake, BatchWrite
  <2> QED
    BY <1>2, <2>1, LogListStep DEF LoggingInv
<1>3. CASE LogNext
  <2>1. class = "log"
    BY <1>3 DEF LogNext, HasLogger, GetLogger, CreateLogger, LogOn, RemoveLogger
  <2> QED
    BY <1>3, <2>1, LogTableStep DEF LoggingInv
<1> QED
  BY <1>1, <1>2, <1>3 DEF LoggingNext

(* LogsExact, for any number of records and loggers: nothing logged is lost *)
(* or written twice, the order is that of the calls unless a flush() came   *)
(* between a batch and its writing, and a name's logger is everybody's.     *)
THEOREM LogsExactAlways == LoggingSpec => []LogsExact
<1>1. LoggingInv => LogsExact
  <2> SUFFICES ASSUME LoggingInv PROVE LogKept /\ OneLogger
    BY DEF LogsExact
  <2>1. OneLogger
    BY DEF OneLogger, LoggingInv, LogTableInv, At
  <2>2. ASSUME class = "logger" PROVE LogKept
    <3>1. LogListInv
      BY <2>2 DEF LoggingInv
    <3>2. All \in Seq(Nat)
      BY <3>1, ConcatProperties DEF LogListInv, All
    <3>3. Len(All) = obj.logged /\ ToSet(All) = 1..obj.logged
      BY <3>1 DEF LogListInv, Complete
    <3>4. All = [i \in 1..Len(All) |-> All[i]]
      BY <3>2
    <3>5. ~obj.overtaken => All = [i \in 1..obj.logged |-> i]
      BY <3>1, <3>3, <3>4 DEF LogListInv
    <3> QED
      BY <3>3, <3>5 DEF LogKept, All
  <2> QED
    BY <2>1, <2>2 DEF LogKept
<1> QED
  BY <1>1, LoggingInvInit, LoggingInvNext, PTL DEF LoggingSpec

-----------------------------------------------------------------------------
(* TimingWheel.  A task in the wheel has as many milliseconds to go as its  *)
(* rounds and the distance of its slot make, counted from where the wheel   *)
(* was last turned: that is its time, plus what the code adds (TurnsInv). A *)
(* task is new, or in the wheel, or in the queue, or has run, once          *)
(* (OnceInv).                                                               *)
InQueue(a) == \E i \in DOMAIN obj.queue : obj.queue[i] = a
Away(s, p, n) == IF s > p THEN s - p ELSE s - p + n
Dist(a) == Away(obj.slot[a], obj.pos, WHEEL_SIZE)
WheelTypeOK ==
  /\ class = "wheel"
  /\ pc \in [{"u1", "u2", "timing", "exec"} ->
               {"idle", "begin", "loop", "take", "woken", "join", "join2", "done"}]
  /\ DOMAIN obj = {"now", "lastTock", "pos", "stoped", "began", "before", "new", "whole", "cancled",
                   "due", "slot", "round", "queue", "early", "ran", "asleep"}
  /\ obj.now \in Nat /\ obj.lastTock \in 0..obj.now /\ obj.began \in Nat /\ obj.pos \in Slots
  /\ obj.slot \in [Alarms -> Slots \union {NoSlot}] /\ obj.round \in [Alarms -> Nat]
  /\ obj.due \in [Alarms -> Nat] /\ obj.ran \in [Alarms -> Nat]
  /\ obj.new \subseteq Alarms /\ obj.queue \in Seq(Alarms)
TurnsInv ==
  \A a \in Alarms : obj.slot[a] # NoSlot =>
    obj.lastTock + obj.round[a] * WHEEL_SIZE + Dist(a) = obj.due[a] + Lateness(a)
BeginInv ==
  pc["timing"] = "begin" => /\ obj.lastTock = 0 /\ obj.began = 0
                            /\ \A a \in Alarms : obj.slot[a] # NoSlot => a \in obj.before
OnceInv ==
  /\ \A a \in obj.new : obj.slot[a] = NoSlot /\ ~InQueue(a) /\ obj.ran[a] = 0
                        /\ a \notin obj.whole \union obj.before
  /\ \A a \in Alarms : obj.slot[a] # NoSlot \/ InQueue(a) => obj.ran[a] = 0
  /\ \A a \in Alarms : obj.slot[a] # NoSlot => ~InQueue(a)
  /\ \A a \in Alarms : obj.ran[a] <= 1
  /\ \A i, j \in DOMAIN obj.queue : obj.queue[i] = obj.queue[j] => i = j
WheelInv ==
  WheelTypeOK /\ TurnsInv /\ BeginInv /\ OnceInv /\ obj.early = {}

(* Below two rounds, the remainder is one subtraction.                      *)
LEMMA RemainderBelowTwo ==
  ASSUME NEW n \in Nat \ {0}, NEW x \in Nat, x < 2 * n
  PROVE  x % n = IF x < n THEN x ELSE x - n
<1>1. CASE x < n
  BY <1>1, SMT
<1>2. CASE x >= n
  BY <1>2, SMT
<1> QED
  BY <1>1, <1>2

(* A number of milliseconds is its whole rounds and the rest.               *)
LEMMA RoundsAndRest ==
  ASSUME NEW n \in Nat \ {0}, NEW x \in Nat
  PROVE  x \div n \in Nat /\ x % n \in 0..n - 1 /\ x = (x \div n) * n + (x % n)
OBVIOUS

(* The wheel meets a slot when it has turned as far as that is away; and    *)
(* what is left is the distance from there.                                 *)
LEMMA Distance ==
  ASSUME NEW n \in Nat \ {0}, NEW s \in 0..n - 1, NEW p \in 0..n - 1, NEW t \in 0..n - 1
  PROVE  /\ Away(s, p, n) \in 1..n
         /\ (\E i \in 1..t : s = (p + i) % n) <=> Away(s, p, n) <= t
         /\ (p + t) % n \in 0..n - 1
         /\ Away(s, (p + t) % n, n) = Away(s, p, n) - t + (IF Away(s, p, n) <= t THEN n ELSE 0)
<1>1. \A i \in 0..n - 1 : (p + i) % n = IF p + i < n THEN p + i ELSE p + i - n
  <2> TAKE i \in 0..n - 1
  <2>1. PICK x \in Nat : x = p + i
    OBVIOUS
  <2>2. x < 2 * n
    BY <2>1
  <2>3. x % n = IF x < n THEN x ELSE x - n
    BY <2>2, RemainderBelowTwo
  <2> QED
    BY <2>1, <2>3
<1>2. Away(s, p, n) \in 1..n
  BY DEF Away
<1>3. (p + t) % n = IF p + t < n THEN p + t ELSE p + t - n
  BY <1>1
<1>4. ASSUME NEW i \in 1..t, s = (p + i) % n PROVE Away(s, p, n) <= t
  <2>1. s = IF p + i < n THEN p + i ELSE p + i - n
    BY <1>1, <1>4
  <2> QED
    BY <2>1 DEF Away
<1>5. ASSUME Away(s, p, n) <= t PROVE \E i \in 1..t : s = (p + i) % n
  <2>1. Away(s, p, n) \in 1..t /\ Away(s, p, n) \in 0..n - 1
    BY <1>2, <1>5
  <2>2. (p + Away(s, p, n)) % n = s
    BY <1>1, <2>1 DEF Away
  <2> QED
    BY <2>1, <2>2
<1>6. Away(s, (p + t) % n, n) = Away(s, p, n) - t + (IF Away(s, p, n) <= t THEN n ELSE 0)
  BY <1>3 DEF Away
<1>7. (p + t) % n \in 0..n - 1
  BY <1>3
<1> QED
  BY <1>2, <1>4, <1>5, <1>6, <1>7

(* With R rounds and d slots to go, r rounds and t slots are enough just    *)
(* when they are as many milliseconds; if not, the difference is left.      *)
LEMMA RoundsLeft ==
  ASSUME NEW n \in Nat \ {0}, NEW R \in Nat, NEW r \in Nat, NEW t \in 0..n - 1, NEW d \in 1..n
  PROVE  /\ r > R \/ (r = R /\ d <= t) => R * n + d <= r * n + t
         /\ r <= R /\ ~(r = R /\ d <= t) =>
              LET m == IF d <= t THEN 1 ELSE 0
              IN /\ R - r - m \in Nat
                 /\ (R - r - m) * n + (d - t + (IF d <= t THEN n ELSE 0)) = R * n + d - (r * n + t)
<1>1. r > R => (R + 1) * n <= r * n
  OBVIOUS
<1>2. (R + 1) * n = R * n + n /\ R * n \in Nat /\ r * n \in Nat
  OBVIOUS
<1>3. r > R \/ (r = R /\ d <= t) => R * n + d <= r * n + t
  BY <1>1, <1>2
<1>4. (R - r) * n = R * n - r * n /\ (R - r - 1) * n = R * n - r * n - n
  OBVIOUS
<1>5. r <= R /\ ~(r = R /\ d <= t) =>
              LET m == IF d <= t THEN 1 ELSE 0
              IN /\ R - r - m \in Nat
                 /\ (R - r - m) * n + (d - t + (IF d <= t THEN n ELSE 0)) = R * n + d - (r * n + t)
  BY <1>4
<1> QED
  BY <1>3, <1>5

(* A set's elements in a row: each of them once.                            *)
LEMMA RowOfSet ==
  ASSUME NEW S \in SUBSET Alarms
  PROVE  LET s == SetToSeq(S)
         IN /\ s \in Seq(Alarms) /\ \A a : a \in S <=> \E i \in DOMAIN s : s[i] = a
            /\ \A i, j \in DOMAIN s : s[i] = s[j] => i = j
<1>1. IsFiniteSet(S)
  BY WheelAssumption, FS_Subset
<1>2. PICK n \in Nat : ExistsBijection(1..n, S)
  BY <1>1, FS_NatBijection
<1>3. Cardinality(S) = n
  BY <1>2, FS_CountingElements
<1>4. \E f \in [1..Cardinality(S) -> S] : IsInjective(f) /\ Surjection(1..n, S) # {}
  <2>1. PICK f : f \in Bijection(1..n, S)
    BY <1>2 DEF ExistsBijection
  <2> QED
    BY <1>3, <2>1 DEF Bijection, Injection, IsInjective
<1>5. PICK s : s = SetToSeq(S)
  OBVIOUS
<1>6. s \in [1..n -> S] /\ IsInjective(s)
  BY <1>3, <1>4, <1>5 DEF SetToSeq
<1>7. s \in Injection(1..n, S)
  BY <1>6 DEF Injection, IsInjective
<1>8. s \in Surjection(1..n, S)
  <2>1. 1 \in Int /\ n \in Int
    OBVIOUS
  <2>2. IsFiniteSet(1..n) /\ Cardinality(1..n) = n
    <3>1. (IF 1 > n THEN 0 ELSE n - 1 + 1) = n
      OBVIOUS
    <3> QED
      BY <2>1, <3>1, FS_Interval, Zenon
  <2> QED
    BY <1>1, <1>3, <1>7, <2>2, FS_Injection
<1>9. \A a : a \in S <=> \E i \in 1..n : s[i] = a
  BY <1>6, <1>8 DEF Surjection
<1>10. s \in Seq(Alarms) /\ DOMAIN s = 1..n
  BY <1>6
<1> QED
  BY <1>5, <1>6, <1>9, <1>10 DEF IsInjective

(* Two rows with nothing in common, one after the other.                    *)
LEMMA RowsJoined ==
  ASSUME NEW s \in Seq(Alarms), NEW t \in Seq(Alarms),
         \A i, j \in DOMAIN s : s[i] = s[j] => i = j,
         \A i, j \in DOMAIN t : t[i] = t[j] => i = j,
         \A i \in DOMAIN s, j \in DOMAIN t : s[i] # t[j]
  PROVE  LET r == s \o t
         IN /\ r \in Seq(Alarms) /\ \A i, j \in DOMAIN r : r[i] = r[j] => i = j
            /\ \A a : (\E i \in DOMAIN r : r[i] = a)
                        <=> (\E i \in DOMAIN s : s[i] = a) \/ (\E i \in DOMAIN t : t[i] = a)
<1> DEFINE r == s \o t
<1>1. /\ r \in Seq(Alarms) /\ Len(r) = Len(s) + Len(t) /\ Len(s) \in Nat /\ Len(t) \in Nat
      /\ DOMAIN s = 1..Len(s) /\ DOMAIN t = 1..Len(t) /\ DOMAIN r = 1..Len(r)
  BY ConcatProperties, LenProperties
<1>2. \A i \in 1..Len(s) : r[i] = s[i]
  BY <1>1
<1>3. \A i \in 1..Len(r) : i > Len(s) => i - Len(s) \in 1..Len(t) /\ r[i] = t[i - Len(s)]
  BY <1>1
<1>4. \A j \in 1..Len(t) : Len(s) + j \in 1..Len(r) /\ r[Len(s) + j] = t[j]
  BY <1>1
<1>5. \A i \in 1..Len(s) : i \in 1..Len(r)
  BY <1>1
<1>6. \A i \in 1..Len(r) : i <= Len(s) => i \in 1..Len(s)
  BY <1>1
<1> HIDE DEF r
<1>7. ASSUME NEW i \in 1..Len(r), NEW j \in 1..Len(r), r[i] = r[j] PROVE i = j
  <2>1. CASE i <= Len(s) /\ j <= Len(s)
    BY <1>1, <1>2, <1>6, <1>7, <2>1
  <2>2. CASE i <= Len(s) /\ j > Len(s)
    <3>1. r[i] = s[i] /\ r[j] = t[j - Len(s)] /\ i \in DOMAIN s /\ j - Len(s) \in DOMAIN t
      BY <1>1, <1>2, <1>3, <1>6, <2>2
    <3> QED
      BY <1>7, <3>1
  <2>3. CASE i > Len(s) /\ j <= Len(s)
    <3>1. r[j] = s[j] /\ r[i] = t[i - Len(s)] /\ j \in DOMAIN s /\ i - Len(s) \in DOMAIN t
      BY <1>1, <1>2, <1>3, <1>6, <2>3
    <3> QED
      BY <1>7, <3>1
  <2>4. CASE i > Len(s) /\ j > Len(s)
    <3>1. i - Len(s) = j - Len(s)
      BY <1>1, <1>3, <1>7, <2>4
    <3> QED
      BY <1>1, <3>1
  <2> QED
    BY <1>1, <2>1, <2>2, <2>3, <2>4
<1>8. ASSUME NEW a, NEW i \in 1..Len(r), r[i] = a
      PROVE  (\E k \in DOMAIN s : s[k] = a) \/ (\E k \in DOMAIN t : t[k] = a)
  <2>1. CASE i <= Len(s)
    BY <1>1, <1>2, <1>6, <1>8, <2>1
  <2>2. CASE i > Len(s)
    BY <1>1, <1>3, <1>8, <2>2
  <2> QED
    BY <1>1, <2>1, <2>2
<1>9. \A a : (\E k \in DOMAIN s : s[k] = a) => \E i \in 1..Len(r) : r[i] = a
  BY <1>1, <1>2, <1>5
<1>10. \A a : (\E k \in DOMAIN t : t[k] = a) => \E i \in 1..Len(r) : r[i] = a
  BY <1>1, <1>4
<1> QED
  BY <1>1, <1>7, <1>8, <1>9, <1>10 DEF r

(* A row without its first.                                                 *)
LEMMA RowTail ==
  ASSUME NEW S, NEW s \in Seq(S), s # <<>>, \A i, j \in DOMAIN s : s[i] = s[j] => i = j
  PROVE  LET r == Tail(s)
         IN /\ r \in Seq(S) /\ Head(s) \in S /\ \A i, j \in DOMAIN r : r[i] = r[j] => i = j
            /\ \E i \in DOMAIN s : s[i] = Head(s)
            /\ \A a : (\E i \in DOMAIN r : r[i] = a)
                        <=> a # Head(s) /\ \E i \in DOMAIN s : s[i] = a
<1> DEFINE r == Tail(s)
<1>1. /\ r \in Seq(S) /\ Len(s) \in Nat /\ Len(s) > 0 /\ Len(r) = Len(s) - 1
      /\ DOMAIN s = 1..Len(s) /\ DOMAIN r = 1..Len(r) /\ Head(s) = s[1]
  OBVIOUS
<1>2. \A i \in 1..Len(r) : i + 1 \in 1..Len(s) /\ i + 1 # 1 /\ r[i] = s[i + 1]
  BY <1>1
<1>3. \A i \in 1..Len(s) : i # 1 => i - 1 \in 1..Len(r) /\ r[i - 1] = s[i]
  BY <1>1
<1>4. 1 \in 1..Len(s) /\ Head(s) \in S
  BY <1>1
<1> HIDE DEF r
<1>5. ASSUME NEW i \in 1..Len(r), NEW j \in 1..Len(r), r[i] = r[j] PROVE i = j
  <2>1. i + 1 = j + 1
    BY <1>1, <1>2, <1>5
  <2> QED
    BY <1>1, <2>1
<1>6. \A a : (\E i \in 1..Len(r) : r[i] = a) => a # Head(s) /\ \E i \in 1..Len(s) : s[i] = a
  BY <1>1, <1>2, <1>4
<1>7. \A a : a # Head(s) /\ (\E i \in 1..Len(s) : s[i] = a) => \E i \in 1..Len(r) : r[i] = a
  BY <1>1, <1>3
<1> QED
  BY <1>1, <1>4, <1>5, <1>6, <1>7 DEF r

(* At first every task is new.                                              *)
LEMMA WheelInvInit == WheelInit => WheelInv
<1> SUFFICES ASSUME WheelInit PROVE WheelInv
  OBVIOUS
<1>1. WHEEL_SIZE \in Nat \ {0}
  BY WheelAssumption
<1>2. WheelTypeOK
  BY <1>1 DEF WheelInit, WheelTypeOK, Slots, NoSlot
<1>3. TurnsInv /\ BeginInv
  BY DEF WheelInit, TurnsInv, BeginInv
<1>4. OnceInv
  BY DEF WheelInit, OnceInv, InQueue
<1> QED
  BY <1>2, <1>3, <1>4 DEF WheelInit, WheelInv

(* A turn of the wheel: who leaves it is due, and who stays has the passed  *)
(* milliseconds less to go.                                                 *)
LEMMA TurnKept == WheelInv /\ timingRun => WheelInv'
<1> SUFFICES ASSUME WheelInv, timingRun PROVE WheelInv'
  OBVIOUS
<1> DEFINE n == WHEEL_SIZE
           P == obj.now - obj.lastTock
           r == P \div n
           t == P % n
           due == RoundsDue(r)
           met == SlotsMet(t) \ due
           last == {a \in met : a \in obj.cancled \/ obj.round[a] = r}
           out == due \union last
           left == [a \in Alarms |-> IF a \in InWheel \ out
                                     THEN obj.round[a] - r - (IF a \in met THEN 1 ELSE 0)
                                     ELSE 0]
           gone == out \ obj.cancled
<1>1. /\ n \in Nat \ {0} /\ P \in Nat /\ r \in Nat /\ t \in 0..n - 1 /\ P = r * n + t
      /\ obj.now = obj.lastTock + P /\ obj.now \in Nat /\ obj.lastTock \in Nat
  <2>1. n \in Nat \ {0} /\ P \in Nat
    BY WheelAssumption DEF WheelInv, WheelTypeOK
  <2>2. r \in Nat /\ t \in 0..n - 1 /\ P = r * n + t
    BY <2>1, RoundsAndRest
  <2> QED
    BY <2>1, <2>2 DEF WheelInv, WheelTypeOK
<1>2. obj' = Turned(out, left, t)
  BY DEF timingRun, doTick
<1>3. pc' = pc /\ class' = class /\ pc["timing"] = "loop"
  BY DEF timingRun, Stay, At
<1>4. out \subseteq InWheel
  BY DEF RoundsDue, SlotsMet
<1>5. \A a \in InWheel : a \in Alarms /\ obj.slot[a] \in 0..n - 1
  BY DEF InWheel, WheelInv, WheelTypeOK, Slots, NoSlot
<1>6. ASSUME NEW a \in InWheel
      PROVE  /\ Dist(a) \in 1..n /\ obj.round[a] \in Nat
             /\ a \in SlotsMet(t) <=> Dist(a) <= t
             /\ (obj.pos + t) % n \in 0..n - 1
             /\ Away(obj.slot[a], (obj.pos + t) % n, n)
                  = Dist(a) - t + (IF Dist(a) <= t THEN n ELSE 0)
  <2>1. obj.pos \in 0..n - 1 /\ obj.slot[a] \in 0..n - 1 /\ obj.round[a] \in Nat
    BY <1>5 DEF WheelInv, WheelTypeOK, Slots
  <2> DEFINE s == obj.slot[a]
             p == obj.pos
  <2>2. a \in SlotsMet(t) <=> \E i \in 1..t : s = (p + i) % n
    BY DEF SlotsMet
  <2>3. Dist(a) = Away(s, p, n)
    BY DEF Dist
  <2>4. s \in 0..n - 1 /\ p \in 0..n - 1
    BY <2>1
  <2> HIDE DEF s, p, n, t
  <2>5. /\ Away(s, p, n) \in 1..n
        /\ (\E i \in 1..t : s = (p + i) % n) <=> Away(s, p, n) <= t
        /\ (p + t) % n \in 0..n - 1
        /\ Away(s, (p + t) % n, n) = Away(s, p, n) - t + (IF Away(s, p, n) <= t THEN n ELSE 0)
    BY <1>1, <2>4, Distance
  <2> QED
    BY <2>1, <2>2, <2>3, <2>5 DEF s, p
<1>7. ASSUME NEW a \in InWheel, a \in gone
      PROVE  r > obj.round[a] \/ (r = obj.round[a] /\ Dist(a) <= t)
  <2>1. CASE a \in due
    BY <1>6, <1>7, <2>1 DEF RoundsDue
  <2>2. CASE a \in last
    BY <1>6, <1>7, <2>2
  <2> QED
    BY <1>7, <2>1, <2>2
<1>8. ASSUME NEW a \in InWheel, a \notin out
      PROVE  /\ r <= obj.round[a] /\ ~(r = obj.round[a] /\ Dist(a) <= t)
             /\ a \in met <=> Dist(a) <= t
  <2>1. a \notin due /\ a \notin last
    BY <1>8
  <2>2. r <= obj.round[a]
    <3>1. r \in Nat /\ obj.round[a] \in Nat /\ a \notin RoundsDue(r)
      BY <1>1, <1>6, <2>1
    <3> HIDE DEF r, due
    <3> QED
      BY <3>1 DEF RoundsDue
  <2>3. a \in met <=> Dist(a) <= t
    BY <1>6, <2>1
  <2> QED
    BY <2>1, <2>2, <2>3
<1> HIDE DEF P, r, t, due, met, last
<1>9. ASSUME NEW a \in InWheel, a \notin out
      PROVE  /\ left[a] \in Nat
             /\ left[a] * n + Away(obj.slot[a], (obj.pos + t) % n, n)
                  = obj.round[a] * n + Dist(a) - P
  <2> DEFINE R == obj.round[a]
             d == Dist(a)
             m == IF d <= t THEN 1 ELSE 0
  <2>1. R \in Nat /\ d \in 1..n /\ r <= R /\ ~(r = R /\ d <= t)
    BY <1>6, <1>8, <1>9
  <2>2. left[a] = R - r - m
    BY <1>5, <1>8, <1>9
  <2>3. Away(obj.slot[a], (obj.pos + t) % n, n) = d - t + (IF d <= t THEN n ELSE 0)
    BY <1>6
  <2> HIDE DEF R, d, n, left
  <2>4. /\ R - r - m \in Nat
        /\ (R - r - m) * n + (d - t + (IF d <= t THEN n ELSE 0)) = R * n + d - (r * n + t)
    BY <1>1, <2>1, RoundsLeft
  <2> QED
    BY <1>1, <2>2, <2>3, <2>4 DEF R, d
<1>10. ASSUME NEW a \in gone PROVE obj.due[a] <= obj.now
  <2> DEFINE R == obj.round[a]
             d == Dist(a)
  <2>1. a \in InWheel /\ R \in Nat /\ d \in 1..n /\ (r > R \/ (r = R /\ d <= t))
    BY <1>4, <1>6, <1>7, <1>10
  <2>2. R * n + d <= r * n + t
    <3> HIDE DEF R, d, n
    <3> QED
      BY <1>1, <2>1, RoundsLeft
  <2>3. obj.lastTock + R * n + d = obj.due[a] + Lateness(a)
    BY <2>1, <1>5 DEF WheelInv, TurnsInv, InWheel
  <2>4. obj.due[a] \in Nat /\ Lateness(a) \in Nat
    <3>1. obj.due[a] \in Nat /\ obj.began \in Nat
      BY <2>1 DEF WheelInv, WheelTypeOK, InWheel
    <3> QED
      BY <1>1, <3>1 DEF Lateness
  <2>5. R * n \in Nat
    BY <1>1, <2>1
  <2> HIDE DEF R, d, n
  <2> QED
    BY <1>1, <2>1, <2>2, <2>3, <2>4, <2>5
<1> HIDE DEF left, out
<1>11. /\ obj'.now = obj.now /\ obj'.lastTock = obj.now
      /\ obj'.pos = (obj.pos + t) % n /\ obj'.began = obj.began
      /\ obj'.before = obj.before \ out /\ obj'.new = obj.new
      /\ obj'.whole = obj.whole \ out
      /\ obj'.due = [a \in Alarms |-> IF a \in out THEN 0 ELSE obj.due[a]]
      /\ obj'.slot = [a \in Alarms |-> IF a \in out THEN NoSlot ELSE obj.slot[a]]
      /\ obj'.round = left /\ obj'.queue = obj.queue \o SetToSeq(gone)
      /\ obj'.early = obj.early \union {a \in gone : obj.now < obj.due[a]}
      /\ obj'.ran = obj.ran
      /\ DOMAIN obj' = DOMAIN obj
  BY <1>2 DEF Turned, WheelInv, WheelTypeOK
<1>12. gone \in SUBSET Alarms /\ \A a \in gone : obj.slot[a] # NoSlot
  BY <1>4, <1>5 DEF InWheel
<1> HIDE DEF gone
<1> DEFINE row == SetToSeq(gone)
<1>13. /\ row \in Seq(Alarms) /\ \A a : a \in gone <=> \E i \in DOMAIN row : row[i] = a
       /\ \A i, j \in DOMAIN row : row[i] = row[j] => i = j
  BY <1>12, RowOfSet
<1> HIDE DEF row
<1>14. /\ obj'.queue \in Seq(Alarms)
       /\ \A i, j \in DOMAIN obj'.queue : obj'.queue[i] = obj'.queue[j] => i = j
       /\ \A a : InQueue(a)' <=> InQueue(a) \/ a \in gone
  <2> DEFINE q == obj.queue
  <2>1. q \in Seq(Alarms) /\ \A i, j \in DOMAIN q : q[i] = q[j] => i = j
    BY DEF WheelInv, WheelTypeOK, OnceInv
  <2>2. \A i \in DOMAIN q, j \in DOMAIN row : q[i] # row[j]
    BY <1>12, <1>13 DEF WheelInv, OnceInv, InQueue
  <2>3. obj'.queue = q \o row
    BY <1>11 DEF row
  <2> HIDE DEF q
  <2>4. LET j == q \o row
        IN /\ j \in Seq(Alarms) /\ \A i, k \in DOMAIN j : j[i] = j[k] => i = k
           /\ \A a : (\E i \in DOMAIN j : j[i] = a)
                       <=> (\E i \in DOMAIN q : q[i] = a) \/ (\E i \in DOMAIN row : row[i] = a)
    BY <1>13, <2>1, <2>2, RowsJoined
  <2> QED
    BY <1>13, <2>3, <2>4 DEF InQueue, q
<1>15. \A a \in Alarms : obj'.slot[a] # NoSlot
         => a \in InWheel /\ a \notin out /\ obj'.slot[a] = obj.slot[a]
  BY <1>11 DEF InWheel
<1>16. WheelTypeOK'
  <2>1. left \in [Alarms -> Nat]
    BY <1>9 DEF left
  <2>2. obj'.pos \in Slots
    <3>1. obj.pos \in 0..n - 1
      BY DEF WheelInv, WheelTypeOK, Slots
    <3>2. (obj.pos + t) % n \in 0..n - 1
      BY <1>1, <3>1, Distance
    <3> QED
      BY <1>11, <3>2 DEF Slots
  <2>3. obj'.now \in Nat /\ obj'.lastTock \in 0..obj'.now
    BY <1>1, <1>11
  <2>4. /\ obj'.slot \in [Alarms -> Slots \union {NoSlot}] /\ obj'.due \in [Alarms -> Nat]
    BY <1>11 DEF WheelInv, WheelTypeOK
  <2> QED
    BY <1>3, <1>11, <1>14, <2>1, <2>2, <2>3, <2>4 DEF WheelInv, WheelTypeOK
<1>17. TurnsInv'
  <2> SUFFICES ASSUME NEW a \in Alarms, obj'.slot[a] # NoSlot
               PROVE  obj'.lastTock + obj'.round[a] * n + Dist(a)' = obj'.due[a] + Lateness(a)'
    BY DEF TurnsInv
  <2>1. a \in InWheel /\ a \notin out /\ obj'.slot[a] = obj.slot[a]
    BY <1>15
  <2>2. Dist(a)' = Away(obj.slot[a], (obj.pos + t) % n, n)
    BY <1>11, <2>1 DEF Dist
  <2>3. obj'.round[a] * n + Dist(a)' = obj.round[a] * n + Dist(a) - P
    BY <1>9, <1>11, <2>1, <2>2
  <2>4. obj'.due[a] = obj.due[a] /\ Lateness(a)' = Lateness(a)
    BY <1>11, <2>1 DEF Lateness
  <2>5. obj.lastTock + obj.round[a] * n + Dist(a) = obj.due[a] + Lateness(a)
    BY <2>1 DEF WheelInv, TurnsInv, InWheel
  <2>6. /\ obj.round[a] * n \in Nat /\ Dist(a) \in Nat
        /\ obj'.round[a] * n \in Nat /\ Dist(a)' \in Int
    <3>1. obj.round[a] \in Nat /\ obj'.round[a] \in Nat
      BY <1>16 DEF WheelInv, WheelTypeOK
    <3>2. Dist(a) \in 1..n /\ Dist(a)' \in Int
      BY <1>1, <1>6, <2>1, <2>2
    <3> QED
      BY <1>1, <3>1, <3>2
  <2>7. obj'.lastTock = obj.lastTock + P
    BY <1>1, <1>11
  <2>8. PICK x \in Nat, y \in Nat, d \in Nat, e \in Int, f \in Int :
          /\ x = obj.round[a] * n /\ y = obj'.round[a] * n /\ d = Dist(a) /\ e = Dist(a)'
          /\ f = obj.due[a] + Lateness(a)
    <3>1. obj.due[a] + Lateness(a) \in Int
      BY <1>1 DEF WheelInv, WheelTypeOK, Lateness
    <3> QED
      BY <2>6, <3>1
  <2>9. y + e = x + d - P /\ obj.lastTock + x + d = f
    BY <2>3, <2>5, <2>8
  <2>10. obj.lastTock + P + y + e = f
    BY <1>1, <2>9
  <2> QED
    BY <2>4, <2>7, <2>8, <2>10
<1>18. BeginInv'
  BY <1>3 DEF BeginInv
<1>19. OnceInv'
  <2>1. OnceInv
    BY DEF WheelInv
  <2>2. ASSUME NEW a \in obj'.new
        PROVE  /\ obj'.slot[a] = NoSlot /\ ~InQueue(a)' /\ obj'.ran[a] = 0
               /\ a \notin obj'.whole \union obj'.before
    <3>1. a \in Alarms /\ a \in obj.new
      BY <1>11 DEF WheelInv, WheelTypeOK
    <3>2. /\ obj.slot[a] = NoSlot /\ ~InQueue(a) /\ obj.ran[a] = 0
          /\ a \notin obj.whole \union obj.before
      BY <2>1, <3>1 DEF OnceInv
    <3> QED
      BY <1>11, <1>12, <1>14, <1>15, <3>1, <3>2 DEF InWheel
  <2>3. \A a \in Alarms : obj'.slot[a] # NoSlot \/ InQueue(a)' => obj'.ran[a] = 0
    BY <1>11, <1>12, <1>14, <1>15, <2>1 DEF OnceInv, InWheel
  <2>4. \A a \in Alarms : obj'.slot[a] # NoSlot => ~InQueue(a)'
    BY <1>14, <1>15, <2>1 DEF OnceInv, InWheel, gone
  <2>5. \A a \in Alarms : obj'.ran[a] <= 1
    BY <1>11, <2>1 DEF OnceInv
  <2> QED
    BY <1>14, <2>2, <2>3, <2>4, <2>5 DEF OnceInv
<1>20. obj'.early = {}
  <2>1. \A a \in gone : obj.due[a] \in Nat /\ ~(obj.now < obj.due[a])
    BY <1>1, <1>10, <1>12 DEF WheelInv, WheelTypeOK
  <2> QED
    BY <1>11, <2>1 DEF WheelInv
<1> QED
  BY <1>16, <1>17, <1>18, <1>19, <1>20 DEF WheelInv

(* A task that is added: its slot is as far away as the rest of its delay.  *)
LEMMA SlotAhead ==
  ASSUME NEW n \in Nat \ {0}, NEW p \in 0..n - 1, NEW m \in 0..n - 1
  PROVE  /\ (p + m) % n \in 0..n - 1
         /\ Away((p + m) % n, p, n) = IF m = 0 THEN n ELSE m
<1>1. PICK x \in Nat : x = p + m
  OBVIOUS
<1>2. x < 2 * n
  BY <1>1
<1>3. x % n = IF x < n THEN x ELSE x - n
  BY <1>2, RemainderBelowTwo
<1> QED
  BY <1>1, <1>3 DEF Away

(* Adding a task keeps WheelInv: its time is what was asked for, plus a     *)
(* whole turn if its slot is the current one.                               *)
LEMMA AddKept ==
  ASSUME WheelInv, NEW a \in Alarms, NEW delayMs \in Delays, addTask(a, delayMs)
  PROVE  WheelInv'
<1> DEFINE n == WHEEL_SIZE
           d == delayMs + (obj.now - obj.lastTock)
           r == d \div n
           m == d % n
<1>1. /\ n \in Nat \ {0} /\ d \in Nat /\ delayMs \in Nat
      /\ obj.now \in Nat /\ obj.lastTock \in Nat /\ obj.began \in Nat
  BY WheelAssumption DEF WheelInv, WheelTypeOK
<1>2. r \in Nat /\ m \in 0..n - 1 /\ d = r * n + m
  <2> HIDE DEF d, n
  <2> QED
    BY <1>1, RoundsAndRest
<1>3. obj' = [obj EXCEPT !.new = @ \ {a}, !.due[a] = obj.now + delayMs,
                         !.whole = IF m = 0 THEN @ \union {a} ELSE @,
                         !.before = IF At("timing", "begin") THEN @ \union {a} ELSE @,
                         !.round[a] = r,
                         !.slot[a] = (obj.pos + m) % n]
  BY DEF addTask
<1>4. pc' = pc /\ class' = class /\ a \in obj.new
  BY DEF addTask, Stay
<1>5. d = delayMs + obj.now - obj.lastTock
  BY <1>1
<1> HIDE DEF d, r, m
<1>6. /\ obj'.now = obj.now /\ obj'.lastTock = obj.lastTock /\ obj'.pos = obj.pos
      /\ obj'.began = obj.began
      /\ obj'.before = (IF pc["timing"] = "begin" THEN obj.before \union {a} ELSE obj.before)
      /\ obj'.new = obj.new \ {a}
      /\ obj'.whole = (IF m = 0 THEN obj.whole \union {a} ELSE obj.whole)
      /\ obj'.due = [obj.due EXCEPT ![a] = obj.now + delayMs]
      /\ obj'.slot = [obj.slot EXCEPT ![a] = (obj.pos + m) % n]
      /\ obj'.round = [obj.round EXCEPT ![a] = r] /\ obj'.queue = obj.queue
      /\ obj'.early = obj.early /\ obj'.ran = obj.ran
      /\ DOMAIN obj' = DOMAIN obj
  BY <1>3 DEF WheelInv, WheelTypeOK, At
<1>7. (obj.pos + m) % n \in 0..n - 1 /\ Away((obj.pos + m) % n, obj.pos, n) = IF m = 0 THEN n ELSE m
  <2>1. obj.pos \in 0..n - 1
    BY DEF WheelInv, WheelTypeOK, Slots
  <2> HIDE DEF n
  <2> QED
    BY <1>1, <1>2, <2>1, SlotAhead
<1>8. WheelTypeOK'
  <2>1. (obj.pos + m) % n \in Slots /\ obj.now + delayMs \in Nat
    BY <1>1, <1>7 DEF Slots
  <2> QED
    BY <1>2, <1>4, <1>6, <2>1 DEF WheelInv, WheelTypeOK
<1>9. TurnsInv'
  <2> SUFFICES ASSUME NEW b \in Alarms, obj'.slot[b] # NoSlot
               PROVE  obj'.lastTock + obj'.round[b] * n + Dist(b)' = obj'.due[b] + Lateness(b)'
    BY DEF TurnsInv
  <2>1. CASE b = a
    <3>1. /\ obj'.round[a] = r /\ Dist(a)' = (IF m = 0 THEN n ELSE m)
          /\ obj'.due[a] = obj.now + delayMs
      BY <1>6, <1>7 DEF Dist, WheelInv, WheelTypeOK
    <3>2. a \notin obj.whole /\ a \notin obj.before
      BY <1>4 DEF WheelInv, OnceInv
    <3>3. Lateness(a)' = IF m = 0 THEN n ELSE 0
      <4>1. (a \in obj'.whole <=> m = 0) /\ (a \in obj'.before => obj'.began = 0)
        BY <1>6, <3>2 DEF WheelInv, BeginInv
      <4> QED
        BY <1>1, <4>1 DEF Lateness
    <3>4. r * n \in Nat /\ m \in Nat /\ r * n + m = delayMs + obj.now - obj.lastTock
      BY <1>1, <1>2, <1>5
    <3>5. PICK x \in Nat : x = r * n
      BY <3>4
    <3>6. obj.lastTock + x + (IF m = 0 THEN n ELSE m)
            = obj.now + delayMs + (IF m = 0 THEN n ELSE 0)
      BY <1>1, <3>4, <3>5
    <3> QED
      BY <2>1, <1>6, <3>1, <3>3, <3>5, <3>6
  <2>2. CASE b # a
    <3>1. /\ obj'.slot[b] = obj.slot[b] /\ obj'.round[b] = obj.round[b] /\ obj'.due[b] = obj.due[b]
          /\ obj'.pos = obj.pos /\ obj'.lastTock = obj.lastTock
      BY <1>6, <2>2 DEF WheelInv, WheelTypeOK
    <3>2. Dist(b)' = Dist(b)
      BY <3>1 DEF Dist
    <3>3. Lateness(b)' = Lateness(b)
      BY <1>6, <2>2 DEF Lateness
    <3> QED
      BY <3>1, <3>2, <3>3 DEF WheelInv, TurnsInv
  <2> QED
    BY <2>1, <2>2
<1>10. BeginInv'
  BY <1>4, <1>6 DEF WheelInv, WheelTypeOK, BeginInv
<1>11. OnceInv'
  <2>1. OnceInv
    BY DEF WheelInv
  <2>2. \A b : InQueue(b)' <=> InQueue(b)
    BY <1>6 DEF InQueue
  <2>3. \A b \in Alarms : obj'.slot[b] # NoSlot => b = a \/ obj.slot[b] # NoSlot
    BY <1>6 DEF WheelInv, WheelTypeOK
  <2>4. ~InQueue(a) /\ obj.ran[a] = 0
    BY <1>4, <2>1 DEF OnceInv
  <2>5. ASSUME NEW b \in obj'.new
        PROVE  /\ obj'.slot[b] = NoSlot /\ ~InQueue(b)' /\ obj'.ran[b] = 0
               /\ b \notin obj'.whole \union obj'.before
    <3>1. b \in obj.new /\ b # a /\ b \in Alarms
      BY <1>6 DEF WheelInv, WheelTypeOK
    <3> QED
      BY <1>6, <2>1, <2>2, <2>3, <3>1 DEF OnceInv
  <2>6. \A b \in Alarms : obj'.slot[b] # NoSlot \/ InQueue(b)' => obj'.ran[b] = 0
    BY <1>6, <2>1, <2>2, <2>3, <2>4 DEF OnceInv
  <2>7. \A b \in Alarms : obj'.slot[b] # NoSlot => ~InQueue(b)'
    BY <2>1, <2>2, <2>3, <2>4 DEF OnceInv
  <2> QED
    BY <1>6, <2>1, <2>5, <2>6, <2>7 DEF OnceInv
<1> QED
  BY <1>6, <1>8, <1>9, <1>10, <1>11 DEF WheelInv

(* Every other step keeps WheelInv: no other one turns the wheel.           *)
LEMMA WheelInvNext == WheelInv /\ [WheelNext]_mvars => WheelInv'
<1> SUFFICES ASSUME WheelInv, [WheelNext]_mvars PROVE WheelInv'
  OBVIOUS
<1> USE DEF At, Go, Stay
<1>1. CASE timingBegin
  <2>1. /\ obj'.now = obj.now /\ obj'.lastTock = obj.now /\ obj'.pos = obj.pos
        /\ obj'.began = obj.now /\ obj'.before = obj.before /\ obj'.new = obj.new
        /\ obj'.whole = obj.whole /\ obj'.due = obj.due /\ obj'.slot = obj.slot
        /\ obj'.round = obj.round /\ obj'.queue = obj.queue /\ obj'.early = obj.early
        /\ obj'.ran = obj.ran
        /\ DOMAIN obj' = DOMAIN obj
    BY <1>1 DEF timingBegin, WheelInv, WheelTypeOK
  <2>2. class' = class /\ pc' = [pc EXCEPT !["timing"] = "loop"] /\ pc["timing"] = "begin"
    BY <1>1 DEF timingBegin
  <2>3. obj.now \in Nat /\ obj.lastTock = 0 /\ obj.began = 0
    BY <2>2 DEF WheelInv, WheelTypeOK, BeginInv
  <2>4. WheelTypeOK'
    BY <2>1, <2>2, <2>3 DEF WheelInv, WheelTypeOK
  <2>5. TurnsInv'
    <3> SUFFICES ASSUME NEW a \in Alarms, obj'.slot[a] # NoSlot
                 PROVE  obj'.lastTock + obj'.round[a] * WHEEL_SIZE + Dist(a)'
                          = obj'.due[a] + Lateness(a)'
      BY DEF TurnsInv
    <3>1. 0 + obj.round[a] * WHEEL_SIZE + Dist(a) = obj.due[a] + Lateness(a) /\ a \in obj.before
      BY <2>1, <2>2, <2>3 DEF WheelInv, TurnsInv, BeginInv
    <3>2. Dist(a)' = Dist(a)
      BY <2>1 DEF Dist
    <3>3. Dist(a) \in Int
      BY WheelAssumption, <2>1 DEF Dist, Away, WheelInv, WheelTypeOK, Slots, NoSlot
    <3>4. /\ Lateness(a) = (IF a \in obj.whole THEN WHEEL_SIZE ELSE 0) + 0
          /\ Lateness(a)' = (IF a \in obj.whole THEN WHEEL_SIZE ELSE 0) + obj.now
      BY <2>1, <2>3, <3>1 DEF Lateness
    <3>5. obj.round[a] \in Nat /\ obj.due[a] \in Nat
      BY DEF WheelInv, WheelTypeOK
    <3>6. PICK x \in Nat : x = obj.round[a] * WHEEL_SIZE
      BY WheelAssumption, <3>5
    <3>7. PICK w \in Nat : w = IF a \in obj.whole THEN WHEEL_SIZE ELSE 0
      BY WheelAssumption
    <3>8. PICK d \in Int : d = Dist(a)
      BY <3>3
    <3>9. 0 + x + d = obj.due[a] + (w + 0)
      BY <3>1, <3>4, <3>6, <3>7, <3>8
    <3>10. obj.now + x + d = obj.due[a] + (w + obj.now)
      BY <2>3, <3>5, <3>9
    <3> QED
      BY <2>1, <3>2, <3>4, <3>6, <3>7, <3>8, <3>10
  <2>6. BeginInv'
    BY <2>2 DEF BeginInv, WheelInv, WheelTypeOK
  <2>7. OnceInv'
    BY <2>1 DEF WheelInv, OnceInv, InQueue
  <2> QED
    BY <2>1, <2>4, <2>5, <2>6, <2>7 DEF WheelInv
<1>2. CASE timingRun
  BY <1>2, TurnKept
<1>3. ASSUME NEW a \in Alarms, NEW d \in Delays, addTask(a, d) PROVE WheelInv'
  BY <1>3, AddKept
<1>4. CASE execTake /\ ~obj.stoped /\ obj.queue # <<>>
  <2> DEFINE q == obj.queue
             h == Head(obj.queue)
  <2>1. /\ obj'.now = obj.now /\ obj'.lastTock = obj.lastTock /\ obj'.pos = obj.pos
        /\ obj'.began = obj.began /\ obj'.before = obj.before /\ obj'.new = obj.new
        /\ obj'.whole = obj.whole /\ obj'.due = obj.due /\ obj'.slot = obj.slot
        /\ obj'.round = obj.round /\ obj'.queue = Tail(obj.queue)
        /\ obj'.early = obj.early
        /\ obj'.ran = [obj.ran EXCEPT ![h] = obj.ran[h] + 1]
        /\ DOMAIN obj' = DOMAIN obj
    <3>1. obj' = [obj EXCEPT !.queue = Tail(obj.queue), !.ran[h] = obj.ran[h] + 1]
      BY <1>4 DEF execTake
    <3> HIDE DEF h
    <3> QED
      BY <3>1 DEF WheelInv, WheelTypeOK
  <2>2. class' = class /\ pc' = [pc EXCEPT !["exec"] = "loop"]
    BY <1>4 DEF execTake
  <2>3. q \in Seq(Alarms) /\ q # <<>> /\ \A i, j \in DOMAIN q : q[i] = q[j] => i = j
    BY <1>4 DEF WheelInv, WheelTypeOK, OnceInv
  <2> HIDE DEF q
  <2>4. LET s == Tail(q)
        IN /\ s \in Seq(Alarms) /\ Head(q) \in Alarms
           /\ \A i, j \in DOMAIN s : s[i] = s[j] => i = j
           /\ \E i \in DOMAIN q : q[i] = Head(q)
           /\ \A a : (\E i \in DOMAIN s : s[i] = a) <=> a # Head(q) /\ \E i \in DOMAIN q : q[i] = a
    BY <2>3, RowTail
  <2>5. /\ h \in Alarms /\ InQueue(h) /\ \A a : InQueue(a)' <=> a # h /\ InQueue(a)
        /\ obj'.queue \in Seq(Alarms)
        /\ \A i, j \in DOMAIN obj'.queue : obj'.queue[i] = obj'.queue[j] => i = j
    <3>1. h = Head(q) /\ obj'.queue = Tail(q) /\ obj.queue = q
      BY <2>1 DEF q
    <3> HIDE DEF h
    <3> QED
      BY <2>4, <3>1 DEF InQueue
  <2> HIDE DEF h
  <2>6. obj.ran[h] = 0 /\ obj.slot[h] = NoSlot /\ h \notin obj.new
    BY <2>5 DEF WheelInv, OnceInv
  <2>7. WheelTypeOK'
    BY <2>1, <2>2, <2>5, <2>6 DEF WheelInv, WheelTypeOK
  <2>8. TurnsInv'
    BY <2>1 DEF WheelInv, TurnsInv, Dist, Lateness
  <2>9. BeginInv'
    BY <2>1, <2>2 DEF WheelInv, WheelTypeOK, BeginInv
  <2>10. OnceInv'
    <3>1. OnceInv
      BY DEF WheelInv
    <3>2. \A a \in Alarms : obj'.ran[a] = IF a = h THEN 1 ELSE obj.ran[a]
      BY <2>1, <2>6 DEF WheelInv, WheelTypeOK
    <3>3. obj'.new \subseteq Alarms
      BY <2>7 DEF WheelTypeOK
    <3>4. ASSUME NEW a \in obj'.new
          PROVE  /\ obj'.slot[a] = NoSlot /\ ~InQueue(a)' /\ obj'.ran[a] = 0
                 /\ a \notin obj'.whole \union obj'.before
      BY <2>1, <2>5, <2>6, <3>1, <3>2, <3>3 DEF OnceInv
    <3>5. \A a \in Alarms : obj'.slot[a] # NoSlot \/ InQueue(a)' => obj'.ran[a] = 0
      BY <2>1, <2>5, <2>6, <3>1, <3>2 DEF OnceInv
    <3>6. \A a \in Alarms : obj'.slot[a] # NoSlot => ~InQueue(a)'
      BY <2>1, <2>5, <3>1 DEF OnceInv
    <3>7. \A a \in Alarms : obj'.ran[a] <= 1
      BY <3>1, <3>2 DEF OnceInv
    <3> QED
      BY <2>5, <3>4, <3>5, <3>6, <3>7 DEF OnceInv
  <2> QED
    BY <2>1, <2>7, <2>8, <2>9, <2>10 DEF WheelInv
<1>5. CASE ClockTick
  <2>1. /\ obj'.now = obj.now + 1 /\ obj'.lastTock = obj.lastTock
        /\ obj'.pos = obj.pos /\ obj'.began = obj.began /\ obj'.before = obj.before
        /\ obj'.new = obj.new /\ obj'.whole = obj.whole /\ obj'.due = obj.due
        /\ obj'.slot = obj.slot /\ obj'.round = obj.round /\ obj'.queue = obj.queue
        /\ obj'.early = obj.early /\ obj'.ran = obj.ran
        /\ DOMAIN obj' = DOMAIN obj /\ class' = class /\ pc' = pc
    BY <1>5 DEF ClockTick, WheelInv, WheelTypeOK
  <2>2. WheelTypeOK'
    BY <2>1 DEF WheelInv, WheelTypeOK
  <2>3. TurnsInv' /\ BeginInv' /\ OnceInv'
    BY <2>1 DEF WheelInv, TurnsInv, Dist, Lateness, BeginInv, OnceInv, InQueue
  <2> QED
    BY <2>1, <2>2, <2>3 DEF WheelInv
<1>6. CASE \/ timingEnds \/ execLoop \/ execWait \/ (execTake /\ (obj.stoped \/ obj.queue = <<>>))
           \/ destroyWheel \/ wheelNotify \/ wheelJoined \/ (\E a \in Alarms : cancle(a))
           \/ UNCHANGED mvars
  <2>1. /\ obj'.now = obj.now /\ obj'.lastTock = obj.lastTock /\ obj'.pos = obj.pos
        /\ obj'.began = obj.began /\ obj'.before = obj.before /\ obj'.new = obj.new
        /\ obj'.whole = obj.whole /\ obj'.due = obj.due /\ obj'.slot = obj.slot
        /\ obj'.round = obj.round /\ obj'.queue = obj.queue /\ obj'.early = obj.early
        /\ obj'.ran = obj.ran
        /\ DOMAIN obj' = DOMAIN obj /\ class' = class
    <3>1. CASE timingEnds \/ execLoop \/ wheelJoined
      BY <3>1 DEF timingEnds, execLoop, wheelJoined
    <3>2. CASE execWait
      BY <3>2 DEF execWait, WheelInv, WheelTypeOK
    <3>3. CASE execTake /\ (obj.stoped \/ obj.queue = <<>>)
      BY <3>3 DEF execTake
    <3>4. CASE destroyWheel
      BY <3>4 DEF destroyWheel, WheelInv, WheelTypeOK
    <3>5. CASE wheelNotify
      BY <3>5 DEF wheelNotify, WheelInv, WheelTypeOK
    <3>6. CASE \E a \in Alarms : cancle(a)
      BY <3>6 DEF cancle, WheelInv, WheelTypeOK
    <3>7. CASE UNCHANGED mvars
      BY <3>7 DEF mvars
    <3> QED
      BY <1>6, <3>1, <3>2, <3>3, <3>4, <3>5, <3>6, <3>7
  <2>2. \/ pc' = pc
        \/ \E t \in {"timing", "exec", "u2"},
              l \in {"done", "take", "woken", "loop", "join", "join2"} :
             pc' = [pc EXCEPT ![t] = l] /\ (t = "timing" => l = "done")
    BY <1>6 DEF timingEnds, execLoop, execWait, execTake, destroyWheel, wheelNotify, wheelJoined,
       cancle, mvars
  <2>3. WheelTypeOK'
    BY <2>1, <2>2 DEF WheelInv, WheelTypeOK
  <2>4. TurnsInv' /\ OnceInv'
    BY <2>1 DEF WheelInv, TurnsInv, Dist, Lateness, OnceInv, InQueue
  <2>5. BeginInv'
    BY <2>1, <2>2 DEF WheelInv, WheelTypeOK, BeginInv
  <2> QED
    BY <2>1, <2>3, <2>4, <2>5 DEF WheelInv
<1> QED
  BY <1>1, <1>2, <1>3, <1>4, <1>5, <1>6 DEF WheelNext, WheelOthers

(* WheelOnTime, for every size of the wheel, every delay and any number of  *)
(* tasks: none runs before its time, none stays in the wheel when it should *)
(* have left, none runs twice.                                              *)
THEOREM WheelOnTimeAlways == WheelSpec => []WheelOnTime
<1>1. WheelInv => WheelOnTime
  <2> SUFFICES ASSUME WheelInv, NEW a \in Alarms \ obj.new
               PROVE  /\ a \notin obj.early
                      /\ obj.slot[a] # NoSlot => obj.lastTock < obj.due[a] + Lateness(a)
                      /\ obj.ran[a] <= 1
    BY DEF WheelOnTime
  <2>1. a \notin obj.early /\ obj.ran[a] <= 1
    BY DEF WheelInv, OnceInv
  <2>2. ASSUME obj.slot[a] # NoSlot PROVE obj.lastTock < obj.due[a] + Lateness(a)
    <3>1. obj.lastTock + obj.round[a] * WHEEL_SIZE + Dist(a) = obj.due[a] + Lateness(a)
      BY <2>2 DEF WheelInv, TurnsInv
    <3>2. /\ WHEEL_SIZE \in Nat \ {0} /\ obj.pos \in 0..WHEEL_SIZE - 1
          /\ obj.slot[a] \in 0..WHEEL_SIZE - 1
      BY <2>2, WheelAssumption DEF WheelInv, WheelTypeOK, Slots, NoSlot
    <3>3. Dist(a) \in Nat /\ Dist(a) > 0
      BY <3>2 DEF Dist, Away
    <3>4. obj.lastTock \in Nat /\ obj.round[a] * WHEEL_SIZE \in Nat
      BY <3>2 DEF WheelInv, WheelTypeOK
    <3> QED
      BY <3>1, <3>3, <3>4
  <2> QED
    BY <2>1, <2>2
<1> QED
  BY <1>1, WheelInvInit, WheelInvNext, PTL DEF WheelSpec

-----------------------------------------------------------------------------
(* BlockingList.  An item is in one place, once; while nothing arrived in   *)
(* bulk, the threads that were woken to test the list again are as many as  *)
(* its items if anyone still sleeps.                                        *)
InList(x) == \E i \in DOMAIN obj.list : obj.list[i] = x
ListInjective == \A i, j \in DOMAIN obj.list : obj.list[i] = obj.list[j] => i = j
Tester(t) == IF pc[t] = "test" /\ t \notin obj.asleep THEN 1 ELSE 0
ListTypeOK ==
  /\ pc \in [Callers -> {"idle", "test"}]
  /\ DOMAIN obj = {"list", "new", "asleep", "timed", "got", "gone", "bulk"}
  /\ obj.list \in Seq(Items) /\ obj.new \subseteq Items /\ ListInjective
  /\ obj.asleep \subseteq Takers /\ \A t \in obj.asleep : pc[t] = "test"
OneOfFour ==
  \A x \in Items :
    /\ x \in obj.new \/ InList(x) \/ x \in obj.got \/ x \in obj.gone
    /\ x \in obj.new => ~InList(x) /\ x \notin obj.got /\ x \notin obj.gone
    /\ InList(x) => x \notin obj.got /\ x \notin obj.gone
    /\ x \notin obj.got \/ x \notin obj.gone
EnoughTesters ==
  ~obj.bulk /\ obj.asleep # {} => Tester("u2") + Tester("u3") >= Len(obj.list)
ListInv == ListTypeOK /\ OneOfFour /\ EnoughTesters

(* SimpleThreadPool.  A task is in one place; the threads of a life that is *)
(* over are done before the next begins, and what is left in the list then  *)
(* came late.                                                               *)
InHand(x) == \E w \in Workers : obj.hand[w] = x
Ran(x) == obj.ranIn[x] # {}
PoolTypeOK ==
  /\ DOMAIN pc = Callers \union Workers
  /\ pc["u1"] \in {"idle", "push"} /\ pc["u2"] \in {"idle", "join"} /\ pc["u3"] = "idle"
  /\ \A w \in Workers : pc[w] \in {"done", "loop", "pop", "task"}
  /\ DOMAIN obj = {"stoped", "list", "new", "threads", "life", "born", "hand", "ranIn", "gone",
                   "late", "holds", "rejoined"}
  /\ obj.list \in Seq(Items) /\ obj.new \subseteq Items /\ obj.threads \subseteq Workers
  /\ obj.holds \in Items \union {NoItem} /\ DOMAIN obj.hand = Workers
  /\ DOMAIN obj.born = Items /\ DOMAIN obj.ranIn = Items
  /\ ListInjective
OneOfSix ==
  \A x \in Items :
    /\ x \in obj.new \/ InList(x) \/ x = obj.holds \/ x \in obj.gone \/ Ran(x) \/ InHand(x)
    /\ x \in obj.new => ~InList(x) /\ x # obj.holds /\ x \notin obj.gone /\ ~Ran(x) /\ ~InHand(x)
    /\ InList(x) => x # obj.holds /\ x \notin obj.gone /\ ~Ran(x) /\ ~InHand(x)
    /\ x = obj.holds => x \notin obj.gone /\ ~Ran(x) /\ ~InHand(x)
    /\ x \in obj.gone => ~Ran(x) /\ ~InHand(x)
    /\ ~Ran(x) \/ ~InHand(x)
Handed ==
  /\ pc["u1"] = "push" <=> obj.holds # NoItem
  /\ \A w \in Workers : IF pc[w] = "task" THEN obj.hand[w] \in Items ELSE obj.hand[w] = NoItem
  /\ \A w, v \in Workers : obj.hand[w] = obj.hand[v] /\ obj.hand[w] # NoItem => w = v
Lives ==
  /\ \A w \in Workers : pc[w] # "done" => w \in obj.threads
  /\ obj.stoped /\ pc["u2"] = "idle" =>
       /\ \A w \in Workers : pc[w] = "done"
       /\ \A x \in Items : InList(x) => x \in obj.late
  /\ \A x \in Items :
       /\ InList(x) \/ InHand(x) => x \in obj.late \/ obj.rejoined \/ obj.born[x] = obj.life
       /\ \A r \in obj.ranIn[x] : x \in obj.late \/ obj.rejoined \/ r[2] = obj.born[x]
       /\ Cardinality(obj.ranIn[x]) <= 1
PoolInv == PoolTypeOK /\ OneOfSix /\ Handed /\ Lives
BlockInv ==
  /\ class \in {"list", "lists", "pool"}
  /\ class = "list" => ListInv
  /\ class = "pool" => PoolInv

(* Sorting a set puts each of its elements in the row, once: their ranks    *)
(* differ and are below the number of elements.                             *)
LEMMA SortedRow ==
  ASSUME NEW S \in SUBSET Items
  PROVE  LET s == SortedSeq(S)
         IN /\ s \in Seq(Items) /\ Len(s) = Cardinality(S)
            /\ \A i, j \in DOMAIN s : s[i] = s[j] => i = j
            /\ \A x : x \in S <=> \E i \in DOMAIN s : s[i] = x
<1> DEFINE n == Cardinality(S)
           Below(x) == {y \in S : y < x}
           rank == [x \in S |-> Cardinality(Below(x))]
           s == SortedSeq(S)
<1>1. IsFiniteSet(S) /\ n \in Nat /\ S \subseteq Nat
  BY ListAssumption, FS_Subset, FS_CardinalityType
<1>2. ASSUME NEW x \in S
      PROVE  IsFiniteSet(Below(x)) /\ Cardinality(Below(x)) \in Nat /\ Cardinality(Below(x)) < n
  <2>1. Below(x) \in SUBSET S /\ x \notin Below(x)
    BY <1>1
  <2> HIDE DEF Below
  <2>2. /\ IsFiniteSet(Below(x)) /\ Cardinality(Below(x)) <= n
        /\ n = Cardinality(Below(x)) => S = Below(x)
    BY <1>1, <2>1, FS_Subset
  <2>3. Cardinality(Below(x)) \in Nat
    BY <2>2, FS_CardinalityType
  <2> HIDE DEF n
  <2> QED
    BY <1>1, <2>1, <2>2, <2>3
<1>3. ASSUME NEW x \in S, NEW z \in S, x < z PROVE Cardinality(Below(x)) < Cardinality(Below(z))
  <2>1. Below(x) \in SUBSET Below(z) /\ x \in Below(z) /\ x \notin Below(x)
    <3>1. x \in Int /\ z \in Int /\ \A y \in S : y \in Int
      BY <1>1
    <3>2. \A y \in S : y < x => y < z
      BY <1>3, <3>1
    <3>3. ~(x < x)
      BY <3>1
    <3> QED
      BY <1>3, <3>2, <3>3
  <2> HIDE DEF Below
  <2>2. /\ Cardinality(Below(x)) <= Cardinality(Below(z))
        /\ Cardinality(Below(z)) = Cardinality(Below(x)) => Below(z) = Below(x)
    BY <1>2, <2>1, FS_Subset
  <2> QED
    BY <1>2, <2>1, <2>2
<1>4. \A x, z \in S : rank[x] = rank[z] => x = z
  <2> SUFFICES ASSUME NEW x \in S, NEW z \in S, rank[x] = rank[z] PROVE x = z
    OBVIOUS
  <2>1. Cardinality(Below(x)) = Cardinality(Below(z))
    <3>1. rank[x] = Cardinality(Below(x)) /\ rank[z] = Cardinality(Below(z))
      OBVIOUS
    <3> QED
      BY <3>1
  <2>2. Cardinality(Below(x)) \in Nat /\ Cardinality(Below(z)) \in Nat
    BY <1>2
  <2>3. ~(x < z) /\ ~(z < x)
    <3>1. x < z => Cardinality(Below(x)) < Cardinality(Below(z))
      BY <1>3
    <3>2. z < x => Cardinality(Below(z)) < Cardinality(Below(x))
      BY <1>3
    <3> HIDE DEF Below, rank
    <3> QED
      BY <2>1, <2>2, <3>1, <3>2
  <2> QED
    BY <1>1, <2>3
<1>5. rank \in Injection(S, 0..n - 1)
  <2>1. rank \in [S -> 0..n - 1]
    <3> HIDE DEF Below, n
    <3> QED
      BY <1>1, <1>2
  <2> HIDE DEF rank
  <2> QED
    BY <1>4, <2>1 DEF Injection, IsInjective
<1>6. IsFiniteSet(0..n - 1) /\ Cardinality(0..n - 1) = n
  <2> HIDE DEF n
  <2>1. 0 \in Int /\ n - 1 \in Int /\ (IF 0 > n - 1 THEN 0 ELSE n - 1 - 0 + 1) = n
    BY <1>1
  <2> QED
    BY <2>1, FS_Interval, Zenon
<1>7. rank \in Surjection(S, 0..n - 1)
  <2> HIDE DEF rank
  <2> QED
    BY <1>5, <1>6, FS_Injection
<1>8. \A i \in 1..n : \E x \in S : Cardinality(Below(x)) = i - 1
  <2>1. \A i \in 0..n - 1 : \E x \in S : rank[x] = i
    <3> HIDE DEF rank, n
    <3> QED
      BY <1>7 DEF Surjection
  <2>2. \A x \in S : rank[x] = Cardinality(Below(x))
    OBVIOUS
  <2> HIDE DEF rank, n, Below
  <2> QED
    BY <1>1, <2>1, <2>2
<1>9. s = [i \in 1..n |-> CHOOSE x \in S : Cardinality(Below(x)) = i - 1]
  BY DEF SortedSeq
<1>10. DOMAIN s = 1..n /\ \A i \in 1..n : s[i] \in S /\ Cardinality(Below(s[i])) = i - 1
  <2> HIDE DEF n, s, Below
  <2> QED
    BY <1>8, <1>9
<1>11. s \in Seq(Items) /\ Len(s) = n
  <2>1. s \in [1..n -> Items]
    <3> HIDE DEF n, Below
    <3> QED
      BY <1>9, <1>10
  <2> HIDE DEF s, n
  <2> QED
    BY <1>1, <2>1, SeqDef
<1>12. \A i, j \in 1..n : s[i] = s[j] => i = j
  <2> HIDE DEF n, s, Below
  <2>1. \A i \in 1..n : i \in Int
    OBVIOUS
  <2> QED
    BY <1>1, <1>10, <2>1
<1>13. ASSUME NEW x \in S PROVE \E i \in 1..n : s[i] = x
  <2> DEFINE i == Cardinality(Below(x)) + 1
  <2>1. i \in 1..n /\ i - 1 = Cardinality(Below(x))
    <3> HIDE DEF n, Below
    <3> QED
      BY <1>1, <1>2
  <2>2. s[i] \in S /\ Cardinality(Below(s[i])) = Cardinality(Below(x))
    <3> HIDE DEF n, s, Below, i
    <3> QED
      BY <1>10, <2>1
  <2>3. s[i] = x
    <3>1. rank[s[i]] = Cardinality(Below(s[i])) /\ rank[x] = Cardinality(Below(x))
      BY <2>2
    <3> HIDE DEF rank, s, i, Below
    <3> QED
      BY <1>4, <2>2, <3>1
  <2> HIDE DEF i, s, n
  <2> QED
    BY <2>1, <2>3
<1> HIDE DEF n, s, Below
<1>14. \A x : x \in S <=> \E i \in DOMAIN s : s[i] = x
  BY <1>10, <1>13
<1> QED
  BY <1>10, <1>11, <1>12, <1>14 DEF s, n

(* What is left when one end of a list is taken, and what it is when one    *)
(* more is put at an end.                                                   *)
Distinct(s) == \A i, j \in DOMAIN s : s[i] = s[j] => i = j
Has(s, y) == \E i \in DOMAIN s : s[i] = y
LEMMA EndTaken ==
  ASSUME NEW s \in Seq(Items), s # <<>>, Distinct(s), NEW l \in {Tail(s), Front(s)}
  PROVE  /\ l \in Seq(Items) /\ Len(l) \in Nat /\ Len(s) = Len(l) + 1
         /\ Distinct(l) /\ \A x : Has(l, x) => Has(s, x)
<1> USE DEF Distinct, Has
<1>1. Len(s) \in Nat /\ Len(s) > 0 /\ DOMAIN s = 1..Len(s)
  OBVIOUS
<1>2. CASE l = Tail(s)
  <2>1. l \in Seq(Items) /\ Len(l) = Len(s) - 1
    BY <1>1, <1>2
  <2>2. /\ \A i, j \in DOMAIN l : l[i] = l[j] => i = j
        /\ \A x : (\E i \in DOMAIN l : l[i] = x) => \E i \in DOMAIN s : s[i] = x
    BY <1>2, RowTail
  <2> QED
    BY <1>1, <2>1, <2>2
<1>3. CASE l = Front(s)
  <2>1. l \in Seq(Items) /\ Len(l) = Len(s) - 1 /\ \A i \in 1..Len(s) - 1 : l[i] = s[i]
    BY <1>1, <1>3 DEF Front
  <2>2. DOMAIN l = 1..Len(s) - 1 /\ \A i \in 1..Len(s) - 1 : i \in 1..Len(s)
    BY <1>1, <2>1
  <2> QED
    BY <1>1, <2>1, <2>2
<1> QED
  BY <1>2, <1>3

LEMMA EndAdded ==
  ASSUME NEW s \in Seq(Items), NEW x \in Items, Distinct(s), ~Has(s, x),
         NEW l \in {<<x>> \o s, Append(s, x)}
  PROVE  /\ l \in Seq(Items) /\ Len(s) \in Nat /\ Len(l) = Len(s) + 1
         /\ Distinct(l) /\ \A y : Has(l, y) <=> y = x \/ Has(s, y)
<1> USE DEF Distinct, Has
<1>1. Len(s) \in Nat /\ DOMAIN s = 1..Len(s)
  OBVIOUS
<1>2. CASE l = <<x>> \o s
  <2>1. l \in Seq(Items) /\ Len(l) = Len(s) + 1 /\ l[1] = x /\ \A i \in 1..Len(s) : l[i + 1] = s[i]
    BY <1>1, <1>2
  <2>2. \A i \in 1..Len(s) + 1 : i = 1 \/ (i - 1 \in 1..Len(s) /\ l[i] = s[i - 1])
    BY <1>1, <2>1
  <2>3. DOMAIN l = 1..Len(s) + 1 /\ \A i \in 1..Len(s) : i + 1 \in 1..Len(s) + 1
    BY <1>1, <2>1
  <2>4. \A i, j \in DOMAIN l : l[i] = l[j] => i = j
    <3> SUFFICES ASSUME NEW i \in 1..Len(s) + 1, NEW j \in 1..Len(s) + 1, l[i] = l[j] PROVE i = j
      BY <2>3
    <3>0. \A k \in 1..Len(s) + 1 : k # 1 => l[k] # x
      BY <1>1, <2>2
    <3>1. CASE i = 1 \/ j = 1
      BY <2>1, <3>0, <3>1
    <3>2. CASE i # 1 /\ j # 1
      <4>1. i - 1 \in DOMAIN s /\ j - 1 \in DOMAIN s /\ s[i - 1] = s[j - 1]
        BY <1>1, <2>2, <3>2
      <4>2. i - 1 = j - 1
        BY <4>1
      <4> QED
        BY <1>1, <4>2
    <3> QED
      BY <3>1, <3>2
  <2>5. \A y : (\E i \in DOMAIN l : l[i] = y) => y = x \/ \E i \in DOMAIN s : s[i] = y
    <3> SUFFICES ASSUME NEW y, NEW k \in 1..Len(s) + 1, l[k] = y, y # x
                 PROVE  \E i \in 1..Len(s) : s[i] = y
      BY <1>1, <2>3
    <3>1. k # 1
      BY <2>1
    <3> QED
      BY <2>2, <3>1
  <2>6. \A y : (y = x \/ \E i \in DOMAIN s : s[i] = y) => \E i \in DOMAIN l : l[i] = y
    <3>1. 1 \in DOMAIN l
      BY <1>1, <2>3
    <3> QED
      BY <1>1, <2>1, <2>3, <3>1
  <2> QED
    BY <1>1, <2>1, <2>4, <2>5, <2>6
<1>3. CASE l = Append(s, x)
  <2>1. /\ l \in Seq(Items) /\ Len(l) = Len(s) + 1 /\ l[Len(s) + 1] = x
        /\ \A i \in 1..Len(s) : l[i] = s[i]
    BY <1>1, <1>3
  <2>2. DOMAIN l = 1..Len(s) + 1 /\ Len(s) + 1 \in 1..Len(s) + 1
    BY <1>1, <2>1
  <2>3. \A i \in 1..Len(s) + 1 : i = Len(s) + 1 \/ i \in 1..Len(s)
    BY <1>1
  <2>4. \A i \in 1..Len(s) : i \in 1..Len(s) + 1
    BY <1>1
  <2> QED
    BY <1>1, <2>1, <2>2, <2>3, <2>4
<1> QED
  BY <1>2, <1>3

(* A row has at least as many places as elements.                           *)
LEMMA RowBound ==
  ASSUME NEW s \in Seq(Items)
  PROVE  ToSet(s) \in SUBSET Items /\ Cardinality(ToSet(s)) <= Len(s)
<1>1. Len(s) \in Nat /\ DOMAIN s = 1..Len(s) /\ \A i \in 1..Len(s) : s[i] \in Items
  OBVIOUS
<1>2. ToSet(s) \in SUBSET Items
  BY <1>1 DEF ToSet
<1>3. s \in Surjection(1..Len(s), ToSet(s))
  <2>1. s \in [1..Len(s) -> ToSet(s)]
    BY <1>1 DEF ToSet
  <2> QED
    BY <1>1, <2>1 DEF Surjection, ToSet
<1> QED
  BY <1>1, <1>2, <1>3, FS_SurjCardinalityBound DEF ExistsSurjection

(* notify_one() wakes a sleeper if there is one.                            *)
LEMMA Notified ==
  ASSUME ListTypeOK, NEW o, obj' \in NotifyOne(o), DOMAIN o = DOMAIN obj,
         o.asleep = obj.asleep, pc' = pc
  PROVE  /\ DOMAIN obj' = DOMAIN obj /\ obj'.list = o.list /\ obj'.new = o.new
         /\ obj'.got = o.got /\ obj'.gone = o.gone /\ obj'.bulk = o.bulk
         /\ obj'.asleep \subseteq obj.asleep
         /\ obj'.asleep # {} => Tester("u2")' + Tester("u3")' = Tester("u2") + Tester("u3") + 1
<1>1. CASE o.asleep = {}
  <2>1. obj' = o
    BY <1>1 DEF NotifyOne
  <2> QED
    BY <1>1, <2>1
<1>2. CASE o.asleep # {}
  <2>1. PICK t \in o.asleep : obj' = [o EXCEPT !.asleep = @ \ {t}]
    BY <1>2 DEF NotifyOne
  <2>2. /\ DOMAIN obj' = DOMAIN obj /\ obj'.list = o.list /\ obj'.new = o.new
        /\ obj'.got = o.got /\ obj'.gone = o.gone /\ obj'.bulk = o.bulk
        /\ obj'.asleep = obj.asleep \ {t}
    BY <2>1 DEF ListTypeOK
  <2>3. t \in Takers /\ pc[t] = "test" /\ t \in obj.asleep
    BY <2>1 DEF ListTypeOK
  <2>4. /\ Tester("u2") \in Nat /\ Tester("u3") \in Nat
        /\ Tester(t) = 0 /\ Tester(t)' = 1
        /\ \A u \in Takers : u # t => Tester(u)' = Tester(u)
    BY <2>2, <2>3 DEF Tester
  <2>5. Tester("u2")' + Tester("u3")' = Tester("u2") + Tester("u3") + 1
    <3>1. CASE t = "u2"
      <4>1. Tester("u2") = 0 /\ Tester("u2")' = 1 /\ Tester("u3")' = Tester("u3")
        BY <2>4, <3>1 DEF Takers
      <4> QED
        BY <2>4, <4>1
    <3>2. CASE t = "u3"
      <4>1. Tester("u3") = 0 /\ Tester("u3")' = 1 /\ Tester("u2")' = Tester("u2")
        BY <2>4, <3>2 DEF Takers
      <4> QED
        BY <2>4, <4>1
    <3> QED
      BY <2>3, <3>1, <3>2 DEF Takers
  <2> QED
    BY <2>2, <2>5
<1> QED
  BY <1>1, <1>2

(* Taking one item from an end of the list.                                 *)
LEMMA TakenKept ==
  ASSUME ListTypeOK, OneOfFour, obj.list # <<>>, NEW l \in FrontOrBack, obj'.list = l,
         obj'.new = obj.new, obj'.gone = obj.gone,
         obj'.got = obj.got \union (ToSet(obj.list) \ ToSet(l))
  PROVE  /\ OneOfFour' /\ ListInjective' /\ l \in Seq(Items)
         /\ Len(l) \in Nat /\ Len(obj.list) = Len(l) + 1
<1>1. /\ l \in Seq(Items) /\ Len(l) \in Nat /\ Len(obj.list) = Len(l) + 1
      /\ \A i, j \in DOMAIN l : l[i] = l[j] => i = j
      /\ \A x : (\E i \in DOMAIN l : l[i] = x) => \E i \in DOMAIN obj.list : obj.list[i] = x
  <2> DEFINE s == obj.list
  <2>1. s \in Seq(Items) /\ s # <<>> /\ Distinct(s) /\ l \in {Tail(s), Front(s)}
    BY DEF ListTypeOK, ListInjective, FrontOrBack, Distinct
  <2> HIDE DEF s
  <2>2. /\ l \in Seq(Items) /\ Len(l) \in Nat /\ Len(s) = Len(l) + 1
        /\ Distinct(l) /\ \A x : Has(l, x) => Has(s, x)
    BY <2>1, EndTaken
  <2> QED
    BY <2>2 DEF s, Distinct, Has
<1>2. \A x : (x \in ToSet(obj.list) <=> InList(x)) /\ (x \in ToSet(l) <=> InList(x)')
  BY DEF ToSet, InList
<1>3. \A x : InList(x)' => InList(x)
  BY <1>1 DEF InList
<1>4. \A x : x \in obj'.got <=> x \in obj.got \/ (InList(x) /\ ~InList(x)')
  BY <1>2
<1>5. OneOfFour'
  BY <1>3, <1>4 DEF OneOfFour
<1> QED
  BY <1>1, <1>5 DEF ListInjective

(* Every call of a list keeps its invariant.                                *)
LEMMA ListStepKept == class = "list" /\ ListInv /\ ListNext => class' = "list" /\ ListInv'
<1> SUFFICES ASSUME class = "list", ListInv, ListNext PROVE class' = "list" /\ ListInv'
  OBVIOUS
<1> USE DEF At, Go, Stay
<1>0. /\ ListTypeOK /\ OneOfFour /\ EnoughTesters
      /\ \A t : Tester(t) \in {0, 1}
  BY DEF ListInv, Tester
<1>1. ASSUME NEW x \in Items, push_front(x) \/ push_back(x) PROVE class' = "list" /\ ListInv'
  <2>1. PICK l \in {<<x>> \o obj.list, Append(obj.list, x)} : obj' \in NotifyOne(Put(l, x))
    BY <1>1 DEF push_front, push_back
  <2>2. class' = class /\ pc' = pc /\ x \in obj.new
    BY <1>1 DEF push_front, push_back
  <2>3. /\ l \in Seq(Items) /\ Len(obj.list) \in Nat /\ Len(l) = Len(obj.list) + 1
        /\ \A i, j \in DOMAIN l : l[i] = l[j] => i = j
        /\ \A y : (\E i \in DOMAIN l : l[i] = y) <=> y = x \/ InList(y)
    <3> DEFINE s == obj.list
    <3>1. /\ s \in Seq(Items) /\ \A i, j \in DOMAIN s : s[i] = s[j] => i = j
      BY <1>0 DEF ListTypeOK, ListInjective
    <3>2. (\A i \in DOMAIN s : s[i] # x) /\ l \in {<<x>> \o s, Append(s, x)}
      BY <1>0, <2>2 DEF InList, OneOfFour
    <3>3. \A y : InList(y) <=> \E i \in DOMAIN s : s[i] = y
      BY DEF InList
    <3> HIDE DEF s
    <3>4. Distinct(s) /\ ~Has(s, x)
      BY <3>1, <3>2 DEF Distinct, Has
    <3>5. /\ l \in Seq(Items) /\ Len(s) \in Nat /\ Len(l) = Len(s) + 1
          /\ Distinct(l) /\ \A y : Has(l, y) <=> y = x \/ Has(s, y)
      BY <3>1, <3>2, <3>4, EndAdded
    <3> QED
      BY <3>3, <3>5 DEF s, Distinct, Has
  <2> DEFINE o == Put(l, x)
  <2>4. /\ DOMAIN o = DOMAIN obj /\ o.asleep = obj.asleep /\ o.list = l
        /\ o.new = obj.new \ {x} /\ o.got = obj.got /\ o.gone = obj.gone /\ o.bulk = obj.bulk
    BY <1>0 DEF Put, ListTypeOK
  <2>5. obj' \in NotifyOne(o)
    BY <2>1
  <2> HIDE DEF o
  <2>6. /\ DOMAIN obj' = DOMAIN obj /\ obj'.list = l /\ obj'.new = obj.new \ {x}
        /\ obj'.got = obj.got /\ obj'.gone = obj.gone /\ obj'.bulk = obj.bulk
        /\ obj'.asleep \subseteq obj.asleep
        /\ obj'.asleep # {} => Tester("u2")' + Tester("u3")' = Tester("u2") + Tester("u3") + 1
    BY <1>0, <2>2, <2>4, <2>5, Notified
  <2>7. \A y : InList(y)' <=> y = x \/ InList(y)
    <3>1. obj'.list = l
      BY <2>6
    <3>2. \A y : InList(y)' <=> \E i \in DOMAIN l : l[i] = y
      BY <3>1 DEF InList
    <3> QED
      BY <2>3, <3>2
  <2>8. ListTypeOK'
    BY <1>0, <2>2, <2>3, <2>6 DEF ListTypeOK, ListInjective
  <2>9. OneOfFour'
    BY <1>0, <2>2, <2>6, <2>7 DEF OneOfFour
  <2>10. EnoughTesters'
    <3>1. ~obj'.bulk /\ obj'.asleep # {} => Tester("u2") + Tester("u3") >= Len(obj.list)
      BY <1>0, <2>6 DEF EnoughTesters
    <3>2. Tester("u2") \in Nat /\ Tester("u3") \in Nat
      BY <1>0
    <3> QED
      BY <2>3, <2>6, <3>1, <3>2 DEF EnoughTesters
  <2> QED
    BY <2>2, <2>8, <2>9, <2>10 DEF ListInv
<1>2. CASE merge
  <2>1. PICK M \in SUBSET obj.new :
          obj' \in NotifyOne([obj EXCEPT !.list = SortedSeq(ToSet(obj.list) \union M),
                                         !.new = @ \ M, !.bulk = TRUE])
    BY <1>2 DEF merge
  <2>2. class' = class /\ pc' = pc
    BY <1>2 DEF merge
  <2> DEFINE l == SortedSeq(ToSet(obj.list) \union M)
             o == [obj EXCEPT !.list = l, !.new = @ \ M, !.bulk = TRUE]
  <2>3. /\ l \in Seq(Items) /\ \A i, j \in DOMAIN l : l[i] = l[j] => i = j
        /\ \A x : x \in ToSet(obj.list) \union M <=> \E i \in DOMAIN l : l[i] = x
    <3>1. ToSet(obj.list) \union M \in SUBSET Items
      BY <1>0, RowBound DEF ListTypeOK
    <3> QED
      BY <3>1, SortedRow
  <2> HIDE DEF l
  <2>4. /\ DOMAIN o = DOMAIN obj /\ o.asleep = obj.asleep /\ o.list = l
        /\ o.new = obj.new \ M /\ o.got = obj.got /\ o.gone = obj.gone /\ o.bulk = TRUE
    BY <1>0 DEF ListTypeOK
  <2>5. obj' \in NotifyOne(o)
    BY <2>1 DEF l
  <2> HIDE DEF o
  <2>6. /\ DOMAIN obj' = DOMAIN obj /\ obj'.list = l /\ obj'.new = obj.new \ M
        /\ obj'.got = obj.got /\ obj'.gone = obj.gone /\ obj'.bulk
        /\ obj'.asleep \subseteq obj.asleep
    BY <1>0, <2>2, <2>4, <2>5, Notified
  <2>7. \A y : InList(y)' <=> y \in M \/ InList(y)
    BY <2>3, <2>6 DEF InList, ToSet
  <2>8. ListTypeOK'
    BY <1>0, <2>2, <2>3, <2>6 DEF ListTypeOK, ListInjective
  <2>9. OneOfFour'
    BY <1>0, <2>6, <2>7 DEF OneOfFour
  <2> QED
    BY <2>2, <2>6, <2>8, <2>9 DEF ListInv, EnoughTesters
<1>3. CASE moveAssign
  <2>1. PICK M \in SUBSET obj.new :
          obj' = [obj EXCEPT !.list = SortedSeq(M), !.new = @ \ M, !.bulk = TRUE,
                             !.gone = @ \union ToSet(obj.list)]
    BY <1>3 DEF moveAssign
  <2>2. class' = class /\ pc' = pc
    BY <1>3 DEF moveAssign
  <2> DEFINE l == SortedSeq(M)
  <2>3. /\ l \in Seq(Items) /\ \A i, j \in DOMAIN l : l[i] = l[j] => i = j
        /\ \A x : x \in M <=> \E i \in DOMAIN l : l[i] = x
    <3>1. M \in SUBSET Items
      BY <1>0 DEF ListTypeOK
    <3> QED
      BY <3>1, SortedRow
  <2> HIDE DEF l
  <2>6. /\ DOMAIN obj' = DOMAIN obj /\ obj'.list = l /\ obj'.new = obj.new \ M
        /\ obj'.got = obj.got /\ obj'.gone = obj.gone \union ToSet(obj.list) /\ obj'.bulk
        /\ obj'.asleep = obj.asleep
    BY <1>0, <2>1 DEF ListTypeOK, l
  <2>7. \A y : (InList(y)' <=> y \in M) /\ (y \in ToSet(obj.list) <=> InList(y))
    BY <2>3, <2>6 DEF InList, ToSet
  <2>8. ListTypeOK'
    BY <1>0, <2>2, <2>3, <2>6 DEF ListTypeOK, ListInjective
  <2>9. OneOfFour'
    BY <1>0, <2>6, <2>7 DEF OneOfFour
  <2> QED
    BY <2>2, <2>6, <2>8, <2>9 DEF ListInv, EnoughTesters
<1>4. CASE clear
  <2>1. /\ DOMAIN obj' = DOMAIN obj /\ obj'.list = <<>> /\ obj'.new = obj.new
        /\ obj'.got = obj.got /\ obj'.gone = obj.gone \union ToSet(obj.list)
        /\ obj'.bulk = obj.bulk /\ obj'.asleep = obj.asleep /\ class' = class /\ pc' = pc
    BY <1>0, <1>4 DEF clear, ListTypeOK
  <2>2. \A y : ~InList(y)' /\ (y \in ToSet(obj.list) <=> InList(y))
    BY <2>1 DEF InList, ToSet
  <2>3. ListTypeOK'
    BY <1>0, <2>1 DEF ListTypeOK, ListInjective
  <2>4. OneOfFour'
    BY <1>0, <2>1, <2>2 DEF OneOfFour
  <2>5. EnoughTesters'
    <3>1. Tester("u2")' \in Nat /\ Tester("u3")' \in Nat
      BY DEF Tester
    <3>2. Len(obj'.list) = 0
      BY <2>1
    <3> QED
      BY <3>1, <3>2 DEF EnoughTesters
  <2> QED
    BY <2>1, <2>3, <2>4, <2>5 DEF ListInv
<1>5. CASE sort
  <2>1. /\ DOMAIN obj' = DOMAIN obj /\ obj'.list = SortedSeq(ToSet(obj.list))
        /\ obj'.new = obj.new /\ obj'.got = obj.got /\ obj'.gone = obj.gone
        /\ obj'.bulk = obj.bulk /\ obj'.asleep = obj.asleep /\ class' = class /\ pc' = pc
    BY <1>0, <1>5 DEF sort, ListTypeOK
  <2>2. ToSet(obj.list) \in SUBSET Items /\ Cardinality(ToSet(obj.list)) <= Len(obj.list)
    BY <1>0, RowBound DEF ListTypeOK
  <2> DEFINE l == SortedSeq(ToSet(obj.list))
  <2>3. /\ l \in Seq(Items) /\ \A i, j \in DOMAIN l : l[i] = l[j] => i = j
        /\ \A x : x \in ToSet(obj.list) <=> \E i \in DOMAIN l : l[i] = x
        /\ Len(l) = Cardinality(ToSet(obj.list))
    BY <2>2, SortedRow
  <2>4. obj'.list = l
    BY <2>1
  <2> HIDE DEF l
  <2>5. \A y : InList(y)' <=> InList(y)
    <3>1. \A y : y \in ToSet(obj.list) <=> InList(y)
      BY DEF InList, ToSet
    <3>2. \A y : InList(y)' <=> \E i \in DOMAIN l : l[i] = y
      BY <2>4 DEF InList
    <3> QED
      BY <2>3, <3>1, <3>2
  <2>6. ListTypeOK'
    BY <1>0, <2>1, <2>3, <2>4 DEF ListTypeOK, ListInjective
  <2>7. OneOfFour'
    BY <1>0, <2>1, <2>5 DEF OneOfFour
  <2>8. EnoughTesters'
    <3>1. Tester("u2")' = Tester("u2") /\ Tester("u3")' = Tester("u3")
      BY <2>1 DEF Tester
    <3>2. Len(l) \in Nat /\ Len(obj.list) \in Nat /\ Len(l) <= Len(obj.list)
      BY <1>0, <2>2, <2>3 DEF ListTypeOK
    <3>3. Tester("u2") \in Nat /\ Tester("u3") \in Nat
      BY <1>0
    <3> QED
      BY <1>0, <2>1, <2>4, <3>1, <3>2, <3>3 DEF EnoughTesters
  <2> QED
    BY <2>1, <2>6, <2>7, <2>8 DEF ListInv
<1>6. CASE notify
  <2>1. class' = class /\ pc' = pc /\ obj' \in NotifyOne(obj)
    BY <1>6 DEF notify
  <2>2. /\ DOMAIN obj' = DOMAIN obj /\ obj'.list = obj.list /\ obj'.new = obj.new
        /\ obj'.got = obj.got /\ obj'.gone = obj.gone /\ obj'.bulk = obj.bulk
        /\ obj'.asleep \subseteq obj.asleep
        /\ obj'.asleep # {} => Tester("u2")' + Tester("u3")' = Tester("u2") + Tester("u3") + 1
    BY <1>0, <2>1, Notified
  <2>3. ListTypeOK'
    BY <1>0, <2>1, <2>2 DEF ListTypeOK, ListInjective
  <2>4. OneOfFour'
    BY <1>0, <2>2 DEF OneOfFour, InList
  <2>5. EnoughTesters'
    <3>1. Tester("u2") \in Nat /\ Tester("u3") \in Nat /\ Len(obj.list) \in Nat
      BY <1>0 DEF ListTypeOK
    <3>2. ~obj'.bulk /\ obj'.asleep # {} => Tester("u2") + Tester("u3") >= Len(obj.list)
      BY <1>0, <2>2 DEF EnoughTesters
    <3> QED
      BY <2>2, <3>1, <3>2 DEF EnoughTesters
  <2> QED
    BY <2>1, <2>3, <2>4, <2>5 DEF ListInv
<1>7. CASE try_pop
  <2>1. PICK l \in FrontOrBack : obj' = Taken(l)
    BY <1>7 DEF try_pop
  <2>2. /\ DOMAIN obj' = DOMAIN obj /\ obj'.list = l /\ obj'.new = obj.new
        /\ obj'.got = obj.got \union (ToSet(obj.list) \ ToSet(l)) /\ obj'.gone = obj.gone
        /\ obj'.bulk = obj.bulk /\ obj'.asleep = obj.asleep
    BY <1>0, <2>1 DEF Taken, ListTypeOK
  <2>3. class' = class /\ pc' = pc /\ obj.list # <<>>
    BY <1>7 DEF try_pop
  <2>4. /\ OneOfFour' /\ ListInjective' /\ l \in Seq(Items)
        /\ Len(l) \in Nat /\ Len(obj.list) = Len(l) + 1
    BY <1>0, <2>2, <2>3, TakenKept
  <2>5. ListTypeOK'
    BY <1>0, <2>2, <2>3, <2>4 DEF ListTypeOK
  <2>6. EnoughTesters'
    <3>1. Tester("u2")' = Tester("u2") /\ Tester("u3")' = Tester("u3")
      BY <2>2, <2>3 DEF Tester
    <3>2. Tester("u2") \in Nat /\ Tester("u3") \in Nat
      BY <1>0
    <3> QED
      BY <1>0, <2>2, <2>4, <3>1, <3>2 DEF EnoughTesters
  <2> QED
    BY <2>3, <2>4, <2>5, <2>6 DEF ListInv
<1>8. ASSUME NEW t \in Takers, NEW b \in BOOLEAN, pop(t, b) PROVE class' = "list" /\ ListInv'
  <2>1. /\ DOMAIN obj' = DOMAIN obj /\ obj'.list = obj.list /\ obj'.new = obj.new
        /\ obj'.got = obj.got /\ obj'.gone = obj.gone
        /\ obj'.bulk = obj.bulk /\ obj'.asleep = obj.asleep
    BY <1>0, <1>8 DEF pop, ListTypeOK
  <2>2. class' = class /\ pc' = [pc EXCEPT ![t] = "test"] /\ pc[t] = "idle"
    BY <1>8 DEF pop
  <2>3. ListTypeOK'
    <3>1. pc' \in [Callers -> {"idle", "test"}] /\ \A u \in obj'.asleep : pc'[u] = "test"
      BY <1>0, <2>1, <2>2 DEF ListTypeOK, Callers, Takers
    <3> QED
      BY <1>0, <2>1, <3>1 DEF ListTypeOK, ListInjective
  <2>4. OneOfFour'
    BY <1>0, <2>1 DEF OneOfFour, InList
  <2>5. EnoughTesters'
    <3>1. /\ Tester("u2")' = 1 \/ Tester("u2")' = Tester("u2")
          /\ Tester("u3")' = 1 \/ Tester("u3")' = Tester("u3")
      BY <1>0, <2>1, <2>2 DEF Tester, ListTypeOK, Callers, Takers
    <3>2. Tester("u2") \in {0, 1} /\ Tester("u3") \in {0, 1} /\ Len(obj.list) \in Nat
      BY <1>0 DEF ListTypeOK
    <3> QED
      BY <1>0, <2>1, <3>1, <3>2 DEF EnoughTesters
  <2> QED
    BY <2>2, <2>3, <2>4, <2>5 DEF ListInv
<1>9. ASSUME NEW t \in Takers, popTest(t), obj.list = <<>> PROVE class' = "list" /\ ListInv'
  <2>1. /\ DOMAIN obj' = DOMAIN obj /\ obj'.list = obj.list /\ obj'.new = obj.new
        /\ obj'.got = obj.got /\ obj'.gone = obj.gone
        /\ obj'.bulk = obj.bulk /\ obj'.asleep = obj.asleep \union {t}
    BY <1>0, <1>9 DEF popTest, ListTypeOK
  <2>2. class' = class /\ pc' = pc /\ pc[t] = "test"
    BY <1>9 DEF popTest
  <2>3. ListTypeOK'
    BY <1>0, <2>1, <2>2 DEF ListTypeOK, ListInjective
  <2>4. OneOfFour'
    BY <1>0, <2>1 DEF OneOfFour, InList
  <2>5. EnoughTesters'
    <3>1. Tester("u2")' \in Nat /\ Tester("u3")' \in Nat
      BY DEF Tester
    <3>2. Len(obj'.list) = 0
      BY <1>9, <2>1
    <3> QED
      BY <3>1, <3>2 DEF EnoughTesters
  <2> QED
    BY <2>2, <2>3, <2>4, <2>5 DEF ListInv
<1>10. ASSUME NEW t \in Takers, popTest(t), obj.list # <<>> PROVE class' = "list" /\ ListInv'
  <2>1. PICK l \in FrontOrBack : obj' = Taken(l)
    BY <1>10 DEF popTest
  <2>2. /\ DOMAIN obj' = DOMAIN obj /\ obj'.list = l /\ obj'.new = obj.new
        /\ obj'.got = obj.got \union (ToSet(obj.list) \ ToSet(l)) /\ obj'.gone = obj.gone
        /\ obj'.bulk = obj.bulk /\ obj'.asleep = obj.asleep
    BY <1>0, <2>1 DEF Taken, ListTypeOK
  <2>3. class' = class /\ pc' = [pc EXCEPT ![t] = "idle"] /\ pc[t] = "test" /\ t \notin obj.asleep
    BY <1>10 DEF popTest
  <2>4. /\ OneOfFour' /\ ListInjective' /\ l \in Seq(Items)
        /\ Len(l) \in Nat /\ Len(obj.list) = Len(l) + 1
    BY <1>0, <1>10, <2>2, TakenKept
  <2>5. ListTypeOK'
    <3>1. pc' \in [Callers -> {"idle", "test"}] /\ \A u \in obj'.asleep : pc'[u] = "test"
      BY <1>0, <2>2, <2>3 DEF ListTypeOK, Callers, Takers
    <3> QED
      BY <1>0, <2>2, <2>4, <3>1 DEF ListTypeOK
  <2>6. EnoughTesters'
    <3>1. /\ Tester(t) = 1 /\ Tester(t)' = 0
          /\ \A u \in Takers : u # t => Tester(u)' = Tester(u)
      BY <1>0, <2>2, <2>3 DEF Tester, ListTypeOK, Callers, Takers
    <3>2. Tester("u2")' + Tester("u3")' + 1 = Tester("u2") + Tester("u3")
      <4>1. \/ Tester("u2") = 1 /\ Tester("u2")' = 0 /\ Tester("u3")' = Tester("u3")
            \/ Tester("u3") = 1 /\ Tester("u3")' = 0 /\ Tester("u2")' = Tester("u2")
        BY <3>1 DEF Takers
      <4>2. Tester("u2") \in Nat /\ Tester("u3") \in Nat
        BY <1>0
      <4> QED
        BY <4>1, <4>2
    <3>3. /\ Tester("u2") \in Nat /\ Tester("u3") \in Nat
          /\ Tester("u2")' \in Nat /\ Tester("u3")' \in Nat
      BY DEF Tester
    <3> QED
      BY <1>0, <2>2, <2>4, <3>2, <3>3 DEF EnoughTesters
  <2> QED
    BY <2>3, <2>4, <2>5, <2>6 DEF ListInv
<1>11. ASSUME NEW t \in Takers, popTimeout(t) PROVE class' = "list" /\ ListInv'
  <2>1. class' = class /\ pc' = [pc EXCEPT ![t] = "idle"] /\ t \in obj.asleep
    BY <1>11 DEF popTimeout
  <2>2. /\ DOMAIN obj' = DOMAIN obj /\ obj'.asleep = obj.asleep \ {t} /\ obj'.bulk = obj.bulk
        /\ obj'.new = obj.new /\ obj'.gone = obj.gone
        /\ \/ obj'.list = obj.list /\ obj'.got = obj.got
           \/ obj.list # <<>> /\ \E l \in FrontOrBack :
                /\ obj'.list = l
                /\ obj'.got = obj.got \union (ToSet(obj.list) \ ToSet(l))
    <3>1. CASE obj.list = <<>>
      <4>1. obj' = [obj EXCEPT !.asleep = @ \ {t}]
        BY <1>11, <3>1 DEF popTimeout
      <4> QED
        BY <1>0, <4>1 DEF ListTypeOK
    <3>2. CASE obj.list # <<>>
      <4>1. PICK l \in FrontOrBack : obj' = [Taken(l) EXCEPT !.asleep = @ \ {t}]
        BY <1>11, <3>2 DEF popTimeout
      <4>2. /\ DOMAIN Taken(l) = DOMAIN obj /\ Taken(l).list = l /\ Taken(l).new = obj.new
            /\ Taken(l).got = obj.got \union (ToSet(obj.list) \ ToSet(l))
            /\ Taken(l).gone = obj.gone /\ Taken(l).bulk = obj.bulk
            /\ Taken(l).asleep = obj.asleep
        BY <1>0 DEF Taken, ListTypeOK
      <4> QED
        BY <1>0, <3>2, <4>1, <4>2 DEF ListTypeOK
    <3> QED
      BY <3>1, <3>2
  <2>3. \A u \in Takers : Tester(u)' = Tester(u)
    BY <1>0, <2>1, <2>2 DEF Tester, ListTypeOK, Callers, Takers
  <2>4. Tester("u2")' = Tester("u2") /\ Tester("u3")' = Tester("u3")
    BY <2>3 DEF Takers
  <2>5. Tester("u2") \in Nat /\ Tester("u3") \in Nat /\ Len(obj.list) \in Nat
    BY <1>0 DEF ListTypeOK
  <2>6. pc' \in [Callers -> {"idle", "test"}] /\ \A u \in obj'.asleep : pc'[u] = "test"
    BY <1>0, <2>1, <2>2 DEF ListTypeOK, Callers, Takers
  <2>7. CASE obj'.list = obj.list /\ obj'.got = obj.got
    <3>1. ListTypeOK'
      BY <1>0, <2>2, <2>7, <2>6 DEF ListTypeOK, ListInjective
    <3>3. OneOfFour'
      BY <1>0, <2>2, <2>7 DEF OneOfFour, InList
    <3>2. EnoughTesters'
      BY <1>0, <2>2, <2>4, <2>7 DEF EnoughTesters
    <3> QED
      BY <2>1, <3>1, <3>2, <3>3 DEF ListInv
  <2>8. ASSUME NEW l \in FrontOrBack, obj.list # <<>>, obj'.list = l,
               obj'.got = obj.got \union (ToSet(obj.list) \ ToSet(l))
        PROVE  class' = "list" /\ ListInv'
    <3>1. /\ OneOfFour' /\ ListInjective' /\ l \in Seq(Items)
          /\ Len(l) \in Nat /\ Len(obj.list) = Len(l) + 1
      BY <1>0, <2>2, <2>8, TakenKept
    <3>2. ListTypeOK'
      BY <1>0, <2>2, <2>8, <2>6, <3>1 DEF ListTypeOK
    <3>3. EnoughTesters'
      BY <1>0, <2>2, <2>4, <2>5, <2>8, <3>1 DEF EnoughTesters
    <3> QED
      BY <2>1, <3>1, <3>2, <3>3 DEF ListInv
  <2> QED
    BY <2>2, <2>7, <2>8
<1> QED
  BY <1>1, <1>2, <1>3, <1>4, <1>5, <1>6, <1>7, <1>8, <1>9, <1>10, <1>11 DEF ListNext

(* Every step of a pool's users and of its threads keeps its invariant.     *)
LEMMA PoolStepKept == class = "pool" /\ PoolInv /\ PoolNext => class' = "pool" /\ PoolInv'
<1> SUFFICES ASSUME class = "pool", PoolInv, PoolNext PROVE class' = "pool" /\ PoolInv'
  OBVIOUS
<1> USE DEF At, Go, Stay
<1>0. /\ PoolTypeOK /\ OneOfSix /\ Handed /\ Lives
      /\ "u1" \notin Workers /\ "u2" \notin Workers /\ "u3" \notin Workers
      /\ NoItem \notin Items
  BY ListAssumption DEF PoolInv, Callers, NoItem
<1>1. ASSUME NEW w \in Workers, poolStart(w) PROVE class' = "pool" /\ PoolInv'
  <2>1. obj' = [obj EXCEPT !.stoped = FALSE, !.life = obj.life + 1,
                           !.threads = obj.threads \union {w},
                           !.rejoined = obj.rejoined \/ pc["u2"] = "join"]
    BY <1>0, <1>1 DEF poolStart, PoolTypeOK, Callers
  <2>2. /\ ~obj'.stoped /\ obj'.list = obj.list /\ obj'.new = obj.new
        /\ obj'.threads = obj.threads \union {w}
        /\ obj'.born = obj.born /\ obj'.hand = obj.hand /\ obj'.ranIn = obj.ranIn
        /\ obj'.gone = obj.gone /\ obj'.late = obj.late /\ obj'.holds = obj.holds
        /\ (obj.rejoined \/ pc["u2"] = "join" => obj'.rejoined) /\ DOMAIN obj' = DOMAIN obj
    BY <1>0, <2>1 DEF PoolTypeOK
  <2>3. class' = class /\ pc' = [pc EXCEPT ![w] = "loop"] /\ pc[w] = "done" /\ obj.stoped
    BY <1>1 DEF poolStart
  <2>4. PoolTypeOK'
    BY <1>0, <2>2, <2>3 DEF PoolTypeOK, ListInjective
  <2>5. \A x : (InList(x)' <=> InList(x)) /\ (InHand(x)' <=> InHand(x)) /\ (Ran(x)' <=> Ran(x))
    BY <2>2 DEF InList, InHand, Ran
  <2>6. OneOfSix'
    BY <1>0, <2>2, <2>5 DEF OneOfSix
  <2>7. Handed'
    BY <1>0, <2>2, <2>3 DEF Handed, PoolTypeOK, Callers
  <2>8. Lives'
    <3>1. \A v \in Workers : pc'[v] # "done" => v \in obj'.threads
      BY <1>0, <2>2, <2>3 DEF Lives, PoolTypeOK
    <3>2. ASSUME NEW x \in Items, InList(x) \/ InHand(x) PROVE x \in obj'.late \/ obj'.rejoined
      <4>1. CASE pc["u2"] = "join"
        BY <2>2, <4>1
      <4>2. CASE pc["u2"] = "idle"
        <5>1. ~InHand(x)
          BY <1>0, <2>3, <4>2 DEF Lives, Handed, InHand
        <5> QED
          BY <1>0, <2>2, <2>3, <3>2, <4>2, <5>1 DEF Lives
      <4> QED
        BY <1>0, <4>1, <4>2 DEF PoolTypeOK
    <3>3. \A x \in Items :
            /\ \A r \in obj'.ranIn[x] : x \in obj'.late \/ obj'.rejoined \/ r[2] = obj'.born[x]
            /\ Cardinality(obj'.ranIn[x]) <= 1
      BY <1>0, <2>2 DEF Lives
    <3> QED
      BY <2>2, <2>5, <3>1, <3>2, <3>3 DEF Lives
  <2> QED
    BY <2>3, <2>4, <2>6, <2>7, <2>8 DEF PoolInv
<1>2. CASE poolStop
  <2>1. /\ obj'.stoped /\ obj'.list = obj.list /\ obj'.new = obj.new
        /\ obj'.threads = obj.threads /\ obj'.life = obj.life
        /\ obj'.born = obj.born /\ obj'.hand = obj.hand /\ obj'.ranIn = obj.ranIn
        /\ obj'.gone = obj.gone /\ obj'.late = obj.late /\ obj'.holds = obj.holds
        /\ obj'.rejoined = obj.rejoined /\ DOMAIN obj' = DOMAIN obj
    BY <1>0, <1>2 DEF poolStop, PoolTypeOK
  <2>2. class' = class /\ pc' = [pc EXCEPT !["u2"] = "join"]
    BY <1>2 DEF poolStop
  <2>3. pc'["u2"] = "join" /\ \A w \in Workers : pc'[w] = pc[w]
    BY <1>0, <2>2 DEF PoolTypeOK, Callers
  <2>4. PoolTypeOK'
    BY <1>0, <2>1, <2>2, <2>3 DEF PoolTypeOK, ListInjective, Callers
  <2>5. \A x : (InList(x)' <=> InList(x)) /\ (InHand(x)' <=> InHand(x)) /\ (Ran(x)' <=> Ran(x))
    BY <2>1 DEF InList, InHand, Ran
  <2>6. OneOfSix'
    BY <1>0, <2>1, <2>5 DEF OneOfSix
  <2>7. Handed'
    BY <1>0, <2>1, <2>2, <2>3 DEF Handed, PoolTypeOK, Callers
  <2>8. Lives'
    BY <1>0, <2>1, <2>3, <2>5 DEF Lives
  <2> QED
    BY <2>2, <2>4, <2>6, <2>7, <2>8 DEF PoolInv
<1>3. CASE poolJoined
  <2>1. /\ obj'.stoped = obj.stoped /\ obj'.list = <<>> /\ obj'.new = obj.new
        /\ obj'.threads = obj.threads /\ obj'.life = obj.life
        /\ obj'.born = obj.born /\ obj'.hand = obj.hand /\ obj'.ranIn = obj.ranIn
        /\ obj'.gone = obj.gone \union ToSet(obj.list)
        /\ obj'.late = obj.late /\ obj'.holds = obj.holds
        /\ obj'.rejoined = obj.rejoined /\ DOMAIN obj' = DOMAIN obj
    BY <1>0, <1>3 DEF poolJoined, PoolTypeOK
  <2>2. /\ class' = class /\ pc' = [pc EXCEPT !["u2"] = "idle"]
        /\ \A w \in obj.threads : pc[w] = "done"
    BY <1>3 DEF poolJoined
  <2>3. pc'["u2"] = "idle" /\ \A w \in Workers : pc'[w] = pc[w] /\ pc[w] = "done"
    BY <1>0, <2>2 DEF PoolTypeOK, Callers, Lives
  <2>4. PoolTypeOK'
    BY <1>0, <2>1, <2>2, <2>3 DEF PoolTypeOK, ListInjective, Callers
  <2>5. \A x : /\ ~InList(x)' /\ (x \in ToSet(obj.list) <=> InList(x))
              /\ (InHand(x)' <=> InHand(x)) /\ (Ran(x)' <=> Ran(x))
    BY <2>1 DEF InList, InHand, Ran, ToSet
  <2>6. OneOfSix'
    BY <1>0, <2>1, <2>5 DEF OneOfSix
  <2>7. Handed'
    BY <1>0, <2>1, <2>2, <2>3 DEF Handed, PoolTypeOK, Callers
  <2>8. Lives'
    BY <1>0, <2>1, <2>3, <2>5 DEF Lives
  <2> QED
    BY <2>2, <2>4, <2>6, <2>7, <2>8 DEF PoolInv
<1>4. ASSUME NEW x \in Items, poolExec(x) PROVE class' = "pool" /\ PoolInv'
  <2>1. /\ obj'.stoped = obj.stoped /\ ~obj.stoped /\ obj'.list = obj.list
        /\ obj'.new = obj.new \ {x}
        /\ obj'.threads = obj.threads /\ obj'.life = obj.life
        /\ obj'.born = [obj.born EXCEPT ![x] = obj.life] /\ obj'.hand = obj.hand
        /\ obj'.ranIn = obj.ranIn
        /\ obj'.gone = obj.gone /\ obj'.late = obj.late /\ obj'.holds = x
        /\ obj'.rejoined = obj.rejoined /\ DOMAIN obj' = DOMAIN obj
    BY <1>0, <1>4 DEF poolExec, PoolTypeOK
  <2>2. class' = class /\ pc' = [pc EXCEPT !["u1"] = "push"] /\ pc["u1"] = "idle" /\ x \in obj.new
    BY <1>4 DEF poolExec
  <2>3. pc'["u1"] = "push" /\ pc'["u2"] = pc["u2"] /\ \A w \in Workers : pc'[w] = pc[w]
    BY <1>0, <2>2 DEF PoolTypeOK, Callers
  <2>4. PoolTypeOK'
    BY <1>0, <2>1, <2>2, <2>3 DEF PoolTypeOK, ListInjective, Callers
  <2>5. \A y : (InList(y)' <=> InList(y)) /\ (InHand(y)' <=> InHand(y)) /\ (Ran(y)' <=> Ran(y))
    BY <2>1 DEF InList, InHand, Ran
  <2>6. obj.holds = NoItem
    BY <1>0, <2>2 DEF Handed
  <2>7. OneOfSix'
    BY <1>0, <2>1, <2>2, <2>5, <2>6 DEF OneOfSix
  <2>8. Handed'
    BY <1>0, <2>1, <2>2, <2>3 DEF Handed, PoolTypeOK, Callers
  <2>9. Lives'
    <3>1. ~InList(x) /\ ~InHand(x) /\ obj.ranIn[x] = {}
      BY <1>0, <2>2 DEF OneOfSix, Ran
    <3>2. \A y \in Items : y # x => obj'.born[y] = obj.born[y]
      BY <1>0, <2>1 DEF PoolTypeOK
    <3> QED
      BY <1>0, <2>1, <2>3, <2>5, <3>1, <3>2 DEF Lives
  <2> QED
    BY <2>2, <2>4, <2>7, <2>8, <2>9 DEF PoolInv
<1>5. CASE poolPush
  <2> DEFINE x == obj.holds
  <2>1. /\ obj'.stoped = obj.stoped /\ obj'.list = Append(obj.list, obj.holds) /\ obj'.new = obj.new
        /\ obj'.threads = obj.threads /\ obj'.life = obj.life
        /\ obj'.born = obj.born /\ obj'.hand = obj.hand /\ obj'.ranIn = obj.ranIn
        /\ obj'.gone = obj.gone /\ obj'.holds = NoItem
        /\ obj'.late = (IF obj.stoped \/ obj.born[obj.holds] # obj.life
                        THEN obj.late \union {obj.holds} ELSE obj.late)
        /\ obj'.rejoined = obj.rejoined /\ DOMAIN obj' = DOMAIN obj
    BY <1>0, <1>5 DEF poolPush, PoolTypeOK
  <2>2. class' = class /\ pc' = [pc EXCEPT !["u1"] = "idle"] /\ pc["u1"] = "push"
    BY <1>5 DEF poolPush
  <2>3. pc'["u1"] = "idle" /\ pc'["u2"] = pc["u2"] /\ \A w \in Workers : pc'[w] = pc[w]
    BY <1>0, <2>2 DEF PoolTypeOK, Callers
  <2>4. x \in Items /\ ~InList(x) /\ x \notin obj.new /\ x \notin obj.gone /\ ~Ran(x) /\ ~InHand(x)
    BY <1>0, <2>2 DEF Handed, PoolTypeOK, OneOfSix
  <2>5. /\ obj'.list \in Seq(Items) /\ ListInjective' /\ \A y : InList(y)' <=> y = x \/ InList(y)
    <3> DEFINE s == obj.list
               l == Append(s, x)
    <3>1. /\ s \in Seq(Items) /\ \A i, j \in DOMAIN s : s[i] = s[j] => i = j
      BY <1>0 DEF PoolTypeOK, ListInjective
    <3>2. x \in Items /\ \A i \in DOMAIN s : s[i] # x
      BY <2>4 DEF InList
    <3>3. (\A y : InList(y) <=> \E i \in DOMAIN s : s[i] = y) /\ obj'.list = l
      BY <2>1 DEF InList
    <3>4. l = Append(s, x)
      OBVIOUS
    <3> HIDE DEF s, l, x
    <3>5. Distinct(s) /\ ~Has(s, x) /\ l \in {<<x>> \o s, Append(s, x)}
      BY <3>1, <3>2, <3>4 DEF Distinct, Has
    <3>6. /\ l \in Seq(Items) /\ Len(s) \in Nat /\ Len(l) = Len(s) + 1
          /\ Distinct(l) /\ \A y : Has(l, y) <=> y = x \/ Has(s, y)
      BY <3>1, <3>2, <3>5, EndAdded
    <3>7. \A y : (InList(y)' <=> Has(l, y)) /\ (InList(y) <=> Has(s, y))
      BY <3>3 DEF InList, Has
    <3> QED
      BY <3>3, <3>6, <3>7 DEF ListInjective, Distinct
  <2>6. PoolTypeOK'
    BY <1>0, <2>1, <2>2, <2>3, <2>5 DEF PoolTypeOK, Callers
  <2>7. \A y : (InHand(y)' <=> InHand(y)) /\ (Ran(y)' <=> Ran(y))
    BY <2>1 DEF InHand, Ran
  <2>8. OneOfSix'
    BY <1>0, <2>1, <2>4, <2>5, <2>7 DEF OneOfSix
  <2>9. Handed'
    BY <1>0, <2>1, <2>2, <2>3 DEF Handed, PoolTypeOK, Callers
  <2>10. Lives'
    <3>1. /\ obj.late \subseteq obj'.late
          /\ x \in obj'.late \/ (~obj.stoped /\ obj.born[x] = obj.life)
      BY <2>1
    <3> HIDE DEF x
    <3> QED
      BY <1>0, <2>1, <2>3, <2>5, <2>7, <3>1 DEF Lives
  <2> QED
    BY <2>2, <2>6, <2>8, <2>9, <2>10 DEF PoolInv
<1>6. ASSUME NEW w \in Workers, workerLoop(w) \/ (workerPop(w) /\ obj.list = <<>>)
      PROVE  class' = "pool" /\ PoolInv'
  <2>1. class' = class /\ obj' = obj
    BY <1>6 DEF workerLoop, workerPop
  <2>2. PICK l \in {"done", "pop", "loop"} : pc' = [pc EXCEPT ![w] = l] /\ pc[w] \in {"loop", "pop"}
    BY <1>6 DEF workerLoop, workerPop
  <2>3. /\ pc'["u1"] = pc["u1"] /\ pc'["u2"] = pc["u2"] /\ pc'["u3"] = pc["u3"]
        /\ \A v \in Workers : v # w => pc'[v] = pc[v]
        /\ pc'[w] = l /\ DOMAIN pc' = DOMAIN pc
    BY <1>0, <2>2 DEF PoolTypeOK, Callers
  <2>4. PoolTypeOK' /\ OneOfSix'
    BY <1>0, <2>1, <2>2, <2>3 DEF PoolTypeOK, ListInjective, OneOfSix, InList, InHand, Ran
  <2>5. Handed'
    BY <1>0, <2>1, <2>2, <2>3 DEF Handed
  <2>6. Lives'
    <3>1. ~(obj.stoped /\ pc["u2"] = "idle")
      BY <1>0, <2>2 DEF Lives
    <3>2. \A v \in Workers : pc'[v] # "done" => v \in obj'.threads
      BY <1>0, <2>1, <2>2, <2>3 DEF Lives
    <3>3. \A x : (InList(x)' <=> InList(x)) /\ (InHand(x)' <=> InHand(x))
      BY <2>1 DEF InList, InHand
    <3> QED
      BY <1>0, <2>1, <2>3, <3>1, <3>2, <3>3 DEF Lives
  <2> QED
    BY <2>1, <2>4, <2>5, <2>6 DEF PoolInv
<1>7. ASSUME NEW w \in Workers, workerPop(w), obj.list # <<>> PROVE class' = "pool" /\ PoolInv'
  <2> DEFINE h == Head(obj.list)
  <2>1. obj' = [obj EXCEPT !.hand[w] = Head(obj.list), !.list = Tail(@)]
    BY <1>7 DEF workerPop
  <2>2. /\ obj'.stoped = obj.stoped /\ obj'.list = Tail(obj.list) /\ obj'.new = obj.new
        /\ obj'.threads = obj.threads /\ obj'.life = obj.life
        /\ obj'.born = obj.born /\ obj'.hand = [obj.hand EXCEPT ![w] = h]
        /\ obj'.ranIn = obj.ranIn
        /\ obj'.gone = obj.gone /\ obj'.late = obj.late /\ obj'.holds = obj.holds
        /\ obj'.rejoined = obj.rejoined /\ DOMAIN obj' = DOMAIN obj
    BY <1>0, <2>1 DEF PoolTypeOK
  <2>3. class' = class /\ pc' = [pc EXCEPT ![w] = "task"] /\ pc[w] = "pop"
    BY <1>7 DEF workerPop
  <2>4. /\ pc'["u1"] = pc["u1"] /\ pc'["u2"] = pc["u2"] /\ pc'["u3"] = pc["u3"]
        /\ \A v \in Workers : v # w => pc'[v] = pc[v]
        /\ pc'[w] = "task" /\ DOMAIN pc' = DOMAIN pc
    BY <1>0, <2>3 DEF PoolTypeOK, Callers
  <2>5. /\ obj'.list \in Seq(Items) /\ ListInjective' /\ h \in Items /\ InList(h)
        /\ \A x : InList(x)' <=> x # h /\ InList(x)
    <3> DEFINE s == obj.list
    <3>1. s \in Seq(Items) /\ s # <<>> /\ \A i, j \in DOMAIN s : s[i] = s[j] => i = j
      BY <1>0, <1>7 DEF PoolTypeOK, ListInjective
    <3>2. h = Head(s) /\ obj'.list = Tail(s) /\ obj.list = s
      BY <2>2
    <3> HIDE DEF s, h
    <3>3. LET r == Tail(s)
          IN /\ r \in Seq(Items) /\ Head(s) \in Items /\ \A i, j \in DOMAIN r : r[i] = r[j] => i = j
             /\ \E i \in DOMAIN s : s[i] = Head(s)
             /\ \A a : (\E i \in DOMAIN r : r[i] = a)
                         <=> a # Head(s) /\ \E i \in DOMAIN s : s[i] = a
      BY <3>1, RowTail
    <3> QED
      BY <3>2, <3>3 DEF InList, ListInjective
  <2> HIDE DEF h
  <2>6. obj.hand[w] = NoItem /\ ~InHand(h)
    BY <1>0, <2>3, <2>5 DEF Handed, OneOfSix
  <2>7. \A x \in Items : InHand(x)' <=> x = h \/ InHand(x)
    BY <1>0, <2>2, <2>6 DEF InHand, PoolTypeOK
  <2>8. \A x : Ran(x)' <=> Ran(x)
    BY <2>2 DEF Ran
  <2>9. PoolTypeOK'
    BY <1>0, <2>2, <2>4, <2>5 DEF PoolTypeOK
  <2>10. OneOfSix'
    BY <1>0, <2>2, <2>5, <2>7, <2>8 DEF OneOfSix
  <2>11. Handed'
    <3>1. \A v \in Workers : obj'.hand[v] = IF v = w THEN h ELSE obj.hand[v]
      BY <1>0, <2>2 DEF PoolTypeOK
    <3>2. \A v \in Workers : obj.hand[v] # h
      BY <2>6 DEF InHand
    <3> QED
      BY <1>0, <2>2, <2>4, <2>5, <3>1, <3>2 DEF Handed
  <2>12. Lives'
    <3>1. ~(obj.stoped /\ pc["u2"] = "idle")
      BY <1>0, <2>3 DEF Lives
    <3>2. \A v \in Workers : pc'[v] # "done" => v \in obj'.threads
      BY <1>0, <2>2, <2>3, <2>4 DEF Lives
    <3> QED
      BY <1>0, <2>2, <2>4, <2>5, <2>7, <3>1, <3>2 DEF Lives
  <2> QED
    BY <2>3, <2>9, <2>10, <2>11, <2>12 DEF PoolInv
<1>8. ASSUME NEW w \in Workers, workerTask(w) PROVE class' = "pool" /\ PoolInv'
  <2> DEFINE h == obj.hand[w]
             ranBy == <<w, obj.life>>
  <2>1. class' = class /\ pc' = [pc EXCEPT ![w] = "loop"] /\ pc[w] = "task"
    BY <1>8 DEF workerTask
  <2>2. h \in Items /\ InHand(h)
    BY <1>0, <2>1 DEF Handed, InHand
  <2>3. obj' = [obj EXCEPT !.ranIn[h] = @ \union {ranBy}, !.hand[w] = NoItem]
    BY <1>8 DEF workerTask
  <2>4. /\ obj'.stoped = obj.stoped /\ obj'.list = obj.list /\ obj'.new = obj.new
        /\ obj'.threads = obj.threads /\ obj'.life = obj.life
        /\ obj'.born = obj.born /\ obj'.hand = [obj.hand EXCEPT ![w] = NoItem]
        /\ obj'.ranIn = [obj.ranIn EXCEPT ![h] = obj.ranIn[h] \union {ranBy}]
        /\ obj'.gone = obj.gone /\ obj'.late = obj.late /\ obj'.holds = obj.holds
        /\ obj'.rejoined = obj.rejoined /\ DOMAIN obj' = DOMAIN obj
    BY <1>0, <2>3 DEF PoolTypeOK
  <2>5. /\ pc'["u1"] = pc["u1"] /\ pc'["u2"] = pc["u2"] /\ pc'["u3"] = pc["u3"]
        /\ \A v \in Workers : v # w => pc'[v] = pc[v]
        /\ pc'[w] = "loop" /\ DOMAIN pc' = DOMAIN pc
    BY <1>0, <2>1 DEF PoolTypeOK, Callers
  <2>6. obj.ranIn[h] = {}
    BY <1>0, <2>2 DEF OneOfSix, Ran
  <2>7. ranBy[2] = obj.life
    OBVIOUS
  <2>8. \A v \in Workers : obj.hand[v] = h => v = w
    BY <1>0, <2>2 DEF Handed
  <2>9. \A v \in Workers : obj'.hand[v] = IF v = w THEN NoItem ELSE obj.hand[v]
    BY <1>0, <2>4 DEF PoolTypeOK
  <2>10. obj.hand[w] = h
    OBVIOUS
  <2> HIDE DEF h, ranBy
  <2>11. \A x \in Items : obj'.ranIn[x] = IF x = h THEN {ranBy} ELSE obj.ranIn[x]
    BY <1>0, <2>4, <2>6 DEF PoolTypeOK
  <2>12. \A x \in Items : InHand(x)' <=> x # h /\ InHand(x)
    BY <1>0, <2>8, <2>9, <2>10 DEF InHand
  <2>13. /\ \A x \in Items : Ran(x)' <=> x = h \/ Ran(x)
         /\ \A x : InList(x)' <=> InList(x)
    BY <2>4, <2>11 DEF Ran, InList
  <2>14. PoolTypeOK'
    BY <1>0, <2>4, <2>5 DEF PoolTypeOK, ListInjective
  <2>15. OneOfSix'
    BY <1>0, <2>2, <2>4, <2>12, <2>13 DEF OneOfSix
  <2>16. Handed'
    BY <1>0, <2>4, <2>5, <2>9 DEF Handed
  <2>17. Lives'
    <3>1. ~(obj.stoped /\ pc["u2"] = "idle")
      BY <1>0, <2>1 DEF Lives
    <3>2. \A v \in Workers : pc'[v] # "done" => v \in obj'.threads
      BY <1>0, <2>1, <2>4, <2>5 DEF Lives
    <3>3. ASSUME NEW x \in Items
          PROVE  /\ \A r \in obj'.ranIn[x] : x \in obj'.late \/ obj'.rejoined \/ r[2] = obj'.born[x]
                 /\ Cardinality(obj'.ranIn[x]) <= 1
      <4>1. CASE x = h
        <5>1. obj'.ranIn[x] = {ranBy} /\ Cardinality({ranBy}) = 1
          BY <2>11, <4>1, FS_Singleton
        <5>2. h \in obj.late \/ obj.rejoined \/ obj.born[h] = obj.life
          BY <1>0, <2>2 DEF Lives
        <5> QED
          BY <2>4, <2>7, <4>1, <5>1, <5>2
      <4>2. CASE x # h
        BY <1>0, <2>4, <2>11, <4>2 DEF Lives
      <4> QED
        BY <4>1, <4>2
    <3>4. ~(obj'.stoped /\ pc'["u2"] = "idle")
      BY <2>4, <2>5, <3>1
    <3>5. \A x \in Items : InList(x)' \/ InHand(x)'
                              => x \in obj'.late \/ obj'.rejoined \/ obj'.born[x] = obj'.life
      BY <1>0, <2>4, <2>12, <2>13 DEF Lives
    <3> QED
      BY <3>2, <3>3, <3>4, <3>5 DEF Lives
  <2> QED
    BY <2>1, <2>14, <2>15, <2>16, <2>17 DEF PoolInv
<1> QED
  BY <1>1, <1>2, <1>3, <1>4, <1>5, <1>6, <1>7, <1>8 DEF PoolNext, PoolOthers

(* Every item is new at first, and a pool has not been started.             *)
LEMMA BlockInvInit == BlockInit => BlockInv
<1> SUFFICES ASSUME BlockInit PROVE BlockInv
  OBVIOUS
<1>1. CASE ListInit
  <2>1. ListTypeOK /\ OneOfFour /\ EnoughTesters
    BY <1>1 DEF ListInit, ListTypeOK, ListInjective, OneOfFour, InList, EnoughTesters, Callers,
       Takers
  <2> QED
    BY <1>1, <2>1 DEF ListInit, BlockInv, ListInv
<1>2. CASE ListsInit
  BY <1>2 DEF ListsInit, BlockInv
<1>3. CASE PoolInit
  <2>1. Workers \intersect Callers = {} /\ NoItem \notin Items
    BY ListAssumption DEF NoItem
  <2>2. PoolTypeOK
    BY <1>3, <2>1 DEF PoolInit, PoolTypeOK, ListInjective, Callers
  <2>3. OneOfSix
    BY <1>3, <2>1 DEF PoolInit, OneOfSix, InList, InHand, Ran
  <2>4. Handed
    BY <1>3, <2>1 DEF PoolInit, Handed, Callers
  <2>5. Lives
    BY <1>3, <2>1, FS_EmptySet DEF PoolInit, Lives, InList, InHand, Callers
  <2> QED
    BY <1>3, <2>2, <2>3, <2>4, <2>5 DEF PoolInit, BlockInv, PoolInv
<1> QED
  BY <1>1, <1>2, <1>3 DEF BlockInit

LEMMA BlockInvNext == BlockInv /\ [BlockNext]_mvars => BlockInv'
<1> SUFFICES ASSUME BlockInv, [BlockNext]_mvars PROVE BlockInv'
  OBVIOUS
<1>1. CASE class = "list" /\ ListNext
  BY <1>1, ListStepKept DEF BlockInv
<1>2. CASE class = "lists" /\ ListsNext
  BY <1>2 DEF BlockInv, ListsNext, lockNext, unlockBoth, both
<1>3. CASE class = "pool" /\ PoolNext
  BY <1>3, PoolStepKept DEF BlockInv
<1>4. CASE UNCHANGED mvars
  <2>1. class' = class /\ pc' = pc /\ obj' = obj
    BY <1>4 DEF mvars
  <2>2. ListInv => ListInv'
    BY <2>1 DEF ListInv, ListTypeOK, ListInjective, OneOfFour, InList, EnoughTesters, Tester
  <2>3. PoolInv => PoolInv'
    BY <2>1 DEF PoolInv, PoolTypeOK, ListInjective, OneOfSix, InList, InHand, Ran, Handed, Lives
  <2> QED
    BY <2>1, <2>2, <2>3 DEF BlockInv
<1> QED
  BY <1>1, <1>2, <1>3, <1>4 DEF BlockNext

(* ListsExact, for any number of items and pool threads: an item is in one  *)
(* place once, a task of a pool runs once and in the life that accepted it  *)
(* unless it came late, and nobody sleeps beside an item unless items came  *)
(* in bulk.                                                                 *)
THEOREM ListsExactAlways == BlockSpec => []ListsExact
<1>1. BlockInv => ListsExact
  <2> SUFFICES ASSUME BlockInv PROVE ListsExact
    OBVIOUS
  <2>1. ASSUME class = "list"
        PROVE  ItemsExact /\ NoneBesideItems
    <3>1. ListTypeOK /\ OneOfFour /\ EnoughTesters
      BY <2>1 DEF BlockInv, ListInv
    <3>2. IsInjective(obj.list)
      BY <3>1 DEF ListTypeOK, ListInjective, IsInjective
    <3>3. ASSUME NEW x \in Items
          PROVE  \E p \in DOMAIN Places : {q \in DOMAIN Places : x \in Places[q]} = {p}
      <4>1. Places = <<obj.new, ToSet(obj.list), obj.got, obj.gone>>
        BY <2>1 DEF Places
      <4>2. /\ DOMAIN Places = 1..4 /\ Places[1] = obj.new /\ Places[2] = ToSet(obj.list)
            /\ Places[3] = obj.got /\ Places[4] = obj.gone
        BY <4>1
      <4>3. x \in ToSet(obj.list) <=> InList(x)
        BY DEF ToSet, InList
      <4>4. PICK p \in 1..4 : \A q \in 1..4 : x \in Places[q] <=> q = p
        BY <3>1, <4>2, <4>3 DEF OneOfFour
      <4> QED
        BY <4>2, <4>4
    <3>4. ASSUME ~obj.bulk, obj.asleep # {}
          PROVE  Cardinality({t \in Takers : At(t, "test") /\ t \notin obj.asleep}) >= Len(obj.list)
      <4> DEFINE H == {t \in Takers : At(t, "test") /\ t \notin obj.asleep}
      <4>1. H \subseteq Callers /\ "u1" \notin H
        BY DEF Takers, Callers
      <4>2. In("u2", H) = Tester("u2") /\ In("u3", H) = Tester("u3")
        BY <3>1 DEF In, Tester, Takers, At, ListTypeOK, Callers
      <4> HIDE DEF H
      <4>3. Cardinality(H) = In("u1", H) + In("u2", H) + In("u3", H) /\ In("u1", H) = 0
        BY <4>1, HeldCount DEF In
      <4>4. Tester("u2") \in Nat /\ Tester("u3") \in Nat
        BY DEF Tester
      <4>5. Cardinality(H) = Tester("u2") + Tester("u3")
        BY <4>2, <4>3, <4>4
      <4>6. Tester("u2") + Tester("u3") >= Len(obj.list)
        BY <3>1, <3>4 DEF EnoughTesters
      <4> QED
        BY <4>5, <4>6 DEF H
    <3> QED
      BY <2>1, <3>2, <3>3, <3>4 DEF ItemsExact, NoneBesideItems
  <2>2. ASSUME class = "pool"
        PROVE  ItemsExact /\ NoneBesideItems
    <3>1. PoolTypeOK /\ OneOfSix /\ Handed /\ Lives
      BY <2>2 DEF BlockInv, PoolInv
    <3>2. ASSUME NEW x \in Items
          PROVE  \E p \in DOMAIN Places : {q \in DOMAIN Places : x \in Places[q]} = {p}
      <4>1. Places = <<obj.new, ToSet(obj.list), {obj.holds}, obj.gone,
                       {y \in Items : obj.ranIn[y] # {}}, {obj.hand[w] : w \in Workers}>>
        BY <2>2 DEF Places
      <4>2. /\ DOMAIN Places = 1..6 /\ Places[1] = obj.new /\ Places[2] = ToSet(obj.list)
            /\ Places[3] = {obj.holds} /\ Places[4] = obj.gone
            /\ Places[5] = {y \in Items : obj.ranIn[y] # {}}
            /\ Places[6] = {obj.hand[w] : w \in Workers}
        BY <4>1
      <4>3. /\ x \in Places[2] <=> InList(x)
            /\ x \in Places[3] <=> x = obj.holds
            /\ x \in Places[5] <=> Ran(x)
            /\ x \in Places[6] <=> InHand(x)
        BY <4>2 DEF ToSet, InList, Ran, InHand
      <4>4. PICK p \in 1..6 : \A q \in 1..6 : x \in Places[q] <=> q = p
        <5>1. \/ x \in obj.new \/ InList(x) \/ x = obj.holds \/ x \in obj.gone
              \/ Ran(x) \/ InHand(x)
          BY <3>1 DEF OneOfSix
        <5> QED
          BY <3>1, <4>2, <4>3, <5>1 DEF OneOfSix
      <4> QED
        BY <4>2, <4>4
    <3>3. \A x \in Items :
            /\ Cardinality(obj.ranIn[x]) <= 1
            /\ x \in obj.late \/ obj.rejoined \/ \A r \in obj.ranIn[x] : r[2] = obj.born[x]
      BY <3>1 DEF Lives
    <3> QED
      BY <2>2, <3>2, <3>3 DEF ItemsExact, NoneBesideItems
  <2>3. ASSUME class = "lists" PROVE ItemsExact /\ NoneBesideItems
    BY <2>3 DEF ItemsExact, NoneBesideItems
  <2> QED
    BY <2>1, <2>2, <2>3 DEF BlockInv, ListsExact
<1> QED
  BY <1>1, BlockInvInit, BlockInvNext, PTL DEF BlockSpec

-----------------------------------------------------------------------------
(* BusClient.  The packages that may be on their way: a Register of the     *)
(* client's thread is one, and the answer to it was sent by a server that   *)
(* has it.                                                                  *)
Sent == {p \in [by : Exchanges \cup {"old"}, reg : BOOLEAN, codes : SUBSET msgId2Func] :
           p.by = "conn" => p.reg}
Answers == {p \in [by : Exchanges \cup {"old", "peer"}] : p.by = "conn" => session}

FieldsOK ==
  /\ cpc \in {"off", "loop", "beat", "beatWait", "loss", "addFd", "register", "regWait",
              "unwind", "ready", "done"}
  /\ upc \in {"idle", "register", "regWait", "join"}
  /\ ppc \in {"idle", "handleReq", "hup", "onClose"}
  /\ msgId2Func \subseteq MsgIds /\ regOwner \in {"none", "conn", "user"}
  /\ sock \in {"none", "up", "shut", "closed"}
  /\ replied \subseteq Exchanges /\ known \subseteq msgId2Func
FlagsOK ==
  /\ m_stoped \in BOOLEAN /\ m_connected \in BOOLEAN /\ stopping \in BOOLEAN
  /\ registered \in BOOLEAN /\ armed \in BOOLEAN /\ silent \in BOOLEAN
  /\ session \in BOOLEAN
CountsOK ==
  /\ m_heartbeatLossCnt \in 0 .. 3
  /\ faults \in 0 .. MaxFaults /\ starts \in 0 .. MaxStarts
BoxesOK == outbox \in Seq(Sent) /\ inbox \in Seq(Answers)
(* Three heartbeats lost are the end of the connection, so no fourth is     *)
(* counted.                                                                 *)
LossCounted == m_heartbeatLossCnt = 3 => cpc = "loss"
(* An answer to the Register is the server's word for this connection; and  *)
(* without one the client's thread goes on with no connection only.         *)
Registered ==
  /\ cpc = "regWait" /\ "conn" \in replied /\ sock = "up" => session
  /\ cpc \notin {"addFd", "register", "regWait", "unwind"} /\ sock = "up" => session
(* Inductive: InUseRegistered is the half of Registered about a thread that *)
(* left sendRegisterInfo().                                                 *)
ClientInv == FieldsOK /\ FlagsOK /\ CountsOK /\ BoxesOK /\ LossCounted /\ Registered

-----------------------------------------------------------------------------
(* Sequences keep their elements in a larger set; a sequence that is not    *)
(* empty has a first and a rest.                                            *)
LEMMA SeqLarger ==
  ASSUME NEW S, NEW T, S \subseteq T, NEW s \in Seq(S)
  PROVE  s \in Seq(T)
OBVIOUS

LEMMA SeqEmpty ==
  ASSUME NEW S
  PROVE  <<>> \in Seq(S)
OBVIOUS

LEMMA SeqParts ==
  ASSUME NEW S, NEW s \in Seq(S), s # <<>>
  PROVE  Head(s) \in S /\ Tail(s) \in Seq(S)
OBVIOUS

(* An answer nobody waits for any more may be to anything.                  *)
LEMMA ForgottenSent ==
  ASSUME FieldsOK, BoxesOK, NEW by
  PROVE  Forgotten(outbox, by) \in Seq(Sent) /\ Forgotten(inbox, by) \in Seq(Answers)
<1>1. ASSUME NEW S, NEW s \in Seq(S), \A p \in S : [p EXCEPT !.by = "old"] \in S
      PROVE  Forgotten(s, by) \in Seq(S)
  <2>1. DOMAIN s = 1..Len(s) /\ Len(s) \in Nat /\ \A i \in DOMAIN s : s[i] \in S
    OBVIOUS
  <2>2. \A i \in DOMAIN s : (IF s[i].by = by THEN [s[i] EXCEPT !.by = "old"] ELSE s[i]) \in S
    BY <1>1, <2>1
  <2> QED
    BY <2>1, <2>2 DEF Forgotten
<1>2. \A p \in Sent : [p EXCEPT !.by = "old"] \in Sent
  BY DEF Sent
<1>3. \A p \in Answers : [p EXCEPT !.by = "old"] \in Answers
  BY DEF Answers
<1> QED
  BY <1>1, <1>2, <1>3 DEF BoxesOK

(* Nothing is connected, sent or counted before start().                    *)
LEMMA ClientInvInit == Init => ClientInv
<1> SUFFICES ASSUME Init PROVE ClientInv
  OBVIOUS
<1>1. FieldsOK /\ FlagsOK
  BY DEF Init, FieldsOK, FlagsOK
<1>2. CountsOK /\ LossCounted /\ Registered
  BY ClientAssumption DEF Init, CountsOK, LossCounted, Registered
<1>3. BoxesOK
  BY SeqEmpty DEF Init, BoxesOK
<1> QED
  BY <1>1, <1>2, <1>3 DEF ClientInv

(* One step of ClientInv for each handler of the three threads, the server  *)
(* and the network.                                                         *)
LEMMA ClientInvNext == ClientInv /\ [Next]_vars => ClientInv'
<1> SUFFICES ASSUME ClientInv, [Next]_vars PROVE ClientInv'
  OBVIOUS
<1> USE DEF ClientInv, vars, sockVars, pkgVars, boundVars, flagVars
<1>1. CASE start
  <2>1. FieldsOK'
    BY <1>1 DEF start, FieldsOK, Exchanges
  <2>2. FlagsOK'
    BY <1>1 DEF start, FlagsOK
  <2>3. CountsOK'
    BY <1>1, ClientAssumption DEF start, CountsOK, LossCounted
  <2>4. BoxesOK'
    BY <1>1 DEF start, BoxesOK, Sent, Answers
  <2>5. LossCounted' /\ Registered'
    BY <1>1 DEF start, CountsOK, FieldsOK, LossCounted, Registered
  <2> QED
    BY <2>1, <2>2, <2>3, <2>4, <2>5
<1>2. CASE Finish
  <2>1. FieldsOK'
    BY <1>2 DEF Finish, FieldsOK, Exchanges
  <2>2. FlagsOK'
    BY <1>2 DEF Finish, FlagsOK
  <2>3. CountsOK'
    BY <1>2, ClientAssumption DEF Finish, CountsOK, LossCounted
  <2>4. BoxesOK'
    BY <1>2 DEF Finish, BoxesOK, Sent, Answers
  <2>5. LossCounted' /\ Registered'
    BY <1>2 DEF Finish, CountsOK, FieldsOK, LossCounted, Registered
  <2> QED
    BY <2>1, <2>2, <2>3, <2>4, <2>5
<1>3. CASE InUse
  <2>1. FieldsOK'
    BY <1>3 DEF InUse, Connected, FieldsOK, Exchanges
  <2>2. FlagsOK'
    BY <1>3 DEF InUse, Connected, FlagsOK
  <2>3. CountsOK'
    BY <1>3, ClientAssumption DEF InUse, Connected, CountsOK, LossCounted
  <2>4. BoxesOK'
    BY <1>3 DEF InUse, Connected, BoxesOK, Sent, Answers
  <2>5. LossCounted' /\ Registered'
    BY <1>3 DEF InUse, Connected, CountsOK, FieldsOK, LossCounted, Registered
  <2> QED
    BY <2>1, <2>2, <2>3, <2>4, <2>5
<1>4. CASE Connect
  <2>1. FieldsOK'
    BY <1>4 DEF Connect, Break, Fault, Disconnected, FieldsOK, Exchanges
  <2>2. FlagsOK'
    BY <1>4 DEF Connect, Break, Fault, Disconnected, FlagsOK
  <2>3. CountsOK'
    BY <1>4, ClientAssumption DEF Connect, Break, Fault, Disconnected, CountsOK, LossCounted
  <2>4. BoxesOK'
    <3>1. \/ outbox' = <<>> /\ inbox' = <<>>
          \/ UNCHANGED <<outbox, inbox, session>>
      BY <1>4 DEF Connect, Break, Fault, Disconnected
    <3>2. msgId2Func' = msgId2Func
      BY <1>4 DEF Connect, Break, Fault, Disconnected
    <3>3. Sent' = Sent /\ (session' = session => Answers' = Answers)
      BY <3>2 DEF Sent, Answers
    <3>4. CASE outbox' = <<>> /\ inbox' = <<>>
      BY <3>4, SeqEmpty DEF BoxesOK
    <3> QED
      BY <3>1, <3>3, <3>4 DEF BoxesOK
  <2>5. LossCounted' /\ Registered'
    BY <1>4 DEF Connect, Break, Fault, Disconnected, CountsOK, FieldsOK, LossCounted, Registered
  <2> QED
    BY <2>1, <2>2, <2>3, <2>4, <2>5
<1>5. CASE AddFd
  <2>1. FieldsOK'
    BY <1>5 DEF AddFd, FieldsOK, Exchanges
  <2>2. FlagsOK'
    BY <1>5 DEF AddFd, FlagsOK
  <2>3. CountsOK'
    BY <1>5, ClientAssumption DEF AddFd, CountsOK, LossCounted
  <2>4. BoxesOK'
    BY <1>5 DEF AddFd, BoxesOK, Sent, Answers
  <2>5. LossCounted' /\ Registered'
    BY <1>5 DEF AddFd, CountsOK, FieldsOK, LossCounted, Registered
  <2> QED
    BY <2>1, <2>2, <2>3, <2>4, <2>5
<1>6. CASE ConnRegister
  <2>1. FieldsOK'
    BY <1>6 DEF ConnRegister, CloseConn, Connected, Disconnected, Request, FieldsOK, Exchanges
  <2>2. FlagsOK'
    BY <1>6 DEF ConnRegister, CloseConn, Connected, Disconnected, Request, FlagsOK
  <2>3. CountsOK'
    BY <1>6, ClientAssumption DEF ConnRegister, CloseConn, Connected, Disconnected, Request,
       CountsOK, LossCounted
  <2>4. BoxesOK'
    <3>1. [by |-> "conn", reg |-> TRUE, codes |-> IF TRUE THEN msgId2Func ELSE {}] \in Sent
      BY DEF Sent, Exchanges
    <3>2. outbox' \in Seq(Sent)
      BY <1>6, <3>1 DEF ConnRegister, CloseConn, Connected, Disconnected, Request, Break, BoxesOK
    <3> QED
      BY <1>6, <3>2 DEF ConnRegister, CloseConn, Connected, Disconnected, Request, Break,
         BoxesOK, Sent, Answers
  <2>5. LossCounted' /\ Registered'
    BY <1>6 DEF ConnRegister, CloseConn, Connected, Disconnected, Request, CountsOK, FieldsOK,
       LossCounted, Registered
  <2> QED
    BY <2>1, <2>2, <2>3, <2>4, <2>5
<1>7. CASE ConnRegistered
  <2>1. FieldsOK'
    BY <1>7 DEF ConnRegistered, FieldsOK, Exchanges
  <2>2. FlagsOK'
    BY <1>7 DEF ConnRegistered, FlagsOK
  <2>3. CountsOK'
    BY <1>7, ClientAssumption DEF ConnRegistered, CountsOK, LossCounted
  <2>4. BoxesOK'
    BY <1>7 DEF ConnRegistered, BoxesOK, Sent, Answers
  <2>5. LossCounted' /\ Registered'
    BY <1>7 DEF ConnRegistered, CountsOK, FieldsOK, LossCounted, Registered
  <2> QED
    BY <2>1, <2>2, <2>3, <2>4, <2>5
<1>8. CASE ConnGivesUp
  <2>1. FieldsOK'
    BY <1>8 DEF ConnGivesUp, CloseConn, Break, GiveUp, Fault, FieldsOK, Exchanges
  <2>2. FlagsOK'
    BY <1>8 DEF ConnGivesUp, CloseConn, Break, GiveUp, Fault, FlagsOK
  <2>3. CountsOK'
    BY <1>8, ClientAssumption DEF ConnGivesUp, CloseConn, Break, GiveUp, Fault, CountsOK,
       LossCounted
  <2>4. BoxesOK'
    <3>1. \/ outbox' = <<>> /\ inbox' = <<>>
          \/ UNCHANGED <<outbox, inbox, session>>
          \/ outbox' = Forgotten(outbox, "conn")
             /\ inbox' = Forgotten(inbox, "conn") /\ session' = session
      BY <1>8 DEF ConnGivesUp, CloseConn, Break, GiveUp, Fault
    <3>2. msgId2Func' = msgId2Func
      BY <1>8 DEF ConnGivesUp, CloseConn, Break, GiveUp, Fault
    <3>3. Sent' = Sent /\ (session' = session => Answers' = Answers)
      BY <3>2 DEF Sent, Answers
    <3>4. CASE outbox' = <<>> /\ inbox' = <<>>
      BY <3>4, SeqEmpty DEF BoxesOK
    <3> QED
      BY <3>1, <3>3, <3>4, ForgottenSent DEF BoxesOK
  <2>5. LossCounted' /\ Registered'
    BY <1>8 DEF ConnGivesUp, CloseConn, Break, GiveUp, Fault, CountsOK, FieldsOK, LossCounted,
       Registered
  <2> QED
    BY <2>1, <2>2, <2>3, <2>4, <2>5
<1>9. CASE Unwind
  <2>1. FieldsOK'
    BY <1>9 DEF Unwind, Disconnected, FieldsOK, Exchanges
  <2>2. FlagsOK'
    BY <1>9 DEF Unwind, Disconnected, FlagsOK
  <2>3. CountsOK'
    BY <1>9, ClientAssumption DEF Unwind, Disconnected, CountsOK, LossCounted
  <2>4. BoxesOK'
    BY <1>9 DEF Unwind, Disconnected, BoxesOK, Sent, Answers
  <2>5. LossCounted' /\ Registered'
    BY <1>9 DEF Unwind, Disconnected, CountsOK, FieldsOK, LossCounted, Registered
  <2> QED
    BY <2>1, <2>2, <2>3, <2>4, <2>5
<1>10. CASE Ready
  <2>1. FieldsOK'
    BY <1>10 DEF Ready, FieldsOK, Exchanges
  <2>2. FlagsOK'
    BY <1>10 DEF Ready, FlagsOK
  <2>3. CountsOK'
    BY <1>10, ClientAssumption DEF Ready, CountsOK, LossCounted
  <2>4. BoxesOK'
    BY <1>10 DEF Ready, BoxesOK, Sent, Answers
  <2>5. LossCounted' /\ Registered'
    BY <1>10 DEF Ready, CountsOK, FieldsOK, LossCounted, Registered
  <2> QED
    BY <2>1, <2>2, <2>3, <2>4, <2>5
<1>11. CASE Beat
  <2>1. FieldsOK'
    BY <1>11 DEF Beat, Request, FieldsOK, Exchanges
  <2>2. FlagsOK'
    BY <1>11 DEF Beat, Request, FlagsOK
  <2>3. CountsOK'
    BY <1>11, ClientAssumption DEF Beat, Request, CountsOK, LossCounted
  <2>4. BoxesOK'
    <3>1. [by |-> "beat", reg |-> FALSE, codes |-> IF FALSE THEN msgId2Func ELSE {}] \in Sent
      BY DEF Sent, Exchanges
    <3>2. outbox' \in Seq(Sent)
      BY <1>11, <3>1 DEF Beat, Request, Break, BoxesOK
    <3> QED
      BY <1>11, <3>2 DEF Beat, Request, Break, BoxesOK, Sent, Answers
  <2>5. LossCounted' /\ Registered'
    BY <1>11 DEF Beat, Request, CountsOK, FieldsOK, LossCounted, Registered
  <2> QED
    BY <2>1, <2>2, <2>3, <2>4, <2>5
<1>12. CASE Sleep
  <2>1. FieldsOK'
    BY <1>12 DEF Sleep, FieldsOK, Exchanges
  <2>2. FlagsOK'
    BY <1>12 DEF Sleep, FlagsOK
  <2>3. CountsOK'
    BY <1>12, ClientAssumption DEF Sleep, CountsOK, LossCounted
  <2>4. BoxesOK'
    BY <1>12 DEF Sleep, BoxesOK, Sent, Answers
  <2>5. LossCounted' /\ Registered'
    BY <1>12 DEF Sleep, CountsOK, FieldsOK, LossCounted, Registered
  <2> QED
    BY <2>1, <2>2, <2>3, <2>4, <2>5
<1>13. CASE BeatAnswered
  <2>1. FieldsOK'
    BY <1>13 DEF BeatAnswered, FieldsOK, Exchanges
  <2>2. FlagsOK'
    BY <1>13 DEF BeatAnswered, FlagsOK
  <2>3. CountsOK'
    BY <1>13, ClientAssumption DEF BeatAnswered, CountsOK, LossCounted
  <2>4. BoxesOK'
    BY <1>13 DEF BeatAnswered, BoxesOK, Sent, Answers
  <2>5. LossCounted' /\ Registered'
    BY <1>13 DEF BeatAnswered, CountsOK, FieldsOK, LossCounted, Registered
  <2> QED
    BY <2>1, <2>2, <2>3, <2>4, <2>5
<1>14. CASE BeatLost
  <2>1. FieldsOK'
    BY <1>14 DEF BeatLost, GiveUp, Fault, FieldsOK, Exchanges
  <2>2. FlagsOK'
    BY <1>14 DEF BeatLost, GiveUp, Fault, FlagsOK
  <2>3. CountsOK'
    BY <1>14, ClientAssumption DEF BeatLost, GiveUp, Fault, CountsOK, LossCounted
  <2>4. BoxesOK'
    BY <1>14, ForgottenSent DEF BeatLost, GiveUp, Fault, BoxesOK, Sent, Answers
  <2>5. LossCounted' /\ Registered'
    BY <1>14 DEF BeatLost, GiveUp, Fault, CountsOK, FieldsOK, LossCounted, Registered
  <2> QED
    BY <2>1, <2>2, <2>3, <2>4, <2>5
<1>15. CASE HeartbeatLoss
  <2>1. FieldsOK'
    BY <1>15 DEF HeartbeatLoss, CloseConn, Break, FieldsOK, Exchanges
  <2>2. FlagsOK'
    BY <1>15 DEF HeartbeatLoss, CloseConn, Break, FlagsOK
  <2>3. CountsOK'
    BY <1>15, ClientAssumption DEF HeartbeatLoss, CloseConn, Break, CountsOK, LossCounted
  <2>4. BoxesOK'
    <3>1. \/ outbox' = <<>> /\ inbox' = <<>>
          \/ UNCHANGED <<outbox, inbox, session>>
      BY <1>15 DEF HeartbeatLoss, CloseConn, Break
    <3>2. msgId2Func' = msgId2Func
      BY <1>15 DEF HeartbeatLoss, CloseConn, Break
    <3>3. Sent' = Sent /\ (session' = session => Answers' = Answers)
      BY <3>2 DEF Sent, Answers
    <3>4. CASE outbox' = <<>> /\ inbox' = <<>>
      BY <3>4, SeqEmpty DEF BoxesOK
    <3> QED
      BY <3>1, <3>3, <3>4 DEF BoxesOK
  <2>5. LossCounted' /\ Registered'
    BY <1>15 DEF HeartbeatLoss, CloseConn, Break, CountsOK, FieldsOK, LossCounted, Registered
  <2> QED
    BY <2>1, <2>2, <2>3, <2>4, <2>5
<1>16. ASSUME NEW m \in MsgIds, on(m) PROVE ClientInv'
  <2>1. FieldsOK'
    BY <1>16 DEF on, FieldsOK, Exchanges
  <2>2. FlagsOK'
    BY <1>16 DEF on, FlagsOK
  <2>3. CountsOK'
    BY <1>16, ClientAssumption DEF on, CountsOK, LossCounted
  <2>4. BoxesOK'
    <3>1. Sent \subseteq Sent'
      BY <1>16 DEF on, Sent
    <3> QED
      BY <1>16, <3>1, SeqLarger DEF on, BoxesOK, Answers
  <2>5. LossCounted' /\ Registered'
    BY <1>16 DEF on, CountsOK, FieldsOK, LossCounted, Registered
  <2> QED
    BY <2>1, <2>2, <2>3, <2>4, <2>5
<1>17. CASE UserRegister
  <2>1. FieldsOK'
    BY <1>17 DEF UserRegister, Connected, Disconnected, Request, FieldsOK, Exchanges
  <2>2. FlagsOK'
    BY <1>17 DEF UserRegister, Connected, Disconnected, Request, FlagsOK
  <2>3. CountsOK'
    BY <1>17, ClientAssumption DEF UserRegister, Connected, Disconnected, Request, CountsOK,
       LossCounted
  <2>4. BoxesOK'
    <3>1. [by |-> "user", reg |-> TRUE, codes |-> IF TRUE THEN msgId2Func ELSE {}] \in Sent
      BY DEF Sent, Exchanges
    <3>2. outbox' \in Seq(Sent)
      BY <1>17, <3>1 DEF UserRegister, Connected, Disconnected, Request, Break, BoxesOK
    <3> QED
      BY <1>17, <3>2 DEF UserRegister, Connected, Disconnected, Request, Break, BoxesOK, Sent,
         Answers
  <2>5. LossCounted' /\ Registered'
    BY <1>17 DEF UserRegister, Connected, Disconnected, Request, CountsOK, FieldsOK, LossCounted,
       Registered
  <2> QED
    BY <2>1, <2>2, <2>3, <2>4, <2>5
<1>18. CASE UserRegistered
  <2>1. FieldsOK'
    BY <1>18 DEF UserRegistered, GiveUp, Fault, FieldsOK, Exchanges
  <2>2. FlagsOK'
    BY <1>18 DEF UserRegistered, GiveUp, Fault, FlagsOK
  <2>3. CountsOK'
    BY <1>18, ClientAssumption DEF UserRegistered, GiveUp, Fault, CountsOK, LossCounted
  <2>4. BoxesOK'
    BY <1>18, ForgottenSent DEF UserRegistered, GiveUp, Fault, BoxesOK, Sent, Answers
  <2>5. LossCounted' /\ Registered'
    BY <1>18 DEF UserRegistered, GiveUp, Fault, CountsOK, FieldsOK, LossCounted, Registered
  <2> QED
    BY <2>1, <2>2, <2>3, <2>4, <2>5
<1>19. CASE stop
  <2>1. FieldsOK'
    BY <1>19 DEF stop, CloseConn, Break, FieldsOK, Exchanges
  <2>2. FlagsOK'
    BY <1>19 DEF stop, CloseConn, Break, FlagsOK
  <2>3. CountsOK'
    BY <1>19, ClientAssumption DEF stop, CloseConn, Break, CountsOK, LossCounted
  <2>4. BoxesOK'
    <3>1. \/ outbox' = <<>> /\ inbox' = <<>>
          \/ UNCHANGED <<outbox, inbox, session>>
      BY <1>19 DEF stop, CloseConn, Break
    <3>2. msgId2Func' = msgId2Func
      BY <1>19 DEF stop, CloseConn, Break
    <3>3. Sent' = Sent /\ (session' = session => Answers' = Answers)
      BY <3>2 DEF Sent, Answers
    <3>4. CASE outbox' = <<>> /\ inbox' = <<>>
      BY <3>4, SeqEmpty DEF BoxesOK
    <3> QED
      BY <3>1, <3>3, <3>4 DEF BoxesOK
  <2>5. LossCounted' /\ Registered'
    BY <1>19 DEF stop, CloseConn, Break, CountsOK, FieldsOK, LossCounted, Registered
  <2> QED
    BY <2>1, <2>2, <2>3, <2>4, <2>5
<1>20. CASE Join
  <2>1. FieldsOK'
    BY <1>20 DEF Join, FieldsOK, Exchanges
  <2>2. FlagsOK'
    BY <1>20 DEF Join, FlagsOK
  <2>3. CountsOK'
    BY <1>20, ClientAssumption DEF Join, CountsOK, LossCounted
  <2>4. BoxesOK'
    BY <1>20 DEF Join, BoxesOK, Sent, Answers
  <2>5. LossCounted' /\ Registered'
    BY <1>20 DEF Join, CountsOK, FieldsOK, LossCounted, Registered
  <2> QED
    BY <2>1, <2>2, <2>3, <2>4, <2>5
<1>21. CASE onData
  <2>1. Head(inbox) \in Answers /\ Tail(inbox) \in Seq(Answers)
    BY <1>21, SeqParts DEF onData, BoxesOK
  <2>2. FieldsOK'
    BY <1>21, <2>1 DEF onData, Answers, FieldsOK, Exchanges
  <2>3. FlagsOK'
    BY <1>21, <2>1 DEF onData, Answers, FlagsOK
  <2>4. CountsOK'
    BY <1>21, <2>1, ClientAssumption DEF onData, CountsOK, LossCounted
  <2>5. BoxesOK'
    BY <1>21, <2>1 DEF onData, BoxesOK, Sent, Answers
  <2>6. LossCounted' /\ Registered'
    BY <1>21, <2>1 DEF onData, Answers, CountsOK, FieldsOK, LossCounted, Registered
  <2> QED
    BY <2>2, <2>3, <2>4, <2>5, <2>6
<1>22. CASE handleReq
  <2>1. FieldsOK'
    BY <1>22 DEF handleReq, FieldsOK, Exchanges
  <2>2. FlagsOK'
    BY <1>22 DEF handleReq, FlagsOK
  <2>3. CountsOK'
    BY <1>22, ClientAssumption DEF handleReq, CountsOK, LossCounted
  <2>4. BoxesOK'
    BY <1>22 DEF handleReq, BoxesOK, Sent, Answers
  <2>5. LossCounted' /\ Registered'
    BY <1>22 DEF handleReq, CountsOK, FieldsOK, LossCounted, Registered
  <2> QED
    BY <2>1, <2>2, <2>3, <2>4, <2>5
<1>23. CASE Hup
  <2>1. FieldsOK'
    BY <1>23 DEF Hup, FieldsOK, Exchanges
  <2>2. FlagsOK'
    BY <1>23 DEF Hup, FlagsOK
  <2>3. CountsOK'
    BY <1>23, ClientAssumption DEF Hup, CountsOK, LossCounted
  <2>4. BoxesOK'
    BY <1>23 DEF Hup, BoxesOK, Sent, Answers
  <2>5. LossCounted' /\ Registered'
    BY <1>23 DEF Hup, CountsOK, FieldsOK, LossCounted, Registered
  <2> QED
    BY <2>1, <2>2, <2>3, <2>4, <2>5
<1>24. CASE DelFd
  <2>1. FieldsOK'
    BY <1>24 DEF DelFd, FieldsOK, Exchanges
  <2>2. FlagsOK'
    BY <1>24 DEF DelFd, FlagsOK
  <2>3. CountsOK'
    BY <1>24, ClientAssumption DEF DelFd, CountsOK, LossCounted
  <2>4. BoxesOK'
    BY <1>24 DEF DelFd, BoxesOK, Sent, Answers
  <2>5. LossCounted' /\ Registered'
    BY <1>24 DEF DelFd, CountsOK, FieldsOK, LossCounted, Registered
  <2> QED
    BY <2>1, <2>2, <2>3, <2>4, <2>5
<1>25. CASE onClose
  <2>1. FieldsOK'
    BY <1>25 DEF onClose, Break, FieldsOK, Exchanges
  <2>2. FlagsOK'
    BY <1>25 DEF onClose, Break, FlagsOK
  <2>3. CountsOK'
    BY <1>25, ClientAssumption DEF onClose, Break, CountsOK, LossCounted
  <2>4. BoxesOK'
    <3>1. \/ outbox' = <<>> /\ inbox' = <<>>
          \/ UNCHANGED <<outbox, inbox, session>>
      BY <1>25 DEF onClose, Break
    <3>2. msgId2Func' = msgId2Func
      BY <1>25 DEF onClose, Break
    <3>3. Sent' = Sent /\ (session' = session => Answers' = Answers)
      BY <3>2 DEF Sent, Answers
    <3>4. CASE outbox' = <<>> /\ inbox' = <<>>
      BY <3>4, SeqEmpty DEF BoxesOK
    <3> QED
      BY <3>1, <3>3, <3>4 DEF BoxesOK
  <2>5. LossCounted' /\ Registered'
    BY <1>25 DEF onClose, Break, CountsOK, FieldsOK, LossCounted, Registered
  <2> QED
    BY <2>1, <2>2, <2>3, <2>4, <2>5
<1>26. CASE Serve
  <2>1. Head(outbox) \in Sent /\ Tail(outbox) \in Seq(Sent)
    BY <1>26, SeqParts DEF Serve, BoxesOK
  <2>2. FieldsOK'
    BY <1>26, <2>1 DEF Serve, Sent, FieldsOK, Exchanges
  <2>3. FlagsOK'
    BY <1>26, <2>1 DEF Serve, Sent, FlagsOK
  <2>4. CountsOK'
    BY <1>26, <2>1, ClientAssumption DEF Serve, CountsOK, LossCounted
  <2>5. BoxesOK'
    <3>1. Answers \subseteq Answers' /\ [by |-> Head(outbox).by] \in Answers'
      BY <1>26, <2>1 DEF Serve, Answers, Sent, FieldsOK
    <3>2. inbox \in Seq(Answers')
      BY <3>1, SeqLarger DEF BoxesOK
    <3>3. inbox' \in Seq(Answers')
      BY <1>26, <3>1, <3>2 DEF Serve
    <3>4. Sent' = Sent /\ outbox' = Tail(outbox)
      BY <1>26 DEF Serve, Sent
    <3> QED
      BY <2>1, <3>3, <3>4 DEF BoxesOK
  <2>6. LossCounted' /\ Registered'
    BY <1>26, <2>1 DEF Serve, Sent, CountsOK, FieldsOK, LossCounted, Registered
  <2> QED
    BY <2>2, <2>3, <2>4, <2>5, <2>6
<1>27. CASE Ask
  <2>1. FieldsOK'
    BY <1>27 DEF Ask, FieldsOK, Exchanges
  <2>2. FlagsOK'
    BY <1>27 DEF Ask, FlagsOK
  <2>3. CountsOK'
    BY <1>27, ClientAssumption DEF Ask, CountsOK, LossCounted
  <2>4. BoxesOK'
    <3>1. [by |-> "peer"] \in Answers
      BY DEF Answers
    <3> QED
      BY <1>27, <3>1 DEF Ask, BoxesOK, Answers, Sent
  <2>5. LossCounted' /\ Registered'
    BY <1>27 DEF Ask, CountsOK, FieldsOK, LossCounted, Registered
  <2> QED
    BY <2>1, <2>2, <2>3, <2>4, <2>5
<1>28. CASE Lose
  <2>1. FieldsOK'
    BY <1>28 DEF Lose, Break, Fault, FieldsOK, Exchanges
  <2>2. FlagsOK'
    BY <1>28 DEF Lose, Break, Fault, FlagsOK
  <2>3. CountsOK'
    BY <1>28, ClientAssumption DEF Lose, Break, Fault, CountsOK, LossCounted
  <2>4. BoxesOK'
    <3>1. \/ outbox' = <<>> /\ inbox' = <<>>
          \/ UNCHANGED <<outbox, inbox, session>>
      BY <1>28 DEF Lose, Break, Fault
    <3>2. msgId2Func' = msgId2Func
      BY <1>28 DEF Lose, Break, Fault
    <3>3. Sent' = Sent /\ (session' = session => Answers' = Answers)
      BY <3>2 DEF Sent, Answers
    <3>4. CASE outbox' = <<>> /\ inbox' = <<>>
      BY <3>4, SeqEmpty DEF BoxesOK
    <3> QED
      BY <3>1, <3>3, <3>4 DEF BoxesOK
  <2>5. LossCounted' /\ Registered'
    BY <1>28 DEF Lose, Break, Fault, CountsOK, FieldsOK, LossCounted, Registered
  <2> QED
    BY <2>1, <2>2, <2>3, <2>4, <2>5
<1>29. CASE UNCHANGED vars
  BY <1>29 DEF FieldsOK, FlagsOK, CountsOK, BoxesOK, LossCounted, Registered, Sent, Answers
<1> QED
  BY <1>1, <1>2, <1>3, <1>4, <1>5, <1>6, <1>7, <1>8, <1>9, <1>10, <1>11, <1>12, <1>13, <1>14,
     <1>15, <1>16, <1>17, <1>18, <1>19, <1>20, <1>21, <1>22, <1>23, <1>24, <1>25, <1>26, <1>27, <1>28, <1>29
     DEF Next, ConnThread, PollThread

(* Type correctness, with the ids on their way among those with a handler.  *)
THEOREM ClientTypeCorrect == Spec => []TypeOK
<1>1. ClientInv => TypeOK
  <2> SUFFICES ASSUME ClientInv PROVE TypeOK
    OBVIOUS
  <2>1. /\ Sent \subseteq [by : Exchanges \cup {"old"}, reg : BOOLEAN, codes : SUBSET MsgIds]
        /\ Answers \subseteq [by : Exchanges \cup {"old", "peer"}]
    BY DEF ClientInv, FieldsOK, Sent, Answers
  <2>2. /\ outbox \in Seq([by : Exchanges \cup {"old"}, reg : BOOLEAN, codes : SUBSET MsgIds])
        /\ inbox \in Seq([by : Exchanges \cup {"old", "peer"}])
    BY <2>1, SeqLarger DEF ClientInv, BoxesOK
  <2> QED
    BY <2>2 DEF ClientInv, FieldsOK, FlagsOK, CountsOK, TypeOK
<1> QED
  BY <1>1, ClientInvInit, ClientInvNext, PTL DEF Spec

(* A connection in use is one the server has the Register of, however its   *)
(* end, a reconnect, late answers and the user's own registrations overlap. *)
THEOREM InUseRegisteredAlways == Spec => []InUseRegistered
<1>1. ClientInv => InUseRegistered
  BY DEF ClientInv, Registered, InUseRegistered
<1> QED
  BY <1>1, ClientInvInit, ClientInvNext, PTL DEF Spec
=============================================================================
