------------------------------ MODULE TimerProofs ------------------------------
(***************************************************************************)
(* Timer's safety properties hold for any tasks, callbacks, timeouts and   *)
(* pool.  The first part is about the list: what a walk along next meets   *)
(* (ChainIs), and what processNewTask() and the taking out of a task make  *)
(* of it (InsertedAt, AllProcessed, RemovedAt), for lists of any length,   *)
(* by way of the least index at which two functions differ.  The second is *)
(* the invariant, TimerInv: none of the properties is inductive, as that   *)
(* the list is linked rests on where the tasks are, which rests on what    *)
(* the callers hold and on what the destructor has waited for.             *)
(***************************************************************************)
EXTENDS Timer, FiniteSetTheorems, WellFoundedInduction, TLAPS

\* Every set of naturals with an element has a least one.
LEMMA LeastIndex ==
  ASSUME NEW T \in SUBSET Nat, T # {}
  PROVE  \E m \in T : \A k \in T : m <= k
<1> DEFINE R == OpToRel(<, Nat)
<1>1. IsWellFoundedOn(R, Nat)
  BY NatLessThanWellFounded
<1>2. PICK m \in T : \A k \in T : ~ (<<k, m>> \in R)
  <2> HIDE DEF R
  <2> QED BY <1>1, WFMin
<1>3. R = {ss \in Nat \X Nat : ss[1] < ss[2]}
  BY DEF OpToRel
<1> HIDE DEF R
<1>4. ASSUME NEW k \in T PROVE m <= k
  <2>1. <<k, m>> \in Nat \X Nat /\ <<k, m>>[1] = k /\ <<k, m>>[2] = m
    OBVIOUS
  <2>2. ~ (k < m)
    BY <1>2, <1>3, <2>1, Zenon
  <2>3. QED
    BY <2>2
<1>5. QED
  BY <1>4

-----------------------------------------------------------------------------
\* list is linked in both directions through the tasks of s, in their order.
IsChain(list, s) ==
  /\ s \in Seq(Tasks)
  /\ \A i, j \in 1..Len(s) : s[i] = s[j] => i = j
  /\ list.head = IF Len(s) = 0 THEN None ELSE s[1]
  /\ \A i \in 1..Len(s) : list.next[s[i]] = IF i = Len(s) THEN None ELSE s[i + 1]
  /\ \A i \in 1..Len(s) : list.prev[s[i]] = IF i = 1 THEN None ELSE s[i - 1]

\* 1..n has n elements.
LEMMA IntervalSize ==
  ASSUME NEW n \in Nat
  PROVE  Cardinality(1..n) = n
<1>1. Cardinality(1..n) = IF 1 > n THEN 0 ELSE n - 1 + 1
  <2>1. 1 \in Int /\ n \in Int
    OBVIOUS
  <2>2. QED
    BY ONLY <2>1, FS_Interval, Zenon
<1>2. QED
  BY <1>1

\* A sequence that names no task twice is no longer than there are tasks.
LEMMA DistinctBound ==
  ASSUME NEW s \in Seq(Tasks), \A i, j \in 1..Len(s) : s[i] = s[j] => i = j
  PROVE  Len(s) <= Cardinality(Tasks)
<1>1. Len(s) \in Nat
  OBVIOUS
<1>2. Cardinality(1..Len(s)) = Len(s)
  BY <1>1, IntervalSize
<1>3. s \in [1..Len(s) -> Tasks]
  OBVIOUS
<1>4. s \in Injection(1..Len(s), Tasks)
  BY <1>3 DEF Injection, IsInjective
<1>5. QED
  BY <1>2, <1>4, FS_Injection, TimerAssumption

\* A walk along next meets the tasks the list is linked through, and no other.
LEMMA ChainIs ==
  ASSUME NEW list, NEW s, IsChain(list, s)
  PROVE  Chain(list) = s
<1> DEFINE N == Cardinality(Tasks)
           Walked(f) == [i \in 1..N |-> IF i = 1 THEN list.head
                                       ELSE IF f[i - 1] = None THEN None ELSE list.next[f[i - 1]]]
           node == CHOOSE f : f = Walked(f)
           nodes == [i \in 1..N |-> IF i <= Len(s) THEN s[i] ELSE None]
<1>1. N \in Nat /\ Len(s) \in 0..N /\ s \in Seq(Tasks) /\ None \notin Tasks
  BY DistinctBound, FS_CardinalityType, TimerAssumption DEF IsChain
<1>2. Chain(list) = [i \in 1..Cardinality({j \in 1..N : node[j] # None}) |-> node[i]]
  BY DEF Chain
<1> HIDE DEF N
<1>3. nodes = Walked(nodes)
  <2>1. ASSUME NEW i \in 1..N
        PROVE  nodes[i] = IF i = 1 THEN list.head
                          ELSE IF nodes[i - 1] = None THEN None ELSE list.next[nodes[i - 1]]
    <3>1. CASE i = 1
      BY <1>1, <3>1 DEF IsChain
    <3>2. CASE i # 1 /\ i - 1 <= Len(s)
      <4>1. i - 1 \in 1..Len(s) /\ i - 1 \in 1..N /\ nodes[i - 1] = s[i - 1] /\ s[i - 1] \in Tasks
        BY <1>1, <3>2
      <4>2. list.next[s[i - 1]] = IF i - 1 = Len(s) THEN None ELSE s[(i - 1) + 1]
        BY <4>1 DEF IsChain
      <4>3. QED
        BY <1>1, <3>2, <4>1, <4>2
    <3>3. CASE i # 1 /\ ~(i - 1 <= Len(s))
      BY <1>1, <3>3
    <3>4. QED
      BY <3>1, <3>2, <3>3
  <2>2. QED
    BY <2>1
<1>4. node = Walked(node)
  <2> HIDE DEF Walked, nodes
  <2>1. QED
    BY <1>3
<1> HIDE DEF node
<1>5. ASSUME NEW i \in 1..N PROVE node[i] = nodes[i]
  <2> DEFINE T == {k \in 1..N : node[k] # nodes[k]}
  <2>1. SUFFICES ASSUME T # {} PROVE FALSE
    OBVIOUS
  <2>2. T \in SUBSET Nat
    BY <1>1
  <2>3. PICK m \in T : \A k \in T : m <= k
    <3> HIDE DEF T
    <3>1. QED
      BY <2>1, <2>2, LeastIndex
  <2>4. m \in 1..N /\ node[m] # nodes[m] /\ (m # 1 => node[m - 1] = nodes[m - 1])
    BY <1>1, <2>3
  <2>5. node[m] = IF m = 1 THEN list.head
                  ELSE IF node[m - 1] = None THEN None ELSE list.next[node[m - 1]]
    <3> HIDE DEF nodes
    <3>1. QED
      BY <1>4, <2>4
  <2>6. nodes[m] = IF m = 1 THEN list.head
                   ELSE IF nodes[m - 1] = None THEN None ELSE list.next[nodes[m - 1]]
    <3>1. Walked(nodes)[m] = IF m = 1 THEN list.head
                   ELSE IF nodes[m - 1] = None THEN None ELSE list.next[nodes[m - 1]]
      BY <2>4
    <3> HIDE DEF nodes, Walked
    <3>2. QED
      BY <1>3, <3>1
  <2>7. QED
    <3> HIDE DEF nodes
    <3>1. QED
      BY <2>4, <2>5, <2>6
<1>6. {j \in 1..N : node[j] # None} = 1..Len(s)
  BY <1>1, <1>5
<1>7. Cardinality(1..Len(s)) = Len(s)
  BY <1>1, IntervalSize
<1>8. QED
  <2>1. Chain(list) = [i \in 1..Len(s) |-> node[i]]
    BY <1>2, <1>6, <1>7
  <2>2. \A i \in 1..Len(s) : node[i] = s[i]
    BY <1>1, <1>5
  <2>3. s = [i \in 1..Len(s) |-> s[i]]
    BY <1>1
  <2>4. QED
    BY <2>1, <2>2, <2>3

-----------------------------------------------------------------------------
\* s without its k-th task, and with t as its k-th.
Without(s, k) == [i \in 1..(Len(s) - 1) |-> IF i < k THEN s[i] ELSE s[i + 1]]
With(s, k, t) == [i \in 1..(Len(s) + 1) |-> IF i < k THEN s[i] ELSE IF i = k THEN t ELSE s[i - 1]]

\* Taking out a task by its two links leaves the list linked through the rest,
\* unless it was the last of several, where the code follows a null pointer.
LEMMA RemovedAt ==
  ASSUME NEW list, NEW s, IsChain(list, s), NEW k \in 1..Len(s), NEW p, NEW n,
         p = list.prev[s[k]], n = list.next[s[k]], p = None \/ n # None
  PROVE  /\ IsChain(Unlinked(list, p, n), Without(s, k))
         /\ n = IF k = Len(s) THEN None ELSE Without(s, k)[k]
<1> DEFINE u == Without(s, k)
           new == Unlinked(list, p, n)
<1>1. s \in Seq(Tasks) /\ Len(s) \in Nat /\ None \notin Tasks /\ \A i \in 1..Len(s) : s[i] \in Tasks
  BY TimerAssumption DEF IsChain
<1>2. u \in Seq(Tasks) /\ Len(u) = Len(s) - 1
  BY <1>1 DEF Without
<1>3. \A i \in 1..Len(u) : u[i] = IF i < k THEN s[i] ELSE s[i + 1]
  BY <1>1, <1>2 DEF Without
<1>4. p = (IF k = 1 THEN None ELSE s[k - 1]) /\ n = (IF k = Len(s) THEN None ELSE s[k + 1])
  BY DEF IsChain
<1>5. new.head = IF p = None THEN n ELSE list.head
  BY DEF Unlinked
<1>6. \A x \in Tasks : /\ new.next[x] = IF x = p THEN n ELSE list.next[x]
                       /\ new.prev[x] = IF x = n THEN p ELSE list.prev[x]
  BY DEF Unlinked
<1>7. \A i, j \in 1..Len(s) : s[i] = s[j] => i = j
  BY DEF IsChain
<1>8. k \in 1..Len(s) /\ (k = 1 \/ k # Len(s))
  BY <1>1, <1>4
<1> HIDE DEF u, new
<1>9. \A i, j \in 1..Len(u) : u[i] = u[j] => i = j
  BY <1>1, <1>2, <1>3, <1>7
<1>10. new.head = IF Len(u) = 0 THEN None ELSE u[1]
  <2>1. CASE k = 1
    BY <1>1, <1>2, <1>3, <1>4, <1>5, <2>1
  <2>2. CASE k # 1
    <3>1. p = s[k - 1] /\ k - 1 \in 1..Len(s)
      BY <1>4, <1>8, <2>2
    <3>2. p # None /\ new.head = list.head
      BY <1>1, <1>5, <3>1
    <3>3. list.head = s[1]
      BY <1>8 DEF IsChain
    <3>4. Len(u) # 0 /\ u[1] = s[1]
      BY <1>1, <1>2, <1>3, <1>8, <2>2
    <3>5. QED
      BY <3>2, <3>3, <3>4
  <2>3. QED
    BY <2>1, <2>2
<1>11. ASSUME NEW i \in 1..Len(u)
       PROVE  new.next[u[i]] = IF i = Len(u) THEN None ELSE u[i + 1]
  <2>1. CASE i < k - 1
    <3>1. i \in 1..Len(s) /\ u[i] = s[i] /\ u[i + 1] = s[i + 1] /\ i # Len(u) /\ i # Len(s)
      <4>1. i \in Nat /\ k \in Nat /\ i + 1 \in 1..Len(u) /\ i + 1 < k /\ i # Len(u)
        BY <1>1, <1>2, <1>8, <2>1
      <4>2. u[i + 1] = s[i + 1]
        BY <1>3, <4>1
      <4>3. QED
        BY <1>1, <1>2, <1>3, <1>8, <4>1, <4>2
    <3>2. list.next[s[i]] = s[i + 1]
      BY <3>1 DEF IsChain
    <3>3. s[i] # p
      BY <1>1, <1>4, <1>7, <1>8, <2>1, <3>1
    <3>4. QED
      BY <1>1, <1>6, <3>1, <3>2, <3>3
  <2>2. CASE i = k - 1
    <3>1. i \in 1..Len(s) /\ u[i] = s[i] /\ k # 1 /\ k # Len(s) /\ s[i] = p
      BY <1>1, <1>2, <1>3, <1>4, <1>8, <2>2
    <3>2. new.next[u[i]] = s[k + 1]
      BY <1>1, <1>4, <1>6, <3>1
    <3>3. i # Len(u) /\ u[i + 1] = s[k + 1]
      BY <1>1, <1>2, <1>3, <1>8, <2>2, <3>1
    <3>4. QED
      BY <3>2, <3>3
  <2>3. CASE i > k - 1
    <3>1. i + 1 \in 1..Len(s) /\ u[i] = s[i + 1]
      BY <1>1, <1>2, <1>3, <1>8, <2>3
    <3>2. list.next[s[i + 1]] = IF i + 1 = Len(s) THEN None ELSE s[(i + 1) + 1]
      BY <3>1 DEF IsChain
    <3>3. s[i + 1] # p
      BY <1>1, <1>4, <1>7, <1>8, <2>3, <3>1
    <3>4. i # Len(u) => u[i + 1] = s[(i + 1) + 1]
      <4>1. i # Len(u) => i + 1 \in 1..Len(u) /\ ~(i + 1 < k)
        BY <1>1, <1>2, <1>8, <2>3
      <4>2. QED
        BY <1>3, <4>1
    <3>5. QED
      BY <1>1, <1>2, <1>6, <3>1, <3>2, <3>3, <3>4
  <2>4. QED
    BY <1>1, <1>2, <1>8, <2>1, <2>2, <2>3
<1>12. ASSUME NEW i \in 1..Len(u)
       PROVE  new.prev[u[i]] = IF i = 1 THEN None ELSE u[i - 1]
  <2>1. CASE i < k
    <3>1. i \in 1..Len(s) /\ u[i] = s[i] /\ (i # 1 => u[i - 1] = s[i - 1])
      BY <1>1, <1>2, <1>3, <1>8, <2>1
    <3>2. list.prev[s[i]] = IF i = 1 THEN None ELSE s[i - 1]
      BY <3>1 DEF IsChain
    <3>3. s[i] # n
      BY <1>1, <1>4, <1>7, <1>8, <2>1, <3>1
    <3>4. QED
      BY <1>1, <1>6, <3>1, <3>2, <3>3
  <2>2. CASE i = k
    <3>1. i + 1 \in 1..Len(s) /\ u[i] = s[i + 1] /\ k # Len(s) /\ s[i + 1] = n
      BY <1>1, <1>2, <1>3, <1>4, <1>8, <2>2
    <3>2. new.prev[u[i]] = p
      BY <1>1, <1>6, <3>1
    <3>3. i # 1 => u[i - 1] = s[k - 1]
      BY <1>1, <1>2, <1>3, <1>8, <2>2
    <3>4. QED
      BY <1>4, <2>2, <3>2, <3>3
  <2>3. CASE i > k
    <3>1. i + 1 \in 1..Len(s) /\ u[i] = s[i + 1] /\ u[i - 1] = s[i] /\ i # 1
      <4>1. i - 1 \in 1..Len(u) /\ ~(i - 1 < k) /\ (i - 1) + 1 = i /\ i # 1
        BY <1>1, <1>2, <1>8, <2>3
      <4>2. u[i - 1] = s[i]
        BY <1>3, <4>1
      <4>3. QED
        BY <1>1, <1>2, <1>3, <1>8, <2>3, <4>1, <4>2
    <3>2. list.prev[s[i + 1]] = s[(i + 1) - 1]
      BY <1>1, <3>1 DEF IsChain
    <3>3. s[i + 1] # n
      BY <1>1, <1>4, <1>7, <1>8, <2>3, <3>1
    <3>4. QED
      BY <1>1, <1>6, <3>1, <3>2, <3>3
  <2>4. QED
    BY <1>1, <1>2, <1>8, <2>1, <2>2, <2>3
<1>13. IsChain(new, u)
  BY <1>2, <1>9, <1>10, <1>11, <1>12 DEF IsChain
<1>14. n = IF k = Len(s) THEN None ELSE u[k]
  BY <1>1, <1>2, <1>3, <1>4, <1>8
<1>15. QED
  BY <1>13, <1>14 DEF u, new

-----------------------------------------------------------------------------
\* In the order of the deadlines.
Sorted(s) == \A i, j \in 1..Len(s) : i < j => deadline[s[i]] <= deadline[s[j]]

Lists == [head : Tasks \cup {None}, next : [Tasks -> Tasks \cup {None}],
          prev : [Tasks -> Tasks \cup {None}]]

\* processNewTask() puts a task that is not in the list where its deadline
\* belongs.
LEMMA InsertedAt ==
  ASSUME NEW list \in Lists, NEW s, IsChain(list, s), Sorted(s), NEW t \in Tasks,
         ~Contains(s, t), deadline \in [Tasks -> Int]
  PROVE  /\ processNewTask(list, t) \in Lists
         /\ \E k \in 1..(Len(s) + 1) : /\ IsChain(processNewTask(list, t), With(s, k, t))
                                       /\ Sorted(With(s, k, t))
<1> DEFINE later == {i \in DOMAIN s : deadline[s[i]] >= deadline[t]}
           k == IF later = {} THEN Len(s) + 1 ELSE Min(later)
           n == IF later = {} THEN None ELSE s[Min(later)]
           p == IF s = <<>> THEN None ELSE IF later = {} THEN Last(s) ELSE list.prev[n]
           u == With(s, k, t)
           new == processNewTask(list, t)
<1>1. s \in Seq(Tasks) /\ Len(s) \in Nat /\ None \notin Tasks /\ t # None
      /\ DOMAIN s = 1..Len(s) /\ \A i \in 1..Len(s) : s[i] \in Tasks /\ s[i] # t /\ s[i] # None
  BY TimerAssumption DEF IsChain, Contains
<1>2. Chain(list) = s
  BY ChainIs
<1>3. new = [head |-> IF p = None THEN t ELSE list.head,
             next |-> [x \in Tasks |-> CASE x = t -> n [] x = p -> t [] OTHER -> list.next[x]],
             prev |-> [x \in Tasks |-> CASE x = t -> p [] x = n -> t [] OTHER -> list.prev[x]]]
  BY <1>2 DEF processNewTask
<1>4. /\ k \in 1..(Len(s) + 1)
      /\ n = IF k = Len(s) + 1 THEN None ELSE s[k]
      /\ \A i \in 1..Len(s) : i < k => deadline[s[i]] < deadline[t]
      /\ k # Len(s) + 1 => deadline[s[k]] >= deadline[t]
  <2>1. CASE later = {}
    <3>1. \A i \in 1..Len(s) : deadline[s[i]] < deadline[t]
      BY <1>1, <2>1
    <3>2. QED
      BY <1>1, <2>1, <3>1
  <2>2. CASE later # {}
    <3>1. later \in SUBSET Nat
      BY <1>1
    <3>2. \E m \in later : \A i \in later : m <= i
      <4> HIDE DEF later
      <4>1. QED
        BY <2>2, <3>1, LeastIndex
    <3>3. Min(later) \in later /\ \A i \in later : Min(later) <= i
      <4> HIDE DEF later
      <4>1. QED
        BY <3>2 DEF Min
    <3>4. k = Min(later) /\ n = s[k]
      BY <2>2
    <3>5. k \in 1..Len(s) /\ deadline[s[k]] >= deadline[t]
      BY <1>1, <3>3, <3>4
    <3>6. \A i \in 1..Len(s) : i < k => i \notin later
      <4> HIDE DEF later
      <4>1. QED
        BY <1>1, <3>1, <3>3, <3>4, <3>5
    <3>7. \A i \in 1..Len(s) : i < k => deadline[s[i]] < deadline[t]
      BY <1>1, <3>6
    <3> HIDE DEF k, later, n
    <3>8. QED
      BY <1>1, <3>4, <3>5, <3>7
  <2>3. QED
    BY <2>1, <2>2
<1>5. p = IF k = 1 THEN None ELSE s[k - 1]
  <2>1. CASE later = {}
    BY <1>1, <2>1 DEF Last
  <2>2. CASE later # {}
    <3>1. k = Min(later) /\ n = s[k] /\ k \in DOMAIN s
      <4>1. later \in SUBSET Nat
        BY <1>1
      <4>2. \E m \in later : \A i \in later : m <= i
        <5> HIDE DEF later
        <5>1. QED
          BY <2>2, <4>1, LeastIndex
      <4>3. Min(later) \in later
        <5> HIDE DEF later
        <5>1. QED
          BY <4>2 DEF Min
      <4>4. QED
        BY <2>2, <4>3
    <3>2. s # <<>>
      BY <1>1, <3>1
    <3>3. p = list.prev[s[k]]
      BY <2>2, <3>1, <3>2
    <3> HIDE DEF k, p, n, later
    <3>4. QED
      BY <1>1, <3>1, <3>3 DEF IsChain
  <2>3. QED
    BY <2>1, <2>2
<1> HIDE DEF k, n, p, later, new
<1>6. u \in Seq(Tasks) /\ Len(u) = Len(s) + 1
  BY <1>1, <1>4 DEF With
<1>7. \A i \in 1..Len(u) : u[i] = IF i < k THEN s[i] ELSE IF i = k THEN t ELSE s[i - 1]
  BY <1>1, <1>6 DEF With
<1> HIDE DEF u
<1>8. /\ n \in Tasks \cup {None} /\ p \in Tasks \cup {None} /\ n # t /\ p # t
      /\ k \in Nat /\ 1 <= k /\ k <= Len(s) + 1 /\ Len(s) \in Nat /\ Len(u) = Len(s) + 1
  BY <1>1, <1>4, <1>5, <1>6
<1>9. new \in Lists
  BY <1>3, <1>8 DEF Lists
<1>10. new.head = IF p = None THEN t ELSE list.head
  BY <1>3
<1>11. \A x \in Tasks : /\ new.next[x] = IF x = t THEN n ELSE IF x = p THEN t ELSE list.next[x]
                        /\ new.prev[x] = IF x = t THEN p ELSE IF x = n THEN t ELSE list.prev[x]
  BY <1>3, <1>8
<1>12. \A i, j \in 1..Len(s) : s[i] = s[j] => i = j
  BY DEF IsChain
<1>13. \A i, j \in 1..Len(u) : u[i] = u[j] => i = j
  <2>1. SUFFICES ASSUME NEW i \in 1..Len(u), NEW j \in 1..Len(u), u[i] = u[j], i < j PROVE FALSE
    <3>1. \A i, j \in 1..Len(u) : i = j \/ i < j \/ j < i
      OBVIOUS
    <3>2. QED
      BY <3>1
  <2>2. CASE j < k
    <3>1. i < k /\ i \in 1..Len(s) /\ j \in 1..Len(s) /\ i # j
      BY <1>8, <2>1, <2>2
    <3>2. QED
      BY <1>7, <1>12, <2>1, <2>2, <3>1
  <2>3. CASE j = k
    <3>1. i < k /\ i \in 1..Len(s)
      BY <1>8, <2>1, <2>3
    <3>2. QED
      BY <1>1, <1>7, <2>1, <2>3, <3>1
  <2>4. CASE j > k
    <3>1. ~(j < k) /\ j # k /\ j - 1 \in 1..Len(s)
      BY <1>8, <2>1, <2>4
    <3>2. u[j] = s[j - 1]
      BY <1>7, <3>1
    <3>3. CASE i < k
      <4>1. i \in 1..Len(s) /\ i # j - 1
        BY <1>8, <2>1, <2>4, <3>3
      <4>2. QED
        BY <1>7, <1>12, <2>1, <3>1, <3>2, <3>3, <4>1
    <3>4. CASE i = k
      BY <1>1, <1>7, <2>1, <3>1, <3>2, <3>4
    <3>5. CASE i > k
      <4>1. ~(i < k) /\ i # k /\ i - 1 \in 1..Len(s) /\ i - 1 # j - 1
        BY <1>8, <2>1, <2>4, <3>5
      <4>2. QED
        BY <1>7, <1>12, <2>1, <3>1, <3>2, <4>1
    <3>6. QED
      BY <1>8, <3>3, <3>4, <3>5
  <2>5. QED
    BY <1>8, <2>2, <2>3, <2>4
<1>14. new.head = IF Len(u) = 0 THEN None ELSE u[1]
  <2>1. CASE k = 1
    BY <1>1, <1>5, <1>6, <1>7, <1>10, <2>1
  <2>2. CASE k # 1
    <3>1. Len(s) # 0 /\ k - 1 \in 1..Len(s) /\ u[1] = s[1]
      BY <1>1, <1>4, <1>6, <1>7, <2>2
    <3>2. list.head = s[1]
      BY <3>1 DEF IsChain
    <3>3. QED
      BY <1>1, <1>5, <1>6, <1>10, <2>2, <3>1, <3>2
  <2>3. QED
    BY <2>1, <2>2
<1>15. ASSUME NEW i \in 1..Len(u)
       PROVE  new.next[u[i]] = IF i = Len(u) THEN None ELSE u[i + 1]
  <2>1. CASE i < k - 1
    <3>1. i \in Nat /\ i \in 1..Len(s) /\ i + 1 \in 1..Len(u) /\ i < k /\ i + 1 < k
          /\ i # Len(u) /\ i # Len(s) /\ k \in Nat
      BY <1>8, <2>1
    <3>2. u[i] = s[i] /\ u[i + 1] = s[i + 1]
      BY <1>7, <3>1
    <3>3. list.next[s[i]] = s[i + 1]
      BY <3>1 DEF IsChain
    <3>4. s[i] # p /\ s[i] # t
      <4>1. k # 1 => k - 1 \in 1..Len(s) /\ i # k - 1
        BY <1>8, <2>1
      <4>2. QED
        BY <1>1, <1>5, <1>12, <3>1, <4>1
    <3>5. QED
      BY <1>1, <1>11, <3>1, <3>2, <3>3, <3>4
  <2>2. CASE i = k - 1
    <3>1. i \in 1..Len(s) /\ i < k /\ i + 1 = k /\ k \in 1..Len(u) /\ k # 1 /\ i # Len(u)
      BY <1>1, <1>4, <1>6, <2>2
    <3>2. u[i] = s[i] /\ u[i + 1] = t /\ p = s[i]
      BY <1>5, <1>7, <2>2, <3>1
    <3>3. QED
      BY <1>1, <1>11, <3>1, <3>2
  <2>3. CASE i = k
    <3>1. u[i] = t
      BY <1>4, <1>7, <2>3
    <3>2. i # Len(u) => u[i + 1] = s[k]
      <4>1. i # Len(u) => i + 1 \in 1..Len(u) /\ ~(i + 1 < k) /\ i + 1 # k /\ (i + 1) - 1 = k
        BY <1>1, <1>4, <1>6, <2>3
      <4>2. QED
        BY <1>7, <4>1
    <3>3. QED
      BY <1>1, <1>4, <1>6, <1>11, <2>3, <3>1, <3>2
  <2>4. CASE i > k
    <3>1. i - 1 \in 1..Len(s) /\ ~(i < k) /\ i # k /\ i - 1 \in Nat /\ (i - 1) + 1 = i
      BY <1>1, <1>4, <1>6, <2>4
    <3>2. u[i] = s[i - 1]
      BY <1>7, <3>1
    <3>3. list.next[s[i - 1]] = IF i - 1 = Len(s) THEN None ELSE s[(i - 1) + 1]
      BY <3>1 DEF IsChain
    <3>4. s[i - 1] # p /\ s[i - 1] # t
      BY <1>1, <1>4, <1>5, <1>12, <2>4, <3>1
    <3>5. i # Len(u) => u[i + 1] = s[i]
      <4>1. i # Len(u) => i + 1 \in 1..Len(u) /\ ~(i + 1 < k) /\ i + 1 # k /\ (i + 1) - 1 = i
        BY <1>8, <2>4
      <4>2. QED
        BY <1>7, <4>1
    <3>6. QED
      BY <1>1, <1>6, <1>11, <3>1, <3>2, <3>3, <3>4, <3>5
  <2>5. QED
    BY <1>1, <1>4, <1>6, <2>1, <2>2, <2>3, <2>4
<1>16. ASSUME NEW i \in 1..Len(u)
       PROVE  new.prev[u[i]] = IF i = 1 THEN None ELSE u[i - 1]
  <2>1. CASE i < k
    <3>1. i \in 1..Len(s) /\ (i # 1 => i - 1 \in 1..Len(u) /\ i - 1 < k)
      BY <1>1, <1>4, <1>6, <2>1
    <3>2. u[i] = s[i] /\ (i # 1 => u[i - 1] = s[i - 1])
      BY <1>7, <2>1, <3>1
    <3>3. list.prev[s[i]] = IF i = 1 THEN None ELSE s[i - 1]
      BY <3>1 DEF IsChain
    <3>4. s[i] # n /\ s[i] # t
      BY <1>1, <1>4, <1>12, <2>1, <3>1
    <3>5. QED
      BY <1>1, <1>11, <3>1, <3>2, <3>3, <3>4
  <2>2. CASE i = k
    <3>1. u[i] = t /\ new.prev[t] = p
      BY <1>4, <1>7, <1>11, <2>2
    <3>2. i # 1 => i - 1 \in 1..Len(u) /\ i - 1 < k
      BY <1>1, <1>4, <1>6, <2>2
    <3>3. i # 1 => u[i - 1] = s[k - 1]
      BY <1>7, <2>2, <3>2
    <3>4. QED
      BY <1>5, <2>2, <3>1, <3>3
  <2>3. CASE i = k + 1
    <3>1. ~(i < k) /\ i # k /\ i - 1 = k /\ k \in 1..Len(s) /\ k \in 1..Len(u) /\ i # 1
      BY <1>1, <1>4, <1>6, <2>3
    <3>2. u[i] = s[k] /\ u[i - 1] = t /\ n = s[k]
      BY <1>1, <1>4, <1>7, <3>1
    <3>3. QED
      BY <1>1, <1>11, <3>1, <3>2
  <2>4. CASE i > k + 1
    <3>1. i - 1 \in 1..Len(s) /\ i - 1 \in 1..Len(u) /\ ~(i < k) /\ i # k /\ ~(i - 1 < k) /\ i - 1 # k
          /\ i # 1 /\ i - 1 # 1
      BY <1>1, <1>4, <1>6, <2>4
    <3>2. u[i] = s[i - 1] /\ u[i - 1] = s[(i - 1) - 1]
      BY <1>7, <3>1
    <3>3. list.prev[s[i - 1]] = s[(i - 1) - 1]
      BY <3>1 DEF IsChain
    <3>4. s[i - 1] # n /\ s[i - 1] # t
      BY <1>1, <1>4, <1>12, <2>4, <3>1
    <3>5. QED
      BY <1>1, <1>11, <3>1, <3>2, <3>3, <3>4
  <2>5. QED
    BY <1>1, <1>4, <1>6, <2>1, <2>2, <2>3, <2>4
<1>17. Sorted(u)
  <2>1. SUFFICES ASSUME NEW i \in 1..Len(u), NEW j \in 1..Len(u), i < j
                 PROVE  deadline[u[i]] <= deadline[u[j]]
    BY DEF Sorted
  <2>2. \A a, b \in 1..Len(s) : a < b => deadline[s[a]] <= deadline[s[b]]
    BY DEF Sorted
  <2>3. \A a \in 1..Len(s) : deadline[s[a]] \in Int
    BY <1>1
  <2>4. \A a \in 1..Len(s) : ~(a < k) => deadline[s[a]] >= deadline[t]
    <3>1. SUFFICES ASSUME NEW a \in 1..Len(s), ~(a < k) PROVE deadline[s[a]] >= deadline[t]
      OBVIOUS
    <3>2. k \in 1..Len(s) /\ (k = a \/ k < a)
      BY <1>1, <1>4, <3>1
    <3>3. deadline[s[k]] >= deadline[t] /\ (k # a => deadline[s[k]] <= deadline[s[a]])
      BY <1>1, <1>4, <2>2, <3>2
    <3>4. deadline[t] \in Int
      OBVIOUS
    <3>5. QED
      BY <2>3, <3>2, <3>3, <3>4
  <2>5. deadline[t] \in Int
    OBVIOUS
  <2>6. CASE i < k /\ j < k
    BY <1>1, <1>4, <1>6, <1>7, <2>1, <2>2, <2>6
  <2>7. CASE i < k /\ j = k
    BY <1>1, <1>4, <1>6, <1>7, <2>3, <2>5, <2>7
  <2>8. CASE i < k /\ j > k
    <3>1. i \in 1..Len(s) /\ j - 1 \in 1..Len(s) /\ i < j - 1 /\ u[i] = s[i] /\ u[j] = s[j - 1]
      BY <1>1, <1>4, <1>6, <1>7, <2>8
    <3>2. QED
      BY <2>2, <3>1
  <2>9. CASE i = k
    <3>1. j - 1 \in 1..Len(s) /\ ~(j - 1 < k) /\ u[i] = t /\ u[j] = s[j - 1]
      BY <1>1, <1>4, <1>6, <1>7, <2>1, <2>9
    <3>2. QED
      BY <2>3, <2>4, <2>5, <3>1
  <2>10. CASE i > k
    <3>1. i - 1 \in 1..Len(s) /\ j - 1 \in 1..Len(s) /\ i - 1 < j - 1
      BY <1>1, <1>4, <1>6, <2>1, <2>10
    <3>2. u[i] = s[i - 1] /\ u[j] = s[j - 1]
      BY <1>1, <1>4, <1>6, <1>7, <2>1, <2>10
    <3>3. QED
      BY <2>2, <3>1, <3>2
  <2>11. QED
    BY <1>1, <1>4, <1>6, <2>1, <2>6, <2>7, <2>8, <2>9, <2>10
<1>18. IsChain(new, u)
  BY <1>6, <1>13, <1>14, <1>15, <1>16 DEF IsChain
<1>19. QED
  BY <1>4, <1>9, <1>17, <1>18 DEF u, new

\* processNewTasks(): the list stays linked and in order, and has the tasks it
\* had and the new ones.
LEMMA AllProcessed ==
  ASSUME NEW list \in Lists, NEW s, IsChain(list, s), Sorted(s),
         NEW news \in Seq(Tasks), deadline \in [Tasks -> Int],
         \A i, j \in 1..Len(news) : news[i] = news[j] => i = j,
         \A i \in 1..Len(news) : ~Contains(s, news[i])
  PROVE  /\ Processed(list, news) \in Lists
         /\ \E u : /\ IsChain(Processed(list, news), u) /\ Sorted(u)
                   /\ \A t \in Tasks : Contains(u, t) <=> Contains(s, t) \/ Contains(news, t)
<1> DEFINE L == Len(news)
           Grown(f, n) == [i \in 0..n |-> IF i = 0 THEN list ELSE processNewTask(f[i - 1], news[i])]
           after == CHOOSE f : f = Grown(f, L)
           Holds(x, n) ==
             /\ x \in Lists
             /\ \E u : /\ IsChain(x, u) /\ Sorted(u)
                       /\ \A t \in Tasks : Contains(u, t) <=> Contains(s, t) \/ \E i \in 1..n : news[i] = t
<1>1. L \in Nat /\ s \in Seq(Tasks) /\ \A i \in 1..L : news[i] \in Tasks
  BY DEF IsChain
<1>2. Processed(list, news) = after[L]
  BY DEF Processed
<1> HIDE DEF L
<1>3. \E f : f = Grown(f, L)
  <2> DEFINE Stuck == {n \in 0..L : ~ \E f : f = Grown(f, n)}
  <2>1. SUFFICES ASSUME Stuck # {} PROVE FALSE
    <3> HIDE DEF Grown
    <3>1. L \in 0..L
      BY <1>1
    <3>2. QED
      BY <3>1
  <2>2. Stuck \in SUBSET Nat
    BY <1>1
  <2>3. PICK m \in Stuck : \A n \in Stuck : m <= n
    <3> HIDE DEF Stuck
    <3>1. QED
      BY <2>1, <2>2, LeastIndex
  <2>4. m \in 0..L /\ ~ \E f : f = Grown(f, m)
    OBVIOUS
  <2>5. m # 0
    <3> DEFINE g == [i \in 0..0 |-> list]
    <3>1. \A i \in 0..0 : i = 0
      OBVIOUS
    <3>2. g = Grown(g, 0)
      BY <3>1
    <3>3. QED
      <4> HIDE DEF g, Grown
      <4>1. QED
        BY <2>4, <3>2
  <2>6. m - 1 \in 0..L /\ m - 1 \notin Stuck
    <3> HIDE DEF Stuck
    <3>1. m \in 0..L /\ ~(m <= m - 1)
      BY <1>1, <2>4
    <3>2. QED
      BY <1>1, <2>3, <2>5, <3>1
  <2>7. PICK f : f = Grown(f, m - 1)
    BY <2>6
  <2> DEFINE g == [i \in 0..m |-> IF i = m THEN processNewTask(f[m - 1], news[m]) ELSE f[i]]
  <2>8. ASSUME NEW i \in 0..m
        PROVE  g[i] = IF i = 0 THEN list ELSE processNewTask(g[i - 1], news[i])
    <3>1. m \in Nat /\ m # 0 /\ (i # 0 => i - 1 \in 0..m /\ i - 1 # m /\ i - 1 \in 0..(m - 1))
          /\ (i # m => i \in 0..(m - 1))
      BY <1>1, <2>4, <2>5
    <3>2. i # 0 => g[i - 1] = f[i - 1]
      BY <3>1
    <3>3. i # m => f[i] = IF i = 0 THEN list ELSE processNewTask(f[i - 1], news[i])
      BY <2>7, <3>1
    <3>4. g[i] = IF i = m THEN processNewTask(f[m - 1], news[m]) ELSE f[i]
      OBVIOUS
    <3>5. m # 0
      BY <2>5
    <3> HIDE DEF g
    <3>6. QED
      BY <3>2, <3>3, <3>4, <3>5, Zenon
  <2>9. g = Grown(g, m)
    BY <2>8
  <2>10. QED
    <3> HIDE DEF g, Grown
    <3>1. QED
      BY <2>4, <2>9
<1>4. after = Grown(after, L)
  <2> HIDE DEF Grown
  <2>1. QED
    BY <1>3
<1>5. \A i \in 0..L : after[i] = IF i = 0 THEN list ELSE processNewTask(after[i - 1], news[i])
  <2> HIDE DEF after
  <2>1. QED
    BY <1>4
<1> HIDE DEF after, Grown
<1>6. Holds(after[0], 0)
  <2>1. 0 \in 0..L /\ 1..0 = {}
    BY <1>1
  <2>2. after[0] = list
    BY <1>5, <2>1
  <2>3. QED
    BY <2>1, <2>2
<1>7. ASSUME NEW n \in 0..L, n # 0, Holds(after[n - 1], n - 1)
      PROVE  Holds(after[n], n)
  <2> DEFINE x == after[n - 1]
             t == news[n]
  <2>1. n \in 1..L /\ t \in Tasks /\ after[n] = processNewTask(x, t)
    <3>1. n \in 1..L
      BY <1>1, <1>7
    <3>2. QED
      BY <1>1, <1>5, <1>7, <3>1
  <2>2. x \in Lists
    BY <1>7
  <2>3. PICK u : /\ IsChain(x, u) /\ Sorted(u)
                 /\ \A y \in Tasks : Contains(u, y) <=> Contains(s, y)
                                                        \/ \E i \in 1..(n - 1) : news[i] = y
    BY <1>7
  <2> HIDE DEF x, t
  <2>4. ~Contains(u, t)
    <3>1. ~Contains(s, t)
      BY <2>1 DEF t, L
    <3>2. \A i \in 1..(n - 1) : news[i] # t
      <4>1. SUFFICES ASSUME NEW i \in 1..(n - 1) PROVE news[i] # news[n]
        BY DEF t
      <4>2. i \in 1..L /\ i # n
        BY <1>1, <2>1
      <4>3. QED
        BY <2>1, <4>2 DEF L
    <3>3. QED
      BY <2>1, <2>3, <3>1, <3>2
  <2>5. PICK k \in 1..(Len(u) + 1) : /\ IsChain(processNewTask(x, t), With(u, k, t))
                                     /\ Sorted(With(u, k, t))
    BY <2>1, <2>2, <2>3, <2>4, InsertedAt
  <2>6. processNewTask(x, t) \in Lists
    BY <2>1, <2>2, <2>3, <2>4, InsertedAt
  <2>7. u \in Seq(Tasks) /\ With(u, k, t) \in Seq(Tasks)
    BY <2>3, <2>5 DEF IsChain
  <2>8. ASSUME NEW y \in Tasks
        PROVE  Contains(With(u, k, t), y) <=> Contains(u, y) \/ y = t
    <3> DEFINE v == With(u, k, t)
    <3>1. Len(v) = Len(u) + 1 /\ Len(u) \in Nat
      BY <2>7 DEF With
    <3>2. \A i \in 1..Len(v) : v[i] = IF i < k THEN u[i] ELSE IF i = k THEN t ELSE u[i - 1]
      BY <3>1 DEF With
    <3> HIDE DEF v
    <3>3. ASSUME Contains(v, y) PROVE Contains(u, y) \/ y = t
      <4>1. PICK i \in 1..Len(v) : v[i] = y
        BY <3>3 DEF Contains
      <4>2. CASE i < k
        BY <3>1, <3>2, <4>1, <4>2 DEF Contains
      <4>3. CASE i = k
        BY <3>1, <3>2, <4>1, <4>3
      <4>4. CASE i > k
        <5>1. i - 1 \in 1..Len(u) /\ ~(i < k) /\ i # k
          BY <3>1, <4>1, <4>4
        <5>2. QED
          BY <3>2, <4>1, <5>1 DEF Contains
      <4>5. QED
        BY <3>1, <4>2, <4>3, <4>4
    <3>4. ASSUME Contains(u, y) PROVE Contains(v, y)
      <4>1. PICK i \in 1..Len(u) : u[i] = y
        BY <3>4 DEF Contains
      <4>2. CASE i < k
        BY <3>1, <3>2, <4>1, <4>2 DEF Contains
      <4>3. CASE ~(i < k)
        <5>1. i + 1 \in 1..Len(v) /\ ~(i + 1 < k) /\ i + 1 # k /\ (i + 1) - 1 = i
          BY <3>1, <4>1, <4>3
        <5>2. QED
          BY <3>2, <4>1, <5>1 DEF Contains
      <4>4. QED
        BY <4>2, <4>3
    <3>5. ASSUME y = t PROVE Contains(v, y)
      <4>1. k \in 1..Len(v) /\ ~(k < k)
        BY <3>1
      <4>2. QED
        BY <3>2, <3>5, <4>1 DEF Contains
    <3>6. QED
      BY <3>3, <3>4, <3>5 DEF v
  <2>9. \A y : (\E i \in 1..n : news[i] = y) <=> (\E i \in 1..(n - 1) : news[i] = y) \/ y = t
    <3>1. 1..n = 1..(n - 1) \cup {n}
      BY <1>1, <2>1
    <3>2. QED
      BY <3>1 DEF t
  <2>10. \A y \in Tasks : Contains(With(u, k, t), y)
                             <=> Contains(s, y) \/ \E i \in 1..n : news[i] = y
    BY <2>3, <2>8, <2>9
  <2>11. QED
    BY <2>1, <2>5, <2>6, <2>10
<1>8. ASSUME NEW n \in 0..L PROVE Holds(after[n], n)
  <2> DEFINE Stuck == {k \in 0..L : ~Holds(after[k], k)}
  <2> HIDE DEF Holds
  <2>1. SUFFICES ASSUME Stuck # {} PROVE FALSE
    OBVIOUS
  <2>2. Stuck \in SUBSET Nat
    BY <1>1
  <2>3. PICK m \in Stuck : \A k \in Stuck : m <= k
    <3> HIDE DEF Stuck
    <3>1. QED
      BY <2>1, <2>2, LeastIndex
  <2>4. m \in 0..L /\ ~Holds(after[m], m) /\ m # 0
    BY <1>6
  <2>5. m - 1 \in 0..L /\ m - 1 \notin Stuck
    BY <1>1, <2>3, <2>4
  <2>6. QED
    BY <1>7, <2>4, <2>5
<1>9. L \in 0..L
  BY <1>1
<1>10. Holds(after[L], L)
  BY <1>8, <1>9
<1>11. QED
  BY <1>2, <1>10 DEF Contains, L

-----------------------------------------------------------------------------
Gone == cpc[Owner] = "gone"
\* The task the timer thread has handed over and not yet taken out.
Leaving(t) == tpc = "unlink" /\ at = t
InList(t) == Contains(Chain(m_tasks), t)

\* The list, with the order of the deadlines but for the task being taken out:
\* its callback may be over by then, and have given it its next deadline.
LinkInv ==
  LET chain == Chain(m_tasks) IN
    /\ IsChain(m_tasks, chain)
    /\ \A i, j \in 1..Len(chain) :
         i < j => \/ Leaving(chain[i]) \/ Leaving(chain[j])
                  \/ deadline[chain[i]] <= deadline[chain[j]]

\* The timer thread's pointers are into the list.
PassInv ==
  /\ tpc = "pass" => at = None \/ InList(at)
  /\ tpc = "unlink" => InList(at) /\ links = <<m_tasks.prev[at], m_tasks.next[at]>>
  /\ tpc = "ended" => m_stop

\* Where the tasks are, and which.
PlaceInv ==
  ~Gone =>
    /\ \A t \in Tasks : InList(t) /\ ~Leaving(t) => life[t] = "live" /\ stage[t] = "out"
                                                    /\ ~Contains(m_insertTasks, t)
    /\ \A t \in Tasks : Contains(m_insertTasks, t) => life[t] = "live" /\ stage[t] = "out"
    /\ \A t \in Tasks : life[t] = "live" =>
         Contains(m_insertTasks, t) \/ stage[t] # "out" \/ (InList(t) /\ ~Leaving(t))
    /\ \A i, j \in 1..Len(m_insertTasks) : m_insertTasks[i] = m_insertTasks[j] => i = j

\* Callbacks: what is in the pool is not deleted, and due unless cancelled.
PoolInv ==
  \A t \in Tasks : /\ stage[t] # "out" => life[t] = "live"
                   /\ stage[t] = "accepted" => now >= deadline[t] \/ cancled[t]

\* A task made has one maker, about to insert it; a callback that calls runs.
CallInv ==
  /\ \A c \in Callers : cpc[c] = "insert" => arg[c] \in Tasks /\ life[arg[c]] = "made"
  /\ \A c, d \in Callers : cpc[c] = "insert" /\ cpc[d] = "insert" /\ arg[c] = arg[d] => c = d
  /\ \A t \in Tasks : life[t] = "made" => \E c \in Callers : cpc[c] = "insert" /\ arg[c] = t
  /\ \A c \in Nesting : cpc[c] # "idle" => stage[c] = "running"

\* What the destructor has waited for.
DestroyInv ==
  /\ cpc[Owner] \in {"join", "waitAll", "gone"} => m_stop
  /\ cpc[Owner] \in {"waitAll", "gone"} => tpc = "ended"
  /\ Gone => \A t \in Tasks : stage[t] = "out" /\ life[t] \in {"new", "freed"}

\* The inductive invariant: up to a crash, all of them; and a Timer that is gone
\* does not crash.
Exact == LinkInv /\ PassInv /\ PlaceInv /\ PoolInv /\ CallInv /\ DestroyInv
TimerInv == TypeOK /\ (~crashed => Exact) /\ (crashed => ~Gone)

\* Appending a task that is not in the sequence.
LEMMA AppendedOnce ==
  ASSUME NEW q \in Seq(Tasks), NEW t \in Tasks
  PROVE  /\ Append(q, t) \in Seq(Tasks)
         /\ \A x \in Tasks : Contains(Append(q, t), x) <=> Contains(q, x) \/ x = t
         /\ ~Contains(q, t) /\ (\A i, j \in 1..Len(q) : q[i] = q[j] => i = j)
              => \A i, j \in 1..Len(Append(q, t)) : Append(q, t)[i] = Append(q, t)[j] => i = j
<1> DEFINE r == Append(q, t)
<1>1. r \in Seq(Tasks) /\ Len(r) = Len(q) + 1 /\ Len(q) \in Nat /\ r[Len(q) + 1] = t
      /\ \A i \in 1..Len(q) : r[i] = q[i]
  OBVIOUS
<1>2. \A i \in 1..Len(r) : i \in 1..Len(q) \/ i = Len(q) + 1
  BY <1>1
<1>3. Len(q) + 1 \in 1..Len(r) /\ \A i \in 1..Len(q) : i \in 1..Len(r)
  BY <1>1
<1> HIDE DEF r
<1>4. \A x \in Tasks : Contains(r, x) <=> Contains(q, x) \/ x = t
  BY <1>1, <1>2, <1>3 DEF Contains
<1>5. ASSUME ~Contains(q, t), \A i, j \in 1..Len(q) : q[i] = q[j] => i = j
      PROVE  \A i, j \in 1..Len(r) : r[i] = r[j] => i = j
  <2>1. \A i \in 1..Len(q) : r[i] = q[i] /\ r[i] # t
    BY <1>1, <1>5 DEF Contains
  <2>2. QED
    BY <1>1, <1>2, <1>5, <2>1
<1>6. QED
  BY <1>1, <1>4, <1>5 DEF r

\* What keeps each part, where no task moves.
LEMMA LinkKept ==
  ASSUME LinkInv, m_tasks' = m_tasks,
         \A t \in Tasks : Leaving(t) => Leaving(t)',
         \A t \in Tasks : InList(t) => deadline'[t] = deadline[t] \/ Leaving(t)'
  PROVE  LinkInv'
<1> DEFINE C == Chain(m_tasks)
<1>1. C = C' /\ C \in Seq(Tasks) /\ IsChain(m_tasks, C)
  BY DEF LinkInv, IsChain
<1>2. \A i \in 1..Len(C) : C[i] \in Tasks /\ InList(C[i])
  BY <1>1 DEF InList, Contains
<1>3. \A i, j \in 1..Len(C) : i < j => \/ Leaving(C[i]) \/ Leaving(C[j])
                                       \/ deadline[C[i]] <= deadline[C[j]]
  BY DEF LinkInv, Leaving
<1> HIDE DEF C
<1>4. \A i, j \in 1..Len(C) : i < j => \/ Leaving(C[i])' \/ Leaving(C[j])'
                                       \/ deadline'[C[i]] <= deadline'[C[j]]
  <2>1. SUFFICES ASSUME NEW i \in 1..Len(C), NEW j \in 1..Len(C), i < j,
                        ~(Leaving(C[i])'), ~(Leaving(C[j])')
                 PROVE  deadline'[C[i]] <= deadline'[C[j]]
    BY <1>1 DEF Leaving
  <2>2. deadline'[C[i]] = deadline[C[i]] /\ deadline'[C[j]] = deadline[C[j]]
    BY <1>1, <1>2, <2>1 DEF Leaving
  <2>3. ~Leaving(C[i]) /\ ~Leaving(C[j])
    BY <1>1, <1>2, <2>1 DEF Leaving
  <2>4. QED
    BY <1>3, <2>1, <2>2, <2>3
<1>5. QED
  BY <1>1, <1>4 DEF LinkInv, C, Leaving

LEMMA PlaceKept ==
  ASSUME PlaceInv, UNCHANGED <<m_tasks, life, stage, m_insertTasks>>, Gone => Gone',
         \A t \in Tasks : Leaving(t)' <=> Leaving(t)
  PROVE  PlaceInv'
BY DEF PlaceInv, InList

-----------------------------------------------------------------------------
LEMMA TimerInvInit == Init => TimerInv
<1> SUFFICES ASSUME Init PROVE TimerInv
  OBVIOUS
<1> USE TimerAssumption
<1>1. \A t \in Tasks : stage[t] = "out" /\ life[t] = "new"
  BY DEF Init
<1>2. InHand = {}
  BY <1>1 DEF InHand
<1>3. TypeOK
  <2>1. Cardinality(InHand) <= PoolSize
    BY <1>2, FS_EmptySet
  <2>2. m_tasks \in [head : Tasks \cup {None}, next : [Tasks -> Tasks \cup {None}],
                     prev : [Tasks -> Tasks \cup {None}]]
    BY DEF Init
  <2>3. now \in 0..Horizon /\ cancels \in 0..MaxCancels /\ deadline \in [Tasks -> 0..Horizon]
    BY DEF Init
  <2>4. at \in Tasks \cup {None} /\ links \in (Tasks \cup {None}) \X (Tasks \cup {None})
        /\ m_insertTasks \in Seq(Tasks)
    BY DEF Init
  <2>5. QED
    BY <2>1, <2>2, <2>3, <2>4 DEF Init, TypeOK, Callers
<1>4. IsChain(m_tasks, <<>>)
  BY DEF Init, IsChain
<1>5. Chain(m_tasks) = <<>>
  BY <1>4, ChainIs
<1>6. LinkInv
  BY <1>4, <1>5 DEF LinkInv
<1>7. \A t \in Tasks : ~InList(t) /\ ~Contains(m_insertTasks, t)
  BY <1>5 DEF Init, InList, Contains
<1>8. PassInv
  BY DEF Init, PassInv
<1>9. PlaceInv
  BY <1>1, <1>7 DEF Init, PlaceInv
<1>10. \A c \in Callers : cpc[c] = "idle"
  BY DEF Init
<1>11. PoolInv /\ CallInv /\ DestroyInv
  BY <1>1, <1>10 DEF PoolInv, CallInv, DestroyInv, Gone, Callers
<1>12. ~crashed
  BY DEF Init
<1>13. QED
  BY <1>3, <1>6, <1>8, <1>9, <1>11, <1>12 DEF TimerInv, Exact

\* What the pool has in hand, after one task more.
LEMMA InHandMore ==
  ASSUME TypeOK, NEW t \in Tasks, Cardinality(InHand) < PoolSize, InHand' = InHand \cup {t}
  PROVE  Cardinality(InHand') <= PoolSize
<1>1. IsFiniteSet(InHand)
  BY FS_Subset, TimerAssumption DEF InHand
<1>2. Cardinality(InHand) \in Nat /\ PoolSize \in Nat
  BY <1>1, FS_CardinalityType, TimerAssumption
<1>3. Cardinality(InHand') <= Cardinality(InHand) + 1
  <2>1. Cardinality(InHand \cup {t}) = IF t \in InHand THEN Cardinality(InHand)
                                                     ELSE Cardinality(InHand) + 1
    BY <1>1, FS_AddElement
  <2>2. QED
    BY <1>2, <2>1
<1>4. Cardinality(InHand') \in Nat
  BY <1>1, FS_AddElement, FS_CardinalityType
<1>5. QED
  BY <1>2, <1>3, <1>4

LEMMA InHandFewer ==
  ASSUME TypeOK, InHand' \subseteq InHand
  PROVE  Cardinality(InHand') <= PoolSize
<1>1. IsFiniteSet(InHand)
  BY FS_Subset, TimerAssumption DEF InHand
<1>2. Cardinality(InHand') <= Cardinality(InHand) /\ IsFiniteSet(InHand')
  BY <1>1, FS_Subset
<1>3. Cardinality(InHand) \in Nat /\ Cardinality(InHand') \in Nat /\ PoolSize \in Nat
  BY <1>1, <1>2, FS_CardinalityType, TimerAssumption
<1>4. QED
  BY <1>2, <1>3 DEF TypeOK

LEMMA TypeStep == TimerInv /\ Next => TypeOK'
<1> SUFFICES ASSUME TimerInv, Next PROVE TypeOK'
  OBVIOUS
<1> USE TimerAssumption
<1>1. TypeOK
  BY DEF TimerInv
<1> DEFINE Rest == /\ repeats \in [Tasks -> BOOLEAN] /\ timeout \in [Tasks -> Timeouts \cup {0}]
                   /\ m_reapetTasks \subseteq Tasks
                   /\ m_insertTasks \in Seq(Tasks) /\ m_stop \in BOOLEAN
                   /\ life \in [Tasks -> {"new", "made", "live", "freed"}]
                   /\ cancled \in [Tasks -> BOOLEAN]
                   /\ deadline \in [Tasks -> 0..Horizon]
                   /\ cpc \in [Callers -> {"idle", "insert", "lock", "scan", "walk", "join",
                                           "waitAll", "gone"}]
                   /\ arg \in [Callers -> Tasks \cup {None}]
                   /\ walk \in [Callers -> Tasks \cup {None}]
                   /\ crashed \in BOOLEAN /\ cancels \in 0..MaxCancels
           Thread == /\ now \in 0..Horizon
                     /\ tpc \in {"top", "collect", "sleep", "waiting", "woken", "pass", "unlink",
                                 "ended"}
                     /\ at \in Tasks \cup {None}
                     /\ links \in (Tasks \cup {None}) \X (Tasks \cup {None})
           Pool == /\ stage \in [Tasks -> {"out", "accepted", "running"}]
                   /\ Cardinality(InHand) <= PoolSize
           Links == m_tasks \in Lists
<1>2. TypeOK <=> Rest /\ Thread /\ Pool /\ Links
  BY DEF TypeOK, Lists
<1>3. TypeOK' <=> Rest' /\ Thread' /\ Pool' /\ Links'
  BY DEF TypeOK, Lists
<1>4. Rest /\ Thread /\ Pool /\ Links
  BY <1>1, <1>2
<1>5. /\ m_tasks.head \in Tasks \cup {None}
      /\ \A t \in Tasks : m_tasks.next[t] \in Tasks \cup {None} /\ m_tasks.prev[t] \in Tasks \cup {None}
  BY <1>4 DEF Lists
<1>6. Owner \in Callers /\ Nesting \subseteq Callers /\ None \notin Tasks
  BY DEF Callers
<1>7. UNCHANGED <<m_tasks>> => Links'
  BY <1>4
<1>8. UNCHANGED <<stage>> => Pool'
  BY <1>4 DEF InHand
<1>9. UNCHANGED <<m_insertTasks, m_reapetTasks, m_stop, life, fields, deadline, cancled, callers,
                  crashed, cancels>> => Rest'
  BY <1>4 DEF fields, callers
<1>10. (now' = now /\ tpc' \in {tpc, "woken"} /\ UNCHANGED thread) => Thread'
  BY <1>4 DEF thread
<1>11. ASSUME Tick PROVE TypeOK'
  <2>1. Thread'
    BY <1>4, <1>11 DEF Tick, thread
  <2>2. QED
    BY <1>3, <1>7, <1>8, <1>9, <1>11, <2>1 DEF Tick
<1>12. ASSUME TestStop \/ Sleep \/ StopWaiting \/ EndPass PROVE TypeOK'
  <2>1. Thread'
    BY <1>4, <1>12 DEF TestStop, Sleep, StopWaiting, EndPass, thread
  <2>2. QED
    BY <1>3, <1>7, <1>8, <1>9, <1>12, <2>1 DEF TestStop, Sleep, StopWaiting, EndPass
<1>13. ASSUME processNewTasks PROVE TypeOK'
  <2>1. Thread'
    BY <1>4, <1>13 DEF processNewTasks, thread
  <2>2. Pool'
    BY <1>8, <1>13 DEF processNewTasks
  <2>3. Rest'
    BY <1>4, <1>13 DEF processNewTasks, fields, callers
  <2>4. LinkInv /\ PlaceInv /\ DestroyInv /\ tpc = "collect"
    BY <1>13 DEF TimerInv, Exact, processNewTasks, Alive
  <2>5. IsChain(m_tasks, Chain(m_tasks)) /\ Sorted(Chain(m_tasks)) /\ Chain(m_tasks) \in Seq(Tasks)
    BY <2>4 DEF LinkInv, Sorted, Leaving, IsChain
  <2>6. \A i, j \in 1..Len(m_insertTasks) : m_insertTasks[i] = m_insertTasks[j] => i = j
    BY <2>4 DEF PlaceInv, DestroyInv, Gone
  <2>7. \A i \in 1..Len(m_insertTasks) : ~Contains(Chain(m_tasks), m_insertTasks[i])
    <3>1. SUFFICES ASSUME NEW i \in 1..Len(m_insertTasks), Contains(Chain(m_tasks), m_insertTasks[i])
                   PROVE  FALSE
      OBVIOUS
    <3>2. m_insertTasks[i] \in Tasks
      BY <1>4
    <3>3. Contains(m_insertTasks, m_insertTasks[i]) /\ ~Leaving(m_insertTasks[i]) /\ ~Gone
      BY <2>4 DEF DestroyInv, Gone, Leaving, Contains
    <3>4. QED
      BY <2>4, <3>1, <3>2, <3>3 DEF PlaceInv, InList
  <2>8. deadline \in [Tasks -> Int] /\ m_insertTasks \in Seq(Tasks) /\ m_tasks \in Lists
    BY <1>4
  <2>9. Processed(m_tasks, m_insertTasks) \in Lists
    BY <2>5, <2>6, <2>7, <2>8, AllProcessed
  <2>10. Links'
    BY <1>13, <2>9 DEF processNewTasks
  <2>11. QED
    BY <1>3, <2>1, <2>2, <2>3, <2>10
<1>14. ASSUME Wake PROVE TypeOK'
  <2>1. Thread'
    BY <1>4, <1>5, <1>14 DEF Wake
  <2>2. QED
    BY <1>3, <1>7, <1>8, <1>9, <1>14, <2>1 DEF Wake
<1>15. ASSUME NotDue PROVE TypeOK'
  <2>1. Thread'
    BY <1>4, <1>5, <1>15 DEF NotDue
  <2>2. QED
    BY <1>3, <1>7, <1>8, <1>9, <1>15, <2>1 DEF NotDue
<1>16. ASSUME HandOver PROVE TypeOK'
  <2>1. at \in Tasks
    BY <1>4, <1>16 DEF HandOver
  <2>2. Thread'
    BY <1>4, <1>5, <1>16, <2>1 DEF HandOver
  <2>3. stage' \in [Tasks -> {"out", "accepted", "running"}]
    BY <1>4, <1>16 DEF HandOver
  <2>4. InHand' = InHand \cup {at}
    BY <1>4, <1>16, <2>1 DEF HandOver, InHand
  <2>5. Pool'
    BY <1>1, <1>16, <2>1, <2>3, <2>4, InHandMore DEF HandOver
  <2>6. QED
    BY <1>3, <1>7, <1>9, <1>16, <2>2, <2>5 DEF HandOver
<1>17. ASSUME Unlink PROVE TypeOK'
  <2>1. links[1] \in Tasks \cup {None} /\ links[2] \in Tasks \cup {None}
    BY <1>4
  <2>2. Thread'
    BY <1>4, <1>17, <2>1 DEF Unlink
  <2>3. Links'
    <3>1. m_tasks' = Unlinked(m_tasks, links[1], links[2])
      BY <1>17 DEF Unlink
    <3>2. QED
      BY <1>5, <2>1, <3>1, <1>4 DEF Unlinked, Lists
  <2>4. Rest'
    BY <1>4, <1>17 DEF Unlink, fields, callers
  <2>5. QED
    BY <1>3, <1>8, <1>17, <2>2, <2>3, <2>4 DEF Unlink
<1>18. ASSUME NEW t \in Tasks, BeginExec(t) PROVE TypeOK'
  <2>1. stage' \in [Tasks -> {"out", "accepted", "running"}]
        /\ life' \in [Tasks -> {"new", "made", "live", "freed"}]
    BY <1>4, <1>18 DEF BeginExec
  <2>2. InHand' \subseteq InHand
    BY <1>4, <1>18 DEF BeginExec, InHand
  <2>3. Pool'
    BY <1>1, <2>1, <2>2, InHandFewer
  <2>4. Rest'
    BY <1>4, <1>18, <2>1 DEF BeginExec, fields, callers
  <2>5. QED
    BY <1>3, <1>7, <1>10, <1>18, <2>3, <2>4 DEF BeginExec
<1>19. ASSUME NEW t \in Tasks, insertTask(t)
       PROVE  /\ life' \in [Tasks -> {"new", "made", "live", "freed"}]
              /\ deadline' \in [Tasks -> 0..Horizon] /\ m_insertTasks' \in Seq(Tasks)
              /\ tpc' \in {tpc, "woken"}
  <2> DEFINE d == IF now + timeout[t] < Horizon THEN now + timeout[t] ELSE Horizon
  <2>1. timeout \in [Tasks -> Timeouts \cup {0}] /\ now \in 0..Horizon
        /\ deadline \in [Tasks -> 0..Horizon] /\ life \in [Tasks -> {"new", "made", "live", "freed"}]
        /\ m_insertTasks \in Seq(Tasks)
    BY <1>4
  <2> HIDE DEF Rest, Thread, Pool, Links
  <2>2. timeout[t] \in Nat /\ now \in Nat /\ Horizon \in Nat
    <3>1. Timeouts \subseteq Nat /\ Horizon \in Nat
      OBVIOUS
    <3>2. timeout[t] \in Timeouts \cup {0}
      BY ONLY <2>1, t \in Tasks
    <3>3. now \in 0..Horizon
      BY ONLY <2>1
    <3>4. 0 \in Nat
      OBVIOUS
    <3>5. timeout[t] \in Nat
      BY ONLY <3>1, <3>2, <3>4
    <3>6. now \in Nat
      BY ONLY <3>1, <3>3
    <3>7. QED
      BY <3>1, <3>5, <3>6
  <2>3. d \in 0..Horizon
    BY <2>2
  <2>4. CASE m_stop
    BY <1>19, <2>1, <2>4 DEF insertTask
  <2>5. CASE ~m_stop
    <3>1. deadline' = [deadline EXCEPT ![t] = d] /\ m_insertTasks' = Append(m_insertTasks, t)
          /\ life' = [life EXCEPT ![t] = "live"] /\ notify_one
      BY <1>19, <2>5 DEF insertTask
    <3> HIDE DEF d
    <3>2. QED
      BY <2>1, <2>3, <3>1 DEF notify_one
  <2>6. QED
    BY <2>4, <2>5
<1>20. ASSUME NEW t \in Tasks, EndExec(t) PROVE TypeOK'
  <2>1. stage' \in [Tasks -> {"out", "accepted", "running"}] /\ InHand' \subseteq InHand
    BY <1>4, <1>20 DEF EndExec, InHand
  <2>2. Pool'
    BY <1>1, <2>1, InHandFewer
  <2>3. /\ life' \in [Tasks -> {"new", "made", "live", "freed"}]
        /\ deadline' \in [Tasks -> 0..Horizon] /\ m_insertTasks' \in Seq(Tasks)
        /\ tpc' \in {tpc, "woken"}
    <3>1. CASE repeats[t]
      BY <1>19, <1>20, <3>1 DEF EndExec
    <3>2. CASE ~repeats[t]
      BY <1>4, <1>20, <3>2 DEF EndExec
    <3>3. QED
      BY <3>1, <3>2
  <2>4. Rest'
    BY <1>4, <1>20, <2>3 DEF EndExec, fields, callers
  <2>5. QED
    BY <1>3, <1>7, <1>10, <1>20, <2>2, <2>3, <2>4 DEF EndExec
<1>21. ASSUME NEW c \in Callers, NEW t \in Tasks, NEW ms \in Timeouts,
              setTimeout(c, t, ms) \/ setInterval(c, t, ms)
       PROVE  TypeOK'
  <2>1. \E b \in BOOLEAN : Make(c, t, ms, b)
    BY <1>21 DEF setTimeout, setInterval
  <2>2. m_reapetTasks' \subseteq Tasks
    <3>1. m_reapetTasks' \in {m_reapetTasks, m_reapetTasks \cup {t}}
      BY <1>21 DEF setTimeout, setInterval
    <3>2. m_reapetTasks \subseteq Tasks
      BY <1>4
    <3> HIDE DEF Rest, Thread, Pool, Links
    <3>3. QED
      BY <3>1, <3>2
  <2>3. Rest'
    BY <1>4, <2>1, <2>2 DEF Make
  <2>4. QED
    BY <1>3, <1>7, <1>8, <1>10, <2>1, <2>3 DEF Make
<1>22. ASSUME NEW c \in Callers, NEW t \in Tasks, cancelTimeout(c, t) PROVE TypeOK'
  <2>1. cancels' \in 0..MaxCancels
    BY <1>4, <1>22 DEF cancelTimeout
  <2>2. Rest'
    BY <1>4, <1>22, <2>1 DEF cancelTimeout, fields
  <2>3. QED
    BY <1>3, <1>7, <1>8, <1>10, <1>22, <2>2 DEF cancelTimeout
<1>23. ASSUME NEW c \in Callers, Insert(c) PROVE TypeOK'
  <2>1. arg[c] \in Tasks
    BY <1>23 DEF TimerInv, Exact, CallInv, Insert, Alive
  <2>2. /\ life' \in [Tasks -> {"new", "made", "live", "freed"}]
        /\ deadline' \in [Tasks -> 0..Horizon] /\ m_insertTasks' \in Seq(Tasks)
        /\ tpc' \in {tpc, "woken"}
    BY <1>19, <1>23, <2>1 DEF Insert
  <2>3. Rest'
    BY <1>4, <1>23, <2>2 DEF Insert, Return, fields
  <2>4. QED
    BY <1>3, <1>7, <1>8, <1>10, <1>23, <2>2, <2>3 DEF Insert
<1>24. ASSUME NEW c \in Callers, Cancel(c)
       PROVE  /\ cancled' \in [Tasks -> BOOLEAN] /\ tpc' \in {tpc, "woken"}
              /\ cpc' = [cpc EXCEPT ![c] = "idle"] /\ arg' = [arg EXCEPT ![c] = None]
  BY <1>4, <1>24 DEF Cancel, notify_one, Return
<1>25. ASSUME NEW c \in Callers, LockUnlock(c) PROVE TypeOK'
  <2>1. Rest'
    BY <1>4, <1>25 DEF LockUnlock, fields
  <2>2. QED
    BY <1>3, <1>7, <1>8, <1>10, <1>25, <2>1 DEF LockUnlock
<1>26. ASSUME NEW c \in Callers, ScanIntervals(c) PROVE TypeOK'
  <2>1. crashed' \in BOOLEAN /\ m_reapetTasks' \subseteq Tasks
    BY <1>4, <1>26 DEF ScanIntervals
  <2>2. CASE arg[c] \in m_reapetTasks
    <3>1. Cancel(c) /\ UNCHANGED walk
      BY <1>26, <2>2 DEF ScanIntervals
    <3>2. /\ cancled' \in [Tasks -> BOOLEAN] /\ walk' = walk
          /\ cpc' = [cpc EXCEPT ![c] = "idle"] /\ arg' = [arg EXCEPT ![c] = None]
      BY <1>24, <3>1
    <3>3. cpc' \in [Callers -> {"idle", "insert", "lock", "scan", "walk", "join", "waitAll", "gone"}]
          /\ arg' \in [Callers -> Tasks \cup {None}]
      BY <1>4, <3>2
    <3>4. Rest'
      BY <1>4, <1>26, <2>1, <3>2, <3>3 DEF ScanIntervals, fields
    <3>5. QED
      BY <1>3, <1>7, <1>8, <1>10, <1>24, <1>26, <3>1, <3>4 DEF ScanIntervals
  <2>3. CASE arg[c] \notin m_reapetTasks
    <3>1. Rest'
      BY <1>4, <1>5, <1>26, <2>1, <2>3 DEF ScanIntervals, fields
    <3>2. QED
      BY <1>3, <1>7, <1>8, <1>10, <1>26, <2>3, <3>1 DEF ScanIntervals
  <2>4. QED
    BY <2>2, <2>3
<1>27. ASSUME NEW c \in Callers, WalkList(c) PROVE TypeOK'
  <2>1. crashed' \in BOOLEAN
    BY <1>4, <1>27 DEF WalkList
  <2>2. CASE walk[c] = arg[c]
    <3>1. Cancel(c) /\ walk' = [walk EXCEPT ![c] = None]
      BY <1>27, <2>2 DEF WalkList
    <3>2. Rest'
      BY <1>4, <1>24, <1>27, <2>1, <3>1 DEF WalkList, fields
    <3>3. QED
      BY <1>3, <1>7, <1>8, <1>10, <1>24, <1>27, <3>1, <3>2 DEF WalkList
  <2>3. CASE walk[c] # arg[c]
    <3>1. walk[c] \in Tasks /\ m_tasks.next[walk[c]] \in Tasks \cup {None}
      BY <1>4, <1>5, <1>27 DEF WalkList
    <3>2. Rest'
      BY <1>4, <1>27, <2>1, <2>3, <3>1 DEF WalkList, fields
    <3>3. QED
      BY <1>3, <1>7, <1>8, <1>10, <1>27, <2>3, <3>2 DEF WalkList
  <2>4. QED
    BY <2>2, <2>3
<1>28. ASSUME NEW c \in Callers, ScanInserted(c) PROVE TypeOK'
  <2>1. CASE Contains(m_insertTasks, arg[c])
    <3>1. Cancel(c)
      BY <1>28, <2>1 DEF ScanInserted
    <3>2. Rest'
      BY <1>4, <1>24, <1>28, <3>1 DEF ScanInserted, fields
    <3>3. QED
      BY <1>3, <1>7, <1>8, <1>10, <1>24, <1>28, <3>1, <3>2 DEF ScanInserted
  <2>2. CASE ~Contains(m_insertTasks, arg[c])
    <3>1. Rest'
      BY <1>4, <1>28, <2>2 DEF ScanInserted, Return, fields
    <3>2. QED
      BY <1>3, <1>7, <1>8, <1>10, <1>28, <2>2, <3>1 DEF ScanInserted
  <2>3. QED
    BY <2>1, <2>2
<1>29. ASSUME BeginDestroy PROVE TypeOK'
  <2>1. Rest' /\ tpc' \in {tpc, "woken"}
    BY <1>4, <1>6, <1>29 DEF BeginDestroy, notify_one, fields
  <2>2. QED
    BY <1>3, <1>7, <1>8, <1>10, <1>29, <2>1 DEF BeginDestroy
<1>30. ASSUME Join \/ DeleteTasks PROVE TypeOK'
  <2>1. Rest'
    <3>1. cpc' \in [Callers -> {"idle", "insert", "lock", "scan", "walk", "join", "waitAll", "gone"}]
          /\ life' \in [Tasks -> {"new", "made", "live", "freed"}]
      <4>1. cpc' = [cpc EXCEPT ![Owner] = "waitAll"] \/ cpc' = [cpc EXCEPT ![Owner] = "gone"]
        BY <1>30 DEF Join, DeleteTasks
      <4>2. life' = life \/ \E gone \in SUBSET Tasks :
                              life' = [t \in Tasks |-> IF t \in gone THEN "freed" ELSE life[t]]
        <5>1. CASE Join
          BY <5>1 DEF Join
        <5>2. CASE DeleteTasks
          <6> DEFINE gone == {t \in Tasks : Contains(Chain(m_tasks) \o m_insertTasks, t)}
          <6>1. life' = [t \in Tasks |-> IF t \in gone THEN "freed" ELSE life[t]]
            BY <5>2 DEF DeleteTasks
          <6>2. gone \in SUBSET Tasks
            OBVIOUS
          <6> HIDE DEF gone
          <6>3. QED
            BY <6>1, <6>2
        <5>3. QED
          BY <1>30, <5>1, <5>2
      <4>3. QED
        BY <1>4, <1>6, <4>1, <4>2
    <3>2. QED
      BY <1>4, <1>30, <3>1 DEF Join, DeleteTasks, fields
  <2>2. QED
    BY <1>3, <1>7, <1>8, <1>10, <1>30, <2>1 DEF Join, DeleteTasks
<1>31. QED
  BY <1>11, <1>12, <1>13, <1>14, <1>15, <1>16, <1>17, <1>18, <1>20, <1>21, <1>22, <1>23, <1>25,
     <1>26, <1>27, <1>28, <1>29, <1>30
     DEF Next, TimerThread, CallSteps, TimedOut, SpuriousWake

-----------------------------------------------------------------------------
\* The timer thread's pointers stay in the list.
LEMMA FirstInList ==
  ASSUME LinkInv
  PROVE  m_tasks.head = None \/ InList(m_tasks.head)
<1> DEFINE C == Chain(m_tasks)
<1>1. C \in Seq(Tasks) /\ m_tasks.head = IF Len(C) = 0 THEN None ELSE C[1]
  BY DEF LinkInv, IsChain
<1> HIDE DEF C
<1>2. Len(C) # 0 => 1 \in 1..Len(C)
  BY <1>1
<1>3. QED
  BY <1>1, <1>2 DEF InList, Contains, C

LEMMA NextInList ==
  ASSUME LinkInv, NEW t, InList(t)
  PROVE  m_tasks.next[t] = None \/ InList(m_tasks.next[t])
<1> DEFINE C == Chain(m_tasks)
<1>1. C \in Seq(Tasks)
      /\ \A i \in 1..Len(C) : m_tasks.next[C[i]] = IF i = Len(C) THEN None ELSE C[i + 1]
  BY DEF LinkInv, IsChain
<1>2. PICK i \in 1..Len(C) : C[i] = t
  BY DEF InList, Contains
<1> HIDE DEF C
<1>3. i # Len(C) => i + 1 \in 1..Len(C)
  BY <1>1
<1>4. QED
  BY <1>1, <1>2, <1>3 DEF InList, Contains, C

\* The list without the task that leaves it.
LEMMA LeftList ==
  ASSUME LinkInv, InList(at), links = <<m_tasks.prev[at], m_tasks.next[at]>>,
         links[1] = None \/ links[2] # None, tpc = "unlink", tpc' = "pass",
         m_tasks' = Unlinked(m_tasks, links[1], links[2]), deadline' = deadline,
         at' = links[2]
  PROVE  /\ LinkInv' /\ (at' = None \/ InList(at)')
         /\ \A t \in Tasks : InList(t)' <=> InList(t) /\ t # at
<1> DEFINE C == Chain(m_tasks)
<1>1. IsChain(m_tasks, C) /\ C \in Seq(Tasks)
  BY DEF LinkInv, IsChain
<1>2. PICK k \in 1..Len(C) : C[k] = at
  BY DEF InList, Contains
<1>3. \A i, j \in 1..Len(C) : i < j => \/ Leaving(C[i]) \/ Leaving(C[j])
                                       \/ deadline[C[i]] <= deadline[C[j]]
  BY DEF LinkInv
<1>4. InList(at)' <=> Contains(Chain(m_tasks'), links[2])
  BY DEF InList
<1>5. \A t : (InList(t) <=> Contains(C, t)) /\ (InList(t)' <=> Contains(Chain(m_tasks'), t))
  BY DEF InList
<1>6. LinkInv' <=>
        /\ IsChain(m_tasks', Chain(m_tasks'))
        /\ \A i, j \in 1..Len(Chain(m_tasks')) :
             i < j => \/ tpc' = "unlink" /\ at' = Chain(m_tasks')[i]
                      \/ tpc' = "unlink" /\ at' = Chain(m_tasks')[j]
                      \/ deadline'[Chain(m_tasks')[i]] <= deadline'[Chain(m_tasks')[j]]
  BY DEF LinkInv, Leaving
<1> HIDE DEF C
<1> DEFINE u == Without(C, k)
<1>7. links[1] = m_tasks.prev[C[k]] /\ links[2] = m_tasks.next[C[k]]
  BY <1>2
<1>8. IsChain(m_tasks', u) /\ links[2] = IF k = Len(C) THEN None ELSE u[k]
  BY <1>1, <1>7, RemovedAt
<1>9. Chain(m_tasks') = u
  BY <1>8, ChainIs
<1>10. u \in Seq(Tasks) /\ Len(u) = Len(C) - 1 /\ Len(C) \in Nat
  BY <1>1, <1>8 DEF Without, IsChain
<1>11. \A i \in 1..Len(u) : u[i] = IF i < k THEN C[i] ELSE C[i + 1]
  BY <1>10 DEF Without
<1> HIDE DEF u
<1>12. at' = None \/ InList(at)'
  <2>1. k # Len(C) => k \in 1..Len(u)
    BY <1>10
  <2>2. QED
    BY <1>4, <1>8, <1>9, <2>1 DEF Contains
<1>13. \A i, j \in 1..Len(C) : C[i] = C[j] => i = j
  BY <1>1 DEF IsChain
<1>14. \A i \in 1..Len(C) : i # k => C[i] # at /\ ~Leaving(C[i])
  BY <1>2, <1>13 DEF Leaving
<1>15. ASSUME NEW i \in 1..Len(u), NEW j \in 1..Len(u), i < j
       PROVE  deadline'[u[i]] <= deadline'[u[j]]
  <2>1. PICK a \in 1..Len(C) : u[i] = C[a] /\ a # k /\ a = IF i < k THEN i ELSE i + 1
    <3>1. CASE i < k
      <4>1. i \in 1..Len(C) /\ u[i] = C[i] /\ i # k
        BY <1>10, <1>11, <3>1
      <4>2. QED
        BY <3>1, <4>1
    <3>2. CASE ~(i < k)
      <4>1. i + 1 \in 1..Len(C) /\ u[i] = C[i + 1] /\ i + 1 # k
        BY <1>10, <1>11, <3>2
      <4>2. QED
        BY <3>2, <4>1
    <3>3. QED
      BY <3>1, <3>2
  <2>2. PICK b \in 1..Len(C) : u[j] = C[b] /\ b # k /\ b = IF j < k THEN j ELSE j + 1
    <3>1. CASE j < k
      <4>1. j \in 1..Len(C) /\ u[j] = C[j] /\ j # k
        BY <1>10, <1>11, <3>1
      <4>2. QED
        BY <3>1, <4>1
    <3>2. CASE ~(j < k)
      <4>1. j + 1 \in 1..Len(C) /\ u[j] = C[j + 1] /\ j + 1 # k
        BY <1>10, <1>11, <3>2
      <4>2. QED
        BY <3>2, <4>1
    <3>3. QED
      BY <3>1, <3>2
  <2>3. a < b
    BY <1>10, <1>15, <2>1, <2>2
  <2>4. QED
    BY <1>3, <1>14, <2>1, <2>2, <2>3
<1>16. ASSUME NEW t \in Tasks
       PROVE  Contains(u, t) <=> Contains(C, t) /\ t # at
  <2>1. ASSUME Contains(u, t) PROVE Contains(C, t) /\ t # at
    <3>1. PICK i \in 1..Len(u) : u[i] = t
      BY <2>1 DEF Contains
    <3>2. CASE i < k
      <4>1. i \in 1..Len(C) /\ C[i] = t /\ i # k
        BY <1>10, <1>11, <3>1, <3>2
      <4>2. QED
        BY <1>14, <4>1 DEF Contains
    <3>3. CASE ~(i < k)
      <4>1. i + 1 \in 1..Len(C) /\ C[i + 1] = t /\ i + 1 # k
        BY <1>10, <1>11, <3>1, <3>3
      <4>2. QED
        BY <1>14, <4>1 DEF Contains
    <3>4. QED
      BY <3>2, <3>3
  <2>2. ASSUME Contains(C, t), t # at PROVE Contains(u, t)
    <3>1. PICK i \in 1..Len(C) : C[i] = t
      BY <2>2 DEF Contains
    <3>2. i # k
      BY <1>2, <2>2, <3>1
    <3>3. CASE i < k
      <4>1. i \in 1..Len(u) /\ u[i] = t
        BY <1>10, <1>11, <3>1, <3>3
      <4>2. QED
        BY <4>1 DEF Contains
    <3>4. CASE ~(i < k)
      <4>1. i - 1 \in 1..Len(u) /\ ~(i - 1 < k) /\ (i - 1) + 1 = i
        BY <1>10, <3>2, <3>4
      <4>2. u[i - 1] = t
        BY <1>11, <3>1, <4>1
      <4>3. QED
        BY <4>1, <4>2 DEF Contains
    <3>5. QED
      BY <3>3, <3>4
  <2>3. QED
    BY <2>1, <2>2
<1>17. LinkInv'
  BY <1>6, <1>8, <1>9, <1>15
<1>18. QED
  BY <1>5, <1>9, <1>12, <1>16, <1>17

\* The list after processNewTasks().
LEMMA JoinedList ==
  ASSUME TypeOK, LinkInv, PlaceInv, ~Gone, tpc = "collect", tpc' = "sleep", deadline' = deadline,
         m_tasks' = Processed(m_tasks, m_insertTasks)
  PROVE  /\ LinkInv'
         /\ \A t \in Tasks : InList(t)' <=> InList(t) \/ Contains(m_insertTasks, t)
<1> DEFINE C == Chain(m_tasks)
<1>1. IsChain(m_tasks, C) /\ Sorted(C) /\ C \in Seq(Tasks)
  BY DEF LinkInv, Sorted, Leaving, IsChain
<1>2. \A i, j \in 1..Len(m_insertTasks) : m_insertTasks[i] = m_insertTasks[j] => i = j
  BY DEF PlaceInv
<1>3. m_tasks \in Lists /\ deadline \in [Tasks -> Int] /\ m_insertTasks \in Seq(Tasks)
  BY DEF TypeOK, Lists
<1>4. \A i \in 1..Len(m_insertTasks) : ~Contains(C, m_insertTasks[i])
  <2>1. SUFFICES ASSUME NEW i \in 1..Len(m_insertTasks), Contains(C, m_insertTasks[i]) PROVE FALSE
    OBVIOUS
  <2>2. m_insertTasks[i] \in Tasks
    BY <1>3
  <2>3. Contains(m_insertTasks, m_insertTasks[i]) /\ ~Leaving(m_insertTasks[i])
    BY DEF Leaving, Contains
  <2>4. QED
    BY <2>1, <2>2, <2>3 DEF PlaceInv, InList
<1>5. \A t : (InList(t) <=> Contains(C, t)) /\ (InList(t)' <=> Contains(Chain(m_tasks'), t))
  BY DEF InList
<1>6. LinkInv' <=>
        /\ IsChain(m_tasks', Chain(m_tasks'))
        /\ \A i, j \in 1..Len(Chain(m_tasks')) :
             i < j => \/ tpc' = "unlink" /\ at' = Chain(m_tasks')[i]
                      \/ tpc' = "unlink" /\ at' = Chain(m_tasks')[j]
                      \/ deadline'[Chain(m_tasks')[i]] <= deadline'[Chain(m_tasks')[j]]
  BY DEF LinkInv, Leaving
<1> HIDE DEF C
<1>7. PICK u : /\ IsChain(m_tasks', u) /\ Sorted(u)
               /\ \A t \in Tasks : Contains(u, t) <=> Contains(C, t) \/ Contains(m_insertTasks, t)
  BY <1>1, <1>2, <1>3, <1>4, AllProcessed
<1>8. Chain(m_tasks') = u
  BY <1>7, ChainIs
<1>9. \A i, j \in 1..Len(u) : i < j => deadline'[u[i]] <= deadline'[u[j]]
  BY <1>7 DEF Sorted
<1>10. LinkInv'
  BY <1>6, <1>7, <1>8, <1>9
<1>11. QED
  BY <1>5, <1>7, <1>8, <1>10

-----------------------------------------------------------------------------
LEMMA ConcatContains ==
  ASSUME NEW q \in Seq(Tasks), NEW r \in Seq(Tasks), NEW t, Contains(q, t) \/ Contains(r, t)
  PROVE  Contains(q \o r, t)
<1>1. Len(q \o r) = Len(q) + Len(r) /\ Len(q) \in Nat /\ Len(r) \in Nat
  OBVIOUS
<1>2. CASE Contains(q, t)
  <2>1. PICK i \in 1..Len(q) : q[i] = t
    BY <1>2 DEF Contains
  <2>2. i \in 1..Len(q \o r) /\ (q \o r)[i] = t
    BY <1>1, <2>1
  <2>3. QED
    BY <2>2 DEF Contains
<1>3. CASE Contains(r, t)
  <2>1. PICK i \in 1..Len(r) : r[i] = t
    BY <1>3 DEF Contains
  <2>2. Len(q) + i \in 1..Len(q \o r) /\ (q \o r)[Len(q) + i] = t
    BY <1>1, <2>1
  <2>3. QED
    BY <2>2 DEF Contains
<1>4. QED
  BY <1>2, <1>3

\* A step of the program that does not crash keeps every part.
LEMMA ExactStep ==
  ASSUME TypeOK, Exact, Next, ~crashed'
  PROVE  Exact'
<1> USE TimerAssumption
<1>1. /\ life \in [Tasks -> {"new", "made", "live", "freed"}]
      /\ stage \in [Tasks -> {"out", "accepted", "running"}]
      /\ cpc \in [Callers -> {"idle", "insert", "lock", "scan", "walk", "join", "waitAll", "gone"}]
      /\ arg \in [Callers -> Tasks \cup {None}]
      /\ deadline \in [Tasks -> Int] /\ cancled \in [Tasks -> BOOLEAN]
      /\ m_insertTasks \in Seq(Tasks) /\ now \in Int /\ at \in Tasks \cup {None}
      /\ m_stop \in BOOLEAN
  BY DEF TypeOK
<1>2. Callers = Nesting \cup {Owner} /\ Owner \in Callers /\ Owner \notin Nesting
      /\ Nesting \subseteq Tasks /\ None \notin Tasks
  BY DEF Callers
<1>3. LinkInv /\ PassInv /\ PlaceInv /\ PoolInv /\ CallInv /\ DestroyInv
  BY DEF Exact
<1>4. LinkInv' /\ PassInv' /\ PlaceInv' /\ PoolInv' /\ CallInv' /\ DestroyInv' => Exact'
  BY DEF Exact
\* What keeps a part.
<1>5. UNCHANGED <<cpc, arg, life, stage>> => CallInv'
  BY <1>3 DEF CallInv
<1>6. UNCHANGED <<life, stage, deadline, now>> /\ (\A t \in Tasks : cancled[t] => cancled'[t])
        => PoolInv'
  BY <1>3 DEF PoolInv
<1>7. UNCHANGED <<thread, m_tasks>> /\ (m_stop => m_stop')
      /\ (tpc' = tpc \/ tpc' \notin {"pass", "unlink", "ended"}) => PassInv'
  BY <1>3 DEF PassInv, InList, thread
<1>8. tpc # "unlink" /\ tpc' # "unlink" => \A t \in Tasks : Leaving(t)' <=> Leaving(t)
  BY DEF Leaving
<1>9. tpc' = tpc /\ at' = at => \A t \in Tasks : Leaving(t)' <=> Leaving(t)
  BY DEF Leaving
<1>10. UNCHANGED <<life, stage>> /\ (m_stop => m_stop') /\ cpc'[Owner] = cpc[Owner]
       /\ (tpc = "ended" => tpc' = "ended") => DestroyInv'
  BY <1>3 DEF DestroyInv, Gone
<1>11. UNCHANGED <<m_tasks, deadline>> /\ (\A t \in Tasks : Leaving(t)' <=> Leaving(t)) => LinkInv'
  BY <1>3, LinkKept
<1>12. UNCHANGED <<m_tasks, life, stage, m_insertTasks>> /\ cpc'[Owner] = cpc[Owner]
       /\ (\A t \in Tasks : Leaving(t)' <=> Leaving(t)) => PlaceInv'
  BY <1>3, PlaceKept DEF Gone
<1>13. notify_one => \/ tpc' = tpc
                     \/ tpc = "waiting" /\ tpc' = "woken"
  BY DEF notify_one
<1>14. ASSUME \/ tpc' = tpc
              \/ tpc = "waiting" /\ tpc' = "woken",
              at' = at
       PROVE  /\ \A t \in Tasks : Leaving(t)' <=> Leaving(t)
              /\ tpc' = tpc \/ tpc' \notin {"pass", "unlink", "ended"}
              /\ tpc = "ended" => tpc' = "ended"
  BY <1>8, <1>9, <1>14
<1>15. ASSUME Tick PROVE Exact'
  <2>1. PoolInv'
    BY <1>1, <1>3, <1>15 DEF Tick, PoolInv
  <2>2. QED
    BY <1>4, <1>5, <1>7, <1>9, <1>10, <1>11, <1>12, <1>15, <2>1 DEF Tick, callers, thread
<1>16. ASSUME TestStop \/ Sleep \/ StopWaiting \/ EndPass PROVE Exact'
  <2>1. tpc \notin {"unlink", "ended"} /\ tpc' \notin {"unlink", "pass"}
        /\ (tpc' = "ended" => m_stop)
        /\ UNCHANGED <<now, at, links, m_tasks, m_insertTasks, m_stop, life, deadline, cancled,
                       stage, cpc, arg>>
    BY <1>16 DEF TestStop, Sleep, StopWaiting, EndPass, thread, callers
  <2>2. PassInv'
    BY <1>3, <2>1 DEF PassInv
  <2>3. QED
    BY <1>4, <1>5, <1>6, <1>8, <1>10, <1>11, <1>12, <2>1, <2>2
<1>17. ASSUME processNewTasks PROVE Exact'
  <2>1. /\ tpc = "collect" /\ tpc' = "sleep" /\ m_insertTasks' = <<>>
        /\ m_tasks' = Processed(m_tasks, m_insertTasks)
        /\ UNCHANGED <<now, at, links, m_stop, life, deadline, cancled, stage, cpc, arg>>
    BY <1>17 DEF processNewTasks, thread, callers
  <2>2. ~Gone
    BY <1>3, <2>1 DEF DestroyInv, Gone
  <2>3. LinkInv' /\ \A t \in Tasks : InList(t)' <=> InList(t) \/ Contains(m_insertTasks, t)
    BY <1>3, <2>1, <2>2, JoinedList
  <2>4. PassInv'
    BY <2>1 DEF PassInv
  <2>5. PlaceInv'
    <3>1. \A t : ~Contains(m_insertTasks', t)
      BY <2>1 DEF Contains
    <3>2. \A t \in Tasks : ~Leaving(t) /\ ~(Leaving(t)')
      BY <2>1 DEF Leaving
    <3>3. Len(m_insertTasks') = 0
      BY <2>1
    <3>4. UNCHANGED <<life, stage>>
      BY <2>1
    <3>5. \A i, j \in 1..Len(m_insertTasks') : m_insertTasks'[i] = m_insertTasks'[j] => i = j
      BY <3>3
    <3>6. QED
      BY <1>3, <2>2, <2>3, <3>1, <3>2, <3>4, <3>5 DEF PlaceInv
  <2>6. QED
    BY <1>4, <1>5, <1>6, <1>10, <2>1, <2>3, <2>4, <2>5
<1>18. ASSUME Wake PROVE Exact'
  <2>1. /\ tpc = "woken" /\ tpc' \notin {"unlink"} /\ at' = m_tasks.head
        /\ (tpc' = "ended" => m_stop)
        /\ UNCHANGED <<now, links, m_tasks, m_insertTasks, m_stop, life, deadline, cancled,
                       stage, cpc, arg>>
    BY <1>18 DEF Wake, callers
  <2>2. PassInv'
    BY <1>3, <2>1, FirstInList DEF PassInv, InList
  <2>3. QED
    BY <1>4, <1>5, <1>6, <1>8, <1>10, <1>11, <1>12, <2>1, <2>2
<1>19. ASSUME NotDue PROVE Exact'
  <2>1. /\ tpc = "pass" /\ at # None /\ tpc' = tpc /\ at' = m_tasks.next[at]
        /\ UNCHANGED <<now, links, m_tasks, m_insertTasks, m_stop, life, deadline, cancled,
                       stage, cpc, arg>>
    BY <1>19 DEF NotDue, callers
  <2>2. InList(at)
    BY <1>3, <2>1 DEF PassInv
  <2>3. PassInv'
    BY <1>3, <2>1, <2>2, NextInList DEF PassInv, InList
  <2>4. QED
    BY <1>4, <1>5, <1>6, <1>8, <1>10, <1>11, <1>12, <2>1, <2>3
<1>20. ASSUME HandOver PROVE Exact'
  <2>1. /\ tpc = "pass" /\ at \in Tasks /\ tpc' = "unlink" /\ at' = at
        /\ (now >= deadline[at] \/ cancled[at])
        /\ stage' = [stage EXCEPT ![at] = "accepted"]
        /\ links' = <<m_tasks.prev[at], m_tasks.next[at]>>
        /\ UNCHANGED <<now, m_tasks, m_insertTasks, m_stop, life, deadline, cancled, cpc, arg>>
    BY <1>1, <1>20 DEF HandOver, callers, Due
  <2>2. InList(at) /\ ~Gone
    BY <1>3, <2>1 DEF PassInv, DestroyInv, Gone
  <2>3. life[at] = "live" /\ stage[at] = "out" /\ ~Contains(m_insertTasks, at)
    BY <1>3, <2>1, <2>2 DEF PlaceInv, Leaving
  <2>4. /\ \A t \in Tasks : ~Leaving(t)
        /\ \A t \in Tasks : Leaving(t)' <=> t = at
        /\ \A t : InList(t)' <=> InList(t)
    BY <2>1 DEF Leaving, InList
  <2>5. \A t \in Tasks : stage'[t] = IF t = at THEN "accepted" ELSE stage[t]
    BY <1>1, <2>1
  <2>6. LinkInv'
    BY <1>3, <2>1, <2>4, LinkKept
  <2>7. PassInv'
    BY <2>1, <2>2 DEF PassInv, InList
  <2>8. PlaceInv'
    BY <1>3, <2>1, <2>2, <2>3, <2>4, <2>5 DEF PlaceInv
  <2>9. PoolInv'
    BY <1>3, <2>1, <2>3, <2>5 DEF PoolInv
  <2>10. CallInv'
    BY <1>2, <1>3, <2>1, <2>3, <2>5 DEF CallInv
  <2>11. DestroyInv'
    BY <1>3, <2>1 DEF DestroyInv, Gone
  <2>12. QED
    BY <1>4, <2>6, <2>7, <2>8, <2>9, <2>10, <2>11
<1>21. ASSUME Unlink PROVE Exact'
  <2>1. /\ tpc = "unlink" /\ tpc' = "pass" /\ at' = links[2]
        /\ m_tasks' = Unlinked(m_tasks, links[1], links[2])
        /\ (links[1] = None \/ links[2] # None)
        /\ UNCHANGED <<now, m_insertTasks, m_stop, life, deadline, cancled, stage, cpc, arg>>
    BY <1>21 DEF Unlink, callers
  <2>2. InList(at) /\ links = <<m_tasks.prev[at], m_tasks.next[at]>> /\ ~Gone
    BY <1>3, <2>1 DEF PassInv, DestroyInv, Gone
  <2>3. /\ LinkInv' /\ (at' = None \/ InList(at)')
        /\ \A t \in Tasks : InList(t)' <=> InList(t) /\ t # at
    BY <1>3, <2>1, <2>2, LeftList
  <2>4. \A t \in Tasks : ~(Leaving(t)') /\ (Leaving(t) <=> t = at)
    BY <2>1 DEF Leaving
  <2>5. PassInv'
    BY <2>1, <2>3 DEF PassInv
  <2>6. PlaceInv'
    BY <1>3, <2>1, <2>2, <2>3, <2>4 DEF PlaceInv
  <2>7. QED
    BY <1>4, <1>5, <1>6, <1>10, <2>1, <2>3, <2>5, <2>6
<1>22. ASSUME NEW t \in Tasks, BeginExec(t) PROVE Exact'
  <2>1. /\ stage[t] = "accepted"
        /\ stage' = [stage EXCEPT ![t] = IF cancled[t] THEN "out" ELSE "running"]
        /\ life' = IF cancled[t] THEN [life EXCEPT ![t] = "freed"] ELSE life
        /\ UNCHANGED <<now, tpc, at, links, m_tasks, m_insertTasks, m_stop, deadline, cancled, cpc,
                       arg>>
    BY <1>22 DEF BeginExec, callers, thread
  <2>2. life[t] = "live" /\ ~Gone
    BY <1>3, <2>1 DEF PoolInv, DestroyInv
  <2>3. ~Contains(m_insertTasks, t) /\ (InList(t) => Leaving(t))
    BY <1>3, <2>1, <2>2 DEF PlaceInv
  <2>4. /\ \A x \in Tasks : x # t => stage'[x] = stage[x] /\ life'[x] = life[x]
        /\ cancled[t] => stage'[t] = "out" /\ life'[t] = "freed"
        /\ ~cancled[t] => stage'[t] = "running" /\ life'[t] = "live"
    BY <1>1, <2>1, <2>2
  <2>5. /\ \A x \in Tasks : Leaving(x)' <=> Leaving(x)
        /\ \A x : InList(x)' <=> InList(x)
    BY <2>1 DEF Leaving, InList
  <2>6. PlaceInv'
    BY <1>3, <2>1, <2>2, <2>3, <2>4, <2>5 DEF PlaceInv, Gone
  <2>7. PoolInv'
    BY <1>3, <2>1, <2>4 DEF PoolInv
  <2>8. CallInv'
    BY <1>2, <1>3, <2>1, <2>2, <2>4 DEF CallInv
  <2>9. DestroyInv'
    BY <1>3, <2>1, <2>2 DEF DestroyInv, Gone
  <2>10. QED
    BY <1>4, <1>7, <1>11, <2>1, <2>5, <2>6, <2>7, <2>8, <2>9 DEF thread
\* A task whose stage, if it is in the pool, is over and that nobody else holds.
<1>23. ASSUME NEW t \in Tasks, ~Gone, Gone' = Gone, ~Contains(m_insertTasks, t),
              InList(t) => Leaving(t),
              \A x \in Tasks : x # t => stage'[x] = stage[x] /\ life'[x] = life[x]
                                        /\ deadline'[x] = deadline[x],
              stage'[t] = "out", at' = at, m_tasks' = m_tasks,
              \/ /\ life'[t] = "freed" /\ m_insertTasks' = m_insertTasks /\ tpc' = tpc
              \/ /\ life'[t] = "live" /\ m_insertTasks' = Append(m_insertTasks, t)
                 /\ notify_one
       PROVE  LinkInv' /\ PlaceInv'
  <2>1. /\ \A x \in Tasks : Leaving(x)' <=> Leaving(x)
        /\ \A x : InList(x)' <=> InList(x)
    BY <1>13, <1>14, <1>23 DEF InList
  <2>2. LinkInv'
    BY <1>3, <1>23, <2>1, LinkKept
  <2>3. /\ \A x \in Tasks : InList(x) /\ ~Leaving(x) => life[x] = "live" /\ stage[x] = "out"
                                                        /\ ~Contains(m_insertTasks, x)
        /\ \A x \in Tasks : Contains(m_insertTasks, x) => life[x] = "live" /\ stage[x] = "out"
        /\ \A x \in Tasks : life[x] = "live" =>
             Contains(m_insertTasks, x) \/ stage[x] # "out" \/ (InList(x) /\ ~Leaving(x))
        /\ \A i, j \in 1..Len(m_insertTasks) : m_insertTasks[i] = m_insertTasks[j] => i = j
    BY <1>3, <1>23 DEF PlaceInv
  <2>4. /\ \A x \in Tasks : x # t => stage'[x] = stage[x] /\ life'[x] = life[x]
        /\ stage'[t] = "out"
    BY <1>23
  <2>5. ASSUME life'[t] \in {"live", "freed"},
               \A x \in Tasks : Contains(m_insertTasks', x)
                                  <=> Contains(m_insertTasks, x) \/ (x = t /\ life'[t] = "live"),
               \A i, j \in 1..Len(m_insertTasks') : m_insertTasks'[i] = m_insertTasks'[j] => i = j
        PROVE  PlaceInv'
    <3>1. \A x \in Tasks : InList(x)' /\ ~(Leaving(x)') =>
            life'[x] = "live" /\ stage'[x] = "out" /\ ~Contains(m_insertTasks', x)
      BY <1>23, <2>1, <2>3, <2>4, <2>5
    <3>2. \A x \in Tasks : Contains(m_insertTasks', x) => life'[x] = "live" /\ stage'[x] = "out"
      BY <1>23, <2>3, <2>4, <2>5
    <3>3. \A x \in Tasks : life'[x] = "live" =>
            Contains(m_insertTasks', x) \/ stage'[x] # "out" \/ (InList(x)' /\ ~(Leaving(x)'))
      BY <2>1, <2>3, <2>4, <2>5
    <3>4. QED
      BY <2>5, <3>1, <3>2, <3>3 DEF PlaceInv
  <2>6. CASE life'[t] = "freed" /\ m_insertTasks' = m_insertTasks
    <3>1. life'[t] \in {"live", "freed"}
          /\ \A i, j \in 1..Len(m_insertTasks') : m_insertTasks'[i] = m_insertTasks'[j] => i = j
      BY <2>3, <2>6
    <3>2. \A x \in Tasks : Contains(m_insertTasks', x)
                            <=> Contains(m_insertTasks, x) \/ (x = t /\ life'[t] = "live")
      BY <2>6
    <3>3. QED
      BY <2>2, <2>5, <3>1, <3>2
  <2>7. CASE life'[t] = "live" /\ m_insertTasks' = Append(m_insertTasks, t)
    <3>1. /\ \A x \in Tasks : Contains(m_insertTasks', x) <=> Contains(m_insertTasks, x) \/ x = t
          /\ \A i, j \in 1..Len(m_insertTasks') : m_insertTasks'[i] = m_insertTasks'[j] => i = j
      BY <1>1, <1>23, <2>3, <2>7, AppendedOnce
    <3>2. life'[t] \in {"live", "freed"}
      BY <2>7
    <3>3. \A x \in Tasks : Contains(m_insertTasks', x)
                            <=> Contains(m_insertTasks, x) \/ (x = t /\ life'[t] = "live")
      BY <2>7, <3>1
    <3>4. QED
      BY <2>2, <2>5, <3>1, <3>2, <3>3
  <2>8. QED
    BY <1>23, <2>2, <2>6, <2>7
<1>24. ASSUME NEW t \in Tasks, insertTask(t)
       PROVE  /\ \A x \in Tasks : x # t => life'[x] = life[x] /\ deadline'[x] = deadline[x]
              /\ \/ /\ life'[t] = "freed" /\ m_insertTasks' = m_insertTasks /\ tpc' = tpc
                 \/ /\ life'[t] = "live" /\ m_insertTasks' = Append(m_insertTasks, t)
                    /\ notify_one
  BY <1>1, <1>24 DEF insertTask
<1>25. ASSUME NEW t \in Tasks, EndExec(t) PROVE Exact'
  <2>1. /\ stage[t] = "running" /\ (t \in Nesting => cpc[t] = "idle")
        /\ stage' = [stage EXCEPT ![t] = "out"]
        /\ UNCHANGED <<now, at, links, m_tasks, m_stop, cancled, cpc, arg>>
    BY <1>25 DEF EndExec, callers, thread
  <2>2. /\ \A x \in Tasks : x # t => life'[x] = life[x] /\ deadline'[x] = deadline[x]
        /\ \/ /\ life'[t] = "freed" /\ m_insertTasks' = m_insertTasks /\ tpc' = tpc
           \/ /\ life'[t] = "live" /\ m_insertTasks' = Append(m_insertTasks, t)
              /\ notify_one
    <3>1. CASE repeats[t]
      BY <1>24, <1>25, <3>1 DEF EndExec
    <3>2. CASE ~repeats[t]
      BY <1>1, <1>25, <3>2 DEF EndExec
    <3>3. QED
      BY <3>1, <3>2
  <2>3. life[t] = "live" /\ ~Gone
    BY <1>3, <2>1 DEF PoolInv, DestroyInv
  <2>4. ~Contains(m_insertTasks, t) /\ (InList(t) => Leaving(t))
    BY <1>3, <2>1, <2>3 DEF PlaceInv
  <2>5. stage'[t] = "out" /\ \A x \in Tasks : x # t => stage'[x] = stage[x]
    BY <1>1, <2>1
  <2>6. Gone' = Gone
    BY <2>1 DEF Gone
  <2>7. LinkInv' /\ PlaceInv'
    BY <1>23, <2>1, <2>2, <2>3, <2>4, <2>5, <2>6
  <2>8. tpc' = tpc \/ (tpc = "waiting" /\ tpc' = "woken")
    BY <1>13, <2>2
  <2>9. PassInv'
    BY <1>7, <1>14, <2>1, <2>8 DEF thread
  <2>10. PoolInv'
    BY <1>3, <2>1, <2>2, <2>5 DEF PoolInv
  <2>11. CallInv'
    BY <1>2, <1>3, <2>1, <2>2, <2>3, <2>5 DEF CallInv
  <2>12. DestroyInv'
    BY <1>3, <2>1, <2>3, <2>8 DEF DestroyInv, Gone
  <2>13. QED
    BY <1>4, <2>7, <2>9, <2>10, <2>11, <2>12
<1>26. ASSUME NEW c \in Callers, MayCall(c)
       PROVE  cpc[c] = "idle" /\ ~Gone /\ (c \in Nesting => stage[c] = "running")
  <2>1. cpc[c] = "idle" /\ (c = Owner \/ (c \in Nesting /\ stage[c] = "running"))
    BY <1>26 DEF MayCall
  <2>2. QED
    BY <1>2, <1>3, <2>1 DEF DestroyInv, Gone
<1>27. ASSUME NEW c \in Callers, NEW t \in Tasks, NEW ms \in Timeouts,
              setTimeout(c, t, ms) \/ setInterval(c, t, ms)
       PROVE  Exact'
  <2>1. /\ MayCall(c) /\ life[t] = "new"
        /\ life' = [life EXCEPT ![t] = "made"]
        /\ cpc' = [cpc EXCEPT ![c] = "insert"] /\ arg' = [arg EXCEPT ![c] = t]
        /\ UNCHANGED <<now, tpc, at, links, m_tasks, m_insertTasks, m_stop, deadline, cancled,
                       stage>>
    BY <1>27 DEF setTimeout, setInterval, Make, thread
  <2>2. cpc[c] = "idle" /\ ~Gone /\ (c \in Nesting => stage[c] = "running")
    BY <1>26, <2>1
  <2>3. /\ life'[t] = "made" /\ \A x \in Tasks : x # t => life'[x] = life[x]
        /\ cpc'[c] = "insert" /\ arg'[c] = t
        /\ \A d \in Callers : d # c => cpc'[d] = cpc[d] /\ arg'[d] = arg[d]
    BY <1>1, <2>1
  <2>4. /\ \A x \in Tasks : Leaving(x)' <=> Leaving(x)
        /\ \A x : InList(x)' <=> InList(x)
    BY <2>1 DEF Leaving, InList
  <2>5. PlaceInv'
    BY <1>2, <1>3, <2>1, <2>2, <2>3, <2>4 DEF PlaceInv, Gone
  <2>6. PoolInv'
    BY <1>3, <2>1, <2>3 DEF PoolInv
  <2>7. CallInv'
    BY <1>2, <1>3, <2>1, <2>2, <2>3 DEF CallInv
  <2>8. DestroyInv'
    BY <1>2, <1>3, <2>1, <2>2, <2>3 DEF DestroyInv, Gone
  <2>9. QED
    BY <1>4, <1>7, <1>11, <2>1, <2>4, <2>5, <2>6, <2>7, <2>8 DEF thread
<1>28. ASSUME NEW c \in Callers, NEW t \in Tasks, cancelTimeout(c, t) PROVE Exact'
  <2>1. /\ MayCall(c) /\ cpc' = [cpc EXCEPT ![c] = "lock"] /\ arg' = [arg EXCEPT ![c] = t]
        /\ UNCHANGED <<now, tpc, at, links, m_tasks, m_insertTasks, m_stop, life, deadline, cancled,
                       stage>>
    BY <1>28 DEF cancelTimeout, thread
  <2>2. cpc[c] = "idle" /\ ~Gone /\ (c \in Nesting => stage[c] = "running")
    BY <1>26, <2>1
  <2>3. /\ cpc'[c] = "lock"
        /\ \A d \in Callers : d # c => cpc'[d] = cpc[d] /\ arg'[d] = arg[d]
    BY <1>1, <2>1
  <2>4. Gone => Gone'
    BY <2>2
  <2>5. PlaceInv'
    BY <1>3, <1>9, <2>1, <2>4, PlaceKept
  <2>6. CallInv'
    BY <1>2, <1>3, <2>1, <2>2, <2>3 DEF CallInv
  <2>7. DestroyInv'
    BY <1>2, <1>3, <2>1, <2>2, <2>3 DEF DestroyInv, Gone
  <2>8. QED
    BY <1>4, <1>6, <1>7, <1>9, <1>11, <2>1, <2>5, <2>6, <2>7 DEF thread
<1>29. ASSUME NEW c \in Callers, Insert(c) PROVE Exact'
  <2> DEFINE t == arg[c]
  <2>1. /\ cpc[c] = "insert" /\ insertTask(t)
        /\ cpc' = [cpc EXCEPT ![c] = "idle"] /\ arg' = [arg EXCEPT ![c] = None]
        /\ UNCHANGED <<now, at, links, m_tasks, m_stop, cancled, stage>>
    BY <1>29 DEF Insert, Return, thread
  <2>2. t \in Tasks /\ life[t] = "made"
    BY <1>3, <2>1 DEF CallInv
  <2>3. /\ \A x \in Tasks : x # t => life'[x] = life[x] /\ deadline'[x] = deadline[x]
        /\ \/ /\ life'[t] = "freed" /\ m_insertTasks' = m_insertTasks /\ tpc' = tpc
           \/ /\ life'[t] = "live" /\ m_insertTasks' = Append(m_insertTasks, t)
              /\ notify_one
    BY <1>24, <2>1, <2>2
  <2>4. cpc'[c] = "idle" /\ \A d \in Callers : d # c => cpc'[d] = cpc[d] /\ arg'[d] = arg[d]
    BY <1>1, <2>1
  <2>5. c \in Nesting => stage[c] = "running"
    BY <1>3, <2>1 DEF CallInv
  <2>6. ~Gone /\ Gone' = Gone
    BY <1>2, <1>3, <2>1, <2>4, <2>5 DEF DestroyInv, Gone
  <2>7. stage[t] = "out" /\ ~Contains(m_insertTasks, t) /\ (InList(t) => Leaving(t))
    BY <1>1, <1>3, <2>2, <2>6 DEF PlaceInv, PoolInv
  <2>8. \A d \in Callers : d # c /\ cpc[d] = "insert" => arg[d] # t
    BY <1>3, <2>1 DEF CallInv
  <2> HIDE DEF t
  <2>9. LinkInv' /\ PlaceInv'
    BY <1>23, <2>1, <2>2, <2>3, <2>6, <2>7
  <2>10. tpc' = tpc \/ (tpc = "waiting" /\ tpc' = "woken")
    BY <1>13, <2>3
  <2>11. PassInv'
    BY <1>7, <1>14, <2>1, <2>10 DEF thread
  <2>12. PoolInv'
    BY <1>3, <2>1, <2>2, <2>3, <2>7 DEF PoolInv
  <2>13. CallInv'
    <3>1. \A d \in Callers : cpc'[d] = "insert" => arg'[d] \in Tasks /\ life'[arg'[d]] = "made"
      BY <1>3, <2>3, <2>4, <2>8 DEF CallInv
    <3>2. \A d, e \in Callers : cpc'[d] = "insert" /\ cpc'[e] = "insert" /\ arg'[d] = arg'[e]
            => d = e
      BY <1>3, <2>4 DEF CallInv
    <3>3. \A x \in Tasks : life'[x] = "made" => \E d \in Callers : cpc'[d] = "insert" /\ arg'[d] = x
      <4>1. SUFFICES ASSUME NEW x \in Tasks, life'[x] = "made"
                     PROVE  \E d \in Callers : cpc'[d] = "insert" /\ arg'[d] = x
        OBVIOUS
      <4>2. x # t /\ life[x] = "made"
        BY <2>3, <4>1
      <4>3. PICK d \in Callers : cpc[d] = "insert" /\ arg[d] = x
        BY <1>3, <4>2 DEF CallInv
      <4>4. d # c
        BY <4>2, <4>3 DEF t
      <4>5. QED
        BY <2>4, <4>3, <4>4
    <3>4. \A d \in Nesting : cpc'[d] # "idle" => stage'[d] = "running"
      BY <1>2, <1>3, <2>1, <2>4 DEF CallInv
    <3>5. QED
      BY <3>1, <3>2, <3>3, <3>4 DEF CallInv
  <2>14. DestroyInv'
    BY <1>2, <1>3, <2>1, <2>4, <2>6, <2>10 DEF DestroyInv, Gone
  <2>15. QED
    BY <1>4, <2>9, <2>11, <2>12, <2>13, <2>14
\* A step of cancelTimeout() once it is under way.
<1>30. ASSUME NEW c \in Callers, NEW x \in {"scan", "walk", "idle"},
              cpc[c] \in {"lock", "scan", "walk"}, cpc' = [cpc EXCEPT ![c] = x],
              arg' = arg \/ arg' = [arg EXCEPT ![c] = None],
              \A t \in Tasks : cancled[t] => cancled'[t],
              tpc' = tpc \/ notify_one,
              UNCHANGED <<now, at, links, m_tasks, m_insertTasks, m_stop, life, deadline, stage>>
       PROVE  Exact'
  <2>1. /\ cpc'[c] = x /\ cpc'[c] # "insert" /\ cpc[c] # "insert"
        /\ \A d \in Callers : d # c => cpc'[d] = cpc[d] /\ arg'[d] = arg[d]
    BY <1>1, <1>30
  <2>2. cpc[c] # "idle" /\ x # "insert"
    BY <1>30
  <2>3. CallInv'
    BY <1>2, <1>3, <1>30, <2>1, <2>2 DEF CallInv
  <2>4. tpc' = tpc \/ (tpc = "waiting" /\ tpc' = "woken")
    BY <1>13, <1>30
  <2>5. DestroyInv'
    BY <1>2, <1>3, <1>30, <2>1, <2>4 DEF DestroyInv, Gone
  <2>6. Gone => Gone'
    BY <1>2, <1>30, <2>1 DEF Gone
  <2>7. PlaceInv'
    BY <1>3, <1>14, <1>30, <2>4, <2>6, PlaceKept
  <2>8. QED
    BY <1>4, <1>6, <1>7, <1>11, <1>14, <1>30, <2>3, <2>4, <2>5, <2>7 DEF thread
<1>31. ASSUME NEW c \in Callers, Cancel(c)
       PROVE  /\ \A t \in Tasks : cancled[t] => cancled'[t]
              /\ notify_one /\ cpc' = [cpc EXCEPT ![c] = "idle"] /\ arg' = [arg EXCEPT ![c] = None]
  BY <1>1, <1>31 DEF Cancel, Return
<1>32. ASSUME NEW c \in Callers, LockUnlock(c) PROVE Exact'
  BY <1>30, <1>32 DEF LockUnlock, thread
<1>33. ASSUME NEW c \in Callers, ScanIntervals(c) PROVE Exact'
  <2>1. CASE arg[c] \in m_reapetTasks
    <3>1. Cancel(c)
      BY <1>33, <2>1 DEF ScanIntervals
    <3>2. QED
      BY <1>30, <1>31, <1>33, <3>1 DEF ScanIntervals, thread
  <2>2. CASE arg[c] \notin m_reapetTasks
    BY <1>30, <1>33, <2>2 DEF ScanIntervals, thread
  <2>3. QED
    BY <2>1, <2>2
<1>34. ASSUME NEW c \in Callers, WalkList(c) PROVE Exact'
  <2>1. CASE walk[c] = arg[c]
    <3>1. Cancel(c)
      BY <1>34, <2>1 DEF WalkList
    <3>2. QED
      BY <1>30, <1>31, <1>34, <3>1 DEF WalkList, thread
  <2>2. CASE walk[c] # arg[c]
    <3>1. UNCHANGED <<now, tpc, at, links, m_tasks, m_insertTasks, m_stop, life, deadline, cancled,
                      stage, cpc, arg>>
      BY <1>34, <2>2 DEF WalkList, thread
    <3>2. QED
      BY <1>4, <1>5, <1>6, <1>7, <1>9, <1>10, <1>11, <1>12, <3>1 DEF thread
  <2>3. QED
    BY <2>1, <2>2
<1>35. ASSUME NEW c \in Callers, ScanInserted(c) PROVE Exact'
  <2>1. CASE Contains(m_insertTasks, arg[c])
    <3>1. Cancel(c)
      BY <1>35, <2>1 DEF ScanInserted
    <3>2. QED
      BY <1>30, <1>31, <1>35, <3>1 DEF ScanInserted, thread
  <2>2. CASE ~Contains(m_insertTasks, arg[c])
    BY <1>30, <1>35, <2>2 DEF ScanInserted, thread, Return
  <2>3. QED
    BY <2>1, <2>2
<1>36. ASSUME BeginDestroy PROVE Exact'
  <2>1. /\ cpc[Owner] = "idle" /\ m_stop' = TRUE /\ notify_one
        /\ cpc' = [cpc EXCEPT ![Owner] = "join"]
        /\ UNCHANGED <<now, at, links, m_tasks, m_insertTasks, life, deadline, cancled, stage, arg>>
    BY <1>36 DEF BeginDestroy, thread
  <2>2. tpc' = tpc \/ (tpc = "waiting" /\ tpc' = "woken")
    BY <1>13, <2>1
  <2>3. cpc'[Owner] = "join" /\ \A d \in Callers : d # Owner => cpc'[d] = cpc[d]
    BY <1>1, <1>2, <2>1
  <2>4. CallInv'
    BY <1>2, <1>3, <2>1, <2>3 DEF CallInv
  <2>5. Gone => Gone'
    BY <2>1 DEF Gone
  <2>6. PlaceInv'
    BY <1>3, <1>14, <2>1, <2>2, <2>5, PlaceKept
  <2>7. DestroyInv'
    BY <2>1, <2>3 DEF DestroyInv, Gone
  <2>8. QED
    BY <1>4, <1>6, <1>7, <1>11, <1>14, <2>1, <2>2, <2>4, <2>6, <2>7 DEF thread
<1>37. ASSUME Join PROVE Exact'
  <2>1. /\ cpc[Owner] = "join" /\ tpc = "ended" /\ cpc' = [cpc EXCEPT ![Owner] = "waitAll"]
        /\ UNCHANGED <<now, tpc, at, links, m_tasks, m_insertTasks, m_stop, life, deadline, cancled,
                       stage, arg>>
    BY <1>37 DEF Join, thread
  <2>2. cpc'[Owner] = "waitAll" /\ \A d \in Callers : d # Owner => cpc'[d] = cpc[d]
    BY <1>1, <1>2, <2>1
  <2>3. CallInv'
    BY <1>2, <1>3, <2>1, <2>2 DEF CallInv
  <2>4. Gone => Gone'
    BY <2>1 DEF Gone
  <2>5. PlaceInv'
    BY <1>3, <1>9, <2>1, <2>4, PlaceKept
  <2>6. DestroyInv'
    BY <1>3, <2>1, <2>2 DEF DestroyInv, Gone
  <2>7. QED
    BY <1>4, <1>6, <1>7, <1>9, <1>11, <2>1, <2>3, <2>5, <2>6 DEF thread
<1>38. ASSUME DeleteTasks PROVE Exact'
  <2> DEFINE gone == {t \in Tasks : Contains(Chain(m_tasks) \o m_insertTasks, t)}
  <2>1. /\ cpc[Owner] = "waitAll" /\ InHand = {} /\ cpc' = [cpc EXCEPT ![Owner] = "gone"]
        /\ life' = [t \in Tasks |-> IF t \in gone THEN "freed" ELSE life[t]]
        /\ UNCHANGED <<now, tpc, at, links, m_tasks, m_insertTasks, m_stop, deadline, cancled,
                       stage, arg>>
    BY <1>38 DEF DeleteTasks, thread
  <2>2. \A t \in Tasks : stage[t] = "out" /\ stage'[t] = "out"
    BY <2>1 DEF InHand
  <2>3. tpc = "ended" /\ m_stop /\ ~Gone
    BY <1>3, <2>1 DEF DestroyInv, Gone
  <2>4. \A t \in Tasks : Contains(Chain(m_tasks), t) \/ Contains(m_insertTasks, t) => t \in gone
    <3>1. Chain(m_tasks) \in Seq(Tasks)
      BY <1>3 DEF LinkInv, IsChain
    <3>2. QED
      BY <1>1, <3>1, ConcatContains
  <2> HIDE DEF gone
  <2>5. \A c \in Callers : cpc[c] # "insert"
    BY <1>2, <1>3, <2>1, <2>2 DEF CallInv
  <2>6. \A t \in Tasks : life[t] \in {"new", "freed"} \/ t \in gone
    <3>1. SUFFICES ASSUME NEW t \in Tasks PROVE life[t] \in {"new", "freed"} \/ t \in gone
      OBVIOUS
    <3>2. life[t] # "made"
      BY <1>3, <2>5 DEF CallInv
    <3>3. CASE life[t] = "live"
      BY <1>3, <2>2, <2>3, <2>4, <3>3 DEF PlaceInv, InList
    <3>4. QED
      BY <1>1, <3>2, <3>3
  <2>7. \A t \in Tasks : life'[t] \in {"new", "freed"}
    BY <2>1, <2>6
  <2>8. cpc'[Owner] = "gone" /\ \A d \in Callers : d # Owner => cpc'[d] = cpc[d]
    BY <1>1, <1>2, <2>1
  <2>9. PlaceInv'
    BY <2>8 DEF PlaceInv, Gone
  <2>10. PoolInv'
    BY <2>2 DEF PoolInv
  <2>11. CallInv'
    <3>1. \A d \in Callers : cpc'[d] # "insert"
      BY <2>5, <2>8
    <3>2. QED
      BY <1>2, <1>3, <2>1, <2>2, <2>7, <2>8, <3>1 DEF CallInv
  <2>12. DestroyInv'
    BY <2>1, <2>2, <2>3, <2>7 DEF DestroyInv
  <2>13. QED
    BY <1>4, <1>7, <1>9, <1>11, <2>1, <2>9, <2>10, <2>11, <2>12 DEF thread
<1>39. QED
  BY <1>15, <1>16, <1>17, <1>18, <1>19, <1>20, <1>21, <1>22, <1>25, <1>27, <1>28, <1>29, <1>32,
     <1>33, <1>34, <1>35, <1>36, <1>37, <1>38
     DEF Next, TimerThread, CallSteps, TimedOut, SpuriousWake

-----------------------------------------------------------------------------
LEMMA NothingAfterCrash == Next => ~crashed
BY DEF Next, TimerThread, CallSteps, TimedOut, SpuriousWake, Alive, Tick, TestStop, processNewTasks,
       Sleep, StopWaiting, Wake, NotDue, HandOver, Unlink, EndPass, BeginExec, EndExec, setTimeout,
       setInterval, Make, cancelTimeout, Insert, LockUnlock, ScanIntervals, WalkList, ScanInserted,
       BeginDestroy, Join, DeleteTasks

\* Only the timer thread and a call of cancelTimeout() can crash, and a Timer
\* has none when it is gone.
LEMMA CrashStep == TimerInv /\ Next /\ crashed' => ~Gone'
<1> SUFFICES ASSUME TimerInv, Next, crashed' PROVE ~Gone'
  OBVIOUS
<1> USE TimerAssumption
<1>1. /\ ~crashed /\ Exact
      /\ cpc \in [Callers -> {"idle", "insert", "lock", "scan", "walk", "join", "waitAll", "gone"}]
  BY NothingAfterCrash DEF TimerInv, TypeOK
<1>2. PassInv /\ CallInv /\ DestroyInv /\ Callers = Nesting \cup {Owner}
  BY <1>1 DEF Exact, Callers
<1>3. CASE Unlink
  BY <1>2, <1>3 DEF Unlink, DestroyInv, Gone, callers
<1>4. ASSUME NEW c \in Callers, ScanIntervals(c) \/ WalkList(c) PROVE ~Gone'
  <2>1. cpc[c] \in {"scan", "walk"}
    BY <1>4 DEF ScanIntervals, WalkList
  <2>2. ~Gone
    <3>1. CASE c = Owner
      BY <2>1, <3>1 DEF Gone
    <3>2. CASE c \in Nesting
      BY <1>2, <2>1, <3>2 DEF CallInv, DestroyInv
    <3>3. QED
      BY <1>2, <3>1, <3>2
  <2>3. cpc' = cpc \/ cpc' = [cpc EXCEPT ![c] = "idle"] \/ cpc' = [cpc EXCEPT ![c] = "walk"]
    BY <1>4 DEF ScanIntervals, WalkList, Cancel, Return
  <2>4. cpc'[Owner] = cpc[Owner] \/ cpc'[Owner] \in {"idle", "walk"}
    BY <1>1, <1>2, <2>3
  <2>5. QED
    BY <2>2, <2>4 DEF Gone
<1>5. ASSUME UNCHANGED crashed PROVE FALSE
  BY <1>1, <1>5
<1>6. QED
  BY <1>3, <1>4, <1>5 DEF Next, TimerThread, CallSteps, TimedOut, SpuriousWake, Tick, TestStop,
     processNewTasks, Sleep, StopWaiting, Wake, NotDue, HandOver, EndPass, BeginExec, EndExec,
     setTimeout, setInterval, Make, cancelTimeout, Insert, LockUnlock, ScanInserted, BeginDestroy,
     Join, DeleteTasks

LEMMA TimerInvStep == TimerInv /\ [Next]_vars => TimerInv'
<1> SUFFICES ASSUME TimerInv, [Next]_vars PROVE TimerInv'
  OBVIOUS
<1>1. CASE Next
  <2>1. TypeOK /\ Exact
    BY <1>1, NothingAfterCrash DEF TimerInv
  <2>2. TypeOK'
    BY <1>1, TypeStep
  <2>3. ~crashed' => Exact'
    BY <1>1, <2>1, ExactStep
  <2>4. crashed' => ~Gone'
    BY <1>1, CrashStep
  <2>5. QED
    BY <2>2, <2>3, <2>4 DEF TimerInv
<1>2. CASE UNCHANGED vars
  BY <1>2 DEF vars, thread, fields, callers, TimerInv, TypeOK, InHand, Exact, LinkInv, PassInv,
              PlaceInv, PoolInv, CallInv, DestroyInv, Gone, Leaving, InList
<1>3. QED
  BY <1>1, <1>2

LEMMA TimerInvariant == Spec => []TimerInv
BY TimerInvInit, TimerInvStep, PTL DEF Spec

\* Timer's variables hold what the code may put there, and the pool is never
\* given more than it takes.
THEOREM TimerTypeCorrect == Spec => []TypeOK
<1>1. TimerInv => TypeOK
  BY DEF TimerInv
<1>2. QED
  BY <1>1, TimerInvariant, PTL

\* Between two passes' writes the list is linked in both directions and in the
\* order of the deadlines, for any tasks, timeouts and cancels.
THEOREM LinkedAlways == Spec => []Linked
<1>1. TimerInv => Linked
  <2> SUFFICES ASSUME TimerInv, ~crashed, tpc # "unlink", cpc[Owner] # "gone" PROVE Linked
    BY DEF Linked
  <2> DEFINE C == Chain(m_tasks)
  <2>1. LinkInv
    BY DEF TimerInv, Exact
  <2>2. /\ C \in Seq(Tasks)
        /\ \A i \in 1..Len(C) : m_tasks.next[C[i]] = IF i = Len(C) THEN None ELSE C[i + 1]
        /\ \A i \in 1..Len(C) : m_tasks.prev[C[i]] = IF i = 1 THEN None ELSE C[i - 1]
        /\ \A i, j \in 1..Len(C) : i < j => deadline[C[i]] <= deadline[C[j]]
    BY <2>1 DEF LinkInv, IsChain, Leaving
  <2>3. Linked <=>
          /\ \A i \in DOMAIN C :
               /\ m_tasks.prev[C[i]] = IF i = 1 THEN None ELSE C[i - 1]
               /\ i = Len(C) => m_tasks.next[C[i]] = None
          /\ \A i, j \in DOMAIN C : i < j => deadline[C[i]] <= deadline[C[j]]
    BY DEF Linked
  <2> HIDE DEF C
  <2>4. DOMAIN C = 1..Len(C)
    BY <2>2
  <2>5. QED
    BY <2>2, <2>3, <2>4
<1>2. QED
  BY <1>1, TimerInvariant, PTL

\* A task is in m_insertTasks, the list or the pool, in one of them and once,
\* for as long as it lives, and in none before or after.
THEOREM InOnePlaceAlways == Spec => []InOnePlace
<1>1. TimerInv => InOnePlace
  <2> SUFFICES ASSUME TimerInv, ~crashed, cpc[Owner] # "gone", NEW t \in Tasks
               PROVE  LET places == (IF Contains(m_insertTasks, t) THEN {"inserted"} ELSE {})
                            \cup (IF Contains(Chain(m_tasks), t) /\ ~(tpc = "unlink" /\ at = t)
                                    THEN {"list"} ELSE {})
                            \cup (IF stage[t] # "out" THEN {"pool"} ELSE {})
                      IN  /\ life[t] = "live" => Cardinality(places) = 1
                          /\ life[t] # "live" => places = {}
                          /\ Cardinality({i \in DOMAIN m_insertTasks : m_insertTasks[i] = t}) <= 1
    BY DEF InOnePlace
  <2> DEFINE places == (IF Contains(m_insertTasks, t) THEN {"inserted"} ELSE {})
                       \cup (IF InList(t) /\ ~Leaving(t) THEN {"list"} ELSE {})
                       \cup (IF stage[t] # "out" THEN {"pool"} ELSE {})
             at_t == {i \in DOMAIN m_insertTasks : m_insertTasks[i] = t}
  <2>1. /\ InList(t) /\ ~Leaving(t) => life[t] = "live" /\ stage[t] = "out"
                                       /\ ~Contains(m_insertTasks, t)
        /\ Contains(m_insertTasks, t) => life[t] = "live" /\ stage[t] = "out"
        /\ life[t] = "live" =>
             Contains(m_insertTasks, t) \/ stage[t] # "out" \/ (InList(t) /\ ~Leaving(t))
        /\ \A i, j \in 1..Len(m_insertTasks) : m_insertTasks[i] = m_insertTasks[j] => i = j
        /\ stage[t] # "out" => life[t] = "live"
        /\ m_insertTasks \in Seq(Tasks)
    BY DEF TimerInv, Exact, PlaceInv, PoolInv, Gone, TypeOK
  <2>2. life[t] # "live" => places = {}
    BY <2>1
  <2>3. life[t] = "live" => places = {"inserted"} \/ places = {"list"} \/ places = {"pool"}
    BY <2>1
  <2>4. Cardinality({"inserted"}) = 1 /\ Cardinality({"list"}) = 1 /\ Cardinality({"pool"}) = 1
    BY FS_Singleton
  <2>5. at_t = {} \/ \E i : at_t = {i}
    <3>1. DOMAIN m_insertTasks = 1..Len(m_insertTasks)
      BY <2>1
    <3>2. QED
      BY <2>1, <3>1
  <2>6. Cardinality(at_t) \in {0, 1}
    BY <2>5, FS_Singleton, FS_EmptySet
  <2>7. places = (IF Contains(m_insertTasks, t) THEN {"inserted"} ELSE {})
                 \cup (IF Contains(Chain(m_tasks), t) /\ ~(tpc = "unlink" /\ at = t)
                         THEN {"list"} ELSE {})
                 \cup (IF stage[t] # "out" THEN {"pool"} ELSE {})
    BY DEF InList, Leaving
  <2> HIDE DEF places, at_t
  <2>8. Cardinality(at_t) <= 1
    BY <2>6
  <2>9. life[t] = "live" => Cardinality(places) = 1
    BY <2>3, <2>4
  <2>10. QED
    BY <2>2, <2>7, <2>8, <2>9 DEF at_t
<1>2. QED
  BY <1>1, TimerInvariant, PTL

\* When the destructor returns, every task ever made has been deleted.
THEOREM NothingLeftAlways == Spec => []NothingLeft
<1>1. TimerInv => NothingLeft
  BY DEF TimerInv, Exact, DestroyInv, NothingLeft, Gone
<1>2. QED
  BY <1>1, TimerInvariant, PTL

\* No callback begins before its task's deadline, although a cancel takes the
\* task out of the list and into the pool early.
THEOREM NotEarlyAlways == Spec => NotEarly
<1>1. TimerInv /\ [Next]_vars =>
        [\A t \in Tasks : stage[t] = "accepted" /\ stage'[t] = "running" => now >= deadline[t]]_vars
  <2> SUFFICES ASSUME TimerInv, Next, NEW t \in Tasks, stage[t] = "accepted", stage'[t] = "running"
               PROVE  now >= deadline[t]
    OBVIOUS
  <2>1. stage \in [Tasks -> {"out", "accepted", "running"}] /\ PoolInv
    BY NothingAfterCrash DEF TimerInv, TypeOK, Exact
  <2>2. ASSUME NEW x \in Tasks, BeginExec(x) PROVE now >= deadline[t]
    <3>1. x = t /\ ~cancled[t]
      BY <2>1, <2>2 DEF BeginExec
    <3>2. QED
      BY <2>1, <3>1 DEF PoolInv
  <2>3. ASSUME HandOver PROVE FALSE
    BY <2>1, <2>3 DEF HandOver
  <2>4. ASSUME NEW x \in Tasks, EndExec(x) PROVE FALSE
    BY <2>1, <2>4 DEF EndExec
  <2>5. ASSUME UNCHANGED stage PROVE FALSE
    BY <2>5
  <2>6. QED
    BY <2>2, <2>3, <2>4, <2>5 DEF Next, TimerThread, CallSteps, TimedOut, SpuriousWake, Tick,
       TestStop, processNewTasks, Sleep, StopWaiting, Wake, NotDue, Unlink, EndPass, setTimeout,
       setInterval, Make, cancelTimeout, Insert, LockUnlock, ScanIntervals, WalkList, ScanInserted,
       BeginDestroy, Join, DeleteTasks
<1>2. QED
  BY <1>1, TimerInvariant, PTL DEF Spec, NotEarly

=============================================================================
