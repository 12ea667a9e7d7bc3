----------------------------- MODULE LocalProofs -----------------------------
(***************************************************************************)
(* What one thread uses at a time, first part: CycleBuffer and Snowflake   *)
(* for themselves, and the inductive invariants of seven classes of        *)
(* MCObjects: locks on files, shared memory, sockets, reads on one socket  *)
(* by several threads, the list of the network devices, and the named      *)
(* pipes of both systems.  ObjectProofs has the others and the theorem     *)
(* about all of them.                                                      *)
(***************************************************************************)
EXTENDS Snowflake, CycleBuffer, Sockets, Devices, Network, SequenceTheorems, FiniteSetTheorems, TLAPS

(* CycleBuffer implements BoundedFifo for every type of element, every     *)
(* capacity up to half the range of SizeType and blocks of every length.   *)
(* The invariant is RingTypeOK: what has to be argued is where the positions   *)
(* of the moved elements lie (RingSumReduced, RingSumApart), and that the  *)
(* elements that stay keep theirs.                                         *)
\* Below two rounds, the remainder is one subtraction.
LEMMA ModTwoRounds ==
  ASSUME NEW c \in Nat, c > 0, NEW x \in Nat, x < 2 * c
  PROVE  x % c = IF x < c THEN x ELSE x - c
<1>1. CASE x < c
  BY <1>1, SMT
<1>2. CASE x >= c
  BY <1>2, SMT
<1>3. QED
  BY <1>1, <1>2

\* tail() and its like, without the modulus.
LEMMA RingSumReduced ==
  ASSUME Capacity > 0, NEW p \in Slots, NEW j \in 0 .. Capacity
  PROVE  RingSum(p, j) = IF p + j < Capacity THEN p + j ELSE p + j - Capacity
<1>1. /\ p + j \in Nat /\ p + j < 2 * Capacity /\ p + j < SizeWord
      /\ Capacity \in Nat /\ SizeWord \in Nat
  BY RingAssumption DEF Slots
<1>2. (p + j) % SizeWord = p + j
  BY <1>1, ModTwoRounds
<1>3. (p + j) % Capacity = IF p + j < Capacity THEN p + j ELSE p + j - Capacity
  <2>1. PICK x \in Nat : x = p + j
    BY <1>1
  <2>2. Capacity > 0 /\ Capacity \in Nat /\ x \in Nat /\ x < 2 * Capacity
    BY <1>1, <2>1
  <2>3. x % Capacity = IF x < Capacity THEN x ELSE x - Capacity
    BY <2>2, ModTwoRounds
  <2>4. p \in Nat /\ j \in Nat
    BY RingAssumption DEF Slots
  <2>5. QED
    BY <1>1, <2>1, <2>3, <2>4
<1>4. QED
  BY <1>2, <1>3 DEF RingSum

\* Sums of sums of positions, all within one round of the array.
LEMMA RingSumApart ==
  ASSUME Capacity > 0, NEW p \in Slots
  PROVE  /\ \A j \in 0 .. Capacity : RingSum(p, j) \in Slots
         /\ \A j, k \in 0 .. Capacity :
              j + k <= Capacity => RingSum(RingSum(p, j), k) = RingSum(p, j + k)
         /\ \A j, k \in 0 .. (Capacity - 1) : RingSum(p, j) = RingSum(p, k) => j = k
<1>1. Capacity \in Nat /\ p \in 0 .. (Capacity - 1)
  BY RingAssumption DEF Slots
<1>2. ASSUME NEW j \in 0 .. Capacity PROVE RingSum(p, j) \in Slots
  BY <1>1, RingSumReduced DEF Slots
<1>3. ASSUME NEW j \in 0 .. Capacity, NEW k \in 0 .. Capacity, j + k <= Capacity
      PROVE  RingSum(RingSum(p, j), k) = RingSum(p, j + k)
  <2>1. RingSum(p, j) \in Slots
    BY <1>2
  <2>2. RingSum(RingSum(p, j), k) = IF RingSum(p, j) + k < Capacity
                                      THEN RingSum(p, j) + k
                                      ELSE RingSum(p, j) + k - Capacity
    BY <2>1, RingSumReduced
  <2>3. /\ RingSum(p, j) = IF p + j < Capacity THEN p + j ELSE p + j - Capacity
        /\ RingSum(p, j + k) = IF p + (j + k) < Capacity THEN p + (j + k)
                                                         ELSE p + (j + k) - Capacity
    <3>1. j + k \in 0 .. Capacity
      BY <1>1, <1>3
    <3>2. QED
      BY <3>1, RingSumReduced
  <2>4. QED
    BY <1>1, <1>3, <2>2, <2>3
<1>4. ASSUME NEW j \in 0 .. (Capacity - 1), NEW k \in 0 .. (Capacity - 1),
             RingSum(p, j) = RingSum(p, k)
      PROVE  j = k
  <2>1. j \in 0 .. Capacity /\ k \in 0 .. Capacity
    BY <1>1
  <2>2. /\ RingSum(p, j) = IF p + j < Capacity THEN p + j ELSE p + j - Capacity
        /\ RingSum(p, k) = IF p + k < Capacity THEN p + k ELSE p + k - Capacity
    BY <2>1, RingSumReduced
  <2>3. (IF p + j < Capacity THEN p + j ELSE p + j - Capacity)
          = (IF p + k < Capacity THEN p + k ELSE p + k - Capacity)
    BY <1>4, <2>2
  <2>4. p \in Nat /\ j \in Nat /\ k \in Nat /\ j < Capacity /\ k < Capacity /\ p < Capacity
    BY <1>1
  <2>5. QED
    BY <1>1, <2>3, <2>4
<1>5. QED
  BY <1>2, <1>3, <1>4

\* A run of slots read out is a sequence of elements.
LEMMA LoadedSequence ==
  ASSUME RingTypeOK, NEW k \in 0 .. Capacity
  PROVE  /\ Loaded(m_pos, k) \in Seq(Items)
         /\ Len(Loaded(m_pos, k)) = k
         /\ \A i \in 1 .. k : Loaded(m_pos, k)[i] = m_buf[RingSum(m_pos, i - 1)]
<1>1. k \in Nat /\ Capacity \in Nat
  BY RingAssumption
<1>2. ASSUME NEW i \in 1 .. k PROVE m_buf[RingSum(m_pos, i - 1)] \in Items
  <2>1. Capacity > 0 /\ i - 1 \in 0 .. Capacity
    BY <1>1
  <2>2. m_pos \in Slots
    BY <2>1, <1>1 DEF RingTypeOK, Slots
  <2>3. QED
    BY <2>1, <2>2, RingSumApart DEF RingTypeOK
<1>3. Loaded(m_pos, k) \in [1 .. k -> Items]
  BY <1>2 DEF Loaded
<1>4. QED
  BY <1>1, <1>3 DEF Loaded

-----------------------------------------------------------------------------
LEMMA TypeInit == RingInit => RingTypeOK
BY RingAssumption DEF RingInit, RingTypeOK, Slots

\* Storing and loading elements, and moving m_pos, stay within the types.
LEMMA TypeStep == RingTypeOK /\ [RingNext]_ringVars => RingTypeOK'
<1> SUFFICES ASSUME RingTypeOK, [RingNext]_ringVars PROVE RingTypeOK'
  OBVIOUS
<1>0. Capacity \in Nat /\ MaxCall \in Nat
  BY RingAssumption
<1>1. ASSUME Capacity > 0
      PROVE  m_pos \in Slots /\ \A j \in 0 .. Capacity : RingSum(m_pos, j) \in Slots
  <2>1. m_pos \in Slots
    BY <1>0, <1>1 DEF RingTypeOK, Slots
  <2>2. QED
    BY <1>1, <2>1, RingSumApart
<1>2. ASSUME NEW o \in Items, put(o) PROVE RingTypeOK'
  <2>1. out' = <<>> /\ count' \in Nat /\ m_pos' = m_pos
    BY <1>2 DEF put
  <2>2. m_size' \in 0 .. Capacity /\ m_buf' \in [Slots -> Items]
    BY <1>0, <1>2 DEF put, RingTypeOK
  <2>3. QED
    BY <2>1, <2>2 DEF RingTypeOK
<1>3. CASE get
  <2>1. CASE m_size = 0
    <3>1. out' = <<>> /\ count' = 0 /\ UNCHANGED <<m_pos, m_size, m_buf>>
      BY <1>3, <2>1 DEF get
    <3>2. QED
      BY <3>1 DEF RingTypeOK
  <2>2. CASE m_size # 0
    <3>1. m_size \in Nat /\ m_size > 0 /\ Capacity > 0
      BY <1>0, <2>2 DEF RingTypeOK
    <3>2. /\ out' = <<m_buf[m_pos]>> /\ m_pos' = RingSum(m_pos, 1)
          /\ m_size' = m_size - 1 /\ count' = 1 /\ m_buf' = m_buf
      BY <1>3, <3>1 DEF get
    <3>3. m_pos' \in Slots /\ m_buf[m_pos] \in Items
      BY <1>0, <1>1, <3>1, <3>2 DEF RingTypeOK
    <3>4. QED
      BY <1>0, <3>1, <3>2, <3>3 DEF RingTypeOK
  <2>3. QED
    BY <2>1, <2>2
<1>4. ASSUME NEW n \in 0 .. MaxCall, read(n) PROVE RingTypeOK'
  <2>1. CASE m_size = 0
    <3>1. out' = <<>> /\ count' = 0 /\ UNCHANGED <<m_pos, m_size, m_buf>>
      BY <1>4, <2>1 DEF read
    <3>2. QED
      BY <3>1 DEF RingTypeOK
  <2>2. CASE m_size # 0
    <3> DEFINE k == Smaller(n, m_size)
    <3>1. m_size \in Nat /\ m_size > 0 /\ Capacity > 0 /\ k \in 0 .. m_size /\ k \in 0 .. Capacity
      BY <1>0, <2>2 DEF RingTypeOK, Smaller
    <3>2. /\ out' = Loaded(m_pos, k) /\ m_pos' = RingSum(m_pos, k)
          /\ m_size' = m_size - k /\ count' = k /\ m_buf' = m_buf
      BY <1>4, <3>1 DEF read
    <3>3. m_pos' \in Slots
      BY <1>1, <3>1, <3>2
    <3>4. Loaded(m_pos, k) \in Seq(Items)
      BY <3>1, LoadedSequence
    <3>5. m_size' \in 0 .. Capacity /\ count' \in Nat
      BY <1>0, <3>1, <3>2 DEF RingTypeOK
    <3>6. QED
      BY <3>2, <3>3, <3>4, <3>5 DEF RingTypeOK
  <2>3. QED
    BY <2>1, <2>2
<1>5. ASSUME NEW o \in Blocks, write(o) PROVE RingTypeOK'
  <2> DEFINE k == Smaller(Len(o), Capacity - m_size)
             s == SubSeq(o, 1, k)
  <2>1. Len(o) \in Nat /\ o \in Seq(Items)
    BY DEF Blocks
  <2>2. k \in 0 .. (Capacity - m_size) /\ k <= Len(o)
    BY <1>0, <2>1 DEF RingTypeOK, Smaller
  <2>3. m_pos' = m_pos /\ m_size' = m_size + k /\ count' = k /\ out' = <<>>
    BY <1>5 DEF write
  <2>4. m_buf' \in [Slots -> Items]
    <3>1. CASE k <= 0
      BY <1>5, <3>1 DEF write, RingTypeOK
    <3>2. CASE ~(k <= 0)
      <4>1. m_buf' = Stored(tail, s)
        BY <1>5, <3>2 DEF write
      <4>2. \A i \in DOMAIN s : s[i] \in Items
        BY <2>1, <2>2
      <4>3. \A slot \in Slots : m_buf[slot] \in Items
        BY DEF RingTypeOK
      <4>4. QED
        BY <4>1, <4>2, <4>3 DEF Stored
    <3>3. QED
      BY <3>1, <3>2
  <2>5. m_size' \in 0 .. Capacity /\ count' \in Nat
    BY <1>0, <2>2, <2>3 DEF RingTypeOK
  <2>6. QED
    BY <2>3, <2>4, <2>5 DEF RingTypeOK
<1>6. CASE UNCHANGED ringVars
  BY <1>6 DEF ringVars, RingTypeOK
<1>7. QED
  BY <1>2, <1>3, <1>4, <1>5, <1>6 DEF RingNext

\* Positions and sizes stay in range whatever the calls (RingTypeOK of
\* CycleBuffer.h's put, get, read and write), so the array is never indexed
\* outside its bounds.
THEOREM RingTypeCorrect == RingSpec => []RingTypeOK
BY TypeInit, TypeStep, PTL DEF RingSpec

-----------------------------------------------------------------------------
\* Elements put behind the last one, the others keeping their slots, appear at
\* the end of the queue.
LEMMA AppendedLast ==
  ASSUME RingTypeOK, RingTypeOK', NEW s \in Seq(Items), Len(s) <= Capacity - m_size,
         m_pos' = m_pos, m_size' = m_size + Len(s),
         \A i \in 1 .. m_size : m_buf'[RingSum(m_pos, i - 1)] = m_buf[RingSum(m_pos, i - 1)],
         \A i \in 1 .. Len(s) : m_buf'[RingSum(m_pos, m_size + (i - 1))] = s[i]
  PROVE  Contents' = Contents \o s
<1>1. Capacity \in Nat /\ m_size \in 0 .. Capacity /\ Len(s) \in Nat
      /\ m_size' \in 0 .. Capacity
  BY RingAssumption DEF RingTypeOK
<1>2. /\ Contents \in Seq(Items) /\ Len(Contents) = m_size
      /\ \A i \in 1 .. m_size : Contents[i] = m_buf[RingSum(m_pos, i - 1)]
  BY <1>1, LoadedSequence DEF Contents
<1>3. Contents' = [i \in 1 .. (m_size + Len(s)) |-> m_buf'[RingSum(m_pos, i - 1)]]
  BY DEF Contents, Loaded
<1>4. ASSUME NEW i \in 1 .. (m_size + Len(s))
      PROVE  m_buf'[RingSum(m_pos, i - 1)] = IF i <= m_size THEN Contents[i] ELSE s[i - m_size]
  <2>1. CASE i <= m_size
    <3>1. i \in 1 .. m_size
      BY <1>1, <2>1
    <3>2. QED
      BY <1>2, <2>1, <3>1
  <2>2. CASE ~(i <= m_size)
    <3>1. i - m_size \in 1 .. Len(s) /\ m_size + ((i - m_size) - 1) = i - 1
      BY <1>1, <2>2
    <3>2. m_buf'[RingSum(m_pos, m_size + ((i - m_size) - 1))] = s[i - m_size]
      BY <3>1
    <3>3. QED
      BY <2>2, <3>1, <3>2
  <2>3. QED
    BY <2>1, <2>2
<1> DEFINE r == Contents \o s
<1>5. /\ r \in Seq(Items)
      /\ Len(r) = m_size + Len(s)
      /\ \A i \in 1 .. (m_size + Len(s)) :
           r[i] = IF i <= m_size THEN Contents[i] ELSE s[i - m_size]
  BY <1>2, ConcatProperties
<1> HIDE DEF r
<1>6. r = [i \in 1 .. (m_size + Len(s)) |-> r[i]]
  BY <1>1, <1>5
<1>7. Contents' = r
  BY <1>3, <1>4, <1>5, <1>6
<1>8. QED
  BY <1>7 DEF r

\* Moving m_pos over k elements hands out the first k and leaves the others.
LEMMA RemovedFirst ==
  ASSUME RingTypeOK, NEW k \in 0 .. m_size,
         m_pos' = RingSum(m_pos, k), m_size' = m_size - k, m_buf' = m_buf
  PROVE  /\ Contents' = SubSeq(Contents, k + 1, Len(Contents))
         /\ Loaded(m_pos, k) = SubSeq(Contents, 1, k)
<1>1. Capacity \in Nat /\ m_size \in 0 .. Capacity /\ k \in 0 .. Capacity
  BY RingAssumption DEF RingTypeOK
<1>2. /\ Contents \in Seq(Items) /\ Len(Contents) = m_size
      /\ \A i \in 1 .. m_size : Contents[i] = m_buf[RingSum(m_pos, i - 1)]
  BY <1>1, LoadedSequence DEF Contents
<1>3. \A i \in 1 .. m_size : Contents[i] \in Items
  BY <1>2
<1>4. Contents' = [i \in 1 .. (m_size - k) |-> m_buf[RingSum(RingSum(m_pos, k), i - 1)]]
  BY DEF Contents, Loaded
<1>5. ASSUME NEW i \in 1 .. (m_size - k)
      PROVE  m_buf[RingSum(RingSum(m_pos, k), i - 1)] = Contents[k + i]
  <2>1. /\ i - 1 \in 0 .. Capacity /\ k + (i - 1) <= Capacity /\ k + (i - 1) = (k + i) - 1
        /\ k + i \in 1 .. m_size /\ Capacity > 0
    BY <1>1
  <2>2. m_pos \in Slots
    BY <1>1, <2>1 DEF RingTypeOK, Slots
  <2>3. RingSum(RingSum(m_pos, k), i - 1) = RingSum(m_pos, k + (i - 1))
    BY <1>1, <2>1, <2>2, RingSumApart
  <2>4. QED
    BY <1>2, <2>1, <2>3
<1>6. Contents' = SubSeq(Contents, k + 1, Len(Contents))
  <2> DEFINE rest == SubSeq(Contents, k + 1, m_size)
  <2>1. /\ rest \in Seq(Items)
        /\ Len(rest) = IF k + 1 <= m_size THEN m_size - (k + 1) + 1 ELSE 0
        /\ \A i \in 1 .. (m_size - (k + 1) + 1) : rest[i] = Contents[(k + 1) + i - 1]
    <3>1. k + 1 \in Int /\ m_size \in Int /\ \A i \in (k + 1) .. m_size : Contents[i] \in Items
      BY <1>1, <1>3
    <3>2. QED
      BY <3>1, SubSeqProperties
  <2> HIDE DEF rest
  <2>2. rest = [i \in 1 .. (m_size - k) |-> rest[i]]
    BY <1>1, <2>1
  <2>3. \A i \in 1 .. (m_size - k) : rest[i] = Contents[k + i]
    BY <1>1, <2>1
  <2>4. Contents' = rest
    BY <1>4, <1>5, <2>2, <2>3
  <2>5. QED
    BY <1>2, <2>4 DEF rest
<1>7. Loaded(m_pos, k) = SubSeq(Contents, 1, k)
  <2> DEFINE front == SubSeq(Contents, 1, k)
  <2>1. /\ front \in Seq(Items)
        /\ Len(front) = IF 1 <= k THEN k - 1 + 1 ELSE 0
        /\ \A i \in 1 .. (k - 1 + 1) : front[i] = Contents[1 + i - 1]
    <3>1. k \in Int /\ 1 \in Int /\ \A i \in 1 .. k : Contents[i] \in Items
      BY <1>1, <1>3
    <3>2. QED
      BY <3>1, SubSeqProperties
  <2> HIDE DEF front
  <2>2. front = [i \in 1 .. k |-> front[i]]
    BY <1>1, <2>1
  <2>3. \A i \in 1 .. k : front[i] = m_buf[RingSum(m_pos, i - 1)]
    BY <1>1, <1>2, <2>1
  <2>4. QED
    BY <2>2, <2>3 DEF Loaded, front
<1>8. QED
  BY <1>6, <1>7

-----------------------------------------------------------------------------
LEMMA PutIsInsert ==
  ASSUME RingTypeOK, RingTypeOK', NEW o \in Items, put(o)
  PROVE  Fifo!Insert(<<o>>)
<1>1. Capacity \in Nat /\ m_size \in 0 .. Capacity /\ <<o>> \in Seq(Items) /\ Len(<<o>>) = 1
  BY RingAssumption DEF RingTypeOK
<1>2. Contents \in Seq(Items) /\ Len(Contents) = m_size
  BY <1>1, LoadedSequence DEF Contents
<1>3. CASE m_size = Capacity
  <2>1. count' = 0 /\ out' = <<>> /\ UNCHANGED <<m_pos, m_size, m_buf>>
    BY <1>3 DEF put
  <2>2. Contents' = Contents
    BY <2>1 DEF Contents, Loaded
  <2>3. Fifo!Smaller(1, Capacity - m_size) = 0
    BY <1>1, <1>3 DEF Fifo!Smaller
  <2>4. SubSeq(<<o>>, 1, 0) = <<>> /\ Contents \o <<>> = Contents
    BY <1>2, ConcatEmptySeq, SubSeqEmpty
  <2>5. QED
    BY <1>1, <1>2, <2>1, <2>2, <2>3, <2>4 DEF Fifo!Insert
<1>4. CASE m_size # Capacity
  <2>1. /\ m_buf' = [m_buf EXCEPT ![tail] = o] /\ m_size' = m_size + 1
        /\ count' = 1 /\ out' = <<>> /\ m_pos' = m_pos
    BY <1>4 DEF put
  <2>2. Capacity > 0 /\ m_size < Capacity /\ m_size \in 0 .. (Capacity - 1)
    BY <1>1, <1>4
  <2>3. m_pos \in Slots
    BY <1>1, <2>2 DEF RingTypeOK, Slots
  <2>4. tail \in Slots
    BY <1>1, <2>2, <2>3, RingSumApart DEF tail
  <2>5. \A i \in 1 .. m_size : m_buf'[RingSum(m_pos, i - 1)] = m_buf[RingSum(m_pos, i - 1)]
    <3> SUFFICES ASSUME NEW i \in 1 .. m_size
                 PROVE  m_buf'[RingSum(m_pos, i - 1)] = m_buf[RingSum(m_pos, i - 1)]
      OBVIOUS
    <3>1. i - 1 \in 0 .. (Capacity - 1) /\ i - 1 # m_size /\ i - 1 \in 0 .. Capacity
      BY <1>1, <2>2
    <3>2. RingSum(m_pos, i - 1) # tail
      BY <2>2, <2>3, <3>1, RingSumApart DEF tail
    <3>3. RingSum(m_pos, i - 1) \in Slots
      BY <2>2, <2>3, <3>1, RingSumApart
    <3>4. QED
      BY <2>1, <2>4, <3>2, <3>3 DEF RingTypeOK
  <2>6. \A i \in 1 .. 1 : m_buf'[RingSum(m_pos, m_size + (i - 1))] = <<o>>[i]
    <3>1. m_buf'[tail] = o
      BY <2>1, <2>4 DEF RingTypeOK
    <3>2. m_size + (1 - 1) = m_size
      BY <1>1
    <3>3. QED
      BY <3>1, <3>2 DEF tail
  <2>7. Contents' = Contents \o <<o>>
    <3> DEFINE s == <<o>>
    <3>1. /\ s \in Seq(Items) /\ Len(s) <= Capacity - m_size
          /\ m_pos' = m_pos /\ m_size' = m_size + Len(s)
          /\ \A i \in 1 .. Len(s) : m_buf'[RingSum(m_pos, m_size + (i - 1))] = s[i]
      BY <1>1, <2>1, <2>2, <2>6
    <3> HIDE DEF s
    <3>2. Contents' = Contents \o s
      BY <2>5, <3>1, AppendedLast
    <3>3. QED
      BY <3>2 DEF s
  <2>8. Fifo!Smaller(1, Capacity - m_size) = 1
    BY <1>1, <2>2 DEF Fifo!Smaller
  <2>9. SubSeq(<<o>>, 1, 1) = <<o>>
    BY <1>1, SubSeqFull
  <2>10. QED
    BY <1>1, <1>2, <2>1, <2>7, <2>8, <2>9 DEF Fifo!Insert
<1>5. QED
  BY <1>3, <1>4

LEMMA WriteIsInsert ==
  ASSUME RingTypeOK, RingTypeOK', NEW o \in Blocks, write(o)
  PROVE  Fifo!Insert(o)
<1> DEFINE k == Smaller(Len(o), Capacity - m_size)
           s == SubSeq(o, 1, k)
<1>1. Capacity \in Nat /\ m_size \in 0 .. Capacity /\ o \in Seq(Items) /\ Len(o) \in Nat
  BY RingAssumption DEF RingTypeOK, Blocks
<1>2. Contents \in Seq(Items) /\ Len(Contents) = m_size
  BY <1>1, LoadedSequence DEF Contents
<1>3. k \in Nat /\ k <= Len(o) /\ k <= Capacity - m_size
  BY <1>1 DEF Smaller
<1>4. m_pos' = m_pos /\ m_size' = m_size + k /\ count' = k /\ out' = <<>>
  BY DEF write
<1>5. s \in Seq(Items) /\ Len(s) = k
  <2>1. \A i \in 1 .. k : o[i] \in Items
    BY <1>1, <1>3
  <2>2. 1 \in Int /\ k \in Int /\ (IF 1 <= k THEN k - 1 + 1 ELSE 0) = k
    BY <1>3
  <2> HIDE DEF k
  <2>3. QED
    BY <2>1, <2>2, SubSeqProperties
<1>6. Contents' = Contents \o s
  <2>1. CASE k = 0
    <3>1. m_buf' = m_buf /\ m_size' = m_size
      BY <1>1, <1>4, <2>1 DEF write
    <3>2. Contents' = Contents
      BY <1>4, <3>1 DEF Contents, Loaded
    <3>3. s = <<>>
      BY <1>5, <2>1
    <3>4. QED
      BY <1>2, <3>2, <3>3, ConcatEmptySeq
  <2>2. CASE k # 0
    <3>1. m_buf' = Stored(tail, s)
      BY <1>3, <2>2 DEF write
    <3>2. Capacity > 0 /\ m_size \in 0 .. (Capacity - 1)
      BY <1>1, <1>3, <2>2
    <3>3. m_pos \in Slots /\ tail \in Slots
      <4>1. m_pos \in Slots
        BY <1>1, <3>2 DEF RingTypeOK, Slots
      <4>2. QED
        BY <1>1, <3>2, <4>1, RingSumApart DEF tail
    <3>4. DOMAIN s = 1 .. k
      BY <1>5
    <3> HIDE DEF s, k
    <3>5. \A i \in 1 .. k : RingSum(tail, i - 1) = RingSum(m_pos, m_size + (i - 1))
      <4> SUFFICES ASSUME NEW i \in 1 .. k
                   PROVE  RingSum(tail, i - 1) = RingSum(m_pos, m_size + (i - 1))
        OBVIOUS
      <4>1. i - 1 \in 0 .. Capacity /\ m_size \in 0 .. Capacity /\ m_size + (i - 1) <= Capacity
        BY <1>1, <1>3
      <4>2. QED
        BY <3>2, <3>3, <4>1, RingSumApart DEF tail
    <3>6. \A i \in 1 .. m_size : m_buf'[RingSum(m_pos, i - 1)] = m_buf[RingSum(m_pos, i - 1)]
      <4> SUFFICES ASSUME NEW i \in 1 .. m_size
                   PROVE  m_buf'[RingSum(m_pos, i - 1)] = m_buf[RingSum(m_pos, i - 1)]
        OBVIOUS
      <4>1. i - 1 \in 0 .. (Capacity - 1) /\ i - 1 \in 0 .. Capacity
        BY <1>1
      <4>2. ASSUME NEW j \in 1 .. k PROVE RingSum(tail, j - 1) # RingSum(m_pos, i - 1)
        <5>1. m_size + (j - 1) \in 0 .. (Capacity - 1) /\ m_size + (j - 1) # i - 1
          BY <1>1, <1>3
        <5>2. RingSum(m_pos, m_size + (j - 1)) # RingSum(m_pos, i - 1)
          BY <3>2, <3>3, <4>1, <5>1, RingSumApart
        <5>3. QED
          BY <3>5, <5>2
      <4>3. RingSum(m_pos, i - 1) \in Slots
        BY <3>2, <3>3, <4>1, RingSumApart
      <4>4. QED
        BY <3>1, <3>4, <4>2, <4>3 DEF Stored
    <3>7. \A i \in 1 .. k : m_buf'[RingSum(m_pos, m_size + (i - 1))] = s[i]
      <4> SUFFICES ASSUME NEW i \in 1 .. k
                   PROVE  m_buf'[RingSum(m_pos, m_size + (i - 1))] = s[i]
        OBVIOUS
      <4> DEFINE slot == RingSum(m_pos, m_size + (i - 1))
      <4>1. /\ m_size + (i - 1) \in 0 .. (Capacity - 1)
            /\ m_size + (i - 1) \in 0 .. Capacity
        BY <1>1, <1>3
      <4>2. slot \in Slots
        BY <3>2, <3>3, <4>1, RingSumApart
      <4>3. \A j \in DOMAIN s : RingSum(tail, j - 1) = slot => j = i
        <5> SUFFICES ASSUME NEW j \in 1 .. k, RingSum(tail, j - 1) = slot PROVE j = i
          BY <3>4
        <5>1. m_size + (j - 1) \in 0 .. (Capacity - 1)
          BY <1>1, <1>3
        <5>2. RingSum(m_pos, m_size + (j - 1)) = RingSum(m_pos, m_size + (i - 1))
          BY <3>5
        <5>3. m_size + (j - 1) = m_size + (i - 1)
          BY <3>2, <3>3, <4>1, <5>1, <5>2, RingSumApart
        <5>4. QED
          BY <1>1, <1>3, <5>3
      <4>4. i \in DOMAIN s /\ RingSum(tail, i - 1) = slot
        BY <3>4, <3>5
      <4> HIDE DEF slot
      <4>5. (CHOOSE j \in DOMAIN s : RingSum(tail, j - 1) = slot) = i
        BY <4>3, <4>4
      <4>6. m_buf'[slot] = s[i]
        BY <3>1, <4>2, <4>4, <4>5 DEF Stored
      <4>7. QED
        BY <4>6 DEF slot
    <3>8. QED
      BY <1>3, <1>4, <1>5, <3>6, <3>7, AppendedLast
  <2>3. QED
    BY <2>1, <2>2
<1>7. Fifo!Smaller(Len(o), Capacity - Len(Contents)) = k
  BY <1>2 DEF Fifo!Smaller, Smaller
<1>8. QED
  BY <1>4, <1>6, <1>7 DEF Fifo!Insert

\* get() takes the one oldest element, if there is one.
LEMMA GetIsRemove ==
  ASSUME RingTypeOK, RingTypeOK', get
  PROVE  Fifo!Remove(1)
<1>1. Capacity \in Nat /\ m_size \in 0 .. Capacity
  BY RingAssumption DEF RingTypeOK
<1>2. Contents \in Seq(Items) /\ Len(Contents) = m_size
  BY <1>1, LoadedSequence DEF Contents
<1>3. CASE m_size = 0
  <2>1. count' = 0 /\ out' = <<>> /\ UNCHANGED <<m_pos, m_size, m_buf>>
    BY <1>3 DEF get
  <2>2. Contents' = Contents /\ Contents = <<>>
    BY <1>2, <1>3, <2>1 DEF Contents, Loaded
  <2>3. Fifo!Smaller(1, Len(Contents)) = 0
    BY <1>2, <1>3 DEF Fifo!Smaller
  <2>4. SubSeq(Contents, 0 + 1, Len(Contents)) = <<>> /\ SubSeq(Contents, 1, 0) = <<>>
    BY <1>2, <1>3, SubSeqEmpty
  <2>5. QED
    BY <2>1, <2>2, <2>3, <2>4 DEF Fifo!Remove
<1>4. CASE m_size # 0
  <2>1. m_size > 0 /\ 1 \in 0 .. m_size /\ 1 \in 0 .. Capacity /\ Capacity > 0
    BY <1>1, <1>4
  <2>2. /\ out' = <<m_buf[m_pos]>> /\ m_pos' = RingSum(m_pos, 1)
        /\ m_size' = m_size - 1 /\ count' = 1 /\ m_buf' = m_buf
    BY <1>1, <2>1 DEF get
  <2>3. /\ Contents' = SubSeq(Contents, 1 + 1, Len(Contents))
        /\ Loaded(m_pos, 1) = SubSeq(Contents, 1, 1)
    BY <2>1, <2>2, RemovedFirst
  <2>4. Loaded(m_pos, 1) = <<m_buf[m_pos]>>
    <3>1. m_pos \in Slots /\ m_pos \in Nat /\ m_pos < Capacity
      BY <1>1, <2>1 DEF RingTypeOK, Slots
    <3>2. RingSum(m_pos, 0) = m_pos
      BY <1>1, <2>1, <3>1, RingSumReduced
    <3>3. /\ Loaded(m_pos, 1) \in Seq(Items) /\ Len(Loaded(m_pos, 1)) = 1
          /\ \A i \in 1 .. 1 : Loaded(m_pos, 1)[i] = m_buf[RingSum(m_pos, i - 1)]
      BY <2>1, LoadedSequence
    <3>4. Loaded(m_pos, 1)[1] = m_buf[RingSum(m_pos, 0)]
      BY <3>3
    <3>5. QED
      BY <3>2, <3>3, <3>4
  <2>5. Fifo!Smaller(1, Len(Contents)) = 1
    BY <1>1, <1>2, <2>1 DEF Fifo!Smaller
  <2>6. QED
    BY <2>2, <2>3, <2>4, <2>5 DEF Fifo!Remove
<1>5. QED
  BY <1>3, <1>4

LEMMA ReadIsRemove ==
  ASSUME RingTypeOK, RingTypeOK', NEW n \in 0 .. MaxCall, read(n)
  PROVE  Fifo!Remove(n)
<1>1. Capacity \in Nat /\ m_size \in 0 .. Capacity /\ n \in Nat
  BY RingAssumption DEF RingTypeOK
<1>2. Contents \in Seq(Items) /\ Len(Contents) = m_size
  BY <1>1, LoadedSequence DEF Contents
<1>3. CASE m_size = 0
  <2>1. count' = 0 /\ out' = <<>> /\ UNCHANGED <<m_pos, m_size, m_buf>>
    BY <1>3 DEF read
  <2>2. Contents' = Contents /\ Contents = <<>>
    BY <1>2, <1>3, <2>1 DEF Contents, Loaded
  <2>3. Fifo!Smaller(n, Len(Contents)) = 0
    BY <1>1, <1>2, <1>3 DEF Fifo!Smaller
  <2>4. SubSeq(Contents, 0 + 1, Len(Contents)) = <<>> /\ SubSeq(Contents, 1, 0) = <<>>
    BY <1>2, <1>3, SubSeqEmpty
  <2>5. QED
    BY <2>1, <2>2, <2>3, <2>4 DEF Fifo!Remove
<1>4. CASE m_size # 0
  <2> DEFINE k == Smaller(n, m_size)
  <2>1. k \in 0 .. m_size /\ Fifo!Smaller(n, Len(Contents)) = k
    BY <1>1, <1>2 DEF Smaller, Fifo!Smaller
  <2>2. /\ out' = Loaded(m_pos, k) /\ m_pos' = RingSum(m_pos, k)
        /\ m_size' = m_size - k /\ count' = k /\ m_buf' = m_buf
    <3>1. m_size > 0
      BY <1>1, <1>4
    <3>2. QED
      BY <1>1, <3>1 DEF read
  <2> HIDE DEF k
  <2>3. /\ Contents' = SubSeq(Contents, k + 1, Len(Contents))
        /\ Loaded(m_pos, k) = SubSeq(Contents, 1, k)
    BY <2>1, <2>2, RemovedFirst
  <2>4. QED
    BY <2>1, <2>2, <2>3 DEF Fifo!Remove
<1>5. QED
  BY <1>3, <1>4

LEMMA RingStep == RingTypeOK /\ RingTypeOK' /\ [RingNext]_ringVars => [Fifo!Next]_(Fifo!vars)
<1> SUFFICES ASSUME RingTypeOK, RingTypeOK', [RingNext]_ringVars PROVE Fifo!Next \/ UNCHANGED Fifo!vars
  OBVIOUS
<1>1. ASSUME NEW o \in Items, put(o) PROVE Fifo!Next
  <2>1. <<o>> \in Fifo!Blocks
    <3>1. <<o>> \in [1 .. 1 -> Items] /\ 1 \in 0 .. MaxCall
      BY RingAssumption
    <3>2. QED
      BY <3>1 DEF Fifo!Blocks
  <2>2. QED
    BY <1>1, <2>1, PutIsInsert DEF Fifo!Next
<1>2. CASE get
  <2>1. 1 \in 0 .. MaxCall
    BY RingAssumption
  <2>2. QED
    BY <1>2, <2>1, GetIsRemove DEF Fifo!Next
<1>3. ASSUME NEW n \in 0 .. MaxCall, read(n) PROVE Fifo!Next
  BY <1>3, ReadIsRemove DEF Fifo!Next
<1>4. ASSUME NEW o \in Blocks, write(o) PROVE Fifo!Next
  BY <1>4, WriteIsInsert DEF Fifo!Next, Fifo!Blocks, Blocks
<1>5. CASE UNCHANGED ringVars
  BY <1>5 DEF ringVars, Fifo!vars, Contents, Loaded
<1>6. QED
  BY <1>1, <1>2, <1>3, <1>4, <1>5 DEF RingNext

LEMMA RingStarts == RingInit => Fifo!Init
<1> SUFFICES ASSUME RingInit PROVE Fifo!Init
  OBVIOUS
<1>1. RingTypeOK /\ m_size = 0
  BY TypeInit DEF RingInit
<1>2. Contents = <<>>
  BY <1>1 DEF Contents, Loaded
<1>3. QED
  BY <1>2 DEF RingInit, Fifo!Init

\* Every behaviour of the ring (put, get, read and write of CycleBuffer.h) is
\* one of the bounded queue: elements come out once and in order, for every
\* capacity up to half of SizeType's range.
THEOREM RingImplementsFifo == RingSpec => ImplementsFifo
<1>1. RingSpec => []RingTypeOK
  BY RingTypeCorrect
<1>2. QED
  BY <1>1, RingStarts, RingStep, PTL DEF RingSpec, ImplementsFifo, Fifo!Spec

-----------------------------------------------------------------------------
(* The ids of a generator increase and those of two generators differ, for *)
(* any numbers of machines, ids in a millisecond and bits.  That the ids   *)
(* made so far increase does not say that the next one will be greater:    *)
(* BelowTop adds that all of them are at most the id that m_lastTimestamp  *)
(* and m_sequence stand for - or, while ToNextMs spins and m_sequence is 0 *)
(* already, the last id of that millisecond.                               *)
\* Pack without the modulus.
IdNumber(m, stamp, s) == stamp * (MachineRange * SeqRange) + (m * SeqRange + s)

\* No id is beyond what the generator's state stands for.
Top(m) == IdNumber(m, m_lastTimestamp[m], IF spinning[m] THEN SeqRange - 1 ELSE m_sequence[m])

BelowTop == \A m \in Machines : \A i \in DOMAIN issued[m] : issued[m][i] <= Top(m)

\* Every id was packed from three fields in their ranges.
PackedIds == \A m \in Machines : \A i \in DOMAIN issued[m] :
            \E stamp \in Times, s \in SequenceIds : issued[m][i] = IdNumber(m, stamp, s)

IInv == TypeOK /\ IdsIncrease /\ BelowTop /\ PackedIds

-----------------------------------------------------------------------------
LEMMA ProductMonotone ==
  ASSUME NEW a \in Nat, NEW b \in Nat, NEW k \in Nat, a <= b
  PROVE  a * k <= b * k /\ a * k \in Nat /\ (a + 1) * k = a * k + k
OBVIOUS

LEMMA ElementOfIds ==
  ASSUME NEW S, NEW q \in Seq(S), NEW i \in DOMAIN q
  PROVE  q[i] \in S
OBVIOUS

\* The lower two fields stay below the unit of the first.
LEMMA FieldsFit ==
  ASSUME NEW m \in 0 .. (MachineRange - 1), NEW s \in SequenceIds
  PROVE  /\ m * SeqRange + s \in Nat
         /\ m * SeqRange + s < MachineRange * SeqRange
         /\ MachineRange * SeqRange \in Nat
<1>1. SeqRange \in Nat /\ MachineRange \in Nat /\ m \in Nat /\ m + 1 \in Nat
      /\ m + 1 <= MachineRange /\ s \in Nat /\ s < SeqRange
  BY IdAssumption DEF SequenceIds
<1>2. /\ (m + 1) * SeqRange <= MachineRange * SeqRange
      /\ (m + 1) * SeqRange = m * SeqRange + SeqRange
      /\ m * SeqRange \in Nat
      /\ MachineRange * SeqRange \in Nat
  BY <1>1, ProductMonotone
<1>3. QED
  BY <1>1, <1>2

\* The modulus cuts nothing off.
LEMMA PackIsNumber ==
  ASSUME NEW m \in Machines, NEW stamp \in Times, NEW s \in SequenceIds
  PROVE  /\ Pack(m, stamp, s) = IdNumber(m, stamp, s)
         /\ IdNumber(m, stamp, s) \in 0 .. (Word - 1)
<1> DEFINE k == MachineRange * SeqRange
           r == m * SeqRange + s
<1>1. m \in 0 .. (MachineRange - 1)
  BY IdAssumption
<1>2. k \in Nat /\ r \in Nat /\ r < k
  BY <1>1, FieldsFit
<1>3. stamp \in Nat /\ MaxClock \in Nat /\ stamp + 1 \in Nat /\ stamp + 1 <= MaxClock + 1
      /\ Word \in Nat \ {0} /\ (MaxClock + 1) * k <= Word
  BY IdAssumption DEF Times
<1>4. m * SeqRange \in Nat /\ s \in Nat
  <2>1. m \in Nat /\ SeqRange \in Nat /\ s \in Nat
    BY <1>1, IdAssumption DEF SequenceIds
  <2>2. QED
    BY <2>1, ProductMonotone
<1>5. (stamp * k + m * SeqRange + s) = stamp * k + r
  <2>1. stamp * k \in Nat
    BY <1>2, <1>3, ProductMonotone
  <2>2. QED
    BY <1>4, <2>1
<1> HIDE DEF k, r
<1>6. stamp * k \in Nat /\ (stamp + 1) * k = stamp * k + k /\ (stamp + 1) * k <= (MaxClock + 1) * k
  BY <1>2, <1>3, ProductMonotone
<1>7. PICK x \in Nat : x = stamp * k + r
  BY <1>2, <1>6
<1>8. x < Word
  BY <1>2, <1>3, <1>6, <1>7
<1>9. x % Word = x
  BY <1>3, <1>8
<1>10. QED
  BY <1>3, <1>5, <1>7, <1>8, <1>9 DEF Pack, IdNumber, k, r

\* A later millisecond, or the same one with a larger sequence, gives a larger
\* number.
LEMMA NumberMonotone ==
  ASSUME NEW m \in Machines, NEW t \in Times, NEW u \in Times,
         NEW s \in SequenceIds, NEW v \in SequenceIds,
         t < u \/ (t = u /\ s < v)
  PROVE  IdNumber(m, t, s) < IdNumber(m, u, v)
<1> DEFINE k == MachineRange * SeqRange
<1>1. m \in 0 .. (MachineRange - 1)
  BY IdAssumption
<1>2. /\ k \in Nat /\ m * SeqRange + s \in Nat /\ m * SeqRange + s < k
      /\ m * SeqRange + v \in Nat
  BY <1>1, FieldsFit
<1>3. m * SeqRange \in Nat /\ s \in Nat /\ v \in Nat
  <2>1. m \in Nat /\ SeqRange \in Nat /\ s \in Nat /\ v \in Nat
    BY <1>1, IdAssumption DEF SequenceIds
  <2>2. QED
    BY <2>1, ProductMonotone
<1>4. t \in Nat /\ u \in Nat /\ t + 1 \in Nat
  BY IdAssumption DEF Times
<1> HIDE DEF k
<1>5. t * k \in Nat /\ u * k \in Nat /\ (t + 1) * k = t * k + k
  BY <1>2, <1>4, ProductMonotone
<1>6. CASE t < u
  <2>1. (t + 1) * k <= u * k
    BY <1>2, <1>4, <1>6, ProductMonotone
  <2>2. t * k + (m * SeqRange + s) < u * k + (m * SeqRange + v)
    BY <1>2, <1>5, <2>1
  <2>3. QED
    BY <2>2 DEF IdNumber, k
<1>7. CASE t = u /\ s < v
  <2>1. t * k + (m * SeqRange + s) < t * k + (m * SeqRange + v)
    BY <1>3, <1>5, <1>7
  <2>2. QED
    BY <1>7, <2>1 DEF IdNumber, k
<1>8. QED
  BY <1>6, <1>7

\* The numbers of two machines differ.
LEMMA NumberOfMachine ==
  ASSUME NEW m \in Machines, NEW n \in Machines, m < n,
         NEW t \in Times, NEW u \in Times, NEW s \in SequenceIds, NEW v \in SequenceIds
  PROVE  IdNumber(m, t, s) # IdNumber(n, u, v)
<1> DEFINE k == MachineRange * SeqRange
           r == m * SeqRange + s
           q == n * SeqRange + v
<1>1. m \in 0 .. (MachineRange - 1) /\ n \in 0 .. (MachineRange - 1)
  BY IdAssumption
<1>2. k \in Nat /\ r \in Nat /\ r < k /\ q \in Nat /\ q < k
  BY <1>1, FieldsFit
<1>3. r < q
  <2>1. /\ m \in Nat /\ n \in Nat /\ m + 1 \in Nat /\ m + 1 <= n
        /\ SeqRange \in Nat /\ s \in Nat /\ v \in Nat /\ s < SeqRange
    BY <1>1, IdAssumption DEF SequenceIds
  <2>2. /\ m * SeqRange \in Nat /\ n * SeqRange \in Nat
        /\ (m + 1) * SeqRange <= n * SeqRange /\ (m + 1) * SeqRange = m * SeqRange + SeqRange
    BY <2>1, ProductMonotone
  <2>3. QED
    BY <2>1, <2>2
<1>4. t \in Nat /\ u \in Nat /\ t + 1 \in Nat /\ u + 1 \in Nat
  BY IdAssumption DEF Times
<1> HIDE DEF k, r, q
<1>5. /\ t * k \in Nat /\ u * k \in Nat
      /\ (t + 1) * k = t * k + k /\ (u + 1) * k = u * k + k
  BY <1>2, <1>4, ProductMonotone
<1>6. t * k + r # u * k + q
  <2>1. CASE t < u
    <3>1. t + 1 <= u
      BY <1>4, <2>1
    <3>2. (t + 1) * k <= u * k
      BY <1>2, <1>4, <3>1, ProductMonotone
    <3>3. QED
      BY <1>2, <1>5, <3>2
  <2>2. CASE u < t
    <3>1. u + 1 <= t
      BY <1>4, <2>2
    <3>2. (u + 1) * k <= t * k
      BY <1>2, <1>4, <3>1, ProductMonotone
    <3>3. QED
      BY <1>2, <1>5, <3>2
  <2>3. CASE t = u
    BY <1>2, <1>3, <1>5, <2>3
  <2>4. QED
    BY <1>4, <2>1, <2>2, <2>3
<1>7. QED
  BY <1>6 DEF IdNumber, k, r, q

-----------------------------------------------------------------------------
\* gen() returns an id beyond the generator's state: it is greater than all
\* before it, and it is what the state stands for afterwards.
LEMMA IssueStep ==
  ASSUME IInv, NEW m \in Machines, NEW u \in Times, NEW v \in SequenceIds,
         \/ m_lastTimestamp[m] < u
         \/ m_lastTimestamp[m] = u /\ ~spinning[m] /\ m_sequence[m] < v,
         Issue(m, u, v), spinning' = [spinning EXCEPT ![m] = FALSE],
         UNCHANGED <<clock, backs>>
  PROVE  IInv'
<1> USE DEF IInv
<1> DEFINE id == IdNumber(m, u, v)
<1>1. /\ m_lastTimestamp[m] \in Times /\ m_sequence[m] \in SequenceIds
      /\ SeqRange - 1 \in SequenceIds /\ issued[m] \in Seq(0 .. (Word - 1))
  BY IdAssumption DEF TypeOK, SequenceIds
<1>2. Top(m) < id
  BY <1>1, NumberMonotone DEF Top
<1>3. Pack(m, u, v) = id /\ id \in 0 .. (Word - 1)
  BY PackIsNumber
<1>4. Top(m) \in Int
  BY <1>1, PackIsNumber, IdAssumption DEF Top
<1>5. issued' = [issued EXCEPT ![m] = Append(@, id)]
  BY <1>3 DEF Issue
<1>6. /\ m_lastTimestamp' = [m_lastTimestamp EXCEPT ![m] = u]
      /\ m_sequence' = [m_sequence EXCEPT ![m] = v]
  BY DEF Issue
<1>7. \A n \in Machines : Top(n)' = IF n = m THEN id ELSE Top(n)
  <2>1. \A n \in Machines : /\ m_lastTimestamp'[n] = IF n = m THEN u ELSE m_lastTimestamp[n]
                            /\ m_sequence'[n] = IF n = m THEN v ELSE m_sequence[n]
                            /\ spinning'[n] = IF n = m THEN FALSE ELSE spinning[n]
    BY <1>6 DEF TypeOK
  <2>2. QED
    BY <2>1 DEF Top
<1> DEFINE old == issued[m]
<1>8. /\ old \in Seq(0 .. (Word - 1)) /\ Len(old) \in Nat /\ DOMAIN old = 1 .. Len(old)
      /\ issued'[m] = Append(old, id)
      /\ \A n \in Machines : n # m => issued'[n] = issued[n]
  BY <1>1, <1>5 DEF TypeOK
<1> HIDE DEF id
<1>9. /\ DOMAIN issued'[m] = 1 .. (Len(old) + 1)
      /\ \A i \in 1 .. Len(old) : issued'[m][i] = issued[m][i]
      /\ issued'[m][Len(old) + 1] = id
  BY <1>8
<1>10. \A i \in 1 .. Len(old) : issued[m][i] < id /\ issued[m][i] \in Int
  <2> SUFFICES ASSUME NEW i \in 1 .. Len(old) PROVE issued[m][i] < id /\ issued[m][i] \in Int
    OBVIOUS
  <2>1. issued[m][i] \in 0 .. (Word - 1)
    BY <1>1, <1>8, ElementOfIds
  <2>2. issued[m][i] <= Top(m)
    BY <1>8 DEF BelowTop
  <2>3. QED
    BY <1>2, <1>3, <1>4, <2>1, <2>2
<1>11. TypeOK'
  <2>1. Append(old, id) \in Seq(0 .. (Word - 1))
    BY <1>3, <1>8
  <2>2. issued' \in [Machines -> Seq(0 .. (Word - 1))]
    BY <1>5, <2>1 DEF TypeOK
  <2>3. QED
    BY <1>6, <2>2 DEF TypeOK
<1>12. IdsIncrease'
  <2> SUFFICES ASSUME NEW n \in Machines, NEW i \in DOMAIN issued'[n],
                      NEW j \in DOMAIN issued'[n], i < j
               PROVE  issued'[n][i] < issued'[n][j]
    BY DEF IdsIncrease
  <2>1. CASE n # m
    BY <1>8, <2>1 DEF IdsIncrease
  <2>2. CASE n = m
    <3>1. i \in 1 .. Len(old)
      BY <1>8, <1>9, <2>2
    <3>2. CASE j \in 1 .. Len(old)
      BY <1>8, <1>9, <2>2, <3>1, <3>2 DEF IdsIncrease
    <3>3. CASE j = Len(old) + 1
      BY <1>9, <1>10, <2>2, <3>1, <3>3
    <3>4. QED
      BY <1>8, <1>9, <2>2, <3>2, <3>3
  <2>3. QED
    BY <2>1, <2>2
<1>13. BelowTop'
  <2> SUFFICES ASSUME NEW n \in Machines, NEW i \in DOMAIN issued'[n]
               PROVE  issued'[n][i] <= Top(n)'
    BY DEF BelowTop
  <2>1. CASE n # m
    BY <1>7, <1>8, <2>1 DEF BelowTop
  <2>2. CASE n = m
    <3>1. id \in Int
      BY <1>3
    <3>2. CASE i \in 1 .. Len(old)
      BY <1>7, <1>9, <1>10, <2>2, <3>1, <3>2
    <3>3. CASE i = Len(old) + 1
      BY <1>7, <1>9, <2>2, <3>1, <3>3
    <3>4. QED
      BY <1>8, <1>9, <2>2, <3>2, <3>3
  <2>3. QED
    BY <2>1, <2>2
<1>14. PackedIds'
  <2> SUFFICES ASSUME NEW n \in Machines, NEW i \in DOMAIN issued'[n]
               PROVE  \E stamp \in Times, s \in SequenceIds : issued'[n][i] = IdNumber(n, stamp, s)
    BY DEF PackedIds
  <2>1. CASE n # m
    BY <1>8, <2>1 DEF PackedIds
  <2>2. CASE n = m /\ i \in 1 .. Len(old)
    BY <1>8, <1>9, <2>2 DEF PackedIds
  <2>3. CASE n = m /\ i = Len(old) + 1
    BY <1>9, <2>3 DEF id
  <2>4. QED
    BY <1>8, <1>9, <2>1, <2>2, <2>3
<1>15. QED
  BY <1>11, <1>12, <1>13, <1>14

LEMMA IInvInit == Init => IInv
BY IdAssumption DEF Init, IInv, TypeOK, IdsIncrease, BelowTop, PackedIds, SequenceIds

\* The steps that make no id never lower Top.
LEMMA QuietStep ==
  ASSUME IInv, TypeOK', issued' = issued,
         \A m \in Machines : Top(m) <= Top(m)' /\ Top(m) \in Int /\ Top(m)' \in Int
  PROVE  IInv'
<1>1. IdsIncrease' /\ PackedIds'
  BY DEF IInv, IdsIncrease, PackedIds
<1>2. BelowTop'
  <2> SUFFICES ASSUME NEW m \in Machines, NEW i \in DOMAIN issued[m]
               PROVE  issued[m][i] <= Top(m)'
    BY DEF BelowTop
  <2>1. issued[m][i] \in Int /\ issued[m][i] <= Top(m)
    <3>1. issued[m] \in Seq(0 .. (Word - 1))
      BY DEF IInv, TypeOK
    <3>2. issued[m][i] \in 0 .. (Word - 1)
      BY <3>1, ElementOfIds
    <3>3. QED
      BY <3>2, IdAssumption DEF IInv, BelowTop
  <2>2. QED
    BY <2>1
<1>3. QED
  BY <1>1, <1>2 DEF IInv

LEMMA IInvStep == IInv /\ [Next]_vars => IInv'
<1> SUFFICES ASSUME IInv, [Next]_vars PROVE IInv'
  OBVIOUS
<1>1. TypeOK /\ IdAssumption
  BY IdAssumption DEF IInv
<1>2. \A m \in Machines : /\ clock[m] \in Times /\ m_lastTimestamp[m] \in Times
                          /\ m_sequence[m] \in SequenceIds /\ spinning[m] \in BOOLEAN
                          /\ Top(m) \in Int
  <2> SUFFICES ASSUME NEW m \in Machines
               PROVE  /\ clock[m] \in Times /\ m_lastTimestamp[m] \in Times
                      /\ m_sequence[m] \in SequenceIds /\ spinning[m] \in BOOLEAN
                      /\ Top(m) \in Int
    OBVIOUS
  <2>1. /\ clock[m] \in Times /\ m_lastTimestamp[m] \in Times
        /\ m_sequence[m] \in SequenceIds /\ spinning[m] \in BOOLEAN
    BY <1>1 DEF TypeOK
  <2>2. SeqRange - 1 \in SequenceIds
    BY <1>1 DEF IdAssumption, SequenceIds
  <2>3. QED
    BY <1>1, <2>1, <2>2, PackIsNumber DEF Top, IdAssumption
<1>3. 0 \in SequenceIds /\ SeqRange - 1 \in SequenceIds
      /\ \A s \in SequenceIds : s <= SeqRange - 1 /\ s \in Int
      /\ \A t \in Times : t \in Int
  BY <1>1 DEF IdAssumption, SequenceIds, Times
<1>4. ASSUME NEW m \in Machines, GenNewMs(m) PROVE IInv'
  <2>1. spinning' = [spinning EXCEPT ![m] = FALSE]
    BY <1>1, <1>4 DEF GenNewMs, TypeOK
  <2>2. m_lastTimestamp[m] < clock[m]
    BY <1>2, <1>3, <1>4 DEF GenNewMs
  <2>3. QED
    BY <1>2, <1>3, <1>4, <2>1, <2>2, IssueStep DEF GenNewMs
<1>5. ASSUME NEW m \in Machines, GenSameMs(m) PROVE IInv'
  <2>1. spinning' = [spinning EXCEPT ![m] = FALSE]
    BY <1>1, <1>5 DEF GenSameMs, TypeOK
  <2>2. m_sequence[m] + 1 \in SequenceIds /\ m_sequence[m] < m_sequence[m] + 1
    BY <1>1, <1>2, <1>5 DEF GenSameMs, SequenceIds, IdAssumption
  <2>3. QED
    BY <1>2, <1>5, <2>1, <2>2, IssueStep DEF GenSameMs
<1>6. ASSUME NEW m \in Machines, ToNextMs(m) PROVE IInv'
  <2>1. m_lastTimestamp[m] < clock[m]
    BY <1>2, <1>3, <1>6 DEF ToNextMs
  <2>2. QED
    BY <1>2, <1>3, <1>6, <2>1, IssueStep DEF ToNextMs
<1>7. ASSUME NEW m \in Machines, GenWrap(m) PROVE IInv'
  <2>1. TypeOK' /\ issued' = issued
    BY <1>1, <1>3, <1>7 DEF GenWrap, TypeOK
  <2>2. \A n \in Machines : Top(n)' = Top(n)
    <3> SUFFICES ASSUME NEW n \in Machines PROVE Top(n)' = Top(n)
      OBVIOUS
    <3>1. m_lastTimestamp'[n] = m_lastTimestamp[n]
      BY <1>7 DEF GenWrap
    <3>2. CASE n # m
      <4>1. m_sequence'[n] = m_sequence[n] /\ spinning'[n] = spinning[n]
        BY <1>1, <1>7, <3>2 DEF GenWrap, TypeOK
      <4>2. QED
        BY <3>1, <4>1 DEF Top
    <3>3. CASE n = m
      <4>1. spinning'[n] /\ ~spinning[n] /\ m_sequence[n] = SeqRange - 1
        BY <1>1, <1>2, <1>7, <3>3 DEF GenWrap, TypeOK, SequenceIds, IdAssumption
      <4>2. QED
        BY <3>1, <4>1 DEF Top
    <3>4. QED
      BY <3>2, <3>3
  <2>3. QED
    BY <1>2, <2>1, <2>2, QuietStep
<1>8. ASSUME NEW m \in Machines, Restart(m) PROVE IInv'
  <2>1. TypeOK' /\ issued' = issued
    BY <1>1, <1>2, <1>3, <1>8 DEF Restart, TypeOK
  <2>2. \A n \in Machines : Top(n) <= Top(n)' /\ Top(n)' \in Int
    <3> SUFFICES ASSUME NEW n \in Machines PROVE Top(n) <= Top(n)' /\ Top(n)' \in Int
      OBVIOUS
    <3>1. CASE n # m
      <4>1. /\ m_sequence'[n] = m_sequence[n] /\ spinning'[n] = spinning[n]
            /\ m_lastTimestamp'[n] = m_lastTimestamp[n]
        BY <1>1, <1>8, <3>1 DEF Restart, TypeOK
      <4>2. Top(n)' = Top(n)
        BY <4>1 DEF Top
      <4>3. QED
        BY <1>2, <4>2
    <3>2. CASE n = m
      <4>1. /\ m_sequence'[n] = 0 /\ spinning'[n] = spinning[n] /\ ~spinning[n]
            /\ m_lastTimestamp'[n] = clock[n] /\ m_lastTimestamp[n] < clock[n]
        BY <1>1, <1>2, <1>3, <1>8, <3>2 DEF Restart, TypeOK
      <4>2. Top(n)' = IdNumber(n, clock[n], 0) /\ Top(n) = IdNumber(n, m_lastTimestamp[n], m_sequence[n])
        BY <4>1 DEF Top
      <4>3. IdNumber(n, m_lastTimestamp[n], m_sequence[n]) < IdNumber(n, clock[n], 0)
        BY <1>2, <1>3, <4>1, NumberMonotone
      <4>4. IdNumber(n, clock[n], 0) \in Int
        BY <1>1, <1>2, <1>3, PackIsNumber DEF IdAssumption
      <4>5. QED
        BY <1>2, <4>2, <4>3, <4>4
    <3>3. QED
      BY <3>1, <3>2
  <2>3. QED
    BY <1>2, <2>1, <2>2, QuietStep
<1>9. ASSUME NEW m \in Machines, Tick(m) \/ SetBack(m) PROVE IInv'
  <2>1. TypeOK' /\ UNCHANGED <<issued, m_lastTimestamp, m_sequence, spinning>>
    <3>1. CASE Tick(m)
      BY <1>1, <3>1 DEF Tick, TypeOK
    <3>2. CASE SetBack(m)
      BY <1>1, <3>2 DEF SetBack, TypeOK, IdAssumption
    <3>3. QED
      BY <1>9, <3>1, <3>2
  <2>2. \A n \in Machines : Top(n)' = Top(n)
    BY <2>1 DEF Top
  <2>3. QED
    BY <1>2, <2>1, <2>2, QuietStep
<1>10. CASE UNCHANGED vars
  BY <1>10 DEF vars, IInv, TypeOK, IdsIncrease, BelowTop, PackedIds, Top
<1>11. QED
  BY <1>4, <1>5, <1>6, <1>7, <1>8, <1>9, <1>10 DEF Next

LEMMA Invariant == Spec => []IInv
BY IInvInit, IInvStep, PTL DEF Spec

-----------------------------------------------------------------------------
\* gen() never returns an id that is not greater than all it returned before,
\* through used-up milliseconds, clocks set back and restarts.
THEOREM IdsIncreaseAlways == Spec => []IdsIncrease
BY Invariant, PTL DEF IInv

\* The ids of two machines differ, whatever their clocks say.
THEOREM IdsDistinctAlways == Spec => []IdsDistinct
<1>1. IInv => IdsDistinct
  <2> SUFFICES ASSUME IInv, NEW m \in Machines, NEW n \in Machines, m # n,
                      NEW i \in DOMAIN issued[m], NEW j \in DOMAIN issued[n]
               PROVE  issued[m][i] # issued[n][j]
    BY DEF IdsDistinct
  <2>1. PICK t \in Times, s \in SequenceIds : issued[m][i] = IdNumber(m, t, s)
    BY DEF IInv, PackedIds
  <2>2. PICK u \in Times, v \in SequenceIds : issued[n][j] = IdNumber(n, u, v)
    BY DEF IInv, PackedIds
  <2>3. m \in Int /\ n \in Int
    BY IdAssumption
  <2>4. CASE m < n
    BY <2>1, <2>2, <2>4, NumberOfMachine
  <2>5. CASE n < m
    BY <2>1, <2>2, <2>5, NumberOfMachine
  <2>6. QED
    BY <2>3, <2>4, <2>5
<1>2. QED
  BY <1>1, Invariant, PTL

\* m_sequence never leaves its bits and the time stamps their range, so that
\* the three fields of an id do not run into each other.
THEOREM IdTypeCorrect == Spec => []TypeOK
BY Invariant, PTL DEF IInv

-----------------------------------------------------------------------------
-----------------------------------------------------------------------------
(* FileLock.  Who believes to have the lock of a file that could be opened, *)
(* without being interrupted, has it.                                       *)
LockInv ==
  /\ DOMAIN obj = {"open", "own", "in", "signalled"} /\ DOMAIN pc = LockUsers
  /\ \A t, u \in obj.own : t = u
  /\ obj.in \ obj.signalled \subseteq obj.own \union (LockUsers \ obj.open)
  /\ obj.in \subseteq LockUsers

\* The lock is held by one process as long as it is asked for.
LEMMA LockInvInit == FileLockInit => LockInv
  BY DEF FileLockInit, LockInv

\* lock(), trylock(), unlock() and a copy keep it.
LEMMA LockStep == class = "fileLock" /\ LockInv /\ FileLockNext => LockInv'
<1> SUFFICES ASSUME LockInv, NEW t \in LockUsers,
                    fileLock(t) \/ fileTrylock(t) \/ fileUnlock(t) \/ fileCopy(t)
             PROVE  LockInv'
  BY DEF FileLockNext
<1> USE DEF LockInv
<1>1. DOMAIN pc' = DOMAIN pc /\ DOMAIN obj' = DOMAIN obj
  BY DEF fileLock, fileTrylock, fileUnlock, fileCopy, Go, Stay
<1>2. CASE fileLock(t) \/ fileTrylock(t)
  <2>1. obj'.open = obj.open /\ obj'.in = obj.in \union {t}
    BY <1>2 DEF fileLock, fileTrylock
  <2>2. \/ t \notin obj.open /\ obj'.own = obj.own /\ obj'.signalled = obj.signalled
        \/ obj.own = {} /\ obj'.own = {t} /\ obj'.signalled = obj.signalled
        \/ obj'.own = obj.own /\ obj'.signalled = obj.signalled \union {t}
    BY <1>2 DEF fileLock, fileTrylock
  <2>3. QED
    BY <1>1, <2>1, <2>2
<1>3. CASE fileUnlock(t)
  <2>1. /\ obj'.open = obj.open /\ obj'.in = obj.in \ {t} /\ obj'.own = obj.own \ {t}
        /\ obj'.signalled = obj.signalled \ {t}
    BY <1>3 DEF fileUnlock
  <2>2. QED
    BY <1>1, <2>1
<1>4. CASE fileCopy(t)
  <2>1. /\ obj'.open = obj.open \ {t} /\ obj'.in = obj.in /\ obj'.own = obj.own \ {t}
        /\ obj'.signalled = obj.signalled
    BY <1>4 DEF fileCopy
  <2>2. QED
    BY <1>1, <2>1
<1>5. QED
  BY <1>2, <1>3, <1>4

\* Two that are in, uninterrupted, have the lock or no file.
LEMMA LockHeld == LockInv => LockExclusive
  BY DEF LockInv, LockExclusive

-----------------------------------------------------------------------------
(* SHM and DllLoader.                                                       *)
MappedInv ==
  /\ DOMAIN obj = {"data", "maps", "seg", "known", "dll", "loads", "again"}
  /\ obj.maps \in Nat /\ obj.dll \in {0, 1, 2} /\ obj.loads \in [{1, 2} -> Nat]
  /\ obj.again \in BOOLEAN
  /\ obj.data = "mapped" => obj.maps > 0
  /\ ~obj.again => obj.maps = (IF obj.data = "mapped" THEN 1 ELSE 0)
  /\ \A d \in {1, 2} : obj.loads[d] = (IF obj.dll = d THEN 1 ELSE 0)

LEMMA MappedInvInit == MappedInit => MappedInv
  BY DEF MappedInit, MappedInv

LEMMA MappedStep == class = "mapped" /\ MappedInv /\ MappedNext => MappedInv'
<1> SUFFICES ASSUME MappedInv, MappedNext PROVE MappedInv'
  OBVIOUS
<1> USE DEF MappedInv
<1>1. CASE shmCreate
  <2>1. /\ DOMAIN obj' = DOMAIN obj /\ obj'.dll = obj.dll /\ obj'.loads = obj.loads
        /\ \/ obj'.data = "mapped" /\ obj'.maps = obj.maps + 1
           \/ obj'.data = "-1" /\ obj'.maps = obj.maps
    BY <1>1 DEF shmCreate
  <2>2. obj'.again \in BOOLEAN /\ (~obj'.again => ~obj.again /\ ~(obj.maps > 0))
    BY <1>1 DEF shmCreate
  <2>3. QED
    BY <2>1, <2>2
<1>2. CASE shmDestroy
  <2>1. /\ DOMAIN obj' = DOMAIN obj /\ obj'.dll = obj.dll /\ obj'.loads = obj.loads
        /\ obj'.again = obj.again /\ obj'.data = "nullptr"
        /\ obj'.maps = IF obj.data = "mapped" THEN obj.maps - 1 ELSE obj.maps
    BY <1>2 DEF shmDestroy
  <2>2. QED
    BY <2>1
<1>3. CASE dllUnload
  <2>1. /\ DOMAIN obj' = DOMAIN obj /\ obj'.data = obj.data /\ obj'.maps = obj.maps
        /\ obj'.again = obj.again /\ obj'.dll = 0 /\ obj.dll \in {1, 2}
        /\ obj'.loads = [obj.loads EXCEPT ![obj.dll] = obj.loads[obj.dll] - 1]
    BY <1>3 DEF dllUnload
  <2>2. QED
    BY <2>1
<1>4. ASSUME NEW d \in {1, 2}, dllLoad(d) PROVE MappedInv'
  <2> DEFINE none == IF obj.dll = 0 THEN obj.loads
                     ELSE [obj.loads EXCEPT ![obj.dll] = obj.loads[obj.dll] - 1]
  <2>1. /\ DOMAIN obj' = DOMAIN obj /\ obj'.data = obj.data /\ obj'.maps = obj.maps
        /\ obj'.again = obj.again
        /\ \/ obj'.dll = d /\ obj'.loads = [none EXCEPT ![d] = none[d] + 1]
           \/ obj'.dll = 0 /\ obj'.loads = none
    BY <1>4 DEF dllLoad
  <2>2. none \in [{1, 2} -> Nat] /\ \A e \in {1, 2} : none[e] = 0
    OBVIOUS
  <2> HIDE DEF none
  <2>3. QED
    BY <2>1, <2>2
<1>5. QED
  BY <1>1, <1>2, <1>3, <1>4 DEF MappedNext

LEMMA MappedHeld == MappedInv => MappedOnce
  BY DEF MappedInv, MappedOnce

-----------------------------------------------------------------------------
\* Every set of naturals with an element has a least one.
LEMMA LeastIndex ==
  ASSUME NEW T \in SUBSET Nat, T # {}
  PROVE  \E m \in T : \A k \in T : m <= k
<1> DEFINE R == OpToRel(<, Nat)
<1>1. IsWellFoundedOn(R, Nat)
  BY NatLessThanWellFounded
<1>2. PICK m \in T : \A k \in T : ~ (<<k, m>> \in R)
  <2> HIDE DEF R
  <2> QED BY <1>1, WFMin
<1>3. R = {ss \in Nat \X Nat : ss[1] < ss[2]}
  BY DEF OpToRel
<1> HIDE DEF R
<1>4. ASSUME NEW k \in T PROVE m <= k
  <2>1. <<k, m>> \in Nat \X Nat /\ <<k, m>>[1] = k /\ <<k, m>>[2] = m
    OBVIOUS
  <2>2. ~ (k < m)
    BY <1>2, <1>3, <2>1, Zenon
  <2>3. QED
    BY <2>2
<1>5. QED
  BY <1>4


-----------------------------------------------------------------------------
(* Socket.  A descriptor that is open is in one pair of hands.              *)
FdKinds == {"none", "stdin", "fresh", "listening", "connected"}
FdState == [kind : FdKinds, nonblock : BOOLEAN]
SocketsState ==
  [os : [Fds -> FdState], fd : [SocketIds -> Fds \union {INVALID_SOCKET}],
   mode : [SocketIds -> {"Blocking", "NonBlocking"}], user : SUBSET Fds,
   foreign : SUBSET SocketIds, zero : BOOLEAN, junk : BOOLEAN]

\* Whose a descriptor is; for 0, that accept() gave it.
OneOwner(o) ==
  /\ \A f \in Fds \ {0} :
       o.os[f].kind # "none" <=> f \in o.user \/ \E s \in SocketIds : o.fd[s] = f
  /\ \A s \in SocketIds : o.fd[s] \in Fds \ {0} => o.fd[s] \notin o.user
  /\ \A s, t \in SocketIds : o.fd[s] \in Fds \ {0} /\ o.fd[s] = o.fd[t] => s = t
  /\ 0 \in o.user \/ (\E s \in SocketIds : o.fd[s] = 0) \/ o.os[0].kind # "stdin" => o.zero

\* Whether it blocks.
AsBelieved(o) ==
  \A s \in SocketIds : o.fd[s] \in Fds \ {0} /\ s \notin o.foreign =>
    (o.os[o.fd[s]].nonblock <=> o.mode[s] = "NonBlocking")

SocketsInv == obj \in SocketsState /\ (~obj.junk => OneOwner(obj) /\ AsBelieved(obj))

\* Descriptors are numbers, and 0 is one.
LEMMA FdsAre == Fds \in SUBSET Nat /\ 0 \in Fds /\ INVALID_SOCKET \notin Fds
  BY SocketsAssumption DEF Fds, INVALID_SOCKET

\* A new descriptor is one that was not open.
LEMMA NewIsFree ==
  ASSUME NEW os \in [Fds -> FdState], FreeFds(os) # {}
  PROVE  NewFd(os) \in Fds /\ os[NewFd(os)].kind = "none"
<1>1. FreeFds(os) \in SUBSET Nat
  BY FdsAre DEF FreeFds
<1>2. \E f \in FreeFds(os) : \A g \in FreeFds(os) : f <= g
  BY <1>1, LeastIndex
<1>3. NewFd(os) \in FreeFds(os)
  BY <1>2 DEF NewFd
<1>4. QED
  BY <1>3 DEF FreeFds

\* Flags multiplied with O_NONBLOCK are never O_NONBLOCK, so no descriptor
\* that is taken over is found not to block.
LEMMA NeverNonBlocking ==
  ASSUME NEW os \in [Fds -> FdState], NEW f \in Fds
  PROVE  ~IsNonBlocking(os, f)
  BY DEF IsNonBlocking, O_RDWR, O_NONBLOCK

\* close() gives the descriptor back, and nothing else.
LEMMA ClosedKept ==
  ASSUME NEW o \in SocketsState, OneOwner(o), AsBelieved(o), NEW s \in SocketIds
  PROVE  /\ Closed(o, s) \in SocketsState /\ OneOwner(Closed(o, s)) /\ AsBelieved(Closed(o, s))
         /\ Closed(o, s).fd = [o.fd EXCEPT ![s] = INVALID_SOCKET]
         /\ Closed(o, s).user = o.user /\ Closed(o, s).mode = o.mode
         /\ Closed(o, s).zero = o.zero /\ Closed(o, s).junk = o.junk
<1> DEFINE c == Closed(o, s)
<1> USE FdsAre
<1>1. /\ c.os = ClosedOs(o, s) /\ c.fd = [o.fd EXCEPT ![s] = INVALID_SOCKET]
      /\ c.foreign = o.foreign \ {s} /\ c.user = o.user /\ c.mode = o.mode
      /\ c.zero = o.zero /\ c.junk = o.junk
  BY DEF Closed, SocketsState
<1>2. c \in SocketsState
  <2>1. ClosedOs(o, s) \in [Fds -> FdState]
    BY DEF ClosedOs, SocketsState, FdState, FdKinds, Unused
  <2>2. QED
    BY <2>1 DEF Closed, SocketsState
<1>3. CASE o.fd[s] = INVALID_SOCKET
  <2>1. c.os = o.os /\ c.fd = o.fd
    BY <1>1, <1>3 DEF ClosedOs, SocketsState
  <2>2. QED
    BY <1>1, <1>2, <1>3, <2>1 DEF OneOwner, AsBelieved, SocketsState
<1>4. CASE o.fd[s] # INVALID_SOCKET
  <2>1. o.fd[s] \in Fds /\ c.os = [o.os EXCEPT ![o.fd[s]] = Unused]
    BY <1>1, <1>4 DEF ClosedOs, SocketsState
  <2>2. \A f \in Fds : c.os[f] = IF f = o.fd[s] THEN Unused ELSE o.os[f]
    BY <2>1 DEF SocketsState
  <2>3. \A t \in SocketIds : c.fd[t] = IF t = s THEN INVALID_SOCKET ELSE o.fd[t]
    BY <1>1 DEF SocketsState
  <2>4. Unused.kind = "none"
    BY DEF Unused
  <2>5. OneOwner(c)
    <3>1. ASSUME NEW f \in Fds \ {0}
          PROVE  c.os[f].kind # "none" <=> f \in c.user \/ \E t \in SocketIds : c.fd[t] = f
      BY <1>1, <2>1, <2>2, <2>3, <2>4 DEF OneOwner
    <3>2. QED
      BY <1>1, <2>1, <2>2, <2>3, <3>1 DEF OneOwner
  <2>6. AsBelieved(c)
    BY <1>1, <2>1, <2>2, <2>3 DEF AsBelieved, OneOwner
  <2>7. QED
    BY <1>1, <1>2, <2>5, <2>6
<1>5. QED
  BY <1>3, <1>4

\* At first there is standard input.
LEMMA SocketsInvInit == SocketsInit => SocketsInv
<1> SUFFICES ASSUME SocketsInit PROVE SocketsInv
  OBVIOUS
<1>1. [f \in Fds |-> IF f = 0 THEN [Unused EXCEPT !.kind = "stdin"] ELSE Unused] \in [Fds -> FdState]
  BY DEF Unused, FdState, FdKinds
<1>2. obj \in SocketsState
  BY <1>1 DEF SocketsInit, SocketsState
<1>3. QED
  BY <1>2, FdsAre DEF SocketsInit, SocketsInv, OneOwner, AsBelieved, Unused

\* From o to p, a socket that holds nothing gets a descriptor nobody else has.
FdGiven(o, s, f, p) ==
  /\ o.fd[s] = INVALID_SOCKET /\ p.fd = [o.fd EXCEPT ![s] = f]
  /\ (o.zero => p.zero) /\ (f = 0 => p.zero)
  /\ \A t \in SocketIds : o.fd[t] # f \/ f = 0
  /\ f \in o.user \/ f = 0 \/ o.os[f].kind = "none"
  /\ p.user \subseteq o.user
  /\ \A g \in Fds \ {0} : g \in p.user <=> g \in o.user \ {f}
  /\ \A g \in Fds \ {f} : p.os[g] = o.os[g]
  /\ p.os[f].kind # "none" \/ f = 0
  /\ \A t \in SocketIds \ {s} : p.mode[t] = o.mode[t] /\ (t \in o.foreign => t \in p.foreign)
  /\ f = 0 \/ s \in p.foreign \/ (p.os[f].nonblock <=> p.mode[s] = "NonBlocking")

LEMMA GivenKept ==
  ASSUME NEW o \in SocketsState, OneOwner(o), AsBelieved(o), NEW s \in SocketIds,
         NEW f \in Fds, NEW p \in SocketsState, FdGiven(o, s, f, p)
  PROVE  OneOwner(p) /\ AsBelieved(p)
<1> USE DEF FdGiven
<1>1. \A t \in SocketIds : p.fd[t] = IF t = s THEN f ELSE o.fd[t]
  BY DEF SocketsState
<1>2. OneOwner(p)
  <2>1. ASSUME NEW g \in Fds \ {0}
        PROVE  p.os[g].kind # "none" <=> g \in p.user \/ \E t \in SocketIds : p.fd[t] = g
    BY <1>1, FdsAre DEF OneOwner
  <2>2. \A t \in SocketIds : p.fd[t] \in Fds \ {0} => p.fd[t] \notin p.user
    BY <1>1, FdsAre DEF OneOwner
  <2>3. \A t, u \in SocketIds : p.fd[t] \in Fds \ {0} /\ p.fd[t] = p.fd[u] => t = u
    BY <1>1, FdsAre DEF OneOwner
  <2>4. 0 \in p.user \/ (\E t \in SocketIds : p.fd[t] = 0) \/ p.os[0].kind # "stdin" => p.zero
    BY <1>1, FdsAre DEF OneOwner
  <2>5. QED
    BY <2>1, <2>2, <2>3, <2>4 DEF OneOwner
<1>3. AsBelieved(p)
  <2> SUFFICES ASSUME NEW t \in SocketIds, p.fd[t] \in Fds \ {0}, t \notin p.foreign
               PROVE  p.os[p.fd[t]].nonblock <=> p.mode[t] = "NonBlocking"
    BY DEF AsBelieved
  <2>1. CASE t = s
    BY <1>1, <2>1
  <2>2. CASE t # s
    <3>1. p.fd[t] = o.fd[t] /\ o.fd[t] \in Fds \ {f}
      BY <1>1, <2>2
    <3>2. p.os[o.fd[t]] = o.os[o.fd[t]] /\ p.mode[t] = o.mode[t] /\ t \notin o.foreign
      BY <2>2, <3>1
    <3>3. o.os[o.fd[t]].nonblock <=> o.mode[t] = "NonBlocking"
      BY <3>1, <3>2 DEF AsBelieved
    <3>4. QED
      BY <3>1, <3>2, <3>3
  <2>3. QED
    BY <2>1, <2>2
<1>4. QED
  BY <1>2, <1>3

\* What taking a descriptor over changes.
LEMMA HoldingIs ==
  ASSUME NEW o \in SocketsState, NEW s \in SocketIds, NEW f \in Fds
  PROVE  /\ Holding(o, s, f) \in SocketsState
         /\ Holding(o, s, f).os = o.os /\ Holding(o, s, f).user = o.user
         /\ Holding(o, s, f).fd = [o.fd EXCEPT ![s] = f]
         /\ Holding(o, s, f).zero = o.zero /\ Holding(o, s, f).junk = o.junk
         /\ \A t \in SocketIds \ {s} : /\ Holding(o, s, f).mode[t] = o.mode[t]
                                       /\ t \in o.foreign <=> t \in Holding(o, s, f).foreign
         /\ Holding(o, s, f).mode[s] = "Blocking"
         /\ s \in Holding(o, s, f).foreign <=> o.os[f].nonblock
<1>1. f # INVALID_SOCKET
  BY FdsAre
<1>2. ~(f # INVALID_SOCKET /\ IsNonBlocking(o.os, f))
  BY NeverNonBlocking DEF SocketsState
<1>3. Holding(o, s, f) =
        [o EXCEPT !.fd = [@ EXCEPT ![s] = f], !.mode = [@ EXCEPT ![s] = "Blocking"],
                  !.foreign = IF o.os[f].nonblock THEN @ \union {s} ELSE @ \ {s}]
  BY <1>1, <1>2 DEF Holding
<1> DEFINE h == Holding(o, s, f)
<1>4. /\ h.os = o.os /\ h.user = o.user /\ h.zero = o.zero /\ h.junk = o.junk
      /\ h.fd = [o.fd EXCEPT ![s] = f] /\ h.mode = [o.mode EXCEPT ![s] = "Blocking"]
      /\ h.foreign = IF o.os[f].nonblock THEN o.foreign \union {s} ELSE o.foreign \ {s}
      /\ DOMAIN h = DOMAIN o
  BY <1>3 DEF SocketsState
<1>5. h \in SocketsState
  <2>1. o.foreign \union {s} \in SUBSET SocketIds /\ o.foreign \ {s} \in SUBSET SocketIds
    BY DEF SocketsState
  <2>2. [o.fd EXCEPT ![s] = f] \in [SocketIds -> Fds \union {INVALID_SOCKET}]
    BY DEF SocketsState
  <2>3. [o.mode EXCEPT ![s] = "Blocking"] \in [SocketIds -> {"Blocking", "NonBlocking"}]
    BY DEF SocketsState
  <2>4. QED
    BY <1>3, <2>1, <2>2, <2>3 DEF SocketsState
<1> HIDE DEF h
<1>6. \A t \in SocketIds : h.mode[t] = IF t = s THEN "Blocking" ELSE o.mode[t]
  BY <1>4 DEF SocketsState
<1>7. s \in h.foreign <=> o.os[f].nonblock
  BY <1>4
<1>8. \A t \in SocketIds \ {s} : t \in o.foreign <=> t \in h.foreign
  BY <1>4
<1>9. QED
  BY <1>4, <1>5, <1>6, <1>7, <1>8 DEF h

\* From o to p, what is at the descriptor a socket holds changes, and the
\* socket knows it.
FdChanged(o, s, f, p) ==
  /\ o.fd[s] = f /\ p.fd = o.fd /\ p.user = o.user /\ p.zero = o.zero
  /\ \A g \in Fds \ {f} : p.os[g] = o.os[g]
  /\ o.os[f].kind = "none" <=> p.os[f].kind = "none"
  /\ f = 0 => o.os[f].kind = p.os[f].kind
  /\ \A t \in SocketIds \ {s} : p.mode[t] = o.mode[t] /\ (t \in o.foreign => t \in p.foreign)
  /\ f = 0 \/ s \in p.foreign \/ (p.os[f].nonblock <=> p.mode[s] = "NonBlocking")

LEMMA ChangedKept ==
  ASSUME NEW o \in SocketsState, OneOwner(o), AsBelieved(o), NEW s \in SocketIds,
         NEW f \in Fds, NEW p \in SocketsState, FdChanged(o, s, f, p)
  PROVE  OneOwner(p) /\ AsBelieved(p)
<1> USE DEF FdChanged
<1>1. OneOwner(p)
  <2>1. \A g \in Fds : p.os[g].kind = "none" <=> o.os[g].kind = "none"
    OBVIOUS
  <2>2. p.os[0].kind = "stdin" <=> o.os[0].kind = "stdin"
    BY FdsAre
  <2>3. QED
    BY <2>1, <2>2 DEF OneOwner
<1>2. AsBelieved(p)
  <2> SUFFICES ASSUME NEW t \in SocketIds, p.fd[t] \in Fds \ {0}, t \notin p.foreign
               PROVE  p.os[p.fd[t]].nonblock <=> p.mode[t] = "NonBlocking"
    BY DEF AsBelieved
  <2>1. CASE t = s
    BY <2>1
  <2>2. CASE t # s
    <3>1. o.fd[t] \in Fds \ {f}
      BY <2>2 DEF OneOwner
    <3>2. p.os[o.fd[t]] = o.os[o.fd[t]] /\ p.mode[t] = o.mode[t] /\ t \notin o.foreign
      BY <2>2, <3>1
    <3>3. o.os[o.fd[t]].nonblock <=> o.mode[t] = "NonBlocking"
      BY <3>1, <3>2 DEF AsBelieved
    <3>4. QED
      BY <3>1, <3>2, <3>3
  <2>3. QED
    BY <2>1, <2>2
<1>3. QED
  BY <1>1, <1>2

\* From o to p, descriptors of the user change, and only those.
UsersChanged(o, D, p) ==
  /\ o.zero \/ 0 \notin D
  /\ \A t \in SocketIds : o.fd[t] \notin D \/ o.fd[t] = 0
  /\ \A g \in Fds \ D : p.os[g] = o.os[g] /\ (g \in p.user <=> g \in o.user)
  /\ \A g \in D : p.os[g].kind # "none" <=> g \in p.user
  /\ p.fd = o.fd /\ p.zero = o.zero /\ p.mode = o.mode /\ p.foreign = o.foreign

LEMMA UsersKept ==
  ASSUME NEW o \in SocketsState, OneOwner(o), AsBelieved(o), NEW p \in SocketsState,
         NEW D \in SUBSET Fds, UsersChanged(o, D, p)
  PROVE  OneOwner(p) /\ AsBelieved(p)
<1> USE DEF UsersChanged
<1>1. OneOwner(p)
  <2>1. ASSUME NEW g \in Fds \ {0}
        PROVE  p.os[g].kind # "none" <=> g \in p.user \/ \E t \in SocketIds : p.fd[t] = g
    BY DEF OneOwner
  <2>2. 0 \in p.user \/ (\E t \in SocketIds : p.fd[t] = 0) \/ p.os[0].kind # "stdin" => p.zero
    BY FdsAre DEF OneOwner
  <2>3. \A t \in SocketIds : p.fd[t] \in Fds \ {0} => p.fd[t] \notin p.user
    BY DEF OneOwner
  <2>4. \A t, u \in SocketIds : p.fd[t] \in Fds \ {0} /\ p.fd[t] = p.fd[u] => t = u
    BY DEF OneOwner
  <2>5. QED
    BY <2>1, <2>2, <2>3, <2>4 DEF OneOwner
<1>2. AsBelieved(p)
  BY DEF AsBelieved
<1>3. QED
  BY <1>1, <1>2

\* A descriptor that is not open is nobody's.
LEMMA FreeIsNobodys ==
  ASSUME NEW o \in SocketsState, OneOwner(o), NEW f \in Fds \ {0}, o.os[f].kind = "none"
  PROVE  f \notin o.user /\ \A t \in SocketIds : o.fd[t] # f
  BY DEF OneOwner

\* create() and closing.
LEMMA CreateStep ==
  ASSUME SocketsInv, NEW s \in SocketIds, create(s)
  PROVE  SocketsInv'
<1> USE FdsAre
<1> DEFINE c == Closed(obj, s)
<1>1. /\ obj \in SocketsState /\ OneOwner(obj) /\ AsBelieved(obj) /\ ~obj.junk
  BY DEF SocketsInv, create, SocketsAt
<1>2. /\ c \in SocketsState /\ OneOwner(c) /\ AsBelieved(c) /\ c.zero = obj.zero
      /\ c.fd = [obj.fd EXCEPT ![s] = INVALID_SOCKET] /\ c.junk = obj.junk
  BY <1>1, ClosedKept
<1>3. CASE obj' = c
  BY <1>2, <1>3 DEF SocketsInv
<1>4. CASE /\ FreeFds(c.os) # {}
           /\ LET f == NewFd(c.os)
              IN obj' = [c EXCEPT !.fd[s] = f,
                                  !.os = SetBlockingOf(OpenAs(c.os, f, "fresh"), f, c.mode[s])]
  <2> DEFINE f == NewFd(c.os)
             n == SetBlockingOf(OpenAs(c.os, f, "fresh"), f, c.mode[s])
  <2> HIDE DEF c
  <2>1. f \in Fds /\ c.os[f].kind = "none" /\ c.os \in [Fds -> FdState]
    BY <1>2, <1>4, NewIsFree DEF SocketsState
  <2>2. obj' = [c EXCEPT !.fd = [@ EXCEPT ![s] = f], !.os = n]
    BY <1>4
  <2> HIDE DEF f
  <2>3. n \in [Fds -> FdState] /\ (\A g \in Fds \ {f} : n[g] = c.os[g])
    BY <2>1 DEF SetBlockingOf, OpenAs, FdState, FdKinds
  <2>4. n[f].kind = "fresh" /\ (n[f].nonblock <=> c.mode[s] = "NonBlocking")
    BY <2>1 DEF SetBlockingOf, OpenAs, FdState, FdKinds
  <2> HIDE DEF n
  <2>5. /\ obj' \in SocketsState /\ obj'.os = n /\ obj'.fd = [c.fd EXCEPT ![s] = f]
        /\ obj'.mode = c.mode /\ obj'.user = c.user /\ obj'.foreign = c.foreign
        /\ obj'.zero = c.zero
    BY <1>2, <2>1, <2>2, <2>3 DEF SocketsState
  <2>6. f = 0 => c.zero
    BY <1>2, <2>1 DEF OneOwner
  <2>7. f \notin c.user \/ f = 0
    BY <1>2, <2>1 DEF OneOwner
  <2>8. c.fd[s] = INVALID_SOCKET /\ \A t \in SocketIds : c.fd[t] # f \/ f = 0
    BY <1>1, <1>2, <2>1 DEF OneOwner, SocketsState
  <2>9. OneOwner(obj') /\ AsBelieved(obj')
    <3>1. c.user \subseteq c.user /\ \A g \in Fds \ {0} : g \in c.user <=> g \in c.user \ {f}
      BY <2>7
    <3>2. /\ obj'.user \subseteq c.user
          /\ \A g \in Fds \ {0} : g \in obj'.user <=> g \in c.user \ {f}
      BY <2>5, <3>1
    <3>3. /\ \A g \in Fds \ {f} : (obj').os[g] = c.os[g]
          /\ (obj').os[f].kind # "none"
          /\ (obj').os[f].nonblock <=> (obj').mode[s] = "NonBlocking"
      BY <2>3, <2>4, <2>5
    <3>4. \A t \in SocketIds \ {s} :
            (obj').mode[t] = c.mode[t] /\ (t \in c.foreign => t \in (obj').foreign)
      BY <2>5
    <3>5. (c.zero => (obj').zero) /\ (f = 0 => (obj').zero)
      BY <2>5, <2>6
    <3>6. f \in c.user \/ f = 0 \/ c.os[f].kind = "none"
      BY <2>1
    <3>7. FdGiven(c, s, f, obj')
      BY <2>5, <2>8, <3>2, <3>3, <3>4, <3>5, <3>6 DEF FdGiven
    <3>8. QED
      BY <1>2, <2>1, <2>5, <3>7, GivenKept
  <2>10. QED
    BY <2>5, <2>9 DEF SocketsInv
<1>5. QED
  BY <1>3, <1>4 DEF create

\* What an action starts from: standard input is where it was.
LEMMA SocketsStart ==
  ASSUME SocketsInv, SocketsAt
  PROVE  /\ obj \in SocketsState /\ OneOwner(obj) /\ AsBelieved(obj) /\ ~obj.junk
         /\ obj.os[0].kind = "stdin"
  BY DEF SocketsInv, SocketsAt, OneOwner

LEMMA SocketCloseStep ==
  ASSUME SocketsInv, NEW s \in SocketIds, socketClose(s)
  PROVE  SocketsInv'
<1>1. obj' = Closed(obj, s)
  BY DEF socketClose
<1>2. OneOwner(obj) /\ AsBelieved(obj) /\ obj \in SocketsState
  BY SocketsStart DEF socketClose
<1>3. QED
  BY <1>1, <1>2, ClosedKept DEF SocketsInv

\* attach() takes what the user had.
LEMMA AttachStep ==
  ASSUME SocketsInv, NEW s \in SocketIds, NEW f \in Fds, attach(s, f)
  PROVE  SocketsInv'
<1> USE FdsAre
<1> DEFINE c == Closed(obj, s)
           h == Holding(c, s, f)
<1>1. /\ obj \in SocketsState /\ OneOwner(obj) /\ AsBelieved(obj) /\ f \in obj.user
      /\ obj' = [h EXCEPT !.user = @ \ {f}]
  BY SocketsStart DEF attach
<1>2. /\ c \in SocketsState /\ OneOwner(c) /\ AsBelieved(c) /\ c.user = obj.user
      /\ c.fd = [obj.fd EXCEPT ![s] = INVALID_SOCKET]
  BY <1>1, ClosedKept
<1> HIDE DEF c
<1>3. /\ h \in SocketsState /\ h.os = c.os /\ h.user = c.user
      /\ h.fd = [c.fd EXCEPT ![s] = f] /\ h.zero = c.zero
      /\ \A t \in SocketIds \ {s} : h.mode[t] = c.mode[t] /\ (t \in c.foreign <=> t \in h.foreign)
      /\ h.mode[s] = "Blocking" /\ (s \in h.foreign <=> c.os[f].nonblock)
  BY <1>2, HoldingIs
<1> HIDE DEF h
<1>4. /\ obj' \in SocketsState /\ obj'.os = c.os /\ obj'.user = c.user \ {f}
      /\ obj'.fd = [c.fd EXCEPT ![s] = f] /\ obj'.zero = c.zero
      /\ obj'.mode = h.mode /\ obj'.foreign = h.foreign
  BY <1>1, <1>3 DEF SocketsState
<1>5. f \in c.user /\ \A t \in SocketIds : c.fd[t] # f \/ f = 0
  BY <1>1, <1>2 DEF OneOwner
<1>6. c.os[f].kind # "none" \/ f = 0
  BY <1>2, <1>5 DEF OneOwner
<1>7. f = 0 => c.zero
  BY <1>2, <1>5 DEF OneOwner
<1>8. c.fd[s] = INVALID_SOCKET
  BY <1>1, <1>2 DEF SocketsState
<1>9. FdGiven(c, s, f, obj')
  BY <1>3, <1>4, <1>5, <1>6, <1>7, <1>8 DEF FdGiven
<1>10. QED
  BY <1>2, <1>4, <1>9, GivenKept DEF SocketsInv

LEMMA DettachStep ==
  ASSUME SocketsInv, NEW s \in SocketIds, dettach(s)
  PROVE  SocketsInv'
<1> USE FdsAre
<1> DEFINE f == obj.fd[s]
<1>1. /\ obj \in SocketsState /\ OneOwner(obj) /\ AsBelieved(obj) /\ f \in Fds
      /\ obj' = [obj EXCEPT !.user = @ \union {f}, !.fd = [@ EXCEPT ![s] = INVALID_SOCKET],
                            !.foreign = @ \ {s}]
  BY SocketsStart DEF dettach, Valid, SocketsState
<1> HIDE DEF f
<1>2. /\ obj' \in SocketsState /\ obj'.os = obj.os /\ obj'.user = obj.user \union {f}
      /\ obj'.zero = obj.zero /\ obj'.mode = obj.mode /\ obj'.foreign = obj.foreign \ {s}
  BY <1>1 DEF SocketsState
<1>3. \A t \in SocketIds : (obj').fd[t] = IF t = s THEN INVALID_SOCKET ELSE obj.fd[t]
  BY <1>1 DEF SocketsState
<1>4. OneOwner(obj')
  <2>1. ASSUME NEW g \in Fds \ {0}
        PROVE  (obj').os[g].kind # "none" <=> g \in (obj').user \/ \E t \in SocketIds : (obj').fd[t] = g
    BY <1>1, <1>2, <1>3 DEF OneOwner, f
  <2>2. \A t \in SocketIds : (obj').fd[t] \in Fds \ {0} => (obj').fd[t] \notin (obj').user
    BY <1>1, <1>2, <1>3 DEF OneOwner, f
  <2>3. \A t, u \in SocketIds : (obj').fd[t] \in Fds \ {0} /\ (obj').fd[t] = (obj').fd[u] => t = u
    BY <1>1, <1>2, <1>3 DEF OneOwner, f
  <2>4. \/ 0 \in (obj').user \/ (\E t \in SocketIds : (obj').fd[t] = 0)
        \/ (obj').os[0].kind # "stdin"
        => (obj').zero
    BY <1>1, <1>2, <1>3 DEF OneOwner, f
  <2>5. QED
    BY <2>1, <2>2, <2>3, <2>4 DEF OneOwner
<1>5. AsBelieved(obj')
  BY <1>1, <1>2, <1>3 DEF AsBelieved
<1>6. QED
  BY <1>2, <1>4, <1>5 DEF SocketsInv

\* A move takes the descriptor along, unless the close before it hit something.
LEMMA MoveStep ==
  ASSUME SocketsInv, NEW s \in SocketIds, NEW t \in SocketIds, moveSocket(s, t)
  PROVE  SocketsInv'
<1> USE FdsAre
<1>1. /\ obj \in SocketsState /\ OneOwner(obj) /\ AsBelieved(obj) /\ s # t
      /\ obj.fd[s] = INVALID_SOCKET
  BY SocketsStart DEF moveSocket, Valid
<1>2. PICK junk \in Fds \union {INVALID_SOCKET} :
        LET os == IF junk = INVALID_SOCKET THEN obj.os ELSE [obj.os EXCEPT ![junk] = Unused]
        IN obj' = [obj EXCEPT !.os = os, !.junk = (os # obj.os),
                              !.fd = [@ EXCEPT ![s] = obj.fd[t], ![t] = INVALID_SOCKET],
                              !.mode[s] = obj.mode[t],
                              !.foreign = IF t \in @ THEN (@ \ {t}) \union {s} ELSE @]
  BY DEF moveSocket
<1> DEFINE os == IF junk = INVALID_SOCKET THEN obj.os ELSE [obj.os EXCEPT ![junk] = Unused]
           fds == [obj.fd EXCEPT ![s] = obj.fd[t], ![t] = INVALID_SOCKET]
           modes == [obj.mode EXCEPT ![s] = obj.mode[t]]
           foreign == IF t \in obj.foreign THEN (obj.foreign \ {t}) \union {s} ELSE obj.foreign
<1>3. os \in [Fds -> FdState]
  BY <1>1 DEF SocketsState, Unused, FdState, FdKinds
<1>4. obj' = [obj EXCEPT !.os = os, !.junk = (os # obj.os), !.fd = fds, !.mode = modes,
                         !.foreign = foreign]
  BY <1>2
<1>5. /\ fds \in [SocketIds -> Fds \union {INVALID_SOCKET}]
      /\ modes \in [SocketIds -> {"Blocking", "NonBlocking"}]
      /\ foreign \in SUBSET SocketIds
  BY <1>1 DEF SocketsState
<1>6. \A u \in SocketIds : fds[u] = IF u = t THEN INVALID_SOCKET
                                    ELSE IF u = s THEN obj.fd[t] ELSE obj.fd[u]
  BY <1>1 DEF SocketsState
<1>7. \A u \in SocketIds : modes[u] = IF u = s THEN obj.mode[t] ELSE obj.mode[u]
  BY <1>1 DEF SocketsState
<1>8. /\ t \in obj.foreign => s \in foreign
      /\ \A u \in SocketIds \ {s, t} : u \in obj.foreign => u \in foreign
  OBVIOUS
<1> HIDE DEF os, fds, modes, foreign
<1>9. /\ obj' \in SocketsState /\ obj'.os = os /\ obj'.fd = fds /\ obj'.mode = modes
      /\ obj'.foreign = foreign /\ obj'.user = obj.user /\ obj'.zero = obj.zero
      /\ obj'.junk \in BOOLEAN /\ (~obj'.junk => os = obj.os)
  BY <1>1, <1>3, <1>4, <1>5 DEF SocketsState
<1>10. ASSUME os = obj.os PROVE OneOwner(obj')
  <2>1. \A g : (\E u \in SocketIds : (obj').fd[u] = g) /\ g # INVALID_SOCKET
               <=> (\E u \in SocketIds : obj.fd[u] = g) /\ g # INVALID_SOCKET
    BY <1>1, <1>6, <1>9
  <2>2. \A u, v \in SocketIds : (obj').fd[u] \in Fds \ {0} /\ (obj').fd[u] = (obj').fd[v] => u = v
    BY <1>1, <1>6, <1>9 DEF OneOwner
  <2>3. \A u \in SocketIds : (obj').fd[u] \in Fds \ {0} => (obj').fd[u] \notin (obj').user
    BY <1>1, <1>6, <1>9 DEF OneOwner
  <2>4. QED
    BY <1>1, <1>9, <1>10, <2>1, <2>2, <2>3 DEF OneOwner
<1>11. ASSUME os = obj.os PROVE AsBelieved(obj')
  BY <1>1, <1>6, <1>7, <1>8, <1>9, <1>11 DEF AsBelieved
<1>12. QED
  BY <1>9, <1>10, <1>11 DEF SocketsInv

LEMMA SetBlockingStep ==
  ASSUME SocketsInv, NEW s \in SocketIds, NEW m \in {"Blocking", "NonBlocking"}, setBlocking(s, m)
  PROVE  SocketsInv'
<1> USE FdsAre
<1> DEFINE f == obj.fd[s]
<1>1. /\ obj \in SocketsState /\ OneOwner(obj) /\ AsBelieved(obj) /\ ~obj.junk
      /\ obj' = [obj EXCEPT !.mode = [@ EXCEPT ![s] = m], !.foreign = @ \ {s},
                            !.os = IF Valid(s) THEN SetBlockingOf(@, f, m) ELSE @]
  BY SocketsStart DEF setBlocking
<1>2. obj.os \in [Fds -> FdState] /\ obj.fd \in [SocketIds -> Fds \union {INVALID_SOCKET}]
  BY <1>1 DEF SocketsState
<1> HIDE DEF f
<1>3. \A t \in SocketIds \ {s} : [obj.mode EXCEPT ![s] = m][t] = obj.mode[t]
  BY <1>1 DEF SocketsState
<1>4. /\ [obj.mode EXCEPT ![s] = m][s] = m
      /\ [obj.mode EXCEPT ![s] = m] \in [SocketIds -> {"Blocking", "NonBlocking"}]
      /\ obj.foreign \ {s} \in SUBSET SocketIds
  BY <1>1 DEF SocketsState
<1>5. CASE Valid(s)
  <2> DEFINE n == SetBlockingOf(obj.os, f, m)
  <2>1. f \in Fds
    BY <1>2, <1>5 DEF Valid, f
  <2>2. /\ n \in [Fds -> FdState] /\ \A g \in Fds \ {f} : n[g] = obj.os[g]
        /\ n[f].kind = obj.os[f].kind /\ (n[f].nonblock <=> m = "NonBlocking")
    BY <1>2, <2>1 DEF SetBlockingOf, FdState
  <2>3. n \in [Fds -> FdState]
    BY <2>2
  <2> HIDE DEF n
  <2>4. obj' = [obj EXCEPT !.mode = [@ EXCEPT ![s] = m], !.foreign = @ \ {s}, !.os = n]
    BY <1>1, <1>5 DEF n
  <2>5. /\ obj' \in SocketsState /\ obj'.os = n /\ obj'.fd = obj.fd /\ obj'.user = obj.user
        /\ obj'.zero = obj.zero /\ obj'.mode = [obj.mode EXCEPT ![s] = m]
        /\ obj'.foreign = obj.foreign \ {s}
    BY <1>1, <1>4, <2>3, <2>4 DEF SocketsState
  <2>6. FdChanged(obj, s, f, obj')
    BY <1>3, <1>4, <2>2, <2>5 DEF FdChanged, f
  <2>7. QED
    BY <1>1, <2>1, <2>5, <2>6, ChangedKept DEF SocketsInv
<1>6. CASE ~Valid(s)
  <2>1. obj' = [obj EXCEPT !.mode = [@ EXCEPT ![s] = m], !.foreign = @ \ {s}]
    BY <1>1, <1>6 DEF SocketsState
  <2>2. /\ obj' \in SocketsState /\ obj'.os = obj.os /\ obj'.fd = obj.fd /\ obj'.user = obj.user
        /\ obj'.zero = obj.zero /\ obj'.mode = [obj.mode EXCEPT ![s] = m]
        /\ obj'.foreign = obj.foreign \ {s}
    BY <1>1, <1>4, <2>1 DEF SocketsState
  <2>3. OneOwner(obj')
    BY <1>1, <2>2 DEF OneOwner
  <2>4. AsBelieved(obj')
    BY <1>1, <1>3, <1>6, <2>2 DEF AsBelieved, Valid
  <2>5. QED
    BY <2>2, <2>3, <2>4 DEF SocketsInv
<1>7. QED
  BY <1>5, <1>6

LEMMA ListenStep ==
  ASSUME SocketsInv, NEW s \in SocketIds, bindAndListen(s)
  PROVE  SocketsInv'
<1> USE FdsAre
<1> DEFINE f == obj.fd[s]
           n == [obj.os EXCEPT ![f].kind = "listening"]
<1>1. /\ obj \in SocketsState /\ OneOwner(obj) /\ AsBelieved(obj) /\ ~obj.junk
      /\ f \in Fds /\ f # 0 /\ obj.os[f].kind = "fresh"
      /\ obj' = [obj EXCEPT !.os = n]
  BY SocketsStart DEF bindAndListen, Valid, SocketsState
<1>2. obj.os \in [Fds -> FdState]
  BY <1>1 DEF SocketsState
<1> HIDE DEF f
<1>3. n \in [Fds -> FdState]
  BY <1>1, <1>2 DEF FdState, FdKinds
<1>4. /\ \A g \in Fds \ {f} : n[g] = obj.os[g]
      /\ n[f].kind = "listening" /\ n[f].nonblock = obj.os[f].nonblock
  BY <1>1, <1>2 DEF FdState
<1> HIDE DEF n
<1>5. /\ obj' \in SocketsState /\ obj'.os = n /\ obj'.fd = obj.fd /\ obj'.user = obj.user
      /\ obj'.zero = obj.zero /\ obj'.mode = obj.mode /\ obj'.foreign = obj.foreign
  BY <1>1, <1>3 DEF SocketsState
<1>6. s \in obj.foreign \/ (obj.os[f].nonblock <=> obj.mode[s] = "NonBlocking")
  BY <1>1 DEF AsBelieved, f
<1>7. FdChanged(obj, s, f, obj')
  BY <1>1, <1>4, <1>5, <1>6 DEF FdChanged, f
<1>8. QED
  BY <1>1, <1>5, <1>7, ChangedKept DEF SocketsInv

LEMMA ConnectStep ==
  ASSUME SocketsInv, NEW s \in SocketIds, socketConnect(s)
  PROVE  SocketsInv'
<1> USE FdsAre
<1> DEFINE f == obj.fd[s]
<1>1. /\ obj \in SocketsState /\ OneOwner(obj) /\ AsBelieved(obj) /\ ~obj.junk
      /\ f \in Fds /\ f # 0 /\ obj.os[f].kind = "fresh"
  BY SocketsStart DEF socketConnect, Valid, SocketsState
<1>2. PICK kind \in {"fresh", "connected"} :
        obj' = [obj EXCEPT !.os[f] = [kind |-> kind, nonblock |-> obj.mode[s] = "NonBlocking"],
                           !.foreign = @ \ {s}]
  BY DEF socketConnect
<1> DEFINE new == [kind |-> kind, nonblock |-> obj.mode[s] = "NonBlocking"]
           n == [obj.os EXCEPT ![f] = new]
<1>3. obj.os \in [Fds -> FdState]
  BY <1>1 DEF SocketsState
<1>4. new \in FdState /\ new.kind # "none" /\ (new.nonblock <=> obj.mode[s] = "NonBlocking")
  BY DEF FdState, FdKinds
<1> HIDE DEF f, new
<1>5. n \in [Fds -> FdState] /\ n[f] = new /\ \A g \in Fds \ {f} : n[g] = obj.os[g]
  BY <1>1, <1>3, <1>4
<1>6. obj' = [obj EXCEPT !.os = n, !.foreign = @ \ {s}]
  BY <1>2 DEF new
<1> HIDE DEF n
<1>7. /\ obj' \in SocketsState /\ obj'.os = n /\ obj'.fd = obj.fd /\ obj'.user = obj.user
      /\ obj'.zero = obj.zero /\ obj'.mode = obj.mode /\ obj'.foreign = obj.foreign \ {s}
  BY <1>1, <1>5, <1>6 DEF SocketsState
<1>8. FdChanged(obj, s, f, obj')
  BY <1>1, <1>4, <1>5, <1>7 DEF FdChanged, f
<1>9. QED
  BY <1>1, <1>7, <1>8, ChangedKept DEF SocketsInv

\* accept() gives a new descriptor, or 0.
LEMMA AcceptStep ==
  ASSUME SocketsInv, NEW s \in SocketIds, NEW t \in SocketIds, socketAccept(s, t)
  PROVE  SocketsInv'
<1> USE FdsAre
<1>1. /\ obj \in SocketsState /\ OneOwner(obj) /\ AsBelieved(obj) /\ ~obj.junk
      /\ obj.os[0].kind = "stdin" /\ s # t /\ obj.fd[t] = INVALID_SOCKET
  BY SocketsStart DEF socketAccept, Valid
<1>2. CASE obj' = [Holding(obj, t, 0) EXCEPT !.zero = TRUE]
  <2> DEFINE h == Holding(obj, t, 0)
  <2>1. /\ h \in SocketsState /\ h.os = obj.os /\ h.user = obj.user
        /\ h.fd = [obj.fd EXCEPT ![t] = 0]
        /\ \A u \in SocketIds \ {t} : h.mode[u] = obj.mode[u] /\ (u \in obj.foreign <=> u \in h.foreign)
    BY <1>1, HoldingIs
  <2> HIDE DEF h
  <2>2. obj' = [h EXCEPT !.zero = TRUE]
    BY <1>2 DEF h
  <2>3. /\ obj' \in SocketsState /\ obj'.os = obj.os /\ obj'.user = obj.user
        /\ obj'.fd = [obj.fd EXCEPT ![t] = 0] /\ obj'.zero = TRUE
        /\ obj'.mode = h.mode /\ obj'.foreign = h.foreign
    BY <2>1, <2>2 DEF SocketsState
  <2>4. FdGiven(obj, t, 0, obj')
    BY <1>1, <2>1, <2>3 DEF FdGiven
  <2>5. QED
    BY <1>1, <2>3, <2>4, GivenKept DEF SocketsInv
<1>3. CASE /\ FreeFds(obj.os) # {}
           /\ LET f == NewFd(obj.os)
              IN obj' = Holding([obj EXCEPT !.os = OpenAs(@, f, "connected")], t, f)
  <2> DEFINE f == NewFd(obj.os)
             n == OpenAs(obj.os, f, "connected")
             m == [obj EXCEPT !.os = n]
  <2>1. obj.os \in [Fds -> FdState]
    BY <1>1 DEF SocketsState
  <2>2. f \in Fds /\ obj.os[f].kind = "none"
    BY <1>3, <2>1, NewIsFree
  <2>3. obj' = Holding(m, t, f)
    BY <1>3
  <2> HIDE DEF f
  <2>4. /\ n \in [Fds -> FdState] /\ n[f].kind = "connected" /\ n[f].nonblock = FALSE
        /\ \A g \in Fds \ {f} : n[g] = obj.os[g]
    BY <2>1, <2>2 DEF OpenAs, FdState, FdKinds
  <2> HIDE DEF n
  <2>5. /\ m \in SocketsState /\ m.os = n /\ m.fd = obj.fd /\ m.mode = obj.mode /\ m.user = obj.user
        /\ m.zero = obj.zero /\ m.foreign = obj.foreign
    BY <1>1, <2>4 DEF SocketsState
  <2> HIDE DEF m
  <2>6. /\ obj' \in SocketsState /\ obj'.os = n /\ obj'.user = obj.user
        /\ obj'.fd = [obj.fd EXCEPT ![t] = f] /\ obj'.zero = obj.zero
        /\ \A u \in SocketIds \ {t} : /\ (obj').mode[u] = obj.mode[u]
                                      /\ u \in obj.foreign => u \in (obj').foreign
        /\ (obj').mode[t] = "Blocking"
    BY <2>2, <2>3, <2>5, HoldingIs
  <2>7. f # 0 /\ f \notin obj.user /\ \A u \in SocketIds : obj.fd[u] # f
    BY <1>1, <2>2 DEF OneOwner
  <2>8. FdGiven(obj, t, f, obj')
    BY <1>1, <2>2, <2>4, <2>6, <2>7 DEF FdGiven
  <2>9. QED
    BY <1>1, <2>2, <2>6, <2>8, GivenKept DEF SocketsInv
<1>4. CASE obj' = Holding(obj, t, INVALID_SOCKET)
  <2>1. obj' = [obj EXCEPT !.fd = [@ EXCEPT ![t] = INVALID_SOCKET],
                           !.mode = [@ EXCEPT ![t] = "Blocking"], !.foreign = @ \ {t}]
    BY <1>4 DEF Holding
  <2>2. [obj.fd EXCEPT ![t] = INVALID_SOCKET] = obj.fd
    BY <1>1 DEF SocketsState
  <2>3. /\ [obj.mode EXCEPT ![t] = "Blocking"] \in [SocketIds -> {"Blocking", "NonBlocking"}]
        /\ obj.foreign \ {t} \in SUBSET SocketIds
        /\ \A u \in SocketIds \ {t} : [obj.mode EXCEPT ![t] = "Blocking"][u] = obj.mode[u]
    BY <1>1 DEF SocketsState
  <2>4. /\ obj' \in SocketsState /\ obj'.os = obj.os /\ obj'.fd = obj.fd /\ obj'.user = obj.user
        /\ obj'.zero = obj.zero /\ obj'.mode = [obj.mode EXCEPT ![t] = "Blocking"]
        /\ obj'.foreign = obj.foreign \ {t}
    BY <1>1, <2>1, <2>2, <2>3 DEF SocketsState
  <2>5. OneOwner(obj')
    BY <1>1, <2>4 DEF OneOwner
  <2>6. AsBelieved(obj')
    BY <1>1, <2>3, <2>4 DEF AsBelieved
  <2>7. QED
    BY <2>4, <2>5, <2>6 DEF SocketsInv
<1>5. QED
  BY <1>2, <1>3, <1>4 DEF socketAccept

\* SocketPair() gives the user two descriptors nobody had.
LEMMA PairStep ==
  ASSUME SocketsInv, socketPair
  PROVE  SocketsInv'
<1> USE FdsAre
<1> DEFINE f == NewFd(obj.os)
           n == OpenAs(obj.os, f, "connected")
           g == NewFd(n)
           k == OpenAs(n, g, "connected")
<1>1. /\ obj \in SocketsState /\ OneOwner(obj) /\ AsBelieved(obj) /\ ~obj.junk
      /\ obj.os[0].kind = "stdin" /\ Cardinality(FreeFds(obj.os)) > 1
  BY SocketsStart DEF socketPair
<1>2. obj' = [obj EXCEPT !.os = k, !.user = @ \union {f, g}]
  BY DEF socketPair
<1>3. obj.os \in [Fds -> FdState]
  BY <1>1 DEF SocketsState
<1>4. FreeFds(obj.os) # {} /\ \E x \in FreeFds(obj.os) : x # f
  <2>1. FreeFds(obj.os) # {}
    BY <1>1, FS_EmptySet
  <2>2. Cardinality({f}) = 1
    BY FS_Singleton, Zenon
  <2>3. FreeFds(obj.os) # {f}
    BY <1>1, <2>2
  <2>4. QED
    BY <2>1, <2>3
<1>5. f \in Fds /\ obj.os[f].kind = "none"
  BY <1>3, <1>4, NewIsFree
<1>6. /\ n \in [Fds -> FdState] /\ n[f].kind = "connected"
      /\ \A x \in Fds \ {f} : n[x] = obj.os[x]
  BY <1>3, <1>5 DEF OpenAs, FdState, FdKinds
<1>7. FreeFds(n) # {}
  BY <1>4, <1>6 DEF FreeFds
<1> HIDE DEF n, f
<1>8. g \in Fds /\ n[g].kind = "none"
  BY <1>6, <1>7, NewIsFree
<1> HIDE DEF g
<1>9. /\ k \in [Fds -> FdState] /\ k[g].kind = "connected"
      /\ \A x \in Fds \ {g} : k[x] = n[x]
  BY <1>6, <1>8 DEF OpenAs, FdState, FdKinds
<1> HIDE DEF k
<1>10. /\ obj' \in SocketsState /\ obj'.os = k /\ obj'.user = obj.user \union {f, g}
       /\ obj'.fd = obj.fd /\ obj'.zero = obj.zero /\ obj'.mode = obj.mode
       /\ obj'.foreign = obj.foreign
  BY <1>1, <1>2, <1>5, <1>8, <1>9 DEF SocketsState
<1>11. f # g /\ obj.os[g].kind = "none" /\ f # 0 /\ g # 0
  BY <1>1, <1>5, <1>6, <1>8
<1>12. \A t \in SocketIds : obj.fd[t] \notin {f, g}
  BY <1>1, <1>5, <1>8, <1>11 DEF OneOwner
<1>13. UsersChanged(obj, {f, g}, obj')
  <2>1. \A x \in Fds \ {f, g} : k[x] = obj.os[x]
    BY <1>6, <1>9
  <2>2. k[f].kind # "none" /\ k[g].kind # "none"
    BY <1>5, <1>6, <1>9, <1>11
  <2>3. QED
    BY <1>10, <1>11, <1>12, <2>1, <2>2 DEF UsersChanged
<1>14. QED
  BY <1>1, <1>5, <1>8, <1>10, <1>13, UsersKept DEF SocketsInv

\* The user closes, and sets what is the user's.
LEMMA UserStep ==
  ASSUME SocketsInv, NEW f \in Fds, userCloses(f) \/ userNonBlocking(f)
  PROVE  SocketsInv'
<1> USE FdsAre
<1>1. /\ obj \in SocketsState /\ OneOwner(obj) /\ AsBelieved(obj) /\ ~obj.junk
      /\ f \in obj.user /\ obj.os[0].kind = "stdin"
  BY SocketsStart DEF userCloses, userNonBlocking
<1>2. obj.os \in [Fds -> FdState]
  BY <1>1 DEF SocketsState
<1>3. /\ f = 0 => obj.zero
      /\ f # 0 => obj.os[f].kind # "none" /\ \A t \in SocketIds : obj.fd[t] # f
  BY <1>1 DEF OneOwner
<1>4. CASE userCloses(f)
  <2> DEFINE n == [obj.os EXCEPT ![f] = Unused]
  <2>1. obj' = [obj EXCEPT !.os = n, !.user = @ \ {f}]
    BY <1>4 DEF userCloses
  <2>2. /\ n \in [Fds -> FdState] /\ n[f].kind = "none"
        /\ \A x \in Fds \ {f} : n[x] = obj.os[x]
    BY <1>2 DEF Unused, FdState, FdKinds
  <2> HIDE DEF n
  <2>3. /\ obj' \in SocketsState /\ obj'.os = n /\ obj'.user = obj.user \ {f}
        /\ obj'.fd = obj.fd /\ obj'.zero = obj.zero /\ obj'.mode = obj.mode
        /\ obj'.foreign = obj.foreign
    BY <1>1, <2>1, <2>2 DEF SocketsState
  <2>4. UsersChanged(obj, {f}, obj')
    BY <1>3, <2>2, <2>3 DEF UsersChanged
  <2>5. QED
    BY <1>1, <2>3, <2>4, UsersKept DEF SocketsInv
<1>5. CASE userNonBlocking(f)
  <2> DEFINE n == [obj.os EXCEPT ![f].nonblock = TRUE]
  <2>1. obj' = [obj EXCEPT !.os = n]
    BY <1>5 DEF userNonBlocking
  <2>2. /\ n \in [Fds -> FdState] /\ n[f].kind = obj.os[f].kind
        /\ \A x \in Fds \ {f} : n[x] = obj.os[x]
    BY <1>2 DEF FdState, FdKinds
  <2> HIDE DEF n
  <2>3. /\ obj' \in SocketsState /\ obj'.os = n /\ obj'.user = obj.user
        /\ obj'.fd = obj.fd /\ obj'.zero = obj.zero /\ obj'.mode = obj.mode
        /\ obj'.foreign = obj.foreign
    BY <1>1, <2>1, <2>2 DEF SocketsState
  <2>4. UsersChanged(obj, {f}, obj')
    BY <1>1, <1>3, <2>2, <2>3 DEF UsersChanged
  <2>5. QED
    BY <1>1, <2>3, <2>4, UsersKept DEF SocketsInv
<1>6. QED
  BY <1>4, <1>5

LEMMA SocketsStep == SocketsInv /\ SocketsNext => SocketsInv'
  BY CreateStep, SocketCloseStep, AttachStep, DettachStep, MoveStep, SetBlockingStep, ListenStep,
     AcceptStep, ConnectStep, PairStep, UserStep DEF SocketsNext

\* The invariant says what FdsOwned says.
LEMMA SocketsHeld == SocketsInv => FdsOwned
<1> SUFFICES ASSUME SocketsInv, ~obj.junk
             PROVE  /\ \A f \in Fds \ {0} :
                         Cardinality({s \in SocketIds : obj.fd[s] = f}) + (IF f \in obj.user THEN 1 ELSE 0)
                           = (IF obj.os[f].kind = "none" THEN 0 ELSE 1)
                    /\ \A s \in SocketIds : obj.fd[s] \in Fds \ {0} /\ s \notin obj.foreign =>
                         (obj.os[obj.fd[s]].nonblock <=> obj.mode[s] = "NonBlocking")
                    /\ obj.os[0].kind # "stdin" => obj.zero
  BY DEF FdsOwned
<1>1. obj \in SocketsState /\ OneOwner(obj) /\ AsBelieved(obj)
  BY DEF SocketsInv
<1>2. ASSUME NEW f \in Fds \ {0}
      PROVE  Cardinality({s \in SocketIds : obj.fd[s] = f}) + (IF f \in obj.user THEN 1 ELSE 0)
               = (IF obj.os[f].kind = "none" THEN 0 ELSE 1)
  <2> DEFINE holders == {s \in SocketIds : obj.fd[s] = f}
  <2>1. CASE \E s \in SocketIds : obj.fd[s] = f
    <3>1. PICK s \in SocketIds : obj.fd[s] = f
      BY <2>1
    <3>2. holders = {s} /\ f \notin obj.user /\ obj.os[f].kind # "none"
      BY <1>1, <3>1 DEF OneOwner
    <3>3. Cardinality(holders) = 1
      BY <3>2, FS_Singleton, Zenon
    <3>4. QED
      BY <3>2, <3>3
  <2>2. CASE ~\E s \in SocketIds : obj.fd[s] = f
    <3>1. holders = {} /\ (obj.os[f].kind # "none" <=> f \in obj.user)
      BY <1>1, <2>2 DEF OneOwner
    <3>2. Cardinality(holders) = 0
      BY <3>1, FS_EmptySet, Zenon
    <3>3. QED
      BY <3>1, <3>2
  <2>3. QED
    BY <2>1, <2>2
<1>3. QED
  BY <1>1, <1>2 DEF OneOwner, AsBelieved

-----------------------------------------------------------------------------
(* Two threads on one socket.  What is in the socket is what comes last,    *)
(* and what came before one of the threads has.                             *)
ReadState ==
  [sent : Nat, queue : Seq(Nat), got : [Readers -> Seq(Nat)], late : SUBSET Readers,
   useSelect : BOOLEAN]
ReadSoFar(o) == o.sent - Len(o.queue)
Has(o, t, n) == \E i \in DOMAIN o.got[t] : o.got[t][i] = n

SharedOut(o) ==
  /\ Len(o.queue) <= o.sent
  /\ \A i \in 1..Len(o.queue) : o.queue[i] = ReadSoFar(o) + i
  /\ \A t \in Readers : \A i \in DOMAIN o.got[t] : o.got[t][i] \in 1..ReadSoFar(o)
  /\ \A t \in Readers : \A i, j \in DOMAIN o.got[t] : i < j => o.got[t][i] < o.got[t][j]
  /\ \A n \in 1..ReadSoFar(o) : \E t \in Readers : Has(o, t, n)
  /\ \A n \in Nat : \A t, u \in Readers : Has(o, t, n) /\ Has(o, u, n) => t = u

ReadInv ==
  /\ obj \in ReadState /\ pc \in [Readers -> {"idle", "read"}]
  /\ SharedOut(obj)
  /\ obj.useSelect => \A t \in Readers : pc[t] = "read" /\ obj.queue = <<>> => t \in obj.late

LEMMA ReadInvInit == SocketReadInit => ReadInv
<1> SUFFICES ASSUME SocketReadInit PROVE ReadInv
  OBVIOUS
<1>1. <<>> \in Seq(Nat) /\ Len(<<>>) = 0 /\ DOMAIN <<>> = {}
  OBVIOUS
<1>2. obj \in ReadState /\ pc \in [Readers -> {"idle", "read"}]
  BY <1>1 DEF SocketReadInit, ReadState
<1>3. SharedOut(obj)
  BY <1>1 DEF SocketReadInit, SharedOut, Has, ReadSoFar
<1>4. QED
  BY <1>2, <1>3 DEF ReadInv, SocketReadInit

LEMMA PeerSendsStep ==
  ASSUME ReadInv, peerSends
  PROVE  ReadInv'
<1> DEFINE q == Append(obj.queue, obj.sent + 1)
<1>1. obj \in ReadState /\ SharedOut(obj) /\ pc' = pc /\ obj.sent \in Nat /\ obj.queue \in Seq(Nat)
      /\ Len(obj.queue) \in Nat
  BY DEF ReadInv, peerSends, Stay, ReadState
<1>2. obj' = [obj EXCEPT !.sent = @ + 1, !.queue = q]
  BY DEF peerSends
<1>3. /\ q \in Seq(Nat) /\ Len(q) = Len(obj.queue) + 1 /\ q # <<>>
      /\ \A i \in 1..Len(obj.queue) : q[i] = obj.queue[i]
      /\ q[Len(obj.queue) + 1] = obj.sent + 1
  BY <1>1
<1> HIDE DEF q
<1>4. /\ obj' \in ReadState /\ obj'.sent = obj.sent + 1 /\ obj'.queue = q /\ obj'.got = obj.got
      /\ obj'.late = obj.late /\ obj'.useSelect = obj.useSelect
  <2>1. obj.sent + 1 \in Nat /\ q \in Seq(Nat)
    BY <1>1, <1>3
  <2>2. QED
    BY <1>1, <1>2, <2>1 DEF ReadState
<1>5. ReadSoFar(obj') = ReadSoFar(obj) /\ ReadSoFar(obj) \in Nat
  <2>1. Len(obj'.queue) = Len(obj.queue) + 1 /\ Len(obj.queue) <= obj.sent
    BY <1>1, <1>3, <1>4 DEF SharedOut
  <2>2. QED
    BY <1>1, <1>4, <2>1 DEF ReadSoFar
<1>6. \A t \in Readers, n \in Nat : Has(obj', t, n) <=> Has(obj, t, n)
  BY <1>4 DEF Has
<1>7. SharedOut(obj')
  <2>1. Len(q) <= obj.sent + 1
    BY <1>1, <1>3 DEF SharedOut
  <2>2. \A i \in 1..Len(q) : q[i] = ReadSoFar(obj) + i
    <3>1. q[Len(obj.queue) + 1] = ReadSoFar(obj) + (Len(obj.queue) + 1)
      BY <1>1, <1>3 DEF ReadSoFar
    <3>2. \A i \in 1..Len(obj.queue) : q[i] = ReadSoFar(obj) + i
      BY <1>1, <1>3 DEF SharedOut
    <3>3. ASSUME NEW i \in 1..Len(q) PROVE i \in 1..Len(obj.queue) \/ i = Len(obj.queue) + 1
      BY <1>1, <1>3
    <3>4. QED
      BY <3>1, <3>2, <3>3, <1>3
  <2>3. \A n \in 1..ReadSoFar(obj) : \E t \in Readers : Has(obj', t, n)
    BY <1>1, <1>6 DEF SharedOut
  <2>4. QED
    BY <1>1, <1>4, <1>5, <1>6, <2>1, <2>2, <2>3 DEF SharedOut
<1>8. QED
  BY <1>1, <1>3, <1>4, <1>7 DEF ReadInv

LEMMA UseSelectStep ==
  ASSUME ReadInv, setUseSelect
  PROVE  ReadInv'
<1>1. /\ obj \in ReadState /\ SharedOut(obj) /\ pc' = pc
      /\ obj' = [obj EXCEPT !.useSelect = ~@] /\ \A t \in Readers : pc[t] = "idle"
  BY DEF ReadInv, setUseSelect, Stay, At
<1>2. /\ obj' \in ReadState /\ obj'.sent = obj.sent /\ obj'.queue = obj.queue /\ obj'.got = obj.got
  BY <1>1 DEF ReadState
<1>3. SharedOut(obj')
  BY <1>1, <1>2 DEF SharedOut, Has, ReadSoFar
<1>4. QED
  BY <1>1, <1>2, <1>3 DEF ReadInv

LEMMA SelectStep ==
  ASSUME ReadInv, NEW t \in Readers, socketSelect(t)
  PROVE  ReadInv'
<1>1. /\ obj' = obj /\ pc' = [pc EXCEPT ![t] = "read"] /\ (obj.useSelect => obj.queue # <<>>)
  BY DEF socketSelect, Go
<1>2. pc' \in [Readers -> {"idle", "read"}] /\ (obj'.useSelect => obj'.queue # <<>>)
  BY <1>1 DEF ReadInv
<1>3. QED
  BY <1>1, <1>2 DEF ReadInv

LEMMA SocketReadStep ==
  ASSUME ReadInv, NEW t \in Readers, socketRead(t)
  PROVE  ReadInv'
<1> DEFINE q == Tail(obj.queue)
           n == Head(obj.queue)
           g == Append(obj.got[t], n)
           l == IF Len(obj.queue) > 1 THEN obj.late \ {t}
                ELSE (obj.late \union {u \in Readers : pc[u] = "read"}) \ {t}
<1>1. /\ obj \in ReadState /\ SharedOut(obj) /\ pc \in [Readers -> {"idle", "read"}]
      /\ pc' = [pc EXCEPT ![t] = "idle"] /\ obj.queue # <<>>
      /\ obj.queue \in Seq(Nat) /\ obj.got \in [Readers -> Seq(Nat)] /\ obj.sent \in Nat
      /\ obj.late \in SUBSET Readers
  BY DEF ReadInv, socketRead, ReadState, Go
<1>2. obj' = [obj EXCEPT !.queue = q, !.got = [@ EXCEPT ![t] = g], !.late = l]
  BY DEF socketRead
<1>3. /\ q \in Seq(Nat) /\ Len(q) = Len(obj.queue) - 1 /\ Len(obj.queue) >= 1
      /\ \A i \in 1..Len(q) : q[i] = obj.queue[i + 1]
  BY <1>1
<1>4. n = ReadSoFar(obj) + 1 /\ n \in Nat /\ ReadSoFar(obj) \in Nat
  <2>1. ReadSoFar(obj) \in Nat
    BY <1>1, <1>3 DEF SharedOut, ReadSoFar
  <2>2. n = obj.queue[1]
    BY <1>1
  <2>3. n = ReadSoFar(obj) + 1
    BY <1>1, <1>3, <2>2 DEF SharedOut
  <2>4. QED
    BY <2>1, <2>3
<1>5. /\ g \in Seq(Nat) /\ Len(g) = Len(obj.got[t]) + 1 /\ g[Len(g)] = n
      /\ \A i \in 1..Len(obj.got[t]) : g[i] = obj.got[t][i]
  BY <1>1, <1>4
<1>6. l \in SUBSET Readers
  BY <1>1
<1> HIDE DEF q, g, l, n
<1>7. /\ obj' \in ReadState /\ obj'.sent = obj.sent /\ obj'.queue = q
      /\ obj'.late = l /\ obj'.useSelect = obj.useSelect /\ obj'.got = [obj.got EXCEPT ![t] = g]
  BY <1>1, <1>2, <1>3, <1>5, <1>6 DEF ReadState
<1>8. \A u \in Readers : (obj').got[u] = IF u = t THEN g ELSE obj.got[u]
  BY <1>1, <1>7
<1>9. \A u \in Readers : DOMAIN obj.got[u] = 1..Len(obj.got[u]) /\ Len(obj.got[u]) \in Nat
  BY <1>1
<1>10. DOMAIN g = 1..Len(g)
  BY <1>5
<1>25. ASSUME NEW i \in DOMAIN g, i # Len(g) PROVE i \in DOMAIN obj.got[t] /\ g[i] = obj.got[t][i]
  <2>1. PICK k \in Nat : k = Len(obj.got[t])
    BY <1>9
  <2>2. Len(g) = k + 1 /\ i \in 1..(k + 1) /\ i # k + 1
    BY <1>5, <1>10, <1>25, <2>1
  <2>3. i \in 1..k
    BY <2>1, <2>2
  <2> QED
    BY <1>5, <1>9, <2>1, <2>3
<1>11. ASSUME NEW u \in Readers, NEW m \in Nat
       PROVE  Has(obj', u, m) <=> Has(obj, u, m) \/ (u = t /\ m = n)
  <2>1. CASE u = t
    <3>1. Has(obj', u, m) <=> \E i \in 1..(Len(obj.got[t]) + 1) : g[i] = m
      BY <1>5, <1>8, <1>10, <2>1 DEF Has
    <3>2. Has(obj, u, m) <=> \E i \in 1..Len(obj.got[t]) : g[i] = m
      BY <1>5, <1>9, <2>1 DEF Has
    <3>3. QED
      BY <1>5, <1>9, <2>1, <3>1, <3>2
  <2>2. CASE u # t
    BY <1>8, <2>2 DEF Has
  <2>3. QED
    BY <2>1, <2>2
<1>12. \A u \in Readers : \A i \in DOMAIN obj.got[u] : obj.got[u][i] \in 1..ReadSoFar(obj)
  BY <1>1 DEF SharedOut
<1>13. \A u \in Readers : ~Has(obj, u, n)
  BY <1>4, <1>12 DEF Has
<1>14. ReadSoFar(obj') = n /\ Len(q) \in Nat /\ Len(obj.queue) \in Nat
  BY <1>1, <1>3, <1>4, <1>7 DEF ReadSoFar
<1>15. SharedOut(obj')
  <2>1. \A i \in 1..Len(q) : q[i] = n + i
    <3> SUFFICES ASSUME NEW i \in 1..Len(q) PROVE q[i] = n + i
      OBVIOUS
    <3>1. i + 1 \in 1..Len(obj.queue) /\ q[i] = obj.queue[i + 1]
      BY <1>3, <1>14
    <3>2. obj.queue[i + 1] = ReadSoFar(obj) + (i + 1)
      BY <1>1, <3>1 DEF SharedOut
    <3>3. QED
      BY <1>4, <1>14, <3>1, <3>2
  <2>2. ASSUME NEW u \in Readers, NEW i \in DOMAIN (obj').got[u] PROVE (obj').got[u][i] \in 1..n
    <3>1. CASE u = t /\ i = Len(g)
      BY <1>4, <1>5, <1>8, <3>1
    <3>2. CASE u = t /\ i # Len(g)
      <4>1. i \in DOMAIN obj.got[t] /\ g[i] = obj.got[t][i]
        BY <1>8, <1>25, <3>2
      <4>2. QED
        BY <1>4, <1>8, <1>12, <3>2, <4>1
    <3>3. CASE u # t
      BY <1>4, <1>8, <1>12, <3>3
    <3>4. QED
      BY <3>1, <3>2, <3>3
  <2>3. ASSUME NEW u \in Readers, NEW i \in DOMAIN (obj').got[u], NEW j \in DOMAIN (obj').got[u], i < j
        PROVE  (obj').got[u][i] < (obj').got[u][j]
    <3>1. CASE u = t /\ j = Len(g)
      <4>1. i \in DOMAIN g /\ i # Len(g)
        BY <1>8, <1>10, <2>3, <3>1
      <4>2. i \in DOMAIN obj.got[t] /\ g[i] = obj.got[t][i]
        BY <1>25, <4>1
      <4>3. QED
        <5>1. g[i] \in 1..ReadSoFar(obj)
          BY <1>12, <4>2
        <5>2. (obj').got[u][i] = g[i] /\ (obj').got[u][j] = n
          BY <1>5, <1>8, <3>1
        <5> QED
          BY <1>4, <5>1, <5>2
    <3>2. CASE u = t /\ j # Len(g)
      <4>1. i \in DOMAIN g /\ j \in DOMAIN g /\ i # Len(g)
        <5>1. i \in 1..Len(g) /\ j \in 1..Len(g) /\ i < j
          BY <1>8, <1>10, <2>3, <3>2
        <5>2. Len(g) \in Nat
          BY <1>5
        <5> QED
          BY <1>10, <5>1, <5>2
      <4>2. /\ i \in DOMAIN obj.got[t] /\ j \in DOMAIN obj.got[t]
            /\ g[i] = obj.got[t][i] /\ g[j] = obj.got[t][j]
        BY <1>25, <3>2, <4>1
      <4>3. QED
        BY <1>1, <1>8, <2>3, <3>2, <4>2 DEF SharedOut
    <3>3. CASE u # t
      BY <1>1, <1>8, <2>3, <3>3 DEF SharedOut
    <3>4. QED
      BY <3>1, <3>2, <3>3
  <2>4. ASSUME NEW m \in 1..n PROVE \E u \in Readers : Has(obj', u, m)
    <3>1. CASE m = n
      BY <1>4, <1>11, <3>1
    <3>2. CASE m # n
      <4>1. m \in 1..ReadSoFar(obj)
        BY <1>4, <3>2
      <4>2. QED
        BY <1>1, <1>11, <4>1 DEF SharedOut
    <3>3. QED
      BY <3>1, <3>2
  <2>5. ASSUME NEW m \in Nat, NEW u \in Readers, NEW v \in Readers, Has(obj', u, m), Has(obj', v, m)
        PROVE  u = v
    <3>1. CASE m = n
      <4>1. ~Has(obj, u, m) /\ ~Has(obj, v, m)
        BY <1>13, <3>1
      <4>2. QED
        BY <1>11, <2>5, <4>1
    <3>2. CASE m # n
      <4>1. Has(obj, u, m) /\ Has(obj, v, m)
        BY <1>11, <2>5, <3>2
      <4>2. QED
        BY <1>1, <4>1 DEF SharedOut
    <3>3. QED
      BY <3>1, <3>2
  <2>6. Len(q) <= obj.sent
    BY <1>1, <1>3 DEF SharedOut
  <2>7. QED
    BY <1>7, <1>14, <2>1, <2>2, <2>3, <2>4, <2>5, <2>6 DEF SharedOut
<1>16. pc' \in [Readers -> {"idle", "read"}]
  BY <1>1
<1>17. ASSUME obj'.useSelect, NEW u \in Readers, pc'[u] = "read", obj'.queue = <<>>
       PROVE  u \in obj'.late
  <2>1. u # t /\ pc[u] = "read"
    BY <1>1, <1>17
  <2>2. Len(obj.queue) = 1
    BY <1>3, <1>7, <1>17
  <2>3. QED
    BY <1>7, <2>1, <2>2 DEF l
<1>18. QED
  BY <1>7, <1>15, <1>16, <1>17 DEF ReadInv

LEMMA ReadStep == ReadInv /\ SocketReadNext => ReadInv'
  BY PeerSendsStep, UseSelectStep, SelectStep, SocketReadStep DEF SocketReadNext

LEMMA ReadHeld == ReadInv => ReadsShared
<1> SUFFICES ASSUME ReadInv
             PROVE  /\ \A t \in Readers : \A i, j \in DOMAIN obj.got[t] :
                         i < j => obj.got[t][i] < obj.got[t][j]
                    /\ \A n \in 1..obj.sent :
                         Cardinality({t \in Readers : n \in ToSet(obj.got[t])})
                           = (IF n \in ToSet(obj.queue) THEN 0 ELSE 1)
                    /\ obj.useSelect =>
                         \A t \in Readers : At(t, "read") /\ obj.queue = <<>> => t \in obj.late
  BY DEF ReadsShared
<1>1. /\ obj.sent \in Nat /\ obj.queue \in Seq(Nat) /\ SharedOut(obj)
      /\ ReadSoFar(obj) \in Nat /\ ReadSoFar(obj) + Len(obj.queue) = obj.sent
      /\ Len(obj.queue) \in Nat /\ DOMAIN obj.queue = 1..Len(obj.queue)
  BY DEF ReadInv, ReadState, SharedOut, ReadSoFar
<1>2. ASSUME NEW n \in 1..obj.sent
      PROVE  Cardinality({t \in Readers : n \in ToSet(obj.got[t])})
               = (IF n \in ToSet(obj.queue) THEN 0 ELSE 1)
  <2> DEFINE has == {t \in Readers : n \in ToSet(obj.got[t])}
  <2>1. has = {t \in Readers : Has(obj, t, n)}
    BY DEF ToSet, Has
  <2>2. n \in ToSet(obj.queue) <=> n > ReadSoFar(obj)
    <3>1. n \in ToSet(obj.queue) <=> \E i \in 1..Len(obj.queue) : obj.queue[i] = n
      BY <1>1 DEF ToSet
    <3>2. ASSUME n > ReadSoFar(obj) PROVE \E i \in 1..Len(obj.queue) : obj.queue[i] = n
      <4>1. n - ReadSoFar(obj) \in 1..Len(obj.queue)
        BY <1>1, <3>2
      <4>2. obj.queue[n - ReadSoFar(obj)] = ReadSoFar(obj) + (n - ReadSoFar(obj))
        BY <1>1, <4>1 DEF SharedOut
      <4>3. QED
        BY <1>1, <4>1, <4>2
    <3>3. ASSUME NEW i \in 1..Len(obj.queue), obj.queue[i] = n PROVE n > ReadSoFar(obj)
      BY <1>1, <3>3 DEF SharedOut
    <3>4. QED
      BY <3>1, <3>2, <3>3
  <2> HIDE DEF has
  <2>3. CASE n > ReadSoFar(obj)
    <3>1. \A t \in Readers : ~Has(obj, t, n)
      BY <1>1, <2>3 DEF SharedOut, Has
    <3>2. has = {}
      BY <2>1, <3>1
    <3>3. Cardinality(has) = 0
      BY <3>2, FS_EmptySet, Zenon
    <3>4. QED
      BY <2>2, <2>3, <3>3 DEF has
  <2>4. CASE ~(n > ReadSoFar(obj))
    <3>1. n \in 1..ReadSoFar(obj) /\ n \in Nat
      BY <1>1, <2>4
    <3>2. PICK t \in Readers : Has(obj, t, n)
      BY <1>1, <3>1 DEF SharedOut
    <3>3. \A u \in Readers : Has(obj, u, n) => u = t
      BY <1>1, <3>1, <3>2 DEF SharedOut
    <3>4. has = {t}
      BY <2>1, <3>2, <3>3
    <3>5. Cardinality(has) = 1
      BY <3>4, FS_Singleton, Zenon
    <3>6. QED
      BY <2>2, <2>4, <3>5 DEF has
  <2>5. QED
    BY <2>3, <2>4
<1>3. QED
  BY <1>1, <1>2 DEF ReadInv, SharedOut, At

-----------------------------------------------------------------------------
(* NetworkDevices.                                                          *)
EntrySet ==
  [name : {"lo", "eth", "ppp"}, family : {"link", "v4", "v6", "none"}, runs : BOOLEAN, mask : BOOLEAN]
Device == [name : {"lo", "eth", "ppp"}, mac : {"mac", ""}, ips : Seq({"v4", "v6"})]
NicsState == [devices : Seq(Device), entries : Seq(EntrySet), at : Nat, sockets : Nat, asked : Nat]
Running(o, k) == o.entries[k].runs /\ o.entries[k].family # "none"
IsOwn(o, name, k) ==
  o.entries[k].name = name /\ o.entries[k].runs /\ o.entries[k].mask /\ o.entries[k].family \in {"v4", "v6"}
WithMac(devices) == {i \in DOMAIN devices : devices[i].mac = "mac"}
OnceNamed(devices) == \A i, j \in DOMAIN devices : devices[i].name = devices[j].name => i = j
ListedRuns(o) == \A i \in DOMAIN o.devices : \E k \in 1..o.at : Running(o, k) /\ o.entries[k].name = o.devices[i].name
RunsListed(o) == \A k \in 1..o.at : Running(o, k) => \E i \in DOMAIN o.devices : o.entries[k].name = o.devices[i].name
AllOwn(o) == \A i \in DOMAIN o.devices : HasOwn(o, o.devices[i])
SocketsKept(o) == IsFiniteSet(WithMac(o.devices)) /\ Cardinality(WithMac(o.devices)) <= o.sockets
NicsGood(o) ==
  /\ o \in NicsState /\ o.at <= Len(o.entries)
  /\ OnceNamed(o.devices) /\ ListedRuns(o) /\ RunsListed(o) /\ AllOwn(o) /\ SocketsKept(o)
NicsInv == NicsGood(obj)

\* The lists of the system are sequences of entries.
LEMMA EntryListsAre == ASSUME NEW l \in EntryLists PROVE l \in Seq(EntrySet)
<1>2. /\ FirstEntries \subseteq EntrySet /\ MiddleEntries \subseteq EntrySet
      /\ LastEntries \subseteq EntrySet
  BY DEF Entry, EntrySet, FirstEntries, MiddleEntries, LastEntries
<1>3. \/ l \in {<<x, y, z>> : x \in FirstEntries, y \in MiddleEntries, z \in LastEntries}
      \/ l \in {<<x>> : x \in MiddleEntries}
  BY DEF EntryLists
<1>4. CASE l \in {<<x, y, z>> : x \in FirstEntries, y \in MiddleEntries, z \in LastEntries}
  <2>1. PICK x \in EntrySet, y \in EntrySet, z \in EntrySet : l = <<x, y, z>>
    BY <1>2, <1>4
  <2> QED
    BY <2>1
<1>5. CASE l \in {<<x>> : x \in MiddleEntries}
  <2>1. PICK x \in EntrySet : l = <<x>>
    BY <1>2, <1>5
  <2> QED
    BY <2>1
<1> QED
  BY <1>3, <1>4, <1>5

\* The set of the addresses' entries, element by element.
LEMMA OwnAre ==
  ASSUME NEW o, NEW name
  PROVE  \A k : k \in OwnEntries(o, name) <=> k \in 1..o.at /\ IsOwn(o, name, k)
  BY DEF OwnEntries, IsOwn

\* One more entry counts for the devices that have its name.
LEMMA OwnGrows ==
  ASSUME NEW o \in NicsState, NEW p \in NicsState, p.entries = o.entries, p.at = o.at + 1, NEW name
  PROVE  /\ IsOwn(o, name, p.at) => OwnEntries(p, name) = OwnEntries(o, name) \union {p.at}
         /\ ~IsOwn(o, name, p.at) => OwnEntries(p, name) = OwnEntries(o, name)
         /\ p.at \notin OwnEntries(o, name)
<1>1. \A k : IsOwn(o, name, k) = IsOwn(p, name, k)
  BY DEF IsOwn
<1>2. o.at \in Nat /\ p.at \in Nat
  BY DEF NicsState
<1>3. \A k : k \in 1..p.at <=> k \in 1..o.at \/ k = p.at
  BY <1>2
<1>4. p.at \notin 1..o.at
  BY <1>2
<1>5. /\ \A k : k \in OwnEntries(o, name) <=> k \in 1..o.at /\ IsOwn(o, name, k)
      /\ \A k : k \in OwnEntries(p, name) <=> k \in 1..p.at /\ IsOwn(p, name, k)
  BY OwnAre
<1>6. \A k : k \in OwnEntries(p, name) <=> (k \in 1..o.at \/ k = p.at) /\ IsOwn(o, name, k)
  BY <1>1, <1>3, <1>5
<1> QED
  BY <1>4, <1>5, <1>6

\* What is left alone stays right when the entry is of another device.
LEMMA OwnStays ==
  ASSUME NEW o, NEW p, NEW d, p.entries = o.entries,
         OwnEntries(p, d.name) = OwnEntries(o, d.name), HasOwn(o, d)
  PROVE  HasOwn(p, d)
  BY DEF HasOwn

\* A device gets the next address.
LEMMA OwnAdded ==
  ASSUME NEW o \in NicsState, NEW p \in NicsState, p.entries = o.entries, p.at = o.at + 1,
         NEW d \in Device, NEW c \in Device, c.name = d.name,
         c.ips = Append(d.ips, o.entries[p.at].family),
         IsOwn(o, d.name, p.at), HasOwn(o, d)
  PROVE  HasOwn(p, c)
<1> DEFINE n == Len(d.ips)
<1>1. d.ips \in Seq({"v4", "v6"}) /\ n \in Nat
  <2>1. d.ips \in Seq({"v4", "v6"})
    BY DEF Device
  <2> QED
    BY <2>1
<1>2. o.entries[p.at].family \in {"v4", "v6"}
  BY DEF IsOwn
<1>3. Len(c.ips) = n + 1 /\ c.ips[n + 1] = o.entries[p.at].family /\ \A i \in 1..n : c.ips[i] = d.ips[i]
  BY <1>1, <1>2, AppendProperties
<1>4. PICK from \in [1..n -> OwnEntries(o, d.name)] :
        /\ \A i \in 1..n : d.ips[i] = o.entries[from[i]].family
        /\ \A i, j \in 1..n : i < j => from[i] < from[j]
        /\ \A k \in OwnEntries(o, d.name) : \E i \in 1..n : from[i] = k
  BY DEF HasOwn
<1> DEFINE from2 == [i \in 1..(n + 1) |-> IF i = n + 1 THEN p.at ELSE from[i]]
<1>5. OwnEntries(p, d.name) = OwnEntries(o, d.name) \union {p.at}
  BY OwnGrows
<1>6. \A k \in OwnEntries(o, d.name) : k \in Int /\ k < p.at
  <2>1. o.at \in Nat /\ p.at = o.at + 1
    BY DEF NicsState
  <2>2. \A k \in OwnEntries(o, d.name) : k \in 1..o.at
    BY OwnAre
  <2> QED
    BY <2>1, <2>2
<1>7. \A i \in 1..(n + 1) : i # n + 1 => i \in 1..n
  BY <1>1
<1>8. from2 \in [1..(n + 1) -> OwnEntries(p, c.name)]
  BY <1>4, <1>5, <1>7
<1>9. \A i \in 1..(n + 1) : c.ips[i] = p.entries[from2[i]].family
  BY <1>3, <1>4, <1>7
<1>10. ASSUME NEW i \in 1..(n + 1), NEW j \in 1..(n + 1), i < j PROVE from2[i] < from2[j]
  <2>1. i \in 1..n /\ i # n + 1
    BY <1>1, <1>10
  <2>2. from2[i] = from[i] /\ from[i] \in OwnEntries(o, d.name)
    BY <1>4, <2>1
  <2>3. CASE j = n + 1
    BY <1>6, <2>2, <2>3
  <2>4. CASE j # n + 1
    <3>1. j \in 1..n /\ from2[j] = from[j]
      BY <1>7, <1>10, <2>4
    <3> QED
      BY <1>4, <1>10, <2>1, <2>2, <3>1
  <2> QED
    BY <2>3, <2>4
<1>11. ASSUME NEW k \in OwnEntries(p, c.name) PROVE \E i \in 1..(n + 1) : from2[i] = k
  <2>1. n + 1 \in 1..(n + 1) /\ \A i \in 1..n : i \in 1..(n + 1) /\ i # n + 1
    BY <1>1
  <2>2. CASE k = p.at
    BY <2>1, <2>2
  <2>3. CASE k \in OwnEntries(o, d.name)
    <3>1. PICK i \in 1..n : from[i] = k
      BY <1>4, <2>3
    <3>2. from2[i] = k
      BY <2>1, <3>1
    <3> QED
      BY <2>1, <3>2
  <2> QED
    BY <1>5, <1>11, <2>2, <2>3
<1> HIDE DEF from2, n
<1>12. /\ from2 \in [1..Len(c.ips) -> OwnEntries(p, c.name)]
       /\ \A i \in 1..Len(c.ips) : c.ips[i] = p.entries[from2[i]].family
       /\ \A i, j \in 1..Len(c.ips) : i < j => from2[i] < from2[j]
       /\ \A k \in OwnEntries(p, c.name) : \E i \in 1..Len(c.ips) : from2[i] = k
  BY <1>3, <1>8, <1>9, <1>10, <1>11
<1> QED
  BY <1>12, Zenon DEF HasOwn

\* A device that was not there has no address yet.
LEMMA OwnNone ==
  ASSUME NEW o \in NicsState, NEW d, d.ips = <<>>, NicsGood(o),
         \A i \in DOMAIN o.devices : o.devices[i].name # d.name
  PROVE  HasOwn(o, d) /\ OwnEntries(o, d.name) = {}
<1>1. \A k \in 1..o.at : IsOwn(o, d.name, k) => Running(o, k)
  BY DEF IsOwn, Running
<1>2. OwnEntries(o, d.name) = {}
  BY <1>1, OwnAre DEF NicsGood, RunsListed, IsOwn
<1>3. 1..Len(d.ips) = {}
  OBVIOUS
<1>4. [x \in {} |-> 0] \in [{} -> {}]
  OBVIOUS
<1> QED
  BY <1>2, <1>3, <1>4 DEF HasOwn

(* What holds when the device of an entry has its place.                    *)
NameListed(devices, name) == \E i \in DOMAIN devices : devices[i].name = name
DevicesFrom(old, new, name) ==
  /\ \A i \in DOMAIN old : i \in DOMAIN new /\ new[i].name = old[i].name
  /\ \A i \in DOMAIN new : i \in DOMAIN old \/ new[i].name = name
Placed(o, w, name) ==
  /\ w \in NicsState /\ w.at = o.at /\ w.entries = o.entries
  /\ OnceNamed(w.devices) /\ SocketsKept(w) /\ AllOwn(w)
  /\ NameListed(w.devices, name) /\ DevicesFrom(o.devices, w.devices, name)

\* The set of devices with a hardware address, when one device is added.
LEMMA MacAdded ==
  ASSUME NEW s \in Seq(Device), NEW d \in Device, IsFiniteSet(WithMac(s))
  PROVE  /\ IsFiniteSet(WithMac(Append(s, d)))
         /\ d.mac # "mac" => Cardinality(WithMac(Append(s, d))) = Cardinality(WithMac(s))
         /\ d.mac = "mac" => Cardinality(WithMac(Append(s, d))) = Cardinality(WithMac(s)) + 1
<1>1. /\ Len(s) \in Nat /\ DOMAIN s = 1..Len(s) /\ DOMAIN Append(s, d) = 1..(Len(s) + 1)
      /\ Append(s, d)[Len(s) + 1] = d /\ \A i \in 1..Len(s) : Append(s, d)[i] = s[i]
  BY AppendProperties
<1>2. Len(s) + 1 \notin WithMac(s) /\ \A i \in 1..(Len(s) + 1) : i \in 1..Len(s) \/ i = Len(s) + 1
  BY <1>1 DEF WithMac
<1>3. CASE d.mac = "mac"
  <2>1. WithMac(Append(s, d)) = WithMac(s) \union {Len(s) + 1}
    BY <1>1, <1>2, <1>3 DEF WithMac
  <2> QED
    BY <1>2, <1>3, <2>1, FS_AddElement
<1>4. CASE d.mac # "mac"
  <2>1. WithMac(Append(s, d)) = WithMac(s)
    BY <1>1, <1>2, <1>4 DEF WithMac
  <2> QED
    BY <1>4, <2>1
<1> QED
  BY <1>3, <1>4

\* The device of an entry: the one there is, or a new one.
LEMMA DevicePlaced ==
  ASSUME NEW o, NicsGood(o), NEW e \in EntrySet, NEW answers \in BOOLEAN
  PROVE  Placed(o, WithDevice(o, e, answers), e.name)
<1> DEFINE w == WithDevice(o, e, answers)
           d == [name |-> e.name, mac |-> Mac(o, answers), ips |-> <<>>]
<1>1. o \in NicsState
  BY DEF NicsGood
<1>2. CASE Places(o.devices, e.name) # {}
  <2>1. w = o
    BY <1>2 DEF WithDevice
  <2>2. NameListed(o.devices, e.name) /\ DevicesFrom(o.devices, o.devices, e.name)
    BY <1>2 DEF Places, NameListed, DevicesFrom
  <2> HIDE DEF w
  <2>3. Placed(o, w, e.name)
    BY <1>1, <2>1, <2>2 DEF Placed, NicsGood
  <2> QED
    BY <2>3 DEF w
<1>3. CASE Places(o.devices, e.name) = {}
  <2>1. d \in Device /\ d.name = e.name /\ d.ips = <<>> /\ d.mac = Mac(o, answers)
    BY DEF Device, EntrySet, Mac
  <2>2. /\ w.devices = Append(o.devices, d) /\ w.at = o.at /\ w.entries = o.entries
        /\ w.asked = o.asked
        /\ w.sockets = IF d.mac = "mac" THEN o.sockets + 1 ELSE o.sockets
    BY <1>1, <1>3, <2>1 DEF WithDevice, NicsState
  <2>3. w = [devices |-> w.devices, entries |-> w.entries, at |-> w.at, sockets |-> w.sockets, asked |-> w.asked]
    BY <1>1, <1>3 DEF WithDevice, NicsState
  <2> HIDE DEF w, d
  <2>4. /\ o.devices \in Seq(Device) /\ Len(o.devices) \in Nat /\ DOMAIN o.devices = 1..Len(o.devices)
        /\ DOMAIN w.devices = 1..(Len(o.devices) + 1) /\ w.devices[Len(o.devices) + 1] = d
        /\ (\A i \in 1..Len(o.devices) : w.devices[i] = o.devices[i]) /\ w.devices \in Seq(Device)
    <3>1. o.devices \in Seq(Device)
      BY <1>1 DEF NicsState
    <3> QED
      BY <2>1, <2>2, <3>1, AppendProperties
  <2>5. w \in NicsState
    <3>1. /\ o.entries \in Seq(EntrySet) /\ o.at \in Nat /\ o.sockets \in Nat /\ o.asked \in Nat
      BY <1>1 DEF NicsState
    <3>2. w.devices \in Seq(Device) /\ w.entries \in Seq(EntrySet) /\ w.at \in Nat /\ w.sockets \in Nat
          /\ w.asked \in Nat
      BY <2>2, <2>4, <3>1
    <3> QED
      BY <2>3, <3>2, Zenon DEF NicsState
  <2>6. \A i \in DOMAIN o.devices : o.devices[i].name # e.name
    BY <1>3 DEF Places
  <2>7. \A i \in DOMAIN w.devices : i \in DOMAIN o.devices \/ i = Len(o.devices) + 1
    BY <2>4
  <2>8. OnceNamed(w.devices)
    BY <2>1, <2>4, <2>6, <2>7 DEF NicsGood, OnceNamed
  <2>9. SocketsKept(w)
    <3>1. IsFiniteSet(WithMac(o.devices)) /\ Cardinality(WithMac(o.devices)) <= o.sockets
          /\ Cardinality(WithMac(o.devices)) \in Nat /\ o.sockets \in Nat
      BY <1>1, FS_CardinalityType DEF NicsGood, SocketsKept, NicsState
    <3> QED
      BY <2>1, <2>2, <2>4, <3>1, MacAdded DEF SocketsKept
  <2>10. AllOwn(w)
    <3> SUFFICES ASSUME NEW i \in DOMAIN w.devices PROVE HasOwn(w, w.devices[i])
      BY DEF AllOwn
    <3>1. \A name : OwnEntries(w, name) = OwnEntries(o, name)
      BY <2>2 DEF OwnEntries
    <3>2. CASE i \in DOMAIN o.devices
      <4>1. HasOwn(o, o.devices[i]) /\ w.devices[i] = o.devices[i]
        BY <2>4, <3>2 DEF NicsGood, AllOwn
      <4> QED
        BY <2>2, <3>1, <4>1, OwnStays
    <3>3. CASE i = Len(o.devices) + 1
      <4>1. HasOwn(o, d)
        BY <1>1, <2>1, <2>6, OwnNone
      <4> QED
        BY <2>2, <2>4, <3>1, <3>3, <4>1, OwnStays
    <3> QED
      BY <2>7, <3>2, <3>3
  <2>11. NameListed(w.devices, e.name)
    BY <2>1, <2>4 DEF NameListed
  <2>12. DevicesFrom(o.devices, w.devices, e.name)
    BY <2>1, <2>4, <2>7 DEF DevicesFrom
  <2>13. Placed(o, w, e.name)
    BY <2>2, <2>5, <2>8, <2>9, <2>10, <2>11, <2>12 DEF Placed
  <2> QED
    BY <2>13 DEF w
<1> QED
  BY <1>2, <1>3

\* The devices' names are the names of the entries, and one more of each.
LEMMA NamesFollow ==
  ASSUME NEW o, NicsGood(o), NEW p \in NicsState, p.entries = o.entries, p.at = o.at + 1,
         NEW name, DevicesFrom(o.devices, p.devices, name),
         Running(o, p.at), o.entries[p.at].name = name, NameListed(p.devices, name)
  PROVE  ListedRuns(p) /\ RunsListed(p)
<1>1. o.at \in Nat /\ \A k \in 1..p.at : k \in 1..o.at \/ k = p.at
  BY DEF NicsGood, NicsState
<1>2. p.at \in 1..p.at /\ \A k \in 1..o.at : k \in 1..p.at
  BY <1>1
<1>3. \A k : Running(p, k) = Running(o, k)
  BY DEF Running
<1>4. RunsListed(p)
  <2> SUFFICES ASSUME NEW k \in 1..p.at, Running(p, k)
               PROVE  \E i \in DOMAIN p.devices : p.entries[k].name = p.devices[i].name
    BY DEF RunsListed
  <2>1. CASE k = p.at
    BY <2>1 DEF NameListed
  <2>2. CASE k \in 1..o.at
    <3>1. PICK i \in DOMAIN o.devices : o.entries[k].name = o.devices[i].name
      BY <1>3, <2>2 DEF NicsGood, RunsListed
    <3> QED
      BY <3>1 DEF DevicesFrom
  <2> QED
    BY <1>1, <2>1, <2>2
<1>5. ListedRuns(p)
  <2> SUFFICES ASSUME NEW i \in DOMAIN p.devices
               PROVE  \E k \in 1..p.at : Running(p, k) /\ p.entries[k].name = p.devices[i].name
    BY DEF ListedRuns
  <2>1. CASE p.devices[i].name = name
    BY <1>2, <1>3, <2>1
  <2>2. CASE p.devices[i].name # name
    <3>1. i \in DOMAIN o.devices /\ p.devices[i].name = o.devices[i].name
      BY <2>2 DEF DevicesFrom
    <3>2. PICK k \in 1..o.at : Running(o, k) /\ o.entries[k].name = o.devices[i].name
      BY <3>1 DEF NicsGood, ListedRuns
    <3> QED
      BY <1>2, <1>3, <3>1, <3>2
  <2> QED
    BY <2>1, <2>2
<1> QED
  BY <1>4, <1>5

\* The fields of the state.
LEMMA NicsFields ==
  ASSUME NEW o \in NicsState
  PROVE  /\ o.devices \in Seq(Device) /\ o.entries \in Seq(EntrySet) /\ o.at \in Nat
         /\ o.sockets \in Nat /\ o.asked \in Nat
         /\ o = [devices |-> o.devices, entries |-> o.entries, at |-> o.at, sockets |-> o.sockets, asked |-> o.asked]
  BY DEF NicsState
(* A record of the fields' types.                                           *)
NicsTyped(p) ==
  /\ p = [devices |-> p.devices, entries |-> p.entries, at |-> p.at, sockets |-> p.sockets, asked |-> p.asked]
  /\ p.devices \in Seq(Device) /\ p.entries \in Seq(EntrySet) /\ p.at \in Nat
  /\ p.sockets \in Nat /\ p.asked \in Nat
LEMMA NicsMade == ASSUME NEW p, NicsTyped(p) PROVE p \in NicsState
  BY Zenon DEF NicsTyped, NicsState

\* A turn of the loop for an entry that gives no address.
LEMMA TurnWithout ==
  ASSUME NEW w \in NicsState, NEW p \in NicsState, p.entries = w.entries, p.at = w.at + 1,
         p.devices = w.devices, p.sockets = w.sockets, AllOwn(w), SocketsKept(w), OnceNamed(w.devices),
         \A name : ~IsOwn(w, name, p.at)
  PROVE  AllOwn(p) /\ SocketsKept(p) /\ OnceNamed(p.devices)
<1>1. \A name : OwnEntries(p, name) = OwnEntries(w, name)
  BY OwnGrows
<1>2. \A i \in DOMAIN p.devices : HasOwn(w, p.devices[i])
  BY DEF AllOwn
<1>3. AllOwn(p)
  BY <1>1, <1>2, OwnStays DEF AllOwn
<1> QED
  BY <1>3 DEF SocketsKept

(* A turn of the loop for an entry that gives an address.                   *)
AddressTaken(w, p, at) ==
  /\ w \in NicsState /\ p \in NicsState /\ at \in DOMAIN w.devices
  /\ p.entries = w.entries /\ p.at = w.at + 1 /\ p.sockets = w.sockets
  /\ IsOwn(w, w.devices[at].name, p.at) /\ DOMAIN p.devices = DOMAIN w.devices
  /\ \A i \in DOMAIN w.devices : i # at => p.devices[i] = w.devices[i]
  /\ p.devices[at].name = w.devices[at].name /\ p.devices[at].mac = w.devices[at].mac
  /\ p.devices[at].ips = Append(w.devices[at].ips, w.entries[p.at].family)
\* What was right stays so when a device gets its address.
LEMMA TurnWith ==
  ASSUME NEW w, NEW p, NEW at, AddressTaken(w, p, at), AllOwn(w), SocketsKept(w), OnceNamed(w.devices)
  PROVE  AllOwn(p) /\ SocketsKept(p) /\ OnceNamed(p.devices)
<1> USE DEF AddressTaken
<1>1. \A i \in DOMAIN w.devices : p.devices[i].name = w.devices[i].name /\ p.devices[i].mac = w.devices[i].mac
  OBVIOUS
<1>2. w.devices \in Seq(Device) /\ p.devices \in Seq(Device)
  BY DEF NicsState
<1>3. \A i \in DOMAIN w.devices : w.devices[i] \in Device /\ p.devices[i] \in Device
  BY <1>2
<1>4. SocketsKept(p)
  <2>1. WithMac(p.devices) = WithMac(w.devices)
    BY <1>1 DEF WithMac
  <2> QED
    BY <2>1 DEF SocketsKept
<1>5. OnceNamed(p.devices)
  BY <1>1 DEF OnceNamed
<1>6. ASSUME NEW i \in DOMAIN w.devices PROVE HasOwn(p, p.devices[i])
  <2>1. HasOwn(w, w.devices[i])
    BY DEF AllOwn
  <2>2. CASE i = at
    BY <1>3, <2>1, <2>2, OwnAdded
  <2>3. CASE i # at
    <3>1. ~IsOwn(w, w.devices[i].name, p.at)
      BY <2>3 DEF IsOwn, OnceNamed
    <3>2. OwnEntries(p, w.devices[i].name) = OwnEntries(w, w.devices[i].name)
      BY <3>1, OwnGrows
    <3> QED
      BY <2>1, <2>3, <3>2, OwnStays
  <2> QED
    BY <2>2, <2>3
<1> QED
  BY <1>4, <1>5, <1>6 DEF AllOwn

\* A turn of the loop.
LEMMA TurnTaken ==
  ASSUME NEW o, NicsGood(o), o.at < Len(o.entries), NEW answers \in BOOLEAN, NEW p,
         p = [WithEntry(o, o.entries[o.at + 1], answers) EXCEPT !.at = o.at + 1]
  PROVE  NicsGood(p)
<1> DEFINE e == o.entries[o.at + 1]
           w == WithDevice(o, e, answers)
           at == CHOOSE i \in Places(w.devices, e.name) : TRUE
<1>1. /\ o \in NicsState /\ o.at \in Nat /\ Len(o.entries) \in Nat /\ o.entries \in Seq(EntrySet)
      /\ o.at + 1 \in 1..Len(o.entries) /\ e \in EntrySet /\ o.sockets \in Nat /\ o.asked \in Nat
      /\ o.devices \in Seq(Device)
  <2>1. o \in NicsState
    BY DEF NicsGood
  <2>2. o.at \in Nat /\ o.entries \in Seq(EntrySet) /\ o.sockets \in Nat /\ o.asked \in Nat
        /\ o.devices \in Seq(Device)
    BY <2>1 DEF NicsState
  <2> QED
    BY <2>1, <2>2
<1>2. Placed(o, w, e.name)
  BY <1>1, DevicePlaced
<1>3. w \in NicsState /\ w.at = o.at /\ w.entries = o.entries
  BY <1>2 DEF Placed
<1>4. \/ (e.family = "none" \/ ~e.runs) /\ p = [o EXCEPT !.at = o.at + 1]
      \/ /\ e.family # "none" /\ e.runs /\ (e.family = "link" \/ ~e.mask)
         /\ p = [w EXCEPT !.at = o.at + 1]
      \/ /\ e.family # "none" /\ e.runs /\ e.family # "link" /\ e.mask
         /\ p = [[w EXCEPT !.devices[at].ips = Append(@, e.family)] EXCEPT !.at = o.at + 1]
  BY DEF WithEntry
<1> HIDE DEF e, w, at
<1>5. CASE (e.family = "none" \/ ~e.runs) /\ p = [o EXCEPT !.at = o.at + 1]
  <2>1. /\ p \in NicsState /\ p.entries = o.entries /\ p.at = o.at + 1 /\ p.devices = o.devices
        /\ p.sockets = o.sockets
    <3>1. p = [devices |-> o.devices, entries |-> o.entries, at |-> o.at + 1, sockets |-> o.sockets, asked |-> o.asked]
      BY <1>1, <1>5, NicsFields
    <3>2. o.at + 1 \in Nat
      BY <1>1
    <3>3. NicsTyped(p)
      BY <1>1, <3>1, <3>2 DEF NicsTyped
    <3> QED
      BY <3>1, <3>3, NicsMade
  <2>2. \A name : ~IsOwn(o, name, p.at)
    BY <1>5, <2>1 DEF IsOwn, e
  <2>3. AllOwn(p) /\ SocketsKept(p) /\ OnceNamed(p.devices)
    BY <1>1, <2>1, <2>2, TurnWithout DEF NicsGood
  <2>4. ~Running(o, p.at) /\ \A k : Running(p, k) = Running(o, k)
    BY <1>5, <2>1 DEF Running, e
  <2>5. \A k \in 1..p.at : k \in 1..o.at \/ k = p.at
    BY <1>1, <2>1
  <2>6. \A k \in 1..o.at : k \in 1..p.at
    BY <1>1, <2>1
  <2>7. RunsListed(p)
    <3> SUFFICES ASSUME NEW k \in 1..p.at, Running(p, k)
                 PROVE  \E i \in DOMAIN p.devices : p.entries[k].name = p.devices[i].name
      BY DEF RunsListed
    <3>1. k \in 1..o.at /\ Running(o, k)
      BY <2>4, <2>5
    <3>2. \E i \in DOMAIN o.devices : o.entries[k].name = o.devices[i].name
      BY <3>1 DEF NicsGood, RunsListed
    <3> QED
      BY <2>1, <3>2
  <2>8. ListedRuns(p)
    <3> SUFFICES ASSUME NEW i \in DOMAIN p.devices
                 PROVE  \E k \in 1..p.at : Running(p, k) /\ p.entries[k].name = p.devices[i].name
      BY DEF ListedRuns
    <3>1. PICK k \in 1..o.at : Running(o, k) /\ o.entries[k].name = o.devices[i].name
      BY <2>1 DEF NicsGood, ListedRuns
    <3> QED
      BY <2>1, <2>4, <2>6, <3>1
  <2>9. p.at <= Len(p.entries)
    BY <1>1, <2>1
  <2> QED
    BY <2>1, <2>3, <2>7, <2>8, <2>9 DEF NicsGood
<1>6. CASE /\ e.family # "none" /\ e.runs /\ (e.family = "link" \/ ~e.mask)
           /\ p = [w EXCEPT !.at = o.at + 1]
  <2>1. /\ p \in NicsState /\ p.entries = w.entries /\ p.at = w.at + 1 /\ p.devices = w.devices
        /\ p.sockets = w.sockets
    <3>1. p = [devices |-> w.devices, entries |-> w.entries, at |-> o.at + 1, sockets |-> w.sockets, asked |-> w.asked]
      BY <1>3, <1>6, NicsFields
    <3>2. w.devices \in Seq(Device) /\ w.entries \in Seq(EntrySet) /\ w.sockets \in Nat /\ w.asked \in Nat
      BY <1>3, NicsFields
    <3>3. o.at + 1 \in Nat
      BY <1>1
    <3>4. NicsTyped(p)
      BY <3>1, <3>2, <3>3 DEF NicsTyped
    <3> QED
      BY <1>3, <3>1, <3>4, NicsMade
  <2>2. \A name : ~IsOwn(w, name, p.at)
    BY <1>3, <1>6, <2>1 DEF IsOwn, e
  <2>3. AllOwn(p) /\ SocketsKept(p) /\ OnceNamed(p.devices)
    BY <1>2, <1>3, <2>1, <2>2, TurnWithout DEF Placed
  <2>4. Running(o, p.at) /\ o.entries[p.at].name = e.name
    BY <1>3, <1>6, <2>1 DEF Running, e
  <2>5. DevicesFrom(o.devices, p.devices, e.name) /\ NameListed(p.devices, e.name)
    BY <1>2, <2>1 DEF Placed
  <2>6. ListedRuns(p) /\ RunsListed(p)
    BY <1>3, <2>1, <2>4, <2>5, NamesFollow
  <2>7. p.at <= Len(p.entries)
    BY <1>1, <1>3, <2>1
  <2> QED
    BY <2>1, <2>3, <2>6, <2>7 DEF NicsGood
<1>7. CASE /\ e.family # "none" /\ e.runs /\ e.family # "link" /\ e.mask
           /\ p = [[w EXCEPT !.devices[at].ips = Append(@, e.family)] EXCEPT !.at = o.at + 1]
  <2>1. at \in DOMAIN w.devices /\ w.devices[at].name = e.name
    <3>1. \E i \in DOMAIN w.devices : w.devices[i].name = e.name
      BY <1>2 DEF Placed, NameListed
    <3>2. Places(w.devices, e.name) # {}
      BY <3>1 DEF Places
    <3>3. at \in Places(w.devices, e.name)
      BY <3>2, Zenon DEF at
    <3> QED
      BY <3>3 DEF Places
  <2>2. /\ w.devices \in Seq(Device) /\ w.devices[at] \in Device /\ w.devices[at].ips \in Seq({"v4", "v6"})
        /\ w.sockets \in Nat /\ w.asked \in Nat /\ w.entries \in Seq(EntrySet)
    <3>1. /\ w.devices \in Seq(Device) /\ w.sockets \in Nat /\ w.asked \in Nat
          /\ w.entries \in Seq(EntrySet)
      BY <1>3 DEF NicsState
    <3>2. w.devices[at] \in Device
      BY <2>1, <3>1
    <3> QED
      BY <3>1, <3>2 DEF Device
  <2> DEFINE ips == Append(w.devices[at].ips, e.family)
             d == [w.devices[at] EXCEPT !.ips = ips]
             ds == [w.devices EXCEPT ![at] = d]
  <2>3. e.family \in {"v4", "v6"}
    BY <1>1, <1>7 DEF EntrySet
  <2>4. ips \in Seq({"v4", "v6"})
    BY <2>2, <2>3, AppendProperties
  <2>5. p = [w EXCEPT !.devices = ds, !.at = o.at + 1]
    BY <1>3, <1>7, <2>2 DEF NicsState
  <2> HIDE DEF ips
  <2>6. d \in Device /\ d.name = w.devices[at].name /\ d.mac = w.devices[at].mac /\ d.ips = ips
    BY <2>2, <2>4 DEF Device
  <2> HIDE DEF d
  <2>7. /\ ds \in Seq(Device) /\ DOMAIN ds = DOMAIN w.devices /\ ds[at] = d
        /\ \A i \in DOMAIN w.devices : i # at => ds[i] = w.devices[i]
    BY <2>1, <2>2, <2>6, ExceptSeq
  <2> HIDE DEF ds
  <2>8. /\ p \in NicsState /\ p.entries = w.entries /\ p.at = w.at + 1 /\ p.devices = ds
        /\ p.sockets = w.sockets
    <3>1. p = [devices |-> ds, entries |-> w.entries, at |-> o.at + 1, sockets |-> w.sockets, asked |-> w.asked]
      BY <1>3, <2>5, NicsFields
    <3>2. o.at + 1 \in Nat /\ ds \in Seq(Device)
      BY <1>1, <2>7
    <3>3. NicsTyped(p)
      BY <2>2, <3>1, <3>2 DEF NicsTyped
    <3> QED
      BY <1>3, <3>1, <3>3, NicsMade
  <2>9. IsOwn(w, w.devices[at].name, p.at) /\ w.entries[p.at].family = e.family
    BY <1>3, <1>7, <2>1, <2>3, <2>8 DEF IsOwn, e
  <2>10. AllOwn(w) /\ SocketsKept(w) /\ OnceNamed(w.devices)
    BY <1>2 DEF Placed
  <2>11. AllOwn(p) /\ SocketsKept(p) /\ OnceNamed(p.devices)
    <3>1. p.devices[at].ips = Append(w.devices[at].ips, w.entries[p.at].family)
      BY <2>6, <2>7, <2>8, <2>9 DEF ips
    <3>2. /\ DOMAIN p.devices = DOMAIN w.devices /\ p.devices[at].name = w.devices[at].name
          /\ p.devices[at].mac = w.devices[at].mac
          /\ \A i \in DOMAIN w.devices : i # at => p.devices[i] = w.devices[i]
      BY <2>6, <2>7, <2>8
    <3>3. p \in NicsState /\ p.entries = w.entries /\ p.at = w.at + 1 /\ p.sockets = w.sockets
      BY <2>8
    <3>4. AddressTaken(w, p, at)
      BY <1>3, <2>1, <2>9, <3>1, <3>2, <3>3 DEF AddressTaken
    <3> QED
      BY <2>10, <3>4, TurnWith
  <2>12. \A i \in DOMAIN w.devices : p.devices[i].name = w.devices[i].name
    BY <2>6, <2>7, <2>8
  <2>13. DevicesFrom(o.devices, p.devices, e.name) /\ NameListed(p.devices, e.name)
    <3>1. DevicesFrom(o.devices, w.devices, e.name) /\ NameListed(w.devices, e.name)
      BY <1>2 DEF Placed
    <3> QED
      BY <2>7, <2>8, <2>12, <3>1 DEF DevicesFrom, NameListed
  <2>14. Running(o, p.at) /\ o.entries[p.at].name = e.name
    BY <1>3, <1>7, <2>8 DEF Running, e
  <2>15. ListedRuns(p) /\ RunsListed(p)
    BY <1>3, <2>8, <2>13, <2>14, NamesFollow
  <2>16. p.at <= Len(p.entries)
    BY <1>1, <1>3, <2>8
  <2> QED
    BY <2>8, <2>11, <2>15, <2>16 DEF NicsGood
<1> QED
  BY <1>4, <1>5, <1>6, <1>7

LEMMA NicsInvInit == NicsInit => NicsInv
<1> SUFFICES ASSUME NicsInit PROVE NicsGood(obj)
  BY DEF NicsInv
<1>1. /\ obj \in NicsState /\ obj.devices = <<>> /\ obj.entries = <<>> /\ obj.at = 0
      /\ obj.sockets = 0
  BY DEF NicsInit, NicsObj, NicsState
<1> QED
  BY <1>1, FS_EmptySet
     DEF NicsGood, OnceNamed, ListedRuns, RunsListed, AllOwn, SocketsKept, WithMac

LEMMA NicsStep ==
  ASSUME NicsInv, NicsNext
  PROVE  NicsInv'
<1>1. NicsGood(obj)
  BY DEF NicsInv
<1>2. CASE ListDevices
  <2>1. PICK l \in EntryLists :
          obj' = [obj EXCEPT !.devices = <<>>, !.entries = l, !.at = 0, !.asked = @ + 1]
    BY <1>2 DEF ListDevices
  <2>2. l \in Seq(EntrySet)
    BY EntryListsAre
  <2>3. obj \in NicsState /\ obj.sockets \in Nat
    BY <1>1 DEF NicsGood, NicsState
  <2>4. /\ obj' \in NicsState /\ obj'.devices = <<>> /\ obj'.entries = l /\ obj'.at = 0
        /\ obj'.sockets = obj.sockets
    <3>1. /\ obj.asked \in Nat
          /\ obj' = [devices |-> <<>>, entries |-> l, at |-> 0, sockets |-> obj.sockets, asked |-> obj.asked + 1]
      BY <2>1, <2>3 DEF NicsState
    <3>2. obj.asked + 1 \in Nat /\ <<>> \in Seq(Device)
      BY <3>1
    <3> QED
      BY <2>2, <2>3, <3>1, <3>2 DEF NicsState
  <2>5. NicsGood(obj')
    <3>1. WithMac(obj'.devices) = {} /\ Cardinality({}) = 0 /\ IsFiniteSet({})
      BY <2>4, FS_EmptySet DEF WithMac
    <3>2. SocketsKept(obj')
      <4>1. IsFiniteSet(WithMac(obj'.devices)) /\ Cardinality(WithMac(obj'.devices)) = 0
        BY <3>1, Zenon
      <4>2. 0 <= obj'.sockets
        BY <2>3, <2>4
      <4> QED
        BY <4>1, <4>2 DEF SocketsKept
    <3>3. Len(l) \in Nat /\ DOMAIN obj'.devices = {} /\ 1..obj'.at = {}
      BY <2>2, <2>4
    <3>4. OnceNamed(obj'.devices) /\ ListedRuns(obj') /\ RunsListed(obj') /\ AllOwn(obj')
      BY <3>3 DEF OnceNamed, ListedRuns, RunsListed, AllOwn
    <3> QED
      BY <2>4, <3>2, <3>3, <3>4 DEF NicsGood
  <2> QED
    BY <2>5 DEF NicsInv
<1>3. CASE nextEntry
  <2>1. PICK answers \in BOOLEAN :
          obj' = [WithEntry(obj, obj.entries[obj.at + 1], answers) EXCEPT !.at = obj.at + 1]
    BY <1>3 DEF nextEntry
  <2>2. NicsGood(obj')
    BY <1>1, <1>3, <2>1, TurnTaken DEF nextEntry
  <2> QED
    BY <2>2 DEF NicsInv
<1> QED
  BY <1>2, <1>3 DEF NicsNext

LEMMA NicsHeld == NicsInv => DevicesExact
<1> SUFFICES ASSUME NicsGood(obj) PROVE DevicesExact
  BY DEF NicsInv
<1>1. \A i \in DOMAIN obj.devices : HasOwn(obj, obj.devices[i])
  BY DEF NicsGood, AllOwn
<1>2. \A i, j \in DOMAIN obj.devices : obj.devices[i].name = obj.devices[j].name => i = j
  BY DEF NicsGood, OnceNamed
<1>3. {obj.devices[i].name : i \in DOMAIN obj.devices}
        = {obj.entries[k].name : k \in {k \in 1..obj.at : obj.entries[k].runs /\ obj.entries[k].family # "none"}}
  <2>1. \A i \in DOMAIN obj.devices : \E k \in {k \in 1..obj.at : Running(obj, k)} :
          obj.entries[k].name = obj.devices[i].name
    BY DEF NicsGood, ListedRuns
  <2>2. \A k \in {k \in 1..obj.at : Running(obj, k)} : \E i \in DOMAIN obj.devices :
          obj.entries[k].name = obj.devices[i].name
    BY DEF NicsGood, RunsListed
  <2>3. {obj.devices[i].name : i \in DOMAIN obj.devices}
          = {obj.entries[k].name : k \in {k \in 1..obj.at : Running(obj, k)}}
    BY <2>1, <2>2
  <2> QED
    BY <2>3 DEF Running
<1>4. obj.sockets >= Cardinality({i \in DOMAIN obj.devices : obj.devices[i].mac = "mac"})
  <2>1. obj.sockets \in Nat /\ Cardinality(WithMac(obj.devices)) \in Nat
        /\ Cardinality(WithMac(obj.devices)) <= obj.sockets
    BY FS_CardinalityType DEF NicsGood, SocketsKept, NicsState
  <2>2. obj.sockets >= Cardinality(WithMac(obj.devices))
    BY <2>1
  <2> QED
    BY <2>2, Zenon DEF WithMac
<1> QED
  BY <1>1, <1>2, <1>3, <1>4 DEF DevicesExact

-----------------------------------------------------------------------------
(* NamedPipe.  FIFOs are numbered as they are made, and messages as they    *)
(* are written; a message is in one place.                                  *)
Fifos == 1..MaxFifos
FifoState ==
  [node : Nat, made : Nat, at : [Ends -> Int], data : [Fifos -> Seq(Nat)], stdin : [Ends -> BOOLEAN],
   zero : SUBSET Ends, unlinked : SUBSET Ends, sent : Nat, got : Seq(Nat)]

Once(data, got, sent) ==
  /\ \A i \in 1..Len(got) : got[i] <= sent
  /\ \A k \in Fifos : \A i \in 1..Len(data[k]) : data[k][i] <= sent
  /\ \A i, j \in 1..Len(got) : got[i] = got[j] => i = j
  /\ \A k \in Fifos : \A i, j \in 1..Len(data[k]) : data[k][i] = data[k][j] => i = j
  /\ \A k, l \in Fifos : k # l => \A i \in 1..Len(data[k]), j \in 1..Len(data[l]) : data[k][i] # data[l][j]
  /\ \A k \in Fifos : \A i \in 1..Len(data[k]), j \in 1..Len(got) : data[k][i] # got[j]
EndsPlaced(o) ==
  /\ o.node \in 0..o.made /\ o.made \in 0..MaxFifos
  /\ \A p \in Ends : o.at[p] \in {-1, 0} \union 2..(o.made + 1)
  /\ \A p \in Ends : o.at[p] = 0 <=> p \in o.zero
  /\ \A p \in Ends : o.at[p] >= 0 /\ p \notin o.unlinked \union o.zero => o.at[p] = o.node + 1
FifoInv == obj \in FifoState /\ EndsPlaced(obj) /\ Once(obj.data, obj.got, obj.sent)


LEMMA FifosAre == MaxFifos \in Nat /\ \A o : o \in Int /\ o \in 1..MaxFifos => o \in Fifos
BY DevicesAssumption DEF Fifos

LEMMA FifoInvInit == FifoInit => FifoInv
<1> SUFFICES ASSUME FifoInit PROVE FifoInv
  OBVIOUS
<1>1. Len(<<>>) = 0 /\ <<>> \in Seq(Nat)
  OBVIOUS
<1>2. obj \in FifoState
  <2> DEFINE at == [p \in Ends |-> -1]
             data == [k \in 1..MaxFifos |-> <<>>]
             stdin == [p \in Ends |-> TRUE]
  <2>1. at \in [Ends -> Int] /\ stdin \in [Ends -> BOOLEAN]
    OBVIOUS
  <2>2. data \in [Fifos -> Seq(Nat)]
    BY <1>1 DEF Fifos
  <2>3. obj = [node |-> 0, made |-> 0, at |-> at, data |-> data, stdin |-> stdin, zero |-> {},
               unlinked |-> {}, sent |-> 0, got |-> <<>>]
    BY DEF FifoInit
  <2> HIDE DEF at, data, stdin
  <2>4. QED
    BY <1>1, <2>1, <2>2, <2>3 DEF FifoState
<1>3. /\ obj.node = 0 /\ obj.made = 0 /\ obj.zero = {} /\ obj.sent = 0 /\ obj.got = <<>>
      /\ \A p \in Ends : obj.at[p] = -1
      /\ \A k \in Fifos : obj.data[k] = <<>>
  BY DEF FifoInit, Fifos
<1>4. EndsPlaced(obj)
  BY <1>3, FifosAre DEF EndsPlaced
<1>5. Once(obj.data, obj.got, obj.sent)
  BY <1>1, <1>3 DEF Once
<1>6. QED
  BY <1>2, <1>4, <1>5 DEF FifoInv

\* A message that is written is new.
LEMMA OnceWritten ==
  ASSUME NEW data \in [Fifos -> Seq(Nat)], NEW got \in Seq(Nat), NEW sent \in Nat, Once(data, got, sent),
         NEW k \in Fifos
  PROVE  /\ [data EXCEPT ![k] = Append(@, sent + 1)] \in [Fifos -> Seq(Nat)]
         /\ Once([data EXCEPT ![k] = Append(@, sent + 1)], got, sent + 1)
<1> DEFINE m == sent + 1
           q == Append(data[k], m)
           d == [data EXCEPT ![k] = q]
<1>1. /\ q \in Seq(Nat) /\ Len(q) = Len(data[k]) + 1 /\ Len(data[k]) \in Nat
      /\ \A i \in 1..Len(q) : (i \in 1..Len(data[k]) /\ q[i] = data[k][i]) \/ (i = Len(q) /\ q[i] = m)
  <2>1. m \in Nat /\ data[k] \in Seq(Nat)
    OBVIOUS
  <2> HIDE DEF m
  <2>2. QED
    BY <2>1, AppendProperties
<1> HIDE DEF q
<1>2. d \in [Fifos -> Seq(Nat)] /\ \A l \in Fifos : d[l] = IF l = k THEN q ELSE data[l]
  BY <1>1
<1> HIDE DEF d
<1>3. \A l \in Fifos : \A i \in 1..Len(data[l]) : data[l][i] \in Nat /\ data[l][i] <= sent
  BY DEF Once
<1>4. \A i \in 1..Len(got) : got[i] \in Nat /\ got[i] <= sent
  BY DEF Once
<1>5. m \in Nat /\ \A n \in Nat : n <= sent => n <= m /\ n # m
  OBVIOUS
<1> HIDE DEF m
<1>6. \A l \in Fifos : \A i \in 1..Len(d[l]) :
        \/ i \in 1..Len(data[l]) /\ d[l][i] = data[l][i]
        \/ l = k /\ i = Len(q) /\ d[l][i] = m
  BY <1>1, <1>2
<1>7. Once(d, got, m)
  <2>1. \A i \in 1..Len(got) : got[i] <= m
    BY <1>4, <1>5
  <2>2. ASSUME NEW l \in Fifos, NEW i \in 1..Len(d[l]) PROVE d[l][i] <= m
    <3>1. CASE i \in 1..Len(data[l]) /\ d[l][i] = data[l][i]
      BY <1>3, <1>5, <3>1
    <3>2. CASE d[l][i] = m
      BY <1>5, <3>2
    <3>3. QED
      BY <1>6, <3>1, <3>2
  <2>3. \A i, j \in 1..Len(got) : got[i] = got[j] => i = j
    BY DEF Once
  <2>4. ASSUME NEW l \in Fifos, NEW i \in 1..Len(d[l]), NEW j \in 1..Len(d[l]), d[l][i] = d[l][j]
        PROVE  i = j
    <3>1. CASE i \in 1..Len(data[l]) /\ d[l][i] = data[l][i]
      <4>1. d[l][j] # m
        BY <1>3, <1>5, <2>4, <3>1
      <4>2. j \in 1..Len(data[l]) /\ d[l][j] = data[l][j]
        BY <1>6, <4>1
      <4>3. QED
        BY <2>4, <3>1, <4>2 DEF Once
    <3>2. CASE l = k /\ i = Len(q) /\ d[l][i] = m
      <4>1. ~(j \in 1..Len(data[l]) /\ d[l][j] = data[l][j])
        BY <1>3, <1>5, <2>4, <3>2
      <4>2. QED
        BY <1>6, <3>2, <4>1
    <3>3. QED
      BY <1>6, <3>1, <3>2
  <2>5. ASSUME NEW l \in Fifos, NEW r \in Fifos, l # r, NEW i \in 1..Len(d[l]), NEW j \in 1..Len(d[r])
        PROVE  d[l][i] # d[r][j]
    <3>1. CASE i \in 1..Len(data[l]) /\ d[l][i] = data[l][i]
      <4>1. CASE j \in 1..Len(data[r]) /\ d[r][j] = data[r][j]
        BY <2>5, <3>1, <4>1 DEF Once
      <4>2. CASE d[r][j] = m
        BY <1>3, <1>5, <3>1, <4>2
      <4>3. QED
        BY <1>6, <4>1, <4>2
    <3>2. CASE l = k /\ i = Len(q) /\ d[l][i] = m
      <4>1. j \in 1..Len(data[r]) /\ d[r][j] = data[r][j]
        BY <1>6, <2>5, <3>2
      <4>2. QED
        BY <1>3, <1>5, <3>2, <4>1
    <3>3. QED
      BY <1>6, <3>1, <3>2
  <2>6. ASSUME NEW l \in Fifos, NEW i \in 1..Len(d[l]), NEW j \in 1..Len(got) PROVE d[l][i] # got[j]
    <3>1. CASE i \in 1..Len(data[l]) /\ d[l][i] = data[l][i]
      BY <3>1 DEF Once
    <3>2. CASE d[l][i] = m
      BY <1>4, <1>5, <3>2
    <3>3. QED
      BY <1>6, <3>1, <3>2
  <2>7. QED
    BY <2>1, <2>2, <2>3, <2>4, <2>5, <2>6 DEF Once
<1>8. QED
  BY <1>2, <1>7 DEF d, q, m

\* A message may be written nowhere.
LEMMA OnceLost ==
  ASSUME NEW data \in [Fifos -> Seq(Nat)], NEW got \in Seq(Nat), NEW sent \in Nat, Once(data, got, sent)
  PROVE  Once(data, got, sent + 1)
<1>1. \A l \in Fifos : \A i \in 1..Len(data[l]) : data[l][i] <= sent + 1
  <2>1. \A l \in Fifos : \A i \in 1..Len(data[l]) : data[l][i] \in Nat /\ data[l][i] <= sent
    BY DEF Once
  <2>2. QED
    BY <2>1
<1>2. \A i \in 1..Len(got) : got[i] <= sent + 1
  <2>1. \A i \in 1..Len(got) : got[i] \in Nat /\ got[i] <= sent
    BY DEF Once
  <2>2. QED
    BY <2>1
<1>3. QED
  BY <1>1, <1>2 DEF Once

\* A FIFO that nobody has open is empty.
LEMMA OnceEmptied ==
  ASSUME NEW data \in [Fifos -> Seq(Nat)], NEW got \in Seq(Nat), NEW sent \in Nat, Once(data, got, sent),
         NEW k
  PROVE  /\ [data EXCEPT ![k] = <<>>] \in [Fifos -> Seq(Nat)]
         /\ Once([data EXCEPT ![k] = <<>>], got, sent)
<1> DEFINE none == <<>>
           d == [data EXCEPT ![k] = none]
<1>0. none \in Seq(Nat) /\ Len(none) = 0
  OBVIOUS
<1> HIDE DEF none
<1>1. /\ d \in [Fifos -> Seq(Nat)]
      /\ \A l \in Fifos : d[l] = data[l] \/ d[l] = none
  BY <1>0
<1> HIDE DEF d
<1>2. \A l \in Fifos : \A i \in 1..Len(d[l]) : i \in 1..Len(data[l]) /\ d[l][i] = data[l][i]
  BY <1>0, <1>1
<1>3. Once(d, got, sent)
  <2>1. \A l \in Fifos : \A i \in 1..Len(d[l]) : d[l][i] <= sent
    BY <1>2 DEF Once
  <2>2. ASSUME NEW l \in Fifos, NEW i \in 1..Len(d[l]), NEW j \in 1..Len(d[l]), d[l][i] = d[l][j]
        PROVE  i = j
    BY <1>2, <2>2 DEF Once
  <2>3. ASSUME NEW l \in Fifos, NEW r \in Fifos, l # r, NEW i \in 1..Len(d[l]), NEW j \in 1..Len(d[r])
        PROVE  d[l][i] # d[r][j]
    BY <1>2, <2>3 DEF Once
  <2>4. ASSUME NEW l \in Fifos, NEW i \in 1..Len(d[l]), NEW j \in 1..Len(got) PROVE d[l][i] # got[j]
    BY <1>2 DEF Once
  <2>5. QED
    BY <2>1, <2>2, <2>3, <2>4 DEF Once
<1>4. QED
  BY <1>1, <1>3 DEF d, none

\* A message that is read leaves the FIFO.
LEMMA OnceRead ==
  ASSUME NEW data \in [Fifos -> Seq(Nat)], NEW got \in Seq(Nat), NEW sent \in Nat, Once(data, got, sent),
         NEW k \in Fifos, data[k] # <<>>
  PROVE  /\ [data EXCEPT ![k] = Tail(@)] \in [Fifos -> Seq(Nat)] /\ Append(got, Head(data[k])) \in Seq(Nat)
         /\ Once([data EXCEPT ![k] = Tail(@)], Append(got, Head(data[k])), sent)
<1> DEFINE h == Head(data[k])
           t == Tail(data[k])
           d == [data EXCEPT ![k] = t]
           g == Append(got, h)
<1>1. /\ data[k] \in Seq(Nat) /\ Len(data[k]) \in Nat /\ Len(got) \in Nat
  OBVIOUS
<1>2. /\ h \in Nat /\ t \in Seq(Nat) /\ Len(t) = Len(data[k]) - 1
      /\ \A i \in 1..Len(t) : t[i] = data[k][i + 1]
  BY HeadTailProperties
<1>3. 1 \in 1..Len(data[k]) /\ h = data[k][1]
  BY <1>1
<1>4. \A i \in 1..Len(t) : i + 1 \in 1..Len(data[k]) /\ i + 1 # 1
  BY <1>1, <1>2
<1> HIDE DEF h, t
<1>5. d \in [Fifos -> Seq(Nat)] /\ \A l \in Fifos : d[l] = IF l = k THEN t ELSE data[l]
  BY <1>2
<1>6. /\ g \in Seq(Nat) /\ Len(g) = Len(got) + 1
      /\ \A i \in 1..Len(g) : (i \in 1..Len(got) /\ g[i] = got[i]) \/ (i = Len(g) /\ g[i] = h)
  BY <1>1, <1>2, AppendProperties
<1> HIDE DEF d, g
<1>7. \A l \in Fifos : \A i \in 1..Len(d[l]) :
        \/ l # k /\ i \in 1..Len(data[l]) /\ d[l][i] = data[l][i]
        \/ l = k /\ i + 1 \in 1..Len(data[k]) /\ i + 1 # 1 /\ d[l][i] = data[k][i + 1]
  BY <1>2, <1>4, <1>5
<1>8. Once(d, g, sent)
  <2>1. \A i \in 1..Len(g) : g[i] <= sent
    BY <1>3, <1>6 DEF Once
  <2>2. ASSUME NEW l \in Fifos, NEW i \in 1..Len(d[l]) PROVE d[l][i] <= sent
    <3>1. CASE i \in 1..Len(data[l]) /\ d[l][i] = data[l][i]
      BY <3>1 DEF Once
    <3>2. CASE i + 1 \in 1..Len(data[k]) /\ d[l][i] = data[k][i + 1]
      BY <3>2 DEF Once
    <3>3. QED
      BY <1>7, <3>1, <3>2
  <2>3. ASSUME NEW i \in 1..Len(g), NEW j \in 1..Len(g), g[i] = g[j] PROVE i = j
    <3>1. \A n \in 1..Len(got) : got[n] # h
      BY <1>3 DEF Once
    <3>2. CASE i \in 1..Len(got) /\ g[i] = got[i]
      BY <1>6, <2>3, <3>1, <3>2 DEF Once
    <3>3. CASE i = Len(g) /\ g[i] = h
      BY <1>6, <2>3, <3>1, <3>3
    <3>4. QED
      BY <1>6, <3>2, <3>3
  <2>4. ASSUME NEW l \in Fifos, NEW i \in 1..Len(d[l]), NEW j \in 1..Len(d[l]), d[l][i] = d[l][j]
        PROVE  i = j
    <3>1. CASE l # k
      BY <1>5, <2>4, <3>1 DEF Once
    <3>2. CASE l = k
      <4>1. i \in Nat /\ j \in Nat
        OBVIOUS
      <4>2. i + 1 \in 1..Len(data[k]) /\ j + 1 \in 1..Len(data[k]) /\ data[k][i + 1] = data[k][j + 1]
        BY <1>7, <2>4, <3>2
      <4>3. i + 1 = j + 1
        BY <4>2 DEF Once
      <4>4. QED
        BY <4>1, <4>3
    <3>3. QED
      BY <3>1, <3>2
  <2>5. ASSUME NEW l \in Fifos, NEW r \in Fifos, l # r, NEW i \in 1..Len(d[l]), NEW j \in 1..Len(d[r])
        PROVE  d[l][i] # d[r][j]
    <3>1. PICK m \in 1..Len(data[l]) : d[l][i] = data[l][m]
      BY <1>7
    <3>2. PICK n \in 1..Len(data[r]) : d[r][j] = data[r][n]
      BY <1>7
    <3>3. QED
      BY <2>5, <3>1, <3>2 DEF Once
  <2>6. ASSUME NEW l \in Fifos, NEW i \in 1..Len(d[l]), NEW j \in 1..Len(g) PROVE d[l][i] # g[j]
    <3>1. d[l][i] # h
      <4>1. CASE l # k /\ i \in 1..Len(data[l]) /\ d[l][i] = data[l][i]
        BY <1>3, <4>1 DEF Once
      <4>2. CASE i + 1 \in 1..Len(data[k]) /\ i + 1 # 1 /\ d[l][i] = data[k][i + 1]
        BY <1>3, <4>2 DEF Once
      <4>3. QED
        BY <1>7, <4>1, <4>2
    <3>2. j \in 1..Len(got) => d[l][i] # got[j]
      <4>1. PICK m \in 1..Len(data[l]) : d[l][i] = data[l][m]
        BY <1>7
      <4>2. QED
        BY <4>1 DEF Once
    <3>3. QED
      BY <1>6, <3>1, <3>2
  <2>7. QED
    BY <2>1, <2>2, <2>3, <2>4, <2>5, <2>6 DEF Once
<1>9. QED
  BY <1>5, <1>6, <1>8 DEF d, g, t, h


\* What FifoInv says of types, taken apart.
LEMMA FifoTypes ==
  ASSUME NEW o \in FifoState
  PROVE  /\ o.node \in Nat /\ o.made \in Nat /\ o.at \in [Ends -> Int] /\ o.data \in [Fifos -> Seq(Nat)]
         /\ o.stdin \in [Ends -> BOOLEAN] /\ o.zero \in SUBSET Ends /\ o.unlinked \in SUBSET Ends
         /\ o.sent \in Nat /\ o.got \in Seq(Nat)
BY DEF FifoState

\* A close() takes the name of the FIFO from all.
FifoGone(o, p, c) ==
  /\ c.node = 0 /\ c.made = o.made /\ c.sent = o.sent /\ c.got = o.got
  /\ \A q \in Ends : c.at[q] = IF q = p THEN -1 ELSE o.at[q]
  /\ c.zero = o.zero \ {p}
  /\ c.unlinked = (o.unlinked \union {q \in Ends : o.at[q] > 0}) \ {p}

LEMMA FifoClosedIs ==
  ASSUME NEW o \in FifoState, NEW p \in Ends, EndsPlaced(o), Once(o.data, o.got, o.sent), o.at[p] >= 0
  PROVE  /\ FifoClosed(o, p) \in FifoState /\ FifoGone(o, p, FifoClosed(o, p))
         /\ Once(FifoClosed(o, p).data, o.got, o.sent)
<1> DEFINE last == o.at[p] > 0 /\ \A q \in Ends \ {p} : o.at[q] # o.at[p]
           x == o.stdin[p] /\ o.at[p] # 0
           stdin == [o.stdin EXCEPT ![p] = x]
           at == [o.at EXCEPT ![p] = -1]
           unlinked == (o.unlinked \union {q \in Ends : o.at[q] > 0}) \ {p}
           zeros == o.zero \ {p}
           data == IF last THEN [o.data EXCEPT ![o.at[p] - 1] = <<>>] ELSE o.data
           c == [o EXCEPT !.stdin = stdin, !.at = at, !.node = 0, !.unlinked = unlinked, !.zero = zeros,
                          !.data = data]
<1>1. /\ o.node \in Nat /\ o.made \in Nat /\ o.at \in [Ends -> Int] /\ o.data \in [Fifos -> Seq(Nat)]
      /\ o.stdin \in [Ends -> BOOLEAN] /\ o.zero \in SUBSET Ends /\ o.unlinked \in SUBSET Ends
      /\ o.sent \in Nat /\ o.got \in Seq(Nat)
  BY FifoTypes
<1>2. FifoClosed(o, p) = c
  BY <1>1 DEF FifoClosed, FifoState
<1>3. data \in [Fifos -> Seq(Nat)] /\ Once(data, o.got, o.sent)
  BY <1>1, OnceEmptied
<1>4. /\ stdin \in [Ends -> BOOLEAN] /\ unlinked \in SUBSET Ends /\ zeros \in SUBSET Ends
      /\ at \in [Ends -> Int] /\ \A q \in Ends : at[q] = IF q = p THEN -1 ELSE o.at[q]
  BY <1>1
<1> HIDE DEF data, stdin, at, unlinked, zeros
<1>5. c \in FifoState
  BY <1>3, <1>4 DEF FifoState
<1>6. /\ c.node = 0 /\ c.made = o.made /\ c.sent = o.sent /\ c.got = o.got /\ c.at = at
      /\ c.zero = zeros /\ c.unlinked = unlinked /\ c.data = data
  BY DEF FifoState
<1> HIDE DEF c
<1>7. FifoGone(o, p, c)
  BY <1>4, <1>6 DEF FifoGone, zeros, unlinked
<1>8. QED
  BY <1>2, <1>3, <1>5, <1>6, <1>7

\* As long as the name is gone, those that are open have lost it.
LEMMA GonePlaced ==
  ASSUME NEW o \in FifoState, NEW c \in FifoState, NEW p \in Ends, EndsPlaced(o), FifoGone(o, p, c)
  PROVE  EndsPlaced(c)
<1>1. o.at \in [Ends -> Int] /\ o.made \in Nat /\ o.zero \in SUBSET Ends
  BY FifoTypes
<1>2. c.node \in 0..c.made /\ c.made \in 0..MaxFifos
  BY <1>1 DEF EndsPlaced, FifoGone
<1>3. ASSUME NEW q \in Ends
      PROVE  /\ c.at[q] \in {-1, 0} \union 2..(c.made + 1)
             /\ c.at[q] = 0 <=> q \in c.zero
             /\ c.at[q] >= 0 /\ q \notin c.unlinked \union c.zero => c.at[q] = c.node + 1
  <2>1. /\ o.at[q] \in {-1, 0} \union 2..(o.made + 1)
        /\ o.at[q] = 0 <=> q \in o.zero
    BY DEF EndsPlaced
  <2>2. CASE q = p
    BY <2>2 DEF FifoGone
  <2>3. CASE q # p
    <3>1. c.at[q] = o.at[q] /\ (q \in c.zero <=> q \in o.zero) /\ c.made = o.made
          /\ (o.at[q] > 0 => q \in c.unlinked)
      BY <2>3 DEF FifoGone
    <3>2. c.at[q] >= 0 => o.at[q] > 0 \/ o.at[q] = 0
      BY <1>1, <3>1
    <3>3. QED
      BY <2>1, <3>1, <3>2
  <2>4. QED
    BY <2>2, <2>3
<1>4. QED
  BY <1>2, <1>3 DEF EndsPlaced

LEMMA PipeCloseStep ==
  ASSUME FifoInv, NEW p \in Ends, pipeClose(p)
  PROVE  FifoInv'
<1>1. obj \in FifoState /\ EndsPlaced(obj) /\ Once(obj.data, obj.got, obj.sent)
  BY DEF FifoInv
<1>2. obj' = FifoClosed(obj, p) /\ obj.at[p] >= 0
  BY DEF pipeClose
<1>3. obj' \in FifoState /\ FifoGone(obj, p, obj') /\ Once(obj'.data, obj.got, obj.sent)
  BY <1>1, <1>2, FifoClosedIs
<1>4. EndsPlaced(obj')
  BY <1>1, <1>3, GonePlaced
<1>5. QED
  BY <1>3, <1>4 DEF FifoInv, FifoGone

\* create() makes a FIFO where there is none of the name.
LEMMA PipeCreateStep ==
  ASSUME FifoInv, NEW p \in Ends, pipeCreate(p)
  PROVE  FifoInv'
<1> DEFINE o == FifoClosed(obj, p)
           made == o.made + 1
           at == [o.at EXCEPT ![p] = 0]
           zeros == o.zero \union {p}
<1>1. obj \in FifoState /\ EndsPlaced(obj) /\ Once(obj.data, obj.got, obj.sent)
  BY DEF FifoInv
<1>2. o \in FifoState /\ EndsPlaced(o) /\ Once(o.data, o.got, o.sent)
  <2>1. CASE obj.at[p] >= 0
    <3>1. o \in FifoState /\ FifoGone(obj, p, o) /\ Once(o.data, obj.got, obj.sent)
      BY <1>1, <2>1, FifoClosedIs
    <3>2. EndsPlaced(o)
      BY <1>1, <3>1, GonePlaced
    <3>3. QED
      BY <3>1, <3>2 DEF FifoGone
  <2>2. CASE ~(obj.at[p] >= 0)
    <3>1. obj.at[p] \in Int
      BY <1>1, FifoTypes
    <3>2. obj.at[p] < 0
      BY <2>2, <3>1
    <3>3. o = obj
      BY <3>2 DEF FifoClosed
    <3>4. QED
      BY <1>1, <3>3
  <2>3. QED
    BY <2>1, <2>2
<1>3. \/ obj' = o
      \/ /\ o.node = 0 /\ o.made < MaxFifos
         /\ obj' = [o EXCEPT !.made = @ + 1, !.node = o.made + 1, !.at[p] = 0, !.zero = @ \union {p}]
  BY DEF pipeCreate
<1> HIDE DEF o
<1>4. CASE obj' = o
  BY <1>2, <1>4 DEF FifoInv
<1>5. ASSUME o.node = 0, o.made < MaxFifos,
             obj' = [o EXCEPT !.made = @ + 1, !.node = o.made + 1, !.at[p] = 0, !.zero = @ \union {p}]
      PROVE  FifoInv'
  <2>1. o.at \in [Ends -> Int] /\ o.made \in Nat /\ o.zero \in SUBSET Ends
    BY <1>2, FifoTypes
  <2>2. obj' = [o EXCEPT !.made = made, !.node = made, !.at = at, !.zero = zeros]
    BY <1>2, <1>5 DEF FifoState
  <2>3. /\ made \in Nat /\ at \in [Ends -> Int] /\ zeros \in SUBSET Ends
        /\ \A q \in Ends : at[q] = IF q = p THEN 0 ELSE o.at[q]
        /\ made \in 0..MaxFifos /\ o.made < made
    BY <1>5, <2>1, FifosAre
  <2>4. \A q \in Ends : q \in zeros <=> q \in o.zero \/ q = p
    OBVIOUS
  <2> HIDE DEF made, at, zeros
  <2>5. obj' \in FifoState
    BY <1>2, <2>2, <2>3 DEF FifoState
  <2>6. /\ obj'.made = made /\ obj'.node = made /\ obj'.at = at /\ obj'.zero = zeros
        /\ obj'.unlinked = o.unlinked /\ obj'.data = o.data /\ obj'.got = o.got /\ obj'.sent = o.sent
    BY <1>2, <2>2 DEF FifoState
  <2>7. EndsPlaced(obj')
    <3>1. ASSUME NEW q \in Ends
          PROVE  /\ at[q] \in {-1, 0} \union 2..(made + 1)
                 /\ at[q] = 0 <=> q \in zeros
                 /\ at[q] >= 0 /\ q \notin o.unlinked \union zeros => at[q] = made + 1
      <4>1. /\ o.at[q] \in {-1, 0} \union 2..(o.made + 1)
            /\ o.at[q] = 0 <=> q \in o.zero
            /\ o.at[q] >= 0 /\ q \notin o.unlinked \union o.zero => o.at[q] = 1
        BY <1>2, <1>5 DEF EndsPlaced
      <4>2. CASE q = p
        BY <2>3, <2>4, <4>2
      <4>3. CASE q # p
        <5>1. at[q] = o.at[q] /\ (q \in zeros <=> q \in o.zero)
          BY <2>3, <2>4, <4>3
        <5>2. 2..(o.made + 1) \subseteq 2..(made + 1)
          BY <2>1, <2>3
        <5>3. ~(o.at[q] >= 0 /\ q \notin o.unlinked \union o.zero)
          BY <2>1, <4>1
        <5>4. QED
          BY <4>1, <5>1, <5>2, <5>3
      <4>4. QED
        BY <4>2, <4>3
    <3>2. made \in 0..made
      BY <2>3
    <3>3. QED
      BY <2>3, <2>6, <3>1, <3>2 DEF EndsPlaced
  <2>8. QED
    BY <1>2, <2>5, <2>6, <2>7 DEF FifoInv
<1>6. QED
  BY <1>3, <1>4, <1>5

\* open() finds the FIFO of the name.
LEMMA PipeOpenStep ==
  ASSUME FifoInv, NEW p \in Ends, pipeOpen(p)
  PROVE  FifoInv'
<1> DEFINE at == [obj.at EXCEPT ![p] = obj.node + 1]
           unlinked == obj.unlinked \ {p}
<1>1. obj \in FifoState /\ EndsPlaced(obj) /\ Once(obj.data, obj.got, obj.sent)
  BY DEF FifoInv
<1>2. /\ obj.at \in [Ends -> Int] /\ obj.node \in Nat /\ obj.made \in Nat /\ obj.unlinked \in SUBSET Ends
      /\ obj.zero \in SUBSET Ends
  BY <1>1, FifoTypes
<1>3. /\ obj' = [obj EXCEPT !.at = at, !.unlinked = unlinked] /\ obj.at[p] < 0 /\ obj.node # 0
  BY <1>1 DEF pipeOpen, FifoState
<1>4. /\ at \in [Ends -> Int] /\ unlinked \in SUBSET Ends
      /\ \A q \in Ends : at[q] = IF q = p THEN obj.node + 1 ELSE obj.at[q]
      /\ \A q \in Ends : q # p => (q \in unlinked <=> q \in obj.unlinked)
  BY <1>2
<1> HIDE DEF at, unlinked
<1>5. obj' \in FifoState
  BY <1>1, <1>3, <1>4 DEF FifoState
<1>6. /\ obj'.made = obj.made /\ obj'.node = obj.node /\ obj'.at = at /\ obj'.zero = obj.zero
      /\ obj'.unlinked = unlinked /\ obj'.data = obj.data /\ obj'.got = obj.got /\ obj'.sent = obj.sent
  BY <1>1, <1>3 DEF FifoState
<1>7. obj.node \in 0..obj.made /\ obj.made \in 0..MaxFifos
  BY <1>1 DEF EndsPlaced
<1>8. ASSUME NEW q \in Ends
      PROVE  /\ at[q] \in {-1, 0} \union 2..(obj.made + 1)
             /\ at[q] = 0 <=> q \in obj.zero
             /\ at[q] >= 0 /\ q \notin unlinked \union obj.zero => at[q] = obj.node + 1
  <2>1. /\ obj.at[q] \in {-1, 0} \union 2..(obj.made + 1)
        /\ obj.at[q] = 0 <=> q \in obj.zero
        /\ obj.at[q] >= 0 /\ q \notin obj.unlinked \union obj.zero => obj.at[q] = obj.node + 1
    BY <1>1 DEF EndsPlaced
  <2>2. CASE q = p
    <3>1. p \notin obj.zero
      BY <1>2, <1>3, <2>1, <2>2
    <3>2. obj.node + 1 \in 2..(obj.made + 1) /\ obj.node + 1 # 0
      BY <1>2, <1>3, <1>7
    <3>3. QED
      BY <1>4, <2>2, <3>1, <3>2
  <2>3. CASE q # p
    BY <1>4, <2>1, <2>3
  <2>4. QED
    BY <2>2, <2>3
<1>9. EndsPlaced(obj')
  BY <1>6, <1>7, <1>8 DEF EndsPlaced
<1>10. QED
  BY <1>1, <1>5, <1>6, <1>9 DEF FifoInv

\* Messages come and go.
LEMMA PipeWriteStep ==
  ASSUME FifoInv, NEW p \in Ends, pipeWrite(p) \/ pipeRead(p)
  PROVE  FifoInv'
<1> DEFINE k == obj.at[p] - 1
<1>1. obj \in FifoState /\ EndsPlaced(obj) /\ Once(obj.data, obj.got, obj.sent)
  BY DEF FifoInv
<1>2. /\ obj.at \in [Ends -> Int] /\ obj.made \in Nat /\ obj.sent \in Nat /\ obj.got \in Seq(Nat)
      /\ obj.data \in [Fifos -> Seq(Nat)]
  BY <1>1, FifoTypes
<1>3. obj.at[p] > 0 => k \in Fifos
  <2>1. obj.at[p] \in {-1, 0} \union 2..(obj.made + 1) /\ obj.made \in 0..MaxFifos
    BY <1>1 DEF EndsPlaced
  <2>2. QED
    BY <2>1, FifosAre DEF Fifos
<1>4. ASSUME NEW data \in [Fifos -> Seq(Nat)], NEW got \in Seq(Nat), NEW sent \in Nat,
             Once(data, got, sent), obj' = [obj EXCEPT !.data = data, !.got = got, !.sent = sent]
      PROVE  FifoInv'
  <2>1. obj' \in FifoState
    BY <1>1, <1>4 DEF FifoState
  <2>2. /\ obj'.made = obj.made /\ obj'.node = obj.node /\ obj'.at = obj.at /\ obj'.zero = obj.zero
        /\ obj'.unlinked = obj.unlinked /\ obj'.data = data /\ obj'.got = got /\ obj'.sent = sent
    BY <1>1, <1>4 DEF FifoState
  <2>3. EndsPlaced(obj')
    BY <1>1, <2>2 DEF EndsPlaced
  <2>4. QED
    BY <1>4, <2>1, <2>2, <2>3 DEF FifoInv
<1>5. CASE pipeWrite(p)
  <2> DEFINE w == [obj.data EXCEPT ![k] = Append(@, obj.sent + 1)]
             n == obj.sent + 1
  <2>1. obj' = [obj EXCEPT !.sent = n, !.data = IF obj.at[p] = 0 THEN obj.data ELSE w]
    BY <1>1, <1>5 DEF pipeWrite, FifoState
  <2>2. obj.at[p] >= 0
    BY <1>5 DEF pipeWrite
  <2>3. n \in Nat /\ Once(obj.data, obj.got, n)
    BY <1>1, <1>2, OnceLost
  <2>4. CASE obj.at[p] = 0
    <3>1. obj' = [obj EXCEPT !.data = obj.data, !.got = obj.got, !.sent = n]
      BY <1>1, <2>1, <2>4 DEF FifoState
    <3> HIDE DEF n
    <3>2. QED
      BY <1>2, <1>4, <2>3, <3>1
  <2>5. CASE obj.at[p] # 0
    <3>1. obj' = [obj EXCEPT !.data = w, !.got = obj.got, !.sent = n]
      <4> HIDE DEF w, n
      <4>1. QED
        BY <1>1, <2>1, <2>5 DEF FifoState
    <3>2. k \in Fifos
      BY <1>2, <1>3, <2>2, <2>5
    <3>3. w \in [Fifos -> Seq(Nat)] /\ Once(w, obj.got, n)
      BY <1>1, <1>2, <3>2, OnceWritten
    <3> HIDE DEF w, n
    <3>4. QED
      BY <1>2, <1>4, <2>3, <3>1, <3>3
  <2>6. QED
    BY <2>4, <2>5
<1>6. CASE pipeRead(p)
  <2> DEFINE w == [obj.data EXCEPT ![k] = Tail(@)]
             g == Append(obj.got, Head(obj.data[k]))
  <2>1. obj' = [obj EXCEPT !.data = w, !.got = g, !.sent = obj.sent]
    BY <1>1, <1>6 DEF pipeRead, FifoState
  <2>2. k \in Fifos /\ obj.data[k] # <<>>
    BY <1>3, <1>6 DEF pipeRead
  <2>3. w \in [Fifos -> Seq(Nat)] /\ g \in Seq(Nat) /\ Once(w, g, obj.sent)
    BY <1>1, <1>2, <2>2, OnceRead
  <2> HIDE DEF w, g
  <2>4. QED
    BY <1>2, <1>4, <2>1, <2>3
<1>7. QED
  BY <1>5, <1>6

\* Every step of a NamedPipe keeps it.
LEMMA FifoStep == FifoInv /\ FifoNext => FifoInv'
BY PipeCreateStep, PipeOpenStep, PipeCloseStep, PipeWriteStep DEF FifoNext

LEMMA FifoHeld == FifoInv => EndsMeet
<1> SUFFICES ASSUME FifoInv PROVE EndsMeet
  OBVIOUS
<1>1. obj \in FifoState /\ EndsPlaced(obj) /\ Once(obj.data, obj.got, obj.sent)
  BY DEF FifoInv
<1>2. IsInjective(obj.got)
  <2>1. DOMAIN obj.got = 1..Len(obj.got)
    BY <1>1, FifoTypes
  <2>2. QED
    BY <1>1, <2>1 DEF IsInjective, Once
<1>3. QED
  BY <1>1, <1>2 DEF EndsMeet, EndsPlaced

-----------------------------------------------------------------------------
(* NamedPipe on Windows.  Where a part is: read, lost, in the read that is  *)
(* under way, or in the pipe.                                               *)
Parts == Nat \X Nat
WinState ==
  [server : {"none", "created", "connected"}, client : BOOLEAN, pipe : Seq(Seq(Parts)), sent : Nat,
   got : Seq(Parts), lost : Seq(Parts), done : Seq(Parts), late : BOOLEAN]

PipeOrdered(pipe) ==
  /\ \A k \in 1..Len(pipe) : pipe[k] # <<>> /\ Ascending(pipe[k])
  /\ \A k, l \in 1..Len(pipe) : k < l => \A x \in ToSet(pipe[k]), y \in ToSet(pipe[l]) : PartBefore(x, y)
Held(o) == ToSet(o.got) \union ToSet(o.done) \union ToSet(o.lost)
PartsKept(o) ==
  /\ Held(o) \union Waiting(o.pipe) = AllParts(o.sent)
  /\ ToSet(o.got) \intersect ToSet(o.lost) = {}
  /\ Ascending(o.got) /\ Ascending(o.lost)
  /\ \A x \in ToSet(o.got) \union ToSet(o.lost), y \in ToSet(o.done) : PartBefore(x, y)
  /\ \A x \in Held(o), y \in Waiting(o.pipe) : PartBefore(x, y)
  /\ PipeOrdered(o.pipe)
WinInv ==
  /\ obj \in WinState /\ DOMAIN pc = {"u2"} /\ PartsKept(obj)
  /\ IF pc["u2"] = "done" THEN Len(obj.done) = 1 ELSE obj.done = <<>>

\* Where the elements of sequences are.
LEMMA Elements ==
  ASSUME NEW s \in Seq(Parts)
  PROVE  /\ ToSet(s) \in SUBSET Parts /\ (s = <<>> => ToSet(s) = {})
         /\ \A x : x \in ToSet(s) <=> \E i \in 1..Len(s) : s[i] = x
         /\ \A i \in 1..Len(s) : s[i] \in ToSet(s)
BY DEF ToSet

LEMMA AppendElements ==
  ASSUME NEW s \in Seq(Parts), NEW x \in Parts, Ascending(s), \A y \in ToSet(s) : PartBefore(y, x)
  PROVE  /\ Append(s, x) \in Seq(Parts) /\ ToSet(Append(s, x)) = ToSet(s) \union {x}
         /\ Ascending(Append(s, x))
<1> DEFINE t == Append(s, x)
<1>1. /\ t \in Seq(Parts) /\ Len(t) = Len(s) + 1 /\ Len(s) \in Nat /\ t[Len(s) + 1] = x
      /\ \A i \in 1..Len(s) : t[i] = s[i]
  BY AppendProperties
<1> HIDE DEF t
<1>2. \A i \in 1..Len(t) : i \in 1..Len(s) \/ i = Len(s) + 1
  BY <1>1
<1>3. ToSet(t) = ToSet(s) \union {x}
  <2>1. \A i \in 1..Len(s) : i \in 1..Len(t)
    BY <1>1
  <2>2. Len(s) + 1 \in 1..Len(t)
    BY <1>1
  <2>3. \A y : y \in ToSet(t) <=> \E i \in 1..Len(t) : t[i] = y
    BY <1>1, Elements
  <2>4. \A y : y \in ToSet(s) <=> \E i \in 1..Len(s) : s[i] = y
    BY Elements
  <2>5. ASSUME NEW y \in ToSet(t) PROVE y \in ToSet(s) \/ y = x
    BY <1>1, <1>2, <2>3, <2>4
  <2>6. ASSUME NEW y, y \in ToSet(s) \/ y = x PROVE y \in ToSet(t)
    BY <1>1, <2>1, <2>2, <2>3, <2>4, <2>6
  <2>7. QED
    BY <2>5, <2>6
<1>4. Ascending(t)
  <2> SUFFICES ASSUME NEW i \in 1..Len(t), NEW j \in 1..Len(t), i < j PROVE PartBefore(t[i], t[j])
    BY <1>1 DEF Ascending
  <2>1. i \in 1..Len(s)
    BY <1>1, <1>2
  <2>2. CASE j \in 1..Len(s)
    BY <1>1, <2>1, <2>2 DEF Ascending
  <2>3. CASE j = Len(s) + 1
    BY <1>1, <2>1, <2>3, Elements
  <2>4. QED
    BY <1>2, <2>2, <2>3
<1>5. QED
  BY <1>1, <1>3, <1>4 DEF t

LEMMA BeforeIs ==
  /\ \A x \in Parts : ~PartBefore(x, x)
  /\ \A x, y, z \in Parts : PartBefore(x, y) /\ PartBefore(y, z) => PartBefore(x, z)
BY DEF PartBefore, Parts

LEMMA WaitingIs ==
  ASSUME NEW pipe \in Seq(Seq(Parts))
  PROVE  \A x : x \in Waiting(pipe) <=> \E k \in 1..Len(pipe) : x \in ToSet(pipe[k])
<1>1. DOMAIN pipe = 1..Len(pipe)
  OBVIOUS
<1>2. Waiting(pipe) = UNION {ToSet(pipe[k]) : k \in 1..Len(pipe)}
  BY <1>1 DEF Waiting
<1>3. QED
  BY <1>2

\* The parts of a message.
LEMMA PartsOfIs ==
  ASSUME NEW m \in Nat
  PROVE  /\ PartsOf(m) \in Seq(Parts) /\ PartsOf(m) # <<>> /\ Ascending(PartsOf(m))
         /\ \A x \in ToSet(PartsOf(m)) : x[1] = m
<1> DEFINE x1 == Part(m, 1)
           x2 == Part(m, 2)
<1>1. x1 \in Parts /\ x2 \in Parts /\ x1[1] = m /\ x2[1] = m /\ PartBefore(x1, x2)
  BY DEF Part, Parts, PartBefore
<1>2. PartsOf(m) = <<x1, x2>> \/ PartsOf(m) = <<x1>>
  BY DEF PartsOf
<1> HIDE DEF x1, x2
<1>3. CASE PartsOf(m) = <<x1, x2>>
  <2>1. <<x1, x2>> \in Seq(Parts) /\ Len(<<x1, x2>>) = 2 /\ DOMAIN <<x1, x2>> = {1, 2} /\ <<x1, x2>>[1] = x1 /\ <<x1, x2>>[2] = x2
    BY <1>1
  <2>2. \A i, j \in {1, 2} : i < j => i = 1 /\ j = 2
    OBVIOUS
  <2>3. QED
    BY <1>1, <1>3, <2>1, <2>2 DEF Ascending, ToSet
<1>4. CASE PartsOf(m) = <<x1>>
  <2>1. <<x1>> \in Seq(Parts) /\ Len(<<x1>>) = 1 /\ DOMAIN <<x1>> = {1} /\ <<x1>>[1] = x1
    BY <1>1
  <2>2. \A i, j \in {1} : ~(i < j)
    OBVIOUS
  <2>3. QED
    BY <1>1, <1>4, <2>1, <2>2 DEF Ascending, ToSet
<1>5. QED
  BY <1>2, <1>3, <1>4

\* What a read takes is before all that stays.
LEMMA FirstTaken ==
  ASSUME NEW pipe \in Seq(Seq(Parts)), PipeOrdered(pipe), pipe # <<>>
  PROVE  /\ FirstPart(pipe) \in Parts /\ WithoutPart(pipe) \in Seq(Seq(Parts))
         /\ PipeOrdered(WithoutPart(pipe))
         /\ Waiting(pipe) = Waiting(WithoutPart(pipe)) \union {FirstPart(pipe)}
         /\ \A y \in Waiting(WithoutPart(pipe)) : PartBefore(FirstPart(pipe), y)
<1> DEFINE m == Head(pipe)
           h == Head(m)
           r == Tail(m)
           rest == Tail(pipe)
           w == WithoutPart(pipe)
<1>1. /\ Len(pipe) \in Nat /\ Len(pipe) > 0 /\ 1 \in 1..Len(pipe) /\ m = pipe[1] /\ m \in Seq(Parts)
      /\ rest \in Seq(Seq(Parts)) /\ Len(rest) = Len(pipe) - 1
      /\ \A k \in 1..Len(rest) : rest[k] = pipe[k + 1]
  BY HeadTailProperties
<1>2. /\ m # <<>> /\ Ascending(m)
      /\ \A k \in 1..Len(rest) : k + 1 \in 1..Len(pipe) /\ 1 < k + 1
  BY <1>1 DEF PipeOrdered
<1> HIDE DEF m, rest
<1>3. /\ Len(m) \in Nat /\ Len(m) > 0 /\ 1 \in 1..Len(m) /\ h = m[1] /\ h \in Parts /\ r \in Seq(Parts)
      /\ Len(r) = Len(m) - 1 /\ \A i \in 1..Len(r) : r[i] = m[i + 1] /\ i + 1 \in 1..Len(m) /\ 1 < i + 1
  BY <1>1, <1>2, HeadTailProperties
<1>4. FirstPart(pipe) = h
  BY DEF FirstPart, m
<1> HIDE DEF h, r
<1>5. w = IF Len(m) = 1 THEN rest ELSE <<r>> \o rest
  BY DEF WithoutPart, m, r, rest
<1> HIDE DEF w
<1>6. /\ ToSet(m) = {h} \union ToSet(r) /\ Ascending(r)
      /\ \A x \in ToSet(r) : PartBefore(h, x)
  <2>0. \A i, j \in 1..Len(m) : i < j => PartBefore(m[i], m[j])
    <3>1. DOMAIN m = 1..Len(m)
      BY <1>1
    <3>2. QED
      BY <1>2, <3>1 DEF Ascending
  <2>1. \A x : x \in ToSet(m) <=> \E i \in 1..Len(m) : m[i] = x
    BY <1>1, Elements
  <2>2. \A x : x \in ToSet(r) <=> \E i \in 1..Len(r) : r[i] = x
    BY <1>3, Elements
  <2>3. \A i \in 1..Len(m) : i = 1 \/ (i - 1 \in 1..Len(r) /\ (i - 1) + 1 = i)
    BY <1>3
  <2>4. ASSUME NEW x \in ToSet(m) PROVE x = h \/ x \in ToSet(r)
    <3>1. PICK i \in 1..Len(m) : m[i] = x
      BY <2>1
    <3>2. CASE i = 1
      BY <1>3, <3>1, <3>2
    <3>3. CASE i - 1 \in 1..Len(r) /\ (i - 1) + 1 = i
      <4>1. r[i - 1] = x
        BY <1>3, <3>1, <3>3
      <4>2. QED
        BY <2>2, <3>3, <4>1
    <3>4. QED
      BY <2>3, <3>2, <3>3
  <2>5. ASSUME NEW x, x = h \/ x \in ToSet(r) PROVE x \in ToSet(m)
    BY <1>3, <2>1, <2>2, <2>5
  <2>6. \A x \in ToSet(r) : PartBefore(h, x)
    <3>1. \A i \in 1..Len(r) : PartBefore(m[1], m[i + 1])
      BY <1>2, <1>3, <2>0
    <3>2. QED
      BY <1>3, <2>2, <3>1
  <2>7. Ascending(r)
    <3>1. DOMAIN r = 1..Len(r)
      BY <1>3
    <3>2. ASSUME NEW i \in 1..Len(r), NEW j \in 1..Len(r), i < j PROVE PartBefore(r[i], r[j])
      <4>1. i + 1 < j + 1 /\ i + 1 \in 1..Len(m) /\ j + 1 \in 1..Len(m)
        BY <1>3, <3>2
      <4>2. PartBefore(m[i + 1], m[j + 1])
        BY <2>0, <4>1
      <4>3. QED
        BY <1>3, <4>2
    <3>3. QED
      BY <3>1, <3>2 DEF Ascending
  <2>8. QED
    BY <2>4, <2>5, <2>6, <2>7
<1>7. \A x : x \in Waiting(pipe) <=> x \in ToSet(m) \/ \E k \in 1..Len(rest) : x \in ToSet(rest[k])
  <2>1. \A x : x \in Waiting(pipe) <=> \E k \in 1..Len(pipe) : x \in ToSet(pipe[k])
    BY WaitingIs
  <2>2. \A k \in 1..Len(pipe) : k = 1 \/ (k - 1 \in 1..Len(rest) /\ (k - 1) + 1 = k)
    BY <1>1
  <2>3. ASSUME NEW x \in Waiting(pipe) PROVE x \in ToSet(m) \/ \E k \in 1..Len(rest) : x \in ToSet(rest[k])
    <3>1. PICK k \in 1..Len(pipe) : x \in ToSet(pipe[k])
      BY <2>1
    <3>2. CASE k = 1
      BY <1>1, <3>1, <3>2
    <3>3. CASE k - 1 \in 1..Len(rest) /\ (k - 1) + 1 = k
      <4>1. rest[k - 1] = pipe[k]
        BY <1>1, <3>3
      <4>2. QED
        BY <3>1, <3>3, <4>1
    <3>4. QED
      BY <2>2, <3>2, <3>3
  <2>4. ASSUME NEW x, x \in ToSet(m) \/ \E k \in 1..Len(rest) : x \in ToSet(rest[k]) PROVE x \in Waiting(pipe)
    BY <1>1, <1>2, <2>1, <2>4
  <2>5. QED
    BY <2>3, <2>4
<1>8. \A k \in 1..Len(rest) : \A x \in ToSet(m), y \in ToSet(rest[k]) : PartBefore(x, y)
  BY <1>1, <1>2 DEF PipeOrdered
<1>9. PipeOrdered(rest)
  <2>1. \A k \in 1..Len(rest) : rest[k] # <<>> /\ Ascending(rest[k])
    BY <1>1, <1>2 DEF PipeOrdered
  <2>2. ASSUME NEW k \in 1..Len(rest), NEW l \in 1..Len(rest), k < l,
               NEW x \in ToSet(rest[k]), NEW y \in ToSet(rest[l])
        PROVE  PartBefore(x, y)
    <3>1. k + 1 < l + 1
      BY <2>2
    <3>2. QED
      BY <1>1, <1>2, <2>2, <3>1 DEF PipeOrdered
  <2>3. QED
    BY <2>1, <2>2 DEF PipeOrdered
<1>10. CASE Len(m) = 1
  <2>1. w = rest
    BY <1>5, <1>10
  <2>2. ToSet(r) = {}
    <3>1. Len(r) = 0
      BY <1>3, <1>10
    <3>2. 1..0 = {}
      OBVIOUS
    <3>3. QED
      BY <1>3, <3>1, <3>2, Elements
  <2>3. \A x : x \in Waiting(rest) <=> \E k \in 1..Len(rest) : x \in ToSet(rest[k])
    BY <1>1, WaitingIs
  <2>4. Waiting(pipe) = Waiting(rest) \union {h}
    BY <1>6, <1>7, <2>2, <2>3
  <2>5. \A y \in Waiting(rest) : PartBefore(h, y)
    BY <1>6, <1>8, <2>3
  <2>6. QED
    BY <1>1, <1>3, <1>4, <1>9, <2>1, <2>4, <2>5 DEF w
<1>11. CASE Len(m) # 1
  <2>1. w = <<r>> \o rest
    BY <1>5, <1>11
  <2>2. /\ <<r>> \in Seq(Seq(Parts)) /\ Len(<<r>>) = 1 /\ <<r>>[1] = r
    BY <1>3
  <2>3. /\ w \in Seq(Seq(Parts)) /\ Len(w) = 1 + Len(rest) /\ 1 \in 1..Len(w) /\ w[1] = r
        /\ \A k \in 1..Len(rest) : k + 1 \in 1..Len(w) /\ w[k + 1] = rest[k]
    <3>1. Len(rest) \in Nat
      BY <1>1
    <3>2. /\ w \in Seq(Seq(Parts)) /\ Len(w) = Len(<<r>>) + Len(rest)
          /\ \A k \in 1..(Len(<<r>>) + Len(rest)) :
               w[k] = IF k <= Len(<<r>>) THEN <<r>>[k] ELSE rest[k - Len(<<r>>)]
      BY <1>1, <2>1, <2>2, ConcatProperties
    <3>3. \A k \in 1..(1 + Len(rest)) : w[k] = IF k <= 1 THEN r ELSE rest[k - 1]
      BY <2>2, <3>2
    <3>4. 1 \in 1..(1 + Len(rest))
      BY <3>1
    <3>5. \A k \in 1..Len(rest) : k + 1 \in 1..(1 + Len(rest)) /\ ~(k + 1 <= 1) /\ (k + 1) - 1 = k
      BY <3>1
    <3>6. QED
      BY <2>2, <3>2, <3>3, <3>4, <3>5
  <2>4. \A k \in 1..Len(w) : k = 1 \/ (k - 1 \in 1..Len(rest) /\ (k - 1) + 1 = k)
    BY <1>1, <2>3
  <2> DEFINE After(x) == \E k \in 1..Len(rest) : x \in ToSet(rest[k])
  <2>5. \A x : x \in Waiting(w) <=> x \in ToSet(r) \/ After(x)
    <3>1. \A x : x \in Waiting(w) <=> \E k \in 1..Len(w) : x \in ToSet(w[k])
      BY <2>3, WaitingIs
    <3>2. ASSUME NEW x \in Waiting(w) PROVE x \in ToSet(r) \/ After(x)
      <4>1. PICK k \in 1..Len(w) : x \in ToSet(w[k])
        BY <3>1
      <4>2. CASE k = 1
        BY <2>3, <4>1, <4>2
      <4>3. CASE k - 1 \in 1..Len(rest) /\ (k - 1) + 1 = k
        <5>1. rest[k - 1] = w[k]
          BY <2>3, <4>3
        <5>2. QED
          BY <4>1, <4>3, <5>1
      <4>4. QED
        BY <2>4, <4>2, <4>3
    <3>3. ASSUME NEW x, x \in ToSet(r) \/ After(x) PROVE x \in Waiting(w)
      BY <2>3, <3>1, <3>3
    <3>4. QED
      BY <3>2, <3>3
  <2>6. Waiting(pipe) = Waiting(w) \union {h}
    BY <1>6, <1>7, <2>5
  <2>7. \A y \in Waiting(w) : PartBefore(h, y)
    BY <1>6, <1>8, <2>5
  <2>8. r # <<>>
    BY <1>3, <1>11
  <2>9. PipeOrdered(w)
    <3>1. ASSUME NEW k \in 1..Len(w) PROVE w[k] # <<>> /\ Ascending(w[k])
      <4>1. CASE k = 1
        BY <1>6, <2>3, <2>8, <4>1
      <4>2. CASE k - 1 \in 1..Len(rest) /\ (k - 1) + 1 = k
        <5>1. w[k] = rest[k - 1]
          BY <2>3, <4>2
        <5>2. QED
          BY <1>9, <4>2, <5>1 DEF PipeOrdered
      <4>3. QED
        BY <2>4, <4>1, <4>2
    <3>2. ASSUME NEW k \in 1..Len(w), NEW l \in 1..Len(w), k < l, NEW x \in ToSet(w[k]), NEW y \in ToSet(w[l])
          PROVE  PartBefore(x, y)
      <4>1. l - 1 \in 1..Len(rest) /\ (l - 1) + 1 = l /\ w[l] = rest[l - 1]
        <5>1. l # 1
          BY <3>2
        <5>2. l - 1 \in 1..Len(rest) /\ (l - 1) + 1 = l
          BY <2>4, <5>1
        <5>3. QED
          BY <2>3, <5>2
      <4>2. CASE k = 1
        <5>1. x \in ToSet(m)
          BY <1>6, <2>3, <3>2, <4>2
        <5>2. QED
          BY <1>8, <3>2, <4>1, <5>1
      <4>3. CASE k - 1 \in 1..Len(rest) /\ (k - 1) + 1 = k
        <5>1. w[k] = rest[k - 1]
          BY <2>3, <4>3
        <5>2. k - 1 < l - 1
          BY <3>2
        <5>3. QED
          BY <1>9, <3>2, <4>1, <4>3, <5>1, <5>2 DEF PipeOrdered
      <4>4. QED
        BY <2>4, <4>2, <4>3
    <3>3. QED
      BY <3>1, <3>2 DEF PipeOrdered
  <2>10. QED
    BY <1>3, <1>4, <2>3, <2>6, <2>7, <2>9 DEF w
<1>12. QED
  BY <1>10, <1>11

LEMMA AllPartsAre == \A n, x : x \in AllParts(n) <=> \E m \in 1..n : x \in ToSet(PartsOf(m))
BY DEF AllParts

LEMMA WinInvInit == WinPipeInit => WinInv
<1> SUFFICES ASSUME WinPipeInit PROVE WinInv
  OBVIOUS
<1>1. Len(<<>>) = 0 /\ <<>> \in Seq(Parts) /\ <<>> \in Seq(Seq(Parts)) /\ DOMAIN <<>> = {}
  OBVIOUS
<1>2. obj \in WinState /\ DOMAIN pc = {"u2"} /\ pc["u2"] = "idle"
  BY <1>1 DEF WinPipeInit, WinState
<1>3. obj.got = <<>> /\ obj.lost = <<>> /\ obj.done = <<>> /\ obj.pipe = <<>> /\ obj.sent = 0
  BY DEF WinPipeInit
<1>4. ToSet(<<>>) = {} /\ Waiting(<<>>) = {} /\ Ascending(<<>>) /\ PipeOrdered(<<>>)
  <2>1. ToSet(<<>>) = {}
    BY <1>1 DEF ToSet
  <2>2. Waiting(<<>>) = {}
    BY <1>1 DEF Waiting
  <2>3. QED
    BY <1>1, <2>1, <2>2 DEF Ascending, PipeOrdered
<1>5. AllParts(0) = {}
  <2>1. 1..0 = {}
    OBVIOUS
  <2>2. QED
    BY <2>1 DEF AllParts
<1>6. PartsKept(obj)
  BY <1>3, <1>4, <1>5 DEF PartsKept, Held
<1>7. QED
  BY <1>2, <1>3, <1>6 DEF WinInv

\* A part that is taken goes behind those that were read, or is under way.
LEMMA WinTakeStep ==
  ASSUME WinInv, obj.pipe # <<>>, obj.done = <<>>,
         NEW got, NEW done,
         \/ got = Append(obj.got, FirstPart(obj.pipe)) /\ done = <<>> /\ pc' = pc /\ pc["u2"] # "done"
         \/ got = obj.got /\ done = <<FirstPart(obj.pipe)>> /\ pc' = [pc EXCEPT !["u2"] = "done"],
         obj' = [obj EXCEPT !.got = got, !.pipe = WithoutPart(obj.pipe), !.done = done]
  PROVE  WinInv'
<1> DEFINE h == FirstPart(obj.pipe)
           pipe == WithoutPart(obj.pipe)
<1>1. obj \in WinState /\ DOMAIN pc = {"u2"} /\ PartsKept(obj)
  BY DEF WinInv
<1>2. /\ obj.pipe \in Seq(Seq(Parts)) /\ obj.got \in Seq(Parts) /\ obj.lost \in Seq(Parts)
      /\ obj.sent \in Nat
  BY <1>1 DEF WinState
<1>3. /\ h \in Parts /\ pipe \in Seq(Seq(Parts)) /\ PipeOrdered(pipe)
      /\ Waiting(obj.pipe) = Waiting(pipe) \union {h}
      /\ \A y \in Waiting(pipe) : PartBefore(h, y)
  BY <1>1, <1>2, FirstTaken DEF PartsKept
<1> HIDE DEF h, pipe
<1>4. /\ ToSet(<<>>) = {} /\ <<>> \in Seq(Parts) /\ ToSet(<<h>>) = {h} /\ <<h>> \in Seq(Parts) /\ Len(<<h>>) = 1
  <2>1. <<>> \in Seq(Parts) /\ <<h>> \in Seq(Parts) /\ Len(<<h>>) = 1 /\ DOMAIN <<h>> = {1} /\ <<h>>[1] = h
    BY <1>3
  <2>2. ToSet(<<>>) = {}
    BY <2>1, Elements
  <2>3. ToSet(<<h>>) = {h}
    BY <2>1 DEF ToSet
  <2>4. QED
    BY <2>1, <2>2, <2>3
<1>5. /\ Held(obj) = ToSet(obj.got) \union ToSet(obj.lost)
      /\ \A x \in Held(obj) : PartBefore(x, h)
  BY <1>1, <1>3, <1>4 DEF PartsKept, Held
<1>6. h \notin Held(obj)
  BY <1>3, <1>5, BeforeIs
<1>7. /\ Append(obj.got, h) \in Seq(Parts) /\ ToSet(Append(obj.got, h)) = ToSet(obj.got) \union {h}
      /\ Ascending(Append(obj.got, h))
  <2>1. Ascending(obj.got) /\ \A x \in ToSet(obj.got) : PartBefore(x, h)
    BY <1>1, <1>5 DEF PartsKept
  <2>2. QED
    BY <1>2, <1>3, <2>1, AppendElements
<1>8. got \in Seq(Parts) /\ done \in Seq(Parts)
  BY <1>2, <1>4, <1>7 DEF h
<1>9. obj' \in WinState
  BY <1>1, <1>3, <1>8 DEF WinState, pipe
<1>10. /\ obj'.got = got /\ obj'.lost = obj.lost /\ obj'.done = done /\ obj'.pipe = pipe /\ obj'.sent = obj.sent
  BY <1>1 DEF WinState, pipe
<1>11. Held(obj') = Held(obj) \union {h}
  BY <1>4, <1>5, <1>7, <1>10 DEF Held, h
<1>12. PartsKept(obj')
  <2>1. Held(obj') \union Waiting(pipe) = AllParts(obj.sent)
    <3>1. Held(obj) \union Waiting(obj.pipe) = AllParts(obj.sent)
      BY <1>1 DEF PartsKept
    <3>2. Held(obj') \union Waiting(pipe) = Held(obj) \union Waiting(obj.pipe)
      BY <1>3, <1>11
    <3>3. QED
      BY <3>1, <3>2
  <2>2. ToSet(got) \intersect ToSet(obj.lost) = {}
    <3>1. ToSet(obj.got) \intersect ToSet(obj.lost) = {}
      BY <1>1 DEF PartsKept
    <3>2. h \notin ToSet(obj.lost)
      BY <1>5, <1>6
    <3>3. QED
      BY <1>7, <3>1, <3>2 DEF h
  <2>3. Ascending(got) /\ Ascending(obj.lost)
    BY <1>1, <1>7 DEF h, PartsKept
  <2>4. \A x \in ToSet(got) \union ToSet(obj.lost), y \in ToSet(done) : PartBefore(x, y)
    BY <1>4, <1>5 DEF h
  <2>5. \A x \in Held(obj'), y \in Waiting(pipe) : PartBefore(x, y)
    BY <1>1, <1>3, <1>11 DEF PartsKept
  <2>6. QED
    BY <1>3, <1>10, <2>1, <2>2, <2>3, <2>4, <2>5 DEF PartsKept
<1>13. /\ DOMAIN pc' = {"u2"}
       /\ IF pc'["u2"] = "done" THEN Len(done) = 1 ELSE done = <<>>
  BY <1>1, <1>4 DEF h
<1>14. QED
  BY <1>9, <1>10, <1>12, <1>13 DEF WinInv

\* A part that was under way is read, or lost.
LEMMA WinEndStep ==
  ASSUME WinInv, NEW got, NEW lost,
         \/ got = obj.got \o obj.done /\ lost = obj.lost
         \/ got = obj.got /\ lost = obj.lost \o obj.done,
         obj' = [obj EXCEPT !.got = got, !.lost = lost, !.done = <<>>],
         pc' = [pc EXCEPT !["u2"] = "idle"]
  PROVE  WinInv'
<1>1. obj \in WinState /\ DOMAIN pc = {"u2"} /\ PartsKept(obj) /\ (obj.done = <<>> \/ Len(obj.done) = 1)
  BY DEF WinInv
<1>2. /\ obj.pipe \in Seq(Seq(Parts)) /\ obj.got \in Seq(Parts) /\ obj.lost \in Seq(Parts)
      /\ obj.done \in Seq(Parts) /\ obj.sent \in Nat
  BY <1>1 DEF WinState
<1>3. ASSUME NEW s \in Seq(Parts), Ascending(s),
             \A x \in ToSet(s), y \in ToSet(obj.done) : PartBefore(x, y)
      PROVE  /\ s \o obj.done \in Seq(Parts) /\ Ascending(s \o obj.done)
             /\ ToSet(s \o obj.done) = ToSet(s) \union ToSet(obj.done)
  <2>1. CASE obj.done = <<>>
    <3>1. s \o obj.done = s
      BY <2>1
    <3>2. ToSet(obj.done) = {}
      BY <1>2, <2>1, Elements
    <3>3. QED
      BY <1>3, <3>1, <3>2
  <2>2. CASE Len(obj.done) = 1
    <3> DEFINE x == obj.done[1]
    <3>1. x \in Parts /\ obj.done = <<x>> /\ ToSet(obj.done) = {x}
      <4>1. 1 \in 1..Len(obj.done) /\ DOMAIN obj.done = {1}
        BY <1>2, <2>2
      <4>2. x \in Parts /\ obj.done = <<x>>
        BY <1>2, <2>2, <4>1
      <4>3. ToSet(obj.done) = {x}
        BY <4>1 DEF ToSet
      <4>4. QED
        BY <4>2, <4>3
    <3> HIDE DEF x
    <3>2. s \o obj.done = Append(s, x)
      BY <1>3, <3>1, AppendIsConcat
    <3>3. \A y \in ToSet(s) : PartBefore(y, x)
      BY <1>3, <3>1
    <3>4. /\ Append(s, x) \in Seq(Parts) /\ ToSet(Append(s, x)) = ToSet(s) \union {x}
          /\ Ascending(Append(s, x))
      BY <1>3, <3>1, <3>3, AppendElements
    <3>5. QED
      BY <3>1, <3>2, <3>4
  <2>3. QED
    BY <1>1, <2>1, <2>2
<1>4. /\ obj.got \o obj.done \in Seq(Parts) /\ Ascending(obj.got \o obj.done)
      /\ ToSet(obj.got \o obj.done) = ToSet(obj.got) \union ToSet(obj.done)
      /\ obj.lost \o obj.done \in Seq(Parts) /\ Ascending(obj.lost \o obj.done)
      /\ ToSet(obj.lost \o obj.done) = ToSet(obj.lost) \union ToSet(obj.done)
  <2>1. /\ Ascending(obj.got) /\ Ascending(obj.lost)
        /\ \A x \in ToSet(obj.got), y \in ToSet(obj.done) : PartBefore(x, y)
        /\ \A x \in ToSet(obj.lost), y \in ToSet(obj.done) : PartBefore(x, y)
    BY <1>1 DEF PartsKept
  <2>2. QED
    BY <1>2, <1>3, <2>1
<1>5. got \in Seq(Parts) /\ lost \in Seq(Parts) /\ Ascending(got) /\ Ascending(lost)
  BY <1>1, <1>2, <1>4 DEF PartsKept
<1>6. ToSet(got) \union ToSet(lost) = Held(obj) /\ ToSet(got) \intersect ToSet(lost) = {}
  <2>1. \A x \in ToSet(obj.got) \union ToSet(obj.lost) : x \notin ToSet(obj.done)
    <3>1. ToSet(obj.done) \subseteq Parts
      BY <1>2, Elements
    <3>2. QED
      BY <1>1, <3>1, BeforeIs DEF PartsKept
  <2>2. ToSet(obj.got) \intersect ToSet(obj.lost) = {}
    BY <1>1 DEF PartsKept
  <2>3. QED
    BY <1>4, <2>1, <2>2 DEF Held
<1>7. <<>> \in Seq(Parts) /\ ToSet(<<>>) = {}
  <2>1. <<>> \in Seq(Parts)
    OBVIOUS
  <2>2. QED
    BY <2>1, Elements
<1>8. obj' \in WinState
  BY <1>1, <1>5, <1>7 DEF WinState
<1>9. /\ obj'.got = got /\ obj'.lost = lost /\ obj'.done = <<>> /\ obj'.pipe = obj.pipe /\ obj'.sent = obj.sent
  BY <1>1 DEF WinState
<1>10. Held(obj') = Held(obj)
  BY <1>6, <1>7, <1>9 DEF Held
<1>11. PartsKept(obj')
  BY <1>1, <1>5, <1>6, <1>7, <1>9, <1>10 DEF PartsKept
<1>12. DOMAIN pc' = {"u2"} /\ pc'["u2"] # "done"
  BY <1>1
<1>13. QED
  BY <1>8, <1>9, <1>11, <1>12 DEF WinInv

\* A message goes behind the others.
LEMMA WinWriteStep ==
  ASSUME WinInv, winWrite
  PROVE  WinInv'
<1> DEFINE n == obj.sent + 1
           q == PartsOf(n)
           pipe == Append(obj.pipe, q)
<1>1. obj \in WinState /\ PartsKept(obj) /\ pc' = pc
  BY DEF WinInv, winWrite, Stay
<1>2. /\ obj.pipe \in Seq(Seq(Parts)) /\ obj.got \in Seq(Parts) /\ obj.lost \in Seq(Parts)
      /\ obj.done \in Seq(Parts) /\ obj.sent \in Nat /\ n \in Nat /\ Len(obj.pipe) \in Nat
  BY <1>1 DEF WinState
<1>3. obj' = [obj EXCEPT !.sent = n, !.pipe = pipe]
  BY <1>1 DEF winWrite, WinState
<1>4. q \in Seq(Parts) /\ q # <<>> /\ Ascending(q) /\ \A x \in ToSet(q) : x[1] = n /\ x \in Parts
  BY <1>2, PartsOfIs, Elements
<1>5. \A m \in 1..n : m \in 1..obj.sent \/ m = n
  BY <1>2
<1>6. 1..obj.sent \subseteq 1..n /\ n \in 1..n
  BY <1>2
<1>7. AllParts(n) = AllParts(obj.sent) \union ToSet(q)
  <2>1. /\ \A x : x \in AllParts(n) <=> \E m \in 1..n : x \in ToSet(PartsOf(m))
        /\ \A x : x \in AllParts(obj.sent) <=> \E m \in 1..obj.sent : x \in ToSet(PartsOf(m))
    BY AllPartsAre
  <2>2. ASSUME NEW x \in AllParts(n) PROVE x \in AllParts(obj.sent) \/ x \in ToSet(q)
    BY <1>5, <2>1
  <2>3. ASSUME NEW x, x \in AllParts(obj.sent) \/ x \in ToSet(q) PROVE x \in AllParts(n)
    BY <1>6, <2>1, <2>3
  <2>4. QED
    BY <2>2, <2>3
<1>8. \A x \in Held(obj) \union Waiting(obj.pipe), y \in ToSet(q) : PartBefore(x, y)
  <2> SUFFICES ASSUME NEW x \in Held(obj) \union Waiting(obj.pipe), NEW y \in ToSet(q)
               PROVE  PartBefore(x, y)
    OBVIOUS
  <2>1. x \in AllParts(obj.sent)
    BY <1>1 DEF PartsKept
  <2>2. PICK m \in 1..obj.sent : x \in ToSet(PartsOf(m))
    BY <2>1, AllPartsAre
  <2>3. m \in Nat /\ x[1] = m
    BY <1>2, <2>2, PartsOfIs
  <2>4. m < n
    BY <1>2, <2>2
  <2>5. QED
    BY <1>4, <2>3, <2>4 DEF PartBefore
<1> HIDE DEF q
<1>9. /\ pipe \in Seq(Seq(Parts)) /\ Len(pipe) = Len(obj.pipe) + 1 /\ pipe[Len(obj.pipe) + 1] = q
      /\ \A k \in 1..Len(obj.pipe) : pipe[k] = obj.pipe[k]
  BY <1>2, <1>4, AppendProperties
<1> HIDE DEF pipe, n
<1>10. /\ \A k \in 1..Len(pipe) : k \in 1..Len(obj.pipe) \/ k = Len(obj.pipe) + 1
       /\ \A k \in 1..Len(obj.pipe) : k \in 1..Len(pipe)
       /\ Len(obj.pipe) + 1 \in 1..Len(pipe)
  BY <1>2, <1>9
<1>11. Waiting(pipe) = Waiting(obj.pipe) \union ToSet(q)
  <2>1. /\ \A x : x \in Waiting(pipe) <=> \E k \in 1..Len(pipe) : x \in ToSet(pipe[k])
        /\ \A x : x \in Waiting(obj.pipe) <=> \E k \in 1..Len(obj.pipe) : x \in ToSet(obj.pipe[k])
    BY <1>2, <1>9, WaitingIs
  <2>2. ASSUME NEW x \in Waiting(pipe) PROVE x \in Waiting(obj.pipe) \/ x \in ToSet(q)
    BY <1>9, <1>10, <2>1
  <2>3. ASSUME NEW x, x \in Waiting(obj.pipe) \/ x \in ToSet(q) PROVE x \in Waiting(pipe)
    BY <1>9, <1>10, <2>1, <2>3
  <2>4. QED
    BY <2>2, <2>3
<1>12. obj' \in WinState
  BY <1>1, <1>2, <1>3, <1>9 DEF WinState
<1>13. /\ obj'.got = obj.got /\ obj'.lost = obj.lost /\ obj'.done = obj.done /\ obj'.pipe = pipe /\ obj'.sent = n
  BY <1>1, <1>3 DEF WinState
<1>14. Held(obj') = Held(obj)
  BY <1>13 DEF Held
<1>15. PipeOrdered(pipe)
  <2>1. ASSUME NEW k \in 1..Len(pipe) PROVE pipe[k] # <<>> /\ Ascending(pipe[k])
    BY <1>1, <1>4, <1>9, <1>10 DEF PartsKept, PipeOrdered
  <2>2. ASSUME NEW k \in 1..Len(pipe), NEW l \in 1..Len(pipe), k < l, NEW x \in ToSet(pipe[k]), NEW y \in ToSet(pipe[l])
        PROVE  PartBefore(x, y)
    <3>1. k \in 1..Len(obj.pipe)
      BY <1>2, <1>9, <2>2
    <3>2. CASE l \in 1..Len(obj.pipe)
      BY <1>1, <1>9, <2>2, <3>1, <3>2 DEF PartsKept, PipeOrdered
    <3>3. CASE l = Len(obj.pipe) + 1
      <4>1. x \in Waiting(obj.pipe) /\ y \in ToSet(q)
        BY <1>2, <1>9, <2>2, <3>1, <3>3, WaitingIs
      <4>2. QED
        BY <1>8, <4>1
    <3>4. QED
      BY <1>10, <3>2, <3>3
  <2>3. QED
    BY <2>1, <2>2 DEF PipeOrdered
<1>16. PartsKept(obj')
  <2>1. Held(obj) \union Waiting(pipe) = AllParts(n)
    <3>1. Held(obj) \union Waiting(obj.pipe) = AllParts(obj.sent)
      BY <1>1 DEF PartsKept
    <3>2. QED
      BY <1>7, <1>11, <3>1
  <2>2. \A x \in Held(obj), y \in Waiting(pipe) : PartBefore(x, y)
    BY <1>1, <1>8, <1>11 DEF PartsKept
  <2>3. QED
    BY <1>1, <1>13, <1>14, <1>15, <2>1, <2>2 DEF PartsKept
<1>17. QED
  BY <1>1, <1>12, <1>13, <1>16 DEF WinInv

\* Every step of a NamedPipe on Windows keeps it.
LEMMA WinStep == WinInv /\ WinPipeNext => WinInv'
<1> SUFFICES ASSUME WinInv, WinPipeNext PROVE WinInv'
  OBVIOUS
<1>1. obj \in WinState /\ DOMAIN pc = {"u2"} /\ PartsKept(obj)
      /\ IF pc["u2"] = "done" THEN Len(obj.done) = 1 ELSE obj.done = <<>>
  BY DEF WinInv
<1>2. Len(<<>>) = 0 /\ obj.got \o <<>> = obj.got /\ obj.lost \o <<>> = obj.lost
  BY <1>1 DEF WinState
<1>3. ASSUME obj' \in WinState, obj'.got = obj.got, obj'.lost = obj.lost, obj'.done = obj.done,
             obj'.pipe = obj.pipe, obj'.sent = obj.sent, DOMAIN pc' = {"u2"},
             pc'["u2"] = "done" <=> pc["u2"] = "done"
      PROVE  WinInv'
  BY <1>1, <1>3 DEF WinInv, PartsKept, Held
<1>4. CASE winCreate
  <2>1. obj' \in WinState
    BY <1>1, <1>4 DEF winCreate, WinState
  <2>2. obj'.got = obj.got /\ obj'.lost = obj.lost /\ obj'.done = obj.done /\ obj'.pipe = obj.pipe
        /\ obj'.sent = obj.sent /\ pc' = pc
    BY <1>1, <1>4 DEF winCreate, WinState, Stay
  <2>3. QED
    BY <1>1, <1>3, <2>1, <2>2
<1>5. CASE winOpen
  <2>1. obj' \in WinState
    BY <1>1, <1>5 DEF winOpen, WinState
  <2>2. obj'.got = obj.got /\ obj'.lost = obj.lost /\ obj'.done = obj.done /\ obj'.pipe = obj.pipe
        /\ obj'.sent = obj.sent /\ pc' = pc
    BY <1>1, <1>5 DEF winOpen, WinState, Stay
  <2>3. QED
    BY <1>1, <1>3, <2>1, <2>2
<1>6. CASE winConnect
  <2> DEFINE server == IF obj.client THEN "connected" ELSE obj.server
             late == obj.late \/ ~obj.client
  <2>1. obj' = [obj EXCEPT !.server = server, !.late = late] /\ pc' = pc
    BY <1>1, <1>6 DEF winConnect, WinState, Stay
  <2>2. server \in {"none", "created", "connected"} /\ late \in BOOLEAN
    BY <1>1 DEF WinState
  <2> HIDE DEF server, late
  <2>3. obj' \in WinState
    BY <1>1, <2>1, <2>2 DEF WinState
  <2>4. obj'.got = obj.got /\ obj'.lost = obj.lost /\ obj'.done = obj.done /\ obj'.pipe = obj.pipe
        /\ obj'.sent = obj.sent
    BY <1>1, <2>1 DEF WinState
  <2>5. QED
    BY <1>1, <1>3, <2>1, <2>3, <2>4
<1>7. CASE winRead
  <2>1. pc["u2"] = "idle" /\ obj.done = <<>>
    BY <1>1, <1>7 DEF winRead, At
  <2>2. CASE obj.pipe # <<>>
    <3> DEFINE g == Append(obj.got, FirstPart(obj.pipe))
    <3>1. obj' = [obj EXCEPT !.got = g, !.pipe = WithoutPart(obj.pipe), !.done = <<>>] /\ pc' = pc
      <4> DEFINE w == WithoutPart(obj.pipe)
      <4>1. obj' = [obj EXCEPT !.got = g, !.pipe = w] /\ pc' = pc
        BY <1>1, <1>7, <2>2 DEF winRead, Stay, WinState
      <4> HIDE DEF g, w
      <4>2. obj' = [obj EXCEPT !.got = g, !.pipe = w, !.done = <<>>]
        BY <1>1, <2>1, <4>1 DEF WinState
      <4>3. QED
        BY <4>1, <4>2 DEF w
    <3>2. QED
      BY <2>1, <2>2, <3>1, WinTakeStep
  <2>3. CASE obj.pipe = <<>>
    <3>1. obj' = obj /\ pc' = [pc EXCEPT !["u2"] = "pending"]
      BY <1>7, <2>3 DEF winRead, Go
    <3>2. QED
      BY <1>1, <1>3, <2>1, <3>1
  <2>4. QED
    BY <2>2, <2>3
<1>8. CASE winDone
  <2> DEFINE w == WithoutPart(obj.pipe)
             d == <<FirstPart(obj.pipe)>>
  <2>1. pc["u2"] = "pending" /\ obj.done = <<>> /\ obj.pipe # <<>> /\ pc' = [pc EXCEPT !["u2"] = "done"]
    BY <1>1, <1>8 DEF winDone, At, Go
  <2>2. obj' = [obj EXCEPT !.done = d, !.pipe = w]
    BY <1>1, <1>8 DEF winDone, WinState
  <2>3. obj' = [obj EXCEPT !.got = obj.got, !.pipe = w, !.done = d]
    <3> HIDE DEF w, d
    <3>1. QED
      BY <1>1, <2>2 DEF WinState
  <2>4. QED
    BY <2>1, <2>3, WinTakeStep
<1>9. CASE winGot
  <2> DEFINE g == obj.got \o obj.done
  <2>1. obj' = [obj EXCEPT !.got = g, !.done = <<>>] /\ pc' = [pc EXCEPT !["u2"] = "idle"]
    BY <1>1, <1>9 DEF winGot, Go, WinState
  <2>2. obj' = [obj EXCEPT !.got = g, !.lost = obj.lost, !.done = <<>>]
    <3> HIDE DEF g
    <3>1. QED
      BY <1>1, <2>1 DEF WinState
  <2>3. QED
    BY <2>1, <2>2, WinEndStep
<1>10. CASE winTimeout
  <2> DEFINE l == obj.lost \o obj.done
  <2>1. obj' = [obj EXCEPT !.lost = l, !.done = <<>>] /\ pc' = [pc EXCEPT !["u2"] = "idle"]
    BY <1>1, <1>10 DEF winTimeout, Go, WinState
  <2>2. obj' = [obj EXCEPT !.got = obj.got, !.lost = l, !.done = <<>>]
    <3> HIDE DEF l
    <3>1. QED
      BY <1>1, <2>1 DEF WinState
  <2>3. QED
    BY <2>1, <2>2, WinEndStep
<1>11. QED
  BY <1>4, <1>5, <1>6, <1>7, <1>8, <1>9, <1>10, WinWriteStep DEF WinPipeNext

LEMMA WinHeld == WinInv => PartsInOrder
<1> SUFFICES ASSUME WinInv, class = "winPipe" PROVE PartsInOrder
  BY DEF PartsInOrder
<1>1. obj \in WinState /\ PartsKept(obj) /\ (obj.done = <<>> \/ Len(obj.done) = 1)
  BY DEF WinInv
<1>2. /\ obj.pipe \in Seq(Seq(Parts)) /\ obj.got \in Seq(Parts) /\ obj.lost \in Seq(Parts)
      /\ obj.done \in Seq(Parts) /\ DOMAIN obj.pipe = 1..Len(obj.pipe)
  BY <1>1 DEF WinState
<1> DEFINE given == obj.got \o obj.done
<1>3. Ascending(given) /\ ToSet(given) = ToSet(obj.got) \union ToSet(obj.done)
  <2>1. CASE obj.done = <<>>
    <3>1. given = obj.got
      BY <1>2, <2>1
    <3>2. ToSet(obj.done) = {}
      BY <1>2, <2>1, Elements
    <3>3. QED
      BY <1>1, <3>1, <3>2 DEF PartsKept
  <2>2. CASE Len(obj.done) = 1
    <3> DEFINE x == obj.done[1]
    <3>1. x \in Parts /\ obj.done = <<x>> /\ ToSet(obj.done) = {x}
      <4>1. 1 \in 1..Len(obj.done) /\ DOMAIN obj.done = {1}
        BY <1>2, <2>2
      <4>2. x \in Parts /\ obj.done = <<x>>
        BY <1>2, <2>2, <4>1
      <4>3. ToSet(obj.done) = {x}
        BY <4>1 DEF ToSet
      <4>4. QED
        BY <4>2, <4>3
    <3> HIDE DEF x
    <3>2. given = Append(obj.got, x)
      BY <1>2, <3>1, AppendIsConcat
    <3>3. Ascending(obj.got) /\ \A y \in ToSet(obj.got) : PartBefore(y, x)
      BY <1>1, <3>1 DEF PartsKept
    <3>4. QED
      BY <1>2, <3>1, <3>2, <3>3, AppendElements
  <2>3. QED
    BY <1>1, <2>1, <2>2
<1> HIDE DEF given
<1>4. ToSet(given) \intersect ToSet(obj.lost) = {}
  <2>1. \A x \in ToSet(obj.lost) : x \notin ToSet(obj.done)
    <3>1. ToSet(obj.done) \subseteq Parts
      BY <1>2, Elements
    <3>2. QED
      BY <1>1, <3>1, BeforeIs DEF PartsKept
  <2>2. ToSet(obj.got) \intersect ToSet(obj.lost) = {}
    BY <1>1 DEF PartsKept
  <2>3. QED
    BY <1>3, <2>1, <2>2
<1>5. ToSet(given) \union ToSet(obj.lost) = Held(obj)
  BY <1>3 DEF Held
<1>6. QED
  BY <1>1, <1>2, <1>3, <1>4, <1>5 DEF PartsInOrder, PartsKept, PipeOrdered, given
=============================================================================
