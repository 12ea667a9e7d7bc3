------------------------------ MODULE CycleBuffer ------------------------------
(***************************************************************************)
(* ff::CycleBuffer (ff/include/ff/CycleBuffer.h): a ring over a fixed      *)
(* array with a read position and a size.  The class has no lock: one user *)
(* thread makes one call after the other, so a call is one action.         *)
(* Positions are SizeType numbers: sums wrap at SizeWord before they are taken *)
(* modulo the capacity.                                                    *)
(***************************************************************************)
EXTENDS Naturals, Sequences

CONSTANTS
  Items,      \* the values of T
  Capacity,   \* m_capacity
  SizeWord,       \* 2^32, the modulus of SizeType
  MaxCall     \* the longest block a caller reads or writes

\* m_pos + m_size stays below SizeWord.  The class does not check it: a capacity
\* above half of SizeType's range breaks the ring (see RingSum).
ASSUME RingAssumption ==
  /\ Capacity \in Nat /\ SizeWord \in Nat \ {0} /\ MaxCall \in Nat \ {0}
  /\ 2 * Capacity <= SizeWord

VARIABLES
  m_pos, m_size,  \* the position of the oldest element, the number of elements
  m_buf,          \* the array
  count, out      \* what the last call returned, and what it handed out

ringVars == <<m_pos, m_size, m_buf, count, out>>

Slots == 0 .. (Capacity - 1)

Smaller(a, b) == IF a <= b THEN a ELSE b

\* (i + j) % m_capacity in SizeType.
RingSum(i, j) == ((i + j) % SizeWord) % Capacity

tail == RingSum(m_pos, m_size)

\* The array after s is stored from position p on, element by element.
Stored(p, s) ==
  [slot \in Slots |->
     IF \E i \in DOMAIN s : RingSum(p, i - 1) = slot
       THEN s[CHOOSE i \in DOMAIN s : RingSum(p, i - 1) = slot]
       ELSE m_buf[slot]]

\* The k elements from position p on, element by element.
Loaded(p, k) == [i \in 1 .. k |-> m_buf[RingSum(p, i - 1)]]

\* new T[capacity]: the array's contents are whatever is there.
RingInit == /\ m_pos = 0 /\ m_size = 0
        /\ m_buf \in [Slots -> Items]
        /\ count = 0 /\ out = <<>>

\* Defect: a full ring is written over.
putOverwriting(o) ==
  /\ m_buf' = [m_buf EXCEPT ![tail] = o]
  /\ m_size' = Smaller(m_size + 1, Capacity)
  /\ count' = 1 /\ out' = <<>>
  /\ UNCHANGED m_pos

put(o) ==
  \/ /\ m_size = Capacity
     /\ count' = 0 /\ out' = <<>>
     /\ UNCHANGED <<m_pos, m_size, m_buf>>
  \/ /\ m_size # Capacity
     /\ m_buf' = [m_buf EXCEPT ![tail] = o]
     /\ m_size' = m_size + 1
     /\ count' = 1 /\ out' = <<>>
     /\ UNCHANGED m_pos

get ==
  \/ /\ m_size <= 0
     /\ count' = 0 /\ out' = <<>>
     /\ UNCHANGED <<m_pos, m_size, m_buf>>
  \/ /\ m_size > 0
     /\ out' = <<m_buf[m_pos]>>
     /\ m_pos' = RingSum(m_pos, 1)
     /\ m_size' = m_size - 1
     /\ count' = 1
     /\ UNCHANGED m_buf

read(size) ==
  \/ /\ m_size <= 0
     /\ count' = 0 /\ out' = <<>>
     /\ UNCHANGED <<m_pos, m_size, m_buf>>
  \/ /\ m_size > 0
     /\ LET size2Read == Smaller(size, m_size)
        IN /\ out' = Loaded(m_pos, size2Read)
           /\ m_pos' = RingSum(m_pos, size2Read)
           /\ m_size' = m_size - size2Read
           /\ count' = size2Read
     /\ UNCHANGED m_buf

write(o) ==
  LET size2Write == Smaller(Len(o), Capacity - m_size)
  IN /\ m_buf' = IF size2Write <= 0 THEN m_buf ELSE Stored(tail, SubSeq(o, 1, size2Write))
     /\ m_size' = m_size + size2Write
     /\ count' = size2Write /\ out' = <<>>
     /\ UNCHANGED m_pos

Blocks == UNION {[1 .. n -> Items] : n \in 0 .. MaxCall}

RingNext == \/ \E o \in Items : put(o)
        \/ get
        \/ \E n \in 0 .. MaxCall : read(n)
        \/ \E o \in Blocks : write(o)

RingSpec == RingInit /\ [][RingNext]_ringVars
-----------------------------------------------------------------------------
\* Positions stay inside the array, which is never indexed outside.
RingTypeOK == /\ m_pos \in Slots \cup {0}
          /\ m_size \in 0 .. Capacity
          /\ m_buf \in [Slots -> Items]
          /\ count \in Nat
          /\ out \in Seq(Items)

\* The elements in the ring, oldest first.
Contents == Loaded(m_pos, m_size)

Fifo == INSTANCE BoundedFifo WITH q <- Contents

\* Whatever calls of put, get, read and write are mixed and wherever the ring
\* wraps, the elements come out once, in order, and none is an element of the
\* uninitialized array; a call that does not fit moves what fits.
ImplementsFifo == Fifo!Spec
=============================================================================
