------------------------------ MODULE BoundedFifo ------------------------------
(***************************************************************************)
(* What CycleBuffer promises: a queue of at most Capacity elements.        *)
(* Inserting takes the longest prefix that fits, removing hands out the    *)
(* oldest elements, and every call reports how many it moved.              *)
(***************************************************************************)
EXTENDS Naturals, Sequences

CONSTANTS
  Items, Capacity,
  MaxCall           \* the longest block a caller inserts or removes

VARIABLES q,      \* the elements, oldest first
          count,  \* what the last call returned: how many elements it moved
          out     \* what the last call handed out

vars == <<q, count, out>>

Smaller(a, b) == IF a <= b THEN a ELSE b

Init == q = <<>> /\ count = 0 /\ out = <<>>

Insert(s) == LET k == Smaller(Len(s), Capacity - Len(q))
             IN /\ q' = q \o SubSeq(s, 1, k)
                /\ count' = k
                /\ out' = <<>>

Remove(n) == LET k == Smaller(n, Len(q))
             IN /\ q' = SubSeq(q, k + 1, Len(q))
                /\ count' = k
                /\ out' = SubSeq(q, 1, k)

Blocks == UNION {[1 .. n -> Items] : n \in 0 .. MaxCall}

Next == \/ \E s \in Blocks : Insert(s)
        \/ \E n \in 0 .. MaxCall : Remove(n)

Spec == Init /\ [][Next]_vars
=============================================================================
