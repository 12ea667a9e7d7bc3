------------------------------- MODULE Buffers -------------------------------
(***************************************************************************)
(* Memory that a class keeps for its user: Buffer (src/buffer/Buffer.cpp), *)
(* class "buffer"; List (include/ff/List.h), which owns its elements       *)
(* through pointers, class "ptrList"; and Payload (src/buffer/Payload.cpp),*)
(* typed values in bytes, class "payload".                                 *)
(***************************************************************************)
EXTENDS Monitor, SequencesExt, TLC

CONSTANTS MaxBytes,   \* bound: the size of a buffer
          MaxObjects, \* bound: list elements that exist at once
          MaxValues   \* bound: values in a payload
ASSUME BuffersAssumption == MaxBytes \in Nat /\ MaxObjects \in Nat /\ MaxValues \in Nat

BufBytes == {1, 2}
Unset == 0            \* what memory holds that nobody wrote

CapcityAdj(n) ==
  CASE n = 0 -> 0 [] n \in 1..32 -> n + 4 [] n \in 33..4096 -> n * 2 [] OTHER -> n + 4096

(* mem: the memory behind data, <<>> when it is nullptr; want: what the user*)
(* has put into the buffer; shrunk: resize() has made the buffer end before *)
(* readPos, cut: setCapacity() has made the capacity less than the size;    *)
(* stray: a read or an append has gone past the memory.                     *)
BufferInit ==
  /\ class = "buffer" /\ pc = <<>>
  /\ obj = [mem |-> <<>>, size |-> 0, capacity |-> 0, readPos |-> 0, want |-> <<>>,
            shrunk |-> FALSE, cut |-> FALSE, stray |-> FALSE]
BufferAt == class = "buffer" /\ ~obj.stray

(* A uint32_t below 0 is more than anything there is.                       *)
Huge == 1073741824   \* 2 ^ 30
Minus(a, b) == IF a >= b THEN a - b ELSE Huge + a - b

Padded(s, n) == [i \in 1..n |-> IF i <= Len(s) THEN s[i] ELSE Unset]
Over(s, from, bytes) ==
  [i \in DOMAIN s |-> IF i - from \in DOMAIN bytes THEN bytes[i - from] ELSE s[i]]
Data(o) == SubSeq(o.mem, 1, o.size)
(* new memory of a capacity, with size bytes in it.                         *)
Renewed(o, bytes, size, cap) ==
  [o EXCEPT !.mem = Padded(bytes, cap), !.size = size, !.capacity = cap]

AppendedTight(o, bytes) ==
  LET size == o.size + Len(bytes)
  IN IF Len(bytes) <= o.capacity - o.size
     THEN [o EXCEPT !.mem = Over(@, o.size, bytes), !.size = size, !.stray = size > Len(o.mem)]
     ELSE Renewed(o, bytes, size, CapcityAdj(size))
Appended(o, bytes) ==
  LET room == Minus(o.capacity, o.size)
      size == o.size + Len(bytes)
  IN IF bytes = <<>> THEN o
     ELSE IF Len(bytes) <= room
     THEN [o EXCEPT !.mem = Over(@, o.size, bytes), !.size = size, !.stray = size > Len(o.mem)]
     ELSE Renewed(o, Data(o) \o bytes, size, CapcityAdj(size))
append(bytes) ==
  /\ BufferAt /\ Len(obj.want) + Len(bytes) <= MaxBytes
  /\ obj' = [Appended(obj, bytes) EXCEPT !.want = @ \o bytes]
  /\ Stay
(* buffer += buffer.                                                        *)
appendSelf ==
  /\ BufferAt /\ 2 * Len(obj.want) <= MaxBytes
  /\ obj' = [Appended(obj, Data(obj)) EXCEPT !.want = @ \o @]
  /\ Stay

setDataOf(o, bytes) ==
  [(IF bytes = <<>> THEN [o EXCEPT !.mem = <<>>, !.size = 0, !.capacity = 0]
    ELSE Renewed(o, bytes, Len(bytes), CapcityAdj(Len(bytes)))) EXCEPT !.readPos = 0,
   !.want = bytes, !.shrunk = FALSE, !.cut = FALSE]
setData(bytes) == BufferAt /\ obj' = setDataOf(obj, bytes) /\ Stay
(* What parsers do: the rest of its own data.                               *)
setDataRest(n) ==
  /\ BufferAt /\ n <= obj.size
  /\ obj' = setDataOf(obj, SubSeq(Data(obj), n + 1, obj.size))
  /\ Stay

resize(n) ==
  /\ BufferAt
  /\ LET o == IF obj.capacity >= n THEN [obj EXCEPT !.size = n]
              ELSE Renewed(obj, Data(obj), n, CapcityAdj(n))
     IN obj' = [o EXCEPT !.want = SubSeq(Data(o), 1, n), !.shrunk = n < o.readPos,
                         !.cut = @ /\ o.capacity < n]
  /\ Stay

Cleared(o) ==
  IF o.mem = <<>> THEN o
  ELSE [o EXCEPT !.mem = <<>>, !.size = 0, !.capacity = 0, !.readPos = 0, !.shrunk = FALSE,
                 !.cut = FALSE]
clear == BufferAt /\ obj' = [Cleared(obj) EXCEPT !.want = <<>>] /\ Stay

(* alloc() of no more than the capacity leaves the size as it is.           *)
alloc(n) ==
  /\ BufferAt
  /\ LET zeros(k) == [i \in 1..k |-> Unset]
         o == IF obj.capacity >= n THEN [obj EXCEPT !.mem = zeros(Len(obj.mem))]
              ELSE Renewed(obj, zeros(n), n, CapcityAdj(n))
     IN obj' = [o EXCEPT !.want = Data(o), !.readPos = 0, !.shrunk = FALSE,
                         !.cut = @ /\ obj.capacity >= n]
  /\ Stay

setCapacity(n) ==
  /\ BufferAt
  /\ obj' = IF obj.capacity >= n
            THEN [obj EXCEPT !.capacity = n, !.cut = n < obj.size]
            ELSE LET kept == Min2(obj.size, n)
                 IN [Renewed(Cleared(obj), SubSeq(Data(obj), 1, kept), kept, n)
                       EXCEPT !.want = SubSeq(Data(obj), 1, kept)]
  /\ Stay

bufferReverse ==
  /\ BufferAt
  /\ obj' = [obj EXCEPT !.mem = Over(@, 0, Reverse(Data(obj))), !.want = Reverse(@),
                        !.readPos = 0, !.shrunk = FALSE]
  /\ Stay

(* read(): a uint32_t holds how much is left.                               *)
Available(o) == Minus(o.size, o.readPos)
bufferRead(n) ==
  /\ BufferAt /\ Available(obj) > 0
  /\ LET k == Min2(n, Available(obj))
     IN obj' = [obj EXCEPT !.readPos = @ + k, !.stray = obj.readPos + k > Len(obj.mem)]
  /\ Stay

BufferNext ==
  \/ \E b \in BufBytes : append(<<b>>) \/ append(<<b, 3 - b>>)
  \/ appendSelf \/ setData(<<>>) \/ setData(<<1, 2>>)
  \/ \E n \in 0..2 : setDataRest(n) \/ resize(n) \/ setCapacity(n)
  \/ resize(MaxBytes) \/ setCapacity(MaxBytes)
  \/ clear \/ alloc(1) \/ alloc(MaxBytes) \/ bufferReverse \/ \E n \in 1..2 : bufferRead(n)

(* The buffer holds what was put into it and stays within its memory, as    *)
(* long as it was not made smaller behind readPos, which then reads on to   *)
(* the end of a uint32_t, or its capacity than its size, when everything    *)
(* seems to fit.                                                            *)
BufferExact ==
  class = "buffer" /\ ~obj.shrunk /\ ~obj.cut =>
    /\ ~obj.stray
    /\ obj.size <= obj.capacity /\ obj.capacity <= Len(obj.mem) /\ obj.readPos <= obj.size
    /\ Data(obj) = obj.want

-----------------------------------------------------------------------------
(* Two lists.  heap: the elements that are not deleted, val: what they hold;*)
(* at: the pointers of each list; lost: elements an assignment has left     *)
(* behind; want: what the lists hold if an assignment copies or moves;      *)
(* self: a list was assigned to itself.                                     *)
ListIds == {1, 2}
PtrListInit ==
  /\ class = "ptrList" /\ pc = <<>>
  /\ obj = [heap |-> {}, val |-> [i \in 1..MaxObjects |-> 0], at |-> [l \in ListIds |-> <<>>],
            lost |-> {}, want |-> [l \in ListIds |-> <<>>], self |-> FALSE]

Free(o) == 1..MaxObjects \ o.heap
New(o) == CHOOSE i \in Free(o) : TRUE
ListAt == class = "ptrList" /\ ~obj.self
Room(n) == ListAt /\ Cardinality(obj.heap) + n <= MaxObjects
Made(o, v) == [o EXCEPT !.heap = @ \union {New(o)}, !.val[New(o)] = v]

listInsert(l, i, v) ==
  /\ Room(1) /\ i \in 0..Len(obj.at[l])
  /\ obj' = [Made(obj, v) EXCEPT !.at[l] = InsertAt(@, i + 1, New(obj)),
                                 !.want[l] = InsertAt(@, i + 1, v)]
  /\ Stay

listEraseKept(l, i) ==
  /\ ListAt /\ i \in DOMAIN obj.at[l]
  /\ obj' = [obj EXCEPT !.at[l] = RemoveAt(@, i), !.want[l] = RemoveAt(@, i)]
  /\ Stay
(* pop, take and erase: the element is deleted with its pointer.            *)
listErase(l, i) ==
  /\ ListAt /\ i \in DOMAIN obj.at[l]
  /\ obj' = [obj EXCEPT !.heap = @ \ {obj.at[l][i]}, !.val[obj.at[l][i]] = 0,
                        !.at[l] = RemoveAt(@, i),
                        !.want[l] = RemoveAt(@, i)]
  /\ Stay
listClear(l) ==
  /\ ListAt
  /\ obj' = [obj EXCEPT !.heap = @ \ Range(obj.at[l]), !.at[l] = <<>>, !.want[l] = <<>>,
                        !.val = [e \in DOMAIN obj.val |-> IF e \in Range(obj.at[l]) THEN 0 ELSE obj.val[e]]]
  /\ Stay

(* Copies of elements, each new.                                           *)
NewOnes(o, n) == CHOOSE new \in [1..n -> Free(o)] : IsInjective(new)
Holders(val, at, vals) ==
  [e \in DOMAIN val |-> IF e \in Range(at) THEN vals[CHOOSE i \in DOMAIN at : at[i] = e] ELSE val[e]]
Pushed(o, l, vals) ==
  LET new == NewOnes(o, Len(vals))
  IN [o EXCEPT !.heap = @ \union Range(new), !.val = Holders(@, new, vals), !.at[l] = @ \o new]
Vals(l) == [i \in DOMAIN obj.at[l] |-> obj.val[obj.at[l][i]]]

(* operator=: the pointers go, the elements do not; then those of the other *)
(* list are copied, if that is not this one, or its pointers taken.         *)
listAssign(l, m) ==
  /\ Room(Len(obj.at[m]))
  /\ LET o == [obj EXCEPT !.at[l] = <<>>, !.lost = @ \union Range(obj.at[l]),
                          !.want[l] = obj.want[m], !.self = @ \/ l = m]
     IN obj' = IF l = m THEN o ELSE Pushed(o, l, Vals(m))
  /\ Stay
listMoveAssign(l, m) ==
  /\ ListAt /\ l # m
  /\ obj' = [obj EXCEPT !.at = [k \in ListIds |-> IF k = l THEN obj.at[m] ELSE <<>>],
                        !.lost = @ \union Range(obj.at[l]),
                        !.want = [k \in ListIds |-> IF k = l THEN obj.want[m] ELSE <<>>]]
  /\ Stay
listConcat(l, m) ==
  /\ Room(Len(obj.at[m])) /\ l # m
  /\ obj' = [Pushed(obj, l, Vals(m)) EXCEPT !.want[l] = @ \o obj.want[m]]
  /\ Stay

listSwap(l, i, j) ==
  /\ ListAt /\ {i, j} \subseteq DOMAIN obj.at[l] /\ i < j
  /\ LET Swapped(s) == [s EXCEPT ![i] = s[j], ![j] = s[i]]
     IN obj' = [obj EXCEPT !.at[l] = Swapped(@), !.want[l] = Swapped(@)]
  /\ Stay
(* sort() exchanges what the elements hold, not the pointers.               *)
listSort(l) ==
  /\ ListAt
  /\ \E p \in Bijection(DOMAIN obj.at[l], DOMAIN obj.at[l]) :
       LET sorted == [i \in DOMAIN p |-> Vals(l)[p[i]]]
       IN /\ \A i, j \in DOMAIN p : i < j => sorted[i] <= sorted[j]
          /\ obj' = [obj EXCEPT !.val = Holders(@, obj.at[l], sorted),
                                !.want[l] = [i \in DOMAIN p |-> obj.want[l][p[i]]]]
  /\ Stay

PtrListNext ==
  \E l \in ListIds :
    \/ \E i \in 0..MaxObjects : \/ \E v \in {1, 2} : listInsert(l, i, v)
                                \/ listErase(l, i)
                                \/ \E j \in 1..MaxObjects : listSwap(l, i, j)
    \/ listClear(l) \/ listSort(l)
    \/ \E m \in ListIds : listAssign(l, m) \/ listMoveAssign(l, m) \/ listConcat(l, m)

(* Every pointer is to an element that is, no two to the same, and every    *)
(* element has its pointer but for those an assignment left behind; and the *)
(* lists hold what they should, until one is assigned to itself.            *)
ElementsOwned ==
  class = "ptrList" =>
    /\ obj.heap = Range(obj.at[1]) \union Range(obj.at[2]) \union obj.lost
    /\ \A l \in ListIds : IsInjective(obj.at[l])
    /\ Range(obj.at[1]) \intersect Range(obj.at[2]) = {}
    /\ obj.lost \intersect (Range(obj.at[1]) \union Range(obj.at[2])) = {}
    /\ ~obj.self => \A l \in ListIds : Vals(l) = obj.want[l]

-----------------------------------------------------------------------------
(* A payload.  A value is <<type, bytes>>, with TRUE or FALSE of a bool as  *)
(* its bytes; the cells of a payload are flags, with type and length, the   *)
(* four bytes of a length that does not go into the flag, and the bytes of  *)
(* values, <<the value's number, place>>.                                   *)
PayloadValues ==
  {<<"Boolean", 0>>, <<"Boolean", 1>>, <<"Sint", 1>>, <<"Sint", 2>>, <<"Uint", 2>>, <<"Float", 4>>,
   <<"String", 1>>, <<"String", 16>>, <<"CArray", 1>>, <<"CArray", 16>>}
IsLongFrom17(v) == v[2] > 16
IsLong(v) == v[2] > 15
Flag(v) == IF IsLong(v) THEN 0 ELSE v[2] % 16
BytesOf(v) == IF v[1] = "Boolean" THEN 0 ELSE v[2]
LongLen == 4
Written(v, n) ==
  <<<<"flag", v[1], Flag(v)>>>>
    \o (IF IsLong(v) THEN [i \in 1..LongLen |-> <<"length", i, v[2]>>] ELSE <<>>)
    \o [i \in 1..BytesOf(v) |-> <<"byte", n, i>>]

(* rpos: m_rpos; given: what the reads gave; past: a read has looked behind *)
(* the payload.                                                             *)
PayloadInit ==
  /\ class = "payload" /\ pc = <<>>
  /\ obj = [values |-> <<>>, cells |-> <<>>, rpos |-> 0, given |-> <<>>, past |-> FALSE]

payloadWrite(v) ==
  /\ class = "payload" /\ Len(obj.values) < MaxValues /\ obj.rpos = 0 /\ obj.given = <<>>
  /\ obj' = [obj EXCEPT !.values = Append(@, v), !.cells = @ \o Written(v, Len(obj.values) + 1)]
  /\ Stay

(* read<T>() of a value's type: with another type or length in the flag it  *)
(* gives nothing and stays where it is.  `room' is what it wants to be left *)
(* before it looks at the flag: a number's size, without the flag.          *)
HasLen(type) == type \in {"String", "CArray"}
Taken(type, length) ==
  LET cell == obj.cells[obj.rpos + 1]
      long == HasLen(type) /\ cell[3] = 0
      n == IF long THEN length ELSE IF HasLen(type) THEN cell[3] ELSE BytesOf(<<type, length>>)
      from == obj.rpos + 1 + IF long THEN LongLen ELSE 0
  IN [obj EXCEPT !.rpos = from + n, !.past = @ \/ from + n > Len(obj.cells),
                 !.given = Append(@, <<type, IF type = "Boolean" THEN cell[3]
                                             ELSE SubSeq(obj.cells, from + 1, Min2(from + n, Len(obj.cells)))>>)]
LengthAt(p) == IF obj.cells[p][3] # 0 THEN obj.cells[p][3]
               ELSE IF p < Len(obj.cells) /\ obj.cells[p + 1][1] = "length" THEN obj.cells[p + 1][3] ELSE 0
payloadRead(type, size) ==
  /\ class = "payload" /\ obj.cells # <<>>
  /\ LET room == IF type \in {"Sint", "Uint", "Float"} THEN size ELSE 1
         at == obj.rpos + 1
         fits == /\ obj.cells[at][2] = type
                 /\ type \in {"Sint", "Uint", "Float"} => obj.cells[at][3] = size
                 /\ type = "CArray" => LengthAt(at) <= size
     IN obj' = IF obj.rpos + room > Len(obj.cells) THEN obj
               ELSE IF fits THEN Taken(type, IF HasLen(type) THEN LengthAt(at) ELSE size) ELSE obj
  /\ Stay

(* nextDataType(): a length of 0 in the flag is taken to mean that it comes *)
(* next, and that it comes whole.                                           *)
payloadNextType ==
  /\ class = "payload" /\ obj.rpos < Len(obj.cells)
  /\ obj' = [obj EXCEPT !.past = @ \/ (obj.cells[obj.rpos + 1][3] = 0
                                       /\ obj.rpos + 1 + LongLen > Len(obj.cells))]
  /\ Stay

payloadReset == class = "payload" /\ obj.rpos > 0 /\ obj' = [obj EXCEPT !.rpos = 0, !.given = <<>>] /\ Stay

PayloadNext ==
  \/ \E v \in PayloadValues : payloadWrite(v) \/ payloadRead(v[1], v[2])
  \/ payloadNextType \/ payloadReset

(* What is read is what was written, in order and whole, whichever readers  *)
(* are tried in between; and no read looks behind the payload but that of   *)
(* the length of a `false' close to its end.                                *)
PayloadExact ==
  class = "payload" =>
    /\ \A i \in DOMAIN obj.given :
         LET v == obj.values[i] IN
         obj.given[i] = <<v[1], IF v[1] = "Boolean" THEN v[2]
                                ELSE [k \in 1..BytesOf(v) |-> <<"byte", i, k>>]>>
    /\ obj.past => \E v \in Range(obj.values) : v = <<"Boolean", 0>>
=============================================================================
