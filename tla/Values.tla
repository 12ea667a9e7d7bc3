-------------------------------- MODULE Values --------------------------------
(***************************************************************************)
(* Variant (src/variant/Variant.cpp): class "variant", the memory of       *)
(* several of them; class "number", what a number becomes in one.          *)
(***************************************************************************)
EXTENDS Monitor, SequencesExt

CONSTANTS
  MaxNews,  \* bound: blocks of memory that are allocated
  MaxCalls  \* bound: calls on the variants, and steps of a number
ASSUME ValuesAssumption == MaxNews \in Nat /\ MaxCalls \in Nat

-----------------------------------------------------------------------------
(* A variant is its type, its size, and the block it points to, 0 where     *)
(* that is null; a block is its bytes.  An INT keeps no block.              *)
TextTypes == {"CARRAY", "STRING"}
Variant(vt, size, ptr) == [vt |-> vt, size |-> size, ptr |-> ptr]
Unknown == Variant("UNKNOWN", 0, 0)
IsText(x) == obj.v[x].vt \in TextTypes
Variants == {"x", "y"}
TwoTexts == {<<"p">>, <<"p", "q">>}
Zeros(n) == [i \in 1..n |-> "0"]

VariantInit ==
  /\ class = "variant" /\ pc = <<>>
  /\ obj = [v |-> [x \in Variants |-> Unknown], blocks |-> <<>>, freed |-> {}, lost |-> {},
            put |-> [x \in Variants |-> <<>>], shared |-> FALSE, spoilt |-> {}, twice |-> FALSE, calls |-> 0]
(* An object before a delete of its block, and after.                       *)
Freeing(o, x) ==
  IF o.v[x].vt \notin TextTypes \/ o.v[x].ptr = 0 THEN o
  ELSE [o EXCEPT !.freed = @ \union {o.v[x].ptr}, !.twice = @ \/ o.v[x].ptr \in o.freed]
(* The mutant forgets the delete.                                           *)
ClearedKept(o, x) == [o EXCEPT !.v[x] = Unknown, !.put[x] = <<>>]
(* clear().                                                                 *)
ClearOf(o, x) == [Freeing(o, x) EXCEPT !.v[x] = Unknown, !.put[x] = <<>>, !.spoilt = @ \ {x}]
Allocated(o, x, bytes) ==
  [o EXCEPT !.blocks = Append(@, bytes), !.v[x].ptr = Len(o.blocks) + 1, !.put[x] = bytes]
SetSize(o, x, n) ==
  LET c == [ClearOf(o, x) EXCEPT !.v[x] = Variant(o.v[x].vt, n, 0)]
  IN IF o.v[x].vt \notin TextTypes \/ o.v[x].size = n THEN o
     ELSE IF n = 0 THEN c ELSE Allocated(c, x, Zeros(n))
SetVt(o, x, vt) ==
  LET c == IF o.v[x].vt # vt THEN ClearOf(o, x) ELSE o
      size == IF vt = "INT" THEN 4 ELSE 0
  IN [c EXCEPT !.v[x].vt = vt, !.v[x].size = size, !.put[x] = <<>>]
PutIn(o, x, bytes) ==
  LET ptr == o.v[x].ptr
      old == o.blocks[ptr]
      new == bytes \o SubSeq(old, Len(bytes) + 1, Len(old))
  IN IF ptr = 0 \/ Len(bytes) > Len(old) THEN o
     ELSE [o EXCEPT !.blocks[ptr] = new, !.put[x] = bytes]

(* A call is made while no block was freed twice.  A type by its name gives *)
(* a size without memory: what writes there is not called then.             *)
MayCall == class = "variant" /\ obj.calls < MaxCalls /\ ~obj.twice
HasMemory(x) == IsText(x) => obj.v[x].size = 0 \/ obj.v[x].ptr # 0
CallMade(o) == obj' = [o EXCEPT !.calls = @ + 1] /\ Stay

(* Objects are made where one has been destroyed, or moved from.            *)
construct(x) ==
  /\ MayCall /\ Len(obj.blocks) < MaxNews
  /\ \E vt \in TextTypes, bytes \in TwoTexts \union {<<>>} :
       LET o == [ClearOf(obj, x) EXCEPT !.v[x] = Variant(vt, Len(bytes), 0)]
       IN CallMade(IF bytes = <<>> THEN o ELSE Allocated(o, x, bytes))
constructInt(x) ==
  MayCall /\ CallMade([ClearOf(obj, x) EXCEPT !.v[x] = Variant("INT", 4, 0)])
(* The copy of an empty text has a block of no bytes.                       *)
copyConstruct(x, y) ==
  /\ MayCall /\ x # y /\ HasMemory(y) /\ Len(obj.blocks) < MaxNews
  /\ LET o == [ClearOf(obj, x) EXCEPT !.v[x] = obj.v[y]]
     IN CallMade(IF IsText(y)
              THEN Allocated(o, x, IF obj.v[y].size = 0 THEN <<>>
                                   ELSE SubSeq(obj.blocks[obj.v[y].ptr], 1, obj.v[y].size))
              ELSE o)
moveConstruct(x, y) ==
  /\ MayCall /\ x # y
  /\ CallMade([ClearOf(obj, x) EXCEPT !.v[x] = obj.v[y], !.v[y].vt = "UNKNOWN",
                                    !.put[x] = obj.put[y], !.put[y] = <<>>,
                                    !.spoilt = IF y \in @ THEN @ \union {x} ELSE @ \ {x}])
(* operator=: what was there is not freed; without a size the pointer stays *)
(* the other's.  Of itself, the new memory is copied, not what was put.     *)
assign(x, y) ==
  /\ MayCall /\ HasMemory(y) /\ Len(obj.blocks) < MaxNews
  /\ LET dropped == IF IsText(x) /\ obj.v[x].ptr # 0 THEN {obj.v[x].ptr} ELSE {}
         o == [obj EXCEPT !.v[x] = obj.v[y], !.put[x] = obj.put[y], !.lost = @ \union dropped]
     IN CallMade(IF IsText(y) /\ obj.v[y].size > 0
              THEN IF x = y THEN [Allocated(o, x, Zeros(obj.v[y].size))
                                    EXCEPT !.put[x] = obj.put[x], !.spoilt = @ \union {x}]
                   ELSE Allocated([o EXCEPT !.spoilt = IF y \in @ THEN @ \union {x} ELSE @ \ {x}], x,
                                  SubSeq(obj.blocks[obj.v[y].ptr], 1, obj.v[y].size))
              ELSE [o EXCEPT !.shared = @ \/ (x # y /\ IsText(y) /\ obj.v[y].ptr # 0)])
destruct(x) == MayCall /\ CallMade(ClearOf(obj, x))
setSize(x) == MayCall /\ \E n \in 0..2 : CallMade(SetSize(obj, x, n))
setVt(x) == MayCall /\ \E vt \in TextTypes \union {"INT"} : CallMade(SetVt(obj, x, vt))
setVtNamed(x) ==
  MayCall /\ CallMade([ClearOf(obj, x) EXCEPT !.v[x] = Variant("CARRAY", 2, 0)])
(* setValue() of a text of any length, of as many bytes as fit elsewhere.   *)
setValue(x) ==
  /\ MayCall /\ obj.v[x].vt # "UNKNOWN" /\ HasMemory(x) /\ Len(obj.blocks) < MaxNews
  /\ \E bytes \in TwoTexts \union {<<>>} :
       \/ /\ obj.v[x].vt = "STRING"
          /\ CallMade(PutIn(SetSize(obj, x, Len(bytes)), x, bytes))
       \/ /\ obj.v[x].vt = "CARRAY" /\ Len(bytes) >= obj.v[x].size
          /\ CallMade(PutIn(obj, x, SubSeq(bytes, 1, obj.v[x].size)))
setValueSized(x) ==
  /\ MayCall /\ HasMemory(x) /\ Len(obj.blocks) < MaxNews
  /\ \E bytes \in TwoTexts :
       LET zeroed == PutIn(obj, x, Zeros(obj.v[x].size))
           n == Min2(Len(bytes), obj.v[x].size)
       IN \/ /\ obj.v[x].vt = "STRING"
             /\ CallMade(PutIn(SetSize(zeroed, x, Len(bytes)), x, bytes))
          \/ /\ obj.v[x].vt = "CARRAY"
             /\ CallMade(PutIn(obj, x, SubSeq(bytes, 1, n) \o Zeros(obj.v[x].size - n)))
(* setValue() with the name of a type: char[2], or one of a number.         *)
setValueNamed(x) ==
  /\ MayCall /\ Len(obj.blocks) < MaxNews
  /\ \/ CallMade(PutIn(SetSize(SetVt(obj, x, "CARRAY"), x, 2), x, <<"p", "q">>))
     \/ CallMade(SetVt(obj, x, "INT"))
zero(x) ==
  /\ MayCall /\ IsText(x) /\ HasMemory(x) /\ CallMade(PutIn(obj, x, Zeros(obj.v[x].size)))
VariantNext ==
  \E x \in Variants :
    \/ construct(x) \/ constructInt(x) \/ destruct(x) \/ setSize(x) \/ setVt(x) \/ setVtNamed(x)
    \/ setValue(x) \/ setValueSized(x) \/ setValueNamed(x) \/ zero(x)
    \/ \E y \in Variants : copyConstruct(x, y) \/ moveConstruct(x, y) \/ assign(x, y)

(* toString(), toBuffer().                                                  *)
Read(x) ==
  IF obj.v[x].ptr = 0 \/ obj.v[x].size = 0 THEN <<>>
  ELSE SubSeq(obj.blocks[obj.v[x].ptr], 1, obj.v[x].size)

(* A text owns its memory alone, for as many bytes as it has, and reads     *)
(* what was last put into it; memory nobody owns was freed, or lost when    *)
(* operator= overwrote it.  After operator= of an empty text with a block   *)
(* of its own, two variants own that block, and it may be freed twice.      *)
MemoryOwned ==
  class = "variant" =>
    /\ obj.twice => obj.shared
    /\ ~obj.shared =>
         /\ \A x, y \in Variants : x # y /\ IsText(x) /\ IsText(y) /\ obj.v[x].ptr = obj.v[y].ptr => obj.v[x].ptr = 0
         /\ \A x \in Variants : IsText(x) /\ obj.v[x].ptr # 0 =>
              /\ obj.v[x].ptr \notin obj.freed
              /\ Len(obj.blocks[obj.v[x].ptr]) >= obj.v[x].size
              /\ x \in obj.spoilt \/ Read(x) = SubSeq(obj.put[x], 1, obj.v[x].size)
         /\ \A b \in DOMAIN obj.blocks :
              b \in obj.freed \union obj.lost \/ \E x \in Variants : IsText(x) /\ obj.v[x].ptr = b

-----------------------------------------------------------------------------
(* Numbers.  A byte is of two bits, and the sizes are those of the code     *)
(* where long has eight bytes: TypeInfo().                                  *)
SizeOf == [CHAR |-> 1, SHORT |-> 2, INT |-> 4, LONG |-> 8, LONGLONG |-> 8,
           UCHAR |-> 1, USHORT |-> 2, UINT |-> 4, ULONG |-> 8, ULONGLONG |-> 8]
Signed == {"CHAR", "SHORT", "INT", "LONG", "LONGLONG"}
Card(t) == 4 ^ SizeOf[t]
Lowest(t) == IF t \in Signed THEN -(Card(t) \div 2) ELSE 0
Highest(t) == Lowest(t) + Card(t) - 1
Holds(t, n) == n \in Lowest(t)..Highest(t)
(* A number converted to a type: its low bits.                              *)
As(t, n) == Lowest(t) + ((n - Lowest(t)) % Card(t))
Extremes == UNION {{Lowest(t), Highest(t), Highest(t) + 1} : t \in DOMAIN SizeOf} \union {-1, 1}

(* TypeInfoFromString(): the first of these the name is in, and none for    *)
(* int16, whose place a second uint16 has.                                  *)
TypeNames == <<
  <<"UCHAR", {"uchar", "uint8", "unsigned char"}>>, <<"USHORT", {"ushort", "uint16", "unsigned short"}>>,
  <<"UINT", {"uint", "uint32", "unsigned", "unsigned int"}>>, <<"ULONG", {"ulong", "unsigned long"}>>,
  <<"ULONGLONG", {"ulonglong", "uint64", "unsigned long long", "unsigned longlong"}>>,
  <<"CHAR", {"char", "int8"}>>, <<"SHORT", {"short", "uint16"}>>, <<"INT", {"int", "int32"}>>,
  <<"LONG", {"long"}>>, <<"LONGLONG", {"long long", "longlong", "int64"}>> >>
TypeInfoFromString(name) ==
  LET at == {i \in DOMAIN TypeNames : name \in TypeNames[i][2]}
  IN IF at = {} THEN "UNKNOWN" ELSE TypeNames[CHOOSE i \in at : \A j \in at : i <= j][1]

(* What a variant holds: a number of a type, a text, or bytes.  A text is   *)
(* its sign, and its digits; one with more bytes than the number is what    *)
(* the caller appended to them.                                             *)
NumberIn(vt, n) == [vt |-> vt, n |-> n]
StringIn(neg, digits) == [vt |-> "STRING", neg |-> neg, digits |-> digits]
BytesIn(bytes) == [vt |-> "CARRAY", bytes |-> bytes]
(* The type each constructor gives the variant: those of long make an int   *)
(* of it, that of unsigned long long a signed one.                          *)
VtOf(t) == CASE t = "LONG" -> "INT" [] t = "ULONG" -> "UINT" [] t = "ULONGLONG" -> "LONGLONG" [] OTHER -> t
Constructed(t, n) == NumberIn(VtOf(t), As(VtOf(t), n))

(* toString(): decimal digits, none before the first that counts.           *)
Digits[n \in Nat] == IF n < 10 THEN <<n>> ELSE Append(Digits[n \div 10], n % 10)
TextOf(v) == IF v.vt = "STRING" THEN v ELSE StringIn(v.n < 0, Digits[IF v.n < 0 THEN -v.n ELSE v.n])
(* toBuffer(): the lowest byte first.                                       *)
Reversed(v) == [i \in 1..SizeOf[v.vt] |-> (v.n \div 4 ^ (SizeOf[v.vt] - i)) % 4]
toBuffer(v) == [i \in 1..SizeOf[v.vt] |-> (v.n \div 4 ^ (i - 1)) % 4]
Unsigned(bytes) == FoldRight(LAMBDA b, n : n * 4 + b, bytes, 0)

(* A text is read in base 8 after a leading 0, up to a digit that is none;  *)
(* a number the type cannot hold gives the type's last, and a char is the   *)
(* first character: it is no number here.                                   *)
Base(v) == IF Len(v.digits) > 1 /\ v.digits[1] = 0 THEN 8 ELSE 10
Magnitude(v) ==
  LET good == {n \in 0..Len(v.digits) : \A i \in 1..n : v.digits[i] < Base(v)}
      n == CHOOSE x \in good : \A y \in good : y <= x
  IN FoldLeft(LAMBDA a, d : a * Base(v) + d, 0, SubSeq(v.digits, 1, n))
NotANumber == 1000000
NumberOf(t, v) ==
  LET m == Magnitude(v) IN
  CASE t = "CHAR" -> NotANumber
    [] t \in Signed -> IF v.neg THEN IF -m < Lowest(t) THEN Lowest(t) ELSE -m
                       ELSE IF m > Highest(t) THEN Highest(t) ELSE m
    [] OTHER -> IF m > Highest(t) THEN Highest(t) ELSE IF v.neg THEN As(t, -m) ELSE m
(* toValue(): bytes count where there are more of them than the type has.   *)
toValue(t, v) ==
  CASE v.vt = "STRING" -> NumberOf(t, v)
    [] v.vt = "CARRAY" -> IF Len(v.bytes) > SizeOf[t] THEN As(t, Unsigned(SubSeq(v.bytes, 1, SizeOf[t]))) ELSE 0
    [] OTHER -> As(t, v.n)
(* The conversion operators: that to unsigned char takes a short first.     *)
First(t) == IF t = "UCHAR" THEN "USHORT" ELSE t
Converted(t, v) == LET n == toValue(First(t), v) IN IF n = NotANumber THEN n ELSE As(t, n)
(* operator bool.  (A text: neither empty nor 0 nor false.)                 *)
Truth(v) ==
  CASE v.vt = "STRING" -> v.neg \/ v.digits # <<0>>
    [] v.vt = "CARRAY" -> v.bytes # <<>>
    [] OTHER -> v.n # 0
(* operator==, of two variants: their texts.                                *)
Equal(v, w) == TextOf(v) = TextOf(w)

(* A number a caller has, and the variant made of it; exact while every     *)
(* type on the way holds the number, no text becomes a char, and bytes are  *)
(* more than the type has.                                                  *)
NumberInit ==
  /\ class = "number" /\ pc = <<>>
  /\ \E t \in DOMAIN SizeOf, n \in Extremes :
       /\ Holds(t, n)
       /\ obj = [type |-> t, n |-> n, v |-> Constructed(t, n), given |-> n,
                 exact |-> Holds(VtOf(t), n), steps |-> 0]
NumberStep(type, n, v, given, exact) ==
  /\ class = "number" /\ obj.steps < MaxCalls /\ obj.exact
  /\ obj' = [type |-> type, n |-> n, v |-> v, given |-> given, exact |-> exact, steps |-> obj.steps + 1]
  /\ Stay
InBytes == class = "number" /\ obj.v.vt = "CARRAY"
throughText ==
  /\ class = "number" /\ ~InBytes /\ obj.v.vt # "STRING"
  /\ NumberStep(obj.type, obj.n, TextOf(obj.v), obj.given, TRUE)
(* The caller writes a 0 before the digits.                                 *)
throughPadded ==
  /\ class = "number" /\ ~InBytes /\ obj.v.vt # "STRING"
  /\ LET text == TextOf(obj.v) IN
     NumberStep(obj.type, obj.n, [text EXCEPT !.digits = <<0>> \o @], obj.given, Len(text.digits) = 1 /\ text.digits[1] < 8)
throughBytes ==
  /\ class = "number" /\ ~InBytes /\ obj.v.vt # "STRING"
  /\ \E more \in {<<>>, <<0>>, <<0, 0>>} :
       NumberStep(obj.v.vt, obj.n, BytesIn(toBuffer(obj.v) \o more), obj.given, TRUE)
(* setValue() of the caller's number with the name of its type: by its      *)
(* signedness and size.  An unknown variant is 0 as any number.             *)
IntNames == {<<"int8", "CHAR">>, <<"int16", "SHORT">>, <<"int32", "INT">>, <<"int64", "LONGLONG">>,
             <<"uint8", "UCHAR">>, <<"uint16", "USHORT">>, <<"uint32", "UINT">>, <<"uint64", "ULONGLONG">>}
throughName ==
  /\ class = "number" /\ ~InBytes /\ obj.v.vt # "STRING"
  /\ \E p \in IntNames :
       LET vt == TypeInfoFromString(p[1]) IN
       /\ p[2] = obj.type
       /\ NumberStep(obj.type, obj.n,
                     IF vt = "UNKNOWN" THEN NumberIn("INT", 0) ELSE NumberIn(vt, As(vt, obj.n)),
                     obj.given, vt # "UNKNOWN")
(* The variant's conversion to a type, and a variant of what it gave.       *)
convert ==
  /\ class = "number"
  /\ \E t \in DOMAIN SizeOf :
       LET n == Converted(t, obj.v)
           fits == Holds(t, obj.given) /\ Holds(VtOf(t), obj.given)
           good == CASE obj.v.vt = "STRING" -> t # "CHAR" /\ (t \in Signed \/ obj.given >= 0)
                     [] InBytes -> t = obj.type /\ Len(obj.v.bytes) > SizeOf[First(t)]
                     [] OTHER -> TRUE
       IN NumberStep(t, n, IF n = NotANumber THEN Constructed(t, 0) ELSE Constructed(t, n), obj.given, fits /\ good)
(* operator+, - and * with a number of a type: that type, or an int where   *)
(* it is narrower, made a variant of.                                       *)
Promoted(t) == IF SizeOf[t] < SizeOf["INT"] THEN "INT" ELSE t
operate ==
  /\ class = "number" /\ ~InBytes /\ obj.v.vt # "STRING"
  /\ \E t \in DOMAIN SizeOf \ {"LONG", "ULONG"}, m \in {1, 3}, op \in {"+", "-", "*"} :
       LET Of(a) == CASE op = "+" -> a + m [] op = "-" -> a - m [] op = "*" -> a * m
           result == Of(Converted(t, obj.v))
           r == Promoted(t)
       IN /\ r \in Signed => Holds(r, result)
          /\ NumberStep(r, As(r, result), Constructed(r, As(r, result)), Of(obj.given),
                        Holds(t, obj.given) /\ Holds(r, Of(obj.given)) /\ Holds(VtOf(r), Of(obj.given)))
NumberNext == throughText \/ throughName \/ throughPadded \/ throughBytes \/ convert \/ operate

(* A number comes out of a variant as it went in, through its text, its     *)
(* bytes and its sums, wherever every type on the way holds it; the variant *)
(* is true where the number is not 0, and is equal to itself in another     *)
(* type.                                                                    *)
NumbersExact ==
  class = "number" /\ obj.exact =>
    /\ obj.n = obj.given
    /\ ~InBytes /\ obj.v.vt # "STRING" => obj.v.n = obj.given /\ (Truth(obj.v) <=> obj.given # 0)
    /\ obj.v.vt = "STRING" /\ Len(obj.v.digits) = 1 => (Truth(obj.v) <=> obj.given # 0)
    /\ ~InBytes /\ obj.v.vt # "STRING" =>
         \A t \in DOMAIN SizeOf : Holds(t, obj.given) /\ Holds(VtOf(t), obj.given) =>
           Equal(Constructed(t, obj.given), obj.v)
=============================================================================
