------------------------------- MODULE Digests -------------------------------
(***************************************************************************)
(* Three classes that are fed bytes: "crc", CrcCalculator with each of its *)
(* algorithms (src/encrypt/CRC.cpp); "md5", MD5 (src/encrypt/MD5.cpp);     *)
(* "base64", Base64 (src/encrypt/Base64.cpp), with one thread each.        *)
(***************************************************************************)
EXTENDS Monitor, SequencesExt

CONSTANTS
  Cuts,       \* bound: a calculator is fed up to one of these of nine bytes
  CountWidth, \* width of one of the two words in which MD5 counts bits: 32 in the code
  Pieces,     \* bound: lengths of what MD5 is fed at a time
  MaxFed,     \* bound: bytes that MD5 is fed
  Samples     \* bound: the bytes Base64 is given are of these

ASSUME DigestsAssumption ==
  /\ Cuts \subseteq 0..9 /\ Pieces \subseteq Nat /\ MaxFed \in Nat /\ Samples \subseteq 0..255
  /\ CountWidth \in 9..20

-----------------------------------------------------------------------------
(* CRC.  A number of 64 bits is the set of its bits that are one.           *)
Plus2(s, t) == (s \ t) \union (t \ s)
Shl(s, n) == {b + n : b \in {c \in s : c + n < 64}}
Shr(s, n) == {b - n : b \in {c \in s : c >= n}}
BitsOf(v) == {b \in 0..15 : (v \div 2 ^ b) % 2 = 1}
(* A literal is written in sixteen bits at a time.                          *)
Number(halves) ==
  UNION {{b + 16 * (Len(halves) - h) : b \in BitsOf(halves[h])} : h \in DOMAIN halves}
ReflectBits(data, width) == {(width - 1) - b : b \in {c \in data : c < width}}

ReflectBitOrderTable(byte) == ReflectBits(BitsOf(byte), 8)

C(width, polynomial, initValue, reflectIn, reflectOut, xorOut, check) ==
  [width |-> width, polynomial |-> Number(polynomial), initial |-> Number(initValue),
   reflectIn |-> reflectIn, reflectOut |-> reflectOut, xorOut |-> Number(xorOut), check |-> Number(check)]
CrcNarrow == <<
  C(8, <<\h7>>, <<\h0>>, FALSE, FALSE, <<\h0>>, <<\hF4>>),
  C(8, <<\h9B>>, <<\hFF>>, FALSE, FALSE, <<\h0>>, <<\hDA>>),
  C(8, <<\h39>>, <<\h0>>, TRUE, TRUE, <<\h0>>, <<\h15>>),
  C(8, <<\hD5>>, <<\h0>>, FALSE, FALSE, <<\h0>>, <<\hBC>>),
  C(8, <<\h1D>>, <<\hFF>>, TRUE, TRUE, <<\h0>>, <<\h97>>),
  C(8, <<\h1D>>, <<\hFD>>, FALSE, FALSE, <<\h0>>, <<\h7E>>),
  C(8, <<\h7>>, <<\h0>>, FALSE, FALSE, <<\h55>>, <<\hA1>>),
  C(8, <<\h31>>, <<\h0>>, TRUE, TRUE, <<\h0>>, <<\hA1>>),
  C(8, <<\h7>>, <<\hFF>>, TRUE, TRUE, <<\h0>>, <<\hD0>>),
  C(8, <<\h9B>>, <<\h0>>, TRUE, TRUE, <<\h0>>, <<\h25>>),
  C(10, <<\h233>>, <<\h0>>, FALSE, FALSE, <<\h0>>, <<\h199>>),
  C(10, <<\h3D9>>, <<\h3FF>>, FALSE, FALSE, <<\h0>>, <<\h233>>),
  C(11, <<\h385>>, <<\h1A>>, FALSE, FALSE, <<\h0>>, <<\h5A3>>),
  C(12, <<\h80F>>, <<\h0>>, FALSE, TRUE, <<\h0>>, <<\hDAF>>),
  C(12, <<\hF13>>, <<\hFFF>>, FALSE, FALSE, <<\h0>>, <<\hD4D>>),
  C(12, <<\h80F>>, <<\h0>>, FALSE, FALSE, <<\h0>>, <<\hF5B>>),
  C(13, <<\h1CF5>>, <<\h0>>, FALSE, FALSE, <<\h0>>, <<\h4FA>>),
  C(14, <<\h805>>, <<\h0>>, TRUE, TRUE, <<\h0>>, <<\h82D>>),
  C(15, <<\h4599>>, <<\h0>>, FALSE, FALSE, <<\h0>>, <<\h59E>>),
  C(15, <<\h6815>>, <<\h0>>, FALSE, FALSE, <<\h1>>, <<\h2566>>),
  C(16, <<\h1021>>, <<\hFFFF>>, FALSE, FALSE, <<\h0>>, <<\h29B1>>),
  C(16, <<\h8005>>, <<\h0>>, TRUE, TRUE, <<\h0>>, <<\hBB3D>>),
  C(16, <<\h1021>>, <<\h1D0F>>, FALSE, FALSE, <<\h0>>, <<\hE5CC>>),
  C(16, <<\h8005>>, <<\h0>>, FALSE, FALSE, <<\h0>>, <<\hFEE8>>),
  C(16, <<\hC867>>, <<\hFFFF>>, FALSE, FALSE, <<\h0>>, <<\h4C06>>),
  C(16, <<\h8005>>, <<\h800D>>, FALSE, FALSE, <<\h0>>, <<\h9ECF>>),
  C(16, <<\h589>>, <<\h0>>, FALSE, FALSE, <<\h1>>, <<\h7E>>),
  C(16, <<\h589>>, <<\h0>>, FALSE, FALSE, <<\h0>>, <<\h7F>>),
  C(16, <<\h3D65>>, <<\h0>>, TRUE, TRUE, <<\hFFFF>>, <<\hEA82>>),
  C(16, <<\h3D65>>, <<\h0>>, FALSE, FALSE, <<\hFFFF>>, <<\hC2B7>>),
  C(16, <<\h1021>>, <<\hFFFF>>, FALSE, FALSE, <<\hFFFF>>, <<\hD64E>>),
  C(16, <<\h8005>>, <<\h0>>, TRUE, TRUE, <<\h0>>, <<\hD64E>>),
  C(16, <<\h8005>>, <<\h0>>, TRUE, TRUE, <<\hFFFF>>, <<\h44C2>>),
  C(16, <<\h1021>>, <<\hFFFF>>, TRUE, TRUE, <<\h0>>, <<\h6F91>>),
  C(16, <<\h1021>>, <<\hB2AA>>, TRUE, TRUE, <<\h0>>, <<\h63D0>>),
  C(16, <<\h8BB7>>, <<\h0>>, FALSE, FALSE, <<\h0>>, <<\hD0DB>>),
  C(16, <<\hA097>>, <<\h0>>, FALSE, FALSE, <<\h0>>, <<\hFB3>>),
  C(16, <<\h1021>>, <<\h89EC>>, TRUE, TRUE, <<\h0>>, <<\h26B1>>),
  C(16, <<\h8005>>, <<\hFFFF>>, TRUE, TRUE, <<\hFFFF>>, <<\hB4C8>>),
  C(16, <<\h1021>>, <<\hC6C6>>, TRUE, TRUE, <<\h0>>, <<\hBF05>>),
  C(16, <<\h1021>>, <<\h0>>, TRUE, TRUE, <<\h0>>, <<\h2189>>),
  C(16, <<\h8005>>, <<\hFFFF>>, TRUE, TRUE, <<\h0>>, <<\h4B37>>),
  C(16, <<\h1021>>, <<\hFFFF>>, TRUE, TRUE, <<\hFFFF>>, <<\h906E>>),
  C(16, <<\h1021>>, <<\h0>>, FALSE, FALSE, <<\h0>>, <<\h31C3>>) >>
CrcWide == <<
  C(24, <<\h86,\h4CFB>>, <<\hB7,\h4CE>>, FALSE, FALSE, <<\h0,\h0>>, <<\h21,\hCF02>>),
  C(24, <<\h5D,\h6DCB>>, <<\hFE,\hDCBA>>, FALSE, FALSE, <<\h0,\h0>>, <<\h79,\h79BD>>),
  C(24, <<\h5D,\h6DCB>>, <<\hAB,\hCDEF>>, FALSE, FALSE, <<\h0,\h0>>, <<\h1F,\h23B8>>),
  C(31, <<\h4C1,\h1DB7>>, <<\h7FFF,\hFFFF>>, FALSE, FALSE, <<\h7FFF,\hFFFF>>, <<\hCE9,\hE46C>>),
  C(32, <<\h4C1,\h1DB7>>, <<\hFFFF,\hFFFF>>, TRUE, TRUE, <<\hFFFF,\hFFFF>>, <<\hCBF4,\h3926>>),
  C(32, <<\h4C1,\h1DB7>>, <<\hFFFF,\hFFFF>>, FALSE, FALSE, <<\hFFFF,\hFFFF>>, <<\hFC89,\h1918>>),
  C(32, <<\h1EDC,\h6F41>>, <<\hFFFF,\hFFFF>>, TRUE, TRUE, <<\hFFFF,\hFFFF>>, <<\hE306,\h9283>>),
  C(32, <<\hA833,\h982B>>, <<\hFFFF,\hFFFF>>, TRUE, TRUE, <<\hFFFF,\hFFFF>>, <<\h8731,\h5576>>),
  C(32, <<\h4C1,\h1DB7>>, <<\hFFFF,\hFFFF>>, TRUE, TRUE, <<\h0,\h0>>, <<\h340B,\hC6D9>>),
  C(32, <<\h4C1,\h1DB7>>, <<\hFFFF,\hFFFF>>, FALSE, FALSE, <<\h0,\h0>>, <<\h376,\hE6E7>>),
  C(32, <<\h4C1,\h1DB7>>, <<\h0,\h0>>, FALSE, FALSE, <<\hFFFF,\hFFFF>>, <<\h765E,\h7680>>),
  C(32, <<\h8141,\h41AB>>, <<\h0,\h0>>, FALSE, FALSE, <<\h0,\h0>>, <<\h3010,\hBF7F>>),
  C(32, <<\h0,\hAF>>, <<\h0,\h0>>, FALSE, FALSE, <<\h0,\h0>>, <<\hBD0B,\hE338>>),
  C(40, <<\h0,\h482,\h9>>, <<\h0,\h0,\h0>>, FALSE, FALSE, <<\hFF,\hFFFF,\hFFFF>>, <<\hD4,\h164F,\hC646>>),
  C(64, <<\h42F0,\hE1EB,\hA9EA,\h3693>>, <<\h0,\h0,\h0,\h0>>, FALSE, FALSE, <<\h0,\h0,\h0,\h0>>, <<\h6C40,\hDF5F,\hB49,\h7347>>),
  C(64, <<\h42F0,\hE1EB,\hA9EA,\h3693>>, <<\hFFFF,\hFFFF,\hFFFF,\hFFFF>>, FALSE, FALSE, <<\hFFFF,\hFFFF,\hFFFF,\hFFFF>>, <<\h62EC,\h59E3,\hF1A4,\hF00A>>),
  C(64, <<\h42F0,\hE1EB,\hA9EA,\h3693>>, <<\hFFFF,\hFFFF,\hFFFF,\hFFFF>>, TRUE, TRUE, <<\hFFFF,\hFFFF,\hFFFF,\hFFFF>>, <<\h995D,\hC9BB,\hDF19,\h39FA>>) >>
Algorithms == {CrcNarrow[i] : i \in DOMAIN CrcNarrow} \union {CrcWide[i] : i \in DOMAIN CrcWide}

(* With 64 bits the mask is a shift by the width of the type: no bits or    *)
(* all, as it is compiled.                                                  *)
Masks(p) == IF p.width < 64 THEN {0..p.width - 1} ELSE {{}, 0..63}
eflectBit(p, i) ==
  LET crc[j \in 0..8] ==
        IF j = 0 THEN Shl(i, p.width - 8)
        ELSE LET c == crc[j - 1] IN
             IF p.width - 1 \in c THEN Plus2(Shl(c, 1), p.polynomial) ELSE Shl(c, 1)
  IN crc[8]

OneByte(p, crc, byte) ==
  LET bits == IF p.reflectIn THEN ReflectBitOrderTable(byte) ELSE BitsOf(byte)
      index == Plus2(Shr(crc, p.width - 8), bits) \intersect 0..7
  IN Plus2(Shl(crc, 8), eflectBit(p, index))
Nine == <<49, 50, 51, 52, 53, 54, 55, 56, 57>> \* "123456789", of which check() is the result
Updated(value, from, to) ==
  FoldLeft(LAMBDA crc, byte : OneByte(obj.p, crc, byte), value, SubSeq(Nine, from + 1, to))
    \intersect obj.mask
finalize(value) ==
  Plus2(IF obj.p.reflectOut THEN ReflectBits(value, obj.p.width) ELSE value, obj.p.xorOut)
    \intersect obj.mask
ResetValue == obj.p.initial \intersect obj.mask
ResumedUnreflected(prev) == Plus2(prev \intersect obj.mask, obj.p.xorOut)
Resumed(prev) ==
  LET v == Plus2(prev \intersect obj.mask, obj.p.xorOut)
  IN IF obj.p.reflectOut THEN ReflectBits(v, obj.p.width) ELSE v

(* m_currentValue is of the first `fed' bytes; the last result of `upto'.   *)
CrcInit ==
  /\ class = "crc" /\ pc = <<>>
  /\ \E p \in Algorithms : \E mask \in Masks(p) :
       obj = [p |-> p, mask |-> mask, value |-> p.initial \intersect mask, fed |-> 0,
              result |-> {}, upto |-> -1]
crcReset ==
  class = "crc" /\ obj' = [obj EXCEPT !.value = ResetValue, !.fed = 0] /\ Stay
crcUpdate ==
  /\ class = "crc"
  /\ \E to \in Cuts : to >= obj.fed
                      /\ obj' = [obj EXCEPT !.value = Updated(@, obj.fed, to), !.fed = to]
  /\ Stay
crcFinalize ==
  class = "crc" /\ obj' = [obj EXCEPT !.result = finalize(obj.value), !.upto = obj.fed] /\ Stay
crcCalc ==
  /\ class = "crc"
  /\ \E to \in Cuts :
       obj' = [obj EXCEPT !.result = finalize(Updated(ResetValue, 0, to)), !.upto = to,
                          !.value = ResetValue, !.fed = 0]
  /\ Stay
(* calc() with the result of the bytes before.                              *)
crcCalcFrom ==
  /\ class = "crc" /\ obj.upto >= 0
  /\ \E to \in Cuts :
       /\ to >= obj.upto
       /\ obj' = [obj EXCEPT !.result = finalize(Updated(Resumed(obj.result), obj.upto, to)),
                             !.upto = to, !.value = ResetValue, !.fed = 0]
  /\ Stay
CrcNext == crcReset \/ crcUpdate \/ crcFinalize \/ crcCalc \/ crcCalcFrom

(* A CRC as it is defined: the remainder, one bit after the other.          *)
Remainder(p, n) ==
  LET BitAt(k) == LET i == k % 8 IN
        (IF p.reflectIn THEN i ELSE 7 - i) \in BitsOf(Nine[k \div 8 + 1])
      r[k \in 0..8 * n] ==
        IF k = 0 THEN p.initial
        ELSE LET c == r[k - 1]
                 shifted == Shl(c \ {p.width - 1}, 1)
             IN IF (p.width - 1 \in c) # BitAt(k - 1) THEN Plus2(shifted, p.polynomial) ELSE shifted
  IN Plus2(IF p.reflectOut THEN ReflectBits(r[8 * n], p.width) ELSE r[8 * n], p.xorOut)

(* However the bytes are divided among calls, and with whatever calls in    *)
(* between, the result is the CRC of all of them, and check() of the nine.  *)
(* Two exceptions: without a mask it is zero, and the check of CRC-16/IBM   *)
(* is another algorithm's.                                                  *)
CrcExact ==
  class = "crc" /\ obj.upto >= 0 =>
    IF obj.mask = {} THEN obj.result = {}
    ELSE /\ obj.result = Remainder(obj.p, obj.upto)
         /\ obj.upto = 9 => (obj.result = obj.p.check <=> obj.p # CrcNarrow[32])

-----------------------------------------------------------------------------
(* MD5.  A byte is a tuple: one of the message, of the padding or of the    *)
(* count at its end.  MD5Transform() is left uninterpreted: the state is    *)
(* the sequence of the blocks it was given.                                 *)
CountLimit == 2 ^ CountWidth
MD5Init == [count |-> <<0, 0>>, state |-> <<>>, buffer |-> <<>>]
CountedNoCarry(count, inputlen) ==
  LET low == (count[1] + inputlen * 8) % CountLimit
  IN <<low, (count[2] + inputlen \div 2 ^ (CountWidth - 3)) % CountLimit>>
Counted(count, inputlen) ==
  LET added == (inputlen * 8) % CountLimit
      low == (count[1] + added) % CountLimit
  IN <<low, (count[2] + (IF low < added THEN 1 ELSE 0) + inputlen \div 2 ^ (CountWidth - 3)) % CountLimit>>
MD5Update(context, input) ==
  LET index == (context.count[1] \div 8) % 64
      partlen == 64 - index
      n == Len(input)
      whole == SubSeq(context.buffer, 1, index) \o input
      blocks == (index + n) \div 64
  IN [count |-> Counted(context.count, n),
      state |-> IF n >= partlen
                THEN context.state \o [b \in 1..blocks |-> SubSeq(whole, 64 * (b - 1) + 1, 64 * b)]
                ELSE context.state,
      buffer |-> IF n >= partlen THEN SubSeq(whole, 64 * blocks + 1, index + n) ELSE whole]
PADDING == [i \in 1..64 |-> <<"padding", IF i = 1 THEN 128 ELSE 0>>]
MD5Encode(count) ==
  [k \in 1..8 |-> <<"count", k, (IF k <= 4 THEN count[1] ELSE count[2])>>]
MD5Final(context) ==
  LET index == (context.count[1] \div 8) % 64
      padlen == IF index < 56 THEN 56 - index ELSE 120 - index
      bits == MD5Encode(context.count)
  IN MD5Update(MD5Update(context, SubSeq(PADDING, 1, padlen)), bits).state

Message(from, to) == [i \in 1..to - from |-> <<"message", from + i>>]
Md5Init ==
  class = "md5" /\ pc = <<>> /\ obj = [ctx |-> MD5Init, fed |-> 0, result |-> <<>>, upto |-> -1]
md5Update ==
  /\ class = "md5"
  /\ \E n \in Pieces :
       /\ obj.fed + n <= MaxFed
       /\ obj' = [obj EXCEPT !.ctx = MD5Update(@, Message(obj.fed, obj.fed + n)), !.fed = @ + n]
  /\ Stay
(* The context is copied: it can be fed on.                                 *)
md5Result ==
  class = "md5" /\ obj' = [obj EXCEPT !.result = MD5Final(obj.ctx), !.upto = obj.fed] /\ Stay
(* FileMD5CheckSum() of a file that can be opened: reads of 1024 bytes, and *)
(* one that finds the end, which may read none.                             *)
md5File ==
  /\ class = "md5" /\ obj.fed = 0
  /\ \E n \in Pieces :
       LET reads == n \div 1024
           ctx[r \in 0..reads] ==
             IF r = 0 THEN MD5Init ELSE MD5Update(ctx[r - 1], Message(1024 * (r - 1), 1024 * r))
       IN obj' = [obj EXCEPT !.result = MD5Final(MD5Update(ctx[reads], Message(1024 * reads, n))),
                             !.upto = n]
  /\ Stay
Md5Next == md5Update \/ md5Result \/ md5File

(* A result is of the bytes that were fed, as MD5 defines it: a one bit,    *)
(* zeros up to 56 bytes of a block, and the number of bits in 64 of them.   *)
Md5Exact ==
  class = "md5" /\ obj.upto >= 0 =>
    LET zeros == CHOOSE z \in 0..63 : (obj.upto + 1 + z) % 64 = 56
        bits == 8 * obj.upto
        all == Message(0, obj.upto) \o SubSeq(PADDING, 1, zeros + 1)
                 \o MD5Encode(<<bits % CountLimit, (bits \div CountLimit) % CountLimit>>)
    IN obj.result = [b \in 1..Len(all) \div 64 |-> SubSeq(all, 64 * (b - 1) + 1, 64 * b)]

-----------------------------------------------------------------------------
(* Base64.  A letter of tbCode is its index; "=" is 64, any other 65.       *)
Sextets(s) ==
  <<s[1] \div 4, (s[1] % 4) * 16 + s[2] \div 16, (s[2] % 16) * 4 + s[3] \div 64, s[3] % 64>>
Octets(t) ==
  <<((t[1] * 4) % 256) + t[2] \div 16, ((t[2] % 16) * 16) + t[3] \div 4, ((t[3] * 64) % 256) + t[4]>>
Filled(s, n) == [i \in 1..n |-> IF i <= Len(s) THEN s[i] ELSE 0]
Groups(s, n) == [g \in 1..Len(s) \div n |-> SubSeq(s, n * (g - 1) + 1, n * g)]
RestOf(s, n) == SubSeq(s, n * (Len(s) \div n) + 1, Len(s))

Base64Encrypt(src) ==
  LET rest == RestOf(src, 3)
      bits == Len(rest) * 8
      size == bits \div 6 + (IF bits % 6 > 0 THEN 1 ELSE 0)
  IN FlattenSeq([g \in 1..Len(src) \div 3 |-> Sextets(Groups(src, 3)[g])])
       \o (IF rest = <<>> THEN <<>>
           ELSE SubSeq(Sextets(Filled(rest, 3)), 1, size) \o [i \in 1..4 - size |-> 64])
WithPadding(text) == text
UpToPadding(text) ==
  IF \E i \in DOMAIN text : text[i] = 64
  THEN SubSeq(text, 1, (CHOOSE i \in DOMAIN text : text[i] = 64 /\ \A j \in 1..i - 1 : text[j] # 64) - 1)
  ELSE text
Base64Decrypt(text) ==
  LET src == UpToPadding(text)
      rest == RestOf(src, 4)
      size == (Len(rest) * 6) \div 8
  IN IF text = <<>> \/ \E i \in DOMAIN src : src[i] = 65 THEN [ok |-> FALSE, des |-> <<>>]
     ELSE [ok |-> TRUE,
           des |-> FlattenSeq([g \in 1..Len(src) \div 4 |-> Octets(Groups(src, 4)[g])])
                     \o SubSeq(Octets(Filled(rest, 4)), 1, size)]

(* The text is taken up to the NUL behind it in a buffer of 2 * len bytes:  *)
(* where it fills the buffer, or more, other memory follows.                *)
Base64Init ==
  /\ class = "base64" /\ pc = <<>>
  /\ \E n \in 0..5 : \E data \in [1..n -> Samples] : obj = [data |-> data, text |-> <<>>, des |-> <<>>, told |-> "none"]
b64Encrypt ==
  /\ class = "base64" /\ obj.text = <<>>
  /\ LET code == Base64Encrypt(obj.data) IN
     \E behind \in IF Len(code) < 2 * Len(obj.data) \/ obj.data = <<>> THEN {<<>>}
                   ELSE {<<>>, <<65>>, <<12, 34, 5>>} :
       obj' = [obj EXCEPT !.text = code \o behind]
  /\ Stay
(* What is decrypted has come from somewhere: the padding may be gone, and  *)
(* line breaks or another text may be in it.                                *)
b64Carried ==
  /\ class = "base64" /\ obj.text # <<>> /\ obj.told = "none"
  /\ \E text \in {SelectSeq(obj.text, LAMBDA x : x # 64), Append(obj.text, 65),
                  obj.text \o Base64Encrypt(<<109>>), <<65>> \o obj.text} :
       obj' = [obj EXCEPT !.text = text, !.told = "carried"]
  /\ Stay
b64Decrypt ==
  /\ class = "base64" /\ obj.told \in {"none", "carried"}
  /\ LET r == Base64Decrypt(obj.text) IN
     obj' = [obj EXCEPT !.des = r.des, !.told = IF r.ok THEN "decrypted" ELSE "refused"]
  /\ Stay
Base64Next == b64Encrypt \/ b64Carried \/ b64Decrypt

(* What is decrypted from a text is encrypted to that text again, up to its *)
(* padding or to what no byte is left of; a text that was not carried gives *)
(* the bytes it was made of, also with other memory behind its padding.     *)
Base64Exact ==
  class = "base64" =>
    /\ obj.told = "decrypted" =>
         LET again == UpToPadding(Base64Encrypt(obj.des))
             text == UpToPadding(obj.text)
         IN IF Len(text) % 4 = 1 THEN IsPrefix(again, text) /\ Len(again) = Len(text) - 1
            ELSE Len(again) = Len(text)
                   /\ \A i \in DOMAIN again : again[i] = text[i] \/ (i = Len(text) /\ Len(text) % 4 # 0)
    /\ obj.told = "decrypted" /\ Len(obj.data) % 3 # 0 /\ 64 \in {obj.text[i] : i \in DOMAIN obj.text} =>
         obj.des = obj.data
=============================================================================
