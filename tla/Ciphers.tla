------------------------------- MODULE Ciphers -------------------------------
(***************************************************************************)
(* CRijndael (src/encrypt/Rijndael.cpp), class "cipher": two objects with  *)
(* the same key, one encrypts what the other decrypts.  A byte is a number,*)
(* a word four of them, a block a sequence of words.                       *)
(***************************************************************************)
EXTENDS Monitor, SequencesExt

CONSTANT MaxBlocks \* bound: blocks that are sent

(* F(v), in a form in which TLC evaluates v once.                           *)
With(v, F(_)) == CHOOSE r \in {F(x) : x \in {y \in {v} : y = y}} : TRUE

Bytes == 0..255
Bit(x, i) == (x \div 2 ^ i) % 2
PairXor == <<<<0, 1, 2, 3>>, <<1, 0, 3, 2>>, <<2, 3, 0, 1>>, <<3, 2, 1, 0>>>>
NibbleXor == [x \in 0..15 |-> [y \in 0..15 |->
  4 * PairXor[x \div 4 + 1][y \div 4 + 1] + PairXor[(x % 4) + 1][(y % 4) + 1]]]
ByteXor ==
  [x \in Bytes |-> [y \in Bytes |->
     16 * NibbleXor[x \div 16][y \div 16] + NibbleXor[x % 16][y % 16]]]
WordXor(v, w) == [k \in 1..4 |-> ByteXor[v[k]][w[k]]]
Xor(s, t) == With(s, LAMBDA u : With(t, LAMBDA v : [i \in DOMAIN u |-> WordXor(u[i], v[i])]))

-----------------------------------------------------------------------------
(* The tables.  Those given as numbers begin with that of 0.                *)
xtime(x) == IF x < 128 THEN 2 * x ELSE ByteXor[2 * x - 256][27]
alog == <<
  1, 3, 5, 15, 17, 51, 85, 255, 26, 46, 114, 150, 161, 248, 19, 53, 95, 225, 56, 72, 216, 115, 149,
  164, 247, 2, 6, 10, 30, 34, 102, 170, 229, 52, 92, 228, 55, 89, 235, 38, 106, 190, 217, 112, 144,
  171, 230, 49, 83, 245, 4, 12, 20, 60, 68, 204, 79, 209, 104, 184, 211, 110, 178, 205, 76, 212,
  103, 169, 224, 59, 77, 215, 98, 166, 241, 8, 24, 40, 120, 136, 131, 158, 185, 208, 107, 189, 220,
  127, 129, 152, 179, 206, 73, 219, 118, 154, 181, 196, 87, 249, 16, 48, 80, 240, 11, 29, 39, 105,
  187, 214, 97, 163, 254, 25, 43, 125, 135, 146, 173, 236, 47, 113, 147, 174, 233, 32, 96, 160,
  251, 22, 58, 78, 210, 109, 183, 194, 93, 231, 50, 86, 250, 21, 63, 65, 195, 94, 226, 61, 71, 201,
  64, 192, 91, 237, 44, 116, 156, 191, 218, 117, 159, 186, 213, 100, 172, 239, 42, 126, 130, 157,
  188, 223, 122, 142, 137, 128, 155, 182, 193, 88, 232, 35, 101, 175, 234, 37, 111, 177, 200, 67,
  197, 84, 252, 31, 33, 99, 165, 244, 7, 9, 27, 45, 119, 153, 176, 203, 70, 202, 69, 207, 74, 222,
  121, 139, 134, 145, 168, 227, 62, 66, 198, 81, 243, 14, 18, 54, 90, 238, 41, 123, 141, 140, 143,
  138, 133, 148, 167, 242, 13, 23, 57, 75, 221, 124, 132, 151, 162, 253, 28, 36, 108, 180, 199, 82,
  246, 1 >>
log == <<
  0, 0, 25, 1, 50, 2, 26, 198, 75, 199, 27, 104, 51, 238, 223, 3, 100, 4, 224, 14, 52, 141, 129,
  239, 76, 113, 8, 200, 248, 105, 28, 193, 125, 194, 29, 181, 249, 185, 39, 106, 77, 228, 166, 114,
  154, 201, 9, 120, 101, 47, 138, 5, 33, 15, 225, 36, 18, 240, 130, 69, 53, 147, 218, 142, 150,
  143, 219, 189, 54, 208, 206, 148, 19, 92, 210, 241, 64, 70, 131, 56, 102, 221, 253, 48, 191, 6,
  139, 98, 179, 37, 226, 152, 34, 136, 145, 16, 126, 110, 72, 195, 163, 182, 30, 66, 58, 107, 40,
  84, 250, 133, 61, 186, 43, 121, 10, 21, 155, 159, 94, 202, 78, 212, 172, 229, 243, 115, 167, 87,
  175, 88, 168, 80, 244, 234, 214, 116, 79, 174, 233, 213, 231, 230, 173, 232, 44, 215, 117, 122,
  235, 22, 11, 245, 89, 203, 95, 176, 156, 169, 81, 160, 127, 12, 246, 111, 23, 196, 73, 236, 216,
  67, 31, 45, 164, 118, 123, 183, 204, 187, 62, 90, 251, 96, 177, 134, 59, 82, 161, 108, 170, 85,
  41, 157, 151, 178, 135, 144, 97, 190, 220, 252, 188, 149, 207, 205, 55, 63, 91, 209, 83, 57, 132,
  60, 65, 162, 109, 71, 20, 42, 158, 93, 86, 242, 211, 171, 68, 17, 146, 217, 35, 32, 46, 137, 180,
  124, 184, 38, 119, 153, 227, 165, 103, 74, 237, 222, 197, 49, 254, 24, 13, 99, 140, 128, 192,
  247, 112, 7 >>
Mul(x, y) == IF x # 0 /\ y # 0 THEN alog[((log[x + 1] + log[y + 1]) % 255) + 1] ELSE 0

Sbox == <<
  99, 124, 119, 123, 242, 107, 111, 197, 48, 1, 103, 43, 254, 215, 171, 118, 202, 130, 201, 125,
  250, 89, 71, 240, 173, 212, 162, 175, 156, 164, 114, 192, 183, 253, 147, 38, 54, 63, 247, 204,
  52, 165, 229, 241, 113, 216, 49, 21, 4, 199, 35, 195, 24, 150, 5, 154, 7, 18, 128, 226, 235, 39,
  178, 117, 9, 131, 44, 26, 27, 110, 90, 160, 82, 59, 214, 179, 41, 227, 47, 132, 83, 209, 0, 237,
  32, 252, 177, 91, 106, 203, 190, 57, 74, 76, 88, 207, 208, 239, 170, 251, 67, 77, 51, 133, 69,
  249, 2, 127, 80, 60, 159, 168, 81, 163, 64, 143, 146, 157, 56, 245, 188, 182, 218, 33, 16, 255,
  243, 210, 205, 12, 19, 236, 95, 151, 68, 23, 196, 167, 126, 61, 100, 93, 25, 115, 96, 129, 79,
  220, 34, 42, 144, 136, 70, 238, 184, 20, 222, 94, 11, 219, 224, 50, 58, 10, 73, 6, 36, 92, 194,
  211, 172, 98, 145, 149, 228, 121, 231, 200, 55, 109, 141, 213, 78, 169, 108, 86, 244, 234, 101,
  122, 174, 8, 186, 120, 37, 46, 28, 166, 180, 198, 232, 221, 116, 31, 75, 189, 139, 138, 112, 62,
  181, 102, 72, 3, 246, 14, 97, 53, 87, 185, 134, 193, 29, 158, 225, 248, 152, 17, 105, 217, 142,
  148, 155, 30, 135, 233, 206, 85, 40, 223, 140, 161, 137, 13, 191, 230, 66, 104, 65, 153, 45, 15,
  176, 84, 187, 22 >>
S == [x \in Bytes |-> Sbox[x + 1]]
Si == [x \in Bytes |-> CHOOSE y \in Bytes : S[y] = x]

Column(c, x) == <<Mul(c[1], x), Mul(c[2], x), Mul(c[3], x), Mul(c[4], x)>>
T1 == [x \in Bytes |-> Column(<<2, 1, 1, 3>>, S[x])]
T2 == [x \in Bytes |-> Column(<<3, 2, 1, 1>>, S[x])]
T3 == [x \in Bytes |-> Column(<<1, 3, 2, 1>>, S[x])]
T4 == [x \in Bytes |-> Column(<<1, 1, 3, 2>>, S[x])]
T5 == [x \in Bytes |-> Column(<<14, 9, 13, 11>>, Si[x])]
T6 == [x \in Bytes |-> Column(<<11, 14, 9, 13>>, Si[x])]
T7 == [x \in Bytes |-> Column(<<13, 11, 14, 9>>, Si[x])]
T8 == [x \in Bytes |-> Column(<<9, 13, 11, 14>>, Si[x])]
U1 == [x \in Bytes |-> Column(<<14, 9, 13, 11>>, x)]
U2 == [x \in Bytes |-> Column(<<11, 14, 9, 13>>, x)]
U3 == [x \in Bytes |-> Column(<<13, 11, 14, 9>>, x)]
U4 == [x \in Bytes |-> Column(<<9, 13, 11, 14>>, x)]
rcon == LET p[n \in 1..30] == IF n = 1 THEN 1 ELSE xtime(p[n - 1]) IN [n \in 1..30 |-> p[n]]

(* How far the rows 1..3 of a block of BC words are shifted.                *)
shifts(BC) == IF BC = 8 THEN <<1, 3, 4>> ELSE <<1, 2, 3>>
unshifts(BC) == LET s == shifts(BC) IN <<BC - s[1], BC - s[2], BC - s[3]>>

-----------------------------------------------------------------------------
Rounds(KC, BC) ==
  CASE KC = 4 -> (IF BC = 4 THEN 10 ELSE IF BC = 6 THEN 12 ELSE 14)
    [] KC = 6 -> (IF BC = 8 THEN 14 ELSE 12)
    [] OTHER -> 14

(* MakeKey().  tk, the words of the key, become the next KC words again and *)
(* again.                                                                   *)
SubWord(w) == <<S[w[1]], S[w[2]], S[w[3]], S[w[4]]>>
Evolved(tk, n) ==
  LET KC == Len(tk)
      last == SubWord(tk[KC])
      e[i \in 1..KC] ==
        WordXor(tk[i], IF i = 1 THEN <<ByteXor[last[2]][rcon[n]], last[3], last[4], last[1]>>
                       ELSE IF KC = 8 /\ i = 5 THEN SubWord(e[4])
                       ELSE e[i - 1])
  IN [i \in 1..KC |-> e[i]]
Expanded(key, BC) ==
  LET words == (Rounds(Len(key), BC) + 1) * BC
      groups == words \div Len(key)
      g[n \in 0..groups] ==
        IF n = 0 THEN <<key>> ELSE With(g[n - 1], LAMBDA tks : Append(tks, Evolved(tks[n], n)))
  IN With(FlattenSeq(g[groups]),
          LAMBDA all : [r \in 1..words \div BC |-> SubSeq(all, (r - 1) * BC + 1, r * BC)])
Mixed(w1, w2, w3, w4) ==
  [k \in 1..4 |-> ByteXor[ByteXor[w1[k]][w2[k]]][ByteXor[w3[k]][w4[k]]]]
InvMixColumn(w) == Mixed(U1[w[1]], U2[w[2]], U3[w[3]], U4[w[4]])
Inverted(Ke) ==
  LET R == Len(Ke)
  IN [r \in 1..R |-> IF r \in {1, R} THEN Ke[R + 1 - r]
                     ELSE [i \in DOMAIN Ke[1] |-> InvMixColumn(Ke[R + 1 - r][i])]]

(* A round of tables and shifts, and the last one.                          *)
Row(t, i, s, k) == t[((i - 1 + (IF k = 1 THEN 0 ELSE s[k - 1])) % Len(t)) + 1][k]
Round(t, T, s, key) ==
  [i \in DOMAIN t |-> WordXor(key[i],
     Mixed(T[1][Row(t, i, s, 1)], T[2][Row(t, i, s, 2)], T[3][Row(t, i, s, 3)], T[4][Row(t, i, s, 4)]))]
LastRound(t, box, s, key) ==
  [i \in DOMAIN t |-> WordXor(key[i], <<box[Row(t, i, s, 1)], box[Row(t, i, s, 2)],
                                        box[Row(t, i, s, 3)], box[Row(t, i, s, 4)]>>)]
Cipher(block, T, box, s, keys) ==
  LET R == Len(keys)
      t[r \in 1..R - 1] ==
        IF r = 1 THEN Xor(block, keys[1])
        ELSE With(t[r - 1], LAMBDA u : Round(u, T, s, keys[r]))
  IN With(t[R - 1], LAMBDA u : LastRound(u, box, s, keys[R]))
EncryptBlock(block, Ke) == Cipher(block, <<T1, T2, T3, T4>>, S, shifts(Len(block)), Ke)
DecryptBlock(block, Kd) == Cipher(block, <<T5, T6, T7, T8>>, Si, unshifts(Len(block)), Kd)

-----------------------------------------------------------------------------
(* Encrypt() and Decrypt() of one block: what is in `result' and the chain. *)
(* Where `result' is `in' it is overwritten before it is read again.        *)
Encrypted(mode, chain, block, inPlace) ==
  CASE mode = "CBC" -> LET c == EncryptBlock(Xor(chain, block), obj.Ke) IN [out |-> c, chain |-> c]
    [] mode = "CFB" ->
         LET e == EncryptBlock(chain, obj.Ke)
             c == Xor(e, IF inPlace THEN e ELSE block)
         IN [out |-> c, chain |-> c]
    [] OTHER -> [out |-> EncryptBlock(block, obj.Ke), chain |-> chain]
DecryptedUnchained(mode, chain, block, inPlace) ==
  CASE mode = "CBC" -> [out |-> Xor(DecryptBlock(block, obj.Kd), chain), chain |-> obj.iv]
    [] mode = "CFB" -> [out |-> Xor(EncryptBlock(chain, obj.Ke), block), chain |-> block]
    [] OTHER -> [out |-> DecryptBlock(block, obj.Kd), chain |-> chain]
Decrypted(mode, chain, block, inPlace) ==
  CASE mode = "CBC" ->
         LET p == Xor(DecryptBlock(block, obj.Kd), chain)
         IN [out |-> p, chain |-> IF inPlace THEN p ELSE block]
    [] mode = "CFB" ->
         LET e == EncryptBlock(chain, obj.Ke)
             p == Xor(e, IF inPlace THEN e ELSE block)
         IN [out |-> p, chain |-> IF inPlace THEN p ELSE block]
    [] OTHER -> [out |-> DecryptBlock(block, obj.Kd), chain |-> chain]

Plain(n, BC) == [i \in 1..BC |-> [k \in 1..4 |-> (53 * n + 17 * i + 101 * k * i) % 256]]
(* All sizes of key and block without a chain, one with.                    *)
Shapes ==
  {[mode |-> "ECB", KC |-> k, BC |-> b] : k \in {4, 6, 8}, b \in {4, 6, 8}}
    \union {[mode |-> m, KC |-> 4, BC |-> 4] : m \in {"CBC", "CFB"}}

(* wire: what was encrypted; got: what came out of it; chains: m_chain of   *)
(* both objects; resets: blocks before which each called ResetChain().      *)
Sides == {"encrypts", "decrypts"}
CipherInit ==
  /\ class = "cipher" /\ pc = <<>>
  /\ \E shape \in Shapes, inPlace \in SUBSET Sides :
       LET key == [i \in 1..shape.KC |-> <<5 * i, 200 + i, 29 * i, 128 - i>>]
           Ke == Expanded(key, shape.BC)
       IN obj = [mode |-> shape.mode, inPlace |-> IF shape.mode = "ECB" THEN {} ELSE inPlace,
                 Ke |-> Ke, Kd |-> Inverted(Ke), iv |-> Plain(0, shape.BC), wire |-> <<>>, got |-> <<>>,
                 chains |-> [s \in Sides |-> Plain(0, shape.BC)], resets |-> [s \in Sides |-> {}]]

(* Encrypt() goes on with the chain of the call before: two blocks in one   *)
(* call are two calls.                                                      *)
Encrypt ==
  /\ class = "cipher" /\ Len(obj.wire) < (IF obj.mode = "ECB" THEN 1 ELSE MaxBlocks)
  /\ LET r == Encrypted(obj.mode, obj.chains["encrypts"], Plain(Len(obj.wire) + 1, Len(obj.iv)),
                        "encrypts" \in obj.inPlace)
     IN obj' = [obj EXCEPT !.wire = Append(@, r.out), !.chains["encrypts"] = r.chain]
  /\ Stay
Decrypt ==
  /\ class = "cipher" /\ Len(obj.got) < Len(obj.wire)
  /\ LET r == Decrypted(obj.mode, obj.chains["decrypts"], obj.wire[Len(obj.got) + 1],
                        "decrypts" \in obj.inPlace)
     IN obj' = [obj EXCEPT !.got = Append(@, r.out), !.chains["decrypts"] = r.chain]
  /\ Stay
ResetChain(s) ==
  /\ class = "cipher" /\ obj.mode # "ECB"
  /\ LET next == 1 + Len(IF s = "encrypts" THEN obj.wire ELSE obj.got)
     IN obj' = [obj EXCEPT !.chains[s] = obj.iv, !.resets[s] = IF next = 1 THEN @ ELSE @ \union {next}]
  /\ Stay
CipherNext == Encrypt \/ Decrypt \/ \E s \in Sides : ResetChain(s)

-----------------------------------------------------------------------------
(* Rijndael as it is defined: bytes are replaced, rows shifted, columns     *)
(* multiplied in the field, and the key added.                              *)
TimesInField(c, x) ==
  LET p[i \in 0..3] == IF i = 0 THEN x ELSE xtime(p[i - 1])
      Part(i) == IF Bit(c, i) = 1 THEN p[i] ELSE 0
  IN ByteXor[ByteXor[Part(0)][Part(1)]][ByteXor[Part(2)][Part(3)]]
MixColumn(w) ==
  LET M == <<<<2, 3, 1, 1>>, <<1, 2, 3, 1>>, <<1, 1, 2, 3>>, <<3, 1, 1, 2>>>>
  IN [j \in 1..4 |-> ByteXor[ByteXor[TimesInField(M[j][1], w[1])][TimesInField(M[j][2], w[2])]]
                      [ByteXor[TimesInField(M[j][3], w[3])][TimesInField(M[j][4], w[4])]]]
Rijndael(block, keys) ==
  LET BC == Len(block)
      R == Len(keys)
      offset == IF BC = 8 THEN <<0, 1, 3, 4>> ELSE <<0, 1, 2, 3>>
      ShiftedRows(v) ==
        With(v, LAMBDA u : [i \in 1..BC |-> [k \in 1..4 |-> S[u[((i - 1 + offset[k]) % BC) + 1][k]]]])
      t[r \in 1..R - 1] ==
        IF r = 1 THEN Xor(block, keys[1])
        ELSE Xor(With(ShiftedRows(t[r - 1]), LAMBDA u : [i \in 1..BC |-> MixColumn(u[i])]), keys[r])
  IN Xor(ShiftedRows(t[R - 1]), keys[R])

(* What comes out is what went in, with a chain across calls, if neither    *)
(* side has called ResetChain() without the other.  Not so where `result'   *)
(* is `in': in CFB the blocks are lost, and in CBC all but the first that   *)
(* are decrypted.  A block alone is encrypted as Rijndael is defined, for   *)
(* all sizes of keys and blocks.                                            *)
Overwritten ==
  \/ obj.mode = "CFB" /\ obj.inPlace # {}
  \/ obj.mode = "CBC" /\ "decrypts" \in obj.inPlace /\ Len(obj.got) > 1
CipherExact ==
  class = "cipher" =>
    LET Upto(s) == {n \in obj.resets[s] : n <= Len(obj.got)}
    IN /\ ~Overwritten /\ Upto("encrypts") = Upto("decrypts") =>
            \A n \in DOMAIN obj.got : obj.got[n] = Plain(n, Len(obj.iv))
       /\ obj.mode = "ECB" =>
            \A n \in DOMAIN obj.wire : obj.wire[n] = Rijndael(Plain(n, Len(obj.iv)), obj.Ke)
=============================================================================
