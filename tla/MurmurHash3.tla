---------------------------- MODULE MurmurHash3 ----------------------------
(***************************************************************************)
(* MurmurHash3_x86_128 (src/MurmurHash3.cpp), which makes the id of a      *)
(* request in LevelDB and Redis out of its serialized form.                *)
(*                                                                         *)
(* A word of 32 bits is the sequence of its four bytes, the least one      *)
(* first, as getblock32 finds them in memory.  The four lanes h1 to h4 are *)
(* a sequence of words.                                                    *)
(***************************************************************************)
EXTENDS Naturals, Sequences

Octet == 0 .. 255
Words == [1 .. 4 -> Octet]

(* A word out of four digits to the base 256 that may be too large: what   *)
(* overflows 32 bits is lost.                                              *)
Carried(digits) ==
  LET second == digits[2] + digits[1] \div 256
      third == digits[3] + second \div 256
      fourth == digits[4] + third \div 256
  IN <<digits[1] % 256, second % 256, third % 256, fourth % 256>>

Plus(x, y) == Carried([i \in 1 .. 4 |-> x[i] + y[i]])

Times(x, y) ==
  Carried(<<x[1] * y[1],
            x[1] * y[2] + x[2] * y[1],
            x[1] * y[3] + x[2] * y[2] + x[3] * y[1],
            x[1] * y[4] + x[2] * y[3] + x[3] * y[2] + x[4] * y[1]>>)

(* Exclusive or of two bytes, bit by bit.  (That of the community modules  *)
(* is RECURSIVE.)                                                          *)
Differ(a, b) ==
  LET Bit(w) == w * ((a \div w + b \div w) % 2)
  IN Bit(1) + Bit(2) + Bit(4) + Bit(8) + Bit(16) + Bit(32) + Bit(64) + Bit(128)

ExclusiveOr(x, y) == [i \in 1 .. 4 |-> Differ(x[i], y[i])]

PowerOfTwo == <<2, 4, 8, 16, 32, 64, 128, 256>>

(* Shifts within the byte at i, which takes in bits of the byte before or  *)
(* behind.                                                                 *)
rotl32(x, r) ==
  LET Byte(i) == x[((i + 3 - r \div 8) % 4) + 1]
      Shifted(b) == IF r % 8 = 0 THEN b ELSE (b * PowerOfTwo[r % 8]) % 256
      Carry(b) == b \div PowerOfTwo[8 - (r % 8)]
  IN [i \in 1 .. 4 |-> Shifted(Byte(i)) + Carry(Byte(i + 3))]

ShiftRight(x, r) ==
  LET Byte(i) == IF i + r \div 8 <= 4 THEN x[i + r \div 8] ELSE 0
      Shifted(b) == IF r % 8 = 0 THEN b ELSE b \div PowerOfTwo[r % 8]
      Carry(b) == (b * PowerOfTwo[8 - (r % 8)]) % 256
  IN [i \in 1 .. 4 |-> Shifted(Byte(i)) + Carry(Byte(i + 1))]

Word(n) == Carried(<<n, 0, 0, 0>>)

fmix32(x) ==
  LET a == Times(ExclusiveOr(x, ShiftRight(x, 16)), <<\h6b, \hca, \heb, \h85>>)
      b == Times(ExclusiveOr(a, ShiftRight(a, 13)), <<\h35, \hae, \hb2, \hc2>>)
  IN ExclusiveOr(b, ShiftRight(b, 16))

-----------------------------------------------------------------------------
Factor == << <<\h1b, \h96, \h9b, \h23>>, <<\h89, \h97, \h0e, \hab>>,
             <<\he5, \h4a, \hb3, \h38>>, <<\h93, \h8b, \he3, \ha1>> >>

Summand == << <<\h1b, \hcd, \h1c, \h56>>, <<\h47, \ha7, \hca, \h0b>>,
              <<\h35, \h1c, \hcd, \h96>>, <<\h17, \h3b, \hac, \h32>> >>

Lanes == [1 .. 4 -> Words]
After(i) == (i % 4) + 1

(* k1 to k4 as they go into their lanes.                                   *)
Scrambled(k, i) == Times(rotl32(Times(k, Factor[i]), 14 + i), Factor[After(i)])

(* The words of a block as getblock32 reads them.                          *)
WordAt(block, i) == [j \in 1 .. 4 |-> block[4 * (i - 1) + j]]

Absorb(h, block, i) ==
  [h EXCEPT ![i] = ExclusiveOr(@, Scrambled(WordAt(block, i), i))]

Stir(h, i) ==
  [h EXCEPT ![i] =
    Plus(Times(Plus(rotl32(@, <<19, 17, 15, 13>>[i]), h[After(i)]), Word(5)), Summand[i])]

Round(h, block, i) == Stir(Absorb(h, block, i), i)

BodyBlock(h, block) ==
  Round(Round(Round(Round(h, block, 1), block, 2), block, 3), block, 4)

(* A word of the tail that is missing changes no lane, as one of zeros.    *)
Tailed(h, tail) ==
  Absorb(Absorb(Absorb(Absorb(h, tail, 4), tail, 3), tail, 2), tail, 1)

Summed(h) ==
  LET h1 == Plus(Plus(Plus(h[1], h[2]), h[3]), h[4])
  IN [i \in 1 .. 4 |-> IF i = 1 THEN h1 ELSE Plus(h[i], h1)]

Finalized(h, len) ==
  LET mixed == Summed([i \in 1 .. 4 |-> ExclusiveOr(h[i], Word(len))])
  IN Summed([i \in 1 .. 4 |-> fmix32(mixed[i])])

Block(key, n) == [j \in 1 .. 16 |-> key[16 * (n - 1) + j]]

(* Mutation: the last byte is passed over.                                 *)
TailShort(key) ==
  LET read == 16 * (Len(key) \div 16)
  IN [j \in 1 .. 16 |-> IF read + j < Len(key) THEN key[read + j] ELSE 0]

(* What is behind the blocks, and zeros.                                   *)
TailOf(key) ==
  LET read == 16 * (Len(key) \div 16)
  IN [j \in 1 .. 16 |-> IF read + j <= Len(key) THEN key[read + j] ELSE 0]

MurmurHash3_x86_128(key, seed) ==
  LET body[n \in 0 .. Len(key) \div 16] ==
        IF n = 0 THEN [i \in 1 .. 4 |-> seed] ELSE BodyBlock(body[n - 1], Block(key, n))
  IN Finalized(Tailed(body[Len(key) \div 16], TailOf(key)), Len(key))

-----------------------------------------------------------------------------
HASH_SEED == Word(76329)

LowerHexDigit(d) == IF d < 10 THEN 48 + d ELSE 87 + d

(* strlen ends the key at the first NUL byte.                              *)
CString(value) ==
  SubSeq(value, 1, CHOOSE n \in 0 .. Len(value) :
                     /\ \A i \in 1 .. n : value[i] # 0
                     /\ n < Len(value) => value[n + 1] = 0)

(* string_utils::hash: eight digits of each word, the highest first.       *)
hash(value) ==
  LET h == MurmurHash3_x86_128(CString(value), HASH_SEED)
      Byte(p) == h[(p - 1) \div 8 + 1][4 - (((p - 1) \div 2) % 4)]
  IN [p \in 1 .. 32 |-> LowerHexDigit(IF p % 2 = 1 THEN Byte(p) \div 16 ELSE Byte(p) % 16)]

=============================================================================
