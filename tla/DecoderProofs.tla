---------------------------- MODULE DecoderProofs ---------------------------
(***************************************************************************)
(* Proofs about the fields of the decoders, for every structure and every  *)
(* text: StructureBits first, ReleaseDateText at the end.                  *)
(*                                                                         *)
(* Bits.  The inductive invariant says only that raw is a structure and    *)
(* that the bits left lie in its formatted area.  From it follows that a   *)
(* step turns over one bit of one byte.  What is read elsewhere stays; of  *)
(* the bytes of a field each decoder has one owner; and where several      *)
(* answers are taken from one field their bits are not the same.  A list   *)
(* of set bits is sorted, so one bit more is one element more in it.       *)
(* A wide field behind an escape is a word, or is made of words, and a     *)
(* word changes with each of its bits; the records a chassis contains lie  *)
(* behind each other, so the byte behind them is the one the decoder reads *)
(* next.                                                                   *)
(*                                                                         *)
(* Dates.  The invariant says that text is a sequence of bytes.  A text    *)
(* that is taken for a date is split at two slashes, and nowhere else, and *)
(* a numeral and its number determine each other.                          *)
(***************************************************************************)
EXTENDS StructureBits, ReleaseDateText, SMBIOSTableProofs

(***************************************************************************)
(* One bit of a byte.                                                      *)
(***************************************************************************)

Power(b) == 2 ^ b

LEMMA ByteBits ==
    /\ Power(0) = 1 /\ Power(1) = 2 /\ Power(2) = 4 /\ Power(3) = 8
    /\ Power(4) = 16 /\ Power(5) = 32 /\ Power(6) = 64 /\ Power(7) = 128
    /\ \A v, b : Bit(v, b) <=> (v \div Power(b)) % 2 = 1
    /\ \A b \in 0 .. 7 : b \in {0, 1, 2, 3, 4, 5, 6, 7}
    /\ \A v : v \in Byte <=> v \in Int /\ 0 <= v /\ v <= 255
<1>1. /\ Power(0) = 1 /\ Power(1) = 2 /\ Power(2) = 4 /\ Power(3) = 8
      /\ Power(4) = 16 /\ Power(5) = 32 /\ Power(6) = 64 /\ Power(7) = 128
  BY DEF Power
<1>2. \A v, b : Bit(v, b) <=> (v \div Power(b)) % 2 = 1
  BY DEF Bit, Power
<1>3. \A b \in 0 .. 7 : b \in {0, 1, 2, 3, 4, 5, 6, 7}
  OBVIOUS
<1>4. \A v : v \in Byte <=> v \in Int /\ 0 <= v /\ v <= 255
  BY DEF Byte
<1> QED
  BY <1>1, <1>2, <1>3, <1>4

\* A byte with bit j turned over.
Turned(v, j) == IF Bit(v, j) THEN v - Power(j) ELSE v + Power(j)

\* The bits of a byte.
Binary(v, bit) ==
    /\ bit \in [0 .. 7 -> {0, 1}]
    /\ v = bit[0] + 2 * bit[1] + 4 * bit[2] + 8 * bit[3]
            + 16 * bit[4] + 32 * bit[5] + 64 * bit[6] + 128 * bit[7]

LEMMA EachBit ==
    ASSUME NEW bit \in [0 .. 7 -> {0, 1}]
    PROVE  /\ bit[0] \in {0, 1} /\ bit[1] \in {0, 1} /\ bit[2] \in {0, 1} /\ bit[3] \in {0, 1}
           /\ bit[4] \in {0, 1} /\ bit[5] \in {0, 1} /\ bit[6] \in {0, 1} /\ bit[7] \in {0, 1}
OBVIOUS

LEMMA BinaryByte ==
    ASSUME NEW v \in Byte
    PROVE  \E bit : Binary(v, bit)
<1> DEFINE half(n) == n \div 2
           low(n) == n % 2
<1>1. \A n : n \in Int /\ n >= 0 => n = 2 * half(n) + low(n) /\ low(n) \in {0, 1}
                                    /\ half(n) \in Int /\ half(n) >= 0
  OBVIOUS
<1> HIDE DEF half, low
<1> DEFINE v1 == half(v)
           v2 == half(v1)
           v3 == half(v2)
           v4 == half(v3)
           v5 == half(v4)
           v6 == half(v5)
           v7 == half(v6)
           a == low(v)
           b == low(v1)
           c == low(v2)
           d == low(v3)
           e == low(v4)
           f == low(v5)
           g == low(v6)
<1>2. v \in Int /\ v >= 0 /\ v <= 255
  BY DEF Byte
<1>3. /\ v = 2 * v1 + a /\ a \in {0, 1} /\ v1 \in Int /\ v1 >= 0
      /\ v1 = 2 * v2 + b /\ b \in {0, 1} /\ v2 \in Int /\ v2 >= 0
      /\ v2 = 2 * v3 + c /\ c \in {0, 1} /\ v3 \in Int /\ v3 >= 0
      /\ v3 = 2 * v4 + d /\ d \in {0, 1} /\ v4 \in Int /\ v4 >= 0
  BY <1>1, <1>2
<1>4. /\ v4 = 2 * v5 + e /\ e \in {0, 1} /\ v5 \in Int /\ v5 >= 0
      /\ v5 = 2 * v6 + f /\ f \in {0, 1} /\ v6 \in Int /\ v6 >= 0
      /\ v6 = 2 * v7 + g /\ g \in {0, 1} /\ v7 \in Int /\ v7 >= 0
  BY <1>1, <1>3
<1> HIDE DEF v1, v2, v3, v4, v5, v6, v7, a, b, c, d, e, f, g
<1>5. v7 \in {0, 1}
  BY <1>2, <1>3, <1>4
<1>6. v4 = e + 2 * f + 4 * g + 8 * v7
  BY <1>4, <1>5
<1>7. v = a + 2 * b + 4 * c + 8 * d + 16 * e + 32 * f + 64 * g + 128 * v7
  BY <1>2, <1>3, <1>4, <1>5, <1>6
<1> DEFINE bit == [i \in 0 .. 7 |->
                      CASE i = 0 -> a [] i = 1 -> b [] i = 2 -> c [] i = 3 -> d
                        [] i = 4 -> e [] i = 5 -> f [] i = 6 -> g [] i = 7 -> v7]
<1>8. /\ bit[0] = a /\ bit[1] = b /\ bit[2] = c /\ bit[3] = d
      /\ bit[4] = e /\ bit[5] = f /\ bit[6] = g /\ bit[7] = v7
  OBVIOUS
<1>9. bit \in [0 .. 7 -> {0, 1}]
  BY <1>3, <1>4, <1>5
<1> HIDE DEF bit
<1>10. Binary(v, bit)
  BY <1>7, <1>8, <1>9 DEF Binary
<1> QED
  BY <1>10

LEMMA BinaryBits ==
    ASSUME NEW v, NEW bit, Binary(v, bit)
    PROVE  /\ v \in Byte
           /\ \A i \in 0 .. 7 : Bit(v, i) <=> bit[i] = 1
           /\ v \div 16 = bit[4] + 2 * bit[5] + 4 * bit[6] + 8 * bit[7]
           /\ v % 16 = bit[0] + 2 * bit[1] + 4 * bit[2] + 8 * bit[3]
           /\ v % 128 = bit[0] + 2 * bit[1] + 4 * bit[2] + 8 * bit[3]
                           + 16 * bit[4] + 32 * bit[5] + 64 * bit[6]
           /\ v >= 128 <=> bit[7] = 1
           /\ v \div 2 = bit[1] + 2 * bit[2] + 4 * bit[3] + 8 * bit[4]
                             + 16 * bit[5] + 32 * bit[6] + 64 * bit[7]
<1> DEFINE a == bit[0]
           b == bit[1]
           c == bit[2]
           d == bit[3]
           e == bit[4]
           f == bit[5]
           g == bit[6]
           h == bit[7]
<1>1. /\ a \in {0, 1} /\ b \in {0, 1} /\ c \in {0, 1} /\ d \in {0, 1}
      /\ e \in {0, 1} /\ f \in {0, 1} /\ g \in {0, 1} /\ h \in {0, 1}
  BY EachBit DEF Binary
<1>2. v = a + 2 * b + 4 * c + 8 * d + 16 * e + 32 * f + 64 * g + 128 * h
  BY DEF Binary
<1> HIDE DEF a, b, c, d, e, f, g, h
<1>3. v \in Byte
  BY <1>1, <1>2 DEF Byte
<1>4. /\ v \div 1 = a + 2 * (b + 2 * c + 4 * d + 8 * e + 16 * f + 32 * g + 64 * h)
      /\ v \div 2 = b + 2 * (c + 2 * d + 4 * e + 8 * f + 16 * g + 32 * h)
      /\ v \div 4 = c + 2 * (d + 2 * e + 4 * f + 8 * g + 16 * h)
      /\ v \div 8 = d + 2 * (e + 2 * f + 4 * g + 8 * h)
      /\ v \div 16 = e + 2 * (f + 2 * g + 4 * h)
      /\ v \div 32 = f + 2 * (g + 2 * h)
      /\ v \div 64 = g + 2 * h
      /\ v \div 128 = h
  BY <1>1, <1>2
<1>5. \A x, n : x \in {0, 1} /\ n \in Int => (x + 2 * n) % 2 = x
  OBVIOUS
<1>6. /\ (v \div 1) % 2 = a /\ (v \div 2) % 2 = b /\ (v \div 4) % 2 = c /\ (v \div 8) % 2 = d
      /\ (v \div 16) % 2 = e /\ (v \div 32) % 2 = f /\ (v \div 64) % 2 = g /\ (v \div 128) % 2 = h
  BY <1>1, <1>4, <1>5
<1>7. /\ v \div 16 = e + 2 * f + 4 * g + 8 * h /\ v % 16 = a + 2 * b + 4 * c + 8 * d
      /\ v % 128 = a + 2 * b + 4 * c + 8 * d + 16 * e + 32 * f + 64 * g
      /\ (v >= 128 <=> h = 1)
  BY <1>1, <1>2
<1>8. /\ (Bit(v, 0) <=> a = 1) /\ (Bit(v, 1) <=> b = 1)
      /\ (Bit(v, 2) <=> c = 1) /\ (Bit(v, 3) <=> d = 1)
      /\ (Bit(v, 4) <=> e = 1) /\ (Bit(v, 5) <=> f = 1)
      /\ (Bit(v, 6) <=> g = 1) /\ (Bit(v, 7) <=> h = 1)
  BY <1>6, ByteBits
<1>9. \A i \in 0 .. 7 : Bit(v, i) <=> bit[i] = 1
  BY <1>8, ByteBits DEF a, b, c, d, e, f, g, h
<1>10. v \div 2 = b + 2 * c + 4 * d + 8 * e + 16 * f + 32 * g + 64 * h
  BY <1>1, <1>2
<1> QED
  BY <1>3, <1>7, <1>9, <1>10 DEF a, b, c, d, e, f, g, h

\* Turning a bit over turns one of them and leaves the others.
LEMMA BinaryTurned ==
    ASSUME NEW v, NEW bit, Binary(v, bit), NEW j \in 0 .. 7
    PROVE  Binary(Turned(v, j), [bit EXCEPT ![j] = 1 - @])
<1> DEFINE new == [bit EXCEPT ![j] = 1 - @]
           w == Turned(v, j)
           Sum(b) == b[0] + 2 * b[1] + 4 * b[2] + 8 * b[3]
                        + 16 * b[4] + 32 * b[5] + 64 * b[6] + 128 * b[7]
<1>1. /\ bit[0] \in {0, 1} /\ bit[1] \in {0, 1} /\ bit[2] \in {0, 1} /\ bit[3] \in {0, 1}
      /\ bit[4] \in {0, 1} /\ bit[5] \in {0, 1} /\ bit[6] \in {0, 1} /\ bit[7] \in {0, 1}
  BY EachBit DEF Binary
<1>2. new \in [0 .. 7 -> {0, 1}] /\ new[j] = 1 - bit[j] /\ \A i \in 0 .. 7 : i # j => new[i] = bit[i]
  BY DEF Binary
<1>3. v = Sum(bit)
  BY DEF Binary
<1>4. w = IF bit[j] = 1 THEN v - Power(j) ELSE v + Power(j)
  BY BinaryBits DEF Turned
<1> HIDE DEF new, w
<1>5. w = Sum(new)
  <2>1. CASE j = 0
    BY <1>1, <1>2, <1>3, <1>4, <2>1, ByteBits
  <2>2. CASE j = 1
    BY <1>1, <1>2, <1>3, <1>4, <2>2, ByteBits
  <2>3. CASE j = 2
    BY <1>1, <1>2, <1>3, <1>4, <2>3, ByteBits
  <2>4. CASE j = 3
    BY <1>1, <1>2, <1>3, <1>4, <2>4, ByteBits
  <2>5. CASE j = 4
    BY <1>1, <1>2, <1>3, <1>4, <2>5, ByteBits
  <2>6. CASE j = 5
    BY <1>1, <1>2, <1>3, <1>4, <2>6, ByteBits
  <2>7. CASE j = 6
    BY <1>1, <1>2, <1>3, <1>4, <2>7, ByteBits
  <2>8. CASE j = 7
    BY <1>1, <1>2, <1>3, <1>4, <2>8, ByteBits
  <2> QED
    BY <2>1, <2>2, <2>3, <2>4, <2>5, <2>6, <2>7, <2>8, ByteBits
<1> QED
  BY <1>2, <1>5 DEF Binary, w, new

\* What turning bit j of a byte over does to it, and to its halves.
TurnedRight(v, w, j) ==
    /\ w \in Byte /\ w # v
    /\ \A i \in 0 .. 7 : i # j => (Bit(w, i) <=> Bit(v, i))
    /\ Bit(w, j) <=> ~ Bit(v, j)
    /\ j < 4 => w \div 16 = v \div 16
    /\ j >= 4 => w % 16 = v % 16
    /\ j < 7 => (w >= 128 <=> v >= 128)
    /\ j = 7 => w % 128 = v % 128
    /\ j = 0 => w \div 2 = v \div 2

LEMMA TurnedByte ==
    ASSUME NEW v \in Byte, NEW j \in 0 .. 7
    PROVE  TurnedRight(v, Turned(v, j), j)
<1>1. PICK bit : Binary(v, bit)
  BY BinaryByte
<1> DEFINE w == Turned(v, j)
           new == [bit EXCEPT ![j] = 1 - @]
<1>2. Binary(w, new)
  BY <1>1, BinaryTurned
<1>3. /\ bit[j] \in {0, 1} /\ new[j] = 1 - bit[j]
      /\ \A i \in 0 .. 7 : i # j => new[i] = bit[i]
  BY <1>1 DEF Binary
<1> HIDE DEF w, new
<1>4. /\ \A i \in 0 .. 7 : Bit(v, i) <=> bit[i] = 1
      /\ v \div 16 = bit[4] + 2 * bit[5] + 4 * bit[6] + 8 * bit[7]
      /\ v % 16 = bit[0] + 2 * bit[1] + 4 * bit[2] + 8 * bit[3]
      /\ v % 128 = bit[0] + 2 * bit[1] + 4 * bit[2] + 8 * bit[3]
                           + 16 * bit[4] + 32 * bit[5] + 64 * bit[6]
      /\ v >= 128 <=> bit[7] = 1
      /\ v \div 2 = bit[1] + 2 * bit[2] + 4 * bit[3] + 8 * bit[4]
                        + 16 * bit[5] + 32 * bit[6] + 64 * bit[7]
  BY <1>1, BinaryBits
<1>5. /\ w \in Byte
      /\ \A i \in 0 .. 7 : Bit(w, i) <=> new[i] = 1
      /\ w \div 16 = new[4] + 2 * new[5] + 4 * new[6] + 8 * new[7]
      /\ w % 16 = new[0] + 2 * new[1] + 4 * new[2] + 8 * new[3]
      /\ w % 128 = new[0] + 2 * new[1] + 4 * new[2] + 8 * new[3]
                           + 16 * new[4] + 32 * new[5] + 64 * new[6]
      /\ w >= 128 <=> new[7] = 1
      /\ w \div 2 = new[1] + 2 * new[2] + 4 * new[3] + 8 * new[4]
                        + 16 * new[5] + 32 * new[6] + 64 * new[7]
  BY <1>2, BinaryBits
<1>6. Bit(w, j) <=> ~ Bit(v, j)
  BY <1>3, <1>4, <1>5
<1>7. \A i \in 0 .. 7 : i # j => (Bit(w, i) <=> Bit(v, i))
  BY <1>3, <1>4, <1>5
<1>8. j < 4 => w \div 16 = v \div 16
  BY <1>3, <1>4, <1>5
<1>9. j >= 4 => w % 16 = v % 16
  BY <1>3, <1>4, <1>5
<1>10. (j < 7 => (w >= 128 <=> v >= 128)) /\ (j = 7 => w % 128 = v % 128)
  BY <1>3, <1>4, <1>5
<1>11. w # v
  BY <1>6
<1>12. j = 0 => w \div 2 = v \div 2
  BY <1>3, <1>4, <1>5
<1> QED
  BY <1>5, <1>6, <1>7, <1>8, <1>9, <1>10, <1>11, <1>12 DEF TurnedRight, w

(***************************************************************************)
(* A step turns over one bit of one byte.                                  *)
(***************************************************************************)

\* r and s are alike but for the byte at offset k.
AlikeBut(r, s, k) ==
    /\ r \in RawStructure /\ s \in RawStructure /\ k \in Nat
    /\ s.type = r.type /\ s.handle = r.handle /\ s.strings = r.strings
    /\ Len(s.formatted) = Len(r.formatted)
    /\ \A i \in Nat : i < Len(r.formatted) /\ i # k =>
                          ByteAt(s.formatted, i) = ByteAt(r.formatted, i)

\* At that offset, bit j is the other way round.
OneBit(r, s, k, j) ==
    /\ AlikeBut(r, s, k) /\ k < Len(r.formatted) /\ j \in 0 .. 7
    /\ TurnedRight(ByteAt(r.formatted, k), ByteAt(s.formatted, k), j)

RawOK ==
    /\ raw \in RawStructure
    /\ bits \subseteq 0 .. 8 * Len(raw.formatted) - 1

LEMMA ByteOfBit ==
    ASSUME NEW n \in Nat, NEW b \in 0 .. 8 * n - 1
    PROVE  /\ b \div 8 \in Nat /\ b \div 8 < n /\ b % 8 \in 0 .. 7
           /\ b \div 8 + 1 \in 1 .. n
OBVIOUS

LEMMA FlipTurns ==
    ASSUME NEW f, NEW b
    PROVE  Flipped(f, b) = [f EXCEPT ![b \div 8 + 1] = Turned(ByteAt(f, b \div 8), b % 8)]
BY DEF Flipped, Turned, IsSet, Power, ByteAt

LEMMA FlipsOneBit ==
    ASSUME RawOK, NEW b \in bits, Flip(b)
    PROVE  OneBit(raw, raw', b \div 8, b % 8)
<1> DEFINE f == raw.formatted
           k == b \div 8
           j == b % 8
           t == Turned(ByteAt(f, k), j)
           g == [f EXCEPT ![k + 1] = t]
<1>1. raw \in RawStructure /\ b \in 0 .. 8 * Len(f) - 1
  BY DEF RawOK
<1>2. f \in Seq(Byte) /\ Len(f) \in Nat
  BY <1>1, LenProperties DEF RawStructure
<1>3. k \in Nat /\ k < Len(f) /\ j \in 0 .. 7 /\ k + 1 \in 1 .. Len(f)
  BY <1>1, <1>2, ByteOfBit
<1>4. raw' = [raw EXCEPT !.formatted = g]
  BY FlipTurns DEF Flip
<1> HIDE DEF k, j
<1>5. ByteAt(f, k) \in Byte
  BY <1>2, <1>3, ElementOfSeq DEF ByteAt
<1>6. TurnedRight(ByteAt(f, k), t, j)
  BY <1>3, <1>5, TurnedByte
<1>7. t \in Byte
  BY <1>6 DEF TurnedRight
<1> HIDE DEF t
<1>8. g \in Seq(Byte) /\ Len(g) = Len(f)
  BY <1>2, <1>3, <1>7
<1>9. ByteAt(g, k) = t /\ \A i \in Nat : i < Len(f) /\ i # k => ByteAt(g, i) = ByteAt(f, i)
  BY <1>2, <1>3 DEF ByteAt
<1> HIDE DEF g, f
<1>10. raw'.formatted = g /\ raw'.type = raw.type /\ raw'.handle = raw.handle
       /\ raw'.strings = raw.strings /\ raw' \in RawStructure
  BY <1>1, <1>4, <1>8 DEF RawStructure
<1> QED
  BY <1>1, <1>3, <1>6, <1>8, <1>9, <1>10 DEF OneBit, AlikeBut, f, k, j

LEMMA InitRawOK == Init => RawOK
BY RawCases DEF Init, RawOK

LEMMA StepRawOK == RawOK /\ [Next]_vars => RawOK'
<1> SUFFICES ASSUME RawOK, [Next]_vars PROVE RawOK'
  OBVIOUS
<1>1. ASSUME NEW b \in bits, Flip(b) PROVE RawOK'
  <2>1. raw' \in RawStructure /\ Len(raw'.formatted) = Len(raw.formatted)
    BY <1>1, FlipsOneBit DEF OneBit, AlikeBut
  <2>2. bits' \subseteq bits
    BY <1>1 DEF Flip
  <2> QED
    BY <2>1, <2>2 DEF RawOK
<1>2. CASE UNCHANGED vars
  BY <1>2 DEF RawOK, vars
<1> QED
  BY <1>1, <1>2 DEF Next, AllFlipped

LEMMA AlwaysRawOK == Spec => []RawOK
BY InitRawOK, StepRawOK, PTL DEF Spec

\* Every step that changes something changes one bit of one byte.
LEMMA OneBitAtATime ==
    ASSUME RawOK, [Next]_vars
    PROVE  raw' = raw \/ \E k, j : OneBit(raw, raw', k, j)
<1>1. ASSUME NEW b \in bits, Flip(b) PROVE \E k, j : OneBit(raw, raw', k, j)
  BY <1>1, FlipsOneBit
<1> QED
  BY <1>1 DEF Next, AllFlipped, vars

(***************************************************************************)
(* Reading elsewhere.                                                      *)
(***************************************************************************)

LEMMA LengthOfArea ==
    ASSUME NEW r \in RawStructure
    PROVE  r.formatted \in Seq(Byte) /\ Len(r.formatted) \in Nat
BY LenProperties DEF RawStructure

LEMMA WordsElsewhere ==
    ASSUME NEW r, NEW s, NEW k, AlikeBut(r, s, k), NEW n \in {2, 4},
           NEW o \in Nat, k \notin o .. o + 2 * n - 1
    PROVE  Words(s.formatted, o, n) = Words(r.formatted, o, n)
<1> DEFINE f == r.formatted
           g == s.formatted
<1>1. Len(f) \in Nat /\ Len(g) = Len(f) /\ k \in Nat
  BY LengthOfArea DEF AlikeBut
<1>2. \A i \in Nat : i < Len(f) /\ i # k => ByteAt(g, i) = ByteAt(f, i)
  BY DEF AlikeBut
<1> HIDE DEF f, g
<1>3. CASE o + 2 * n <= Len(f)
  <2>1. ASSUME NEW i \in 1 .. n
        PROVE  WordAt(g, o + 2 * (i - 1)) = WordAt(f, o + 2 * (i - 1))
    <3> DEFINE m == o + 2 * (i - 1)
    <3>1. /\ m \in Nat /\ m + 1 \in Nat /\ m < Len(f) /\ m + 1 < Len(f)
          /\ m # k /\ m + 1 # k
      BY <1>1, <1>3
    <3> HIDE DEF m
    <3>2. ByteAt(g, m) = ByteAt(f, m) /\ ByteAt(g, m + 1) = ByteAt(f, m + 1)
      BY <1>2, <3>1
    <3>3. WordAt(g, m) = WordAt(f, m)
      BY <3>2 DEF WordAt
    <3> QED
      BY <3>3 DEF m
  <2>2. /\ Words(g, o, n) = [i \in 1 .. n |-> WordAt(g, o + 2 * (i - 1))]
        /\ Words(f, o, n) = [i \in 1 .. n |-> WordAt(f, o + 2 * (i - 1))]
    BY <1>1, <1>3 DEF Words
  <2> QED
    BY <2>1, <2>2 DEF f, g
<1>4. CASE ~ (o + 2 * n <= Len(f))
  BY <1>1, <1>4 DEF Words, f, g
<1> QED
  BY <1>3, <1>4

\* A field that does not contain the byte reads the same.
LEMMA ReadElsewhere ==
    ASSUME NEW r, NEW s, NEW k, AlikeBut(r, s, k), NEW o \in Nat
    PROVE  /\ o # k => _u8(s.formatted, o) = _u8(r.formatted, o)
           /\ k \notin o .. o + 1 => _u16(s.formatted, o) = _u16(r.formatted, o)
           /\ k \notin o .. o + 3 => _u32(s.formatted, o) = _u32(r.formatted, o)
           /\ k \notin o .. o + 7 => _u64(s.formatted, o) = _u64(r.formatted, o)
<1> DEFINE f == r.formatted
           g == s.formatted
<1>1. Len(f) \in Nat /\ Len(g) = Len(f) /\ k \in Nat
  BY LengthOfArea DEF AlikeBut
<1>2. \A i \in Nat : i < Len(f) /\ i # k => ByteAt(g, i) = ByteAt(f, i)
  BY DEF AlikeBut
<1>3. k \notin o .. o + 3 => _u32(g, o) = _u32(f, o)
  BY WordsElsewhere, <1>1 DEF _u32
<1>4. k \notin o .. o + 7 => _u64(g, o) = _u64(f, o)
  BY WordsElsewhere, <1>1 DEF _u64
<1> HIDE DEF f, g
<1>5. o # k => _u8(g, o) = _u8(f, o)
  BY <1>1, <1>2 DEF _u8
<1>6. ASSUME k \notin o .. o + 1 PROVE _u16(g, o) = _u16(f, o)
  <2>1. o + 1 \in Nat /\ o # k /\ o + 1 # k
    BY <1>1, <1>6
  <2>2. o + 2 <= Len(f) => ByteAt(g, o) = ByteAt(f, o) /\ ByteAt(g, o + 1) = ByteAt(f, o + 1)
    BY <1>1, <1>2, <2>1
  <2>3. o + 2 <= Len(f) => WordAt(g, o) = WordAt(f, o)
    BY <2>2 DEF WordAt
  <2> QED
    BY <1>1, <2>3 DEF _u16
<1> QED
  BY <1>3, <1>4, <1>5, <1>6 DEF f, g

LEMMA SliceElsewhere ==
    ASSUME NEW r, NEW s, NEW k, AlikeBut(r, s, k), NEW m \in Nat, NEW n \in Nat,
           k \notin m .. n - 1
    PROVE  SafeSlice(s.formatted, m, n) = SafeSlice(r.formatted, m, n)
<1> DEFINE f == r.formatted
           g == s.formatted
           e == IF n < Len(f) THEN n ELSE Len(f)
<1>1. Len(f) \in Nat /\ Len(g) = Len(f) /\ k \in Nat /\ f \in Seq(Byte) /\ g \in Seq(Byte)
  BY LengthOfArea DEF AlikeBut
<1>2. \A i \in Nat : i < Len(f) /\ i # k => ByteAt(g, i) = ByteAt(f, i)
  BY DEF AlikeBut
<1>3. e \in Nat /\ e <= Len(f) /\ e <= n
  BY <1>1
<1>4. /\ SafeSlice(f, m, n) = (IF m >= Len(f) THEN << >> ELSE Slice(f, m, e))
      /\ SafeSlice(g, m, n) = (IF m >= Len(f) THEN << >> ELSE Slice(g, m, e))
  BY <1>1 DEF SafeSlice
<1> HIDE DEF f, g, e
<1>5. \A i \in 0 .. e - m - 1 : ByteAt(g, m + i) = ByteAt(f, m + i)
  <2> SUFFICES ASSUME NEW i \in 0 .. e - m - 1 PROVE ByteAt(g, m + i) = ByteAt(f, m + i)
    OBVIOUS
  <2>1. m + i \in Nat /\ m + i < Len(f) /\ m + i # k
    BY <1>1, <1>3
  <2> QED
    BY <1>2, <2>1
<1>6. /\ Slice(f, m, e) \in Seq(Byte) /\ Slice(g, m, e) \in Seq(Byte)
      /\ Len(Slice(f, m, e)) = Len(Slice(g, m, e))
      /\ Len(Slice(f, m, e)) = (IF m <= e THEN e - m ELSE 0)
      /\ \A i \in 0 .. e - m - 1 : ByteAt(Slice(f, m, e), i) = ByteAt(Slice(g, m, e), i)
  <2>1. /\ Slice(f, m, e) \in Seq(Byte) /\ Len(Slice(f, m, e)) = (IF m <= e THEN e - m ELSE 0)
        /\ \A i \in 0 .. e - m - 1 : ByteAt(Slice(f, m, e), i) = ByteAt(f, m + i)
    BY <1>1, <1>3, SliceBytes, ZenonT(60)
  <2>2. /\ Slice(g, m, e) \in Seq(Byte) /\ Len(Slice(g, m, e)) = (IF m <= e THEN e - m ELSE 0)
        /\ \A i \in 0 .. e - m - 1 : ByteAt(Slice(g, m, e), i) = ByteAt(g, m + i)
    BY <1>1, <1>3, SliceBytes, ZenonT(60)
  <2> QED
    BY <1>5, <2>1, <2>2
<1>7. \A i \in 0 .. Len(Slice(f, m, e)) - 1 : ByteAt(Slice(f, m, e), i) = ByteAt(Slice(g, m, e), i)
  BY <1>3, <1>6
<1>8. Slice(f, m, e) = Slice(g, m, e)
  BY <1>6, <1>7, SameBytes
<1> QED
  BY <1>4, <1>8 DEF f, g

LEMMA ReadsInRange ==
    ASSUME NEW f \in Seq(Byte), NEW k \in Nat
    PROVE  Or(_u8(f, k), 0) \in Byte
<1>1. Len(f) \in Nat /\ (k < Len(f) => ByteAt(f, k) \in Byte)
  BY ElementOfSeq, LenProperties DEF ByteAt
<1>2. 0 \in Byte
  BY DEF Byte
<1> QED
  BY <1>1, <1>2 DEF _u8, Or

\* The byte at an offset, read as 0 where there is none: it stays or turns one bit over.
LEMMA ByteTurns ==
    ASSUME NEW r, NEW s, NEW k, NEW j, OneBit(r, s, k, j), NEW o \in Nat
    PROVE  LET v == Or(_u8(r.formatted, o), 0)
               w == Or(_u8(s.formatted, o), 0)
           IN  /\ v \in Byte /\ w \in Byte
               /\ w = v \/ (o = k /\ TurnedRight(v, w, j))
<1> DEFINE f == r.formatted
           g == s.formatted
<1>1. /\ Len(f) \in Nat /\ Len(g) = Len(f) /\ k \in Nat /\ k < Len(f) /\ AlikeBut(r, s, k)
      /\ f \in Seq(Byte) /\ g \in Seq(Byte) /\ TurnedRight(ByteAt(f, k), ByteAt(g, k), j)
  BY LengthOfArea DEF OneBit, AlikeBut
<1>2. Or(_u8(f, o), 0) \in Byte /\ Or(_u8(g, o), 0) \in Byte
  BY <1>1, ReadsInRange
<1>3. o # k => _u8(g, o) = _u8(f, o)
  BY <1>1, ReadElsewhere
<1>4. _u8(f, k) = ByteAt(f, k) /\ _u8(g, k) = ByteAt(g, k)
  BY <1>1 DEF _u8
<1>5. ByteAt(f, k) \in Byte /\ ByteAt(g, k) \in Byte
  BY <1>1, ElementOfSeq DEF ByteAt
<1>6. ByteAt(f, k) # None /\ ByteAt(g, k) # None
  BY <1>5, NoneIsNoNumber DEF Byte
<1>7. o # k => Or(_u8(g, o), 0) = Or(_u8(f, o), 0)
  BY <1>3
<1>8. Or(_u8(f, k), 0) = ByteAt(f, k) /\ Or(_u8(g, k), 0) = ByteAt(g, k)
  BY <1>4, <1>6 DEF Or
<1> QED
  BY <1>1, <1>2, <1>7, <1>8

(***************************************************************************)
(* The voltage of a processor.                                             *)
(***************************************************************************)

LEMMA VoltageByte ==
    ASSUME NEW r, r.type = 4
    PROVE  Decode(r).voltage_raw = Or(_u8(r.formatted, 13), 0)
<1>1. Decode(r) = parse_processor(r)
  BY DEF Decode
<1> DEFINE strings == [socket_designation |-> 0, manufacturer |-> 3, version |-> 12,
                       serial_number |-> 28, asset_tag |-> 29, part_number |-> 30]
           bytes == [type |-> 1, voltage_raw |-> 13, status |-> 20, upgrade |-> 21]
           front == Handle(r) ++ StringFields(r, strings) ++ ByteFields(r, bytes)
<1>2. "voltage_raw" \in DOMAIN front /\ front.voltage_raw = Or(_u8(r.formatted, 13), 0)
  BY DEF ++, Handle, StringFields, ByteFields
<1> HIDE DEF front
<1>3. \A s, o, q, t : \A x \in DOMAIN front : (front ++ s ++ o ++ q ++ t)[x] = front[x]
  BY DEF ++
<1>4. \A x \in DOMAIN front : parse_processor(r)[x] = front[x]
  BY <1>3 DEF parse_processor, front
<1> QED
  BY <1>1, <1>2, <1>4

\* FlagsNeverLowerVoltage, of one step.
LEMMA FlagRaisesVoltage ==
    ASSUME NEW r, NEW s, NEW k, NEW j, OneBit(r, s, k, j), r.type = 4,
           ~ Bit(Decode(r).voltage_raw, 7),
           NEW b \in 0 .. 2, ~ Bit(Decode(r).voltage_raw, b), Bit(Decode(s).voltage_raw, b)
    PROVE  \/ voltage_volts(Decode(r)) = None
           \/ voltage_volts(Decode(r)) <= voltage_volts(Decode(s))
<1> DEFINE v == Decode(r).voltage_raw
           w == Decode(s).voltage_raw
           is(n) == Bit(v, n)
           becomes(n) == Bit(w, n)
<1>1. v = Or(_u8(r.formatted, 13), 0) /\ w = Or(_u8(s.formatted, 13), 0)
  BY VoltageByte DEF OneBit, AlikeBut
<1>2. w = v \/ TurnedRight(v, w, j)
  BY <1>1, ByteTurns
<1>3. w # v
  OBVIOUS
<1>4. TurnedRight(v, w, j)
  BY <1>2, <1>3
<1>5. j \in 0 .. 7 /\ \A i \in 0 .. 7 : i # j => (becomes(i) <=> is(i))
  BY <1>4 DEF TurnedRight, OneBit
<1>6. /\ voltage_volts(Decode(r)) = IF is(7) THEN v % 128 ELSE IF is(0) THEN 50
                                    ELSE IF is(1) THEN 33 ELSE IF is(2) THEN 29 ELSE None
      /\ voltage_volts(Decode(s)) = IF becomes(7) THEN w % 128 ELSE IF becomes(0) THEN 50
                                    ELSE IF becomes(1) THEN 33 ELSE IF becomes(2) THEN 29 ELSE None
  BY DEF voltage_volts
<1>7. ~ is(7) /\ ~ is(b) /\ becomes(b)
  OBVIOUS
<1> HIDE DEF v, w, is, becomes
<1>8. j = b
  BY <1>5, <1>7
<1>9. ~ becomes(7) /\ \A i \in 0 .. 2 : i # b => (becomes(i) <=> is(i))
  BY <1>5, <1>7, <1>8
<1> DEFINE before == voltage_volts(Decode(r))
           after == voltage_volts(Decode(s))
<1> HIDE DEF before, after
<1>10. CASE b = 0
  <2>1. before \in {33, 29, None}
    BY <1>6, <1>7, <1>10 DEF before
  <2>2. after = 50
    BY <1>6, <1>7, <1>9, <1>10 DEF after
  <2> QED
    BY <2>1, <2>2 DEF before, after
<1>11. CASE b = 1
  <2>1. before = None \/ (before = 50 /\ is(0)) \/ before = 29
    BY <1>6, <1>7, <1>11 DEF before
  <2>2. after = IF becomes(0) THEN 50 ELSE 33
    BY <1>6, <1>7, <1>9, <1>11 DEF after
  <2>3. 0 \in 0 .. 2 /\ 0 # b
    BY <1>11
  <2>4. becomes(0) <=> is(0)
    BY <1>9, <2>3
  <2> QED
    BY <2>1, <2>2, <2>4 DEF before, after
<1>12. CASE b = 2
  <2>1. before = None \/ (before = 50 /\ is(0)) \/ (before = 33 /\ ~ is(0) /\ is(1))
    BY <1>6, <1>7, <1>12 DEF before
  <2>2. after = IF becomes(0) THEN 50 ELSE IF becomes(1) THEN 33 ELSE 29
    BY <1>6, <1>7, <1>9, <1>12 DEF after
  <2>3. 0 \in 0 .. 2 /\ 0 # b /\ 1 \in 0 .. 2 /\ 1 # b
    BY <1>12
  <2>4. (becomes(0) <=> is(0)) /\ (becomes(1) <=> is(1))
    BY <1>9, <2>3
  <2>5. (before = 50 /\ after = 50) \/ (before = 33 /\ after = 33) \/ before = None
    BY <2>1, <2>2, <2>4
  <2> QED
    BY <2>5 DEF before, after
<1> QED
  BY <1>10, <1>11, <1>12

\* Of the voltages a processor flags, the highest is reported: one flag more never
\* lowers what voltage_volts answers (models.py, lines 134-151).
THEOREM FlagsRaiseVoltage == Spec => FlagsNeverLowerVoltage
<1> DEFINE old == Decode(raw)
           new == Decode(raw')
           Gained(b) == ~ Bit(old.voltage_raw, b) /\ Bit(new.voltage_raw, b)
           Fine == (raw.type = 4 /\ ~ Bit(old.voltage_raw, 7) /\ \E b \in 0 .. 2 : Gained(b)) =>
                        voltage_volts(old) = None \/ voltage_volts(old) <= voltage_volts(new)
<1>1. RawOK /\ [Next]_vars => [Fine]_vars
  <2> SUFFICES ASSUME RawOK, [Next]_vars,
                      raw.type = 4, ~ Bit(old.voltage_raw, 7), NEW b \in 0 .. 2, Gained(b)
               PROVE  voltage_volts(old) = None \/ voltage_volts(old) <= voltage_volts(new)
    OBVIOUS
  <2>1. raw' = raw \/ \E k, j : OneBit(raw, raw', k, j)
    BY OneBitAtATime
  <2>2. raw' # raw
    OBVIOUS
  <2>3. PICK k, j : OneBit(raw, raw', k, j)
    BY <2>1, <2>2
  <2>4. ~ Bit(Decode(raw).voltage_raw, b) /\ Bit(Decode(raw').voltage_raw, b)
    OBVIOUS
  <2> QED
    BY <2>3, <2>4, FlagRaisesVoltage
<1> QED
  BY <1>1, AlwaysRawOK, PTL DEF Spec, FlagsNeverLowerVoltage

(***************************************************************************)
(* One bit, one field.                                                     *)
(***************************************************************************)

\* Two records of the same fields that agree outside X.
AgreeBut(d, e, X) == DOMAIN d = DOMAIN e /\ \A x \in DOMAIN d : x \in X \/ d[x] = e[x]

LEMMA AgreeUnion ==
    ASSUME NEW X, NEW c, NEW d, NEW e, NEW f, AgreeBut(c, d, X), AgreeBut(e, f, X)
    PROVE  AgreeBut(c ++ e, d ++ f, X)
BY DEF AgreeBut, ++

\* Of the fields of n bytes at these offsets, only those in X contain byte k.
Outside(at, n, k, X) ==
    \A x \in DOMAIN at : at[x] \in Nat /\ (k \in at[x] .. at[x] + n - 1 => x \in X)

LEMMA AgreeHandle ==
    ASSUME NEW r, NEW s, NEW k, AlikeBut(r, s, k), NEW X
    PROVE  AgreeBut(Handle(r), Handle(s), X)
BY DEF AgreeBut, Handle, AlikeBut

LEMMA AgreeBytes ==
    ASSUME NEW r, NEW s, NEW k, AlikeBut(r, s, k), NEW at, NEW X, Outside(at, 1, k, X), NEW z
    PROVE  /\ AgreeBut(StringFields(r, at), StringFields(s, at), X)
           /\ AgreeBut(ByteFields(r, at), ByteFields(s, at), X)
           /\ AgreeBut(OptionalBytes(r, at, z), OptionalBytes(s, at, z), X)
<1>1. k \in Nat /\ s.strings = r.strings
  BY DEF AlikeBut
<1>2. \A x \in DOMAIN at : x \in X \/ _u8(s.formatted, at[x]) = _u8(r.formatted, at[x])
  <2> SUFFICES ASSUME NEW x \in DOMAIN at, x \notin X
               PROVE  _u8(s.formatted, at[x]) = _u8(r.formatted, at[x])
    OBVIOUS
  <2>1. at[x] \in Nat /\ at[x] # k
    BY <1>1 DEF Outside
  <2> QED
    BY <2>1, ReadElsewhere
<1> QED
  BY <1>1, <1>2 DEF AgreeBut, StringFields, ByteFields, OptionalBytes

LEMMA AgreeWords ==
    ASSUME NEW r, NEW s, NEW k, AlikeBut(r, s, k), NEW at, NEW X, Outside(at, 2, k, X), NEW z
    PROVE  /\ AgreeBut(WordFields(r, at), WordFields(s, at), X)
           /\ AgreeBut(OptionalWords(r, at, z), OptionalWords(s, at, z), X)
<1>1. \A x \in DOMAIN at : x \in X \/ _u16(s.formatted, at[x]) = _u16(r.formatted, at[x])
  <2> SUFFICES ASSUME NEW x \in DOMAIN at, x \notin X
               PROVE  _u16(s.formatted, at[x]) = _u16(r.formatted, at[x])
    OBVIOUS
  <2>1. at[x] \in Nat /\ k \notin at[x] .. at[x] + 1
    BY DEF Outside
  <2> QED
    BY <2>1, ReadElsewhere
<1> QED
  BY <1>1 DEF AgreeBut, WordFields, OptionalWords

\* One field of the structure changes at most, and those that show it once more.
OneField(d, e) == \E owner : AgreeBut(d, e, {owner} \cup Overlapping)

LEMMA SystemSlotBit ==
    ASSUME NEW r, NEW s, NEW k, AlikeBut(r, s, k)
    PROVE  OneField(parse_system_slot(r), parse_system_slot(s))
<1> DEFINE owner == CASE k = 0 -> "designation" [] k = 1 -> "type" [] k = 2 -> "bus_width"
                      [] k = 3 -> "current_usage" [] k = 4 -> "length"
                      [] k \in 5 .. 6 -> "slot_id" [] k = 7 -> "characteristics_1"
                      [] k = 8 -> "characteristics_2" [] k \in 9 .. 10 -> "segment_group"
                      [] k = 11 -> "bus_number" [] OTHER -> "device_function"
           strings == [designation |-> 0]
           bytes == [type |-> 1, bus_width |-> 2, current_usage |-> 3, length |-> 4,
                     characteristics_1 |-> 7, characteristics_2 |-> 8]
           words == [slot_id |-> 5]
           optional_words == [segment_group |-> 9]
           optional_bytes == [bus_number |-> 11, device_function |-> 12]
           X == {owner} \cup Overlapping
           d(t) == parse_system_slot(t)
<1>1. k \in Nat
  BY DEF AlikeBut
<1>2. /\ Outside(strings, 1, k, X) /\ Outside(bytes, 1, k, X) /\ Outside(words, 2, k, X)
      /\ Outside(optional_words, 2, k, X) /\ Outside(optional_bytes, 1, k, X)
  BY <1>1 DEF Outside
<1>3. \A t : d(t) = Handle(t) ++ StringFields(t, strings) ++ ByteFields(t, bytes)
                     ++ WordFields(t, words) ++ OptionalWords(t, optional_words, None)
                     ++ OptionalBytes(t, optional_bytes, None)
  BY DEF parse_system_slot
<1> HIDE DEF owner, X, strings, bytes, words, optional_words, optional_bytes, d
<1>4. AgreeBut(d(r), d(s), X)
  BY <1>2, <1>3, AgreeUnion, AgreeHandle, AgreeBytes, AgreeWords
<1> QED
  BY <1>4 DEF OneField, d, X

LEMMA BaseboardBit ==
    ASSUME NEW r, NEW s, NEW k, AlikeBut(r, s, k)
    PROVE  OneField(parse_baseboard(r), parse_baseboard(s))
<1> DEFINE owner == CASE k = 0 -> "manufacturer" [] k = 1 -> "product" [] k = 2 -> "version"
                      [] k = 3 -> "serial_number" [] k = 4 -> "asset_tag"
                      [] k = 5 -> "feature_flags" [] k = 6 -> "location_in_chassis"
                      [] k \in 7 .. 8 -> "chassis_handle" [] OTHER -> "board_type"
           strings == [manufacturer |-> 0, product |-> 1, version |-> 2,
                       serial_number |-> 3, asset_tag |-> 4, location_in_chassis |-> 6]
           bytes == [feature_flags |-> 5, board_type |-> 9]
           words == [chassis_handle |-> 7]
           X == {owner} \cup Overlapping
           d(t) == parse_baseboard(t)
<1>1. k \in Nat
  BY DEF AlikeBut
<1>2. Outside(strings, 1, k, X) /\ Outside(bytes, 1, k, X) /\ Outside(words, 2, k, X)
  BY <1>1 DEF Outside
<1>3. \A t : d(t) = Handle(t) ++ StringFields(t, strings) ++ ByteFields(t, bytes)
                     ++ WordFields(t, words)
  BY DEF parse_baseboard
<1> HIDE DEF owner, X, strings, bytes, words, d
<1>4. AgreeBut(d(r), d(s), X)
  BY <1>2, <1>3, AgreeUnion, AgreeHandle, AgreeBytes, AgreeWords
<1> QED
  BY <1>4 DEF OneField, d, X

LEMMA SystemBit ==
    ASSUME NEW r, NEW s, NEW k, AlikeBut(r, s, k)
    PROVE  OneField(parse_system(r), parse_system(s))
<1> DEFINE owner == CASE k = 0 -> "manufacturer" [] k = 1 -> "product_name" [] k = 2 -> "version"
                      [] k = 3 -> "serial_number" [] k \in 4 .. 19 -> "uuid"
                      [] k = 20 -> "wake_up_type" [] k = 21 -> "sku_number"
                      [] OTHER -> "family"
           strings == [manufacturer |-> 0, product_name |-> 1, version |-> 2,
                       serial_number |-> 3, sku_number |-> 21, family |-> 22]
           bytes == [wake_up_type |-> 20]
           uuid(t) == IF Len(t.formatted) >= 20
                      THEN _parse_uuid(SafeSlice(t.formatted, 4, 20)) ELSE None
           rest(t) == [uuid |-> uuid(t)]
           X == {owner} \cup Overlapping
           d(t) == parse_system(t)
<1>1. k \in Nat
  BY DEF AlikeBut
<1>2. Outside(strings, 1, k, X) /\ Outside(bytes, 1, k, X)
  BY <1>1 DEF Outside
<1>3. \A t : d(t) = Handle(t) ++ StringFields(t, strings) ++ ByteFields(t, bytes) ++ rest(t)
  BY DEF parse_system
<1>4. AgreeBut(rest(r), rest(s), X)
  <2>1. CASE k \in 4 .. 19
    <3>1. "uuid" \in X
      BY <2>1
    <3> QED
      BY <3>1 DEF AgreeBut
  <2>2. CASE k \notin 4 .. 19
    <3>1. SafeSlice(s.formatted, 4, 20) = SafeSlice(r.formatted, 4, 20)
      BY <2>2, SliceElsewhere
    <3>2. uuid(s) = uuid(r)
      BY <3>1 DEF AlikeBut
    <3> HIDE DEF uuid
    <3> QED
      BY <3>2 DEF AgreeBut
  <2> QED
    BY <2>1, <2>2
<1> HIDE DEF owner, X, strings, bytes, rest, d
<1>5. AgreeBut(d(r), d(s), X)
  BY <1>2, <1>3, <1>4, AgreeUnion, AgreeHandle, AgreeBytes
<1> QED
  BY <1>5 DEF OneField, d, X

LEMMA MemoryArrayBit ==
    ASSUME NEW r, NEW s, NEW k, AlikeBut(r, s, k)
    PROVE  OneField(parse_memory_array(r), parse_memory_array(s))
<1> DEFINE owner == CASE k = 0 -> "location" [] k = 1 -> "use" [] k = 2 -> "error_correction"
                      [] k \in 7 .. 8 -> "error_info_handle" [] k \in 9 .. 10 -> "device_count"
                      [] OTHER -> "max_capacity_bytes"
           bytes == [location |-> 0, use |-> 1, error_correction |-> 2]
           words == [error_info_handle |-> 7, device_count |-> 9]
           kb(t) == _u32(t.formatted, 3)
           extended(t) == _u64(t.formatted, 11)
           capacity(t) == IF kb(t) # None /\ kb(t) # << 0, 32768 >> THEN Size(kb(t), "KB")
                          ELSE IF extended(t) # None /\ extended(t) # Zero(4)
                               THEN Size(extended(t), "B")
                          ELSE None
           rest(t) == [max_capacity_bytes |-> capacity(t)]
           X == {owner} \cup Overlapping
           d(t) == parse_memory_array(t)
<1>1. k \in Nat
  BY DEF AlikeBut
<1>2. Outside(bytes, 1, k, X) /\ Outside(words, 2, k, X)
  BY <1>1 DEF Outside
<1>3. \A t : d(t) = Handle(t) ++ ByteFields(t, bytes) ++ WordFields(t, words) ++ rest(t)
  BY DEF parse_memory_array
<1>4. AgreeBut(rest(r), rest(s), X)
  <2>1. CASE k \in 3 .. 6 \/ k \in 11 .. 18
    <3>1. "max_capacity_bytes" \in X
      BY <2>1
    <3> QED
      BY <3>1 DEF AgreeBut
  <2>2. CASE k \notin 3 .. 6 /\ k \notin 11 .. 18
    <3>1. kb(s) = kb(r) /\ extended(s) = extended(r)
      BY <2>2, ReadElsewhere
    <3> HIDE DEF kb, extended
    <3>2. capacity(s) = capacity(r)
      BY <3>1
    <3> HIDE DEF capacity
    <3> QED
      BY <3>2 DEF AgreeBut
  <2> QED
    BY <2>1, <2>2
<1> HIDE DEF owner, X, bytes, words, rest, d
<1>5. AgreeBut(d(r), d(s), X)
  BY <1>2, <1>3, <1>4, AgreeUnion, AgreeHandle, AgreeBytes, AgreeWords
<1> QED
  BY <1>5 DEF OneField, d, X

LEMMA CacheBit ==
    ASSUME NEW r, NEW s, NEW k, AlikeBut(r, s, k)
    PROVE  OneField(parse_cache(r), parse_cache(s))
<1> DEFINE owner == CASE k = 0 -> "socket_designation" [] k \in 1 .. 2 -> "configuration"
                      [] k \in 3 .. 4 -> "max_size_bytes" [] k \in 5 .. 6 -> "installed_size_bytes"
                      [] k \in 7 .. 8 -> "supported_sram_types"
                      [] k \in 9 .. 10 -> "current_sram_type" [] k = 11 -> "speed_nanoseconds"
                      [] k = 12 -> "error_correction" [] k = 13 -> "system_cache_type"
                      [] k = 14 -> "associativity" [] k \in 15 .. 18 -> "max_size_bytes"
                      [] OTHER -> "installed_size_bytes"
           strings == [socket_designation |-> 0]
           bytes == [error_correction |-> 12, system_cache_type |-> 13, associativity |-> 14]
           words == [configuration |-> 1, supported_sram_types |-> 7, current_sram_type |-> 9]
           optional_bytes == [speed_nanoseconds |-> 11]
           size(t, a, b) == _decode_cache_size(_u16(t.formatted, a), _u32(t.formatted, b))
           rest(t) == [max_size_bytes |-> size(t, 3, 15), installed_size_bytes |-> size(t, 5, 19)]
           X == {owner} \cup Overlapping
           d(t) == parse_cache(t)
<1>1. k \in Nat
  BY DEF AlikeBut
<1>2. /\ Outside(strings, 1, k, X) /\ Outside(bytes, 1, k, X) /\ Outside(words, 2, k, X)
      /\ Outside(optional_bytes, 1, k, X)
  BY <1>1 DEF Outside
<1>3. \A t : d(t) = Handle(t) ++ StringFields(t, strings) ++ ByteFields(t, bytes)
                     ++ WordFields(t, words) ++ OptionalBytes(t, optional_bytes, 0) ++ rest(t)
  BY DEF parse_cache
<1>4. AgreeBut(rest(r), rest(s), X)
  <2>1. "max_size_bytes" \in X \/ (k \notin 3 .. 4 /\ k \notin 15 .. 18)
    BY <1>1
  <2>2. "installed_size_bytes" \in X \/ (k \notin 5 .. 6 /\ k \notin 19 .. 22)
    BY <1>1
  <2> HIDE DEF X
  <2>3. "max_size_bytes" \in X \/ size(s, 3, 15) = size(r, 3, 15)
    BY <2>1, ReadElsewhere
  <2>4. "installed_size_bytes" \in X \/ size(s, 5, 19) = size(r, 5, 19)
    BY <2>2, ReadElsewhere
  <2> HIDE DEF size
  <2> QED
    BY <2>3, <2>4 DEF AgreeBut
<1> HIDE DEF owner, X, strings, bytes, words, optional_bytes, rest, d
<1>5. AgreeBut(d(r), d(s), X)
  BY <1>2, <1>3, <1>4, AgreeUnion, AgreeHandle, AgreeBytes, AgreeWords
<1> QED
  BY <1>5 DEF OneField, d, X

LEMMA TPMBit ==
    ASSUME NEW r, NEW s, NEW k, AlikeBut(r, s, k)
    PROVE  OneField(parse_tpm_device(r), parse_tpm_device(s))
<1> DEFINE owner == CASE k \in 0 .. 3 -> "vendor_id" [] k = 4 -> "spec_major"
                      [] k = 5 -> "spec_minor" [] k \in 6 .. 9 -> "firmware_version_1"
                      [] k \in 10 .. 13 -> "firmware_version_2" [] k = 14 -> "description"
                      [] OTHER -> "characteristics"
           strings == [description |-> 14]
           bytes == [spec_major |-> 4, spec_minor |-> 5]
           vendor(t) == IF Len(t.formatted) >= 4
                        THEN _rstrip_nul(SafeSlice(t.formatted, 0, 4)) ELSE << >>
           first(t) == Or(_u32(t.formatted, 6), Zero(2))
           second(t) == Or(_u32(t.formatted, 10), Zero(2))
           flags(t) == Or(_u64(t.formatted, 15), Zero(4))
           rest(t) == [vendor_id |-> vendor(t), firmware_version_1 |-> first(t),
                       firmware_version_2 |-> second(t), characteristics |-> flags(t)]
           X == {owner} \cup Overlapping
           d(t) == parse_tpm_device(t)
<1>1. k \in Nat
  BY DEF AlikeBut
<1>2. Outside(strings, 1, k, X) /\ Outside(bytes, 1, k, X)
  BY <1>1 DEF Outside
<1>3. \A t : d(t) = Handle(t) ++ StringFields(t, strings) ++ ByteFields(t, bytes) ++ rest(t)
  BY DEF parse_tpm_device
<1>4. AgreeBut(rest(r), rest(s), X)
  <2>1. /\ "vendor_id" \in X \/ k \notin 0 .. 3
        /\ "firmware_version_1" \in X \/ k \notin 6 .. 9
        /\ "firmware_version_2" \in X \/ k \notin 10 .. 13
        /\ "characteristics" \in X \/ k \notin 15 .. 22
    BY <1>1
  <2> HIDE DEF X
  <2>2. k \notin 0 .. 3 => vendor(s) = vendor(r)
    <3>1. k \notin 0 .. 3 => SafeSlice(s.formatted, 0, 4) = SafeSlice(r.formatted, 0, 4)
      BY SliceElsewhere
    <3> QED
      BY <3>1 DEF AlikeBut
  <2>3. /\ k \notin 6 .. 9 => first(s) = first(r)
        /\ k \notin 10 .. 13 => second(s) = second(r)
        /\ k \notin 15 .. 22 => flags(s) = flags(r)
    BY ReadElsewhere
  <2> HIDE DEF vendor, first, second, flags
  <2> QED
    BY <2>1, <2>2, <2>3 DEF AgreeBut
<1> HIDE DEF owner, X, strings, bytes, rest, d
<1>5. AgreeBut(d(r), d(s), X)
  BY <1>2, <1>3, <1>4, AgreeUnion, AgreeHandle, AgreeBytes
<1> QED
  BY <1>5 DEF OneField, d, X

LEMMA BIOSBit ==
    ASSUME NEW r, NEW s, NEW k, AlikeBut(r, s, k)
    PROVE  OneField(parse_bios(r), parse_bios(s))
<1> DEFINE owner == CASE k = 0 -> "vendor" [] k = 1 -> "version" [] k = 4 -> "release_date_raw"
                      [] k \in 6 .. 13 -> "characteristics" [] k = 16 -> "bios_major"
                      [] k = 17 -> "bios_minor" [] k = 18 -> "ec_major" [] k = 19 -> "ec_minor"
                      [] OTHER -> "rom_size_bytes"
           strings == [vendor |-> 0, version |-> 1]
           optional_bytes == [bios_major |-> 16, bios_minor |-> 17,
                              ec_major |-> 18, ec_minor |-> 19]
           date_raw(t) == _str(t.strings, Or(_u8(t.formatted, 4), 0))
           rom_size(t) == _rom_size(_u8(t.formatted, 5), _u16(t.formatted, 20))
           flags(t) == Or(_u64(t.formatted, 6), Zero(4))
           extension(t) == SafeSlice(t.formatted, 14, Len(t.formatted))
           date(t) == _parse_bios_release_date(date_raw(t))
           rest(t) == [release_date_raw |-> date_raw(t), release_date |-> date(t),
                       rom_size_bytes |-> rom_size(t), characteristics |-> flags(t),
                       characteristics_extension |-> extension(t)]
           X == {owner} \cup Overlapping
           d(t) == parse_bios(t)
<1>1. k \in Nat /\ s.strings = r.strings
  BY DEF AlikeBut
<1>2. Outside(strings, 1, k, X) /\ Outside(optional_bytes, 1, k, X)
  BY <1>1 DEF Outside
<1>3. \A t : d(t) = Handle(t) ++ StringFields(t, strings)
                     ++ OptionalBytes(t, optional_bytes, None) ++ rest(t)
  BY DEF parse_bios
<1>4. AgreeBut(rest(r), rest(s), X)
  <2>1. /\ "release_date_raw" \in X \/ 4 # k
        /\ "rom_size_bytes" \in X \/ (5 # k /\ k \notin 20 .. 21)
        /\ "characteristics" \in X \/ k \notin 6 .. 13
        /\ "release_date" \in X /\ "characteristics_extension" \in X
    BY <1>1 DEF Overlapping
  <2> HIDE DEF X
  <2>2. /\ 4 # k => date_raw(s) = date_raw(r)
        /\ 5 # k /\ k \notin 20 .. 21 => rom_size(s) = rom_size(r)
        /\ k \notin 6 .. 13 => flags(s) = flags(r)
    BY <1>1, ReadElsewhere
  <2> HIDE DEF date_raw, date, rom_size, flags, extension
  <2> QED
    BY <2>1, <2>2 DEF AgreeBut
<1> HIDE DEF owner, X, strings, optional_bytes, rest, d
<1>5. AgreeBut(d(r), d(s), X)
  BY <1>2, <1>3, <1>4, AgreeUnion, AgreeHandle, AgreeBytes
<1> QED
  BY <1>5 DEF OneField, d, X

LEMMA ProcessorBit ==
    ASSUME NEW r, NEW s, NEW k, AlikeBut(r, s, k)
    PROVE  OneField(parse_processor(r), parse_processor(s))
<1> DEFINE owner == CASE k = 0 -> "socket_designation" [] k = 1 -> "type" [] k = 2 -> "family"
                      [] k = 3 -> "manufacturer" [] k \in 4 .. 11 -> "processor_id"
                      [] k = 12 -> "version" [] k = 13 -> "voltage_raw"
                      [] k \in 14 .. 15 -> "external_clock_mhz"
                      [] k \in 16 .. 17 -> "max_speed_mhz"
                      [] k \in 18 .. 19 -> "current_speed_mhz"
                      [] k = 20 -> "status" [] k = 21 -> "upgrade"
                      [] k \in 22 .. 23 -> "l1_cache_handle"
                      [] k \in 24 .. 25 -> "l2_cache_handle"
                      [] k \in 26 .. 27 -> "l3_cache_handle"
                      [] k = 28 -> "serial_number" [] k = 29 -> "asset_tag"
                      [] k = 30 -> "part_number" [] k = 31 -> "core_count"
                      [] k = 32 -> "cores_enabled" [] k = 33 -> "thread_count"
                      [] k \in 34 .. 35 -> "characteristics" [] k \in 36 .. 37 -> "family"
                      [] k \in 38 .. 39 -> "core_count" [] k \in 40 .. 41 -> "cores_enabled"
                      [] k \in 42 .. 43 -> "thread_count" [] OTHER -> "threads_enabled"
           strings == [socket_designation |-> 0, manufacturer |-> 3, version |-> 12,
                       serial_number |-> 28, asset_tag |-> 29, part_number |-> 30]
           bytes == [type |-> 1, voltage_raw |-> 13, status |-> 20, upgrade |-> 21]
           words == [characteristics |-> 34]
           speeds == [external_clock_mhz |-> 14, max_speed_mhz |-> 16,
                      current_speed_mhz |-> 18, threads_enabled |-> 44]
           handles == [l1_cache_handle |-> 22, l2_cache_handle |-> 24, l3_cache_handle |-> 26]
           family_8(t) == Or(_u8(t.formatted, 2), 0)
           family_16(t) == _u16(t.formatted, 36)
           family(t) == IF family_8(t) = 254 /\ family_16(t) # None
                        THEN family_16(t) ELSE family_8(t)
           id(t) == IF Len(t.formatted) >= 12 THEN SafeSlice(t.formatted, 4, 12) ELSE << >>
           count(t, a, b) == _resolve(_u8(t.formatted, a), _u16(t.formatted, b))
           rest(t) == [family |-> family(t), processor_id |-> id(t),
                       core_count |-> count(t, 31, 38), cores_enabled |-> count(t, 32, 40),
                       thread_count |-> count(t, 33, 42)]
           X == {owner} \cup Overlapping
           d(t) == parse_processor(t)
<1>1. k \in Nat
  BY DEF AlikeBut
<1>2. /\ Outside(strings, 1, k, X) /\ Outside(bytes, 1, k, X) /\ Outside(words, 2, k, X)
      /\ Outside(speeds, 2, k, X) /\ Outside(handles, 2, k, X)
  <2>1. Outside(strings, 1, k, X)
    BY <1>1 DEF Outside
  <2>2. Outside(bytes, 1, k, X)
    BY <1>1 DEF Outside
  <2>3. Outside(words, 2, k, X)
    BY <1>1 DEF Outside
  <2>4. Outside(speeds, 2, k, X)
    BY <1>1 DEF Outside
  <2>5. Outside(handles, 2, k, X)
    BY <1>1 DEF Outside
  <2> QED
    BY <2>1, <2>2, <2>3, <2>4, <2>5
<1>3. \A t : d(t) = Handle(t) ++ StringFields(t, strings) ++ ByteFields(t, bytes)
                     ++ WordFields(t, words) ++ OptionalWords(t, speeds, 0)
                     ++ OptionalWords(t, handles, MaxWord) ++ rest(t)
  BY DEF parse_processor
<1>4. AgreeBut(rest(r), rest(s), X)
  <2>1. "family" \in X \/ (2 # k /\ k \notin 36 .. 37)
    BY <1>1
  <2>2. "processor_id" \in X \/ k \notin 4 .. 11
    BY <1>1
  <2>3. "core_count" \in X \/ (31 # k /\ k \notin 38 .. 39)
    BY <1>1
  <2>4. "cores_enabled" \in X \/ (32 # k /\ k \notin 40 .. 41)
    BY <1>1
  <2>5. "thread_count" \in X \/ (33 # k /\ k \notin 42 .. 43)
    BY <1>1
  <2> HIDE DEF X
  <2>6. /\ 2 # k => family_8(s) = family_8(r)
        /\ k \notin 36 .. 37 => family_16(s) = family_16(r)
    BY ReadElsewhere
  <2>7. 2 # k /\ k \notin 36 .. 37 => family(s) = family(r)
    <3> HIDE DEF family_8, family_16
    <3> QED
      BY <2>6
  <2>8. k \notin 4 .. 11 => id(s) = id(r)
    <3>1. k \notin 4 .. 11 => SafeSlice(s.formatted, 4, 12) = SafeSlice(r.formatted, 4, 12)
      BY SliceElsewhere
    <3> QED
      BY <3>1 DEF AlikeBut
  <2>9. /\ 31 # k /\ k \notin 38 .. 39 => count(s, 31, 38) = count(r, 31, 38)
        /\ 32 # k /\ k \notin 40 .. 41 => count(s, 32, 40) = count(r, 32, 40)
        /\ 33 # k /\ k \notin 42 .. 43 => count(s, 33, 42) = count(r, 33, 42)
    BY ReadElsewhere
  <2> HIDE DEF family, id, count
  <2> QED
    BY <2>1, <2>2, <2>3, <2>4, <2>5, <2>7, <2>8, <2>9 DEF AgreeBut
<1> HIDE DEF owner, X, strings, bytes, words, speeds, handles, rest, d
<1>5. AgreeBut(d(r), d(s), X)
  BY <1>2, <1>3, <1>4, AgreeUnion, AgreeHandle, AgreeBytes, AgreeWords
<1> QED
  BY <1>5 DEF OneField, d, X

LEMMA MemoryDeviceBit ==
    ASSUME NEW r, NEW s, NEW k, AlikeBut(r, s, k)
    PROVE  OneField(parse_memory_device(r), parse_memory_device(s))
<1> DEFINE owner == CASE k \in 0 .. 1 -> "array_handle" [] k \in 2 .. 3 -> "error_info_handle"
                      [] k \in 4 .. 5 -> "total_width_bits" [] k \in 6 .. 7 -> "data_width_bits"
                      [] k \in 8 .. 9 -> "size_bytes" [] k = 10 -> "form_factor"
                      [] k = 11 -> "device_set" [] k = 12 -> "locator" [] k = 13 -> "bank_locator"
                      [] k = 14 -> "type" [] k \in 15 .. 16 -> "type_detail"
                      [] k \in 17 .. 18 -> "speed_mts" [] k = 19 -> "manufacturer"
                      [] k = 20 -> "serial_number" [] k = 21 -> "asset_tag"
                      [] k = 22 -> "part_number" [] k = 23 -> "rank"
                      [] k \in 24 .. 27 -> "size_bytes"
                      [] k \in 28 .. 29 -> "configured_speed_mts"
                      [] k \in 30 .. 31 -> "min_voltage_mv" [] k \in 32 .. 33 -> "max_voltage_mv"
                      [] k \in 34 .. 35 -> "configured_voltage_mv"
                      [] k = 36 -> "memory_technology"
                      [] k \in 37 .. 38 -> "operating_mode_capability"
                      [] k = 39 -> "module_firmware_version"
                      [] k \in 40 .. 41 -> "module_manufacturer_id"
                      [] k \in 42 .. 43 -> "module_product_id"
                      [] k \in 44 .. 45 -> "subsystem_controller_manufacturer_id"
                      [] k \in 46 .. 47 -> "subsystem_controller_product_id"
                      [] k \in 48 .. 55 -> "non_volatile_size_bytes"
                      [] k \in 56 .. 63 -> "volatile_size_bytes"
                      [] k \in 64 .. 71 -> "cache_size_bytes"
                      [] k \in 72 .. 79 -> "logical_size_bytes"
                      [] k \in 80 .. 83 -> "extended_speed_mts"
                      [] OTHER -> "extended_configured_speed_mts"
           bytes == [form_factor |-> 10, device_set |-> 11, type |-> 14,
                     memory_technology |-> 36]
           words == [array_handle |-> 0, error_info_handle |-> 2, type_detail |-> 15,
                     operating_mode_capability |-> 37, module_manufacturer_id |-> 40,
                     module_product_id |-> 42,
                     subsystem_controller_manufacturer_id |-> 44,
                     subsystem_controller_product_id |-> 46]
           strings == [locator |-> 12, bank_locator |-> 13, manufacturer |-> 19,
                       serial_number |-> 20, asset_tag |-> 21, part_number |-> 22,
                       module_firmware_version |-> 39]
           widths == [total_width_bits |-> 4, data_width_bits |-> 6]
           speeds == [speed_mts |-> 17, configured_speed_mts |-> 28,
                      min_voltage_mv |-> 30, max_voltage_mv |-> 32,
                      configured_voltage_mv |-> 34]
           rank_byte(t) == _u8(t.formatted, 23)
           rank(t) == IF rank_byte(t) = None THEN None ELSE Unless(rank_byte(t) % 16, 0)
           device_size(t) == _decode_memory_size(_u16(t.formatted, 8), _u32(t.formatted, 24))
           size(t, o) == _decode_extended_size(_u64(t.formatted, o))
           speed(t, o) == _extended_speed(_u32(t.formatted, o))
           rest(t) == [size_bytes |-> device_size(t), rank |-> rank(t),
                       non_volatile_size_bytes |-> size(t, 48),
                       volatile_size_bytes |-> size(t, 56), cache_size_bytes |-> size(t, 64),
                       logical_size_bytes |-> size(t, 72), extended_speed_mts |-> speed(t, 80),
                       extended_configured_speed_mts |-> speed(t, 84)]
           X == {owner} \cup Overlapping
           d(t) == parse_memory_device(t)
<1>1. k \in Nat
  BY DEF AlikeBut
<1>2. Outside(bytes, 1, k, X)
  BY <1>1 DEF Outside
<1>3. Outside(words, 2, k, X)
  BY <1>1 DEF Outside
<1>4. Outside(strings, 1, k, X)
  BY <1>1 DEF Outside
<1>5. Outside(widths, 2, k, X)
  BY <1>1 DEF Outside
<1>6. Outside(speeds, 2, k, X)
  BY <1>1 DEF Outside
<1>7. \A t : d(t) = Handle(t) ++ ByteFields(t, bytes) ++ WordFields(t, words)
                     ++ StringFields(t, strings) ++ OptionalWords(t, widths, MaxWord)
                     ++ OptionalWords(t, speeds, 0) ++ rest(t)
  BY DEF parse_memory_device
<1>8. AgreeBut(rest(r), rest(s), X)
  <2>1. "size_bytes" \in X \/ (k \notin 8 .. 9 /\ k \notin 24 .. 27)
    BY <1>1
  <2>2. "rank" \in X \/ 23 # k
    BY <1>1
  <2>3. "non_volatile_size_bytes" \in X \/ k \notin 48 .. 55
    BY <1>1
  <2>4. "volatile_size_bytes" \in X \/ k \notin 56 .. 63
    BY <1>1
  <2>5. "cache_size_bytes" \in X \/ k \notin 64 .. 71
    BY <1>1
  <2>6. "logical_size_bytes" \in X \/ k \notin 72 .. 79
    BY <1>1
  <2>7. "extended_speed_mts" \in X \/ k \notin 80 .. 83
    BY <1>1
  <2>8. "extended_configured_speed_mts" \in X \/ k \notin 84 .. 87
    BY <1>1
  <2> HIDE DEF X
  <2>9. k \notin 8 .. 9 /\ k \notin 24 .. 27 => device_size(s) = device_size(r)
    BY ReadElsewhere
  <2>10. 23 # k => rank(s) = rank(r)
    <3>1. 23 # k => rank_byte(s) = rank_byte(r)
      BY ReadElsewhere
    <3> HIDE DEF rank_byte
    <3> QED
      BY <3>1
  <2>11. /\ k \notin 48 .. 55 => size(s, 48) = size(r, 48)
         /\ k \notin 56 .. 63 => size(s, 56) = size(r, 56)
         /\ k \notin 64 .. 71 => size(s, 64) = size(r, 64)
         /\ k \notin 72 .. 79 => size(s, 72) = size(r, 72)
    BY ReadElsewhere
  <2>12. /\ k \notin 80 .. 83 => speed(s, 80) = speed(r, 80)
         /\ k \notin 84 .. 87 => speed(s, 84) = speed(r, 84)
    BY ReadElsewhere
  <2> HIDE DEF device_size, rank, size, speed
  <2> QED
    BY <2>1, <2>2, <2>3, <2>4, <2>5, <2>6, <2>7, <2>8, <2>9, <2>10, <2>11, <2>12 DEF AgreeBut
<1> HIDE DEF owner, X, strings, bytes, words, widths, speeds, rest, d
<1>9. AgreeBut(d(r), d(s), X)
  BY <1>2, <1>3, <1>4, <1>5, <1>6, <1>7, <1>8, AgreeUnion, AgreeHandle, AgreeBytes, AgreeWords
<1> QED
  BY <1>9 DEF OneField, d, X

LEMMA IPMIBit ==
    ASSUME NEW r, NEW s, NEW k, NEW j, OneBit(r, s, k, j)
    PROVE  OneField(parse_ipmi_device(r), parse_ipmi_device(s))
<1> DEFINE owner == CASE k = 0 -> "interface_type"
                      [] k = 1 -> IF j < 4 THEN "spec_version_minor" ELSE "spec_version_major"
                      [] k = 2 -> "i2c_slave_address" [] k = 3 -> "nv_storage_address"
                      [] k \in 4 .. 11 -> "base_address" [] k = 12 -> "base_address_modifier"
                      [] OTHER -> "interrupt_number"
           bytes == [interface_type |-> 0, i2c_slave_address |-> 2, nv_storage_address |-> 3,
                     base_address_modifier |-> 12, interrupt_number |-> 13]
           spec_byte(t) == Or(_u8(t.formatted, 1), 0)
           major(t) == spec_byte(t) \div 16
           minor(t) == spec_byte(t) % 16
           address(t) == Or(_u64(t.formatted, 4), Zero(4))
           rest(t) == [spec_version_major |-> major(t), spec_version_minor |-> minor(t),
                       base_address |-> address(t)]
           X == {owner} \cup Overlapping
           d(t) == parse_ipmi_device(t)
<1>1. k \in Nat /\ AlikeBut(r, s, k) /\ j \in 0 .. 7
  BY DEF OneBit, AlikeBut
<1>2. Outside(bytes, 1, k, X)
  BY <1>1 DEF Outside
<1>3. \A t : d(t) = Handle(t) ++ ByteFields(t, bytes) ++ rest(t)
  BY DEF parse_ipmi_device
<1>4. AgreeBut(rest(r), rest(s), X)
  <2>1. spec_byte(s) = spec_byte(r) \/ (k = 1 /\ TurnedRight(spec_byte(r), spec_byte(s), j))
    BY ByteTurns
  <2>2. major(s) = major(r) \/ (k = 1 /\ j >= 4)
    <3> HIDE DEF spec_byte
    <3> QED
      BY <1>1, <2>1 DEF TurnedRight
  <2>3. minor(s) = minor(r) \/ (k = 1 /\ j < 4)
    <3> HIDE DEF spec_byte
    <3> QED
      BY <1>1, <2>1 DEF TurnedRight
  <2>4. address(s) = address(r) \/ k \in 4 .. 11
    BY <1>1, ReadElsewhere
  <2>5. k = 1 /\ j >= 4 => "spec_version_major" \in X
    BY <1>1
  <2>6. k = 1 /\ j < 4 => "spec_version_minor" \in X
    BY <1>1
  <2>7. k \in 4 .. 11 => "base_address" \in X
    BY <1>1
  <2> HIDE DEF X, major, minor, address
  <2> QED
    BY <2>2, <2>3, <2>4, <2>5, <2>6, <2>7 DEF AgreeBut
<1> HIDE DEF owner, X, bytes, rest, d
<1>5. AgreeBut(d(r), d(s), X)
  BY <1>1, <1>2, <1>3, <1>4, AgreeUnion, AgreeHandle, AgreeBytes
<1> QED
  BY <1>5 DEF OneField, d, X

LEMMA SkuIsBehind ==
    ASSUME NEW f \in Seq(Byte)
    PROVE  sku_offset(f) \in Nat /\ 17 <= sku_offset(f)
<1> DEFINE n == Or(_u8(f, 15), 0)
           m == Or(_u8(f, 16), 0)
<1>1. n \in Nat /\ m \in Nat
  <2>1. \A o \in Nat : Or(_u8(f, o), 0) \in Byte
    BY ReadsInRange
  <2>2. n \in Byte /\ m \in Byte
    BY <2>1
  <2> HIDE DEF n, m
  <2> QED
    BY <2>2 DEF Byte
<1>2. sku_offset(f) = 17 + n * m
  BY DEF sku_offset
<1> HIDE DEF n, m
<1>3. n * m \in Nat
  BY <1>1
<1> QED
  BY <1>2, <1>3

LEMMA ChassisBit ==
    ASSUME NEW r, NEW s, NEW k, NEW j, OneBit(r, s, k, j)
    PROVE  OneField(parse_chassis(r), parse_chassis(s))
<1> DEFINE owner == CASE k = 0 -> "manufacturer"
                      [] k = 1 -> IF j = 7 THEN "type_locked" ELSE "type"
                      [] k = 2 -> "version" [] k = 3 -> "serial_number" [] k = 4 -> "asset_tag"
                      [] k = 5 -> "bootup_state" [] k = 6 -> "power_supply_state"
                      [] k = 7 -> "thermal_state" [] k = 8 -> "security_status"
                      [] k = 13 -> "height_u" [] k = 14 -> "power_cords"
                      [] OTHER -> "sku_number"
           strings == [manufacturer |-> 0, version |-> 2, serial_number |-> 3, asset_tag |-> 4]
           sku(t) == _str(t.strings, Or(_u8(t.formatted, sku_offset(t.formatted)), 0))
           all(t) == [manufacturer |-> 0, version |-> 2, serial_number |-> 3, asset_tag |-> 4,
                      sku_number |-> sku_offset(t.formatted)]
           bytes == [bootup_state |-> 5, power_supply_state |-> 6, thermal_state |-> 7,
                     security_status |-> 8]
           optional_bytes == [height_u |-> 13, power_cords |-> 14]
           type_byte(t) == Or(_u8(t.formatted, 1), 0)
           type(t) == type_byte(t) % 128
           locked(t) == type_byte(t) >= 128
           rest(t) == [type |-> type(t), type_locked |-> locked(t)]
           X == {owner} \cup Overlapping
           d(t) == parse_chassis(t)
<1>1. k \in Nat /\ AlikeBut(r, s, k) /\ j \in 0 .. 7
  BY DEF OneBit, AlikeBut
<1>2. /\ Outside(strings, 1, k, X) /\ Outside(bytes, 1, k, X)
      /\ Outside(optional_bytes, 1, k, X)
  BY <1>1 DEF Outside
<1>3. \A t : d(t) = Handle(t) ++ StringFields(t, all(t)) ++ ByteFields(t, bytes)
                     ++ OptionalBytes(t, optional_bytes, 0) ++ rest(t)
  BY DEF parse_chassis
<1>4. AgreeBut(rest(r), rest(s), X)
  <2>1. type_byte(s) = type_byte(r) \/ (k = 1 /\ TurnedRight(type_byte(r), type_byte(s), j))
    BY ByteTurns
  <2>2. type(s) = type(r) \/ (k = 1 /\ j # 7)
    <3> HIDE DEF type_byte
    <3> QED
      BY <1>1, <2>1 DEF TurnedRight
  <2>3. locked(s) = locked(r) \/ (k = 1 /\ j = 7)
    <3> HIDE DEF type_byte
    <3> QED
      BY <1>1, <2>1 DEF TurnedRight
  <2>4. k = 1 /\ j # 7 => "type" \in X
    BY <1>1
  <2>5. k = 1 /\ j = 7 => "type_locked" \in X
    BY <1>1
  <2> HIDE DEF X, type, locked
  <2> QED
    BY <2>2, <2>3, <2>4, <2>5 DEF AgreeBut
<1>5. AgreeBut(StringFields(r, all(r)), StringFields(s, all(s)), X)
  <2>1. "sku_number" \in X \/ sku(s) = sku(r)
    <3>1. "sku_number" \in X \/ (k # 15 /\ k # 16 /\ k < 17)
      BY <1>1
    <3>2. k # 15 /\ k # 16 => sku_offset(s.formatted) = sku_offset(r.formatted)
      BY <1>1, ReadElsewhere DEF sku_offset
    <3>3. sku_offset(r.formatted) \in Nat /\ 17 <= sku_offset(r.formatted)
      BY <1>1, SkuIsBehind, LengthOfArea DEF AlikeBut
    <3>4. \A o \in Nat : o # k => _u8(s.formatted, o) = _u8(r.formatted, o)
      BY <1>1, ReadElsewhere
    <3>5. s.strings = r.strings
      BY <1>1 DEF AlikeBut
    <3> HIDE DEF X
    <3> QED
      BY <1>1, <3>1, <3>2, <3>3, <3>4, <3>5
  <2>2. AgreeBut(StringFields(r, strings), StringFields(s, strings), X)
    BY <1>1, <1>2, AgreeBytes
  <2>3. \A t : StringFields(t, all(t)) = StringFields(t, strings) ++ [sku_number |-> sku(t)]
    BY DEF StringFields, ++
  <2> HIDE DEF X, strings, all, sku
  <2>4. AgreeBut([sku_number |-> sku(r)], [sku_number |-> sku(s)], X)
    BY <2>1 DEF AgreeBut
  <2> QED
    BY <2>2, <2>3, <2>4, AgreeUnion
<1> HIDE DEF owner, X, all, bytes, optional_bytes, rest, d
<1>6. AgreeBut(d(r), d(s), X)
  BY <1>1, <1>2, <1>3, <1>4, <1>5, AgreeUnion, AgreeHandle, AgreeBytes
<1> QED
  BY <1>6 DEF OneField, d, X

LEMMA DecoderBit ==
    ASSUME NEW r, NEW s, NEW k, NEW j, OneBit(r, s, k, j)
    PROVE  OneField(Decode(r), Decode(s))
<1>1. /\ AlikeBut(r, s, k) /\ s.type = r.type
      /\ r.type \in {0, 1, 2, 3, 4, 7, 9, 16, 17, 38, 43}
  BY DEF OneBit, AlikeBut, RawStructure
<1>2. CASE r.type = 0
  BY <1>1, <1>2, BIOSBit DEF Decode
<1>3. CASE r.type = 1
  BY <1>1, <1>3, SystemBit DEF Decode
<1>4. CASE r.type = 2
  BY <1>1, <1>4, BaseboardBit DEF Decode
<1>5. CASE r.type = 3
  BY <1>1, <1>5, ChassisBit DEF Decode
<1>6. CASE r.type = 4
  BY <1>1, <1>6, ProcessorBit DEF Decode
<1>7. CASE r.type = 7
  BY <1>1, <1>7, CacheBit DEF Decode
<1>8. CASE r.type = 9
  BY <1>1, <1>8, SystemSlotBit DEF Decode
<1>9. CASE r.type = 16
  BY <1>1, <1>9, MemoryArrayBit DEF Decode
<1>10. CASE r.type = 17
  BY <1>1, <1>10, MemoryDeviceBit DEF Decode
<1>11. CASE r.type = 38
  BY <1>1, <1>11, IPMIBit DEF Decode
<1>12. CASE r.type = 43
  BY <1>1, <1>12, TPMBit DEF Decode
<1> QED
  BY <1>1, <1>2, <1>3, <1>4, <1>5, <1>6, <1>7, <1>8, <1>9, <1>10, <1>11, <1>12

LEMMA OneAtMost ==
    ASSUME NEW S, NEW owner, S \subseteq {owner}
    PROVE  IsFiniteSet(S) /\ Cardinality(S) <= 1
<1>1. S = {} \/ S = {owner}
  OBVIOUS
<1>2. IsFiniteSet({}) /\ Cardinality({}) = 0
  BY FS_EmptySet
<1>3. IsFiniteSet({owner}) /\ Cardinality({owner}) = 1
  BY FS_Singleton
<1> QED
  BY <1>1, <1>2, <1>3

LEMMA OneFieldDiffers ==
    ASSUME NEW d, NEW e, OneField(d, e)
    PROVE  Cardinality(Differing(d, e) \ Overlapping) <= 1
<1>1. PICK owner : AgreeBut(d, e, {owner} \cup Overlapping)
  BY DEF OneField
<1>2. Differing(d, e) \ Overlapping \subseteq {owner}
  BY <1>1 DEF AgreeBut, Differing
<1> QED
  BY <1>2, OneAtMost

\* No two fields of a structure read the same bit: a step, which turns over one bit,
\* changes one field at most, the raw copies of BIOS information apart
\* (structures.py, lines 72-583).
THEOREM OneBitReadOnce == Spec => OneBitOneField
<1> DEFINE Fine == Cardinality(Differing(Decode(raw), Decode(raw')) \ Overlapping) <= 1
<1>1. RawOK /\ [Next]_vars => [Fine]_vars
  <2> SUFFICES ASSUME RawOK, [Next]_vars PROVE Fine
    OBVIOUS
  <2>1. CASE raw' = raw
    <3>1. Differing(Decode(raw), Decode(raw')) \ Overlapping \subseteq {0}
      BY <2>1 DEF Differing
    <3> QED
      BY <3>1, OneAtMost
  <2>2. ASSUME NEW k, NEW j, OneBit(raw, raw', k, j) PROVE Fine
    BY <2>2, DecoderBit, OneFieldDiffers
  <2> QED
    BY <2>1, <2>2, OneBitAtATime
<1> QED
  BY <1>1, AlwaysRawOK, PTL DEF Spec, OneBitOneField

(***************************************************************************)
(* One bit, one answer.                                                    *)
(***************************************************************************)

\* Of three sets, one has one member at most and the others have none.
OneOfThree(A, B, C) ==
    \E x : \/ A \subseteq {x} /\ B = {} /\ C = {}
           \/ A = {} /\ B \subseteq {x} /\ C = {}
           \/ A = {} /\ B = {} /\ C \subseteq {x}

LEMMA OneOfThreeCounted ==
    ASSUME NEW A, NEW B, NEW C, OneOfThree(A, B, C)
    PROVE  Cardinality(A) + Cardinality(B) + Cardinality(C) <= 1
<1>1. Cardinality({}) = 0
  BY FS_EmptySet
<1>2. \A S, x : S \subseteq {x} => Cardinality(S) \in Nat /\ Cardinality(S) <= 1
  BY OneAtMost, FS_CardinalityType
<1> HIDE DEF OneOfThree
<1>3. PICK x : \/ A \subseteq {x} /\ B = {} /\ C = {}
               \/ A = {} /\ B \subseteq {x} /\ C = {}
               \/ A = {} /\ B = {} /\ C \subseteq {x}
  BY DEF OneOfThree
<1> QED
  BY <1>1, <1>2, <1>3

\* What OneBitOneAnswer says of two structures of a type.
OneAnswer(type, d, e) ==
    OneOfThree(Differing(Facts(type, d), Facts(type, e)),
               Differing(Names(type, d), Names(type, e)),
               Differing(FeatureLists(type, d), FeatureLists(type, e)))

\* The fields that the answers are taken from.
Asked(type) ==
    CASE type = 4  -> {"status", "voltage_raw", "type", "family"}
      [] type = 7  -> {"configuration", "error_correction", "system_cache_type",
                       "associativity", "supported_sram_types", "current_sram_type"}
      [] type = 9  -> {"type", "current_usage", "length"}
      [] type = 17 -> {"size_bytes", "form_factor", "type", "memory_technology",
                       "type_detail", "operating_mode_capability"}
      [] type = 38 -> {"interface_type", "i2c_slave_address", "base_address"}
      [] OTHER     -> {}

Has(d, names) == names \subseteq DOMAIN d

LEMMA HasUnion ==
    ASSUME NEW d, NEW e, NEW names, Has(d, names) \/ Has(e, names)
    PROVE  Has(d ++ e, names)
BY DEF Has, ++

LEMMA AskedFields ==
    ASSUME NEW r, r.type \in {4, 7, 9, 17, 38}
    PROVE  Asked(r.type) \subseteq DOMAIN Decode(r)
<1>1. CASE r.type = 4
  <2> DEFINE bytes == ByteFields(r, [type |-> 1, voltage_raw |-> 13, status |-> 20,
                                     upgrade |-> 21])
             family_8 == Or(_u8(r.formatted, 2), 0)
             family_16 == _u16(r.formatted, 36)
             family == IF family_8 = 254 /\ family_16 # None THEN family_16 ELSE family_8
             id == IF Len(r.formatted) >= 12 THEN SafeSlice(r.formatted, 4, 12) ELSE << >>
             count(a, b) == _resolve(_u8(r.formatted, a), _u16(r.formatted, b))
             rest == [family |-> family, processor_id |-> id, core_count |-> count(31, 38),
                      cores_enabled |-> count(32, 40), thread_count |-> count(33, 42)]
             strings == StringFields(r, [socket_designation |-> 0, manufacturer |-> 3,
                                         version |-> 12, serial_number |-> 28,
                                         asset_tag |-> 29, part_number |-> 30])
             words == WordFields(r, [characteristics |-> 34])
             speeds == OptionalWords(r, [external_clock_mhz |-> 14, max_speed_mhz |-> 16,
                                         current_speed_mhz |-> 18, threads_enabled |-> 44], 0)
             handles == OptionalWords(r, [l1_cache_handle |-> 22, l2_cache_handle |-> 24,
                                          l3_cache_handle |-> 26], MaxWord)
             these == {"type", "voltage_raw", "status"}
  <2>1. Has(bytes, these) /\ Has(rest, {"family"})
    BY DEF ByteFields, Has
  <2>2. Decode(r) = Handle(r) ++ strings ++ bytes ++ words ++ speeds ++ handles ++ rest
    BY <1>1 DEF Decode, parse_processor
  <2> HIDE DEF bytes, rest, strings, words, speeds, handles, these
  <2>3. Has(Decode(r), these) /\ Has(Decode(r), {"family"})
    BY <2>1, <2>2, HasUnion
  <2> QED
    BY <1>1, <2>3 DEF Has, Asked, these
<1>2. CASE r.type = 7
  <2> DEFINE bytes == ByteFields(r, [error_correction |-> 12, system_cache_type |-> 13,
                                     associativity |-> 14])
             words == WordFields(r, [configuration |-> 1, supported_sram_types |-> 7,
                                     current_sram_type |-> 9])
             these == {"error_correction", "system_cache_type", "associativity"}
             those == {"configuration", "supported_sram_types", "current_sram_type"}
  <2>1. Has(bytes, these) /\ Has(words, those)
    BY DEF ByteFields, WordFields, Has
  <2>2. \E front, optional, rest : Decode(r) = front ++ bytes ++ words ++ optional ++ rest
    BY <1>2 DEF Decode, parse_cache
  <2> HIDE DEF bytes, words, these, those
  <2>3. Has(Decode(r), these) /\ Has(Decode(r), those)
    BY <2>1, <2>2, HasUnion
  <2> QED
    BY <1>2, <2>3 DEF Has, Asked, these, those
<1>3. CASE r.type = 9
  <2> DEFINE bytes == ByteFields(r, [type |-> 1, bus_width |-> 2, current_usage |-> 3,
                                     length |-> 4, characteristics_1 |-> 7,
                                     characteristics_2 |-> 8])
             these == {"type", "current_usage", "length"}
  <2>1. Has(bytes, these)
    BY DEF ByteFields, Has
  <2>2. \E front, words, group, optional :
           Decode(r) = front ++ bytes ++ words ++ group ++ optional
    BY <1>3 DEF Decode, parse_system_slot
  <2> HIDE DEF bytes, these
  <2>3. Has(Decode(r), these)
    BY <2>1, <2>2, HasUnion
  <2> QED
    BY <1>3, <2>3 DEF Has, Asked, these
<1>4. CASE r.type = 17
  <2> DEFINE bytes == ByteFields(r, [form_factor |-> 10, device_set |-> 11, type |-> 14,
                                     memory_technology |-> 36])
             words == WordFields(r, [array_handle |-> 0, error_info_handle |-> 2,
                                     type_detail |-> 15, operating_mode_capability |-> 37,
                                     module_manufacturer_id |-> 40, module_product_id |-> 42,
                                     subsystem_controller_manufacturer_id |-> 44,
                                     subsystem_controller_product_id |-> 46])
             strings == StringFields(r, [locator |-> 12, bank_locator |-> 13,
                                         manufacturer |-> 19, serial_number |-> 20,
                                         asset_tag |-> 21, part_number |-> 22,
                                         module_firmware_version |-> 39])
             widths == OptionalWords(r, [total_width_bits |-> 4, data_width_bits |-> 6], MaxWord)
             speeds == OptionalWords(r, [speed_mts |-> 17, configured_speed_mts |-> 28,
                                         min_voltage_mv |-> 30, max_voltage_mv |-> 32,
                                         configured_voltage_mv |-> 34], 0)
             rank_byte == _u8(r.formatted, 23)
             size(o) == _decode_extended_size(_u64(r.formatted, o))
             speed(o) == _extended_speed(_u32(r.formatted, o))
             rest == [size_bytes |-> _decode_memory_size(_u16(r.formatted, 8),
                                                         _u32(r.formatted, 24)),
                      rank |-> IF rank_byte = None THEN None ELSE Unless(rank_byte % 16, 0),
                      non_volatile_size_bytes |-> size(48), volatile_size_bytes |-> size(56),
                      cache_size_bytes |-> size(64), logical_size_bytes |-> size(72),
                      extended_speed_mts |-> speed(80),
                      extended_configured_speed_mts |-> speed(84)]
             these == {"form_factor", "type", "memory_technology"}
             those == {"type_detail", "operating_mode_capability"}
  <2>1. Has(bytes, these) /\ Has(words, those)
    BY DEF ByteFields, WordFields, Has
  <2>2. Has(rest, {"size_bytes"})
    BY DEF Has
  <2>3. Decode(r) = Handle(r) ++ bytes ++ words ++ strings ++ widths ++ speeds ++ rest
    BY <1>4 DEF Decode, parse_memory_device
  <2> HIDE DEF bytes, words, rest, strings, widths, speeds, these, those
  <2>4. Has(Decode(r), these) /\ Has(Decode(r), those) /\ Has(Decode(r), {"size_bytes"})
    BY <2>1, <2>2, <2>3, HasUnion
  <2> QED
    BY <1>4, <2>4 DEF Has, Asked, these, those
<1>5. CASE r.type = 38
  <2> DEFINE bytes == ByteFields(r, [interface_type |-> 0, i2c_slave_address |-> 2,
                                     nv_storage_address |-> 3, base_address_modifier |-> 12,
                                     interrupt_number |-> 13])
             spec_byte == Or(_u8(r.formatted, 1), 0)
             rest == [spec_version_major |-> spec_byte \div 16,
                      spec_version_minor |-> spec_byte % 16,
                      base_address |-> Or(_u64(r.formatted, 4), Zero(4))]
             these == {"interface_type", "i2c_slave_address"}
  <2>1. Has(bytes, these) /\ Has(rest, {"base_address"})
    BY DEF ByteFields, Has
  <2>2. Decode(r) = Handle(r) ++ bytes ++ rest
    BY <1>5 DEF Decode, parse_ipmi_device
  <2> HIDE DEF bytes, rest, these
  <2>3. Has(Decode(r), these) /\ Has(Decode(r), {"base_address"})
    BY <2>1, <2>2, HasUnion
  <2> QED
    BY <1>5, <2>3 DEF Has, Asked, these
<1> QED
  BY <1>1, <1>2, <1>3, <1>4, <1>5

\* Of the fields asked one changes at most.
LEMMA OneAsked ==
    ASSUME NEW r, NEW s, NEW k, NEW j, OneBit(r, s, k, j), r.type \in {4, 7, 9, 17, 38}
    PROVE  \E owner : \A x \in Asked(r.type) : x = owner \/ Decode(s)[x] = Decode(r)[x]
<1>1. PICK owner : AgreeBut(Decode(r), Decode(s), {owner} \cup Overlapping)
  BY DecoderBit DEF OneField
<1>2. \A x \in Asked(r.type) : x \notin Overlapping
  BY DEF Asked, Overlapping
<1>3. Asked(r.type) \subseteq DOMAIN Decode(r)
  BY AskedFields
<1>4. \A x \in Asked(r.type) : x = owner \/ Decode(s)[x] = Decode(r)[x]
  BY <1>1, <1>2, <1>3 DEF AgreeBut
<1> QED
  BY <1>4

\* A type with one answer at most.
LEMMA FewAnswers ==
    ASSUME NEW type \in {0, 1, 2, 3, 16, 43}, NEW d, NEW e
    PROVE  OneAnswer(type, d, e)
<1>1. CASE type = 0
  BY <1>1 DEF OneAnswer, OneOfThree, Differing, Facts, Names, FeatureLists
<1>2. CASE type = 1
  BY <1>2 DEF OneAnswer, OneOfThree, Differing, Facts, Names, FeatureLists
<1>3. CASE type = 2
  BY <1>3 DEF OneAnswer, OneOfThree, Differing, Facts, Names, FeatureLists
<1>4. CASE type = 3
  BY <1>4 DEF OneAnswer, OneOfThree, Differing, Facts, Names, FeatureLists
<1>5. CASE type = 16
  BY <1>5 DEF OneAnswer, OneOfThree, Differing, Facts, Names, FeatureLists
<1>6. CASE type = 43
  BY <1>6 DEF OneAnswer, OneOfThree, Differing, Facts, Names, FeatureLists
<1> QED
  BY <1>1, <1>2, <1>3, <1>4, <1>5, <1>6

LEMMA ProcessorAnswer ==
    ASSUME NEW d, NEW e, NEW owner, \A x \in Asked(4) : x = owner \/ e[x] = d[x]
    PROVE  OneAnswer(4, d, e)
<1> DEFINE populated(c) == Bit(c.status, 6)
           type(c) == processor_type_name(c.type)
           family(c) == processor_family_name(c.family)
<1>1. /\ \A c : Facts(4, c) = [populated |-> populated(c), voltage_volts |-> voltage_volts(c)]
      /\ \A c : Names(4, c) = [type |-> type(c), family |-> family(c)]
      /\ \A c : FeatureLists(4, c) = << >>
  BY DEF Facts, Names, FeatureLists
<1>2. /\ "status" = owner \/ e.status = d.status
      /\ "voltage_raw" = owner \/ e.voltage_raw = d.voltage_raw
      /\ "type" = owner \/ e.type = d.type
      /\ "family" = owner \/ e.family = d.family
  BY DEF Asked
<1>3. /\ "status" = owner \/ populated(e) = populated(d)
      /\ "voltage_raw" = owner \/ voltage_volts(e) = voltage_volts(d)
      /\ "type" = owner \/ type(e) = type(d)
      /\ "family" = owner \/ family(e) = family(d)
  BY <1>2 DEF voltage_volts
<1> HIDE DEF populated, type, family
<1> DEFINE A == Differing(Facts(4, d), Facts(4, e))
           B == Differing(Names(4, d), Names(4, e))
           C == Differing(FeatureLists(4, d), FeatureLists(4, e))
<1>4. /\ A \subseteq {"populated", "voltage_volts"}
      /\ "populated" \in A => "status" = owner
      /\ "voltage_volts" \in A => "voltage_raw" = owner
  BY <1>1, <1>3 DEF Differing
<1>5. /\ B \subseteq {"type", "family"}
      /\ "type" \in B => "type" = owner
      /\ "family" \in B => "family" = owner
  BY <1>1, <1>3 DEF Differing
<1>6. C = {}
  BY <1>1 DEF Differing
<1> HIDE DEF A, B, C
<1>7. OneOfThree(A, B, C)
  BY <1>4, <1>5, <1>6 DEF OneOfThree
<1> QED
  BY <1>7 DEF OneAnswer, A, B, C

LEMMA SystemSlotAnswer ==
    ASSUME NEW d, NEW e, NEW owner, \A x \in Asked(9) : x = owner \/ e[x] = d[x]
    PROVE  OneAnswer(9, d, e)
<1> DEFINE type(c) == slot_type_name(c.type)
           usage(c) == slot_usage_name(c.current_usage)
           length(c) == slot_length_name(c.length)
<1>1. /\ \A c : Facts(9, c) = << >>
      /\ \A c : Names(9, c) = [type |-> type(c), current_usage |-> usage(c), length |-> length(c)]
      /\ \A c : FeatureLists(9, c) = << >>
  BY DEF Facts, Names, FeatureLists
<1>2. /\ "type" = owner \/ e.type = d.type
      /\ "current_usage" = owner \/ e.current_usage = d.current_usage
      /\ "length" = owner \/ e.length = d.length
  BY DEF Asked
<1>3. /\ "type" = owner \/ type(e) = type(d)
      /\ "current_usage" = owner \/ usage(e) = usage(d)
      /\ "length" = owner \/ length(e) = length(d)
  BY <1>2
<1> HIDE DEF type, usage, length
<1> DEFINE A == Differing(Facts(9, d), Facts(9, e))
           B == Differing(Names(9, d), Names(9, e))
           C == Differing(FeatureLists(9, d), FeatureLists(9, e))
<1>4. B \subseteq {owner}
  BY <1>1, <1>3 DEF Differing
<1>5. A = {} /\ C = {}
  BY <1>1 DEF Differing
<1> HIDE DEF A, B, C
<1>6. OneOfThree(A, B, C)
  BY <1>4, <1>5 DEF OneOfThree
<1> QED
  BY <1>6 DEF OneAnswer, A, B, C

LEMMA MemoryDeviceAnswer ==
    ASSUME NEW d, NEW e, NEW owner, \A x \in Asked(17) : x = owner \/ e[x] = d[x]
    PROVE  OneAnswer(17, d, e)
<1> DEFINE populated(c) == size_is_positive(c.size_bytes)
           form(c) == memory_form_factor_name(c.form_factor)
           type(c) == memory_type_name(c.type)
           technology(c) == memory_technology_name(c.memory_technology)
           detail(c) == memory_type_detail_names(c.type_detail)
           modes(c) == memory_operating_mode_names(c.operating_mode_capability)
<1>1. /\ \A c : Facts(17, c) = [populated |-> populated(c)]
      /\ \A c : Names(17, c) = [form_factor |-> form(c), type |-> type(c),
                                memory_technology |-> technology(c)]
      /\ \A c : FeatureLists(17, c) = [type_detail |-> detail(c), operating_modes |-> modes(c)]
  BY DEF Facts, Names, FeatureLists
<1>2. /\ "size_bytes" = owner \/ e.size_bytes = d.size_bytes
      /\ "form_factor" = owner \/ e.form_factor = d.form_factor
      /\ "type" = owner \/ e.type = d.type
      /\ "memory_technology" = owner \/ e.memory_technology = d.memory_technology
      /\ "type_detail" = owner \/ e.type_detail = d.type_detail
      /\ \/ "operating_mode_capability" = owner
         \/ e.operating_mode_capability = d.operating_mode_capability
  BY DEF Asked
<1>3. /\ "size_bytes" = owner \/ populated(e) = populated(d)
      /\ "form_factor" = owner \/ form(e) = form(d)
      /\ "type" = owner \/ type(e) = type(d)
      /\ "memory_technology" = owner \/ technology(e) = technology(d)
      /\ "type_detail" = owner \/ detail(e) = detail(d)
      /\ "operating_mode_capability" = owner \/ modes(e) = modes(d)
  BY <1>2
<1> HIDE DEF populated, form, type, technology, detail, modes
<1> DEFINE A == Differing(Facts(17, d), Facts(17, e))
           B == Differing(Names(17, d), Names(17, e))
           C == Differing(FeatureLists(17, d), FeatureLists(17, e))
<1>4. A \subseteq {"populated"} /\ ("populated" \in A => "size_bytes" = owner)
  BY <1>1, <1>3 DEF Differing
<1>5. /\ B \subseteq {"form_factor", "type", "memory_technology"}
      /\ \A x \in B : x = owner
  BY <1>1, <1>3 DEF Differing
<1>6. /\ C \subseteq {"type_detail", "operating_modes"}
      /\ "type_detail" \in C => "type_detail" = owner
      /\ "operating_modes" \in C => "operating_mode_capability" = owner
  BY <1>1, <1>3 DEF Differing
<1> HIDE DEF A, B, C
<1>7. OneOfThree(A, B, C)
  <2>1. CASE owner = "size_bytes"
    BY <1>4, <1>5, <1>6, <2>1 DEF OneOfThree
  <2>2. CASE owner \in {"form_factor", "type", "memory_technology"}
    BY <1>4, <1>5, <1>6, <2>2 DEF OneOfThree
  <2>3. CASE owner \notin {"size_bytes", "form_factor", "type", "memory_technology"}
    BY <1>4, <1>5, <1>6, <2>3 DEF OneOfThree
  <2> QED
    BY <2>1, <2>2, <2>3
<1> QED
  BY <1>7 DEF OneAnswer, A, B, C

(***************************************************************************)
(* A word and its bits.                                                    *)
(***************************************************************************)

LEMMA BitsOfWord ==
    ASSUME NEW lo \in Byte, NEW hi \in Byte
    PROVE  \A b \in 0 .. 7 : /\ Bit(lo + 256 * hi, b) <=> Bit(lo, b)
                             /\ Bit(lo + 256 * hi, b + 8) <=> Bit(hi, b)
<1> DEFINE w == lo + 256 * hi
<1>1. /\ Power(8) = 256 /\ Power(9) = 512 /\ Power(10) = 1024 /\ Power(11) = 2048
      /\ Power(12) = 4096 /\ Power(13) = 8192 /\ Power(14) = 16384 /\ Power(15) = 32768
  BY DEF Power
<1>2. lo \in Int /\ 0 <= lo /\ lo <= 255 /\ hi \in Int /\ 0 <= hi /\ hi <= 255
  BY ByteBits
<1>3. /\ w \div 1 = lo \div 1 + 2 * (128 * hi) /\ w \div 2 = lo \div 2 + 2 * (64 * hi)
      /\ w \div 4 = lo \div 4 + 2 * (32 * hi) /\ w \div 8 = lo \div 8 + 2 * (16 * hi)
      /\ w \div 16 = lo \div 16 + 2 * (8 * hi) /\ w \div 32 = lo \div 32 + 2 * (4 * hi)
      /\ w \div 64 = lo \div 64 + 2 * (2 * hi) /\ w \div 128 = lo \div 128 + 2 * hi
  BY <1>2
<1>4. /\ w \div 256 = hi \div 1 /\ w \div 512 = hi \div 2 /\ w \div 1024 = hi \div 4
      /\ w \div 2048 = hi \div 8 /\ w \div 4096 = hi \div 16 /\ w \div 8192 = hi \div 32
      /\ w \div 16384 = hi \div 64 /\ w \div 32768 = hi \div 128
  BY <1>2
<1>5. \A x, n \in Int : (x + 2 * n) % 2 = x % 2
  OBVIOUS
<1>6. /\ lo \div 1 \in Int /\ lo \div 2 \in Int /\ lo \div 4 \in Int /\ lo \div 8 \in Int
      /\ lo \div 16 \in Int /\ lo \div 32 \in Int /\ lo \div 64 \in Int /\ lo \div 128 \in Int
      /\ 128 * hi \in Int /\ 64 * hi \in Int /\ 32 * hi \in Int /\ 16 * hi \in Int
      /\ 8 * hi \in Int /\ 4 * hi \in Int /\ 2 * hi \in Int
  BY <1>2
<1> HIDE DEF w
<1>7. /\ (w \div 1) % 2 = (lo \div 1) % 2 /\ (w \div 2) % 2 = (lo \div 2) % 2
      /\ (w \div 4) % 2 = (lo \div 4) % 2 /\ (w \div 8) % 2 = (lo \div 8) % 2
      /\ (w \div 16) % 2 = (lo \div 16) % 2 /\ (w \div 32) % 2 = (lo \div 32) % 2
      /\ (w \div 64) % 2 = (lo \div 64) % 2 /\ (w \div 128) % 2 = (lo \div 128) % 2
  BY <1>2, <1>3, <1>5, <1>6
<1>8. /\ (Bit(w, 0) <=> Bit(lo, 0)) /\ (Bit(w, 1) <=> Bit(lo, 1))
      /\ (Bit(w, 2) <=> Bit(lo, 2)) /\ (Bit(w, 3) <=> Bit(lo, 3))
      /\ (Bit(w, 4) <=> Bit(lo, 4)) /\ (Bit(w, 5) <=> Bit(lo, 5))
      /\ (Bit(w, 6) <=> Bit(lo, 6)) /\ (Bit(w, 7) <=> Bit(lo, 7))
  BY <1>7, ByteBits
<1>9. /\ (Bit(w, 8) <=> Bit(hi, 0)) /\ (Bit(w, 9) <=> Bit(hi, 1))
      /\ (Bit(w, 10) <=> Bit(hi, 2)) /\ (Bit(w, 11) <=> Bit(hi, 3))
      /\ (Bit(w, 12) <=> Bit(hi, 4)) /\ (Bit(w, 13) <=> Bit(hi, 5))
      /\ (Bit(w, 14) <=> Bit(hi, 6)) /\ (Bit(w, 15) <=> Bit(hi, 7))
  BY <1>1, <1>4, ByteBits
<1>10. \A b \in 0 .. 7 : (Bit(w, b) <=> Bit(lo, b)) /\ (Bit(w, b + 8) <=> Bit(hi, b))
  BY <1>8, <1>9, ByteBits
<1> QED
  BY <1>10 DEF w

\* w is v with bit b turned over.
WordTurned(v, w, b) ==
    /\ v \in Word /\ w \in Word /\ b \in 0 .. 15
    /\ \A i \in 0 .. 15 : i # b => (Bit(w, i) <=> Bit(v, i))
    /\ Bit(w, b) <=> ~ Bit(v, b)

LEMMA WordOfBytes ==
    ASSUME NEW lo \in Byte, NEW hi \in Byte
    PROVE  lo + 256 * hi \in Word
<1> DEFINE w == lo + 256 * hi
<1>1. lo \in Int /\ 0 <= lo /\ lo <= 255 /\ hi \in Int /\ 0 <= hi /\ hi <= 255
  BY ByteBits
<1>2. w \in Int /\ 0 <= w /\ w <= MaxWord /\ MaxWord \in Int
  BY <1>1 DEF MaxWord
<1> HIDE DEF w
<1>3. w \in Word
  BY <1>2 DEF Word
<1> QED
  BY <1>3 DEF w

LEMMA HalfTurned ==
    ASSUME NEW v \in Byte, NEW w \in Byte, NEW other \in Byte, NEW j \in 0 .. 7,
           TurnedRight(v, w, j)
    PROVE  /\ WordTurned(v + 256 * other, w + 256 * other, j)
           /\ WordTurned(other + 256 * v, other + 256 * w, j + 8)
<1>1. /\ \A b \in 0 .. 7 : /\ Bit(v + 256 * other, b) <=> Bit(v, b)
                           /\ Bit(v + 256 * other, b + 8) <=> Bit(other, b)
      /\ \A b \in 0 .. 7 : /\ Bit(w + 256 * other, b) <=> Bit(w, b)
                           /\ Bit(w + 256 * other, b + 8) <=> Bit(other, b)
      /\ \A b \in 0 .. 7 : /\ Bit(other + 256 * v, b) <=> Bit(other, b)
                           /\ Bit(other + 256 * v, b + 8) <=> Bit(v, b)
      /\ \A b \in 0 .. 7 : /\ Bit(other + 256 * w, b) <=> Bit(other, b)
                           /\ Bit(other + 256 * w, b + 8) <=> Bit(w, b)
  BY BitsOfWord
<1>2. \A i \in 0 .. 15 : i \in 0 .. 7 \/ \E b \in 0 .. 7 : i = b + 8
  <2> SUFFICES ASSUME NEW i \in 0 .. 15, i \notin 0 .. 7 PROVE \E b \in 0 .. 7 : i = b + 8
    OBVIOUS
  <2>1. i - 8 \in 0 .. 7 /\ i = (i - 8) + 8
    OBVIOUS
  <2> QED
    BY <2>1
<1>3. /\ v + 256 * other \in Word /\ w + 256 * other \in Word
      /\ other + 256 * v \in Word /\ other + 256 * w \in Word
  BY WordOfBytes
<1>4. /\ \A i \in 0 .. 7 : i # j => (Bit(w, i) <=> Bit(v, i))
      /\ Bit(w, j) <=> ~ Bit(v, j)
  BY DEF TurnedRight
<1>5. WordTurned(v + 256 * other, w + 256 * other, j)
  <2>1. \A i \in 0 .. 15 : i # j => (Bit(w + 256 * other, i) <=> Bit(v + 256 * other, i))
    BY <1>1, <1>2, <1>4
  <2>2. Bit(w + 256 * other, j) <=> ~ Bit(v + 256 * other, j)
    BY <1>1, <1>4
  <2> QED
    BY <1>3, <2>1, <2>2 DEF WordTurned
<1>6. WordTurned(other + 256 * v, other + 256 * w, j + 8)
  <2>1. \A i \in 0 .. 15 : i # j + 8 => (Bit(other + 256 * w, i) <=> Bit(other + 256 * v, i))
    BY <1>1, <1>2, <1>4
  <2>2. Bit(other + 256 * w, j + 8) <=> ~ Bit(other + 256 * v, j + 8)
    BY <1>1, <1>4
  <2>3. j + 8 \in 0 .. 15
    OBVIOUS
  <2> QED
    BY <1>3, <2>1, <2>2, <2>3 DEF WordTurned
<1> QED
  BY <1>5, <1>6

\* A 16-bit field at offset o: it stays, or one of its bits turns over.
FieldTurns(v, w, o, k, j) ==
    \/ w = v
    \/ k = o /\ WordTurned(v, w, j)
    \/ k = o + 1 /\ WordTurned(v, w, j + 8)

LEMMA WordTurns ==
    ASSUME NEW r, NEW s, NEW k, NEW j, OneBit(r, s, k, j), NEW o \in Nat
    PROVE  FieldTurns(Or(_u16(r.formatted, o), 0), Or(_u16(s.formatted, o), 0), o, k, j)
<1> DEFINE f == r.formatted
           g == s.formatted
           v == Or(_u16(f, o), 0)
           w == Or(_u16(g, o), 0)
<1>1. /\ Len(f) \in Nat /\ Len(g) = Len(f) /\ k \in Nat /\ k < Len(f) /\ AlikeBut(r, s, k)
      /\ f \in Seq(Byte) /\ g \in Seq(Byte) /\ TurnedRight(ByteAt(f, k), ByteAt(g, k), j)
      /\ j \in 0 .. 7
  BY LengthOfArea DEF OneBit, AlikeBut
<1>2. \A i \in Nat : i < Len(f) => ByteAt(f, i) \in Byte /\ ByteAt(g, i) \in Byte
  BY <1>1, ElementOfSeq DEF ByteAt
<1>3. \A i \in Nat : i < Len(f) /\ i # k => ByteAt(g, i) = ByteAt(f, i)
  BY <1>1 DEF AlikeBut
<1>4. \A x \in Word : Or(x, 0) = x
  BY NoneIsNoNumber DEF Or, Word
<1> HIDE DEF f, g
<1>5. CASE o + 2 > Len(f)
  <2>1. _u16(f, o) = None /\ _u16(g, o) = None
    BY <1>1, <1>5 DEF _u16
  <2>2. w = v
    BY <2>1
  <2> QED
    BY <2>2 DEF FieldTurns, v, w, f, g
<1>6. CASE ~ (o + 2 > Len(f)) /\ k # o /\ k # o + 1
  <2>1. _u16(g, o) = _u16(f, o)
    <3>1. k \notin o .. o + 1
      BY <1>1, <1>6
    <3> QED
      BY <1>1, <3>1, ReadElsewhere DEF f, g
  <2>2. w = v
    BY <2>1
  <2> QED
    BY <2>2 DEF FieldTurns, v, w, f, g
<1>7. CASE ~ (o + 2 > Len(f)) /\ (k = o \/ k = o + 1)
  <2>1. o \in Nat /\ o < Len(f) /\ o + 1 \in Nat /\ o + 1 < Len(f) /\ o # o + 1
    BY <1>1, <1>7
  <2> DEFINE a == ByteAt(f, o)
             b == ByteAt(f, o + 1)
             c == ByteAt(g, o)
             d == ByteAt(g, o + 1)
  <2>2. a \in Byte /\ b \in Byte /\ c \in Byte /\ d \in Byte
    BY <1>2, <2>1
  <2>3. _u16(f, o) = a + 256 * b /\ _u16(g, o) = c + 256 * d
    BY <1>1, <1>7 DEF _u16, WordAt
  <2>4. a + 256 * b \in Word /\ c + 256 * d \in Word
    BY <2>2, WordOfBytes
  <2>5. v = a + 256 * b /\ w = c + 256 * d
    BY <1>4, <2>3, <2>4
  <2>6. CASE k = o
    <3>1. d = b /\ TurnedRight(a, c, j)
      BY <1>1, <1>3, <2>1, <2>6
    <3> HIDE DEF a, b, c, d, v, w
    <3>2. WordTurned(a + 256 * b, c + 256 * b, j)
      BY <1>1, <2>2, <3>1, HalfTurned
    <3>3. WordTurned(v, w, j)
      BY <2>5, <3>1, <3>2
    <3>4. FieldTurns(v, w, o, k, j)
      BY <2>6, <3>3 DEF FieldTurns
    <3> QED
      BY <3>4 DEF v, w, f, g
  <2>7. CASE k = o + 1
    <3>1. c = a /\ TurnedRight(b, d, j)
      BY <1>1, <1>3, <2>1, <2>7
    <3> HIDE DEF a, b, c, d, v, w
    <3>2. WordTurned(a + 256 * b, a + 256 * d, j + 8)
      BY <1>1, <2>2, <3>1, HalfTurned
    <3>3. WordTurned(v, w, j + 8)
      BY <2>5, <3>1, <3>2
    <3>4. FieldTurns(v, w, o, k, j)
      BY <2>7, <3>3 DEF FieldTurns
    <3> QED
      BY <3>4 DEF v, w, f, g
  <2> QED
    BY <1>7, <2>6, <2>7
<1> QED
  BY <1>1, <1>5, <1>6, <1>7 DEF f, g

\* The groups of bits of the configuration word of a cache.
Low3(c) == c % 8
Bits5And6(c) == (c \div 32) % 4
Bits8And9(c) == (c \div 256) % 4

LEMMA GroupsOfBits ==
    ASSUME NEW v \in Word, NEW w \in Word
    PROVE  /\ (\A b \in 0 .. 2 : Bit(v, b) <=> Bit(w, b)) => Low3(v) = Low3(w)
           /\ (\A b \in 5 .. 6 : Bit(v, b) <=> Bit(w, b)) => Bits5And6(v) = Bits5And6(w)
           /\ (\A b \in 8 .. 9 : Bit(v, b) <=> Bit(w, b)) => Bits8And9(v) = Bits8And9(w)
<1>1. /\ Power(0) = 1 /\ Power(1) = 2 /\ Power(2) = 4 /\ Power(5) = 32 /\ Power(6) = 64
      /\ Power(8) = 256 /\ Power(9) = 512
  BY DEF Power
<1>2. v \in Int /\ 0 <= v /\ w \in Int /\ 0 <= w
  BY DEF Word
<1>3. /\ \A n \in Int : 0 <= n =>
            n % 8 = ((n \div 1) % 2) + 2 * ((n \div 2) % 2) + 4 * ((n \div 4) % 2)
      /\ \A n \in Int : 0 <= n => (n \div 32) % 4 = ((n \div 32) % 2) + 2 * ((n \div 64) % 2)
      /\ \A n \in Int : 0 <= n => (n \div 256) % 4 = ((n \div 256) % 2) + 2 * ((n \div 512) % 2)
      /\ \A n \in Int : n % 2 \in {0, 1}
  <2>1. ASSUME NEW n \in Int, 0 <= n
        PROVE  n % 8 = ((n \div 1) % 2) + 2 * ((n \div 2) % 2) + 4 * ((n \div 4) % 2)
    BY <2>1
  <2>2. ASSUME NEW n \in Int, 0 <= n
        PROVE  (n \div 32) % 4 = ((n \div 32) % 2) + 2 * ((n \div 64) % 2)
    BY <2>2
  <2>3. ASSUME NEW n \in Int, 0 <= n
        PROVE  (n \div 256) % 4 = ((n \div 256) % 2) + 2 * ((n \div 512) % 2)
    BY <2>3
  <2>4. \A n \in Int : n % 2 \in {0, 1}
    OBVIOUS
  <2> QED
    BY <2>1, <2>2, <2>3, <2>4
<1>4. \A n : /\ Bit(n, 0) <=> (n \div 1) % 2 = 1
             /\ Bit(n, 1) <=> (n \div 2) % 2 = 1
             /\ Bit(n, 2) <=> (n \div 4) % 2 = 1
             /\ Bit(n, 5) <=> (n \div 32) % 2 = 1
             /\ Bit(n, 6) <=> (n \div 64) % 2 = 1
             /\ Bit(n, 8) <=> (n \div 256) % 2 = 1
             /\ Bit(n, 9) <=> (n \div 512) % 2 = 1
  BY <1>1, ByteBits
<1>5. ASSUME \A b \in 0 .. 2 : Bit(v, b) <=> Bit(w, b) PROVE Low3(v) = Low3(w)
  <2>1. /\ Bit(v, 0) <=> Bit(w, 0)
        /\ Bit(v, 1) <=> Bit(w, 1)
        /\ Bit(v, 2) <=> Bit(w, 2)
    BY <1>5
  <2> QED
    BY <1>2, <1>3, <1>4, <2>1, SMTT(30) DEF Low3
<1>6. ASSUME \A b \in 5 .. 6 : Bit(v, b) <=> Bit(w, b) PROVE Bits5And6(v) = Bits5And6(w)
  <2>1. (Bit(v, 5) <=> Bit(w, 5)) /\ (Bit(v, 6) <=> Bit(w, 6))
    BY <1>6
  <2> QED
    BY <1>2, <1>3, <1>4, <2>1 DEF Bits5And6
<1>7. ASSUME \A b \in 8 .. 9 : Bit(v, b) <=> Bit(w, b) PROVE Bits8And9(v) = Bits8And9(w)
  <2>1. (Bit(v, 8) <=> Bit(w, 8)) /\ (Bit(v, 9) <=> Bit(w, 9))
    BY <1>7
  <2> QED
    BY <1>2, <1>3, <1>4, <2>1 DEF Bits8And9
<1> QED
  BY <1>5, <1>6, <1>7

(***************************************************************************)
(* The answers that share a word: the configuration of a cache, and the    *)
(* base address of an IPMI device.                                         *)
(***************************************************************************)

LEMMA ConfigurationRead ==
    ASSUME NEW r, r.type = 7
    PROVE  Decode(r).configuration = Or(_u16(r.formatted, 1), 0)
<1> DEFINE strings == [socket_designation |-> 0]
           bytes == [error_correction |-> 12, system_cache_type |-> 13, associativity |-> 14]
           words == [configuration |-> 1, supported_sram_types |-> 7, current_sram_type |-> 9]
           front == Handle(r) ++ StringFields(r, strings) ++ ByteFields(r, bytes)
                        ++ WordFields(r, words)
<1>1. "configuration" \in DOMAIN front /\ front.configuration = Or(_u16(r.formatted, 1), 0)
  BY DEF ++, Handle, StringFields, ByteFields, WordFields
<1>2. \E optional, rest : Decode(r) = front ++ optional ++ rest
  BY DEF Decode, parse_cache
<1> HIDE DEF front
<1>3. \A o, t : \A x \in DOMAIN front : (front ++ o ++ t)[x] = front[x]
  BY DEF ++
<1> QED
  BY <1>1, <1>2, <1>3

LEMMA CacheAnswer ==
    ASSUME NEW d, NEW e, NEW owner, \A x \in Asked(7) : x = owner \/ e[x] = d[x],
           NEW b, e.configuration = d.configuration \/ WordTurned(d.configuration, e.configuration, b)
    PROVE  OneAnswer(7, d, e)
<1> DEFINE v == d.configuration
           w == e.configuration
           level(c) == ConfigurationBits(c, 0, 3) + 1
           socket(c) == Bit(c.configuration, 3)
           enabled(c) == Bit(c.configuration, 7)
           location(c) == cache_location_name(ConfigurationBits(c, 5, 2))
           mode(c) == cache_operational_mode_name(ConfigurationBits(c, 8, 2))
           ecc(c) == cache_error_correction_name(c.error_correction)
           system(c) == cache_system_type_name(c.system_cache_type)
           ways(c) == cache_associativity_name(c.associativity)
           supported(c) == cache_sram_type_names(c.supported_sram_types)
           current(c) == cache_sram_type_names(c.current_sram_type)
<1>1. /\ \A c : Facts(7, c) = [cache_level |-> level(c), socketed |-> socket(c),
                               enabled_at_boot |-> enabled(c)]
      /\ \A c : Names(7, c) = [location |-> location(c), operational_mode |-> mode(c),
                               error_correction |-> ecc(c), system_cache_type |-> system(c),
                               associativity |-> ways(c)]
      /\ \A c : FeatureLists(7, c) = [supported_sram_types |-> supported(c),
                                      current_sram_types |-> current(c)]
  BY DEF Facts, Names, FeatureLists, cache_level, socketed, enabled_at_boot, location_name,
         operational_mode_name
<1>2. /\ "configuration" = owner \/ w = v
      /\ "error_correction" = owner \/ ecc(e) = ecc(d)
      /\ "system_cache_type" = owner \/ system(e) = system(d)
      /\ "associativity" = owner \/ ways(e) = ways(d)
      /\ "supported_sram_types" = owner \/ supported(e) = supported(d)
      /\ "current_sram_type" = owner \/ current(e) = current(d)
  BY DEF Asked
<1>3. /\ w = v \/ b \in 0 .. 2 \/ level(e) = level(d)
      /\ w = v \/ b = 3 \/ socket(e) = socket(d)
      /\ w = v \/ b \in 5 .. 6 \/ location(e) = location(d)
      /\ w = v \/ b = 7 \/ enabled(e) = enabled(d)
      /\ w = v \/ b \in 8 .. 9 \/ mode(e) = mode(d)
  <2> SUFFICES ASSUME WordTurned(v, w, b)
               PROVE  /\ b \in 0 .. 2 \/ level(e) = level(d)
                      /\ b = 3 \/ socket(e) = socket(d)
                      /\ b \in 5 .. 6 \/ location(e) = location(d)
                      /\ b = 7 \/ enabled(e) = enabled(d)
                      /\ b \in 8 .. 9 \/ mode(e) = mode(d)
    OBVIOUS
  <2>1. /\ v \in Word /\ w \in Word /\ b \in 0 .. 15
        /\ \A i \in 0 .. 15 : i # b => (Bit(w, i) <=> Bit(v, i))
    BY DEF WordTurned
  <2>2. \A c : /\ c.configuration \in Word => ConfigurationBits(c, 0, 3) = Low3(c.configuration)
               /\ ConfigurationBits(c, 5, 2) = Bits5And6(c.configuration)
               /\ ConfigurationBits(c, 8, 2) = Bits8And9(c.configuration)
    <3>1. 2 ^ 0 = 1 /\ 2 ^ 3 = 8 /\ 2 ^ 5 = 32 /\ 2 ^ 2 = 4 /\ 2 ^ 8 = 256
      OBVIOUS
    <3>2. \A n \in Word : n \div 1 = n
      BY DEF Word
    <3> QED
      BY <3>1, <3>2 DEF ConfigurationBits, Low3, Bits5And6, Bits8And9
  <2>3. b \in 0 .. 2 \/ Low3(v) = Low3(w)
    BY <2>1, GroupsOfBits
  <2>4. b \in 5 .. 6 \/ Bits5And6(v) = Bits5And6(w)
    BY <2>1, GroupsOfBits
  <2>5. b \in 8 .. 9 \/ Bits8And9(v) = Bits8And9(w)
    BY <2>1, GroupsOfBits
  <2>6. b = 3 \/ (Bit(v, 3) <=> Bit(w, 3))
    BY <2>1
  <2>7. b = 7 \/ (Bit(v, 7) <=> Bit(w, 7))
    BY <2>1
  <2>8. b \in 0 .. 2 \/ level(e) = level(d)
    BY <2>1, <2>2, <2>3
  <2>9. b \in 5 .. 6 \/ location(e) = location(d)
    BY <2>2, <2>4
  <2>10. b \in 8 .. 9 \/ mode(e) = mode(d)
    BY <2>2, <2>5
  <2>11. b = 3 \/ socket(e) = socket(d)
    BY <2>6 DEF Bit
  <2>12. b = 7 \/ enabled(e) = enabled(d)
    BY <2>7 DEF Bit
  <2> QED
    BY <2>8, <2>9, <2>10, <2>11, <2>12
<1>4. w = v => /\ level(e) = level(d) /\ socket(e) = socket(d) /\ location(e) = location(d)
               /\ enabled(e) = enabled(d) /\ mode(e) = mode(d)
  BY DEF ConfigurationBits
<1> DEFINE A == Differing(Facts(7, d), Facts(7, e))
           B == Differing(Names(7, d), Names(7, e))
           C == Differing(FeatureLists(7, d), FeatureLists(7, e))
<1> HIDE DEF v, w, level, socket, enabled, location, mode, ecc, system, ways, supported, current
<1>5. /\ A \subseteq {"cache_level", "socketed", "enabled_at_boot"}
      /\ "cache_level" \in A => owner = "configuration" /\ b \in 0 .. 2
      /\ "socketed" \in A => owner = "configuration" /\ b = 3
      /\ "enabled_at_boot" \in A => owner = "configuration" /\ b = 7
  BY <1>1, <1>2, <1>3, <1>4 DEF Differing
<1>6. /\ B \subseteq {"location", "operational_mode", "error_correction", "system_cache_type",
                      "associativity"}
      /\ "location" \in B => owner = "configuration" /\ b \in 5 .. 6
      /\ "operational_mode" \in B => owner = "configuration" /\ b \in 8 .. 9
      /\ \A x \in B : x \in {"location", "operational_mode"} \/ x = owner
  BY <1>1, <1>2, <1>3, <1>4 DEF Differing
<1>7. /\ C \subseteq {"supported_sram_types", "current_sram_types"}
      /\ "supported_sram_types" \in C => owner = "supported_sram_types"
      /\ "current_sram_types" \in C => owner = "current_sram_type"
  BY <1>1, <1>2 DEF Differing
<1> HIDE DEF A, B, C
<1>8. OneOfThree(A, B, C)
  <2>1. CASE owner = "configuration"
    <3>1. C = {} /\ B \subseteq {"location", "operational_mode"}
      BY <1>6, <1>7, <2>1
    <3>2. CASE B = {}
      BY <1>5, <3>1, <3>2 DEF OneOfThree
    <3>3. CASE B # {}
      <4>1. A = {}
        <5>1. b \in 5 .. 6 \/ b \in 8 .. 9
          BY <1>6, <3>1, <3>3
        <5>2. ~ (b \in 0 .. 2) /\ b # 3 /\ b # 7
          BY ONLY <5>1
        <5> QED
          BY <1>5, <5>2
      <4>2. B \subseteq {"location"} \/ B \subseteq {"operational_mode"}
        BY <1>6, <3>1
      <4> QED
        BY <3>1, <4>1, <4>2 DEF OneOfThree
    <3> QED
      BY <3>2, <3>3
  <2>2. CASE owner \in {"supported_sram_types", "current_sram_type"}
    <3>1. A = {} /\ B = {}
      BY <1>5, <1>6, <2>2
    <3>2. C \subseteq {"supported_sram_types"} \/ C \subseteq {"current_sram_types"}
      BY <1>7, <2>2
    <3> QED
      BY <3>1, <3>2 DEF OneOfThree
  <2>3. CASE owner \notin {"configuration", "supported_sram_types", "current_sram_type"}
    <3>1. A = {} /\ C = {} /\ B \subseteq {owner}
      BY <1>5, <1>6, <1>7, <2>3
    <3> QED
      BY <3>1 DEF OneOfThree
  <2> QED
    BY <2>1, <2>2, <2>3
<1> QED
  BY <1>8 DEF OneAnswer, A, B, C

LEMMA BaseAddressRead ==
    ASSUME NEW r, r.type = 38
    PROVE  Decode(r).base_address = Or(_u64(r.formatted, 4), Zero(4))
<1> DEFINE spec_byte == Or(_u8(r.formatted, 1), 0)
           rest == [spec_version_major |-> spec_byte \div 16,
                    spec_version_minor |-> spec_byte % 16,
                    base_address |-> Or(_u64(r.formatted, 4), Zero(4))]
           front == Handle(r) ++ ByteFields(r, [interface_type |-> 0, i2c_slave_address |-> 2,
                        nv_storage_address |-> 3, base_address_modifier |-> 12,
                        interrupt_number |-> 13])
<1>1. Decode(r) = front ++ rest
  BY DEF Decode, parse_ipmi_device
<1>2. "base_address" \notin DOMAIN front
  BY DEF ++, Handle, ByteFields
<1>3. "base_address" \in DOMAIN rest /\ rest.base_address = Or(_u64(r.formatted, 4), Zero(4))
  OBVIOUS
<1> HIDE DEF front, rest
<1> QED
  BY <1>1, <1>2, <1>3 DEF ++

\* The address without its lowest bit, and that bit.
Address(a) == [a EXCEPT ![1] = 2 * (@ \div 2)]
LowBit(a) == Bit(a[1], 0)

LEMMA WordElsewhere ==
    ASSUME NEW r, NEW s, NEW k, AlikeBut(r, s, k), NEW o \in Nat, o + 2 <= Len(r.formatted),
           k \notin o .. o + 1
    PROVE  WordAt(s.formatted, o) = WordAt(r.formatted, o)
<1>1. Len(r.formatted) \in Nat /\ k \in Nat
  BY LengthOfArea DEF AlikeBut
<1>2. /\ o \in Nat /\ o < Len(r.formatted) /\ o # k
      /\ o + 1 \in Nat /\ o + 1 < Len(r.formatted) /\ o + 1 # k
  BY <1>1
<1>3. \A i \in Nat : i < Len(r.formatted) /\ i # k => ByteAt(s.formatted, i) = ByteAt(r.formatted, i)
  BY DEF AlikeBut
<1>4. /\ ByteAt(s.formatted, o) = ByteAt(r.formatted, o)
      /\ ByteAt(s.formatted, o + 1) = ByteAt(r.formatted, o + 1)
  BY <1>2, <1>3
<1> QED
  BY <1>4 DEF WordAt

\* One bit of the base address is either its lowest or not.
LEMMA AddressTurns ==
    ASSUME NEW r, NEW s, NEW k, NEW j, OneBit(r, s, k, j)
    PROVE  LET a(t) == Or(_u64(t.formatted, 4), Zero(4))
           IN  Address(a(s)) = Address(a(r)) \/ (LowBit(a(s)) <=> LowBit(a(r)))
<1> DEFINE f == r.formatted
           g == s.formatted
           a(t) == Or(_u64(t.formatted, 4), Zero(4))
<1>1. /\ Len(f) \in Nat /\ Len(g) = Len(f) /\ k \in Nat /\ k < Len(f) /\ AlikeBut(r, s, k)
      /\ f \in Seq(Byte) /\ g \in Seq(Byte) /\ TurnedRight(ByteAt(f, k), ByteAt(g, k), j)
      /\ j \in 0 .. 7
  BY LengthOfArea DEF OneBit, AlikeBut
<1>2. \A i \in Nat : i < Len(f) => ByteAt(f, i) \in Byte /\ ByteAt(g, i) \in Byte
  BY <1>1, ElementOfSeq DEF ByteAt
<1>3. \A i \in Nat : i < Len(f) /\ i # k => ByteAt(g, i) = ByteAt(f, i)
  BY <1>1 DEF AlikeBut
<1>4. CASE Len(f) < 12
  <2>1. a(r) = Zero(4) /\ a(s) = Zero(4)
    BY <1>1, <1>4 DEF Or, _u64, Words
  <2> HIDE DEF a
  <2>2. Address(a(s)) = Address(a(r))
    BY <2>1
  <2> QED
    BY <2>2 DEF a
<1>5. CASE Len(f) >= 12
  <2> DEFINE words(h) == [i \in 1 .. 4 |-> WordAt(h, 4 + 2 * (i - 1))]
  <2>1. \A i \in 1 .. 4 : WordAt(f, 4 + 2 * (i - 1)) \in Int /\ WordAt(g, 4 + 2 * (i - 1)) \in Int
    <3> SUFFICES ASSUME NEW i \in 1 .. 4
                 PROVE  WordAt(f, 4 + 2 * (i - 1)) \in Int /\ WordAt(g, 4 + 2 * (i - 1)) \in Int
      OBVIOUS
    <3> DEFINE o == 4 + 2 * (i - 1)
    <3>1. o \in Nat /\ o < Len(f) /\ o + 1 \in Nat /\ o + 1 < Len(f)
      BY <1>1, <1>5
    <3> HIDE DEF o
    <3>2. /\ ByteAt(f, o) \in Byte /\ ByteAt(f, o + 1) \in Byte
          /\ ByteAt(g, o) \in Byte /\ ByteAt(g, o + 1) \in Byte
      BY <1>2, <3>1
    <3>3. WordAt(f, o) \in Int /\ WordAt(g, o) \in Int
      BY <3>2, ByteBits DEF WordAt
    <3> QED
      BY <3>3 DEF o
  <2>2. words(f) \in [1 .. 4 -> Int] /\ words(g) \in [1 .. 4 -> Int]
    BY <2>1
  <2>3. _u64(f, 4) = words(f) /\ _u64(g, 4) = words(g)
    BY <1>1, <1>5 DEF _u64, Words
  <2>4. a(r) = words(f) /\ a(s) = words(g)
    BY <2>2, <2>3, NoneIsNoNumber DEF Or
  <2> DEFINE lo(h) == ByteAt(h, 4)
             hi(h) == ByteAt(h, 5)
  <2>5. words(f)[1] = lo(f) + 256 * hi(f) /\ words(g)[1] = lo(g) + 256 * hi(g)
    BY DEF WordAt
  <2>6. lo(f) \in Byte /\ hi(f) \in Byte /\ lo(g) \in Byte /\ hi(g) \in Byte
    BY <1>1, <1>2, <1>5
  <2>7. CASE k = 4 /\ j = 0
    <3>1. hi(g) = hi(f) /\ lo(g) \div 2 = lo(f) \div 2
      BY <1>1, <1>3, <1>5, <2>7 DEF TurnedRight
    <3>2. \A i \in 2 .. 4 : words(g)[i] = words(f)[i]
      <4> SUFFICES ASSUME NEW i \in 2 .. 4
                   PROVE  WordAt(g, 4 + 2 * (i - 1)) = WordAt(f, 4 + 2 * (i - 1))
        OBVIOUS
      <4> DEFINE o == 4 + 2 * (i - 1)
      <4>1. o \in Nat /\ o + 2 <= Len(f) /\ k \notin o .. o + 1
        BY <1>1, <1>5, <2>7
      <4> HIDE DEF o
      <4>2. WordAt(g, o) = WordAt(f, o)
        BY <1>1, <4>1, WordElsewhere
      <4> QED
        BY <4>2 DEF o
    <3>3. words(g)[1] \div 2 = words(f)[1] \div 2
      <4>1. \A m, n \in Byte : (m + 256 * n) \div 2 = (m \div 2) + 128 * n
        BY ByteBits
      <4> HIDE DEF words, lo, hi
      <4> QED
        BY <2>5, <2>6, <3>1, <4>1
    <3> HIDE DEF words
    <3>4. Address(words(g)) = Address(words(f))
      BY <2>2, <3>2, <3>3 DEF Address
    <3> QED
      BY <2>4, <3>4
  <2>8. CASE ~ (k = 4 /\ j = 0)
    <3>1. Bit(lo(g), 0) <=> Bit(lo(f), 0)
      <4>1. 4 \in Nat /\ 4 < Len(f) /\ 0 \in 0 .. 7
        BY <1>1, <1>5
      <4>2. CASE k = 4
        BY <1>1, <2>8, <4>1, <4>2 DEF TurnedRight
      <4>3. CASE k # 4
        BY <1>3, <4>1, <4>3
      <4> QED
        BY <4>2, <4>3
    <3> HIDE DEF words, lo, hi
    <3>2. 0 \in 0 .. 7 /\ \A m, n \in Byte : Bit(m + 256 * n, 0) <=> Bit(m, 0)
      BY BitsOfWord
    <3>3. Bit(words(g)[1], 0) <=> Bit(words(f)[1], 0)
      BY <2>5, <2>6, <3>1, <3>2
    <3> QED
      BY <2>4, <3>3 DEF LowBit
  <2> QED
    BY <2>7, <2>8
<1> QED
  BY <1>1, <1>4, <1>5

LEMMA IPMIAnswer ==
    ASSUME NEW d, NEW e, NEW owner, \A x \in Asked(38) : x = owner \/ e[x] = d[x],
           \/ Address(e.base_address) = Address(d.base_address)
           \/ LowBit(e.base_address) <=> LowBit(d.base_address)
    PROVE  OneAnswer(38, d, e)
<1> DEFINE interface(c) == ipmi_interface_type_name(c.interface_type)
           i2c(c) == i2c_slave_address_canonical(c)
           value(c) == Address(c.base_address)
           mapped(c) == LowBit(c.base_address)
<1>1. /\ \A c : Facts(38, c) = [i2c_slave_address_canonical |-> i2c(c),
                                base_address_value |-> value(c),
                                base_address_io_mapped |-> mapped(c)]
      /\ \A c : Names(38, c) = [interface_type |-> interface(c)]
      /\ \A c : FeatureLists(38, c) = << >>
  BY DEF Facts, Names, FeatureLists, base_address_value, base_address_io_mapped, Address, LowBit
<1>2. /\ "interface_type" = owner \/ interface(e) = interface(d)
      /\ "i2c_slave_address" = owner \/ i2c(e) = i2c(d)
      /\ "base_address" = owner \/ (value(e) = value(d) /\ mapped(e) = mapped(d))
  BY DEF Asked, i2c_slave_address_canonical
<1>3. value(e) = value(d) \/ mapped(e) = mapped(d)
  BY DEF LowBit, Bit
<1> HIDE DEF interface, i2c, value, mapped
<1> DEFINE A == Differing(Facts(38, d), Facts(38, e))
           B == Differing(Names(38, d), Names(38, e))
           C == Differing(FeatureLists(38, d), FeatureLists(38, e))
<1>4. /\ A \subseteq {"i2c_slave_address_canonical", "base_address_value",
                      "base_address_io_mapped"}
      /\ "i2c_slave_address_canonical" \in A => owner = "i2c_slave_address"
      /\ "base_address_value" \in A => owner = "base_address" /\ "base_address_io_mapped" \notin A
      /\ "base_address_io_mapped" \in A => owner = "base_address"
  BY <1>1, <1>2, <1>3 DEF Differing
<1>5. B \subseteq {"interface_type"} /\ ("interface_type" \in B => owner = "interface_type")
  BY <1>1, <1>2 DEF Differing
<1>6. C = {}
  BY <1>1 DEF Differing
<1> HIDE DEF A, B, C
<1>7. OneOfThree(A, B, C)
  <2>1. CASE owner = "interface_type"
    BY <1>4, <1>5, <1>6, <2>1 DEF OneOfThree
  <2>2. CASE owner # "interface_type"
    <3>1. B = {}
      BY <1>5, <2>2
    <3>2. \/ A \subseteq {"i2c_slave_address_canonical"} \/ A \subseteq {"base_address_value"}
          \/ A \subseteq {"base_address_io_mapped"}
      BY <1>4
    <3> QED
      BY <1>6, <3>1, <3>2 DEF OneOfThree
  <2> QED
    BY <2>1, <2>2
<1> QED
  BY <1>7 DEF OneAnswer, A, B, C

LEMMA AnswerBit ==
    ASSUME NEW r, NEW s, NEW k, NEW j, OneBit(r, s, k, j)
    PROVE  OneAnswer(r.type, Decode(r), Decode(s))
<1>1. r.type \in {0, 1, 2, 3, 4, 7, 9, 16, 17, 38, 43} /\ s.type = r.type
  BY DEF OneBit, AlikeBut, RawStructure
<1>2. CASE r.type \in {0, 1, 2, 3, 16, 43}
  BY <1>2, FewAnswers
<1>3. CASE r.type \in {4, 7, 9, 17, 38}
  <2>1. PICK owner : \A x \in Asked(r.type) : x = owner \/ Decode(s)[x] = Decode(r)[x]
    BY <1>3, OneAsked
  <2>2. CASE r.type = 4
    BY <2>1, <2>2, ProcessorAnswer
  <2>3. CASE r.type = 9
    BY <2>1, <2>3, SystemSlotAnswer
  <2>4. CASE r.type = 17
    BY <2>1, <2>4, MemoryDeviceAnswer
  <2>5. CASE r.type = 7
    <3>1. /\ Decode(r).configuration = Or(_u16(r.formatted, 1), 0)
          /\ Decode(s).configuration = Or(_u16(s.formatted, 1), 0)
      BY <1>1, <2>5, ConfigurationRead
    <3>2. FieldTurns(Decode(r).configuration, Decode(s).configuration, 1, k, j)
      BY <3>1, WordTurns
    <3>3. \E b : \/ Decode(s).configuration = Decode(r).configuration
                 \/ WordTurned(Decode(r).configuration, Decode(s).configuration, b)
      BY <3>2 DEF FieldTurns
    <3> QED
      BY <2>1, <2>5, <3>3, CacheAnswer
  <2>6. CASE r.type = 38
    <3>1. /\ Decode(r).base_address = Or(_u64(r.formatted, 4), Zero(4))
          /\ Decode(s).base_address = Or(_u64(s.formatted, 4), Zero(4))
      BY <1>1, <2>6, BaseAddressRead
    <3>2. \/ Address(Decode(s).base_address) = Address(Decode(r).base_address)
          \/ LowBit(Decode(s).base_address) <=> LowBit(Decode(r).base_address)
      BY <3>1, AddressTurns
    <3> QED
      BY <2>1, <2>6, <3>2, IPMIAnswer
  <2> QED
    BY <1>3, <2>2, <2>3, <2>4, <2>5, <2>6
<1> QED
  BY <1>1, <1>2, <1>3

\* No bit answers two questions: a step changes one derived property, one name or one
\* list of names at most (models.py, lines 129-361, enums.py, lines 579-861).
THEOREM OneBitAnswersOnce == Spec => OneBitOneAnswer
<1> DEFINE Change(A, B, C) == Cardinality(A) + Cardinality(B) + Cardinality(C) <= 1
           Fine == Change(Differing(Facts(raw.type, Decode(raw)), Facts(raw.type, Decode(raw'))),
                          Differing(Names(raw.type, Decode(raw)), Names(raw.type, Decode(raw'))),
                          Differing(FeatureLists(raw.type, Decode(raw)),
                                    FeatureLists(raw.type, Decode(raw'))))
<1>1. RawOK /\ [Next]_vars => [Fine]_vars
  <2> SUFFICES ASSUME RawOK, [Next]_vars PROVE Fine
    OBVIOUS
  <2>1. CASE raw' = raw
    <3>1. /\ Differing(Facts(raw.type, Decode(raw)), Facts(raw.type, Decode(raw'))) = {}
          /\ Differing(Names(raw.type, Decode(raw)), Names(raw.type, Decode(raw'))) = {}
          /\ Differing(FeatureLists(raw.type, Decode(raw)),
                       FeatureLists(raw.type, Decode(raw'))) = {}
      BY <2>1 DEF Differing
    <3>2. OneOfThree({}, {}, {})
      BY DEF OneOfThree
    <3>3. Change({}, {}, {})
      BY <3>2, OneOfThreeCounted
    <3> HIDE DEF Change
    <3> QED
      BY <3>1, <3>3
  <2>2. ASSUME NEW k, NEW j, OneBit(raw, raw', k, j) PROVE Fine
    BY <2>2, AnswerBit, OneOfThreeCounted DEF OneAnswer
  <2> QED
    BY <2>1, <2>2, OneBitAtATime
<1> QED
  BY <1>1, AlwaysRawOK, PTL DEF Spec, OneBitOneAnswer

(***************************************************************************)
(* Numbers in ascending order: one number more is one element more.        *)
(***************************************************************************)

\* How many members of S there are up to x.
Rank(S, x) == Cardinality({y \in S : y <= x})

LEMMA Ranks ==
    ASSUME NEW S \in SUBSET Int, IsFiniteSet(S)
    PROVE  /\ Cardinality(S) \in Nat
           /\ \A x \in S : Rank(S, x) \in 1 .. Cardinality(S)
           /\ \A x, z \in S : x < z => Rank(S, x) < Rank(S, z)
<1>1. Cardinality(S) \in Nat
  BY FS_CardinalityType
<1>2. ASSUME NEW x \in S PROVE Rank(S, x) \in 1 .. Cardinality(S)
  <2> DEFINE U == {y \in S : y <= x}
  <2>1. U \in SUBSET S /\ {x} \in SUBSET U
    OBVIOUS
  <2>2. IsFiniteSet(U) /\ Cardinality(U) <= Cardinality(S)
    BY <2>1, FS_Subset
  <2>3. Cardinality({x}) <= Cardinality(U) /\ Cardinality({x}) = 1
    BY <2>1, <2>2, FS_Subset, FS_Singleton
  <2>4. Cardinality(U) \in Nat
    BY <2>2, FS_CardinalityType
  <2> HIDE DEF U
  <2>5. Cardinality(U) \in 1 .. Cardinality(S)
    BY <1>1, <2>2, <2>3, <2>4
  <2> QED
    BY <2>5 DEF Rank, U
<1>3. ASSUME NEW x \in S, NEW z \in S, x < z PROVE Rank(S, x) < Rank(S, z)
  <2> DEFINE U == {y \in S : y <= x}
             V == {y \in S : y <= z}
  <2>0. x \in Int /\ z \in Int /\ \A y \in S : y \in Int
    OBVIOUS
  <2>1. U \in SUBSET V /\ z \in V /\ z \notin U
    <3>1. \A y \in S : y <= x => y <= z
      BY <1>3, <2>0
    <3>2. z <= z /\ ~ (z <= x)
      BY <1>3, <2>0
    <3> QED
      BY <3>1, <3>2
  <2>2. IsFiniteSet(V)
    <3>1. V \in SUBSET S
      OBVIOUS
    <3> QED
      BY <3>1, FS_Subset
  <2>3. Cardinality(U) <= Cardinality(V) /\ (Cardinality(U) = Cardinality(V) => V = U)
        /\ IsFiniteSet(U)
    BY <2>1, <2>2, FS_Subset
  <2>4. Cardinality(U) \in Nat /\ Cardinality(V) \in Nat
    BY <2>2, <2>3, FS_CardinalityType
  <2> HIDE DEF U, V
  <2>5. Cardinality(U) < Cardinality(V)
    BY <2>1, <2>3, <2>4
  <2> QED
    BY <2>5 DEF Rank, U, V
<1> QED
  BY <1>1, <1>2, <1>3

\* The n-th member of S in ascending order is the one of rank n.
LEMMA NthMember ==
    ASSUME NEW S \in SUBSET Int, IsFiniteSet(S)
    PROVE  /\ Ascending(S) \in Seq(S) /\ Len(Ascending(S)) = Cardinality(S)
           /\ \A n \in 1 .. Cardinality(S) : /\ Ascending(S)[n] \in S
                                             /\ Rank(S, Ascending(S)[n]) = n
           /\ \A x \in S : Ascending(S)[Rank(S, x)] = x
<1> DEFINE c == Cardinality(S)
           rank == [x \in S |-> Rank(S, x)]
           list == [n \in 1 .. c |-> CHOOSE x \in S : Rank(S, x) = n]
<1>1. /\ c \in Nat
      /\ \A x \in S : Rank(S, x) \in 1 .. c
      /\ \A x, z \in S : x < z => Rank(S, x) < Rank(S, z)
  BY Ranks
<1>2. \A x, z \in S : Rank(S, x) = Rank(S, z) => x = z
  <2> SUFFICES ASSUME NEW x \in S, NEW z \in S, x # z PROVE Rank(S, x) # Rank(S, z)
    OBVIOUS
  <2>1. x \in Int /\ z \in Int /\ Rank(S, x) \in Int /\ Rank(S, z) \in Int
    BY <1>1
  <2> QED
    BY <1>1, <2>1
<1>3. rank \in Injection(S, 1 .. c)
  BY <1>1, <1>2 DEF Injection, IsInjective
<1>4. IsFiniteSet(1 .. c) /\ Cardinality(1 .. c) = c
  <2>1. 1 \in Int /\ c \in Int /\ (IF 1 > c THEN 0 ELSE c - 1 + 1) = c
    BY <1>1
  <2> HIDE DEF c
  <2> QED
    BY <2>1, FS_Interval
<1>5. rank \in Surjection(S, 1 .. c)
  <2> HIDE DEF rank
  <2> QED
    BY <1>3, <1>4, FS_Injection
<1>6. \A n \in 1 .. c : \E x \in S : Rank(S, x) = n
  BY <1>5 DEF Surjection
<1>7. Ascending(S) = list
  BY DEF Ascending, Rank
<1> HIDE DEF c
<1>8. ASSUME NEW n \in 1 .. c PROVE list[n] \in S /\ Rank(S, list[n]) = n
  BY <1>6
<1>9. list \in Seq(S) /\ Len(list) = c
  BY <1>1, <1>8
<1>10. ASSUME NEW x \in S PROVE list[Rank(S, x)] = x
  <2> HIDE DEF list
  <2>1. Rank(S, x) \in 1 .. c
    BY <1>1
  <2>2. list[Rank(S, x)] \in S /\ Rank(S, list[Rank(S, x)]) = Rank(S, x)
    BY <1>8, <2>1
  <2> QED
    BY <1>2, <2>2
<1> HIDE DEF list
<1> QED
  BY <1>7, <1>8, <1>9, <1>10 DEF c

\* s is l without its i-th element.
Without(s, l, i) ==
    /\ i \in 1 .. Len(l) /\ Len(l) = Len(s) + 1
    /\ \A n \in 1 .. Len(s) : s[n] = IF n < i THEN l[n] ELSE l[n + 1]

LEMMA OneNumberMore ==
    ASSUME NEW S \in SUBSET Int, IsFiniteSet(S), NEW e \in Int, e \notin S
    PROVE  \E i : Without(Ascending(S), Ascending(S \cup {e}), i)
<1> DEFINE T == S \cup {e}
           s == Ascending(S)
           l == Ascending(T)
           i == Rank(T, e)
<1>1. T \in SUBSET Int /\ IsFiniteSet(T) /\ Cardinality(T) = Cardinality(S) + 1 /\ e \in T
  BY FS_AddElement
<1>2. /\ Cardinality(S) \in Nat
      /\ \A x \in S : Rank(S, x) \in 1 .. Cardinality(S)
  BY Ranks
<1> HIDE DEF T
<1>3. /\ \A x \in T : Rank(T, x) \in 1 .. Cardinality(T)
      /\ \A x, z \in T : x < z => Rank(T, x) < Rank(T, z)
  BY <1>1, Ranks
<1>4. /\ s \in Seq(S) /\ Len(s) = Cardinality(S)
      /\ \A n \in 1 .. Cardinality(S) : s[n] \in S /\ Rank(S, s[n]) = n
  BY NthMember
<1>5. /\ l \in Seq(T) /\ Len(l) = Cardinality(T)
      /\ \A x \in T : l[Rank(T, x)] = x
  BY <1>1, NthMember
<1>6. ASSUME NEW x \in S
      PROVE  Rank(T, x) = IF e < x THEN Rank(S, x) + 1 ELSE Rank(S, x)
  <2> DEFINE U == {y \in S : y <= x}
             V == {y \in T : y <= x}
  <2>1. U \in SUBSET S /\ e \notin U
    OBVIOUS
  <2>2. IsFiniteSet(U)
    BY <2>1, FS_Subset
  <2>3. CASE e < x
    <3>1. V = U \cup {e}
      BY <2>3 DEF T
    <3>2. Cardinality(U \cup {e}) = Cardinality(U) + 1
      BY <2>1, <2>2, FS_AddElement
    <3> HIDE DEF U, V
    <3>3. Cardinality(V) = Cardinality(U) + 1
      BY <3>1, <3>2
    <3> QED
      BY <2>3, <3>3 DEF Rank, U, V
  <2>4. CASE ~ (e < x)
    <3>1. V = U
      BY <2>4 DEF T
    <3> QED
      BY <2>4, <3>1 DEF Rank
  <2> QED
    BY <2>3, <2>4
<1>7. ASSUME NEW n \in 1 .. Len(s) PROVE s[n] = IF n < i THEN l[n] ELSE l[n + 1]
  <2> DEFINE x == s[n]
  <2>1. x \in S /\ Rank(S, x) = n /\ x \in T /\ x # e /\ x \in Int
    BY <1>4 DEF T
  <2> HIDE DEF x, s, l
  <2>2. i \in Int /\ n \in Int /\ Rank(T, x) \in Int
    BY <1>1, <1>2, <1>3, <1>4, <2>1
  <2>3. CASE e < x
    <3>1. Rank(T, x) = n + 1 /\ i < n + 1
      BY <1>1, <1>3, <1>6, <2>1, <2>3
    <3>2. ~ (n < i)
      BY <2>2, <3>1
    <3> QED
      BY <1>5, <2>1, <3>1, <3>2 DEF x
  <2>4. CASE x < e
    <3>1. ~ (e < x)
      BY <2>1, <2>4
    <3>2. Rank(T, x) = n /\ n < i
      BY <1>1, <1>3, <1>6, <2>1, <2>4, <3>1
    <3> QED
      BY <1>5, <2>1, <3>2 DEF x
  <2> QED
    BY <2>1, <2>3, <2>4
<1>8. i \in 1 .. Len(l) /\ Len(l) = Len(s) + 1
  BY <1>1, <1>2, <1>3, <1>4, <1>5
<1> HIDE DEF s, l, i
<1>9. Without(s, l, i)
  BY <1>7, <1>8 DEF Without
<1> QED
  BY <1>9 DEF s, l, T

(***************************************************************************)
(* One element more, in a list and in a part of it.                        *)
(***************************************************************************)

LEMMA WithoutOneMore ==
    ASSUME NEW E, NEW s \in Seq(E), NEW l \in Seq(E), NEW i, Without(s, l, i)
    PROVE  OneMore(s, l)
<1> DEFINE front == SubSeq(l, 1, i - 1)
           back == SubSeq(l, i + 1, Len(l))
<1>1. /\ Len(l) \in Nat /\ Len(s) \in Nat /\ i \in 1 .. Len(l) /\ Len(l) = Len(s) + 1
      /\ \A n \in 1 .. Len(s) : s[n] = IF n < i THEN l[n] ELSE l[n + 1]
  BY LenProperties DEF Without
<1>2. /\ front \in Seq(E) /\ Len(front) = i - 1
      /\ \A n \in 1 .. i - 1 : front[n] = l[n]
  BY <1>1
<1>3. /\ back \in Seq(E) /\ Len(back) = Len(l) - i
      /\ \A n \in 1 .. Len(l) - i : back[n] = l[i + n]
  BY <1>1
<1> HIDE DEF front, back
<1> DEFINE t == front \o back
<1>4. /\ t \in Seq(E) /\ Len(t) = Len(front) + Len(back)
      /\ \A n \in 1 .. Len(front) + Len(back) :
            t[n] = IF n <= Len(front) THEN front[n] ELSE back[n - Len(front)]
  BY <1>2, <1>3, ConcatProperties
<1> HIDE DEF t
<1>5. Len(t) = Len(s)
  BY <1>1, <1>2, <1>3, <1>4
<1>6. ASSUME NEW n \in 1 .. Len(s) PROVE t[n] = s[n]
  <2>1. CASE n < i
    <3>1. /\ n \in 1 .. Len(front) + Len(back) /\ n <= Len(front)
          /\ n \in 1 .. i - 1
      BY <1>1, <1>2, <1>3, <2>1
    <3>2. t[n] = front[n] /\ front[n] = l[n]
      BY <1>2, <1>4, <3>1
    <3> QED
      BY <1>1, <2>1, <3>2
  <2>2. CASE ~ (n < i)
    <3>1. /\ n \in 1 .. Len(front) + Len(back) /\ ~ (n <= Len(front))
          /\ n - Len(front) \in 1 .. Len(l) - i /\ i + (n - Len(front)) = n + 1
      BY <1>1, <1>2, <1>3, <2>2
    <3> QED
      BY <1>1, <1>3, <1>4, <2>2, <3>1
  <2> QED
    BY <2>1, <2>2
<1>7. t = s
  BY <1>4, <1>5, <1>6, SeqEqual
<1>8. i \in DOMAIN l
  BY <1>1, LenProperties
<1> QED
  BY <1>7, <1>8 DEF OneMore, RemoveAt, t, front, back

LEMMA WithoutInside ==
    ASSUME NEW E, NEW a \in Seq(E), NEW b \in Seq(E), NEW s \in Seq(E), NEW l \in Seq(E),
           NEW i, Without(s, l, i)
    PROVE  Without(a \o s \o b, a \o l \o b, Len(a) + i)
<1> DEFINE x == a \o s \o b
           y == a \o l \o b
<1>1. /\ Len(a) \in Nat /\ Len(b) \in Nat /\ Len(s) \in Nat /\ Len(l) \in Nat
      /\ i \in 1 .. Len(l) /\ Len(l) = Len(s) + 1
      /\ \A n \in 1 .. Len(s) : s[n] = IF n < i THEN l[n] ELSE l[n + 1]
  BY LenProperties DEF Without
<1>2. ASSUME NEW t \in Seq(E)
      PROVE  /\ Len(a \o t \o b) = Len(a) + Len(t) + Len(b)
             /\ \A n \in 1 .. Len(a) + Len(t) + Len(b) :
                   (a \o t \o b)[n] = IF n <= Len(a) THEN a[n]
                                      ELSE IF n <= Len(a) + Len(t) THEN t[n - Len(a)]
                                      ELSE b[n - (Len(a) + Len(t))]
  <2>1. /\ a \o t \in Seq(E) /\ Len(a \o t) = Len(a) + Len(t) /\ Len(t) \in Nat
        /\ \A n \in 1 .. Len(a) + Len(t) :
              (a \o t)[n] = IF n <= Len(a) THEN a[n] ELSE t[n - Len(a)]
    BY ConcatProperties, LenProperties
  <2> DEFINE u == a \o t
             c == a \o t \o b
  <2>2. /\ Len(u \o b) = Len(u) + Len(b)
        /\ \A n \in 1 .. Len(u) + Len(b) :
              (u \o b)[n] = IF n <= Len(u) THEN u[n] ELSE b[n - Len(u)]
    BY <2>1, ConcatProperties
  <2>3. c = u \o b
    OBVIOUS
  <2> HIDE DEF u, c
  <2>4. /\ Len(c) = Len(a) + Len(t) + Len(b)
        /\ \A n \in 1 .. Len(a) + Len(t) + Len(b) :
              c[n] = IF n <= Len(a) + Len(t) THEN u[n] ELSE b[n - (Len(a) + Len(t))]
    BY <1>1, <2>1, <2>2, <2>3 DEF u
  <2>5. \A n \in 1 .. Len(a) + Len(t) : u[n] = IF n <= Len(a) THEN a[n] ELSE t[n - Len(a)]
    BY <2>1 DEF u
  <2>6. ASSUME NEW n \in 1 .. Len(a) + Len(t) + Len(b)
        PROVE  c[n] = IF n <= Len(a) THEN a[n]
                      ELSE IF n <= Len(a) + Len(t) THEN t[n - Len(a)]
                      ELSE b[n - (Len(a) + Len(t))]
    <3>1. CASE n <= Len(a) + Len(t)
      <4>1. n \in 1 .. Len(a) + Len(t) /\ c[n] = u[n]
        BY <1>1, <2>1, <2>4, <3>1
      <4>2. u[n] = IF n <= Len(a) THEN a[n] ELSE t[n - Len(a)]
        BY <2>5, <4>1
      <4> QED
        BY <3>1, <4>1, <4>2
    <3>2. CASE ~ (n <= Len(a) + Len(t))
      BY <1>1, <2>1, <2>4, <3>2
    <3> QED
      BY <3>1, <3>2
  <2> QED
    BY <2>4, <2>6 DEF c
<1>3. /\ Len(x) = Len(a) + Len(s) + Len(b)
      /\ \A n \in 1 .. Len(a) + Len(s) + Len(b) :
            x[n] = IF n <= Len(a) THEN a[n]
                   ELSE IF n <= Len(a) + Len(s) THEN s[n - Len(a)]
                   ELSE b[n - (Len(a) + Len(s))]
  BY <1>2
<1>4. /\ Len(y) = Len(a) + Len(l) + Len(b)
      /\ \A n \in 1 .. Len(a) + Len(l) + Len(b) :
            y[n] = IF n <= Len(a) THEN a[n]
                   ELSE IF n <= Len(a) + Len(l) THEN l[n - Len(a)]
                   ELSE b[n - (Len(a) + Len(l))]
  BY <1>2
<1> HIDE DEF x, y
<1>5. ASSUME NEW n \in 1 .. Len(x)
      PROVE  x[n] = IF n < Len(a) + i THEN y[n] ELSE y[n + 1]
  <2>0. /\ n \in 1 .. Len(a) + Len(s) + Len(b) /\ n \in 1 .. Len(a) + Len(l) + Len(b)
        /\ n + 1 \in 1 .. Len(a) + Len(l) + Len(b)
    BY <1>1, <1>3
  <2>1. CASE n <= Len(a)
    <3>1. x[n] = a[n] /\ y[n] = a[n] /\ n < Len(a) + i
      BY <1>1, <1>3, <1>4, <2>0, <2>1
    <3> QED
      BY <3>1
  <2>2. CASE ~ (n <= Len(a)) /\ n <= Len(a) + Len(s)
    <3> DEFINE m == n - Len(a)
    <3>1. m \in 1 .. Len(s) /\ x[n] = s[m]
      BY <1>1, <1>3, <2>0, <2>2
    <3>2. y[n] = l[m]
      BY <1>1, <1>4, <2>0, <2>2, SMTT(30)
    <3>3. y[n + 1] = l[m + 1]
      <4>1. ~ (n + 1 <= Len(a)) /\ n + 1 <= Len(a) + Len(l) /\ n + 1 - Len(a) = m + 1
        BY <1>1, <2>0, <2>2
      <4> HIDE DEF m
      <4> QED
        BY <1>4, <2>0, <4>1
    <3>4. m < i <=> n < Len(a) + i
      BY <1>1, <2>0
    <3> HIDE DEF m
    <3> QED
      BY <1>1, <3>1, <3>2, <3>3, <3>4
  <2>3. CASE ~ (n <= Len(a) + Len(s))
    <3>1. x[n] = b[n - (Len(a) + Len(s))]
      BY <1>1, <1>3, <2>0, <2>3
    <3>2. /\ ~ (n + 1 <= Len(a)) /\ ~ (n + 1 <= Len(a) + Len(l))
          /\ n + 1 - (Len(a) + Len(l)) = n - (Len(a) + Len(s)) /\ ~ (n < Len(a) + i)
      BY <1>1, <2>0, <2>3
    <3>3. y[n + 1] = b[n - (Len(a) + Len(s))]
      BY <1>4, <2>0, <3>2
    <3> QED
      BY <3>1, <3>2, <3>3
  <2> QED
    BY <1>1, <2>0, <2>1, <2>2, <2>3
<1>6. Len(a) + i \in 1 .. Len(y) /\ Len(y) = Len(x) + 1
  BY <1>1, <1>3, <1>4
<1>7. Without(x, y, Len(a) + i)
  BY <1>5, <1>6 DEF Without
<1> QED
  BY <1>7 DEF x, y

\* A feature is a table and a bit of it.
Tables == {"qword", "byte 1", "byte 2"}
Feature == Tables \X Int

LEMMA FeaturesOf ==
    ASSUME NEW t \in Tables, NEW l \in Seq(Int)
    PROVE  /\ Features(t, l) \in Seq(Feature) /\ Len(Features(t, l)) = Len(l)
           /\ \A n \in 1 .. Len(l) : Features(t, l)[n] = << t, l[n] >>
<1>1. Len(l) \in Nat /\ DOMAIN l = 1 .. Len(l) /\ \A n \in 1 .. Len(l) : l[n] \in Int
  BY LenProperties, ElementOfSeq
<1>2. \A n \in 1 .. Len(l) : << t, l[n] >> \in Feature
  BY <1>1 DEF Feature
<1>3. Features(t, l) = [n \in 1 .. Len(l) |-> << t, l[n] >>]
  BY <1>1 DEF Features
<1> DEFINE entry == [n \in 1 .. Len(l) |-> << t, l[n] >>]
<1>4. entry \in [1 .. Len(l) -> Feature]
  BY <1>2
<1>5. \A n \in 1 .. Len(l) : entry[n] = << t, l[n] >>
  OBVIOUS
<1> HIDE DEF entry
<1>6. entry \in Seq(Feature) /\ Len(entry) = Len(l)
  <2>1. entry \in Seq(Feature)
    BY <1>1, <1>4
  <2>2. Len(entry) = Len(l)
    BY <1>1, <1>4
  <2> QED
    BY <2>1, <2>2
<1> QED
  BY <1>3, <1>5, <1>6 DEF entry

LEMMA WithoutFeature ==
    ASSUME NEW t \in Tables, NEW s \in Seq(Int), NEW l \in Seq(Int),
           NEW i, Without(s, l, i)
    PROVE  Without(Features(t, s), Features(t, l), i)
<1> DEFINE x == Features(t, s)
           y == Features(t, l)
<1>1. /\ Len(s) \in Nat /\ i \in 1 .. Len(l) /\ Len(l) = Len(s) + 1
      /\ \A n \in 1 .. Len(s) : s[n] = IF n < i THEN l[n] ELSE l[n + 1]
  BY LenProperties DEF Without
<1>2. Len(x) = Len(s) /\ \A n \in 1 .. Len(s) : x[n] = << t, s[n] >>
  BY FeaturesOf
<1>3. Len(y) = Len(l) /\ \A n \in 1 .. Len(l) : y[n] = << t, l[n] >>
  BY FeaturesOf
<1> HIDE DEF x, y
<1>4. ASSUME NEW n \in 1 .. Len(s) PROVE x[n] = IF n < i THEN y[n] ELSE y[n + 1]
  <2>0. Len(s) \in Nat /\ Len(l) = Len(s) + 1
    BY <1>1
  <2>1. n \in 1 .. Len(l) /\ n + 1 \in 1 .. Len(l)
    BY <2>0
  <2>2. x[n] = << t, s[n] >> /\ y[n] = << t, l[n] >> /\ y[n + 1] = << t, l[n + 1] >>
    BY <1>2, <1>3, <2>1
  <2>3. s[n] = IF n < i THEN l[n] ELSE l[n + 1]
    BY <1>1
  <2> QED
    BY <2>2, <2>3
<1>5. Without(x, y, i)
  BY <1>1, <1>2, <1>3, <1>4 DEF Without
<1> QED
  BY <1>5 DEF x, y

\* One list is the other, or the other with one element more.
Alter(E, s, l) ==
    /\ s \in Seq(E) /\ l \in Seq(E)
    /\ s = l \/ (\E i : Without(s, l, i)) \/ (\E i : Without(l, s, i))

LEMMA AlterInserted ==
    ASSUME NEW E, NEW s, NEW l, Alter(E, s, l)
    PROVE  Inserted(s, l)
BY WithoutOneMore DEF Alter, Inserted

LEMMA AlterInside ==
    ASSUME NEW E, NEW a \in Seq(E), NEW b \in Seq(E), NEW s, NEW l, Alter(E, s, l)
    PROVE  Alter(E, a \o s \o b, a \o l \o b)
<1>1. s \in Seq(E) /\ l \in Seq(E)
  BY DEF Alter
<1>2. a \o s \o b \in Seq(E) /\ a \o l \o b \in Seq(E)
  <2>1. a \o s \in Seq(E) /\ a \o l \in Seq(E)
    BY <1>1, ConcatProperties
  <2> QED
    BY <2>1, ConcatProperties
<1>3. CASE s = l
  BY <1>2, <1>3 DEF Alter
<1>4. ASSUME NEW i, Without(s, l, i) PROVE Alter(E, a \o s \o b, a \o l \o b)
  <2>1. Without(a \o s \o b, a \o l \o b, Len(a) + i)
    BY <1>1, <1>4, WithoutInside
  <2> QED
    BY <1>2, <2>1 DEF Alter
<1>5. ASSUME NEW i, Without(l, s, i) PROVE Alter(E, a \o s \o b, a \o l \o b)
  <2>1. Without(a \o l \o b, a \o s \o b, Len(a) + i)
    BY <1>1, <1>5, WithoutInside
  <2> QED
    BY <1>2, <2>1 DEF Alter
<1> QED
  BY <1>3, <1>4, <1>5 DEF Alter

LEMMA AlterFeatures ==
    ASSUME NEW t \in Tables, NEW s, NEW l, Alter(Int, s, l)
    PROVE  Alter(Feature, Features(t, s), Features(t, l))
<1>1. s \in Seq(Int) /\ l \in Seq(Int)
  BY DEF Alter
<1>2. Features(t, s) \in Seq(Feature) /\ Features(t, l) \in Seq(Feature)
  BY <1>1, FeaturesOf
<1>3. s = l \/ (\E i : Without(s, l, i)) \/ (\E i : Without(l, s, i))
  BY DEF Alter
<1> QED
  BY <1>1, <1>2, <1>3, WithoutFeature DEF Alter

\* One number more or less in a set alters its list.
LEMMA AlterAscending ==
    ASSUME NEW S \in SUBSET Int, NEW T \in SUBSET Int, IsFiniteSet(S), IsFiniteSet(T),
           NEW e \in Int, S \ {e} = T \ {e}
    PROVE  Alter(Int, Ascending(S), Ascending(T))
<1>1. Ascending(S) \in Seq(Int) /\ Ascending(T) \in Seq(Int)
  <2>1. Ascending(S) \in Seq(S) /\ Ascending(T) \in Seq(T)
    BY NthMember
  <2>2. S \subseteq Int /\ T \subseteq Int
    OBVIOUS
  <2> QED
    BY <2>1, <2>2, SeqMonotonic
<1>2. S = T \/ (e \notin S /\ T = S \cup {e}) \/ (e \notin T /\ S = T \cup {e})
  OBVIOUS
<1>3. CASE S = T
  BY <1>1, <1>3 DEF Alter
<1>4. CASE e \notin S /\ T = S \cup {e}
  <2>1. \E i : Without(Ascending(S), Ascending(T), i)
    BY <1>4, OneNumberMore
  <2> QED
    BY <1>1, <2>1 DEF Alter
<1>5. CASE e \notin T /\ S = T \cup {e}
  <2>1. \E i : Without(Ascending(T), Ascending(S), i)
    BY <1>5, OneNumberMore
  <2> QED
    BY <1>1, <2>1 DEF Alter
<1> QED
  BY <1>2, <1>3, <1>4, <1>5

LEMMA AlterFront ==
    ASSUME NEW E, NEW b \in Seq(E), NEW s, NEW l, Alter(E, s, l)
    PROVE  Alter(E, s \o b, l \o b)
<1>1. /\ << >> \in Seq(E)
      /\ \A t \in Seq(E) : << >> \o t = t
  OBVIOUS
<1>2. s \in Seq(E) /\ l \in Seq(E)
  BY DEF Alter
<1>3. Alter(E, << >> \o s \o b, << >> \o l \o b)
  BY <1>1, AlterInside
<1> QED
  BY <1>1, <1>2, <1>3

LEMMA AlterBack ==
    ASSUME NEW E, NEW a \in Seq(E), NEW s, NEW l, Alter(E, s, l)
    PROVE  Alter(E, a \o s, a \o l)
<1>1. /\ << >> \in Seq(E)
      /\ \A t \in Seq(E) : t \o << >> = t
  OBVIOUS
<1>2. s \in Seq(E) /\ l \in Seq(E)
  BY DEF Alter
<1>3. a \o s \in Seq(E) /\ a \o l \in Seq(E)
  BY <1>2, ConcatProperties
<1>4. Alter(E, a \o s \o << >>, a \o l \o << >>)
  BY <1>1, AlterInside
<1> QED
  BY <1>1, <1>3, <1>4

(***************************************************************************)
(* The features of the qword and those behind them.                        *)
(***************************************************************************)

LEMMA AscendingInterval ==
    ASSUME NEW m \in Nat, NEW n \in Nat
    PROVE  /\ Cardinality(m + 1 .. m + n) = n
           /\ \A i \in 1 .. n : Ascending(m + 1 .. m + n)[i] = m + i
<1> DEFINE S == m + 1 .. m + n
<1>1. \A k \in Nat : IsFiniteSet(m + 1 .. m + k) /\ Cardinality(m + 1 .. m + k) = k
  <2> SUFFICES ASSUME NEW k \in Nat
               PROVE  IsFiniteSet(m + 1 .. m + k) /\ Cardinality(m + 1 .. m + k) = k
    OBVIOUS
  <2> DEFINE a == m + 1
             b == m + k
  <2>1. a \in Int /\ b \in Int /\ (IF a > b THEN 0 ELSE b - a + 1) = k
    OBVIOUS
  <2> HIDE DEF a, b
  <2>2. IsFiniteSet(a .. b) /\ Cardinality(a .. b) = k
    BY <2>1, FS_Interval
  <2> QED
    BY <2>2 DEF a, b
<1>2. S \in SUBSET Int /\ IsFiniteSet(S) /\ Cardinality(S) = n
  BY <1>1
<1>3. ASSUME NEW i \in 1 .. n PROVE Ascending(S)[i] = m + i
  <2>1. m + i \in S /\ i \in Nat
    OBVIOUS
  <2>2. {y \in S : y <= m + i} = m + 1 .. m + i
    OBVIOUS
  <2>3. Rank(S, m + i) = i
    BY <1>1, <2>1, <2>2 DEF Rank
  <2> HIDE DEF S
  <2>4. Ascending(S)[Rank(S, m + i)] = m + i
    BY <1>2, <2>1, NthMember
  <2> QED
    BY <2>3, <2>4
<1> QED
  BY <1>2, <1>3

LEMMA PickedFront ==
    ASSUME NEW E, NEW q \in Seq(E), NEW x \in Seq(E)
    PROVE  /\ Picked(q \o x, 1 .. Len(q)) = q
           /\ Picked(q \o x, Len(q) + 1 .. Len(q) + Len(x)) = x
<1> DEFINE c == q \o x
           m == Len(q)
           n == Len(x)
<1>1. /\ c \in Seq(E) /\ m \in Nat /\ n \in Nat /\ Len(c) = m + n
      /\ \A i \in 1 .. m + n : c[i] = IF i <= m THEN q[i] ELSE x[i - m]
  BY ConcatProperties, LenProperties
<1>2. q = [i \in 1 .. m |-> q[i]] /\ x = [i \in 1 .. n |-> x[i]]
  BY LenProperties
<1> HIDE DEF c, m, n
<1>3. Picked(c, 1 .. m) = q
  <2>1. /\ Cardinality(1 .. m) = m
        /\ \A i \in 1 .. m : Ascending(1 .. m)[i] = i
    <3>1. 0 \in Nat /\ 0 + 1 = 1 /\ 0 + m = m /\ \A i \in 1 .. m : 0 + i = i
      BY <1>1
    <3>2. /\ Cardinality(0 + 1 .. 0 + m) = m
          /\ \A i \in 1 .. m : Ascending(0 + 1 .. 0 + m)[i] = 0 + i
      BY <1>1, <3>1, AscendingInterval
    <3> QED
      BY <3>1, <3>2
  <2>2. \A i \in 1 .. m : c[i] = q[i]
    BY <1>1
  <2>3. Picked(c, 1 .. m) = [i \in 1 .. m |-> c[Ascending(1 .. m)[i]]]
    BY <2>1 DEF Picked
  <2>4. \A i \in 1 .. m : c[Ascending(1 .. m)[i]] = q[i]
    BY <2>1, <2>2
  <2>5. Picked(c, 1 .. m) = [i \in 1 .. m |-> q[i]]
    BY <2>3, <2>4
  <2> QED
    BY <1>2, <2>5
<1>4. Picked(c, m + 1 .. m + n) = x
  <2>1. /\ Cardinality(m + 1 .. m + n) = n
        /\ \A i \in 1 .. n : Ascending(m + 1 .. m + n)[i] = m + i
    BY <1>1, AscendingInterval
  <2>2. \A i \in 1 .. n : c[m + i] = x[i]
    <3> SUFFICES ASSUME NEW i \in 1 .. n PROVE c[m + i] = x[i]
      OBVIOUS
    <3>1. m + i \in 1 .. m + n /\ ~ (m + i <= m) /\ m + i - m = i
      BY <1>1
    <3> QED
      BY <1>1, <3>1
  <2>3. Picked(c, m + 1 .. m + n) = [i \in 1 .. n |-> c[Ascending(m + 1 .. m + n)[i]]]
    BY <2>1 DEF Picked
  <2>4. \A i \in 1 .. n : c[Ascending(m + 1 .. m + n)[i]] = x[i]
    BY <2>1, <2>2
  <2>5. Picked(c, m + 1 .. m + n) = [i \in 1 .. n |-> x[i]]
    BY <2>3, <2>4
  <2> QED
    BY <1>2, <2>5
<1> QED
  BY <1>3, <1>4 DEF c, m, n

LEMMA PickedByTable ==
    ASSUME NEW E, NEW q \in Seq(E), NEW x \in Seq(E),
           \A i \in 1 .. Len(q) : q[i][1] = "qword",
           \A i \in 1 .. Len(x) : x[i][1] # "qword"
    PROVE  FromQword(q \o x) = q /\ FromExtension(q \o x) = x
<1> DEFINE c == q \o x
           m == Len(q)
           n == Len(x)
           Of == {i \in DOMAIN c : c[i][1] = "qword"}
           NotOf == {i \in DOMAIN c : c[i][1] # "qword"}
<1>1. /\ m \in Nat /\ n \in Nat /\ DOMAIN c = 1 .. m + n
      /\ \A i \in 1 .. m + n : c[i] = IF i <= m THEN q[i] ELSE x[i - m]
  BY ConcatProperties, LenProperties
<1>2. FromQword(c) = Picked(c, Of) /\ FromExtension(c) = Picked(c, NotOf)
  BY DEF FromQword, FromExtension
<1> HIDE DEF c, m, n
<1>3. ASSUME NEW i \in 1 .. m + n PROVE c[i][1] = "qword" <=> i <= m
  <2>1. CASE i <= m
    <3>1. i \in 1 .. m /\ c[i] = q[i]
      BY <1>1, <2>1
    <3> QED
      BY <2>1, <3>1 DEF m
  <2>2. CASE ~ (i <= m)
    <3>1. i - m \in 1 .. n /\ c[i] = x[i - m]
      BY <1>1, <2>2
    <3> QED
      BY <2>2, <3>1 DEF n
  <2> QED
    BY <2>1, <2>2
<1>4. Of = 1 .. m
  <2>1. \A i : i \in 1 .. m <=> i \in 1 .. m + n /\ i <= m
    BY <1>1
  <2> QED
    BY <1>1, <1>3, <2>1
<1>5. NotOf = m + 1 .. m + n
  <2>1. \A i : i \in m + 1 .. m + n <=> i \in 1 .. m + n /\ ~ (i <= m)
    BY <1>1
  <2> QED
    BY <1>1, <1>3, <2>1
<1> HIDE DEF Of, NotOf
<1>6. Picked(c, Of) = q /\ Picked(c, NotOf) = x
  BY <1>4, <1>5, PickedFront DEF c, m, n
<1> QED
  BY <1>2, <1>6 DEF c

(***************************************************************************)
(* Lists of the bits that are set.                                         *)
(***************************************************************************)

LEMMA AlterSets ==
    ASSUME NEW S \in SUBSET (0 .. 31), NEW T \in SUBSET (0 .. 31), NEW e \in Int,
           S \ {e} = T \ {e}
    PROVE  Alter(Int, Ascending(S), Ascending(T))
<1>1. IsFiniteSet(0 .. 31)
  <2>1. 0 \in Int /\ 31 \in Int
    OBVIOUS
  <2> QED
    BY <2>1, FS_Interval, Zenon
<1>2. IsFiniteSet(S) /\ IsFiniteSet(T)
  BY <1>1, FS_Subset
<1>3. S \in SUBSET Int /\ T \in SUBSET Int
  OBVIOUS
<1> QED
  BY <1>2, <1>3, AlterAscending

LEMMA AlterBits ==
    ASSUME NEW T \in SUBSET (0 .. 31), NEW v, NEW w, NEW e \in Int,
           \A i \in T : i = e \/ (Bit(v, i) <=> Bit(w, i))
    PROVE  Alter(Int, BitsIn(T, v), BitsIn(T, w))
<1> DEFINE S == {b \in T : Bit(v, b)}
           U == {b \in T : Bit(w, b)}
<1>1. S \in SUBSET (0 .. 31) /\ U \in SUBSET (0 .. 31) /\ S \ {e} = U \ {e}
  OBVIOUS
<1>2. BitsIn(T, v) = Ascending(S) /\ BitsIn(T, w) = Ascending(U)
  BY DEF BitsIn
<1> HIDE DEF S, U
<1> QED
  BY <1>1, <1>2, AlterSets

LEMMA AlterWord ==
    ASSUME NEW T \in SUBSET (0 .. 15), NEW v, NEW w, v = w \/ \E b : WordTurned(v, w, b)
    PROVE  Alter(Int, BitsIn(T, v), BitsIn(T, w))
<1>1. T \in SUBSET (0 .. 31) /\ 0 \in Int
  OBVIOUS
<1>2. CASE v = w
  BY <1>1, <1>2, AlterBits
<1>3. ASSUME NEW b, WordTurned(v, w, b) PROVE Alter(Int, BitsIn(T, v), BitsIn(T, w))
  <2>1. b \in Int /\ \A i \in T : i = b \/ (Bit(v, i) <=> Bit(w, i))
    BY <1>3 DEF WordTurned
  <2> QED
    BY <1>1, <2>1, AlterBits
<1> QED
  BY <1>2, <1>3

LEMMA AlterByte ==
    ASSUME NEW T \in SUBSET (0 .. 7), NEW v, NEW w, NEW j \in 0 .. 7,
           v = w \/ TurnedRight(v, w, j)
    PROVE  Alter(Int, BitsIn(T, v), BitsIn(T, w))
<1>1. T \in SUBSET (0 .. 31) /\ j \in Int
  OBVIOUS
<1>2. \A i \in T : i = j \/ (Bit(v, i) <=> Bit(w, i))
  BY DEF TurnedRight
<1> QED
  BY <1>1, <1>2, AlterBits

(***************************************************************************)
(* The feature lists of a cache and of a memory device.                    *)
(***************************************************************************)

LEMMA CacheRead ==
    ASSUME NEW r, r.type = 7
    PROVE  /\ Decode(r).supported_sram_types = Or(_u16(r.formatted, 7), 0)
           /\ Decode(r).current_sram_type = Or(_u16(r.formatted, 9), 0)
<1> DEFINE strings == [socket_designation |-> 0]
           bytes == [error_correction |-> 12, system_cache_type |-> 13, associativity |-> 14]
           words == [configuration |-> 1, supported_sram_types |-> 7, current_sram_type |-> 9]
           front == Handle(r) ++ StringFields(r, strings) ++ ByteFields(r, bytes)
                        ++ WordFields(r, words)
<1>1. /\ "supported_sram_types" \in DOMAIN front
      /\ front.supported_sram_types = Or(_u16(r.formatted, 7), 0)
      /\ "current_sram_type" \in DOMAIN front
      /\ front.current_sram_type = Or(_u16(r.formatted, 9), 0)
  BY DEF ++, Handle, StringFields, ByteFields, WordFields
<1>2. \E optional, rest : Decode(r) = front ++ optional ++ rest
  BY DEF Decode, parse_cache
<1> HIDE DEF front
<1>3. \A o, t : \A x \in DOMAIN front : (front ++ o ++ t)[x] = front[x]
  BY DEF ++
<1> QED
  BY <1>1, <1>2, <1>3

LEMMA MemoryDeviceRead ==
    ASSUME NEW r, r.type = 17
    PROVE  /\ Decode(r).type_detail = Or(_u16(r.formatted, 15), 0)
           /\ Decode(r).operating_mode_capability = Or(_u16(r.formatted, 37), 0)
<1> DEFINE bytes == [form_factor |-> 10, device_set |-> 11, type |-> 14,
                     memory_technology |-> 36]
           words == [array_handle |-> 0, error_info_handle |-> 2,
                     type_detail |-> 15, operating_mode_capability |-> 37,
                     module_manufacturer_id |-> 40, module_product_id |-> 42,
                     subsystem_controller_manufacturer_id |-> 44,
                     subsystem_controller_product_id |-> 46]
           front == Handle(r) ++ ByteFields(r, bytes) ++ WordFields(r, words)
<1>1. /\ "type_detail" \in DOMAIN front
      /\ front.type_detail = Or(_u16(r.formatted, 15), 0)
      /\ "operating_mode_capability" \in DOMAIN front
      /\ front.operating_mode_capability = Or(_u16(r.formatted, 37), 0)
  BY DEF ++, Handle, ByteFields, WordFields
<1>2. \E a, b, c, e : Decode(r) = front ++ a ++ b ++ c ++ e
  BY DEF Decode, parse_memory_device
<1> HIDE DEF front
<1>3. \A a, b, c, e : \A x \in DOMAIN front : (front ++ a ++ b ++ c ++ e)[x] = front[x]
  BY DEF ++
<1> QED
  BY <1>1, <1>2, <1>3

LEMMA FieldAlters ==
    ASSUME NEW r, NEW s, NEW k, NEW j, OneBit(r, s, k, j), NEW o \in Nat,
           NEW T \in SUBSET (0 .. 15)
    PROVE  Alter(Int, BitsIn(T, Or(_u16(r.formatted, o), 0)), BitsIn(T, Or(_u16(s.formatted, o), 0)))
<1> DEFINE v == Or(_u16(r.formatted, o), 0)
           w == Or(_u16(s.formatted, o), 0)
<1>1. FieldTurns(v, w, o, k, j)
  BY WordTurns
<1> HIDE DEF v, w
<1>2. v = w \/ \E b : WordTurned(v, w, b)
  BY <1>1 DEF FieldTurns
<1>3. Alter(Int, BitsIn(T, v), BitsIn(T, w))
  BY <1>2, AlterWord
<1> QED
  BY <1>3 DEF v, w

LEMMA ListsAlter ==
    ASSUME NEW r, NEW s, NEW k, NEW j, OneBit(r, s, k, j), r.type \in {7, 17},
           NEW x \in DOMAIN FeatureLists(r.type, Decode(r))
    PROVE  Inserted(FeatureLists(r.type, Decode(r))[x], FeatureLists(r.type, Decode(s))[x])
<1>1. s.type = r.type
  BY DEF OneBit, AlikeBut
<1>2. CASE r.type = 7
  <2> DEFINE list(d, y) == FeatureLists(7, d)[y]
  <2>1. \A d : /\ DOMAIN FeatureLists(7, d) = {"supported_sram_types", "current_sram_types"}
               /\ list(d, "supported_sram_types")
                     = BitsIn(_CACHE_SRAM_TYPE_BITS, d.supported_sram_types)
               /\ list(d, "current_sram_types")
                     = BitsIn(_CACHE_SRAM_TYPE_BITS, d.current_sram_type)
    BY DEF FeatureLists, cache_sram_type_names
  <2>2. /\ Decode(r).supported_sram_types = Or(_u16(r.formatted, 7), 0)
        /\ Decode(r).current_sram_type = Or(_u16(r.formatted, 9), 0)
        /\ Decode(s).supported_sram_types = Or(_u16(s.formatted, 7), 0)
        /\ Decode(s).current_sram_type = Or(_u16(s.formatted, 9), 0)
    BY <1>1, <1>2, CacheRead
  <2>3. _CACHE_SRAM_TYPE_BITS \in SUBSET (0 .. 15)
    BY DEF _CACHE_SRAM_TYPE_BITS
  <2> HIDE DEF list
  <2>4. /\ Alter(Int, list(Decode(r), "supported_sram_types"),
                      list(Decode(s), "supported_sram_types"))
        /\ Alter(Int, list(Decode(r), "current_sram_types"),
                      list(Decode(s), "current_sram_types"))
    BY <2>1, <2>2, <2>3, FieldAlters
  <2>5. Inserted(list(Decode(r), x), list(Decode(s), x))
    BY <1>2, <2>1, <2>4, AlterInserted
  <2> QED
    BY <1>2, <2>5 DEF list
<1>3. CASE r.type = 17
  <2> DEFINE list(d, y) == FeatureLists(17, d)[y]
  <2>1. \A d : /\ DOMAIN FeatureLists(17, d) = {"type_detail", "operating_modes"}
               /\ list(d, "type_detail") = BitsIn(_MEMORY_TYPE_DETAIL_BITS, d.type_detail)
               /\ list(d, "operating_modes")
                     = BitsIn(_MEMORY_OPERATING_MODE_BITS, d.operating_mode_capability)
    BY DEF FeatureLists, memory_type_detail_names, memory_operating_mode_names
  <2>2. /\ Decode(r).type_detail = Or(_u16(r.formatted, 15), 0)
        /\ Decode(r).operating_mode_capability = Or(_u16(r.formatted, 37), 0)
        /\ Decode(s).type_detail = Or(_u16(s.formatted, 15), 0)
        /\ Decode(s).operating_mode_capability = Or(_u16(s.formatted, 37), 0)
    BY <1>1, <1>3, MemoryDeviceRead
  <2>3. /\ _MEMORY_TYPE_DETAIL_BITS \in SUBSET (0 .. 15)
        /\ _MEMORY_OPERATING_MODE_BITS \in SUBSET (0 .. 15)
    BY DEF _MEMORY_TYPE_DETAIL_BITS, _MEMORY_OPERATING_MODE_BITS
  <2> HIDE DEF list
  <2>4. /\ Alter(Int, list(Decode(r), "type_detail"), list(Decode(s), "type_detail"))
        /\ Alter(Int, list(Decode(r), "operating_modes"), list(Decode(s), "operating_modes"))
    BY <2>1, <2>2, <2>3, FieldAlters
  <2>5. Inserted(list(Decode(r), x), list(Decode(s), x))
    BY <1>3, <2>1, <2>4, AlterInserted
  <2> QED
    BY <1>3, <2>5 DEF list
<1> QED
  BY <1>2, <1>3

(***************************************************************************)
(* The feature list of the BIOS.                                           *)
(***************************************************************************)

LEMMA BIOSRead ==
    ASSUME NEW r, r.type = 0
    PROVE  /\ Decode(r).characteristics = Or(_u64(r.formatted, 6), Zero(4))
           /\ Decode(r).characteristics_extension
                 = SafeSlice(r.formatted, 14, Len(r.formatted))
<1> DEFINE f == r.formatted
           strings == [vendor |-> 0, version |-> 1]
           bytes == [bios_major |-> 16, bios_minor |-> 17, ec_major |-> 18, ec_minor |-> 19]
           raw_date == _str(r.strings, Or(_u8(f, 4), 0))
           date == _parse_bios_release_date(raw_date)
           size == _rom_size(_u8(f, 5), _u16(f, 20))
           word == Or(_u64(f, 6), Zero(4))
           slice == SafeSlice(f, 14, Len(f))
           front == Handle(r) ++ StringFields(r, strings) ++ OptionalBytes(r, bytes, None)
           rest == [release_date_raw |-> raw_date, release_date |-> date,
                    rom_size_bytes |-> size, characteristics |-> word,
                    characteristics_extension |-> slice]
<1>1. Decode(r) = front ++ rest
  BY DEF Decode, parse_bios
<1>2. "characteristics" \notin DOMAIN front /\ "characteristics_extension" \notin DOMAIN front
  BY DEF ++, Handle, StringFields, OptionalBytes
<1> HIDE DEF raw_date, date, size, word, slice
<1>3. /\ "characteristics" \in DOMAIN rest /\ rest.characteristics = word
      /\ "characteristics_extension" \in DOMAIN rest /\ rest.characteristics_extension = slice
  OBVIOUS
<1> HIDE DEF front, rest
<1>4. \A x \in DOMAIN rest : x \notin DOMAIN front => (front ++ rest)[x] = rest[x]
  BY DEF ++
<1> QED
  BY <1>1, <1>2, <1>3, <1>4 DEF word, slice, f

\* The two bytes of the extension that have names; a missing one is 0.
Extension(x, n) == IF Len(x) >= n THEN ByteAt(x, n - 1) ELSE 0

LEMMA ExtensionByte ==
    ASSUME NEW f \in Seq(Byte), NEW n \in {1, 2}
    PROVE  Extension(SafeSlice(f, 14, Len(f)), n) = Or(_u8(f, 13 + n), 0)
<1> DEFINE c == Len(f)
           x == SafeSlice(f, 14, c)
<1>1. c \in Nat /\ \A i \in Nat : i < c => ByteAt(f, i) \in Byte
  BY LenProperties, ElementOfSeq DEF ByteAt
<1>2. \A b \in Byte : b # None
  <2>1. \A b \in Byte : b \in Int
    BY DEF Byte
  <2>2. None \notin Int
    BY ONLY NoneIsNoNumber
  <2> QED
    BY ONLY <2>1, <2>2
<1>3. 13 + n \in Nat
  OBVIOUS
<1>4. CASE 14 >= c
  <2>1. x = << >>
    BY <1>4 DEF SafeSlice
  <2>2. Len(x) = 0
    BY <2>1
  <2>3. Extension(x, n) = 0
    BY <2>2 DEF Extension
  <2>4. Or(_u8(f, 13 + n), 0) = 0
    BY <1>1, <1>3, <1>4 DEF _u8, Or
  <2> QED
    BY <2>3, <2>4
<1>5. CASE ~ (14 >= c)
  <2>1. x = Slice(f, 14, c)
    BY <1>1, <1>5 DEF SafeSlice
  <2>2. /\ Len(Slice(f, 14, c)) = c - 14
        /\ \A i \in 0 .. c - 14 - 1 : ByteAt(Slice(f, 14, c), i) = ByteAt(f, 14 + i)
    <3>1. 14 \in Nat /\ c \in Nat /\ c <= Len(f) /\ 14 <= c
      BY <1>1, <1>5
    <3> QED
      BY <3>1, SliceBytes
  <2> HIDE DEF x, c
  <2>3. CASE 13 + n < c
    <3>1. n - 1 \in 0 .. c - 14 - 1 /\ Len(x) >= n /\ 14 + (n - 1) = 13 + n
      BY <1>1, <2>1, <2>2, <2>3
    <3>2. ByteAt(x, n - 1) = ByteAt(f, 13 + n)
      BY <2>1, <2>2, <3>1
    <3>3. Extension(x, n) = ByteAt(f, 13 + n)
      BY <3>1, <3>2 DEF Extension
    <3>4. Or(_u8(f, 13 + n), 0) = ByteAt(f, 13 + n)
      BY <1>1, <1>2, <1>3, <2>3 DEF _u8, Or, c
    <3> QED
      BY <3>3, <3>4 DEF x, c
  <2>4. CASE ~ (13 + n < c)
    <3>1. ~ (Len(x) >= n)
      BY <1>1, <2>1, <2>2, <2>4
    <3>2. Extension(x, n) = 0
      BY <3>1 DEF Extension
    <3>3. Or(_u8(f, 13 + n), 0) = 0
      BY <2>4 DEF _u8, Or, c
    <3> QED
      BY <3>2, <3>3 DEF x, c
  <2> QED
    BY <2>3, <2>4
<1> QED
  BY <1>4, <1>5 DEF x, c

\* The features of the qword and of the extension bytes.
IsSetIn(words, b) == Bit(words[b \div 16 + 1], b % 16)
QwordBits(words) == {b \in _BIOS_CHARACTERISTICS : IsSetIn(words, b)}
Qword(words) == IF IsSetIn(words, NotSupported) THEN << NotSupported >>
                ELSE Ascending(QwordBits(words))
QwordList(words) == Features("qword", Qword(words))
List1(v) == Features("byte 1", BitsIn(_BIOS_CHAR_EXT_BYTE_1, v))
List2(v) == Features("byte 2", BitsIn(_BIOS_CHAR_EXT_BYTE_2, v))

LEMMA CharacteristicsList ==
    ASSUME NEW words, NEW x
    PROVE  bios_characteristics_names(words, x)
              = QwordList(words) \o List1(Extension(x, 1)) \o List2(Extension(x, 2))
BY DEF bios_characteristics_names, QwordList, Qword, QwordBits, IsSetIn, List1, List2, Extension

LEMMA NumberLists ==
    /\ \A words : /\ QwordBits(words) \in SUBSET (0 .. 31)
                  /\ Ascending(QwordBits(words)) \in Seq(Int)
                  /\ Qword(words) \in Seq(Int)
    /\ \A T \in SUBSET (0 .. 7) : \A v : BitsIn(T, v) \in Seq(Int)
<1>1. \A S \in SUBSET (0 .. 31) : Ascending(S) \in Seq(Int)
  <2> SUFFICES ASSUME NEW S \in SUBSET (0 .. 31) PROVE Ascending(S) \in Seq(Int)
    OBVIOUS
  <2>1. 0 \in Int /\ S \ {0} = S \ {0}
    OBVIOUS
  <2>2. Alter(Int, Ascending(S), Ascending(S))
    BY <2>1, AlterSets
  <2> QED
    BY <2>2 DEF Alter
<1>2. << NotSupported >> \in Seq(Int)
  BY DEF NotSupported
<1>3. \A words : QwordBits(words) \in SUBSET (0 .. 31)
  BY DEF QwordBits, _BIOS_CHARACTERISTICS
<1>4. \A words : Qword(words) \in Seq(Int)
  BY <1>1, <1>2, <1>3 DEF Qword
<1>5. ASSUME NEW T \in SUBSET (0 .. 7), NEW v PROVE BitsIn(T, v) \in Seq(Int)
  <2> DEFINE S == {b \in T : Bit(v, b)}
  <2>1. \A b \in 0 .. 7 : b \in 0 .. 31
    OBVIOUS
  <2>2. S \in SUBSET (0 .. 31)
    BY <2>1, Zenon
  <2> HIDE DEF S
  <2>3. Ascending(S) \in Seq(Int)
    BY <1>1, <2>2
  <2> QED
    BY <2>3 DEF BitsIn, S
<1> QED
  BY <1>1, <1>3, <1>4, <1>5

LEMMA ThreeTables ==
    /\ "qword" \in Tables /\ "byte 1" \in Tables /\ "byte 2" \in Tables
    /\ "byte 1" # "qword" /\ "byte 2" # "qword"
BY Zenon DEF Tables

LEMMA ListsOfFeatures ==
    /\ \A words : /\ QwordList(words) \in Seq(Feature)
                  /\ \A i \in 1 .. Len(QwordList(words)) : QwordList(words)[i][1] = "qword"
    /\ \A v : /\ List1(v) \in Seq(Feature)
              /\ \A i \in 1 .. Len(List1(v)) : List1(v)[i][1] # "qword"
    /\ \A v : /\ List2(v) \in Seq(Feature)
              /\ \A i \in 1 .. Len(List2(v)) : List2(v)[i][1] # "qword"
<1>1. ASSUME NEW t \in Tables, NEW l \in Seq(Int)
      PROVE  /\ Features(t, l) \in Seq(Feature)
             /\ \A i \in 1 .. Len(Features(t, l)) : Features(t, l)[i][1] = t
  <2>1. \A n \in 1 .. Len(l) : Features(t, l)[n] = << t, l[n] >>
    BY FeaturesOf
  <2>2. Features(t, l) \in Seq(Feature) /\ Len(Features(t, l)) = Len(l)
    BY FeaturesOf
  <2> QED
    BY <2>1, <2>2
<1>2. _BIOS_CHAR_EXT_BYTE_1 \in SUBSET (0 .. 7) /\ _BIOS_CHAR_EXT_BYTE_2 \in SUBSET (0 .. 7)
  BY DEF _BIOS_CHAR_EXT_BYTE_1, _BIOS_CHAR_EXT_BYTE_2
<1>3. /\ \A words : Qword(words) \in Seq(Int)
      /\ \A v : BitsIn(_BIOS_CHAR_EXT_BYTE_1, v) \in Seq(Int)
      /\ \A v : BitsIn(_BIOS_CHAR_EXT_BYTE_2, v) \in Seq(Int)
  BY <1>2, NumberLists
<1>4. ASSUME NEW words
      PROVE  /\ QwordList(words) \in Seq(Feature)
             /\ \A i \in 1 .. Len(QwordList(words)) : QwordList(words)[i][1] = "qword"
  BY <1>1, <1>3, ThreeTables, Zenon DEF QwordList
<1>5. ASSUME NEW v
      PROVE  /\ List1(v) \in Seq(Feature)
             /\ \A i \in 1 .. Len(List1(v)) : List1(v)[i][1] # "qword"
  BY <1>1, <1>3, ThreeTables, Zenon DEF List1
<1>6. ASSUME NEW v
      PROVE  /\ List2(v) \in Seq(Feature)
             /\ \A i \in 1 .. Len(List2(v)) : List2(v)[i][1] # "qword"
  BY <1>1, <1>3, ThreeTables, Zenon DEF List2
<1> QED
  BY <1>4, <1>5, <1>6, Zenon

\* Of the two words that have names one stays, and of the other one bit turns over.
LEMMA QwordTurns ==
    ASSUME NEW r, NEW s, NEW k, NEW j, OneBit(r, s, k, j)
    PROVE  LET v == Or(_u64(r.formatted, 6), Zero(4))
               w == Or(_u64(s.formatted, 6), Zero(4))
           IN  \/ w[1] = v[1] /\ w[2] = v[2]
               \/ /\ k \in 6 .. 9
                  /\ \/ w[2] = v[2] /\ \E b : WordTurned(v[1], w[1], b)
                     \/ w[1] = v[1] /\ \E b : WordTurned(v[2], w[2], b)
<1> DEFINE f == r.formatted
           g == s.formatted
           v == Or(_u64(f, 6), Zero(4))
           w == Or(_u64(g, 6), Zero(4))
<1>1. /\ Len(f) \in Nat /\ Len(g) = Len(f) /\ k \in Nat /\ k < Len(f) /\ AlikeBut(r, s, k)
      /\ f \in Seq(Byte) /\ g \in Seq(Byte) /\ j \in 0 .. 7
  BY LengthOfArea DEF OneBit, AlikeBut
<1>2. CASE Len(f) < 14
  <2>1. v = Zero(4) /\ w = Zero(4)
    BY <1>1, <1>2 DEF Or, _u64, Words
  <2> HIDE DEF v, w
  <2>2. w[1] = v[1] /\ w[2] = v[2]
    BY <2>1
  <2> QED
    BY <2>2 DEF v, w
<1>3. CASE ~ (Len(f) < 14)
  <2>1. \A h \in Seq(Byte) : Len(h) = Len(f) =>
           /\ _u64(h, 6) = [i \in 1 .. 4 |-> WordAt(h, 6 + 2 * (i - 1))]
           /\ \A i \in 1 .. 4 : WordAt(h, 6 + 2 * (i - 1)) \in Int
    <3> SUFFICES ASSUME NEW h \in Seq(Byte), Len(h) = Len(f)
                 PROVE  /\ _u64(h, 6) = [i \in 1 .. 4 |-> WordAt(h, 6 + 2 * (i - 1))]
                        /\ \A i \in 1 .. 4 : WordAt(h, 6 + 2 * (i - 1)) \in Int
      OBVIOUS
    <3>1. _u64(h, 6) = [i \in 1 .. 4 |-> WordAt(h, 6 + 2 * (i - 1))]
      BY <1>1, <1>3 DEF _u64, Words
    <3>2. \A i \in Nat : i < Len(f) => ByteAt(h, i) \in Byte
      BY <1>1, ElementOfSeq DEF ByteAt
    <3>3. ASSUME NEW i \in 1 .. 4 PROVE WordAt(h, 6 + 2 * (i - 1)) \in Int
      <4> DEFINE o == 6 + 2 * (i - 1)
      <4>1. o \in Nat /\ o < Len(f) /\ o + 1 \in Nat /\ o + 1 < Len(f)
        BY <1>1, <1>3
      <4> HIDE DEF o
      <4>2. ByteAt(h, o) \in Byte /\ ByteAt(h, o + 1) \in Byte
        BY <3>2, <4>1
      <4>3. WordAt(h, o) \in Int
        BY <4>2, ByteBits DEF WordAt
      <4> QED
        BY <4>3 DEF o
    <3> QED
      BY <3>1, <3>3
  <2>2. \A h \in Seq(Byte) : Len(h) = Len(f) =>
           /\ Or(_u64(h, 6), Zero(4))[1] = WordAt(h, 6)
           /\ Or(_u64(h, 6), Zero(4))[2] = WordAt(h, 8)
           /\ WordAt(h, 6) \in Int /\ WordAt(h, 8) \in Int
    <3> SUFFICES ASSUME NEW h \in Seq(Byte), Len(h) = Len(f)
                 PROVE  /\ Or(_u64(h, 6), Zero(4))[1] = WordAt(h, 6)
                        /\ Or(_u64(h, 6), Zero(4))[2] = WordAt(h, 8)
                        /\ WordAt(h, 6) \in Int /\ WordAt(h, 8) \in Int
      OBVIOUS
    <3> DEFINE words == [i \in 1 .. 4 |-> WordAt(h, 6 + 2 * (i - 1))]
    <3>1. _u64(h, 6) = words /\ words \in [1 .. 4 -> Int]
      BY <2>1
    <3>2. /\ words[1] = WordAt(h, 6) /\ words[2] = WordAt(h, 8)
          /\ WordAt(h, 6) \in Int /\ WordAt(h, 8) \in Int
      BY <2>1
    <3> HIDE DEF words
    <3>3. Or(_u64(h, 6), Zero(4)) = words
      BY <3>1, NoneIsNoNumber DEF Or
    <3> QED
      BY <3>2, <3>3
  <2>3. /\ v[1] = WordAt(f, 6) /\ v[2] = WordAt(f, 8) /\ w[1] = WordAt(g, 6) /\ w[2] = WordAt(g, 8)
        /\ WordAt(f, 6) \in Int /\ WordAt(f, 8) \in Int /\ WordAt(g, 6) \in Int /\ WordAt(g, 8) \in Int
    BY <1>1, <2>2
  <2>4. /\ _u16(f, 6) = WordAt(f, 6) /\ _u16(f, 8) = WordAt(f, 8)
        /\ _u16(g, 6) = WordAt(g, 6) /\ _u16(g, 8) = WordAt(g, 8)
    BY <1>1, <1>3 DEF _u16
  <2>5. \A x \in Int : Or(x, 0) = x
    BY NoneIsNoNumber DEF Or
  <2>6. FieldTurns(Or(_u16(f, 6), 0), Or(_u16(g, 6), 0), 6, k, j)
        /\ FieldTurns(Or(_u16(f, 8), 0), Or(_u16(g, 8), 0), 8, k, j)
    BY WordTurns
  <2> HIDE DEF v, w, f, g
  <2>7. FieldTurns(v[1], w[1], 6, k, j) /\ FieldTurns(v[2], w[2], 8, k, j)
    BY <2>3, <2>4, <2>5, <2>6
  <2>8. \/ w[1] = v[1] /\ w[2] = v[2]
        \/ /\ k \in 6 .. 9
           /\ \/ w[2] = v[2] /\ \E b : WordTurned(v[1], w[1], b)
              \/ w[1] = v[1] /\ \E b : WordTurned(v[2], w[2], b)
    <3>1. CASE k \in {6, 7}
      <4>1. w[2] = v[2]
        BY <2>7, <3>1 DEF FieldTurns
      <4>2. w[1] = v[1] \/ \E b : WordTurned(v[1], w[1], b)
        BY <2>7 DEF FieldTurns
      <4> QED
        BY <3>1, <4>1, <4>2
    <3>2. CASE k \in {8, 9}
      <4>1. w[1] = v[1]
        BY <2>7, <3>2 DEF FieldTurns
      <4>2. w[2] = v[2] \/ \E b : WordTurned(v[2], w[2], b)
        BY <2>7 DEF FieldTurns
      <4> QED
        BY <3>2, <4>1, <4>2
    <3>3. CASE k \notin {6, 7, 8, 9}
      BY <2>7, <3>3 DEF FieldTurns
    <3> QED
      BY <3>1, <3>2, <3>3
  <2> QED
    BY <2>8 DEF v, w, f, g
<1> QED
  BY <1>1, <1>2, <1>3

\* One bit b of the low half of the qword, and no other.
LEMMA QwordBit ==
    ASSUME NEW v, NEW w,
           \/ w[1] = v[1] /\ w[2] = v[2]
           \/ w[2] = v[2] /\ \E b : WordTurned(v[1], w[1], b)
           \/ w[1] = v[1] /\ \E b : WordTurned(v[2], w[2], b)
    PROVE  \E e \in Int : \A i \in 0 .. 31 : i = e \/ (IsSetIn(v, i) <=> IsSetIn(w, i))
<1>1. \A i \in 0 .. 15 : i \div 16 + 1 = 1 /\ i % 16 = i
  OBVIOUS
<1>2. \A i \in 16 .. 31 : i \div 16 + 1 = 2 /\ i % 16 = i - 16
  OBVIOUS
<1>3. \A i \in 0 .. 15 : /\ IsSetIn(v, i) <=> Bit(v[1], i)
                         /\ IsSetIn(w, i) <=> Bit(w[1], i)
  BY <1>1 DEF IsSetIn
<1>4. \A i \in 16 .. 31 : /\ IsSetIn(v, i) <=> Bit(v[2], i - 16)
                          /\ IsSetIn(w, i) <=> Bit(w[2], i - 16)
  BY <1>2 DEF IsSetIn
<1>5. \A i \in 0 .. 31 : i \in 0 .. 15 \/ (i \in 16 .. 31 /\ i - 16 \in 0 .. 15)
  OBVIOUS
<1>6. CASE w[1] = v[1] /\ w[2] = v[2]
  <2>1. 0 \in Int /\ \A i \in 0 .. 31 : i = 0 \/ (IsSetIn(v, i) <=> IsSetIn(w, i))
    BY <1>3, <1>4, <1>5, <1>6
  <2> QED
    BY <2>1
<1>7. ASSUME NEW b, w[2] = v[2], WordTurned(v[1], w[1], b)
      PROVE  \E e \in Int : \A i \in 0 .. 31 : i = e \/ (IsSetIn(v, i) <=> IsSetIn(w, i))
  <2>1. b \in Int /\ \A i \in 0 .. 15 : i # b => (Bit(w[1], i) <=> Bit(v[1], i))
    BY <1>7 DEF WordTurned
  <2>2. \A i \in 0 .. 31 : i = b \/ (IsSetIn(v, i) <=> IsSetIn(w, i))
    BY <1>3, <1>4, <1>5, <1>7, <2>1
  <2> QED
    BY <2>1, <2>2
<1>8. ASSUME NEW b, w[1] = v[1], WordTurned(v[2], w[2], b)
      PROVE  \E e \in Int : \A i \in 0 .. 31 : i = e \/ (IsSetIn(v, i) <=> IsSetIn(w, i))
  <2>1. b \in Int /\ \A i \in 0 .. 15 : i # b => (Bit(w[2], i) <=> Bit(v[2], i))
    BY <1>8 DEF WordTurned
  <2>2. b + 16 \in Int /\ \A i \in 16 .. 31 : i # b + 16 => i - 16 # b
    BY <2>1
  <2>3. \A i \in 0 .. 31 : i = b + 16 \/ (IsSetIn(v, i) <=> IsSetIn(w, i))
    BY <1>3, <1>4, <1>5, <1>8, <2>1, <2>2
  <2> QED
    BY <2>2, <2>3
<1> QED
  BY <1>6, <1>7, <1>8

\* The qword is masked when it says that it is not supported.
MaskedQword == Features("qword", << NotSupported >>)
Masked(names) == FromQword(names) = MaskedQword

LEMMA MaskedList ==
    ASSUME NEW v
    PROVE  QwordList(v) = MaskedQword <=> IsSetIn(v, NotSupported)
<1> DEFINE S == QwordBits(v)
           l == Ascending(S)
<1>1. CASE IsSetIn(v, NotSupported)
  BY <1>1 DEF QwordList, Qword, MaskedQword
<1>2. CASE ~ IsSetIn(v, NotSupported)
  <2>1. QwordList(v) = Features("qword", l)
    BY <1>2 DEF QwordList, Qword
  <2>2. NotSupported \notin S
    BY <1>2 DEF QwordBits
  <2>3. S \in SUBSET (0 .. 31)
    BY NumberLists
  <2> HIDE DEF S
  <2>4. IsFiniteSet(0 .. 31)
    <3>1. 0 \in Int /\ 31 \in Int
      OBVIOUS
    <3> QED
      BY <3>1, FS_Interval, Zenon
  <2>5. S \in SUBSET Int /\ IsFiniteSet(S)
    <3>1. IsFiniteSet(S)
      BY <2>3, <2>4, FS_Subset
    <3>2. S \in SUBSET Int
      BY <2>3
    <3> QED
      BY <3>1, <3>2
  <2>6. /\ Len(l) = Cardinality(S) /\ l \in Seq(Int)
        /\ \A n \in 1 .. Cardinality(S) : l[n] \in S
    <3>1. /\ l \in Seq(S) /\ Len(l) = Cardinality(S)
          /\ \A n \in 1 .. Cardinality(S) : l[n] \in S
      BY <2>5, NthMember
    <3> QED
      BY <2>5, <3>1, SeqMonotonic
  <2> HIDE DEF l
  <2>7. ASSUME Features("qword", l) = MaskedQword PROVE FALSE
    <3> DEFINE one == << NotSupported >>
    <3>1. one \in Seq(Int) /\ Len(one) = 1 /\ one[1] = NotSupported
      BY DEF NotSupported
    <3>2. MaskedQword = Features("qword", one)
      BY DEF MaskedQword
    <3> HIDE DEF one
    <3>3. /\ Len(Features("qword", one)) = 1
          /\ Features("qword", one)[1] = << "qword", NotSupported >>
      <4>1. /\ Len(Features("qword", one)) = Len(one)
            /\ \A n \in 1 .. Len(one) : Features("qword", one)[n] = << "qword", one[n] >>
        BY <3>1, FeaturesOf, ThreeTables
      <4>2. 1 \in 1 .. 1
        OBVIOUS
      <4> QED
        BY <3>1, <4>1, <4>2
    <3>4. Len(Features("qword", l)) = Len(l)
          /\ \A n \in 1 .. Len(l) : Features("qword", l)[n] = << "qword", l[n] >>
      BY <2>6, FeaturesOf, ThreeTables
    <3>5. Len(l) = 1
      BY <2>7, <3>2, <3>3, <3>4
    <3>6. << "qword", l[1] >> = << "qword", NotSupported >>
      BY <2>7, <3>2, <3>3, <3>4, <3>5
    <3>7. l[1] = NotSupported
      BY <3>6
    <3> QED
      BY <2>2, <2>6, <3>5, <3>7
  <2> QED
    BY <1>2, <2>1, <2>7
<1> QED
  BY <1>1, <1>2

LEMMA QwordAlters ==
    ASSUME NEW v, NEW w, NEW e \in Int,
           \A i \in 0 .. 31 : i = e \/ (IsSetIn(v, i) <=> IsSetIn(w, i)),
           IsSetIn(v, NotSupported) <=> IsSetIn(w, NotSupported)
    PROVE  Alter(Feature, QwordList(v), QwordList(w))
<1>1. Alter(Int, Qword(v), Qword(w))
  <2>1. CASE IsSetIn(v, NotSupported)
    <3>1. Qword(v) = Qword(w)
      BY <2>1 DEF Qword
    <3> QED
      BY <3>1, NumberLists DEF Alter
  <2>2. CASE ~ IsSetIn(v, NotSupported)
    <3>1. Qword(v) = Ascending(QwordBits(v)) /\ Qword(w) = Ascending(QwordBits(w))
      BY <2>2 DEF Qword
    <3>2. _BIOS_CHARACTERISTICS \in SUBSET (0 .. 31)
      BY DEF _BIOS_CHARACTERISTICS
    <3>3. QwordBits(v) \ {e} = QwordBits(w) \ {e}
      BY <3>2 DEF QwordBits
    <3>4. QwordBits(v) \in SUBSET (0 .. 31) /\ QwordBits(w) \in SUBSET (0 .. 31)
      BY NumberLists
    <3>5. Alter(Int, Ascending(QwordBits(v)), Ascending(QwordBits(w)))
      BY <3>3, <3>4, AlterSets
    <3> QED
      BY <3>1, <3>5
  <2> QED
    BY <2>1, <2>2
<1> QED
  BY <1>1, AlterFeatures, ThreeTables DEF QwordList

\* How a list may change when a bit turns over.
Follows(old, new) ==
    \/ Inserted(old, new)
    \/ (Masked(old) # Masked(new)) /\ FromExtension(old) = FromExtension(new)

LEMMA CharacteristicsFollow ==
    ASSUME NEW r, NEW s, NEW k, NEW j, OneBit(r, s, k, j), r.type = 0
    PROVE  Follows(characteristics_decoded(Decode(r)), characteristics_decoded(Decode(s)))
<1> DEFINE f == r.formatted
           g == s.formatted
           v == Or(_u64(f, 6), Zero(4))
           w == Or(_u64(g, 6), Zero(4))
           v1 == Or(_u8(f, 14), 0)
           v2 == Or(_u8(f, 15), 0)
           w1 == Or(_u8(g, 14), 0)
           w2 == Or(_u8(g, 15), 0)
           old == QwordList(v) \o List1(v1) \o List2(v2)
           new == QwordList(w) \o List1(w1) \o List2(w2)
<1>1. f \in Seq(Byte) /\ g \in Seq(Byte) /\ j \in 0 .. 7 /\ s.type = 0
  BY LengthOfArea DEF OneBit, AlikeBut
<1>2. characteristics_decoded(Decode(r)) = old /\ characteristics_decoded(Decode(s)) = new
  <2>1. /\ 13 + 1 = 14 /\ 13 + 2 = 15 /\ 1 \in {1, 2} /\ 2 \in {1, 2}
    OBVIOUS
  <2>2. \A h \in Seq(Byte) : /\ Extension(SafeSlice(h, 14, Len(h)), 1) = Or(_u8(h, 14), 0)
                             /\ Extension(SafeSlice(h, 14, Len(h)), 2) = Or(_u8(h, 15), 0)
    <3>1. ASSUME NEW h \in Seq(Byte)
          PROVE  /\ Extension(SafeSlice(h, 14, Len(h)), 1) = Or(_u8(h, 13 + 1), 0)
                 /\ Extension(SafeSlice(h, 14, Len(h)), 2) = Or(_u8(h, 13 + 2), 0)
      BY <2>1, ExtensionByte
    <3> QED
      BY <2>1, <3>1
  <2>3. /\ Decode(r).characteristics = v
        /\ Decode(r).characteristics_extension = SafeSlice(f, 14, Len(f))
        /\ Decode(s).characteristics = w
        /\ Decode(s).characteristics_extension = SafeSlice(g, 14, Len(g))
    BY <1>1, BIOSRead
  <2> QED
    BY <1>1, <2>2, <2>3, CharacteristicsList DEF characteristics_decoded
<1>3. /\ v1 = w1 \/ (k = 14 /\ TurnedRight(v1, w1, j))
      /\ v2 = w2 \/ (k = 15 /\ TurnedRight(v2, w2, j))
  <2>1. 14 \in Nat /\ 15 \in Nat
    OBVIOUS
  <2> QED
    BY <2>1, ByteTurns
<1>4. \/ w[1] = v[1] /\ w[2] = v[2]
      \/ /\ k \in 6 .. 9
         /\ \/ w[2] = v[2] /\ \E b : WordTurned(v[1], w[1], b)
            \/ w[1] = v[1] /\ \E b : WordTurned(v[2], w[2], b)
  BY QwordTurns
<1> HIDE DEF f, g, v, w, v1, v2, w1, w2
<1> DEFINE Q == QwordList(v)
           R == QwordList(w)
           A == List1(v1)
           B == List1(w1)
           C == List2(v2)
           D == List2(w2)
<1>5. /\ Q \in Seq(Feature) /\ R \in Seq(Feature) /\ A \in Seq(Feature)
      /\ B \in Seq(Feature) /\ C \in Seq(Feature) /\ D \in Seq(Feature)
  BY ListsOfFeatures
<1>6. Alter(Feature, A, B) /\ Alter(Feature, C, D)
  <2>1. _BIOS_CHAR_EXT_BYTE_1 \in SUBSET (0 .. 7) /\ _BIOS_CHAR_EXT_BYTE_2 \in SUBSET (0 .. 7)
    BY DEF _BIOS_CHAR_EXT_BYTE_1, _BIOS_CHAR_EXT_BYTE_2
  <2>2. /\ Alter(Int, BitsIn(_BIOS_CHAR_EXT_BYTE_1, v1), BitsIn(_BIOS_CHAR_EXT_BYTE_1, w1))
        /\ Alter(Int, BitsIn(_BIOS_CHAR_EXT_BYTE_2, v2), BitsIn(_BIOS_CHAR_EXT_BYTE_2, w2))
    BY <1>1, <1>3, <2>1, AlterByte
  <2> QED
    BY <2>2, AlterFeatures, ThreeTables, Zenon DEF List1, List2
<1>7. k \in 6 .. 9 => A = B /\ C = D
  BY <1>3
<1>8. k = 14 => C = D
  BY <1>3
<1>9. PICK e \in Int : \A i \in 0 .. 31 : i = e \/ (IsSetIn(v, i) <=> IsSetIn(w, i))
  BY <1>4, QwordBit
<1>10. Q = R \/ (A = B /\ C = D)
  <2>1. CASE w[1] = v[1] /\ w[2] = v[2]
    <3>1. \A i \in 0 .. 31 : IsSetIn(v, i) <=> IsSetIn(w, i)
      <4>1. \A i \in 0 .. 31 : i \div 16 + 1 \in {1, 2}
        OBVIOUS
      <4>2. \A i \in 0 .. 31 : v[i \div 16 + 1] = w[i \div 16 + 1]
        BY <2>1, <4>1
      <4> QED
        BY <4>2 DEF IsSetIn
    <3>2. IsSetIn(v, NotSupported) <=> IsSetIn(w, NotSupported)
      BY <3>1 DEF NotSupported
    <3>3. QwordBits(v) = QwordBits(w)
      BY <3>1 DEF QwordBits, _BIOS_CHARACTERISTICS
    <3>4. Qword(v) = Qword(w)
      BY <3>2, <3>3 DEF Qword
    <3> QED
      BY <3>4 DEF QwordList
  <2>2. CASE k \in 6 .. 9
    BY <1>7, <2>2
  <2> QED
    BY <1>4, <2>1, <2>2
<1> HIDE DEF Q, R, A, B, C, D
<1>11. CASE Q = R
  <2>1. CASE C = D
    <3>1. Alter(Feature, Q \o A, R \o B)
      BY <1>5, <1>6, <1>11, AlterBack
    <3>2. Alter(Feature, Q \o A \o C, R \o B \o D)
      BY <1>5, <2>1, <3>1, AlterFront
    <3> QED
      BY <1>2, <3>2, AlterInserted DEF Follows, Q, R, A, B, C, D
  <2>2. CASE A = B
    <3>1. Q \o A \in Seq(Feature) /\ Q \o A = R \o B
      BY <1>5, <1>11, <2>2, ConcatProperties
    <3>2. Alter(Feature, Q \o A \o C, R \o B \o D)
      BY <1>6, <3>1, AlterBack
    <3> QED
      BY <1>2, <3>2, AlterInserted DEF Follows, Q, R, A, B, C, D
  <2>3. C = D \/ A = B
    BY <1>3 DEF A, B, C, D
  <2> QED
    BY <2>1, <2>2, <2>3
<1>12. CASE A = B /\ C = D
  <2> DEFINE X == A \o C
  <2>1. X \in Seq(Feature)
    BY <1>5, ConcatProperties
  <2>2. Q \o A \o C = Q \o X /\ R \o B \o D = R \o X
    <3>1. A \in Seq(Feature) /\ C \in Seq(Feature) /\ Q \in Seq(Feature) /\ R \in Seq(Feature)
      BY <1>5
    <3>2. (Q \o A) \o C = Q \o (A \o C)
      BY <3>1
    <3>3. (R \o A) \o C = R \o (A \o C)
      BY <3>1, SMTT(30)
    <3> QED
      BY <1>12, <3>2, <3>3
  <2>3. CASE IsSetIn(v, NotSupported) <=> IsSetIn(w, NotSupported)
    <3>1. Alter(Feature, Q, R)
      BY <1>9, <2>3, QwordAlters DEF Q, R
    <3> HIDE DEF X
    <3>2. Alter(Feature, Q \o X, R \o X)
      BY <2>1, <3>1, AlterFront
    <3> QED
      BY <1>2, <2>2, <3>2, AlterInserted DEF Follows, Q, R, A, B, C, D
  <2>4. CASE ~ (IsSetIn(v, NotSupported) <=> IsSetIn(w, NotSupported))
    <3>1. \A i \in 1 .. Len(X) : X[i][1] # "qword"
      <4>1. /\ Len(X) = Len(A) + Len(C) /\ Len(A) \in Nat /\ Len(C) \in Nat
            /\ \A i \in 1 .. Len(A) + Len(C) : X[i] = IF i <= Len(A) THEN A[i] ELSE C[i - Len(A)]
        BY <1>5, ConcatProperties, LenProperties
      <4>2. /\ \A i \in 1 .. Len(A) : A[i][1] # "qword"
            /\ \A i \in 1 .. Len(C) : C[i][1] # "qword"
        BY ListsOfFeatures DEF A, C
      <4> HIDE DEF X
      <4>3. ASSUME NEW i \in 1 .. Len(X) PROVE X[i][1] # "qword"
        <5>1. CASE i <= Len(A)
          <6>1. i \in 1 .. Len(A) /\ X[i] = A[i]
            BY <4>1, <5>1
          <6> QED
            BY <4>2, <6>1
        <5>2. CASE ~ (i <= Len(A))
          <6>1. i - Len(A) \in 1 .. Len(C) /\ X[i] = C[i - Len(A)]
            BY <4>1, <5>2
          <6> QED
            BY <4>2, <6>1
        <5> QED
          BY <5>1, <5>2
      <4> QED
        BY <4>3
    <3>2. /\ \A i \in 1 .. Len(Q) : Q[i][1] = "qword"
          /\ \A i \in 1 .. Len(R) : R[i][1] = "qword"
      BY ListsOfFeatures DEF Q, R
    <3> HIDE DEF X
    <3>3. /\ FromQword(Q \o X) = Q /\ FromExtension(Q \o X) = X
          /\ FromQword(R \o X) = R /\ FromExtension(R \o X) = X
      BY <1>5, <2>1, <3>1, <3>2, PickedByTable
    <3>4. /\ Masked(Q \o X) <=> IsSetIn(v, NotSupported)
          /\ Masked(R \o X) <=> IsSetIn(w, NotSupported)
      BY <3>3, MaskedList DEF Masked, Q, R
    <3>5. Masked(Q \o X) # Masked(R \o X)
      BY <2>4, <3>4 DEF Masked
    <3> QED
      BY <1>2, <2>2, <3>3, <3>5 DEF Follows, Q, R, A, B, C, D
  <2> QED
    BY <2>3, <2>4
<1> QED
  BY <1>10, <1>11, <1>12

\* What the property says of one step, by the name of the list.
FollowsIn(x, old, new) ==
    \/ Inserted(old[x], new[x])
    \/ /\ x = "characteristics_decoded"
       /\ Masked(old[x]) # Masked(new[x])
       /\ FromExtension(old[x]) = FromExtension(new[x])

LEMMA ListsFollow ==
    ASSUME NEW r, NEW s, NEW k, NEW j, OneBit(r, s, k, j),
           NEW x \in DOMAIN FeatureLists(r.type, Decode(r))
    PROVE  FollowsIn(x, FeatureLists(r.type, Decode(r)), FeatureLists(r.type, Decode(s)))
<1>1. r.type \in {0, 1, 2, 3, 4, 7, 9, 16, 17, 38, 43}
  BY DEF OneBit, AlikeBut, RawStructure
<1>2. CASE r.type = 0
  <2>1. \A d : /\ DOMAIN FeatureLists(0, d) = {"characteristics_decoded"}
               /\ FeatureLists(0, d)["characteristics_decoded"] = characteristics_decoded(d)
    BY DEF FeatureLists
  <2>2. Follows(characteristics_decoded(Decode(r)), characteristics_decoded(Decode(s)))
    BY <1>2, CharacteristicsFollow
  <2> QED
    BY <1>2, <2>1, <2>2 DEF FollowsIn, Follows
<1>3. CASE r.type \in {7, 17}
  BY <1>3, ListsAlter DEF FollowsIn
<1>4. CASE r.type \in {1, 2, 3, 4, 9, 16, 38, 43}
  <2>1. DOMAIN FeatureLists(r.type, Decode(r)) = {}
    BY <1>4 DEF FeatureLists
  <2> QED
    BY <2>1
<1> QED
  BY <1>1, <1>2, <1>3, <1>4

\* A list of features follows its bits: a step adds one name or takes one away, and
\* where it sets or clears the bit "not supported" the features of the extension bytes
\* stay (enums.py, lines 609-610, 644-645, 785-786, 820-845).
THEOREM ListsFollowBits == Spec => NamesFollowBits
<1> DEFINE old == FeatureLists(raw.type, Decode(raw))
           new == FeatureLists(raw.type, Decode(raw'))
           Fine == \A x \in DOMAIN old : FollowsIn(x, old, new)
<1>1. RawOK /\ [Next]_vars => [Fine]_vars
  <2> SUFFICES ASSUME RawOK, [Next]_vars PROVE Fine
    OBVIOUS
  <2>1. CASE raw' = raw
    <3>1. old = new
      BY <2>1
    <3> HIDE DEF old, new
    <3> QED
      BY <3>1 DEF FollowsIn, Inserted
  <2>2. ASSUME NEW k, NEW j, OneBit(raw, raw', k, j) PROVE Fine
    BY <2>2, ListsFollow
  <2> QED
    BY <2>1, <2>2, OneBitAtATime
<1> QED
  BY <1>1, AlwaysRawOK, PTL DEF Spec, NamesFollowBits, FollowsIn, Masked, MaskedQword

(***************************************************************************)
(* Escapes.                                                                *)
(***************************************************************************)

\* A wide field of which the byte at offset k is a part, all of it there.
InWide(r, k, wide, length) ==
    k \in wide .. wide + length - 1 /\ wide + length <= Len(r.formatted)

\* What EscapesAreFollowed says of an escape when a bit of its wide field turned over.
Obeys(r, s, field, at, escape, wide) ==
    LET f == r.formatted
        old == Decode(r)[field]
        new == Decode(s)[field]
    IN  IF Holds(f, at, escape)
        THEN /\ \/ new # old
                \/ r.type = 0 /\ old \in {None, Size(<< 16 >>, "MB")}
             /\ r.type = 4 /\ old = escape[1] => Holds(f, wide, << escape[1], 0 >>)
        ELSE new = old

\* A word changes with each of its bits.
LEMMA WordChanges ==
    ASSUME NEW r, NEW s, NEW k, NEW j, OneBit(r, s, k, j), NEW o \in Nat,
           o + 2 <= Len(r.formatted), k \in o .. o + 1
    PROVE  WordAt(s.formatted, o) # WordAt(r.formatted, o)
<1> DEFINE f == r.formatted
           g == s.formatted
<1>1. /\ Len(f) \in Nat /\ Len(g) = Len(f) /\ k \in Nat /\ f \in Seq(Byte) /\ g \in Seq(Byte)
      /\ ByteAt(g, k) # ByteAt(f, k)
  BY LengthOfArea DEF OneBit, AlikeBut, TurnedRight
<1>2. \A i \in Nat : i < Len(f) => ByteAt(f, i) \in Byte /\ ByteAt(g, i) \in Byte
  BY <1>1, ElementOfSeq DEF ByteAt
<1>3. \A i \in Nat : i < Len(f) /\ i # k => ByteAt(g, i) = ByteAt(f, i)
  BY DEF OneBit, AlikeBut
<1>4. o + 1 \in Nat /\ o < Len(f) /\ o + 1 < Len(f) /\ (k = o \/ k = o + 1)
  BY <1>1
<1> HIDE DEF f, g
<1> DEFINE a == ByteAt(f, o)
           b == ByteAt(f, o + 1)
           c == ByteAt(g, o)
           d == ByteAt(g, o + 1)
<1>5. a \in Int /\ b \in Int /\ c \in Int /\ d \in Int
  BY <1>2, <1>4, ByteBits
<1>6. (c # a /\ d = b) \/ (c = a /\ d # b)
  BY <1>1, <1>3, <1>4
<1>7. WordAt(f, o) = a + 256 * b /\ WordAt(g, o) = c + 256 * d
  BY DEF WordAt
<1> HIDE DEF a, b, c, d
<1>8. a + 256 * b # c + 256 * d
  BY <1>5, <1>6
<1> QED
  BY <1>7, <1>8 DEF f, g

LEMMA WordsRead ==
    ASSUME NEW f \in Seq(Byte), NEW o \in Nat
    PROVE  /\ o + 2 <= Len(f) => WordAt(f, o) \in Word
           /\ \A n \in {2, 4} :
                 o + 2 * n <= Len(f) => /\ Words(f, o, n) \in [1 .. n -> Word]
                                        /\ \A i \in 1 .. n : Words(f, o, n)[i] = WordAt(f, o + 2 * (i - 1))
<1>1. Len(f) \in Nat
  BY LenProperties
<1>2. \A m \in Nat : m + 2 <= Len(f) => WordAt(f, m) \in Word
  <2> SUFFICES ASSUME NEW m \in Nat, m + 2 <= Len(f) PROVE WordAt(f, m) \in Word
    OBVIOUS
  <2>1. m + 1 \in Nat /\ m < Len(f) /\ m + 1 < Len(f)
    BY <1>1
  <2>2. ByteAt(f, m) \in Byte /\ ByteAt(f, m + 1) \in Byte
    BY <2>1, ElementOfSeq DEF ByteAt
  <2> QED
    BY <2>2, WordOfBytes DEF WordAt
<1>3. ASSUME NEW n \in {2, 4}, o + 2 * n <= Len(f)
      PROVE  /\ Words(f, o, n) \in [1 .. n -> Word]
             /\ \A i \in 1 .. n : Words(f, o, n)[i] = WordAt(f, o + 2 * (i - 1))
  <2>1. \A i \in 1 .. n : o + 2 * (i - 1) \in Nat /\ (o + 2 * (i - 1)) + 2 <= Len(f)
    BY <1>1, <1>3
  <2>2. \A i \in 1 .. n : WordAt(f, o + 2 * (i - 1)) \in Word
    BY <1>2, <2>1
  <2>3. Words(f, o, n) = [i \in 1 .. n |-> WordAt(f, o + 2 * (i - 1))]
    BY <1>1, <1>3 DEF Words
  <2> QED
    BY <2>2, <2>3
<1> QED
  BY <1>2, <1>3

\* A wide field changes with each of its bits, and is a word or a sequence of them.
LEMMA WideChanges ==
    ASSUME NEW r, NEW s, NEW k, NEW j, OneBit(r, s, k, j), NEW o \in Nat
    PROVE  LET f == r.formatted
               g == s.formatted
           IN  /\ InWide(r, k, o, 2) => /\ _u16(f, o) \in Word /\ _u16(g, o) \in Word
                                        /\ _u16(f, o) # _u16(g, o)
                                        /\ _u16(f, o) = WordAt(f, o)
               /\ InWide(r, k, o, 4) => /\ _u32(f, o) \in DoubleWord /\ _u32(g, o) \in DoubleWord
                                        /\ _u32(f, o) # _u32(g, o)
               /\ InWide(r, k, o, 8) => /\ _u64(f, o) \in QuadWord /\ _u64(g, o) \in QuadWord
                                        /\ _u64(f, o) # _u64(g, o)
<1> DEFINE f == r.formatted
           g == s.formatted
<1>1. Len(f) \in Nat /\ Len(g) = Len(f) /\ k \in Nat /\ f \in Seq(Byte) /\ g \in Seq(Byte)
  BY LengthOfArea DEF OneBit, AlikeBut
<1>2. ASSUME InWide(r, k, o, 2)
      PROVE  /\ _u16(f, o) \in Word /\ _u16(g, o) \in Word /\ _u16(f, o) # _u16(g, o)
             /\ _u16(f, o) = WordAt(f, o)
  <2>1. o + 2 <= Len(f) /\ k \in o .. o + 1
    BY <1>1, <1>2 DEF InWide
  <2>2. WordAt(f, o) \in Word /\ WordAt(g, o) \in Word
    BY <1>1, <2>1, WordsRead
  <2>3. WordAt(g, o) # WordAt(f, o)
    BY <2>1, WordChanges
  <2>4. _u16(f, o) = WordAt(f, o) /\ _u16(g, o) = WordAt(g, o)
    BY <1>1, <2>1 DEF _u16
  <2> QED
    BY <2>2, <2>3, <2>4
<1>3. ASSUME NEW n \in {2, 4}, InWide(r, k, o, 2 * n)
      PROVE  /\ Words(f, o, n) \in [1 .. n -> Word] /\ Words(g, o, n) \in [1 .. n -> Word]
             /\ Words(f, o, n) # Words(g, o, n)
  <2>1. o + 2 * n <= Len(f) /\ k \in o .. o + 2 * n - 1
    BY <1>1, <1>3 DEF InWide
  <2>2. /\ Words(f, o, n) \in [1 .. n -> Word] /\ Words(g, o, n) \in [1 .. n -> Word]
        /\ \A i \in 1 .. n : Words(f, o, n)[i] = WordAt(f, o + 2 * (i - 1))
        /\ \A i \in 1 .. n : Words(g, o, n)[i] = WordAt(g, o + 2 * (i - 1))
    BY <1>1, <2>1, WordsRead
  <2>3. PICK i \in 1 .. n : k = o + 2 * (i - 1) \/ k = o + 2 * (i - 1) + 1
    <3> DEFINE i == (k - o) \div 2 + 1
    <3>1. i \in 1 .. n /\ (k = o + 2 * (i - 1) \/ k = o + 2 * (i - 1) + 1)
      BY <1>1, <2>1
    <3> QED
      BY <3>1
  <2> DEFINE m == o + 2 * (i - 1)
  <2>4. m \in Nat /\ m + 2 <= Len(f) /\ k \in m .. m + 1
    BY <1>1, <2>1, <2>3
  <2> HIDE DEF m
  <2>5. WordAt(g, m) # WordAt(f, m)
    BY <2>4, WordChanges
  <2> QED
    BY <2>2, <2>3, <2>5 DEF m
<1>4. /\ InWide(r, k, o, 4) => /\ _u32(f, o) \in DoubleWord /\ _u32(g, o) \in DoubleWord
                               /\ _u32(f, o) # _u32(g, o)
  <2>1. 2 \in {2, 4} /\ 2 * 2 = 4
    OBVIOUS
  <2> QED
    BY <1>3, <2>1 DEF _u32, DoubleWord
<1>5. /\ InWide(r, k, o, 8) => /\ _u64(f, o) \in QuadWord /\ _u64(g, o) \in QuadWord
                               /\ _u64(f, o) # _u64(g, o)
  <2>1. 4 \in {2, 4} /\ 2 * 4 = 8
    OBVIOUS
  <2> QED
    BY <1>3, <2>1 DEF _u64, QuadWord
<1> QED
  BY <1>2, <1>4, <1>5

LEMMA HeldBytes ==
    ASSUME NEW f, NEW at \in Nat
    PROVE  /\ \A a : Holds(f, at, << a >>) <=> ByteAt(f, at) = a
           /\ \A a, b : Holds(f, at, << a, b >>) <=> ByteAt(f, at) = a /\ ByteAt(f, at + 1) = b
           /\ \A a, b, c, d : Holds(f, at, << a, b, c, d >>) <=>
                  /\ ByteAt(f, at) = a /\ ByteAt(f, at + 1) = b
                  /\ ByteAt(f, at + 2) = c /\ ByteAt(f, at + 3) = d
<1>1. at + 1 - 1 = at /\ at + 2 - 1 = at + 1 /\ at + 3 - 1 = at + 2 /\ at + 4 - 1 = at + 3
  OBVIOUS
<1>2. \A a : DOMAIN << a >> = {1}
  OBVIOUS
<1>3. \A a, b : DOMAIN << a, b >> = {1, 2}
  OBVIOUS
<1>4. \A a, b, c, d : DOMAIN << a, b, c, d >> = {1, 2, 3, 4}
  OBVIOUS
<1>5. \A a : Holds(f, at, << a >>) <=> ByteAt(f, at) = a
  BY <1>1, <1>2 DEF Holds
<1>6. \A a, b : Holds(f, at, << a, b >>) <=> ByteAt(f, at) = a /\ ByteAt(f, at + 1) = b
  BY <1>1, <1>3 DEF Holds
<1>7. \A a, b, c, d : Holds(f, at, << a, b, c, d >>) <=>
          /\ ByteAt(f, at) = a /\ ByteAt(f, at + 1) = b
          /\ ByteAt(f, at + 2) = c /\ ByteAt(f, at + 3) = d
  BY <1>1, <1>4 DEF Holds
<1> QED
  BY <1>5, <1>6, <1>7

\* The bytes of an escape and the word or the words they make.
LEMMA EscapedWords ==
    ASSUME NEW f \in Seq(Byte), NEW at \in Nat
    PROVE  /\ at + 2 <= Len(f) =>
                  /\ Holds(f, at, << 255, 255 >>) <=> WordAt(f, at) = MaxWord
                  /\ Holds(f, at, << 255, 127 >>) <=> WordAt(f, at) = Max15
                  /\ Holds(f, at, << 255, 0 >>) <=> WordAt(f, at) = 255
                  /\ Holds(f, at, << 254, 0 >>) <=> WordAt(f, at) = 254
           /\ at + 4 <= Len(f) =>
                  (Holds(f, at, << 0, 0, 0, 128 >>) <=> _u32(f, at) = Bit31)
<1>1. Len(f) \in Nat
  BY LenProperties
<1>2. \A i \in Nat : i < Len(f) => ByteAt(f, i) \in Byte
  BY <1>1, ElementOfSeq DEF ByteAt
<1>3. \A a, b \in Byte : /\ a = 255 /\ b = 255 <=> a + 256 * b = MaxWord
                         /\ a = 255 /\ b = 127 <=> a + 256 * b = Max15
                         /\ a = 255 /\ b = 0 <=> a + 256 * b = 255
                         /\ a = 254 /\ b = 0 <=> a + 256 * b = 254
                         /\ a = 0 /\ b = 0 <=> a + 256 * b = 0
                         /\ a = 0 /\ b = 128 <=> a + 256 * b = Bit31[2]
  <2> SUFFICES ASSUME NEW a \in Byte, NEW b \in Byte
               PROVE  /\ a = 255 /\ b = 255 <=> a + 256 * b = MaxWord
                      /\ a = 255 /\ b = 127 <=> a + 256 * b = Max15
                      /\ a = 255 /\ b = 0 <=> a + 256 * b = 255
                      /\ a = 254 /\ b = 0 <=> a + 256 * b = 254
                      /\ a = 0 /\ b = 0 <=> a + 256 * b = 0
                      /\ a = 0 /\ b = 128 <=> a + 256 * b = Bit31[2]
    OBVIOUS
  <2>1. a \in Int /\ 0 <= a /\ a <= 255 /\ b \in Int /\ 0 <= b /\ b <= 255
    BY ByteBits
  <2>2. a = 255 /\ b = 255 <=> a + 256 * b = MaxWord
    BY <2>1 DEF MaxWord
  <2>3. a = 255 /\ b = 127 <=> a + 256 * b = Max15
    BY <2>1 DEF Max15
  <2>4. a = 0 /\ b = 128 <=> a + 256 * b = Bit31[2]
    BY <2>1 DEF Bit31
  <2>5. /\ a = 255 /\ b = 0 <=> a + 256 * b = 255
        /\ a = 254 /\ b = 0 <=> a + 256 * b = 254
        /\ a = 0 /\ b = 0 <=> a + 256 * b = 0
    BY <2>1
  <2> QED
    BY <2>2, <2>3, <2>4, <2>5
<1>4. ASSUME at + 2 <= Len(f)
      PROVE  /\ Holds(f, at, << 255, 255 >>) <=> WordAt(f, at) = MaxWord
             /\ Holds(f, at, << 255, 127 >>) <=> WordAt(f, at) = Max15
             /\ Holds(f, at, << 255, 0 >>) <=> WordAt(f, at) = 255
             /\ Holds(f, at, << 254, 0 >>) <=> WordAt(f, at) = 254
  <2>1. at + 1 \in Nat /\ at < Len(f) /\ at + 1 < Len(f)
    BY <1>1, <1>4
  <2>2. ByteAt(f, at) \in Byte /\ ByteAt(f, at + 1) \in Byte
    BY <1>2, <2>1
  <2>3. WordAt(f, at) = ByteAt(f, at) + 256 * ByteAt(f, at + 1)
    BY DEF WordAt
  <2> QED
    BY <1>3, <2>2, <2>3, HeldBytes
<1>5. ASSUME at + 4 <= Len(f)
      PROVE  Holds(f, at, << 0, 0, 0, 128 >>) <=> _u32(f, at) = Bit31
  <2>1. /\ at + 1 \in Nat /\ at + 2 \in Nat /\ at + 3 \in Nat
        /\ at < Len(f) /\ at + 1 < Len(f) /\ at + 2 < Len(f) /\ at + 3 < Len(f)
        /\ at + 2 * (1 - 1) = at /\ at + 2 * (2 - 1) = at + 2 /\ (at + 2) + 1 = at + 3
        /\ 2 \in {2, 4} /\ at + 2 * 2 <= Len(f) /\ 1 \in 1 .. 2 /\ 2 \in 1 .. 2
    BY <1>1, <1>5
  <2>2. /\ ByteAt(f, at) \in Byte /\ ByteAt(f, at + 1) \in Byte
        /\ ByteAt(f, at + 2) \in Byte /\ ByteAt(f, at + 3) \in Byte
    BY <1>2, <2>1
  <2>3. /\ _u32(f, at) \in [1 .. 2 -> Word]
        /\ _u32(f, at)[1] = WordAt(f, at) /\ _u32(f, at)[2] = WordAt(f, at + 2)
    BY <2>1, WordsRead DEF _u32
  <2>4. \A v \in [1 .. 2 -> Word] : v = Bit31 <=> v[1] = 0 /\ v[2] = Bit31[2]
    BY DEF Bit31
  <2>5. /\ WordAt(f, at) = ByteAt(f, at) + 256 * ByteAt(f, at + 1)
        /\ WordAt(f, at + 2) = ByteAt(f, at + 2) + 256 * ByteAt(f, at + 3)
    BY <2>1 DEF WordAt
  <2>6. /\ ByteAt(f, at) = 0 /\ ByteAt(f, at + 1) = 0 <=> WordAt(f, at) = 0
        /\ ByteAt(f, at + 2) = 0 /\ ByteAt(f, at + 3) = 128 <=> WordAt(f, at + 2) = Bit31[2]
    BY <1>3, <2>2, <2>5
  <2> QED
    BY <2>3, <2>4, <2>6, HeldBytes, SMTT(30)
<1> QED
  BY <1>4, <1>5

LEMMA SizesDiffer ==
    /\ \A n \in {1, 2, 4} : \A c \in [1 .. n -> Int] :
          Size(c, "KB") # None /\ Size(c, "64KB") # None /\ Size(c, "MB") # None
              /\ Size(c, "GB") # None /\ Size(c, "B") # None
    /\ \A c, d, u, v : Size(c, u) = Size(d, v) => c = d /\ u = v
<1>1. \A n \in {1, 2, 4} : \A c \in [1 .. n -> Int] :
         \A u \in {"B", "KB", "64KB", "MB", "GB"} : Size(c, u) # None
  <2> SUFFICES ASSUME NEW n \in {1, 2, 4}, NEW c \in [1 .. n -> Int],
                      NEW u \in {"B", "KB", "64KB", "MB", "GB"}
               PROVE  Size(c, u) # None
    OBVIOUS
  <2> DEFINE C == [1 .. n -> Int]
             U == {"B", "KB", "64KB", "MB", "GB"}
  <2>1. None \notin [count : C, unit : U]
    BY NoneIsNoAmount
  <2>2. c \in C /\ u \in U
    OBVIOUS
  <2> HIDE DEF C, U
  <2>3. Size(c, u) \in [count : C, unit : U]
    BY <2>2 DEF Size
  <2> QED
    BY <2>1, <2>3
<1>2. \A c, d, u, v : Size(c, u) = Size(d, v) => c = d /\ u = v
  BY DEF Size
<1> QED
  BY <1>1, <1>2

LEMMA WordNumbers ==
    /\ Word \subseteq Int /\ DoubleWord \subseteq [1 .. 2 -> Int]
    /\ QuadWord \subseteq [1 .. 4 -> Int] /\ MaxWord \in Word /\ None \notin Word
    /\ None \notin DoubleWord /\ None \notin QuadWord /\ None \notin Byte
<1>1. MaxWord \in Word /\ Word \subseteq Int /\ Byte \subseteq Int
  BY DEF Word, MaxWord, Byte
<1>2. DoubleWord \subseteq [1 .. 2 -> Int] /\ QuadWord \subseteq [1 .. 4 -> Int]
  BY <1>1 DEF DoubleWord, QuadWord
<1>3. None \notin Int /\ None \notin [1 .. 2 -> Int] /\ None \notin [1 .. 4 -> Int]
  BY NoneIsNoNumber
<1> QED
  BY <1>1, <1>2, <1>3

\* The lower 15 bits of a word and the highest one make the word.
LEMMA WordHalves ==
    ASSUME NEW v \in Word, NEW w \in Word, v % 32768 = w % 32768, v >= 32768 <=> w >= 32768
    PROVE  v = w
<1>1. v \in Int /\ 0 <= v /\ v <= MaxWord /\ w \in Int /\ 0 <= w /\ w <= MaxWord
  <2>1. MaxWord \in Int
    BY DEF MaxWord
  <2> QED
    BY <2>1 DEF Word
<1> QED
  BY <1>1 DEF MaxWord

\* The 16-bit count is reported for the escape, and for nothing else.
LEMMA WideCount ==
    ASSUME NEW small \in Byte, NEW v \in Word, NEW w \in Word
    PROVE  /\ small = 255 => _resolve(small, v) = v
           /\ small # 255 => _resolve(small, v) = _resolve(small, w)
BY WordNumbers DEF _resolve

LEMMA WideCacheSize ==
    ASSUME NEW v \in DoubleWord, NEW w \in DoubleWord, v # w
    PROVE  /\ _decode_cache_size(MaxWord, v) # _decode_cache_size(MaxWord, w)
           /\ \A value \in Word \ {MaxWord} :
                 _decode_cache_size(value, v) = _decode_cache_size(value, w)
<1> DEFINE count(x) == << x[1], x[2] % 32768 >>
           unit(x) == IF x[2] >= 32768 THEN "64KB" ELSE "KB"
           size(x) == IF x = Zero(2) THEN None ELSE Size(count(x), unit(x))
<1>1. /\ v[1] \in Word /\ v[2] \in Word /\ w[1] \in Word /\ w[2] \in Word
      /\ v[1] = w[1] /\ v[2] = w[2] => v = w
  BY DEF DoubleWord
<1>2. \A x \in DoubleWord : _decode_cache_size(MaxWord, x) = size(x)
  <2>1. MaxWord # 0
    BY DEF MaxWord
  <2> QED
    BY <2>1, WordNumbers DEF _decode_cache_size
<1>3. \A value \in Word \ {MaxWord} :
         _decode_cache_size(value, v) = _decode_cache_size(value, w)
  BY WordNumbers DEF _decode_cache_size
<1>4. ASSUME NEW x \in DoubleWord PROVE Size(count(x), unit(x)) # None
  <2>1. x[1] \in Int /\ x[2] \in Int
    <3>1. x \in [1 .. 2 -> Int]
      BY WordNumbers
    <3> QED
      BY <3>1
  <2>2. count(x) \in [1 .. 2 -> Int]
    BY <2>1
  <2> HIDE DEF count
  <2> QED
    BY <2>2, SizesDiffer
<1>5. Size(count(v), unit(v)) # Size(count(w), unit(w))
  <2> SUFFICES ASSUME count(v) = count(w), unit(v) = unit(w) PROVE FALSE
    BY SizesDiffer
  <2>1. v[1] = w[1] /\ v[2] % 32768 = w[2] % 32768
    OBVIOUS
  <2>2. v[2] >= 32768 <=> w[2] >= 32768
    OBVIOUS
  <2> QED
    BY <1>1, <2>1, <2>2, WordHalves
<1> HIDE DEF count, unit
<1>6. size(v) # size(w)
  BY <1>4, <1>5
<1> QED
  BY <1>2, <1>3, <1>6

LEMMA WideMemorySize ==
    ASSUME NEW v \in DoubleWord, NEW w \in DoubleWord, v # w
    PROVE  /\ _decode_memory_size(Max15, v) # _decode_memory_size(Max15, w)
           /\ \A word \in Word \ {Max15} :
                 _decode_memory_size(word, v) = _decode_memory_size(word, w)
<1> DEFINE size(x) == IF x = Zero(2) THEN None ELSE Size(x, "MB")
<1>1. Max15 \in Int /\ Max15 # 0 /\ Max15 # MaxWord
  BY DEF Max15, MaxWord
<1>2. Max15 # None
  BY <1>1, NoneIsNoNumber
<1>3. \A x \in DoubleWord : _decode_memory_size(Max15, x) = size(x)
  <2>1. \A x : _decode_memory_size(Max15, x)
                  = IF x = None \/ x = Zero(2) THEN None ELSE Size(x, "MB")
    BY <1>1, <1>2 DEF _decode_memory_size, Max15
  <2> QED
    BY <2>1, WordNumbers
<1>4. \A word : word # Max15 => _decode_memory_size(word, v) = _decode_memory_size(word, w)
  BY DEF _decode_memory_size, Max15
<1>5. Size(v, "MB") # Size(w, "MB") /\ Size(v, "MB") # None /\ Size(w, "MB") # None
  BY SizesDiffer, WordNumbers
<1>6. size(v) # size(w)
  BY <1>5
<1> QED
  BY <1>3, <1>4, <1>6

LEMMA WideROMSize ==
    ASSUME NEW v \in Word, NEW w \in Word, v # w
    PROVE  \/ _extended_rom_size(v) # _extended_rom_size(w)
           \/ _extended_rom_size(v) \in {None, Size(<< 16 >>, "MB")}
<1> DEFINE count(x) == x % 16384
           unit(x) == x \div 16384
<1>1. v \in Int /\ 0 <= v /\ w \in Int /\ 0 <= w /\ v # None /\ w # None
  BY WordNumbers DEF Word
<1>2. \/ count(v) # count(w) \/ unit(v) # unit(w)
  BY <1>1
<1>3. count(v) \in Int /\ count(w) \in Int
  BY <1>1
<1> HIDE DEF count, unit
<1>4. << count(v) >> \in [1 .. 1 -> Int] /\ << count(w) >> \in [1 .. 1 -> Int]
  BY <1>3
<1>5. \A x \in {v, w} :
         _extended_rom_size(x) =
             IF x = 0 THEN Size(<< 16 >>, "MB")
             ELSE CASE unit(x) = 0 -> Size(<< count(x) >>, "MB")
                    [] unit(x) = 1 -> Size(<< count(x) >>, "GB")
                    [] OTHER -> None
  BY <1>1 DEF _extended_rom_size, count, unit
<1>6. << count(v) >> = << count(w) >> => count(v) = count(w)
  OBVIOUS
<1>7. /\ Size(<< count(v) >>, "MB") # None /\ Size(<< count(v) >>, "GB") # None
      /\ Size(<< count(v) >>, "MB") # Size(<< count(w) >>, "GB")
      /\ Size(<< count(v) >>, "GB") # Size(<< count(w) >>, "MB")
      /\ Size(<< count(v) >>, "GB") # Size(<< 16 >>, "MB")
      /\ Size(<< count(v) >>, "MB") = Size(<< count(w) >>, "MB") => count(v) = count(w)
      /\ Size(<< count(v) >>, "GB") = Size(<< count(w) >>, "GB") => count(v) = count(w)
  BY <1>4, <1>6, SizesDiffer
<1> QED
  BY <1>2, <1>5, <1>7

\* The capacity of a memory array, of its two fields.
Capacity(kb, extended) ==
    IF kb # None /\ kb # << 0, 32768 >> THEN Size(kb, "KB")
    ELSE IF extended # None /\ extended # Zero(4) THEN Size(extended, "B")
    ELSE None

LEMMA WideCapacity ==
    ASSUME NEW v \in QuadWord, NEW w \in QuadWord, v # w
    PROVE  /\ Capacity(Bit31, v) # Capacity(Bit31, w)
           /\ \A kb \in DoubleWord \ {Bit31} : Capacity(kb, v) = Capacity(kb, w)
<1> DEFINE size(x) == IF x # Zero(4) THEN Size(x, "B") ELSE None
<1>1. \A x \in QuadWord : Capacity(Bit31, x) = size(x)
  BY WordNumbers DEF Capacity, Bit31
<1>2. \A kb \in DoubleWord \ {Bit31} : Capacity(kb, v) = Capacity(kb, w)
  BY WordNumbers DEF Capacity, Bit31
<1>3. Size(v, "B") # Size(w, "B") /\ Size(v, "B") # None /\ Size(w, "B") # None
  BY SizesDiffer, WordNumbers
<1>4. size(v) # size(w)
  BY <1>3
<1> QED
  BY <1>1, <1>2, <1>4

LEMMA CountObeys ==
    ASSUME NEW r, NEW s, NEW k, NEW j, OneBit(r, s, k, j), r.type = 4,
           NEW field, NEW a \in Nat, NEW b \in Nat, a < b, InWide(r, k, b, 2),
           \A t \in {r, s} : Decode(t)[field] = _resolve(_u8(t.formatted, a), _u16(t.formatted, b))
    PROVE  Obeys(r, s, field, a, << 255 >>, b)
<1> DEFINE f == r.formatted
           g == s.formatted
           small == ByteAt(f, a)
           v == _u16(f, b)
           w == _u16(g, b)
<1>1. /\ Len(f) \in Nat /\ Len(g) = Len(f) /\ k \in Nat /\ f \in Seq(Byte) /\ AlikeBut(r, s, k)
  BY LengthOfArea DEF OneBit, AlikeBut
<1>2. a < Len(f) /\ a # k /\ b + 2 <= Len(f)
  BY <1>1 DEF InWide
<1>3. small \in Byte
  BY <1>1, <1>2, ElementOfSeq DEF ByteAt
<1>4. _u8(f, a) = small /\ _u8(g, a) = small
  BY <1>1, <1>2, ReadElsewhere DEF _u8
<1>5. v \in Word /\ w \in Word /\ v # w /\ v = WordAt(f, b)
  BY WideChanges
<1>6. Decode(r)[field] = _resolve(small, v) /\ Decode(s)[field] = _resolve(small, w)
  BY <1>4
<1>7. Holds(f, a, << 255 >>) <=> small = 255
  BY HeldBytes
<1>8. Holds(f, b, << 255, 0 >>) <=> v = 255
  BY <1>1, <1>2, <1>5, EscapedWords
<1>9. << 255 >>[1] = 255
  OBVIOUS
<1> HIDE DEF small, v, w
<1>10. small = 255 => _resolve(small, v) = v /\ _resolve(small, w) = w
  BY <1>3, <1>5, WideCount
<1>11. small # 255 => _resolve(small, v) = _resolve(small, w)
  BY <1>3, <1>5, WideCount
<1> QED
  BY <1>5, <1>6, <1>7, <1>8, <1>9, <1>10, <1>11 DEF Obeys, f

LEMMA FamilyObeys ==
    ASSUME NEW r, NEW s, NEW k, NEW j, OneBit(r, s, k, j), r.type = 4, InWide(r, k, 36, 2),
           \A t \in {r, s} :
               LET small == Or(_u8(t.formatted, 2), 0)
                   big == _u16(t.formatted, 36)
               IN  Decode(t).family = IF small = 254 /\ big # None THEN big ELSE small
    PROVE  Obeys(r, s, "family", 2, << 254 >>, 36)
<1> DEFINE f == r.formatted
           g == s.formatted
           small == ByteAt(f, 2)
           v == _u16(f, 36)
           w == _u16(g, 36)
<1>1. /\ Len(f) \in Nat /\ Len(g) = Len(f) /\ k \in Nat /\ f \in Seq(Byte) /\ AlikeBut(r, s, k)
  BY LengthOfArea DEF OneBit, AlikeBut
<1>2. 2 < Len(f) /\ 2 # k /\ 36 + 2 <= Len(f)
  BY <1>1 DEF InWide
<1>3. small \in Byte
  BY <1>1, <1>2, ElementOfSeq DEF ByteAt
<1>4. Or(_u8(f, 2), 0) = small /\ Or(_u8(g, 2), 0) = small
  <2>1. _u8(f, 2) = small /\ _u8(g, 2) = small
    BY <1>1, <1>2, ReadElsewhere DEF _u8
  <2> QED
    BY <1>3, <2>1, WordNumbers DEF Or
<1>5. v \in Word /\ w \in Word /\ v # w /\ v = WordAt(f, 36)
  BY WideChanges
<1>6. v # None /\ w # None
  BY <1>5, WordNumbers
<1>7. Holds(f, 2, << 254 >>) <=> small = 254
  BY HeldBytes
<1>8. Holds(f, 36, << 254, 0 >>) <=> v = 254
  BY <1>1, <1>2, <1>5, EscapedWords
<1>9. << 254 >>[1] = 254
  OBVIOUS
<1>10. /\ Decode(r).family = IF small = 254 THEN v ELSE small
       /\ Decode(s).family = IF small = 254 THEN w ELSE small
  BY <1>4, <1>6
<1> HIDE DEF small, v, w
<1> QED
  BY <1>5, <1>7, <1>8, <1>9, <1>10 DEF Obeys, f

LEMMA CacheObeys ==
    ASSUME NEW r, NEW s, NEW k, NEW j, OneBit(r, s, k, j), r.type = 7,
           NEW field, NEW a \in Nat, NEW b \in Nat, a + 2 <= b, InWide(r, k, b, 4),
           \A t \in {r, s} :
               Decode(t)[field] = _decode_cache_size(_u16(t.formatted, a), _u32(t.formatted, b))
    PROVE  Obeys(r, s, field, a, << 255, 255 >>, b)
<1> DEFINE f == r.formatted
           g == s.formatted
           value == WordAt(f, a)
           v == _u32(f, b)
           w == _u32(g, b)
<1>1. /\ Len(f) \in Nat /\ Len(g) = Len(f) /\ k \in Nat /\ f \in Seq(Byte) /\ AlikeBut(r, s, k)
  BY LengthOfArea DEF OneBit, AlikeBut
<1>2. a + 2 <= Len(f) /\ k \notin a .. a + 1
  BY <1>1 DEF InWide
<1>3. value \in Word
  BY <1>1, <1>2, WordsRead
<1>4. _u16(f, a) = value /\ _u16(g, a) = value
  <2>1. _u16(f, a) = value
    BY <1>1, <1>2 DEF _u16
  <2>2. _u16(g, a) = _u16(f, a)
    BY <1>1, <1>2, ReadElsewhere
  <2> QED
    BY <2>1, <2>2
<1>5. v \in DoubleWord /\ w \in DoubleWord /\ v # w
  BY WideChanges
<1>6. /\ Decode(r)[field] = _decode_cache_size(value, v)
      /\ Decode(s)[field] = _decode_cache_size(value, w)
  BY <1>4
<1>7. Holds(f, a, << 255, 255 >>) <=> value = MaxWord
  BY <1>1, <1>2, EscapedWords
<1> HIDE DEF value, v, w
<1>8. /\ value = MaxWord => _decode_cache_size(value, v) # _decode_cache_size(value, w)
      /\ value # MaxWord => _decode_cache_size(value, v) = _decode_cache_size(value, w)
  BY <1>3, <1>5, WideCacheSize
<1>9. r.type # 4
  OBVIOUS
<1> QED
  BY <1>6, <1>7, <1>8, <1>9 DEF Obeys, f

LEMMA MemoryObeys ==
    ASSUME NEW r, NEW s, NEW k, NEW j, OneBit(r, s, k, j), r.type = 17, InWide(r, k, 24, 4),
           \A t \in {r, s} :
               Decode(t).size_bytes = _decode_memory_size(_u16(t.formatted, 8), _u32(t.formatted, 24))
    PROVE  Obeys(r, s, "size_bytes", 8, << 255, 127 >>, 24)
<1> DEFINE f == r.formatted
           g == s.formatted
           word == WordAt(f, 8)
           v == _u32(f, 24)
           w == _u32(g, 24)
<1>1. /\ Len(f) \in Nat /\ Len(g) = Len(f) /\ k \in Nat /\ f \in Seq(Byte) /\ AlikeBut(r, s, k)
  BY LengthOfArea DEF OneBit, AlikeBut
<1>2. 8 + 2 <= Len(f) /\ k \notin 8 .. 8 + 1
  BY <1>1 DEF InWide
<1>3. word \in Word
  BY <1>1, <1>2, WordsRead
<1>4. _u16(f, 8) = word /\ _u16(g, 8) = word
  <2>1. _u16(f, 8) = word
    BY <1>1, <1>2 DEF _u16
  <2>2. _u16(g, 8) = _u16(f, 8)
    BY <1>1, <1>2, ReadElsewhere
  <2> QED
    BY <2>1, <2>2
<1>5. v \in DoubleWord /\ w \in DoubleWord /\ v # w
  BY WideChanges
<1>6. /\ Decode(r).size_bytes = _decode_memory_size(word, v)
      /\ Decode(s).size_bytes = _decode_memory_size(word, w)
  BY <1>4
<1>7. Holds(f, 8, << 255, 127 >>) <=> word = Max15
  BY <1>1, <1>2, EscapedWords
<1> HIDE DEF word, v, w
<1>8. /\ word = Max15 => _decode_memory_size(word, v) # _decode_memory_size(word, w)
      /\ word # Max15 => _decode_memory_size(word, v) = _decode_memory_size(word, w)
  BY <1>3, <1>5, WideMemorySize
<1>9. r.type # 4
  OBVIOUS
<1> QED
  BY <1>6, <1>7, <1>8, <1>9 DEF Obeys, f

LEMMA CapacityObeys ==
    ASSUME NEW r, NEW s, NEW k, NEW j, OneBit(r, s, k, j), r.type = 16, InWide(r, k, 11, 8),
           \A t \in {r, s} :
               Decode(t).max_capacity_bytes = Capacity(_u32(t.formatted, 3), _u64(t.formatted, 11))
    PROVE  Obeys(r, s, "max_capacity_bytes", 3, << 0, 0, 0, 128 >>, 11)
<1> DEFINE f == r.formatted
           g == s.formatted
           kb == _u32(f, 3)
           v == _u64(f, 11)
           w == _u64(g, 11)
<1>1. /\ Len(f) \in Nat /\ Len(g) = Len(f) /\ k \in Nat /\ f \in Seq(Byte) /\ AlikeBut(r, s, k)
  BY LengthOfArea DEF OneBit, AlikeBut
<1>2. 3 + 2 * 2 <= Len(f) /\ 3 + 4 <= Len(f) /\ k \notin 3 .. 3 + 3
  BY <1>1 DEF InWide
<1>3. kb \in DoubleWord
  BY <1>1, <1>2, WordsRead DEF _u32, DoubleWord
<1>4. _u32(g, 3) = kb
  BY <1>1, <1>2, ReadElsewhere
<1>5. v \in QuadWord /\ w \in QuadWord /\ v # w
  BY WideChanges
<1>6. /\ Decode(r).max_capacity_bytes = Capacity(kb, v)
      /\ Decode(s).max_capacity_bytes = Capacity(kb, w)
  BY <1>4
<1>7. Holds(f, 3, << 0, 0, 0, 128 >>) <=> kb = Bit31
  BY <1>1, <1>2, EscapedWords
<1> HIDE DEF kb, v, w
<1>8. /\ kb = Bit31 => Capacity(kb, v) # Capacity(kb, w)
      /\ kb # Bit31 => Capacity(kb, v) = Capacity(kb, w)
  BY <1>3, <1>5, WideCapacity
<1>9. r.type # 4
  OBVIOUS
<1> QED
  BY <1>6, <1>7, <1>8, <1>9 DEF Obeys, f

LEMMA ROMObeys ==
    ASSUME NEW r, NEW s, NEW k, NEW j, OneBit(r, s, k, j), r.type = 0, InWide(r, k, 20, 2),
           \A t \in {r, s} :
               Decode(t).rom_size_bytes = _rom_size(_u8(t.formatted, 5), _u16(t.formatted, 20))
    PROVE  Obeys(r, s, "rom_size_bytes", 5, << 255 >>, 20)
<1> DEFINE f == r.formatted
           g == s.formatted
           small == ByteAt(f, 5)
           v == _u16(f, 20)
           w == _u16(g, 20)
<1>1. /\ Len(f) \in Nat /\ Len(g) = Len(f) /\ k \in Nat /\ f \in Seq(Byte) /\ AlikeBut(r, s, k)
  BY LengthOfArea DEF OneBit, AlikeBut
<1>2. 5 < Len(f) /\ 5 # k
  BY <1>1 DEF InWide
<1>3. small \in Byte /\ small # None
  BY <1>1, <1>2, ElementOfSeq, WordNumbers DEF ByteAt
<1>4. _u8(f, 5) = small /\ _u8(g, 5) = small
  BY <1>1, <1>2, ReadElsewhere DEF _u8
<1>5. v \in Word /\ w \in Word /\ v # w
  BY WideChanges
<1>6. Decode(r).rom_size_bytes = _rom_size(small, v) /\ Decode(s).rom_size_bytes = _rom_size(small, w)
  BY <1>4
<1>7. Holds(f, 5, << 255 >>) <=> small = 255
  BY HeldBytes
<1> HIDE DEF small, v, w
<1>8. /\ small = 255 => /\ _rom_size(small, v) = _extended_rom_size(v)
                        /\ _rom_size(small, w) = _extended_rom_size(w)
      /\ small # 255 => _rom_size(small, v) = _rom_size(small, w)
  BY <1>3 DEF _rom_size
<1>9. \/ _extended_rom_size(v) # _extended_rom_size(w)
      \/ _extended_rom_size(v) \in {None, Size(<< 16 >>, "MB")}
  BY <1>5, WideROMSize
<1>10. r.type # 4
  OBVIOUS
<1> QED
  BY <1>6, <1>7, <1>8, <1>9, <1>10 DEF Obeys, f

\* The last part of a record, when the parts before it lack the field.
LEMMA ReadBehind ==
    ASSUME NEW front, NEW rest, NEW x \in DOMAIN rest, x \notin DOMAIN front
    PROVE  (front ++ rest)[x] = rest[x]
BY DEF ++

LEMMA ROMRead ==
    ASSUME NEW r, r.type = 0
    PROVE  Decode(r).rom_size_bytes = _rom_size(_u8(r.formatted, 5), _u16(r.formatted, 20))
<1> DEFINE f == r.formatted
           strings == [vendor |-> 0, version |-> 1]
           bytes == [bios_major |-> 16, bios_minor |-> 17, ec_major |-> 18, ec_minor |-> 19]
           raw_date == _str(r.strings, Or(_u8(f, 4), 0))
           date == _parse_bios_release_date(raw_date)
           size == _rom_size(_u8(f, 5), _u16(f, 20))
           word == Or(_u64(f, 6), Zero(4))
           slice == SafeSlice(f, 14, Len(f))
           front == Handle(r) ++ StringFields(r, strings) ++ OptionalBytes(r, bytes, None)
           rest == [release_date_raw |-> raw_date, release_date |-> date,
                    rom_size_bytes |-> size, characteristics |-> word,
                    characteristics_extension |-> slice]
<1>1. Decode(r) = front ++ rest
  BY DEF Decode, parse_bios
<1>2. "rom_size_bytes" \notin DOMAIN front
  BY DEF ++, Handle, StringFields, OptionalBytes
<1> HIDE DEF raw_date, date, size, word, slice
<1>3. "rom_size_bytes" \in DOMAIN rest /\ rest.rom_size_bytes = size
  OBVIOUS
<1> HIDE DEF front, rest
<1> QED
  BY <1>1, <1>2, <1>3, ReadBehind DEF size, f

LEMMA CountsRead ==
    ASSUME NEW r, r.type = 4
    PROVE  LET f == r.formatted
               family_8 == Or(_u8(f, 2), 0)
               family_16 == _u16(f, 36)
           IN  /\ Decode(r).family = IF family_8 = 254 /\ family_16 # None
                                     THEN family_16 ELSE family_8
               /\ Decode(r).core_count = _resolve(_u8(f, 31), _u16(f, 38))
               /\ Decode(r).cores_enabled = _resolve(_u8(f, 32), _u16(f, 40))
               /\ Decode(r).thread_count = _resolve(_u8(f, 33), _u16(f, 42))
<1> DEFINE f == r.formatted
           strings == [socket_designation |-> 0, manufacturer |-> 3, version |-> 12,
                       serial_number |-> 28, asset_tag |-> 29, part_number |-> 30]
           bytes == [type |-> 1, voltage_raw |-> 13, status |-> 20, upgrade |-> 21]
           words == [characteristics |-> 34]
           speeds == [external_clock_mhz |-> 14, max_speed_mhz |-> 16,
                      current_speed_mhz |-> 18, threads_enabled |-> 44]
           handles == [l1_cache_handle |-> 22, l2_cache_handle |-> 24, l3_cache_handle |-> 26]
           family_8 == Or(_u8(f, 2), 0)
           family_16 == _u16(f, 36)
           family == IF family_8 = 254 /\ family_16 # None THEN family_16 ELSE family_8
           id == IF Len(f) >= 12 THEN SafeSlice(f, 4, 12) ELSE << >>
           count(a, b) == _resolve(_u8(f, a), _u16(f, b))
           front == Handle(r) ++ StringFields(r, strings) ++ ByteFields(r, bytes)
                        ++ WordFields(r, words) ++ OptionalWords(r, speeds, 0)
                        ++ OptionalWords(r, handles, MaxWord)
           rest == [family |-> family, processor_id |-> id,
                    core_count |-> count(31, 38), cores_enabled |-> count(32, 40),
                    thread_count |-> count(33, 42)]
<1>1. Decode(r) = front ++ rest
  BY DEF Decode, parse_processor
<1>2. /\ "family" \notin DOMAIN front /\ "core_count" \notin DOMAIN front
      /\ "cores_enabled" \notin DOMAIN front /\ "thread_count" \notin DOMAIN front
  BY DEF ++, Handle, StringFields, ByteFields, WordFields, OptionalWords
<1> HIDE DEF family, id, count
<1>3. /\ "family" \in DOMAIN rest /\ rest.family = family
      /\ "core_count" \in DOMAIN rest /\ rest.core_count = count(31, 38)
      /\ "cores_enabled" \in DOMAIN rest /\ rest.cores_enabled = count(32, 40)
      /\ "thread_count" \in DOMAIN rest /\ rest.thread_count = count(33, 42)
  OBVIOUS
<1> HIDE DEF front, rest
<1>4. /\ Decode(r).family = family /\ Decode(r).core_count = count(31, 38)
      /\ Decode(r).cores_enabled = count(32, 40) /\ Decode(r).thread_count = count(33, 42)
  BY <1>1, <1>2, <1>3, ReadBehind
<1> QED
  BY <1>4 DEF family, count, f

LEMMA CacheSizesRead ==
    ASSUME NEW r, r.type = 7
    PROVE  LET f == r.formatted
           IN  /\ Decode(r).max_size_bytes = _decode_cache_size(_u16(f, 3), _u32(f, 15))
               /\ Decode(r).installed_size_bytes = _decode_cache_size(_u16(f, 5), _u32(f, 19))
<1> DEFINE f == r.formatted
           strings == [socket_designation |-> 0]
           bytes == [error_correction |-> 12, system_cache_type |-> 13, associativity |-> 14]
           words == [configuration |-> 1, supported_sram_types |-> 7, current_sram_type |-> 9]
           optional_bytes == [speed_nanoseconds |-> 11]
           size(a, b) == _decode_cache_size(_u16(f, a), _u32(f, b))
           front == Handle(r) ++ StringFields(r, strings) ++ ByteFields(r, bytes)
                        ++ WordFields(r, words) ++ OptionalBytes(r, optional_bytes, 0)
           rest == [max_size_bytes |-> size(3, 15), installed_size_bytes |-> size(5, 19)]
<1>1. Decode(r) = front ++ rest
  BY DEF Decode, parse_cache
<1>2. "max_size_bytes" \notin DOMAIN front /\ "installed_size_bytes" \notin DOMAIN front
  BY DEF ++, Handle, StringFields, ByteFields, WordFields, OptionalBytes
<1> HIDE DEF size
<1>3. /\ "max_size_bytes" \in DOMAIN rest /\ rest.max_size_bytes = size(3, 15)
      /\ "installed_size_bytes" \in DOMAIN rest /\ rest.installed_size_bytes = size(5, 19)
  OBVIOUS
<1> HIDE DEF front, rest
<1>4. Decode(r).max_size_bytes = size(3, 15) /\ Decode(r).installed_size_bytes = size(5, 19)
  BY <1>1, <1>2, <1>3, ReadBehind
<1> QED
  BY <1>4 DEF size, f

LEMMA CapacityRead ==
    ASSUME NEW r, r.type = 16
    PROVE  Decode(r).max_capacity_bytes = Capacity(_u32(r.formatted, 3), _u64(r.formatted, 11))
<1> DEFINE f == r.formatted
           bytes == [location |-> 0, use |-> 1, error_correction |-> 2]
           words == [error_info_handle |-> 7, device_count |-> 9]
           capacity == Capacity(_u32(f, 3), _u64(f, 11))
           front == Handle(r) ++ ByteFields(r, bytes) ++ WordFields(r, words)
           rest == [max_capacity_bytes |-> capacity]
<1>1. Decode(r) = front ++ rest
  BY DEF Decode, parse_memory_array, Capacity
<1>2. "max_capacity_bytes" \notin DOMAIN front
  BY DEF ++, Handle, ByteFields, WordFields
<1> HIDE DEF capacity
<1>3. "max_capacity_bytes" \in DOMAIN rest /\ rest.max_capacity_bytes = capacity
  OBVIOUS
<1> HIDE DEF front, rest
<1> QED
  BY <1>1, <1>2, <1>3, ReadBehind DEF capacity, f

LEMMA DeviceSizeRead ==
    ASSUME NEW r, r.type = 17
    PROVE  Decode(r).size_bytes
               = _decode_memory_size(_u16(r.formatted, 8), _u32(r.formatted, 24))
<1> DEFINE f == r.formatted
           bytes == [form_factor |-> 10, device_set |-> 11, type |-> 14,
                     memory_technology |-> 36]
           words == [array_handle |-> 0, error_info_handle |-> 2, type_detail |-> 15,
                     operating_mode_capability |-> 37, module_manufacturer_id |-> 40,
                     module_product_id |-> 42,
                     subsystem_controller_manufacturer_id |-> 44,
                     subsystem_controller_product_id |-> 46]
           strings == [locator |-> 12, bank_locator |-> 13, manufacturer |-> 19,
                       serial_number |-> 20, asset_tag |-> 21, part_number |-> 22,
                       module_firmware_version |-> 39]
           widths == [total_width_bits |-> 4, data_width_bits |-> 6]
           speeds == [speed_mts |-> 17, configured_speed_mts |-> 28,
                      min_voltage_mv |-> 30, max_voltage_mv |-> 32,
                      configured_voltage_mv |-> 34]
           rank_byte == _u8(f, 23)
           rank == IF rank_byte = None THEN None ELSE Unless(rank_byte % 16, 0)
           device_size == _decode_memory_size(_u16(f, 8), _u32(f, 24))
           size(o) == _decode_extended_size(_u64(f, o))
           speed(o) == _extended_speed(_u32(f, o))
           front == Handle(r) ++ ByteFields(r, bytes) ++ WordFields(r, words)
                        ++ StringFields(r, strings) ++ OptionalWords(r, widths, MaxWord)
                        ++ OptionalWords(r, speeds, 0)
           rest == [size_bytes |-> device_size, rank |-> rank,
                    non_volatile_size_bytes |-> size(48), volatile_size_bytes |-> size(56),
                    cache_size_bytes |-> size(64), logical_size_bytes |-> size(72),
                    extended_speed_mts |-> speed(80),
                    extended_configured_speed_mts |-> speed(84)]
<1>1. Decode(r) = front ++ rest
  BY DEF Decode, parse_memory_device
<1>2. "size_bytes" \notin DOMAIN front
  BY DEF ++, Handle, StringFields, ByteFields, WordFields, OptionalWords
<1> HIDE DEF device_size, rank, size, speed
<1>3. "size_bytes" \in DOMAIN rest /\ rest.size_bytes = device_size
  OBVIOUS
<1> HIDE DEF front, rest
<1> QED
  BY <1>1, <1>2, <1>3, ReadBehind DEF device_size, f

\* What one bit changes that lies in the wide field of an escape.
LEMMA EscapeObeyed ==
    ASSUME NEW r, NEW s, NEW k, NEW j, OneBit(r, s, k, j), NEW e \in Escapes(r.type),
           InWide(r, k, e.wide, e.length)
    PROVE  Obeys(r, s, e.field, e.at, e.escape, e.wide)
<1>1. s.type = r.type /\ r.type \in {0, 1, 2, 3, 4, 7, 9, 16, 17, 38, 43}
  BY DEF OneBit, AlikeBut, RawStructure
<1> DEFINE Is(field, at, escape, wide, length) ==
               e = [field |-> field, at |-> at, escape |-> escape, wide |-> wide, length |-> length]
<1>2. \A field, at, escape, wide, length :
         Is(field, at, escape, wide, length) =>
             /\ e.field = field /\ e.at = at /\ e.escape = escape
             /\ e.wide = wide /\ e.length = length
  OBVIOUS
<1>3. /\ r.type = 0 => Is("rom_size_bytes", 5, << 255 >>, 20, 2)
      /\ r.type = 4 => \/ Is("family", 2, << 254 >>, 36, 2)
                       \/ Is("core_count", 31, << 255 >>, 38, 2)
                       \/ Is("cores_enabled", 32, << 255 >>, 40, 2)
                       \/ Is("thread_count", 33, << 255 >>, 42, 2)
      /\ r.type = 7 => \/ Is("max_size_bytes", 3, << 255, 255 >>, 15, 4)
                       \/ Is("installed_size_bytes", 5, << 255, 255 >>, 19, 4)
      /\ r.type = 16 => Is("max_capacity_bytes", 3, << 0, 0, 0, 128 >>, 11, 8)
      /\ r.type = 17 => Is("size_bytes", 8, << 255, 127 >>, 24, 4)
      /\ r.type \in {0, 4, 7, 16, 17}
  BY <1>1 DEF Escapes
<1> HIDE DEF Is
<1>4. CASE r.type = 0
  BY <1>1, <1>2, <1>3, <1>4, ROMRead, ROMObeys
<1>5. CASE r.type = 4
  <2>1. CASE Is("family", 2, << 254 >>, 36, 2)
    BY <1>1, <1>2, <1>5, <2>1, CountsRead, FamilyObeys
  <2>2. CASE Is("core_count", 31, << 255 >>, 38, 2)
    BY <1>1, <1>2, <1>5, <2>2, CountsRead, CountObeys
  <2>3. CASE Is("cores_enabled", 32, << 255 >>, 40, 2)
    BY <1>1, <1>2, <1>5, <2>3, CountsRead, CountObeys
  <2>4. CASE Is("thread_count", 33, << 255 >>, 42, 2)
    BY <1>1, <1>2, <1>5, <2>4, CountsRead, CountObeys
  <2> QED
    BY <1>3, <1>5, <2>1, <2>2, <2>3, <2>4
<1>6. CASE r.type = 7
  <2>1. CASE Is("max_size_bytes", 3, << 255, 255 >>, 15, 4)
    BY <1>1, <1>2, <1>6, <2>1, CacheSizesRead, CacheObeys
  <2>2. CASE Is("installed_size_bytes", 5, << 255, 255 >>, 19, 4)
    BY <1>1, <1>2, <1>6, <2>2, CacheSizesRead, CacheObeys
  <2> QED
    BY <1>3, <1>6, <2>1, <2>2
<1>7. CASE r.type = 16
  BY <1>1, <1>2, <1>3, <1>7, CapacityRead, CapacityObeys
<1>8. CASE r.type = 17
  BY <1>1, <1>2, <1>3, <1>8, DeviceSizeRead, MemoryObeys
<1> QED
  BY <1>3, <1>4, <1>5, <1>6, <1>7, <1>8

LEMMA TouchedOnce ==
    ASSUME NEW r, NEW s, NEW k, NEW j, OneBit(r, s, k, j)
    PROVE  Touched(r, s) = {k}
<1>1. /\ Len(r.formatted) \in Nat /\ k \in Nat /\ k < Len(r.formatted)
      /\ ByteAt(s.formatted, k) # ByteAt(r.formatted, k)
  BY LengthOfArea DEF OneBit, AlikeBut, TurnedRight
<1>2. \A i \in Nat : i < Len(r.formatted) /\ i # k =>
                         ByteAt(s.formatted, i) = ByteAt(r.formatted, i)
  BY DEF OneBit, AlikeBut
<1> QED
  BY <1>1, <1>2 DEF Touched

\* In every structure, the bit of a wide field counts when the short field holds the
\* escape and does not when it holds anything else, and an escape is never the number
\* reported while the wide field is there (structures.py, lines 82-103, 241-243,
\* 276-287, 321-337, 401-409, 422-442).
THEOREM EscapesDecide == Spec => EscapesAreFollowed
<1> DEFINE Decided(e) ==
               LET f == raw.formatted
                   wide == e.wide .. e.wide + e.length - 1
                   old == Decode(raw)[e.field]
                   new == Decode(raw')[e.field]
               IN  (wide \subseteq 0 .. Len(f) - 1 /\ Touched(raw, raw') \cap wide # {}) =>
                       IF Holds(f, e.at, e.escape)
                       THEN /\ \/ new # old
                               \/ raw.type = 0 /\ old \in {None, Size(<< 16 >>, "MB")}
                            /\ raw.type = 4 /\ old = e.escape[1] =>
                                   Holds(f, e.wide, << e.escape[1], 0 >>)
                       ELSE new = old
<1>1. RawOK /\ [Next]_vars => [\A e \in Escapes(raw.type) : Decided(e)]_vars
  <2> SUFFICES ASSUME RawOK, [Next]_vars, NEW e \in Escapes(raw.type) PROVE Decided(e)
    OBVIOUS
  <2>1. CASE raw' = raw
    BY <2>1 DEF Touched
  <2>2. ASSUME NEW k, NEW j, OneBit(raw, raw', k, j) PROVE Decided(e)
    <3> DEFINE wide == e.wide .. e.wide + e.length - 1
    <3> SUFFICES ASSUME wide \subseteq 0 .. Len(raw.formatted) - 1,
                        Touched(raw, raw') \cap wide # {}
                 PROVE  Obeys(raw, raw', e.field, e.at, e.escape, e.wide)
      BY DEF Obeys
    <3>1. k \in wide
      BY <2>2, TouchedOnce
    <3>2. e.wide \in Nat /\ e.length \in Nat
      BY DEF Escapes
    <3>3. InWide(raw, k, e.wide, e.length)
      <4>1. Len(raw.formatted) \in Nat
        BY LengthOfArea DEF RawOK
      <4>2. e.wide + e.length - 1 \in wide
        BY <3>1, <3>2
      <4> QED
        BY <3>1, <3>2, <4>1, <4>2 DEF InWide
    <3> QED
      BY <2>2, <3>3, EscapeObeyed
  <2> QED
    BY <2>1, <2>2, OneBitAtATime
<1> QED
  BY <1>1, AlwaysRawOK, PTL DEF Spec, EscapesAreFollowed

(***************************************************************************)
(* The elements a chassis contains.                                        *)
(***************************************************************************)

LEMMA ProductsInOrder ==
    ASSUME NEW a \in Nat, NEW b \in Nat, NEW m \in Nat, a <= b
    PROVE  a * m <= b * m /\ a * m \in Nat /\ (a + 1) * m = a * m + m
<1>1. (b - a) * m >= 0
  OBVIOUS
<1>2. (b - a) * m = b * m - a * m
  OBVIOUS
<1> QED
  BY <1>1, <1>2

\* The offsets of n records of m bytes each, from offset 17.
Records(n, m) == {17 + i * m + j : i \in 0 .. n - 1, j \in 0 .. m - 1}

\* Records lie behind each other without a gap.
LEMMA RecordsTile ==
    ASSUME NEW n \in Nat, NEW m \in Nat
    PROVE  Records(n, m) = 17 .. 16 + n * m
<1> DEFINE at(i, j) == 17 + i * m + j
           last == 16 + n * m
<1>1. ASSUME NEW i \in 0 .. n - 1, NEW j \in 0 .. m - 1
      PROVE  17 + i * m + j \in 17 .. 16 + n * m
  <2>1. i \in Nat /\ i + 1 \in Nat /\ i + 1 <= n /\ j \in Nat /\ j < m
    OBVIOUS
  <2>2. (i + 1) * m <= n * m /\ i * m \in Nat /\ (i + 1) * m = i * m + m /\ n * m \in Nat
    BY <2>1, ProductsInOrder
  <2> DEFINE p == i * m
             q == n * m
  <2>3. p \in Nat /\ q \in Nat /\ p + m <= q
    BY <2>2
  <2> HIDE DEF p, q
  <2>4. 17 + p + j \in 17 .. 16 + q
    BY <2>1, <2>3
  <2> QED
    BY <2>4 DEF p, q
<1>2. ASSUME NEW x \in 17 .. 16 + n * m
      PROVE  \E i \in 0 .. n - 1, j \in 0 .. m - 1 : x = 17 + i * m + j
  <2> DEFINE y == x - 17
             T == {i \in Nat : y < (i + 1) * m}
  <2>1. y \in Nat /\ y < n * m
    <3>1. n * m \in Nat
      BY ProductsInOrder
    <3> DEFINE q == n * m
    <3>2. q \in Nat
      BY <3>1
    <3> HIDE DEF q
    <3>3. x \in 17 .. 16 + q
      BY DEF q
    <3>4. y \in Nat /\ y < q
      BY <3>2, <3>3
    <3> QED
      BY <3>4 DEF q
  <2> HIDE DEF y
  <2>2. n # 0 /\ n - 1 \in Nat /\ (n - 1) + 1 = n
    <3>1. n = 0 => n * m = 0
      OBVIOUS
    <3> QED
      BY <2>1, <3>1
  <2>3. n - 1 \in T
    BY <2>1, <2>2
  <2>4. PICK i \in T : \A k \in T : i <= k
    BY <2>3, LeastElement
  <2>5. i \in Nat /\ y < (i + 1) * m /\ i <= n - 1
    BY <2>3, <2>4
  <2>6. i * m \in Nat /\ (i + 1) * m = i * m + m
    BY <2>5, ProductsInOrder
  <2>7. i * m <= y
    <3>1. CASE i = 0
      <4>1. i * m = 0
        BY <3>1
      <4> QED
        BY <2>1, <4>1
    <3>2. CASE i # 0
      <4>1. i - 1 \in Nat /\ (i - 1) + 1 = i /\ ~ (i <= i - 1)
        BY <2>5, <3>2
      <4>2. i - 1 \notin T
        BY <2>4, <4>1
      <4>3. ~ (y < i * m)
        BY <4>1, <4>2
      <4> QED
        BY <2>1, <2>6, <4>3
    <3> QED
      BY <3>1, <3>2
  <2> DEFINE p == i * m
             j == y - p
  <2>8. p \in Nat /\ p <= y /\ y < p + m
    BY <2>5, <2>6, <2>7
  <2> HIDE DEF p
  <2>9. j \in 0 .. m - 1 /\ x = 17 + p + j /\ i \in 0 .. n - 1
    BY <2>1, <2>2, <2>5, <2>8 DEF y
  <2> QED
    BY <2>9 DEF p
<1>3. /\ \A i \in 0 .. n - 1, j \in 0 .. m - 1 : at(i, j) \in 17 .. last
      /\ \A x \in 17 .. last : \E i \in 0 .. n - 1, j \in 0 .. m - 1 : x = at(i, j)
  BY <1>1, <1>2
<1>4. Records(n, m) = {at(i, j) : i \in 0 .. n - 1, j \in 0 .. m - 1}
  BY DEF Records
<1> HIDE DEF at, last
<1>5. Records(n, m) = 17 .. last
  BY <1>3, <1>4
<1> QED
  BY <1>5 DEF last

\* What a byte behind the lengths of the table is to the SKU number.
LEMMA ElementBit ==
    ASSUME NEW r, NEW s, NEW k, NEW j, OneBit(r, s, k, j), r.type = 3, k >= 17
    PROVE  LET skipped == Elements(r.formatted)
               behind == k \notin skipped /\ 17 .. k - 1 \subseteq skipped
           IN  /\ Differing(Decode(r), Decode(s)) \subseteq IF behind THEN {"sku_number"} ELSE {}
               /\ behind => Decode(s).sku_number = _str(r.strings, ByteAt(s.formatted, k))
<1> DEFINE f == r.formatted
           g == s.formatted
           n == ByteAt(f, 15)
           m == ByteAt(f, 16)
           q == n * m
           end == 17 + q
           skipped == Elements(f)
           behind == k \notin skipped /\ 17 .. k - 1 \subseteq skipped
<1>1. /\ Len(f) \in Nat /\ Len(g) = Len(f) /\ k \in Nat /\ k < Len(f) /\ AlikeBut(r, s, k)
      /\ f \in Seq(Byte) /\ g \in Seq(Byte) /\ s.type = 3 /\ s.strings = r.strings
  BY LengthOfArea DEF OneBit, AlikeBut
<1>2. n \in Byte /\ m \in Byte
  BY <1>1, ElementOfSeq DEF ByteAt
<1>3. /\ Or(_u8(f, 15), 0) = n /\ Or(_u8(f, 16), 0) = m
      /\ Or(_u8(g, 15), 0) = n /\ Or(_u8(g, 16), 0) = m
  <2>1. _u8(f, 15) = n /\ _u8(f, 16) = m
    BY <1>1 DEF _u8
  <2>2. _u8(g, 15) = n /\ _u8(g, 16) = m
    <3>1. \A o \in Nat : o # k => _u8(g, o) = _u8(f, o)
      BY <1>1, ReadElsewhere
    <3>2. 15 # k /\ 16 # k
      BY <1>1
    <3> HIDE DEF n, m
    <3> QED
      BY <2>1, <3>1, <3>2
  <2> HIDE DEF n, m
  <2> QED
    BY <1>2, <2>1, <2>2, WordNumbers DEF Or
<1>4. sku_offset(f) = end /\ sku_offset(g) = end
  BY <1>3 DEF sku_offset
<1>5. n \in Nat /\ m \in Nat /\ q \in Nat
  <2>1. n \in Nat /\ m \in Nat
    BY <1>2, ByteBits
  <2> HIDE DEF n, m
  <2> QED
    BY <2>1, ProductsInOrder
<1>6. skipped = 17 .. end - 1 /\ end \in Nat
  <2>1. skipped = Records(n, m)
    BY DEF Elements, Records
  <2> HIDE DEF n, m, skipped
  <2>2. skipped = 17 .. 16 + q
    BY <1>5, <2>1, RecordsTile
  <2> HIDE DEF q
  <2> QED
    BY <1>5, <2>2
<1> HIDE DEF q, end, skipped
<1>7. behind <=> k = end
  <2>1. CASE k = end
    BY <1>1, <1>6, <2>1
  <2>2. CASE k < end
    BY <1>1, <1>6, <2>2
  <2>3. CASE k > end
    <3>1. 17 <= end \/ end < 17
      BY <1>6
    <3>2. CASE 17 <= end
      <4>1. end \in 17 .. k - 1 /\ end \notin 17 .. end - 1
        BY <1>1, <1>6, <2>3, <3>2
      <4> QED
        BY <1>6, <2>3, <4>1
    <3>3. CASE end < 17
      <4>1. 17 <= end
        BY <1>1, <1>4, SkuIsBehind
      <4> QED
        BY <1>6, <3>3, <4>1
    <3> QED
      BY <3>1, <3>2, <3>3
  <2> HIDE DEF behind
  <2> QED
    BY <1>1, <1>6, <2>1, <2>2, <2>3
<1> HIDE DEF behind
<1> DEFINE strings == [manufacturer |-> 0, version |-> 2, serial_number |-> 3, asset_tag |-> 4]
           bytes == [bootup_state |-> 5, power_supply_state |-> 6, thermal_state |-> 7,
                     security_status |-> 8]
           optional_bytes == [height_u |-> 13, power_cords |-> 14]
           all(t) == [manufacturer |-> 0, version |-> 2, serial_number |-> 3, asset_tag |-> 4,
                      sku_number |-> sku_offset(t.formatted)]
           sku(t) == _str(t.strings, Or(_u8(t.formatted, end), 0))
           type_byte(t) == Or(_u8(t.formatted, 1), 0)
           rest(t) == [type |-> type_byte(t) % 128, type_locked |-> type_byte(t) >= 128]
           X == IF k = end THEN {"sku_number"} ELSE {}
<1>8. \A t : t.type = 3 =>
          Decode(t) = Handle(t) ++ StringFields(t, all(t)) ++ ByteFields(t, bytes)
                          ++ OptionalBytes(t, optional_bytes, 0) ++ rest(t)
  BY DEF Decode, parse_chassis
<1>9. \A t \in {r, s} : StringFields(t, all(t)) = StringFields(t, strings) ++ [sku_number |-> sku(t)]
  BY <1>4 DEF StringFields, ++
<1>10. /\ Outside(strings, 1, k, X) /\ Outside(bytes, 1, k, X)
       /\ Outside(optional_bytes, 1, k, X)
  BY <1>1 DEF Outside
<1>11. AgreeBut(rest(r), rest(s), X)
  <2>1. type_byte(s) = type_byte(r)
    BY <1>1, ReadElsewhere
  <2> HIDE DEF type_byte, X
  <2> QED
    BY <2>1 DEF AgreeBut
<1>12. AgreeBut([sku_number |-> sku(r)], [sku_number |-> sku(s)], X)
  <2>1. k = end \/ sku(s) = sku(r)
    BY <1>1, <1>6, ReadElsewhere
  <2> HIDE DEF sku
  <2> QED
    BY <2>1 DEF AgreeBut
<1>13. Decode(s).sku_number = sku(s)
  <2>1. /\ "sku_number" \notin DOMAIN StringFields(s, strings)
        /\ "sku_number" \notin DOMAIN Handle(s)
    BY DEF StringFields, Handle
  <2> DEFINE both == StringFields(s, strings) ++ [sku_number |-> sku(s)]
             front == Handle(s) ++ both
  <2>2. "sku_number" \in DOMAIN both /\ both.sku_number = sku(s)
    BY <2>1 DEF ++
  <2> HIDE DEF both
  <2>3. "sku_number" \in DOMAIN front /\ front.sku_number = both.sku_number
    BY <2>1, <2>2 DEF ++
  <2> HIDE DEF front
  <2>4. \A a, b, c : (front ++ a ++ b ++ c).sku_number = front.sku_number
    BY <2>3 DEF ++
  <2> HIDE DEF strings, bytes, optional_bytes, all, sku, rest
  <2>5. Decode(s) = front ++ ByteFields(s, bytes) ++ OptionalBytes(s, optional_bytes, 0) ++ rest(s)
    <3>1. StringFields(s, all(s)) = both
      BY <1>9 DEF both
    <3> QED
      BY <1>1, <1>8, <3>1 DEF front
  <2> QED
    BY <2>2, <2>3, <2>4, <2>5
<1>14. k = end => sku(s) = _str(r.strings, ByteAt(g, k))
  <2>1. _u8(g, k) = ByteAt(g, k) /\ ByteAt(g, k) \in Byte
    BY <1>1, ElementOfSeq DEF _u8, ByteAt
  <2>2. Or(_u8(g, k), 0) = ByteAt(g, k)
    BY <2>1, WordNumbers DEF Or
  <2> QED
    BY <1>1, <2>2
<1> HIDE DEF strings, bytes, optional_bytes, all, sku, rest, X
<1>15. AgreeBut(Decode(r), Decode(s), X)
  BY <1>1, <1>8, <1>9, <1>10, <1>11, <1>12, AgreeUnion, AgreeHandle, AgreeBytes
<1>16. Differing(Decode(r), Decode(s)) \subseteq X
  BY <1>15 DEF AgreeBut, Differing
<1> QED
  BY <1>7, <1>13, <1>14, <1>16 DEF X, behind, skipped

\* In every chassis, no byte of a contained element and none behind the SKU index is read,
\* and the byte right behind the elements is that index (structures.py, lines 207-215).
THEOREM ElementsPassedOver == Spec => ElementsAreSkipped
<1> DEFINE Skipped(k) ==
               (raw.type = 3 /\ k >= 17) =>
                   LET skipped == Elements(raw.formatted)
                       behind == k \notin skipped /\ 17 .. k - 1 \subseteq skipped
                       new == Decode(raw')
                   IN  /\ Differing(Decode(raw), new) \subseteq IF behind THEN {"sku_number"} ELSE {}
                       /\ behind => new.sku_number = _str(raw.strings, ByteAt(raw'.formatted, k))
<1>1. RawOK /\ [Next]_vars => [\A k \in Touched(raw, raw') : Skipped(k)]_vars
  <2> SUFFICES ASSUME RawOK, [Next]_vars, NEW k \in Touched(raw, raw') PROVE Skipped(k)
    OBVIOUS
  <2>1. CASE raw' = raw
    BY <2>1 DEF Touched
  <2>2. ASSUME NEW i, NEW j, OneBit(raw, raw', i, j) PROVE Skipped(k)
    <3>1. i = k
      BY <2>2, TouchedOnce
    <3> QED
      BY <2>2, <3>1, ElementBit
  <2> QED
    BY <2>1, <2>2, OneBitAtATime
<1> QED
  BY <1>1, AlwaysRawOK, PTL DEF Spec, ElementsAreSkipped

(***************************************************************************)
(* Release dates: text is split at the slashes, and split nowhere else.    *)
(***************************************************************************)

LEMMA Counting ==
    /\ \A x : IsFiniteSet({x}) /\ Cardinality({x}) = 1
    /\ \A x, y : x # y => IsFiniteSet({x, y}) /\ Cardinality({x, y}) = 2
    /\ \A x, y, z : x # y /\ x # z /\ y # z => IsFiniteSet({x, y, z}) /\ Cardinality({x, y, z}) = 3
    /\ \A x, y, z, w : x # y /\ x # z /\ y # z /\ x # w /\ y # w /\ z # w =>
          IsFiniteSet({x, y, z, w}) /\ Cardinality({x, y, z, w}) = 4
<1>1. \A x : IsFiniteSet({x}) /\ Cardinality({x}) = 1
  BY FS_Singleton
<1>2. \A x, y : x # y => IsFiniteSet({x, y}) /\ Cardinality({x, y}) = 2
  <2> SUFFICES ASSUME NEW x, NEW y, x # y
               PROVE  IsFiniteSet({x, y}) /\ Cardinality({x, y}) = 2
    OBVIOUS
  <2>1. {x, y} = {x} \cup {y} /\ y \notin {x}
    OBVIOUS
  <2>2. IsFiniteSet({x}) /\ Cardinality({x}) = 1
    BY <1>1
  <2> QED
    BY <2>1, <2>2, FS_AddElement
<1>3. \A x, y, z : x # y /\ x # z /\ y # z =>
         IsFiniteSet({x, y, z}) /\ Cardinality({x, y, z}) = 3
  <2> SUFFICES ASSUME NEW x, NEW y, NEW z, x # y, x # z, y # z
               PROVE  IsFiniteSet({x, y, z}) /\ Cardinality({x, y, z}) = 3
    OBVIOUS
  <2>1. {x, y, z} = {x, y} \cup {z} /\ z \notin {x, y}
    OBVIOUS
  <2>2. IsFiniteSet({x, y}) /\ Cardinality({x, y}) = 2
    BY <1>2
  <2> QED
    BY <2>1, <2>2, FS_AddElement
<1>4. \A x, y, z, w : x # y /\ x # z /\ y # z /\ x # w /\ y # w /\ z # w =>
         IsFiniteSet({x, y, z, w}) /\ Cardinality({x, y, z, w}) = 4
  <2> SUFFICES ASSUME NEW x, NEW y, NEW z, NEW w,
                      x # y, x # z, y # z, x # w, y # w, z # w
               PROVE  IsFiniteSet({x, y, z, w}) /\ Cardinality({x, y, z, w}) = 4
    OBVIOUS
  <2>1. {x, y, z, w} = {x, y, z} \cup {w} /\ w \notin {x, y, z}
    OBVIOUS
  <2>2. IsFiniteSet({x, y, z}) /\ Cardinality({x, y, z}) = 3
    BY <1>3
  <2> QED
    BY <2>1, <2>2, FS_AddElement
<1> QED
  BY <1>1, <1>2, <1>3, <1>4

LEMMA FourAscending ==
    ASSUME NEW a \in Int, NEW b \in Int, NEW c \in Int, NEW e \in Int, a < b, b < c, c < e
    PROVE  /\ Len(Ascending({a, b, c, e})) = 4
           /\ Ascending({a, b, c, e})[1] = a /\ Ascending({a, b, c, e})[2] = b
           /\ Ascending({a, b, c, e})[3] = c /\ Ascending({a, b, c, e})[4] = e
<1> DEFINE S == {a, b, c, e}
           upto(x) == Cardinality({y \in S : y <= x})
           n_th(n) == CHOOSE x \in S : upto(x) = n
           s == Ascending(S)
<1>1. upto(a) = 1 /\ upto(b) = 2 /\ upto(c) = 3 /\ upto(e) = 4 /\ Cardinality(S) = 4
  <2>1. /\ {y \in S : y <= a} = {a} /\ {y \in S : y <= b} = {a, b}
        /\ {y \in S : y <= c} = {a, b, c} /\ {y \in S : y <= e} = {a, b, c, e}
    OBVIOUS
  <2>2. a # b /\ a # c /\ b # c /\ a # e /\ b # e /\ c # e
    OBVIOUS
  <2>3. Cardinality({a}) = 1 /\ Cardinality({a, b}) = 2
    BY <2>2, Counting
  <2>4. Cardinality({a, b, c}) = 3
    BY <2>2, Counting, ZenonT(60)
  <2>5. Cardinality({a, b, c, e}) = 4
    <3>1. IsFiniteSet({a, b, c})
      BY <2>2, Counting
    <3>2. e \notin {a, b, c} /\ {a, b, c, e} = {a, b, c} \cup {e}
      BY <2>2
    <3> QED
      BY <2>4, <3>1, <3>2, FS_AddElement
  <2> QED
    BY <2>1, <2>3, <2>4, <2>5
<1>2. s = [n \in 1 .. 4 |-> n_th(n)]
  BY <1>1 DEF Ascending
<1> HIDE DEF upto
<1>3. n_th(1) = a /\ n_th(2) = b /\ n_th(3) = c /\ n_th(4) = e
  BY <1>1
<1> HIDE DEF S, n_th
<1>4. s \in Seq({n_th(1), n_th(2), n_th(3), n_th(4)}) /\ Len(s) = 4
  <2>1. \A n \in 1 .. 4 : n = 1 \/ n = 2 \/ n = 3 \/ n = 4
    OBVIOUS
  <2> DEFINE W == {n_th(1), n_th(2), n_th(3), n_th(4)}
  <2>2. s \in [1 .. 4 -> W] /\ 4 \in Nat
    BY <1>2, <2>1
  <2> HIDE DEF s, W
  <2>3. s \in Seq(W) /\ Len(s) = 4
    BY <2>2, FunctionIsSeq, Zenon
  <2> QED
    BY <2>3 DEF W
<1>5. s[1] = n_th(1) /\ s[2] = n_th(2) /\ s[3] = n_th(3) /\ s[4] = n_th(4)
  BY <1>2
<1> QED
  BY <1>3, <1>4, <1>5 DEF S

\* The separators of a text, and the cuts Split makes.
Separators(s, sep) == {i \in DOMAIN s : s[i] = sep}

LEMMA SplitInThree ==
    ASSUME NEW V, NEW s \in Seq(V), NEW sep, NEW i \in 1 .. Len(s), NEW j \in 1 .. Len(s), i < j,
           Separators(s, sep) = {i, j}
    PROVE  /\ Len(Split(s, sep)) = 3
           /\ Split(s, sep)[1] = SubSeq(s, 1, i - 1)
           /\ Split(s, sep)[2] = SubSeq(s, i + 1, j - 1)
           /\ Split(s, sep)[3] = SubSeq(s, j + 1, Len(s))
<1> DEFINE cuts == Ascending({0, Len(s) + 1} \cup Separators(s, sep))
           part(n) == SubSeq(s, cuts[n] + 1, cuts[n + 1] - 1)
<1>1. Len(s) \in Nat
  BY LenProperties
<1>2. {0, Len(s) + 1} \cup Separators(s, sep) = {0, i, j, Len(s) + 1}
  OBVIOUS
<1>3. Len(cuts) = 4 /\ cuts[1] = 0 /\ cuts[2] = i /\ cuts[3] = j /\ cuts[4] = Len(s) + 1
  <2>1. 0 < i /\ i < j /\ j < Len(s) + 1 /\ 0 \in Int /\ i \in Int /\ j \in Int
        /\ Len(s) + 1 \in Int
    BY <1>1
  <2> QED
    BY <1>2, <2>1, FourAscending, SMTT(30)
<1>4. Split(s, sep) = [n \in 1 .. Len(cuts) - 1 |-> part(n)]
  BY DEF Split, Separators
<1> HIDE DEF cuts
<1>5. Split(s, sep) = [n \in 1 .. 3 |-> part(n)]
  BY <1>3, <1>4
<1>6. part(1) = SubSeq(s, 1, i - 1) /\ part(2) = SubSeq(s, i + 1, j - 1)
      /\ part(3) = SubSeq(s, j + 1, Len(s))
  <2>1. /\ cuts[1] + 1 = 1 /\ cuts[1 + 1] - 1 = i - 1 /\ cuts[2] + 1 = i + 1
        /\ cuts[2 + 1] - 1 = j - 1 /\ cuts[3] + 1 = j + 1 /\ cuts[3 + 1] - 1 = Len(s)
    BY <1>1, <1>3
  <2> QED
    BY <2>1
<1> HIDE DEF part
<1>7. Len(Split(s, sep)) = 3
  <2>1. Split(s, sep) \in [1 .. 3 -> {part(1), part(2), part(3)}]
    BY <1>5
  <2> QED
    BY <2>1, FunctionIsSeq
<1> QED
  BY <1>5, <1>6, <1>7

\* A text in three parts has two separators.
LEMMA ThreeParts ==
    ASSUME NEW V, NEW s \in Seq(V), NEW sep, Len(Split(s, sep)) = 3
    PROVE  \E i, j \in 1 .. Len(s) : i < j /\ Separators(s, sep) = {i, j}
<1> DEFINE C == {0, Len(s) + 1} \cup Separators(s, sep)
           c == Cardinality(C)
           S == Separators(s, sep)
<1>1. Len(s) \in Nat /\ DOMAIN s = 1 .. Len(s)
  BY LenProperties
<1>2. S \subseteq 1 .. Len(s) /\ 0 \notin S /\ Len(s) + 1 \notin S
  BY <1>1 DEF Separators
<1>3. IsFiniteSet(S) /\ IsFiniteSet(C) /\ c \in Nat
  <2>1. IsFiniteSet(1 .. Len(s))
    BY <1>1, FS_Interval
  <2>2. IsFiniteSet(S)
    BY <1>2, <2>1, FS_Subset
  <2>3. IsFiniteSet({0, Len(s) + 1})
    BY <1>1, Counting
  <2> QED
    BY <2>2, <2>3, FS_Union, FS_CardinalityType
<1>4. c = 4
  <2> DEFINE cuts == Ascending(C)
             n_th(n) == CHOOSE x \in C : Cardinality({y \in C : y <= x}) = n
             part(n) == SubSeq(s, cuts[n] + 1, cuts[n + 1] - 1)
  <2>1. cuts = [n \in 1 .. c |-> n_th(n)]
    BY DEF Ascending
  <2>2. Split(s, sep) = [n \in 1 .. Len(cuts) - 1 |-> part(n)]
    BY DEF Split, Separators
  <2> HIDE DEF c, n_th, cuts, part
  <2>3. Len(cuts) = c
    <3>1. cuts \in [1 .. c -> {n_th(n) : n \in 1 .. c}]
      BY <2>1
    <3> QED
      BY <1>3, <3>1, FunctionIsSeq
  <2>4. c # 0
    <3>1. 0 \in C
      OBVIOUS
    <3> QED
      BY <1>3, <3>1, FS_EmptySet DEF c
  <2>5. c - 1 \in Nat
    BY <1>3, <2>4
  <2>6. Len(Split(s, sep)) = c - 1
    <3>1. Split(s, sep) \in [1 .. c - 1 -> {part(n) : n \in 1 .. c - 1}]
      BY <2>2, <2>3
    <3> QED
      BY <2>5, <3>1, FunctionIsSeq
  <2>7. c - 1 = 3
    BY <2>6, Zenon
  <2> QED
    BY <1>3, <2>7
<1>5. Cardinality(S) = 2
  <2>1. C = (S \cup {0}) \cup {Len(s) + 1}
    OBVIOUS
  <2>2. IsFiniteSet(S \cup {0}) /\ Cardinality(S \cup {0}) = Cardinality(S) + 1
    BY <1>2, <1>3, FS_AddElement
  <2>3. Len(s) + 1 \notin S \cup {0}
    BY <1>1, <1>2
  <2>4. Cardinality((S \cup {0}) \cup {Len(s) + 1}) = Cardinality(S \cup {0}) + 1
    BY <2>2, <2>3, FS_AddElement
  <2>5. Cardinality(S) \in Nat
    BY <1>3, FS_CardinalityType
  <2> DEFINE k == Cardinality(S)
  <2>6. k \in Nat /\ k + 1 + 1 = 4
    BY <1>4, <2>1, <2>2, <2>4, <2>5
  <2> HIDE DEF S, k
  <2>7. k = 2
    BY <2>6
  <2> QED
    BY <2>7 DEF k
<1> HIDE DEF S
<1>6. PICK i \in S : TRUE
  BY <1>3, <1>5, FS_EmptySet
<1>7. IsFiniteSet(S \ {i}) /\ Cardinality(S \ {i}) = 1
  BY <1>3, <1>5, <1>6, FS_RemoveElement
<1>8. PICK j : S \ {i} = {j}
  BY <1>7, FS_Singleton
<1>9. S = {i, j} /\ i # j /\ i \in 1 .. Len(s) /\ j \in 1 .. Len(s)
  BY <1>2, <1>6, <1>8
<1>10. S = {j, i} /\ (i < j \/ j < i)
  BY <1>1, <1>9
<1> QED
  BY <1>9, <1>10 DEF S

(***************************************************************************)
(* What strptime reads in a part, and how a number is written.             *)
(***************************************************************************)

LEMMA ShortTexts ==
    ASSUME NEW V, NEW t \in Seq(V)
    PROVE  /\ Len(t) = 1 => t = << t[1] >>
           /\ Len(t) = 2 => t = << t[1], t[2] >>
           /\ Len(t) = 4 => t = << t[1], t[2], t[3], t[4] >>
<1>1. ASSUME Len(t) = 1 PROVE t = << t[1] >>
  <2> DEFINE a == t[1]
             u == << a >>
  <2>1. 1 \in 1 .. Len(t)
    BY Len(t) = 1
  <2>2. a \in V
    BY <2>1, LenProperties
  <2>3. u[1] = a /\ Len(u) = 1
    OBVIOUS
  <2> HIDE DEF a
  <2>4. u \in Seq(V)
    BY <2>2
  <2>5. \A n \in 1 .. 1 : n = 1
    OBVIOUS
  <2> HIDE DEF u
  <2>6. \A n \in 1 .. 1 : t[n] = u[n]
    BY <2>3, <2>5 DEF a
  <2>7. t = u
    BY <1>1, <2>3, <2>4, <2>6, SeqEqual
  <2> QED
    BY <2>7 DEF u, a
<1>2. ASSUME Len(t) = 2 PROVE t = << t[1], t[2] >>
  <2> DEFINE a == t[1]
             b == t[2]
             u == << a, b >>
  <2>1. 1 \in 1 .. Len(t) /\ 2 \in 1 .. Len(t)
    BY Len(t) = 2
  <2>2. a \in V /\ b \in V
    BY <2>1, LenProperties
  <2>3. u[1] = a /\ u[2] = b /\ Len(u) = 2
    OBVIOUS
  <2> HIDE DEF a, b
  <2>4. u \in Seq(V)
    BY <2>2
  <2>5. \A n \in 1 .. 2 : n = 1 \/ n = 2
    OBVIOUS
  <2> HIDE DEF u
  <2>6. \A n \in 1 .. 2 : t[n] = u[n]
    BY <2>3, <2>5 DEF a, b
  <2>7. t = u
    BY <1>2, <2>3, <2>4, <2>6, SeqEqual
  <2> QED
    BY <2>7 DEF u, a, b
<1>3. ASSUME Len(t) = 4 PROVE t = << t[1], t[2], t[3], t[4] >>
  <2> DEFINE a == t[1]
             b == t[2]
             c == t[3]
             e == t[4]
             u == << a, b, c, e >>
  <2>1. 1 \in 1 .. Len(t) /\ 2 \in 1 .. Len(t) /\ 3 \in 1 .. Len(t) /\ 4 \in 1 .. Len(t)
    BY Len(t) = 4
  <2>2. a \in V /\ b \in V /\ c \in V /\ e \in V
    BY <2>1, LenProperties
  <2>3. u[1] = a /\ u[2] = b /\ u[3] = c /\ u[4] = e /\ Len(u) = 4
    OBVIOUS
  <2> HIDE DEF a, b, c, e
  <2>4. u \in Seq(V)
    BY <2>2
  <2>5. \A n \in 1 .. 4 : n = 1 \/ n = 2 \/ n = 3 \/ n = 4
    OBVIOUS
  <2> HIDE DEF u
  <2>6. \A n \in 1 .. 4 : t[n] = u[n]
    BY <2>3, <2>5 DEF a, b, c, e
  <2>7. t = u
    BY <1>3, <2>3, <2>4, <2>6, SeqEqual
  <2> QED
    BY <2>7 DEF u, a, b, c, e
<1> QED
  BY <1>1, <1>2, <1>3

LEMMA Joined ==
    /\ \A a, b : << a >> \o << b >> = << a, b >>
    /\ \A a, b : Tail(<< a, b >>) = << b >>
    /\ \A a, b, c, e : << a, b >> \o << c, e >> = << a, b, c, e >>
<1>1. ASSUME NEW a, NEW b PROVE << a >> \o << b >> = << a, b >>
  <2> DEFINE s == << a >>
             t == << b >>
             V == {a, b}
  <2>1. s[1] = a /\ t[1] = b /\ Len(s) = 1 /\ Len(t) = 1 /\ s \in Seq(V) /\ t \in Seq(V)
    OBVIOUS
  <2> HIDE DEF s, t, V
  <2>2. s \o t \in Seq(V) /\ Len(s \o t) = 2 /\ (s \o t)[1] = a /\ (s \o t)[2] = b
    BY <2>1, ConcatProperties
  <2>3. s \o t = << a, b >>
    BY <2>2, ShortTexts, Zenon
  <2> QED
    BY <2>3 DEF s, t
<1>2. ASSUME NEW a, NEW b PROVE Tail(<< a, b >>) = << b >>
  <2> DEFINE s == << a, b >>
             V == {a, b}
  <2>1. s[2] = b /\ Len(s) = 2 /\ s \in Seq(V)
    OBVIOUS
  <2> HIDE DEF s, V
  <2>2. Tail(s) \in Seq(V) /\ Len(Tail(s)) = 1 /\ Tail(s)[1] = b
    BY <2>1, HeadTailProperties
  <2>3. Tail(s) = << b >>
    BY <2>2, ShortTexts, Zenon
  <2> QED
    BY <2>3 DEF s
<1>3. ASSUME NEW a, NEW b, NEW c, NEW e
      PROVE  << a, b >> \o << c, e >> = << a, b, c, e >>
  <2> DEFINE s == << a, b >>
             t == << c, e >>
             V == {a, b, c, e}
  <2>1. s[1] = a /\ s[2] = b /\ t[1] = c /\ t[2] = e /\ Len(s) = 2 /\ Len(t) = 2
        /\ s \in Seq(V) /\ t \in Seq(V)
    OBVIOUS
  <2> HIDE DEF s, t, V
  <2>2. /\ s \o t \in Seq(V)
        /\ Len(s \o t) = Len(s) + Len(t)
        /\ \A n \in 1 .. Len(s) + Len(t) :
              (s \o t)[n] = IF n <= Len(s) THEN s[n] ELSE t[n - Len(s)]
    BY <2>1, ConcatProperties, Zenon
  <2> DEFINE u == s \o t
  <2> HIDE DEF u
  <2>3. u \in Seq(V) /\ Len(u) = 4 /\ \A n \in 1 .. 4 : u[n] = IF n <= 2 THEN s[n] ELSE t[n - 2]
    BY <2>1, <2>2 DEF u
  <2>4. u[1] = a /\ u[2] = b /\ u[3] = c /\ u[4] = e
    <3>1. u[1] = s[1] /\ u[2] = s[2] /\ u[3] = t[1] /\ u[4] = t[2]
      BY <2>3
    <3> QED
      BY <2>1, <3>1
  <2>5. u = << a, b, c, e >>
    BY <2>3, <2>4, ShortTexts, Zenon
  <2> QED
    BY <2>5 DEF s, t, u
<1> QED
  BY <1>1, <1>2, <1>3

LEMMA InByte ==
    ASSUME NEW t \in Seq(Byte)
    PROVE  \A n \in 1 .. Len(t) : t[n] \in Byte
BY LenProperties

LEMMA Numerals ==
    /\ \A a : Numeral(<< a >>) = IF a \in Digits THEN a - 48 ELSE -1
    /\ \A a, b : Numeral(<< a, b >>) =
          IF a \in Digits /\ b \in Digits THEN (b - 48) + 10 * (a - 48) ELSE -1
    /\ \A a, b, c, e : Numeral(<< a, b, c, e >>) =
          IF a \in Digits /\ b \in Digits /\ c \in Digits /\ e \in Digits
          THEN (e - 48) + 10 * (c - 48) + 100 * (b - 48) + 1000 * (a - 48) ELSE -1
<1>1. \A a : Numeral(<< a >>) = IF a \in Digits THEN a - 48 ELSE -1
  BY DEF Numeral, Digits
<1>2. \A a, b : Numeral(<< a, b >>) =
         IF a \in Digits /\ b \in Digits THEN (b - 48) + 10 * (a - 48) ELSE -1
  BY DEF Numeral, Digits
<1>3. \A a, b, c, e : Numeral(<< a, b, c, e >>) =
         IF a \in Digits /\ b \in Digits /\ c \in Digits /\ e \in Digits
         THEN (e - 48) + 10 * (c - 48) + 100 * (b - 48) + 1000 * (a - 48) ELSE -1
  BY DEF Numeral, Digits
<1> QED
  BY <1>1, <1>2, <1>3

\* The digits of a number, and its part that goes in hundreds.
Tens(n) == (n \div 10) % 10
Units(n) == n % 10
Hundreds(n) == n \div 100

\* The years that can be written, and those that two digits suffice for.
AnyYear == 0 .. MAXYEAR
ShortSpan == 1969 .. 2068

LEMMA DigitsOf ==
    /\ \A n : Digit(n) = << 48 + n >>
    /\ \A n : TwoDigits(n) = << 48 + Tens(n), 48 + Units(n) >>
    /\ \A n : Years(n) = {TwoDigits(Hundreds(n)) \o TwoDigits(n)}
                            \cup (IF n \in ShortSpan THEN {TwoDigits(n)} ELSE {})
BY Joined DEF Digit, TwoDigits, Years, Tens, Units, Hundreds, ShortSpan

LEMMA TwoPlaces ==
    ASSUME NEW n \in 0 .. 99
    PROVE  /\ n = 10 * Tens(n) + Units(n)
           /\ Tens(n) \in 0 .. 9 /\ Units(n) \in 0 .. 9
BY DEF Tens, Units

LEMMA FourPlaces ==
    ASSUME NEW n \in AnyYear
    PROVE  /\ Hundreds(n) \in 0 .. 99
           /\ n = 100 * Hundreds(n) + 10 * Tens(n) + Units(n)
           /\ Tens(n) \in 0 .. 9 /\ Units(n) \in 0 .. 9
<1> DEFINE u == n % 100
<1>1. n = 100 * Hundreds(n) + u /\ u \in 0 .. 99 /\ Hundreds(n) \in 0 .. 99
  BY DEF Hundreds, AnyYear, MAXYEAR
<1>2. Units(n) = u % 10 /\ Tens(n) = u \div 10
  BY SMTT(30) DEF Units, Tens, AnyYear, MAXYEAR
<1> HIDE DEF u
<1>3. u = 10 * (u \div 10) + (u % 10) /\ u \div 10 \in 0 .. 9 /\ u % 10 \in 0 .. 9
  BY <1>1
<1> DEFINE x == u \div 10
           y == u % 10
<1>4. u = 10 * x + y /\ x \in 0 .. 9 /\ y \in 0 .. 9 /\ Units(n) = y /\ Tens(n) = x
  BY <1>2, <1>3
<1> HIDE DEF x, y
<1> QED
  BY <1>1, <1>4

\* What texts of two and of four digits come to, and a year of two digits.
Value(a, b) == IF a \in Digits /\ b \in Digits THEN (b - 48) + 10 * (a - 48) ELSE -1
LongValue(a, b, c, e) ==
    IF a \in Digits /\ b \in Digits /\ c \in Digits /\ e \in Digits
    THEN (e - 48) + 10 * (c - 48) + 100 * (b - 48) + 1000 * (a - 48) ELSE -1
InCentury(v) == IF v = -1 THEN -1 ELSE v + IF v >= 69 THEN 1900 ELSE 2000

LEMMA TwoDigitNumbers ==
    ASSUME NEW n \in 0 .. 99, NEW a \in Byte, NEW b \in Byte
    PROVE  Value(a, b) = n <=> a = 48 + Tens(n) /\ b = 48 + Units(n)
<1>1. a \in Int /\ b \in Int /\ (a \in Digits <=> a - 48 \in 0 .. 9)
      /\ (b \in Digits <=> b - 48 \in 0 .. 9)
  BY DEF Byte, Digits
<1>2. n \in Nat /\ n # -1
  OBVIOUS
<1> QED
  BY <1>1, <1>2, TwoPlaces DEF Value

LEMMA LongYears ==
    ASSUME NEW n \in AnyYear, NEW a \in Byte, NEW b \in Byte, NEW c \in Byte, NEW e \in Byte
    PROVE  LongValue(a, b, c, e) = n
           <=> /\ a = 48 + Tens(Hundreds(n)) /\ b = 48 + Units(Hundreds(n))
               /\ c = 48 + Tens(n) /\ e = 48 + Units(n)
<1> DEFINE w == Tens(Hundreds(n))
           x == Units(Hundreds(n))
           y == Tens(n)
           z == Units(n)
           a0 == a - 48
           b0 == b - 48
           c0 == c - 48
           e0 == e - 48
<1>1. /\ Hundreds(n) = 10 * w + x /\ n = 100 * Hundreds(n) + 10 * y + z
      /\ w \in 0 .. 9 /\ x \in 0 .. 9 /\ y \in 0 .. 9 /\ z \in 0 .. 9
  <2>1. Hundreds(n) \in 0 .. 99
    BY FourPlaces
  <2>2. Hundreds(n) = 10 * w + x /\ w \in 0 .. 9 /\ x \in 0 .. 9
    BY <2>1, TwoPlaces, Zenon
  <2>3. n = 100 * Hundreds(n) + 10 * y + z /\ y \in 0 .. 9 /\ z \in 0 .. 9
    BY FourPlaces, Zenon
  <2> QED
    BY <2>2, <2>3
<1>2. /\ a \in Digits <=> a0 \in 0 .. 9
      /\ b \in Digits <=> b0 \in 0 .. 9
      /\ c \in Digits <=> c0 \in 0 .. 9
      /\ e \in Digits <=> e0 \in 0 .. 9
  BY DEF Byte, Digits
<1>3. /\ a = 48 + w <=> a0 = w
      /\ b = 48 + x <=> b0 = x
      /\ c = 48 + y <=> c0 = y
      /\ e = 48 + z <=> e0 = z
  <2>1. a \in Int /\ b \in Int /\ c \in Int /\ e \in Int
    BY DEF Byte
  <2> HIDE DEF w, x, y, z
  <2> QED
    BY <1>1, <2>1
<1>4. a0 \in Int /\ b0 \in Int /\ c0 \in Int /\ e0 \in Int /\ n # -1
  BY DEF Byte, AnyYear, MAXYEAR
<1>5. n = 1000 * w + 100 * x + 10 * y + z
  <2> DEFINE m == Hundreds(n)
  <2>1. m = 10 * w + x /\ n = 100 * m + 10 * y + z
    BY <1>1
  <2> HIDE DEF m, w, x, y, z
  <2> QED
    BY <1>1, <2>1
<1> HIDE DEF w, x, y, z, a0, b0, c0, e0
<1>6. (IF a \in Digits /\ b \in Digits /\ c \in Digits /\ e \in Digits
       THEN e0 + 10 * c0 + 100 * b0 + 1000 * a0 ELSE -1) = n
      <=> a0 = w /\ b0 = x /\ c0 = y /\ e0 = z
  <2>1. ASSUME a0 \in 0 .. 9, b0 \in 0 .. 9, c0 \in 0 .. 9, e0 \in 0 .. 9
        PROVE  e0 + 10 * c0 + 100 * b0 + 1000 * a0 = n <=> a0 = w /\ b0 = x /\ c0 = y /\ e0 = z
    BY <1>1, <1>5, <2>1
  <2> QED
    BY <1>1, <1>2, <1>4, <2>1
<1> QED
  BY <1>3, <1>6 DEF w, x, y, z, a0, b0, c0, e0, LongValue

LEMMA ShortYears ==
    ASSUME NEW n \in AnyYear, NEW a \in Byte, NEW b \in Byte
    PROVE  InCentury(Value(a, b)) = n
           <=> n \in ShortSpan /\ a = 48 + Tens(n) /\ b = 48 + Units(n)
<1> DEFINE u == IF n >= 2000 THEN n - 2000 ELSE n - 1900
           v == Value(a, b)
<1>0. n \in Int /\ n >= 0 /\ n < 10000
  BY DEF AnyYear, MAXYEAR
<1>1. v \in Int /\ (v = -1 \/ v \in 0 .. 99)
  BY DEF Byte, Digits, Value
<1>2. InCentury(v) = n
      <=> n \in ShortSpan /\ v = u
  <2> HIDE DEF v
  <2> QED
    BY <1>0, <1>1 DEF ShortSpan, InCentury
<1>3. ASSUME n \in ShortSpan
      PROVE  v = u <=> a = 48 + Tens(n) /\ b = 48 + Units(n)
  <2>1. u \in 0 .. 99 /\ Tens(u) = Tens(n) /\ Units(u) = Units(n)
    BY <1>0, <1>3 DEF Tens, Units, ShortSpan
  <2> HIDE DEF u
  <2>2. v = u <=> a = 48 + Tens(u) /\ b = 48 + Units(u)
    BY <2>1, TwoDigitNumbers, Zenon
  <2> QED
    BY <2>1, <2>2
<1> HIDE DEF u
<1>4. InCentury(v) = n
      <=> n \in ShortSpan /\ a = 48 + Tens(n) /\ b = 48 + Units(n)
  <2> HIDE DEF v
  <2> QED
    BY <1>2, <1>3
<1> QED
  BY <1>4

-----------------------------------------------------------------------------

\* A number of one or two digits.
LEMMA ShortRead ==
    ASSUME NEW t \in Seq(Byte), NEW n \in 0 .. 99
    PROVE  ShortNumeral(t) = n <=> t \in Short(n)
<1> DEFINE c == 48 + Tens(n)
           e == 48 + Units(n)
           d == 48 + n
<1>1. t \in Short(n) <=> t = << c, e >> \/ (n < 10 /\ t = << d >>)
  BY DigitsOf DEF Short
<1>2. CASE Len(t) = 1
  <2>1. t = << t[1] >> /\ t # << c, e >>
    BY <1>2, ShortTexts
  <2>2. ShortNumeral(t) = IF t[1] \in Digits THEN t[1] - 48 ELSE -1
    BY <1>2, <2>1, Numerals DEF ShortNumeral
  <2>3. (t = << d >>) <=> t[1] = d
    BY <1>2, <2>1
  <2>4. t[1] \in Byte
    <3>1. 1 \in 1 .. Len(t)
      BY <1>2
    <3> QED
      BY <3>1, InByte
  <2>5. \A a \in Byte : (IF a \in Digits THEN a - 48 ELSE -1) = n <=> n < 10 /\ a = d
    BY DEF Digits, Byte
  <2> HIDE DEF c, d, e
  <2> QED
    BY <1>1, <2>1, <2>2, <2>3, <2>4, <2>5
<1>3. CASE Len(t) = 2
  <2>1. t = << t[1], t[2] >> /\ t # << d >>
    BY <1>3, ShortTexts
  <2>2. ShortNumeral(t) = Value(t[1], t[2])
    BY <1>3, <2>1, Numerals DEF ShortNumeral, Value
  <2>3. (t = << c, e >>) <=> t[1] = c /\ t[2] = e
    BY <1>3, <2>1
  <2>4. t[1] \in Byte /\ t[2] \in Byte
    <3>1. 1 \in 1 .. Len(t) /\ 2 \in 1 .. Len(t)
      BY <1>3
    <3> QED
      BY <3>1, InByte
  <2>5. Value(t[1], t[2]) = n <=> t[1] = c /\ t[2] = e
    BY <2>4, TwoDigitNumbers DEF Value
  <2> HIDE DEF c, d, e
  <2> QED
    BY <1>1, <2>1, <2>2, <2>3, <2>5
<1>4. CASE Len(t) # 1 /\ Len(t) # 2
  <2>1. t # << d >> /\ t # << c, e >>
    BY <1>4
  <2>2. ShortNumeral(t) = -1
    <3> DEFINE k == Len(t)
    <3>1. k \in Nat /\ k # 1 /\ k # 2
      BY <1>4, LenProperties
    <3> HIDE DEF k
    <3>2. k <= 2 => k \notin 1 .. 4
      BY <3>1
    <3> QED
      BY <3>2 DEF k, ShortNumeral, Numeral
  <2>3. n # -1
    OBVIOUS
  <2> HIDE DEF c, d, e
  <2> QED
    BY <1>1, <2>1, <2>2, <2>3
<1> QED
  BY <1>2, <1>3, <1>4

LEMMA DayRead ==
    ASSUME NEW t \in Seq(Byte), NEW n \in 0 .. 99
    PROVE  DayIn(t) = n <=> t \in Days(n)
<1> DEFINE d == 48 + n
<1>1. t \in Days(n) <=> t \in Short(n) \/ (n < 10 /\ t = << Space, d >>)
  BY DigitsOf, Joined DEF Days
<1>2. CASE Len(t) = 2 /\ t[1] = Space
  <2>1. t = << t[1], t[2] >>
    BY <1>2, ShortTexts
  <2>2. Tail(t) = << t[2] >>
    BY <2>1, Joined
  <2>3. DayIn(t) = IF t[2] \in Digits THEN t[2] - 48 ELSE -1
    <3>1. DayIn(t) = Numeral(<< t[2] >>)
      BY <1>2, <2>2, Zenon DEF DayIn
    <3> QED
      BY <3>1, Numerals
  <2>4. t \notin Short(n)
    <3>1. ShortNumeral(t) = -1
      BY <1>2, <2>1, Numerals DEF ShortNumeral, Space, Digits
    <3>2. ShortNumeral(t) # n
      BY <3>1
    <3> QED
      BY <3>2, ShortRead, Zenon
  <2>5. (t = << Space, d >>) <=> t[2] = d
    BY <1>2, <2>1
  <2>6. t[2] \in Byte
    <3>1. 2 \in 1 .. Len(t)
      BY <1>2
    <3> QED
      BY <3>1, InByte
  <2>7. \A a \in Byte : (IF a \in Digits THEN a - 48 ELSE -1) = n <=> n < 10 /\ a = d
    BY DEF Digits, Byte
  <2> HIDE DEF d
  <2> QED
    BY <1>1, <2>3, <2>4, <2>5, <2>6, <2>7
<1>3. CASE ~ (Len(t) = 2 /\ t[1] = Space)
  <2>1. t # << Space, d >>
    BY <1>3
  <2>2. DayIn(t) = ShortNumeral(t)
    BY <1>3 DEF DayIn
  <2> HIDE DEF d
  <2> QED
    BY <1>1, <2>1, <2>2, ShortRead
<1> QED
  BY <1>2, <1>3

Year(t) == IF Len(t) = 4 THEN LongYear(t) ELSE ShortYear(t)

LEMMA YearRead ==
    ASSUME NEW t \in Seq(Byte), NEW n \in AnyYear
    PROVE  Year(t) = n <=> t \in Years(n)
<1> DEFINE a == 48 + Tens(Hundreds(n))
           b == 48 + Units(Hundreds(n))
           c == 48 + Tens(n)
           e == 48 + Units(n)
<1>1. t \in Years(n) <=> t = << a, b, c, e >> \/ (n \in ShortSpan /\ t = << c, e >>)
  <2>1. TwoDigits(Hundreds(n)) = << a, b >> /\ TwoDigits(n) = << c, e >>
    BY DigitsOf, Zenon
  <2> HIDE DEF a, b, c, e
  <2>2. TwoDigits(Hundreds(n)) \o TwoDigits(n) = << a, b, c, e >>
    BY <2>1, Joined
  <2>3. Years(n) = {<< a, b, c, e >>} \cup (IF n \in ShortSpan THEN {<< c, e >>} ELSE {})
    BY <2>1, <2>2, DigitsOf, Zenon
  <2> QED
    BY <2>3
<1>2. CASE Len(t) = 4
  <2>1. t = << t[1], t[2], t[3], t[4] >> /\ t # << c, e >>
    BY <1>2, ShortTexts
  <2> DEFINE v == LongValue(t[1], t[2], t[3], t[4])
  <2>2. Year(t) = v
    BY <1>2, <2>1, Numerals DEF Year, LongYear, LongValue
  <2>3. (t = << a, b, c, e >>) <=> t[1] = a /\ t[2] = b /\ t[3] = c /\ t[4] = e
    BY <1>2, <2>1
  <2>4. t[1] \in Byte /\ t[2] \in Byte /\ t[3] \in Byte /\ t[4] \in Byte
    <3>1. 1 \in 1 .. Len(t) /\ 2 \in 1 .. Len(t) /\ 3 \in 1 .. Len(t) /\ 4 \in 1 .. Len(t)
      BY <1>2
    <3> QED
      BY <3>1, InByte
  <2>5. v = n <=> t[1] = a /\ t[2] = b /\ t[3] = c /\ t[4] = e
    BY <2>4, LongYears
  <2> HIDE DEF a, b, c, e, v
  <2> QED
    BY <1>1, <2>1, <2>2, <2>3, <2>5
<1>3. CASE Len(t) = 2
  <2>1. t = << t[1], t[2] >> /\ t # << a, b, c, e >>
    BY <1>3, ShortTexts
  <2> DEFINE v == Value(t[1], t[2])
  <2>2. Numeral(t) = v
    BY <2>1, Numerals DEF Value
  <2>3. Year(t) = InCentury(v)
    BY <1>3, <2>2 DEF Year, ShortYear, InCentury
  <2>4. (t = << c, e >>) <=> t[1] = c /\ t[2] = e
    BY <1>3, <2>1
  <2>5. t[1] \in Byte /\ t[2] \in Byte
    <3>1. 1 \in 1 .. Len(t) /\ 2 \in 1 .. Len(t)
      BY <1>3
    <3> QED
      BY <3>1, InByte
  <2>6. Year(t) = n <=> n \in ShortSpan /\ t[1] = c /\ t[2] = e
    BY <2>3, <2>5, ShortYears
  <2> HIDE DEF a, b, c, e
  <2> QED
    BY <1>1, <2>1, <2>4, <2>6
<1>4. CASE Len(t) # 2 /\ Len(t) # 4
  <2>1. t # << a, b, c, e >> /\ t # << c, e >>
    BY <1>4
  <2>2. Year(t) = -1 /\ n # -1
    BY <1>4 DEF Year, ShortYear, AnyYear, MAXYEAR
  <2> HIDE DEF a, b, c, e
  <2> QED
    BY <1>1, <2>1, <2>2
<1> QED
  BY <1>2, <1>3, <1>4

(***************************************************************************)
(* A date put together from its parts, and taken apart again.              *)
(***************************************************************************)

\* w is s with u behind it, and w is what lies behind the first i of the first k of s.
Joins(V, s, u, w) ==
    /\ w \in Seq(V)
    /\ Len(w) = Len(s) + Len(u)
    /\ \A n \in 1 .. Len(s) : w[n] = s[n]
    /\ \A n \in 1 .. Len(u) : w[Len(s) + n] = u[n]

Piece(V, s, i, k, w) ==
    /\ w \in Seq(V)
    /\ Len(w) = k - i
    /\ \A n \in 1 .. k - i : w[n] = s[i + n]

LEMMA JoinedAt ==
    ASSUME NEW V, NEW s \in Seq(V), NEW u \in Seq(V)
    PROVE  Joins(V, s, u, s \o u)
<1> DEFINE w == s \o u
           ls == Len(s)
           lu == Len(u)
<1>1. /\ w \in Seq(V) /\ Len(w) = ls + lu
      /\ \A n \in 1 .. ls + lu : w[n] = IF n <= ls THEN s[n] ELSE u[n - ls]
  BY ConcatProperties
<1>2. ls \in Nat /\ lu \in Nat
  BY LenProperties
<1> HIDE DEF w, ls, lu
<1>3. \A n \in 1 .. ls : w[n] = s[n]
  BY <1>1, <1>2
<1>4. ASSUME NEW n \in 1 .. lu PROVE w[ls + n] = u[n]
  <2>1. ls + n \in 1 .. ls + lu /\ ~ (ls + n <= ls) /\ (ls + n) - ls = n
    BY <1>2
  <2> QED
    BY <1>1, <2>1
<1> QED
  BY <1>1, <1>3, <1>4 DEF w, ls, lu, Joins

LEMMA PartOf ==
    ASSUME NEW V, NEW s \in Seq(V), NEW i \in Nat, NEW k \in Nat, i <= k, k <= Len(s)
    PROVE  Piece(V, s, i, k, SubSeq(s, i + 1, k))
<1> DEFINE a == i + 1
           u == SubSeq(s, a, k)
<1>1. Len(s) \in Nat /\ \A n \in 1 .. Len(s) : s[n] \in V
  BY LenProperties
<1>2. a \in Int /\ k \in Int /\ \A n \in a .. k : s[n] \in V
  BY <1>1
<1>3. k - a + 1 = k - i /\ (a <= k => k - a + 1 = k - i) /\ (~ (a <= k) => k - i = 0)
      /\ \A n \in 1 .. k - i : a + n - 1 = i + n
  OBVIOUS
<1> HIDE DEF a
<1>4. /\ u \in Seq(V) /\ Len(u) = IF a <= k THEN k - a + 1 ELSE 0
      /\ \A n \in 1 .. k - a + 1 : u[n] = s[a + n - 1]
  BY <1>2, SubSeqProperties
<1> HIDE DEF u
<1> QED
  BY <1>3, <1>4 DEF u, a, Piece

Date(m, t, y) == m \o << Slash >> \o t \o << Slash >> \o y

\* Where the parts of a date are found.
HasParts(V, w, m, t, y) ==
    /\ w \in Seq(V)
    /\ Len(w) = Len(m) + Len(t) + Len(y) + 2
    /\ \A n \in 1 .. Len(m) : w[n] = m[n]
    /\ w[Len(m) + 1] = Slash
    /\ \A n \in 1 .. Len(t) : w[Len(m) + 1 + n] = t[n]
    /\ w[Len(m) + Len(t) + 2] = Slash
    /\ \A n \in 1 .. Len(y) : w[Len(m) + Len(t) + 2 + n] = y[n]

LEMMA PlacesOfParts ==
    ASSUME NEW V, Slash \in V, NEW m \in Seq(V), NEW t \in Seq(V), NEW y \in Seq(V)
    PROVE  HasParts(V, Date(m, t, y), m, t, y)
<1> DEFINE cut == << Slash >>
           a == m \o cut
           b == a \o t
           c == b \o cut
           d == c \o y
           lm == Len(m)
           lt == Len(t)
           ly == Len(y)
<1>1. cut \in Seq(V) /\ Len(cut) = 1 /\ cut[1] = Slash
  OBVIOUS
<1>2. lm \in Nat /\ lt \in Nat /\ ly \in Nat
  BY LenProperties
<1> HIDE DEF cut, a, b, c, d
<1>3. /\ a \in Seq(V) /\ Len(a) = lm + Len(cut)
      /\ \A n \in 1 .. lm : a[n] = m[n]
      /\ \A n \in 1 .. Len(cut) : a[lm + n] = cut[n]
  <2>1. Joins(V, m, cut, a)
    BY <1>1, JoinedAt, Zenon DEF a
  <2> QED
    BY <1>1, <2>1 DEF Joins
<1>4. /\ b \in Seq(V) /\ Len(b) = Len(a) + lt
      /\ \A n \in 1 .. Len(a) : b[n] = a[n]
      /\ \A n \in 1 .. lt : b[Len(a) + n] = t[n]
  <2>1. Joins(V, a, t, b)
    BY <1>3, JoinedAt, Zenon DEF b
  <2> QED
    BY <1>3, <2>1 DEF Joins
<1>5. /\ c \in Seq(V) /\ Len(c) = Len(b) + Len(cut)
      /\ \A n \in 1 .. Len(b) : c[n] = b[n]
      /\ \A n \in 1 .. Len(cut) : c[Len(b) + n] = cut[n]
  <2>1. Joins(V, b, cut, c)
    BY <1>1, <1>4, JoinedAt, Zenon DEF c
  <2> QED
    BY <1>1, <1>4, <2>1 DEF Joins
<1>6. /\ d \in Seq(V) /\ Len(d) = Len(c) + ly
      /\ \A n \in 1 .. Len(c) : d[n] = c[n]
      /\ \A n \in 1 .. ly : d[Len(c) + n] = y[n]
  <2>1. Joins(V, c, y, d)
    BY <1>5, JoinedAt, Zenon DEF d
  <2> QED
    BY <1>5, <2>1 DEF Joins
<1> HIDE DEF lm, lt, ly
<1>7. Len(a) = lm + 1 /\ Len(b) = lm + lt + 1 /\ Len(c) = lm + lt + 2
      /\ Len(d) = lm + lt + ly + 2 /\ 1 \in 1 .. Len(cut)
  BY <1>1, <1>2, <1>3, <1>4, <1>5, <1>6
<1>8. ASSUME NEW n \in 1 .. lm PROVE d[n] = m[n]
  <2>1. n \in 1 .. Len(a) /\ n \in 1 .. Len(b) /\ n \in 1 .. Len(c)
    BY <1>2, <1>7
  <2> QED
    BY <1>3, <1>4, <1>5, <1>6, <2>1
<1>9. d[lm + 1] = Slash
  <2>1. lm + 1 \in 1 .. Len(a) /\ lm + 1 \in 1 .. Len(b) /\ lm + 1 \in 1 .. Len(c)
    BY <1>2, <1>7
  <2> QED
    BY <1>1, <1>3, <1>4, <1>5, <1>6, <1>7, <2>1, SMTT(30)
<1>10. ASSUME NEW n \in 1 .. lt PROVE d[lm + 1 + n] = t[n]
  <2>1. lm + 1 + n \in 1 .. Len(b) /\ lm + 1 + n \in 1 .. Len(c) /\ lm + 1 = Len(a)
    BY <1>2, <1>7
  <2> QED
    BY <1>4, <1>5, <1>6, <2>1
<1>11. d[lm + lt + 2] = Slash
  <2>1. lm + lt + 2 = Len(b) + 1 /\ lm + lt + 2 \in 1 .. Len(c)
    BY <1>2, <1>7
  <2> QED
    BY <1>1, <1>5, <1>6, <1>7, <2>1
<1>12. \A n \in 1 .. ly : d[lm + lt + 2 + n] = y[n]
  BY <1>6, <1>7
<1>13. d = Date(m, t, y)
  BY DEF Date, cut, a, b, c, d
<1> QED
  BY <1>6, <1>7, <1>8, <1>9, <1>10, <1>11, <1>12, <1>13 DEF lm, lt, ly, HasParts

NoSlash(s) == \A n \in DOMAIN s : s[n] # Slash

\* A date is split into the parts it was put together from.
LEMMA TakenApart ==
    ASSUME NEW V, Slash \in V, NEW m \in Seq(V), NEW t \in Seq(V), NEW y \in Seq(V),
           NoSlash(m), NoSlash(t), NoSlash(y)
    PROVE  /\ Len(Split(Date(m, t, y), Slash)) = 3
           /\ Split(Date(m, t, y), Slash)[1] = m
           /\ Split(Date(m, t, y), Slash)[2] = t
           /\ Split(Date(m, t, y), Slash)[3] = y
<1> DEFINE w == Date(m, t, y)
           lm == Len(m)
           lt == Len(t)
           ly == Len(y)
           i == lm + 1
           j == lm + lt + 2
<1>1. /\ w \in Seq(V) /\ Len(w) = lm + lt + ly + 2
      /\ \A n \in 1 .. lm : w[n] = m[n]
      /\ w[i] = Slash
      /\ \A n \in 1 .. lt : w[i + n] = t[n]
      /\ w[j] = Slash
      /\ \A n \in 1 .. ly : w[j + n] = y[n]
  <2>1. HasParts(V, w, m, t, y)
    BY PlacesOfParts, Zenon
  <2> QED
    BY <2>1, Zenon DEF HasParts
<1>2. /\ lm \in Nat /\ lt \in Nat /\ ly \in Nat
      /\ DOMAIN m = 1 .. lm /\ DOMAIN t = 1 .. lt /\ DOMAIN y = 1 .. ly /\ DOMAIN w = 1 .. Len(w)
  BY <1>1, LenProperties
<1> HIDE DEF w, lm, lt, ly
<1>3. i \in 1 .. Len(w) /\ j \in 1 .. Len(w) /\ i < j
  BY <1>1, <1>2
<1>4. Separators(w, Slash) = {i, j}
  <2>1. ASSUME NEW n \in 1 .. Len(w), n # i, n # j PROVE w[n] # Slash
    <3>1. CASE n <= lm
      <4>1. n \in 1 .. lm
        BY <1>2, <3>1
      <4> QED
        BY <1>1, <1>2, <4>1 DEF NoSlash
    <3>2. CASE n > i /\ n < j
      <4>1. n - i \in 1 .. lt /\ i + (n - i) = n
        BY <1>2, <3>2
      <4>2. w[i + (n - i)] = t[n - i]
        BY <1>1, <4>1
      <4>3. t[n - i] # Slash
        BY <1>2, <4>1 DEF NoSlash
      <4> HIDE DEF i, j
      <4> QED
        BY <4>1, <4>2, <4>3
    <3>3. CASE n > j
      <4>1. n - j \in 1 .. ly /\ j + (n - j) = n
        BY <1>1, <1>2, <3>3
      <4>2. w[j + (n - j)] = y[n - j]
        BY <1>1, <4>1
      <4>3. y[n - j] # Slash
        BY <1>2, <4>1 DEF NoSlash
      <4> HIDE DEF i, j
      <4> QED
        BY <4>1, <4>2, <4>3
    <3> QED
      BY <1>2, <2>1, <3>1, <3>2, <3>3
  <2> HIDE DEF i, j
  <2> QED
    BY <1>1, <1>2, <1>3, <2>1 DEF Separators
<1>5. /\ Len(Split(w, Slash)) = 3
      /\ Split(w, Slash)[1] = SubSeq(w, 1, i - 1)
      /\ Split(w, Slash)[2] = SubSeq(w, i + 1, j - 1)
      /\ Split(w, Slash)[3] = SubSeq(w, j + 1, Len(w))
  <2> HIDE DEF i, j
  <2> QED
    BY <1>1, <1>3, <1>4, SplitInThree, ZenonT(60)
<1> DEFINE h == i - 1
           k == j - 1
<1>6. /\ h = lm /\ 0 + 1 = 1 /\ h - 0 = lm /\ k - i = lt /\ Len(w) - j = ly
      /\ h \in Nat /\ k \in Nat /\ i \in Nat /\ j \in Nat /\ Len(w) \in Nat /\ 0 \in Nat
      /\ 0 <= h /\ h <= Len(w) /\ i <= k /\ k <= Len(w) /\ j <= Len(w)
  <2>1. Len(w) = lm + lt + ly + 2
    BY <1>1
  <2>2. lm \in Nat /\ lt \in Nat /\ ly \in Nat
    BY <1>2
  <2> QED
    BY ONLY <2>1, <2>2
<1> HIDE DEF i, j, h, k
<1>7. SubSeq(w, 0 + 1, h) = m
  <2>1. /\ SubSeq(w, 0 + 1, h) \in Seq(V) /\ Len(SubSeq(w, 0 + 1, h)) = h - 0
        /\ \A n \in 1 .. h - 0 : SubSeq(w, 0 + 1, h)[n] = w[0 + n]
    <3>1. Piece(V, w, 0, h, SubSeq(w, 0 + 1, h))
      BY <1>1, <1>6, PartOf, Zenon
    <3> QED
      BY <1>1, <1>6, <3>1 DEF Piece
  <2>2. \A n \in 1 .. lm : SubSeq(w, 0 + 1, h)[n] = m[n]
    BY <1>1, <1>6, <2>1
  <2> QED
    BY <1>6, <2>1, <2>2, SeqEqual DEF lm
<1>8. SubSeq(w, i + 1, k) = t
  <2>1. /\ SubSeq(w, i + 1, k) \in Seq(V) /\ Len(SubSeq(w, i + 1, k)) = k - i
        /\ \A n \in 1 .. k - i : SubSeq(w, i + 1, k)[n] = w[i + n]
    <3>1. Piece(V, w, i, k, SubSeq(w, i + 1, k))
      BY <1>1, <1>6, PartOf, Zenon
    <3> QED
      BY <1>1, <1>6, <3>1 DEF Piece
  <2>2. \A n \in 1 .. lt : SubSeq(w, i + 1, k)[n] = t[n]
    BY <1>1, <1>6, <2>1
  <2> QED
    BY <1>6, <2>1, <2>2, SeqEqual DEF lt
<1>9. SubSeq(w, j + 1, Len(w)) = y
  <2>1. /\ SubSeq(w, j + 1, Len(w)) \in Seq(V) /\ Len(SubSeq(w, j + 1, Len(w))) = Len(w) - j
        /\ \A n \in 1 .. Len(w) - j : SubSeq(w, j + 1, Len(w))[n] = w[j + n]
    <3>1. Len(w) <= Len(w)
      BY <1>6
    <3>2. Piece(V, w, j, Len(w), SubSeq(w, j + 1, Len(w)))
      BY <1>1, <1>6, <3>1, PartOf, Zenon
    <3> QED
      BY <1>1, <1>6, <3>2 DEF Piece
  <2>2. \A n \in 1 .. ly : SubSeq(w, j + 1, Len(w))[n] = y[n]
    BY <1>1, <1>6, <2>1
  <2> QED
    BY <1>6, <2>1, <2>2, SeqEqual DEF ly
<1> QED
  BY <1>5, <1>6, <1>7, <1>8, <1>9 DEF w, h, k

\* A text of three parts is the three put together again.
LEMMA PutTogether ==
    ASSUME NEW V, Slash \in V, NEW s \in Seq(V), Len(Split(s, Slash)) = 3
    PROVE  /\ Split(s, Slash)[1] \in Seq(V) /\ Split(s, Slash)[2] \in Seq(V)
           /\ Split(s, Slash)[3] \in Seq(V)
           /\ s = Date(Split(s, Slash)[1], Split(s, Slash)[2], Split(s, Slash)[3])
<1>1. PICK i \in 1 .. Len(s), j \in 1 .. Len(s) : i < j /\ Separators(s, Slash) = {i, j}
  BY ThreeParts
<1> DEFINE m == SubSeq(s, 1, i - 1)
           t == SubSeq(s, i + 1, j - 1)
           y == SubSeq(s, j + 1, Len(s))
           w == Date(m, t, y)
<1>2. Split(s, Slash)[1] = m /\ Split(s, Slash)[2] = t /\ Split(s, Slash)[3] = y
  BY <1>1, SplitInThree
<1>3. Len(s) \in Nat
  BY LenProperties
<1>4. s[i] = Slash /\ s[j] = Slash
  BY <1>1 DEF Separators
<1> DEFINE h == i - 1
           k == j - 1
<1>5. /\ h - 0 = i - 1 /\ k - i = j - i - 1 /\ 0 + 1 = 1 /\ 0 \in Nat /\ i \in Nat /\ j \in Nat
      /\ h \in Nat /\ k \in Nat /\ 0 <= h /\ h <= Len(s) /\ i <= k /\ k <= Len(s) /\ j <= Len(s)
  BY <1>1, <1>3
<1> HIDE DEF h, k
<1>6. /\ SubSeq(s, 0 + 1, h) \in Seq(V) /\ Len(SubSeq(s, 0 + 1, h)) = h - 0
      /\ \A n \in 1 .. h - 0 : SubSeq(s, 0 + 1, h)[n] = s[0 + n]
  BY <1>5, PartOf DEF Piece
<1>7. /\ SubSeq(s, i + 1, k) \in Seq(V) /\ Len(SubSeq(s, i + 1, k)) = k - i
      /\ \A n \in 1 .. k - i : SubSeq(s, i + 1, k)[n] = s[i + n]
  BY <1>5, PartOf DEF Piece
<1>8. /\ y \in Seq(V) /\ Len(y) = Len(s) - j
      /\ \A n \in 1 .. Len(s) - j : y[n] = s[j + n]
  BY <1>3, <1>5, PartOf DEF Piece
<1>9. m \in Seq(V) /\ Len(m) = i - 1 /\ \A n \in 1 .. i - 1 : m[n] = s[n]
  BY <1>5, <1>6 DEF h
<1>10. t \in Seq(V) /\ Len(t) = j - i - 1 /\ \A n \in 1 .. j - i - 1 : t[n] = s[i + n]
  BY <1>5, <1>7 DEF k
<1> HIDE DEF m, t, y
<1>11. /\ w \in Seq(V) /\ Len(w) = Len(m) + Len(t) + Len(y) + 2
       /\ \A n \in 1 .. Len(m) : w[n] = m[n]
       /\ w[Len(m) + 1] = Slash
       /\ \A n \in 1 .. Len(t) : w[Len(m) + 1 + n] = t[n]
       /\ w[Len(m) + Len(t) + 2] = Slash
       /\ \A n \in 1 .. Len(y) : w[Len(m) + Len(t) + 2 + n] = y[n]
  <2>1. HasParts(V, w, m, t, y)
    BY <1>8, <1>9, <1>10, PlacesOfParts, Zenon
  <2> QED
    BY <2>1, Zenon DEF HasParts
<1> HIDE DEF w
<1>12. Len(w) = Len(s) /\ Len(m) + 1 = i /\ Len(m) + Len(t) + 2 = j
  BY <1>1, <1>3, <1>8, <1>9, <1>10, <1>11
<1>13. ASSUME NEW n \in 1 .. Len(s) PROVE w[n] = s[n]
  <2>1. CASE n < i
    <3>1. n \in 1 .. i - 1 /\ n \in 1 .. Len(m)
      BY <1>9, <2>1
    <3> QED
      BY <1>9, <1>11, <3>1
  <2>2. CASE n = i \/ n = j
    BY <1>4, <1>11, <1>12, <2>2
  <2>3. CASE n > i /\ n < j
    <3>1. n - i \in 1 .. j - i - 1 /\ n - i \in 1 .. Len(t) /\ i + (n - i) = n
      BY <1>10, <2>3
    <3>2. w[i + (n - i)] = t[n - i] /\ t[n - i] = s[i + (n - i)]
      BY <1>10, <1>11, <1>12, <3>1
    <3> QED
      BY <3>1, <3>2
  <2>4. CASE n > j
    <3>1. n - j \in 1 .. Len(s) - j /\ n - j \in 1 .. Len(y) /\ j + (n - j) = n
      BY <1>3, <1>8, <2>4
    <3>2. w[j + (n - j)] = y[n - j] /\ y[n - j] = s[j + (n - j)]
      BY <1>8, <1>11, <1>12, <3>1
    <3> QED
      BY <3>1, <3>2
  <2> QED
    BY <2>1, <2>2, <2>3, <2>4
<1>14. s = w
  BY <1>11, <1>12, <1>13, SeqEqual
<1> QED
  BY <1>2, <1>8, <1>9, <1>10, <1>14 DEF w

(***************************************************************************)
(* The blanks around a text are removed.                                   *)
(***************************************************************************)

LEMMA LastElement ==
    ASSUME NEW n \in Nat, NEW T \in SUBSET (0 .. n), T # {}
    PROVE  \E x \in T : \A y \in T : y <= x
<1> DEFINE U == {n - x : x \in T}
<1>1. U \in SUBSET Nat /\ U # {}
  <2>1. \A x \in T : n - x \in Nat
    OBVIOUS
  <2>2. PICK x \in T : TRUE
    OBVIOUS
  <2> QED
    BY <2>1, <2>2
<1>2. PICK u \in U : \A v \in U : u <= v
  BY <1>1, LeastElement
<1>3. PICK x \in T : u = n - x
  BY <1>2
<1>4. ASSUME NEW y \in T PROVE y <= x
  <2>1. u <= n - y
    BY <1>2
  <2> QED
    BY <1>3, <2>1
<1> QED
  BY <1>4

LEMMA StrippedText ==
    ASSUME NEW b \in Seq(Byte)
    PROVE  Strip(b) \in Seq(Byte)
<1> DEFINE Ink(i) == b[i] \notin Whitespace
           first == CHOOSE i \in 1 .. Len(b) : Ink(i) /\ \A j \in 1 .. i - 1 : ~ Ink(j)
           last == CHOOSE i \in 1 .. Len(b) : Ink(i) /\ \A j \in i + 1 .. Len(b) : ~ Ink(j)
           n == Len(b)
           inked == {i \in 1 .. n : Ink(i)}
<1>1. n \in Nat /\ \A i \in 1 .. n : b[i] \in Byte
  BY LenProperties
<1>2. Strip(b) = IF \A i \in 1 .. n : ~ Ink(i) THEN << >> ELSE SubSeq(b, first, last)
  BY DEF Strip
<1>3. CASE \A i \in 1 .. n : ~ Ink(i)
  BY <1>2, <1>3
<1>4. CASE ~ \A i \in 1 .. n : ~ Ink(i)
  <2> HIDE DEF Ink, n
  <2>1. inked # {} /\ inked \in SUBSET Nat /\ inked \in SUBSET (0 .. n)
    BY <1>1, <1>4
  <2>2. PICK i \in inked : \A j \in inked : i <= j
    BY <2>1, LeastElement
  <2>3. \E x \in 1 .. n : Ink(x) /\ \A j \in 1 .. x - 1 : ~ Ink(j)
    <3>1. \A j \in 1 .. i - 1 : j \in 1 .. n /\ ~ (i <= j)
      BY <1>1, <2>2
    <3> QED
      BY <2>2, <3>1
  <2>4. PICK k \in inked : \A j \in inked : j <= k
    BY <1>1, <2>1, LastElement
  <2>5. \E x \in 1 .. n : Ink(x) /\ \A j \in x + 1 .. n : ~ Ink(j)
    <3>1. \A j \in k + 1 .. n : j \in 1 .. n /\ ~ (j <= k)
      BY <1>1, <2>4
    <3> QED
      BY <2>4, <3>1
  <2>6. first \in 1 .. n /\ last \in 1 .. n
    BY <2>3, <2>5 DEF n
  <2> HIDE DEF first, last
  <2>7. \A i1 \in first .. last : b[i1] \in Byte
    BY <1>1, <2>6
  <2>8. SubSeq(b, first, last) \in Seq(Byte)
    <3>1. first \in Int /\ last \in Int
      BY <2>6
    <3> QED
      BY <2>7, <3>1, SubSeqProperties
  <2> QED
    BY <1>2, <1>4, <2>8
<1> QED
  BY <1>3, <1>4

(***************************************************************************)
(* The date of a text without blanks around it.                            *)
(***************************************************************************)

DateOf(m, t, y) == [year |-> Year(y), month |-> MonthIn(m), day |-> DayIn(t)]

Parsed(w) ==
    LET parts == Split(w, Slash)
        date == DateOf(parts[1], parts[2], parts[3])
    IN  IF Len(parts) # 3 THEN None ELSE IF IsDate(date) THEN date ELSE None

LEMMA ParsedText ==
    ASSUME NEW s PROVE _parse_bios_release_date(s) = Parsed(Strip(s))
BY DEF _parse_bios_release_date, Parsed, DateOf, Year

\* A day of the calendar has a month and a day of at most two digits.
LEMMA Calendar ==
    ASSUME NEW d, IsDate(d)
    PROVE  d.month \in 0 .. 99 /\ d.day \in 0 .. 99 /\ d.year \in AnyYear
<1>1. DaysIn(d.month, d.year) \in {28, 29, 30, 31}
  BY DEF DaysIn
<1>2. \A n : n \in {28, 29, 30, 31} => 1 .. n \subseteq 0 .. 99
  OBVIOUS
<1>3. d.month \in 1 .. 12 /\ d.day \in 1 .. DaysIn(d.month, d.year) /\ d.year \in 1 .. MAXYEAR
  BY DEF IsDate
<1>4. 1 .. MAXYEAR \subseteq AnyYear /\ 1 .. 12 \subseteq 0 .. 99
  BY DEF AnyYear
<1> QED
  BY <1>1, <1>2, <1>3, <1>4

\* What a part of a date is written with.
LEMMA Characters ==
    /\ Slash \in Byte /\ Space \in Byte /\ Space # Slash
    /\ \A n \in 0 .. 9 : 48 + n \in Byte /\ 48 + n # Slash
    /\ \A a \in Byte : a # Slash => << a >> \in Seq(Byte) /\ NoSlash(<< a >>)
    /\ \A a, b \in Byte : a # Slash /\ b # Slash =>
          << a, b >> \in Seq(Byte) /\ NoSlash(<< a, b >>)
    /\ \A a, b, c, e \in Byte : a # Slash /\ b # Slash /\ c # Slash /\ e # Slash =>
          << a, b, c, e >> \in Seq(Byte) /\ NoSlash(<< a, b, c, e >>)
<1>1. Slash \in Byte /\ Space \in Byte /\ Space # Slash
  BY DEF Slash, Space, Byte
<1>2. \A n \in 0 .. 9 : 48 + n \in Byte /\ 48 + n # Slash
  BY DEF Slash, Byte
<1>3. \A a \in Byte : a # Slash => << a >> \in Seq(Byte) /\ NoSlash(<< a >>)
  BY DEF NoSlash
<1>4. \A a, b \in Byte : a # Slash /\ b # Slash =>
         << a, b >> \in Seq(Byte) /\ NoSlash(<< a, b >>)
  BY DEF NoSlash
<1>5. \A a, b, c, e \in Byte : a # Slash /\ b # Slash /\ c # Slash /\ e # Slash =>
         << a, b, c, e >> \in Seq(Byte) /\ NoSlash(<< a, b, c, e >>)
  BY DEF NoSlash
<1> QED
  BY <1>1, <1>2, <1>3, <1>4, <1>5

LEMMA PartsWritten ==
    ASSUME NEW d, IsDate(d)
    PROVE  /\ \A m \in Short(d.month) : m \in Seq(Byte) /\ NoSlash(m)
           /\ \A t \in Days(d.day) : t \in Seq(Byte) /\ NoSlash(t)
           /\ \A y \in Years(d.year) : y \in Seq(Byte) /\ NoSlash(y)
<1>1. d.month \in 0 .. 99 /\ d.day \in 0 .. 99 /\ d.year \in AnyYear
  BY Calendar
<1>2. ASSUME NEW n \in 0 .. 99, NEW m \in Short(n)
      PROVE  m \in Seq(Byte) /\ NoSlash(m)
  <2>1. m = << 48 + Tens(n), 48 + Units(n) >> \/ (n < 10 /\ m = << 48 + n >>)
    BY DigitsOf DEF Short
  <2>2. Tens(n) \in 0 .. 9 /\ Units(n) \in 0 .. 9 /\ (n < 10 => n \in 0 .. 9)
    BY TwoPlaces
  <2>3. /\ 48 + Tens(n) \in Byte /\ 48 + Tens(n) # Slash
        /\ 48 + Units(n) \in Byte /\ 48 + Units(n) # Slash
        /\ n < 10 => 48 + n \in Byte /\ 48 + n # Slash
    BY <2>2, Characters
  <2> DEFINE c == 48 + Tens(n)
             e == 48 + Units(n)
             d1 == 48 + n
  <2> HIDE DEF c, e, d1
  <2>4. /\ c \in Byte /\ c # Slash /\ e \in Byte /\ e # Slash
        /\ n < 10 => d1 \in Byte /\ d1 # Slash
        /\ m = << c, e >> \/ (n < 10 /\ m = << d1 >>)
    BY <2>1, <2>3 DEF c, e, d1
  <2> QED
    BY <2>4, Characters
<1>3. ASSUME NEW n \in 0 .. 99, NEW t \in Days(n)
      PROVE  t \in Seq(Byte) /\ NoSlash(t)
  <2>1. t \in Short(n) \/ (n < 10 /\ t = << Space, 48 + n >>)
    BY DigitsOf, Joined DEF Days
  <2>2. n < 10 => n \in 0 .. 9
    OBVIOUS
  <2> QED
    BY <1>2, <2>1, <2>2, Characters
<1>4. ASSUME NEW n \in AnyYear, NEW y \in Years(n)
      PROVE  y \in Seq(Byte) /\ NoSlash(y)
  <2> DEFINE a == 48 + Tens(Hundreds(n))
             b == 48 + Units(Hundreds(n))
             c == 48 + Tens(n)
             e == 48 + Units(n)
  <2>1. Hundreds(n) \in 0 .. 99 /\ Tens(n) \in 0 .. 9 /\ Units(n) \in 0 .. 9
    BY FourPlaces
  <2>2. Tens(Hundreds(n)) \in 0 .. 9 /\ Units(Hundreds(n)) \in 0 .. 9
    BY <2>1, TwoPlaces
  <2>3. /\ a \in Byte /\ b \in Byte /\ c \in Byte /\ e \in Byte
        /\ a # Slash /\ b # Slash /\ c # Slash /\ e # Slash
    BY <2>1, <2>2, Characters
  <2>4. TwoDigits(Hundreds(n)) = << a, b >> /\ TwoDigits(n) = << c, e >>
    BY DigitsOf, Zenon
  <2> HIDE DEF a, b, c, e
  <2>5. TwoDigits(Hundreds(n)) \o TwoDigits(n) = << a, b, c, e >>
    BY <2>4, Joined
  <2>6. y = << a, b, c, e >> \/ y = << c, e >>
    BY <2>4, <2>5, DigitsOf
  <2> QED
    BY <2>3, <2>6, Characters
<1> QED
  BY <1>1, <1>2, <1>3, <1>4

LEMMA WritingsAreDates ==
    ASSUME NEW d
    PROVE  Writings(d) = {Date(m, t, y) : m \in Short(d.month), t \in Days(d.day), y \in Years(d.year)}
BY DEF Writings, Date

\* A text that writes a date is read as that date.
LEMMA ReadAsWritten ==
    ASSUME NEW d \in [year : Nat, month : Nat, day : Nat], IsDate(d), NEW w \in Writings(d)
    PROVE  Parsed(w) = d
<1>1. PICK m \in Short(d.month), t \in Days(d.day), y \in Years(d.year) : w = Date(m, t, y)
  BY WritingsAreDates
<1>2. /\ m \in Seq(Byte) /\ t \in Seq(Byte) /\ y \in Seq(Byte)
      /\ NoSlash(m) /\ NoSlash(t) /\ NoSlash(y)
  BY PartsWritten
<1>3. /\ Len(Split(w, Slash)) = 3 /\ Split(w, Slash)[1] = m
      /\ Split(w, Slash)[2] = t /\ Split(w, Slash)[3] = y
  BY <1>1, <1>2, TakenApart, Characters, SMTT(30)
<1>4. d.month \in 0 .. 99 /\ d.day \in 0 .. 99 /\ d.year \in AnyYear
  BY Calendar
<1>5. MonthIn(m) = d.month
  BY <1>2, <1>4, ShortRead DEF MonthIn
<1>6. DayIn(t) = d.day
  BY <1>2, <1>4, DayRead
<1>7. Year(y) = d.year
  BY <1>2, <1>4, YearRead
<1>8. DateOf(m, t, y) = d
  BY <1>5, <1>6, <1>7 DEF DateOf
<1> QED
  BY <1>3, <1>8 DEF Parsed

\* A text that is read as a date writes it.
LEMMA WrittenAsRead ==
    ASSUME NEW w \in Seq(Byte), Parsed(w) # None
    PROVE  IsDate(Parsed(w)) /\ w \in Writings(Parsed(w))
<1> DEFINE m == Split(w, Slash)[1]
           t == Split(w, Slash)[2]
           y == Split(w, Slash)[3]
           d == DateOf(m, t, y)
<1>1. Len(Split(w, Slash)) = 3 /\ IsDate(d) /\ Parsed(w) = d
  BY DEF Parsed
<1>2. m \in Seq(Byte) /\ t \in Seq(Byte) /\ y \in Seq(Byte) /\ w = Date(m, t, y)
  BY <1>1, PutTogether, Characters
<1>3. d.year = Year(y) /\ d.month = MonthIn(m) /\ d.day = DayIn(t)
  BY DEF DateOf
<1> HIDE DEF m, t, y, d
<1>4. d.month \in 0 .. 99 /\ d.day \in 0 .. 99 /\ d.year \in AnyYear
  BY <1>1, Calendar
<1>5. m \in Short(d.month)
  BY <1>2, <1>3, <1>4, ShortRead DEF MonthIn
<1>6. t \in Days(d.day)
  BY <1>2, <1>3, <1>4, DayRead
<1>7. y \in Years(d.year)
  BY <1>2, <1>3, <1>4, YearRead
<1>8. w \in Writings(d)
  BY <1>2, <1>5, <1>6, <1>7, WritingsAreDates
<1> QED
  BY <1>1, <1>8

-----------------------------------------------------------------------------

\* A text is a sequence of bytes, whatever pieces it is put together from.
TextOK == text \in Seq(Byte)

LEMMA AlwaysText == DateSpec => []TextOK
<1>1. DateInit => TextOK
  BY DEF DateInit, TextOK
<1>2. TextOK /\ [DateNext]_dateVars => TextOK'
  <2> SUFFICES ASSUME TextOK, [DateNext]_dateVars PROVE TextOK'
    OBVIOUS
  <2>1. CASE Write
    <3>1. PICK p \in Pieces : text' = text \o p
      BY <2>1 DEF Write
    <3>2. p \in Seq(Byte)
      BY DateTexts
    <3> QED
      BY <3>1, <3>2, ConcatProperties DEF TextOK
  <2>2. CASE UNCHANGED dateVars
    BY <2>2 DEF TextOK, dateVars
  <2> QED
    BY <2>1, <2>2 DEF DateNext, Written
<1> QED
  BY <1>1, <1>2, PTL DEF DateSpec

LEMMA TextReadAsWritten == TextOK => DatesAreReadAsWritten
<1> SUFFICES ASSUME TextOK PROVE DatesAreReadAsWritten
  OBVIOUS
<1> DEFINE inner == Strip(text)
           read == _parse_bios_release_date(text)
           Meanings == UNION {{<< w, d >> : w \in Writings(d)} : d \in Dates}
<1>1. read = Parsed(inner)
  BY ParsedText
<1>2. inner \in Seq(Byte)
  BY StrippedText DEF TextOK
<1>3. Meant = [w \in {m[1] : m \in Meanings} |-> (CHOOSE m \in Meanings : m[1] = w)[2]]
  BY DEF Meant
<1>4. ASSUME inner \in DOMAIN Meant PROVE read = Meant[inner]
  <2> DEFINE n == CHOOSE m \in Meanings : m[1] = inner
  <2>1. inner \in {m[1] : m \in Meanings}
    BY <1>3, <1>4
  <2>2. n \in Meanings /\ n[1] = inner
    <3> HIDE DEF Meanings, inner
    <3> QED
      BY <2>1
  <2>3. Meant[inner] = n[2]
    <3> HIDE DEF Meanings, inner
    <3> QED
      BY <1>3, <2>1
  <2> HIDE DEF n, inner
  <2>4. PICK d \in Dates : \E w \in Writings(d) : n = << w, d >>
    BY <2>2
  <2>5. inner \in Writings(d) /\ n[2] = d
    BY <2>2, <2>4
  <2>6. d \in [year : Nat, month : Nat, day : Nat] /\ IsDate(d)
    BY ReleaseDates
  <2>7. Parsed(inner) = d
    BY <2>5, <2>6, ReadAsWritten
  <2> HIDE DEF read
  <2> QED
    BY <1>1, <2>3, <2>5, <2>7
<1>5. read # None => IsDate(read) /\ inner \in Writings(read)
  <2> HIDE DEF read, inner
  <2> QED
    BY <1>1, <1>2, WrittenAsRead
<1> QED
  BY <1>4, <1>5 DEF DatesAreReadAsWritten

\* A date is read from exactly the texts that write it, whatever the text is put
\* together from (structures.py, lines 57-69).
THEOREM DatesRead == DateSpec => []DatesAreReadAsWritten
BY AlwaysText, TextReadAsWritten, PTL

=============================================================================
