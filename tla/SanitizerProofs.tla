--------------------------- MODULE SanitizerProofs --------------------------
(***************************************************************************)
(* Sanitizing any table changes nothing but secrets, leaves none, and is   *)
(* done after one run.                                                     *)
(***************************************************************************)
EXTENDS Sanitizer, SMBIOSTableProofs

(***************************************************************************)
(* What the scan of one string area finds.                                 *)
(***************************************************************************)

LEMMA GreatestElement ==
    ASSUME NEW n \in Nat, NEW T \in SUBSET (0 .. n), T # {}
    PROVE  \E x \in T : \A y \in T : y <= x
<1> DEFINE U == {n - x : x \in T}
<1>1. U \in SUBSET Nat /\ U # {}
  <2>1. \A x \in T : n - x \in Nat
    OBVIOUS
  <2>2. PICK x \in T : TRUE
    OBVIOUS
  <2>3. U # {}
    BY <2>2
  <2> QED
    BY <2>1, <2>3
<1>2. PICK u \in U : \A v \in U : u <= v
  BY <1>1, LeastElement
<1>3. PICK x \in T : u = n - x
  BY <1>2
<1>4. ASSUME NEW y \in T PROVE y <= x
  <2>1. u <= n - y
    BY <1>2
  <2> QED
    BY <1>3, <2>1
<1> QED
  BY <1>4

\* The bytes of a table are bytes.
LEMMA TableBytes ==
    ASSUME NEW b \in Seq(Byte)
    PROVE  Len(b) \in Nat /\ \A x \in 0 .. Len(b) - 1 : ByteAt(b, x) \in Byte
<1>1. Len(b) \in Nat
  BY LenProperties
<1>2. ASSUME NEW x \in 0 .. Len(b) - 1 PROVE ByteAt(b, x) \in Byte
  <2>1. x + 1 \in 1 .. Len(b)
    BY <1>1
  <2> QED
    BY <2>1, ElementOfSeq DEF ByteAt
<1> QED
  BY <1>1, <1>2

\* An accepted header and formatted area lie in front of the end.
LEMMA HeaderFacts ==
    ASSUME NEW b \in Seq(Byte), NEW e \in 0 .. Len(b), NEW o \in Nat, HeaderOK(b, o, e)
    PROVE  /\ FormattedEnd(b, o) \in Nat /\ LengthAt(b, o) \in 4 .. 255
           /\ o + 4 <= FormattedEnd(b, o) /\ FormattedEnd(b, o) <= e /\ o + 4 <= e
           /\ e \in Nat /\ Len(b) \in Nat /\ e <= Len(b)
           /\ FormattedEnd(b, o) = o + LengthAt(b, o)
<1> DEFINE len == LengthAt(b, o)
           f == FormattedEnd(b, o)
<1>1. Len(b) \in Nat /\ \A x \in 0 .. Len(b) - 1 : ByteAt(b, x) \in Byte
  BY TableBytes
<1>2. o + 4 <= e /\ len >= 4 /\ f <= e /\ f = o + len
  BY DEF HeaderOK, HeaderSize, FormattedEnd
<1>3. len \in Byte
  <2>1. o + 1 \in 0 .. Len(b) - 1
    BY <1>1, <1>2
  <2> QED
    BY <1>1, <2>1 DEF LengthAt
<1> HIDE DEF len, f
<1>4. len \in 4 .. 255
  BY <1>2, <1>3 DEF Byte
<1>5. f \in Nat /\ o + 4 <= f /\ e \in Nat /\ e <= Len(b)
  BY <1>1, <1>2, <1>4
<1> QED
  BY <1>1, <1>2, <1>4, <1>5 DEF len, f

\* Where the n-th string starts.
StartOf(f, ends, n) == IF n = 1 THEN f ELSE ends[n - 1] + 1

\* The spans of an area with these ends.
SpansAt(f, ends) ==
    [n \in 1 .. Len(ends) |-> [start |-> StartOf(f, ends, n), stop |-> ends[n]]]

\* No byte of the n-th string belongs to another.
Apart(f, ends, n) ==
    \A m \in 1 .. Len(ends), x \in StartOf(f, ends, n) .. ends[n] - 1 :
       x \in StartOf(f, ends, m) .. ends[m] - 1 => m = n

\* A string holds no NUL, and no byte belongs to two strings.
LEMMA StringsAreApart ==
    ASSUME NEW b, NEW f \in Nat, NEW c \in Nat, NEW ends, NulsAre(b, f, c, ends),
           NEW n \in 1 .. Len(ends)
    PROVE  /\ StartOf(f, ends, n) \in f .. ends[n] /\ ends[n] \in f .. c - 1
           /\ \A x \in StartOf(f, ends, n) .. ends[n] - 1 : ByteAt(b, x) # NUL
           /\ Apart(f, ends, n)
<1> DEFINE N == Len(ends)
<1>1. /\ N \in Nat
      /\ \A m \in 1 .. N : ends[m] \in f .. c - 1 /\ ByteAt(b, ends[m]) = NUL
      /\ \A m, p \in 1 .. N : m < p => ends[m] < ends[p]
      /\ \A x \in f .. c - 1 : ByteAt(b, x) = NUL => \E m \in 1 .. N : ends[m] = x
  BY LenProperties DEF NulsAre
<1>2. n \in 1 .. N
  OBVIOUS
<1> HIDE DEF N
<1>3. ASSUME NEW m \in 1 .. N
      PROVE  /\ StartOf(f, ends, m) \in f .. ends[m]
             /\ \A p \in 1 .. N : p < m => ends[p] < StartOf(f, ends, m)
  <2>1. CASE m = 1
    BY <1>1, <2>1 DEF StartOf
  <2>2. CASE m # 1
    <3>1. m - 1 \in 1 .. N /\ m - 1 < m
      BY <1>1, <2>2
    <3>2. ends[m - 1] < ends[m] /\ StartOf(f, ends, m) = ends[m - 1] + 1
      BY <1>1, <2>2, <3>1 DEF StartOf
    <3>3. ASSUME NEW p \in 1 .. N, p < m PROVE ends[p] <= ends[m - 1]
      <4>1. p = m - 1 \/ p < m - 1
        BY <3>1, <3>3
      <4> QED
        BY <1>1, <3>1, <4>1
    <3> QED
      BY SMTT(30), <1>1, <3>1, <3>2, <3>3
  <2> QED
    BY <2>1, <2>2
<1>4. ASSUME NEW x \in StartOf(f, ends, n) .. ends[n] - 1 PROVE ByteAt(b, x) # NUL
  <2> SUFFICES ASSUME ByteAt(b, x) = NUL PROVE FALSE
    OBVIOUS
  <2>1. x \in f .. c - 1
    BY <1>1, <1>2, <1>3
  <2>2. PICK m \in 1 .. N : ends[m] = x
    BY <1>1, <2>1
  <2>3. ends[m] < ends[n] /\ ~ (m < n)
    BY <1>1, <1>2, <1>3, <2>2
  <2>4. m = n \/ n < m
    BY <1>1, <1>2, <2>3
  <2> QED
    BY <1>1, <1>2, <2>3, <2>4
<1>5. ASSUME NEW m \in 1 .. N, NEW x \in StartOf(f, ends, n) .. ends[n] - 1,
             x \in StartOf(f, ends, m) .. ends[m] - 1
      PROVE  m = n
  <2>1. ~ (m < n) /\ ~ (n < m)
    BY SMTT(30), <1>1, <1>2, <1>3, <1>5
  <2> QED
    BY <1>1, <1>2, <2>1
<1> QED
  BY <1>1, <1>2, <1>3, <1>4, <1>5 DEF Apart, N

\* Where a scan of the area from f stops, and what it has found there: the ends of the
\* strings up to c, listed one after the other, and the cursor, which is behind the
\* double NUL of the area or at c with no NUL ahead.
Found(b, o, c, ends) ==
    LET f == FormattedEnd(b, o)
    IN  /\ c \in f .. Len(b)
        /\ NulsAre(b, f, c, ends)
        /\ Scan(b, o).spans = SpansAt(f, ends)
        /\ \A k \in Ends(b, o) : Scan(b, o).cursor = k + 2 /\ c = IF k = f THEN f ELSE k + 1
        /\ Ends(b, o) = {} => /\ Scan(b, o).cursor = c
                              /\ \A x \in c .. Len(b) - 1 : ByteAt(b, x) # NUL

\* Counting the NULs of an area numbers them as the list does.
LEMMA SpansByList ==
    ASSUME NEW b, NEW o, NEW c \in Nat, NEW ends, FormattedEnd(b, o) \in Nat,
           NulsAre(b, FormattedEnd(b, o), c, ends),
           SpanEnds(b, FormattedEnd(b, o)) = NulsIn(b, FormattedEnd(b, o), c)
    PROVE  Spans(b, o).spans = SpansAt(FormattedEnd(b, o), ends)
<1> DEFINE f == FormattedEnd(b, o)
           nuls == SpanEnds(b, f)
           s == [n \in 1 .. Cardinality(nuls) |->
                    [start |-> IF n = 1 THEN f ELSE Nth(nuls, n - 1) + 1,
                     stop  |-> Nth(nuls, n)]]
<1>1. Spans(b, o).spans = s
  BY Zenon DEF Spans, Nth, Upto
<1>2. f \in Nat /\ NulsAre(b, f, c, ends) /\ nuls = NulsIn(b, f, c)
  OBVIOUS
<1> HIDE DEF f, nuls
<1>3. /\ Cardinality(nuls) = Len(ends)
      /\ \A n \in 1 .. Len(ends) : Nth(nuls, n) = ends[n]
  <2>1. Cardinality(NulsIn(b, f, c)) = Len(ends)
    BY <1>2, CountFinds
  <2>2. \A n \in 1 .. Len(ends) : Nth(NulsIn(b, f, c), n) = ends[n]
    BY <1>2, CountFinds
  <2> QED
    BY <1>2, <2>1, <2>2
<1>4. Len(ends) \in Nat
  BY <1>2, LenProperties DEF NulsAre
<1>5. ASSUME NEW n \in 1 .. Len(ends)
      PROVE  [start |-> IF n = 1 THEN f ELSE Nth(nuls, n - 1) + 1, stop |-> Nth(nuls, n)]
               = [start |-> StartOf(f, ends, n), stop |-> ends[n]]
  <2>1. n = 1 \/ n - 1 \in 1 .. Len(ends)
    BY <1>4
  <2> QED
    BY <1>3, <2>1 DEF StartOf
<1>6. s = SpansAt(f, ends)
  BY <1>3, <1>5 DEF SpansAt
<1> QED
  BY <1>1, <1>6 DEF f

LEMMA ScanFinds ==
    ASSUME NEW b \in Seq(Byte), NEW o \in Nat, FormattedEnd(b, o) \in 0 .. Len(b)
    PROVE  \E c, ends : Found(b, o, c, ends)
<1> DEFINE f == FormattedEnd(b, o)
           nuls == {x \in f .. Len(b) - 1 : ByteAt(b, x) = NUL}
           E == SpanEnds(b, f)
<1>1. Len(b) \in Nat /\ f \in Nat /\ f <= Len(b)
  BY LenProperties
<1>2. E = {x \in nuls : \A j \in nuls : DoubleNul(b, j) => x <= j}
  BY DEF SpanEnds
<1>3. \A k : k \in Ends(b, o) <=> /\ k \in f .. Len(b) - 2 /\ DoubleNul(b, k)
                                  /\ \A j \in f .. k - 1 : ~ DoubleNul(b, j)
  BY <1>1 DEF Ends, EndsStrings
<1>4. \A k : DoubleNul(b, k) => k + 1 < Len(b) /\ ByteAt(b, k) = NUL
  BY DEF DoubleNul
<1>5. \A j, k \in Ends(b, o) : j = k
  BY <1>1, OneEnd
<1>6. \A j \in nuls : DoubleNul(b, j) => \E k \in Ends(b, o) : k <= j
  <2> SUFFICES ASSUME NEW j \in nuls, DoubleNul(b, j)
               PROVE  \E k \in Ends(b, o) : k <= j
    OBVIOUS
  <2> DEFINE T == {x \in f .. Len(b) - 1 : DoubleNul(b, x)}
  <2>1. T \in SUBSET Nat /\ j \in T
    BY <1>1
  <2>2. PICK k \in T : \A x \in T : k <= x
    BY <2>1, LeastElement
  <2>3. k \in f .. Len(b) - 2 /\ \A x \in f .. k - 1 : ~ DoubleNul(b, x)
    BY <1>1, <1>4, <2>2
  <2> QED
    BY <1>3, <2>1, <2>2, <2>3
<1>7. \A k \in Ends(b, o) : k \in nuls /\ k \in Nat
  BY <1>1, <1>3, <1>4
<1> HIDE DEF f, E
<1>8. CASE DoubleNul(b, f)
  <2>1. f \in Ends(b, o)
    BY <1>1, <1>3, <1>4, <1>8
  <2>2. Scan(b, o).spans = << >> /\ Scan(b, o).cursor = f + 2
    BY <1>8 DEF Scan, NoSpans, f
  <2>3. NulsAre(b, f, f, << >>)
    BY <1>1, NothingCollected
  <2>4. SpansAt(f, << >>) = << >>
    BY EmptySeq DEF SpansAt
  <2>5. Found(b, o, f, << >>)
    BY <1>1, <1>5, <2>1, <2>2, <2>3, <2>4 DEF Found, f
  <2> QED
    BY <2>5
<1>9. CASE ~ DoubleNul(b, f) /\ E = {}
  <2>1. nuls = {}
    <3> SUFFICES ASSUME nuls # {} PROVE FALSE
      OBVIOUS
    <3>1. nuls \in SUBSET Nat
      BY <1>1
    <3>2. PICK x \in nuls : \A j \in nuls : x <= j
      BY <3>1, LeastElement
    <3> QED
      BY <1>2, <1>9, <3>2
  <2>2. Ends(b, o) = {}
    BY <1>7, <2>1
  <2>3. NulsAre(b, f, f, << >>)
    BY <1>1, NothingCollected
  <2>4. SpanEnds(b, f) = NulsIn(b, f, f)
    BY <1>1, <1>9 DEF E, NulsIn
  <2>5. Spans(b, o).spans = SpansAt(f, << >>)
    BY <1>1, <2>3, <2>4, SpansByList DEF f
  <2>6. Scan(b, o) = Spans(b, o)
    BY <1>9 DEF Scan, f
  <2>7. Spans(b, o).cursor = f
    BY <1>9 DEF Spans, f, E
  <2>8. Found(b, o, f, << >>)
    BY <1>1, <2>1, <2>2, <2>3, <2>5, <2>6, <2>7 DEF Found, f
  <2> QED
    BY <2>8
<1>10. CASE ~ DoubleNul(b, f) /\ E # {}
  <2> DEFINE last == CHOOSE x \in E : \A j \in E : j <= x
             c == last + 1
  <2>1. last \in E /\ \A j \in E : j <= last
    <3>1. E \in SUBSET (0 .. Len(b))
      BY <1>1, <1>2
    <3>2. \E x \in E : \A j \in E : j <= x
      BY <1>1, <1>10, <3>1, GreatestElement
    <3> QED
      BY <3>2
  <2>2. Spans(b, o).cursor = IF DoubleNul(b, last) THEN last + 2 ELSE last + 1
    BY <1>10 DEF Spans, f, E
  <2> HIDE DEF last
  <2>3. /\ last \in nuls /\ c \in Nat /\ f <= c /\ c <= Len(b) /\ c - 1 = last
        /\ \A j \in nuls : DoubleNul(b, j) => last <= j
    BY <1>1, <1>2, <2>1
  <2>4. E = NulsIn(b, f, c)
    <3>1. ASSUME NEW x \in E PROVE x \in NulsIn(b, f, c)
      BY <1>1, <1>2, <2>1, <2>3 DEF NulsIn
    <3>2. ASSUME NEW x \in NulsIn(b, f, c) PROVE x \in E
      <4>1. x \in nuls /\ x <= last
        BY <1>1, <2>3 DEF NulsIn
      <4> QED
        BY <1>1, <1>2, <2>3, <4>1
    <3> QED
      BY <3>1, <3>2
  <2>5. PICK ends : NulsAre(b, f, c, ends)
    <3>1. ByteAt(b, c - 1) = NUL
      BY <2>3
    <3> HIDE DEF c
    <3> QED
      BY <1>1, <2>3, <3>1, NulsCanBeListed
  <2>6. Spans(b, o).spans = SpansAt(f, ends)
    <3> HIDE DEF c
    <3> QED
      BY <1>1, <2>3, <2>4, <2>5, SpansByList DEF f, E
  <2>7. Scan(b, o) = Spans(b, o)
    BY <1>10 DEF Scan, f
  <2>8. ASSUME NEW k \in Ends(b, o)
        PROVE  k = last /\ DoubleNul(b, last) /\ k # f
    <3>1. k \in nuls /\ DoubleNul(b, k) /\ \A j \in nuls : DoubleNul(b, j) => k <= j
      <4>1. \A j \in nuls : DoubleNul(b, j) => k <= j
        BY <1>5, <1>6
      <4> QED
        BY <1>3, <1>7, <4>1
    <3>2. k <= last /\ last <= k
      BY <1>2, <2>1, <2>3, <3>1
    <3>3. k = last
      BY <1>1, <2>3, <3>1, <3>2
    <3> QED
      BY <1>10, <3>1, <3>3
  <2>9. ASSUME Ends(b, o) = {}
        PROVE  ~ DoubleNul(b, last) /\ \A x \in c .. Len(b) - 1 : ByteAt(b, x) # NUL
    <3>1. \A j \in nuls : ~ DoubleNul(b, j)
      BY <1>6, <2>9
    <3>2. ASSUME NEW x \in c .. Len(b) - 1, ByteAt(b, x) = NUL PROVE FALSE
      <4>1. x \in nuls
        BY <1>1, <2>3, <3>2
      <4>2. x \in E
        BY <1>2, <3>1, <4>1
      <4> QED
        BY <1>1, <2>1, <2>3, <4>1, <4>2
    <3> QED
      BY <2>3, <3>1, <3>2
  <2>10. \A k \in Ends(b, o) : Scan(b, o).cursor = k + 2 /\ c = k + 1 /\ k # f
    BY <2>2, <2>7, <2>8
  <2>11. Ends(b, o) = {} => /\ Scan(b, o).cursor = c
                            /\ \A x \in c .. Len(b) - 1 : ByteAt(b, x) # NUL
    BY <2>2, <2>7, <2>9
  <2>12. c \in f .. Len(b)
    BY <1>1, <2>3
  <2> HIDE DEF c
  <2>13. Found(b, o, c, ends)
    BY <2>5, <2>6, <2>7, <2>10, <2>11, <2>12, Zenon DEF Found, f
  <2> QED
    BY <2>13
<1> QED
  BY <1>8, <1>9, <1>10

-----------------------------------------------------------------------------
(***************************************************************************)
(* What overwriting one structure does to the bytes of the table.          *)
(***************************************************************************)

\* The string indices in the sensitive fields of the structure at o.
Chosen(b, o) ==
    {ByteAt(b, o + HeaderSize + f[2]) :
        f \in {g \in _SENSITIVE_STRING_FIELDS :
                  g[1] = TypeAt(b, o) /\ o + HeaderSize + g[2] < FormattedEnd(b, o)}}

LEMMA StringBytesAre ==
    ASSUME NEW b, NEW o, NEW f, NEW ends, Len(ends) \in Nat, Scan(b, o).spans = SpansAt(f, ends)
    PROVE  \A x : x \in StringBytes(b, o) <=>
                     \E n \in Chosen(b, o) \cap (1 .. Len(ends)) :
                        x \in StartOf(f, ends, n) .. ends[n] - 1
<1> DEFINE fields == {g \in _SENSITIVE_STRING_FIELDS : g[1] = TypeAt(b, o)}
           At(g) == o + HeaderSize + g[2]
           spans == Scan(b, o).spans
           Of(g) == IF At(g) < FormattedEnd(b, o) /\ ByteAt(b, At(g)) \in DOMAIN spans
                    THEN spans[ByteAt(b, At(g))].start .. spans[ByteAt(b, At(g))].stop - 1
                    ELSE {}
<1>1. StringBytes(b, o) = UNION {Of(g) : g \in fields}
  BY Zenon DEF StringBytes
<1>2. /\ DOMAIN spans = 1 .. Len(ends)
      /\ \A n \in 1 .. Len(ends) : /\ spans[n].start = StartOf(f, ends, n)
                                   /\ spans[n].stop = ends[n]
  BY DEF SpansAt
<1>3. Chosen(b, o) = {ByteAt(b, At(g)) : g \in {h \in fields : At(h) < FormattedEnd(b, o)}}
  BY Zenon DEF Chosen
<1> HIDE DEF spans, fields, At
<1>4. \A g : At(g) < FormattedEnd(b, o) /\ ByteAt(b, At(g)) \in 1 .. Len(ends) =>
               Of(g) = StartOf(f, ends, ByteAt(b, At(g))) .. ends[ByteAt(b, At(g))] - 1
  BY <1>2
<1>5. \A g : ~ (At(g) < FormattedEnd(b, o) /\ ByteAt(b, At(g)) \in 1 .. Len(ends)) => Of(g) = {}
  BY <1>2
<1> HIDE DEF Of
<1>6. ASSUME NEW x, x \in StringBytes(b, o)
      PROVE  \E n \in Chosen(b, o) \cap (1 .. Len(ends)) : x \in StartOf(f, ends, n) .. ends[n] - 1
  <2>1. PICK g \in fields : x \in Of(g)
    BY <1>1, <1>6
  <2>2. At(g) < FormattedEnd(b, o) /\ ByteAt(b, At(g)) \in 1 .. Len(ends)
    BY <1>5, <2>1
  <2> DEFINE n == ByteAt(b, At(g))
  <2>3. n \in Chosen(b, o)
    BY <1>3, <2>1, <2>2, Zenon
  <2>4. n \in 1 .. Len(ends) /\ x \in StartOf(f, ends, n) .. ends[n] - 1
    BY <1>4, <2>1, <2>2
  <2> HIDE DEF n
  <2> QED
    BY <2>3, <2>4
<1>7. ASSUME NEW x, NEW n \in Chosen(b, o) \cap (1 .. Len(ends)),
             x \in StartOf(f, ends, n) .. ends[n] - 1
      PROVE  x \in StringBytes(b, o)
  <2>1. PICK g \in fields : At(g) < FormattedEnd(b, o) /\ n = ByteAt(b, At(g))
    BY <1>3, Zenon
  <2>2. x \in Of(g)
    BY <1>4, <1>7, <2>1
  <2> QED
    BY <1>1, <2>1, <2>2
<1> QED
  BY <1>6, <1>7

LEMMA OverwriteBytes ==
    ASSUME NEW b \in Seq(Byte), NEW o
    PROVE  /\ Overwrite(b, o) \in Seq(Byte) /\ Len(Overwrite(b, o)) = Len(b)
           /\ \A x \in 0 .. Len(b) - 1 :
                 ByteAt(Overwrite(b, o), x) = IF x \in UuidBytes(b, o) THEN 0
                                              ELSE IF x \in StringBytes(b, o) THEN A
                                              ELSE ByteAt(b, x)
<1> DEFINE U == UuidBytes(b, o)
           W == StringBytes(b, o)
           c == Overwrite(b, o)
<1>1. Len(b) \in Nat /\ DOMAIN b = 1 .. Len(b) /\ \A i \in 1 .. Len(b) : b[i] \in Byte
  BY LenProperties, ElementOfSeq
<1>2. c = [i \in 1 .. Len(b) |-> IF i - 1 \in U THEN 0 ELSE IF i - 1 \in W THEN A ELSE b[i]]
  BY <1>1, Zenon DEF Overwrite
<1> HIDE DEF U, W, c
<1>3. 0 \in Byte /\ A \in Byte
  BY DEF Byte, A
<1>4. c \in [1 .. Len(b) -> Byte]
  BY <1>1, <1>2, <1>3
<1>5. c \in Seq(Byte) /\ Len(c) = Len(b)
  BY <1>1, <1>4, FunctionIsSeq
<1>6. ASSUME NEW x \in 0 .. Len(b) - 1
      PROVE  ByteAt(c, x) = IF x \in U THEN 0 ELSE IF x \in W THEN A ELSE ByteAt(b, x)
  <2>1. x + 1 \in 1 .. Len(b) /\ x + 1 - 1 = x
    BY <1>1
  <2> QED
    BY <1>2, <2>1 DEF ByteAt
<1> QED
  BY <1>5, <1>6 DEF c, U, W

\* Only the UUID and strings change, no NUL comes or goes behind the formatted area,
\* and nothing changes behind the last string.
LEMMA ScrubKeeps ==
    ASSUME NEW b \in Seq(Byte), NEW o \in Nat, HeaderOK(b, o, Len(b)),
           NEW c, NEW ends, Found(b, o, c, ends)
    PROVE  /\ Overwrite(b, o) \in Seq(Byte) /\ Len(Overwrite(b, o)) = Len(b)
           /\ \A x \in 0 .. FormattedEnd(b, o) - 1 :
                 x \notin UuidBytes(b, o) => ByteAt(Overwrite(b, o), x) = ByteAt(b, x)
           /\ \A x \in UuidBytes(b, o) : /\ x \in o + 8 .. FormattedEnd(b, o) - 1
                                         /\ ByteAt(Overwrite(b, o), x) = 0
           /\ \A x \in FormattedEnd(b, o) .. Len(b) - 1 :
                 /\ x \in StringBytes(b, o) => ByteAt(Overwrite(b, o), x) = A
                 /\ x \notin StringBytes(b, o) => ByteAt(Overwrite(b, o), x) = ByteAt(b, x)
                 /\ ByteAt(Overwrite(b, o), x) = NUL <=> ByteAt(b, x) = NUL
           /\ \A x \in StringBytes(b, o) : x \in FormattedEnd(b, o) .. c - 2
<1> DEFINE f == FormattedEnd(b, o)
           U == UuidBytes(b, o)
           W == StringBytes(b, o)
           v == Overwrite(b, o)
<1>1. Len(b) \in Nat /\ f \in Nat /\ o + 4 <= f /\ f <= Len(b)
  <2>1. Len(b) \in 0 .. Len(b)
    BY LenProperties
  <2> QED
    BY <2>1, HeaderFacts
<1>2. /\ v \in Seq(Byte) /\ Len(v) = Len(b)
      /\ \A x \in 0 .. Len(b) - 1 :
            ByteAt(v, x) = IF x \in U THEN 0 ELSE IF x \in W THEN A ELSE ByteAt(b, x)
  BY OverwriteBytes
<1>3. \A x \in U : x \in o + 8 .. f - 1
  BY <1>1 DEF UuidBytes
<1>4. c \in f .. Len(b) /\ NulsAre(b, f, c, ends) /\ Scan(b, o).spans = SpansAt(f, ends)
  BY DEF Found
<1>5. Len(ends) \in Nat
  BY <1>4, LenProperties DEF NulsAre
<1>6. ASSUME NEW x \in W
      PROVE  x \in f .. c - 2 /\ ByteAt(b, x) # NUL
  <2>1. PICK n \in 1 .. Len(ends) : x \in StartOf(f, ends, n) .. ends[n] - 1
    BY <1>4, <1>5, StringBytesAre
  <2> HIDE DEF f
  <2>2. /\ StartOf(f, ends, n) \in f .. ends[n] /\ ends[n] \in f .. c - 1
        /\ \A y \in StartOf(f, ends, n) .. ends[n] - 1 : ByteAt(b, y) # NUL
    <3>1. c \in Nat
      BY <1>1, <1>4
    <3> QED
      BY <1>1, <1>4, <3>1, StringsAreApart
  <2> QED
    BY <1>1, <1>4, <2>1, <2>2
<1> HIDE DEF U, W, v, f
<1>7. ASSUME NEW x \in 0 .. f - 1, x \notin U
      PROVE  ByteAt(v, x) = ByteAt(b, x)
  <2>1. x \notin W /\ x \in 0 .. Len(b) - 1
    BY <1>1, <1>6
  <2> QED
    BY <1>2, <1>7, <2>1
<1>8. ASSUME NEW x \in U
      PROVE  x \in o + 8 .. f - 1 /\ ByteAt(v, x) = 0
  <2>1. x \in 0 .. Len(b) - 1
    BY <1>1, <1>3
  <2> QED
    BY <1>2, <1>3, <2>1
<1>9. ASSUME NEW x \in f .. Len(b) - 1
      PROVE  /\ x \in W => ByteAt(v, x) = A
             /\ x \notin W => ByteAt(v, x) = ByteAt(b, x)
             /\ ByteAt(v, x) = NUL <=> ByteAt(b, x) = NUL
  <2>1. x \notin U /\ x \in 0 .. Len(b) - 1
    BY <1>1, <1>3
  <2>2. A # NUL
    BY DEF A, NUL
  <2> QED
    BY <1>2, <1>6, <2>1, <2>2
<1> QED
  BY <1>2, <1>6, <1>7, <1>8, <1>9 DEF U, W, v, f

-----------------------------------------------------------------------------
(***************************************************************************)
(* A structure in two tables of one length, b and v, that differ in some   *)
(* of its bytes, or in others.                                             *)
(***************************************************************************)

LEMMA SlicesAgree ==
    ASSUME NEW b \in Seq(Byte), NEW v \in Seq(Byte), Len(v) = Len(b),
           NEW i \in Nat, NEW j \in Nat, j <= Len(b),
           \A x \in i .. j - 1 : ByteAt(v, x) = ByteAt(b, x)
    PROVE  Slice(v, i, j) = Slice(b, i, j)
<1> DEFINE s == Slice(b, i, j)
           t == Slice(v, i, j)
<1>1. /\ s \in Seq(Byte) /\ Len(s) = (IF i <= j THEN j - i ELSE 0)
      /\ \A x \in 0 .. j - i - 1 : ByteAt(s, x) = ByteAt(b, i + x)
  BY SliceBytes
<1>2. /\ t \in Seq(Byte) /\ Len(t) = (IF i <= j THEN j - i ELSE 0)
      /\ \A x \in 0 .. j - i - 1 : ByteAt(t, x) = ByteAt(v, i + x)
  BY SliceBytes
<1> HIDE DEF s, t
<1>3. ASSUME NEW x \in 0 .. Len(t) - 1 PROVE ByteAt(t, x) = ByteAt(s, x)
  <2>1. x \in 0 .. j - i - 1 /\ i + x \in i .. j - 1
    BY <1>2
  <2> QED
    BY <1>1, <1>2, <2>1
<1>4. t = s
  BY <1>1, <1>2, <1>3, SameBytes
<1> QED
  BY <1>4 DEF s, t

\* The same header.
LEMMA HeaderStands ==
    ASSUME NEW b, NEW v, NEW o \in Nat,
           \A x \in o .. o + 3 : ByteAt(v, x) = ByteAt(b, x)
    PROVE  /\ TypeAt(v, o) = TypeAt(b, o) /\ LengthAt(v, o) = LengthAt(b, o)
           /\ HandleAt(v, o) = HandleAt(b, o) /\ FormattedEnd(v, o) = FormattedEnd(b, o)
           /\ \A e : HeaderOK(v, o, e) <=> HeaderOK(b, o, e)
<1>1. o \in o .. o + 3 /\ o + 1 \in o .. o + 3 /\ o + 2 \in o .. o + 3 /\ o + 3 \in o .. o + 3
      /\ o + 2 + 1 = o + 3
  OBVIOUS
<1>2. TypeAt(v, o) = TypeAt(b, o) /\ LengthAt(v, o) = LengthAt(b, o)
  BY <1>1 DEF TypeAt, LengthAt
<1>3. HandleAt(v, o) = HandleAt(b, o)
  BY <1>1 DEF HandleAt, WordAt
<1>4. FormattedEnd(v, o) = FormattedEnd(b, o)
  BY <1>2 DEF FormattedEnd
<1> QED
  BY <1>2, <1>3, <1>4 DEF HeaderOK

\* The same NULs.
LEMMA EndStands ==
    ASSUME NEW b, NEW v, Len(b) \in Nat, Len(v) = Len(b), NEW o,
           FormattedEnd(b, o) \in Nat, FormattedEnd(v, o) = FormattedEnd(b, o),
           NEW k \in Ends(b, o),
           \A x \in FormattedEnd(b, o) .. k + 1 : ByteAt(v, x) = NUL <=> ByteAt(b, x) = NUL
    PROVE  k \in Ends(v, o)
<1> DEFINE f == FormattedEnd(b, o)
<1>1. /\ k \in f .. Len(b) - 2 /\ DoubleNul(b, k) /\ \A j \in f .. k - 1 : ~ DoubleNul(b, j)
      /\ f \in Nat /\ k \in Nat
  BY DEF Ends, EndsStrings
<1>2. \A x \in f .. k + 1 : ByteAt(v, x) = NUL <=> ByteAt(b, x) = NUL
  OBVIOUS
<1>3. FormattedEnd(v, o) = f
  OBVIOUS
<1> HIDE DEF f
<1>4. ASSUME NEW j \in f .. k PROVE DoubleNul(v, j) <=> DoubleNul(b, j)
  <2>1. j \in f .. k + 1 /\ j + 1 \in f .. k + 1
    BY <1>1
  <2> QED
    BY <1>2, <2>1 DEF DoubleNul
<1>5. DoubleNul(v, k) /\ \A j \in f .. k - 1 : ~ DoubleNul(v, j)
  <2>1. k \in f .. k /\ \A j \in f .. k - 1 : j \in f .. k
    BY <1>1
  <2> QED
    BY <1>1, <1>4, <2>1
<1>6. k \in f .. Len(v) - 2 /\ k \in f .. Len(v) - 1
  BY <1>1
<1> QED
  BY <1>3, <1>5, <1>6 DEF Ends, EndsStrings

\* ends lists where the strings of the area from f to the double NUL at k end.
AreaEnds(b, f, k, ends) == IF k = f THEN ends = << >> ELSE NulsAre(b, f, k + 1, ends)

\* The strings of one area in b and in v, by the ends they share.
SharedEnds(b, v, f, k, ends) ==
    /\ Len(ends) \in Nat /\ AreaEnds(v, f, k, ends)
    /\ StringsIn(b, f, k) = StringsAt(b, f, ends)
    /\ StringsIn(v, f, k) = StringsAt(v, f, ends)
    /\ \A n \in 1 .. Len(ends) :
          (\A x \in StartOf(f, ends, n) .. ends[n] - 1 : ByteAt(v, x) = ByteAt(b, x))
             => StringAt(v, f, ends, n) = StringAt(b, f, ends, n)

\* The same NULs make as many strings, each the same when its bytes are.
LEMMA StringsCompared ==
    ASSUME NEW b \in Seq(Byte), NEW v \in Seq(Byte), Len(v) = Len(b),
           NEW f \in Nat, NEW k \in Nat, f <= k, k < Len(b),
           \A x \in f .. k : ByteAt(v, x) = NUL <=> ByteAt(b, x) = NUL,
           NEW ends, AreaEnds(b, f, k, ends)
    PROVE  SharedEnds(b, v, f, k, ends)
<1>1. CASE k = f
  <2>1. ends = << >> /\ Len(ends) = 0
    BY <1>1, EmptySeq DEF AreaEnds
  <2>2. StringsIn(b, f, k) = << >> /\ StringsIn(v, f, k) = << >>
    BY <1>1, NumberedStrings
  <2>3. StringsAt(b, f, ends) = << >> /\ StringsAt(v, f, ends) = << >>
    BY <2>1 DEF StringsAt
  <2> QED
    BY <1>1, <2>1, <2>2, <2>3 DEF AreaEnds, SharedEnds
<1>2. CASE k # f
  <2> DEFINE c == k + 1
  <2>1. NulsAre(b, f, c, ends) /\ c \in Nat /\ c - 1 = k
    BY <1>2 DEF AreaEnds
  <2> HIDE DEF c
  <2>2. /\ ends \in Seq(Nat) /\ Len(ends) \in Nat
        /\ \A n \in 1 .. Len(ends) : ends[n] \in f .. c - 1 /\ ByteAt(b, ends[n]) = NUL
        /\ \A m, n \in 1 .. Len(ends) : m < n => ends[m] < ends[n]
        /\ \A x \in f .. c - 1 : ByteAt(b, x) = NUL => \E n \in 1 .. Len(ends) : ends[n] = x
        /\ c = IF Len(ends) = 0 THEN f ELSE ends[Len(ends)] + 1
    BY <2>1, LenProperties DEF NulsAre
  <2>3. NulsAre(v, f, c, ends)
    BY <2>1, <2>2 DEF NulsAre
  <2>4. StringsIn(b, f, k) = StringsAt(b, f, ends) /\ StringsIn(v, f, k) = StringsAt(v, f, ends)
    <3>1. NulsAre(b, f, k + 1, ends) /\ NulsAre(v, f, k + 1, ends)
      BY <2>1, <2>3 DEF c
    <3> QED
      BY <1>2, <3>1, NumberedStrings
  <2>5. ASSUME NEW n \in 1 .. Len(ends),
               \A x \in StartOf(f, ends, n) .. ends[n] - 1 : ByteAt(v, x) = ByteAt(b, x)
        PROVE  StringAt(v, f, ends, n) = StringAt(b, f, ends, n)
    <3> DEFINE i == StartOf(f, ends, n)
               j == ends[n]
    <3>1. i \in f .. j /\ j \in f .. c - 1
      BY <2>1, StringsAreApart
    <3>2. \A x \in i .. j - 1 : ByteAt(v, x) = ByteAt(b, x)
      BY <2>5
    <3> HIDE DEF i, j
    <3>3. i \in Nat /\ j \in Nat /\ j <= Len(b)
      BY <2>1, <3>1
    <3>4. Slice(v, i, j) = Slice(b, i, j)
      BY <3>2, <3>3, SlicesAgree
    <3> QED
      BY <3>4 DEF StringAt, i, j, StartOf
  <2> QED
    BY <1>2, <2>1, <2>2, <2>3, <2>4, <2>5 DEF AreaEnds, SharedEnds, c
<1> QED
  BY <1>1, <1>2

LEMMA AreaIsListed ==
    ASSUME NEW b \in Seq(Byte), NEW o \in Nat, FormattedEnd(b, o) \in Nat, NEW k \in Ends(b, o)
    PROVE  \E ends : AreaEnds(b, FormattedEnd(b, o), k, ends)
<1> DEFINE f == FormattedEnd(b, o)
           c == k + 1
<1>1. k \in f .. Len(b) - 2 /\ ByteAt(b, k) = NUL /\ f \in Nat /\ Len(b) \in Nat
  BY LenProperties DEF Ends, EndsStrings, DoubleNul
<1>2. c \in Nat /\ c - 1 = k /\ f <= c /\ c <= Len(b) /\ ByteAt(b, c - 1) = NUL
  BY <1>1
<1> HIDE DEF f, c
<1>3. \E ends : NulsAre(b, f, c, ends)
  BY <1>1, <1>2, NulsCanBeListed
<1> QED
  BY <1>3, Zenon DEF AreaEnds, f, c

\* The bytes of a structure decide what it is.
LEMMA StructureStands ==
    ASSUME NEW b \in Seq(Byte), NEW v \in Seq(Byte), Len(v) = Len(b), NEW o \in Nat,
           HeaderOK(b, o, Len(b)), NEW k \in Ends(b, o),
           \A x \in o .. k + 1 : ByteAt(v, x) = ByteAt(b, x)
    PROVE  /\ k \in Nat /\ o + 4 <= k /\ k + 2 <= Len(b)
           /\ k \in Ends(v, o) /\ StructureAt(v, o, k) = StructureAt(b, o, k)
           /\ TypeAt(v, o) = TypeAt(b, o)
           /\ \A e : HeaderOK(v, o, e) <=> HeaderOK(b, o, e)
<1> DEFINE f == FormattedEnd(b, o)
<1>1. f \in Nat /\ o + 4 <= f /\ f <= Len(b) /\ Len(b) \in Nat
  <2>1. Len(b) \in 0 .. Len(b)
    BY LenProperties
  <2> QED
    BY <2>1, HeaderFacts
<1>2. k \in f .. Len(b) - 2
  BY DEF Ends, EndsStrings
<1>3. \A x \in o .. o + 3 : ByteAt(v, x) = ByteAt(b, x)
  BY <1>1, <1>2
<1>4. /\ TypeAt(v, o) = TypeAt(b, o) /\ HandleAt(v, o) = HandleAt(b, o)
      /\ FormattedEnd(v, o) = f
      /\ \A e : HeaderOK(v, o, e) <=> HeaderOK(b, o, e)
  BY <1>3, HeaderStands
<1>5. \A x \in f .. k + 1 : ByteAt(v, x) = ByteAt(b, x)
  BY <1>1, <1>2
<1>6. k \in Ends(v, o)
  BY <1>1, <1>4, <1>5, EndStands
<1>7. Slice(v, o + HeaderSize, f) = Slice(b, o + HeaderSize, f)
  <2> DEFINE i == o + HeaderSize
  <2>1. i \in Nat /\ \A x \in i .. f - 1 : ByteAt(v, x) = ByteAt(b, x)
    BY <1>1, <1>2 DEF HeaderSize
  <2> HIDE DEF f, i
  <2> QED
    BY <1>1, <2>1, SlicesAgree DEF i
<1>8. StringsIn(v, f, k) = StringsIn(b, f, k)
  <2>1. PICK ends : AreaEnds(b, f, k, ends)
    BY <1>1, AreaIsListed
  <2> HIDE DEF f
  <2>2. k \in Nat /\ f <= k /\ k < Len(b) /\ \A x \in f .. k : ByteAt(v, x) = ByteAt(b, x)
    BY <1>1, <1>2, <1>5
  <2>3. SharedEnds(b, v, f, k, ends)
    <3>1. \A x \in f .. k : ByteAt(v, x) = NUL <=> ByteAt(b, x) = NUL
      BY <2>2
    <3> QED
      BY <1>1, <2>1, <2>2, <3>1, StringsCompared
  <2>4. ASSUME NEW n \in 1 .. Len(ends)
        PROVE  \A x \in StartOf(f, ends, n) .. ends[n] - 1 : ByteAt(v, x) = ByteAt(b, x)
    <3>1. k # f
      BY <2>1, EmptySeq DEF AreaEnds
    <3> DEFINE c == k + 1
    <3>2. NulsAre(b, f, c, ends) /\ c \in Nat /\ c - 1 = k
      BY <2>1, <2>2, <3>1 DEF AreaEnds
    <3> HIDE DEF c
    <3>3. StartOf(f, ends, n) \in f .. ends[n] /\ ends[n] \in f .. c - 1
      BY <1>1, <3>2, StringsAreApart
    <3> QED
      BY <1>1, <2>2, <3>2, <3>3
  <2>5. \A n \in 1 .. Len(ends) : StringAt(v, f, ends, n) = StringAt(b, f, ends, n)
    BY <2>3, <2>4 DEF SharedEnds
  <2>6. StringsAt(v, f, ends) = StringsAt(b, f, ends)
    BY <2>5 DEF StringsAt
  <2> QED
    BY <2>3, <2>6 DEF SharedEnds
<1>9. StructureAt(v, o, k) = StructureAt(b, o, k)
  BY <1>4, <1>7, <1>8 DEF StructureAt
<1> QED
  BY <1>1, <1>2, <1>4, <1>6, <1>9

-----------------------------------------------------------------------------
(***************************************************************************)
(* What overwriting a structure makes of it.                               *)
(***************************************************************************)

LEMMA SensitiveFields ==
    \A g \in _SENSITIVE_STRING_FIELDS : g[2] \in Nat /\ (g[1] = 1 => g[2] = 3)
BY DEF _SENSITIVE_STRING_FIELDS

\* The fields of a structure and where they are in the table.
LiesAt(b, o, k, s) ==
    /\ s.type = TypeAt(b, o) /\ s.handle = HandleAt(b, o)
    /\ s.strings = StringsIn(b, FormattedEnd(b, o), k)
    /\ Len(s.formatted) = FormattedEnd(b, o) - (o + 4)
    /\ \A x \in 0 .. Len(s.formatted) - 1 : ByteAt(s.formatted, x) = ByteAt(b, o + 4 + x)
    /\ \A x \in Uuid(s) : x \in 0 .. Len(s.formatted) - 1
    /\ \A x \in Nat : x \in Uuid(s) <=> o + 4 + x \in UuidBytes(b, o)
    /\ Secrets(s) = Chosen(b, o) \cap DOMAIN s.strings

LEMMA StructureFacts ==
    ASSUME NEW b \in Seq(Byte), NEW o \in Nat, HeaderOK(b, o, Len(b)), NEW k,
           NEW s, s = StructureAt(b, o, k)
    PROVE  LiesAt(b, o, k, s)
<1> DEFINE f == FormattedEnd(b, o)
           i == o + HeaderSize
           w == Slice(b, i, f)
<1>1. f \in Nat /\ o + 4 <= f /\ f <= Len(b) /\ Len(b) \in Nat /\ i = o + 4 /\ i \in Nat
  <2>1. Len(b) \in 0 .. Len(b)
    BY LenProperties
  <2> QED
    BY <2>1, HeaderFacts DEF HeaderSize
<1>2. /\ s.type = TypeAt(b, o) /\ s.handle = HandleAt(b, o)
      /\ s.strings = StringsIn(b, f, k) /\ s.formatted = w
  BY DEF StructureAt
<1> HIDE DEF f, i
<1>3. /\ Len(w) = f - i
      /\ \A x \in 0 .. f - i - 1 : ByteAt(w, x) = ByteAt(b, i + x)
  <2>0. i \in Nat /\ f \in Nat /\ f <= Len(b)
    BY <1>1
  <2>1. /\ Len(Slice(b, i, f)) = (IF i <= f THEN f - i ELSE 0)
        /\ \A x \in 0 .. f - i - 1 : ByteAt(Slice(b, i, f), x) = ByteAt(b, i + x)
    BY <2>0, SliceBytes
  <2> QED
    BY <1>1, <2>1
<1> HIDE DEF w
<1>4. Uuid(s) = IF TypeAt(b, o) = 1 /\ f - i >= 20 THEN 4 .. 19 ELSE {}
  BY <1>2, <1>3 DEF Uuid
<1>5. UuidBytes(b, o) = IF TypeAt(b, o) = 1 /\ f >= o + 24 THEN o + 8 .. o + 23 ELSE {}
  BY DEF UuidBytes, f
<1>6. f - i >= 20 <=> f >= o + 24
  BY <1>1
<1>7. \A x \in Uuid(s) : x \in 0 .. Len(s.formatted) - 1
  <2> SUFFICES ASSUME NEW x \in Uuid(s) PROVE x \in 0 .. Len(s.formatted) - 1
    OBVIOUS
  <2>1. x \in 4 .. 19 /\ f - i >= 20
    BY <1>4
  <2>2. Len(s.formatted) = f - i
    BY <1>2, <1>3
  <2> QED
    BY <1>1, <2>1, <2>2
<1>8. \A x \in Nat : x \in Uuid(s) <=> o + 4 + x \in UuidBytes(b, o)
  BY <1>4, <1>5, <1>6
<1>9. Secrets(s) = Chosen(b, o) \cap DOMAIN s.strings
  <2> DEFINE G == {g \in _SENSITIVE_STRING_FIELDS : g[1] = s.type /\ g[2] < Len(s.formatted)}
             H == {g \in _SENSITIVE_STRING_FIELDS :
                      g[1] = TypeAt(b, o) /\ o + HeaderSize + g[2] < FormattedEnd(b, o)}
  <2>1. ASSUME NEW g \in _SENSITIVE_STRING_FIELDS
        PROVE  /\ g[2] < Len(s.formatted) <=> o + HeaderSize + g[2] < FormattedEnd(b, o)
               /\ g[2] < Len(s.formatted)
                    => ByteAt(s.formatted, g[2]) = ByteAt(b, o + HeaderSize + g[2])
    <3> DEFINE y == g[2]
    <3>1. y \in Nat
      BY SensitiveFields
    <3> HIDE DEF y
    <3>2. y < f - i <=> i + y < f
      BY <1>1, <3>1
    <3>3. y < f - i => ByteAt(w, y) = ByteAt(b, i + y)
      BY <1>1, <1>3, <3>1
    <3> QED
      BY <1>2, <1>3, <3>2, <3>3 DEF y, i, f
  <2>2. G = H
    BY <1>2, <2>1
  <2>3. \A g \in G : ByteAt(s.formatted, g[2]) = ByteAt(b, o + HeaderSize + g[2])
    BY <2>1
  <2>4. Secrets(s) = {ByteAt(s.formatted, g[2]) : g \in G} \cap DOMAIN s.strings
    BY Zenon DEF Secrets
  <2>5. Chosen(b, o) = {ByteAt(b, o + HeaderSize + g[2]) : g \in H}
    BY Zenon DEF Chosen
  <2> HIDE DEF G, H
  <2>6. {ByteAt(s.formatted, g[2]) : g \in G} = {ByteAt(b, o + HeaderSize + g[2]) : g \in G}
    BY <2>3
  <2> QED
    BY <2>2, <2>4, <2>5, <2>6
<1> QED
  BY <1>1, <1>2, <1>3, <1>7, <1>8, <1>9 DEF LiesAt, f

\* What sensitive fields refer to is overwritten in the structure at o.
IsClean(b, o) ==
    /\ \A x \in UuidBytes(b, o) : ByteAt(b, x) = 0
    /\ \A x \in StringBytes(b, o) : ByteAt(b, x) = A

\* Overwriting changes nothing there.
LEMMA CleanIsFixed ==
    ASSUME NEW b \in Seq(Byte), NEW o, IsClean(b, o)
    PROVE  Overwrite(b, o) = b
<1> DEFINE v == Overwrite(b, o)
<1>1. /\ v \in Seq(Byte) /\ Len(v) = Len(b)
      /\ \A x \in 0 .. Len(b) - 1 :
            ByteAt(v, x) = IF x \in UuidBytes(b, o) THEN 0
                           ELSE IF x \in StringBytes(b, o) THEN A ELSE ByteAt(b, x)
  BY OverwriteBytes
<1> HIDE DEF v
<1>2. \A x \in 0 .. Len(v) - 1 : ByteAt(v, x) = ByteAt(b, x)
  BY <1>1 DEF IsClean
<1>3. v = b
  BY <1>1, <1>2, SameBytes
<1> QED
  BY <1>3 DEF v

LEMMA OneList ==
    ASSUME NEW b, NEW f \in Nat, NEW c \in Nat, NEW ends, NulsAre(b, f, c, ends),
           NEW others, NulsAre(b, f, c, others)
    PROVE  ends = others
<1>1. /\ Cardinality(NulsIn(b, f, c)) = Len(ends)
      /\ \A n \in 1 .. Len(ends) : Nth(NulsIn(b, f, c), n) = ends[n]
  BY CountFinds
<1>2. /\ Cardinality(NulsIn(b, f, c)) = Len(others)
      /\ \A n \in 1 .. Len(others) : Nth(NulsIn(b, f, c), n) = others[n]
  BY CountFinds
<1>3. ends \in Seq(Nat) /\ others \in Seq(Nat)
  BY DEF NulsAre
<1> QED
  BY <1>1, <1>2, <1>3, SeqEqual

\* The ends of a terminated area are those the scan has found.
LEMMA FoundArea ==
    ASSUME NEW b, NEW o, FormattedEnd(b, o) \in Nat, NEW k \in Ends(b, o),
           NEW c, NEW ends, Found(b, o, c, ends)
    PROVE  /\ AreaEnds(b, FormattedEnd(b, o), k, ends)
           /\ c = IF k = FormattedEnd(b, o) THEN FormattedEnd(b, o) ELSE k + 1
           /\ Scan(b, o).cursor = k + 2
<1> DEFINE f == FormattedEnd(b, o)
<1>1. /\ NulsAre(b, f, c, ends) /\ c = (IF k = f THEN f ELSE k + 1)
      /\ Scan(b, o).cursor = k + 2 /\ f \in Nat
  BY DEF Found
<1> HIDE DEF f
<1>2. CASE k = f
  <2>1. NulsAre(b, f, f, ends)
    BY <1>1, <1>2
  <2>2. NulsAre(b, f, f, << >>)
    BY <1>1, NothingCollected
  <2>3. ends = << >>
    BY <1>1, <2>1, <2>2, OneList
  <2> QED
    BY <1>1, <1>2, <2>3 DEF AreaEnds, f
<1>3. CASE k # f
  BY <1>1, <1>3 DEF AreaEnds, f
<1> QED
  BY <1>2, <1>3

\* The sensitive fields of a structure are not among what is overwritten.
LEMMA ChosenStands ==
    ASSUME NEW b \in Seq(Byte), NEW v, NEW o \in Nat, FormattedEnd(b, o) \in Nat,
           TypeAt(v, o) = TypeAt(b, o), FormattedEnd(v, o) = FormattedEnd(b, o),
           \A x \in o .. FormattedEnd(b, o) - 1 :
              x \notin UuidBytes(b, o) => ByteAt(v, x) = ByteAt(b, x)
    PROVE  Chosen(v, o) = Chosen(b, o)
<1> DEFINE G == {g \in _SENSITIVE_STRING_FIELDS :
                    g[1] = TypeAt(b, o) /\ o + HeaderSize + g[2] < FormattedEnd(b, o)}
<1>1. ASSUME NEW g \in G
      PROVE  ByteAt(v, o + HeaderSize + g[2]) = ByteAt(b, o + HeaderSize + g[2])
  <2> DEFINE x == o + HeaderSize + g[2]
             f == FormattedEnd(b, o)
  <2>1. g[2] \in Nat /\ (g[1] = 1 => g[2] = 3) /\ g[1] = TypeAt(b, o) /\ x < f
    BY SensitiveFields
  <2>2. x \in o .. f - 1 /\ (TypeAt(b, o) = 1 => x = o + 7)
    BY <2>1 DEF HeaderSize
  <2>3. \A y \in UuidBytes(b, o) : TypeAt(b, o) = 1 /\ y \in o + 8 .. o + 23
    BY DEF UuidBytes
  <2> HIDE DEF x, f
  <2>4. x \notin UuidBytes(b, o)
    BY <2>2, <2>3
  <2> QED
    BY <2>2, <2>4 DEF x, f
<1>2. /\ Chosen(b, o) = {ByteAt(b, o + HeaderSize + g[2]) : g \in G}
      /\ Chosen(v, o) = {ByteAt(v, o + HeaderSize + g[2]) : g \in G}
  BY Zenon DEF Chosen
<1> HIDE DEF G
<1> QED
  BY <1>1, <1>2

\* The same area and the same indices: the same bytes to overwrite.
LEMMA AreaStands ==
    ASSUME NEW b \in Seq(Byte), NEW v \in Seq(Byte), Len(v) = Len(b), NEW o \in Nat,
           FormattedEnd(b, o) \in 0 .. Len(b), FormattedEnd(v, o) = FormattedEnd(b, o),
           NEW k \in Ends(b, o), k \in Ends(v, o), Chosen(v, o) = Chosen(b, o),
           \A x \in FormattedEnd(b, o) .. k : ByteAt(v, x) = NUL <=> ByteAt(b, x) = NUL
    PROVE  StringBytes(v, o) = StringBytes(b, o)
<1> DEFINE f == FormattedEnd(b, o)
<1>1. Len(b) \in Nat /\ f \in Nat /\ f <= Len(b) /\ FormattedEnd(v, o) \in 0 .. Len(v)
  BY LenProperties
<1>2. PICK c, ends : Found(b, o, c, ends)
  BY ScanFinds
<1>3. PICK c2, ends2 : Found(v, o, c2, ends2)
  BY <1>1, ScanFinds
<1>4. AreaEnds(b, f, k, ends)
  BY <1>1, <1>2, FoundArea
<1>5. AreaEnds(v, f, k, ends2)
  <2>1. FormattedEnd(v, o) \in Nat
    BY <1>1
  <2>2. AreaEnds(v, FormattedEnd(v, o), k, ends2)
    BY <1>3, <2>1, FoundArea
  <2> QED
    BY <2>2
<1>6. k \in Nat /\ f <= k /\ k < Len(b)
  BY <1>1 DEF Ends, EndsStrings
<1>7. AreaEnds(v, f, k, ends)
  <2>1. \A x \in f .. k : ByteAt(v, x) = NUL <=> ByteAt(b, x) = NUL
    OBVIOUS
  <2> HIDE DEF f
  <2>2. SharedEnds(b, v, f, k, ends)
    BY <1>1, <1>4, <1>6, <2>1, StringsCompared
  <2> QED
    BY <2>2 DEF SharedEnds
<1>8. ends2 = ends
  <2>1. CASE k = f
    BY <1>5, <1>7, <2>1 DEF AreaEnds
  <2>2. CASE k # f
    <3> DEFINE d == k + 1
    <3>1. d \in Nat /\ NulsAre(v, f, d, ends) /\ NulsAre(v, f, d, ends2)
      BY <1>5, <1>6, <1>7, <2>2 DEF AreaEnds
    <3> HIDE DEF d, f
    <3> QED
      BY <1>1, <3>1, OneList
  <2> QED
    BY <2>1, <2>2
<1>9. Scan(b, o).spans = SpansAt(f, ends) /\ Scan(v, o).spans = SpansAt(f, ends)
  BY <1>2, <1>3, <1>8 DEF Found
<1>10. Len(ends) \in Nat
  BY <1>2, LenProperties DEF Found, NulsAre
<1> HIDE DEF f
<1>11. \A x : x \in StringBytes(b, o) <=>
                \E n \in Chosen(b, o) \cap (1 .. Len(ends)) :
                   x \in StartOf(f, ends, n) .. ends[n] - 1
  BY <1>9, <1>10, StringBytesAre
<1>12. \A x : x \in StringBytes(v, o) <=>
                \E n \in Chosen(v, o) \cap (1 .. Len(ends)) :
                   x \in StartOf(f, ends, n) .. ends[n] - 1
  BY <1>9, <1>10, StringBytesAre
<1>13. \A x : x \in StringBytes(v, o) <=> x \in StringBytes(b, o)
  BY <1>11, <1>12
<1> QED
  BY <1>13

\* Overwriting a structure leaves it the same but for its secrets, and clean.
LEMMA ScrubbedStructure ==
    ASSUME NEW b \in Seq(Byte), NEW o \in Nat, HeaderOK(b, o, Len(b)), NEW k \in Ends(b, o),
           NEW v, v = Overwrite(b, o)
    PROVE  /\ TypeAt(v, o) = TypeAt(b, o)
           /\ \A e : HeaderOK(v, o, e) <=> HeaderOK(b, o, e)
           /\ k \in Ends(v, o)
           /\ \A x \in 0 .. Len(b) - 1 : x < o \/ x > k => ByteAt(v, x) = ByteAt(b, x)
           /\ SameStructure(StructureAt(b, o, k), StructureAt(v, o, k))
           /\ IsClean(v, o)
<1> DEFINE f == FormattedEnd(b, o)
           s == StructureAt(b, o, k)
           t == StructureAt(v, o, k)
<1>1. f \in Nat /\ o + 4 <= f /\ f <= Len(b) /\ Len(b) \in Nat
  <2>1. Len(b) \in 0 .. Len(b)
    BY LenProperties
  <2> QED
    BY <2>1, HeaderFacts
<1>2. PICK c, ends : Found(b, o, c, ends)
  BY <1>1, ScanFinds
<1>3. /\ v \in Seq(Byte) /\ Len(v) = Len(b)
      /\ \A x \in 0 .. f - 1 : x \notin UuidBytes(b, o) => ByteAt(v, x) = ByteAt(b, x)
      /\ \A x \in UuidBytes(b, o) : x \in o + 8 .. f - 1 /\ ByteAt(v, x) = 0
      /\ \A x \in f .. Len(b) - 1 :
            /\ x \in StringBytes(b, o) => ByteAt(v, x) = A
            /\ x \notin StringBytes(b, o) => ByteAt(v, x) = ByteAt(b, x)
            /\ ByteAt(v, x) = NUL <=> ByteAt(b, x) = NUL
      /\ \A x \in StringBytes(b, o) : x \in f .. c - 2
  BY <1>2, ScrubKeeps
<1>4. AreaEnds(b, f, k, ends) /\ c = (IF k = f THEN f ELSE k + 1)
  BY <1>1, <1>2, FoundArea
<1>5. k \in f .. Len(b) - 2
  BY DEF Ends, EndsStrings
<1>6. \A x \in o .. o + 3 : ByteAt(v, x) = ByteAt(b, x)
  <2> SUFFICES ASSUME NEW x \in o .. o + 3 PROVE ByteAt(v, x) = ByteAt(b, x)
    OBVIOUS
  <2>1. x \in 0 .. f - 1 /\ x \notin UuidBytes(b, o)
    BY <1>1, <1>3
  <2> QED
    BY <1>3, <2>1
<1>7. /\ TypeAt(v, o) = TypeAt(b, o) /\ HandleAt(v, o) = HandleAt(b, o)
      /\ FormattedEnd(v, o) = f
      /\ \A e : HeaderOK(v, o, e) <=> HeaderOK(b, o, e)
  BY <1>6, HeaderStands
<1>8. k \in Ends(v, o)
  <2>1. \A x \in f .. k + 1 : ByteAt(v, x) = NUL <=> ByteAt(b, x) = NUL
    BY <1>1, <1>3, <1>5
  <2> QED
    BY <1>1, <1>3, <1>7, <2>1, EndStands
<1>9. \A x \in 0 .. Len(b) - 1 : x < o \/ x > k => ByteAt(v, x) = ByteAt(b, x)
  <2> SUFFICES ASSUME NEW x \in 0 .. Len(b) - 1, x < o \/ x > k
               PROVE  ByteAt(v, x) = ByteAt(b, x)
    OBVIOUS
  <2>1. CASE x < f
    <3>1. x \in 0 .. f - 1 /\ x \notin UuidBytes(b, o)
      BY <1>1, <1>3, <1>5, <2>1
    <3> QED
      BY <1>3, <3>1
  <2>2. CASE ~ (x < f)
    <3>1. x \in f .. Len(b) - 1 /\ x \notin StringBytes(b, o)
      BY <1>1, <1>3, <1>4, <1>5, <2>2
    <3> QED
      BY <1>3, <3>1
  <2> QED
    BY <2>1, <2>2
<1>10. SharedEnds(b, v, f, k, ends)
  <2>1. k \in Nat /\ f <= k /\ k < Len(b)
    BY <1>1, <1>5
  <2>2. \A x \in f .. k : ByteAt(v, x) = NUL <=> ByteAt(b, x) = NUL
    BY <1>1, <1>3, <2>1
  <2> HIDE DEF f
  <2> QED
    BY <1>1, <1>3, <1>4, <2>1, <2>2, StringsCompared
<1>11. Chosen(v, o) = Chosen(b, o)
  <2>1. \A x \in o .. f - 1 : x \notin UuidBytes(b, o) => ByteAt(v, x) = ByteAt(b, x)
    BY <1>1, <1>3
  <2> QED
    BY <1>1, <1>7, <2>1, ChosenStands
<1>12. /\ s.type = TypeAt(b, o) /\ s.handle = HandleAt(b, o) /\ s.strings = StringsIn(b, f, k)
       /\ Len(s.formatted) = f - (o + 4)
       /\ \A x \in 0 .. Len(s.formatted) - 1 : ByteAt(s.formatted, x) = ByteAt(b, o + 4 + x)
       /\ \A x \in Nat : x \in Uuid(s) <=> o + 4 + x \in UuidBytes(b, o)
       /\ Secrets(s) = Chosen(b, o) \cap DOMAIN s.strings
  <2> HIDE DEF s
  <2>1. s = StructureAt(b, o, k)
    BY DEF s
  <2>2. LiesAt(b, o, k, s)
    BY <2>1, StructureFacts
  <2> QED
    BY <2>2 DEF LiesAt, f
<1>13. /\ t.type = TypeAt(v, o) /\ t.handle = HandleAt(v, o) /\ t.strings = StringsIn(v, f, k)
       /\ Len(t.formatted) = f - (o + 4)
       /\ \A x \in 0 .. Len(t.formatted) - 1 : ByteAt(t.formatted, x) = ByteAt(v, o + 4 + x)
  <2>1. HeaderOK(v, o, Len(v)) /\ v \in Seq(Byte)
    BY <1>3, <1>7
  <2> HIDE DEF f, t
  <2>2. t = StructureAt(v, o, k)
    BY DEF t
  <2>3. LiesAt(v, o, k, t)
    BY <2>1, <2>2, StructureFacts
  <2> QED
    BY <1>7, <2>3 DEF LiesAt
<1>14. NulsAre(b, f, c, ends) /\ Scan(b, o).spans = SpansAt(f, ends) /\ Len(ends) \in Nat
  BY <1>2, LenProperties DEF Found, NulsAre
<1>15. \A x : x \in StringBytes(b, o) <=>
                \E n \in Chosen(b, o) \cap (1 .. Len(ends)) :
                   x \in StartOf(f, ends, n) .. ends[n] - 1
  BY <1>14, StringBytesAre
<1> HIDE DEF s, t, f
<1>16. SameStructure(s, t)
  <2>1. << t.type, t.handle >> = << s.type, s.handle >> /\ Len(t.formatted) = Len(s.formatted)
    BY <1>7, <1>12, <1>13
  <2>2. ASSUME NEW x \in 0 .. Len(s.formatted) - 1, x \notin Uuid(s)
        PROVE  ByteAt(t.formatted, x) = ByteAt(s.formatted, x)
    <3>1. o + 4 + x \in 0 .. f - 1 /\ o + 4 + x \notin UuidBytes(b, o)
      BY <1>1, <1>12, <2>2
    <3>2. ByteAt(v, o + 4 + x) = ByteAt(b, o + 4 + x)
      BY <1>3, <3>1
    <3> QED
      BY <1>12, <1>13, <3>2
  <2>3. /\ s.strings = StringsAt(b, f, ends) /\ t.strings = StringsAt(v, f, ends)
        /\ Len(ends) \in Nat
    BY <1>10, <1>12, <1>13 DEF SharedEnds
  <2>4. /\ DOMAIN s.strings = 1 .. Len(ends) /\ DOMAIN t.strings = 1 .. Len(ends)
        /\ \A n \in 1 .. Len(ends) : /\ s.strings[n] = StringAt(b, f, ends, n)
                                     /\ t.strings[n] = StringAt(v, f, ends, n)
    BY <2>3 DEF StringsAt
  <2>5. Len(t.strings) = Len(s.strings)
    <3>1. /\ s.strings \in [1 .. Len(ends) -> {s.strings[n] : n \in 1 .. Len(ends)}]
          /\ t.strings \in [1 .. Len(ends) -> {t.strings[n] : n \in 1 .. Len(ends)}]
      BY <2>3, <2>4 DEF StringsAt
    <3>2. Len(s.strings) = Len(ends)
      BY <2>3, <3>1, FunctionIsSeq
    <3>3. Len(t.strings) = Len(ends)
      BY <2>3, <3>1, FunctionIsSeq
    <3> QED
      BY <3>2, <3>3
  <2>6. ASSUME NEW n \in DOMAIN s.strings \ Secrets(s)
        PROVE  t.strings[n] = s.strings[n]
    <3>1. n \in 1 .. Len(ends) /\ n \notin Chosen(b, o)
      BY <1>12, <2>4
    <3>2. /\ c \in Nat /\ c - 1 <= k /\ k < Len(b) /\ f \in Nat
          /\ NulsAre(b, f, c, ends)
      BY <1>1, <1>4, <1>5, <1>14
    <3>3. /\ StartOf(f, ends, n) \in f .. ends[n] /\ ends[n] \in f .. c - 1
          /\ Apart(f, ends, n)
      BY <3>1, <3>2, StringsAreApart
    <3>4. ASSUME NEW x \in StartOf(f, ends, n) .. ends[n] - 1
          PROVE  ByteAt(v, x) = ByteAt(b, x)
      <4>1. x \in f .. Len(b) - 1
        BY <1>1, <1>5, <3>2, <3>3, SMTT(30)
      <4>2. x \notin StringBytes(b, o)
        BY <1>15, <3>1, <3>3 DEF Apart
      <4> QED
        BY <1>3, <4>1, <4>2
    <3>5. StringAt(v, f, ends, n) = StringAt(b, f, ends, n)
      BY <1>10, <3>1, <3>4 DEF SharedEnds
    <3> QED
      BY <2>4, <3>1, <3>5
  <2> QED
    BY <2>1, <2>2, <2>5, <2>6, Zenon DEF SameStructure
<1>17. IsClean(v, o)
  <2>1. UuidBytes(v, o) = UuidBytes(b, o)
    BY <1>7 DEF UuidBytes, f
  <2>2. StringBytes(v, o) = StringBytes(b, o)
    <3>1. \A x \in f .. k : ByteAt(v, x) = NUL <=> ByteAt(b, x) = NUL
      BY <1>1, <1>3, <1>5
    <3> QED
      BY <1>1, <1>3, <1>7, <1>8, <1>11, <3>1, AreaStands DEF f
  <2>3. ASSUME NEW x \in StringBytes(b, o) PROVE ByteAt(v, x) = A
    <3>1. x \in f .. Len(b) - 1
      BY <1>1, <1>3, <1>4, <1>5
    <3> QED
      BY <1>3, <3>1
  <2> QED
    BY <1>3, <2>1, <2>2, <2>3 DEF IsClean
<1> QED
  BY <1>7, <1>8, <1>9, <1>16, <1>17 DEF s, t

\* A string of placeholders is stripped of nothing else.
LEMMA StripPlaceholders ==
    ASSUME NEW w \in Seq(Byte), \A i \in 1 .. Len(w) : w[i] = A
    PROVE  \A c \in DOMAIN Strip(w) : Strip(w)[c] = A
<1>1. Len(w) \in Nat
  BY LenProperties
<1>2. CASE Len(w) = 0
  <2>1. Strip(w) = << >>
    BY <1>2 DEF Strip
  <2> QED
    BY <2>1
<1>3. CASE Len(w) # 0
  <2> DEFINE Ink(i) == w[i] \notin Whitespace
             P(i) == Ink(i) /\ \A j \in 1 .. i - 1 : ~ Ink(j)
             Q(i) == Ink(i) /\ \A j \in i + 1 .. Len(w) : ~ Ink(j)
             first == CHOOSE i \in 1 .. Len(w) : P(i)
             last == CHOOSE i \in 1 .. Len(w) : Q(i)
  <2>1. \A i \in 1 .. Len(w) : Ink(i)
    BY DEF Whitespace, A
  <2>2. 1 \in 1 .. Len(w) /\ Len(w) \in 1 .. Len(w)
    BY <1>1, <1>3
  <2>3. P(1) /\ Q(Len(w))
    BY <1>1, <2>1, <2>2
  <2>4. first \in 1 .. Len(w) /\ last \in 1 .. Len(w)
    BY <2>2, <2>3
  <2>5. Strip(w) = SubSeq(w, first, last)
    BY <2>1, <2>2 DEF Strip
  <2> HIDE DEF first, last
  <2>6. first \in Int /\ last \in Int /\ \A i \in first .. last : w[i] = A /\ w[i] \in {A}
    BY <1>1, <2>4
  <2>7. SubSeq(w, first, last) \in Seq({A})
    BY <2>6, SubSeqProperties
  <2>8. \A c \in 1 .. Len(Strip(w)) : Strip(w)[c] \in {A}
    BY <2>5, <2>7, ElementOfSeq
  <2>9. DOMAIN Strip(w) = 1 .. Len(Strip(w))
    BY <2>5, <2>7, LenProperties
  <2> QED
    BY <2>8, <2>9
<1> QED
  BY <1>2, <1>3

\* What is clean in the table holds no secrets for a reader of it.
LEMMA CleanHasNoSecrets ==
    ASSUME NEW b \in Seq(Byte), NEW o \in Nat, HeaderOK(b, o, Len(b)), NEW k \in Ends(b, o),
           IsClean(b, o)
    PROVE  NoSecrets(StructureAt(b, o, k))
<1> DEFINE f == FormattedEnd(b, o)
           s == StructureAt(b, o, k)
<1>1. f \in Nat /\ o + 4 <= f /\ f <= Len(b) /\ Len(b) \in Nat
  <2>1. Len(b) \in 0 .. Len(b)
    BY LenProperties
  <2> QED
    BY <2>1, HeaderFacts
<1>2. PICK c, ends : Found(b, o, c, ends)
  BY <1>1, ScanFinds
<1>3. /\ c \in f .. Len(b) /\ NulsAre(b, f, c, ends) /\ Scan(b, o).spans = SpansAt(f, ends)
      /\ Len(ends) \in Nat
  BY <1>2, LenProperties DEF Found, NulsAre
<1>4. \A x : x \in StringBytes(b, o) <=>
               \E n \in Chosen(b, o) \cap (1 .. Len(ends)) :
                  x \in StartOf(f, ends, n) .. ends[n] - 1
  BY <1>3, StringBytesAre
<1>5. s.strings = StringsAt(b, f, ends)
  <2>1. AreaEnds(b, f, k, ends)
    BY <1>1, <1>2, FoundArea
  <2>2. k \in f .. Len(b) - 2
    BY DEF Ends, EndsStrings
  <2>3. k \in Nat /\ f <= k /\ k < Len(b)
    BY <1>1, <2>2
  <2> HIDE DEF f
  <2>4. SharedEnds(b, b, f, k, ends)
    BY <1>1, <2>1, <2>3, StringsCompared
  <2> QED
    BY <2>4 DEF SharedEnds, StructureAt, f
<1>6. LiesAt(b, o, k, s)
  BY StructureFacts
<1> HIDE DEF s, f
<1>7. ASSUME NEW n \in Secrets(s)
      PROVE  \A j \in DOMAIN s.strings[n] : s.strings[n][j] = A
  <2>1. n \in Chosen(b, o) /\ n \in 1 .. Len(ends) /\ s.strings[n] = StringAt(b, f, ends, n)
    BY <1>5, <1>6 DEF LiesAt, StringsAt
  <2> DEFINE i == StartOf(f, ends, n)
             j == ends[n]
             w == Slice(b, i, j)
  <2>2. i \in f .. j /\ j \in f .. c - 1
    <3>1. c \in Nat
      BY <1>1, <1>3
    <3> QED
      BY <1>1, <1>3, <2>1, <3>1, StringsAreApart
  <2>3. \A x \in i .. j - 1 : ByteAt(b, x) = A
    BY <1>4, <2>1 DEF IsClean
  <2>4. s.strings[n] = Strip(w)
    BY <2>1 DEF StringAt, StartOf
  <2> HIDE DEF i, j
  <2>5. i \in Nat /\ j \in Nat /\ j <= Len(b) /\ i <= j
    BY <1>1, <1>3, <2>2
  <2>6. /\ w \in Seq(Byte) /\ Len(w) = (IF i <= j THEN j - i ELSE 0)
        /\ \A x \in 0 .. j - i - 1 : ByteAt(w, x) = ByteAt(b, i + x)
    BY <2>5, SliceBytes
  <2> HIDE DEF w
  <2>7. ASSUME NEW x \in 1 .. Len(w) PROVE w[x] = A
    <3>1. x - 1 \in 0 .. j - i - 1 /\ i + (x - 1) \in i .. j - 1 /\ x - 1 + 1 = x
      BY <2>5, <2>6
    <3>2. ByteAt(w, x - 1) = A
      BY <2>3, <2>6, <3>1
    <3> QED
      BY <3>1, <3>2 DEF ByteAt
  <2>8. \A y \in DOMAIN Strip(w) : Strip(w)[y] = A
    BY <2>6, <2>7, StripPlaceholders
  <2> QED
    BY <2>4, <2>8
<1>8. ASSUME NEW x \in Uuid(s)
      PROVE  ByteAt(s.formatted, x) = 0
  <2>1. x \in 0 .. Len(s.formatted) - 1 /\ ByteAt(s.formatted, x) = ByteAt(b, o + 4 + x)
    BY <1>6 DEF LiesAt
  <2>2. x \in Nat
    BY DEF Uuid
  <2>3. o + 4 + x \in UuidBytes(b, o)
    BY <1>6, <2>2 DEF LiesAt
  <2> QED
    BY <2>1, <2>3 DEF IsClean
<1>9. NoSecrets(s)
  BY <1>7, <1>8 DEF NoSecrets
<1> QED
  BY <1>9 DEF s

-----------------------------------------------------------------------------
(***************************************************************************)
(* What two calls give that read the same but for secrets.                 *)
(***************************************************************************)

\* A structure has a formatted area of some length and a sequence of strings.
IsStructure(s) == Len(s.formatted) \in Nat /\ DOMAIN s.strings = 1 .. Len(s.strings)
AreStructures(ss) == \E S : ss \in Seq(S) /\ \A s \in S : IsStructure(s)

LEMMA StructsAreStructures ==
    ASSUME NEW b, NEW s \in Structs(b)
    PROVE  IsStructure(s)
<1>1. PICK o \in Nat, k \in Nat : FormattedEnd(b, o) \in Nat /\ s = StructureAt(b, o, k)
  BY DEF Structs
<1> DEFINE f == FormattedEnd(b, o)
           nuls == IF k = f THEN {} ELSE {i \in f .. k : ByteAt(b, i) = NUL}
           N == Cardinality(nuls)
<1>2. f \in Nat
  BY <1>1
<1>3. s.strings = Numbered(b, f, nuls)
  <2>1. s.strings = StringsIn(b, f, k)
    BY <1>1 DEF StructureAt
  <2> QED
    BY <2>1, StringsInIsNumbered
<1>4. s.formatted = SubSeq(b, o + HeaderSize + 1, f)
  BY <1>1 DEF StructureAt, Slice
<1> HIDE DEF f
<1>5. IsFiniteSet(nuls)
  <2>1. IsFiniteSet(f .. k) /\ nuls \subseteq f .. k
    BY <1>2, FS_Interval
  <2> QED
    BY <2>1, FS_Subset
<1> HIDE DEF nuls
<1>6. N \in Nat
  BY <1>5, FS_CardinalityType
<1>7. DOMAIN s.strings = 1 .. Len(s.strings)
  <2> DEFINE g == s.strings
  <2>1. \E e : g = [n \in 1 .. N |-> e[n]]
    BY <1>3, Zenon DEF Numbered
  <2> HIDE DEF g, N
  <2>2. g \in [1 .. N -> {g[n] : n \in 1 .. N}]
    BY <2>1
  <2>3. Len(g) = N /\ DOMAIN g = 1 .. N
    BY <1>6, <2>2, FunctionIsSeq
  <2> QED
    BY <2>3 DEF g
<1>8. Len(s.formatted) \in Nat
  <2> DEFINE i == o + HeaderSize + 1
             S == {b[x] : x \in i .. f}
  <2>1. i \in Int /\ f \in Int /\ \A x \in i .. f : b[x] \in S
    BY <1>2 DEF HeaderSize
  <2> HIDE DEF i, S
  <2>2. SubSeq(b, i, f) \in Seq(S)
    BY <2>1, SubSeqProperties
  <2>3. Len(SubSeq(b, i, f)) \in Nat
    BY <2>2, LenProperties
  <2> QED
    BY <1>4, <2>3 DEF i
<1> QED
  BY <1>7, <1>8 DEF IsStructure

LEMMA SameStructureRefl ==
    ASSUME NEW s
    PROVE  SameStructure(s, s)
BY DEF SameStructure

\* A second look may ignore what the first did: the indices of secrets are not secret.
LEMMA SameStructureTrans ==
    ASSUME NEW s, NEW t, NEW u, IsStructure(s), IsStructure(t), IsStructure(u),
           SameStructure(s, t), SameStructure(t, u)
    PROVE  SameStructure(s, u)
<1>1. /\ t.type = s.type /\ t.handle = s.handle /\ Len(t.formatted) = Len(s.formatted)
      /\ \A x \in 0 .. Len(s.formatted) - 1 :
            x \in Uuid(s) \/ ByteAt(t.formatted, x) = ByteAt(s.formatted, x)
      /\ Len(t.strings) = Len(s.strings)
      /\ \A n \in DOMAIN s.strings \ Secrets(s) : t.strings[n] = s.strings[n]
  BY DEF SameStructure
<1>2. /\ u.type = t.type /\ u.handle = t.handle /\ Len(u.formatted) = Len(t.formatted)
      /\ \A x \in 0 .. Len(t.formatted) - 1 :
            x \in Uuid(t) \/ ByteAt(u.formatted, x) = ByteAt(t.formatted, x)
      /\ Len(u.strings) = Len(t.strings)
      /\ \A n \in DOMAIN t.strings \ Secrets(t) : u.strings[n] = t.strings[n]
  BY DEF SameStructure
<1>3. Uuid(t) = Uuid(s)
  BY <1>1 DEF Uuid
<1>4. DOMAIN t.strings = DOMAIN s.strings
  BY <1>1 DEF IsStructure
<1>5. Secrets(t) = Secrets(s)
  <2> DEFINE G == {g \in _SENSITIVE_STRING_FIELDS : g[1] = s.type /\ g[2] < Len(s.formatted)}
  <2>1. ASSUME NEW g \in G
        PROVE  ByteAt(t.formatted, g[2]) = ByteAt(s.formatted, g[2])
    <3> DEFINE x == g[2]
    <3>1. x \in Nat /\ (s.type = 1 => x = 3) /\ x < Len(s.formatted)
      BY SensitiveFields
    <3> HIDE DEF x
    <3>2. x \in 0 .. Len(s.formatted) - 1 /\ x \notin Uuid(s)
      BY <3>1 DEF IsStructure, Uuid
    <3> QED
      BY <1>1, <3>2 DEF x
  <2>2. Secrets(s) = {ByteAt(s.formatted, g[2]) : g \in G} \cap DOMAIN s.strings
    BY Zenon DEF Secrets
  <2>3. Secrets(t) = {ByteAt(t.formatted, g[2]) : g \in G} \cap DOMAIN t.strings
    <3>1. G = {g \in _SENSITIVE_STRING_FIELDS : g[1] = t.type /\ g[2] < Len(t.formatted)}
      BY <1>1
    <3> QED
      BY <3>1, Zenon DEF Secrets
  <2> HIDE DEF G
  <2> QED
    BY <1>4, <2>1, <2>2, <2>3
<1> QED
  BY <1>1, <1>2, <1>3, <1>4, <1>5, Zenon DEF SameStructure

\* Both raise, or both return and differ in secrets only.
Similar(r, q) ==
    \/ r.kind = "raised" /\ q.kind = "raised"
    \/ r.kind = "returned" /\ q.kind = "returned" /\ SameButSecrets(r.structures, q.structures)

IsResult(r) ==
    \/ r.kind = "raised"
    \/ r.kind = "returned" /\ AreStructures(r.structures)

LEMMA FromIsResult ==
    ASSUME NEW b \in Seq(Byte), NEW e \in 0 .. Len(b), NEW o \in Nat
    PROVE  IsResult(From(b, e)[o])
<1> DEFINE r == From(b, e)[o]
<1>1. IsOutcome(b, r)
  BY FromIsOutcome
<1> HIDE DEF r
<1>2. ASSUME NEW ss \in Seq(Structs(b)), r = Returned(ss)
      PROVE  r.kind = "returned" /\ AreStructures(r.structures)
  <2>1. \A s \in Structs(b) : IsStructure(s)
    BY StructsAreStructures
  <2>2. AreStructures(ss)
    BY <2>1 DEF AreStructures
  <2> QED
    BY <1>2, <2>2 DEF Returned
<1>3. IsResult(r)
  BY <1>1, <1>2 DEF IsOutcome, IsResult
<1> QED
  BY <1>3 DEF r

LEMMA ListOfStructures ==
    ASSUME NEW ss, AreStructures(ss)
    PROVE  /\ Len(ss) \in Nat /\ DOMAIN ss = 1 .. Len(ss)
           /\ \A i \in 1 .. Len(ss) : IsStructure(ss[i])
BY LenProperties, ElementOfSeq DEF AreStructures

LEMMA SimilarRefl ==
    ASSUME NEW r, IsResult(r)
    PROVE  Similar(r, r)
BY SameStructureRefl DEF IsResult, Similar, SameButSecrets

LEMMA SimilarTrans ==
    ASSUME NEW r, NEW q, NEW p, IsResult(r), IsResult(q), IsResult(p),
           Similar(r, q), Similar(q, p)
    PROVE  Similar(r, p)
<1>1. CASE r.kind = "raised"
  BY <1>1 DEF Similar
<1>2. CASE r.kind # "raised"
  <2> DEFINE rs == r.structures
             qs == q.structures
             ps == p.structures
  <2>1. /\ r.kind = "returned" /\ q.kind = "returned" /\ p.kind = "returned"
        /\ SameButSecrets(rs, qs) /\ SameButSecrets(qs, ps)
    BY <1>2 DEF Similar
  <2>2. AreStructures(rs) /\ AreStructures(qs) /\ AreStructures(ps)
    BY <2>1 DEF IsResult
  <2> HIDE DEF rs, qs, ps
  <2>3. /\ Len(rs) \in Nat /\ DOMAIN rs = 1 .. Len(rs)
        /\ \A i \in 1 .. Len(rs) : IsStructure(rs[i])
    BY <2>2, ListOfStructures
  <2>4. /\ DOMAIN qs = 1 .. Len(qs) /\ \A i \in 1 .. Len(qs) : IsStructure(qs[i])
    BY <2>2, ListOfStructures
  <2>5. /\ DOMAIN ps = 1 .. Len(ps) /\ \A i \in 1 .. Len(ps) : IsStructure(ps[i])
    BY <2>2, ListOfStructures
  <2>6. Len(qs) = Len(rs) /\ Len(ps) = Len(rs)
    BY <2>1 DEF SameButSecrets
  <2>7. ASSUME NEW i \in 1 .. Len(rs) PROVE SameStructure(rs[i], ps[i])
    <3>1. SameStructure(rs[i], qs[i]) /\ SameStructure(qs[i], ps[i])
      BY <2>1, <2>3, <2>4, <2>6 DEF SameButSecrets
    <3>2. IsStructure(rs[i]) /\ IsStructure(qs[i]) /\ IsStructure(ps[i])
      BY <2>3, <2>4, <2>5, <2>6
    <3> QED
      BY <3>1, <3>2, SameStructureTrans
  <2>8. SameButSecrets(rs, ps)
    BY <2>3, <2>6, <2>7 DEF SameButSecrets
  <2> QED
    BY <2>1, <2>8 DEF Similar, rs, ps
<1> QED
  BY <1>1, <1>2

\* One more structure in front.
LEMMA PrependedList ==
    ASSUME NEW s, NEW ss, AreStructures(ss)
    PROVE  /\ Len(<< s >> \o ss) = Len(ss) + 1
           /\ DOMAIN (<< s >> \o ss) = 1 .. Len(ss) + 1
           /\ (<< s >> \o ss)[1] = s
           /\ \A i \in 1 .. Len(ss) : (<< s >> \o ss)[i + 1] = ss[i]
<1>1. PICK S : ss \in Seq(S)
  BY DEF AreStructures
<1> DEFINE T == S \cup {s}
           h == << s >>
           c == h \o ss
<1>2. ss \in Seq(T) /\ h \in Seq(T) /\ Len(h) = 1 /\ h[1] = s
  BY <1>1, SeqMonotonic
<1> HIDE DEF T, h
<1>3. /\ c \in Seq(T) /\ Len(c) = 1 + Len(ss) /\ Len(ss) \in Nat
      /\ \A i \in 1 .. 1 + Len(ss) : c[i] = IF i <= 1 THEN h[i] ELSE ss[i - 1]
  <2>1. /\ c \in Seq(T) /\ Len(c) = Len(h) + Len(ss)
        /\ \A i \in 1 .. Len(h) + Len(ss) :
              c[i] = IF i <= Len(h) THEN h[i] ELSE ss[i - Len(h)]
    BY <1>2, ConcatProperties
  <2>2. Len(ss) \in Nat
    BY <1>2, LenProperties
  <2> QED
    BY <1>2, <2>1, <2>2
<1> HIDE DEF c
<1>4. c[1] = s
  BY <1>2, <1>3
<1>5. \A i \in 1 .. Len(ss) : c[i + 1] = ss[i]
  <2> SUFFICES ASSUME NEW i \in 1 .. Len(ss) PROVE c[i + 1] = ss[i]
    OBVIOUS
  <2>1. i + 1 \in 1 .. 1 + Len(ss) /\ ~ (i + 1 <= 1) /\ i + 1 - 1 = i
    BY <1>3
  <2> QED
    BY <1>3, <2>1
<1>6. DOMAIN c = 1 .. Len(ss) + 1 /\ Len(c) = Len(ss) + 1
  BY <1>3, LenProperties
<1> QED
  BY <1>4, <1>5, <1>6 DEF c, h

LEMMA SimilarPrepend ==
    ASSUME NEW s, NEW t, SameStructure(s, t), NEW r, NEW q, IsResult(r), IsResult(q),
           Similar(r, q)
    PROVE  Similar(Prepend(s, r), Prepend(t, q))
<1>1. CASE r.kind = "raised"
  BY <1>1 DEF Similar, Prepend
<1>2. CASE r.kind # "raised"
  <2> DEFINE rs == r.structures
             qs == q.structures
             u == << s >> \o rs
             w == << t >> \o qs
  <2>1. r.kind = "returned" /\ q.kind = "returned" /\ SameButSecrets(rs, qs)
    BY <1>2 DEF Similar
  <2>2. Prepend(s, r) = Returned(u) /\ Prepend(t, q) = Returned(w)
    BY <2>1 DEF Prepend
  <2>3. AreStructures(rs) /\ AreStructures(qs)
    BY <2>1 DEF IsResult
  <2> HIDE DEF rs, qs
  <2>4. /\ Len(rs) \in Nat /\ DOMAIN rs = 1 .. Len(rs)
        /\ Len(qs) = Len(rs) /\ \A i \in 1 .. Len(rs) : SameStructure(rs[i], qs[i])
    BY <2>1, <2>3, ListOfStructures DEF SameButSecrets
  <2>5. /\ Len(u) = Len(rs) + 1 /\ DOMAIN u = 1 .. Len(rs) + 1 /\ u[1] = s
        /\ \A i \in 1 .. Len(rs) : u[i + 1] = rs[i]
    BY <2>3, PrependedList
  <2>6. /\ Len(w) = Len(qs) + 1 /\ w[1] = t
        /\ \A i \in 1 .. Len(qs) : w[i + 1] = qs[i]
    BY <2>3, PrependedList
  <2> HIDE DEF u, w
  <2>7. ASSUME NEW i \in 1 .. Len(rs) + 1 PROVE SameStructure(u[i], w[i])
    <3>1. CASE i = 1
      BY <2>5, <2>6, <3>1
    <3>2. CASE i # 1
      <4>1. i - 1 \in 1 .. Len(rs) /\ i - 1 + 1 = i
        BY <2>4, <3>2
      <4>2. u[i] = rs[i - 1]
        BY <2>5, <4>1
      <4>3. w[i] = qs[i - 1]
        BY <2>4, <2>6, <4>1
      <4> QED
        BY <2>4, <4>1, <4>2, <4>3
    <3> QED
      BY <3>1, <3>2
  <2>8. SameButSecrets(u, w)
    BY <2>4, <2>5, <2>6, <2>7 DEF SameButSecrets
  <2> QED
    BY <2>2, <2>8 DEF Similar, Returned
<1> QED
  BY <1>1, <1>2

-----------------------------------------------------------------------------
(***************************************************************************)
(* Rounds of the parser.                                                   *)
(***************************************************************************)

\* What the parser makes of the terminated structure at o, up to e.
Round(b, e, o, k) ==
    LET s == StructureAt(b, o, k)
        r == From(b, e)[o]
    IN  /\ o >= e => r = Returned(<< >>)
        /\ o < e /\ ~ HeaderOK(b, o, e) => r.kind = "raised"
        /\ o < e /\ HeaderOK(b, o, e) /\ TypeAt(b, o) = EndOfTable => r = Returned(<< s >>)
        /\ o < e /\ HeaderOK(b, o, e) /\ TypeAt(b, o) # EndOfTable
              => r = Prepend(s, From(b, e)[k + 2])

LEMMA Rounds ==
    ASSUME NEW b \in Seq(Byte), NEW e \in 0 .. Len(b), NEW o \in Nat, NEW k \in Ends(b, o)
    PROVE  Round(b, e, o, k)
<1> DEFINE F == From(b, e)
           s == StructureAt(b, o, k)
           r == F[o]
<1>1. r = Rest(b, e, F, o) /\ s.type = TypeAt(b, o)
  BY FromSolves DEF StructureAt
<1> HIDE DEF F, s, r
<1>2. e \in Nat
  BY LenProperties
<1>3. o >= e => r = Returned(<< >>)
  BY <1>1 DEF Rest
<1>4. ASSUME o < e, ~ HeaderOK(b, o, e) PROVE r.kind = "raised"
  <2>1. r = HeaderError(b, o, e)
    BY <1>1, <1>2, <1>4 DEF Rest
  <2> QED
    BY <2>1, ErrorsAreRaised
<1>5. ASSUME o < e, HeaderOK(b, o, e)
      PROVE  /\ s.type = EndOfTable => r = Returned(<< s >>)
             /\ s.type # EndOfTable => r = Prepend(s, F[k + 2])
  BY <1>1, <1>5, RestOfStructure DEF s
<1> QED
  BY <1>1, <1>3, <1>4, <1>5, Zenon DEF Round, F, s, r

\* Nothing to read, and nothing that can be read.
LEMMA NoRound ==
    ASSUME NEW b \in Seq(Byte), NEW e \in 0 .. Len(b), NEW o \in Nat
    PROVE  /\ o >= e => From(b, e)[o] = Returned(<< >>)
           /\ o < e /\ (~ HeaderOK(b, o, e) \/ Ends(b, o) = {}) => From(b, e)[o].kind = "raised"
<1> DEFINE F == From(b, e)
           r == F[o]
<1>1. r = Rest(b, e, F, o) /\ e \in Nat
  BY FromSolves, LenProperties
<1> HIDE DEF F, r
<1>2. o >= e => r = Returned(<< >>)
  BY <1>1 DEF Rest
<1>3. ASSUME o < e, ~ HeaderOK(b, o, e) \/ Ends(b, o) = {} PROVE r.kind = "raised"
  <2>1. ~ (o >= e)
    BY <1>1, <1>3
  <2>2. r = HeaderError(b, o, e) \/ r = StringError(b, FormattedEnd(b, o))
    BY <1>1, <1>3, <2>1, Zenon DEF Rest
  <2> QED
    BY <2>2, ErrorsAreRaised
<1> QED
  BY <1>2, <1>3 DEF F, r

\* v has at o what b has there, but for secrets.
SameAt(b, v, o, k) ==
    /\ k \in Ends(b, o) /\ k \in Ends(v, o) /\ TypeAt(v, o) = TypeAt(b, o)
    /\ \A e : HeaderOK(v, o, e) <=> HeaderOK(b, o, e)
    /\ SameStructure(StructureAt(b, o, k), StructureAt(v, o, k))

LEMMA SameRound ==
    ASSUME NEW b \in Seq(Byte), NEW v \in Seq(Byte), Len(v) = Len(b), NEW e \in 0 .. Len(b),
           NEW o \in Nat, NEW k \in Nat, SameAt(b, v, o, k),
           TypeAt(b, o) = EndOfTable \/ Similar(From(b, e)[k + 2], From(v, e)[k + 2])
    PROVE  Similar(From(b, e)[o], From(v, e)[o])
<1> DEFINE s == StructureAt(b, o, k)
           t == StructureAt(v, o, k)
           r == From(b, e)[o]
           q == From(v, e)[o]
           r2 == From(b, e)[k + 2]
           q2 == From(v, e)[k + 2]
<1>1. e \in 0 .. Len(v) /\ e \in Nat /\ k + 2 \in Nat
  BY LenProperties
<1>2. Round(b, e, o, k)
  <2>1. k \in Ends(b, o)
    BY DEF SameAt
  <2> QED
    BY <2>1, Rounds
<1>3. Round(v, e, o, k)
  <2>1. k \in Ends(v, o)
    BY DEF SameAt
  <2> QED
    BY <1>1, <2>1, Rounds
<1>4. IsResult(r) /\ IsResult(r2)
  BY <1>1, FromIsResult
<1>5. IsResult(q) /\ IsResult(q2)
  BY <1>1, FromIsResult
<1>6. /\ TypeAt(v, o) = TypeAt(b, o) /\ (HeaderOK(v, o, e) <=> HeaderOK(b, o, e))
      /\ SameStructure(s, t)
  BY DEF SameAt
<1>7. /\ o >= e => r = Returned(<< >>)
      /\ o < e /\ ~ HeaderOK(b, o, e) => r.kind = "raised"
      /\ o < e /\ HeaderOK(b, o, e) /\ TypeAt(b, o) = EndOfTable => r = Returned(<< s >>)
      /\ o < e /\ HeaderOK(b, o, e) /\ TypeAt(b, o) # EndOfTable => r = Prepend(s, r2)
  BY <1>2 DEF Round
<1>8. /\ o >= e => q = Returned(<< >>)
      /\ o < e /\ ~ HeaderOK(v, o, e) => q.kind = "raised"
      /\ o < e /\ HeaderOK(v, o, e) /\ TypeAt(v, o) = EndOfTable => q = Returned(<< t >>)
      /\ o < e /\ HeaderOK(v, o, e) /\ TypeAt(v, o) # EndOfTable => q = Prepend(t, q2)
  BY <1>3 DEF Round
<1>9. TypeAt(b, o) = EndOfTable \/ Similar(r2, q2)
  OBVIOUS
<1> SUFFICES Similar(r, q)
  OBVIOUS
<1> HIDE DEF s, t, r, q, r2, q2
<1>10. CASE o >= e
  BY <1>4, <1>7, <1>8, <1>10, SimilarRefl
<1>11. CASE o < e /\ ~ HeaderOK(b, o, e)
  BY <1>6, <1>7, <1>8, <1>11 DEF Similar
<1>12. CASE o < e /\ HeaderOK(b, o, e) /\ TypeAt(b, o) = EndOfTable
  <2>1. r = Returned(<< s >>) /\ q = Returned(<< t >>)
    BY <1>6, <1>7, <1>8, <1>12
  <2>2. SameButSecrets(<< s >>, << t >>)
    BY <1>6 DEF SameButSecrets
  <2> QED
    BY <2>1, <2>2 DEF Similar, Returned
<1>13. CASE o < e /\ HeaderOK(b, o, e) /\ TypeAt(b, o) # EndOfTable
  <2>1. r = Prepend(s, r2) /\ q = Prepend(t, q2) /\ Similar(r2, q2)
    BY <1>6, <1>7, <1>8, <1>9, <1>13
  <2> QED
    BY <1>4, <1>5, <1>6, <2>1, SimilarPrepend
<1> QED
  BY <1>1, <1>10, <1>11, <1>12, <1>13

\* What fits in front of e fits in front of the end.
LEMMA LongerHeader ==
    ASSUME NEW b \in Seq(Byte), NEW e \in 0 .. Len(b), NEW o \in Nat, HeaderOK(b, o, e)
    PROVE  HeaderOK(b, o, Len(b))
<1> DEFINE f == FormattedEnd(b, o)
           d == Len(b)
<1>1. f \in Nat /\ f <= e /\ o + 4 <= e /\ e \in Nat /\ d \in Nat /\ e <= d
  BY HeaderFacts, LenProperties
<1>2. LengthAt(b, o) >= HeaderSize
  BY DEF HeaderOK
<1> HIDE DEF f, d
<1>3. f <= d /\ o + 4 <= d
  BY <1>1
<1> QED
  BY <1>2, <1>3 DEF HeaderOK, HeaderSize, f, d

\* The bytes from p on decide what is read from there.
LEMMA SameTail ==
    ASSUME NEW b \in Seq(Byte), NEW v \in Seq(Byte), Len(v) = Len(b), NEW e \in 0 .. Len(b),
           NEW p \in Nat, \A x \in 0 .. Len(b) - 1 : x >= p => ByteAt(v, x) = ByteAt(b, x)
    PROVE  Similar(From(b, e)[p], From(v, e)[p])
<1> DEFINE Sim(q) == Similar(From(b, e)[q], From(v, e)[q])
           Bad == {n \in Nat : \E q \in Nat : q >= p /\ q + n >= e /\ ~ Sim(q)}
<1>0. e \in Nat /\ Len(b) \in Nat /\ e <= Len(b) /\ e \in 0 .. Len(v) /\ Len(b) \in 0 .. Len(b)
  BY LenProperties
<1>1. Bad = {}
  <2> SUFFICES ASSUME Bad # {} PROVE FALSE
    OBVIOUS
  <2>1. PICK n \in Bad : \A m \in Bad : n <= m
    BY LeastElement
  <2>2. PICK q \in Nat : q >= p /\ q + n >= e /\ ~ Sim(q)
    BY <2>1
  <2>3. CASE q >= e
    <3>1. From(b, e)[q] = Returned(<< >>)
      BY <2>3, NoRound
    <3>2. From(v, e)[q] = Returned(<< >>)
      BY <1>0, <2>3, NoRound
    <3>3. IsResult(From(b, e)[q])
      BY FromIsResult
    <3> QED
      BY <2>2, <3>1, <3>2, <3>3, SimilarRefl
  <2>4. CASE q < e /\ (~ HeaderOK(b, q, Len(b)) \/ Ends(b, q) = {})
    <3>1. ~ HeaderOK(b, q, e) \/ Ends(b, q) = {}
      <4> SUFFICES ASSUME HeaderOK(b, q, e) PROVE HeaderOK(b, q, Len(b))
        BY <2>4
      <4> QED
        BY LongerHeader
    <3>2. From(b, e)[q].kind = "raised"
      BY <2>4, <3>1, NoRound
    <3>3. ~ HeaderOK(v, q, e) \/ Ends(v, q) = {}
      <4> SUFFICES ASSUME HeaderOK(v, q, e), Ends(v, q) # {} PROVE FALSE
        OBVIOUS
      <4>1. PICK k \in Ends(v, q) : TRUE
        OBVIOUS
      <4>2. /\ FormattedEnd(v, q) \in Nat /\ q + 4 <= FormattedEnd(v, q)
            /\ FormattedEnd(v, q) <= e /\ q + 4 <= e
        BY <1>0, HeaderFacts
      <4>3. k \in FormattedEnd(v, q) .. Len(v) - 2
        BY DEF Ends, EndsStrings
      <4>4. \A x \in q .. k + 1 : ByteAt(b, x) = ByteAt(v, x)
        BY <1>0, <2>2, <4>2, <4>3
      <4>5. \A x \in q .. q + 3 : ByteAt(b, x) = ByteAt(v, x)
        BY <4>2, <4>3, <4>4
      <4>6. /\ FormattedEnd(b, q) = FormattedEnd(v, q)
            /\ \A d : HeaderOK(b, q, d) <=> HeaderOK(v, q, d)
        BY <4>5, HeaderStands
      <4>7. \A x \in FormattedEnd(v, q) .. k + 1 : ByteAt(b, x) = NUL <=> ByteAt(v, x) = NUL
        BY <4>2, <4>3, <4>4
      <4>8. k \in Ends(b, q)
        BY <1>0, <4>2, <4>6, <4>7, EndStands
      <4> QED
        BY <3>1, <4>6, <4>8
    <3>4. From(v, e)[q].kind = "raised"
      BY <1>0, <2>4, <3>3, NoRound
    <3> QED
      BY <2>2, <3>2, <3>4 DEF Similar
  <2>5. CASE q < e /\ HeaderOK(b, q, Len(b)) /\ Ends(b, q) # {}
    <3>1. PICK k \in Ends(b, q) : TRUE
      BY <2>5
    <3>2. k \in FormattedEnd(b, q) .. Len(b) - 2 /\ FormattedEnd(b, q) \in Nat
      BY <1>0, <2>5, HeaderFacts DEF Ends, EndsStrings
    <3>3. \A x \in q .. k + 1 : ByteAt(v, x) = ByteAt(b, x)
      BY <1>0, <2>2, <3>2
    <3>4. /\ k \in Nat /\ q + 4 <= k
          /\ k \in Ends(v, q) /\ StructureAt(v, q, k) = StructureAt(b, q, k)
          /\ TypeAt(v, q) = TypeAt(b, q)
          /\ \A d : HeaderOK(v, q, d) <=> HeaderOK(b, q, d)
      BY <2>5, <3>3, StructureStands
    <3>5. SameAt(b, v, q, k)
      BY <3>4, SameStructureRefl DEF SameAt
    <3>6. Sim(k + 2)
      <4> SUFFICES ASSUME ~ Sim(k + 2) PROVE FALSE
        OBVIOUS
      <4>1. n # 0 /\ n \in Nat /\ n - 1 \in Nat /\ ~ (n <= n - 1)
        BY <1>0, <2>2, <2>5
      <4>2. k + 2 \in Nat /\ k + 2 >= p /\ k + 2 + (n - 1) >= e
        BY <1>0, <2>2, <3>4, <4>1
      <4>3. n - 1 \in Bad
        BY <4>1, <4>2
      <4> QED
        BY <2>1, <4>1, <4>3
    <3>7. Sim(q)
      <4>1. Similar(From(b, e)[k + 2], From(v, e)[k + 2])
        BY <3>6
      <4> QED
        BY <3>4, <3>5, <4>1, SameRound
    <3> QED
      BY <2>2, <3>7
  <2> QED
    BY <1>0, <2>3, <2>4, <2>5
<1>2. p + e >= e
  BY <1>0
<1>3. Sim(p)
  BY <1>0, <1>1, <1>2
<1> QED
  BY <1>3

-----------------------------------------------------------------------------
(***************************************************************************)
(* The way the sanitizer has come: structures that follow each other from  *)
(* the start of the table to d, all of them clean.                         *)
(***************************************************************************)
Leads(b, P, d) ==
    /\ P \in SUBSET Nat /\ d \in Nat /\ 0 \in P \cup {d}
    /\ \A o \in P :
          /\ HeaderOK(b, o, Len(b)) /\ TypeAt(b, o) # EndOfTable /\ IsClean(b, o)
          /\ \E k \in Ends(b, o) : k + 2 \in P \cup {d} /\ k + 2 <= d

\* A structure that was clean is while its bytes stand.
LEMMA CleanStands ==
    ASSUME NEW b \in Seq(Byte), NEW v \in Seq(Byte), Len(v) = Len(b), NEW o \in Nat,
           HeaderOK(b, o, Len(b)), NEW k \in Ends(b, o),
           \A x \in o .. k + 1 : ByteAt(v, x) = ByteAt(b, x), IsClean(b, o)
    PROVE  IsClean(v, o)
<1> DEFINE f == FormattedEnd(b, o)
<1>1. f \in Nat /\ o + 4 <= f /\ f <= Len(b) /\ Len(b) \in Nat
  <2>1. Len(b) \in 0 .. Len(b)
    BY LenProperties
  <2> QED
    BY <2>1, HeaderFacts
<1>2. k \in f .. Len(b) - 2
  BY DEF Ends, EndsStrings
<1>3. \A x \in o .. o + 3 : ByteAt(v, x) = ByteAt(b, x)
  BY <1>1, <1>2
<1>4. TypeAt(v, o) = TypeAt(b, o) /\ FormattedEnd(v, o) = f
  BY <1>3, HeaderStands
<1>5. k \in Ends(v, o)
  BY StructureStands
<1>6. Chosen(v, o) = Chosen(b, o)
  <2>1. \A x \in o .. f - 1 : ByteAt(v, x) = ByteAt(b, x)
    BY <1>1, <1>2
  <2> QED
    BY <1>1, <1>4, <2>1, ChosenStands
<1>7. StringBytes(v, o) = StringBytes(b, o)
  <2>1. \A x \in f .. k : ByteAt(v, x) = NUL <=> ByteAt(b, x) = NUL
    BY <1>1, <1>2
  <2> QED
    BY <1>1, <1>4, <1>5, <1>6, <2>1, AreaStands DEF f
<1>8. UuidBytes(v, o) = UuidBytes(b, o)
  BY <1>4 DEF UuidBytes, f
<1>9. PICK c, ends : Found(b, o, c, ends)
  BY <1>1, ScanFinds
<1>10. c = IF k = f THEN f ELSE k + 1
  BY <1>1, <1>9, FoundArea
<1>11. /\ \A x \in UuidBytes(b, o) : x \in o + 8 .. f - 1
       /\ \A x \in StringBytes(b, o) : x \in f .. c - 2
  BY <1>9, ScrubKeeps
<1>12. \A x \in UuidBytes(b, o) \cup StringBytes(b, o) : x \in o .. k + 1
  <2> HIDE DEF f
  <2> QED
    BY <1>1, <1>2, <1>10, <1>11
<1>13. \A x \in UuidBytes(b, o) \cup StringBytes(b, o) : ByteAt(v, x) = ByteAt(b, x)
  BY <1>12
<1> QED
  BY <1>7, <1>8, <1>13 DEF IsClean

\* What each structure on the way passes back holds at the start.
LEMMA BackAlongPath ==
    ASSUME NEW b \in Seq(Byte), NEW P, NEW d, Leads(b, P, d), NEW X, d \in X,
           \A o \in P : \A k \in Ends(b, o) : k \in Nat /\ k + 2 <= d /\ k + 2 \in X => o \in X
    PROVE  0 \in X
<1> DEFINE Bad == {o \in P : o \notin X}
<1>1. P \in SUBSET Nat /\ d \in Nat /\ 0 \in P \cup {d}
  BY DEF Leads
<1>2. \A o \in P : \E k \in Ends(b, o) : /\ k \in Nat /\ k + 2 \in P \cup {d}
                                         /\ k + 2 <= d /\ k + 2 > o
  <2> SUFFICES ASSUME NEW o \in P
               PROVE  \E k \in Ends(b, o) : /\ k \in Nat /\ k + 2 \in P \cup {d}
                                            /\ k + 2 <= d /\ k + 2 > o
    OBVIOUS
  <2>1. PICK k \in Ends(b, o) : k + 2 \in P \cup {d} /\ k + 2 <= d
    BY DEF Leads
  <2>2. HeaderOK(b, o, Len(b)) /\ o \in Nat /\ Len(b) \in 0 .. Len(b)
    BY <1>1, LenProperties DEF Leads
  <2>3. k \in Nat /\ k + 2 > o
    BY <2>2, EndsAhead
  <2> QED
    BY <2>1, <2>3
<1>3. Bad = {}
  <2> SUFFICES ASSUME Bad # {} PROVE FALSE
    OBVIOUS
  <2>1. \A o \in P : o \in 0 .. d
    <3> SUFFICES ASSUME NEW o \in P PROVE o \in 0 .. d
      OBVIOUS
    <3>1. PICK k \in Ends(b, o) : k \in Nat /\ k + 2 <= d /\ k + 2 > o
      BY <1>2
    <3> QED
      BY <1>1, <3>1
  <2>2. PICK o \in Bad : \A q \in Bad : q <= o
    <3>1. Bad \in SUBSET (0 .. d)
      BY <2>1
    <3> QED
      BY <1>1, <3>1, GreatestElement
  <2>3. PICK k \in Ends(b, o) : k \in Nat /\ k + 2 \in P \cup {d} /\ k + 2 <= d /\ k + 2 > o
    BY <1>2
  <2>4. k + 2 \notin Bad
    BY <1>1, <2>2, <2>3
  <2>5. k + 2 \in X
    BY <2>3, <2>4
  <2> QED
    BY <2>2, <2>3, <2>5
<1> QED
  BY <1>1, <1>3

\* A way ends where the table does or in front of it, its structures in front of d.
LEMMA OnTheWay ==
    ASSUME NEW b \in Seq(Byte), NEW P, NEW d, Leads(b, P, d), NEW o \in P, NEW k \in Ends(b, o)
    PROVE  /\ o \in Nat /\ k \in Nat /\ o < k /\ k + 2 <= d /\ o + 4 <= d /\ k + 2 \in P \cup {d}
           /\ HeaderOK(b, o, Len(b)) /\ TypeAt(b, o) # EndOfTable /\ IsClean(b, o)
<1>1. /\ o \in Nat /\ d \in Nat
      /\ HeaderOK(b, o, Len(b)) /\ TypeAt(b, o) # EndOfTable /\ IsClean(b, o)
  BY DEF Leads
<1>2. PICK j \in Ends(b, o) : j + 2 \in P \cup {d} /\ j + 2 <= d
  BY DEF Leads
<1>3. Len(b) \in 0 .. Len(b)
  BY LenProperties
<1>4. FormattedEnd(b, o) \in Nat /\ o + 4 <= FormattedEnd(b, o)
  BY <1>1, <1>3, HeaderFacts
<1>5. j = k
  BY <1>4, OneEnd
<1>6. k \in FormattedEnd(b, o) .. Len(b) - 2
  BY DEF Ends, EndsStrings
<1> QED
  BY <1>1, <1>2, <1>4, <1>5, <1>6

\* The way stays while the bytes in front of d do.
LEMMA WayStands ==
    ASSUME NEW b \in Seq(Byte), NEW v \in Seq(Byte), Len(v) = Len(b),
           NEW P, NEW d, Leads(b, P, d),
           \A x \in 0 .. Len(b) - 1 : x < d => ByteAt(v, x) = ByteAt(b, x)
    PROVE  /\ Leads(v, P, d)
           /\ \A o \in P : \A k \in Ends(b, o) : SameAt(b, v, o, k)
<1>1. P \in SUBSET Nat /\ d \in Nat /\ 0 \in P \cup {d} /\ Len(b) \in Nat
  BY LenProperties DEF Leads
<1>2. ASSUME NEW o \in P, NEW k \in Ends(b, o)
      PROVE  /\ HeaderOK(v, o, Len(v)) /\ TypeAt(v, o) # EndOfTable /\ IsClean(v, o)
             /\ k \in Ends(v, o) /\ k + 2 \in P \cup {d} /\ k + 2 <= d
             /\ SameAt(b, v, o, k)
  <2>1. /\ o \in Nat /\ k \in Nat /\ o < k /\ k + 2 <= d /\ k + 2 \in P \cup {d}
        /\ HeaderOK(b, o, Len(b)) /\ TypeAt(b, o) # EndOfTable /\ IsClean(b, o)
    BY OnTheWay
  <2>2. k <= Len(b) - 2
    BY DEF Ends, EndsStrings
  <2>3. \A x \in o .. k + 1 : ByteAt(v, x) = ByteAt(b, x)
    BY <1>1, <2>1, <2>2
  <2>4. /\ k \in Ends(v, o) /\ StructureAt(v, o, k) = StructureAt(b, o, k)
        /\ TypeAt(v, o) = TypeAt(b, o)
        /\ \A e : HeaderOK(v, o, e) <=> HeaderOK(b, o, e)
    BY <2>1, <2>3, StructureStands
  <2>5. IsClean(v, o)
    BY <2>1, <2>3, CleanStands
  <2>6. SameAt(b, v, o, k)
    BY <2>4, SameStructureRefl DEF SameAt
  <2> QED
    BY <2>1, <2>4, <2>5, <2>6
<1>3. Leads(v, P, d)
  <2>1. \A o \in P : Ends(b, o) # {}
    BY DEF Leads
  <2> QED
    BY <1>1, <1>2, <2>1 DEF Leads
<1> QED
  BY <1>2, <1>3

\* What the parser reads at d decides, on the same way, what it reads at the start.
LEMMA SimilarFromStart ==
    ASSUME NEW b \in Seq(Byte), NEW v \in Seq(Byte), Len(v) = Len(b), NEW e \in 0 .. Len(b),
           NEW P, NEW d, Leads(b, P, d),
           \A x \in 0 .. Len(b) - 1 : x < d => ByteAt(v, x) = ByteAt(b, x),
           Similar(From(b, e)[d], From(v, e)[d])
    PROVE  Similar(From(b, e)[0], From(v, e)[0])
<1> DEFINE X == {q \in Nat : Similar(From(b, e)[q], From(v, e)[q])}
<1>1. d \in X
  BY DEF Leads
<1>2. ASSUME NEW o \in P, NEW k \in Ends(b, o), k \in Nat, k + 2 \in X
      PROVE  o \in X
  <2>1. SameAt(b, v, o, k)
    BY WayStands
  <2>2. o \in Nat
    BY DEF Leads
  <2>3. Similar(From(b, e)[o], From(v, e)[o])
    BY <1>2, <2>1, <2>2, SameRound
  <2> QED
    BY <2>2, <2>3
<1> HIDE DEF X
<1>3. 0 \in X
  BY <1>1, <1>2, BackAlongPath
<1> QED
  BY <1>3 DEF X

\* An error that is met on the way is raised.
LEMMA RaisedFromStart ==
    ASSUME NEW b \in Seq(Byte), NEW e \in 0 .. Len(b), NEW P, NEW d, Leads(b, P, d),
           d < e, From(b, e)[d].kind = "raised"
    PROVE  From(b, e)[0].kind = "raised"
<1> DEFINE X == {q \in Nat : From(b, e)[q].kind = "raised"}
<1>1. d \in X /\ d \in Nat /\ e \in Nat
  BY LenProperties DEF Leads
<1>2. ASSUME NEW o \in P, NEW k \in Ends(b, o), k \in Nat, k + 2 \in X
      PROVE  o \in X
  <2>1. o \in Nat /\ o < e /\ TypeAt(b, o) # EndOfTable
    BY <1>1, OnTheWay
  <2>2. Round(b, e, o, k)
    BY <2>1, Rounds
  <2>3. \/ From(b, e)[o].kind = "raised"
        \/ From(b, e)[o] = Prepend(StructureAt(b, o, k), From(b, e)[k + 2])
    BY <2>1, <2>2 DEF Round
  <2>4. From(b, e)[k + 2].kind = "raised"
    BY <1>2
  <2>5. From(b, e)[o].kind = "raised"
    BY <2>3, <2>4 DEF Prepend
  <2> QED
    BY <2>1, <2>5
<1> HIDE DEF X
<1>3. 0 \in X
  BY <1>1, <1>2, BackAlongPath
<1> QED
  BY <1>3 DEF X

\* Nothing that was returned holds secrets.
HasNone(r) ==
    r.kind = "returned" => \A i \in DOMAIN r.structures : NoSecrets(r.structures[i])

LEMMA NoneFromStart ==
    ASSUME NEW b \in Seq(Byte), NEW e \in 0 .. Len(b), NEW P, NEW d, Leads(b, P, d),
           HasNone(From(b, e)[d])
    PROVE  HasNone(From(b, e)[0])
<1> DEFINE X == {q \in Nat : HasNone(From(b, e)[q])}
<1>1. d \in X /\ e \in Nat
  BY LenProperties DEF Leads
<1>2. ASSUME NEW o \in P, NEW k \in Ends(b, o), k \in Nat, k + 2 \in X
      PROVE  o \in X
  <2> DEFINE s == StructureAt(b, o, k)
             r == From(b, e)[o]
             r2 == From(b, e)[k + 2]
  <2>1. o \in Nat /\ TypeAt(b, o) # EndOfTable /\ HeaderOK(b, o, Len(b)) /\ IsClean(b, o)
    BY OnTheWay
  <2>2. Round(b, e, o, k)
    BY <2>1, Rounds
  <2>3. NoSecrets(s)
    BY <2>1, CleanHasNoSecrets
  <2>4. HasNone(r2) /\ IsResult(r2)
    BY <1>2, FromIsResult
  <2>5. r = Returned(<< >>) \/ r.kind = "raised" \/ r = Prepend(s, r2)
    BY <1>1, <2>1, <2>2 DEF Round
  <2> SUFFICES HasNone(r)
    BY <2>1
  <2> HIDE DEF s, r, r2
  <2>6. CASE r = Returned(<< >>)
    BY <2>6 DEF Returned, HasNone
  <2>7. CASE r.kind = "raised"
    BY <2>7 DEF HasNone
  <2>8. CASE r = Prepend(s, r2) /\ r.kind # "raised"
    <3> DEFINE rs == r2.structures
               u == << s >> \o rs
    <3>1. r2.kind = "returned" /\ AreStructures(rs) /\ r = Returned(u)
      BY <2>4, <2>8 DEF Prepend, IsResult
    <3>2. \A i \in DOMAIN rs : NoSecrets(rs[i])
      BY <2>4, <3>1 DEF HasNone
    <3> HIDE DEF rs
    <3>3. Len(rs) \in Nat /\ DOMAIN rs = 1 .. Len(rs)
      BY <3>1, ListOfStructures
    <3>4. /\ DOMAIN u = 1 .. Len(rs) + 1 /\ u[1] = s
          /\ \A i \in 1 .. Len(rs) : u[i + 1] = rs[i]
      BY <3>1, PrependedList
    <3> HIDE DEF u
    <3>5. ASSUME NEW i \in DOMAIN u PROVE NoSecrets(u[i])
      <4>1. CASE i = 1
        BY <2>3, <3>4, <4>1
      <4>2. CASE i # 1
        <5>1. i - 1 \in 1 .. Len(rs) /\ i - 1 + 1 = i
          BY <3>3, <3>4, <4>2
        <5> QED
          BY <3>2, <3>3, <3>4, <5>1
      <4> QED
        BY <4>1, <4>2
    <3>6. r.structures = u
      BY <3>1 DEF Returned
    <3> QED
      BY <3>5, <3>6 DEF HasNone
  <2> QED
    BY <2>5, <2>6, <2>7, <2>8
<1> HIDE DEF X
<1>3. 0 \in X
  BY <1>1, <1>2, BackAlongPath
<1> QED
  BY <1>3 DEF X

-----------------------------------------------------------------------------
(***************************************************************************)
(* The three steps of the sanitizer: on a structure that the parser can    *)
(* read too, on one whose strings do not end, and on whatever it takes for *)
(* a structure after that.                                                 *)
(***************************************************************************)

LEMMA ScrubTerminated ==
    ASSUME NEW b \in Seq(Byte), NEW P, NEW d, Leads(b, P, d), HeaderOK(b, d, Len(b)),
           NEW k \in Ends(b, d), NEW v, v = Overwrite(b, d)
    PROVE  /\ Scan(b, d).cursor = k + 2 /\ k \in Nat /\ d < k
           /\ v \in Seq(Byte) /\ Len(v) = Len(b)
           /\ \A e \in 0 .. Len(b) : Similar(From(b, e)[0], From(v, e)[0])
           /\ Leads(v, P, d) /\ HeaderOK(v, d, Len(v)) /\ k \in Ends(v, d) /\ IsClean(v, d)
           /\ TypeAt(v, d) = TypeAt(b, d)
           /\ TypeAt(b, d) # EndOfTable => Leads(v, P \cup {d}, k + 2)
<1> DEFINE f == FormattedEnd(b, d)
<1>1. d \in Nat /\ f \in Nat /\ d + 4 <= f /\ f <= Len(b) /\ Len(b) \in Nat
  <2>1. Len(b) \in 0 .. Len(b) /\ d \in Nat
    BY LenProperties DEF Leads
  <2> QED
    BY <2>1, HeaderFacts
<1>2. PICK c, ends : Found(b, d, c, ends)
  BY <1>1, ScanFinds
<1>3. Scan(b, d).cursor = k + 2
  BY <1>1, <1>2, FoundArea
<1>4. v \in Seq(Byte) /\ Len(v) = Len(b)
  BY <1>1, OverwriteBytes
<1>5. k \in Nat /\ d < k
  <2>1. k \in f .. Len(b) - 2
    BY DEF Ends, EndsStrings
  <2> QED
    BY <1>1, <2>1
<1>6. /\ TypeAt(v, d) = TypeAt(b, d)
      /\ \A e : HeaderOK(v, d, e) <=> HeaderOK(b, d, e)
      /\ k \in Ends(v, d)
      /\ \A x \in 0 .. Len(b) - 1 : x < d \/ x > k => ByteAt(v, x) = ByteAt(b, x)
      /\ SameStructure(StructureAt(b, d, k), StructureAt(v, d, k))
      /\ IsClean(v, d)
  BY <1>1, ScrubbedStructure
<1>7. SameAt(b, v, d, k)
  BY <1>6 DEF SameAt
<1>8. ASSUME NEW e \in 0 .. Len(b)
      PROVE  Similar(From(b, e)[0], From(v, e)[0])
  <2> DEFINE p == k + 2
  <2>1. p \in Nat /\ \A x \in 0 .. Len(b) - 1 : x >= p => ByteAt(v, x) = ByteAt(b, x)
    BY <1>5, <1>6
  <2> HIDE DEF p
  <2>2. Similar(From(b, e)[p], From(v, e)[p])
    BY <1>4, <2>1, SameTail
  <2>3. Similar(From(b, e)[d], From(v, e)[d])
    BY <1>1, <1>4, <1>5, <1>7, <2>2, SameRound DEF p
  <2>4. \A x \in 0 .. Len(b) - 1 : x < d => ByteAt(v, x) = ByteAt(b, x)
    BY <1>6
  <2> QED
    BY <1>4, <2>3, <2>4, SimilarFromStart
<1>9. Leads(v, P, d)
  <2>1. \A x \in 0 .. Len(b) - 1 : x < d => ByteAt(v, x) = ByteAt(b, x)
    BY <1>6
  <2> QED
    BY <1>4, <2>1, WayStands
<1>10. ASSUME TypeAt(b, d) # EndOfTable PROVE Leads(v, P \cup {d}, k + 2)
  <2>1. P \in SUBSET Nat /\ d \in Nat /\ 0 \in P \cup {d}
    BY <1>9 DEF Leads
  <2>2. ASSUME NEW o \in P
        PROVE  /\ HeaderOK(v, o, Len(v)) /\ TypeAt(v, o) # EndOfTable /\ IsClean(v, o)
               /\ \E j \in Ends(v, o) : j + 2 \in P \cup {d} \cup {k + 2} /\ j + 2 <= k + 2
    <3>1. /\ HeaderOK(v, o, Len(v)) /\ TypeAt(v, o) # EndOfTable /\ IsClean(v, o)
          /\ \E j \in Ends(v, o) : j + 2 \in P \cup {d} /\ j + 2 <= d
      BY <1>9 DEF Leads
    <3>2. PICK j \in Ends(v, o) : j + 2 \in P \cup {d} /\ j + 2 <= d
      BY <3>1
    <3>3. j + 2 \in Nat
      BY <2>1, <3>2
    <3>4. j + 2 <= k + 2
      BY <1>1, <1>5, <3>2, <3>3
    <3> QED
      BY <3>1, <3>2, <3>4
  <2>3. /\ HeaderOK(v, d, Len(v)) /\ TypeAt(v, d) # EndOfTable /\ IsClean(v, d)
        /\ k \in Ends(v, d) /\ k + 2 <= k + 2
    BY <1>4, <1>5, <1>6, <1>10
  <2> QED
    BY <1>5, <2>1, <2>2, <2>3 DEF Leads
<1> QED
  BY <1>3, <1>4, <1>5, <1>6, <1>8, <1>9, <1>10

\* What is read before d does not depend on what comes after.
LEMMA SimilarBefore ==
    ASSUME NEW b \in Seq(Byte), NEW v \in Seq(Byte), Len(v) = Len(b), NEW e \in 0 .. Len(b),
           NEW P, NEW d, Leads(b, P, d), e <= d,
           \A x \in 0 .. Len(b) - 1 : x < d => ByteAt(v, x) = ByteAt(b, x)
    PROVE  Similar(From(b, e)[0], From(v, e)[0])
<1>1. d \in Nat /\ e \in 0 .. Len(v) /\ e \in Nat /\ d >= e
  BY LenProperties DEF Leads
<1>2. From(b, e)[d] = Returned(<< >>)
  BY <1>1, NoRound
<1>3. From(v, e)[d] = Returned(<< >>)
  BY <1>1, NoRound
<1>4. IsResult(From(b, e)[d])
  BY <1>1, FromIsResult
<1>5. Similar(From(b, e)[d], From(v, e)[d])
  BY <1>2, <1>3, <1>4, SimilarRefl
<1> QED
  BY <1>5, SimilarFromStart

\* The strings of the structure at d do not end, or end in front of bytes that are no
\* header; d is not the end of the table.
Doomed(b, d) ==
    /\ HeaderOK(b, d, Len(b))
    /\ \A k \in Ends(b, d) : /\ TypeAt(b, d) # EndOfTable /\ k + 3 < Len(b)
                             /\ ByteAt(b, k + 3) = 0

LEMMA DoomedRaises ==
    ASSUME NEW b \in Seq(Byte), NEW P, NEW d, Leads(b, P, d), Doomed(b, d)
    PROVE  From(b, Len(b))[0].kind = "raised" /\ d < Len(b)
<1> DEFINE e == Len(b)
<1>1. d \in Nat /\ e \in Nat /\ e \in 0 .. Len(b) /\ HeaderOK(b, d, e)
  BY LenProperties DEF Leads, Doomed
<1>2. d < e
  BY <1>1, HeaderFacts
<1>3. From(b, e)[d].kind = "raised"
  <2>1. CASE Ends(b, d) = {}
    BY <1>1, <1>2, <2>1, NoRound
  <2>2. CASE Ends(b, d) # {}
    <3>1. PICK k \in Ends(b, d) : TRUE
      BY <2>2
    <3>2. TypeAt(b, d) # EndOfTable /\ k + 3 < e /\ ByteAt(b, k + 3) = 0
      BY DEF Doomed
    <3>3. k \in Nat
      BY <1>1, EndsAhead
    <3> DEFINE p == k + 2
    <3>4. p \in Nat /\ p < e /\ LengthAt(b, p) = 0
      <4>1. p \in Nat /\ p + 1 = k + 3
        BY <3>3
      <4> QED
        BY <1>1, <3>2, <4>1 DEF LengthAt
    <3> HIDE DEF p
    <3>5. ~ HeaderOK(b, p, e)
      BY <3>4 DEF HeaderOK, HeaderSize
    <3>6. From(b, e)[p].kind = "raised"
      BY <1>1, <3>4, <3>5, NoRound
    <3>7. Round(b, e, d, k)
      BY <1>1, Rounds
    <3>8. From(b, e)[d] = Prepend(StructureAt(b, d, k), From(b, e)[p])
      BY <1>1, <1>2, <3>2, <3>7 DEF Round, p
    <3> QED
      BY <3>6, <3>8 DEF Prepend
  <2> QED
    BY <2>1, <2>2
<1> QED
  BY <1>1, <1>2, <1>3, RaisedFromStart

\* The sanitizer goes on at o, behind the formatted area at d, and no NUL is ahead.
GoesOn(b, d, o) ==
    /\ TypeAt(b, d) # EndOfTable /\ o \in Nat /\ FormattedEnd(b, d) <= o
    /\ \A x \in o .. Len(b) - 1 : ByteAt(b, x) # NUL

LEMMA ScrubUnterminated ==
    ASSUME NEW b \in Seq(Byte), NEW P, NEW d, Leads(b, P, d), HeaderOK(b, d, Len(b)),
           Ends(b, d) = {}, NEW v, v = Overwrite(b, d)
    PROVE  /\ v \in Seq(Byte) /\ Len(v) = Len(b) /\ Scan(b, d).cursor \in Nat
           /\ \A x \in 0 .. Len(b) - 1 : x < d => ByteAt(v, x) = ByteAt(b, x)
           /\ \A e \in 0 .. Len(b) : d < e => From(b, e)[0].kind = "raised"
           /\ Doomed(v, d)
           /\ TypeAt(b, d) # EndOfTable => GoesOn(v, d, Scan(b, d).cursor)
<1> DEFINE f == FormattedEnd(b, d)
           U == UuidBytes(b, d)
<1>1. d \in Nat /\ f \in Nat /\ d + 4 <= f /\ f <= Len(b) /\ Len(b) \in Nat
  <2>1. Len(b) \in 0 .. Len(b) /\ d \in Nat
    BY LenProperties DEF Leads
  <2> QED
    BY <2>1, HeaderFacts
<1>2. PICK c, ends : Found(b, d, c, ends)
  BY <1>1, ScanFinds
<1>3. /\ c \in f .. Len(b) /\ Scan(b, d).cursor = c
      /\ \A x \in c .. Len(b) - 1 : ByteAt(b, x) # NUL
  BY <1>2 DEF Found
<1>4. /\ v \in Seq(Byte) /\ Len(v) = Len(b)
      /\ \A x \in 0 .. f - 1 : x \notin U => ByteAt(v, x) = ByteAt(b, x)
      /\ \A x \in U : x \in d + 8 .. f - 1 /\ ByteAt(v, x) = 0
      /\ \A x \in f .. Len(b) - 1 : ByteAt(v, x) = NUL <=> ByteAt(b, x) = NUL
  BY <1>1, <1>2, ScrubKeeps
<1> HIDE DEF U
<1>5. \A x \in 0 .. d + 3 : ByteAt(v, x) = ByteAt(b, x)
  <2> HIDE DEF f
  <2> SUFFICES ASSUME NEW x \in 0 .. d + 3 PROVE ByteAt(v, x) = ByteAt(b, x)
    OBVIOUS
  <2>1. x \in 0 .. f - 1 /\ x \notin U
    BY <1>1, <1>4
  <2> QED
    BY <1>4, <2>1
<1>6. /\ TypeAt(v, d) = TypeAt(b, d) /\ FormattedEnd(v, d) = f
      /\ \A e : HeaderOK(v, d, e) <=> HeaderOK(b, d, e)
  <2>1. \A x \in d .. d + 3 : ByteAt(v, x) = ByteAt(b, x)
    BY <1>1, <1>5
  <2> QED
    BY <1>1, <2>1, HeaderStands
<1>7. Ends(v, d) = {}
  <2> SUFFICES ASSUME NEW k \in Ends(v, d) PROVE FALSE
    OBVIOUS
  <2>1. k \in f .. Len(b) - 2
    BY <1>4, <1>6 DEF Ends, EndsStrings
  <2>2. \A x \in f .. k + 1 : ByteAt(b, x) = NUL <=> ByteAt(v, x) = NUL
    BY <1>1, <1>4, <2>1
  <2>3. k \in Ends(b, d)
    BY <1>1, <1>4, <1>6, <2>2, EndStands
  <2> QED
    BY <2>3
<1>8. Doomed(v, d)
  BY <1>4, <1>6, <1>7 DEF Doomed
<1>9. ASSUME NEW e \in 0 .. Len(b), d < e PROVE From(b, e)[0].kind = "raised"
  <2>1. From(b, e)[d].kind = "raised"
    BY <1>1, <1>9, NoRound
  <2> QED
    BY <1>9, <2>1, RaisedFromStart
<1>10. ASSUME TypeAt(b, d) # EndOfTable PROVE GoesOn(v, d, c)
  <2>1. ASSUME NEW x \in c .. Len(v) - 1 PROVE ByteAt(v, x) # NUL
    <3>1. x \in c .. Len(b) - 1 /\ x \in f .. Len(b) - 1
      BY <1>1, <1>3, <1>4
    <3> QED
      BY <1>3, <1>4, <3>1
  <2>2. c \in Nat /\ f <= c
    BY <1>1, <1>3
  <2> QED
    BY <1>6, <1>10, <2>1, <2>2 DEF GoesOn
<1>11. \A x \in 0 .. Len(b) - 1 : x < d => ByteAt(v, x) = ByteAt(b, x)
  BY <1>1, <1>5
<1>12. Scan(b, d).cursor \in Nat
  BY <1>1, <1>3
<1> QED
  BY <1>3, <1>4, <1>8, <1>9, <1>10, <1>11, <1>12

LEMMA ScrubAhead ==
    ASSUME NEW b \in Seq(Byte), NEW d \in Nat, Doomed(b, d), NEW o, GoesOn(b, d, o),
           HeaderOK(b, o, Len(b)), NEW v, v = Overwrite(b, o)
    PROVE  /\ v \in Seq(Byte) /\ Len(v) = Len(b)
           /\ \A x \in 0 .. Len(b) - 1 : x < d => ByteAt(v, x) = ByteAt(b, x)
           /\ Doomed(v, d) /\ GoesOn(v, d, Scan(b, o).cursor)
<1> DEFINE f == FormattedEnd(b, o)
           g == FormattedEnd(b, d)
           U == UuidBytes(b, o)
<1>1. /\ o \in Nat /\ g <= o /\ TypeAt(b, d) # EndOfTable
      /\ \A x \in o .. Len(b) - 1 : ByteAt(b, x) # NUL
  BY DEF GoesOn
<1>2. f \in Nat /\ o + 4 <= f /\ f <= Len(b) /\ Len(b) \in Nat
  <2>1. Len(b) \in 0 .. Len(b)
    BY LenProperties
  <2> QED
    BY <1>1, <2>1, HeaderFacts
<1>3. g \in Nat /\ d + 4 <= g
  <2>1. Len(b) \in 0 .. Len(b) /\ HeaderOK(b, d, Len(b))
    BY LenProperties DEF Doomed
  <2> QED
    BY <2>1, HeaderFacts
<1>4. PICK c, ends : Found(b, o, c, ends)
  BY <1>1, <1>2, ScanFinds
<1>5. Ends(b, o) = {}
  <2> SUFFICES ASSUME NEW k \in Ends(b, o) PROVE FALSE
    OBVIOUS
  <2>1. k \in f .. Len(b) - 2 /\ ByteAt(b, k) = NUL
    BY DEF Ends, EndsStrings, DoubleNul
  <2> HIDE DEF f
  <2> QED
    BY <1>1, <1>2, <2>1
<1>6. c = f /\ Scan(b, o).cursor = f
  <2>1. NulsAre(b, f, c, ends) /\ c \in f .. Len(b) /\ Scan(b, o).cursor = c
    BY <1>4, <1>5 DEF Found
  <2> HIDE DEF f
  <2>2. /\ Len(ends) \in Nat
        /\ \A n \in 1 .. Len(ends) : ends[n] \in f .. c - 1 /\ ByteAt(b, ends[n]) = NUL
        /\ c = IF Len(ends) = 0 THEN f ELSE ends[Len(ends)] + 1
    BY <2>1, LenProperties DEF NulsAre
  <2>3. Len(ends) = 0
    <3> SUFFICES ASSUME Len(ends) # 0 PROVE FALSE
      OBVIOUS
    <3> DEFINE y == ends[Len(ends)]
    <3>1. Len(ends) \in 1 .. Len(ends)
      BY <2>2
    <3>2. y \in f .. c - 1 /\ ByteAt(b, y) = NUL
      BY <2>2, <3>1
    <3> HIDE DEF y
    <3>3. y \in o .. Len(b) - 1
      BY <1>1, <1>2, <2>1, <3>2
    <3> QED
      BY <1>1, <3>2, <3>3
  <2> QED
    BY <2>1, <2>2, <2>3
<1>7. /\ v \in Seq(Byte) /\ Len(v) = Len(b)
      /\ \A x \in 0 .. f - 1 : x \notin U => ByteAt(v, x) = ByteAt(b, x)
      /\ \A x \in U : x \in o + 8 .. f - 1 /\ ByteAt(v, x) = 0
      /\ \A x \in f .. Len(b) - 1 :
            x \notin StringBytes(b, o) => ByteAt(v, x) = ByteAt(b, x)
      /\ \A x \in StringBytes(b, o) : x \in f .. c - 2
  BY <1>1, <1>4, ScrubKeeps
<1>8. /\ \A x \in 0 .. Len(b) - 1 : x \notin U => ByteAt(v, x) = ByteAt(b, x)
      /\ \A x \in U : x \in o + 8 .. f - 1 /\ x \in Nat /\ x < Len(b) /\ ByteAt(v, x) = 0
      /\ U = {} \/ U = o + 8 .. o + 23
  <2>1. \A x \in f .. Len(b) - 1 : x \notin StringBytes(b, o)
    <3> HIDE DEF f
    <3> QED
      BY <1>2, <1>6, <1>7
  <2>2. U = {} \/ U = o + 8 .. o + 23
    BY DEF UuidBytes
  <2> HIDE DEF f, U
  <2>3. ASSUME NEW x \in 0 .. Len(b) - 1, x \notin U PROVE ByteAt(v, x) = ByteAt(b, x)
    <3>1. x \in 0 .. f - 1 \/ x \in f .. Len(b) - 1
      BY <1>2
    <3> QED
      BY <1>7, <2>1, <2>3, <3>1
  <2>4. ASSUME NEW x \in U
        PROVE  x \in o + 8 .. f - 1 /\ x \in Nat /\ x < Len(b) /\ ByteAt(v, x) = 0
    BY <1>1, <1>2, <1>7
  <2> QED
    BY <2>2, <2>3, <2>4
<1> HIDE DEF f, U
<1>9. \A x \in 0 .. Len(b) - 1 : x < o + 8 => ByteAt(v, x) = ByteAt(b, x)
  BY <1>1, <1>8
<1>10. /\ TypeAt(v, d) = TypeAt(b, d) /\ FormattedEnd(v, d) = g
       /\ \A e : HeaderOK(v, d, e) <=> HeaderOK(b, d, e)
  <2>1. \A x \in d .. d + 3 : ByteAt(v, x) = ByteAt(b, x)
    <3> HIDE DEF g
    <3> QED
      BY <1>1, <1>2, <1>3, <1>9
  <2> QED
    BY <2>1, HeaderStands
<1> HIDE DEF g
<1>11. ASSUME NEW k \in Ends(v, d)
       PROVE  k + 3 < Len(v) /\ ByteAt(v, k + 3) = 0
  <2>1. /\ k \in g .. Len(b) - 2 /\ DoubleNul(v, k)
        /\ \A j \in g .. k - 1 : ~ DoubleNul(v, j)
    BY <1>7, <1>10 DEF Ends, EndsStrings
  <2>2. ByteAt(v, k) = 0 /\ ByteAt(v, k + 1) = 0 /\ k \in Nat
    BY <1>3, <2>1 DEF DoubleNul, NUL
  <2>3. \A x \in o .. Len(b) - 1 : ByteAt(v, x) = 0 => x \in U
    BY <1>1, <1>8 DEF NUL
  <2>4. CASE k + 1 < o
    <3>1. DoubleNul(b, k)
      <4>1. k \in 0 .. Len(b) - 1 /\ k + 1 \in 0 .. Len(b) - 1 /\ k + 1 < Len(b)
        BY <1>2, <1>3, <2>1, <2>2
      <4>2. k < o + 8 /\ k + 1 < o + 8
        BY <1>1, <2>2, <2>4
      <4>3. ByteAt(b, k) = 0 /\ ByteAt(b, k + 1) = 0
        BY <1>9, <2>2, <4>1, <4>2
      <4> QED
        BY <4>1, <4>3 DEF DoubleNul, NUL
    <3>2. \A j \in g .. k - 1 : ~ DoubleNul(b, j)
      <4> SUFFICES ASSUME NEW j \in g .. k - 1, DoubleNul(b, j) PROVE FALSE
        OBVIOUS
      <4>1. j \in 0 .. Len(b) - 1 /\ j + 1 \in 0 .. Len(b) - 1
        BY <1>2, <1>3, <2>1, <2>2
      <4>2. j + 1 < o + 8 /\ j < o + 8
        BY <1>1, <1>3, <2>1, <2>2, <2>4
      <4>3. DoubleNul(v, j)
        BY <1>7, <1>9, <4>1, <4>2 DEF DoubleNul
      <4> QED
        BY <2>1, <4>3
    <3>3. k \in Ends(b, d)
      BY <1>2, <1>3, <2>1, <3>1, <3>2 DEF Ends, EndsStrings, g
    <3>4. k + 3 < Len(b) /\ ByteAt(b, k + 3) = 0
      BY <3>3 DEF Doomed
    <3>5. k + 3 \in 0 .. Len(b) - 1
      BY <1>2, <2>2, <3>4
    <3> QED
      BY <1>7, <1>8, <3>4, <3>5
  <2>5. CASE ~ (k + 1 < o)
    <3>1. k + 1 \in U
      BY <1>1, <1>2, <2>1, <2>2, <2>3, <2>5
    <3>2. U = o + 8 .. o + 23
      BY <1>8, <3>1
    <3>3. k \in U
      <4>1. k \in o .. Len(b) - 1
        BY <1>1, <1>2, <2>1, <2>2, <3>1, <3>2
      <4> QED
        BY <2>2, <2>3, <4>1
    <3>4. DoubleNul(v, o + 8)
      <4>1. o + 8 \in U /\ o + 9 \in U /\ o + 8 + 1 = o + 9
        BY <1>1, <3>2
      <4> QED
        BY <1>7, <1>8, <4>1 DEF DoubleNul, NUL
    <3>5. k = o + 8
      <4>1. k \in o + 8 .. o + 23
        BY <3>2, <3>3
      <4>2. ~ (o + 8 \in g .. k - 1)
        BY <2>1, <3>4
      <4> QED
        BY <1>1, <1>3, <4>1, <4>2
    <3>6. k + 3 \in U
      BY <1>1, <3>2, <3>5
    <3> QED
      BY <1>7, <1>8, <3>6
  <2> QED
    BY <2>4, <2>5
<1>12. Doomed(v, d)
  <2>1. HeaderOK(b, d, Len(b))
    BY DEF Doomed
  <2> QED
    BY <1>1, <1>7, <1>10, <1>11, <2>1 DEF Doomed
<1>13. GoesOn(v, d, f)
  <2>1. ASSUME NEW x \in f .. Len(v) - 1 PROVE ByteAt(v, x) # NUL
    <3>1. x \in o .. Len(b) - 1 /\ x \notin U /\ x \in 0 .. Len(b) - 1
      BY <1>1, <1>2, <1>7, <1>8
    <3> QED
      BY <1>1, <1>8, <3>1
  <2>2. g <= f
    BY <1>1, <1>2, <1>3
  <2> QED
    BY <1>1, <1>2, <1>10, <2>1, <2>2 DEF GoesOn
<1>14. \A x \in 0 .. Len(b) - 1 : x < d => ByteAt(v, x) = ByteAt(b, x)
  BY <1>1, <1>3, <1>9
<1> QED
  BY <1>6, <1>7, <1>12, <1>13, <1>14

-----------------------------------------------------------------------------
(***************************************************************************)
(* The invariant.                                                          *)
(***************************************************************************)

\* Whatever was returned is, but for secrets, and the error stays an error.
Kept(b, v) ==
    /\ \A e \in 0 .. Len(b) :
          From(b, e)[0].kind = "returned" => Similar(From(b, e)[0], From(v, e)[0])
    /\ From(b, Len(b))[0].kind = "raised" => From(v, Len(b))[0].kind = "raised"

\* Nothing is returned of a table that reaches behind d.
OnlyBefore(b, d) ==
    \A e \in 0 .. Len(b) : From(b, e)[0].kind = "returned" => e <= d

\* The sanitizer has gone as far as it can, and cleaned the End-of-Table it met.
Final(b, d) ==
    \/ ~ Visits(b, d)
    \/ TypeAt(b, d) = EndOfTable /\ Ends(b, d) # {} /\ IsClean(b, d)

Types ==
    /\ data \in Seq(Byte) /\ out \in Seq(Byte) /\ Len(out) = Len(data)
    /\ offset \in Nat /\ pc \in {"loop", "done"} /\ pass \in {1, 2}

\* The call is at d; or it is over, and was there last; or the structure at d is
\* damaged, and no caller who was given anything saw it.
Status(d) ==
    \/ pc = "loop" /\ d = offset
    \/ pc = "done" /\ Final(out, d)
    \/ /\ Doomed(out, d) /\ OnlyBefore(data, d)
       /\ pc = "loop" => GoesOn(out, d, offset)

OnItsWay == \E P, d : Leads(out, P, d) /\ Status(d)

\* A second call on what can be read goes over clean structures only.
NothingToDo ==
    pass = 2 /\ From(data, Len(data))[0].kind = "returned" =>
        \E P, d : Leads(out, P, d) /\ Final(out, d) /\ (pc = "loop" => offset \in P \cup {d})

Inv == Types /\ Kept(data, out) /\ OnItsWay /\ NothingToDo

LEMMA KeptReflexive ==
    ASSUME NEW b \in Seq(Byte)
    PROVE  Kept(b, b)
<1>1. \A e \in 0 .. Len(b) : IsResult(From(b, e)[0])
  BY FromIsResult
<1> QED
  BY <1>1, SimilarRefl DEF Kept

LEMMA KeptAll ==
    ASSUME NEW b \in Seq(Byte), NEW c \in Seq(Byte), NEW v \in Seq(Byte),
           Len(c) = Len(b), Len(v) = Len(b), Kept(b, c),
           \A e \in 0 .. Len(c) : Similar(From(c, e)[0], From(v, e)[0])
    PROVE  Kept(b, v)
<1>1. Len(b) \in 0 .. Len(b)
  BY LenProperties
<1>2. ASSUME NEW e \in 0 .. Len(b), From(b, e)[0].kind = "returned"
      PROVE  Similar(From(b, e)[0], From(v, e)[0])
  <2>1. Similar(From(b, e)[0], From(c, e)[0]) /\ Similar(From(c, e)[0], From(v, e)[0])
    BY <1>2 DEF Kept
  <2>2. IsResult(From(b, e)[0])
    BY FromIsResult
  <2>3. IsResult(From(c, e)[0])
    BY FromIsResult
  <2>4. IsResult(From(v, e)[0])
    BY FromIsResult
  <2> QED
    BY <2>1, <2>2, <2>3, <2>4, SimilarTrans
<1>3. ASSUME From(b, Len(b))[0].kind = "raised" PROVE From(v, Len(b))[0].kind = "raised"
  <2>1. From(c, Len(b))[0].kind = "raised"
    BY <1>3 DEF Kept
  <2>2. Similar(From(c, Len(b))[0], From(v, Len(b))[0])
    BY <1>1
  <2> QED
    BY <2>1, <2>2 DEF Similar
<1> QED
  BY <1>2, <1>3 DEF Kept

LEMMA KeptBefore ==
    ASSUME NEW b \in Seq(Byte), NEW c \in Seq(Byte), NEW v \in Seq(Byte),
           Len(c) = Len(b), Len(v) = Len(b), Kept(b, c),
           NEW P, NEW d, Leads(c, P, d), OnlyBefore(b, d), Doomed(v, d),
           \A x \in 0 .. Len(c) - 1 : x < d => ByteAt(v, x) = ByteAt(c, x)
    PROVE  Kept(b, v) /\ Leads(v, P, d)
<1>1. Leads(v, P, d)
  BY WayStands
<1>2. ASSUME NEW e \in 0 .. Len(b), From(b, e)[0].kind = "returned"
      PROVE  Similar(From(b, e)[0], From(v, e)[0])
  <2>1. e <= d /\ e \in 0 .. Len(c)
    BY <1>2 DEF OnlyBefore
  <2>2. Similar(From(b, e)[0], From(c, e)[0])
    BY <1>2 DEF Kept
  <2>3. Similar(From(c, e)[0], From(v, e)[0])
    BY <2>1, SimilarBefore
  <2>4. IsResult(From(b, e)[0])
    BY FromIsResult
  <2>5. IsResult(From(c, e)[0])
    BY FromIsResult
  <2>6. IsResult(From(v, e)[0])
    BY FromIsResult
  <2> QED
    BY <2>2, <2>3, <2>4, <2>5, <2>6, SimilarTrans
<1>3. From(v, Len(v))[0].kind = "raised"
  BY <1>1, DoomedRaises
<1> QED
  BY <1>1, <1>2, <1>3 DEF Kept

LEMMA VisitsHeader ==
    ASSUME NEW b \in Seq(Byte), NEW o \in Nat
    PROVE  Visits(b, o) <=> HeaderOK(b, o, Len(b))
<1>1. ASSUME HeaderOK(b, o, Len(b)) PROVE o < Len(b)
  <2>1. Len(b) \in 0 .. Len(b)
    BY LenProperties
  <2> QED
    BY <1>1, <2>1, HeaderFacts
<1> QED
  BY <1>1 DEF Visits, HeaderOK

LEMMA InitInv == Init => Inv
<1> SUFFICES ASSUME Init PROVE Inv
  OBVIOUS
<1>1. /\ data \in Seq(Byte) /\ out = data /\ offset = 0 /\ pc = "loop" /\ pass = 1
  BY SanitizerTables DEF Init
<1>2. Leads(out, {}, 0)
  BY DEF Leads
<1>3. Kept(data, out)
  BY <1>1, KeptReflexive
<1>4. OnItsWay
  BY <1>1, <1>2 DEF OnItsWay, Status
<1> QED
  BY <1>1, <1>3, <1>4 DEF Inv, Types, NothingToDo

\* A second call meets clean structures and changes none.
LEMMA SecondScrub ==
    ASSUME Inv, Scrub, pass = 2, From(data, Len(data))[0].kind = "returned"
    PROVE  out' = out /\ NothingToDo'
<1>1. /\ out \in Seq(Byte) /\ offset \in Nat /\ data' = data /\ Len(out) \in 0 .. Len(out)
      /\ HeaderOK(out, offset, Len(out)) /\ pc = "loop"
      /\ out' = Overwrite(out, offset) /\ offset' = Scan(out, offset).cursor
      /\ pc' = IF TypeAt(out, offset) = EndOfTable THEN "done" ELSE "loop"
  <2>1. out \in Seq(Byte) /\ offset \in Nat
    BY DEF Inv, Types
  <2>2. HeaderOK(out, offset, Len(out))
    BY <2>1, VisitsHeader DEF Scrub
  <2> QED
    BY <2>1, <2>2, LenProperties DEF Scrub
<1>2. PICK P, d : Leads(out, P, d) /\ Final(out, d) /\ offset \in P \cup {d}
  BY <1>1 DEF Inv, NothingToDo
<1>3. IsClean(out, offset) /\ (pc' = "loop" => offset' \in P \cup {d})
  <2>1. CASE offset \in P
    <3>1. PICK k \in Ends(out, offset) : k + 2 \in P \cup {d}
      BY <1>2, <2>1 DEF Leads
    <3>2. TypeAt(out, offset) # EndOfTable /\ IsClean(out, offset)
      BY <1>2, <2>1 DEF Leads
    <3>3. FormattedEnd(out, offset) \in 0 .. Len(out)
      BY <1>1, HeaderFacts
    <3>4. PICK c, ends : Found(out, offset, c, ends)
      BY <1>1, <3>3, ScanFinds
    <3>5. offset' = k + 2
      BY <1>1, <3>3, <3>4, FoundArea
    <3> QED
      BY <3>1, <3>2, <3>5
  <2>2. CASE offset = d
    <3>1. Visits(out, d)
      BY <1>1, <2>2, VisitsHeader
    <3>2. TypeAt(out, offset) = EndOfTable /\ IsClean(out, offset)
      BY <1>2, <2>2, <3>1 DEF Final
    <3> QED
      BY <1>1, <3>2
  <2> QED
    BY <1>2, <2>1, <2>2
<1>4. out' = out
  BY <1>1, <1>3, CleanIsFixed
<1>5. \E Q, q : Leads(out', Q, q) /\ Final(out', q) /\ (pc' = "loop" => offset' \in Q \cup {q})
  BY <1>2, <1>3, <1>4
<1> QED
  BY <1>4, <1>5 DEF NothingToDo

\* The three steps again, on the variables.
LEMMA ScrubKeepsInv ==
    ASSUME Inv, Scrub
    PROVE  Types' /\ Kept(data, out)' /\ OnItsWay'
<1>1. /\ data \in Seq(Byte) /\ out \in Seq(Byte) /\ Len(out) = Len(data) /\ pass \in {1, 2}
      /\ offset \in Nat /\ pc = "loop" /\ Kept(data, out)
  BY DEF Inv, Types, Scrub
<1>2. /\ HeaderOK(out, offset, Len(out))
      /\ out' = Overwrite(out, offset) /\ offset' = Scan(out, offset).cursor
      /\ pc' = IF TypeAt(out, offset) = EndOfTable THEN "done" ELSE "loop"
      /\ data' = data /\ pass' = pass
  BY <1>1, VisitsHeader DEF Scrub
<1>3. pc' \in {"loop", "done"} /\ (pc' = "loop" <=> TypeAt(out, offset) # EndOfTable)
  BY <1>2
<1>4. PICK P, d : Leads(out, P, d) /\ Status(d)
  BY DEF Inv, OnItsWay
<1>5. d \in Nat
  BY <1>4 DEF Leads
<1>6. CASE d = offset /\ Ends(out, d) # {}
  <2>1. PICK k \in Ends(out, d) : TRUE
    BY <1>6
  <2>2. /\ offset' = k + 2 /\ k \in Nat /\ d < k
        /\ out' \in Seq(Byte) /\ Len(out') = Len(out)
        /\ \A e \in 0 .. Len(out) : Similar(From(out, e)[0], From(out', e)[0])
        /\ Leads(out', P, d) /\ HeaderOK(out', d, Len(out')) /\ k \in Ends(out', d)
        /\ IsClean(out', d) /\ TypeAt(out', d) = TypeAt(out, d)
        /\ TypeAt(out, d) # EndOfTable => Leads(out', P \cup {d}, k + 2)
    <3>1. HeaderOK(out, d, Len(out)) /\ out' = Overwrite(out, d) /\ offset' = Scan(out, d).cursor
      BY <1>2, <1>6
    <3> QED
      BY ZenonT(60), <1>1, <1>4, <2>1, <3>1, ScrubTerminated
  <2>3. Types'
    BY <1>1, <1>2, <1>3, <2>2 DEF Types
  <2>4. Kept(data, out')
    BY <1>1, <2>2, KeptAll
  <2>5. OnItsWay'
    <3>1. CASE TypeAt(out, d) # EndOfTable
      <4>1. Leads(out', P \cup {d}, offset') /\ Status(offset)'
        BY <1>3, <1>6, <2>2, <3>1 DEF Status
      <4> QED
        BY <4>1 DEF OnItsWay, Status
    <3>2. CASE TypeAt(out, d) = EndOfTable
      <4>1. pc' = "done" /\ Final(out', d)
        BY <1>3, <1>6, <2>2, <3>2 DEF Final
      <4> QED
        BY <2>2, <4>1 DEF OnItsWay, Status
    <3> QED
      BY <3>1, <3>2
  <2> QED
    BY <1>2, <2>3, <2>4, <2>5
<1>7. CASE d = offset /\ Ends(out, d) = {}
  <2>1. /\ out' \in Seq(Byte) /\ Len(out') = Len(out) /\ offset' \in Nat
        /\ \A x \in 0 .. Len(out) - 1 : x < d => ByteAt(out', x) = ByteAt(out, x)
        /\ \A e \in 0 .. Len(out) : d < e => From(out, e)[0].kind = "raised"
        /\ Doomed(out', d)
        /\ TypeAt(out, d) # EndOfTable => GoesOn(out', d, offset')
    <3>1. HeaderOK(out, d, Len(out)) /\ out' = Overwrite(out, d) /\ offset' = Scan(out, d).cursor
      BY <1>2, <1>7
    <3> QED
      BY <1>1, <1>4, <1>7, <3>1, ScrubUnterminated
  <2>2. Types'
    BY <1>1, <1>2, <1>3, <2>1 DEF Types
  <2>3. OnlyBefore(data, d)
    <3> SUFFICES ASSUME NEW e \in 0 .. Len(data), From(data, e)[0].kind = "returned"
                 PROVE  e <= d
      BY DEF OnlyBefore
    <3>1. From(out, e)[0].kind = "returned"
      BY <1>1 DEF Kept, Similar
    <3>2. ~ (d < e)
      BY <1>1, <2>1, <3>1
    <3>3. e \in Nat
      BY <1>1, LenProperties
    <3> QED
      BY <1>5, <3>2, <3>3
  <2>4. Kept(data, out') /\ Leads(out', P, d)
    BY <1>1, <1>4, <2>1, <2>3, KeptBefore
  <2>5. OnItsWay'
    <3>1. pc' = "loop" => GoesOn(out', d, offset')
      BY <1>3, <1>7, <2>1
    <3> QED
      BY <1>2, <2>1, <2>3, <2>4, <3>1 DEF OnItsWay, Status
  <2> QED
    BY <1>2, <2>2, <2>4, <2>5
<1>8. CASE Doomed(out, d) /\ OnlyBefore(data, d) /\ GoesOn(out, d, offset)
  <2>1. /\ out' \in Seq(Byte) /\ Len(out') = Len(out)
        /\ \A x \in 0 .. Len(out) - 1 : x < d => ByteAt(out', x) = ByteAt(out, x)
        /\ Doomed(out', d) /\ GoesOn(out', d, offset')
    BY <1>1, <1>2, <1>5, <1>8, ScrubAhead
  <2>2. Types'
    <3>1. offset' \in Nat
      BY <2>1 DEF GoesOn
    <3> QED
      BY <1>1, <1>2, <1>3, <2>1, <3>1 DEF Types
  <2>3. Kept(data, out') /\ Leads(out', P, d)
    BY <1>1, <1>4, <1>8, <2>1, KeptBefore
  <2>4. OnItsWay'
    BY <1>2, <1>8, <2>1, <2>3 DEF OnItsWay, Status
  <2> QED
    BY <1>2, <2>2, <2>3, <2>4
<1> QED
  BY <1>1, <1>4, <1>6, <1>7, <1>8 DEF Status

LEMMA NextInv == Inv /\ [Next]_vars => Inv'
<1> SUFFICES ASSUME Inv, [Next]_vars PROVE Inv'
  OBVIOUS
<1>1. /\ Types /\ Kept(data, out) /\ OnItsWay /\ NothingToDo
      /\ data \in Seq(Byte) /\ out \in Seq(Byte) /\ Len(out) = Len(data)
      /\ offset \in Nat /\ pc \in {"loop", "done"} /\ pass \in {1, 2}
  BY DEF Inv, Types
<1>2. CASE Scrub
  <2>1. Types' /\ Kept(data, out)' /\ OnItsWay'
    BY <1>2, ScrubKeepsInv
  <2>2. NothingToDo'
    <3>1. CASE pass = 2 /\ From(data, Len(data))[0].kind = "returned"
      BY <1>2, <3>1, SecondScrub
    <3>2. CASE ~ (pass = 2 /\ From(data, Len(data))[0].kind = "returned")
      <4>1. pass' = pass /\ data' = data
        BY <1>2 DEF Scrub
      <4> QED
        BY <3>2, <4>1 DEF NothingToDo
    <3> QED
      BY <3>1, <3>2
  <2> QED
    BY <2>1, <2>2 DEF Inv
<1>3. CASE Stop
  <2>1. /\ pc = "loop" /\ ~ Visits(out, offset) /\ pc' = "done"
        /\ data' = data /\ out' = out /\ offset' = offset /\ pass' = pass
    BY <1>3 DEF Stop
  <2>2. OnItsWay'
    <3>1. PICK P, d : Leads(out, P, d) /\ Status(d)
      BY <1>1 DEF OnItsWay
    <3>2. Leads(out', P, d) /\ (\/ Final(out', d)
                                \/ Doomed(out', d) /\ OnlyBefore(data', d))
      BY <2>1, <3>1 DEF Status, Final
    <3> QED
      BY <2>1, <3>2 DEF OnItsWay, Status
  <2>3. Types' /\ Kept(data', out') /\ NothingToDo'
    BY <1>1, <2>1 DEF Types, NothingToDo
  <2> QED
    BY <2>2, <2>3 DEF Inv
<1>4. CASE SanitizeAgain
  <2>1. /\ pc = "done" /\ pass' = 2 /\ offset' = 0 /\ pc' = "loop"
        /\ data' = data /\ out' = out
    BY <1>4 DEF SanitizeAgain
  <2>2. OnItsWay'
    <3>1. Leads(out', {}, 0)
      BY DEF Leads
    <3> QED
      BY <2>1, <3>1 DEF OnItsWay, Status
  <2>3. NothingToDo'
    <3> SUFFICES ASSUME From(data, Len(data))[0].kind = "returned"
                 PROVE  \E P, d : Leads(out, P, d) /\ Final(out, d) /\ 0 \in P \cup {d}
      BY <2>1 DEF NothingToDo
    <3>1. PICK P, d : Leads(out, P, d) /\ Status(d)
      BY <1>1 DEF OnItsWay
    <3>2. CASE Doomed(out, d) /\ OnlyBefore(data, d)
      <4>1. d < Len(out) /\ d \in Nat /\ Len(data) \in Nat /\ Len(data) \in 0 .. Len(data)
        <5>1. d < Len(out)
          BY <1>1, <3>1, <3>2, DoomedRaises
        <5> QED
          BY <1>1, <3>1, <5>1, LenProperties DEF Leads
      <4>2. Len(data) <= d
        BY <3>2, <4>1 DEF OnlyBefore
      <4> QED
        BY <1>1, <4>1, <4>2
    <3>3. CASE Final(out, d)
      BY <3>1, <3>3 DEF Leads
    <3> QED
      BY <2>1, <3>1, <3>2, <3>3 DEF Status
  <2>4. Types' /\ Kept(data', out')
    BY <1>1, <2>1 DEF Types
  <2> QED
    BY <2>2, <2>3, <2>4 DEF Inv
<1>5. CASE UNCHANGED vars
  <2>1. data' = data /\ out' = out /\ offset' = offset /\ pc' = pc /\ pass' = pass
    BY <1>5 DEF vars
  <2> QED
    BY <1>1, <2>1 DEF Inv, Types, OnItsWay, Status, NothingToDo
<1> QED
  BY <1>2, <1>3, <1>4, <1>5 DEF Next, Finished

LEMMA AlwaysInv == Spec => []Inv
<1>1. Init => Inv
  BY InitInv
<1>2. Inv /\ [Next]_vars => Inv'
  BY NextInv
<1> QED
  BY <1>1, <1>2, PTL DEF Spec

-----------------------------------------------------------------------------

LEMMA LimitsEnd ==
    ASSUME NEW b \in Seq(Byte), NEW lim \in Limits
    PROVE  /\ EndOffset(b, lim) \in 0 .. Len(b) /\ EndOffset(b, 0) = Len(b)
           /\ Walk(b, lim) = From(b, EndOffset(b, lim))[0]
<1>1. lim \in Nat /\ Len(b) \in Nat
  BY SanitizerLimits, LenProperties
<1> QED
  BY <1>1, WalkIsFrom DEF EndOffset

\* At every moment and for every declared length the half-sanitized table reads as
\* the captured one does but for its secrets, and damage stays damage (_sanitize.py,
\* lines 3-7 and 43-95, against parser.py, lines 86-143).
THEOREM SanitizerChangesSecretsOnly == Spec => []OnlySecretsChange
<1>1. Inv => OnlySecretsChange
  <2> SUFFICES ASSUME Inv, NEW lim \in Limits
               PROVE  IF Walk(data, lim).kind = "returned"
                      THEN /\ Walk(out, lim).kind = "returned"
                           /\ SameButSecrets(Walk(data, lim).structures, Walk(out, lim).structures)
                      ELSE lim = 0 => Walk(out, lim).kind = "raised"
    BY DEF OnlySecretsChange
  <2> DEFINE e == EndOffset(data, lim)
  <2>1. data \in Seq(Byte) /\ out \in Seq(Byte) /\ Len(out) = Len(data) /\ Kept(data, out)
    BY DEF Inv, Types
  <2>2. e \in 0 .. Len(data) /\ (lim = 0 => e = Len(data)) /\ Walk(data, lim) = From(data, e)[0]
    BY <2>1, LimitsEnd
  <2>3. Walk(out, lim) = From(out, e)[0]
    <3>1. EndOffset(out, lim) = e
      BY <2>1 DEF EndOffset
    <3> QED
      BY <2>1, <3>1, LimitsEnd
  <2> HIDE DEF e
  <2>4. CASE Walk(data, lim).kind = "returned"
    BY <2>1, <2>2, <2>3, <2>4 DEF Kept, Similar
  <2>5. CASE Walk(data, lim).kind # "returned"
    <3>1. Walk(data, lim).kind = "raised"
      BY <2>1, <2>2, <2>5, KindsOfOutcome
    <3> QED
      BY <2>1, <2>2, <2>3, <2>5, <3>1 DEF Kept
  <2> QED
    BY <2>4, <2>5
<1> QED
  BY <1>1, AlwaysInv, PTL

\* When a call is over nothing the parser could read before holds a secret
\* (_sanitize.py, lines 43-57 and 75-91).
THEOREM SanitizerLeavesNoSecret == Spec => []NoSecretIsLeft
<1>1. Inv => NoSecretIsLeft
  <2> SUFFICES ASSUME Inv, pc = "done", NEW lim \in Limits, Walk(data, lim).kind = "returned"
               PROVE  \A i \in DOMAIN Walk(out, lim).structures :
                         NoSecrets(Walk(out, lim).structures[i])
    BY DEF NoSecretIsLeft
  <2> DEFINE e == EndOffset(data, lim)
  <2>1. data \in Seq(Byte) /\ out \in Seq(Byte) /\ Len(out) = Len(data) /\ Kept(data, out)
    BY DEF Inv, Types
  <2>2. e \in 0 .. Len(data) /\ e \in 0 .. Len(out) /\ e \in Nat /\ Walk(data, lim) = From(data, e)[0]
    BY <2>1, LimitsEnd, LenProperties
  <2>3. Walk(out, lim) = From(out, e)[0]
    <3>1. EndOffset(out, lim) = e
      BY <2>1 DEF EndOffset
    <3> QED
      BY <2>1, <3>1, LimitsEnd
  <2> HIDE DEF e
  <2>4. From(data, e)[0].kind = "returned" /\ From(out, e)[0].kind = "returned"
    BY <2>1, <2>2 DEF Kept, Similar
  <2>5. PICK P, d : Leads(out, P, d) /\ Status(d)
    BY DEF Inv, OnItsWay
  <2>6. d \in Nat
    BY <2>5 DEF Leads
  <2>7. HasNone(From(out, e)[d])
    <3>1. CASE e <= d
      <4>1. From(out, e)[d] = Returned(<< >>)
        BY <2>1, <2>2, <2>6, <3>1, NoRound
      <4> QED
        BY <4>1 DEF Returned, HasNone
    <3>2. CASE d < e /\ ~ HeaderOK(out, d, e)
      <4>1. From(out, e)[d].kind = "raised"
        BY <2>1, <2>2, <2>6, <3>2, NoRound
      <4> QED
        BY <4>1 DEF HasNone
    <3>3. CASE d < e /\ HeaderOK(out, d, e)
      <4>1. Final(out, d)
        <5>1. ~ OnlyBefore(data, d)
          BY <2>2, <2>4, <2>6, <3>3 DEF OnlyBefore
        <5> QED
          BY <2>5, <5>1 DEF Status
      <4>2. HeaderOK(out, d, Len(out))
        BY <2>1, <2>2, <2>6, <3>3, LongerHeader
      <4>3. Visits(out, d)
        BY <2>1, <2>6, <4>2, VisitsHeader
      <4>4. TypeAt(out, d) = EndOfTable /\ IsClean(out, d) /\ Ends(out, d) # {}
        BY <4>1, <4>3 DEF Final
      <4>5. PICK k \in Ends(out, d) : TRUE
        BY <4>4
      <4>6. Round(out, e, d, k)
        BY <2>1, <2>2, <2>6, Rounds
      <4>7. From(out, e)[d] = Returned(<< StructureAt(out, d, k) >>)
        BY <3>3, <4>4, <4>6 DEF Round
      <4>8. NoSecrets(StructureAt(out, d, k))
        BY <2>1, <2>6, <4>2, <4>4, CleanHasNoSecrets
      <4> QED
        BY <4>7, <4>8 DEF Returned, HasNone
    <3> QED
      BY <2>2, <2>6, <3>1, <3>2, <3>3
  <2>8. HasNone(From(out, e)[0])
    BY <2>1, <2>2, <2>5, <2>7, NoneFromStart
  <2> QED
    BY <2>3, <2>4, <2>8 DEF HasNone
<1> QED
  BY <1>1, AlwaysInv, PTL

\* A second run over a sanitized table writes back what it read (lines 37-97).
THEOREM SanitizerIsDoneOnce == Spec => SecondRunChangesNothing
<1>1. Inv /\ [Next]_vars =>
         [pass = 2 /\ Walk(data, 0).kind = "returned" => out' = out]_vars
  <2> SUFFICES ASSUME Inv, [Next]_vars, pass = 2, Walk(data, 0).kind = "returned"
               PROVE  out' = out
    OBVIOUS
  <2>1. Walk(data, 0) = From(data, Len(data))[0]
    <3>1. EndOffset(data, 0) = Len(data)
      BY DEF EndOffset
    <3> QED
      BY <3>1, WalkIsFrom
  <2>2. CASE Scrub
    BY <2>1, <2>2, SecondScrub
  <2>3. CASE ~ Scrub
    BY <2>3 DEF Next, Stop, SanitizeAgain, Finished, vars
  <2> QED
    BY <2>2, <2>3
<1> QED
  BY <1>1, AlwaysInv, PTL DEF Spec, SecondRunChangesNothing
=============================================================================
