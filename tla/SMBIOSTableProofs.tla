-------------------------- MODULE SMBIOSTableProofs -------------------------
(***************************************************************************)
(* Facts about the layout functions of SMBIOSTable, for every byte string. *)
(*                                                                         *)
(* StringsIn numbers the NULs of a string area by counting them; here they *)
(* are listed one after the other, as a loop over the area meets them, and *)
(* the two make the same strings.  Walk is recursive: that its recursion   *)
(* has a solution, and that its values are outcomes of a call, is shown by *)
(* looking at the least number of bytes for which it would not be so.      *)
(***************************************************************************)
EXTENDS SMBIOSTable, SequenceTheorems, FiniteSetTheorems, WellFoundedInduction, TLAPS

\* A nonempty set of naturals has a least element.
LEMMA LeastElement ==
    ASSUME NEW T \in SUBSET Nat, T # {}
    PROVE  \E x \in T : \A y \in T : x <= y
<1>1. PICK x \in T : \A y \in T : << y, x >> \notin OpToRel(<, Nat)
  BY WFMin, NatLessThanWellFounded
<1>2. \A y \in T : ~ (y < x)
  BY <1>1 DEF OpToRel
<1> QED
  BY <1>2

\* A function on 1 .. n is a sequence of length n.
LEMMA FunctionIsSeq ==
    ASSUME NEW S, NEW n \in Nat, NEW s \in [1 .. n -> S]
    PROVE  s \in Seq(S) /\ Len(s) = n
<1>1. s \in Seq(S)
  BY SeqDef
<1>2. Len(s) \in Nat /\ 1 .. Len(s) = 1 .. n
  BY <1>1, LenProperties
<1>3. Len(s) = n
  <2>1. Len(s) <= n
    <3>1. CASE Len(s) = 0
      BY <3>1
    <3>2. CASE Len(s) # 0
      <4>1. Len(s) \in 1 .. n
        BY <1>2, <3>2
      <4> QED
        BY <4>1
    <3> QED
      BY <3>1, <3>2
  <2>2. n <= Len(s)
    <3>1. CASE n = 0
      BY <1>2, <3>1
    <3>2. CASE n # 0
      <4>1. n \in 1 .. Len(s)
        BY <1>2, <3>2
      <4> QED
        BY <1>2, <4>1
    <3> QED
      BY <3>1, <3>2
  <2> QED
    BY <1>2, <2>1, <2>2
<1> QED
  BY <1>1, <1>3

\* Append, index by index.
LEMMA AppendByIndex ==
    ASSUME NEW S, NEW s \in Seq(S), NEW e
    PROVE  Append(s, e) = [n \in 1 .. Len(s) + 1 |-> IF n \in 1 .. Len(s) THEN s[n] ELSE e]
<1> DEFINE T == S \cup {e}
           t == Append(s, e)
<1>1. s \in Seq(T) /\ e \in T /\ Len(s) \in Nat
  BY SeqMonotonic, LenProperties
<1> HIDE DEF T
<1>2. /\ t \in Seq(T) /\ Len(t) = Len(s) + 1 /\ t[Len(s) + 1] = e
      /\ \A n \in 1 .. Len(s) : t[n] = s[n]
  BY <1>1, AppendProperties
<1> HIDE DEF t
<1>3. t = [n \in 1 .. Len(s) + 1 |-> t[n]]
  BY <1>2, LenProperties
<1>4. \A n \in 1 .. Len(s) + 1 : t[n] = IF n \in 1 .. Len(s) THEN s[n] ELSE e
  BY <1>1, <1>2
<1> QED
  BY <1>3, <1>4 DEF t

-----------------------------------------------------------------------------
(***************************************************************************)
(* The strings of an area, NUL by NUL.                                     *)
(***************************************************************************)

\* ends lists the NULs of b from f up to c, and c is where the next string starts.
NulsAre(b, f, c, ends) ==
    /\ ends \in Seq(Nat)
    /\ \A n \in 1 .. Len(ends) : ends[n] \in f .. c - 1 /\ ByteAt(b, ends[n]) = NUL
    /\ \A m, n \in 1 .. Len(ends) : m < n => ends[m] < ends[n]
    /\ \A i \in f .. c - 1 : ByteAt(b, i) = NUL => \E n \in 1 .. Len(ends) : ends[n] = i
    /\ c = IF Len(ends) = 0 THEN f ELSE ends[Len(ends)] + 1

\* The strings that end at those NULs.
StringAt(b, f, ends, n) == Strip(Slice(b, IF n = 1 THEN f ELSE ends[n - 1] + 1, ends[n]))
StringsAt(b, f, ends) == [n \in 1 .. Len(ends) |-> StringAt(b, f, ends, n)]

\* Nothing is collected when the string loop is entered.
LEMMA NothingCollected ==
    ASSUME NEW b, NEW f \in Nat
    PROVE  NulsAre(b, f, f, << >>) /\ StringsAt(b, f, << >>) = << >>
<1>1. << >> \in Seq(Nat) /\ Len(<< >>) = 0
  BY EmptySeq
<1>2. 1 .. 0 = {} /\ f .. f - 1 = {}
  OBVIOUS
<1> QED
  BY <1>1, <1>2 DEF NulsAre, StringsAt

\* One round of the loop adds the string in front of the next NUL.
LEMMA NextString ==
    ASSUME NEW b \in Seq(Byte), NEW f \in Nat, NEW c \in Nat, NEW ends, NEW nul,
           f <= c, NulsAre(b, f, c, ends), IsFirstNul(b, c, nul)
    PROVE  /\ NulsAre(b, f, nul + 1, Append(ends, nul))
           /\ StringsAt(b, f, Append(ends, nul)) =
                Append(StringsAt(b, f, ends), Strip(Slice(b, c, nul)))
<1> DEFINE N == Len(ends)
           more == Append(ends, nul)
<1>1. /\ ends \in Seq(Nat) /\ N \in Nat /\ Len(b) \in Nat
      /\ nul \in Nat /\ c <= nul /\ ByteAt(b, nul) = NUL
      /\ \A k \in c .. nul - 1 : ByteAt(b, k) # NUL
  BY LenProperties DEF NulsAre, IsFirstNul
<1>2. /\ more \in Seq(Nat) /\ Len(more) = N + 1 /\ more[N + 1] = nul
      /\ \A n \in 1 .. N : more[n] = ends[n]
  BY <1>1, AppendProperties
<1>3. c = IF N = 0 THEN f ELSE ends[N] + 1
  BY DEF NulsAre
<1>4. /\ \A n \in 1 .. N : ends[n] \in f .. c - 1 /\ ByteAt(b, ends[n]) = NUL
      /\ \A m, n \in 1 .. N : m < n => ends[m] < ends[n]
      /\ \A i \in f .. c - 1 : ByteAt(b, i) = NUL => \E n \in 1 .. N : ends[n] = i
  BY DEF NulsAre
<1> HIDE DEF N, more
<1>5. NulsAre(b, f, nul + 1, more)
  <2>1. ASSUME NEW n \in 1 .. N + 1
        PROVE  more[n] \in f .. nul /\ ByteAt(b, more[n]) = NUL
    <3>1. CASE n \in 1 .. N
      <4>1. ends[n] \in f .. c - 1 /\ ByteAt(b, ends[n]) = NUL /\ more[n] = ends[n]
        BY <1>2, <1>4, <3>1
      <4> QED
        BY <1>1, <4>1
    <3>2. CASE n = N + 1
      BY <1>1, <1>2, <3>2
    <3> QED
      BY <1>1, <3>1, <3>2
  <2>2. ASSUME NEW m \in 1 .. N + 1, NEW n \in 1 .. N + 1, m < n
        PROVE  more[m] < more[n]
    <3>1. m \in 1 .. N
      BY <1>1, <2>2
    <3>2. CASE n \in 1 .. N
      BY <1>2, <1>4, <2>2, <3>1, <3>2
    <3>3. CASE n = N + 1
      <4>1. more[m] \in f .. c - 1
        BY <1>2, <1>4, <3>1
      <4> QED
        BY <1>1, <1>2, <3>3, <4>1
    <3> QED
      BY <1>1, <3>2, <3>3
  <2>3. ASSUME NEW i \in f .. nul, ByteAt(b, i) = NUL
        PROVE  \E n \in 1 .. N + 1 : more[n] = i
    <3>1. CASE i \in f .. c - 1
      <4>1. PICK n \in 1 .. N : ends[n] = i
        BY <1>4, <2>3, <3>1
      <4> QED
        BY <1>1, <1>2, <4>1
    <3>2. CASE i = nul
      BY <1>1, <1>2, <3>2
    <3>3. CASE i \in c .. nul - 1
      BY <1>1, <2>3, <3>3
    <3> QED
      BY <1>1, <3>1, <3>2, <3>3
  <2>4. nul + 1 - 1 = nul /\ N + 1 # 0
    BY <1>1
  <2> QED
    BY <1>2, <2>1, <2>2, <2>3, <2>4, SMTT(30) DEF NulsAre
<1>6. StringsAt(b, f, more) = Append(StringsAt(b, f, ends), Strip(Slice(b, c, nul)))
  <2> DEFINE old == StringsAt(b, f, ends)
             new == Strip(Slice(b, c, nul))
  <2>1. old = [n \in 1 .. N |-> StringAt(b, f, ends, n)]
    BY DEF StringsAt, N
  <2>2. StringsAt(b, f, more) = [n \in 1 .. N + 1 |-> StringAt(b, f, more, n)]
    BY <1>2 DEF StringsAt
  <2>3. ASSUME NEW n \in 1 .. N
        PROVE  StringAt(b, f, more, n) = StringAt(b, f, ends, n)
    <3>1. n = 1 \/ n - 1 \in 1 .. N
      BY <1>1
    <3> QED
      BY <1>2, <3>1 DEF StringAt
  <2>4. StringAt(b, f, more, N + 1) = new
    <3>1. CASE N = 0
      BY <1>2, <1>3, <3>1 DEF StringAt
    <3>2. CASE N # 0
      <4>1. N + 1 # 1 /\ N + 1 - 1 = N /\ N \in 1 .. N
        BY <1>1, <3>2
      <4> QED
        BY <1>2, <1>3, <3>2, <4>1 DEF StringAt
    <3> QED
      BY <3>1, <3>2
  <2> HIDE DEF old, new
  <2>5. Append(old, new) = [n \in 1 .. N + 1 |-> IF n \in 1 .. N THEN old[n] ELSE new]
    <3> DEFINE S == {old[n] : n \in 1 .. N}
    <3>1. old \in [1 .. N -> S]
      BY <2>1
    <3>2. old \in Seq(S) /\ Len(old) = N
      BY <1>1, <3>1, FunctionIsSeq
    <3> HIDE DEF S
    <3> QED
      BY <3>2, AppendByIndex
  <2>6. \A n \in 1 .. N + 1 :
           StringAt(b, f, more, n) = IF n \in 1 .. N THEN old[n] ELSE new
    BY <1>1, <2>1, <2>3, <2>4
  <2> QED
    BY <2>2, <2>5, <2>6 DEF old, new
<1> QED
  BY <1>5, <1>6 DEF more

\* The NULs of b from f up to c, the n-th of a set of them, and the strings they end.
NulsIn(b, f, c) == {i \in f .. c - 1 : ByteAt(b, i) = NUL}
Upto(nuls, i) == {j \in nuls : j <= i}
Nth(nuls, n) == CHOOSE i \in nuls : Cardinality(Upto(nuls, i)) = n
Numbered(b, f, nuls) ==
    [n \in 1 .. Cardinality(nuls) |->
        Strip(Slice(b, IF n = 1 THEN f ELSE Nth(nuls, n - 1) + 1, Nth(nuls, n)))]

\* What SMBIOSTable makes of an area, in the terms of this module.
LEMMA StringsInIsNumbered ==
    ASSUME NEW b, NEW f, NEW k
    PROVE  StringsIn(b, f, k) =
             Numbered(b, f, IF k = f THEN {} ELSE {i \in f .. k : ByteAt(b, i) = NUL})
BY Zenon DEF StringsIn, Numbered, Nth, Upto

\* Counting finds the n-th NUL, and there are as many as the loop has seen.
LEMMA CountFinds ==
    ASSUME NEW b, NEW f \in Nat, NEW c \in Nat, NEW ends, NulsAre(b, f, c, ends)
    PROVE  /\ Cardinality(NulsIn(b, f, c)) = Len(ends)
           /\ \A n \in 1 .. Len(ends) : Nth(NulsIn(b, f, c), n) = ends[n]
<1> DEFINE N == Len(ends)
           nuls == NulsIn(b, f, c)
<1>1. /\ ends \in Seq(Nat) /\ N \in Nat /\ ends \in [1 .. N -> Nat]
  BY LenProperties DEF NulsAre
<1>2. /\ \A n \in 1 .. N : ends[n] \in nuls
      /\ \A m, n \in 1 .. N : m < n => ends[m] < ends[n]
      /\ \A i \in nuls : \E n \in 1 .. N : ends[n] = i
  BY DEF NulsAre, NulsIn
<1>3. \A m, n \in 1 .. N : ends[m] = ends[n] => m = n
  <2> SUFFICES ASSUME NEW m \in 1 .. N, NEW n \in 1 .. N, ends[m] = ends[n], m # n
               PROVE  FALSE
    OBVIOUS
  <2>1. m < n \/ n < m
    BY <1>1
  <2>2. ends[m] < ends[n] \/ ends[n] < ends[m]
    BY <1>2, <2>1
  <2>3. ends[m] \in Nat /\ ends[n] \in Nat
    BY <1>1
  <2> QED
    BY <2>2, <2>3
<1> HIDE DEF N, nuls
<1>4. Cardinality(nuls) = N
  <2>1. ends \in [1 .. N -> nuls]
    BY <1>1, <1>2
  <2>2. ends \in Bijection(1 .. N, nuls)
    BY <1>2, <1>3, <2>1 DEF Bijection, Injection, Surjection, IsInjective
  <2>3. ExistsBijection(1 .. N, nuls)
    BY <2>2 DEF ExistsBijection
  <2> QED
    BY <1>1, <2>3, FS_CountingElements
<1>5. ASSUME NEW n \in 1 .. N
      PROVE  Cardinality(Upto(nuls, ends[n])) = n
  <2> DEFINE T == Upto(nuls, ends[n])
             g == [m \in 1 .. n |-> ends[m]]
  <2>1. \A m \in 1 .. n : m \in 1 .. N
    BY <1>1
  <2>2. \A m \in 1 .. n : ends[m] \in T
    <3> SUFFICES ASSUME NEW m \in 1 .. n PROVE ends[m] <= ends[n]
      BY <1>2, <2>1 DEF Upto
    <3>1. m < n \/ m = n
      OBVIOUS
    <3>2. ends[m] < ends[n] \/ ends[m] = ends[n]
      BY <1>2, <2>1, <3>1
    <3>3. ends[m] \in Nat /\ ends[n] \in Nat
      BY <1>1, <2>1
    <3> QED
      BY <3>2, <3>3
  <2>3. \A i \in T : \E m \in 1 .. n : ends[m] = i
    <3> SUFFICES ASSUME NEW i \in T PROVE \E m \in 1 .. n : ends[m] = i
      OBVIOUS
    <3>1. i \in nuls /\ i <= ends[n]
      BY DEF Upto
    <3>2. PICK m \in 1 .. N : ends[m] = i
      BY <1>2, <3>1
    <3>3. ~ (n < m)
      <4> SUFFICES ASSUME n < m PROVE FALSE
        OBVIOUS
      <4>1. ends[n] < ends[m]
        BY <1>2
      <4>2. ends[m] \in Nat /\ ends[n] \in Nat
        BY <1>1
      <4> QED
        BY <3>1, <3>2, <4>1, <4>2
    <3> QED
      BY <1>1, <3>2, <3>3
  <2> HIDE DEF T
  <2>4. g \in [1 .. n -> T]
    BY <2>2
  <2>5. g \in Bijection(1 .. n, T)
    BY <1>3, <2>1, <2>3, <2>4 DEF Bijection, Injection, Surjection, IsInjective
  <2>6. ExistsBijection(1 .. n, T)
    BY <2>5 DEF ExistsBijection
  <2>7. n \in Nat
    OBVIOUS
  <2> QED
    BY <2>6, <2>7, FS_CountingElements DEF T
<1>6. ASSUME NEW n \in 1 .. N
      PROVE  Nth(nuls, n) = ends[n]
  <2>1. ends[n] \in nuls /\ Cardinality(Upto(nuls, ends[n])) = n
    BY <1>2, <1>5
  <2>2. \A i \in nuls : Cardinality(Upto(nuls, i)) = n => i = ends[n]
    BY <1>2, <1>5
  <2> QED
    BY <2>1, <2>2 DEF Nth
<1> QED
  BY <1>4, <1>6 DEF N, nuls

\* The strings that were collected are those of the area, numbered by its NULs;
\* an area that is nothing but its terminator has none.
LEMMA NumberedStrings ==
    ASSUME NEW b, NEW f \in Nat, NEW k \in Nat
    PROVE  /\ StringsIn(b, f, f) = << >>
           /\ \A ends : k # f /\ NulsAre(b, f, k + 1, ends) =>
                 StringsIn(b, f, k) = StringsAt(b, f, ends)
<1>1. StringsIn(b, f, f) = << >>
  <2>1. Cardinality({}) = 0
    BY FS_EmptySet
  <2>2. Numbered(b, f, {}) = << >>
    BY <2>1 DEF Numbered
  <2> QED
    BY <2>2, StringsInIsNumbered
<1>2. ASSUME NEW ends, k # f, NulsAre(b, f, k + 1, ends)
      PROVE  StringsIn(b, f, k) = StringsAt(b, f, ends)
  <2> DEFINE nuls == {i \in f .. k : ByteAt(b, i) = NUL}
  <2>1. StringsIn(b, f, k) = Numbered(b, f, nuls)
    BY <1>2, StringsInIsNumbered
  <2> DEFINE c == k + 1
  <2>2. c \in Nat /\ c - 1 = k /\ NulsAre(b, f, c, ends)
    BY <1>2
  <2> HIDE DEF c
  <2>3. nuls = NulsIn(b, f, c)
    BY <2>2 DEF NulsIn
  <2> HIDE DEF nuls
  <2>4. /\ Cardinality(nuls) = Len(ends)
        /\ \A n \in 1 .. Len(ends) : Nth(nuls, n) = ends[n]
    <3>1. c \in Nat /\ f \in Nat
      BY <2>2
    <3>2. NulsAre(b, f, c, ends)
      BY <2>2
    <3>3. Cardinality(NulsIn(b, f, c)) = Len(ends)
      BY <3>1, <3>2, CountFinds
    <3>4. \A n \in 1 .. Len(ends) : Nth(NulsIn(b, f, c), n) = ends[n]
      BY <3>1, <3>2, CountFinds
    <3> QED
      BY <2>3, <3>3, <3>4
  <2>5. Len(ends) \in Nat
    BY <2>2, LenProperties DEF NulsAre
  <2>6. ASSUME NEW n \in 1 .. Len(ends)
        PROVE  Strip(Slice(b, IF n = 1 THEN f ELSE Nth(nuls, n - 1) + 1, Nth(nuls, n)))
                 = StringAt(b, f, ends, n)
    <3>1. n = 1 \/ n - 1 \in 1 .. Len(ends)
      BY <2>5
    <3> QED
      BY <2>4, <3>1 DEF StringAt
  <2> QED
    BY <2>1, <2>4, <2>6 DEF Numbered, StringsAt
<1> QED
  BY <1>1, <1>2

-----------------------------------------------------------------------------
(***************************************************************************)
(* Walk, with the names of its local definitions.                          *)
(***************************************************************************)

\* Where the string area of the structure at o can end: there is at most one place.
Ends(b, o) == {k \in FormattedEnd(b, o) .. Len(b) - 1 :
                   EndsStrings(b, FormattedEnd(b, o), k)}
Prepend(s, rest) == IF rest.kind = "raised" THEN rest
                    ELSE Returned(<< s >> \o rest.structures)

\* What a walk from o gives when f is what walks from further on give.
Rest(b, e, f, o) ==
    IF o >= e THEN Returned(<< >>)
    ELSE IF ~ HeaderOK(b, o, e) THEN HeaderError(b, o, e)
    ELSE IF Ends(b, o) = {} THEN StringError(b, FormattedEnd(b, o))
    ELSE LET k == CHOOSE k \in Ends(b, o) : TRUE
             s == StructureAt(b, o, k)
         IN  IF s.type = EndOfTable THEN Returned(<< s >>)
             ELSE Prepend(s, f[k + 2])
From(b, e) == CHOOSE f : f = [o \in Nat |-> Rest(b, e, f, o)]

LEMMA WalkIsFrom ==
    ASSUME NEW b, NEW lim
    PROVE  Walk(b, lim) = From(b, EndOffset(b, lim))[0]
BY DEF Walk, From, Rest, Ends, Prepend

(***************************************************************************)
(* The recursion has a solution.                                           *)
(***************************************************************************)

\* An accepted structure ends behind its start.
LEMMA EndsAhead ==
    ASSUME NEW b \in Seq(Byte), NEW e \in 0 .. Len(b), NEW o \in Nat,
           HeaderOK(b, o, e), NEW k \in Ends(b, o)
    PROVE  k \in Nat /\ k > o /\ k + 2 \in Nat /\ k + 2 > o /\ FormattedEnd(b, o) \in Nat
<1>1. Len(b) \in Nat /\ \A i \in 1 .. Len(b) : b[i] \in Byte
  BY LenProperties, ElementOfSeq
<1> DEFINE len == LengthAt(b, o)
<1>2. o + 4 <= e /\ len >= 4
  BY DEF HeaderOK, HeaderSize
<1>3. len \in Byte
  BY <1>1, <1>2 DEF LengthAt, ByteAt
<1>4. k \in o + len .. Len(b) - 1
  BY DEF Ends, FormattedEnd
<1>5. FormattedEnd(b, o) = o + len
  BY DEF FormattedEnd
<1> HIDE DEF len
<1>6. len \in Int /\ len >= 4
  BY <1>2, <1>3 DEF Byte
<1> QED
  BY <1>1, <1>4, <1>5, <1>6

\* What a walk from o gives depends on walks from further on only.
LEMMA RestIsLocal ==
    ASSUME NEW b \in Seq(Byte), NEW e \in 0 .. Len(b), NEW o \in Nat, NEW f, NEW g,
           \A p \in Nat : p > o => f[p] = g[p]
    PROVE  Rest(b, e, f, o) = Rest(b, e, g, o)
<1>1. CASE o < e /\ HeaderOK(b, o, e) /\ Ends(b, o) # {}
  <2> DEFINE k == CHOOSE k \in Ends(b, o) : TRUE
  <2>1. k \in Ends(b, o)
    BY <1>1
  <2> HIDE DEF k
  <2>2. f[k + 2] = g[k + 2]
    BY <1>1, <2>1, EndsAhead
  <2> QED
    BY <2>2 DEF Rest, k
<1>2. CASE ~ (o < e /\ HeaderOK(b, o, e) /\ Ends(b, o) # {})
  <2>1. e \in Nat
    BY LenProperties
  <2> QED
    BY <1>2, <2>1 DEF Rest
<1> QED
  BY <1>1, <1>2

\* f is right about the last n bytes in front of e and what follows.
RightFor(b, e, f, n) ==
    /\ f = [o \in Nat |-> f[o]]
    /\ \A o \in Nat : o + n >= e => f[o] = Rest(b, e, f, o)

LEMMA FromSolves ==
    ASSUME NEW b \in Seq(Byte), NEW e \in 0 .. Len(b)
    PROVE  \A o \in Nat : From(b, e)[o] = Rest(b, e, From(b, e), o)
<1> DEFINE Bad == {n \in Nat : ~ \E f : RightFor(b, e, f, n)}
<1>0. e \in Nat
  BY LenProperties
<1>1. Bad = {}
  <2> SUFFICES ASSUME Bad # {} PROVE FALSE
    OBVIOUS
  <2>1. PICK n \in Bad : \A m \in Bad : n <= m
    BY LeastElement
  <2>2. CASE n = 0
    <3> DEFINE f == [o \in Nat |-> Returned(<< >>)]
    <3>1. \A o \in Nat : o + 0 >= e => f[o] = Rest(b, e, f, o)
      BY <1>0 DEF Rest
    <3>2. f = [o \in Nat |-> f[o]]
      OBVIOUS
    <3> HIDE DEF f
    <3>3. RightFor(b, e, f, 0)
      BY <3>1, <3>2 DEF RightFor
    <3> QED
      BY <2>1, <2>2, <3>3
  <2>3. CASE n # 0
    <3>1. n \in Nat /\ n - 1 \in Nat /\ n - 1 \notin Bad
      BY <2>1, <2>3
    <3>2. PICK f : RightFor(b, e, f, n - 1)
      BY <3>1
    <3>3. CASE n > e
      <4>1. \A o \in Nat : o + (n - 1) >= e
        BY <1>0, <3>1, <3>3
      <4>2. RightFor(b, e, f, n)
        BY <3>2, <4>1 DEF RightFor
      <4> QED
        BY <2>1, <4>2
    <3>4. CASE n <= e
      <4> DEFINE p == e - n
                 g == [o \in Nat |-> IF o = p THEN Rest(b, e, f, p) ELSE f[o]]
      <4>1. p \in Nat
        BY <1>0, <3>1, <3>4
      <4>2. \A o \in Nat : o # p => g[o] = f[o]
        OBVIOUS
      <4>3. g[p] = Rest(b, e, f, p)
        BY <4>1
      <4>4. g = [o \in Nat |-> g[o]]
        OBVIOUS
      <4> HIDE DEF g
      <4>5. ASSUME NEW o \in Nat, o + n >= e
            PROVE  g[o] = Rest(b, e, g, o)
        <5>1. o >= p
          BY <1>0, <3>1, <4>5
        <5>2. Rest(b, e, f, o) = Rest(b, e, g, o)
          <6>1. \A q \in Nat : q > o => f[q] = g[q]
            BY <4>1, <4>2, <5>1
          <6> QED
            BY <6>1, RestIsLocal
        <5>3. CASE o = p
          BY <4>3, <5>2, <5>3
        <5>4. CASE o # p
          <6>1. o + (n - 1) >= e
            BY <1>0, <3>1, <4>1, <5>1, <5>4
          <6>2. f[o] = Rest(b, e, f, o)
            BY <3>2, <6>1 DEF RightFor
          <6> QED
            BY <4>2, <5>2, <5>4, <6>2
        <5> QED
          BY <5>3, <5>4
      <4>6. RightFor(b, e, g, n)
        BY <4>4, <4>5 DEF RightFor
      <4> QED
        BY <2>1, <4>6
    <3> QED
      BY <1>0, <3>1, <3>3, <3>4
  <2> QED
    BY <2>2, <2>3
<1>2. PICK f : RightFor(b, e, f, e)
  BY <1>0, <1>1
<1>3. f = [o \in Nat |-> Rest(b, e, f, o)]
  <2>1. \A o \in Nat : f[o] = Rest(b, e, f, o)
    BY <1>0, <1>2 DEF RightFor
  <2> QED
    BY <1>2, <2>1 DEF RightFor
<1>4. From(b, e) = [o \in Nat |-> Rest(b, e, From(b, e), o)]
  BY <1>3 DEF From
<1> DEFINE F == From(b, e)
<1>5. F = [o \in Nat |-> Rest(b, e, F, o)]
  BY <1>4
<1> HIDE DEF F
<1>6. \A o \in Nat : F[o] = Rest(b, e, F, o)
  BY <1>5
<1> QED
  BY <1>6 DEF F

(***************************************************************************)
(* Its values are outcomes of a call.                                      *)
(***************************************************************************)

Structs(b) == {StructureAt(b, o, k) : o \in {i \in Nat : FormattedEnd(b, i) \in Nat}, k \in Nat}
IsOutcome(b, r) == r.kind = "raised" \/ \E ss \in Seq(Structs(b)) : r = Returned(ss)

\* Every error is a raise.
LEMMA ErrorsAreRaised ==
    ASSUME NEW b, NEW o, NEW e
    PROVE  /\ HeaderError(b, o, e).kind = "raised"
           /\ StringError(b, o).kind = "raised"
BY DEF HeaderError, StringError, Raised

\* One round gives an outcome when what follows does.
LEMMA RestIsOutcome ==
    ASSUME NEW b \in Seq(Byte), NEW e \in 0 .. Len(b), NEW o \in Nat, NEW f,
           \A p \in Nat : p > o => IsOutcome(b, f[p])
    PROVE  IsOutcome(b, Rest(b, e, f, o))
<1>0. e \in Nat
  BY LenProperties
<1>1. CASE o >= e
  <2>1. << >> \in Seq(Structs(b))
    BY EmptySeq
  <2> QED
    BY <1>1, <2>1 DEF Rest, IsOutcome
<1>2. CASE o < e /\ ~ (HeaderOK(b, o, e) /\ Ends(b, o) # {})
  <2>1. ~ (o >= e)
    BY <1>0, <1>2
  <2>2. \/ Rest(b, e, f, o) = HeaderError(b, o, e)
        \/ Rest(b, e, f, o) = StringError(b, FormattedEnd(b, o))
    BY <1>2, <2>1, Zenon DEF Rest
  <2>3. Rest(b, e, f, o).kind = "raised"
    BY <2>2, ErrorsAreRaised
  <2> QED
    BY <2>3 DEF IsOutcome
<1>3. CASE o < e /\ HeaderOK(b, o, e) /\ Ends(b, o) # {}
  <2> DEFINE k == CHOOSE k \in Ends(b, o) : TRUE
             s == StructureAt(b, o, k)
  <2>1. k \in Ends(b, o)
    BY <1>3
  <2> HIDE DEF k
  <2>2. k \in Nat /\ k + 2 \in Nat /\ k + 2 > o /\ FormattedEnd(b, o) \in Nat
    BY <1>3, <2>1, EndsAhead
  <2>3. s \in Structs(b)
    BY <2>2 DEF Structs
  <2>4. Rest(b, e, f, o) = IF s.type = EndOfTable THEN Returned(<< s >>)
                           ELSE Prepend(s, f[k + 2])
    BY <1>0, <1>3 DEF Rest, k
  <2> HIDE DEF s
  <2>5. << s >> \in Seq(Structs(b))
    BY <2>3
  <2>6. IsOutcome(b, f[k + 2])
    BY <2>2
  <2>7. IsOutcome(b, Prepend(s, f[k + 2]))
    <3>1. CASE f[k + 2].kind = "raised"
      BY <3>1 DEF Prepend, IsOutcome
    <3>2. CASE f[k + 2].kind # "raised"
      <4>1. PICK ss \in Seq(Structs(b)) : f[k + 2] = Returned(ss)
        BY <2>6, <3>2 DEF IsOutcome
      <4>2. f[k + 2].structures = ss
        BY <4>1 DEF Returned
      <4>3. << s >> \o ss \in Seq(Structs(b))
        BY <2>5, ConcatProperties
      <4> QED
        BY <3>2, <4>2, <4>3 DEF Prepend, IsOutcome
    <3> QED
      BY <3>1, <3>2
  <2> QED
    BY <2>4, <2>5, <2>7 DEF IsOutcome
<1> QED
  BY <1>0, <1>1, <1>2, <1>3

LEMMA FromIsOutcome ==
    ASSUME NEW b \in Seq(Byte), NEW e \in 0 .. Len(b)
    PROVE  \A o \in Nat : IsOutcome(b, From(b, e)[o])
<1> DEFINE F == From(b, e)
           Bad == {n \in Nat : \E o \in Nat : o + n >= e /\ ~ IsOutcome(b, F[o])}
<1>0. e \in Nat /\ \A o \in Nat : F[o] = Rest(b, e, F, o)
  BY LenProperties, FromSolves
<1> HIDE DEF F
<1>1. Bad = {}
  <2> SUFFICES ASSUME Bad # {} PROVE FALSE
    OBVIOUS
  <2>1. PICK n \in Bad : \A m \in Bad : n <= m
    BY LeastElement
  <2>2. PICK o \in Nat : o + n >= e /\ ~ IsOutcome(b, F[o])
    BY <2>1
  <2>3. ASSUME NEW p \in Nat, p > o
        PROVE  IsOutcome(b, F[p])
    <3>1. CASE n = 0
      <4>1. p + 0 >= e /\ p > e
        BY <1>0, <2>2, <2>3, <3>1
      <4>2. Rest(b, e, F, p) = Returned(<< >>)
        BY <1>0, <4>1 DEF Rest
      <4>3. << >> \in Seq(Structs(b))
        BY EmptySeq
      <4> QED
        BY <1>0, <4>2, <4>3 DEF IsOutcome
    <3>2. CASE n # 0
      <4>0. n \in Nat /\ n - 1 \in Nat /\ ~ (n <= n - 1)
        BY <3>2
      <4>1. n - 1 \notin Bad
        BY <2>1, <4>0
      <4>2. p + (n - 1) >= e
        BY <1>0, <2>2, <2>3, <4>0
      <4> QED
        BY <4>0, <4>1, <4>2
    <3> QED
      BY <3>1, <3>2
  <2>4. IsOutcome(b, Rest(b, e, F, o))
    BY <2>3, RestIsOutcome
  <2> QED
    BY <1>0, <2>2, <2>4
<1>2. \A o \in Nat : o + e >= e
  BY <1>0
<1> QED
  BY <1>0, <1>1, <1>2 DEF F

LEMMA KindsOfOutcome ==
    ASSUME NEW b \in Seq(Byte), NEW e \in 0 .. Len(b)
    PROVE  \A o \in Nat : From(b, e)[o].kind \in {"returned", "raised"}
<1> SUFFICES ASSUME NEW o \in Nat PROVE From(b, e)[o].kind \in {"returned", "raised"}
  OBVIOUS
<1> DEFINE r == From(b, e)[o]
<1>1. IsOutcome(b, r)
  BY FromIsOutcome
<1> HIDE DEF r
<1>2. r.kind = "raised" \/ r.kind = "returned"
  BY <1>1 DEF IsOutcome, Returned
<1> QED
  BY <1>2 DEF r

-----------------------------------------------------------------------------
(***************************************************************************)
(* A table inside a table: v holds the bytes of w from offset n up to m.   *)
(* A structure that lies in v is the structure of w n bytes further on.    *)
(***************************************************************************)

\* The NULs of an area can be listed one after the other.
LEMMA NulsCanBeListed ==
    ASSUME NEW b \in Seq(Byte), NEW f \in Nat, NEW c \in Nat, f <= c, c <= Len(b),
           c = f \/ ByteAt(b, c - 1) = NUL
    PROVE  \E ends : NulsAre(b, f, c, ends)
<1> DEFINE IsStart(x) == x = f \/ ByteAt(b, x - 1) = NUL
           Bad == {d \in Nat : /\ f + d <= Len(b) /\ IsStart(f + d)
                               /\ ~ \E ends : NulsAre(b, f, f + d, ends)}
<1>0. Len(b) \in Nat
  BY LenProperties
<1>1. Bad = {}
  <2> SUFFICES ASSUME Bad # {} PROVE FALSE
    OBVIOUS
  <2>1. PICK d \in Bad : \A x \in Bad : d <= x
    BY LeastElement
  <2>2. CASE d = 0
    <3>1. f + d = f
      BY <2>2
    <3> QED
      BY <2>1, <3>1, NothingCollected
  <2>3. CASE d # 0
    <3> DEFINE back == {x \in Nat : x < d /\ IsStart(f + (d - 1 - x))}
    <3>1. d \in Nat /\ d - 1 \in Nat /\ f + (d - 1 - (d - 1)) = f /\ d - 1 < d
      BY <2>3
    <3>2. d - 1 \in back
      BY <3>1
    <3>3. PICK x \in back : \A y \in back : x <= y
      BY <3>2, LeastElement
    <3> DEFINE e == d - 1 - x
               nul == f + d - 1
    <3>4. /\ e \in Nat /\ e < d /\ nul \in Nat /\ f + e <= nul /\ nul < Len(b)
          /\ nul + 1 = f + d /\ f + e \in Nat
      BY <1>0, <2>1, <3>1, <3>3
    <3>5. IsStart(f + e)
      BY <3>3
    <3>6. ByteAt(b, nul) = NUL
      <4>1. f + d - 1 = nul /\ f + d # f
        BY <3>1
      <4> QED
        BY <2>1, <4>1
    <3> HIDE DEF nul
    <3>7. ASSUME NEW k \in f + e .. nul - 1
          PROVE  ByteAt(b, k) # NUL
      <4> SUFFICES ASSUME ByteAt(b, k) = NUL PROVE FALSE
        OBVIOUS
      <4> DEFINE y == nul - (k + 1)
      <4>1. y \in Nat /\ y < x /\ y < d /\ f + (d - 1 - y) = k + 1 /\ k + 1 - 1 = k
        BY <3>1, <3>3, <3>4 DEF nul
      <4>2. y \in back
        BY <4>1, SMTT(30)
      <4> QED
        BY <3>3, <4>1, <4>2, SMTT(30)
    <3>8. IsFirstNul(b, f + e, nul)
      BY <1>0, <3>4, <3>6, <3>7 DEF IsFirstNul
    <3> HIDE DEF e
    <3>9. PICK ends : NulsAre(b, f, f + e, ends)
      <4>1. e \notin Bad
        BY <2>1, <3>4
      <4>2. f + e <= Len(b)
        BY <1>0, <3>4
      <4> QED
        BY <3>4, <3>5, <4>1, <4>2
    <3> DEFINE c0 == f + e
    <3>10. c0 \in Nat /\ f <= c0 /\ NulsAre(b, f, c0, ends) /\ IsFirstNul(b, c0, nul)
      BY <3>4, <3>8, <3>9
    <3> HIDE DEF c0
    <3>11. NulsAre(b, f, nul + 1, Append(ends, nul))
      BY <3>10, NextString
    <3> QED
      BY <2>1, <3>4, <3>11
  <2> QED
    BY <2>2, <2>3
<1>2. c - f \in Nat /\ f + (c - f) = c
  OBVIOUS
<1>3. c - f \notin Bad
  BY <1>1
<1> QED
  BY <1>2, <1>3

\* A slice, byte by byte.
LEMMA SliceBytes ==
    ASSUME NEW b \in Seq(Byte), NEW i \in Nat, NEW j \in Nat, j <= Len(b)
    PROVE  /\ Slice(b, i, j) \in Seq(Byte)
           /\ Len(Slice(b, i, j)) = IF i <= j THEN j - i ELSE 0
           /\ \A x \in 0 .. j - i - 1 : ByteAt(Slice(b, i, j), x) = ByteAt(b, i + x)
           /\ \A x \in 0 .. j - i - 1 : ByteAt(b, i + x) \in Byte
<1> DEFINE a == i + 1
           s == SubSeq(b, a, j)
<1>1. Len(b) \in Nat
  BY LenProperties
<1>2. \A x \in a .. j : b[x] \in Byte
  BY <1>1, ElementOfSeq
<1>3. a \in Int /\ j \in Int
  OBVIOUS
<1>4. /\ s \in Seq(Byte) /\ Len(s) = (IF a <= j THEN j - a + 1 ELSE 0)
      /\ \A x \in 1 .. j - a + 1 : s[x] = b[a + x - 1]
  <2> HIDE DEF a
  <2> QED
    BY <1>2, <1>3, SubSeqProperties
<1> HIDE DEF s
<1>5. Len(s) = IF i <= j THEN j - i ELSE 0
  BY <1>4
<1>6. ASSUME NEW x \in 0 .. j - i - 1
      PROVE  ByteAt(s, x) = ByteAt(b, i + x) /\ ByteAt(b, i + x) \in Byte
  <2>1. x + 1 \in 1 .. j - a + 1 /\ a + (x + 1) - 1 = i + x + 1 /\ i + x + 1 \in a .. j
    OBVIOUS
  <2>2. s[x + 1] = b[i + x + 1]
    BY <1>4, <2>1
  <2>3. b[i + x + 1] \in Byte
    BY <1>2, <2>1
  <2> QED
    BY <2>2, <2>3 DEF ByteAt
<1>7. s = Slice(b, i, j)
  BY DEF s, Slice
<1> QED
  BY <1>4, <1>5, <1>6, <1>7

\* Two byte strings are the same when they are as long and have the same bytes.
LEMMA SameBytes ==
    ASSUME NEW b \in Seq(Byte), NEW c \in Seq(Byte), Len(b) = Len(c),
           \A x \in 0 .. Len(b) - 1 : ByteAt(b, x) = ByteAt(c, x)
    PROVE  b = c
<1>1. Len(b) \in Nat
  BY LenProperties
<1>2. ASSUME NEW x \in 1 .. Len(b)
      PROVE  b[x] = c[x]
  <2>1. x - 1 \in 0 .. Len(b) - 1 /\ x - 1 + 1 = x
    BY <1>1
  <2> QED
    BY <2>1 DEF ByteAt
<1> QED
  BY <1>2, SeqEqual

\* v is the part of w from n to m.
Inside(v, w, n, m) ==
    /\ w \in Seq(Byte) /\ n \in 0 .. Len(w) /\ m \in n .. Len(w)
    /\ v = Slice(w, n, m)

LEMMA InnerBytes ==
    ASSUME NEW v, NEW w, NEW n, NEW m, Inside(v, w, n, m)
    PROVE  /\ n \in Nat /\ m \in Nat /\ n <= m /\ m <= Len(w) /\ Len(w) \in Nat
           /\ w \in Seq(Byte) /\ v \in Seq(Byte) /\ Len(v) = m - n /\ Len(v) \in Nat
           /\ \A i \in 0 .. Len(v) - 1 : ByteAt(v, i) = ByteAt(w, n + i)
           /\ \A i \in 0 .. Len(v) - 1 : ByteAt(v, i) \in Byte
<1>1. /\ n \in Nat /\ m \in Nat /\ n <= m /\ m <= Len(w) /\ Len(w) \in Nat
      /\ w \in Seq(Byte) /\ v = Slice(w, n, m)
  BY LenProperties DEF Inside
<1>2. /\ v \in Seq(Byte) /\ Len(v) = IF n <= m THEN m - n ELSE 0
      /\ \A x \in 0 .. m - n - 1 : ByteAt(v, x) = ByteAt(w, n + x)
      /\ \A x \in 0 .. m - n - 1 : ByteAt(w, n + x) \in Byte
  BY <1>1, SliceBytes
<1>3. Len(v) = m - n /\ Len(v) \in Nat
  BY <1>1, <1>2
<1>4. ASSUME NEW i \in 0 .. Len(v) - 1
      PROVE  ByteAt(v, i) = ByteAt(w, n + i) /\ ByteAt(v, i) \in Byte
  BY <1>2, <1>3
<1>5. v \in Seq(Byte)
  BY <1>2
<1> QED
  BY <1>1, <1>3, <1>4, <1>5

LEMMA InnerSlice ==
    ASSUME NEW v, NEW w, NEW n, NEW m, Inside(v, w, n, m),
           NEW i \in Nat, NEW j \in Nat, j <= Len(v)
    PROVE  Slice(v, i, j) = Slice(w, n + i, n + j)
<1>1. /\ n \in Nat /\ m \in Nat /\ n <= m /\ m <= Len(w) /\ Len(w) \in Nat
      /\ w \in Seq(Byte) /\ v \in Seq(Byte) /\ Len(v) = m - n /\ Len(v) \in Nat
      /\ \A x \in 0 .. Len(v) - 1 : ByteAt(v, x) = ByteAt(w, n + x)
  BY InnerBytes
<1> DEFINE s == Slice(v, i, j)
           p == n + i
           q == n + j
           t == Slice(w, p, q)
<1>2. /\ s \in Seq(Byte) /\ Len(s) = IF i <= j THEN j - i ELSE 0
      /\ \A x \in 0 .. j - i - 1 : ByteAt(s, x) = ByteAt(v, i + x)
  BY <1>1, SliceBytes, ZenonT(40)
<1>3. w \in Seq(Byte) /\ p \in Nat /\ q \in Nat /\ q <= Len(w)
  BY <1>1
<1>4. /\ t \in Seq(Byte) /\ Len(t) = (IF p <= q THEN q - p ELSE 0)
      /\ \A x \in 0 .. q - p - 1 : ByteAt(t, x) = ByteAt(w, p + x)
  <2> HIDE DEF p, q
  <2> QED
    BY <1>3, SliceBytes
<1> HIDE DEF s, t
<1>5. Len(s) = Len(t)
  BY <1>1, <1>2, <1>4
<1>6. ASSUME NEW x \in 0 .. Len(s) - 1
      PROVE  ByteAt(s, x) = ByteAt(t, x)
  <2>1. /\ x \in 0 .. j - i - 1 /\ x \in 0 .. q - p - 1
        /\ i + x \in 0 .. Len(v) - 1 /\ p + x = n + (i + x)
    BY <1>1, <1>2
  <2> HIDE DEF p, q
  <2>2. ByteAt(v, i + x) = ByteAt(w, n + (i + x))
    BY <1>1, <2>1
  <2> QED
    BY <1>2, <1>4, <2>1, <2>2
<1>7. s = t
  BY <1>2, <1>4, <1>5, <1>6, SameBytes
<1> QED
  BY <1>7 DEF s, t

\* The strings of an area of v are those of the same area of w.
LEMMA InnerStrings ==
    ASSUME NEW v, NEW w, NEW n, NEW m, Inside(v, w, n, m),
           NEW f \in Nat, NEW k \in Nat, f <= k, k < Len(v), ByteAt(v, k) = NUL
    PROVE  StringsIn(v, f, k) = StringsIn(w, n + f, n + k)
<1>1. /\ n \in Nat /\ m \in Nat /\ Len(w) \in Nat
      /\ w \in Seq(Byte) /\ v \in Seq(Byte) /\ Len(v) \in Nat
  BY InnerBytes
<1>2. \A i \in 0 .. Len(v) - 1 : ByteAt(v, i) = ByteAt(w, n + i)
  BY InnerBytes
<1> DEFINE f2 == n + f
           k2 == n + k
<1>3. f2 \in Nat /\ k2 \in Nat
  BY <1>1
<1>4. CASE k = f
  <2>1. k2 = f2
    BY <1>4
  <2>2. StringsIn(v, f, f) = << >>
    BY NumberedStrings
  <2> HIDE DEF f2, k2
  <2>3. StringsIn(w, f2, f2) = << >>
    BY <1>3, NumberedStrings
  <2> QED
    BY <1>4, <2>1, <2>2, <2>3 DEF f2, k2
<1>5. CASE k # f
  <2> DEFINE c == k + 1
             c2 == k2 + 1
  <2>1. c \in Nat /\ f <= c /\ c <= Len(v) /\ ByteAt(v, c - 1) = NUL
    <3>1. c - 1 = k
      OBVIOUS
    <3> QED
      BY <1>1, <3>1
  <2> HIDE DEF c
  <2>2. PICK ends : NulsAre(v, f, c, ends)
    BY <1>1, <2>1, NulsCanBeListed
  <2> DEFINE N == Len(ends)
             far == [i \in 1 .. N |-> n + ends[i]]
  <2>3. N \in Nat /\ ends \in Seq(Nat)
    BY <2>2, LenProperties DEF NulsAre
  <2> HIDE DEF N
  <2>4. /\ \A i \in 1 .. N : ends[i] \in f .. c - 1 /\ ByteAt(v, ends[i]) = NUL
        /\ \A i, j \in 1 .. N : i < j => ends[i] < ends[j]
        /\ \A x \in f .. c - 1 : ByteAt(v, x) = NUL => \E i \in 1 .. N : ends[i] = x
        /\ c = IF N = 0 THEN f ELSE ends[N] + 1
    BY <2>2 DEF NulsAre, N
  <2>5. \A i \in 1 .. N : ends[i] \in Nat /\ ends[i] <= k
    BY <2>4 DEF c
  <2>6. far \in Seq(Nat) /\ Len(far) = N
    <3>1. far \in [1 .. N -> Nat]
      BY <1>1, <2>5
    <3> HIDE DEF far
    <3> QED
      BY <2>3, <3>1, FunctionIsSeq
  <2>7. \A i \in 1 .. N : far[i] = n + ends[i]
    OBVIOUS
  <2> HIDE DEF far
  <2>8. NulsAre(w, f2, c2, far)
    <3>1. ASSUME NEW i \in 1 .. N
          PROVE  far[i] \in f2 .. c2 - 1 /\ ByteAt(w, far[i]) = NUL
      <4>1. ends[i] \in f .. k /\ ByteAt(v, ends[i]) = NUL /\ ends[i] \in 0 .. Len(v) - 1
        BY <1>1, <2>4, <2>5 DEF c
      <4>2. ByteAt(w, n + ends[i]) = NUL
        BY <1>2, <4>1
      <4> QED
        BY <1>1, <2>7, <4>1, <4>2
    <3>2. ASSUME NEW i \in 1 .. N, NEW j \in 1 .. N, i < j
          PROVE  far[i] < far[j]
      BY <1>1, <2>4, <2>5, <2>7, <3>2, SMTT(30)
    <3>3. ASSUME NEW x \in f2 .. c2 - 1, ByteAt(w, x) = NUL
          PROVE  \E i \in 1 .. N : far[i] = x
      <4> DEFINE y == x - n
      <4>1. y \in f .. c - 1 /\ y \in 0 .. Len(v) - 1 /\ n + y = x
        BY <1>1, <3>3 DEF c
      <4> HIDE DEF y
      <4>2. ByteAt(v, y) = NUL
        BY <1>2, <3>3, <4>1
      <4>3. PICK i \in 1 .. N : ends[i] = y
        BY <2>4, <4>1, <4>2
      <4> QED
        BY <2>7, <4>1, <4>3
    <3>4. c2 = IF N = 0 THEN f2 ELSE far[N] + 1
      <4>1. CASE N = 0
        <5>1. c = f
          BY <2>4, <4>1
        <5>2. k + 1 = f
          BY <5>1 DEF c
        <5> QED
          BY <5>2
      <4>2. CASE N # 0
        <5>1. N \in 1 .. N
          BY <2>3, <4>2
        <5>2. c = ends[N] + 1 /\ far[N] = n + ends[N] /\ ends[N] \in Nat
          BY <2>4, <2>5, <2>7, <4>2, <5>1
        <5>3. k + 1 = ends[N] + 1
          BY <5>2 DEF c
        <5>4. k2 + 1 = far[N] + 1
          BY <1>1, <5>2, <5>3
        <5> QED
          BY <4>2, <5>4
      <4> QED
        BY <4>1, <4>2
    <3> HIDE DEF f2, c2
    <3> QED
      BY <2>6, <3>1, <3>2, <3>3, <3>4 DEF NulsAre
  <2>9. StringsIn(v, f, k) = StringsAt(v, f, ends)
    <3>1. NulsAre(v, f, k + 1, ends)
      BY <2>2 DEF c
    <3> QED
      BY <1>5, <3>1, NumberedStrings
  <2>10. StringsIn(w, f2, k2) = StringsAt(w, f2, far)
    <3>1. k2 # f2
      BY <1>1, <1>5
    <3> HIDE DEF f2, k2
    <3>2. NulsAre(w, f2, k2 + 1, far)
      BY <2>8
    <3> QED
      BY <1>3, <3>1, <3>2, NumberedStrings
  <2>11. ASSUME NEW i \in 1 .. N
         PROVE  StringAt(v, f, ends, i) = StringAt(w, f2, far, i)
    <3> DEFINE start == IF i = 1 THEN f ELSE ends[i - 1] + 1
    <3>1. i = 1 \/ i - 1 \in 1 .. N
      BY <2>3
    <3>2. start \in Nat /\ n + start = IF i = 1 THEN f2 ELSE far[i - 1] + 1
      <4>1. CASE i = 1
        BY <4>1
      <4>2. CASE i # 1
        <5>1. ends[i - 1] \in Nat /\ far[i - 1] = n + ends[i - 1]
          BY <2>5, <2>7, <3>1, <4>2
        <5> QED
          BY <1>1, <4>2, <5>1
      <4> QED
        BY <4>1, <4>2
    <3>3. ends[i] \in Nat /\ ends[i] <= Len(v) /\ n + ends[i] = far[i]
      BY <1>1, <2>5, <2>7
    <3> HIDE DEF start
    <3>4. Slice(v, start, ends[i]) = Slice(w, n + start, n + ends[i])
      BY <3>2, <3>3, InnerSlice
    <3> QED
      BY <3>2, <3>3, <3>4 DEF StringAt, start
  <2>12. StringsAt(v, f, ends) = StringsAt(w, f2, far)
    BY <2>6, <2>11 DEF StringsAt, N
  <2> QED
    BY <2>9, <2>10, <2>12
<1> QED
  BY <1>4, <1>5

\* Headers that lie in v: the fields are those of w, and the areas end together.
LEMMA InnerFields ==
    ASSUME NEW v, NEW w, NEW n, NEW m, Inside(v, w, n, m),
           NEW o \in Nat, o + HeaderSize <= Len(v)
    PROVE  /\ TypeAt(w, n + o) = TypeAt(v, o)
           /\ HandleAt(w, n + o) = HandleAt(v, o)
           /\ LengthAt(w, n + o) = LengthAt(v, o)
           /\ LengthAt(v, o) \in Byte
           /\ FormattedEnd(w, n + o) = n + FormattedEnd(v, o)
<1>1. n \in Nat /\ Len(v) \in Nat
  BY InnerBytes
<1>2. \A i \in 0 .. Len(v) - 1 : ByteAt(v, i) = ByteAt(w, n + i)
  BY InnerBytes
<1>3. \A i \in 0 .. Len(v) - 1 : ByteAt(v, i) \in Byte
  BY InnerBytes
<1>4. /\ o \in 0 .. Len(v) - 1 /\ o + 1 \in 0 .. Len(v) - 1
      /\ o + 2 \in 0 .. Len(v) - 1 /\ o + 2 + 1 \in 0 .. Len(v) - 1
      /\ n + (o + 1) = n + o + 1 /\ n + (o + 2) = n + o + 2
      /\ n + (o + 2 + 1) = n + o + 2 + 1
  BY <1>1 DEF HeaderSize
<1>5. /\ ByteAt(v, o) = ByteAt(w, n + o) /\ ByteAt(v, o + 1) = ByteAt(w, n + o + 1)
      /\ ByteAt(v, o + 2) = ByteAt(w, n + o + 2)
      /\ ByteAt(v, o + 2 + 1) = ByteAt(w, n + o + 2 + 1)
  BY <1>2, <1>4
<1>6. LengthAt(w, n + o) = LengthAt(v, o) /\ LengthAt(v, o) \in Byte
  BY <1>3, <1>4, <1>5 DEF LengthAt
<1> DEFINE len == LengthAt(v, o)
<1>7. n + o + len = n + (o + len)
  <2>1. len \in Int
    <3>1. len \in Byte
      BY <1>6
    <3> HIDE DEF len
    <3> QED
      BY <3>1 DEF Byte
  <2> HIDE DEF len
  <2> QED
    BY <1>1, <2>1
<1>8. FormattedEnd(w, n + o) = n + FormattedEnd(v, o)
  BY <1>6, <1>7 DEF FormattedEnd
<1>9. TypeAt(w, n + o) = TypeAt(v, o) /\ HandleAt(w, n + o) = HandleAt(v, o)
  BY <1>5 DEF TypeAt, HandleAt, WordAt
<1> QED
  BY <1>6, <1>8, <1>9

\* A structure that can start in v can start in w.
LEMMA InnerHeader ==
    ASSUME NEW v, NEW w, NEW n, NEW m, Inside(v, w, n, m),
           NEW o \in Nat, NEW e \in 0 .. Len(v), NEW e2 \in 0 .. Len(w), n + e <= e2,
           HeaderOK(v, o, e)
    PROVE  /\ HeaderOK(w, n + o, e2)
           /\ FormattedEnd(v, o) \in Nat /\ o + HeaderSize <= FormattedEnd(v, o)
           /\ FormattedEnd(v, o) <= Len(v)
<1>1. n \in Nat /\ Len(v) \in Nat /\ Len(w) \in Nat
  BY InnerBytes
<1>2. o + HeaderSize <= e /\ LengthAt(v, o) >= HeaderSize /\ FormattedEnd(v, o) <= e
  BY DEF HeaderOK
<1>3. o + HeaderSize <= Len(v)
  BY <1>1, <1>2 DEF HeaderSize
<1>4. /\ LengthAt(w, n + o) = LengthAt(v, o) /\ LengthAt(v, o) \in Byte
      /\ FormattedEnd(w, n + o) = n + FormattedEnd(v, o)
  BY <1>3, InnerFields
<1> DEFINE len == LengthAt(v, o)
<1>5. len \in Nat /\ FormattedEnd(v, o) = o + len
  <2>1. len \in Byte /\ FormattedEnd(v, o) = o + len
    BY <1>4 DEF FormattedEnd
  <2> HIDE DEF len
  <2> QED
    BY <2>1 DEF Byte
<1> HIDE DEF len
<1>6. n + o + HeaderSize <= e2 /\ n + (o + len) <= e2 /\ o + len <= Len(v)
  BY <1>1, <1>2, <1>5 DEF HeaderSize
<1>7. len >= HeaderSize /\ o + HeaderSize <= o + len
  BY <1>2, <1>5 DEF len, HeaderSize
<1>8. HeaderOK(w, n + o, e2)
  BY <1>4, <1>5, <1>6, <1>7 DEF HeaderOK, len
<1> QED
  BY <1>5, <1>6, <1>7, <1>8

\* Two NULs in v are two NULs in w.
LEMMA InnerDoubleNul ==
    ASSUME NEW v, NEW w, NEW n, NEW m, Inside(v, w, n, m), NEW k \in Nat, k + 1 < Len(v)
    PROVE  DoubleNul(w, n + k) <=> DoubleNul(v, k)
<1>1. n \in Nat /\ m \in Nat /\ m <= Len(w) /\ Len(w) \in Nat
      /\ Len(v) = m - n /\ Len(v) \in Nat
  BY InnerBytes
<1>2. \A i \in 0 .. Len(v) - 1 : ByteAt(v, i) = ByteAt(w, n + i)
  BY InnerBytes
<1>3. /\ k \in 0 .. Len(v) - 1 /\ k + 1 \in 0 .. Len(v) - 1 /\ n + (k + 1) = n + k + 1
      /\ n + k + 1 < Len(w)
  BY <1>1
<1>4. ByteAt(v, k) = ByteAt(w, n + k) /\ ByteAt(v, k + 1) = ByteAt(w, n + k + 1)
  BY <1>2, <1>3
<1> QED
  BY <1>3, <1>4 DEF DoubleNul

\* The string area of a structure ends in one place.
LEMMA OneEnd ==
    ASSUME NEW b, NEW o, FormattedEnd(b, o) \in Nat, NEW j \in Ends(b, o), NEW k \in Ends(b, o)
    PROVE  j = k
<1> DEFINE f == FormattedEnd(b, o)
<1>1. /\ j \in f .. Len(b) - 2 /\ DoubleNul(b, j) /\ \A i \in f .. j - 1 : ~ DoubleNul(b, i)
      /\ k \in f .. Len(b) - 2 /\ DoubleNul(b, k) /\ \A i \in f .. k - 1 : ~ DoubleNul(b, i)
  BY DEF Ends, EndsStrings
<1> HIDE DEF f
<1>2. j \in Int /\ k \in Int /\ f <= j /\ f <= k
  BY <1>1
<1>3. ~ (j < k) /\ ~ (k < j)
  BY <1>1, <1>2
<1> QED
  BY <1>2, <1>3

\* A string area that ends in v ends at the same place in w.
LEMMA InnerEnd ==
    ASSUME NEW v, NEW w, NEW n, NEW m, Inside(v, w, n, m),
           NEW o \in Nat, NEW k \in Nat, FormattedEnd(v, o) \in Nat,
           FormattedEnd(w, n + o) = n + FormattedEnd(v, o), k + 1 < Len(v)
    PROVE  k \in Ends(v, o) <=> n + k \in Ends(w, n + o)
<1> DEFINE f == FormattedEnd(v, o)
           f2 == FormattedEnd(w, n + o)
           k2 == n + k
<1>1. n \in Nat /\ m \in Nat /\ m <= Len(w) /\ Len(w) \in Nat
      /\ Len(v) = m - n /\ Len(v) \in Nat
  BY InnerBytes
<1>2. ASSUME NEW j \in f .. k
      PROVE  n + j \in f2 .. k2 /\ (DoubleNul(w, n + j) <=> DoubleNul(v, j))
  <2>1. f \in Nat /\ f2 = n + f
    OBVIOUS
  <2> HIDE DEF f, f2
  <2>2. j \in Nat /\ j + 1 < Len(v) /\ n + j \in f2 .. k2
    BY <1>1, <2>1
  <2> QED
    BY <2>2, InnerDoubleNul
<1>3. k \in Ends(v, o) <=> f <= k /\ DoubleNul(v, k) /\ \A j \in f .. k - 1 : ~ DoubleNul(v, j)
  <2>1. f \in Nat
    OBVIOUS
  <2>2. k \in Ends(v, o) <=>
           /\ k \in f .. Len(v) - 1 /\ k \in f .. Len(v) - 2
           /\ DoubleNul(v, k) /\ \A j \in f .. k - 1 : ~ DoubleNul(v, j)
    BY DEF Ends, EndsStrings
  <2> HIDE DEF f
  <2>3. k \in f .. Len(v) - 1 /\ k \in f .. Len(v) - 2 <=> f <= k
    BY <1>1, <2>1
  <2> QED
    BY <2>2, <2>3
<1>4. k2 \in Ends(w, n + o) <=>
         f2 <= k2 /\ DoubleNul(w, k2) /\ \A j \in f2 .. k2 - 1 : ~ DoubleNul(w, j)
  <2>1. f2 \in Nat /\ k2 \in Nat /\ k2 + 1 < Len(w)
    BY <1>1
  <2>2. k2 \in Ends(w, n + o) <=>
           /\ k2 \in f2 .. Len(w) - 1 /\ k2 \in f2 .. Len(w) - 2
           /\ DoubleNul(w, k2) /\ \A j \in f2 .. k2 - 1 : ~ DoubleNul(w, j)
    BY DEF Ends, EndsStrings
  <2> HIDE DEF f2, k2
  <2>3. k2 \in f2 .. Len(w) - 1 /\ k2 \in f2 .. Len(w) - 2 <=> f2 <= k2
    BY <1>1, <2>1
  <2> QED
    BY <2>2, <2>3
<1>5. f \in Nat /\ f2 = n + f
  OBVIOUS
<1> HIDE DEF f, f2
<1>6. f <= k <=> f2 <= k2
  BY <1>1, <1>5
<1>7. CASE f <= k
  <2>1. DoubleNul(w, k2) <=> DoubleNul(v, k)
    <3>1. k \in f .. k
      BY <1>5, <1>7
    <3> QED
      BY <1>2, <3>1
  <2>2. ASSUME NEW j \in f .. k - 1
        PROVE  n + j \in f2 .. k2 - 1 /\ (DoubleNul(w, n + j) <=> DoubleNul(v, j))
    <3>1. j \in f .. k /\ n + j \in f2 .. k2 - 1
      BY <1>1, <1>5
    <3> QED
      BY <1>2, <3>1
  <2>3. ASSUME NEW i \in f2 .. k2 - 1
        PROVE  \E j \in f .. k - 1 : n + j = i
    <3>1. i - n \in f .. k - 1 /\ n + (i - n) = i
      BY <1>1, <1>5
    <3> QED
      BY <3>1
  <2>4. (\A j \in f2 .. k2 - 1 : ~ DoubleNul(w, j)) <=> \A j \in f .. k - 1 : ~ DoubleNul(v, j)
    BY <2>2, <2>3
  <2> QED
    BY <1>3, <1>4, <1>6, <2>1, <2>4
<1> QED
  BY <1>3, <1>4, <1>6, <1>7

\* A structure whose terminator lies in v is the structure of w at that place.
LEMMA InnerStructure ==
    ASSUME NEW v, NEW w, NEW n, NEW m, Inside(v, w, n, m),
           NEW o \in Nat, NEW e \in 0 .. Len(v), NEW e2 \in 0 .. Len(w), n + e <= e2,
           HeaderOK(v, o, e), NEW k \in Ends(v, o)
    PROVE  /\ k \in Nat /\ k > o /\ k + 1 < Len(v)
           /\ n + k \in Ends(w, n + o)
           /\ StructureAt(w, n + o, n + k) = StructureAt(v, o, k)
<1>1. v \in Seq(Byte) /\ Len(v) \in Nat /\ n \in Nat
  BY InnerBytes
<1>2. k \in Nat /\ k > o
  BY <1>1, EndsAhead
<1> DEFINE f == FormattedEnd(v, o)
<1>3. HeaderOK(w, n + o, e2) /\ f \in Nat /\ o + HeaderSize <= f /\ f <= Len(v)
  BY InnerHeader
<1>4. o + HeaderSize <= Len(v)
  <2> HIDE DEF f
  <2> QED
    BY <1>1, <1>3 DEF HeaderSize
<1>5. /\ TypeAt(w, n + o) = TypeAt(v, o) /\ HandleAt(w, n + o) = HandleAt(v, o)
      /\ FormattedEnd(w, n + o) = n + f
  BY <1>4, InnerFields
<1>6. k \in f .. Len(v) - 2 /\ DoubleNul(v, k)
  BY DEF Ends, EndsStrings
<1>7. k + 1 < Len(v) /\ k < Len(v) /\ f <= k
  <2> HIDE DEF f
  <2> QED
    BY <1>1, <1>2, <1>3, <1>6
<1>8. n + k \in Ends(w, n + o)
  BY <1>2, <1>3, <1>5, <1>7, InnerEnd
<1>9. StringsIn(w, n + f, n + k) = StringsIn(v, f, k)
  <2>1. ByteAt(v, k) = NUL
    BY <1>6 DEF DoubleNul
  <2> HIDE DEF f
  <2> QED
    BY <1>2, <1>3, <1>7, <2>1, InnerStrings
<1>10. Slice(w, n + o + HeaderSize, n + f) = Slice(v, o + HeaderSize, f)
  <2> HIDE DEF f
  <2>1. o + HeaderSize \in Nat /\ n + (o + HeaderSize) = n + o + HeaderSize
    BY <1>1 DEF HeaderSize
  <2>2. Slice(v, o + HeaderSize, f) = Slice(w, n + (o + HeaderSize), n + f)
    BY <1>3, <2>1, InnerSlice
  <2> QED
    BY <2>1, <2>2
<1>11. StructureAt(w, n + o, n + k) = StructureAt(v, o, k)
  BY <1>5, <1>9, <1>10 DEF StructureAt
<1> QED
  BY <1>2, <1>7, <1>8, <1>11

\* The structure at o and what follows it: the round of a walk that accepts one.
LEMMA RestOfStructure ==
    ASSUME NEW b \in Seq(Byte), NEW e \in 0 .. Len(b), NEW o \in Nat, NEW f,
           o < e, HeaderOK(b, o, e), NEW k \in Ends(b, o)
    PROVE  /\ StructureAt(b, o, k).type = EndOfTable
                => Rest(b, e, f, o) = Returned(<< StructureAt(b, o, k) >>)
           /\ StructureAt(b, o, k).type # EndOfTable
                => Rest(b, e, f, o) = Prepend(StructureAt(b, o, k), f[k + 2])
<1>1. e \in Nat /\ ~ (o >= e)
  BY LenProperties
<1>2. k \in Nat /\ FormattedEnd(b, o) \in Nat
  <2>1. Inside(b, b, 0, Len(b))
    <3>1. Len(b) \in Nat
      BY LenProperties
    <3>2. b = SubSeq(b, 1, Len(b))
      BY SubSeqFull
    <3> QED
      BY <3>1, <3>2 DEF Inside, Slice
  <2>2. 0 \in Nat /\ 0 + e <= e /\ e \in 0 .. Len(b)
    BY <1>1
  <2>3. FormattedEnd(b, o) \in Nat
    BY <2>1, <2>2, InnerHeader
  <2>4. k \in Nat
    BY EndsAhead
  <2> QED
    BY <2>3, <2>4
<1> DEFINE c == CHOOSE c \in Ends(b, o) : TRUE
<1>3. c \in Ends(b, o)
  OBVIOUS
<1>4. Rest(b, e, f, o) = IF StructureAt(b, o, c).type = EndOfTable
                         THEN Returned(<< StructureAt(b, o, c) >>)
                         ELSE Prepend(StructureAt(b, o, c), f[c + 2])
  BY <1>1, Zenon DEF Rest
<1> HIDE DEF c
<1>5. c = k
  BY <1>2, <1>3, OneEnd
<1> QED
  BY <1>4, <1>5

\* Of a table that reaches to the end of w, every structure of w behind n is one.
LEMMA OuterStructure ==
    ASSUME NEW v, NEW w, NEW n, Inside(v, w, n, Len(w)),
           NEW o \in Nat, HeaderOK(w, n + o, Len(w)), NEW j \in Ends(w, n + o)
    PROVE  HeaderOK(v, o, Len(v)) /\ j - n \in Ends(v, o)
<1>1. /\ n \in Nat /\ w \in Seq(Byte) /\ Len(w) \in Nat
      /\ v \in Seq(Byte) /\ Len(v) = Len(w) - n /\ Len(v) \in Nat
  BY InnerBytes
<1>2. /\ n + o + HeaderSize <= Len(w) /\ LengthAt(w, n + o) >= HeaderSize
      /\ FormattedEnd(w, n + o) <= Len(w)
  BY DEF HeaderOK
<1>3. o + HeaderSize <= Len(v)
  BY <1>1, <1>2 DEF HeaderSize
<1>4. /\ LengthAt(w, n + o) = LengthAt(v, o) /\ LengthAt(v, o) \in Byte
      /\ FormattedEnd(w, n + o) = n + FormattedEnd(v, o)
  BY <1>3, InnerFields
<1> DEFINE f == FormattedEnd(v, o)
<1>5. f \in Nat
  <2> DEFINE len == LengthAt(v, o)
  <2>1. len \in Byte /\ f = o + len
    BY <1>4 DEF FormattedEnd
  <2> HIDE DEF len, f
  <2> QED
    BY <2>1 DEF Byte
<1>6. f <= Len(v)
  <2>1. n + f <= Len(w)
    BY <1>2, <1>4
  <2> HIDE DEF f
  <2> QED
    BY <1>1, <1>5, <2>1
<1>7. HeaderOK(v, o, Len(v))
  BY <1>2, <1>3, <1>4, <1>6 DEF HeaderOK
<1>8. j \in n + f .. Len(w) - 2
  BY <1>4 DEF Ends, EndsStrings
<1> DEFINE k == j - n
<1>9. k \in Nat /\ k + 1 < Len(v) /\ n + k = j
  <2> HIDE DEF f
  <2> QED
    BY <1>1, <1>5, <1>8
<1> HIDE DEF k
<1>10. k \in Ends(v, o)
  BY <1>4, <1>5, <1>9, InnerEnd
<1> QED
  BY <1>7, <1>10 DEF k

\* What a walk gives does not depend on the bytes in front of where it starts.
LEMMA WalkOfTheRest ==
    ASSUME NEW v, NEW w, NEW n, Inside(v, w, n, Len(w)),
           NEW o \in Nat, From(w, Len(w))[n + o].kind = "returned"
    PROVE  From(v, Len(v))[o] = From(w, Len(w))[n + o]
<1>1. /\ n \in Nat /\ w \in Seq(Byte) /\ Len(w) \in Nat
      /\ v \in Seq(Byte) /\ Len(v) = Len(w) - n /\ Len(v) \in Nat
  BY InnerBytes
<1> DEFINE e == Len(v)
           E == Len(w)
           f == From(v, e)
           F == From(w, E)
           Bad == {d \in Nat : \E p \in Nat : /\ p + d >= e
                                              /\ F[n + p].kind = "returned"
                                              /\ f[p] # F[n + p]}
<1>2. \A p \in Nat : f[p] = Rest(v, e, f, p)
  BY <1>1, FromSolves
<1>3. \A p \in Nat : F[p] = Rest(w, E, F, p)
  BY <1>1, FromSolves
<1>4. e \in Nat /\ E \in Nat /\ E = n + e
  BY <1>1
<1>6. \A q \in Nat : F[q].kind \in {"returned", "raised"}
  BY <1>1, KindsOfOutcome
<1> HIDE DEF f, F, e, E
<1>5. Bad = {}
  <2> SUFFICES ASSUME Bad # {} PROVE FALSE
    OBVIOUS
  <2>1. PICK d \in Bad : \A x \in Bad : d <= x
    BY LeastElement
  <2>2. PICK p \in Nat : p + d >= e /\ F[n + p].kind = "returned" /\ f[p] # F[n + p]
    BY <2>1
  <2>3. n + p \in Nat /\ (n + p >= E <=> p >= e)
    BY <1>1, <1>4
  <2>4. f[p] = Rest(v, e, f, p) /\ F[n + p] = Rest(w, E, F, n + p)
    BY <1>2, <1>3, <2>3
  <2>5. CASE p >= e
    <3>1. f[p] = Returned(<< >>) /\ F[n + p] = Returned(<< >>)
      BY <2>3, <2>4, <2>5 DEF Rest
    <3> QED
      BY <2>2, <3>1
  <2>6. CASE ~ (p >= e)
    <3>1. HeaderOK(w, n + p, E) /\ Ends(w, n + p) # {}
      <4> SUFFICES ASSUME ~ (HeaderOK(w, n + p, E) /\ Ends(w, n + p) # {})
                   PROVE  FALSE
        OBVIOUS
      <4>1. \/ F[n + p] = HeaderError(w, n + p, E)
            \/ F[n + p] = StringError(w, FormattedEnd(w, n + p))
        BY <2>3, <2>4, <2>6, Zenon DEF Rest
      <4> QED
        BY <2>2, <4>1, ErrorsAreRaised
    <3>2. PICK j \in Ends(w, n + p) : TRUE
      BY <3>1
    <3> DEFINE k == j - n
    <3>3. HeaderOK(v, p, e) /\ k \in Ends(v, p)
      BY <3>1, OuterStructure DEF e, E
    <3>4. /\ k \in Nat /\ k > p
          /\ StructureAt(w, n + p, n + k) = StructureAt(v, p, k)
          /\ n + k \in Ends(w, n + p)
      <4> HIDE DEF k
      <4>1. e \in 0 .. Len(v) /\ E \in 0 .. Len(w) /\ n + e <= E
        BY <1>1, <1>4, SMTT(30) DEF e, E
      <4> QED
        BY <3>3, <4>1, InnerStructure
    <3> HIDE DEF k
    <3> DEFINE s == StructureAt(v, p, k)
    <3>5. /\ s.type = EndOfTable => f[p] = Returned(<< s >>)
          /\ s.type # EndOfTable => f[p] = Prepend(s, f[k + 2])
      <4>1. v \in Seq(Byte) /\ p < e /\ e \in 0 .. Len(v)
        BY <1>1, <1>4, <2>6, SMTT(30) DEF e
      <4> HIDE DEF s
      <4>2. HeaderOK(v, p, e) /\ k \in Ends(v, p) /\ f[p] = Rest(v, e, f, p)
        BY <2>4, <3>3
      <4>3. /\ StructureAt(v, p, k).type = EndOfTable
                 => Rest(v, e, f, p) = Returned(<< StructureAt(v, p, k) >>)
            /\ StructureAt(v, p, k).type # EndOfTable
                 => Rest(v, e, f, p) = Prepend(StructureAt(v, p, k), f[k + 2])
        BY <4>1, <4>2, RestOfStructure
      <4> QED
        BY <4>2, <4>3 DEF s
    <3>6. /\ s.type = EndOfTable => F[n + p] = Returned(<< s >>)
          /\ s.type # EndOfTable => F[n + p] = Prepend(s, F[n + (k + 2)])
      <4> DEFINE q == n + p
                 j2 == n + k
      <4>1. w \in Seq(Byte) /\ E \in 0 .. Len(w)
        BY <1>1 DEF E
      <4>2. q \in Nat /\ q < E
        BY <1>4, <2>3, <2>6
      <4>3. HeaderOK(w, q, E) /\ j2 \in Ends(w, q) /\ F[q] = Rest(w, E, F, q)
        BY <2>4, <3>1, <3>4
      <4>4. StructureAt(w, q, j2) = s /\ j2 + 2 = n + (k + 2)
        BY <1>1, <3>4
      <4> HIDE DEF q, j2, s
      <4>5. /\ StructureAt(w, q, j2).type = EndOfTable
                 => Rest(w, E, F, q) = Returned(<< StructureAt(w, q, j2) >>)
            /\ StructureAt(w, q, j2).type # EndOfTable
                 => Rest(w, E, F, q) = Prepend(StructureAt(w, q, j2), F[j2 + 2])
        BY <4>1, <4>2, <4>3, RestOfStructure
      <4> QED
        BY <4>3, <4>4, <4>5 DEF q
    <3> HIDE DEF s
    <3>7. s.type # EndOfTable
      BY <2>2, <3>5, <3>6
    <3>8. F[n + (k + 2)].kind = "returned"
      <4>1. n + (k + 2) \in Nat
        BY <1>1, <3>4
      <4>2. F[n + (k + 2)].kind \in {"returned", "raised"}
        BY <1>6, <4>1
      <4> QED
        BY <2>2, <3>6, <3>7, <4>2 DEF Prepend
    <3>9. f[k + 2] # F[n + (k + 2)]
      BY <2>2, <3>5, <3>6, <3>7
    <3>10. d - 1 \in Nat /\ ~ (d <= d - 1) /\ k + 2 \in Nat /\ k + 2 + (d - 1) >= e
      BY <1>4, <2>2, <2>6, <3>4, SMTT(30)
    <3>11. d - 1 \in Bad
      BY <3>8, <3>9, <3>10
    <3> QED
      BY <2>1, <3>10, <3>11
  <2> QED
    BY <2>5, <2>6
<1>7. o + e >= e
  BY <1>4
<1> QED
  BY <1>4, <1>5, <1>7 DEF e, E, f, F
=============================================================================
