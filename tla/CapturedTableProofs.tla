------------------------- MODULE CapturedTableProofs ------------------------
(***************************************************************************)
(* Proofs about CapturedTable: what read_dmi tells from the first part of  *)
(* a table, compared with what it tells from the whole.                    *)
(*                                                                         *)
(* First Reader, on structures: every selection by type of the first       *)
(* structures is a beginning of the selection from all of them, and so     *)
(* nothing is taken back.  Then the walk, on bytes: two walks over bytes   *)
(* that begin alike accept the same structures until the shorter one       *)
(* stops; that the two recursions agree is shown, as in SMBIOSTableProofs, *)
(* by looking at the least number of bytes for which they would not.       *)
(***************************************************************************)
EXTENDS CapturedTable, SMBIOSTableProofs

(***************************************************************************)
(* Prefixes.                                                               *)
(***************************************************************************)

\* One sequence begins with another when it does so index by index.
LEMMA PrefixByIndex ==
    ASSUME NEW S, NEW s \in Seq(S), NEW t \in Seq(S)
    PROVE  IsPrefix(s, t) <=> Len(s) <= Len(t) /\ \A i \in 1 .. Len(s) : s[i] = t[i]
<1> DEFINE n == Len(s)
           a == SubSeq(s, 1, n)
           b == SubSeq(t, 1, n)
<1>1. n \in Nat /\ Len(t) \in Nat /\ a = s
  BY LenProperties, SubSeqFull
<1>2. ASSUME n <= Len(t)
      PROVE  b \in Seq(S) /\ Len(b) = n /\ \A i \in 1 .. n : b[i] = t[i]
  <2>1. \A i \in 1 .. n : t[i] \in S
    BY <1>1, <1>2, ElementOfSeq
  <2>2. 1 \in Int /\ n \in Int
    BY <1>1
  <2> HIDE DEF n
  <2>3. /\ b \in Seq(S) /\ Len(b) = (IF 1 <= n THEN n - 1 + 1 ELSE 0)
        /\ \A i \in 1 .. n - 1 + 1 : b[i] = t[1 + i - 1]
    BY <2>1, <2>2, SubSeqProperties
  <2> HIDE DEF b
  <2>4. Len(b) = n
    BY <1>1, <2>3
  <2>5. ASSUME NEW i \in 1 .. n PROVE b[i] = t[i]
    <3>1. i \in 1 .. n - 1 + 1 /\ 1 + i - 1 = i
      BY <1>1
    <3> QED
      BY <2>3, <3>1
  <2> QED
    BY <2>3, <2>4, <2>5
<1>3. IsPrefix(s, t) <=> n <= Len(t) /\ s = b
  BY <1>1 DEF IsPrefix
<1> HIDE DEF b
<1>4. ASSUME n <= Len(t), \A i \in 1 .. n : s[i] = t[i]
      PROVE  s = b
  <2>1. b \in Seq(S) /\ Len(s) = Len(b) /\ \A i \in 1 .. Len(s) : s[i] = b[i]
    BY <1>2, <1>4
  <2> QED
    BY <2>1, SeqEqual
<1> QED
  BY <1>2, <1>3, <1>4

LEMMA EmptyIsPrefix ==
    ASSUME NEW S, NEW t \in Seq(S)
    PROVE  IsPrefix(<< >>, t)
<1>1. << >> \in Seq(S) /\ Len(<< >>) = 0 /\ Len(t) \in Nat
  BY EmptySeq, LenProperties
<1>2. 0 <= Len(t) /\ 1 .. 0 = {}
  BY <1>1
<1> QED
  BY <1>1, <1>2, PrefixByIndex

LEMMA SameIsPrefix ==
    ASSUME NEW S, NEW t \in Seq(S)
    PROVE  IsPrefix(t, t)
BY LenProperties, PrefixByIndex

\* A sequence begins with what it was made longer from.
LEMMA PrefixOfConcat ==
    ASSUME NEW S, NEW s \in Seq(S), NEW t \in Seq(S)
    PROVE  IsPrefix(s, s \o t)
<1> DEFINE u == s \o t
<1>1. Len(s) \in Nat /\ Len(t) \in Nat
  BY LenProperties
<1>2. /\ u \in Seq(S) /\ Len(u) = Len(s) + Len(t)
      /\ \A i \in 1 .. Len(s) + Len(t) : u[i] = IF i <= Len(s) THEN s[i] ELSE t[i - Len(s)]
  BY ConcatProperties
<1> HIDE DEF u
<1>3. Len(s) <= Len(u) /\ \A i \in 1 .. Len(s) : s[i] = u[i]
  BY <1>1, <1>2
<1>4. IsPrefix(s, u)
  BY <1>2, <1>3, PrefixByIndex
<1> QED
  BY <1>4 DEF u

LEMMA PrefixTransitive ==
    ASSUME NEW S, NEW s \in Seq(S), NEW t \in Seq(S), NEW u \in Seq(S),
           IsPrefix(s, t), IsPrefix(t, u)
    PROVE  IsPrefix(s, u)
<1>1. Len(s) \in Nat /\ Len(t) \in Nat /\ Len(u) \in Nat
  BY LenProperties
<1>2. Len(s) <= Len(t) /\ \A i \in 1 .. Len(s) : s[i] = t[i]
  BY PrefixByIndex
<1>3. Len(t) <= Len(u) /\ \A i \in 1 .. Len(t) : t[i] = u[i]
  BY PrefixByIndex
<1>4. Len(s) <= Len(u) /\ \A i \in 1 .. Len(s) : s[i] = u[i]
  BY <1>1, <1>2, <1>3
<1> QED
  BY <1>4, PrefixByIndex

-----------------------------------------------------------------------------
(***************************************************************************)
(* FlattenSeq joins the sequences of a sequence one after the other.       *)
(***************************************************************************)

\* The function FlattenSeq is the last value of.
Joined(a) == CHOOSE f : f = [i \in 1 .. Len(a) |-> IF i = 1 THEN a[i] ELSE f[i - 1] \o a[i]]

LEMMA FlattenIsJoined ==
    ASSUME NEW a
    PROVE  FlattenSeq(a) = IF Len(a) = 0 THEN a ELSE Joined(a)[Len(a)]
BY Zenon DEF FlattenSeq, Joined

\* g joins the first n sequences.
Joins(S, a, g, n) ==
    /\ g \in [1 .. n -> Seq(S)]
    /\ \A i \in 1 .. n : g[i] = IF i = 1 THEN a[i] ELSE g[i - 1] \o a[i]

LEMMA CanBeJoined ==
    ASSUME NEW S, NEW a \in Seq(Seq(S))
    PROVE  \E g : Joins(S, a, g, Len(a))
<1> DEFINE N == Len(a)
           Bad == {n \in Nat : n <= N /\ ~ \E g : Joins(S, a, g, n)}
<1>1. N \in Nat /\ \A i \in 1 .. N : a[i] \in Seq(S)
  BY LenProperties, ElementOfSeq
<1>2. Bad = {}
  <2> SUFFICES ASSUME Bad # {} PROVE FALSE
    OBVIOUS
  <2>1. PICK n \in Bad : \A x \in Bad : n <= x
    BY LeastElement
  <2>2. n \in Nat /\ n <= N /\ ~ \E g : Joins(S, a, g, n)
    BY DEF Bad
  <2>3. CASE n = 0
    <3>1. Joins(S, a, [i \in 1 .. n |-> << >>], n)
      BY <2>3 DEF Joins
    <3> QED
      BY <2>2, <3>1
  <2>4. CASE n # 0
    <3>1. n - 1 \in Nat /\ n - 1 <= N /\ ~ (n <= n - 1) /\ n \in 1 .. N
      BY <1>1, <2>2, <2>4
    <3>2. PICK g : Joins(S, a, g, n - 1)
      BY <2>1, <3>1
    <3> DEFINE last == IF n = 1 THEN a[n] ELSE g[n - 1] \o a[n]
               h == [i \in 1 .. n |-> IF i = n THEN last ELSE g[i]]
    <3>3. last \in Seq(S)
      <4>1. CASE n = 1
        BY <1>1, <3>1, <4>1
      <4>2. CASE n # 1
        <5>1. n - 1 \in 1 .. n - 1
          BY <3>1, <4>2
        <5>2. g[n - 1] \in Seq(S) /\ a[n] \in Seq(S)
          BY <1>1, <3>1, <3>2, <5>1 DEF Joins
        <5>3. g[n - 1] \o a[n] \in Seq(S)
          BY <5>2, ConcatProperties
        <5> QED
          BY <4>2, <5>3
      <4> QED
        BY <4>1, <4>2
    <3> HIDE DEF last
    <3>4. h \in [1 .. n -> Seq(S)]
      BY <3>1, <3>2, <3>3 DEF Joins
    <3>5. ASSUME NEW i \in 1 .. n
          PROVE  h[i] = IF i = 1 THEN a[i] ELSE h[i - 1] \o a[i]
      <4>1. CASE i = n
        <5>1. i # 1 => i - 1 \in 1 .. n /\ i - 1 # n
          BY <2>2, <4>1
        <5> QED
          BY <4>1, <5>1 DEF last
      <4>2. CASE i # n
        <5>1. i \in 1 .. n - 1 /\ (i # 1 => i - 1 \in 1 .. n /\ i - 1 # n)
          BY <2>2, <4>2
        <5>2. g[i] = IF i = 1 THEN a[i] ELSE g[i - 1] \o a[i]
          BY <3>2, <5>1 DEF Joins
        <5> QED
          BY <4>2, <5>1, <5>2
      <4> QED
        BY <4>1, <4>2
    <3>6. Joins(S, a, h, n)
      BY <3>4, <3>5 DEF Joins
    <3> QED
      BY <2>2, <3>6
  <2> QED
    BY <2>3, <2>4
<1> QED
  BY <1>1, <1>2

LEMMA JoinedJoins ==
    ASSUME NEW S, NEW a \in Seq(Seq(S))
    PROVE  Joins(S, a, Joined(a), Len(a))
<1> DEFINE N == Len(a)
           f == Joined(a)
           Bad == {i \in 1 .. N : f[i] \notin Seq(S)}
<1>1. N \in Nat /\ \A i \in 1 .. N : a[i] \in Seq(S)
  BY LenProperties, ElementOfSeq
<1>2. PICK g : Joins(S, a, g, N)
  BY CanBeJoined
<1>3. g = [i \in 1 .. N |-> IF i = 1 THEN a[i] ELSE g[i - 1] \o a[i]]
  BY <1>2 DEF Joins
<1>4. f = [i \in 1 .. N |-> IF i = 1 THEN a[i] ELSE f[i - 1] \o a[i]]
  BY <1>3, Zenon DEF Joined
<1> HIDE DEF f
<1>5. \A i \in 1 .. N : f[i] = IF i = 1 THEN a[i] ELSE f[i - 1] \o a[i]
  BY <1>4
<1>6. Bad = {}
  <2> SUFFICES ASSUME Bad # {} PROVE FALSE
    OBVIOUS
  <2>1. Bad \in SUBSET Nat
    OBVIOUS
  <2> HIDE DEF Bad
  <2>2. PICK i \in Bad : \A x \in Bad : i <= x
    BY <2>1, LeastElement
  <2>3. i \in 1 .. N /\ f[i] \notin Seq(S)
    BY <2>2 DEF Bad
  <2>4. i # 1 /\ f[i] = f[i - 1] \o a[i]
    BY <1>1, <1>5, <2>3
  <2>5. i - 1 \in 1 .. N /\ ~ (i <= i - 1)
    BY <1>1, <2>3, <2>4
  <2>6. f[i - 1] \in Seq(S)
    BY <2>2, <2>5 DEF Bad
  <2>7. f[i - 1] \o a[i] \in Seq(S)
    BY <1>1, <2>3, <2>6, ConcatProperties
  <2> QED
    BY <2>3, <2>4, <2>7
<1>7. f \in [1 .. N -> Seq(S)]
  BY <1>4, <1>6
<1> QED
  BY <1>5, <1>7 DEF Joins, f

LEMMA FlattenIsSeq ==
    ASSUME NEW S, NEW a \in Seq(Seq(S))
    PROVE  FlattenSeq(a) \in Seq(S)
<1>1. Joins(S, a, Joined(a), Len(a)) /\ Len(a) \in Nat
  BY JoinedJoins, LenProperties
<1>2. CASE Len(a) = 0
  <2>1. a = << >>
    BY <1>2, EmptySeq
  <2> QED
    BY <1>2, <2>1, FlattenIsJoined, EmptySeq
<1>3. CASE Len(a) # 0
  <2>1. Len(a) \in 1 .. Len(a)
    BY <1>1, <1>3
  <2> QED
    BY <1>1, <1>3, <2>1, FlattenIsJoined DEF Joins
<1> QED
  BY <1>2, <1>3

\* Two sequences that begin alike are joined alike as far as both go.
LEMMA JoinedAgree ==
    ASSUME NEW S, NEW a \in Seq(Seq(S)), NEW b \in Seq(Seq(S)), IsPrefix(a, b)
    PROVE  \A i \in 1 .. Len(a) : Joined(a)[i] = Joined(b)[i]
<1> DEFINE f == Joined(a)
           g == Joined(b)
           Bad == {i \in 1 .. Len(a) : f[i] # g[i]}
<1>1. Len(a) \in Nat /\ Len(b) \in Nat
  BY LenProperties
<1>2. Len(a) <= Len(b) /\ \A i \in 1 .. Len(a) : a[i] = b[i]
  BY PrefixByIndex
<1>3. /\ \A i \in 1 .. Len(a) : f[i] = IF i = 1 THEN a[i] ELSE f[i - 1] \o a[i]
      /\ \A i \in 1 .. Len(b) : g[i] = IF i = 1 THEN b[i] ELSE g[i - 1] \o b[i]
  BY JoinedJoins DEF Joins
<1> HIDE DEF f, g
<1>4. Bad = {}
  <2> SUFFICES ASSUME Bad # {} PROVE FALSE
    OBVIOUS
  <2>1. Bad \in SUBSET Nat
    OBVIOUS
  <2> HIDE DEF Bad
  <2>2. PICK i \in Bad : \A x \in Bad : i <= x
    BY <2>1, LeastElement
  <2>3. i \in 1 .. Len(a) /\ i \in 1 .. Len(b) /\ f[i] # g[i] /\ a[i] = b[i]
    BY <1>1, <1>2, <2>2 DEF Bad
  <2>4. CASE i = 1
    BY <1>3, <2>3, <2>4
  <2>5. CASE i # 1
    <3>1. i - 1 \in 1 .. Len(a) /\ ~ (i <= i - 1)
      BY <1>1, <2>3, <2>5
    <3>2. f[i - 1] = g[i - 1]
      BY <2>2, <3>1 DEF Bad
    <3> QED
      BY <1>3, <2>3, <2>5, <3>2
  <2> QED
    BY <2>4, <2>5
<1> QED
  BY <1>4 DEF f, g

\* Joining more gives what joining fewer gave, and maybe more.
LEMMA JoinedGrows ==
    ASSUME NEW S, NEW a \in Seq(Seq(S)), NEW i \in 1 .. Len(a), NEW j \in 1 .. Len(a), i <= j
    PROVE  IsPrefix(Joined(a)[i], Joined(a)[j])
<1> DEFINE f == Joined(a)
           Bad == {x \in i .. Len(a) : ~ IsPrefix(f[i], f[x])}
<1>1. Len(a) \in Nat /\ \A x \in 1 .. Len(a) : a[x] \in Seq(S)
  BY LenProperties, ElementOfSeq
<1>2. /\ f \in [1 .. Len(a) -> Seq(S)]
      /\ \A x \in 1 .. Len(a) : f[x] = IF x = 1 THEN a[x] ELSE f[x - 1] \o a[x]
  BY JoinedJoins DEF Joins
<1> HIDE DEF f
<1>3. Bad = {}
  <2> SUFFICES ASSUME Bad # {} PROVE FALSE
    OBVIOUS
  <2>1. Bad \in SUBSET Nat
    OBVIOUS
  <2> HIDE DEF Bad
  <2>2. PICK x \in Bad : \A y \in Bad : x <= y
    BY <2>1, LeastElement
  <2>3. x \in i .. Len(a) /\ ~ IsPrefix(f[i], f[x])
    BY <2>2 DEF Bad
  <2>4. f[i] \in Seq(S)
    BY <1>2
  <2>5. x # i
    BY <2>3, <2>4, SameIsPrefix
  <2>6. x # 1 /\ x - 1 \in i .. Len(a) /\ x - 1 \in 1 .. Len(a) /\ x \in 1 .. Len(a)
        /\ ~ (x <= x - 1)
    BY <1>1, <2>3, <2>5
  <2>7. IsPrefix(f[i], f[x - 1])
    BY <2>2, <2>6 DEF Bad
  <2>8. f[x - 1] \in Seq(S) /\ a[x] \in Seq(S) /\ f[x] = f[x - 1] \o a[x]
    BY <1>1, <1>2, <2>6
  <2>9. IsPrefix(f[x - 1], f[x]) /\ f[x] \in Seq(S)
    BY <2>8, PrefixOfConcat, ConcatProperties
  <2> QED
    BY <2>3, <2>4, <2>7, <2>8, <2>9, PrefixTransitive
<1>4. j \in i .. Len(a)
  BY <1>1
<1> QED
  BY <1>3, <1>4 DEF f

LEMMA FlattenPrefix ==
    ASSUME NEW S, NEW a \in Seq(Seq(S)), NEW b \in Seq(Seq(S)), IsPrefix(a, b)
    PROVE  IsPrefix(FlattenSeq(a), FlattenSeq(b))
<1>1. Len(a) \in Nat /\ Len(b) \in Nat
  BY LenProperties
<1>2. Len(a) <= Len(b)
  BY DEF IsPrefix
<1>3. CASE Len(a) = 0
  <2>1. a = << >>
    BY <1>3, EmptySeq
  <2>2. FlattenSeq(a) = << >>
    BY <1>3, <2>1, FlattenIsJoined
  <2>3. FlattenSeq(b) \in Seq(S)
    BY FlattenIsSeq
  <2> QED
    BY <2>2, <2>3, EmptyIsPrefix
<1>4. CASE Len(a) # 0
  <2>1. Len(a) \in 1 .. Len(a) /\ Len(a) \in 1 .. Len(b) /\ Len(b) \in 1 .. Len(b) /\ Len(b) # 0
    BY <1>1, <1>2, <1>4
  <2>2. FlattenSeq(a) = Joined(a)[Len(a)] /\ FlattenSeq(b) = Joined(b)[Len(b)]
    BY <1>4, <2>1, FlattenIsJoined
  <2>3. Joined(a)[Len(a)] = Joined(b)[Len(a)]
    BY <2>1, JoinedAgree
  <2>4. IsPrefix(Joined(b)[Len(a)], Joined(b)[Len(b)])
    BY <1>2, <2>1, JoinedGrows
  <2> QED
    BY <2>2, <2>3, <2>4
<1> QED
  BY <1>3, <1>4

-----------------------------------------------------------------------------
(***************************************************************************)
(* Selecting by type.                                                      *)
(***************************************************************************)

\* The least of a set of numbers is the least of those up to n, if there are any.
LEMMA SameMin ==
    ASSUME NEW A \in SUBSET Nat, NEW n \in Nat, NEW B, B = {i \in A : i <= n}, B # {}
    PROVE  Min(A) = Min(B) /\ Min(B) \in B
<1>1. PICK x \in B : \A y \in B : x <= y
  BY LeastElement
<1>2. x \in A /\ x \in Nat /\ x <= n
  BY <1>1
<1>3. ASSUME NEW y \in A PROVE x <= y
  BY <1>1, <1>2, <1>3
<1>4. ASSUME NEW z \in B, \A y \in B : z <= y PROVE z = x
  BY <1>1, <1>2, <1>4
<1>5. ASSUME NEW z \in A, \A y \in A : z <= y PROVE z = x
  BY <1>2, <1>3, <1>5
<1>6. Min(B) = x
  <2>1. Min(B) \in B /\ \A y \in B : Min(B) <= y
    BY <1>1, Zenon DEF Min
  <2> QED
    BY <1>4, <2>1
<1>7. Min(A) = x
  <2>1. Min(A) \in A /\ \A y \in A : Min(A) <= y
    BY <1>2, <1>3, Zenon DEF Min
  <2> QED
    BY <1>5, <2>1
<1> QED
  BY <1>1, <1>6, <1>7

LEMMA OfTypeOfMore ==
    ASSUME NEW S, NEW s \in Seq(S), NEW t \in Seq(S), IsPrefix(s, t), NEW T
    PROVE  /\ OfType(t, T) \in SUBSET Nat /\ Len(s) \in Nat
           /\ OfType(s, T) = {i \in OfType(t, T) : i <= Len(s)}
           /\ \A i \in 1 .. Len(s) : i \in DOMAIN t /\ s[i] = t[i]
                                     /\ (i \in OfType(s, T) <=> i \in OfType(t, T))
<1>1. DOMAIN s = 1 .. Len(s) /\ DOMAIN t = 1 .. Len(t) /\ Len(s) \in Nat /\ Len(t) \in Nat
  BY LenProperties
<1>2. Len(s) <= Len(t) /\ \A i \in 1 .. Len(s) : s[i] = t[i]
  BY PrefixByIndex
<1> QED
  BY <1>1, <1>2 DEF OfType

LEMMA FirstStands ==
    ASSUME NEW S, NEW s \in Seq(S), NEW t \in Seq(S), IsPrefix(s, t), NEW T
    PROVE  _first(s, T) \in {None, _first(t, T)}
<1> DEFINE A == OfType(t, T)
           B == OfType(s, T)
<1>1. CASE B = {}
  BY <1>1 DEF _first
<1>2. CASE B # {}
  <2>1. /\ A \in SUBSET Nat /\ Len(s) \in Nat /\ B = {i \in A : i <= Len(s)}
        /\ B \subseteq DOMAIN s
    BY OfTypeOfMore DEF OfType
  <2>2. \A i \in DOMAIN s : s[i] = t[i]
    BY OfTypeOfMore, LenProperties
  <2> HIDE DEF A, B
  <2>3. Min(A) = Min(B) /\ Min(B) \in B
    BY <1>2, <2>1, SameMin, ZenonT(60)
  <2>4. s[Min(B)] = t[Min(A)] /\ A # {}
    BY <2>1, <2>2, <2>3
  <2>5. _first(s, T) = Decode(s[Min(B)]) /\ _first(t, T) = Decode(t[Min(A)])
    BY <1>2, <2>4 DEF _first, A, B
  <2> QED
    BY <2>4, <2>5
<1> QED
  BY <1>1, <1>2

\* The sequences _all and the loop over OEM strings join.
Single(raws, T) ==
    [i \in DOMAIN raws |-> IF i \in OfType(raws, T) THEN << Decode(raws[i]) >> ELSE << >>]
Several(raws, T) ==
    [i \in DOMAIN raws |-> IF i \in OfType(raws, T) THEN Decode(raws[i]) ELSE << >>]

LEMMA AllGrows ==
    ASSUME NEW S, NEW s \in Seq(S), NEW t \in Seq(S), IsPrefix(s, t), NEW T
    PROVE  /\ _all(s, T) \in Seq({Decode(r) : r \in S}) /\ _all(t, T) \in Seq({Decode(r) : r \in S})
           /\ IsPrefix(_all(s, T), _all(t, T))
<1> DEFINE D == {Decode(r) : r \in S}
<1>1. ASSUME NEW u \in Seq(S)
      PROVE  Single(u, T) \in Seq(Seq(D)) /\ Len(Single(u, T)) = Len(u)
  <2>1. DOMAIN u = 1 .. Len(u) /\ Len(u) \in Nat /\ \A i \in 1 .. Len(u) : u[i] \in S
    BY LenProperties, ElementOfSeq
  <2>2. \A i \in 1 .. Len(u) : Decode(u[i]) \in D
    BY <2>1
  <2> HIDE DEF D
  <2>3. \A i \in 1 .. Len(u) : << Decode(u[i]) >> \in Seq(D) /\ << >> \in Seq(D)
    BY <2>2
  <2>4. Single(u, T) \in [1 .. Len(u) -> Seq(D)]
    BY <2>1, <2>3 DEF Single
  <2> QED
    BY <2>1, <2>4, FunctionIsSeq
<1> HIDE DEF D
<1>2. Single(s, T) \in Seq(Seq(D)) /\ Single(t, T) \in Seq(Seq(D))
  BY <1>1
<1>3. IsPrefix(Single(s, T), Single(t, T))
  <2>1. Len(s) <= Len(t) /\ DOMAIN s = 1 .. Len(s)
    BY LenProperties DEF IsPrefix
  <2>2. \A i \in 1 .. Len(s) : Single(s, T)[i] = Single(t, T)[i]
    BY <2>1, OfTypeOfMore DEF Single
  <2> QED
    BY <1>1, <1>2, <2>1, <2>2, PrefixByIndex
<1>4. _all(s, T) = FlattenSeq(Single(s, T)) /\ _all(t, T) = FlattenSeq(Single(t, T))
  BY DEF _all, Single
<1> QED
  BY <1>2, <1>3, <1>4, FlattenIsSeq, FlattenPrefix DEF D

\* The strings of an OEM structure are a sequence.
HasStrings(S, V) == \A r \in S : r.type = 11 => r.strings \in Seq(V)

LEMMA OemGrows ==
    ASSUME NEW S, NEW V, HasStrings(S, V),
           NEW s \in Seq(S), NEW t \in Seq(S), IsPrefix(s, t)
    PROVE  IsPrefix(oem_strings(s), oem_strings(t))
<1>1. ASSUME NEW u \in Seq(S)
      PROVE  Several(u, 11) \in Seq(Seq(V)) /\ Len(Several(u, 11)) = Len(u)
  <2>1. DOMAIN u = 1 .. Len(u) /\ Len(u) \in Nat /\ \A i \in 1 .. Len(u) : u[i] \in S
    BY LenProperties, ElementOfSeq
  <2>2. ASSUME NEW i \in 1 .. Len(u), i \in OfType(u, 11)
        PROVE  Decode(u[i]) \in Seq(V)
    <3>1. u[i] \in S /\ u[i].type = 11
      BY <2>1, <2>2 DEF OfType
    <3>2. Decode(u[i]) = u[i].strings
      BY <3>1 DEF Decode, parse_oem_strings
    <3> QED
      BY <3>1, <3>2 DEF HasStrings
  <2>3. Several(u, 11) \in [1 .. Len(u) -> Seq(V)]
    BY <2>1, <2>2, EmptySeq DEF Several
  <2> QED
    BY <2>1, <2>3, FunctionIsSeq, SMTT(30)
<1>2. Several(s, 11) \in Seq(Seq(V)) /\ Several(t, 11) \in Seq(Seq(V))
  BY <1>1
<1>3. IsPrefix(Several(s, 11), Several(t, 11))
  <2>1. Len(s) <= Len(t) /\ DOMAIN s = 1 .. Len(s)
    BY LenProperties DEF IsPrefix
  <2>2. \A i \in 1 .. Len(s) : Several(s, 11)[i] = Several(t, 11)[i]
    BY <2>1, OfTypeOfMore DEF Several
  <2> QED
    BY <1>1, <1>2, <2>1, <2>2, PrefixByIndex
<1>4. oem_strings(s) = FlattenSeq(Several(s, 11)) /\ oem_strings(t) = FlattenSeq(Several(t, 11))
  BY DEF oem_strings, Several
<1> QED
  BY <1>2, <1>3, <1>4, FlattenPrefix

-----------------------------------------------------------------------------
(***************************************************************************)
(* What DMIInfo answers.                                                   *)
(***************************************************************************)

\* A handle that was resolved is resolved to the same cache when there are more.
LEMMA HandleStands ==
    ASSUME NEW S, NEW old, NEW new, old.caches \in Seq(S), new.caches \in Seq(S),
           IsPrefix(old.caches, new.caches), NEW i \in DOMAIN old.caches
    PROVE  cache_by_handle(old, old.caches[i].handle) = cache_by_handle(new, old.caches[i].handle)
<1> DEFINE x == old.caches
           y == new.caches
           h == x[i].handle
           A == WithHandle(new, h)
           B == WithHandle(old, h)
<1>1. /\ DOMAIN x = 1 .. Len(x) /\ Len(x) \in Nat
      /\ DOMAIN y = 1 .. Len(y) /\ Len(y) \in Nat
  BY LenProperties
<1>2. Len(x) <= Len(y) /\ \A j \in 1 .. Len(x) : x[j] = y[j]
  BY PrefixByIndex
<1> HIDE DEF h
<1>3. /\ A = {j \in 1 .. Len(y) : y[j].handle = h}
      /\ B = {j \in 1 .. Len(x) : x[j].handle = h}
  BY <1>1 DEF WithHandle
<1>4. i \in B
  BY <1>1, <1>3 DEF h
<1> HIDE DEF A, B, x, y
<1>5. A \in SUBSET Nat /\ B = {j \in A : j <= Len(x)} /\ B # {} /\ B \subseteq 1 .. Len(x)
  BY <1>1, <1>2, <1>3, <1>4
<1>6. Min(A) = Min(B) /\ Min(B) \in B
  <2> DEFINE n == Len(x)
  <2>1. A \in SUBSET Nat /\ n \in Nat /\ B = {j \in A : j <= n} /\ B # {}
    BY <1>1, <1>5
  <2> HIDE DEF n
  <2> QED
    BY <2>1, SameMin, ZenonT(60)
<1>7. y[Min(A)] = x[Min(B)] /\ A # {}
  BY <1>2, <1>5, <1>6
<1>8. cache_by_handle(old, h) = cache_by_handle(new, h)
  BY <1>5, <1>7 DEF cache_by_handle, A, B, x, y
<1> QED
  BY <1>8 DEF h, x

\* What a nonempty beginning says, the whole says too.
LEMMA BeginningSays ==
    ASSUME NEW S, NEW x \in Seq(S), NEW y \in Seq(S), IsPrefix(x, y)
    PROVE  /\ \A i \in DOMAIN x : i \in DOMAIN y /\ y[i] = x[i]
           /\ x # << >> => y # << >> /\ 1 \in DOMAIN x
<1>1. /\ DOMAIN x = 1 .. Len(x) /\ Len(x) \in Nat
      /\ DOMAIN y = 1 .. Len(y) /\ Len(y) \in Nat
  BY LenProperties
<1>2. Len(x) <= Len(y) /\ \A i \in 1 .. Len(x) : x[i] = y[i]
  BY PrefixByIndex
<1>3. x # << >> => Len(x) # 0
  BY EmptySeq
<1>4. y = << >> => Len(y) = 0
  BY EmptySeq
<1> QED
  BY <1>1, <1>2, <1>3, <1>4

\* The model is a product name, which stands, or a fallback.
LEMMA ModelStands ==
    ASSUME NEW S, NEW x \in Seq(S), NEW y \in Seq(S), IsPrefix(x, y),
           NEW a, NEW b, a \in {None, b}
    PROVE  /\ _tn_model(a, x) \in {TRUENAS_UNKNOWN, X10Model, _tn_model(b, y)}
           /\ _tn_model(a, x) = X10Model /\ a # None => _tn_model(b, y) = X10Model
<1> DEFINE Named(c) == c # None /\ \E p \in PLATFORM_PREFIXES : IsPrefix(p, c.product_name)
           X10(z) == z # << >> /\ z[1].product = X10Product
<1>1. X10(x) => X10(y)
  BY BeginningSays
<1>2. Named(a) => a = b
  OBVIOUS
<1> HIDE DEF X10
<1>3. \A c, z : _tn_model(c, z) = IF Named(c) THEN c.product_name
                                  ELSE IF X10(z) THEN X10Model ELSE TRUENAS_UNKNOWN
  BY Zenon DEF _tn_model, X10
<1>4. Named(a) => _tn_model(b, y) = _tn_model(a, x)
  BY <1>2, <1>3
<1>5. ~ Named(a) => _tn_model(a, x) \in {TRUENAS_UNKNOWN, X10Model}
  BY <1>3
<1>6. ASSUME ~ Named(a), a # None, _tn_model(a, x) = X10Model
      PROVE  _tn_model(b, y) = X10Model
  <2>1. a = b /\ ~ Named(b)
    BY <1>6
  <2> HIDE DEF Named
  <2>2. CASE X10(y)
    BY <1>3, <2>1, <2>2
  <2>3. CASE ~ X10(y)
    BY <1>1, <1>3, <1>6, <2>1, <2>3
  <2> QED
    BY <2>2, <2>3
<1> HIDE DEF Named
<1> QED
  BY <1>4, <1>5, <1>6


(***************************************************************************)
(* The walk: prefixes once more.                                           *)
(***************************************************************************)

\* What stands in front of both does not matter.
LEMMA PrependPrefix ==
    ASSUME NEW S, NEW s \in S, NEW x \in Seq(S), NEW y \in Seq(S), IsPrefix(x, y)
    PROVE  IsPrefix(<< s >> \o x, << s >> \o y)
<1> DEFINE one == << s >>
           u == one \o x
           v == one \o y
<1>1. one \in Seq(S) /\ Len(one) = 1 /\ Len(x) \in Nat /\ Len(y) \in Nat
  BY LenProperties
<1> HIDE DEF one
<1>2. /\ u \in Seq(S) /\ Len(u) = Len(one) + Len(x)
      /\ \A i \in 1 .. Len(one) + Len(x) :
            u[i] = IF i <= Len(one) THEN one[i] ELSE x[i - Len(one)]
  BY <1>1, ConcatProperties
<1>3. /\ v \in Seq(S) /\ Len(v) = Len(one) + Len(y)
      /\ \A i \in 1 .. Len(one) + Len(y) :
            v[i] = IF i <= Len(one) THEN one[i] ELSE y[i - Len(one)]
  BY <1>1, ConcatProperties
<1>4. Len(x) <= Len(y) /\ \A i \in 1 .. Len(x) : x[i] = y[i]
  BY PrefixByIndex
<1> HIDE DEF u, v
<1>5. ASSUME NEW i \in 1 .. Len(u)
      PROVE  u[i] = v[i]
  <2>1. i \in 1 .. Len(one) + Len(x) /\ i \in 1 .. Len(one) + Len(y)
    BY <1>1, <1>2, <1>4
  <2>2. i <= Len(one) \/ (~ (i <= Len(one)) /\ i - Len(one) \in 1 .. Len(x))
    BY <1>1, <2>1
  <2> QED
    BY <1>2, <1>3, <1>4, <2>1, <2>2
<1>6. Len(u) <= Len(v)
  BY <1>1, <1>2, <1>3, <1>4
<1>7. IsPrefix(u, v)
  BY <1>2, <1>3, <1>5, <1>6, PrefixByIndex
<1> QED
  BY <1>7 DEF u, v, one

LEMMA PrependConcat ==
    ASSUME NEW S, NEW s \in S, NEW x \in Seq(S), NEW y \in Seq(S)
    PROVE  << s >> \o (x \o y) = (<< s >> \o x) \o y
<1>1. << s >> \in Seq(S)
  OBVIOUS
<1> QED
  BY <1>1, ConcatAssociative

-----------------------------------------------------------------------------
(***************************************************************************)
(* Two walks side by side.                                                 *)
(***************************************************************************)

\* The fields of an outcome, and of one with a structure put in front.
LEMMA ReturnedFields ==
    ASSUME NEW ss
    PROVE  Returned(ss).kind = "returned" /\ Returned(ss).structures = ss
BY DEF Returned

LEMMA PrependReturned ==
    ASSUME NEW s, NEW rest, rest.kind \in {"returned", "raised"},
           Prepend(s, rest).kind = "returned"
    PROVE  /\ rest.kind = "returned"
           /\ Prepend(s, rest).structures = << s >> \o rest.structures
<1>1. rest.kind = "returned"
  BY DEF Prepend
<1>2. Prepend(s, rest) = Returned(<< s >> \o rest.structures)
  BY <1>1 DEF Prepend
<1> QED
  BY <1>1, <1>2, ReturnedFields

\* What a call that returned gave.
LEMMA ReturnedStructures ==
    ASSUME NEW b \in Seq(Byte), NEW e \in 0 .. Len(b), NEW o \in Nat,
           From(b, e)[o].kind = "returned"
    PROVE  /\ From(b, e)[o].structures \in Seq(Structs(b))
           /\ From(b, e)[o] = Returned(From(b, e)[o].structures)
<1> DEFINE r == From(b, e)[o]
<1>1. IsOutcome(b, r) /\ r.kind = "returned"
  BY FromIsOutcome
<1> HIDE DEF r
<1>2. PICK ss \in Seq(Structs(b)) : r = Returned(ss)
  BY <1>1 DEF IsOutcome
<1>3. r.structures = ss
  BY <1>2 DEF Returned
<1> QED
  BY <1>2, <1>3 DEF r

\* A round in which the walk over v, the first bytes of w, does not stop: a walk
\* over w accepts the same structure there, and both go on at the same offset.
LEMMA SameRound ==
    ASSUME NEW v, NEW w, NEW m, Inside(v, w, 0, m),
           NEW e \in 0 .. Len(v), NEW e2 \in 0 .. Len(w), e <= e2,
           NEW o \in Nat, o < e, From(v, e)[o].kind = "returned"
    PROVE  \E s \in Structs(v) \cap Structs(w), p \in Nat :
              /\ p > o /\ p <= Len(v)
              /\ s.type = EndOfTable =>
                    /\ From(v, e)[o] = Returned(<< s >>)
                    /\ From(w, e2)[o] = Returned(<< s >>)
              /\ s.type # EndOfTable =>
                    /\ From(v, e)[p].kind = "returned"
                    /\ From(v, e)[o] = Returned(<< s >> \o From(v, e)[p].structures)
                    /\ From(w, e2)[o] = Prepend(s, From(w, e2)[p])
<1>1. /\ w \in Seq(Byte) /\ Len(w) \in Nat
      /\ v \in Seq(Byte) /\ Len(v) \in Nat /\ Len(v) <= Len(w)
  BY InnerBytes
<1> DEFINE f == From(v, e)
           g == From(w, e2)
<1>2. f[o] = Rest(v, e, f, o) /\ g[o] = Rest(w, e2, g, o)
  BY <1>1, FromSolves
<1>3. \A q \in Nat : f[q].kind \in {"returned", "raised"}
  BY <1>1, KindsOfOutcome
<1>4. f[o].kind = "returned"
  OBVIOUS
<1> HIDE DEF f, g
<1>5. e \in Nat /\ e2 \in Nat /\ ~ (o >= e) /\ o < e2
  BY <1>1
<1>6. HeaderOK(v, o, e) /\ Ends(v, o) # {}
  <2> SUFFICES ASSUME ~ (HeaderOK(v, o, e) /\ Ends(v, o) # {})
               PROVE  FALSE
    OBVIOUS
  <2>1. \/ f[o] = HeaderError(v, o, e)
        \/ f[o] = StringError(v, FormattedEnd(v, o))
    BY <1>2, <1>5, Zenon DEF Rest
  <2> QED
    BY <1>4, <2>1, ErrorsAreRaised
<1>7. PICK k \in Ends(v, o) : TRUE
  BY <1>6
<1> DEFINE s == StructureAt(v, o, k)
<1>8. 0 + e <= e2 /\ 0 + o = o
  BY <1>5
<1>9. HeaderOK(w, o, e2)
  <2>1. HeaderOK(w, 0 + o, e2)
    BY <1>6, <1>8, InnerHeader
  <2> QED
    BY <1>8, <2>1
<1>10. k \in Nat /\ k > o /\ k + 1 < Len(v) /\ k \in Ends(w, o) /\ StructureAt(w, o, k) = s
  <2>1. /\ k \in Nat /\ k > o /\ k + 1 < Len(v)
        /\ 0 + k \in Ends(w, 0 + o) /\ StructureAt(w, 0 + o, 0 + k) = s
    BY <1>6, <1>8, InnerStructure
  <2>2. 0 + k = k
    BY <2>1
  <2> QED
    BY <1>8, <2>1, <2>2
<1>11. s \in Structs(v) \cap Structs(w)
  <2>1. FormattedEnd(v, o) \in Nat /\ FormattedEnd(w, o) \in Nat
    BY <1>1, <1>5, <1>6, <1>9, <1>10, EndsAhead
  <2>2. s \in Structs(v)
    BY <1>10, <2>1 DEF Structs
  <2>3. StructureAt(w, o, k) \in Structs(w)
    BY <1>10, <2>1 DEF Structs
  <2> QED
    BY <1>10, <2>2, <2>3
<1>12. /\ s.type = EndOfTable => f[o] = Returned(<< s >>)
       /\ s.type # EndOfTable => f[o] = Prepend(s, f[k + 2])
  <2>1. /\ StructureAt(v, o, k).type = EndOfTable
             => Rest(v, e, f, o) = Returned(<< StructureAt(v, o, k) >>)
        /\ StructureAt(v, o, k).type # EndOfTable
             => Rest(v, e, f, o) = Prepend(StructureAt(v, o, k), f[k + 2])
    BY <1>1, <1>6, RestOfStructure
  <2> HIDE DEF s
  <2> QED
    BY <1>2, <2>1 DEF s
<1>13. /\ s.type = EndOfTable => g[o] = Returned(<< s >>)
       /\ s.type # EndOfTable => g[o] = Prepend(s, g[k + 2])
  <2>1. /\ StructureAt(w, o, k).type = EndOfTable
             => Rest(w, e2, g, o) = Returned(<< StructureAt(w, o, k) >>)
        /\ StructureAt(w, o, k).type # EndOfTable
             => Rest(w, e2, g, o) = Prepend(StructureAt(w, o, k), g[k + 2])
    BY <1>1, <1>5, <1>9, <1>10, RestOfStructure
  <2> HIDE DEF s
  <2> QED
    BY <1>2, <1>10, <2>1
<1> HIDE DEF s
<1>14. k + 2 \in Nat /\ k + 2 > o /\ k + 2 <= Len(v)
  BY <1>1, <1>10
<1>15. ASSUME s.type # EndOfTable
       PROVE  /\ f[k + 2].kind = "returned"
              /\ f[o] = Returned(<< s >> \o f[k + 2].structures)
  <2>1. f[o] = Prepend(s, f[k + 2]) /\ f[k + 2].kind \in {"returned", "raised"}
    BY <1>3, <1>12, <1>14, <1>15
  <2>2. f[k + 2].kind = "returned"
    BY <1>4, <2>1 DEF Prepend
  <2> QED
    BY <2>1, <2>2 DEF Prepend
<1> QED
  BY <1>11, <1>12, <1>13, <1>14, <1>15 DEF f, g

\* A walk that sees less of the table and returns gives the first of the structures
\* a walk that sees more returns.
LEMMA PrefixOfLonger ==
    ASSUME NEW v, NEW w, NEW m, Inside(v, w, 0, m),
           NEW e \in 0 .. Len(v), NEW e2 \in 0 .. Len(w), e <= e2, NEW o \in Nat,
           From(v, e)[o].kind = "returned", From(w, e2)[o].kind = "returned"
    PROVE  IsPrefix(From(v, e)[o].structures, From(w, e2)[o].structures)
<1> DEFINE f == From(v, e)
           g == From(w, e2)
           S == Structs(v) \cup Structs(w)
           Bad == {d \in Nat : \E q \in Nat : /\ q + d >= e
                                              /\ f[q].kind = "returned"
                                              /\ g[q].kind = "returned"
                                              /\ ~ IsPrefix(f[q].structures, g[q].structures)}
<1>1. w \in Seq(Byte) /\ v \in Seq(Byte) /\ Len(v) \in Nat /\ e \in Nat
  BY InnerBytes
<1>2. ASSUME NEW q \in Nat, f[q].kind = "returned"
      PROVE  f[q].structures \in Seq(S) /\ f[q] = Returned(f[q].structures)
  <2>1. f[q].structures \in Seq(Structs(v)) /\ f[q] = Returned(f[q].structures)
    BY <1>1, <1>2, ReturnedStructures
  <2> QED
    BY <2>1, SeqMonotonic
<1>3. ASSUME NEW q \in Nat, g[q].kind = "returned"
      PROVE  g[q].structures \in Seq(S) /\ g[q] = Returned(g[q].structures)
  <2>1. g[q].structures \in Seq(Structs(w)) /\ g[q] = Returned(g[q].structures)
    BY <1>1, <1>3, ReturnedStructures
  <2> QED
    BY <2>1, SeqMonotonic
<1>4. ASSUME NEW q \in Nat, q >= e
      PROVE  f[q] = Returned(<< >>)
  <2>1. f[q] = Rest(v, e, f, q)
    BY <1>1, FromSolves
  <2> HIDE DEF f
  <2> QED
    BY <1>4, <2>1 DEF Rest
<1>5. ASSUME NEW q \in Nat, q < e, f[q].kind = "returned"
      PROVE  \E s \in S, p \in Nat :
                /\ p > q
                /\ s.type = EndOfTable => f[q] = Returned(<< s >>) /\ g[q] = Returned(<< s >>)
                /\ s.type # EndOfTable => /\ f[p].kind = "returned"
                                          /\ f[q] = Returned(<< s >> \o f[p].structures)
                                          /\ g[q] = Prepend(s, g[p])
  <2>1. PICK s \in Structs(v) \cap Structs(w), p \in Nat :
            /\ p > q /\ p <= Len(v)
            /\ s.type = EndOfTable => f[q] = Returned(<< s >>) /\ g[q] = Returned(<< s >>)
            /\ s.type # EndOfTable => /\ f[p].kind = "returned"
                                      /\ f[q] = Returned(<< s >> \o f[p].structures)
                                      /\ g[q] = Prepend(s, g[p])
    BY <1>5, SameRound
  <2>2. s \in S
    BY <2>1
  <2> HIDE DEF f, g, S
  <2> QED
    BY <2>1, <2>2
<1>6. \A q \in Nat : g[q].kind \in {"returned", "raised"}
  BY <1>1, KindsOfOutcome
<1> HIDE DEF f, g, S
<1>7. Bad = {}
  <2> SUFFICES ASSUME Bad # {} PROVE FALSE
    OBVIOUS
  <2>1. PICK d \in Bad : \A x \in Bad : d <= x
    BY LeastElement
  <2>2. PICK q \in Nat : /\ q + d >= e
                         /\ f[q].kind = "returned" /\ g[q].kind = "returned"
                         /\ ~ IsPrefix(f[q].structures, g[q].structures)
    BY <2>1
  <2>3. q < e
    <3> SUFFICES ASSUME q >= e PROVE FALSE
      BY <1>1
    <3>1. f[q].structures = << >>
      BY <1>4 DEF Returned
    <3>2. g[q].structures \in Seq(S)
      BY <1>3, <2>2
    <3> QED
      BY <2>2, <3>1, <3>2, EmptyIsPrefix
  <2>4. PICK s \in S, p \in Nat :
                /\ p > q
                /\ s.type = EndOfTable => f[q] = Returned(<< s >>) /\ g[q] = Returned(<< s >>)
                /\ s.type # EndOfTable => /\ f[p].kind = "returned"
                                          /\ f[q] = Returned(<< s >> \o f[p].structures)
                                          /\ g[q] = Prepend(s, g[p])
    BY <1>5, <2>2, <2>3
  <2>5. CASE s.type = EndOfTable
    <3>1. f[q] = g[q]
      BY <2>4, <2>5
    <3>2. g[q].structures \in Seq(S)
      BY <1>3, <2>2
    <3> QED
      BY <2>2, <3>1, <3>2, SameIsPrefix
  <2>6. CASE s.type # EndOfTable
    <3>0. /\ f[p].kind = "returned" /\ f[q] = Returned(<< s >> \o f[p].structures)
          /\ g[q] = Prepend(s, g[p])
      BY <2>4, <2>6, Zenon
    <3>1. f[p].kind = "returned" /\ f[q].structures = << s >> \o f[p].structures
      BY <3>0, ReturnedFields
    <3>2. g[p].kind = "returned" /\ g[q].structures = << s >> \o g[p].structures
      <4> DEFINE r == g[p]
      <4>1. r.kind \in {"returned", "raised"} /\ Prepend(s, r).kind = "returned"
        BY <1>6, <2>2, <3>0
      <4> HIDE DEF r
      <4>2. r.kind = "returned" /\ Prepend(s, r).structures = << s >> \o r.structures
        BY <4>1, PrependReturned, SMTT(30)
      <4> QED
        BY <3>0, <4>2 DEF r
    <3>3. f[p].structures \in Seq(S) /\ g[p].structures \in Seq(S)
      BY <1>2, <1>3, <3>1, <3>2
    <3>4. ~ IsPrefix(f[p].structures, g[p].structures)
      BY <2>2, <3>1, <3>2, <3>3, PrependPrefix
    <3>5. d - 1 \in Nat /\ ~ (d <= d - 1) /\ p + (d - 1) >= e
      BY <1>1, <2>2, <2>3, <2>4
    <3>6. d - 1 \in Bad
      BY <3>1, <3>2, <3>4, <3>5
    <3> QED
      BY <2>1, <3>5, <3>6
  <2> QED
    BY <2>5, <2>6
<1>8. o + e >= e
  BY <1>1
<1> QED
  BY <1>1, <1>7, <1>8 DEF f, g

\* No structure of the sequence is an End-of-Table structure.
GoesOn(ss) == ~ \E i \in DOMAIN ss : ss[i].type = EndOfTable

LEMMA GoesOnBehind ==
    ASSUME NEW S, NEW s \in S, NEW x \in Seq(S), GoesOn(<< s >> \o x)
    PROVE  s.type # EndOfTable /\ GoesOn(x)
<1> DEFINE one == << s >>
           u == one \o x
<1>1. one \in Seq(S) /\ Len(one) = 1 /\ one[1] = s /\ Len(x) \in Nat /\ DOMAIN x = 1 .. Len(x)
  BY LenProperties
<1> HIDE DEF one
<1>2. /\ u \in Seq(S) /\ Len(u) = Len(one) + Len(x)
      /\ \A i \in 1 .. Len(one) + Len(x) :
            u[i] = IF i <= Len(one) THEN one[i] ELSE x[i - Len(one)]
  BY <1>1, ConcatProperties
<1>3. ~ \E i \in DOMAIN u : u[i].type = EndOfTable
  BY DEF GoesOn, one
<1> HIDE DEF u
<1>4. \A i \in 1 .. 1 + Len(x) : u[i].type # EndOfTable
  BY <1>1, <1>2, <1>3, LenProperties
<1>5. u[1] = s
  BY <1>1, <1>2
<1>6. ASSUME NEW i \in 1 .. Len(x)
      PROVE  x[i].type # EndOfTable
  <2>1. i + 1 \in 1 .. 1 + Len(x) /\ i + 1 \in 1 .. Len(one) + Len(x)
        /\ ~ (i + 1 <= Len(one)) /\ i + 1 - Len(one) = i
    BY <1>1
  <2>2. u[i + 1] = x[i]
    BY <1>2, <2>1
  <2> QED
    BY <1>4, <2>1, <2>2
<1>7. s.type # EndOfTable
  <2>1. 1 \in 1 .. 1 + Len(x)
    BY <1>1
  <2> QED
    BY <1>4, <1>5, <2>1
<1> QED
  BY <1>1, <1>6, <1>7 DEF GoesOn

\* all is what first gave and then what rest gave.
IsFollowedBy(first, rest, all) ==
    /\ rest.kind = "returned"
    /\ all.structures = first.structures \o rest.structures

\* When the walk reaches the end of v and returns, w goes on with whole structures:
\* the walk over w gives those of v and then those behind it.
LEMMA CutAtTheEnd ==
    ASSUME NEW v, NEW w, NEW m, Inside(v, w, 0, m),
           NEW n \in 0 .. Len(v), Len(v) <= n, NEW e2 \in 0 .. Len(w), n <= e2,
           NEW o \in Nat, o <= n,
           From(v, n)[o].kind = "returned", GoesOn(From(v, n)[o].structures),
           From(w, e2)[o].kind = "returned"
    PROVE  IsFollowedBy(From(v, n)[o], From(w, e2)[n], From(w, e2)[o])
<1> DEFINE f == From(v, n)
           g == From(w, e2)
           S == Structs(v) \cup Structs(w)
           Splits(q) == /\ g[n].kind = "returned"
                        /\ g[q].structures = f[q].structures \o g[n].structures
           Bad == {d \in Nat : \E q \in Nat : /\ q <= n /\ q + d >= n
                                              /\ f[q].kind = "returned"
                                              /\ GoesOn(f[q].structures)
                                              /\ g[q].kind = "returned"
                                              /\ ~ Splits(q)}
<1>1. w \in Seq(Byte) /\ v \in Seq(Byte) /\ Len(v) \in Nat /\ n \in Nat
  BY InnerBytes
<1>2. ASSUME NEW q \in Nat, f[q].kind = "returned"
      PROVE  f[q].structures \in Seq(S)
  <2>1. f[q].structures \in Seq(Structs(v))
    BY <1>1, <1>2, ReturnedStructures
  <2> QED
    BY <2>1, SeqMonotonic
<1>3. ASSUME NEW q \in Nat, g[q].kind = "returned"
      PROVE  g[q].structures \in Seq(S)
  <2>1. g[q].structures \in Seq(Structs(w))
    BY <1>1, <1>3, ReturnedStructures
  <2> QED
    BY <2>1, SeqMonotonic
<1>4. f[n] = Returned(<< >>)
  <2>1. f[n] = Rest(v, n, f, n)
    BY <1>1, FromSolves
  <2> HIDE DEF f
  <2> QED
    BY <1>1, <2>1 DEF Rest
<1>5. ASSUME NEW q \in Nat, q < n, f[q].kind = "returned"
      PROVE  \E s \in S, p \in Nat :
                /\ p > q /\ p <= n
                /\ s.type = EndOfTable => f[q] = Returned(<< s >>) /\ g[q] = Returned(<< s >>)
                /\ s.type # EndOfTable => /\ f[p].kind = "returned"
                                          /\ f[q] = Returned(<< s >> \o f[p].structures)
                                          /\ g[q] = Prepend(s, g[p])
  <2>1. PICK s \in Structs(v) \cap Structs(w), p \in Nat :
            /\ p > q /\ p <= Len(v)
            /\ s.type = EndOfTable => f[q] = Returned(<< s >>) /\ g[q] = Returned(<< s >>)
            /\ s.type # EndOfTable => /\ f[p].kind = "returned"
                                      /\ f[q] = Returned(<< s >> \o f[p].structures)
                                      /\ g[q] = Prepend(s, g[p])
    BY <1>5, SameRound, SMTT(30)
  <2>2. s \in S
    BY <2>1
  <2> HIDE DEF f, g, S
  <2> QED
    BY <2>1, <2>2
<1>6. \A q \in Nat : g[q].kind \in {"returned", "raised"}
  BY <1>1, KindsOfOutcome
<1> HIDE DEF f, g, S
<1>7. Bad = {}
  <2> SUFFICES ASSUME Bad # {} PROVE FALSE
    OBVIOUS
  <2>1. PICK d \in Bad : \A x \in Bad : d <= x
    BY LeastElement
  <2>2. PICK q \in Nat : /\ q <= n /\ q + d >= n
                         /\ f[q].kind = "returned" /\ GoesOn(f[q].structures)
                         /\ g[q].kind = "returned" /\ ~ Splits(q)
    BY <2>1
  <2> HIDE DEF Bad
  <2>3. q < n
    <3> SUFFICES ASSUME q = n PROVE FALSE
      BY <1>1, <2>2
    <3>1. f[q].structures = << >>
      BY <1>4, ReturnedFields
    <3>2. g[q].structures \in Seq(S) /\ g[n].kind = "returned"
      BY <1>3, <2>2
    <3>3. << >> \o g[q].structures = g[q].structures
      BY <3>2, ConcatEmptySeq
    <3> QED
      BY <2>2, <3>1, <3>2, <3>3
  <2>4. PICK s \in S, p \in Nat :
                /\ p > q /\ p <= n
                /\ s.type = EndOfTable => f[q] = Returned(<< s >>) /\ g[q] = Returned(<< s >>)
                /\ s.type # EndOfTable => /\ f[p].kind = "returned"
                                          /\ f[q] = Returned(<< s >> \o f[p].structures)
                                          /\ g[q] = Prepend(s, g[p])
    BY <1>5, <2>2, <2>3
  <2>5. s.type # EndOfTable
    <3> SUFFICES ASSUME s.type = EndOfTable PROVE FALSE
      OBVIOUS
    <3>1. f[q] = Returned(<< s >>)
      BY <2>4
    <3>2. f[q].structures = << s >>
      BY <3>1, ReturnedFields
    <3>3. << s >> = << s >> \o << >>
      <4>1. << s >> \in Seq(S)
        OBVIOUS
      <4> QED
        BY <4>1, ConcatEmptySeq
    <3>4. << >> \in Seq(S) /\ GoesOn(<< s >> \o << >>)
      BY <2>2, <3>2, <3>3, EmptySeq
    <3> QED
      BY <3>4, GoesOnBehind
  <2>6. /\ f[p].kind = "returned" /\ f[q] = Returned(<< s >> \o f[p].structures)
        /\ g[q] = Prepend(s, g[p]) /\ p > q /\ p <= n
    BY <2>4, <2>5, Zenon
  <2>7. f[q].structures = << s >> \o f[p].structures
    BY <2>6, ReturnedFields
  <2>8. g[p].kind = "returned" /\ g[q].structures = << s >> \o g[p].structures
    <3> DEFINE r == g[p]
    <3>1. r.kind \in {"returned", "raised"} /\ Prepend(s, r).kind = "returned"
      BY <1>6, <2>2, <2>6
    <3> HIDE DEF r
    <3>2. r.kind = "returned" /\ Prepend(s, r).structures = << s >> \o r.structures
      BY <3>1, PrependReturned
    <3> QED
      BY <2>6, <3>2 DEF r
  <2>9. GoesOn(f[p].structures)
    <3>1. f[p].structures \in Seq(S) /\ GoesOn(<< s >> \o f[p].structures)
      BY <1>2, <2>2, <2>6, <2>7
    <3> QED
      BY <3>1, GoesOnBehind
  <2>10. d - 1 \in Nat /\ ~ (d <= d - 1) /\ p + (d - 1) >= n
    <3>1. d \in Nat
      BY DEF Bad
    <3>2. q + d >= n /\ q < n /\ p > q
      BY <2>2, <2>3, <2>6
    <3> QED
      BY <1>1, <3>1, <3>2
  <2>11. Splits(p)
    <3>1. d - 1 \notin Bad
      BY <2>1, <2>10
    <3> QED
      BY <2>6, <2>8, <2>9, <2>10, <3>1 DEF Bad
  <2>12. << s >> \o (f[p].structures \o g[n].structures)
           = (<< s >> \o f[p].structures) \o g[n].structures
    <3> DEFINE x == f[p].structures
               y == g[n].structures
    <3>1. x \in Seq(S) /\ y \in Seq(S)
      BY <1>1, <1>2, <1>3, <2>6, <2>11
    <3> HIDE DEF x, y
    <3>2. << s >> \o (x \o y) = (<< s >> \o x) \o y
      BY <3>1, PrependConcat, SMTT(30)
    <3> QED
      BY <3>2 DEF x, y
  <2>13. Splits(q)
    BY <2>7, <2>8, <2>11, <2>12
  <2> QED
    BY <2>2, <2>13
<1>8. o + n >= n
  BY <1>1
<1>9. Splits(o)
  BY <1>1, <1>7, <1>8 DEF f, g
<1> QED
  BY <1>9 DEF f, g, IsFollowedBy

-----------------------------------------------------------------------------
(***************************************************************************)
(* Walks over the first bytes of a table.                                  *)
(***************************************************************************)

\* The first n of the first k bytes of w.
LEMMA CutOfCut ==
    ASSUME NEW w \in Seq(Byte), NEW k \in 0 .. Len(w), NEW n \in 0 .. k
    PROVE  /\ Inside(Slice(w, 0, n), Slice(w, 0, k), 0, n)
           /\ Slice(w, 0, k) \in Seq(Byte) /\ Len(Slice(w, 0, k)) = k
           /\ Slice(w, 0, n) \in Seq(Byte) /\ Len(Slice(w, 0, n)) = n
<1>0. Len(w) \in Nat
  BY LenProperties
<1> DEFINE v == Slice(w, 0, k)
           u == Slice(w, 0, n)
<1>1. Inside(v, w, 0, k) /\ Inside(u, w, 0, n)
  BY <1>0 DEF Inside
<1>2. v \in Seq(Byte) /\ Len(v) = k
  <2>1. v \in Seq(Byte) /\ Len(v) = k - 0
    BY <1>1, InnerBytes
  <2> HIDE DEF v
  <2> QED
    BY <1>0, <2>1
<1>3. u \in Seq(Byte) /\ Len(u) = n
  <2>1. u \in Seq(Byte) /\ Len(u) = n - 0
    BY <1>1, InnerBytes
  <2> HIDE DEF u
  <2> QED
    BY <1>0, <2>1
<1>4. Slice(v, 0, n) = u
  <2>1. 0 \in Nat /\ n \in Nat /\ n <= Len(v) /\ 0 + 0 = 0 /\ 0 + n = n
    BY <1>0, <1>2
  <2> HIDE DEF v
  <2>2. Slice(v, 0, n) = Slice(w, 0 + 0, 0 + n)
    BY <1>1, <2>1, InnerSlice
  <2> QED
    BY <2>1, <2>2
<1>5. Inside(u, v, 0, n)
  <2>1. 0 \in 0 .. k /\ n \in 0 .. k
    BY <1>0
  <2> HIDE DEF u, v
  <2> QED
    BY <1>2, <1>4, <2>1 DEF Inside
<1> QED
  BY <1>2, <1>3, <1>5

LEMMA WholeTable ==
    ASSUME NEW w \in Seq(Byte)
    PROVE  Slice(w, 0, Len(w)) = w /\ EndOffset(w, 0) = Len(w)
<1>1. SubSeq(w, 1, Len(w)) = w
  BY SubSeqFull
<1> QED
  BY <1>1 DEF Slice, EndOffset

\* Whoever reads more of a table, under a declared length that covers more, begins
\* with what a call that read less returned.
LEMMA WalksAgree ==
    ASSUME NEW w \in Seq(Byte), NEW k \in 0 .. Len(w), NEW n \in 0 .. k,
           NEW lim \in Nat \ {0}, NEW lim2 \in Nat, lim2 = 0 \/ lim <= lim2,
           Walk(Slice(w, 0, n), lim).kind = "returned",
           Walk(Slice(w, 0, k), lim2).kind = "returned"
    PROVE  IsPrefix(Walk(Slice(w, 0, n), lim).structures,
                    Walk(Slice(w, 0, k), lim2).structures)
<1> DEFINE u == Slice(w, 0, n)
           v == Slice(w, 0, k)
           e == EndOffset(u, lim)
           e2 == EndOffset(v, lim2)
<1>1. Inside(u, v, 0, n) /\ Len(u) = n /\ Len(v) = k /\ n \in Nat /\ k \in Nat
  <2>1. Len(w) \in Nat
    BY LenProperties
  <2>2. n \in Nat /\ k \in Nat
    BY <2>1
  <2> QED
    BY <2>2, CutOfCut
<1>2. Walk(u, lim) = From(u, e)[0] /\ Walk(v, lim2) = From(v, e2)[0]
  BY WalkIsFrom
<1>3. Walk(u, lim).kind = "returned" /\ Walk(v, lim2).kind = "returned"
  OBVIOUS
<1> HIDE DEF u, v
<1>4. e \in 0 .. Len(u) /\ e2 \in 0 .. Len(v) /\ e <= e2
  BY <1>1 DEF EndOffset
<1> HIDE DEF e, e2
<1>5. 0 \in Nat /\ From(u, e)[0].kind = "returned" /\ From(v, e2)[0].kind = "returned"
  BY <1>2, <1>3
<1>6. IsPrefix(From(u, e)[0].structures, From(v, e2)[0].structures)
  BY <1>1, <1>4, <1>5, PrefixOfLonger
<1>7. IsPrefix(Walk(u, lim).structures, Walk(v, lim2).structures)
  BY <1>2, <1>6
<1> QED
  BY <1>7 DEF u, v

\* When the walk over the first n bytes goes to their end, the rest of the table is
\* whole structures, the ones it did not return.
LEMMA WalkGoesOn ==
    ASSUME NEW w \in Seq(Byte), NEW n \in 0 .. Len(w), NEW lim \in Nat \ {0}, lim >= n,
           Walk(w, 0).kind = "returned",
           Walk(Slice(w, 0, n), lim).kind = "returned",
           GoesOn(Walk(Slice(w, 0, n), lim).structures)
    PROVE  IsFollowedBy(Walk(Slice(w, 0, n), lim), Walk(Slice(w, n, Len(w)), 0), Walk(w, 0))
<1> DEFINE u == Slice(w, 0, n)
           v == Slice(w, n, Len(w))
           E == Len(w)
<1>1. E \in Nat /\ n \in Nat /\ n <= E
  BY LenProperties
<1>2. Inside(u, w, 0, n) /\ Len(u) = n
  <2>1. E \in 0 .. Len(w)
    BY <1>1
  <2>2. Inside(Slice(w, 0, n), Slice(w, 0, E), 0, n) /\ Len(Slice(w, 0, n)) = n
    BY <2>1, CutOfCut
  <2> QED
    BY <2>2, WholeTable
<1>3. Inside(v, w, n, Len(w)) /\ Len(v) \in Nat
  <2>1. Inside(v, w, n, Len(w))
    BY <1>1 DEF Inside
  <2> QED
    BY <2>1, InnerBytes
<1>4. Walk(u, lim) = From(u, n)[0]
  <2>1. EndOffset(u, lim) = n
    <3> HIDE DEF u
    <3> QED
      BY <1>1, <1>2 DEF EndOffset
  <2> QED
    BY <2>1, WalkIsFrom
<1>5. Walk(w, 0) = From(w, E)[0]
  BY WholeTable, WalkIsFrom
<1>6. Walk(v, 0) = From(v, Len(v))[0]
  <2>1. EndOffset(v, 0) = Len(v)
    BY DEF EndOffset
  <2> QED
    BY <2>1, WalkIsFrom
<1>7. /\ Walk(w, 0).kind = "returned" /\ Walk(u, lim).kind = "returned"
      /\ GoesOn(Walk(u, lim).structures)
  OBVIOUS
<1>8. E \in 0 .. Len(w) /\ n \in 0 .. Len(u) /\ Len(u) <= n
  BY <1>1, <1>2
<1> HIDE DEF u, v
<1>9. IsFollowedBy(From(u, n)[0], From(w, E)[n], From(w, E)[0])
  <2>1. /\ From(u, n)[0].kind = "returned" /\ GoesOn(From(u, n)[0].structures)
        /\ From(w, E)[0].kind = "returned" /\ 0 \in Nat /\ 0 <= n
    BY <1>1, <1>4, <1>5, <1>7
  <2>2. /\ Inside(u, w, 0, n) /\ n \in 0 .. Len(u) /\ Len(u) <= n
        /\ E \in 0 .. Len(w) /\ n <= E
    BY <1>1, <1>2, <1>8
  <2> HIDE DEF E
  <2> QED
    BY <2>1, <2>2, CutAtTheEnd
<1>10. From(v, Len(v))[0] = From(w, E)[n]
  <2>1. n + 0 = n /\ From(w, Len(w))[n + 0].kind = "returned" /\ 0 \in Nat
    BY <1>1, <1>9 DEF IsFollowedBy
  <2>2. From(v, Len(v))[0] = From(w, Len(w))[n + 0]
    BY <1>3, <2>1, WalkOfTheRest
  <2> QED
    BY <2>1, <2>2
<1> QED
  BY <1>4, <1>5, <1>6, <1>9, <1>10 DEF u, v

-----------------------------------------------------------------------------
(***************************************************************************)
(* The invariant.  What can be read is the beginning of the whole table,   *)
(* something is declared, and what the caller holds came from a call that  *)
(* saw no more than a call made now would see.                             *)
(***************************************************************************)

Part(n) == Slice(whole, 0, n)

IsCut ==
    /\ whole \in Tables
    /\ table_length \in Nat \ {0}
    /\ Len(table_bytes) \in 0 .. Len(whole)
    /\ table_bytes = Part(Len(table_bytes))

HeldFromLess ==
    \E n \in 0 .. Len(table_bytes), lim \in 1 .. table_length :
        /\ Walk(Part(n), lim).kind = "returned"
        /\ held = read_dmi(Walk(Part(n), lim).structures)

IInv == IsCut /\ HeldFromLess

LEMMA WholeIsBytes ==
    ASSUME whole \in Tables
    PROVE  /\ whole \in Seq(Byte) /\ Len(whole) \in Nat
           /\ Walk(whole, 0).kind = "returned"
<1>1. whole \in Seq(Byte)
  BY TablesAreBytes
<1>2. Len(whole) \in Nat
  BY <1>1, LenProperties
<1> QED
  BY <1>1, <1>2, TablesAreWellFormed

LEMMA InitEstablishes == Init => IInv
<1> SUFFICES ASSUME Init PROVE IInv
  OBVIOUS
<1>1. /\ whole \in Tables /\ table_bytes = << >> /\ table_length = 1
      /\ held = read_dmi(<< >>)
  BY DEF Init
<1>2. whole \in Seq(Byte) /\ Len(whole) \in Nat
  BY <1>1, WholeIsBytes
<1>3. << >> \in Seq(Byte) /\ Len(<< >>) = 0
  BY EmptySeq
<1>4. Part(0) = << >>
  <2>1. 1 \in Int /\ 0 \in Int /\ 0 < 1 /\ 0 + 1 = 1
    OBVIOUS
  <2>2. SubSeq(whole, 1, 0) = << >>
    BY <2>1, SubSeqEmpty
  <2> QED
    BY <2>1, <2>2 DEF Part, Slice
<1>5. IsCut
  BY <1>1, <1>2, <1>3, <1>4 DEF IsCut
<1>6. Walk(<< >>, 1) = Returned(<< >>)
  <2>1. EndOffset(<< >>, 1) = 0
    BY <1>3 DEF EndOffset
  <2>2. Walk(<< >>, 1) = From(<< >>, 0)[0]
    BY <2>1, WalkIsFrom
  <2>3. 0 \in 0 .. Len(<< >>) /\ 0 \in Nat
    BY <1>3
  <2>4. From(<< >>, 0)[0] = Rest(<< >>, 0, From(<< >>, 0), 0)
    BY <1>3, <2>3, FromSolves
  <2>5. Rest(<< >>, 0, From(<< >>, 0), 0) = Returned(<< >>)
    BY DEF Rest
  <2> QED
    BY <2>2, <2>4, <2>5
<1>7. HeldFromLess
  <2>1. Walk(Part(0), 1).kind = "returned" /\ Walk(Part(0), 1).structures = << >>
    BY <1>4, <1>6, ReturnedFields
  <2>2. 0 \in 0 .. Len(table_bytes) /\ 1 \in 1 .. table_length
    BY <1>1, <1>3
  <2> QED
    BY <1>1, <2>1, <2>2 DEF HeldFromLess
<1> QED
  BY <1>5, <1>7 DEF IInv

LEMMA NextPreserves == IInv /\ [Next]_vars => IInv'
<1> SUFFICES ASSUME IInv, [Next]_vars PROVE IInv'
  OBVIOUS
<1>1. /\ whole \in Tables /\ table_length \in Nat \ {0}
      /\ Len(table_bytes) \in 0 .. Len(whole) /\ table_bytes = Part(Len(table_bytes))
  BY DEF IInv, IsCut
<1>2. whole \in Seq(Byte) /\ Len(whole) \in Nat
  BY <1>1, WholeIsBytes
<1>3. PICK n \in 0 .. Len(table_bytes), lim \in 1 .. table_length :
         /\ Walk(Part(n), lim).kind = "returned"
         /\ held = read_dmi(Walk(Part(n), lim).structures)
  BY DEF IInv, HeldFromLess
<1>4. CASE Arrive
  <2> DEFINE k == Len(table_bytes) + 1
  <2>1. /\ table_bytes' = Slice(whole, 0, k) /\ k - 1 < Len(whole)
        /\ whole' = whole /\ table_length' = table_length /\ held' = held
    BY <1>1, <1>4 DEF Arrive
  <2>2. k \in 0 .. Len(whole) /\ n \in 0 .. k /\ Len(table_bytes) <= k
    BY <1>1, <1>2, <2>1
  <2>3. Len(table_bytes') = k
    <3> HIDE DEF k
    <3>1. Len(Slice(whole, 0, k)) = k
      BY <1>2, <2>2, CutOfCut
    <3> QED
      BY <2>1, <3>1
  <2> HIDE DEF k
  <2>4. IsCut'
    BY <1>1, <2>1, <2>2, <2>3 DEF IsCut, Part
  <2>5. n \in 0 .. Len(table_bytes') /\ lim \in 1 .. table_length'
    BY <2>1, <2>2, <2>3
  <2>6. HeldFromLess'
    BY <1>3, <2>1, <2>5 DEF HeldFromLess, Part
  <2> QED
    BY <2>4, <2>6 DEF IInv
<1>5. CASE Declare
  <2>1. /\ table_length' = table_length + 1
        /\ whole' = whole /\ table_bytes' = table_bytes /\ held' = held
    BY <1>5 DEF Declare
  <2>2. IsCut'
    BY <1>1, <2>1 DEF IsCut, Part
  <2>3. lim \in 1 .. table_length'
    BY <1>1, <2>1
  <2>4. HeldFromLess'
    BY <1>3, <2>1, <2>3 DEF HeldFromLess, Part
  <2> QED
    BY <2>2, <2>4 DEF IInv
<1>6. CASE Read
  <2>1. /\ Outcome.kind = "returned" /\ held' = read_dmi(Outcome.structures)
        /\ whole' = whole /\ table_bytes' = table_bytes /\ table_length' = table_length
    BY <1>6 DEF Read
  <2>2. IsCut'
    BY <1>1, <2>1 DEF IsCut, Part
  <2>3. Len(table_bytes) \in 0 .. Len(table_bytes) /\ table_length \in 1 .. table_length
    BY <1>1, <1>2
  <2>4. Outcome = Walk(Part(Len(table_bytes)), table_length)
    BY <1>1 DEF Outcome
  <2>5. HeldFromLess'
    BY <2>1, <2>3, <2>4 DEF HeldFromLess, Part
  <2> QED
    BY <2>2, <2>5 DEF IInv
<1>7. CASE ReadFails
  BY <1>7 DEF ReadFails, IInv, IsCut, HeldFromLess, Part, vars
<1>8. CASE UNCHANGED vars
  BY <1>8 DEF IInv, IsCut, HeldFromLess, Part, vars
<1> QED
  BY <1>4, <1>5, <1>6, <1>7, <1>8 DEF Next

LEMMA Inductive == Spec => []IInv
BY InitEstablishes, NextPreserves, PTL DEF Spec

-----------------------------------------------------------------------------

\* A cut table is refused or yields the first structures of the whole one.
LEMMA CutLoses == IInv => CutLosesWholeStructures
<1> SUFFICES ASSUME IInv, Outcome.kind = "returned"
             PROVE  IsPrefix(Outcome.structures, Walk(whole, 0).structures)
  BY DEF CutLosesWholeStructures
<1> DEFINE n == Len(table_bytes)
           w == whole
           E == Len(w)
<1>1. w \in Seq(Byte) /\ E \in Nat /\ Walk(w, 0).kind = "returned"
  BY WholeIsBytes DEF IInv, IsCut
<1>2. n \in 0 .. E /\ table_length \in Nat \ {0} /\ table_bytes = Slice(w, 0, n)
  BY DEF IInv, IsCut, Part
<1>3. Outcome = Walk(Slice(w, 0, n), table_length)
  BY <1>2 DEF Outcome
<1>4. Slice(w, 0, E) = w
  BY <1>1, WholeTable
<1>5. /\ Walk(Slice(w, 0, n), table_length).kind = "returned"
      /\ Walk(Slice(w, 0, E), 0).kind = "returned"
  BY <1>1, <1>3, <1>4
<1>6. E \in 0 .. Len(w) /\ 0 \in Nat /\ (0 = 0 \/ table_length <= 0)
  BY <1>1
<1> HIDE DEF n, w, E
<1>7. IsPrefix(Walk(Slice(w, 0, n), table_length).structures,
               Walk(Slice(w, 0, E), 0).structures)
  BY <1>1, <1>2, <1>5, <1>6, WalksAgree
<1>8. IsPrefix(Outcome.structures, Walk(w, 0).structures)
  BY <1>3, <1>4, <1>7
<1> QED
  BY <1>8 DEF w

\* CutLosesWholeStructures, for all tables: whatever a short file or a short declared
\* length cuts off, a call that returns gives complete structures of the whole table,
\* the first ones, in order (_walk_structures).
THEOREM PrefixCorrect == Spec => []CutLosesWholeStructures
BY Inductive, CutLoses, PTL

\* What is missing when a call reaches the end of the bytes and returns.
LEMMA CutIsBetween == IInv => CutIsBetweenStructures
<1> DEFINE n == Len(table_bytes)
           w == whole
           missing == Walk(Slice(w, n, Len(w)), 0)
<1> SUFFICES ASSUME IInv, Outcome.kind = "returned", table_length >= n,
                    GoesOn(Outcome.structures)
             PROVE  /\ missing.kind = "returned"
                    /\ Walk(w, 0).structures = Outcome.structures \o missing.structures
  BY DEF CutIsBetweenStructures, GoesOn
<1>1. w \in Seq(Byte) /\ Len(w) \in Nat /\ Walk(w, 0).kind = "returned"
  BY WholeIsBytes DEF IInv, IsCut
<1>2. n \in 0 .. Len(w) /\ table_length \in Nat \ {0} /\ table_bytes = Slice(w, 0, n)
  BY DEF IInv, IsCut, Part
<1>3. Outcome = Walk(Slice(w, 0, n), table_length)
  BY <1>2 DEF Outcome
<1>4. /\ Walk(Slice(w, 0, n), table_length).kind = "returned"
      /\ GoesOn(Walk(Slice(w, 0, n), table_length).structures)
      /\ table_length >= n
  BY <1>3
<1>5. IsFollowedBy(Walk(Slice(w, 0, n), table_length), missing, Walk(w, 0))
  <2> HIDE DEF n, w
  <2> QED
    BY <1>1, <1>2, <1>4, WalkGoesOn
<1> HIDE DEF n, w, missing
<1> QED
  BY <1>3, <1>5 DEF IsFollowedBy

\* CutIsBetweenStructures, for all tables: when the walk runs to the end of the bytes
\* it was given and returns, the bytes behind them are a table of their own, and its
\* structures are exactly the ones the call did not return.
THEOREM CutCorrect == Spec => []CutIsBetweenStructures
BY Inductive, CutIsBetween, PTL

\* What a call returned is a beginning of anything that begins with it.
LEMMA SeenAgain ==
    ASSUME NEW S, NEW s \in Seq(S), NEW t \in Seq(S), IsPrefix(s, t)
    PROVE  Len(s) \in 0 .. Len(t) /\ SubSeq(t, 1, Len(s)) = s
<1>1. Len(s) <= Len(t) /\ SubSeq(s, 1, Len(s)) = SubSeq(t, 1, Len(s))
  BY DEF IsPrefix
<1>2. SubSeq(s, 1, Len(s)) = s /\ Len(s) \in Nat /\ Len(t) \in Nat
  BY SubSeqFull, LenProperties
<1> QED
  BY <1>1, <1>2

LEMMA WalkStructures ==
    ASSUME NEW b \in Seq(Byte), NEW lim \in Nat, Walk(b, lim).kind = "returned"
    PROVE  Walk(b, lim).structures \in Seq(Structs(b))
<1> DEFINE e == EndOffset(b, lim)
<1>1. Walk(b, lim) = From(b, e)[0]
  BY WalkIsFrom
<1>2. e \in 0 .. Len(b) /\ 0 \in Nat
  BY LenProperties DEF EndOffset
<1> HIDE DEF e
<1>3. From(b, e)[0].kind = "returned"
  BY <1>1
<1>4. From(b, e)[0].structures \in Seq(Structs(b))
  BY <1>2, <1>3, ReturnedStructures
<1> QED
  BY <1>1, <1>4

\* What is held was made of the first structures of whatever the next call returns.
LEMMA Behind == IInv => HeldIsBehind
<1> SUFFICES ASSUME IInv PROVE HeldIsBehind
  OBVIOUS
<1> DEFINE w == whole
           E == Len(w)
           k == Len(table_bytes)
           all == Walk(w, 0).structures
<1>1. w \in Seq(Byte) /\ E \in Nat /\ Walk(w, 0).kind = "returned"
  BY WholeIsBytes DEF IInv, IsCut
<1>2. k \in 0 .. E /\ table_length \in Nat \ {0} /\ table_bytes = Slice(w, 0, k)
  BY DEF IInv, IsCut, Part
<1>3. PICK n \in 0 .. k, lim \in 1 .. table_length :
         /\ Walk(Slice(w, 0, n), lim).kind = "returned"
         /\ held = read_dmi(Walk(Slice(w, 0, n), lim).structures)
  BY DEF IInv, HeldFromLess, Part
<1> DEFINE b == Slice(w, 0, n)
           seen == Walk(b, lim).structures
<1>4. Outcome = Walk(Slice(w, 0, k), table_length)
  BY <1>2 DEF Outcome
<1>5. Slice(w, 0, E) = w
  BY <1>1, WholeTable
<1>6. /\ n \in 0 .. E /\ lim \in Nat \ {0} /\ lim <= table_length
      /\ E \in 0 .. Len(w) /\ k \in 0 .. Len(w) /\ table_length \in Nat
      /\ 0 \in Nat /\ 0 = 0
  BY <1>1, <1>2
<1>7. IsPrefix(seen, all)
  <2> HIDE DEF w, E, k
  <2>1. Walk(Slice(w, 0, E), 0).kind = "returned" /\ (0 = 0 \/ lim <= 0)
    BY <1>1, <1>5
  <2>2. IsPrefix(Walk(Slice(w, 0, n), lim).structures, Walk(Slice(w, 0, E), 0).structures)
    BY <1>1, <1>3, <1>6, <2>1, WalksAgree
  <2> QED
    BY <1>5, <2>2
<1>8. Outcome.kind = "returned" => IsPrefix(seen, Outcome.structures)
  <2> SUFFICES ASSUME Outcome.kind = "returned" PROVE IsPrefix(seen, Outcome.structures)
    OBVIOUS
  <2>1. Walk(Slice(w, 0, k), table_length).kind = "returned"
    BY <1>4
  <2>2. table_length = 0 \/ lim <= table_length
    BY <1>6
  <2> HIDE DEF w, E, k
  <2>3. IsPrefix(Walk(Slice(w, 0, n), lim).structures,
                 Walk(Slice(w, 0, k), table_length).structures)
    BY <1>1, <1>3, <1>6, <2>1, <2>2, WalksAgree
  <2> QED
    BY <1>4, <2>3
<1>9. Len(seen) \in 0 .. Len(all) /\ SubSeq(all, 1, Len(seen)) = seen
  <2> DEFINE S == Structs(b) \cup Structs(w)
  <2>1. b \in Seq(Byte) /\ lim \in Nat /\ 0 \in Nat
    <3> HIDE DEF w, E
    <3>1. Slice(w, 0, n) \in Seq(Byte)
      BY <1>1, <1>2, <1>6, CutOfCut
    <3> QED
      BY <1>6, <3>1
  <2> HIDE DEF b, w
  <2>2. seen \in Seq(Structs(b))
    BY <1>3, <2>1, WalkStructures DEF b
  <2>3. all \in Seq(Structs(w))
    BY <1>1, <2>1, WalkStructures
  <2>4. seen \in Seq(S) /\ all \in Seq(S)
    BY <2>2, <2>3, SeqMonotonic
  <2> HIDE DEF seen, all, S
  <2> QED
    BY <1>7, <2>4, SeenAgain
<1>10. held = read_dmi(seen)
  BY <1>3
<1> DEFINE N == Len(seen)
<1>11. /\ N \in 0 .. Len(all)
       /\ held = read_dmi(SubSeq(all, 1, N))
       /\ Outcome.kind = "returned" => IsPrefix(SubSeq(all, 1, N), Outcome.structures)
  <2> HIDE DEF seen, all
  <2> QED
    BY <1>8, <1>9, <1>10
<1> HIDE DEF N
<1> QED
  BY <1>11 DEF HeldIsBehind

\* HeldIsBehind, for all tables and any order in which more of one comes into view:
\* the DMIInfo a caller holds was built (read_dmi) from structures that every later
\* call that returns begins with.
THEOREM HeldCorrect == Spec => []HeldIsBehind
BY Inductive, Behind, PTL

-----------------------------------------------------------------------------
(***************************************************************************)
(* What a caller was told stands.                                          *)
(***************************************************************************)

\* The strings of a structure the walk delivers are a sequence.
LEMMA StringsAreSeq ==
    ASSUME NEW b, NEW r \in Structs(b)
    PROVE  \E n \in Nat : r.strings \in Seq({r.strings[i] : i \in 1 .. n})
<1>1. PICK o \in Nat, k \in Nat : FormattedEnd(b, o) \in Nat /\ r = StructureAt(b, o, k)
  BY DEF Structs
<1> DEFINE f == FormattedEnd(b, o)
           nuls == IF k = f THEN {} ELSE {i \in f .. k : ByteAt(b, i) = NUL}
           N == Cardinality(nuls)
<1>2. f \in Nat /\ k \in Nat
  BY <1>1
<1> HIDE DEF f
<1>3. IsFiniteSet(nuls)
  <2>1. IsFiniteSet(f .. k) /\ nuls \subseteq f .. k
    BY <1>2, FS_Interval
  <2> QED
    BY <2>1, FS_Subset
<1> HIDE DEF nuls
<1>4. N \in Nat
  BY <1>3, FS_CardinalityType
<1>5. r.strings = [n \in 1 .. N |-> r.strings[n]]
  <2>1. r.strings = StringsIn(b, f, k)
    BY <1>1 DEF StructureAt, f
  <2>2. \E e : StringsIn(b, f, k) = [n \in 1 .. N |-> e[n]]
    <3> DEFINE g == StringsIn(b, f, k)
    <3>1. \E e : g = [n \in 1 .. N |-> e[n]]
      <4>1. g = Numbered(b, f, nuls)
        BY StringsInIsNumbered DEF nuls
      <4> QED
        BY <4>1, Zenon DEF Numbered
    <3> QED
      BY <3>1
  <2> QED
    BY <2>1, <2>2
<1> HIDE DEF N
<1>6. r.strings \in [1 .. N -> {r.strings[i] : i \in 1 .. N}]
  BY <1>5
<1>7. r.strings \in Seq({r.strings[i] : i \in 1 .. N})
  BY <1>4, <1>6, FunctionIsSeq
<1> QED
  BY <1>4, <1>7

LEMMA StructsHaveStrings ==
    ASSUME NEW b
    PROVE  HasStrings(Structs(b), {r.strings[i] : r \in Structs(b), i \in Nat})
<1> DEFINE V == {r.strings[i] : r \in Structs(b), i \in Nat}
<1> SUFFICES ASSUME NEW r \in Structs(b) PROVE r.strings \in Seq(V)
  BY DEF HasStrings
<1>1. PICK n \in Nat : r.strings \in Seq({r.strings[i] : i \in 1 .. n})
  BY StringsAreSeq
<1>2. {r.strings[i] : i \in 1 .. n} \subseteq V
  OBVIOUS
<1> HIDE DEF V
<1> QED
  BY <1>1, <1>2, SeqMonotonic

\* Of two calls the one that saw more says all the other said.
LEMMA MoreSaysMore ==
    ASSUME NEW S, NEW V, HasStrings(S, V),
           NEW s \in Seq(S), NEW t \in Seq(S), IsPrefix(s, t)
    PROVE  StillSo(read_dmi(s), read_dmi(t))
<1> DEFINE old == read_dmi(s)
           new == read_dmi(t)
           D == {Decode(r) : r \in S}
<1>1. /\ old.bios = _first(s, 0) /\ new.bios = _first(t, 0)
      /\ old.system = _first(s, 1) /\ new.system = _first(t, 1)
      /\ old.baseboards = _all(s, 2) /\ new.baseboards = _all(t, 2)
      /\ old.chassis = _all(s, 3) /\ new.chassis = _all(t, 3)
      /\ old.processors = _all(s, 4) /\ new.processors = _all(t, 4)
      /\ old.caches = _all(s, 7) /\ new.caches = _all(t, 7)
      /\ old.system_slots = _all(s, 9) /\ new.system_slots = _all(t, 9)
      /\ old.oem_strings = oem_strings(s) /\ new.oem_strings = oem_strings(t)
      /\ old.memory_arrays = _all(s, 16) /\ new.memory_arrays = _all(t, 16)
      /\ old.memory_devices = _all(s, 17) /\ new.memory_devices = _all(t, 17)
      /\ old.ipmi_devices = _all(s, 38) /\ new.ipmi_devices = _all(t, 38)
      /\ old.tpm_devices = _all(s, 43) /\ new.tpm_devices = _all(t, 43)
      /\ old.raw_structures = s /\ new.raw_structures = t
      /\ old.tn_model = _tn_model(_first(s, 1), _all(s, 2))
      /\ new.tn_model = _tn_model(_first(t, 1), _all(t, 2))
  BY DEF read_dmi
<1>2. DOMAIN old \ {"bios", "system", "tn_model"} =
         {"baseboards", "chassis", "processors", "caches", "system_slots", "oem_strings",
          "memory_arrays", "memory_devices", "ipmi_devices", "tpm_devices", "raw_structures"}
  BY DEF read_dmi
<1>3. \A T : /\ _all(s, T) \in Seq(D) /\ _all(t, T) \in Seq(D)
             /\ IsPrefix(_all(s, T), _all(t, T))
  BY AllGrows
<1>4. \A T : _first(s, T) \in {None, _first(t, T)}
  BY FirstStands
<1>5. IsPrefix(oem_strings(s), oem_strings(t))
  BY OemGrows
<1> HIDE DEF old, new, D
<1>6. old.bios \in {None, new.bios} /\ old.system \in {None, new.system}
  BY <1>1, <1>4
<1>7. \A x \in DOMAIN old \ {"bios", "system", "tn_model"} : IsPrefix(old[x], new[x])
  <2>1. /\ IsPrefix(old.baseboards, new.baseboards)
        /\ IsPrefix(old.chassis, new.chassis)
        /\ IsPrefix(old.processors, new.processors)
        /\ IsPrefix(old.caches, new.caches)
        /\ IsPrefix(old.system_slots, new.system_slots)
        /\ IsPrefix(old.oem_strings, new.oem_strings)
        /\ IsPrefix(old.memory_arrays, new.memory_arrays)
        /\ IsPrefix(old.memory_devices, new.memory_devices)
        /\ IsPrefix(old.ipmi_devices, new.ipmi_devices)
        /\ IsPrefix(old.tpm_devices, new.tpm_devices)
        /\ IsPrefix(old.raw_structures, new.raw_structures)
    BY <1>1, <1>3, <1>5, ZenonT(60)
  <2> SUFFICES ASSUME NEW x \in {"baseboards", "chassis", "processors", "caches",
                                 "system_slots", "oem_strings", "memory_arrays",
                                 "memory_devices", "ipmi_devices", "tpm_devices",
                                 "raw_structures"}
               PROVE  IsPrefix(old[x], new[x])
    BY <1>2
  <2> QED
    BY <2>1, Zenon
<1>8. /\ old.tn_model \in {TRUENAS_UNKNOWN, X10Model, new.tn_model}
      /\ old.tn_model = X10Model /\ old.system # None => new.tn_model = X10Model
  <2> DEFINE x == _all(s, 2)
             y == _all(t, 2)
             a == _first(s, 1)
             b == _first(t, 1)
  <2>1. x \in Seq(D) /\ y \in Seq(D) /\ IsPrefix(x, y) /\ a \in {None, b}
    BY <1>3, <1>4
  <2>2. /\ old.tn_model = _tn_model(a, x) /\ new.tn_model = _tn_model(b, y)
        /\ old.system = a
    BY <1>1
  <2> HIDE DEF a, b, x, y
  <2>3. /\ _tn_model(a, x) \in {TRUENAS_UNKNOWN, X10Model, _tn_model(b, y)}
        /\ _tn_model(a, x) = X10Model /\ a # None => _tn_model(b, y) = X10Model
    BY <2>1, ModelStands
  <2> QED
    BY <2>2, <2>3
<1>9. \A h \in {old.caches[i].handle : i \in DOMAIN old.caches} :
         cache_by_handle(old, h) = cache_by_handle(new, h)
  <2> SUFFICES ASSUME NEW i \in DOMAIN old.caches
               PROVE  cache_by_handle(old, old.caches[i].handle)
                        = cache_by_handle(new, old.caches[i].handle)
    OBVIOUS
  <2>1. /\ old.caches \in Seq(D) /\ new.caches \in Seq(D)
        /\ IsPrefix(old.caches, new.caches)
    BY <1>1, <1>3
  <2> QED
    BY <2>1, HandleStands
<1>10. ecc_memory(old) => ecc_memory(new)
  <2>1. \A i \in DOMAIN old.memory_arrays :
            /\ i \in DOMAIN new.memory_arrays
            /\ new.memory_arrays[i] = old.memory_arrays[i]
    BY <1>1, <1>3, BeginningSays
  <2> QED
    BY <2>1, Zenon DEF ecc_memory
<1>11. has_ipmi(old) => has_ipmi(new)
  BY <1>1, <1>3, BeginningSays DEF has_ipmi
<1>12. has_tpm(old) => has_tpm(new)
  BY <1>1, <1>3, BeginningSays DEF has_tpm
<1>13. StillSo(old, new)
  BY <1>6, <1>7, <1>8, <1>9, <1>10, <1>11, <1>12, Zenon DEF StillSo
<1> QED
  BY <1>13 DEF old, new

\* What is held was made of structures, and those of two tables may be mixed.
LEMMA HeldFromStructures ==
    ASSUME IInv
    PROVE  \E S, V : /\ HasStrings(S, V)
                     /\ Outcome.kind = "returned" => Outcome.structures \in Seq(S)
                     /\ \E s \in Seq(S) :
                           /\ held = read_dmi(s)
                           /\ Outcome.kind = "returned" => IsPrefix(s, Outcome.structures)
<1> DEFINE w == whole
           b == table_bytes
           all == Walk(w, 0).structures
           S == Structs(w) \cup Structs(b)
           V1 == {r.strings[i] : r \in Structs(w), i \in Nat}
           V2 == {r.strings[i] : r \in Structs(b), i \in Nat}
<1>1. /\ w \in Seq(Byte) /\ Len(w) \in Nat /\ Walk(w, 0).kind = "returned" /\ 0 \in Nat
      /\ b \in Seq(Byte) /\ table_length \in Nat
  <2>1. w \in Seq(Byte) /\ Len(w) \in Nat /\ Walk(w, 0).kind = "returned"
    BY WholeIsBytes DEF IInv, IsCut
  <2>2. Len(b) \in 0 .. Len(w) /\ b = Slice(w, 0, Len(b)) /\ table_length \in Nat
    BY DEF IInv, IsCut, Part
  <2> DEFINE n == Len(b)
  <2>3. Slice(w, 0, n) \in Seq(Byte)
    <3>1. n \in 0 .. Len(w) /\ n \in 0 .. n
      BY <2>1, <2>2
    <3> HIDE DEF n, w
    <3> QED
      BY <2>1, <3>1, CutOfCut
  <2> QED
    BY <2>1, <2>2, <2>3
<1>2. HasStrings(S, V1 \cup V2)
  <2>1. HasStrings(Structs(w), V1) /\ HasStrings(Structs(b), V2)
    BY StructsHaveStrings
  <2> HIDE DEF V1, V2, w, b
  <2>2. ASSUME NEW r \in S, r.type = 11 PROVE r.strings \in Seq(V1 \cup V2)
    <3>1. CASE r \in Structs(w)
      <4>1. r.strings \in Seq(V1)
        BY <2>1, <2>2, <3>1 DEF HasStrings
      <4> QED
        BY <4>1, SeqMonotonic
    <3>2. CASE r \in Structs(b)
      <4>1. r.strings \in Seq(V2)
        BY <2>1, <2>2, <3>2 DEF HasStrings
      <4> QED
        BY <4>1, SeqMonotonic
    <3> QED
      BY <3>1, <3>2
  <2> QED
    BY <2>2 DEF HasStrings
<1>3. Outcome.kind = "returned" => Outcome.structures \in Seq(S)
  <2> SUFFICES ASSUME Outcome.kind = "returned" PROVE Outcome.structures \in Seq(S)
    OBVIOUS
  <2>1. Outcome = Walk(b, table_length)
    BY DEF Outcome
  <2>2. Outcome.structures \in Seq(Structs(b))
    BY <1>1, <2>1, WalkStructures
  <2> QED
    BY <2>2, SeqMonotonic
<1>4. PICK n \in 0 .. Len(all) :
         /\ held = read_dmi(SubSeq(all, 1, n))
         /\ Outcome.kind = "returned" => IsPrefix(SubSeq(all, 1, n), Outcome.structures)
  BY Behind DEF HeldIsBehind
<1>5. SubSeq(all, 1, n) \in Seq(S)
  <2>1. all \in Seq(Structs(w))
    BY <1>1, WalkStructures
  <2> HIDE DEF all
  <2>2. all \in Seq(S)
    BY <2>1, SeqMonotonic
  <2> HIDE DEF S
  <2>3. 1 \in Int /\ n \in Int /\ \A i \in 1 .. n : i \in 1 .. Len(all)
    BY <2>2, LenProperties
  <2>4. \A i \in 1 .. n : all[i] \in S
    BY <2>2, <2>3, ElementOfSeq
  <2> QED
    BY <2>3, <2>4, SubSeqProperties
<1> HIDE DEF S, V1, V2, all
<1> QED
  BY <1>2, <1>3, <1>4, <1>5

LEMMA NothingTakenBackStep == IInv /\ [Next]_vars => [StillSo(held, held')]_vars
<1> SUFFICES ASSUME IInv, Next PROVE StillSo(held, held')
  BY DEF vars
<1>1. PICK S, V : /\ HasStrings(S, V)
                  /\ Outcome.kind = "returned" => Outcome.structures \in Seq(S)
                  /\ \E s \in Seq(S) :
                        /\ held = read_dmi(s)
                        /\ Outcome.kind = "returned" => IsPrefix(s, Outcome.structures)
  BY HeldFromStructures
<1>2. PICK s \in Seq(S) : /\ held = read_dmi(s)
                          /\ Outcome.kind = "returned" => IsPrefix(s, Outcome.structures)
  BY <1>1
<1>3. CASE Read
  <2>1. Outcome.kind = "returned" /\ held' = read_dmi(Outcome.structures)
    BY <1>3 DEF Read
  <2>2. StillSo(read_dmi(s), read_dmi(Outcome.structures))
    BY <1>1, <1>2, <2>1, MoreSaysMore
  <2> QED
    BY <1>2, <2>1, <2>2
<1>4. CASE Arrive \/ Declare \/ ReadFails
  <2>1. held' = held
    BY <1>4 DEF Arrive, Declare, ReadFails, vars
  <2>2. IsPrefix(s, s)
    BY SameIsPrefix
  <2>3. StillSo(read_dmi(s), read_dmi(s))
    BY <1>1, <2>2, MoreSaysMore
  <2> QED
    BY <1>2, <2>1, <2>3
<1> QED
  BY <1>3, <1>4 DEF Next

\* NothingIsTakenBack, for all tables and any order in which more of one comes into
\* view: no later successful call contradicts what an earlier one said (reader.py,
\* lines 21-74; models.py, lines 405-427).
THEOREM NothingCorrect == Spec => NothingIsTakenBack
BY Inductive, NothingTakenBackStep, PTL DEF Spec, NothingIsTakenBack
=============================================================================
