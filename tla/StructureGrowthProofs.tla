----------------------- MODULE StructureGrowthProofs ------------------------
(***************************************************************************)
(* Proofs about StructureGrowth, for all structures and lengths.           *)
(***************************************************************************)
EXTENDS StructureGrowth, SMBIOSTableProofs

(***************************************************************************)
(* Records with the types of their fields.  A decoder puts a record        *)
(* together from smaller ones; types is the record of the sets its fields  *)
(* are in.                                                                 *)
(***************************************************************************)

Typed(r, types) ==
    /\ r = [x \in DOMAIN r |-> r[x]]
    /\ DOMAIN r \subseteq DOMAIN types
    /\ \A x \in DOMAIN r : r[x] \in types[x]

\* A record of the fields D.
Part(r, types, D) == Typed(r, types) /\ DOMAIN r = D

LEMMA PartUnion ==
    ASSUME NEW types, NEW r, NEW s, NEW C, NEW D, Part(r, types, C), Part(s, types, D)
    PROVE  Part(r ++ s, types, C \cup D)
BY DEF Part, Typed, ++

LEMMA SliceOfBytes ==
    ASSUME NEW f \in Seq(Byte), NEW m \in Nat, NEW n \in Nat, n <= Len(f)
    PROVE  /\ Slice(f, m, n) \in Seq(Byte) /\ Len(Slice(f, m, n)) = (IF m <= n THEN n - m ELSE 0)
           /\ \A i \in 1 .. n - m : Slice(f, m, n)[i] = f[m + i]
BY DEF Slice

LEMMA SafeSliceOfBytes ==
    ASSUME NEW f \in Seq(Byte), NEW m \in Nat, NEW n \in Nat
    PROVE  /\ SafeSlice(f, m, n) \in Seq(Byte)
           /\ m <= n /\ n <= Len(f) =>
                 /\ Len(SafeSlice(f, m, n)) = n - m
                 /\ \A i \in 1 .. n - m : SafeSlice(f, m, n)[i] = f[m + i]
<1>1. Len(f) \in Nat /\ << >> \in Seq(Byte)
  BY LenProperties
<1>2. CASE m >= Len(f)
  BY <1>1, <1>2, EmptySeq DEF SafeSlice
<1>3. CASE m < Len(f)
  <2> DEFINE e == IF n < Len(f) THEN n ELSE Len(f)
  <2>1. SafeSlice(f, m, n) = Slice(f, m, e)
    BY <1>1, <1>3 DEF SafeSlice
  <2>2. e \in Nat /\ e <= Len(f) /\ (n <= Len(f) => e = n)
    BY <1>1, <1>3
  <2> HIDE DEF e
  <2>3. /\ Slice(f, m, e) \in Seq(Byte) /\ Len(Slice(f, m, e)) = (IF m <= e THEN e - m ELSE 0)
        /\ \A i \in 1 .. e - m : Slice(f, m, e)[i] = f[m + i]
    BY <2>2, SliceOfBytes
  <2> QED
    BY <2>1, <2>2, <2>3
<1> QED
  BY <1>1, <1>2, <1>3

LEMMA WordInArea ==
    ASSUME NEW f \in Seq(Byte), NEW k \in Nat, k + 2 <= Len(f)
    PROVE  WordAt(f, k) \in Word
<1>1. Len(f) \in Nat /\ k + 1 \in 1 .. Len(f) /\ k + 1 + 1 \in 1 .. Len(f)
  BY LenProperties
<1> DEFINE lo == f[k + 1]
           hi == f[k + 1 + 1]
           w == lo + 256 * hi
<1>2. lo \in Byte /\ hi \in Byte
  BY <1>1, ElementOfSeq
<1>3. WordAt(f, k) = w
  BY DEF WordAt, ByteAt
<1> HIDE DEF lo, hi
<1>4. lo \in Int /\ hi \in Int /\ 0 <= lo /\ lo <= 255 /\ 0 <= hi /\ hi <= 255
  BY <1>2 DEF Byte
<1>5. w \in Int /\ 0 <= w /\ w <= MaxWord /\ MaxWord \in Int
  BY <1>4 DEF MaxWord
<1> HIDE DEF w
<1> QED
  BY <1>3, <1>5 DEF Word

LEMMA ByteRange == \A x : x \in Byte <=> x \in Int /\ 0 <= x /\ x <= 255
BY DEF Byte

LEMMA WordRange == \A x : x \in Word <=> x \in Int /\ 0 <= x /\ x <= MaxWord
<1>1. MaxWord \in Int
  BY DEF MaxWord
<1> QED
  BY <1>1 DEF Word

LEMMA Bytes ==
    /\ Byte \subseteq Word /\ Word \subseteq Nat /\ Byte \subseteq Nat
    /\ 0 \in Byte /\ 0 \in Word /\ MaxWord \in Word
BY ByteRange, WordRange DEF MaxWord

LEMMA Readers ==
    ASSUME NEW f \in Seq(Byte), NEW k \in Nat
    PROVE  /\ _u8(f, k) \in Opt(Byte) /\ _u16(f, k) \in Opt(Word)
           /\ _u32(f, k) \in Opt(DoubleWord) /\ _u64(f, k) \in Opt(QuadWord)
<1>1. Len(f) \in Nat /\ \A i \in 1 .. Len(f) : f[i] \in Byte
  BY LenProperties, ElementOfSeq
<1>2. \A i \in Nat : i < Len(f) => ByteAt(f, i) \in Byte
  BY <1>1 DEF ByteAt
<1>3. \A i \in Nat : i + 2 <= Len(f) => WordAt(f, i) \in Word
  BY WordInArea
<1>4. \A n \in Nat : Words(f, k, n) \in Opt([1 .. n -> Word])
  BY <1>1, <1>3 DEF Words, Opt
<1> QED
  <2>1. _u8(f, k) \in Opt(Byte)
    BY <1>1, <1>2 DEF _u8, Opt
  <2>2. _u16(f, k) \in Opt(Word)
    BY <1>1, <1>3 DEF _u16, Opt
  <2>3. _u32(f, k) \in Opt(DoubleWord) /\ _u64(f, k) \in Opt(QuadWord)
    BY <1>4 DEF _u32, _u64, DoubleWord, QuadWord
  <2> QED
    BY <2>1, <2>2, <2>3

LEMMA Strings ==
    ASSUME NEW strings \in Seq(Text), NEW i \in Nat
    PROVE  _str(strings, i) \in Text
<1>1. \A n \in 1 .. Len(strings) : strings[n] \in Text
  BY ElementOfSeq
<1> QED
  BY <1>1, LenProperties DEF _str, Text

(***************************************************************************)
(* The record builders.                                                    *)
(***************************************************************************)

\* Fields at offsets at, all of one kind: their types include the set S.
Places(at, types, S) ==
    \A x \in DOMAIN at : x \in DOMAIN types /\ at[x] \in Nat /\ S \subseteq types[x]

LEMMA TypedHandle ==
    ASSUME NEW r \in RawStructure, NEW types, "handle" \in DOMAIN types, types.handle = Word
    PROVE  Part(Handle(r), types, {"handle"})
BY DEF Part, Typed, Handle, RawStructure

LEMMA TypedStrings ==
    ASSUME NEW r \in RawStructure, NEW types, NEW at, Places(at, types, Text)
    PROVE  Part(StringFields(r, at), types, DOMAIN at)
<1>1. r.formatted \in Seq(Byte) /\ r.strings \in Seq(Text)
  BY DEF RawStructure
<1>2. \A k \in Nat : Or(_u8(r.formatted, k), 0) \in Nat
  <2>1. 0 \in Byte /\ Byte \subseteq Nat
    BY DEF Byte
  <2> QED
    BY <1>1, <2>1, Readers DEF Or, Opt
<1>3. \A k \in Nat : _str(r.strings, Or(_u8(r.formatted, k), 0)) \in Text
  BY <1>1, <1>2, Strings
<1> QED
  BY <1>3 DEF Part, Typed, StringFields, Places

LEMMA TypedBytes ==
    ASSUME NEW r \in RawStructure, NEW types, NEW at, Places(at, types, Byte)
    PROVE  Part(ByteFields(r, at), types, DOMAIN at)
<1>1. r.formatted \in Seq(Byte) /\ 0 \in Byte
  BY DEF RawStructure, Byte
<1>2. \A k \in Nat : Or(_u8(r.formatted, k), 0) \in Byte
  BY <1>1, Readers DEF Or, Opt
<1> QED
  BY <1>2 DEF Part, Typed, ByteFields, Places

LEMMA TypedWords ==
    ASSUME NEW r \in RawStructure, NEW types, NEW at, Places(at, types, Word)
    PROVE  Part(WordFields(r, at), types, DOMAIN at)
<1>1. r.formatted \in Seq(Byte)
  BY DEF RawStructure
<1> 0 \in Word
  BY Bytes
<1>2. \A k \in Nat : Or(_u16(r.formatted, k), 0) \in Word
  BY <1>1, Readers DEF Or, Opt
<1> QED
  BY <1>2 DEF Part, Typed, WordFields, Places

LEMMA TypedOptionalBytes ==
    ASSUME NEW r \in RawStructure, NEW types, NEW at, NEW s, Places(at, types, Opt(Byte \ {s}))
    PROVE  Part(OptionalBytes(r, at, s), types, DOMAIN at)
<1>1. r.formatted \in Seq(Byte)
  BY DEF RawStructure
<1>2. \A k \in Nat : Unless(_u8(r.formatted, k), s) \in Opt(Byte \ {s})
  BY <1>1, Readers DEF Unless, Opt
<1> QED
  BY <1>2 DEF Part, Typed, OptionalBytes, Places

LEMMA TypedOptionalWords ==
    ASSUME NEW r \in RawStructure, NEW types, NEW at, NEW s, Places(at, types, Opt(Word \ {s}))
    PROVE  Part(OptionalWords(r, at, s), types, DOMAIN at)
<1>1. r.formatted \in Seq(Byte)
  BY DEF RawStructure
<1>2. \A k \in Nat : Unless(_u16(r.formatted, k), s) \in Opt(Word \ {s})
  BY <1>1, Readers DEF Unless, Opt
<1> QED
  BY <1>2 DEF Part, Typed, OptionalWords, Places

(***************************************************************************)
(* The helpers that make one value of one or two fields.                   *)
(***************************************************************************)

LEMMA CountsOfOneWord ==
    ASSUME NEW D, NEW d \in D
    PROVE  << d >> \in OneWord(D)
BY DEF OneWord

LEMMA SizesOfCounts ==
    ASSUME NEW unit, NEW C, NEW c \in C
    PROVE  Size(c, unit) \in SizesIn(unit, C)
BY DEF Size, SizesIn

LEMMA ROMAmounts ==
    /\ \A c \in 1 .. 255 : Size(<< c >>, "64KB") \in ROMSizes
    /\ \A c \in Positive(Count14) : Size(<< c >>, "MB") \in ROMSizes
    /\ \A c \in Count14 : Size(<< c >>, "GB") \in ROMSizes
BY CountsOfOneWord, SizesOfCounts DEF ROMSizes

LEMMA CacheAmounts ==
    /\ Size(<< 0 >>, "B") \in CacheSizes
    /\ \A c \in Positive(Count15) : Size(<< c >>, "KB") \in CacheSizes
    /\ \A c \in Count15 \ {Max15} : Size(<< c >>, "64KB") \in CacheSizes
    /\ \A c \in Count31 \ {Zero(2)} : Size(c, "KB") \in CacheSizes
    /\ \A c \in Count31 : Size(c, "64KB") \in CacheSizes
<1> DEFINE S == Count31 \ {Zero(2)}
           T == Count15 \ {Max15}
           U == Positive(Count15)
<1> HIDE DEF S, T, U
<1>1. CacheSizes = SizesIn("B", OneWord({0})) \cup SizesIn("KB", OneWord(U))
          \cup SizesIn("64KB", OneWord(T)) \cup SizesIn("KB", S) \cup SizesIn("64KB", Count31)
  BY DEF CacheSizes, S, T, U
<1>2. << 0 >> \in OneWord({0})
  BY CountsOfOneWord
<1>3. /\ Size(<< 0 >>, "B") \in CacheSizes
      /\ \A c \in U : Size(<< c >>, "KB") \in CacheSizes
      /\ \A c \in T : Size(<< c >>, "64KB") \in CacheSizes
      /\ \A c \in S : Size(c, "KB") \in CacheSizes
      /\ \A c \in Count31 : Size(c, "64KB") \in CacheSizes
  BY <1>1, <1>2, CountsOfOneWord, SizesOfCounts
<1> QED
  BY <1>3 DEF S, T, U

LEMMA DeviceAmounts ==
    /\ Size(<< 0 >>, "B") \in DeviceSizes
    /\ \A c \in Positive(Count15) \ {Max15} : Size(<< c >>, "MB") \in DeviceSizes
    /\ \A c \in Count15 \ {Max15} : Size(<< c >>, "KB") \in DeviceSizes
    /\ \A c \in DoubleWord \ {Zero(2)} : Size(c, "MB") \in DeviceSizes
<1> DEFINE S == DoubleWord \ {Zero(2)}
           T == Count15 \ {Max15}
           U == Positive(Count15) \ {Max15}
<1> HIDE DEF S, T, U
<1>1. DeviceSizes = SizesIn("B", OneWord({0})) \cup SizesIn("MB", OneWord(U))
          \cup SizesIn("KB", OneWord(T)) \cup SizesIn("MB", S)
  BY DEF DeviceSizes, S, T, U
<1>2. << 0 >> \in OneWord({0})
  BY CountsOfOneWord
<1>3. /\ Size(<< 0 >>, "B") \in DeviceSizes
      /\ \A c \in U : Size(<< c >>, "MB") \in DeviceSizes
      /\ \A c \in T : Size(<< c >>, "KB") \in DeviceSizes
      /\ \A c \in S : Size(c, "MB") \in DeviceSizes
  BY <1>1, <1>2, CountsOfOneWord, SizesOfCounts
<1> QED
  BY <1>3 DEF S, T, U

LEMMA ArrayAmounts ==
    /\ \A c \in DoubleWord \ {Bit31} : Size(c, "KB") \in ArraySizes
    /\ \A c \in QuadWord \ {Zero(4)} : Size(c, "B") \in ArraySizes
BY SizesOfCounts DEF ArraySizes

LEMMA Remainders ==
    ASSUME NEW w \in Word
    PROVE  w % 16384 \in Word /\ w % 32768 \in Word /\ (w # MaxWord => w + 1 \in Word)
<1>1. w \in Int /\ 0 <= w /\ w <= MaxWord
  BY WordRange
<1>2. w % 16384 \in Int /\ 0 <= w % 16384 /\ w % 16384 <= MaxWord
  BY <1>1 DEF MaxWord
<1>3. w % 32768 \in Int /\ 0 <= w % 32768 /\ w % 32768 <= MaxWord
  BY <1>1 DEF MaxWord
<1>4. w # MaxWord => w + 1 \in Int /\ 0 <= w + 1 /\ w + 1 <= MaxWord
  BY <1>1 DEF MaxWord
<1> QED
  BY <1>2, <1>3, <1>4, WordRange

LEMMA RomSize ==
    ASSUME NEW byte \in Opt(Byte), NEW extended \in Opt(Word)
    PROVE  _rom_size(byte, extended) \in Opt(ROMSizes)
<1> DEFINE rest == extended % 16384
<1>1. _extended_rom_size(extended) \in Opt(ROMSizes)
  <2>1. Size(<< 16 >>, "MB") \in ROMSizes
    <3>1. 16 \in Positive(Count14)
      BY DEF Positive, Count14
    <3> QED
      BY <3>1, ROMAmounts
  <2>2. ASSUME extended # None
        PROVE  /\ extended \div 16384 = 0 /\ extended # 0 => rest \in Positive(Count14)
               /\ rest \in Count14
    <3>1. extended \in Nat
      BY <2>2, WordRange DEF Opt
    <3>2. rest \in 0 .. 16383
      BY <3>1
    <3>3. extended \div 16384 = 0 => rest = extended
      BY <3>1
    <3> HIDE DEF rest
    <3>4. Count14 = 0 .. 16383
      BY DEF Count14
    <3>5. extended \div 16384 = 0 /\ extended # 0 => rest \in Positive(Count14)
      BY <3>2, <3>3, <3>4 DEF Positive
    <3> QED
      BY <3>2, <3>4, <3>5, SMTT(30)
  <2> HIDE DEF rest
  <2>3. ASSUME extended # None
        PROVE  /\ extended \div 16384 = 0 /\ extended # 0 => Size(<< rest >>, "MB") \in ROMSizes
               /\ Size(<< rest >>, "GB") \in ROMSizes
    BY <2>2, <2>3, ROMAmounts
  <2> QED
    BY <2>1, <2>3 DEF _extended_rom_size, Opt, rest
<1>2. byte # None /\ byte # 255 => Size(<< byte + 1 >>, "64KB") \in ROMSizes
  <2>1. byte # None /\ byte # 255 => byte + 1 \in 1 .. 255
    BY ByteRange DEF Opt
  <2> QED
    BY <2>1, ROMAmounts
<1> QED
  BY <1>1, <1>2 DEF _rom_size, Opt

LEMMA ReleaseDateParsed ==
    ASSUME NEW s
    PROVE  _parse_bios_release_date(s) \in Opt(SomeDate)
<1>1. ASSUME NEW y, NEW m, NEW k, IsDate([year |-> y, month |-> m, day |-> k])
      PROVE  [year |-> y, month |-> m, day |-> k] \in SomeDate
  <2>1. y \in 1 .. 9999 /\ m \in 1 .. 12 /\ k \in 1 .. DaysIn(m, y)
    BY <1>1 DEF IsDate, MAXYEAR
  <2>2. DaysIn(m, y) \in Nat
    BY DEF DaysIn
  <2>3. y \in Nat /\ m \in Nat /\ k \in Nat
    BY <2>1, <2>2
  <2> QED
    BY <1>1, <2>3 DEF SomeDate
<1> QED
  BY <1>1 DEF _parse_bios_release_date, Opt

LEMMA Resolved ==
    ASSUME NEW small \in Opt(Byte), NEW big \in Opt(Word)
    PROVE  _resolve(small, big) \in Opt(Word)
BY Bytes DEF _resolve, Unless, Opt

\* What is below the highest bit of a word.
LEMMA LowBits ==
    ASSUME NEW w \in Word
    PROVE  /\ w % 32768 \in Count15
           /\ w >= 32768 /\ w # MaxWord => w % 32768 # Max15
           /\ ~ (w >= 32768) => w % 32768 = w
<1>1. w \in Int /\ 0 <= w /\ w <= MaxWord
  BY WordRange
<1> QED
  BY <1>1, SMTT(30) DEF MaxWord, Count15, Max15

LEMMA CacheSize ==
    ASSUME NEW value \in Opt(Word), NEW value2 \in Opt(DoubleWord)
    PROVE  _decode_cache_size(value, value2) \in Opt(CacheSizes)
<1> DEFINE low == value % 32768
           high == value >= 32768
           low2 == value2[2] % 32768
           high2 == value2[2] >= 32768
           count2 == << value2[1], low2 >>
<1>1. value # None => /\ low \in Count15
                      /\ high /\ value # MaxWord => low # Max15
                      /\ ~ high => low = value
  BY LowBits DEF Opt
<1>2. value2 # None => /\ value2[1] \in Word /\ value2[2] \in Word
                       /\ value2 = << value2[1], value2[2] >>
  BY DEF Opt, DoubleWord
<1>3. value2 # None => /\ low2 \in Count15 /\ low2 \in Word
                       /\ ~ high2 => low2 = value2[2]
  BY <1>2, LowBits, Remainders
<1>4. _decode_cache_size(value, value2) =
          IF value = None THEN None
          ELSE IF value = 0 THEN Size(<< 0 >>, "B")
          ELSE IF value # MaxWord THEN Size(<< low >>, IF high THEN "64KB" ELSE "KB")
          ELSE IF value2 = None \/ value2 = Zero(2) THEN None
          ELSE Size(count2, IF high2 THEN "64KB" ELSE "KB")
  BY DEF _decode_cache_size
<1> HIDE DEF low, high, low2, high2
<1>5. ASSUME value # None, value # 0, value # MaxWord
      PROVE  Size(<< low >>, IF high THEN "64KB" ELSE "KB") \in CacheSizes
  <2>1. high => low \in Count15 \ {Max15}
    BY <1>1, <1>5
  <2>2. ~ high => low \in Positive(Count15)
    BY <1>1, <1>5 DEF Positive
  <2> QED
    BY <2>1, <2>2, CacheAmounts
<1>6. ASSUME value2 # None, value2 # Zero(2)
      PROVE  Size(count2, IF high2 THEN "64KB" ELSE "KB") \in CacheSizes
  <2>1. count2 \in DoubleWord /\ count2[2] = low2
    BY <1>2, <1>3, <1>6 DEF DoubleWord
  <2>2. ~ high2 => count2 = value2
    BY <1>2, <1>3, <1>6
  <2> HIDE DEF count2
  <2>3. count2 \in Count31
    BY <1>3, <1>6, <2>1 DEF Count31
  <2>4. ~ high2 => count2 \in Count31 \ {Zero(2)}
    BY <1>6, <2>2, <2>3
  <2> QED
    BY <2>3, <2>4, CacheAmounts
<1>7. Size(<< 0 >>, "B") \in CacheSizes
  BY CacheAmounts
<1> HIDE DEF count2
<1> QED
  BY <1>4, <1>5, <1>6, <1>7 DEF Opt

LEMMA DeviceSize ==
    ASSUME NEW word \in Opt(Word), NEW extended \in Opt(DoubleWord)
    PROVE  _decode_memory_size(word, extended) \in Opt(DeviceSizes)
<1> DEFINE low == word % 32768
           high == word >= 32768
<1>1. word # None => /\ low \in Count15
                     /\ high /\ word # MaxWord => low # Max15
                     /\ ~ high => low = word
  BY LowBits DEF Opt
<1>2. _decode_memory_size(word, extended) =
          IF word = None \/ word = MaxWord THEN None
          ELSE IF word = 0 THEN Size(<< 0 >>, "B")
          ELSE IF word = Max15
               THEN IF extended = None \/ extended = Zero(2) THEN None ELSE Size(extended, "MB")
          ELSE IF high THEN Size(<< low >>, "KB")
          ELSE Size(<< word >>, "MB")
  BY DEF _decode_memory_size, Max15
<1> HIDE DEF low, high
<1>3. ASSUME word # None, word # 0, word # MaxWord, word # Max15
      PROVE  /\ high => Size(<< low >>, "KB") \in DeviceSizes
             /\ ~ high => Size(<< word >>, "MB") \in DeviceSizes
  <2>1. high => low \in Count15 \ {Max15}
    BY <1>1, <1>3
  <2>2. ~ high => word \in Positive(Count15) \ {Max15}
    BY <1>1, <1>3 DEF Positive
  <2> QED
    BY <2>1, <2>2, DeviceAmounts
<1>4. extended # None /\ extended # Zero(2) => Size(extended, "MB") \in DeviceSizes
  BY DeviceAmounts DEF Opt
<1>5. Size(<< 0 >>, "B") \in DeviceSizes
  BY DeviceAmounts
<1> QED
  BY <1>2, <1>3, <1>4, <1>5 DEF Opt

LEMMA ExtendedSpeed ==
    ASSUME NEW value \in Opt(DoubleWord)
    PROVE  _extended_speed(value) \in Opt(DoubleWord \ {Zero(2)})
<1>1. CASE value = None
  BY <1>1 DEF _extended_speed, Opt
<1>2. CASE value # None
  <2>1. value[1] \in Word /\ value[2] \in Word
    BY <1>2 DEF Opt, DoubleWord
  <2>2. << value[1], value[2] % 32768 >> \in DoubleWord
    BY <2>1, Remainders DEF DoubleWord
  <2> QED
    BY <1>2, <2>2 DEF _extended_speed, Unless, Opt
<1> QED
  BY <1>1, <1>2

(***************************************************************************)
(* Records of a structure that grows: the fields of what there was (old),  *)
(* of what there is (new) and of nothing.                                  *)
(***************************************************************************)

\* What FieldsOnlyFillIn says of one field.
Fine(x, old, new, nothing) ==
    \/ old = new
    \/ old = nothing
    \/ x \in DOMAIN Escape /\ old = Escape[x]
    \/ x = "rom_size_bytes" /\ old = Size(<< 16 >>, "MB")
    \/ x = "characteristics_extension" /\ IsPrefix(old, new)

Fills(old, new, nothing, D) ==
    /\ DOMAIN old = D /\ DOMAIN new = D /\ DOMAIN nothing = D
    /\ \A x \in D : Fine(x, old[x], new[x], nothing[x])

LEMMA FillsUnion ==
    ASSUME NEW C, NEW D, NEW o, NEW n, NEW z, NEW p, NEW q, NEW y,
           Fills(o, n, z, C), Fills(p, q, y, D)
    PROVE  Fills(o ++ p, n ++ q, z ++ y, C \cup D)
BY DEF Fills, ++

Longer(f, g) ==
    /\ f \in Seq(Byte) /\ g \in Seq(Byte) /\ Len(f) <= Len(g)
    /\ \A i \in 1 .. Len(f) : g[i] = f[i]

\* old has grown to new, and nothing is what it was at first.
Grown(old, new, nothing) ==
    /\ old \in RawStructure /\ new \in RawStructure /\ nothing \in RawStructure
    /\ Longer(old.formatted, new.formatted) /\ nothing.formatted = << >>
    /\ new.handle = old.handle /\ nothing.handle = old.handle
    /\ new.strings = old.strings /\ nothing.strings = old.strings

LEMMA ReadsOfNothing ==
    ASSUME NEW k \in Nat
    PROVE  /\ _u8(<< >>, k) = None /\ _u16(<< >>, k) = None
           /\ _u32(<< >>, k) = None /\ _u64(<< >>, k) = None
BY DEF _u8, _u16, _u32, _u64, Words

LEMMA ReadsOfLonger ==
    ASSUME NEW f, NEW g, Longer(f, g), NEW k \in Nat
    PROVE  /\ IF k < Len(f) THEN _u8(f, k) = _u8(g, k) ELSE _u8(f, k) = None
           /\ IF k + 2 <= Len(f) THEN _u16(f, k) = _u16(g, k) ELSE _u16(f, k) = None
           /\ IF k + 4 <= Len(f) THEN _u32(f, k) = _u32(g, k) ELSE _u32(f, k) = None
           /\ IF k + 8 <= Len(f) THEN _u64(f, k) = _u64(g, k) ELSE _u64(f, k) = None
<1>1. Len(f) \in Nat /\ Len(g) \in Nat /\ Len(f) <= Len(g)
  BY LenProperties DEF Longer
<1>2. \A i \in Nat : i < Len(f) => ByteAt(f, i) = ByteAt(g, i)
  BY <1>1 DEF Longer, ByteAt
<1>3. \A i \in Nat : i + 2 <= Len(f) => WordAt(f, i) = WordAt(g, i)
  <2> SUFFICES ASSUME NEW i \in Nat, i + 2 <= Len(f)
               PROVE  WordAt(f, i) = WordAt(g, i)
    OBVIOUS
  <2>1. i \in Nat /\ i + 1 \in Nat /\ i < Len(f) /\ i + 1 < Len(f)
    BY <1>1
  <2> QED
    BY <1>2, <2>1 DEF WordAt
<1>4. ASSUME NEW n \in {2, 4}
      PROVE  IF k + 2 * n <= Len(f) THEN Words(f, k, n) = Words(g, k, n)
                                    ELSE Words(f, k, n) = None
  <2>1. CASE k + 2 * n <= Len(f)
    <3>1. /\ Words(f, k, n) = [i \in 1 .. n |-> WordAt(f, k + 2 * (i - 1))]
          /\ Words(g, k, n) = [i \in 1 .. n |-> WordAt(g, k + 2 * (i - 1))]
      BY <1>1, <2>1 DEF Words
    <3>2. \A i \in 1 .. n : WordAt(f, k + 2 * (i - 1)) = WordAt(g, k + 2 * (i - 1))
      <4> SUFFICES ASSUME NEW i \in 1 .. n
                   PROVE  WordAt(f, k + 2 * (i - 1)) = WordAt(g, k + 2 * (i - 1))
        OBVIOUS
      <4>1. k + 2 * (i - 1) \in Nat /\ k + 2 * (i - 1) + 2 <= Len(f)
        BY <1>1, <2>1
      <4> QED
        BY <1>3, <4>1
    <3> QED
      BY <2>1, <3>1, <3>2
  <2>2. CASE ~ (k + 2 * n <= Len(f))
    BY <1>1, <2>2 DEF Words
  <2> QED
    BY <2>1, <2>2
<1>5. IF k < Len(f) THEN _u8(f, k) = _u8(g, k) ELSE _u8(f, k) = None
  BY <1>1, <1>2 DEF _u8
<1>6. IF k + 2 <= Len(f) THEN _u16(f, k) = _u16(g, k) ELSE _u16(f, k) = None
  BY <1>1, <1>3 DEF _u16
<1>7. IF k + 4 <= Len(f) THEN _u32(f, k) = _u32(g, k) ELSE _u32(f, k) = None
  BY <1>4 DEF _u32
<1>8. IF k + 8 <= Len(f) THEN _u64(f, k) = _u64(g, k) ELSE _u64(f, k) = None
  BY <1>4 DEF _u64
<1> QED
  BY <1>5, <1>6, <1>7, <1>8

LEMMA FillsHandle ==
    ASSUME NEW old, NEW new, NEW nothing, Grown(old, new, nothing)
    PROVE  Fills(Handle(old), Handle(new), Handle(nothing), {"handle"})
BY DEF Fills, Fine, Handle, Grown

\* The offset of a field may depend on earlier bytes (sku_number of a chassis), if it
\* does not change any more once the field is there.
Stays(at, at_new, at_nothing, length) ==
    /\ DOMAIN at_new = DOMAIN at /\ DOMAIN at_nothing = DOMAIN at
    /\ \A x \in DOMAIN at : /\ at[x] \in Nat /\ at_new[x] \in Nat /\ at_nothing[x] \in Nat
                            /\ at[x] < length => at_new[x] = at[x]

LEMMA FillsMovingStrings ==
    ASSUME NEW old, NEW new, NEW nothing, Grown(old, new, nothing),
           NEW at, NEW at_new, NEW at_nothing,
           Stays(at, at_new, at_nothing, Len(old.formatted))
    PROVE  Fills(StringFields(old, at), StringFields(new, at_new),
                 StringFields(nothing, at_nothing), DOMAIN at)
<1>1. \A k \in Nat : _u8(nothing.formatted, k) = None
  BY ReadsOfNothing DEF Grown
<1>2. \A k \in Nat : IF k < Len(old.formatted)
                     THEN _u8(old.formatted, k) = _u8(new.formatted, k)
                     ELSE _u8(old.formatted, k) = None
  BY ReadsOfLonger DEF Grown
<1>3. new.strings = old.strings /\ nothing.strings = old.strings
  BY DEF Grown
<1> QED
  BY <1>1, <1>2, <1>3 DEF Fills, Fine, StringFields, Stays

LEMMA FillsStrings ==
    ASSUME NEW old, NEW new, NEW nothing, Grown(old, new, nothing),
           NEW types, NEW at, NEW S, Places(at, types, S)
    PROVE  Fills(StringFields(old, at), StringFields(new, at), StringFields(nothing, at),
                 DOMAIN at)
<1>1. Stays(at, at, at, Len(old.formatted))
  BY DEF Stays, Places
<1> QED
  BY <1>1, FillsMovingStrings

LEMMA FillsBytes ==
    ASSUME NEW old, NEW new, NEW nothing, Grown(old, new, nothing),
           NEW types, NEW at, NEW S, Places(at, types, S)
    PROVE  Fills(ByteFields(old, at), ByteFields(new, at), ByteFields(nothing, at), DOMAIN at)
<1>1. \A k \in Nat : _u8(nothing.formatted, k) = None
  BY ReadsOfNothing DEF Grown
<1>2. \A k \in Nat : \/ _u8(old.formatted, k) = _u8(new.formatted, k)
                     \/ _u8(old.formatted, k) = None
  BY ReadsOfLonger DEF Grown
<1> QED
  BY <1>1, <1>2 DEF Fills, Fine, Places, ByteFields

LEMMA FillsWords ==
    ASSUME NEW old, NEW new, NEW nothing, Grown(old, new, nothing),
           NEW types, NEW at, NEW S, Places(at, types, S)
    PROVE  Fills(WordFields(old, at), WordFields(new, at), WordFields(nothing, at), DOMAIN at)
<1>1. \A k \in Nat : _u16(nothing.formatted, k) = None
  BY ReadsOfNothing DEF Grown
<1>2. \A k \in Nat : \/ _u16(old.formatted, k) = _u16(new.formatted, k)
                     \/ _u16(old.formatted, k) = None
  BY ReadsOfLonger DEF Grown
<1> QED
  BY <1>1, <1>2 DEF Fills, Fine, Places, WordFields

LEMMA FillsOptionalBytes ==
    ASSUME NEW old, NEW new, NEW nothing, Grown(old, new, nothing),
           NEW s, NEW types, NEW at, NEW S, Places(at, types, S)
    PROVE  Fills(OptionalBytes(old, at, s), OptionalBytes(new, at, s),
                 OptionalBytes(nothing, at, s), DOMAIN at)
<1>1. \A k \in Nat : _u8(nothing.formatted, k) = None
  BY ReadsOfNothing DEF Grown
<1>2. \A k \in Nat : \/ _u8(old.formatted, k) = _u8(new.formatted, k)
                     \/ _u8(old.formatted, k) = None
  BY ReadsOfLonger DEF Grown
<1> QED
  BY <1>1, <1>2 DEF Fills, Fine, Places, OptionalBytes

LEMMA FillsOptionalWords ==
    ASSUME NEW old, NEW new, NEW nothing, Grown(old, new, nothing),
           NEW s, NEW types, NEW at, NEW S, Places(at, types, S)
    PROVE  Fills(OptionalWords(old, at, s), OptionalWords(new, at, s),
                 OptionalWords(nothing, at, s), DOMAIN at)
<1>1. \A k \in Nat : _u16(nothing.formatted, k) = None
  BY ReadsOfNothing DEF Grown
<1>2. \A k \in Nat : \/ _u16(old.formatted, k) = _u16(new.formatted, k)
                     \/ _u16(old.formatted, k) = None
  BY ReadsOfLonger DEF Grown
<1> QED
  BY <1>1, <1>2 DEF Fills, Fine, Places, OptionalWords

\* Both at once: the type of a part of a record, and how it fills in.
Growing(old, new, nothing, types, D) == Part(old, types, D) /\ Fills(old, new, nothing, D)

LEMMA GrowingUnion ==
    ASSUME NEW types, NEW C, NEW D, NEW o, NEW n, NEW z, NEW p, NEW q, NEW y,
           Growing(o, n, z, types, C), Growing(p, q, y, types, D)
    PROVE  Growing(o ++ p, n ++ q, z ++ y, types, C \cup D)
BY PartUnion, FillsUnion DEF Growing

LEMMA GrowingHandle ==
    ASSUME NEW old, NEW new, NEW nothing, Grown(old, new, nothing),
           NEW types, "handle" \in DOMAIN types, types.handle = Word
    PROVE  Growing(Handle(old), Handle(new), Handle(nothing), types, {"handle"})
BY TypedHandle, FillsHandle DEF Growing, Grown

LEMMA GrowingFields ==
    ASSUME NEW old, NEW new, NEW nothing, Grown(old, new, nothing), NEW types, NEW at
    PROVE  /\ Places(at, types, Text) =>
                Growing(StringFields(old, at), StringFields(new, at), StringFields(nothing, at),
                        types, DOMAIN at)
           /\ Places(at, types, Byte) =>
                Growing(ByteFields(old, at), ByteFields(new, at), ByteFields(nothing, at),
                        types, DOMAIN at)
           /\ Places(at, types, Word) =>
                Growing(WordFields(old, at), WordFields(new, at), WordFields(nothing, at),
                        types, DOMAIN at)
<1>1. old \in RawStructure
  BY DEF Grown
<1> QED
  BY <1>1, TypedStrings, TypedBytes, TypedWords, FillsStrings, FillsBytes, FillsWords
  DEF Growing

LEMMA GrowingOptionalFields ==
    ASSUME NEW old, NEW new, NEW nothing, Grown(old, new, nothing), NEW types, NEW at, NEW s
    PROVE  /\ Places(at, types, Opt(Byte \ {s})) =>
                Growing(OptionalBytes(old, at, s), OptionalBytes(new, at, s),
                        OptionalBytes(nothing, at, s), types, DOMAIN at)
           /\ Places(at, types, Opt(Word \ {s})) =>
                Growing(OptionalWords(old, at, s), OptionalWords(new, at, s),
                        OptionalWords(nothing, at, s), types, DOMAIN at)
<1>1. old \in RawStructure
  BY DEF Grown
<1> QED
  BY <1>1, TypedOptionalBytes, TypedOptionalWords, FillsOptionalBytes, FillsOptionalWords
  DEF Growing

(***************************************************************************)
(* Values made of two reads: an escape and the field it leads to, which is *)
(* further on.                                                             *)
(***************************************************************************)

LEMMA Reads ==
    ASSUME NEW old, NEW new, NEW nothing, Grown(old, new, nothing), NEW k \in Nat
    PROVE  LET f == old.formatted
               g == new.formatted
               e == nothing.formatted
           IN  /\ _u8(f, k) \in {_u8(g, k), None} /\ _u8(e, k) = None
               /\ _u16(f, k) \in {_u16(g, k), None} /\ _u16(e, k) = None
               /\ _u32(f, k) \in {_u32(g, k), None} /\ _u32(e, k) = None
               /\ _u64(f, k) \in {_u64(g, k), None} /\ _u64(e, k) = None
BY ReadsOfLonger, ReadsOfNothing DEF Grown

\* If the nearer of two fields is not there, the farther one is not either.
LEMMA ReadsInOrder ==
    ASSUME NEW old, NEW new, NEW nothing, Grown(old, new, nothing),
           NEW k \in Nat, NEW l \in Nat, k < l
    PROVE  LET f == old.formatted
               g == new.formatted
           IN  /\ _u8(f, k) = _u8(g, k) \/ (_u8(f, k) = None /\ _u16(f, l) = None)
               /\ _u16(f, k) = _u16(g, k) \/ (_u16(f, k) = None /\ _u32(f, l) = None)
               /\ _u32(f, k) = _u32(g, k) \/ (_u32(f, k) = None /\ _u64(f, l) = None)
<1> DEFINE f == old.formatted
           g == new.formatted
<1>1. Len(f) \in Nat /\ Longer(f, g)
  BY LenProperties DEF Grown, Longer
<1> HIDE DEF f, g
<1>2. /\ k < Len(f) \/ ~ (l + 2 <= Len(f))
      /\ k + 2 <= Len(f) \/ ~ (l + 4 <= Len(f))
      /\ k + 4 <= Len(f) \/ ~ (l + 8 <= Len(f))
  BY <1>1
<1>3. /\ IF k < Len(f) THEN _u8(f, k) = _u8(g, k) ELSE _u8(f, k) = None
      /\ IF k + 2 <= Len(f) THEN _u16(f, k) = _u16(g, k) ELSE _u16(f, k) = None
      /\ IF k + 4 <= Len(f) THEN _u32(f, k) = _u32(g, k) ELSE _u32(f, k) = None
  BY <1>1, ReadsOfLonger
<1>4. /\ l + 2 <= Len(f) \/ _u16(f, l) = None
      /\ l + 4 <= Len(f) \/ _u32(f, l) = None
      /\ l + 8 <= Len(f) \/ _u64(f, l) = None
  BY <1>1, ReadsOfLonger
<1> QED
  BY <1>2, <1>3, <1>4 DEF f, g

LEMMA ResolvedFills ==
    ASSUME NEW old, NEW new, NEW nothing, Grown(old, new, nothing),
           NEW k \in Nat, NEW l \in Nat, k < l
    PROVE  LET v(r) == _resolve(_u8(r.formatted, k), _u16(r.formatted, l))
           IN  v(old) = v(new) \/ v(old) = v(nothing) \/ v(old) = 255
BY Reads, ReadsInOrder DEF _resolve, Unless

Family(f) == LET family_8 == Or(_u8(f, 2), 0)
                 family_16 == _u16(f, 36)
             IN  IF family_8 = 254 /\ family_16 # None THEN family_16 ELSE family_8

LEMMA FamilyFills ==
    ASSUME NEW old, NEW new, NEW nothing, Grown(old, new, nothing)
    PROVE  LET v(r) == Family(r.formatted)
           IN  v(old) = v(new) \/ v(old) = v(nothing) \/ v(old) = 254
<1>1. 2 \in Nat /\ 36 \in Nat /\ 2 < 36
  OBVIOUS
<1> QED
  BY <1>1, Reads, ReadsInOrder DEF Family, Or

LEMMA RomSizeFills ==
    ASSUME NEW old, NEW new, NEW nothing, Grown(old, new, nothing)
    PROVE  LET v(r) == _rom_size(_u8(r.formatted, 5), _u16(r.formatted, 20))
           IN  v(old) = v(new) \/ v(old) = v(nothing) \/ v(old) = Size(<< 16 >>, "MB")
<1>1. 5 \in Nat /\ 20 \in Nat /\ 5 < 20
  OBVIOUS
<1>2. _extended_rom_size(None) = Size(<< 16 >>, "MB")
  BY DEF _extended_rom_size
<1> QED
  BY <1>1, <1>2, Reads, ReadsInOrder DEF _rom_size

LEMMA CacheSizeFills ==
    ASSUME NEW old, NEW new, NEW nothing, Grown(old, new, nothing),
           NEW k \in Nat, NEW l \in Nat, k < l
    PROVE  LET v(r) == _decode_cache_size(_u16(r.formatted, k), _u32(r.formatted, l))
           IN  v(old) = v(new) \/ v(old) = v(nothing)
<1>1. \A x : _decode_cache_size(MaxWord, None) = None /\ _decode_cache_size(None, x) = None
  BY DEF _decode_cache_size, MaxWord
<1>2. \A x, y, z : x # MaxWord => _decode_cache_size(x, y) = _decode_cache_size(x, z)
  BY DEF _decode_cache_size
<1> QED
  BY <1>1, <1>2, Reads, ReadsInOrder

LEMMA DeviceSizeFills ==
    ASSUME NEW old, NEW new, NEW nothing, Grown(old, new, nothing)
    PROVE  LET v(r) == _decode_memory_size(_u16(r.formatted, 8), _u32(r.formatted, 24))
           IN  v(old) = v(new) \/ v(old) = v(nothing)
<1>1. 8 \in Nat /\ 24 \in Nat /\ 8 < 24
  OBVIOUS
<1>2. \A x : _decode_memory_size(32767, None) = None /\ _decode_memory_size(None, x) = None
  BY DEF _decode_memory_size, MaxWord
<1>3. \A x, y, z : x # 32767 => _decode_memory_size(x, y) = _decode_memory_size(x, z)
  BY DEF _decode_memory_size
<1> QED
  BY <1>1, <1>2, <1>3, Reads, ReadsInOrder

Capacity(f) ==
    LET kb == _u32(f, 3)
        extended == _u64(f, 11)
    IN  IF kb # None /\ kb # << 0, 32768 >> THEN Size(kb, "KB")
        ELSE IF extended # None /\ extended # Zero(4) THEN Size(extended, "B")
        ELSE None

LEMMA CapacityFills ==
    ASSUME NEW old, NEW new, NEW nothing, Grown(old, new, nothing)
    PROVE  LET v(r) == Capacity(r.formatted)
           IN  v(old) = v(new) \/ v(old) = v(nothing)
<1>1. 3 \in Nat /\ 11 \in Nat /\ 3 < 11
  OBVIOUS
<1> QED
  BY <1>1, Reads, ReadsInOrder DEF Capacity

(***************************************************************************)
(* Slices.                                                                 *)
(***************************************************************************)

\* A slice that lies inside what there was.
LEMMA SliceFills ==
    ASSUME NEW f, NEW g, Longer(f, g), NEW m \in Nat, NEW n \in Nat, m <= n, n <= Len(f)
    PROVE  SafeSlice(f, m, n) = SafeSlice(g, m, n)
<1> DEFINE a == SafeSlice(f, m, n)
           b == SafeSlice(g, m, n)
<1>1. Len(f) \in Nat /\ Len(g) \in Nat /\ Len(f) <= Len(g) /\ f \in Seq(Byte) /\ g \in Seq(Byte)
  BY LenProperties DEF Longer
<1>2. /\ a \in Seq(Byte) /\ Len(a) = n - m /\ \A i \in 1 .. n - m : a[i] = f[m + i]
  BY <1>1, SafeSliceOfBytes
<1> n <= Len(g)
  BY <1>1
<1>3. /\ b \in Seq(Byte) /\ Len(b) = n - m /\ \A i \in 1 .. n - m : b[i] = g[m + i]
  BY <1>1, SafeSliceOfBytes
<1>4. \A i \in 1 .. n - m : m + i \in 1 .. Len(f)
  BY <1>1
<1>5. \A i \in 1 .. n - m : a[i] = b[i]
  BY <1>2, <1>3, <1>4 DEF Longer
<1> HIDE DEF a, b
<1> QED
  BY <1>2, <1>3, <1>5, SeqEqual DEF a, b

\* The BIOS characteristics extension: all there is from a byte on.
LEMMA RestFills ==
    ASSUME NEW f, NEW g, Longer(f, g), NEW m \in Nat
    PROVE  IsPrefix(SafeSlice(f, m, Len(f)), SafeSlice(g, m, Len(g)))
<1> DEFINE a == SafeSlice(f, m, Len(f))
           b == SafeSlice(g, m, Len(g))
<1>1. Len(f) \in Nat /\ Len(g) \in Nat /\ Len(f) <= Len(g) /\ f \in Seq(Byte) /\ g \in Seq(Byte)
  BY LenProperties DEF Longer
<1>2. b \in Seq(Byte) /\ Len(b) \in Nat
  BY <1>1, SafeSliceOfBytes, LenProperties
<1>3. CASE Len(f) <= m
  <2>1. a = << >>
    BY <1>1, <1>3 DEF SafeSlice
  <2> HIDE DEF a, b
  <2>2. Len(a) = 0 /\ SubSeq(a, 1, Len(a)) = << >> /\ SubSeq(b, 1, Len(a)) = << >>
    BY <1>2, <2>1
  <2> QED
    BY <1>2, <2>2 DEF IsPrefix, a, b
<1>4. CASE m < Len(f)
  <2> DEFINE n == Len(f) - m
  <2> m <= Len(f) /\ Len(f) <= Len(f) /\ m <= Len(g) /\ Len(g) <= Len(g)
    BY <1>1, <1>4
  <2>1. /\ a \in Seq(Byte) /\ Len(a) = n /\ \A i \in 1 .. n : a[i] = f[m + i]
    BY <1>1, <1>4, SafeSliceOfBytes
  <2>2. /\ Len(b) = Len(g) - m /\ \A i \in 1 .. Len(g) - m : b[i] = g[m + i]
    BY <1>1, <1>4, SafeSliceOfBytes
  <2>3. n \in Nat /\ n <= Len(g) - m /\ \A i \in 1 .. n : m + i \in 1 .. Len(f)
    BY <1>1, <1>4
  <2>4. ASSUME NEW i \in 1 .. n
        PROVE  a[i] = b[i]
    <3>1. m + i \in 1 .. Len(f) /\ i \in 1 .. Len(g) - m
      BY <1>1, <2>3
    <3>2. g[m + i] = f[m + i]
      BY <3>1 DEF Longer
    <3> HIDE DEF a, b, n
    <3> QED
      BY <2>1, <2>2, <3>1, <3>2
  <2> HIDE DEF a, b, n
  <2>5. n <= Len(b)
    BY <2>2, <2>3
  <2>6. SubSeq(a, 1, n) = SubSeq(b, 1, n)
    BY <1>2, <2>1, <2>3, <2>4, <2>5
  <2> QED
    BY <1>2, <2>1, <2>5, <2>6 DEF IsPrefix, a, b
<1> QED
  BY <1>1, <1>3, <1>4

\* The reads of a structure that is still growing, with the default of a missing field.
LEMMA ReadsTyped ==
    ASSUME NEW old, NEW new, NEW nothing, Grown(old, new, nothing), NEW k \in Nat
    PROVE  LET f == old.formatted
           IN  /\ Or(_u8(f, k), 0) \in Byte /\ Or(_u16(f, k), 0) \in Word
               /\ Or(_u32(f, k), Zero(2)) \in DoubleWord /\ Or(_u64(f, k), Zero(4)) \in QuadWord
               /\ _u8(f, k) \in Opt(Byte) /\ _u16(f, k) \in Opt(Word)
               /\ _u32(f, k) \in Opt(DoubleWord) /\ _u64(f, k) \in Opt(QuadWord)
<1> DEFINE f == old.formatted
<1>1. f \in Seq(Byte)
  BY DEF Grown, Longer
<1> HIDE DEF f
<1>2. /\ _u8(f, k) \in Opt(Byte) /\ _u16(f, k) \in Opt(Word)
      /\ _u32(f, k) \in Opt(DoubleWord) /\ _u64(f, k) \in Opt(QuadWord)
  BY <1>1, Readers
<1>3. 0 \in Byte /\ 0 \in Word /\ Zero(2) \in DoubleWord /\ Zero(4) \in QuadWord
  BY Bytes DEF Zero, DoubleWord, QuadWord
<1> QED
  BY <1>2, <1>3 DEF Or, Opt, f

LEMMA CapacityTyped ==
    ASSUME NEW old, NEW new, NEW nothing, Grown(old, new, nothing)
    PROVE  Capacity(old.formatted) \in Opt(ArraySizes)
<1> DEFINE kb == _u32(old.formatted, 3)
           extended == _u64(old.formatted, 11)
<1>1. kb \in Opt(DoubleWord) /\ extended \in Opt(QuadWord)
  BY ReadsTyped
<1>2. Capacity(old.formatted) =
          IF kb # None /\ kb # Bit31 THEN Size(kb, "KB")
          ELSE IF extended # None /\ extended # Zero(4) THEN Size(extended, "B")
          ELSE None
  BY DEF Capacity, Bit31
<1> HIDE DEF kb, extended
<1>3. kb # None /\ kb # Bit31 => Size(kb, "KB") \in ArraySizes
  BY <1>1, ArrayAmounts DEF Opt
<1>4. extended # None /\ extended # Zero(4) => Size(extended, "B") \in ArraySizes
  BY <1>1, ArrayAmounts DEF Opt
<1> QED
  BY <1>2, <1>3, <1>4 DEF Opt

LEMMA StringsTyped ==
    ASSUME NEW old, NEW new, NEW nothing, Grown(old, new, nothing), NEW k \in Nat
    PROVE  _str(old.strings, Or(_u8(old.formatted, k), 0)) \in Text
<1>1. Or(_u8(old.formatted, k), 0) \in Nat /\ old.strings \in Seq(Text)
  BY ReadsTyped, Bytes DEF Grown, RawStructure
<1> QED
  BY <1>1, Strings

UuidOf(f) == IF Len(f) >= 20 THEN _parse_uuid(SafeSlice(f, 4, 20)) ELSE None

LEMMA UuidTyped ==
    ASSUME NEW f \in Seq(Byte)
    PROVE  UuidOf(f) \in Opt([1 .. 16 -> Byte] \ {Zero(16)})
<1>1. CASE Len(f) < 20
  BY <1>1, LenProperties DEF UuidOf, Opt
<1>2. CASE Len(f) >= 20
  <2> DEFINE b == SafeSlice(f, 4, 20)
             front == << b[4], b[3], b[2], b[1], b[6], b[5], b[8], b[7] >>
             back == SubSeq(b, 9, 16)
             u == front \o back
  <2>1. b \in Seq(Byte) /\ Len(b) = 16
    <3>1. Len(f) \in Nat /\ 4 \in Nat /\ 20 \in Nat /\ 4 <= 20 /\ 20 <= Len(f) /\ 20 - 4 = 16
      BY <1>2, LenProperties
    <3> QED
      BY <3>1, SafeSliceOfBytes
  <2> HIDE DEF b
  <2>2. _parse_uuid(b) = IF b = Zero(16) THEN None ELSE u
    BY <2>1 DEF _parse_uuid
  <2>3. \A i \in 1 .. 16 : b[i] \in Byte
    BY <2>1, ElementOfSeq
  <2>4. front \in Seq(Byte) /\ Len(front) = 8
    BY <2>3
  <2>5. back \in Seq(Byte) /\ Len(back) = 8 /\ \A i \in 1 .. 8 : back[i] = b[8 + i]
    BY <2>1, <2>3
  <2>6. front[1] = b[4] /\ front[2] = b[3] /\ front[3] = b[2] /\ front[4] = b[1]
        /\ front[5] = b[6] /\ front[6] = b[5] /\ front[7] = b[8] /\ front[8] = b[7]
    OBVIOUS
  <2> HIDE DEF front, back
  <2>7. u \in Seq(Byte) /\ Len(u) = 16
        /\ \A i \in 1 .. 16 : u[i] = IF i <= 8 THEN front[i] ELSE back[i - 8]
    <3>1. Len(front) + Len(back) = 16
      BY <2>4, <2>5
    <3>2. /\ u \in Seq(Byte) /\ Len(u) = Len(front) + Len(back)
          /\ \A i \in 1 .. Len(front) + Len(back) :
                u[i] = IF i <= Len(front) THEN front[i] ELSE back[i - Len(front)]
      BY <2>4, <2>5, ConcatProperties
    <3> HIDE DEF u
    <3> QED
      BY <2>4, <3>1, <3>2
  <2> HIDE DEF u
  <2>8. u \in [1 .. 16 -> Byte]
    BY <2>7, LenProperties
  <2>9. u = Zero(16) => b = Zero(16)
    <3>1. SUFFICES ASSUME \A i \in 1 .. 16 : u[i] = 0
                   PROVE  \A i \in 1 .. 16 : b[i] = 0
      BY <2>1, LenProperties DEF Zero
    <3>2. (\A i \in 1 .. 8 : front[i] = 0) /\ \A i \in 1 .. 8 : back[i] = 0
      <4>1. \A i \in 1 .. 8 : i \in 1 .. 16 /\ i + 8 \in 1 .. 16 /\ i + 8 - 8 = i
                              /\ i <= 8 /\ ~ (i + 8 <= 8)
        OBVIOUS
      <4> QED
        BY <2>7, <3>1, <4>1
    <3>3. b[1] = 0 /\ b[2] = 0 /\ b[3] = 0 /\ b[4] = 0 /\ b[5] = 0 /\ b[6] = 0 /\ b[7] = 0
          /\ b[8] = 0
      BY <2>6, <3>2
    <3>4. \A i \in 9 .. 16 : b[i] = 0
      <4>1. \A i \in 9 .. 16 : i - 8 \in 1 .. 8 /\ 8 + (i - 8) = i
        OBVIOUS
      <4> QED
        BY <2>5, <3>2, <4>1
    <3>5. \A i \in 1 .. 16 : i \in {1, 2, 3, 4, 5, 6, 7, 8} \/ i \in 9 .. 16
      OBVIOUS
    <3> QED
      BY <3>3, <3>4, <3>5
  <2> QED
    BY <1>2, <2>2, <2>8, <2>9 DEF UuidOf, Opt, b
<1> QED
  BY <1>1, <1>2, LenProperties

LEMMA UuidFills ==
    ASSUME NEW old, NEW new, NEW nothing, Grown(old, new, nothing)
    PROVE  UuidOf(old.formatted) \in {UuidOf(new.formatted), UuidOf(nothing.formatted)}
<1>1. /\ Longer(old.formatted, new.formatted) /\ Len(old.formatted) \in Nat
      /\ Len(new.formatted) \in Nat /\ nothing.formatted = << >>
  BY LenProperties DEF Grown, Longer
<1>2. CASE Len(old.formatted) >= 20
  <2>1. 4 \in Nat /\ 20 \in Nat /\ 4 <= 20 /\ 20 <= Len(old.formatted)
    BY <1>1, <1>2
  <2>2. SafeSlice(old.formatted, 4, 20) = SafeSlice(new.formatted, 4, 20)
    BY <1>1, <2>1, SliceFills
  <2>3. Len(new.formatted) >= 20
    BY <1>1, <1>2 DEF Longer
  <2> QED
    BY <1>2, <2>2, <2>3 DEF UuidOf
<1>3. CASE Len(old.formatted) < 20
  BY <1>1, <1>3 DEF UuidOf
<1> QED
  BY <1>1, <1>2, <1>3

VendorOf(f) == IF Len(f) >= 4 THEN _rstrip_nul(SafeSlice(f, 0, 4)) ELSE << >>

LEMMA VendorTyped ==
    ASSUME NEW f \in Seq(Byte)
    PROVE  VendorOf(f) \in Seq(Byte)
<1>1. CASE Len(f) < 4
  BY <1>1, LenProperties DEF VendorOf
<1>2. CASE Len(f) >= 4
  <2> DEFINE b == SafeSlice(f, 0, 4)
             Trimmed(n) == /\ n = 0 \/ b[n] # NUL
                        /\ \A i \in n + 1 .. Len(b) : b[i] = NUL
             last == CHOOSE n \in 0 .. Len(b) : Trimmed(n)
  <2>1. b \in Seq(Byte) /\ Len(b) = 4
    <3>1. Len(f) \in Nat /\ 0 \in Nat /\ 4 \in Nat /\ 0 <= 4 /\ 4 <= Len(f) /\ 4 - 0 = 4
      BY <1>2, LenProperties
    <3> QED
      BY <3>1, SafeSliceOfBytes
  <2> HIDE DEF b
  <2>2. VendorOf(f) = SubSeq(b, 1, last)
    BY <1>2 DEF VendorOf, _rstrip_nul, b
  <2>3. \E n \in 0 .. Len(b) : Trimmed(n)
    <3>1. CASE b[4] # NUL
      <4>1. Trimmed(4) /\ 4 \in 0 .. Len(b)
        BY <2>1, <3>1
      <4> QED
        BY <4>1
    <3>2. CASE b[4] = NUL /\ b[3] # NUL
      <4>1. Trimmed(3) /\ 3 \in 0 .. Len(b)
        BY <2>1, <3>2
      <4> QED
        BY <4>1
    <3>3. CASE b[4] = NUL /\ b[3] = NUL /\ b[2] # NUL
      <4>1. Trimmed(2) /\ 2 \in 0 .. Len(b)
        BY <2>1, <3>3
      <4> QED
        BY <4>1
    <3>4. CASE b[4] = NUL /\ b[3] = NUL /\ b[2] = NUL /\ b[1] # NUL
      <4>1. Trimmed(1) /\ 1 \in 0 .. Len(b)
        BY <2>1, <3>4
      <4> QED
        BY <4>1
    <3>5. CASE b[4] = NUL /\ b[3] = NUL /\ b[2] = NUL /\ b[1] = NUL
      <4>1. Trimmed(0) /\ 0 \in 0 .. Len(b)
        BY <2>1, <3>5
      <4> QED
        BY <4>1
    <3> QED
      BY <3>1, <3>2, <3>3, <3>4, <3>5
  <2>4. last \in 0 .. Len(b)
    BY <2>3
  <2> HIDE DEF last
  <2>5. SubSeq(b, 1, last) \in Seq(Byte)
    <3>1. last \in Int /\ 1 \in Int /\ \A i \in 1 .. last : i \in 1 .. Len(b)
      BY <2>1, <2>4
    <3>2. \A i \in 1 .. last : b[i] \in Byte
      BY <2>1, <3>1, ElementOfSeq
    <3> QED
      BY <3>1, <3>2, SubSeqProperties
  <2> QED
    BY <2>2, <2>5
<1> QED
  BY <1>1, <1>2, LenProperties

ProcessorId(f) == IF Len(f) >= 12 THEN SafeSlice(f, 4, 12) ELSE << >>

\* Values of a slice that is there or not.
LEMMA SlicesFill ==
    ASSUME NEW old, NEW new, NEW nothing, Grown(old, new, nothing)
    PROVE  /\ VendorOf(old.formatted) \in {VendorOf(new.formatted), VendorOf(nothing.formatted)}
           /\ ProcessorId(old.formatted)
                 \in {ProcessorId(new.formatted), ProcessorId(nothing.formatted)}
           /\ ProcessorId(old.formatted) \in {<< >>} \cup [1 .. 8 -> Byte]
<1> DEFINE f == old.formatted
           g == new.formatted
<1>1. Longer(f, g) /\ Len(f) \in Nat /\ Len(g) \in Nat /\ nothing.formatted = << >>
  BY LenProperties DEF Grown, Longer
<1> HIDE DEF f, g
<1>2. Len(f) >= 4 => Len(g) >= 4 /\ SafeSlice(f, 0, 4) = SafeSlice(g, 0, 4)
  <2>1. 0 \in Nat /\ 4 \in Nat /\ 0 <= 4 /\ (Len(f) >= 4 => 4 <= Len(f) /\ Len(g) >= 4)
    BY <1>1 DEF Longer
  <2> QED
    BY <1>1, <2>1, SliceFills
<1>3. Len(f) >= 12 => Len(g) >= 12 /\ SafeSlice(f, 4, 12) = SafeSlice(g, 4, 12)
  <2>1. 4 \in Nat /\ 12 \in Nat /\ 4 <= 12 /\ (Len(f) >= 12 => 12 <= Len(f) /\ Len(g) >= 12)
    BY <1>1 DEF Longer
  <2> QED
    BY <1>1, <2>1, SliceFills
<1>4. Len(f) >= 12 => SafeSlice(f, 4, 12) \in [1 .. 8 -> Byte]
  <2>1. 4 \in Nat /\ 12 \in Nat /\ 4 <= 12 /\ f \in Seq(Byte) /\ 12 - 4 = 8
        /\ (Len(f) >= 12 => 12 <= Len(f))
    BY <1>1 DEF Longer
  <2>2. Len(f) >= 12 => SafeSlice(f, 4, 12) \in Seq(Byte) /\ Len(SafeSlice(f, 4, 12)) = 8
    BY <2>1, SafeSliceOfBytes
  <2> QED
    BY <2>2, LenProperties
<1>5. ~ (Len(<< >>) >= 4) /\ ~ (Len(<< >>) >= 12)
  OBVIOUS
<1> QED
  BY <1>1, <1>2, <1>3, <1>4, <1>5 DEF VendorOf, ProcessorId, f, g

LEMMA SkuStays ==
    ASSUME NEW old, NEW new, NEW nothing, Grown(old, new, nothing)
    PROVE  LET at(r) == sku_offset(r.formatted)
           IN  /\ at(old) \in Nat /\ at(new) \in Nat /\ at(nothing) \in Nat
               /\ at(old) < Len(old.formatted) => at(new) = at(old)
<1>1. \A f \in Seq(Byte) : sku_offset(f) \in Nat /\ 17 <= sku_offset(f)
  <2> SUFFICES ASSUME NEW f \in Seq(Byte)
               PROVE  sku_offset(f) \in Nat /\ 17 <= sku_offset(f)
    OBVIOUS
  <2> DEFINE n == Or(_u8(f, 15), 0)
             m == Or(_u8(f, 16), 0)
  <2>1. n \in Nat /\ m \in Nat
    BY Readers, Bytes DEF Or, Opt
  <2>2. sku_offset(f) = 17 + n * m
    BY DEF sku_offset
  <2> HIDE DEF n, m
  <2>3. n * m \in Nat
    BY <2>1
  <2> QED
    BY <2>2, <2>3
<1>2. /\ old.formatted \in Seq(Byte) /\ new.formatted \in Seq(Byte)
      /\ nothing.formatted \in Seq(Byte) /\ Longer(old.formatted, new.formatted)
      /\ Len(old.formatted) \in Nat
  BY LenProperties DEF Grown, Longer, RawStructure
<1>3. ASSUME sku_offset(old.formatted) < Len(old.formatted)
      PROVE  sku_offset(new.formatted) = sku_offset(old.formatted)
  <2>1. 15 \in Nat /\ 16 \in Nat /\ 15 < Len(old.formatted) /\ 16 < Len(old.formatted)
    BY <1>1, <1>2, <1>3
  <2>2. /\ _u8(old.formatted, 15) = _u8(new.formatted, 15)
        /\ _u8(old.formatted, 16) = _u8(new.formatted, 16)
    BY <1>2, <2>1, ReadsOfLonger
  <2> QED
    BY <2>2 DEF sku_offset
<1> QED
  BY <1>1, <1>2, <1>3

Rank(f) == LET rank_byte == _u8(f, 23)
           IN  IF rank_byte = None THEN None ELSE Unless(rank_byte % 16, 0)

(***************************************************************************)
(* The decoders, one by one: the types of the fields, and the record built *)
(* as the decoder builds it.                                               *)
(***************************************************************************)

SystemSlotTypes ==
    [handle |-> Word, designation |-> Text, type |-> Byte, bus_width |-> Byte,
     current_usage |-> Byte, length |-> Byte, slot_id |-> Word,
     characteristics_1 |-> Byte, characteristics_2 |-> Byte,
     segment_group |-> Opt(Word), bus_number |-> Opt(Byte),
     device_function |-> Opt(Byte)]

LEMMA SystemSlotFields ==
    ASSUME NEW d, Part(d, SystemSlotTypes, DOMAIN SystemSlotTypes)
    PROVE  d \in SystemSlot
BY DEF Part, Typed, SystemSlotTypes, SystemSlot

LEMMA SystemSlotGrows ==
    ASSUME NEW old, NEW new, NEW nothing, Grown(old, new, nothing)
    PROVE  Growing(parse_system_slot(old), parse_system_slot(new), parse_system_slot(nothing),
                   SystemSlotTypes, DOMAIN SystemSlotTypes)
<1> DEFINE types == SystemSlotTypes
           strings == [designation |-> 0]
           bytes == [type |-> 1, bus_width |-> 2, current_usage |-> 3, length |-> 4,
                     characteristics_1 |-> 7, characteristics_2 |-> 8]
           words == [slot_id |-> 5]
           optional_words == [segment_group |-> 9]
           optional_bytes == [bus_number |-> 11, device_function |-> 12]
           names == {"handle"} \cup DOMAIN strings \cup DOMAIN bytes \cup DOMAIN words
                        \cup DOMAIN optional_words \cup DOMAIN optional_bytes
           d(r) == parse_system_slot(r)
<1>1. /\ Places(strings, types, Text)
      /\ Places(bytes, types, Byte)
      /\ Places(words, types, Word)
      /\ Places(optional_words, types, Opt(Word \ {None}))
      /\ Places(optional_bytes, types, Opt(Byte \ {None}))
  BY DEF Places, Opt, SystemSlotTypes
<1>2. "handle" \in DOMAIN types /\ types.handle = Word /\ DOMAIN types = names
  BY DEF SystemSlotTypes
<1>3. \A r : d(r) = Handle(r) ++ StringFields(r, strings) ++ ByteFields(r, bytes)
                     ++ WordFields(r, words) ++ OptionalWords(r, optional_words, None)
                     ++ OptionalBytes(r, optional_bytes, None)
  BY DEF parse_system_slot
<1> HIDE DEF types, strings, bytes, words, optional_words, optional_bytes, d
<1>4. Growing(d(old), d(new), d(nothing), types, names)
  BY <1>1, <1>2, <1>3, GrowingUnion, GrowingHandle, GrowingFields, GrowingOptionalFields
<1> QED
  BY <1>2, <1>4 DEF types, d

BaseboardInfoTypes ==
    [handle |-> Word, manufacturer |-> Text, product |-> Text, version |-> Text,
     serial_number |-> Text, asset_tag |-> Text, location_in_chassis |-> Text,
     feature_flags |-> Byte, board_type |-> Byte, chassis_handle |-> Word]

LEMMA BaseboardInfoFields ==
    ASSUME NEW d, Part(d, BaseboardInfoTypes, DOMAIN BaseboardInfoTypes)
    PROVE  d \in BaseboardInfo
BY DEF Part, Typed, BaseboardInfoTypes, BaseboardInfo

LEMMA BaseboardInfoGrows ==
    ASSUME NEW old, NEW new, NEW nothing, Grown(old, new, nothing)
    PROVE  Growing(parse_baseboard(old), parse_baseboard(new), parse_baseboard(nothing),
                   BaseboardInfoTypes, DOMAIN BaseboardInfoTypes)
<1> DEFINE types == BaseboardInfoTypes
           strings == [manufacturer |-> 0, product |-> 1, version |-> 2,
                       serial_number |-> 3, asset_tag |-> 4, location_in_chassis |-> 6]
           bytes == [feature_flags |-> 5, board_type |-> 9]
           words == [chassis_handle |-> 7]
           names == {"handle"} \cup DOMAIN strings \cup DOMAIN bytes \cup DOMAIN words
           d(r) == parse_baseboard(r)
<1>1. /\ Places(strings, types, Text)
      /\ Places(bytes, types, Byte)
      /\ Places(words, types, Word)
  BY DEF Places, Opt, BaseboardInfoTypes
<1>2. "handle" \in DOMAIN types /\ types.handle = Word /\ DOMAIN types = names
  BY DEF BaseboardInfoTypes
<1>3. \A r : d(r) = Handle(r) ++ StringFields(r, strings) ++ ByteFields(r, bytes)
                     ++ WordFields(r, words)
  BY DEF parse_baseboard
<1> HIDE DEF types, strings, bytes, words, d
<1>4. Growing(d(old), d(new), d(nothing), types, names)
  BY <1>1, <1>2, <1>3, GrowingUnion, GrowingHandle, GrowingFields
<1> QED
  BY <1>2, <1>4 DEF types, d

SystemInfoTypes ==
    [handle |-> Word, manufacturer |-> Text, product_name |-> Text, version |-> Text,
     serial_number |-> Text, sku_number |-> Text, family |-> Text,
     wake_up_type |-> Byte, uuid |-> Opt([1 .. 16 -> Byte] \ {Zero(16)})]

LEMMA SystemInfoFields ==
    ASSUME NEW d, Part(d, SystemInfoTypes, DOMAIN SystemInfoTypes)
    PROVE  d \in SystemInfo
BY DEF Part, Typed, SystemInfoTypes, SystemInfo

LEMMA SystemInfoGrows ==
    ASSUME NEW old, NEW new, NEW nothing, Grown(old, new, nothing)
    PROVE  Growing(parse_system(old), parse_system(new), parse_system(nothing),
                   SystemInfoTypes, DOMAIN SystemInfoTypes)
<1> DEFINE types == SystemInfoTypes
           strings == [manufacturer |-> 0, product_name |-> 1, version |-> 2,
                       serial_number |-> 3, sku_number |-> 21, family |-> 22]
           bytes == [wake_up_type |-> 20]
           rest(r) == [uuid |-> UuidOf(r.formatted)]
           names == {"handle"} \cup DOMAIN strings \cup DOMAIN bytes \cup {"uuid"}
           d(r) == parse_system(r)
<1>1. /\ Places(strings, types, Text)
      /\ Places(bytes, types, Byte)
  BY DEF Places, Opt, SystemInfoTypes
<1>2. "handle" \in DOMAIN types /\ types.handle = Word /\ DOMAIN types = names
  BY DEF SystemInfoTypes
<1>3. \A r : d(r) = Handle(r) ++ StringFields(r, strings) ++ ByteFields(r, bytes)
                     ++ rest(r)
  BY DEF parse_system, UuidOf
<1>4. Growing(rest(old), rest(new), rest(nothing), types, {"uuid"})
  <2>1. UuidOf(old.formatted) \in types.uuid
    BY UuidTyped DEF Grown, Longer, SystemInfoTypes
  <2>2. UuidOf(old.formatted) \in {UuidOf(new.formatted), UuidOf(nothing.formatted)}
    BY UuidFills
  <2>3. "uuid" \in DOMAIN types
    BY DEF SystemInfoTypes
  <2> HIDE DEF types
  <2> QED
    BY <2>1, <2>2, <2>3 DEF Growing, Part, Typed, Fills, Fine
<1> HIDE DEF types, strings, bytes, rest, d
<1>5. Growing(d(old), d(new), d(nothing), types, names)
  BY <1>1, <1>2, <1>3, <1>4, GrowingUnion, GrowingHandle, GrowingFields
<1> QED
  BY <1>2, <1>5 DEF types, d

IPMIDeviceTypes ==
    [handle |-> Word, interface_type |-> Byte, spec_version_major |-> 0 .. 15,
     spec_version_minor |-> 0 .. 15, i2c_slave_address |-> Byte,
     nv_storage_address |-> Byte, base_address |-> QuadWord,
     base_address_modifier |-> Byte, interrupt_number |-> Byte]

LEMMA IPMIDeviceFields ==
    ASSUME NEW d, Part(d, IPMIDeviceTypes, DOMAIN IPMIDeviceTypes)
    PROVE  d \in IPMIDevice
BY DEF Part, Typed, IPMIDeviceTypes, IPMIDevice

LEMMA IPMIDeviceGrows ==
    ASSUME NEW old, NEW new, NEW nothing, Grown(old, new, nothing)
    PROVE  Growing(parse_ipmi_device(old), parse_ipmi_device(new), parse_ipmi_device(nothing),
                   IPMIDeviceTypes, DOMAIN IPMIDeviceTypes)
<1> DEFINE types == IPMIDeviceTypes
           bytes == [interface_type |-> 0, i2c_slave_address |-> 2,
                     nv_storage_address |-> 3, base_address_modifier |-> 12,
                     interrupt_number |-> 13]
           spec_byte(r) == Or(_u8(r.formatted, 1), 0)
           rest(r) == [spec_version_major |-> spec_byte(r) \div 16,
                       spec_version_minor |-> spec_byte(r) % 16,
                       base_address |-> Or(_u64(r.formatted, 4), Zero(4))]
           names == {"handle"} \cup DOMAIN bytes
                        \cup {"spec_version_major", "spec_version_minor", "base_address"}
           d(r) == parse_ipmi_device(r)
<1>1. Places(bytes, types, Byte)
  BY DEF Places, Opt, IPMIDeviceTypes
<1>2. "handle" \in DOMAIN types /\ types.handle = Word /\ DOMAIN types = names
  BY DEF IPMIDeviceTypes
<1>3. \A r : d(r) = Handle(r) ++ ByteFields(r, bytes) ++ rest(r)
  BY DEF parse_ipmi_device
<1>4. Growing(rest(old), rest(new), rest(nothing), types, 
              {"spec_version_major", "spec_version_minor", "base_address"})
  <2>1. spec_byte(old) \div 16 \in 0 .. 15 /\ spec_byte(old) % 16 \in 0 .. 15
    <3>1. spec_byte(old) \in Byte
      BY ReadsTyped
    <3>2. \A b \in Byte : b \div 16 \in 0 .. 15 /\ b % 16 \in 0 .. 15
      BY ByteRange
    <3> HIDE DEF spec_byte
    <3> QED
      BY <3>1, <3>2
  <2>2. Or(_u64(old.formatted, 4), Zero(4)) \in QuadWord
    BY ReadsTyped
  <2>3. \A x \in DOMAIN rest(old) : x \in DOMAIN types /\ rest(old)[x] \in types[x]
    <3> HIDE DEF spec_byte
    <3> QED
      BY <2>1, <2>2 DEF IPMIDeviceTypes
  <2>4. /\ spec_byte(old) \in {spec_byte(new), spec_byte(nothing)}
        /\ _u64(old.formatted, 4) \in {_u64(new.formatted, 4), _u64(nothing.formatted, 4)}
    BY Reads
  <2> HIDE DEF types, spec_byte
  <2> QED
    BY <2>3, <2>4 DEF Growing, Part, Typed, Fills, Fine
<1> HIDE DEF types, bytes, rest, d
<1>5. Growing(d(old), d(new), d(nothing), types, names)
  BY <1>1, <1>2, <1>3, <1>4, GrowingUnion, GrowingHandle, GrowingFields
<1> QED
  BY <1>2, <1>5 DEF types, d

MemoryArrayTypes ==
    [handle |-> Word, location |-> Byte, use |-> Byte, error_correction |-> Byte,
     error_info_handle |-> Word, device_count |-> Word,
     max_capacity_bytes |-> Opt(ArraySizes)]

LEMMA MemoryArrayFields ==
    ASSUME NEW d, Part(d, MemoryArrayTypes, DOMAIN MemoryArrayTypes)
    PROVE  d \in MemoryArray
BY DEF Part, Typed, MemoryArrayTypes, MemoryArray

LEMMA MemoryArrayGrows ==
    ASSUME NEW old, NEW new, NEW nothing, Grown(old, new, nothing)
    PROVE  Growing(parse_memory_array(old), parse_memory_array(new), parse_memory_array(nothing),
                   MemoryArrayTypes, DOMAIN MemoryArrayTypes)
<1> DEFINE types == MemoryArrayTypes
           bytes == [location |-> 0, use |-> 1, error_correction |-> 2]
           words == [error_info_handle |-> 7, device_count |-> 9]
           rest(r) == [max_capacity_bytes |-> Capacity(r.formatted)]
           names == {"handle"} \cup DOMAIN bytes \cup DOMAIN words
                        \cup {"max_capacity_bytes"}
           d(r) == parse_memory_array(r)
<1>1. /\ Places(bytes, types, Byte)
      /\ Places(words, types, Word)
  BY DEF Places, Opt, MemoryArrayTypes
<1>2. "handle" \in DOMAIN types /\ types.handle = Word /\ DOMAIN types = names
  BY DEF MemoryArrayTypes
<1>3. \A r : d(r) = Handle(r) ++ ByteFields(r, bytes) ++ WordFields(r, words) ++ rest(r)
  BY DEF parse_memory_array, Capacity
<1>4. Growing(rest(old), rest(new), rest(nothing), types, {"max_capacity_bytes"})
  <2>1. Capacity(old.formatted) \in types.max_capacity_bytes
    BY CapacityTyped DEF MemoryArrayTypes
  <2>2. Capacity(old.formatted) \in {Capacity(new.formatted), Capacity(nothing.formatted)}
    BY CapacityFills
  <2>3. "max_capacity_bytes" \in DOMAIN types
    BY DEF MemoryArrayTypes
  <2> HIDE DEF types
  <2> QED
    BY <2>1, <2>2, <2>3 DEF Growing, Part, Typed, Fills, Fine
<1> HIDE DEF types, bytes, words, rest, d
<1>5. Growing(d(old), d(new), d(nothing), types, names)
  BY <1>1, <1>2, <1>3, <1>4, GrowingUnion, GrowingHandle, GrowingFields
<1> QED
  BY <1>2, <1>5 DEF types, d

CacheInfoTypes ==
    [handle |-> Word, socket_designation |-> Text, configuration |-> Word,
     max_size_bytes |-> Opt(CacheSizes), installed_size_bytes |-> Opt(CacheSizes),
     supported_sram_types |-> Word, current_sram_type |-> Word,
     speed_nanoseconds |-> Opt(Positive(Byte)), error_correction |-> Byte,
     system_cache_type |-> Byte, associativity |-> Byte]

LEMMA CacheInfoFields ==
    ASSUME NEW d, Part(d, CacheInfoTypes, DOMAIN CacheInfoTypes)
    PROVE  d \in CacheInfo
BY DEF Part, Typed, CacheInfoTypes, CacheInfo

LEMMA CacheInfoGrows ==
    ASSUME NEW old, NEW new, NEW nothing, Grown(old, new, nothing)
    PROVE  Growing(parse_cache(old), parse_cache(new), parse_cache(nothing),
                   CacheInfoTypes, DOMAIN CacheInfoTypes)
<1> DEFINE types == CacheInfoTypes
           strings == [socket_designation |-> 0]
           bytes == [error_correction |-> 12, system_cache_type |-> 13,
                     associativity |-> 14]
           words == [configuration |-> 1, supported_sram_types |-> 7,
                     current_sram_type |-> 9]
           optional_bytes == [speed_nanoseconds |-> 11]
           size(r, k, l) == _decode_cache_size(_u16(r.formatted, k), _u32(r.formatted, l))
           rest(r) == [max_size_bytes |-> size(r, 3, 15), installed_size_bytes |-> size(r, 5, 19)]
           names == {"handle"} \cup DOMAIN strings \cup DOMAIN bytes \cup DOMAIN words
                        \cup DOMAIN optional_bytes
                        \cup {"max_size_bytes", "installed_size_bytes"}
           d(r) == parse_cache(r)
<1>1. /\ Places(strings, types, Text)
      /\ Places(bytes, types, Byte)
      /\ Places(words, types, Word)
      /\ Places(optional_bytes, types, Opt(Byte \ {0}))
  BY DEF Places, Opt, Positive, CacheInfoTypes
<1>2. "handle" \in DOMAIN types /\ types.handle = Word /\ DOMAIN types = names
  BY DEF CacheInfoTypes
<1>3. \A r : d(r) = Handle(r) ++ StringFields(r, strings) ++ ByteFields(r, bytes)
                     ++ WordFields(r, words) ++ OptionalBytes(r, optional_bytes, 0)
                     ++ rest(r)
  BY DEF parse_cache
<1>4. Growing(rest(old), rest(new), rest(nothing), types, 
              {"max_size_bytes", "installed_size_bytes"})
  <2>1. /\ size(old, 3, 15) \in types.max_size_bytes
        /\ size(old, 5, 19) \in types.installed_size_bytes
    BY ReadsTyped, CacheSize DEF CacheInfoTypes
  <2>2. /\ size(old, 3, 15) \in {size(new, 3, 15), size(nothing, 3, 15)}
        /\ size(old, 5, 19) \in {size(new, 5, 19), size(nothing, 5, 19)}
    <3>1. 3 \in Nat /\ 15 \in Nat /\ 3 < 15 /\ 5 \in Nat /\ 19 \in Nat /\ 5 < 19
      OBVIOUS
    <3> QED
      BY <3>1, CacheSizeFills
  <2>3. "max_size_bytes" \in DOMAIN types /\ "installed_size_bytes" \in DOMAIN types
    BY DEF CacheInfoTypes
  <2> HIDE DEF types, size
  <2> QED
    BY <2>1, <2>2, <2>3 DEF Growing, Part, Typed, Fills, Fine
<1> HIDE DEF types, strings, bytes, words, optional_bytes, rest, d
<1>5. Growing(d(old), d(new), d(nothing), types, names)
  BY <1>1, <1>2, <1>3, <1>4, GrowingUnion, GrowingHandle, GrowingFields, GrowingOptionalFields
<1> QED
  BY <1>2, <1>5 DEF types, d

TPMDeviceTypes ==
    [handle |-> Word, description |-> Text, spec_major |-> Byte, spec_minor |-> Byte,
     vendor_id |-> Seq(Byte), firmware_version_1 |-> DoubleWord,
     firmware_version_2 |-> DoubleWord, characteristics |-> QuadWord]

LEMMA TPMDeviceFields ==
    ASSUME NEW d, Part(d, TPMDeviceTypes, DOMAIN TPMDeviceTypes)
    PROVE  d \in TPMDevice
BY DEF Part, Typed, TPMDeviceTypes, TPMDevice

LEMMA TPMDeviceGrows ==
    ASSUME NEW old, NEW new, NEW nothing, Grown(old, new, nothing)
    PROVE  Growing(parse_tpm_device(old), parse_tpm_device(new), parse_tpm_device(nothing),
                   TPMDeviceTypes, DOMAIN TPMDeviceTypes)
<1> DEFINE types == TPMDeviceTypes
           strings == [description |-> 14]
           bytes == [spec_major |-> 4, spec_minor |-> 5]
           rest(r) == [vendor_id |-> VendorOf(r.formatted),
                       firmware_version_1 |-> Or(_u32(r.formatted, 6), Zero(2)),
                       firmware_version_2 |-> Or(_u32(r.formatted, 10), Zero(2)),
                       characteristics |-> Or(_u64(r.formatted, 15), Zero(4))]
           names == {"handle"} \cup DOMAIN strings \cup DOMAIN bytes
                        \cup {"vendor_id", "firmware_version_1", "firmware_version_2", "characteristics"}
           d(r) == parse_tpm_device(r)
<1>1. /\ Places(strings, types, Text)
      /\ Places(bytes, types, Byte)
  BY DEF Places, Opt, TPMDeviceTypes
<1>2. "handle" \in DOMAIN types /\ types.handle = Word /\ DOMAIN types = names
  BY DEF TPMDeviceTypes
<1>3. \A r : d(r) = Handle(r) ++ StringFields(r, strings) ++ ByteFields(r, bytes)
                     ++ rest(r)
  BY DEF parse_tpm_device, VendorOf
<1>4. Growing(rest(old), rest(new), rest(nothing), types, 
              {"vendor_id", "firmware_version_1", "firmware_version_2", "characteristics"})
  <2>1. /\ VendorOf(old.formatted) \in Seq(Byte)
        /\ Or(_u32(old.formatted, 6), Zero(2)) \in DoubleWord
        /\ Or(_u32(old.formatted, 10), Zero(2)) \in DoubleWord
        /\ Or(_u64(old.formatted, 15), Zero(4)) \in QuadWord
    BY ReadsTyped, VendorTyped DEF Grown, Longer
  <2>2. \A x \in DOMAIN rest(old) : x \in DOMAIN types /\ rest(old)[x] \in types[x]
    BY <2>1 DEF TPMDeviceTypes
  <2>3. /\ VendorOf(old.formatted) \in {VendorOf(new.formatted), VendorOf(nothing.formatted)}
        /\ _u32(old.formatted, 6) \in {_u32(new.formatted, 6), _u32(nothing.formatted, 6)}
        /\ _u32(old.formatted, 10) \in {_u32(new.formatted, 10), _u32(nothing.formatted, 10)}
        /\ _u64(old.formatted, 15) \in {_u64(new.formatted, 15), _u64(nothing.formatted, 15)}
    <3>1. VendorOf(old.formatted) \in {VendorOf(new.formatted), VendorOf(nothing.formatted)}
      BY SlicesFill
    <3>2. \A k \in Nat :
             /\ _u32(old.formatted, k) \in {_u32(new.formatted, k), _u32(nothing.formatted, k)}
             /\ _u64(old.formatted, k) \in {_u64(new.formatted, k), _u64(nothing.formatted, k)}
      BY Reads
    <3>3. 6 \in Nat /\ 10 \in Nat /\ 15 \in Nat
      OBVIOUS
    <3> QED
      BY <3>1, <3>2, <3>3
  <2> HIDE DEF types
  <2> QED
    BY <2>2, <2>3 DEF Growing, Part, Typed, Fills, Fine
<1> HIDE DEF types, strings, bytes, rest, d
<1>5. Growing(d(old), d(new), d(nothing), types, names)
  BY <1>1, <1>2, <1>3, <1>4, GrowingUnion, GrowingHandle, GrowingFields
<1> QED
  BY <1>2, <1>5 DEF types, d

ChassisInfoTypes ==
    [handle |-> Word, manufacturer |-> Text, type |-> 0 .. 127,
     type_locked |-> BOOLEAN, version |-> Text, serial_number |-> Text,
     asset_tag |-> Text, bootup_state |-> Byte, power_supply_state |-> Byte,
     thermal_state |-> Byte, security_status |-> Byte,
     height_u |-> Opt(Positive(Byte)), power_cords |-> Opt(Positive(Byte)),
     sku_number |-> Text]

LEMMA ChassisInfoFields ==
    ASSUME NEW d, Part(d, ChassisInfoTypes, DOMAIN ChassisInfoTypes)
    PROVE  d \in ChassisInfo
BY DEF Part, Typed, ChassisInfoTypes, ChassisInfo

LEMMA ChassisInfoGrows ==
    ASSUME NEW old, NEW new, NEW nothing, Grown(old, new, nothing)
    PROVE  Growing(parse_chassis(old), parse_chassis(new), parse_chassis(nothing),
                   ChassisInfoTypes, DOMAIN ChassisInfoTypes)
<1> DEFINE types == ChassisInfoTypes
           at(r) == [manufacturer |-> 0, version |-> 2, serial_number |-> 3, asset_tag |-> 4,
                     sku_number |-> sku_offset(r.formatted)]
           strings(r) == StringFields(r, at(r))
           bytes == [bootup_state |-> 5, power_supply_state |-> 6, thermal_state |-> 7,
                     security_status |-> 8]
           optional_bytes == [height_u |-> 13, power_cords |-> 14]
           type_byte(r) == Or(_u8(r.formatted, 1), 0)
           locked(r) == type_byte(r) >= 128
           rest(r) == [type |-> type_byte(r) % 128, type_locked |-> locked(r)]
           names == {"handle"}
                        \cup {"manufacturer", "version", "serial_number", "asset_tag", "sku_number"}
                        \cup DOMAIN bytes \cup DOMAIN optional_bytes
                        \cup {"type", "type_locked"}
           d(r) == parse_chassis(r)
<1>1. /\ Places(bytes, types, Byte)
      /\ Places(optional_bytes, types, Opt(Byte \ {0}))
  BY DEF Places, Opt, Positive, ChassisInfoTypes
<1>2. "handle" \in DOMAIN types /\ types.handle = Word /\ DOMAIN types = names
  BY DEF ChassisInfoTypes
<1>3. \A r : d(r) = Handle(r) ++ strings(r) ++ ByteFields(r, bytes)
                     ++ OptionalBytes(r, optional_bytes, 0) ++ rest(r)
  BY DEF parse_chassis
<1>4. Growing(rest(old), rest(new), rest(nothing), types, {"type", "type_locked"})
  <2>1. type_byte(old) % 128 \in 0 .. 127 /\ locked(old) \in BOOLEAN
    <3>1. type_byte(old) \in Byte
      BY ReadsTyped
    <3>2. \A b \in Byte : b % 128 \in 0 .. 127
      BY ByteRange
    <3> HIDE DEF type_byte
    <3> QED
      BY <3>1, <3>2
  <2>2. \A x \in DOMAIN rest(old) : x \in DOMAIN types /\ rest(old)[x] \in types[x]
    <3> HIDE DEF type_byte, locked
    <3> QED
      BY <2>1 DEF ChassisInfoTypes
  <2>3. type_byte(old) \in {type_byte(new), type_byte(nothing)}
    BY Reads
  <2> HIDE DEF types, type_byte
  <2> QED
    BY <2>2, <2>3 DEF Growing, Part, Typed, Fills, Fine
<1>5. Growing(strings(old), strings(new), strings(nothing), types,
              {"manufacturer", "version", "serial_number", "asset_tag", "sku_number"})
  <2>1. /\ sku_offset(old.formatted) \in Nat
        /\ Stays(at(old), at(new), at(nothing), Len(old.formatted))
    <3>1. /\ sku_offset(old.formatted) \in Nat /\ sku_offset(new.formatted) \in Nat
          /\ sku_offset(nothing.formatted) \in Nat
          /\ sku_offset(old.formatted) < Len(old.formatted) =>
                 sku_offset(new.formatted) = sku_offset(old.formatted)
      BY SkuStays
    <3> QED
      BY <3>1 DEF Stays
  <2>2. Places(at(old), types, Text)
    BY <2>1 DEF Places, ChassisInfoTypes
  <2>3. DOMAIN at(old) = {"manufacturer", "version", "serial_number", "asset_tag", "sku_number"}
    OBVIOUS
  <2>4. old \in RawStructure
    BY DEF Grown
  <2> HIDE DEF types, at
  <2> QED
    BY <2>1, <2>2, <2>3, <2>4, TypedStrings, FillsMovingStrings DEF Growing
<1> HIDE DEF types, strings, bytes, optional_bytes, rest, d
<1>6. Growing(d(old), d(new), d(nothing), types, names)
  BY <1>1, <1>2, <1>3, <1>4, <1>5, GrowingUnion, GrowingHandle, GrowingFields, GrowingOptionalFields
<1> QED
  BY <1>2, <1>6 DEF types, d

BIOSInfoTypes ==
    [handle |-> Word, vendor |-> Text, version |-> Text,
     release_date |-> Opt(SomeDate), release_date_raw |-> Text,
     rom_size_bytes |-> Opt(ROMSizes), bios_major |-> Opt(Byte),
     bios_minor |-> Opt(Byte), ec_major |-> Opt(Byte), ec_minor |-> Opt(Byte),
     characteristics |-> QuadWord, characteristics_extension |-> Seq(Byte)]

LEMMA BIOSInfoFields ==
    ASSUME NEW d, Part(d, BIOSInfoTypes, DOMAIN BIOSInfoTypes)
    PROVE  d \in BIOSInfo
BY DEF Part, Typed, BIOSInfoTypes, BIOSInfo

LEMMA BIOSInfoGrows ==
    ASSUME NEW old, NEW new, NEW nothing, Grown(old, new, nothing)
    PROVE  Growing(parse_bios(old), parse_bios(new), parse_bios(nothing),
                   BIOSInfoTypes, DOMAIN BIOSInfoTypes)
<1> DEFINE types == BIOSInfoTypes
           strings == [vendor |-> 0, version |-> 1]
           optional_bytes == [bios_major |-> 16, bios_minor |-> 17, ec_major |-> 18,
                              ec_minor |-> 19]
           date(r) == _str(r.strings, Or(_u8(r.formatted, 4), 0))
           rom_size(r) == _rom_size(_u8(r.formatted, 5), _u16(r.formatted, 20))
           extension(r) == SafeSlice(r.formatted, 14, Len(r.formatted))
           rest(r) == [release_date_raw |-> date(r),
                       release_date |-> _parse_bios_release_date(date(r)),
                       rom_size_bytes |-> rom_size(r),
                       characteristics |-> Or(_u64(r.formatted, 6), Zero(4)),
                       characteristics_extension |-> extension(r)]
           names == {"handle"} \cup DOMAIN strings \cup DOMAIN optional_bytes
                        \cup DOMAIN rest(old)
           d(r) == parse_bios(r)
<1>1. /\ Places(strings, types, Text)
      /\ Places(optional_bytes, types, Opt(Byte \ {None}))
  BY DEF Places, Opt, BIOSInfoTypes
<1>2. "handle" \in DOMAIN types /\ types.handle = Word /\ DOMAIN types = names
  BY DEF BIOSInfoTypes
<1>3. \A r : d(r) = Handle(r) ++ StringFields(r, strings)
                     ++ OptionalBytes(r, optional_bytes, None) ++ rest(r)
  BY DEF parse_bios
<1>4. Growing(rest(old), rest(new), rest(nothing), types, DOMAIN rest(old))
  <2>1. /\ date(old) \in Text
        /\ _parse_bios_release_date(date(old)) \in Opt(SomeDate)
        /\ rom_size(old) \in Opt(ROMSizes)
        /\ Or(_u64(old.formatted, 6), Zero(4)) \in QuadWord
    BY ReadsTyped, StringsTyped, ReleaseDateParsed, RomSize
  <2>2. /\ Longer(old.formatted, new.formatted)
        /\ old.formatted \in Seq(Byte) /\ Len(old.formatted) \in Nat /\ 14 \in Nat
    BY LenProperties DEF Grown, Longer
  <2>3. extension(old) \in Seq(Byte)
    BY <2>2, SafeSliceOfBytes
  <2>4. \A x \in DOMAIN rest(old) : x \in DOMAIN types /\ rest(old)[x] \in types[x]
    <3> HIDE DEF date, rom_size, extension
    <3> QED
      BY <2>1, <2>3 DEF BIOSInfoTypes
  <2>5. /\ date(old) \in {date(new), date(nothing)}
        /\ _u64(old.formatted, 6) \in {_u64(new.formatted, 6), _u64(nothing.formatted, 6)}
    <3>1. new.strings = old.strings /\ nothing.strings = old.strings
      BY DEF Grown
    <3> QED
      BY <3>1, Reads
  <2>6. \/ rom_size(old) \in {rom_size(new), rom_size(nothing)}
        \/ rom_size(old) = Size(<< 16 >>, "MB")
    BY RomSizeFills
  <2>7. IsPrefix(extension(old), extension(new))
    BY <2>2, RestFills
  <2> HIDE DEF types, date, rom_size, extension
  <2> QED
    BY <2>4, <2>5, <2>6, <2>7 DEF Growing, Part, Typed, Fills, Fine
<1> HIDE DEF types, strings, optional_bytes, rest, d
<1>5. Growing(d(old), d(new), d(nothing), types, names)
  BY <1>1, <1>2, <1>3, <1>4, GrowingUnion, GrowingHandle, GrowingFields, GrowingOptionalFields
<1> QED
  BY <1>2, <1>5 DEF types, d

ProcessorInfoTypes ==
    [handle |-> Word, socket_designation |-> Text, type |-> Byte, family |-> Word,
     manufacturer |-> Text, processor_id |-> {<< >>} \cup [1 .. 8 -> Byte],
     version |-> Text, voltage_raw |-> Byte, external_clock_mhz |-> Speed,
     max_speed_mhz |-> Speed, current_speed_mhz |-> Speed, status |-> Byte,
     upgrade |-> Byte, l1_cache_handle |-> CacheHandle,
     l2_cache_handle |-> CacheHandle, l3_cache_handle |-> CacheHandle,
     serial_number |-> Text, asset_tag |-> Text, part_number |-> Text,
     core_count |-> Opt(Word), cores_enabled |-> Opt(Word), thread_count |-> Opt(Word),
     threads_enabled |-> Opt(Positive(Word)), characteristics |-> Word]

LEMMA ProcessorInfoFields ==
    ASSUME NEW d, Part(d, ProcessorInfoTypes, DOMAIN ProcessorInfoTypes)
    PROVE  d \in ProcessorInfo
BY DEF Part, Typed, ProcessorInfoTypes, ProcessorInfo

LEMMA ProcessorInfoGrows ==
    ASSUME NEW old, NEW new, NEW nothing, Grown(old, new, nothing)
    PROVE  Growing(parse_processor(old), parse_processor(new), parse_processor(nothing),
                   ProcessorInfoTypes, DOMAIN ProcessorInfoTypes)
<1> DEFINE types == ProcessorInfoTypes
           strings == [socket_designation |-> 0, manufacturer |-> 3, version |-> 12,
                       serial_number |-> 28, asset_tag |-> 29, part_number |-> 30]
           bytes == [type |-> 1, voltage_raw |-> 13, status |-> 20, upgrade |-> 21]
           words == [characteristics |-> 34]
           optional_words == [external_clock_mhz |-> 14, max_speed_mhz |-> 16,
                              current_speed_mhz |-> 18, threads_enabled |-> 44]
           handles == [l1_cache_handle |-> 22, l2_cache_handle |-> 24,
                       l3_cache_handle |-> 26]
           count(r, k, l) == _resolve(_u8(r.formatted, k), _u16(r.formatted, l))
           rest(r) == [family |-> Family(r.formatted), processor_id |-> ProcessorId(r.formatted),
                       core_count |-> count(r, 31, 38), cores_enabled |-> count(r, 32, 40),
                       thread_count |-> count(r, 33, 42)]
           names == {"handle"} \cup DOMAIN strings \cup DOMAIN bytes \cup DOMAIN words
                        \cup DOMAIN optional_words \cup DOMAIN handles
                        \cup DOMAIN rest(old)
           d(r) == parse_processor(r)
<1>1. /\ Places(strings, types, Text)
      /\ Places(bytes, types, Byte)
      /\ Places(words, types, Word)
      /\ Places(optional_words, types, Opt(Word \ {0}))
      /\ Places(handles, types, Opt(Word \ {MaxWord}))
  BY SMTT(30) DEF Places, Opt, Positive, CacheHandle, Speed, ProcessorInfoTypes
<1>2. "handle" \in DOMAIN types /\ types.handle = Word /\ DOMAIN types = names
  BY DEF ProcessorInfoTypes
<1>3. \A r : d(r) = Handle(r) ++ StringFields(r, strings) ++ ByteFields(r, bytes)
                     ++ WordFields(r, words) ++ OptionalWords(r, optional_words, 0)
                     ++ OptionalWords(r, handles, MaxWord) ++ rest(r)
  BY DEF parse_processor, Family, ProcessorId
<1>4. Growing(rest(old), rest(new), rest(nothing), types, DOMAIN rest(old))
  <2>1. /\ Family(old.formatted) \in Word
        /\ ProcessorId(old.formatted) \in {<< >>} \cup [1 .. 8 -> Byte]
        /\ count(old, 31, 38) \in Opt(Word) /\ count(old, 32, 40) \in Opt(Word)
        /\ count(old, 33, 42) \in Opt(Word)
    <3>1. Family(old.formatted) \in Word
      <4>1. 2 \in Nat /\ 36 \in Nat
        OBVIOUS
      <4>2. Or(_u8(old.formatted, 2), 0) \in Byte /\ _u16(old.formatted, 36) \in Opt(Word)
        BY <4>1, ReadsTyped
      <4> QED
        BY <4>2, Bytes DEF Family, Opt
    <3> QED
      BY <3>1, ReadsTyped, Resolved, SlicesFill
  <2>2. \A x \in DOMAIN rest(old) : x \in DOMAIN types /\ rest(old)[x] \in types[x]
    <3> HIDE DEF count
    <3> QED
      BY <2>1 DEF ProcessorInfoTypes
  <2>3. \/ Family(old.formatted) \in {Family(new.formatted), Family(nothing.formatted)}
        \/ Family(old.formatted) = 254
    BY FamilyFills
  <2>4. ProcessorId(old.formatted) \in {ProcessorId(new.formatted), ProcessorId(nothing.formatted)}
    BY SlicesFill
  <2>5. /\ count(old, 31, 38) \in {count(new, 31, 38), count(nothing, 31, 38), 255}
        /\ count(old, 32, 40) \in {count(new, 32, 40), count(nothing, 32, 40), 255}
        /\ count(old, 33, 42) \in {count(new, 33, 42), count(nothing, 33, 42), 255}
    <3>1. /\ 31 \in Nat /\ 38 \in Nat /\ 31 < 38 /\ 32 \in Nat /\ 40 \in Nat /\ 32 < 40
          /\ 33 \in Nat /\ 42 \in Nat /\ 33 < 42
      OBVIOUS
    <3> QED
      BY <3>1, ResolvedFills
  <2> HIDE DEF types, count
  <2>6. \A x \in DOMAIN rest(old) : Fine(x, rest(old)[x], rest(new)[x], rest(nothing)[x])
    BY <2>3, <2>4, <2>5 DEF Fine, Escape
  <2> QED
    BY <2>2, <2>6 DEF Growing, Part, Typed, Fills
<1> HIDE DEF types, strings, bytes, words, optional_words, handles, rest, d
<1>5. Growing(d(old), d(new), d(nothing), types, names)
  BY <1>1, <1>2, <1>3, <1>4, GrowingUnion, GrowingHandle, GrowingFields, GrowingOptionalFields
<1> QED
  BY <1>2, <1>5 DEF types, d

MemoryDeviceTypes ==
    [handle |-> Word, array_handle |-> Word, error_info_handle |-> Word,
     total_width_bits |-> Width, data_width_bits |-> Width,
     size_bytes |-> Opt(DeviceSizes), form_factor |-> Byte, device_set |-> Byte,
     locator |-> Text, bank_locator |-> Text, type |-> Byte, type_detail |-> Word,
     speed_mts |-> Speed, manufacturer |-> Text, serial_number |-> Text,
     asset_tag |-> Text, part_number |-> Text, rank |-> Opt(1 .. 15),
     configured_speed_mts |-> Speed, min_voltage_mv |-> Speed,
     max_voltage_mv |-> Speed, configured_voltage_mv |-> Speed,
     memory_technology |-> Byte, operating_mode_capability |-> Word,
     module_firmware_version |-> Text, module_manufacturer_id |-> Word,
     module_product_id |-> Word, subsystem_controller_manufacturer_id |-> Word,
     subsystem_controller_product_id |-> Word, non_volatile_size_bytes |-> MemorySize,
     volatile_size_bytes |-> MemorySize, cache_size_bytes |-> MemorySize,
     logical_size_bytes |-> MemorySize,
     extended_speed_mts |-> Opt(DoubleWord \ {Zero(2)}),
     extended_configured_speed_mts |-> Opt(DoubleWord \ {Zero(2)})]

LEMMA MemoryDeviceFields ==
    ASSUME NEW d, Part(d, MemoryDeviceTypes, DOMAIN MemoryDeviceTypes)
    PROVE  d \in MemoryDevice
BY SMTT(30) DEF Part, Typed, MemoryDeviceTypes, MemoryDevice

LEMMA MemoryDeviceGrows ==
    ASSUME NEW old, NEW new, NEW nothing, Grown(old, new, nothing)
    PROVE  Growing(parse_memory_device(old), parse_memory_device(new), parse_memory_device(nothing),
                   MemoryDeviceTypes, DOMAIN MemoryDeviceTypes)
<1> DEFINE types == MemoryDeviceTypes
           bytes == [form_factor |-> 10, device_set |-> 11, type |-> 14,
                     memory_technology |-> 36]
           words == [array_handle |-> 0, error_info_handle |-> 2, type_detail |-> 15,
                     operating_mode_capability |-> 37, module_manufacturer_id |-> 40,
                     module_product_id |-> 42,
                     subsystem_controller_manufacturer_id |-> 44,
                     subsystem_controller_product_id |-> 46]
           strings == [locator |-> 12, bank_locator |-> 13, manufacturer |-> 19,
                       serial_number |-> 20, asset_tag |-> 21, part_number |-> 22,
                       module_firmware_version |-> 39]
           handles == [total_width_bits |-> 4, data_width_bits |-> 6]
           optional_words == [speed_mts |-> 17, configured_speed_mts |-> 28,
                              min_voltage_mv |-> 30, max_voltage_mv |-> 32,
                              configured_voltage_mv |-> 34]
           device_size(r) == _decode_memory_size(_u16(r.formatted, 8), _u32(r.formatted, 24))
           size(r, k) == _decode_extended_size(_u64(r.formatted, k))
           speed(r, k) == _extended_speed(_u32(r.formatted, k))
           rest(r) == [size_bytes |-> device_size(r), rank |-> Rank(r.formatted),
                       non_volatile_size_bytes |-> size(r, 48),
                       volatile_size_bytes |-> size(r, 56), cache_size_bytes |-> size(r, 64),
                       logical_size_bytes |-> size(r, 72), extended_speed_mts |-> speed(r, 80),
                       extended_configured_speed_mts |-> speed(r, 84)]
           names == {"handle"} \cup DOMAIN bytes \cup DOMAIN words \cup DOMAIN strings
                        \cup DOMAIN handles \cup DOMAIN optional_words
                        \cup DOMAIN rest(old)
           d(r) == parse_memory_device(r)
<1>1. /\ Places(bytes, types, Byte)
      /\ Places(words, types, Word)
      /\ Places(strings, types, Text)
      /\ Places(handles, types, Opt(Word \ {MaxWord}))
      /\ Places(optional_words, types, Opt(Word \ {0}))
  BY DEF Places, Opt, Positive, Speed, Width, MemoryDeviceTypes
<1>2. "handle" \in DOMAIN types /\ types.handle = Word /\ DOMAIN types = names
  BY DEF MemoryDeviceTypes
<1>3. \A r : d(r) = Handle(r) ++ ByteFields(r, bytes) ++ WordFields(r, words)
                     ++ StringFields(r, strings) ++ OptionalWords(r, handles, MaxWord)
                     ++ OptionalWords(r, optional_words, 0) ++ rest(r)
  BY DEF parse_memory_device, Rank
<1>4. Growing(rest(old), rest(new), rest(nothing), types, DOMAIN rest(old))
  <2>1. /\ device_size(old) \in Opt(DeviceSizes)
        /\ Rank(old.formatted) \in Opt(1 .. 15)
        /\ \A k \in Nat : /\ size(old, k) \in MemorySize
                          /\ speed(old, k) \in Opt(DoubleWord \ {Zero(2)})
    <3>1. Rank(old.formatted) \in Opt(1 .. 15)
      <4>1. _u8(old.formatted, 23) \in Opt(Byte)
        BY ReadsTyped
      <4>2. \A b \in Byte : b % 16 \in 0 .. 15
        BY ByteRange
      <4> QED
        BY <4>1, <4>2 DEF Rank, Opt, Unless
    <3>2. \A k \in Nat : size(old, k) \in MemorySize
      BY ReadsTyped DEF _decode_extended_size, MemorySize, Opt, Unless
    <3>3. \A k \in Nat : speed(old, k) \in Opt(DoubleWord \ {Zero(2)})
      BY ReadsTyped, ExtendedSpeed
    <3> QED
      BY <3>1, <3>2, <3>3, ReadsTyped, DeviceSize
  <2>2. \A x \in DOMAIN rest(old) : x \in DOMAIN types /\ rest(old)[x] \in types[x]
    <3> HIDE DEF device_size, size, speed
    <3> QED
      BY <2>1 DEF MemoryDeviceTypes
  <2>3. device_size(old) \in {device_size(new), device_size(nothing)}
    BY DeviceSizeFills
  <2>4. /\ Rank(old.formatted) \in {Rank(new.formatted), Rank(nothing.formatted)}
        /\ \A k \in Nat : /\ size(old, k) \in {size(new, k), size(nothing, k)}
                          /\ speed(old, k) \in {speed(new, k), speed(nothing, k)}
    BY Reads DEF Rank
  <2> HIDE DEF types, device_size, size, speed
  <2>5. \A x \in DOMAIN rest(old) : rest(old)[x] \in {rest(new)[x], rest(nothing)[x]}
    BY <2>3, <2>4
  <2> QED
    BY <2>2, <2>5 DEF Growing, Part, Typed, Fills, Fine
<1> HIDE DEF types, bytes, words, strings, handles, optional_words, rest, d
<1>5. Growing(d(old), d(new), d(nothing), types, names)
  BY <1>1, <1>2, <1>3, <1>4, GrowingUnion, GrowingHandle, GrowingFields, GrowingOptionalFields
<1> QED
  BY <1>2, <1>5 DEF types, d

(***************************************************************************)
(* All the decoders.                                                       *)
(***************************************************************************)

\* The types of the fields of a decoded structure.
Types(type) ==
    CASE type = 0  -> BIOSInfoTypes
      [] type = 1  -> SystemInfoTypes
      [] type = 2  -> BaseboardInfoTypes
      [] type = 3  -> ChassisInfoTypes
      [] type = 4  -> ProcessorInfoTypes
      [] type = 7  -> CacheInfoTypes
      [] type = 9  -> SystemSlotTypes
      [] type = 16 -> MemoryArrayTypes
      [] type = 17 -> MemoryDeviceTypes
      [] type = 38 -> IPMIDeviceTypes
      [] type = 43 -> TPMDeviceTypes

LEMMA DecoderGrows ==
    ASSUME NEW old, NEW new, NEW nothing, Grown(old, new, nothing),
           new.type = old.type, nothing.type = old.type
    PROVE  /\ Growing(Decode(old), Decode(new), Decode(nothing),
                      Types(old.type), DOMAIN Types(old.type))
           /\ Decode(old) \in Dataclass(old.type)
<1>1. old.type \in {0, 1, 2, 3, 4, 7, 9, 16, 17, 38, 43}
  BY DEF Grown, RawStructure
<1>2. CASE old.type = 0
  <2>1. /\ Decode(old) = parse_bios(old) /\ Decode(new) = parse_bios(new)
        /\ Decode(nothing) = parse_bios(nothing)
    BY <1>2 DEF Decode
  <2>2. Types(old.type) = BIOSInfoTypes /\ Dataclass(old.type) = BIOSInfo
    BY <1>2 DEF Types, Dataclass
  <2>3. Growing(Decode(old), Decode(new), Decode(nothing), BIOSInfoTypes, DOMAIN BIOSInfoTypes)
    BY <2>1, BIOSInfoGrows
  <2> QED
    BY <2>2, <2>3, BIOSInfoFields DEF Growing
<1>3. CASE old.type = 1
  <2>1. /\ Decode(old) = parse_system(old) /\ Decode(new) = parse_system(new)
        /\ Decode(nothing) = parse_system(nothing)
    BY <1>3 DEF Decode
  <2>2. Types(old.type) = SystemInfoTypes /\ Dataclass(old.type) = SystemInfo
    BY <1>3 DEF Types, Dataclass
  <2>3. Growing(Decode(old), Decode(new), Decode(nothing), SystemInfoTypes, DOMAIN SystemInfoTypes)
    BY <2>1, SystemInfoGrows
  <2> QED
    BY <2>2, <2>3, SystemInfoFields DEF Growing
<1>4. CASE old.type = 2
  <2>1. /\ Decode(old) = parse_baseboard(old) /\ Decode(new) = parse_baseboard(new)
        /\ Decode(nothing) = parse_baseboard(nothing)
    BY <1>4 DEF Decode
  <2>2. Types(old.type) = BaseboardInfoTypes /\ Dataclass(old.type) = BaseboardInfo
    BY <1>4 DEF Types, Dataclass
  <2>3. Growing(Decode(old), Decode(new), Decode(nothing), BaseboardInfoTypes, DOMAIN BaseboardInfoTypes)
    BY <2>1, BaseboardInfoGrows
  <2> QED
    BY <2>2, <2>3, BaseboardInfoFields DEF Growing
<1>5. CASE old.type = 3
  <2>1. /\ Decode(old) = parse_chassis(old) /\ Decode(new) = parse_chassis(new)
        /\ Decode(nothing) = parse_chassis(nothing)
    BY <1>5 DEF Decode
  <2>2. Types(old.type) = ChassisInfoTypes /\ Dataclass(old.type) = ChassisInfo
    BY <1>5 DEF Types, Dataclass
  <2>3. Growing(Decode(old), Decode(new), Decode(nothing), ChassisInfoTypes, DOMAIN ChassisInfoTypes)
    BY <2>1, ChassisInfoGrows
  <2> QED
    BY <2>2, <2>3, ChassisInfoFields DEF Growing
<1>6. CASE old.type = 4
  <2>1. /\ Decode(old) = parse_processor(old) /\ Decode(new) = parse_processor(new)
        /\ Decode(nothing) = parse_processor(nothing)
    BY <1>6 DEF Decode
  <2>2. Types(old.type) = ProcessorInfoTypes /\ Dataclass(old.type) = ProcessorInfo
    BY <1>6 DEF Types, Dataclass
  <2>3. Growing(Decode(old), Decode(new), Decode(nothing), ProcessorInfoTypes, DOMAIN ProcessorInfoTypes)
    BY <2>1, ProcessorInfoGrows
  <2> QED
    BY <2>2, <2>3, ProcessorInfoFields DEF Growing
<1>7. CASE old.type = 7
  <2>1. /\ Decode(old) = parse_cache(old) /\ Decode(new) = parse_cache(new)
        /\ Decode(nothing) = parse_cache(nothing)
    BY <1>7 DEF Decode
  <2>2. Types(old.type) = CacheInfoTypes /\ Dataclass(old.type) = CacheInfo
    BY <1>7 DEF Types, Dataclass
  <2>3. Growing(Decode(old), Decode(new), Decode(nothing), CacheInfoTypes, DOMAIN CacheInfoTypes)
    BY <2>1, CacheInfoGrows
  <2> QED
    BY <2>2, <2>3, CacheInfoFields DEF Growing
<1>8. CASE old.type = 9
  <2>1. /\ Decode(old) = parse_system_slot(old) /\ Decode(new) = parse_system_slot(new)
        /\ Decode(nothing) = parse_system_slot(nothing)
    BY <1>8 DEF Decode
  <2>2. Types(old.type) = SystemSlotTypes /\ Dataclass(old.type) = SystemSlot
    BY <1>8 DEF Types, Dataclass
  <2>3. Growing(Decode(old), Decode(new), Decode(nothing), SystemSlotTypes, DOMAIN SystemSlotTypes)
    BY <2>1, SystemSlotGrows
  <2> QED
    BY <2>2, <2>3, SystemSlotFields DEF Growing
<1>9. CASE old.type = 16
  <2>1. /\ Decode(old) = parse_memory_array(old) /\ Decode(new) = parse_memory_array(new)
        /\ Decode(nothing) = parse_memory_array(nothing)
    BY <1>9 DEF Decode
  <2>2. Types(old.type) = MemoryArrayTypes /\ Dataclass(old.type) = MemoryArray
    BY <1>9 DEF Types, Dataclass
  <2>3. Growing(Decode(old), Decode(new), Decode(nothing), MemoryArrayTypes, DOMAIN MemoryArrayTypes)
    BY <2>1, MemoryArrayGrows
  <2> QED
    BY <2>2, <2>3, MemoryArrayFields DEF Growing
<1>10. CASE old.type = 17
  <2>1. /\ Decode(old) = parse_memory_device(old) /\ Decode(new) = parse_memory_device(new)
        /\ Decode(nothing) = parse_memory_device(nothing)
    BY <1>10 DEF Decode
  <2>2. Types(old.type) = MemoryDeviceTypes /\ Dataclass(old.type) = MemoryDevice
    BY <1>10 DEF Types, Dataclass
  <2>3. Growing(Decode(old), Decode(new), Decode(nothing), MemoryDeviceTypes, DOMAIN MemoryDeviceTypes)
    BY <2>1, MemoryDeviceGrows
  <2> QED
    BY <2>2, <2>3, MemoryDeviceFields DEF Growing
<1>11. CASE old.type = 38
  <2>1. /\ Decode(old) = parse_ipmi_device(old) /\ Decode(new) = parse_ipmi_device(new)
        /\ Decode(nothing) = parse_ipmi_device(nothing)
    BY <1>11 DEF Decode
  <2>2. Types(old.type) = IPMIDeviceTypes /\ Dataclass(old.type) = IPMIDevice
    BY <1>11 DEF Types, Dataclass
  <2>3. Growing(Decode(old), Decode(new), Decode(nothing), IPMIDeviceTypes, DOMAIN IPMIDeviceTypes)
    BY <2>1, IPMIDeviceGrows
  <2> QED
    BY <2>2, <2>3, IPMIDeviceFields DEF Growing
<1>12. CASE old.type = 43
  <2>1. /\ Decode(old) = parse_tpm_device(old) /\ Decode(new) = parse_tpm_device(new)
        /\ Decode(nothing) = parse_tpm_device(nothing)
    BY <1>12 DEF Decode
  <2>2. Types(old.type) = TPMDeviceTypes /\ Dataclass(old.type) = TPMDevice
    BY <1>12 DEF Types, Dataclass
  <2>3. Growing(Decode(old), Decode(new), Decode(nothing), TPMDeviceTypes, DOMAIN TPMDeviceTypes)
    BY <2>1, TPMDeviceGrows
  <2> QED
    BY <2>2, <2>3, TPMDeviceFields DEF Growing
<1> QED
  BY <1>1, <1>2, <1>3, <1>4, <1>5, <1>6, <1>7, <1>8, <1>9, <1>10, <1>11, <1>12

(***************************************************************************)
(* The specification.                                                      *)
(***************************************************************************)

\* The first n bytes of a structure.
Cut(w, n) == [w EXCEPT !.formatted = Slice(w.formatted, 0, n)]

Emptied(r) == [r EXCEPT !.formatted = << >>]

\* What there is of a structure is always the first part of the whole.
IInv ==
    /\ whole \in Wholes
    /\ \E n \in 0 .. Len(whole.formatted) : raw = Cut(whole, n)

LEMMA CutsGrow ==
    ASSUME NEW w \in RawStructure, NEW n \in 0 .. Len(w.formatted), NEW m \in 0 .. n
    PROVE  /\ Grown(Cut(w, m), Cut(w, n), Emptied(Cut(w, m)))
           /\ Cut(w, m).type = w.type /\ Emptied(Cut(w, m)).type = w.type
           /\ Len(Cut(w, m).formatted) = m
<1> DEFINE f == w.formatted
<1>1. f \in Seq(Byte) /\ Len(f) \in Nat
  BY LenProperties DEF RawStructure
<1> HIDE DEF f
<1>2. \A k \in 0 .. Len(f) : /\ Slice(f, 0, k) \in Seq(Byte) /\ Len(Slice(f, 0, k)) = k
                             /\ \A i \in 1 .. k : Slice(f, 0, k)[i] = f[i]
  <2> SUFFICES ASSUME NEW k \in 0 .. Len(f)
               PROVE  /\ Slice(f, 0, k) \in Seq(Byte) /\ Len(Slice(f, 0, k)) = k
                      /\ \A i \in 1 .. k : Slice(f, 0, k)[i] = f[i]
    OBVIOUS
  <2>1. k \in Nat /\ 0 \in Nat /\ 0 <= k /\ k <= Len(f) /\ k - 0 = k /\ \A i \in 1 .. k : 0 + i = i
    BY <1>1
  <2> QED
    BY <1>1, <2>1, SliceOfBytes, SMTT(30)
<1>3. m \in 0 .. Len(f) /\ n \in 0 .. Len(f) /\ m <= n /\ \A i \in 1 .. m : i \in 1 .. n
  BY <1>1 DEF f
<1>4. Longer(Slice(f, 0, m), Slice(f, 0, n))
  BY <1>2, <1>3 DEF Longer
<1>5. << >> \in Seq(Byte)
  OBVIOUS
<1> QED
  BY <1>2, <1>3, <1>4, <1>5 DEF Grown, RawStructure, Cut, Emptied, f

LEMMA InitIInv == Init => IInv
<1> SUFFICES ASSUME Init PROVE IInv
  OBVIOUS
<1>1. whole \in Wholes /\ whole \in RawStructure /\ raw = [whole EXCEPT !.formatted = << >>]
  BY RawWholes DEF Init
<1>2. Len(whole.formatted) \in Nat /\ Slice(whole.formatted, 0, 0) = << >>
  BY <1>1, LenProperties DEF RawStructure, Slice
<1>3. raw = Cut(whole, 0) /\ 0 \in 0 .. Len(whole.formatted)
  BY <1>1, <1>2 DEF Cut
<1> QED
  BY <1>1, <1>3 DEF IInv

\* A step leaves a structure that has grown or is the same.
LEMMA StepGrows ==
    ASSUME IInv, [Next]_vars
    PROVE  /\ IInv' /\ whole' = whole /\ raw'.type = raw.type /\ Emptied(raw).type = raw.type
           /\ Grown(raw, raw', Emptied(raw))
<1>1. whole \in Wholes /\ whole \in RawStructure
  BY RawWholes DEF IInv
<1>2. PICK m \in 0 .. Len(whole.formatted) : raw = Cut(whole, m)
  BY DEF IInv
<1>3. Len(whole.formatted) \in Nat
  BY <1>1, LenProperties DEF RawStructure
<1>4. Len(raw.formatted) = m
  <2>1. m \in 0 .. m
    BY <1>2
  <2> QED
    BY <1>1, <1>2, <2>1, CutsGrow
<1>5. ASSUME NEW n \in 0 .. Len(whole.formatted), m <= n, raw' = Cut(whole, n), whole' = whole
      PROVE  /\ IInv' /\ raw'.type = raw.type /\ Emptied(raw).type = raw.type
             /\ Grown(raw, raw', Emptied(raw))
  <2>1. m \in 0 .. n /\ n \in 0 .. n
    BY <1>5
  <2>2. IInv'
    BY <1>1, <1>5 DEF IInv
  <2> QED
    BY <1>1, <1>2, <1>5, <2>1, <2>2, CutsGrow
<1>6. CASE Grow
  <2>1. /\ m < Len(whole.formatted) /\ whole' = whole
        /\ raw' = [raw EXCEPT !.formatted = Slice(whole.formatted, 0, m + 1)]
    BY <1>4, <1>6 DEF Grow
  <2>2. raw' = Cut(whole, m + 1)
    BY <1>1, <1>2, <2>1 DEF Cut, RawStructure
  <2>3. m + 1 \in 0 .. Len(whole.formatted) /\ m <= m + 1
    BY <1>3, <2>1
  <2> QED
    BY <1>5, <2>1, <2>2, <2>3
<1>7. CASE Complete \/ UNCHANGED vars
  <2>1. whole' = whole /\ raw' = raw /\ m <= m
    BY <1>3, <1>7 DEF Complete, vars
  <2> QED
    BY <1>2, <1>5, <2>1
<1> QED
  BY <1>6, <1>7 DEF Next, Grow

LEMMA Inductive == Spec => []IInv
<1>1. IInv /\ [Next]_vars => IInv'
  BY StepGrows
<1> QED
  BY InitIInv, <1>1, PTL DEF Spec

LEMMA IInvTypeOK == IInv => TypeOK
<1> SUFFICES ASSUME IInv PROVE TypeOK
  OBVIOUS
<1>1. whole \in Wholes /\ whole \in RawStructure
  BY RawWholes DEF IInv
<1>2. PICK n \in 0 .. Len(whole.formatted) : raw = Cut(whole, n)
  BY DEF IInv
<1>3. n \in 0 .. n
  OBVIOUS
<1>4. Grown(raw, raw, Emptied(raw)) /\ Emptied(raw).type = raw.type
  BY <1>1, <1>2, <1>3, CutsGrow
<1> QED
  BY <1>1, <1>4, DecoderGrows DEF TypeOK

\* However many of its bytes a structure of whatever content has, its decoder returns an
\* instance of the dataclass of its type: every field is in the range the dataclass and the
\* sentinels promise (structures.py, every decoder, against models.py, lines 24-353).
THEOREM TypeCorrect == Spec => []TypeOK
BY Inductive, IInvTypeOK, PTL

\* A longer structure never contradicts a shorter one, whatever its bytes are: each field
\* keeps its value from the byte on that completes it, the escapes and the characteristics
\* extension apart (structures.py, lines 27-46, and every decoder).
THEOREM FillingIn == Spec => FieldsOnlyFillIn
<1>1. ASSUME IInv, [Next]_vars
      PROVE  \A x \in DOMAIN Decode(raw) :
                \/ Decode(raw)[x] \in {Decode(raw')[x], Nothing[x]}
                \/ Revisable(Decode(raw), x)
                \/ x = "characteristics_extension" /\ IsPrefix(Decode(raw)[x], Decode(raw')[x])
  <2>1. /\ Grown(raw, raw', Emptied(raw)) /\ raw'.type = raw.type
        /\ Emptied(raw).type = raw.type
    BY <1>1, StepGrows
  <2>2. Growing(Decode(raw), Decode(raw'), Decode(Emptied(raw)),
                Types(raw.type), DOMAIN Types(raw.type))
    BY <2>1, DecoderGrows
  <2>3. Nothing = Decode(Emptied(raw))
    BY DEF Nothing, Emptied
  <2> QED
    BY <2>2, <2>3 DEF Growing, Fills, Fine, Revisable
<1>2. IInv /\ [Next]_vars =>
         [\A x \in DOMAIN Decode(raw) :
            \/ Decode(raw)[x] \in {Decode(raw')[x], Nothing[x]}
            \/ Revisable(Decode(raw), x)
            \/ x = "characteristics_extension" /\ IsPrefix(Decode(raw)[x], Decode(raw')[x])]_vars
  BY <1>1
<1> QED
  BY <1>2, Inductive, PTL DEF Spec, FieldsOnlyFillIn

(***************************************************************************)
(* The names of codes, and the lists of features.                          *)
(***************************************************************************)

\* What is a sequence of something.
IsList(f) == \E n \in Nat : f = [i \in 1 .. n |-> f[i]]

LEMMA ListOfElements ==
    ASSUME NEW f, IsList(f), NEW V, ToSet(f) \subseteq V
    PROVE  f \in Seq(V)
<1>1. PICK n \in Nat : f = [i \in 1 .. n |-> f[i]]
  BY DEF IsList
<1>2. f \in [1 .. n -> V]
  BY <1>1 DEF ToSet
<1> QED
  BY <1>2, SeqDef

LEMMA ElementsOfJoined ==
    ASSUME NEW V, NEW s \in Seq(V), NEW t \in Seq(V)
    PROVE  s \o t \in Seq(V) /\ ToSet(s \o t) = ToSet(s) \cup ToSet(t)
<1>1. /\ Len(s) \in Nat /\ Len(t) \in Nat /\ DOMAIN s = 1 .. Len(s) /\ DOMAIN t = 1 .. Len(t)
  BY LenProperties
<1>2. /\ s \o t \in Seq(V) /\ DOMAIN (s \o t) = 1 .. Len(s) + Len(t)
      /\ \A i \in 1 .. Len(s) + Len(t) :
            (s \o t)[i] = IF i <= Len(s) THEN s[i] ELSE t[i - Len(s)]
  BY LenProperties, ConcatProperties
<1>3. \A i \in 1 .. Len(s) : i \in 1 .. Len(s) + Len(t) /\ i <= Len(s)
  BY <1>1
<1>4. \A i \in 1 .. Len(t) : /\ i + Len(s) \in 1 .. Len(s) + Len(t)
                             /\ ~ (i + Len(s) <= Len(s)) /\ i + Len(s) - Len(s) = i
  BY <1>1
<1>5. \A i \in 1 .. Len(s) + Len(t) : i <= Len(s) => i \in 1 .. Len(s)
  BY <1>1
<1>6. \A i \in 1 .. Len(s) + Len(t) : ~ (i <= Len(s)) => i - Len(s) \in 1 .. Len(t)
  BY <1>1
<1>7. ToSet(s \o t) \subseteq ToSet(s) \cup ToSet(t)
  BY <1>1, <1>2, <1>5, <1>6 DEF ToSet
<1>8. ToSet(s) \subseteq ToSet(s \o t)
  BY <1>1, <1>2, <1>3 DEF ToSet
<1>9. ToSet(t) \subseteq ToSet(s \o t)
  BY <1>1, <1>2, <1>4 DEF ToSet
<1> QED
  BY <1>2, <1>7, <1>8, <1>9

LEMMA ElementsOfThree ==
    ASSUME NEW a, NEW b, NEW c, IsList(a), IsList(b), IsList(c)
    PROVE  ToSet(a \o b \o c) = ToSet(a) \cup ToSet(b) \cup ToSet(c)
<1> DEFINE V == ToSet(a) \cup ToSet(b) \cup ToSet(c)
<1>1. a \in Seq(V) /\ b \in Seq(V) /\ c \in Seq(V)
  BY ListOfElements
<1> HIDE DEF V
<1> DEFINE ab == a \o b
<1>2. ab \in Seq(V) /\ ToSet(ab) = ToSet(a) \cup ToSet(b)
  BY <1>1, ElementsOfJoined, Zenon
<1> HIDE DEF ab
<1>3. ab \in Seq(V) /\ c \in Seq(V)
  BY <1>1, <1>2
<1>4. ToSet(ab \o c) = ToSet(ab) \cup ToSet(c)
  BY <1>3, ElementsOfJoined, ZenonT(60)
<1> QED
  BY <1>2, <1>4 DEF ab

\* The powers of two that mask a bit.
Power(b) == 2 ^ b

LEMMA PowersOfTwo == \A b \in 0 .. 15 : Power(b) \in Int /\ Power(b) > 0
<1>1. \A b \in 0 .. 15 : \/ b \in {0, 1, 2, 3, 4, 5, 6, 7}
                         \/ b \in {8, 9, 10, 11, 12, 13, 14, 15}
  OBVIOUS
<1>2. /\ Power(0) = 1 /\ Power(1) = 2 /\ Power(2) = 4 /\ Power(3) = 8 /\ Power(4) = 16
      /\ Power(5) = 32 /\ Power(6) = 64 /\ Power(7) = 128
  BY DEF Power
<1>3. /\ Power(8) = 256 /\ Power(9) = 512 /\ Power(10) = 1024 /\ Power(11) = 2048
      /\ Power(12) = 4096 /\ Power(13) = 8192 /\ Power(14) = 16384 /\ Power(15) = 32768
  BY DEF Power
<1>4. \A b \in {0, 1, 2, 3, 4, 5, 6, 7} : Power(b) \in Int /\ Power(b) > 0
  BY <1>2
<1>5. \A b \in {8, 9, 10, 11, 12, 13, 14, 15} : Power(b) \in Int /\ Power(b) > 0
  BY <1>3
<1> QED
  BY <1>1, <1>4, <1>5

LEMMA BitByPower == \A v, b : Bit(v, b) <=> (v \div Power(b)) % 2 = 1
BY DEF Bit, Power

LEMMA NoBitOfZero == \A b \in 0 .. 15 : ~ Bit(0, b)
<1>1. \A p \in Int : p > 0 => ~ ((0 \div p) % 2 = 1)
  OBVIOUS
<1> QED
  BY <1>1, PowersOfTwo, BitByPower

LEMMA AscendingOfNone == Ascending({}) = << >>
<1>1. Cardinality({}) = 0
  BY FS_EmptySet
<1> QED
  BY <1>1 DEF Ascending

LEMMA AscendingIsList ==
    ASSUME NEW S, S \subseteq 0 .. 31
    PROVE  IsList(Ascending(S))
<1>1. IsFiniteSet(0 .. 31)
  <2>1. 0 \in Int /\ 31 \in Int
    OBVIOUS
  <2> QED
    BY <2>1, FS_Interval, Zenon
<1>2. Cardinality(S) \in Nat
  BY <1>1, FS_Subset, FS_CardinalityType
<1> DEFINE n_th(k) == CHOOSE x \in S : Cardinality({y \in S : y <= x}) = k
<1>3. Ascending(S) = [k \in 1 .. Cardinality(S) |-> n_th(k)]
  BY DEF Ascending
<1> HIDE DEF n_th
<1> QED
  BY <1>2, <1>3 DEF IsList

LEMMA NoNamesOfZero ==
    ASSUME NEW table \in SUBSET (0 .. 15)
    PROVE  BitsIn(table, 0) = << >>
<1>1. {b \in table : Bit(0, b)} = {}
  BY NoBitOfZero
<1> QED
  BY <1>1, AscendingOfNone DEF BitsIn

\* The code of a field that is not there.
LEMMA CodesOfNothing ==
    ASSUME NEW r, r.formatted = << >>
    PROVE  /\ parse_chassis(r).type = 0
           /\ parse_processor(r).type = 0 /\ parse_processor(r).family = 0
           /\ parse_cache(r).error_correction = 0 /\ parse_cache(r).system_cache_type = 0
           /\ parse_cache(r).associativity = 0
           /\ parse_cache(r).supported_sram_types = 0 /\ parse_cache(r).current_sram_type = 0
           /\ parse_system_slot(r).type = 0 /\ parse_system_slot(r).current_usage = 0
           /\ parse_system_slot(r).length = 0
           /\ parse_memory_array(r).error_correction = 0
           /\ parse_memory_device(r).form_factor = 0 /\ parse_memory_device(r).type = 0
           /\ parse_memory_device(r).memory_technology = 0
           /\ parse_memory_device(r).type_detail = 0
           /\ parse_memory_device(r).operating_mode_capability = 0
           /\ parse_bios(r).characteristics = Zero(4)
<1>1. \A k \in Nat : _u8(r.formatted, k) = None /\ _u16(r.formatted, k) = None
                     /\ _u64(r.formatted, k) = None
  BY ReadsOfNothing
<1>2. parse_chassis(r).type = 0
  <2> DEFINE strings == [manufacturer |-> 0, version |-> 2, serial_number |-> 3,
                         asset_tag |-> 4, sku_number |-> sku_offset(r.formatted)]
             bytes == [bootup_state |-> 5, power_supply_state |-> 6, thermal_state |-> 7,
                       security_status |-> 8]
             optional_bytes == [height_u |-> 13, power_cords |-> 14]
             front == Handle(r) ++ StringFields(r, strings) ++ ByteFields(r, bytes)
                          ++ OptionalBytes(r, optional_bytes, 0)
             code == Or(_u8(r.formatted, 1), 0)
             rest == [type |-> code % 128, type_locked |-> code >= 128]
  <2>1. "type" \notin DOMAIN front
    BY DEF ++, Handle, StringFields, ByteFields, OptionalBytes
  <2>2. "type" \in DOMAIN rest /\ rest["type"] = 0
    BY <1>1 DEF Or
  <2>3. parse_chassis(r) = front ++ rest
    BY DEF parse_chassis
  <2> HIDE DEF front, rest
  <2> QED
    BY <2>1, <2>2, <2>3 DEF ++
<1>3. parse_processor(r).type = 0 /\ parse_processor(r).family = 0
  BY <1>1, ZenonT(60) DEF parse_processor, ++, Handle, StringFields, ByteFields, WordFields, OptionalWords, Or
<1>4. parse_cache(r).error_correction = 0 /\ parse_cache(r).system_cache_type = 0
      /\ parse_cache(r).associativity = 0
      /\ parse_cache(r).supported_sram_types = 0 /\ parse_cache(r).current_sram_type = 0
  BY <1>1 DEF parse_cache, ++, Handle, StringFields, ByteFields, WordFields, OptionalBytes, Or
<1>5. parse_system_slot(r).type = 0 /\ parse_system_slot(r).current_usage = 0
      /\ parse_system_slot(r).length = 0
  BY <1>1 DEF parse_system_slot, ++, Handle, StringFields, ByteFields, WordFields, Or
<1>6. parse_memory_array(r).error_correction = 0
  BY <1>1 DEF parse_memory_array, ++, Handle, ByteFields, WordFields, Or
<1>7. /\ parse_memory_device(r).form_factor = 0 /\ parse_memory_device(r).type = 0
      /\ parse_memory_device(r).memory_technology = 0
      /\ parse_memory_device(r).type_detail = 0
      /\ parse_memory_device(r).operating_mode_capability = 0
  <2> DEFINE bytes == [form_factor |-> 10, device_set |-> 11, type |-> 14,
                       memory_technology |-> 36]
             words == [array_handle |-> 0, error_info_handle |-> 2, type_detail |-> 15,
                       operating_mode_capability |-> 37, module_manufacturer_id |-> 40,
                       module_product_id |-> 42, subsystem_controller_manufacturer_id |-> 44,
                       subsystem_controller_product_id |-> 46]
             front == Handle(r) ++ ByteFields(r, bytes) ++ WordFields(r, words)
  <2>1. /\ {"form_factor", "type", "memory_technology", "type_detail",
            "operating_mode_capability"} \subseteq DOMAIN front
        /\ front.form_factor = 0 /\ front.type = 0 /\ front.memory_technology = 0
        /\ front.type_detail = 0 /\ front.operating_mode_capability = 0
    BY <1>1 DEF ++, Handle, ByteFields, WordFields, Or
  <2> HIDE DEF front
  <2>2. \A s, o, q, t : \A x \in DOMAIN front : (front ++ s ++ o ++ q ++ t)[x] = front[x]
    BY DEF ++
  <2>3. \A x \in DOMAIN front : parse_memory_device(r)[x] = front[x]
    BY <2>2 DEF parse_memory_device, front
  <2> QED
    BY <2>1, <2>3
<1>8. parse_bios(r).characteristics = Zero(4)
  BY <1>1 DEF parse_bios, ++, Handle, StringFields, OptionalBytes, Or
<1> QED
  BY <1>2, <1>3, <1>4, <1>5, <1>6, <1>7, <1>8

\* What NamesStand says of a step.
Stand(type, old, new, nothing) ==
    LET names == Names(type, old)
        missing == Names(type, nothing)
        features == FeatureLists(type, old)
    IN  /\ \A x \in DOMAIN names :
             \/ names[x] = Names(type, new)[x]
             \/ names[x] = missing[x] /\ (names[x] = Unlisted(0) \/ x \in NamedWhenMissing)
             \/ x = "family" /\ names[x] = Unlisted(254)
        /\ \A x \in DOMAIN features :
             ToSet(features[x]) \subseteq ToSet(FeatureLists(type, new)[x])

\* A field that has no escape and is not revised is as it was or still missing.
LEMMA FieldFills ==
    ASSUME NEW old, NEW new, NEW nothing, NEW types, NEW D,
           Growing(old, new, nothing, types, D)
    PROVE  \A x \in D : \/ x \in {"rom_size_bytes", "characteristics_extension"}
                        \/ x \in DOMAIN Escape
                        \/ old[x] = new[x] \/ old[x] = nothing[x]
BY DEF Growing, Fills, Fine

\* Zero is not in these tables, nor is the escape among the processor families.
LEMMA NoNameOfZero ==
    /\ chassis_type_name(0) = Unlisted(0)
    /\ processor_type_name(0) = Unlisted(0)
    /\ processor_family_name(0) = Unlisted(0) /\ processor_family_name(254) = Unlisted(254)
    /\ cache_error_correction_name(0) = Unlisted(0)
    /\ cache_system_type_name(0) = Unlisted(0)
    /\ cache_associativity_name(0) = Unlisted(0)
    /\ slot_type_name(0) = Unlisted(0)
    /\ slot_usage_name(0) = Unlisted(0)
    /\ slot_length_name(0) = Unlisted(0)
    /\ memory_error_correction_name(0) = Unlisted(0)
    /\ memory_form_factor_name(0) = Unlisted(0)
    /\ memory_type_name(0) = Unlisted(0)
    /\ memory_technology_name(0) = Unlisted(0)
<1>1. chassis_type_name(0) = Unlisted(0)
  <2>1. 0 % 128 = 0
    OBVIOUS
  <2> QED
    BY <2>1 DEF chassis_type_name, _lookup, _CHASSIS_TYPES, Unlisted
<1>2. processor_family_name(0) = Unlisted(0) /\ processor_family_name(254) = Unlisted(254)
  BY DEF processor_family_name, _lookup, _PROCESSOR_FAMILIES
<1> QED
  BY <1>1, <1>2
  DEF _lookup, processor_type_name, cache_error_correction_name, cache_system_type_name,
      cache_associativity_name, slot_type_name, slot_usage_name, slot_length_name,
      memory_error_correction_name, memory_form_factor_name, memory_type_name,
      memory_technology_name, _PROCESSOR_TYPES, _CACHE_ERROR_CORRECTION,
      _CACHE_SYSTEM_TYPES, _CACHE_ASSOCIATIVITIES, _SLOT_TYPES, _SLOT_USAGE, _SLOT_LENGTHS,
      _MEMORY_ERROR_CORRECTION, _MEMORY_FORM_FACTORS, _MEMORY_TYPES, _MEMORY_TECHNOLOGIES

\* The bits of a word that is filled in: those of nothing are none.
LEMMA BitsStand ==
    ASSUME NEW table \in SUBSET (0 .. 15), NEW v, NEW w, v = w \/ v = 0
    PROVE  ToSet(BitsIn(table, v)) \subseteq ToSet(BitsIn(table, w))
<1>1. ToSet(<< >>) = {}
  BY DEF ToSet
<1> QED
  BY <1>1, NoNamesOfZero

\* The names of the characteristics of a BIOS: either part of the list is there or not.
LEMMA CharacteristicsStand ==
    ASSUME NEW w, NEW v \in {w, Zero(4)}, NEW d \in Seq(Byte), NEW e \in Seq(Byte),
           IsPrefix(d, e)
    PROVE  ToSet(bios_characteristics_names(v, d)) \subseteq
           ToSet(bios_characteristics_names(w, e))
<1> DEFINE Set(u, b) == Bit(u[b \div 16 + 1], b % 16)
           ext(f, n) == IF Len(f) >= n THEN ByteAt(f, n - 1) ELSE 0
           bits(u) == IF Set(u, NotSupported) THEN << NotSupported >>
                      ELSE Ascending({b \in _BIOS_CHARACTERISTICS : Set(u, b)})
           q(u) == Features("qword", bits(u))
           one(f) == Features("byte 1", BitsIn(_BIOS_CHAR_EXT_BYTE_1, ext(f, 1)))
           two(f) == Features("byte 2", BitsIn(_BIOS_CHAR_EXT_BYTE_2, ext(f, 2)))
<1>1. /\ bios_characteristics_names(v, d) = q(v) \o one(d) \o two(d)
      /\ bios_characteristics_names(w, e) = q(w) \o one(e) \o two(e)
  BY DEF bios_characteristics_names
<1>2. \A t, f : IsList(f) => IsList(Features(t, f))
  BY DEF IsList, Features
<1>3. \A u : IsList(q(u))
  <2> SUFFICES ASSUME NEW u PROVE IsList(q(u))
    OBVIOUS
  <2>1. IsList(<< NotSupported >>)
    <3>1. << NotSupported >> = [i \in 1 .. 1 |-> << NotSupported >>[i]] /\ 1 \in Nat
      OBVIOUS
    <3> QED
      BY <3>1 DEF IsList
  <2>2. {b \in _BIOS_CHARACTERISTICS : Set(u, b)} \subseteq 0 .. 31
    BY DEF _BIOS_CHARACTERISTICS
  <2>3. IsList(Ascending({b \in _BIOS_CHARACTERISTICS : Set(u, b)}))
    BY <2>2, AscendingIsList
  <2>4. IsList(bits(u))
    BY <2>1, <2>3
  <2> HIDE DEF bits
  <2> QED
    BY <1>2, <2>4
<1>4. \A f : IsList(one(f)) /\ IsList(two(f))
  <2> SUFFICES ASSUME NEW f PROVE IsList(one(f)) /\ IsList(two(f))
    OBVIOUS
  <2> DEFINE x == ext(f, 1)
             y == ext(f, 2)
  <2> HIDE DEF x, y
  <2>1. /\ {b \in _BIOS_CHAR_EXT_BYTE_1 : Bit(x, b)} \subseteq 0 .. 31
        /\ {b \in _BIOS_CHAR_EXT_BYTE_2 : Bit(y, b)} \subseteq 0 .. 31
    BY DEF _BIOS_CHAR_EXT_BYTE_1, _BIOS_CHAR_EXT_BYTE_2
  <2>2. IsList(BitsIn(_BIOS_CHAR_EXT_BYTE_1, x)) /\ IsList(BitsIn(_BIOS_CHAR_EXT_BYTE_2, y))
    BY <2>1, AscendingIsList DEF BitsIn
  <2> QED
    BY <1>2, <2>2 DEF x, y
<1>5. \A t : Features(t, << >>) = << >>
  BY DEF Features
<1>6. q(v) = q(w) \/ q(v) = << >>
  <2>1. CASE v = w
    BY <2>1
  <2>2. CASE v = Zero(4)
    <3>1. \A b \in 3 .. 31 : b \div 16 + 1 \in 1 .. 4 /\ b % 16 \in 0 .. 15
      OBVIOUS
    <3>2. \A b \in 3 .. 31 : v[b \div 16 + 1] = 0
      BY <2>2, <3>1 DEF Zero
    <3>3. \A b \in 3 .. 31 : ~ Set(v, b)
      BY <3>1, <3>2, NoBitOfZero
    <3>4. NotSupported \in 3 .. 31 /\ _BIOS_CHARACTERISTICS = 3 .. 31
      BY DEF NotSupported, _BIOS_CHARACTERISTICS
    <3> HIDE DEF Set
    <3>5. {b \in _BIOS_CHARACTERISTICS : Set(v, b)} = {}
      BY <3>3, <3>4
    <3>6. bits(v) = << >>
      BY <3>3, <3>4, <3>5, AscendingOfNone
    <3> HIDE DEF bits
    <3> QED
      BY <1>5, <3>6
  <2> QED
    BY <2>1, <2>2
<1>7. \A n \in {1, 2} : ext(d, n) = ext(e, n) \/ ext(d, n) = 0
  <2>1. /\ Len(d) \in Nat /\ Len(e) \in Nat /\ Len(d) <= Len(e)
        /\ SubSeq(d, 1, Len(d)) = SubSeq(e, 1, Len(d))
    BY LenProperties DEF IsPrefix
  <2>2. \A i \in 1 .. Len(d) : SubSeq(d, 1, Len(d))[i] = d[i] /\ SubSeq(e, 1, Len(d))[i] = e[i]
    BY <2>1
  <2>3. \A i \in 1 .. Len(d) : d[i] = e[i]
    BY <2>1, <2>2
  <2> QED
    BY <2>1, <2>3 DEF ByteAt
<1> HIDE DEF ext
<1>8. one(d) = one(e) \/ one(d) = << >>
  <2>1. _BIOS_CHAR_EXT_BYTE_1 \in SUBSET (0 .. 15)
    BY DEF _BIOS_CHAR_EXT_BYTE_1
  <2>2. BitsIn(_BIOS_CHAR_EXT_BYTE_1, 0) = << >>
    BY <2>1, NoNamesOfZero
  <2> QED
    BY <1>5, <1>7, <2>2
<1>9. two(d) = two(e) \/ two(d) = << >>
  <2>1. _BIOS_CHAR_EXT_BYTE_2 \in SUBSET (0 .. 15)
    BY DEF _BIOS_CHAR_EXT_BYTE_2
  <2>2. BitsIn(_BIOS_CHAR_EXT_BYTE_2, 0) = << >>
    BY <2>1, NoNamesOfZero
  <2> QED
    BY <1>5, <1>7, <2>2
<1> HIDE DEF q, one, two
<1>10. /\ ToSet(q(v) \o one(d) \o two(d)) = ToSet(q(v)) \cup ToSet(one(d)) \cup ToSet(two(d))
       /\ ToSet(q(w) \o one(e) \o two(e)) = ToSet(q(w)) \cup ToSet(one(e)) \cup ToSet(two(e))
  BY <1>3, <1>4, ElementsOfThree
<1>11. ToSet(<< >>) = {}
  BY DEF ToSet
<1> QED
  BY <1>1, <1>6, <1>8, <1>9, <1>10, <1>11

LEMMA ExtensionOf ==
    ASSUME NEW r
    PROVE  parse_bios(r).characteristics_extension = SafeSlice(r.formatted, 14, Len(r.formatted))
<1> DEFINE x == SafeSlice(r.formatted, 14, Len(r.formatted))
<1> HIDE DEF x
<1> QED
  BY DEF parse_bios, ++, Handle, StringFields, OptionalBytes, x

LEMMA NamesGrow ==
    ASSUME NEW old, NEW new, NEW nothing, Grown(old, new, nothing),
           new.type = old.type, nothing.type = old.type
    PROVE  Stand(old.type, Decode(old), Decode(new), Decode(nothing))
<1> DEFINE o == Decode(old)
           n == Decode(new)
           z == Decode(nothing)
<1>1. old.type \in {0, 1, 2, 3, 4, 7, 9, 16, 17, 38, 43}
  BY DEF Grown, RawStructure
<1>2. Growing(o, n, z, Types(old.type), DOMAIN Types(old.type))
  BY DecoderGrows
<1>3. nothing.formatted = << >>
  BY DEF Grown
<1>4. \A x \in DOMAIN Types(old.type) :
         \/ x \in {"rom_size_bytes", "characteristics_extension"} \/ x \in DOMAIN Escape
         \/ o[x] = n[x] \/ o[x] = z[x]
  BY <1>2, FieldFills
<1> SUFFICES Stand(old.type, o, n, z)
  OBVIOUS
<1> HIDE DEF o, n, z
<1>5. CASE old.type = 1
  <2>1. o.wake_up_type \in {n.wake_up_type, z.wake_up_type}
    BY <1>5, <1>4 DEF Types, SystemInfoTypes, Escape
  <2>2. \A i : /\ DOMAIN Names(1, i) = {"wake_up_type"}
               /\ Names(1, i).wake_up_type = wake_up_type_name(i.wake_up_type)
               /\ DOMAIN FeatureLists(1, i) = {}
    BY DEF Names, FeatureLists
  <2>3. Stand(1, o, n, z)
    BY <2>1, <2>2 DEF Stand, NamedWhenMissing
  <2> QED
    BY <1>5, <2>3
<1>6. CASE old.type = 3
  <2>1. o.type \in {n.type, z.type}
    BY <1>6, <1>4 DEF Types, ChassisInfoTypes, Escape
  <2>2. z.type = 0
    BY <1>3, <1>6, CodesOfNothing DEF Decode, z
  <2>3. \A i : /\ DOMAIN Names(3, i) = {"type"}
               /\ Names(3, i).type = chassis_type_name(i.type)
               /\ DOMAIN FeatureLists(3, i) = {}
    BY DEF Names, FeatureLists
  <2>4. Stand(3, o, n, z)
    BY <2>1, <2>2, <2>3, NoNameOfZero DEF Stand
  <2> QED
    BY <1>6, <2>4
<1>7. CASE old.type = 4
  <2>1. o.type \in {n.type, z.type}
    BY <1>7, <1>4 DEF Types, ProcessorInfoTypes, Escape
  <2>2. z.type = 0 /\ z.family = 0
    BY <1>3, <1>7, CodesOfNothing DEF Decode, z
  <2>3. o.family = n.family \/ o.family = z.family \/ o.family = 254
    BY <1>2, <1>7 DEF Growing, Fills, Fine, Types, ProcessorInfoTypes, Escape
  <2>4. \A i : /\ DOMAIN Names(4, i) = {"type", "family"}
               /\ Names(4, i).type = processor_type_name(i.type)
               /\ Names(4, i).family = processor_family_name(i.family)
               /\ DOMAIN FeatureLists(4, i) = {}
    BY DEF Names, FeatureLists
  <2>5. Stand(4, o, n, z)
    BY <2>1, <2>2, <2>3, <2>4, NoNameOfZero DEF Stand
  <2> QED
    BY <1>7, <2>5
<1>8. CASE old.type = 7
  <2>1. /\ o.configuration \in {n.configuration, z.configuration}
        /\ o.error_correction \in {n.error_correction, z.error_correction}
        /\ o.system_cache_type \in {n.system_cache_type, z.system_cache_type}
        /\ o.associativity \in {n.associativity, z.associativity}
        /\ o.supported_sram_types \in {n.supported_sram_types, z.supported_sram_types}
        /\ o.current_sram_type \in {n.current_sram_type, z.current_sram_type}
    BY <1>8, <1>4 DEF Types, CacheInfoTypes, Escape
  <2>2. /\ z.error_correction = 0 /\ z.system_cache_type = 0 /\ z.associativity = 0
        /\ z.supported_sram_types = 0 /\ z.current_sram_type = 0
    BY <1>3, <1>8, CodesOfNothing DEF Decode, z
  <2>3. _CACHE_SRAM_TYPE_BITS \in SUBSET (0 .. 15)
    BY DEF _CACHE_SRAM_TYPE_BITS
  <2>4. /\ ToSet(cache_sram_type_names(o.supported_sram_types))
              \subseteq ToSet(cache_sram_type_names(n.supported_sram_types))
        /\ ToSet(cache_sram_type_names(o.current_sram_type))
              \subseteq ToSet(cache_sram_type_names(n.current_sram_type))
    BY <2>1, <2>2, <2>3, BitsStand DEF cache_sram_type_names
  <2>5. /\ location_name(o) = location_name(n) \/ location_name(o) = location_name(z)
        /\ \/ operational_mode_name(o) = operational_mode_name(n)
           \/ operational_mode_name(o) = operational_mode_name(z)
    BY <2>1 DEF location_name, operational_mode_name, ConfigurationBits
  <2>6. \A i : /\ DOMAIN Names(7, i) = {"location", "operational_mode",
                   "error_correction", "system_cache_type", "associativity"}
               /\ Names(7, i).location = location_name(i)
               /\ Names(7, i).operational_mode = operational_mode_name(i)
               /\ Names(7, i).error_correction = cache_error_correction_name(i.error_correction)
               /\ Names(7, i).system_cache_type = cache_system_type_name(i.system_cache_type)
               /\ Names(7, i).associativity = cache_associativity_name(i.associativity)
               /\ DOMAIN FeatureLists(7, i) = {"supported_sram_types",
                   "current_sram_types"}
               /\ FeatureLists(7, i).supported_sram_types = cache_sram_type_names(i.supported_sram_types)
               /\ FeatureLists(7, i).current_sram_types = cache_sram_type_names(i.current_sram_type)
    BY DEF Names, FeatureLists
  <2>7. Stand(7, o, n, z)
    BY <2>1, <2>2, <2>4, <2>5, <2>6, NoNameOfZero DEF Stand, NamedWhenMissing
  <2> QED
    BY <1>8, <2>7
<1>9. CASE old.type = 9
  <2>1. /\ o.type \in {n.type, z.type}
        /\ o.current_usage \in {n.current_usage, z.current_usage}
        /\ o.length \in {n.length, z.length}
    BY <1>9, <1>4 DEF Types, SystemSlotTypes, Escape
  <2>2. z.type = 0 /\ z.current_usage = 0 /\ z.length = 0
    BY <1>3, <1>9, CodesOfNothing DEF Decode, z
  <2>3. \A i : /\ DOMAIN Names(9, i) = {"type", "current_usage", "length"}
               /\ Names(9, i).type = slot_type_name(i.type)
               /\ Names(9, i).current_usage = slot_usage_name(i.current_usage)
               /\ Names(9, i).length = slot_length_name(i.length)
               /\ DOMAIN FeatureLists(9, i) = {}
    BY DEF Names, FeatureLists
  <2>4. Stand(9, o, n, z)
    BY <2>1, <2>2, <2>3, NoNameOfZero DEF Stand
  <2> QED
    BY <1>9, <2>4
<1>10. CASE old.type = 16
  <2>1. o.error_correction \in {n.error_correction, z.error_correction}
    BY <1>10, <1>4 DEF Types, MemoryArrayTypes, Escape
  <2>2. z.error_correction = 0
    BY <1>3, <1>10, CodesOfNothing DEF Decode, z
  <2>3. \A i : /\ DOMAIN Names(16, i) = {"error_correction"}
               /\ Names(16, i).error_correction = memory_error_correction_name(i.error_correction)
               /\ DOMAIN FeatureLists(16, i) = {}
    BY DEF Names, FeatureLists
  <2>4. Stand(16, o, n, z)
    BY <2>1, <2>2, <2>3, NoNameOfZero DEF Stand
  <2> QED
    BY <1>10, <2>4
<1>11. CASE old.type = 17
  <2>1. /\ o.form_factor \in {n.form_factor, z.form_factor}
        /\ o.type \in {n.type, z.type}
        /\ o.memory_technology \in {n.memory_technology, z.memory_technology}
        /\ o.type_detail \in {n.type_detail, z.type_detail}
        /\ o.operating_mode_capability \in {n.operating_mode_capability, z.operating_mode_capability}
    BY <1>11, <1>4 DEF Types, MemoryDeviceTypes, Escape
  <2>2. /\ z.form_factor = 0 /\ z.type = 0 /\ z.memory_technology = 0
        /\ z.type_detail = 0 /\ z.operating_mode_capability = 0
    BY <1>3, <1>11, CodesOfNothing DEF Decode, z
  <2>3. /\ _MEMORY_TYPE_DETAIL_BITS \in SUBSET (0 .. 15)
        /\ _MEMORY_OPERATING_MODE_BITS \in SUBSET (0 .. 15)
    BY DEF _MEMORY_TYPE_DETAIL_BITS, _MEMORY_OPERATING_MODE_BITS
  <2>4. /\ ToSet(memory_type_detail_names(o.type_detail))
              \subseteq ToSet(memory_type_detail_names(n.type_detail))
        /\ ToSet(memory_operating_mode_names(o.operating_mode_capability))
              \subseteq ToSet(memory_operating_mode_names(n.operating_mode_capability))
    BY <2>1, <2>2, <2>3, BitsStand DEF memory_type_detail_names, memory_operating_mode_names
  <2>5. \A i : /\ DOMAIN Names(17, i) = {"form_factor", "type", "memory_technology"}
               /\ Names(17, i).form_factor = memory_form_factor_name(i.form_factor)
               /\ Names(17, i).type = memory_type_name(i.type)
               /\ Names(17, i).memory_technology = memory_technology_name(i.memory_technology)
               /\ DOMAIN FeatureLists(17, i) = {"type_detail", "operating_modes"}
               /\ FeatureLists(17, i).type_detail = memory_type_detail_names(i.type_detail)
               /\ FeatureLists(17, i).operating_modes = memory_operating_mode_names(i.operating_mode_capability)
    BY DEF Names, FeatureLists
  <2>6. Stand(17, o, n, z)
    BY <2>1, <2>2, <2>4, <2>5, NoNameOfZero DEF Stand
  <2> QED
    BY <1>11, <2>6
<1>12. CASE old.type = 38
  <2>1. o.interface_type \in {n.interface_type, z.interface_type}
    BY <1>12, <1>4 DEF Types, IPMIDeviceTypes, Escape
  <2>2. \A i : /\ DOMAIN Names(38, i) = {"interface_type"}
               /\ Names(38, i).interface_type = ipmi_interface_type_name(i.interface_type)
               /\ DOMAIN FeatureLists(38, i) = {}
    BY DEF Names, FeatureLists
  <2>3. Stand(38, o, n, z)
    BY <2>1, <2>2 DEF Stand, NamedWhenMissing
  <2> QED
    BY <1>12, <2>3
<1>13. CASE old.type = 0
  <2>1. o.characteristics \in {n.characteristics, z.characteristics}
    BY <1>13, <1>4 DEF Types, BIOSInfoTypes, Escape
  <2>2. z.characteristics = Zero(4)
    BY <1>3, <1>13, CodesOfNothing DEF Decode, z
  <2>3. /\ o.characteristics_extension = SafeSlice(old.formatted, 14, Len(old.formatted))
        /\ n.characteristics_extension = SafeSlice(new.formatted, 14, Len(new.formatted))
    BY <1>13, ExtensionOf DEF Decode, o, n
  <2>4. /\ Longer(old.formatted, new.formatted) /\ 14 \in Nat
        /\ old.formatted \in Seq(Byte) /\ Len(old.formatted) \in Nat
        /\ new.formatted \in Seq(Byte) /\ Len(new.formatted) \in Nat
    BY LenProperties DEF Grown, Longer
  <2>5. /\ o.characteristics_extension \in Seq(Byte) /\ n.characteristics_extension \in Seq(Byte)
        /\ IsPrefix(o.characteristics_extension, n.characteristics_extension)
    <3>1. /\ SafeSlice(old.formatted, 14, Len(old.formatted)) \in Seq(Byte)
          /\ SafeSlice(new.formatted, 14, Len(new.formatted)) \in Seq(Byte)
      BY <2>4, SafeSliceOfBytes
    <3>2. IsPrefix(SafeSlice(old.formatted, 14, Len(old.formatted)),
                   SafeSlice(new.formatted, 14, Len(new.formatted)))
      BY <2>4, RestFills
    <3> QED
      BY <2>3, <3>1, <3>2
  <2>6. ToSet(characteristics_decoded(o)) \subseteq ToSet(characteristics_decoded(n))
    BY <2>1, <2>2, <2>5, CharacteristicsStand DEF characteristics_decoded
  <2>7. \A i : /\ DOMAIN Names(0, i) = {}
               /\ DOMAIN FeatureLists(0, i) = {"characteristics_decoded"}
               /\ FeatureLists(0, i).characteristics_decoded = characteristics_decoded(i)
    BY DEF Names, FeatureLists
  <2>8. Stand(0, o, n, z)
    BY <2>6, <2>7 DEF Stand
  <2> QED
    BY <1>13, <2>8
<1>14. CASE old.type \in {2, 43}
  BY <1>14 DEF Stand, Names, FeatureLists
<1> QED
  BY <1>1, <1>5, <1>6, <1>7, <1>8, <1>9, <1>10, <1>11, <1>12, <1>13, <1>14

\* A name an older structure is shown with stands in a newer one, whatever its bytes are,
\* but for three that say nothing of the byte: the name of an unlisted 0, a name that a
\* missing field already has (wake_up_type, location, operational_mode, interface_type),
\* and the family shown for the escape 0xFE.  Features are only added (enums.py, lines
\* 820-845, structures.py, lines 27-46).
THEOREM NamesStanding == Spec => NamesStand
<1>1. ASSUME IInv, [Next]_vars
      PROVE  Stand(raw.type, Decode(raw), Decode(raw'), Nothing)
  <2>1. /\ Grown(raw, raw', Emptied(raw)) /\ raw'.type = raw.type
        /\ Emptied(raw).type = raw.type
    BY <1>1, StepGrows
  <2>2. Nothing = Decode(Emptied(raw))
    BY DEF Nothing, Emptied
  <2> QED
    BY <2>1, <2>2, NamesGrow
<1>2. IInv /\ [Next]_vars => [Stand(raw.type, Decode(raw), Decode(raw'), Nothing)]_vars
  BY <1>1
<1>3. [][Stand(raw.type, Decode(raw), Decode(raw'), Nothing)]_vars => NamesStand
  BY DEF Stand, NamesStand
<1> QED
  BY <1>2, <1>3, Inductive, PTL DEF Spec

=============================================================================
