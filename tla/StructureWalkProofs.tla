------------------------ MODULE StructureWalkProofs -------------------------
(***************************************************************************)
(* Proofs about StructureWalk, for every set of tables and every declared  *)
(* length.  The inductive invariant is the conjunction of the type         *)
(* invariant, the loop invariant of the string scan and the three          *)
(* invariants about what has been delivered.  From it, at the end of the   *)
(* module, the refinement: every step of the generator is a step of        *)
(* StructureStream or changes nothing there.                               *)
(***************************************************************************)
EXTENDS StructureWalk, SequenceTheorems, TLAPS

Facts == INSTANCE SMBIOSTableProofs

(***************************************************************************)
(* Helpers of DMIBytes.                                                    *)
(***************************************************************************)

\* Two bytes, low one first, make a word.
LEMMA WordRange ==
    ASSUME NEW lo \in Byte, NEW hi \in Byte
    PROVE  lo + 256 * hi \in Word
<1> DEFINE w == lo + 256 * hi
<1>1. lo \in Int /\ hi \in Int /\ 0 <= lo /\ lo <= 255 /\ 0 <= hi /\ hi <= 255
  BY DEF Byte
<1>2. w \in Int /\ 0 <= w /\ w <= MaxWord /\ MaxWord \in Int
  BY <1>1 DEF MaxWord
<1> HIDE DEF w
<1>3. w \in Word
  BY <1>2 DEF Word
<1> QED
  BY <1>3 DEF w

\* A slice of a byte string is a byte string: Python's buf[i:j].
LEMMA SliceType ==
    ASSUME NEW b \in Seq(Byte), NEW i \in 0 .. Len(b), NEW j \in 0 .. Len(b)
    PROVE  Slice(b, i, j) \in Seq(Byte)
<1>1. \A k \in i + 1 .. j : b[k] \in Byte
  BY LenProperties, ElementOfSeq
<1> QED
  BY <1>1, SubSeqProperties DEF Slice

\* str.strip() of a byte string is a byte string, whatever the white space:
\* the first and the last character to keep exist when there is one at all.
LEMMA StripType ==
    ASSUME NEW b \in Seq(Byte)
    PROVE  Strip(b) \in Seq(Byte)
<1> DEFINE Ink(i) == b[i] \notin Whitespace
           inked  == {i \in 1 .. Len(b) : Ink(i)}
           IsFirst(i) == Ink(i) /\ \A j \in 1 .. i - 1 : ~ Ink(j)
           IsLast(i)  == Ink(i) /\ \A j \in i + 1 .. Len(b) : ~ Ink(j)
<1>0. Len(b) \in Nat
  BY LenProperties
<1>1. CASE \A i \in 1 .. Len(b) : ~ Ink(i)
  BY <1>1, EmptySeq DEF Strip
<1>2. CASE ~ \A i \in 1 .. Len(b) : ~ Ink(i)
  <2> HIDE DEF Ink
  <2>1. \E i \in 1 .. Len(b) : IsFirst(i)
    <3>1. inked \in SUBSET Nat /\ inked # {}
      BY <1>0, <1>2
    <3>2. PICK x \in inked : \A y \in inked : x <= y
      BY <3>1, Facts!LeastElement
    <3> QED
      BY <1>0, <3>2
  <2>2. \E i \in 1 .. Len(b) : IsLast(i)
    <3> DEFINE back == {Len(b) - i : i \in inked}
    <3>1. back \in SUBSET Nat /\ back # {}
      BY <1>0, <1>2
    <3>2. PICK x \in back : \A y \in back : x <= y
      BY <3>1, Facts!LeastElement
    <3>3. PICK i \in inked : x = Len(b) - i
      BY <3>2
    <3>4. ASSUME NEW j \in i + 1 .. Len(b), Ink(j)
          PROVE  FALSE
      <4>1. j \in inked
        BY <1>0, <3>4
      <4>2. Len(b) - j \in back
        BY <4>1
      <4>3. Len(b) - i <= Len(b) - j
        BY <3>2, <3>3, <4>2
      <4> QED
        BY <1>0, <4>1, <4>3
    <3> QED
      BY <3>3, <3>4
  <2> DEFINE first == CHOOSE i \in 1 .. Len(b) : IsFirst(i)
             last  == CHOOSE i \in 1 .. Len(b) : IsLast(i)
  <2>3. first \in 1 .. Len(b) /\ last \in 1 .. Len(b)
    BY <2>1, <2>2
  <2>4. Strip(b) = SubSeq(b, first, last)
    BY <1>2 DEF Strip, Ink
  <2>5. \A k \in first .. last : b[k] \in Byte
    BY <1>0, <2>3, ElementOfSeq
  <2> HIDE DEF first, last
  <2> QED
    BY <2>3, <2>4, <2>5, SubSeqProperties
<1> QED
  BY <1>1, <1>2

-----------------------------------------------------------------------------
(***************************************************************************)
(* Type correctness.  A step writes type_, handle and formatted from the   *)
(* buffer, so that they are well typed rests on the header still fitting   *)
(* when the string loop is left: StringScan carries that from OpenStrings. *)
(***************************************************************************)

\* The scan never looks past the buffer: end is at most its length.
LEMMA EndInBuffer ==
    ASSUME TypeOK
    PROVE  /\ buf \in Seq(Byte) /\ Len(buf) \in Nat
           /\ end \in 0 .. Len(buf)
           /\ offset \in 0 .. Len(buf) /\ cursor \in 0 .. Len(buf)
<1>1. buf \in Seq(Byte) /\ max_length \in Nat
  BY WalkTables, WalkLimits DEF TypeOK
<1>2. Len(buf) \in Nat
  BY <1>1, LenProperties
<1> QED
  BY <1>1, <1>2 DEF TypeOK, end

\* What an accepted header gives: lines 95 to 104.
LEMMA AcceptedHeader ==
    ASSUME TypeOK, HeaderOK
    PROVE  /\ type_ \in Byte /\ length \in Byte /\ handle \in Word
           /\ formatted_end \in offset + 4 .. end
           /\ formatted \in Seq(Byte)
<1>1. offset + 4 <= end /\ length >= 4 /\ formatted_end <= end
  BY DEF HeaderOK, HeaderFits
<1>2. \A i \in 1 .. Len(buf) : buf[i] \in Byte
  BY EndInBuffer, ElementOfSeq
<1>3. type_ \in Byte /\ length \in Byte
  BY <1>1, <1>2, EndInBuffer DEF type_, length, ByteAt
<1>4. buf[offset + 2 + 1] \in Byte /\ buf[offset + 2 + 1 + 1] \in Byte
  BY <1>1, <1>2, EndInBuffer
<1>5. handle \in Word
  BY <1>4, WordRange DEF handle, WordAt, ByteAt
<1>6. formatted_end \in offset + 4 .. end
  BY <1>1, <1>3, EndInBuffer DEF formatted_end, Byte
<1>7. formatted \in Seq(Byte)
  <2>1. offset + 4 \in 0 .. Len(buf) /\ formatted_end \in 0 .. Len(buf)
    BY <1>6, EndInBuffer
  <2> QED
    BY <2>1, EndInBuffer, SliceType DEF formatted
<1> QED
  BY <1>3, <1>5, <1>6, <1>7

\* structures.append keeps every variable well typed and leaves the string loop.
LEMMA EmitTypes ==
    ASSUME TypeOK, HeaderOK,
           NEW strs \in Seq(Seq(Byte)), NEW next \in formatted_end + 2 .. Len(buf),
           Emit(strs, next)
    PROVE  TypeOK' /\ StringScan'
<1> DEFINE record == [type |-> type_, handle |-> handle,
                      formatted |-> formatted, strings |-> strs]
           extent == [start |-> offset, formatted_end |-> formatted_end, stop |-> next]
<1>1. record \in [type : Byte, handle : Word,
                  formatted : Seq(Byte), strings : Seq(Seq(Byte))]
  BY AcceptedHeader
<1>2. extent \in [start : Nat, formatted_end : Nat, stop : Nat]
  BY AcceptedHeader, EndInBuffer
<1>3. next \in 0 .. Len(buf)
  BY AcceptedHeader, EndInBuffer
<1>4. /\ structures' = Append(structures, record) /\ extents' = Append(extents, extent)
      /\ buf' = buf /\ max_length' = max_length /\ error' = error
      /\ strings' = strs /\ cursor' = next /\ offset' = next
      /\ pc' \in {"returned", "loop"}
  BY DEF Emit, AfterStructure
<1> HIDE DEF record, extent
<1>5. TypeOK'
  BY <1>1, <1>2, <1>3, <1>4, AppendProperties DEF TypeOK
<1> QED
  BY <1>4, <1>5 DEF StringScan

\* A raise keeps every variable well typed.
LEMMA RaiseTypes ==
    ASSUME TypeOK, NEW message \in Messages, NEW at \in Int, Raise(message, at)
    PROVE  TypeOK' /\ StringScan'
  BY DEF Raise, TypeOK, StringScan

\* What the first NUL from cursor on means for the double NULs behind it.
LEMMA NoDoubleNulBefore ==
    ASSUME TypeOK, StringScan, pc = "strings",
           NEW nul \in Int, cursor <= nul, nul <= Len(buf),
           \A k \in cursor .. nul - 1 : ByteAt(buf, k) # NUL
    PROVE  \A k \in formatted_end .. nul - 1 : ~ DoubleNul(buf, k)
<1> SUFFICES ASSUME NEW k \in formatted_end .. nul - 1
             PROVE  ~ DoubleNul(buf, k)
  OBVIOUS
<1>0. cursor \in Int /\ formatted_end \in Int /\ Len(buf) \in Nat
  BY EndInBuffer, AcceptedHeader DEF StringScan
<1>1. CASE k >= cursor
  BY <1>0, <1>1 DEF DoubleNul
<1>2. CASE k = cursor - 1
  BY <1>0, <1>2 DEF DoubleNul, StringScan
<1>3. CASE k <= cursor - 2
  BY <1>0, <1>3 DEF StringScan
<1> QED
  BY <1>0, <1>1, <1>2, <1>3

\* The next string of the string area is a string.
LEMMA NextStringType ==
    ASSUME TypeOK, NEW nul \in cursor .. Len(buf) - 1
    PROVE  Append(strings, Strip(Slice(buf, cursor, nul))) \in Seq(Seq(Byte))
<1>1. nul \in 0 .. Len(buf)
  BY EndInBuffer
<1>2. Slice(buf, cursor, nul) \in Seq(Byte)
  BY <1>1, EndInBuffer, SliceType
<1>3. Strip(Slice(buf, cursor, nul)) \in Seq(Byte)
  BY <1>2, StripType
<1> QED
  BY <1>3, AppendProperties DEF TypeOK

\* The two invariants hold when the call begins.
LEMMA TypeInit == Init => TypeOK /\ StringScan
<1> SUFFICES ASSUME Init PROVE TypeOK /\ StringScan
  OBVIOUS
<1>1. buf \in Seq(Byte) /\ Len(buf) \in Nat
  BY WalkTables, LenProperties DEF Init
<1>2. error \in [message : Messages, offset : Int]
  BY DEF Init, NoError, Messages
<1> QED
  BY <1>1, <1>2, EmptySeq DEF Init, TypeOK, StringScan

\* They are kept by every step, and need each other: StringScan keeps the bytes of
\* the header in range until they are used again by structures.append.
LEMMA TypeStep == TypeOK /\ StringScan /\ [Next]_vars => TypeOK' /\ StringScan'
<1> SUFFICES ASSUME TypeOK, StringScan, [Next]_vars
             PROVE  TypeOK' /\ StringScan'
  OBVIOUS
<1> USE EndInBuffer
<1>0. offset \in Int /\ cursor \in Int
  OBVIOUS
<1>1. CASE ExitLoop
  BY <1>1 DEF ExitLoop, TypeOK, StringScan
<1>2. CASE TruncatedHeader
  BY <1>0, <1>2, RaiseTypes DEF TruncatedHeader, Messages
<1>3. CASE ShortLength
  BY <1>0, <1>3, RaiseTypes DEF ShortLength, Messages
<1>4. CASE FormattedOverrun
  BY <1>0, <1>4, RaiseTypes DEF FormattedOverrun, Messages
<1>5. CASE NoStrings
  <2>1. HeaderOK /\ EmptyStringArea /\ Emit(<< >>, formatted_end + 2)
    BY <1>5 DEF NoStrings
  <2>2. formatted_end + 2 \in formatted_end + 2 .. Len(buf)
    BY <2>1, AcceptedHeader DEF EmptyStringArea, DoubleNul
  <2> QED
    BY <2>1, <2>2, EmptySeq, EmitTypes
<1>6. CASE OpenStrings
  <2>1. HeaderOK /\ formatted_end \in 0 .. Len(buf)
    BY <1>6, AcceptedHeader DEF OpenStrings
  <2>2. TypeOK'
    BY <1>6, <2>1, EmptySeq DEF OpenStrings, TypeOK
  <2>3. /\ HeaderOK' /\ formatted_end' = formatted_end
        /\ cursor' = formatted_end /\ buf' = buf
    BY <1>6, <2>1 DEF OpenStrings, HeaderOK, HeaderFits, formatted_end, length, end
  <2> QED
    BY <2>1, <2>2, <2>3 DEF StringScan
<1>7. CASE ReadString
  <2>1. PICK nul \in cursor .. Len(buf) - 1 :
             /\ IsFirstNul(buf, cursor, nul)
             /\ ~ DoubleNul(buf, nul)
             /\ strings' = Append(strings, Strip(Slice(buf, cursor, nul)))
             /\ cursor' = nul + 1
    BY <1>7 DEF ReadString
  <2>2. HeaderOK /\ formatted_end \in Nat /\ formatted_end <= cursor
    BY <1>7, AcceptedHeader DEF StringScan, ReadString
  <2>3. TypeOK'
    BY <1>7, <2>1, NextStringType DEF ReadString, TypeOK
  <2>4. /\ HeaderOK' /\ formatted_end' = formatted_end /\ buf' = buf
    BY <1>7, <2>2 DEF ReadString, HeaderOK, HeaderFits, formatted_end, length, end
  <2>5. \A k \in formatted_end .. nul - 1 : ~ DoubleNul(buf, k)
    BY <1>7, <2>1, NoDoubleNulBefore DEF ReadString, IsFirstNul
  <2>6. ByteAt(buf, nul) = NUL /\ (nul + 1 < Len(buf) => ByteAt(buf, nul + 1) # NUL)
    BY <2>1 DEF IsFirstNul, DoubleNul
  <2>7. cursor' - 2 = nul - 1 /\ cursor' - 1 = nul
    BY <2>1
  <2> QED
    BY <2>1, <2>2, <2>3, <2>4, <2>5, <2>6, <2>7 DEF StringScan
<1>8. CASE ReadLastString
  <2>1. PICK nul \in cursor .. Len(buf) - 1 :
             /\ IsFirstNul(buf, cursor, nul)
             /\ DoubleNul(buf, nul)
             /\ Emit(Append(strings, Strip(Slice(buf, cursor, nul))), nul + 2)
    BY <1>8 DEF ReadLastString
  <2>2. HeaderOK /\ formatted_end \in Nat /\ formatted_end <= cursor
    BY <1>8, AcceptedHeader DEF StringScan, ReadLastString
  <2>3. nul + 2 \in formatted_end + 2 .. Len(buf)
    BY <2>1, <2>2 DEF DoubleNul
  <2> QED
    BY <2>1, <2>2, <2>3, NextStringType, EmitTypes
<1>9. CASE UnterminatedString
  BY <1>0, <1>9, RaiseTypes DEF UnterminatedString, Messages
<1>10. CASE StringsAtEof
  BY <1>0, <1>10, RaiseTypes DEF StringsAtEof, Messages
<1>11. CASE UNCHANGED vars
  BY <1>11 DEF vars, TypeOK, StringScan, HeaderOK, HeaderFits, formatted_end, length, end
<1>12. CASE Terminating
  BY <1>11, <1>12 DEF Terminating
<1> QED
  BY <1>1, <1>2, <1>3, <1>4, <1>5, <1>6, <1>7, <1>8, <1>9, <1>10, <1>11, <1>12 DEF Next

\* On every table and for every declared length, the scan positions stay inside
\* the bytes that were read and every structure handed to the decoders has a
\* byte for type, a word for handle and bytes for the rest: no access of
\* _walk_structures can be out of range (lines 86-143).
THEOREM TypeCorrect == Spec => []TypeOK
<1>1. TypeOK /\ StringScan => TypeOK
  OBVIOUS
<1> QED
  BY <1>1, TypeInit, TypeStep, PTL DEF Spec

\* The string loop never passes the end of a string area: the double NUL it stops
\* at is the first one after the formatted area (lines 106-127).
THEOREM ScanCorrect == Spec => []StringScan
<1>1. TypeOK /\ StringScan => StringScan
  OBVIOUS
<1> QED
  BY <1>1, TypeInit, TypeStep, PTL DEF Spec

-----------------------------------------------------------------------------
(***************************************************************************)
(* What has been delivered.  Only Emit appends a structure, so the proofs  *)
(* split on Emit against the steps that leave the delivered part alone.    *)
(***************************************************************************)

Delivered == StructuresTileTable /\ OnlyLastOvershoots /\ EndOfTableIsLast

\* Emit extends both histories by one entry and leaves the earlier ones alone.
LEMMA EmitAppends ==
    ASSUME TypeOK, HeaderOK, NEW strs \in Seq(Seq(Byte)),
           NEW next \in formatted_end + 2 .. Len(buf), Emit(strs, next)
    PROVE  /\ Len(structures') = Len(structures) + 1
           /\ Len(extents') = Len(extents) + 1
           /\ \A i \in 1 .. Len(structures) : structures'[i] = structures[i]
           /\ \A i \in 1 .. Len(extents) : extents'[i] = extents[i]
           /\ structures'[Len(structures) + 1] =
                [type |-> type_, handle |-> handle,
                 formatted |-> formatted, strings |-> strs]
           /\ extents'[Len(extents) + 1] =
                [start |-> offset, formatted_end |-> formatted_end, stop |-> next]
           /\ extents' # << >>
<1> DEFINE record == [type |-> type_, handle |-> handle,
                      formatted |-> formatted, strings |-> strs]
           extent == [start |-> offset, formatted_end |-> formatted_end, stop |-> next]
           Record == [type : Byte, handle : Word,
                      formatted : Seq(Byte), strings : Seq(Seq(Byte))]
           Extent == [start : Nat, formatted_end : Nat, stop : Nat]
<1>1. record \in Record
  BY AcceptedHeader
<1>2. extent \in Extent
  BY AcceptedHeader, EndInBuffer
<1>3. structures \in Seq(Record) /\ extents \in Seq(Extent)
  BY DEF TypeOK
<1>4. structures' = Append(structures, record) /\ extents' = Append(extents, extent)
  BY DEF Emit
<1> HIDE DEF record, extent, Record, Extent
<1>5. /\ Len(structures') = Len(structures) + 1
      /\ \A i \in 1 .. Len(structures) : structures'[i] = structures[i]
      /\ structures'[Len(structures) + 1] = record
  BY <1>1, <1>3, <1>4, AppendProperties
<1>6. /\ Len(extents') = Len(extents) + 1
      /\ \A i \in 1 .. Len(extents) : extents'[i] = extents[i]
      /\ extents'[Len(extents) + 1] = extent
      /\ extents' # << >>
  BY <1>2, <1>3, <1>4, AppendProperties
<1> QED
  BY <1>5, <1>6 DEF record, extent

\* Appending the structure that starts at offset, when the loop was about to read
\* it, keeps the tiling, the bound on the string areas and the place of the
\* End-of-Table structure.
LEMMA EmitDelivers ==
    ASSUME TypeOK, Delivered, HeaderOK, offset < end, pc # "returned",
           NEW strs \in Seq(Seq(Byte)), NEW next \in formatted_end + 2 .. Len(buf),
           DoubleNul(buf, next - 2),
           \A k \in formatted_end .. next - 3 : ~ DoubleNul(buf, k),
           Emit(strs, next)
    PROVE  Delivered'
<1> DEFINE n == Len(extents)
<1> USE DEF Delivered
<1>1. n \in Nat /\ Len(structures) = n
  BY LenProperties DEF TypeOK, StructuresTileTable
<1>2. /\ Len(structures') = n + 1 /\ Len(extents') = n + 1 /\ extents' # << >>
      /\ \A i \in 1 .. n : structures'[i] = structures[i] /\ extents'[i] = extents[i]
      /\ structures'[n + 1] = [type |-> type_, handle |-> handle,
                               formatted |-> formatted, strings |-> strs]
      /\ extents'[n + 1] = [start |-> offset, formatted_end |-> formatted_end, stop |-> next]
  BY <1>1, EmitAppends
<1>3. /\ buf' = buf /\ max_length' = max_length /\ offset' = next
      /\ pc' = IF type_ = EndOfTable THEN "returned" ELSE "loop"
  BY DEF Emit, AfterStructure
<1>4. formatted_end \in offset + 4 .. end /\ end \in 0 .. Len(buf) /\ Len(buf) \in Nat
      /\ offset \in Nat
  BY AcceptedHeader, EndInBuffer
<1>5. offset = IF n = 0 THEN 0 ELSE extents[n].stop
  BY <1>1, EmptySeq DEF StructuresTileTable, TypeOK
<1> HIDE DEF n
<1>6. StructuresTileTable'
  <2>1. ASSUME NEW i \in 1 .. n + 1
        PROVE  ExtentOK(i)' /\ RecordOK(i)'
    <3>1. CASE i \in 1 .. n
      <4>1. ExtentOK(i) /\ RecordOK(i)
        BY <1>1, <3>1 DEF StructuresTileTable, n
      <4>2. extents'[i] = extents[i] /\ structures'[i] = structures[i]
        BY <1>2, <3>1
      <4>3. i # 1 => extents'[i - 1] = extents[i - 1]
        <5>1. i # 1 => i - 1 \in 1 .. n
          BY <1>1, <3>1
        <5> QED
          BY <1>2, <5>1
      <4> QED
        BY <1>3, <4>1, <4>2, <4>3 DEF ExtentOK, RecordOK
    <3>2. CASE i = n + 1
      <4> DEFINE e == extents'[i]
      <4>1. /\ e.start = offset /\ e.formatted_end = formatted_end /\ e.stop = next
            /\ structures'[i].type = type_ /\ structures'[i].handle = handle
            /\ structures'[i].formatted = formatted
        BY <1>2, <3>2
      <4>2. e.start = IF i = 1 THEN 0 ELSE extents'[i - 1].stop
        <5>1. CASE n = 0
          BY <1>5, <3>2, <4>1, <5>1
        <5>2. CASE n # 0
          <6>1. i # 1 /\ i - 1 = n /\ n \in 1 .. n
            BY <1>1, <3>2, <5>2
          <6>2. extents'[n] = extents[n]
            BY <1>2, <6>1
          <6> QED
            BY <1>5, <4>1, <5>2, <6>1, <6>2
        <5> QED
          BY <5>1, <5>2
      <4> HIDE DEF e
      <4>3. formatted_end = offset + ByteAt(buf, offset + 1)
        BY DEF formatted_end, length
      <4>4. e.start + 4 <= e.formatted_end /\ e.formatted_end + 2 <= e.stop
        BY <1>4, <4>1
      <4>5. ExtentOK(i)'
        <5>1. e.formatted_end = e.start + ByteAt(buf, e.start + 1)
          BY <4>1, <4>3
        <5>2. e.stop <= Len(buf) /\ DoubleNul(buf, e.stop - 2)
          BY <1>4, <4>1
        <5>3. \A k \in e.formatted_end .. e.stop - 3 : ~ DoubleNul(buf, k)
          BY <4>1
        <5> QED
          BY <1>3, <4>2, <4>4, <5>1, <5>2, <5>3 DEF ExtentOK, e
      <4>6. RecordOK(i)'
        BY <1>3, <4>1 DEF RecordOK, e, type_, handle, formatted
      <4> QED
        BY <4>5, <4>6
    <3> QED
      BY <1>1, <3>1, <3>2
  <2>2. offset' = extents'[n + 1].stop
    BY <1>2, <1>3
  <2> QED
    BY <1>2, <2>1, <2>2 DEF StructuresTileTable
<1>7. OnlyLastOvershoots'
  <2>1. end' = end
    BY <1>3 DEF end
  <2>2. ASSUME NEW i \in 1 .. n + 1
        PROVE  /\ extents'[i].formatted_end <= end
               /\ i < n + 1 => extents'[i].stop < end
    <3>1. CASE i = n + 1
      BY <1>1, <1>2, <1>4, <3>1
    <3>2. CASE i = n
      BY <1>1, <1>2, <1>5, <3>2 DEF OnlyLastOvershoots, n
    <3>3. CASE i \in 1 .. n - 1
      BY <1>1, <1>2, <3>3 DEF OnlyLastOvershoots, n
    <3> QED
      BY <1>1, <3>1, <3>2, <3>3
  <2> QED
    BY <1>2, <2>1, <2>2 DEF OnlyLastOvershoots
<1>8. EndOfTableIsLast'
  <2>1. \A i \in 1 .. n : structures'[i].type # EndOfTable
    BY <1>1, <1>2 DEF EndOfTableIsLast
  <2>2. structures'[n + 1].type = EndOfTable => pc' = "returned"
    BY <1>2, <1>3
  <2>3. \A i \in 1 .. n + 1 : i \in 1 .. n \/ i = n + 1
    BY <1>1
  <2> QED
    BY <1>2, <2>1, <2>2, <2>3 DEF EndOfTableIsLast
<1> QED
  BY <1>6, <1>7, <1>8

\* A step that appends nothing and leaves the loops by return or raise, or stays
\* in them, keeps what has been delivered.
LEMMA OtherStepsKeep ==
    ASSUME Delivered,
           UNCHANGED << buf, max_length, offset, structures, extents >>,
           pc' = pc \/ pc \in {"loop", "strings"}
    PROVE  Delivered'
<1>1. StructuresTileTable'
  BY DEF Delivered, StructuresTileTable, ExtentOK, RecordOK
<1>2. OnlyLastOvershoots'
  BY DEF Delivered, OnlyLastOvershoots, end
<1>3. EndOfTableIsLast'
  BY DEF Delivered, EndOfTableIsLast
<1> QED
  BY <1>1, <1>2, <1>3 DEF Delivered

\* Nothing is delivered when the call begins.
LEMMA DeliveredInit == Init => Delivered
<1> SUFFICES ASSUME Init PROVE Delivered
  OBVIOUS
<1>1. Len(extents) = 0 /\ Len(structures) = 0
  BY DEF Init
<1> QED
  BY <1>1 DEF Init, Delivered, StructuresTileTable, OnlyLastOvershoots, EndOfTableIsLast

\* Every step keeps what has been delivered in order.
LEMMA DeliveredStep ==
    TypeOK /\ StringScan /\ Delivered /\ [Next]_vars => Delivered'
<1> SUFFICES ASSUME TypeOK, StringScan, Delivered, [Next]_vars
             PROVE  Delivered'
  OBVIOUS
<1>1. CASE NoStrings
  <2>1. /\ pc = "loop" /\ offset < end /\ HeaderOK
        /\ DoubleNul(buf, formatted_end) /\ Emit(<< >>, formatted_end + 2)
    BY <1>1 DEF NoStrings, EmptyStringArea
  <2>2. formatted_end \in Int /\ formatted_end + 2 <= Len(buf) /\ Len(buf) \in Nat
    BY <2>1, AcceptedHeader, EndInBuffer DEF DoubleNul
  <2> DEFINE next == formatted_end + 2
  <2>3. Emit(<< >>, next)
    BY <2>1
  <2>4. /\ next \in formatted_end + 2 .. Len(buf)
        /\ next - 2 = formatted_end
        /\ formatted_end .. next - 3 = {}
    BY <2>2
  <2>5. << >> \in Seq(Seq(Byte))
    BY EmptySeq
  <2> HIDE DEF next
  <2>6. /\ DoubleNul(buf, next - 2)
        /\ \A k \in formatted_end .. next - 3 : ~ DoubleNul(buf, k)
    BY <2>1, <2>4
  <2> QED
    BY <2>1, <2>3, <2>4, <2>5, <2>6, EmitDelivers
<1>2. CASE ReadLastString
  <2>1. PICK nul \in cursor .. Len(buf) - 1 :
             /\ IsFirstNul(buf, cursor, nul)
             /\ DoubleNul(buf, nul)
             /\ Emit(Append(strings, Strip(Slice(buf, cursor, nul))), nul + 2)
    BY <1>2 DEF ReadLastString
  <2>2. /\ pc = "strings" /\ HeaderOK /\ offset < end
        /\ formatted_end \in Int /\ formatted_end <= cursor /\ Len(buf) \in Nat
        /\ cursor \in Nat
    BY <1>2, AcceptedHeader, EndInBuffer DEF ReadLastString, StringScan, HeaderOK, HeaderFits
  <2>3. \A k \in formatted_end .. nul - 1 : ~ DoubleNul(buf, k)
    BY <2>1, <2>2, NoDoubleNulBefore DEF IsFirstNul
  <2>4. /\ nul + 2 \in formatted_end + 2 .. Len(buf)
        /\ nul + 2 - 2 = nul /\ nul + 2 - 3 = nul - 1
    BY <2>1, <2>2 DEF DoubleNul
  <2> DEFINE next == nul + 2
  <2>5. /\ next \in formatted_end + 2 .. Len(buf)
        /\ DoubleNul(buf, next - 2)
        /\ \A k \in formatted_end .. next - 3 : ~ DoubleNul(buf, k)
        /\ Emit(Append(strings, Strip(Slice(buf, cursor, nul))), next)
    BY <2>1, <2>3, <2>4
  <2>6. Append(strings, Strip(Slice(buf, cursor, nul))) \in Seq(Seq(Byte))
    BY <2>1, NextStringType
  <2> HIDE DEF next
  <2> QED
    BY <2>2, <2>5, <2>6, EmitDelivers
<1>3. CASE ExitLoop
  BY <1>3, OtherStepsKeep DEF ExitLoop
<1>4. CASE TruncatedHeader
  BY <1>4, OtherStepsKeep DEF TruncatedHeader, Raise
<1>5. CASE ShortLength
  BY <1>5, OtherStepsKeep DEF ShortLength, Raise
<1>6. CASE FormattedOverrun
  BY <1>6, OtherStepsKeep DEF FormattedOverrun, Raise
<1>7. CASE OpenStrings
  BY <1>7, OtherStepsKeep DEF OpenStrings
<1>8. CASE ReadString
  BY <1>8, OtherStepsKeep DEF ReadString
<1>9. CASE UnterminatedString
  BY <1>9, OtherStepsKeep DEF UnterminatedString, Raise
<1>10. CASE StringsAtEof
  BY <1>10, OtherStepsKeep DEF StringsAtEof, Raise
<1>11. CASE UNCHANGED vars
  BY <1>11, OtherStepsKeep DEF vars
<1>12. CASE Terminating
  BY <1>11, <1>12 DEF Terminating
<1> QED
  BY <1>1, <1>2, <1>3, <1>4, <1>5, <1>6, <1>7, <1>8, <1>9, <1>10, <1>11, <1>12 DEF Next

\* The conjunction that is inductive.
IInv == TypeOK /\ StringScan /\ Delivered

\* The inductive invariant holds throughout every call.
LEMMA Invariance == Spec => []IInv
<1>1. Init => IInv
  BY TypeInit, DeliveredInit DEF IInv
<1>2. IInv /\ [Next]_vars => IInv'
  BY TypeStep, DeliveredStep DEF IInv
<1> QED
  BY <1>1, <1>2, PTL DEF Spec

\* On every table, no byte before offset is lost or used twice: the structures
\* delivered are exactly the bytes between their starts and the first double NUL
\* after their formatted areas, one right after the other (lines 91-138).
THEOREM TilingCorrect == Spec => []StructuresTileTable
<1>1. IInv => StructuresTileTable
  BY DEF IInv, Delivered
<1> QED
  BY <1>1, Invariance, PTL

\* On every table, only the string area of the last structure can lie behind the
\* declared length (lines 101 and 116).
THEOREM OvershootCorrect == Spec => []OnlyLastOvershoots
<1>1. IInv => OnlyLastOvershoots
  BY DEF IInv, Delivered
<1> QED
  BY <1>1, Invariance, PTL

\* On every table, nothing follows an End-of-Table structure (lines 140-141).
THEOREM EndOfTableCorrect == Spec => []EndOfTableIsLast
<1>1. IInv => EndOfTableIsLast
  BY DEF IInv, Delivered
<1> QED
  BY <1>1, Invariance, PTL

\* A raise out of the string loop happens only when the area holds no double NUL.
LEMMA StringErrors ==
    ASSUME TypeOK, StringScan, pc = "strings", NEW message \in Messages,
           Raise(message, cursor),
           \A k \in cursor .. Len(buf) - 1 : ByteAt(buf, k) # NUL
    PROVE  ErrorNamesDamage'
<1>1. \A k \in formatted_end .. Len(buf) - 1 : ~ DoubleNul(buf, k)
  BY EndInBuffer, NoDoubleNulBefore
<1>2. /\ HeaderOK /\ cursor \in formatted_end .. Len(buf)
      /\ cursor > formatted_end => ByteAt(buf, cursor - 1) = NUL
  BY DEF StringScan
<1>3. UNCHANGED << buf, max_length, offset >> /\ error'.offset = cursor
  BY DEF Raise
<1>4. HeaderOK' /\ formatted_end' = formatted_end
  BY <1>2, <1>3 DEF HeaderOK, HeaderFits, formatted_end, length, end
<1> QED
  BY <1>1, <1>2, <1>3, <1>4 DEF ErrorNamesDamage

\* Every error of the walk is about bytes that are damaged, and names them
\* (lines 92-127).
THEOREM ErrorsCorrect == Spec => []ErrorNamesDamage
<1>1. Init => ErrorNamesDamage
  BY DEF Init, ErrorNamesDamage
<1>2. IInv /\ ErrorNamesDamage /\ [Next]_vars => ErrorNamesDamage'
  <2> SUFFICES ASSUME TypeOK, StringScan, ErrorNamesDamage, [Next]_vars
               PROVE  ErrorNamesDamage'
    BY DEF IInv
  <2>1. CASE UnterminatedString
    BY <2>1, StringErrors DEF UnterminatedString, Messages
  <2>2. CASE StringsAtEof
    <3>1. \A k \in cursor .. Len(buf) - 1 : ByteAt(buf, k) # NUL
      <4>1. cursor >= Len(buf)
        BY <2>2 DEF StringsAtEof
      <4> QED
        BY <4>1, EndInBuffer
    <3> QED
      BY <2>2, <3>1, StringErrors DEF StringsAtEof, Messages
  <2>3. CASE TruncatedHeader \/ ShortLength \/ FormattedOverrun
    <3>1. ~ HeaderOK
      <4> SUFFICES ASSUME HeaderOK PROVE FALSE
        OBVIOUS
      <4>1. length \in Int /\ formatted_end \in Int /\ end \in Int
        <5>1. length \in Byte /\ formatted_end \in offset + 4 .. end
          BY AcceptedHeader
        <5> QED
          BY <5>1, EndInBuffer DEF Byte
      <4>2. HeaderFits /\ length >= 4 /\ formatted_end <= end
        BY DEF HeaderOK
      <4>3. ~ HeaderFits \/ length < 4 \/ formatted_end > end
        BY <2>3 DEF TruncatedHeader, ShortLength, FormattedOverrun
      <4> QED
        BY <4>1, <4>2, <4>3
    <3>2. error'.offset = offset /\ UNCHANGED << buf, max_length, offset >>
      <4>1. PICK message : Raise(message, offset)
        BY <2>3 DEF TruncatedHeader, ShortLength, FormattedOverrun
      <4> QED
        BY <4>1 DEF Raise
    <3>3. ~ HeaderOK'
      BY <3>1, <3>2 DEF HeaderOK, HeaderFits, formatted_end, length, end
    <3> QED
      BY <3>2, <3>3 DEF ErrorNamesDamage
  <2>4. CASE ExitLoop \/ NoStrings \/ OpenStrings \/ ReadString \/ ReadLastString
    <3>1. pc' # "raised"
      BY <2>4 DEF ExitLoop, NoStrings, OpenStrings, ReadString, ReadLastString,
                  Emit, AfterStructure
    <3> QED
      BY <3>1 DEF ErrorNamesDamage
  <2>5. CASE Terminating \/ UNCHANGED vars
    BY <2>5 DEF Terminating, vars, ErrorNamesDamage, HeaderOK, HeaderFits,
                formatted_end, length, end
  <2> QED
    BY <2>1, <2>2, <2>3, <2>4, <2>5 DEF Next
<1> QED
  BY <1>1, <1>2, Invariance, PTL DEF Spec

(***************************************************************************)
(* What the two loops compute, for every set of tables and declared        *)
(* lengths.  Every step is a step of StructureStream or leaves its         *)
(* variables alone; and when the call is over, it has given what the       *)
(* function Walk of SMBIOSTable gives.                                     *)
(***************************************************************************)


(***************************************************************************)
(* StructureWalk sees SMBIOSTable through instances; Facts is the one the  *)
(* lemmas are stated in.  The definitions are the same.                    *)
(***************************************************************************)

LEMMA SameText ==
    /\ Facts!Byte = Byte /\ Facts!NUL = NUL
    /\ \A b, i : Facts!ByteAt(b, i) = ByteAt(b, i)
    /\ \A b, i, j : Facts!Strip(Facts!Slice(b, i, j)) = Strip(Slice(b, i, j))
    /\ \A b, i, j : Facts!IsFirstNul(b, i, j) <=> IsFirstNul(b, i, j)
BY DEF Facts!Byte, Byte, Facts!NUL, NUL, Facts!ByteAt, ByteAt, Facts!Strip, Strip,
       Facts!Slice, Slice, Facts!Whitespace, Whitespace, Facts!IsFirstNul, IsFirstNul

LEMMA SameWalk ==
    ASSUME NEW b, NEW lim
    PROVE  /\ Layout!Walk(b, lim) = Facts!Walk(b, lim)
           /\ \A ss : Layout!Returned(ss) = Facts!Returned(ss)
           /\ \A m, o : Layout!Raised(m, o) = Facts!Raised(m, o)
<1>1. /\ \A ss : Layout!Returned(ss) = Facts!Returned(ss)
      /\ \A m, o : Layout!Raised(m, o) = Facts!Raised(m, o)
  BY DEF Layout!Returned, Facts!Returned, Layout!Raised, Facts!Raised
<1>2. Layout!Walk(b, lim) = Facts!Walk(b, lim)
  BY Zenon
     DEF Layout!Walk, Facts!Walk, Layout!EndOffset, Facts!EndOffset, Layout!HeaderOK,
         Facts!HeaderOK, Layout!HeaderError, Facts!HeaderError, Layout!StringError,
         Facts!StringError, Layout!EndsStrings, Facts!EndsStrings, Layout!StructureAt,
         Facts!StructureAt, Layout!FormattedEnd, Facts!FormattedEnd, Layout!LengthAt,
         Facts!LengthAt, Layout!TypeAt, Facts!TypeAt, Layout!HandleAt, Facts!HandleAt,
         Layout!ByteAt, Facts!ByteAt, Layout!WordAt, Facts!WordAt, Layout!HeaderSize,
         Facts!HeaderSize, Layout!EndOfTable, Facts!EndOfTable, Layout!Slice, Facts!Slice,
         Layout!StringsIn, Facts!StringsIn, Layout!Strip, Facts!Strip, Layout!Whitespace,
         Facts!Whitespace, Layout!DoubleNul, Facts!DoubleNul, Layout!NUL, Facts!NUL,
         Layout!Returned, Facts!Returned, Layout!Raised, Facts!Raised,
         Layout!Cardinality, Facts!Cardinality
<1> QED
  BY <1>1, <1>2

-----------------------------------------------------------------------------
(***************************************************************************)
(* The loop invariant of the string scan.                                  *)
(***************************************************************************)

\* The loop invariant: the area holds strings, and there is one for each NUL
\* behind cursor.
Collected ==
    pc = "strings" =>
        /\ ~ EmptyStringArea
        /\ \E ends : /\ Facts!NulsAre(buf, formatted_end, cursor, ends)
                     /\ strings = Facts!StringsAt(buf, formatted_end, ends)

LEMMA CollectedStep == IInv /\ Collected /\ [Next]_vars => Collected'
<1> SUFFICES ASSUME TypeOK, StringScan, Collected, [Next]_vars, pc' = "strings"
             PROVE  /\ ~ EmptyStringArea'
                    /\ \E ends : /\ Facts!NulsAre(buf', formatted_end', cursor', ends)
                                 /\ strings' = Facts!StringsAt(buf', formatted_end', ends)
  BY DEF IInv, Collected
<1>1. CASE OpenStrings
  <2>1. /\ HeaderOK /\ buf' = buf /\ cursor' = formatted_end /\ strings' = << >>
        /\ formatted_end' = formatted_end /\ ~ EmptyStringArea'
    BY <1>1 DEF OpenStrings, EmptyStringArea, formatted_end, length
  <2>2. formatted_end \in Nat
    BY <2>1, AcceptedHeader, EndInBuffer
  <2> QED
    BY <2>1, <2>2, Facts!NothingCollected
<1>2. CASE ReadString
  <2>1. PICK nul \in cursor .. Len(buf) - 1 :
             /\ IsFirstNul(buf, cursor, nul)
             /\ strings' = Append(strings, Strip(Slice(buf, cursor, nul)))
             /\ cursor' = nul + 1
    BY <1>2 DEF ReadString
  <2>2. /\ buf' = buf /\ formatted_end' = formatted_end /\ pc = "strings"
        /\ ~ EmptyStringArea'
    BY <1>2 DEF ReadString, Collected, EmptyStringArea, formatted_end, length
  <2>3. PICK ends : /\ Facts!NulsAre(buf, formatted_end, cursor, ends)
                    /\ strings = Facts!StringsAt(buf, formatted_end, ends)
    BY <2>2 DEF Collected
  <2>4. /\ buf \in Seq(Byte) /\ formatted_end \in Nat /\ cursor \in Nat
        /\ formatted_end <= cursor
    BY <2>2, AcceptedHeader, EndInBuffer DEF StringScan
  <2>5. /\ Facts!NulsAre(buf, formatted_end, nul + 1, Append(ends, nul))
        /\ Facts!StringsAt(buf, formatted_end, Append(ends, nul)) =
              Append(Facts!StringsAt(buf, formatted_end, ends), Strip(Slice(buf, cursor, nul)))
    BY <2>1, <2>3, <2>4, Facts!NextString, SameText
  <2> QED
    BY <2>1, <2>2, <2>3, <2>5
<1>3. CASE UNCHANGED vars
  BY <1>3 DEF vars, Collected, EmptyStringArea, formatted_end, length
<1>4. CASE Terminating
  BY <1>3, <1>4 DEF Terminating
<1>5. CASE \/ ExitLoop \/ TruncatedHeader \/ ShortLength \/ FormattedOverrun
           \/ NoStrings \/ ReadLastString \/ UnterminatedString \/ StringsAtEof
  BY <1>5 DEF ExitLoop, TruncatedHeader, ShortLength, FormattedOverrun, NoStrings,
              ReadLastString, UnterminatedString, StringsAtEof, Raise, Emit, AfterStructure
<1> QED
  BY <1>1, <1>2, <1>3, <1>4, <1>5 DEF Next

\* What the refinement needs of a reachable state.
RInv == IInv /\ Collected

LEMMA RefinementInvariant == Spec => []RInv
<1>1. Init => Collected
  BY DEF Init, Collected
<1>2. IInv /\ Collected <=> RInv
  BY DEF RInv
<1> QED
  BY <1>1, <1>2, Invariance, CollectedStep, PTL DEF Spec

-----------------------------------------------------------------------------
(***************************************************************************)
(* Each step of the walk, in the terms of StructureStream.                 *)
(***************************************************************************)

\* What StructureStream takes from SMBIOSTable means what it means here.
LEMMA SameHeaders ==
    /\ Stream!End = end /\ Stream!EndOfTable = EndOfTable
    /\ Stream!FormattedEnd(buf, offset) = formatted_end
    /\ Stream!HeaderOK(buf, offset, Stream!End) <=> HeaderOK
    /\ Stream!TypeAt(buf, offset) = type_
    /\ \A k : Stream!DoubleNul(buf, k) <=> DoubleNul(buf, k)
BY DEF Stream!End, Stream!EndOffset, end, Stream!EndOfTable, EndOfTable,
       Stream!FormattedEnd, formatted_end, Stream!LengthAt, length, Stream!ByteAt, ByteAt,
       Stream!HeaderOK, HeaderOK, HeaderFits, Stream!HeaderSize, Stream!TypeAt, type_,
       Stream!DoubleNul, DoubleNul, Stream!NUL, NUL

LEMMA SameStrings ==
    ASSUME NEW b, NEW f, NEW k
    PROVE  Stream!StringsIn(b, f, k) = Facts!StringsIn(b, f, k)
BY Zenon
   DEF Facts!StringsIn, Stream!StringsIn, Stream!ByteAt, Facts!ByteAt, Stream!NUL,
       Facts!NUL, Stream!Strip, Facts!Strip, Stream!Whitespace, Facts!Whitespace,
       Stream!Slice, Facts!Slice, Stream!Cardinality, Facts!Cardinality

LEMMA SameRecord ==
    ASSUME NEW k
    PROVE  Stream!StructureAt(buf, offset, k) =
             [type |-> type_, handle |-> handle, formatted |-> formatted,
              strings |-> Facts!StringsIn(buf, formatted_end, k)]
<1>1. Stream!FormattedEnd(buf, offset) = formatted_end
  BY SameHeaders
<1>2. /\ Stream!TypeAt(buf, offset) = type_ /\ Stream!HandleAt(buf, offset) = handle
      /\ Stream!Slice(buf, offset + Stream!HeaderSize, formatted_end) = formatted
  BY DEF Stream!TypeAt, type_, Stream!HandleAt, handle, Stream!WordAt, WordAt,
         Stream!ByteAt, ByteAt, Stream!Slice, Slice, Stream!HeaderSize, formatted
<1> QED
  BY <1>1, <1>2, SameStrings DEF Stream!StructureAt

\* structures.append of the strings of a whole area delivers one structure.
LEMMA EmitIsDeliver ==
    ASSUME TypeOK, pc \in {"loop", "strings"}, offset < end, HeaderOK,
           NEW k \in Nat, formatted_end <= k, DoubleNul(buf, k),
           \A j \in formatted_end .. k - 1 : ~ DoubleNul(buf, j),
           Emit(Facts!StringsIn(buf, formatted_end, k), k + 2)
    PROVE  Stream!Deliver
<1>1. formatted_end \in Nat /\ Len(buf) \in Nat /\ k <= Len(buf) - 2
  BY AcceptedHeader, EndInBuffer DEF DoubleNul
<1>2. k \in formatted_end .. Len(buf) - 2
  BY <1>1
<1>3. Stream!EndsStrings(buf, formatted_end, k)
  BY <1>2, SameHeaders DEF Stream!EndsStrings
<1>4. structures' = Append(structures, Stream!StructureAt(buf, offset, k))
  BY SameRecord DEF Emit
<1>5. /\ offset' = k + 2 /\ buf' = buf /\ max_length' = max_length
      /\ pc' = IF type_ = EndOfTable THEN "returned" ELSE "loop"
  BY DEF Emit, AfterStructure
<1>6. (IF pc \in {"loop", "strings"} THEN "reading" ELSE pc) = "reading"
  OBVIOUS
<1>7. (IF pc' \in {"loop", "strings"} THEN "reading" ELSE pc')
        = IF type_ = EndOfTable THEN "returned" ELSE "reading"
  BY <1>5
<1> QED
  BY <1>2, <1>3, <1>4, <1>5, <1>6, <1>7, SameHeaders DEF Stream!Deliver

\* A raise refuses the table when the header or the string area is damaged.
LEMMA RaiseIsReject ==
    ASSUME pc \in {"loop", "strings"}, offset < end,
           NEW message, NEW at, Raise(message, at),
           \/ ~ HeaderOK
           \/ HeaderOK /\ \A k \in formatted_end .. Len(buf) - 2 : ~ DoubleNul(buf, k)
    PROVE  Stream!Reject
<1>1. /\ pc' = "raised"
      /\ UNCHANGED << buf, max_length, offset, structures >>
  BY DEF Raise
<1> QED
  BY <1>1, SameHeaders DEF Stream!Reject

\* The string loop is inside a structure that was accepted.
LEMMA StringLoopState ==
    ASSUME TypeOK, StringScan, pc = "strings"
    PROVE  /\ HeaderOK /\ offset < end
           /\ buf \in Seq(Byte) /\ Len(buf) \in Nat
           /\ formatted_end \in Nat /\ cursor \in Nat /\ formatted_end <= cursor
  BY AcceptedHeader, EndInBuffer DEF StringScan, HeaderOK, HeaderFits

\* When a structure is appended, its string area ends at the first double NUL, and
\* its strings are those of the area.
LEMMA EmitsArea ==
    ASSUME RInv, NoStrings \/ ReadLastString
    PROVE  /\ pc \in {"loop", "strings"} /\ offset < end /\ HeaderOK
           /\ \E k \in Nat :
                /\ formatted_end <= k
                /\ DoubleNul(buf, k)
                /\ \A j \in formatted_end .. k - 1 : ~ DoubleNul(buf, j)
                /\ Emit(Facts!StringsIn(buf, formatted_end, k), k + 2)
<1> USE DEF RInv, IInv
<1>1. CASE NoStrings
  <2>1. /\ pc = "loop" /\ offset < end /\ HeaderOK
        /\ DoubleNul(buf, formatted_end) /\ Emit(<< >>, formatted_end + 2)
    BY <1>1 DEF NoStrings, EmptyStringArea
  <2>2. formatted_end \in Nat
    BY <2>1, AcceptedHeader, EndInBuffer
  <2>3. Facts!StringsIn(buf, formatted_end, formatted_end) = << >>
    BY <2>2, Facts!NumberedStrings
  <2>4. formatted_end .. formatted_end - 1 = {} /\ formatted_end <= formatted_end
    BY <2>2
  <2> QED
    BY <2>1, <2>2, <2>3, <2>4
<1>2. CASE ReadLastString
  <2>0. pc = "strings"
    BY <1>2 DEF ReadLastString
  <2>1. PICK nul \in cursor .. Len(buf) - 1 :
             /\ IsFirstNul(buf, cursor, nul)
             /\ DoubleNul(buf, nul)
             /\ Emit(Append(strings, Strip(Slice(buf, cursor, nul))), nul + 2)
    BY <1>2 DEF ReadLastString
  <2>2. PICK ends : /\ Facts!NulsAre(buf, formatted_end, cursor, ends)
                    /\ strings = Facts!StringsAt(buf, formatted_end, ends)
    BY <2>0 DEF Collected
  <2>3. /\ Facts!NulsAre(buf, formatted_end, nul + 1, Append(ends, nul))
        /\ Facts!StringsAt(buf, formatted_end, Append(ends, nul)) =
              Append(strings, Strip(Slice(buf, cursor, nul)))
    BY <2>0, <2>1, <2>2, StringLoopState, Facts!NextString, SameText
  <2>4. nul \in Nat /\ formatted_end <= nul
    BY <2>0, <2>1, StringLoopState
  <2>5. nul # formatted_end
    BY <2>0, <2>1 DEF Collected, EmptyStringArea
  <2>6. Facts!StringsIn(buf, formatted_end, nul) =
          Append(strings, Strip(Slice(buf, cursor, nul)))
    <3>1. formatted_end \in Nat
      BY <2>0, StringLoopState
    <3>2. Facts!StringsIn(buf, formatted_end, nul) =
            Facts!StringsAt(buf, formatted_end, Append(ends, nul))
      BY <2>3, <2>4, <2>5, <3>1, Facts!NumberedStrings
    <3> QED
      BY <2>3, <3>2
  <2>7. \A k \in formatted_end .. nul - 1 : ~ DoubleNul(buf, k)
    BY <2>0, <2>1, NoDoubleNulBefore DEF IsFirstNul
  <2> QED
    BY <2>0, <2>1, <2>4, <2>6, <2>7, StringLoopState
<1> QED
  BY <1>1, <1>2

\* An error in the header is raised only when the header is not accepted.
LEMMA HeaderErrors ==
    ASSUME TypeOK, TruncatedHeader \/ ShortLength \/ FormattedOverrun
    PROVE  pc = "loop" /\ offset < end /\ ~ HeaderOK /\ \E message : Raise(message, offset)
<1>1. pc = "loop" /\ offset < end /\ \E message : Raise(message, offset)
  BY DEF TruncatedHeader, ShortLength, FormattedOverrun
<1>2. ~ HeaderOK
  <2> SUFFICES ASSUME HeaderOK PROVE FALSE
    OBVIOUS
  <2>1. length \in Int /\ formatted_end \in Int /\ end \in Int
    <3>1. length \in Byte /\ formatted_end \in offset + 4 .. end
      BY AcceptedHeader
    <3> QED
      BY <3>1, EndInBuffer DEF Byte
  <2>2. ~ HeaderFits \/ length < 4 \/ formatted_end > end
    BY DEF TruncatedHeader, ShortLength, FormattedOverrun
  <2> QED
    BY <2>1, <2>2 DEF HeaderOK
<1> QED
  BY <1>1, <1>2

\* An error in the strings is raised only when no NUL follows cursor and the area
\* holds no double NUL.
LEMMA StringLoopErrors ==
    ASSUME RInv, UnterminatedString \/ StringsAtEof
    PROVE  /\ pc = "strings"
           /\ \A k \in cursor .. Len(buf) - 1 : ByteAt(buf, k) # NUL
           /\ \A k \in formatted_end .. Len(buf) - 1 : ~ DoubleNul(buf, k)
           /\ \E message : Raise(message, cursor)
<1> USE DEF RInv, IInv
<1>0. pc = "strings" /\ \E message : Raise(message, cursor)
  BY DEF UnterminatedString, StringsAtEof
<1>1. \A k \in cursor .. Len(buf) - 1 : ByteAt(buf, k) # NUL
  <2>1. CASE UnterminatedString
    BY <2>1 DEF UnterminatedString
  <2>2. CASE StringsAtEof
    <3>1. cursor >= Len(buf) /\ cursor \in Nat /\ Len(buf) \in Nat
      BY <1>0, <2>2, StringLoopState DEF StringsAtEof
    <3> QED
      BY <3>1
  <2> QED
    BY <2>1, <2>2
<1>2. \A k \in formatted_end .. Len(buf) - 1 : ~ DoubleNul(buf, k)
  BY <1>0, <1>1, EndInBuffer, NoDoubleNulBefore
<1> QED
  BY <1>0, <1>1, <1>2

\* The steps that deliver, run out or raise.
LEMMA DeliveriesAreDeliver ==
    ASSUME RInv, NoStrings \/ ReadLastString
    PROVE  Stream!Next
<1>1. TypeOK
  BY DEF RInv, IInv
<1> QED
  BY <1>1, EmitsArea, EmitIsDeliver DEF Stream!Next

LEMMA ExitIsRunOut ==
    ASSUME ExitLoop
    PROVE  Stream!Next
<1>1. /\ pc = "loop" /\ offset >= end /\ pc' = "returned"
      /\ UNCHANGED << buf, max_length, offset, structures >>
  BY DEF ExitLoop
<1> QED
  BY <1>1, SameHeaders DEF Stream!Next, Stream!RunOut

LEMMA ErrorsAreReject ==
    ASSUME RInv, \/ TruncatedHeader \/ ShortLength \/ FormattedOverrun
                 \/ UnterminatedString \/ StringsAtEof
    PROVE  Stream!Next
<1> USE DEF RInv, IInv
<1>1. CASE TruncatedHeader \/ ShortLength \/ FormattedOverrun
  BY <1>1, HeaderErrors, RaiseIsReject DEF Stream!Next
<1>2. CASE UnterminatedString \/ StringsAtEof
  <2>1. /\ pc = "strings" /\ \E message : Raise(message, cursor)
        /\ \A k \in formatted_end .. Len(buf) - 1 : ~ DoubleNul(buf, k)
    BY <1>2, StringLoopErrors
  <2>2. \A k \in formatted_end .. Len(buf) - 2 : ~ DoubleNul(buf, k)
    BY <2>1, StringLoopState
  <2> QED
    BY <2>1, <2>2, StringLoopState, RaiseIsReject DEF Stream!Next
<1> QED
  BY <1>1, <1>2

-----------------------------------------------------------------------------
(***************************************************************************)
(* The refinement.                                                         *)
(***************************************************************************)

LEMMA StepIsAbstract ==
    RInv /\ [Next]_vars => [Stream!Next]_(Stream!vars)
<1> SUFFICES ASSUME RInv, [Next]_vars
             PROVE  Stream!Next \/ UNCHANGED Stream!vars
  OBVIOUS
<1> USE DEF RInv, IInv
<1>0. CASE ExitLoop
  BY <1>0, ExitIsRunOut
<1>1. CASE NoStrings \/ ReadLastString
  BY <1>1, DeliveriesAreDeliver
<1>2. CASE \/ TruncatedHeader \/ ShortLength \/ FormattedOverrun
           \/ UnterminatedString \/ StringsAtEof
  BY <1>2, ErrorsAreReject
<1>3. CASE OpenStrings \/ ReadString
  <2>1. /\ pc \in {"loop", "strings"} /\ pc' \in {"loop", "strings"}
        /\ UNCHANGED << buf, max_length, offset, structures >>
    BY <1>3 DEF OpenStrings, ReadString
  <2> QED
    BY <2>1 DEF Stream!vars
<1>4. CASE Terminating \/ UNCHANGED vars
  BY <1>4 DEF Terminating, vars, Stream!vars
<1> QED
  BY <1>0, <1>1, <1>2, <1>3, <1>4 DEF Next

LEMMA InitIsAbstract == Init => Stream!Init
BY DEF Init, Stream!Init

\* On every table and for every declared length, the two loops of _walk_structures
\* deliver one structure after another as StructureStream does: the same structures
\* with the same strings under the same indices, End-of-Table and damage at the same
\* place (lines 86-143).
THEOREM StepsImplementStream == Spec => Stream!Init /\ [][Stream!Next]_(Stream!vars)
  BY RefinementInvariant, InitIsAbstract, StepIsAbstract, PTL DEF Spec

\* A walk that is over is over for StructureStream.
LEMMA EndsAreEnds == Terminates => Stream!WalkEnds
<1>1. Done => Stream!Over
  BY DEF Done, Stream!Over
<1> QED
  BY <1>1, PTL DEF Terminates, Stream!WalkEnds

\* The walk implements StructureStream; that it ends is what TLC checks.
THEOREM Refinement == Spec /\ Terminates => ImplementsStream
  BY StepsImplementStream, EndsAreEnds, PTL DEF ImplementsStream, Stream!Spec

-----------------------------------------------------------------------------
(***************************************************************************)
(* The invariant of the while loop: what has been delivered, followed by   *)
(* what a walk from offset gives, is what the call has to give.            *)
(***************************************************************************)

Whole == Facts!Walk(buf, max_length)
Ahead == Facts!From(buf, end)

\* Structures that were delivered, in front of the outcome for the rest.
After(ss, r) == IF r.kind = "raised" THEN r ELSE Facts!Returned(ss \o r.structures)

OnTheWay ==
    /\ structures \in Seq(Facts!Structs(buf))
    /\ pc \in {"loop", "strings"} => Whole = After(structures, Ahead[offset])

\* The call gives it when it is over.
GivesWhole ==
    Done => Whole = IF pc = "returned" THEN Facts!Returned(structures)
                    ELSE Facts!Raised(error.message, error.offset)

FunctionInv == OnTheWay /\ GivesWhole

\* The layout functions at offset are what the loop computes there.
LEMMA LayoutAtOffset ==
    /\ Facts!EndOffset(buf, max_length) = end /\ Facts!EndOfTable = EndOfTable
    /\ Facts!FormattedEnd(buf, offset) = formatted_end
    /\ Facts!HeaderOK(buf, offset, end) <=> HeaderOK
    /\ \A k : Facts!DoubleNul(buf, k) <=> DoubleNul(buf, k)
    /\ \A k : Facts!StructureAt(buf, offset, k) =
               [type |-> type_, handle |-> handle, formatted |-> formatted,
                strings |-> Facts!StringsIn(buf, formatted_end, k)]
<1>1. /\ Facts!EndOffset(buf, max_length) = end /\ Facts!EndOfTable = EndOfTable
      /\ Facts!FormattedEnd(buf, offset) = formatted_end
      /\ Facts!HeaderOK(buf, offset, end) <=> HeaderOK
      /\ \A k : Facts!DoubleNul(buf, k) <=> DoubleNul(buf, k)
  BY DEF Facts!EndOffset, end, Facts!EndOfTable, EndOfTable, Facts!FormattedEnd,
         formatted_end, Facts!LengthAt, length, Facts!ByteAt, ByteAt, Facts!HeaderOK,
         HeaderOK, HeaderFits, Facts!HeaderSize, Facts!DoubleNul, DoubleNul,
         Facts!NUL, NUL
<1>2. /\ Facts!TypeAt(buf, offset) = type_ /\ Facts!HandleAt(buf, offset) = handle
      /\ Facts!Slice(buf, offset + Facts!HeaderSize, formatted_end) = formatted
  BY DEF Facts!TypeAt, type_, Facts!HandleAt, handle, Facts!WordAt, WordAt,
         Facts!ByteAt, ByteAt, Facts!Slice, Slice, Facts!HeaderSize, formatted
<1> QED
  BY <1>1, <1>2 DEF Facts!StructureAt

\* One round of the recursion, at offset.
LEMMA AheadAtOffset ==
    ASSUME TypeOK
    PROVE  /\ Ahead[offset] = Facts!Rest(buf, end, Ahead, offset)
           /\ \A o \in Nat : Facts!IsOutcome(buf, Ahead[o])
           /\ Whole = Ahead[0]
<1>1. buf \in Seq(Byte) /\ end \in 0 .. Len(buf) /\ offset \in Nat
  BY EndInBuffer
<1> QED
  BY <1>1, Facts!FromSolves, Facts!FromIsOutcome, Facts!WalkIsFrom,
     SameText, LayoutAtOffset DEF Ahead, Whole

\* Delivering a structure moves it from the outcome ahead to those delivered.
LEMMA EmitMoves ==
    ASSUME TypeOK, OnTheWay, pc \in {"loop", "strings"}, offset < end, HeaderOK,
           NEW k \in Nat, formatted_end <= k, DoubleNul(buf, k),
           \A j \in formatted_end .. k - 1 : ~ DoubleNul(buf, j),
           Emit(Facts!StringsIn(buf, formatted_end, k), k + 2)
    PROVE  FunctionInv'
<1> DEFINE s == Facts!StructureAt(buf, offset, k)
           S == Facts!Structs(buf)
<1>1. /\ formatted_end \in Nat /\ Len(buf) \in Nat /\ offset \in Nat /\ end \in Nat
      /\ buf \in Seq(Byte) /\ k \in formatted_end .. Len(buf) - 2
  BY AcceptedHeader, EndInBuffer DEF DoubleNul
<1>2. /\ structures' = Append(structures, s) /\ offset' = k + 2
      /\ buf' = buf /\ max_length' = max_length
      /\ pc' = IF s.type = EndOfTable THEN "returned" ELSE "loop"
  BY LayoutAtOffset DEF Emit, AfterStructure
<1>3. Facts!Ends(buf, offset) = {k}
  <2>1. k \in Facts!Ends(buf, offset)
    BY <1>1, LayoutAtOffset DEF Facts!Ends, Facts!EndsStrings
  <2>2. ASSUME NEW j \in Facts!Ends(buf, offset) PROVE j = k
    <3>1. /\ j \in formatted_end .. Len(buf) - 2 /\ DoubleNul(buf, j)
          /\ \A i \in formatted_end .. j - 1 : ~ DoubleNul(buf, i)
      BY LayoutAtOffset DEF Facts!Ends, Facts!EndsStrings
    <3> QED
      BY <1>1, <3>1
  <2> QED
    BY <2>1, <2>2
<1>4. /\ s \in S /\ structures \in Seq(S) /\ << s >> \in Seq(S)
      /\ Append(structures, s) = structures \o << s >>
      /\ Append(structures, s) \in Seq(S)
  <2>1. s \in S
    <3>1. Facts!FormattedEnd(buf, offset) \in Nat
      BY <1>1, LayoutAtOffset
    <3> QED
      BY <1>1, <3>1 DEF Facts!Structs
  <2> HIDE DEF s, S
  <2>2. structures \in Seq(S)
    BY DEF OnTheWay, S
  <2> QED
    BY <2>1, <2>2, AppendIsConcat, AppendProperties
<1>5. Ahead[offset] = IF s.type = EndOfTable THEN Facts!Returned(<< s >>)
                      ELSE Facts!Prepend(s, Ahead[k + 2])
  <2>1. ~ (offset >= end)
    BY <1>1
  <2>2. (CHOOSE j \in Facts!Ends(buf, offset) : TRUE) = k
    BY <1>3
  <2> QED
    BY <1>3, <2>1, <2>2, AheadAtOffset, LayoutAtOffset DEF Facts!Rest
<1>6. Whole = After(structures, Ahead[offset])
  BY DEF OnTheWay
<1>7. Whole' = Whole /\ Ahead' = Ahead /\ Facts!Structs(buf)' = S
  BY <1>2 DEF Whole, Ahead, end
<1> HIDE DEF s, S
<1>8. CASE s.type = EndOfTable
  <2>1. Whole = Facts!Returned(structures')
    BY <1>2, <1>4, <1>5, <1>6, <1>8 DEF After, Facts!Returned
  <2>2. pc' = "returned"
    BY <1>2, <1>8
  <2> QED
    BY <1>2, <1>4, <1>7, <2>1, <2>2 DEF FunctionInv, OnTheWay, GivesWhole, Whole
<1>9. CASE s.type # EndOfTable
  <2> DEFINE r == Ahead[k + 2]
  <2>1. Ahead[offset] = Facts!Prepend(s, r) /\ pc' = "loop"
    BY <1>2, <1>5, <1>9
  <2>2. Facts!IsOutcome(buf, r)
    BY AheadAtOffset
  <2> HIDE DEF r
  <2>3. Whole = After(structures', r)
    <3>1. CASE r.kind = "raised"
      BY <1>6, <2>1, <3>1 DEF After, Facts!Prepend
    <3>2. CASE r.kind # "raised"
      <4>1. PICK ss \in Seq(S) : r = Facts!Returned(ss)
        BY <2>2, <3>2 DEF Facts!IsOutcome, S
      <4>2. r.structures = ss
        BY <4>1 DEF Facts!Returned
      <4>3. Ahead[offset] = Facts!Returned(<< s >> \o ss)
        BY <2>1, <3>2, <4>2 DEF Facts!Prepend
      <4>4. Whole = Facts!Returned(structures \o (<< s >> \o ss))
        BY <1>6, <4>3 DEF After, Facts!Returned
      <4>5. structures \o (<< s >> \o ss) = structures' \o ss
        BY <1>2, <1>4, ConcatAssociative, SMTT(30)
      <4> QED
        BY <3>2, <4>2, <4>4, <4>5 DEF After
    <3> QED
      BY <3>1, <3>2
  <2>4. OnTheWay'
    BY <1>2, <1>4, <1>7, <2>1, <2>3 DEF OnTheWay, r
  <2> QED
    BY <2>1, <2>4 DEF FunctionInv, GivesWhole, Done
<1> QED
  BY <1>8, <1>9

\* A raise is the outcome for the rest, and the outcome of the call.
LEMMA RaiseEnds ==
    ASSUME TypeOK, OnTheWay, pc \in {"loop", "strings"},
           NEW message, NEW at, Raise(message, at),
           Ahead[offset] = Facts!Raised(message, at)
    PROVE  FunctionInv'
<1>1. Whole = Facts!Raised(message, at)
  BY DEF OnTheWay, After, Facts!Raised
<1>2. /\ pc' = "raised" /\ error'.message = message /\ error'.offset = at
      /\ UNCHANGED << buf, max_length, structures >>
  BY DEF Raise
<1>3. OnTheWay'
  BY <1>2 DEF OnTheWay, Facts!Structs
<1> QED
  BY <1>1, <1>2, <1>3 DEF FunctionInv, GivesWhole, Whole

\* The three checks of the header are made in the order HeaderError gives them.
LEMMA HeaderRaises ==
    ASSUME RInv, OnTheWay, TruncatedHeader \/ ShortLength \/ FormattedOverrun
    PROVE  FunctionInv'
<1> USE DEF RInv, IInv
<1>1. pc = "loop" /\ offset < end /\ ~ HeaderOK
  BY HeaderErrors
<1>2. offset \in Nat /\ end \in Nat
  BY EndInBuffer
<1>3. Ahead[offset] = Facts!HeaderError(buf, offset, end)
  <2>1. ~ (offset >= end)
    BY <1>1, <1>2
  <2> QED
    BY <1>1, <2>1, AheadAtOffset, LayoutAtOffset DEF Facts!Rest
<1>4. /\ Ahead[offset] = CASE ~ HeaderFits -> Facts!Raised("truncated structure header", offset)
                          [] HeaderFits /\ length < 4
                                -> Facts!Raised("structure length < 4", offset)
                          [] OTHER
                                -> Facts!Raised("formatted area extends past table end", offset)
  <2>1. /\ offset + Facts!HeaderSize > end <=> ~ HeaderFits
        /\ offset + Facts!HeaderSize <= end <=> HeaderFits
        /\ Facts!LengthAt(buf, offset) < Facts!HeaderSize <=> length < 4
    BY <1>2 DEF HeaderFits, Facts!HeaderSize, Facts!LengthAt, length, Facts!ByteAt, ByteAt
  <2> QED
    BY <1>3, <2>1, Zenon DEF Facts!HeaderError
<1>5. CASE TruncatedHeader
  <2>1. ~ HeaderFits /\ Raise("truncated structure header", offset)
    BY <1>5 DEF TruncatedHeader
  <2>2. Ahead[offset] = Facts!Raised("truncated structure header", offset)
    BY <1>4, <2>1
  <2> QED
    BY <1>1, <2>1, <2>2, RaiseEnds
<1>6. CASE ShortLength
  <2>1. HeaderFits /\ length < 4 /\ Raise("structure length < 4", offset)
    BY <1>6 DEF ShortLength
  <2>2. Ahead[offset] = Facts!Raised("structure length < 4", offset)
    BY <1>4, <2>1
  <2> QED
    BY <1>1, <2>1, <2>2, RaiseEnds
<1>7. CASE FormattedOverrun
  <2>1. /\ HeaderFits /\ length >= 4
        /\ Raise("formatted area extends past table end", offset)
    BY <1>7 DEF FormattedOverrun
  <2>2. length \in Int
    <3>1. offset + 4 <= end /\ end \in 0 .. Len(buf) /\ Len(buf) \in Nat
      BY <2>1, EndInBuffer DEF HeaderFits
    <3>2. offset + 1 + 1 \in 1 .. Len(buf)
      BY <1>2, <3>1
    <3>3. buf[offset + 1 + 1] \in Byte
      BY <3>2, EndInBuffer, ElementOfSeq
    <3> QED
      BY <3>3 DEF length, ByteAt, Byte
  <2>3. HeaderFits /\ ~ (length < 4)
    <3> DEFINE n == length
    <3>1. n \in Int /\ n >= 4
      BY <2>1, <2>2
    <3> HIDE DEF n
    <3>2. ~ (n < 4)
      BY <3>1
    <3> QED
      BY <2>1, <3>2 DEF n
  <2>4. Ahead[offset] = Facts!Raised("formatted area extends past table end", offset)
    BY <1>4, <2>3
  <2> QED
    BY <1>1, <2>1, <2>4, RaiseEnds
<1> QED
  BY <1>5, <1>6, <1>7

\* The string loop gives up where StringError says: behind the last NUL.
LEMMA StringRaises ==
    ASSUME RInv, OnTheWay, UnterminatedString \/ StringsAtEof
    PROVE  FunctionInv'
<1> USE DEF RInv, IInv
<1>1. /\ pc = "strings"
      /\ \A k \in cursor .. Len(buf) - 1 : ByteAt(buf, k) # NUL
      /\ \A k \in formatted_end .. Len(buf) - 1 : ~ DoubleNul(buf, k)
  BY StringLoopErrors
<1>2. /\ HeaderOK /\ offset < end /\ offset \in Nat /\ end \in Nat
      /\ Len(buf) \in Nat /\ formatted_end \in Nat /\ cursor \in Nat
      /\ cursor \in formatted_end .. Len(buf)
      /\ cursor > formatted_end => ByteAt(buf, cursor - 1) = NUL
  BY <1>1, StringLoopState, EndInBuffer DEF StringScan
<1> DEFINE message == IF cursor < Len(buf) THEN "string table not terminated"
                      ELSE "string table not terminated (eof)"
           after == {formatted_end} \cup
                    {i + 1 : i \in {j \in formatted_end .. Len(buf) - 1 : ByteAt(buf, j) = NUL}}
<1>3. Raise(message, cursor)
  <2>1. CASE UnterminatedString
    BY <2>1 DEF UnterminatedString
  <2>2. CASE StringsAtEof
    <3>1. cursor >= Len(buf) /\ Raise("string table not terminated (eof)", cursor)
      BY <2>2 DEF StringsAtEof
    <3>2. ~ (cursor < Len(buf))
      <4> DEFINE n == Len(buf)
      <4>1. n \in Nat /\ cursor \in Nat /\ cursor >= n
        BY <1>2, <3>1
      <4> HIDE DEF n
      <4>2. ~ (cursor < n)
        BY <4>1
      <4> QED
        BY <4>2 DEF n
    <3> QED
      BY <3>1, <3>2
  <2> QED
    BY <2>1, <2>2
<1>4. Facts!Ends(buf, offset) = {}
  BY <1>1, <1>2, LayoutAtOffset DEF Facts!Ends, Facts!EndsStrings
<1>5. Ahead[offset] = Facts!StringError(buf, formatted_end)
  <2>1. ~ (offset >= end)
    BY <1>2
  <2> QED
    BY <1>2, <1>4, <2>1, AheadAtOffset, LayoutAtOffset DEF Facts!Rest
<1>6. cursor \in after /\ \A j \in after : j <= cursor
  <2>1. cursor \in after
    <3>1. CASE cursor = formatted_end
      BY <3>1
    <3>2. CASE cursor # formatted_end
      <4>1. /\ cursor - 1 \in formatted_end .. Len(buf) - 1 /\ (cursor - 1) + 1 = cursor
            /\ ByteAt(buf, cursor - 1) = NUL
        BY <1>2, <3>2
      <4> QED
        BY <4>1
    <3> QED
      BY <3>1, <3>2
  <2>2. ASSUME NEW i \in formatted_end .. Len(buf) - 1, ByteAt(buf, i) = NUL
        PROVE  i + 1 <= cursor
    BY <1>1, <1>2, <2>2
  <2> QED
    BY <1>2, <2>1, <2>2
<1>7. (CHOOSE i \in after : \A j \in after : j <= i) = cursor
  <2>1. after \subseteq Int
    BY <1>2
  <2> HIDE DEF after
  <2>2. \A i \in after : (\A j \in after : j <= i) => i = cursor
    BY <1>6, <2>1
  <2> QED
    BY <1>6, <2>2
<1>8. Facts!StringError(buf, formatted_end) = Facts!Raised(message, cursor)
  <2>1. \A j : Facts!ByteAt(buf, j) = ByteAt(buf, j) /\ Facts!NUL = NUL
    BY DEF Facts!ByteAt, ByteAt, Facts!NUL, NUL
  <2> QED
    BY <1>7, <2>1, Zenon DEF Facts!StringError
<1> QED
  BY <1>1, <1>3, <1>5, <1>8, RaiseEnds

\* The loop condition fails: nothing is ahead.
LEMMA ExitReturns ==
    ASSUME RInv, OnTheWay, ExitLoop
    PROVE  FunctionInv'
<1> USE DEF RInv, IInv
<1>1. /\ pc = "loop" /\ offset >= end /\ pc' = "returned"
      /\ UNCHANGED << buf, max_length, structures >>
  BY DEF ExitLoop
<1>2. Ahead[offset] = Facts!Returned(<< >>)
  BY <1>1, AheadAtOffset DEF Facts!Rest
<1>3. structures \o << >> = structures
  BY ConcatEmptySeq DEF OnTheWay
<1>4. Whole = Facts!Returned(structures)
  BY <1>1, <1>2, <1>3 DEF OnTheWay, After, Facts!Returned
<1>5. OnTheWay'
  BY <1>1 DEF OnTheWay, Facts!Structs
<1> QED
  BY <1>1, <1>4, <1>5 DEF FunctionInv, GivesWhole, Whole

LEMMA FunctionInit == Init /\ TypeOK => FunctionInv
<1> SUFFICES ASSUME Init, TypeOK PROVE FunctionInv
  OBVIOUS
<1>1. pc = "loop" /\ offset = 0 /\ structures = << >>
  BY DEF Init
<1>2. Facts!IsOutcome(buf, Ahead[0]) /\ Whole = Ahead[0]
  BY <1>1, AheadAtOffset
<1>3. After(<< >>, Ahead[0]) = Ahead[0]
  <2>1. CASE Ahead[0].kind = "raised"
    BY <2>1 DEF After
  <2>2. CASE Ahead[0].kind # "raised"
    <3>1. PICK ss \in Seq(Facts!Structs(buf)) : Ahead[0] = Facts!Returned(ss)
      BY <1>2, <2>2 DEF Facts!IsOutcome
    <3>2. << >> \o ss = ss
      BY ConcatEmptySeq
    <3> QED
      BY <2>2, <3>1, <3>2 DEF After, Facts!Returned
  <2> QED
    BY <2>1, <2>2
<1>4. << >> \in Seq(Facts!Structs(buf))
  BY EmptySeq
<1> QED
  BY <1>1, <1>2, <1>3, <1>4 DEF FunctionInv, OnTheWay, GivesWhole, Done

LEMMA FunctionStep == RInv /\ FunctionInv /\ [Next]_vars => FunctionInv'
<1> SUFFICES ASSUME RInv, FunctionInv, [Next]_vars
             PROVE  FunctionInv'
  OBVIOUS
<1> USE DEF RInv, IInv
<1>0. OnTheWay
  BY DEF FunctionInv
<1>1. CASE NoStrings \/ ReadLastString
  BY <1>0, <1>1, EmitsArea, EmitMoves
<1>2. CASE TruncatedHeader \/ ShortLength \/ FormattedOverrun
  BY <1>0, <1>2, HeaderRaises
<1>3. CASE UnterminatedString \/ StringsAtEof
  BY <1>0, <1>3, StringRaises
<1>4. CASE ExitLoop
  BY <1>0, <1>4, ExitReturns
<1>5. CASE OpenStrings \/ ReadString
  <2>1. /\ pc \in {"loop", "strings"} /\ pc' \in {"loop", "strings"}
        /\ UNCHANGED << buf, max_length, offset, structures >>
    BY <1>5 DEF OpenStrings, ReadString
  <2>2. Whole' = Whole /\ Ahead' = Ahead /\ Facts!Structs(buf)' = Facts!Structs(buf)
    BY <2>1 DEF Whole, Ahead, end
  <2> QED
    BY <1>0, <2>1, <2>2 DEF FunctionInv, OnTheWay, GivesWhole, Done
<1>6. CASE Terminating \/ UNCHANGED vars
  <2>1. UNCHANGED vars
    BY <1>6 DEF Terminating
  <2>2. Whole' = Whole /\ Ahead' = Ahead /\ Facts!Structs(buf)' = Facts!Structs(buf)
    BY <2>1 DEF vars, Whole, Ahead, end
  <2> QED
    BY <1>0, <2>1, <2>2 DEF vars, FunctionInv, OnTheWay, GivesWhole, Done, Whole
<1> QED
  BY <1>1, <1>2, <1>3, <1>4, <1>5, <1>6 DEF Next

\* On every table and for every declared length, the two loops return or raise what
\* the recursive description of the layout says: the same structures in the same
\* order, or the same message at the same offset (lines 86-143).
THEOREM FunctionCorrect == Spec => []WalkIsFunction
<1>1. Init => FunctionInv
  BY FunctionInit, TypeInit
<1>2. FunctionInv => WalkIsFunction
  BY SameWalk DEF FunctionInv, GivesWhole, Whole, WalkIsFunction
<1> QED
  BY <1>1, <1>2, RefinementInvariant, FunctionStep, PTL DEF Spec
=============================================================================
