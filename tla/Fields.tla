-------------------------------- MODULE Fields ------------------------------
(***************************************************************************)
(* Reading fields of a formatted area (private/structures.py, lines 20-54).*)
(* A field that lies, even partly, behind the end of the area is None.     *)
(*                                                                         *)
(* TLC computes with 32-bit numbers, the code with unbounded ones: a 32- or *)
(* 64-bit field is the sequence of its 16-bit words, low word first, and   *)
(* an amount of bytes is a count and the unit it is multiplied by.         *)
(***************************************************************************)
EXTENDS DMIBytes

CONSTANT None

ASSUME NoneIsNoNumber == None \notin Int /\ \A n \in {2, 4} : None \notin [1 .. n -> Int]

ASSUME NoneIsNoAmount ==
    \A n \in {1, 2, 4} :
        None \notin [count : [1 .. n -> Int], unit : {"B", "KB", "64KB", "MB", "GB"}]

\* The fields of two records in one.
r ++ s == [x \in DOMAIN r \cup DOMAIN s |-> IF x \in DOMAIN r THEN r[x] ELSE s[x]]

\* buf[i:j], cut short at the end of buf as Python does.
SafeSlice(buf, i, j) == IF i >= Len(buf) THEN << >>
                        ELSE Slice(buf, i, IF j < Len(buf) THEN j ELSE Len(buf))

_u8(buf, offset) == IF offset < Len(buf) THEN ByteAt(buf, offset) ELSE None

\* The fields of n words: _u16, _u32 and _u64.
Words(buf, offset, n) ==
    IF offset + 2 * n > Len(buf) THEN None
    ELSE [i \in 1 .. n |-> WordAt(buf, offset + 2 * (i - 1))]

\* Seeded fault: a word cut in half is read as its low byte.
_u16_half(buf, offset) ==
    IF offset >= Len(buf) THEN None
    ELSE IF offset + 2 > Len(buf) THEN ByteAt(buf, offset) ELSE WordAt(buf, offset)

_u16(buf, offset) == IF offset + 2 > Len(buf) THEN None ELSE WordAt(buf, offset)
_u32(buf, offset) == Words(buf, offset, 2)
_u64(buf, offset) == Words(buf, offset, 4)

Zero(n) == [i \in 1 .. n |-> 0]
Ones(n) == [i \in 1 .. n |-> MaxWord]

\* x or default
Or(x, default) == IF x = None THEN default ELSE x

\* A sentinel that stands for "not provided" becomes None.
Unless(x, sentinel) == IF x = sentinel THEN None ELSE x

\* An amount of bytes: count units, where count is a number or a sequence of words.
Size(count, unit) == [count |-> count, unit |-> unit]

\* 1-based index into the string table; 0 means no string.
_str(strings, index) == IF index = 0 \/ index > Len(strings) THEN << >> ELSE strings[index]

_decode_extended_size(value) == Unless(value, Ones(4))

-----------------------------------------------------------------------------
(***************************************************************************)
(* The record builders: each maps field names to offsets in one go.        *)
(***************************************************************************)

StringFields(raw, at) ==
    [x \in DOMAIN at |-> _str(raw.strings, Or(_u8(raw.formatted, at[x]), 0))]
ByteFields(raw, at) == [x \in DOMAIN at |-> Or(_u8(raw.formatted, at[x]), 0)]

\* Seeded fault: the second word from the field on is read.
WordFieldsLate(raw, at) == [x \in DOMAIN at |-> Or(_u16(raw.formatted, at[x] + 1), 0)]

WordFields(raw, at) == [x \in DOMAIN at |-> Or(_u16(raw.formatted, at[x]), 0)]

\* Fields that stay None when they are missing or hold the sentinel.
OptionalBytes(raw, at, sentinel) ==
    [x \in DOMAIN at |-> Unless(_u8(raw.formatted, at[x]), sentinel)]
OptionalWords(raw, at, sentinel) ==
    [x \in DOMAIN at |-> Unless(_u16(raw.formatted, at[x]), sentinel)]
=============================================================================
