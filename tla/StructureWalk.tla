---------------------------- MODULE StructureWalk ---------------------------
(***************************************************************************)
(* _walk_structures of private/parser.py: the loop over the structure      *)
(* stream, and inside it the loop over one string table.                   *)
(*                                                                         *)
(* Every access to the buffer is made by the same condition, in the same   *)
(* order, as in the code.  buf and max_length are parameters of the call   *)
(* and never change; type_, length, handle, formatted_end and formatted    *)
(* are functions of the buffer and offset, so they are operators here.     *)
(*                                                                         *)
(* extents is a history variable: where each delivered structure starts,   *)
(* where its formatted area ends and where its string area stops.          *)
(***************************************************************************)
EXTENDS DMIBytes

CONSTANTS
    Tables,     \* the contents the DMI file may have
    Limits      \* the values max_length may take

ASSUME WalkTables == Tables \subseteq Seq(Byte)
ASSUME WalkLimits == Limits \subseteq Nat

VARIABLES
    buf, max_length,    \* the arguments
    pc,                 \* "loop", "strings", then "returned" or "raised"
    offset, cursor,     \* the two scan positions
    strings,            \* strings of the structure being read
    structures,         \* structures appended so far
    error,              \* what DMIProtocolError was raised with
    extents             \* history: [start, formatted_end, stop] of each structure

vars == << buf, max_length, pc, offset, cursor, strings, structures, error, extents >>

EndOfTable == 127
\* The DMIProtocolErrors the walk can raise, and "none".
Messages == {"none", "truncated structure header", "structure length < 4",
             "formatted area extends past table end",
             "string table not terminated", "string table not terminated (eof)"}
NoError == [message |-> "none", offset |-> -1]

end == IF 0 < max_length /\ max_length < Len(buf) THEN max_length ELSE Len(buf)

type_ == ByteAt(buf, offset)
length == ByteAt(buf, offset + 1)
handle == WordAt(buf, offset + 2)
formatted_end == offset + length

\* Seeded fault: the header counted twice.
FormattedWithHeader == Slice(buf, offset + 2, formatted_end)
formatted == Slice(buf, offset + 4, formatted_end)

HeaderFits == offset + 4 <= end

\* Seeded fault: the formatted area is checked against the buffer, not the table.
HeaderOKInBuffer == HeaderFits /\ length >= 4 /\ formatted_end <= Len(buf)
HeaderOK == HeaderFits /\ length >= 4 /\ formatted_end <= end

-----------------------------------------------------------------------------

Init ==
    /\ buf \in Tables
    /\ max_length \in Limits
    /\ pc = "loop"
    /\ offset = 0
    /\ cursor = 0
    /\ strings = << >>
    /\ structures = << >>
    /\ error = NoError
    /\ extents = << >>

Raise(message, at) ==
    /\ pc' = "raised"
    /\ error' = [message |-> message, offset |-> at]
    /\ UNCHANGED << buf, max_length, offset, cursor, strings, structures, extents >>

\* while offset < end fails: the table ended without an End-of-Table structure.
ExitLoop ==
    /\ pc = "loop"
    /\ offset >= end
    /\ pc' = "returned"
    /\ UNCHANGED << buf, max_length, offset, cursor, strings, structures, error, extents >>

TruncatedHeader ==
    /\ pc = "loop"
    /\ offset < end
    /\ ~ HeaderFits
    /\ Raise("truncated structure header", offset)

ShortLength ==
    /\ pc = "loop"
    /\ offset < end
    /\ HeaderFits
    /\ length < 4
    /\ Raise("structure length < 4", offset)

FormattedOverrun ==
    /\ pc = "loop"
    /\ offset < end
    /\ HeaderFits
    /\ length >= 4
    /\ formatted_end > end
    /\ Raise("formatted area extends past table end", offset)

\* Seeded fault: the break on End-of-Table is missing.
NeverBreak == "loop"

\* Where the loop goes after a structure: End-of-Table breaks out of it.
AfterStructure == IF type_ = EndOfTable THEN "returned" ELSE "loop"

\* structures.append, offset = cursor, and back to the loop.
Emit(strs, next) ==
    /\ structures' = Append(structures,
                        [type |-> type_, handle |-> handle,
                         formatted |-> formatted, strings |-> strs])
    /\ extents' = Append(extents,
                        [start |-> offset, formatted_end |-> formatted_end, stop |-> next])
    /\ strings' = strs
    /\ cursor' = next
    /\ offset' = next
    /\ pc' = AfterStructure
    /\ UNCHANGED << buf, max_length, error >>

\* Seeded fault: one NUL is taken for an empty string area.
StartsWithNul == formatted_end < Len(buf) /\ ByteAt(buf, formatted_end) = NUL

\* Two NULs right after the formatted area: there are no strings.
EmptyStringArea == DoubleNul(buf, formatted_end)

NoStrings ==
    /\ pc = "loop"
    /\ offset < end
    /\ HeaderOK
    /\ EmptyStringArea
    /\ Emit(<< >>, formatted_end + 2)

OpenStrings ==
    /\ pc = "loop"
    /\ offset < end
    /\ HeaderOK
    /\ ~ EmptyStringArea
    /\ pc' = "strings"
    /\ cursor' = formatted_end
    /\ strings' = << >>
    /\ UNCHANGED << buf, max_length, offset, structures, error, extents >>

\* Seeded fault: the byte after the NUL is skipped.
ReadStringSkipsByte ==
    /\ pc = "strings"
    /\ \E nul \in cursor .. Len(buf) - 1 :
         /\ IsFirstNul(buf, cursor, nul)
         /\ ~ DoubleNul(buf, nul)
         /\ strings' = Append(strings, Strip(Slice(buf, cursor, nul)))
         /\ cursor' = nul + 2
    /\ UNCHANGED << buf, max_length, pc, offset, structures, error, extents >>

\* A string whose NUL is not followed by a second one.
ReadString ==
    /\ pc = "strings"
    /\ \E nul \in cursor .. Len(buf) - 1 :
         /\ IsFirstNul(buf, cursor, nul)
         /\ ~ DoubleNul(buf, nul)
         /\ strings' = Append(strings, Strip(Slice(buf, cursor, nul)))
         /\ cursor' = nul + 1
    /\ UNCHANGED << buf, max_length, pc, offset, structures, error, extents >>

\* Seeded fault: the last string keeps its white space.
ReadLastStringUnstripped ==
    /\ pc = "strings"
    /\ \E nul \in cursor .. Len(buf) - 1 :
         /\ IsFirstNul(buf, cursor, nul)
         /\ DoubleNul(buf, nul)
         /\ Emit(Append(strings, Slice(buf, cursor, nul)), nul + 2)

\* The last string: its NUL and the one after it end the string area.
ReadLastString ==
    /\ pc = "strings"
    /\ \E nul \in cursor .. Len(buf) - 1 :
         /\ IsFirstNul(buf, cursor, nul)
         /\ DoubleNul(buf, nul)
         /\ Emit(Append(strings, Strip(Slice(buf, cursor, nul))), nul + 2)

\* Seeded fault: a failed find retries instead of raising.
UnterminatedStringRetried ==
    /\ pc = "strings"
    /\ cursor < Len(buf)
    /\ \A k \in cursor .. Len(buf) - 1 : ByteAt(buf, k) # NUL
    /\ UNCHANGED vars

\* buf.find returned -1.
UnterminatedString ==
    /\ pc = "strings"
    /\ cursor < Len(buf)
    /\ \A k \in cursor .. Len(buf) - 1 : ByteAt(buf, k) # NUL
    /\ Raise("string table not terminated", cursor)

\* Seeded fault: the string loop stops at the declared end of the table.
StringsAtTableEnd ==
    /\ pc = "strings"
    /\ cursor >= end
    /\ Raise("string table not terminated (eof)", cursor)

\* The buffer ended where a string or the second NUL was expected.
StringsAtEof ==
    /\ pc = "strings"
    /\ cursor >= Len(buf)
    /\ Raise("string table not terminated (eof)", cursor)

Done == pc \in {"returned", "raised"}

\* The call is over; lets deadlock checking speak of the other states.
Terminating == Done /\ UNCHANGED vars

Next ==
    \/ ExitLoop \/ TruncatedHeader \/ ShortLength \/ FormattedOverrun
    \/ NoStrings \/ OpenStrings \/ ReadString \/ ReadLastString
    \/ UnterminatedString \/ StringsAtEof
    \/ Terminating

\* A running Python function keeps taking steps.
Spec == Init /\ [][Next]_vars /\ WF_vars(Next)

-----------------------------------------------------------------------------

\* Each variable keeps the kind of value the code gives it; the scan positions
\* never leave the buffer (lines 88-138).
TypeOK ==
    /\ buf \in Tables
    /\ max_length \in Limits
    /\ pc \in {"loop", "strings", "returned", "raised"}
    /\ offset \in 0 .. Len(buf)
    /\ cursor \in 0 .. Len(buf)
    /\ strings \in Seq(Seq(Byte))
    /\ structures \in Seq([type : Byte, handle : Word,
                            formatted : Seq(Byte), strings : Seq(Seq(Byte))])
    /\ error \in [message : Messages, offset : Int]
    /\ extents \in Seq([start : Nat, formatted_end : Nat, stop : Nat])

\* The string loop never runs past the end of a string area: behind cursor there
\* is the header it started from and no double NUL, and a string starts at cursor
\* (the single NUL before it is the one buf.find returned, lines 116-125).
StringScan ==
    pc = "strings" =>
        /\ HeaderOK
        /\ cursor \in formatted_end .. Len(buf)
        /\ \A k \in formatted_end .. cursor - 2 : ~ DoubleNul(buf, k)
        /\ cursor > formatted_end =>
              /\ ByteAt(buf, cursor - 1) = NUL
              /\ cursor < Len(buf) => ByteAt(buf, cursor) # NUL

\* The extent of structure i is what the bytes at its start say, its string area
\* is closed by the first double NUL, and it starts where the one before stops.
ExtentOK(i) ==
    LET e == extents[i]
    IN  /\ e.start = IF i = 1 THEN 0 ELSE extents[i - 1].stop
        /\ e.formatted_end = e.start + ByteAt(buf, e.start + 1)
        /\ e.start + 4 <= e.formatted_end
        /\ e.formatted_end + 2 <= e.stop
        /\ e.stop <= Len(buf)
        /\ DoubleNul(buf, e.stop - 2)
        /\ \A k \in e.formatted_end .. e.stop - 3 : ~ DoubleNul(buf, k)

\* The record of structure i holds the bytes of its extent and nothing else.
RecordOK(i) ==
    LET e == extents[i]
    IN  /\ structures[i].type = ByteAt(buf, e.start)
        /\ structures[i].handle = WordAt(buf, e.start + 2)
        /\ structures[i].formatted = Slice(buf, e.start + 4, e.formatted_end)

\* The delivered structures tile the table from its first byte to offset: no byte
\* is skipped, none is read as part of two structures, and the scan never
\* resynchronises in the middle of a string area (the while loop and the
\* offset = cursor assignment, lines 91-138).
StructuresTileTable ==
    /\ Len(extents) = Len(structures)
    /\ offset = IF extents = << >> THEN 0 ELSE extents[Len(extents)].stop
    /\ \A i \in 1 .. Len(extents) : ExtentOK(i) /\ RecordOK(i)

\* Every formatted area lies within the declared table, and only the string
\* area of the last structure may run past it, because the string loop tests
\* len(buf) and not end (lines 101 and 116).
OnlyLastOvershoots ==
    \A i \in 1 .. Len(extents) :
        /\ extents[i].formatted_end <= end
        /\ i < Len(extents) => extents[i].stop < end

\* An End-of-Table structure ends the walk: nothing is delivered after it and the
\* call returns even when the bytes after it are garbage (lines 140-141).
EndOfTableIsLast ==
    \A i \in 1 .. Len(structures) :
        structures[i].type = EndOfTable => i = Len(structures) /\ pc = "returned"

\* A raised error names the place of the damage: the header of the structure
\* being read, or a place in its string area behind the last string that was
\* complete; no structure of the table is lost before it (lines 92-127).
ErrorNamesDamage ==
    pc = "raised" =>
        \/ error.offset = offset /\ ~ HeaderOK
        \/ /\ HeaderOK
           /\ error.offset \in formatted_end .. Len(buf)
           /\ error.offset > formatted_end => ByteAt(buf, error.offset - 1) = NUL
           /\ \A k \in formatted_end .. Len(buf) - 1 : ~ DoubleNul(buf, k)

\* The string scan implements one-structure-at-a-time delivery: same structures,
\* same strings under the same indices, same accepted and rejected tables.
Stream == INSTANCE StructureStream WITH
    table <- buf, limit <- max_length, position <- offset,
    status <- IF pc \in {"loop", "strings"} THEN "reading" ELSE pc

ImplementsStream == Stream!Spec

\* The loops compute the function Walk: the same structures in the same order, or
\* the same error at the same offset, for every table and declared length.
Layout == INSTANCE SMBIOSTable

WalkIsFunction ==
    Done => Layout!Walk(buf, max_length) =
                IF pc = "returned" THEN Layout!Returned(structures)
                ELSE Layout!Raised(error.message, error.offset)

\* Every walk ends, on every table: the two nested loops cannot run forever.
Terminates == <>Done
=============================================================================
