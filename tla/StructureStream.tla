--------------------------- MODULE StructureStream --------------------------
(***************************************************************************)
(* What walking an SMBIOS table promises, without saying how the string    *)
(* tables are scanned: one step delivers one structure.                    *)
(*                                                                         *)
(* The declared table length bounds headers and formatted areas only: the  *)
(* string area of the last structure may run past it, up to the end of the *)
(* bytes that were read.                                                   *)
(***************************************************************************)
EXTENDS SMBIOSTable

CONSTANTS
    Tables,     \* the contents the DMI file may have
    Limits      \* the table lengths an entry point may declare

VARIABLES
    table,      \* the bytes read from the DMI file
    limit,      \* the declared table length, 0 for none
    position,   \* offset of the first byte not delivered yet
    structures, \* the structures delivered, in table order
    status      \* "reading", then "returned" or "raised"

vars == << table, limit, position, structures, status >>

End == EndOffset(table, limit)

-----------------------------------------------------------------------------

Init ==
    /\ table \in Tables
    /\ limit \in Limits
    /\ position = 0
    /\ structures = << >>
    /\ status = "reading"

\* The next structure is well formed; an End-of-Table structure is the last one.
Deliver ==
    /\ status = "reading"
    /\ position < End
    /\ HeaderOK(table, position, End)
    /\ \E k \in FormattedEnd(table, position) .. Len(table) - 2 :
         /\ EndsStrings(table, FormattedEnd(table, position), k)
         /\ structures' = Append(structures, StructureAt(table, position, k))
         /\ position' = k + 2
    /\ status' = IF TypeAt(table, position) = EndOfTable THEN "returned" ELSE "reading"
    /\ UNCHANGED << table, limit >>

\* The table is used up without an End-of-Table structure.
RunOut ==
    /\ status = "reading"
    /\ position >= End
    /\ status' = "returned"
    /\ UNCHANGED << table, limit, position, structures >>

\* What follows is not a structure: the whole call fails.
Reject ==
    /\ status = "reading"
    /\ position < End
    /\ \/ ~ HeaderOK(table, position, End)
       \/ /\ HeaderOK(table, position, End)
          /\ \A k \in FormattedEnd(table, position) .. Len(table) - 2 : ~ DoubleNul(table, k)
    /\ status' = "raised"
    /\ UNCHANGED << table, limit, position, structures >>

Next == Deliver \/ RunOut \/ Reject

\* The call returns or raises: it cannot wait for anything.
Over == status # "reading"
WalkEnds == <>Over

Spec == Init /\ [][Next]_vars /\ WalkEnds
=============================================================================
