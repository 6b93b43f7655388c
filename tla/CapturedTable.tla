---------------------------- MODULE CapturedTable ---------------------------
(***************************************************************************)
(* A table that is there only in part.  The walk sees the end of a table   *)
(* in two ways, the end of the bytes that were read and the length the     *)
(* entry point declares, and either may cut the table short; an End-of-    *)
(* Table structure is not required.  Here both cuts move towards the whole *)
(* table, one byte at a time and in any order, while a caller reads it     *)
(* again and again and holds the last DMIInfo it got.                      *)
(***************************************************************************)
EXTENDS Reader, SMBIOSTable

CONSTANT Tables     \* whole tables, all well formed

ASSUME TablesAreBytes == Tables \subseteq Seq(Byte)
ASSUME TablesAreWellFormed == \A t \in Tables : Walk(t, 0).kind = "returned"

VARIABLES
    whole,          \* the table the firmware wrote
    table_bytes,    \* the part of it that is read
    table_length,   \* the length the entry point declares
    held            \* what the caller's last successful read_dmi returned

vars == << whole, table_bytes, table_length, held >>

Outcome == Walk(table_bytes, table_length)

Init ==
    /\ whole \in Tables
    /\ table_bytes = << >>
    /\ table_length = 1
    /\ held = read_dmi(<< >>)

\* One more byte of the table can be read.
Arrive ==
    /\ Len(table_bytes) < Len(whole)
    /\ table_bytes' = Slice(whole, 0, Len(table_bytes) + 1)
    /\ UNCHANGED << whole, table_length, held >>

\* The declared length covers one more byte.
Declare ==
    /\ table_length < Len(whole)
    /\ table_length' = table_length + 1
    /\ UNCHANGED << whole, table_bytes, held >>

\* read_dmi returns: the caller keeps the DMIInfo instead of the one it held.
Read ==
    /\ Outcome.kind = "returned"
    /\ held' = read_dmi(Outcome.structures)
    /\ UNCHANGED << whole, table_bytes, table_length >>

\* read_dmi raises DMIProtocolError: the caller keeps what it had.
ReadFails ==
    /\ Outcome.kind = "raised"
    /\ UNCHANGED vars

Next == Arrive \/ Declare \/ Read \/ ReadFails

Spec == Init /\ [][Next]_vars

-----------------------------------------------------------------------------

\* A cut table is refused or yields the first structures of the whole one, each of
\* them complete: no structure is delivered with a shortened formatted area or
\* without its last strings (parser.py, lines 92-127).
CutLosesWholeStructures ==
    Outcome.kind = "returned" => IsPrefix(Outcome.structures, Walk(whole, 0).structures)

\* A file cut inside a structure never passes unnoticed: when the walk reaches the
\* end of the bytes and returns, the bytes that are missing are whole structures,
\* those the call did not return (parser.py, lines 91-138).
CutIsBetweenStructures ==
    LET missing == Walk(Slice(whole, Len(table_bytes), Len(whole)), 0)
        Ended == \E i \in DOMAIN Outcome.structures : Outcome.structures[i].type = EndOfTable
    IN  Outcome.kind = "returned" /\ table_length >= Len(table_bytes) /\ ~ Ended =>
            /\ missing.kind = "returned"
            /\ Walk(whole, 0).structures = Outcome.structures \o missing.structures

\* What a caller holds was made of structures that every later call begins with, for
\* all that calls in between may have raised and whichever of the two ends moved.
HeldIsBehind ==
    LET all == Walk(whole, 0).structures
        Seen(n) == SubSeq(all, 1, n)
    IN  \E n \in 0 .. Len(all) :
            /\ held = read_dmi(Seen(n))
            /\ Outcome.kind = "returned" => IsPrefix(Seen(n), Outcome.structures)

\* What was said is said again: singletons stay what they were, lists only grow at
\* their end, a handle that was resolved still names the same cache, and only the X10
\* fallback for tn_model may give way to a product name.
StillSo(old, new) ==
    LET Kept(x) == old[x] \in {None, new[x]}
        Grows(x) == IsPrefix(old[x], new[x])
    IN  /\ Kept("bios") /\ Kept("system")
        /\ \A x \in DOMAIN old \ {"bios", "system", "tn_model"} : Grows(x)
        /\ old.tn_model \in {TRUENAS_UNKNOWN, X10Model, new.tn_model}
        /\ old.tn_model = X10Model /\ old.system # None => new.tn_model = X10Model
        /\ \A h \in {old.caches[i].handle : i \in DOMAIN old.caches} :
                cache_by_handle(old, h) = cache_by_handle(new, h)
        /\ ecc_memory(old) => ecc_memory(new)
        /\ has_ipmi(old) => has_ipmi(new)
        /\ has_tpm(old) => has_tpm(new)

\* Nothing a caller was told is taken back, whatever order more of the table comes
\* into view in (reader.py, lines 21-74; models.py, lines 405-427).
NothingIsTakenBack == [][StillSo(held, held')]_vars
=============================================================================
