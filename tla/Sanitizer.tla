------------------------------ MODULE Sanitizer -----------------------------
(***************************************************************************)
(* sanitize of tests/fixtures/dmi/_sanitize.py: a second walk over a table *)
(* that overwrites what identifies a machine, in place.  It has its own    *)
(* copy of the structure walk; the parser later reads what it wrote.       *)
(*                                                                         *)
(* One iteration of its loop, one structure, is one step.  Iterations do   *)
(* not see each other except through out and offset.  When the call is     *)
(* over its output may be given to a second call.                          *)
(***************************************************************************)
EXTENDS SMBIOSTable

CONSTANTS
    Tables,     \* captured tables, damaged ones among them
    Limits      \* lengths an entry point may declare for them

ASSUME SanitizerTables == Tables \subseteq Seq(Byte)
ASSUME SanitizerLimits == Limits \subseteq Nat

VARIABLES
    data,       \* what was captured
    out,        \* the copy the call works on
    offset,     \* start of the next structure
    pc,         \* "loop" or "done"
    pass        \* 1 for the call on data, 2 for the call on its output

vars == << data, out, offset, pc, pass >>

\* << type, offset of the string index in the formatted area >>
_SENSITIVE_STRING_FIELDS ==
    {<< 1, 3 >>, << 2, 3 >>, << 2, 4 >>, << 3, 3 >>, << 3, 4 >>,
     << 4, 28 >>, << 4, 29 >>, << 17, 20 >>, << 17, 21 >>}

A == 65     \* ord("A")

\* The loop goes on to the structure at o: the break conditions do not hold.
Visits(buf, o) ==
    /\ o < Len(buf)
    /\ o + HeaderSize <= Len(buf)
    /\ LengthAt(buf, o) >= HeaderSize
    /\ FormattedEnd(buf, o) <= Len(buf)

-----------------------------------------------------------------------------
(***************************************************************************)
(* One iteration, on the structure at o.                                   *)
(***************************************************************************)

\* Seeded fault: the length test is off by the header.
UuidBytesShort(buf, o) ==
    IF TypeAt(buf, o) = 1 /\ FormattedEnd(buf, o) >= o + 28 THEN o + 8 .. o + 23 ELSE {}

\* Offsets of the UUID of a Type 1 structure that is long enough to have one.
UuidBytes(buf, o) ==
    IF TypeAt(buf, o) = 1 /\ FormattedEnd(buf, o) >= o + 24 THEN o + 8 .. o + 23 ELSE {}

\* string_spans and the cursor behind them, from a scan that starts at the formatted end.
NoSpans(buf, o) == [spans |-> << >>, cursor |-> FormattedEnd(buf, o) + 2]

\* The NULs the scan stops at: all of the area up to the first that is followed by
\* another, or all there are.
SpanEnds(buf, f) ==
    LET nuls == {i \in f .. Len(buf) - 1 : ByteAt(buf, i) = NUL}
    IN  {i \in nuls : \A j \in nuls : DoubleNul(buf, j) => i <= j}

\* A span ends at each of them; the cursor is left behind the last, and behind the
\* NUL that follows it.
Spans(buf, o) ==
    LET f == FormattedEnd(buf, o)
        ends == SpanEnds(buf, f)
        last == CHOOSE i \in ends : \A j \in ends : j <= i
        Nth(n) == CHOOSE i \in ends : Cardinality({j \in ends : j <= i}) = n
        Start(n) == IF n = 1 THEN f ELSE Nth(n - 1) + 1
    IN  [spans  |-> [n \in 1 .. Cardinality(ends) |-> [start |-> Start(n), stop |-> Nth(n)]],
         cursor |-> IF ends = {} THEN f
                    ELSE IF DoubleNul(buf, last) THEN last + 2 ELSE last + 1]

Scan(buf, o) ==
    IF DoubleNul(buf, FormattedEnd(buf, o)) THEN NoSpans(buf, o) ELSE Spans(buf, o)

\* Offsets of the strings a sensitive field of this structure refers to.
StringBytes(buf, o) ==
    LET spans == Scan(buf, o).spans
    IN  UNION {LET at == o + HeaderSize + field[2]
               IN  IF at < FormattedEnd(buf, o) /\ ByteAt(buf, at) \in DOMAIN spans
                   THEN spans[ByteAt(buf, at)].start .. spans[ByteAt(buf, at)].stop - 1
                   ELSE {}
               : field \in {f \in _SENSITIVE_STRING_FIELDS : f[1] = TypeAt(buf, o)}}

\* Seeded fault: the replacement takes the NUL along.
OverwriteWithNul(buf, o) ==
    LET uuid == UuidBytes(buf, o)
        strings == StringBytes(buf, o)
    IN  [i \in DOMAIN buf |-> IF i - 1 \in uuid THEN 0
                              ELSE IF i - 1 \in strings \/ i - 2 \in strings THEN A
                              ELSE buf[i]]

Overwrite(buf, o) ==
    LET uuid == UuidBytes(buf, o)
        strings == StringBytes(buf, o)
    IN  [i \in DOMAIN buf |-> IF i - 1 \in uuid THEN 0
                              ELSE IF i - 1 \in strings THEN A
                              ELSE buf[i]]

Scrub ==
    /\ pc = "loop"
    /\ Visits(out, offset)
    /\ out' = Overwrite(out, offset)
    /\ offset' = Scan(out, offset).cursor
    /\ pc' = IF TypeAt(out, offset) = EndOfTable THEN "done" ELSE "loop"
    /\ UNCHANGED << data, pass >>

Stop ==
    /\ pc = "loop"
    /\ ~ Visits(out, offset)
    /\ pc' = "done"
    /\ UNCHANGED << data, out, offset, pass >>

-----------------------------------------------------------------------------

Init ==
    /\ data \in Tables
    /\ out = data
    /\ offset = 0
    /\ pc = "loop"
    /\ pass = 1

\* The sanitized table is sanitized once more.
SanitizeAgain ==
    /\ pc = "done"
    /\ pass = 1
    /\ pass' = 2
    /\ offset' = 0
    /\ pc' = "loop"
    /\ UNCHANGED << data, out >>

Finished == pc = "done" /\ pass = 2 /\ UNCHANGED vars

Next == Scrub \/ Stop \/ SanitizeAgain \/ Finished

Spec == Init /\ [][Next]_vars

-----------------------------------------------------------------------------

\* The 1-based string indices the sensitive fields of structure s hold.
Secrets(s) ==
    {ByteAt(s.formatted, f[2]) : f \in {g \in _SENSITIVE_STRING_FIELDS :
                                           g[1] = s.type /\ g[2] < Len(s.formatted)}}
        \cap DOMAIN s.strings

\* Offsets of the UUID in the formatted area of structure s.
Uuid(s) == IF s.type = 1 /\ Len(s.formatted) >= 20 THEN 4 .. 19 ELSE {}

\* The same structure but for its secrets: the same handle, the same fields but the
\* UUID, as many strings, and every string no sensitive field refers to.
SameStructure(s, t) ==
    /\ << t.type, t.handle >> = << s.type, s.handle >>
    /\ Len(t.formatted) = Len(s.formatted)
    /\ \A k \in 0 .. Len(s.formatted) - 1 :
           k \in Uuid(s) \/ ByteAt(t.formatted, k) = ByteAt(s.formatted, k)
    /\ Len(t.strings) = Len(s.strings)
    /\ \A n \in DOMAIN s.strings \ Secrets(s) : t.strings[n] = s.strings[n]

SameButSecrets(old, new) ==
    /\ Len(new) = Len(old)
    /\ \A i \in DOMAIN old : SameStructure(old[i], new[i])

\* At every moment and for every declared length the parser reads the half-sanitized
\* table as it reads the captured one: where it returned structures it returns the
\* same but for their secrets, also those in front of damage, and damage that made it
\* raise on the whole table still does (_sanitize.py, lines 3-7 and 43-95, against
\* parser.py, lines 86-143).
OnlySecretsChange ==
    \A lim \in Limits :
        LET old == Walk(data, lim)
            new == Walk(out, lim)
        IN  IF old.kind = "returned"
            THEN new.kind = "returned" /\ SameButSecrets(old.structures, new.structures)
            ELSE lim = 0 => new.kind = "raised"

\* Structure s holds no secrets.
NoSecrets(s) ==
    /\ \A n \in Secrets(s) : \A c \in DOMAIN s.strings[n] : s.strings[n][c] = A
    /\ \A k \in Uuid(s) : ByteAt(s.formatted, k) = 0

\* When the call is over no caller of the parser finds a secret in what it wrote,
\* whatever length the entry point declares: the strings of sensitive fields are
\* placeholders and there is no UUID in any structure it could read before.  The
\* sanitizer stops at damage without a word, but never before the parser does
\* (_sanitize.py, lines 43-57 and 75-91).
NoSecretIsLeft ==
    pc = "done" =>
        \A lim \in {l \in Limits : Walk(data, l).kind = "returned"} :
            LET left == Walk(out, lim).structures
            IN  \A i \in DOMAIN left : NoSecrets(left[i])

\* A sanitized table is a fixed point: on a table the parser accepts a second run
\* writes back what it read, so that a fixture can be checked by running the tool on
\* it (lines 37-97).
SecondRunChangesNothing ==
    [][pass = 2 /\ Walk(data, 0).kind = "returned" => out' = out]_vars
=============================================================================
