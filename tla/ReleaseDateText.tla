--------------------------- MODULE ReleaseDateText --------------------------
(***************************************************************************)
(* The text of a release date as firmware might come to write it: pieces   *)
(* are put one behind the other, and after each the text is parsed.        *)
(***************************************************************************)
EXTENDS ReleaseDate

CONSTANTS
    Pieces,         \* texts of digits, blanks and slashes
    MaxPieces,      \* how many of them make a text
    Dates           \* dates, as records of year, month and day

ASSUME DateTexts == Pieces \subseteq Seq(Byte)
ASSUME ReleaseDates ==
    /\ Dates \subseteq [year : Nat, month : Nat, day : Nat]
    /\ \A d \in Dates : IsDate(d)

VARIABLES text, pieces

dateVars == << text, pieces >>

DateInit == text = << >> /\ pieces = 0

Write ==
    /\ pieces < MaxPieces
    /\ \E p \in Pieces : text' = text \o p
    /\ pieces' = pieces + 1

Written == pieces = MaxPieces /\ UNCHANGED dateVars

DateNext == Write \/ Written

DateSpec == DateInit /\ [][DateNext]_dateVars

-----------------------------------------------------------------------------

Digit(n) == << 48 + n >>
TwoDigits(n) == Digit((n \div 10) % 10) \o Digit(n % 10)

\* The ways to write a number below 100, a day, and a year.
Short(n) == {TwoDigits(n)} \cup (IF n < 10 THEN {Digit(n)} ELSE {})
Days(n) == Short(n) \cup (IF n < 10 THEN {<< Space >> \o Digit(n)} ELSE {})
Years(n) == {TwoDigits(n \div 100) \o TwoDigits(n)}
                \cup (IF n \in 1969 .. 2068 THEN {TwoDigits(n)} ELSE {})

\* MM/DD/YYYY and MM/DD/YY.
Writings(d) ==
    {m \o << Slash >> \o t \o << Slash >> \o y :
        m \in Short(d.month), t \in Days(d.day), y \in Years(d.year)}

\* The date a text is meant to be, for the texts that write one of Dates.
Meant ==
    LET Meanings == UNION {{<< w, d >> : w \in Writings(d)} : d \in Dates}
    IN  [w \in {m[1] : m \in Meanings} |-> (CHOOSE m \in Meanings : m[1] = w)[2]]

\* A date is read from exactly the texts that write it, in either form and with
\* blanks around them: choosing the format by the length of the last part, before
\* anything is parsed, refuses no date and never reads one in the wrong century,
\* and no text that is not a date of the calendar becomes one (structures.py,
\* lines 57-69).
DatesAreReadAsWritten ==
    LET read == _parse_bios_release_date(text)
        inner == Strip(text)
    IN  /\ inner \in DOMAIN Meant => read = Meant[inner]
        /\ read # None => IsDate(read) /\ inner \in Writings(read)
=============================================================================
