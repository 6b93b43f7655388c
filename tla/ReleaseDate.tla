----------------------------- MODULE ReleaseDate ----------------------------
(***************************************************************************)
(* _parse_bios_release_date of private/structures.py: text to a date.      *)
(* strptime accepts one or two digits for the month and the day, and a     *)
(* blank in place of the first of the day's; the year has two digits or    *)
(* four, and the code has to say which before it calls.                    *)
(***************************************************************************)
EXTENDS Fields

Slash == 47
Space == 32
Digits == 48 .. 57

\* s.split(sep): what lies before, between and behind the separators.
Split(s, sep) ==
    LET cuts == Ascending({0, Len(s) + 1} \cup {i \in DOMAIN s : s[i] = sep})
    IN  [n \in 1 .. Len(cuts) - 1 |-> SubSeq(s, cuts[n] + 1, cuts[n + 1] - 1)]

\* The number a text of one to four digits stands for; -1 for other texts.
Numeral(t) ==
    LET Value(n) == IF n < Len(t) THEN t[Len(t) - n] - 48 ELSE 0
    IN  IF Len(t) \in 1 .. 4 /\ \A i \in DOMAIN t : t[i] \in Digits
        THEN Value(0) + 10 * Value(1) + 100 * Value(2) + 1000 * Value(3)
        ELSE -1

-----------------------------------------------------------------------------
(***************************************************************************)
(* The fields strptime reads, and the date they make.                      *)
(***************************************************************************)

\* %m and %d have no more than two characters.
ShortNumeral(t) == IF Len(t) <= 2 THEN Numeral(t) ELSE -1
MonthIn(t) == ShortNumeral(t)
DayIn(t) == IF Len(t) = 2 /\ t[1] = Space THEN Numeral(Tail(t)) ELSE ShortNumeral(t)

\* %Y and %y: a year of two digits is one of the hundred years from 1969 on.
LongYear(t) == IF Len(t) = 4 THEN Numeral(t) ELSE -1
ShortYear(t) ==
    IF Len(t) # 2 \/ Numeral(t) = -1 THEN -1
    ELSE Numeral(t) + IF Numeral(t) >= 69 THEN 1900 ELSE 2000

IsLeap(year) == year % 4 = 0 /\ (year % 100 # 0 \/ year % 400 = 0)
DaysIn(month, year) ==
    CASE month \in {4, 6, 9, 11} -> 30
      [] month = 2 -> IF IsLeap(year) THEN 29 ELSE 28
      [] OTHER -> 31

\* What date() accepts.
MAXYEAR == 9999
IsDate(d) ==
    /\ d.year \in 1 .. MAXYEAR
    /\ d.month \in 1 .. 12
    /\ d.day \in 1 .. DaysIn(d.month, d.year)

-----------------------------------------------------------------------------

\* Seeded fault: the length is taken before the blanks are removed.
_parse_unstripped_year(s) ==
    LET parts == Split(Strip(s), Slash)
        last == Split(s, Slash)[Len(parts)]
        date == [year  |-> IF Len(last) = 4 THEN LongYear(parts[3]) ELSE ShortYear(parts[3]),
                 month |-> MonthIn(parts[1]), day |-> DayIn(parts[2])]
    IN  IF Len(parts) # 3 THEN None ELSE IF IsDate(date) THEN date ELSE None

_parse_bios_release_date(s) ==
    LET parts == Split(Strip(s), Slash)
        year(t) == IF Len(t) = 4 THEN LongYear(t) ELSE ShortYear(t)
        date == [year |-> year(parts[3]), month |-> MonthIn(parts[1]), day |-> DayIn(parts[2])]
    IN  IF Len(parts) # 3 THEN None ELSE IF IsDate(date) THEN date ELSE None
=============================================================================
