-------------------------- MODULE MCReleaseDateText -------------------------
(***************************************************************************)
(* Texts of up to five pieces, enough for three numbers and two slashes.   *)
(* The numbers are the limits of months and days, and years on both sides  *)
(* of the century the two-digit form stands for, leap years and others,    *)
(* some of them with a blank before or behind.                             *)
(***************************************************************************)
EXTENDS ReleaseDateText

Year(n) == TwoDigits(n \div 100) \o TwoDigits(n)

MCPieces ==
    {<< Slash >>, << Space, 50 >>, Year(2000) \o << Space >>}
        \cup {Digit(n) : n \in {0, 2}} \cup {TwoDigits(n) : n \in {29, 30, 68, 69}}
        \cup {Year(n) : n \in {0, 1900, 2000}}

MCDates ==
    {d \in [year : {1900, 1968, 1969, 2000, 2002, 2029, 2030, 2068, 2069},
            month : 1 .. 12, day : {1, 2, 28, 29, 30, 31}] : IsDate(d)}
=============================================================================
