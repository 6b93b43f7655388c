----------------------------- MODULE MCSanitizer ----------------------------
(***************************************************************************)
(* Captured tables of one structure of each shape the sanitizer tells      *)
(* apart, with every choice of string indices and a few string areas,      *)
(* followed by another structure, by an End-of-Table, or by both; and the  *)
(* same structures in front of each kind of damage, or damaged themselves. *)
(***************************************************************************)
EXTENDS Sanitizer

\* The bytes of a structure: header, formatted area, string area.
Bytes(type, handle, formatted, area) ==
    << type, HeaderSize + Len(formatted), handle, 0 >> \o formatted \o area

\* No strings, one, two, an empty one before one, a blank one, and the shared
\* prefix of a placeholder.
Areas == {<< 0, 0 >>, << 66, 0, 0 >>, << 66, 0, 67, 67, 0, 0 >>, << 0, 66, 0, 0 >>,
          << 32, 0, 65, 66, 0, 0 >>}

Index == 0 .. 2

\* A formatted area of n bytes with b at offset i and c at offset j.
Area(n, i, b, j, c) ==
    [k \in 1 .. n |-> IF k = i + 1 THEN b ELSE IF k = j + 1 THEN c ELSE 1]

\* System (without a UUID, with the shortest and with a longer formatted area that
\* holds one), baseboard, processor, memory device; a type without secrets.
Shapes ==
    {<< 1, Area(n, 3, b, 0, 1) >> : n \in {4, 19, 20, 23}, b \in Index}
        \cup {<< 2, Area(n, 3, b, 4, c) >> : n \in 4 .. 5, b \in Index, c \in Index}
        \cup {<< 4, Area(30, 28, b, 29, c) >> : b \in Index, c \in Index}
        \cup {<< 17, Area(22, 20, b, 21, c) >> : b \in Index, c \in Index}
        \cup {<< 9, << 1 >> >>}

Structures == {Bytes(s[1], 7, s[2], a) : s \in Shapes, a \in Areas}

End127 == Bytes(127, 254, << >>, << 0, 0 >>)
Second == Bytes(3, 8, << 1, 1, 1, 1, 2 >>, << 68, 0, 69, 0, 0 >>)

\* A header cut short, a length below 4, a formatted area that does not fit, and a
\* structure whose string area is missing, unterminated, or ends in a single NUL.
Damages ==
    {<< 1, 20 >>, << 3, 3, 9, 0, 1, 0, 0 >>, << 1, 60, 9, 0 >> \o Area(30, 3, 1, 0, 1)}
        \cup {Bytes(3, 9, << 1, 1, 1, 1, 2 >>, area) :
                 area \in {<< >>, << 68 >>, << 68, 0 >>, << 68, 0, 69 >>, << 68, 0, 69, 0 >>}}

\* An unterminated string area whose text reads like a structure with a UUID: the
\* sanitizer, which goes on behind its last NUL, takes it for one.
Decoy == Bytes(2, 9, << 1, 1, 1, 1, 2 >>, << 68, 0 >>) \o << 1, 24, 66, 66 >> \o Area(22, 3, 1, 0, 1)

MCTables ==
    {s \o t : s \in Structures, t \in {<< >>, Second, Second \o End127, End127 \o Second}}
        \cup {Second \o s : s \in Structures}
        \cup {s \o d : s \in Structures, d \in Damages \cup {d \o Second : d \in Damages}}
        \cup {Decoy, Second \o Decoy}

\* The whole table; a length that ends in the first structure, wherever the cut is
\* in its header, its formatted area or its strings; one in the second structure.
MCLimits == {0, 3, 9, 27, 40}
=============================================================================
