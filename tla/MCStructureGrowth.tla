------------------------- MODULE MCStructureGrowth --------------------------
(***************************************************************************)
(* Structures of every decoded type at their newest length, filled with    *)
(* bytes that tell offsets apart, with zeros, and with the bytes that are  *)
(* sentinels and escapes.                                                  *)
(***************************************************************************)
EXTENDS StructureGrowth

\* Number of bytes behind the header in the newest version the code knows.
Lengths ==
    0 :> 22 @@ 1 :> 23 @@ 2 :> 10 @@ 3 :> 24 @@ 4 :> 46 @@ 7 :> 23 @@ 9 :> 13
        @@ 16 :> 19 @@ 17 :> 88 @@ 38 :> 14 @@ 43 :> 23

\* The first string is a date, 1/2/24.
MCStrings == << << 49, 47, 50, 47, 50, 52 >>, << 66 >>, << 67 >> >>

\* Distinct bytes, some of them indices into MCStrings.
Ramp(n) == [i \in 1 .. n |-> IF i % 5 < 3 THEN (i % 5) + 1 ELSE 100 + i]
Constant(n, b) == [i \in 1 .. n |-> b]
\* 0x00, 0x80 and 0xFF, 0x7F in turn: the escapes of the size fields.
Alternating(n, a, b) == [i \in 1 .. n |-> IF i % 2 = 1 THEN a ELSE b]

Contents(n) ==
    {Ramp(n), Constant(n, 0), Constant(n, 1), Constant(n, 254), Constant(n, 255),
     Alternating(n, 255, 127), Alternating(n, 127, 255), Alternating(n, 0, 128),
     Alternating(n, 128, 0), Alternating(n, 1, 255), Alternating(n, 254, 2)}

\* Escapes that need one particular value in each of two fields: a ROM of 1 GB (the
\* byte 0xFF, the extended word 0x4001) and a memory array of 0x80000000 KB.
RomInGB == [Constant(22, 255) EXCEPT ![21] = 1, ![22] = 64]
CapacityInBytes == [i \in 1 .. 19 |-> IF i = 7 THEN 128 ELSE IF i < 12 THEN 0 ELSE i]

Structure(t, f) == [type |-> t, handle |-> 7, formatted |-> f, strings |-> MCStrings]

MCWholes ==
    UNION {{Structure(t, f) : f \in Contents(Lengths[t])} : t \in DOMAIN Lengths}
        \cup {Structure(0, RomInGB), Structure(16, CapacityInBytes)}
=============================================================================
