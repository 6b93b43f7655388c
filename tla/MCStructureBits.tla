--------------------------- MODULE MCStructureBits --------------------------
(***************************************************************************)
(* Every single bit of structures of every decoded type, over a few        *)
(* backgrounds, some of them full of escapes, and all combinations of the  *)
(* bits that are read together.                                            *)
(***************************************************************************)
EXTENDS StructureBits

\* Number of bytes behind the header in the newest version the code knows.
Lengths ==
    0 :> 22 @@ 1 :> 23 @@ 2 :> 10 @@ 3 :> 24 @@ 4 :> 46 @@ 7 :> 23 @@ 9 :> 13
        @@ 16 :> 19 @@ 17 :> 88 @@ 38 :> 14 @@ 43 :> 23

\* Strings that differ, the first of them a date.
MCStrings ==
    << << 49, 47, 50, 47, 50, 52 >>, << 66 >>, << 67 >>, << 68 >>, << 69 >> >>

Structure(t, f) == [type |-> t, handle |-> 7, formatted |-> f, strings |-> MCStrings]

Constant(n, b) == [i \in 1 .. n |-> b]
Ramp(n) == [i \in 1 .. n |-> IF i % 2 = 0 THEN i % 5 ELSE 100 + i]

Backgrounds == UNION {{Structure(t, Constant(Lengths[t], 0)), Structure(t, Constant(Lengths[t], 1)),
                       Structure(t, Constant(Lengths[t], 255)), Structure(t, Ramp(Lengths[t]))}
                      : t \in DOMAIN Lengths}

\* f with the given bytes from an offset on.
Put(f, offset, bytes) ==
    [i \in DOMAIN f |-> IF i - offset \in DOMAIN bytes THEN bytes[i - offset] ELSE f[i]]

\* Every short field holds its escape: a ROM of 1 GB, the family and the counts of a
\* processor, both sizes of a cache, the capacity of an array, the size of a module.
Counts(f) == Put(Put(f, 2, << 254 >>), 31, << 255, 255, 255 >>)
Escaping ==
    {Structure(0, Put(Put(Ramp(22), 5, << 255 >>), 20, << 1, 64 >>)),
     Structure(4, Counts(Ramp(46))), Structure(4, Counts(Constant(46, 0))),
     Structure(7, Put(Ramp(23), 3, << 255, 255, 255, 255 >>)),
     Structure(16, Put(Ramp(19), 3, << 0, 0, 0, 128 >>)),
     Structure(17, Put(Ramp(88), 8, << 255, 127 >>))}

SingleBits ==
    UNION {{[raw |-> r, bits |-> {b}] : b \in 0 .. 8 * Len(r.formatted) - 1}
           : r \in Backgrounds \cup Escaping}

\* The bits from a to b of the field at a byte offset.
BitsAt(offset, a, b) == {8 * offset + i : i \in a .. b}

Together(t, group) == [raw |-> Structure(t, Constant(Lengths[t], 0)), bits |-> group]

\* The configuration word of a cache; voltage and status of a processor; the size of
\* a memory device; the BIOS qword with both extension bytes and the byte behind them.
Groups ==
    {Together(7, BitsAt(1, 0, 9)),
     Together(4, BitsAt(13, 0, 7)),
     Together(17, BitsAt(8, 14, 15) \cup BitsAt(24, 0, 1) \cup BitsAt(23, 0, 5)),
     Together(0, BitsAt(6, 2, 5) \cup BitsAt(6, 31, 32) \cup BitsAt(14, 7, 8)
                    \cup BitsAt(14, 14, 16))}

\* A chassis with two or three contained elements of up to three bytes, and an index
\* of a string or none in each of the ten bytes where the SKU number may be.
Chassis ==
    {[raw  |-> Structure(3, Put(Constant(27, 0), 15, << 2 >>)),
      bits |-> {8 * 15} \cup BitsAt(16, 0, 1) \cup {8 * k : k \in 17 .. 26}]}

MCCases == SingleBits \cup Groups \cup Chassis
=============================================================================
