-------------------------- MODULE MCEntryPointFile --------------------------
(***************************************************************************)
(* Entry points for EntryPointFile: both versions, with the table length   *)
(* of MaxLengths (below 2^31, the largest number TLC computes with), a 2.x *)
(* file without its intermediate anchor, and anchors that are none.        *)
(***************************************************************************)
EXTENDS EntryPointFile

\* n bytes that tell offsets apart.
Filler(n) == [i \in 1 .. n |-> 100 + i]

MaxLengths == {<< 0, 0, 0, 0 >>, << 16, 1, 0, 0 >>, << 255, 255, 255, 127 >>}

SM3(len) == AnchorSM3 \o << 1, 24, 3, 6, 0, 1, 0 >> \o len \o Filler(8)
SM2(dmi, len) ==
    AnchorSM2 \o << 1, 31, 2, 8, 9, 9, 0 >> \o Filler(5) \o dmi \o << 7 >> \o len \o Filler(9)

MCFiles ==
    {SM3(len) : len \in MaxLengths}
        \cup {SM2(AnchorDMI, << 64, 1 >>), SM2(AnchorDMI, << 255, 255 >>),
              SM2(Filler(5), << 64, 1 >>),
              << 95, 83, 77, 51 >> \o Filler(28), Filler(32)}
=============================================================================
