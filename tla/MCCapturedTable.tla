--------------------------- MODULE MCCapturedTable --------------------------
(***************************************************************************)
(* Tables of three small structures: two systems, baseboards or caches     *)
(* with one handle, and one other structure before, between or behind      *)
(* them; or a structure, an End-of-Table and a structure the walk must not *)
(* reach.  A product name is one letter.                                   *)
(***************************************************************************)
EXTENDS CapturedTable

MCPrefixes == {<< 77 >>}    \* "M"
MCX10Product == << 88 >>    \* "X"
MCX10Model == << 84 >>      \* "T"
MCUnknown == << 63 >>       \* "?"

\* The bytes of a structure: header, formatted area, string area.
Bytes(type, handle, formatted, area) ==
    << type, HeaderSize + Len(formatted), handle, 0 >> \o formatted \o area

NoArea == << 0, 0 >>
Area(a) == << a, 0, 0 >>

\* Product names M (a platform), X and none; for a baseboard X is the X10.
Systems == {Bytes(1, 1, << 0, 1 >>, Area(77)), Bytes(1, 2, << 0, 1 >>, Area(65))}
Boards == {Bytes(2, 3, << 0, 1 >>, Area(88)), Bytes(2, 4, << 0, 0 >>, Area(88))}
Caches == {Bytes(7, 5, << 0 >>, NoArea), Bytes(7, 5, << 1 >>, Area(76))}
Others == {Bytes(11, 6, << 2 >>, << 65, 0, 66, 0, 0 >>),
           Bytes(16, 7, << 0, 0, 6 >>, NoArea), Bytes(43, 8, << >>, NoArea),
           Bytes(0, 9, << 1 >>, << 0, 66, 0, 0 >>)}
End127 == Bytes(127, 10, << >>, NoArea)

Pieces == Systems \cup Boards \cup Caches \cup Others

\* Two structures of one type, in both orders, with a third one around them.
Twins == {t \in [1 .. 2 -> Pieces] :
             t[1] # t[2] /\ \E kind \in {Systems, Boards, Caches} : {t[1], t[2]} = kind}

MCTables ==
    UNION {{t[1] \o t[2] \o x, t[1] \o x \o t[2], x \o t[1] \o t[2]} :
               t \in Twins, x \in Pieces}
        \cup {x \o End127 \o y : x \in Pieces, y \in Systems}
=============================================================================
