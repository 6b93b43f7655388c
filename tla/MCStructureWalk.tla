-------------------------- MODULE MCStructureWalk ---------------------------
(***************************************************************************)
(* Small tables for StructureWalk.  ShortTables is every byte string up to *)
(* MaxShort bytes over an alphabet in which one byte can be a NUL, a       *)
(* length, or the End-of-Table type.  PairTables is one structure followed *)
(* by a second, possibly damaged one: headers of every kind the code       *)
(* tells apart, then every string area up to a bound.                      *)
(***************************************************************************)
EXTENDS StructureWalk, SequencesExt

MaxShort == 6

ShortTables == BoundedSeq({0, 4, 127}, MaxShort)

\* type, length, handle: an ordinary structure, one with a byte of data, an
\* End-of-Table, and three headers the walk must refuse.
Headers == {<<1, 4, 7, 0>>, <<2, 5, 8, 1, 9>>, <<127, 4, 254, 255>>}
BadHeaders == {<<1, 3, 7, 0>>, <<1, 40, 7, 0>>, <<1, 4>>}

\* String areas over NUL, space and a letter, and longer ones without the space:
\* long enough for three strings.
Areas == BoundedSeq({0, 32, 65}, 3) \cup BoundedSeq({0, 65}, 6)
ShortAreas == BoundedSeq({0, 65}, 2)

Firsts == {h \o a : h \in Headers, a \in Areas}
Seconds == {h \o a : h \in Headers, a \in ShortAreas}

PairTables == {s \o t : s \in Firsts, t \in Seconds \cup BadHeaders \cup {<< >>}}

MCTables == ShortTables \cup PairTables

\* No declared length, one that cuts the second structure, one that cuts its
\* string area, and one past the end of every table.
MCLimits == {0, 8, 11, 40}
=============================================================================
