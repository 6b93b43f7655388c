----------------------------- MODULE SMBIOSTable ----------------------------
(***************************************************************************)
(* The layout of an SMBIOS structure table, as functions of its bytes.     *)
(* The table is a chain of structures.  A structure is a header (type,     *)
(* length, handle), a formatted area that reaches length bytes from its    *)
(* start, and everything up to and including the first two consecutive     *)
(* NULs after that; the bytes before them are NUL-terminated strings.      *)
(*                                                                         *)
(* Walk is the whole of _walk_structures as one function: what the call    *)
(* returns or raises on given arguments.                                   *)
(***************************************************************************)
EXTENDS DMIBytes

EndOfTable == 127
HeaderSize == 4

\* end = min(len(buf), max_length) if max_length > 0 else len(buf)
EndOffset(buf, lim) == IF 0 < lim /\ lim < Len(buf) THEN lim ELSE Len(buf)

\* The fields of the header at offset o.
TypeAt(buf, o)   == ByteAt(buf, o)
LengthAt(buf, o) == ByteAt(buf, o + 1)
HandleAt(buf, o) == WordAt(buf, o + 2)
FormattedEnd(buf, o) == o + LengthAt(buf, o)

\* A structure can start at o: header and formatted area lie before end.
HeaderOK(buf, o, end) ==
    /\ o + HeaderSize <= end
    /\ LengthAt(buf, o) >= HeaderSize
    /\ FormattedEnd(buf, o) <= end

\* Seeded fault: a NUL at the end of the bytes needs no second one.
EndsStringsAtEof(buf, f, k) ==
    /\ k \in f .. Len(buf) - 1
    /\ ByteAt(buf, k) = NUL
    /\ k + 1 = Len(buf) \/ DoubleNul(buf, k)
    /\ \A j \in f .. k - 1 : ~ DoubleNul(buf, j)

\* The string area that starts at f ends with the two NULs at k.
EndsStrings(buf, f, k) ==
    /\ k \in f .. Len(buf) - 2
    /\ DoubleNul(buf, k)
    /\ \A j \in f .. k - 1 : ~ DoubleNul(buf, j)

\* The strings of the area from f to the double NUL at k: one per NUL from f to
\* k, except that an area that is nothing but the double NUL holds none.
StringsIn(buf, f, k) ==
    LET nuls == IF k = f THEN {} ELSE {i \in f .. k : ByteAt(buf, i) = NUL}
        Upto(i) == {j \in nuls : j <= i}
        Nth(n) == CHOOSE i \in nuls : Cardinality(Upto(i)) = n
        Start(n) == IF n = 1 THEN f ELSE Nth(n - 1) + 1
    IN  [n \in 1 .. Cardinality(nuls) |-> Strip(Slice(buf, Start(n), Nth(n)))]

\* The RawStructure whose header is at o and whose terminator is at k.
StructureAt(buf, o, k) ==
    [type      |-> TypeAt(buf, o),
     handle    |-> HandleAt(buf, o),
     formatted |-> Slice(buf, o + HeaderSize, FormattedEnd(buf, o)),
     strings   |-> StringsIn(buf, FormattedEnd(buf, o), k)]

-----------------------------------------------------------------------------

\* The outcomes of a call of _walk_structures.
Returned(structures) == [kind |-> "returned", structures |-> structures]
Raised(message, offset) == [kind |-> "raised", message |-> message, offset |-> offset]

\* Seeded fault: a table that stops inside a header is taken for complete.
HeaderErrorAtEnd(buf, o, end) ==
    IF o + HeaderSize > end THEN Returned(<< >>)
    ELSE Raised("formatted area extends past table end", o)

\* What is wrong with the header at o, in the order the code asks.
HeaderError(buf, o, end) ==
    CASE o + HeaderSize > end -> Raised("truncated structure header", o)
      [] o + HeaderSize <= end /\ LengthAt(buf, o) < HeaderSize
            -> Raised("structure length < 4", o)
      [] OTHER -> Raised("formatted area extends past table end", o)

\* The area from f holds no double NUL: the error names the byte after its last NUL.
StringError(buf, f) ==
    LET after == {f} \cup {i + 1 : i \in {j \in f .. Len(buf) - 1 : ByteAt(buf, j) = NUL}}
        cursor == CHOOSE i \in after : \A j \in after : j <= i
    IN  Raised(IF cursor < Len(buf) THEN "string table not terminated"
                                    ELSE "string table not terminated (eof)", cursor)

\* _walk_structures(buf, lim)
Walk(buf, lim) ==
    LET end == EndOffset(buf, lim)
        Ends(o) == {k \in FormattedEnd(buf, o) .. Len(buf) - 1 :
                        EndsStrings(buf, FormattedEnd(buf, o), k)}
        Prepend(s, rest) == IF rest.kind = "raised" THEN rest
                            ELSE Returned(<< s >> \o rest.structures)
        from[o \in Nat] ==
            IF o >= end THEN Returned(<< >>)
            ELSE IF ~ HeaderOK(buf, o, end) THEN HeaderError(buf, o, end)
            ELSE IF Ends(o) = {} THEN StringError(buf, FormattedEnd(buf, o))
            ELSE LET k == CHOOSE k \in Ends(o) : TRUE
                     s == StructureAt(buf, o, k)
                 IN  IF s.type = EndOfTable THEN Returned(<< s >>)
                     ELSE Prepend(s, from[k + 2])
    IN  from[0]
=============================================================================
