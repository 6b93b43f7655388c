------------------------------ MODULE DMIBytes ------------------------------
(***************************************************************************)
(* Byte strings as the parser handles them.  A Python bytes object is a    *)
(* sequence of bytes; Python counts from 0, TLA+ sequences from 1, and     *)
(* ByteAt and Slice hide the difference so that every offset written in    *)
(* the other modules is the offset written in the code.                    *)
(***************************************************************************)
EXTENDS Integers, Sequences, FiniteSets

Byte == 0 .. 255
MaxWord == 65535
Word == 0 .. MaxWord

NUL == 0

\* buf[i]
ByteAt(buf, i) == buf[i + 1]

\* buf[i:j], for 0 <= i and j <= len(buf)
Slice(buf, i, j) == SubSeq(buf, i + 1, j)

\* struct.unpack_from("<H", buf, i)[0]
WordAt(buf, i) == ByteAt(buf, i) + 256 * ByteAt(buf, i + 1)

\* Offset nul holds the first NUL at or after offset from: buf.find(b"\x00", from)
IsFirstNul(buf, from, nul) ==
    /\ nul \in from .. Len(buf) - 1
    /\ ByteAt(buf, nul) = NUL
    /\ \A k \in from .. nul - 1 : ByteAt(buf, k) # NUL

\* Two NULs in a row at offset k, both inside the buffer.
DoubleNul(buf, k) ==
    /\ k + 1 < Len(buf)
    /\ ByteAt(buf, k) = NUL
    /\ ByteAt(buf, k + 1) = NUL

\* The members of a set of numbers, in ascending order: the n-th has n of them up to it.
Ascending(S) ==
    [n \in 1 .. Cardinality(S) |-> CHOOSE x \in S : Cardinality({y \in S : y <= x}) = n]

\* The characters str.strip() removes among those latin-1 can decode.
Whitespace == (9 .. 13) \cup (28 .. 32) \cup {133, 160}

\* b.decode("latin-1").strip(): leading and trailing white space goes, inner stays.
Strip(b) ==
    LET Ink(i) == b[i] \notin Whitespace
    IN  IF \A i \in 1 .. Len(b) : ~ Ink(i)
        THEN << >>
        ELSE LET first == CHOOSE i \in 1 .. Len(b) :
                              Ink(i) /\ \A j \in 1 .. i - 1 : ~ Ink(j)
                 last  == CHOOSE i \in 1 .. Len(b) :
                              Ink(i) /\ \A j \in i + 1 .. Len(b) : ~ Ink(j)
             IN  SubSeq(b, first, last)
=============================================================================
