---------------------------- MODULE StructureBits ---------------------------
(***************************************************************************)
(* One bit more, one bit less.  Flags, masks and shifts of many fields are *)
(* packed into the bytes of a structure (structures.py, models.py and      *)
(* enums.py take them apart).  Here single bits of a formatted area flip,  *)
(* each at most once: a group of n bits goes through all its 2^n values,   *)
(* and every step relates two structures that differ in one bit.           *)
(***************************************************************************)
EXTENDS Models

CONSTANT Cases      \* a raw structure, and the bits of its formatted area that may flip

ASSUME RawCases ==
    \A c \in Cases : c.raw \in RawStructure /\ c.bits \subseteq 0 .. 8 * Len(c.raw.formatted) - 1

VARIABLES
    raw,
    bits        \* the bits that have not flipped yet

vars == << raw, bits >>

Init == \E c \in Cases : raw = c.raw /\ bits = c.bits

\* Bit b of a formatted area, counted from bit 0 of its first byte.
IsSet(f, b) == Bit(ByteAt(f, b \div 8), b % 8)

Flipped(f, b) ==
    [f EXCEPT ![b \div 8 + 1] = IF IsSet(f, b) THEN @ - 2 ^ (b % 8) ELSE @ + 2 ^ (b % 8)]

Flip(b) ==
    /\ b \in bits
    /\ bits' = bits \ {b}
    /\ raw' = [raw EXCEPT !.formatted = Flipped(@, b)]

AllFlipped == bits = {} /\ UNCHANGED vars

Next == (\E b \in bits : Flip(b)) \/ AllFlipped

Spec == Init /\ [][Next]_vars

-----------------------------------------------------------------------------

\* The fields and keys on which two records differ.
Differing(r, s) == {x \in DOMAIN r : r[x] # s[x]}

\* The BIOS characteristics extension is all the bytes behind offset 14, the four
\* version bytes included, and the release date is release_date_raw once more.
Overlapping == {"characteristics_extension", "release_date"}

\* No bit is read twice: the offsets of the fields of a structure do not overlap, and
\* where several fields share a byte or a word their masks do not (structures.py,
\* lines 72-583).  An escape gives its own field another value and no other field.
OneBitOneField ==
    [][ Cardinality(Differing(Decode(raw), Decode(raw')) \ Overlapping) <= 1 ]_vars

\* The offsets of the bytes that differ.
Touched(r, s) ==
    {k \in 0 .. Len(r.formatted) - 1 : ByteAt(s.formatted, k) # ByteAt(r.formatted, k)}

\* The short fields that have an escape: the bytes that send the reader elsewhere, and
\* the offset and the length of the wide field they send it to.
Escapes(type) ==
    LET Escape(field, at, escape, wide, length) ==
            [field |-> field, at |-> at, escape |-> escape, wide |-> wide, length |-> length]
    IN  CASE type = 0  -> {Escape("rom_size_bytes", 5, << 255 >>, 20, 2)}
          [] type = 4  -> {Escape("family", 2, << 254 >>, 36, 2),
                           Escape("core_count", 31, << 255 >>, 38, 2),
                           Escape("cores_enabled", 32, << 255 >>, 40, 2),
                           Escape("thread_count", 33, << 255 >>, 42, 2)}
          [] type = 7  -> {Escape("max_size_bytes", 3, << 255, 255 >>, 15, 4),
                           Escape("installed_size_bytes", 5, << 255, 255 >>, 19, 4)}
          [] type = 16 -> {Escape("max_capacity_bytes", 3, << 0, 0, 0, 128 >>, 11, 8)}
          [] type = 17 -> {Escape("size_bytes", 8, << 255, 127 >>, 24, 4)}
          [] OTHER     -> {}

Holds(f, at, bytes) == \A i \in DOMAIN bytes : ByteAt(f, at + i - 1) = bytes[i]

\* An escape is followed, and nothing else is.  Where the wide field is there and the
\* short one holds the escape, each bit of the wide one counts, and a number is the
\* escape itself only if the wide field says so; else no bit of the wide field counts
\* (structures.py, lines 82-103, 241-243, 276-287, 321-337, 401-409, 422-442).  A ROM of
\* 16 MB has two wide forms, and one in an unknown unit is None whatever its count.
EscapesAreFollowed ==
    [][ \A e \in Escapes(raw.type) :
           LET f == raw.formatted
               wide == e.wide .. e.wide + e.length - 1
               old == Decode(raw)[e.field]
               new == Decode(raw')[e.field]
           IN  (wide \subseteq 0 .. Len(f) - 1 /\ Touched(raw, raw') \cap wide # {}) =>
                   IF Holds(f, e.at, e.escape)
                   THEN /\ \/ new # old
                           \/ raw.type = 0 /\ old \in {None, Size(<< 16 >>, "MB")}
                        /\ raw.type = 4 /\ old = e.escape[1] =>
                               Holds(f, e.wide, << e.escape[1], 0 >>)
                   ELSE new = old ]_vars

\* The bytes of the elements a chassis contains: n records of m bytes, from offset 17.
Elements(f) ==
    LET n == ByteAt(f, 15)
        m == ByteAt(f, 16)
    IN  {17 + i * m + j : i \in 0 .. n - 1, j \in 0 .. m - 1}

\* No byte of a contained element is taken for the index of the SKU number, nor a byte
\* further on: of all that lies behind the lengths of the table, the first byte behind
\* its elements is read, and it names the string (structures.py, lines 207-215).
ElementsAreSkipped ==
    [][ \A k \in Touched(raw, raw') :
           (raw.type = 3 /\ k >= 17) =>
               LET skipped == Elements(raw.formatted)
                   behind == k \notin skipped /\ 17 .. k - 1 \subseteq skipped
                   new == Decode(raw')
               IN  /\ Differing(Decode(raw), new) \subseteq IF behind THEN {"sku_number"} ELSE {}
                   /\ behind => new.sku_number = _str(raw.strings, ByteAt(raw'.formatted, k)) ]_vars

\* Nor does a caller's question mix two fields: one bit changes one of the derived
\* properties of a structure and one of its names at most, although five properties
\* share the configuration word of a cache (models.py, lines 129-361).
OneBitOneAnswer ==
    [][ LET Change(Of(_, _)) ==
                Cardinality(Differing(Of(raw.type, Decode(raw)), Of(raw.type, Decode(raw'))))
        IN  Change(Facts) + Change(Names) + Change(FeatureLists) <= 1 ]_vars

\* One list is the other with one element more, somewhere.
OneMore(short, long) == \E i \in DOMAIN long : short = RemoveAt(long, i)

Inserted(a, b) == a = b \/ OneMore(a, b) \/ OneMore(b, a)

\* The elements of a list at the indices of a set.
Picked(list, I) == [n \in 1 .. Cardinality(I) |-> list[Ascending(I)[n]]]

\* The features of the qword in a list of features, and those of the extension.
FromQword(names) == Picked(names, {i \in DOMAIN names : names[i][1] = "qword"})
FromExtension(names) == Picked(names, {i \in DOMAIN names : names[i][1] # "qword"})

\* A feature list follows its bits: one bit adds or removes one name and leaves the
\* others in their order.  The bit "not supported" is the exception, and it is one for
\* the qword only: it stands alone there, and the features of the extension bytes are
\* listed with it and without it (enums.py, lines 609-610, 644-645, 785-786, 820-845).
NamesFollowBits ==
    [][ LET old == FeatureLists(raw.type, Decode(raw))
            new == FeatureLists(raw.type, Decode(raw'))
            Masks(names) == FromQword(names) = Features("qword", << NotSupported >>)
        IN  \A x \in DOMAIN old :
               \/ Inserted(old[x], new[x])
               \/ /\ x = "characteristics_decoded"
                  /\ Masks(old[x]) # Masks(new[x])
                  /\ FromExtension(old[x]) = FromExtension(new[x]) ]_vars

\* The voltage is the highest one that is flagged: in the legacy form one flag more
\* never lowers it (models.py, lines 134-151).
FlagsNeverLowerVoltage ==
    [][ LET old == Decode(raw)
            new == Decode(raw')
            Gained(b) == ~ Bit(old.voltage_raw, b) /\ Bit(new.voltage_raw, b)
        IN  (raw.type = 4 /\ ~ Bit(old.voltage_raw, 7) /\ \E b \in 0 .. 2 : Gained(b)) =>
                 voltage_volts(old) = None \/ voltage_volts(old) <= voltage_volts(new) ]_vars

\* What the docstring of CacheInfo.location_name says: the location of a cache is
\* "Internal, External, Reserved, or Unknown" (models.py, lines 191-192).
LocationIsNamed ==
    raw.type = 7 => location_name(Decode(raw)).kind = "listed"
=============================================================================
