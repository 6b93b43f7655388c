----------------------------- MODULE EntryPoint -----------------------------
(***************************************************************************)
(* _parse_entry_point of private/parser.py as a function of the bytes of   *)
(* the smbios_entry_point file.                                            *)
(*                                                                         *)
(* A read past the end of a bytes object is an exception in Python, not a  *)
(* DMIProtocolError.  Reads makes it an outcome of its own, so that the    *)
(* length guards are what keeps it from happening.                         *)
(***************************************************************************)
EXTENDS DMIBytes

\* b"_SM_", b"_SM3_" and b"_DMI_"
AnchorSM2 == << 95, 83, 77, 95 >>
AnchorSM3 == << 95, 83, 77, 51, 95 >>
AnchorDMI == << 95, 68, 77, 73, 95 >>

Accepted(major, minor, revision, table_length) ==
    [kind |-> "entry_point", major |-> major, minor |-> minor,
     revision |-> revision, table_length |-> table_length]
Malformed(message, offset) ==
    [kind |-> "protocol", message |-> message, offset |-> offset]

\* IndexError from buf[i], struct.error from unpack_from.
StrayRead == [kind |-> "stray_read"]

\* The outcome of code that touches the first n bytes of buf.
Reads(buf, n, outcome) == IF n <= Len(buf) THEN outcome ELSE StrayRead

\* buf[i:i+len(bytes)] == bytes: Python cuts a slice short at the end of the buffer.
HoldsAt(buf, i, bytes) ==
    i + Len(bytes) <= Len(buf) /\ Slice(buf, i, i + Len(bytes)) = bytes

\* struct.unpack_from("<I", buf, i)[0]
DoubleWordAt(buf, i) == WordAt(buf, i) + 65536 * WordAt(buf, i + 2)

MinAnchor == 5
MinSM3 == 24
MinSM2 == 31

\* Seeded fault: the length is tested against the fields of the 2.x layout.
ParseSM3GuardTooWeak(buf) ==
    IF Len(buf) < 11 THEN Malformed("SMBIOS 3 entry point too short", 0)
    ELSE Reads(buf, 16, Accepted(ByteAt(buf, 7), ByteAt(buf, 8), ByteAt(buf, 10),
                                 DoubleWordAt(buf, 12)))

\* An SMBIOS 3.x entry point: table_length is the maximum size of the table.
ParseSM3(buf) ==
    IF Len(buf) < MinSM3 THEN Malformed("SMBIOS 3 entry point too short", 0)
    ELSE Reads(buf, 16, Accepted(ByteAt(buf, 7), ByteAt(buf, 8), ByteAt(buf, 10),
                                 DoubleWordAt(buf, 12)))

\* Seeded fault: no length guard, and the length taken from a slice, which Python
\* cuts short at the end of the buffer.
ParseSM2Unguarded(buf) ==
    IF ~ HoldsAt(buf, 16, AnchorDMI)
    THEN Malformed("missing _DMI_ intermediate anchor", 16)
    ELSE Accepted(ByteAt(buf, 6), ByteAt(buf, 7), ByteAt(buf, 10),
                  IF Len(buf) < 24 THEN 0 ELSE WordAt(buf, 22))

\* An SMBIOS 2.x entry point: table_length is the exact length of the table.
ParseSM2(buf) ==
    IF Len(buf) < MinSM2 THEN Malformed("SMBIOS 2 entry point too short", 0)
    ELSE IF ~ HoldsAt(buf, 16, AnchorDMI)
    THEN Malformed("missing _DMI_ intermediate anchor", 16)
    ELSE Reads(buf, 24, Accepted(ByteAt(buf, 6), ByteAt(buf, 7), ByteAt(buf, 10),
                                 WordAt(buf, 22)))

ParseEntryPoint(buf) ==
    IF Len(buf) < MinAnchor THEN Malformed("entry point too short", 0)
    ELSE IF HoldsAt(buf, 0, AnchorSM3) THEN ParseSM3(buf)
    ELSE IF HoldsAt(buf, 0, AnchorSM2) THEN ParseSM2(buf)
    ELSE Malformed("unknown entry point anchor", 0)
=============================================================================
