--------------------------- MODULE StructureGrowth --------------------------
(***************************************************************************)
(* SMBIOS grows by appending fields to the formatted areas: firmware of an *)
(* older version writes the first part of what a newer one writes.  Here a *)
(* structure is decoded at every length, one byte longer with every step.  *)
(***************************************************************************)
EXTENDS Models

CONSTANT Wholes     \* raw structures of the newest version

ASSUME RawWholes == Wholes \subseteq RawStructure

VARIABLES whole, raw

vars == << whole, raw >>

Init ==
    /\ whole \in Wholes
    /\ raw = [whole EXCEPT !.formatted = << >>]

Grow ==
    /\ Len(raw.formatted) < Len(whole.formatted)
    /\ raw' = [raw EXCEPT !.formatted = Slice(whole.formatted, 0, Len(@) + 1)]
    /\ UNCHANGED whole

Complete == raw = whole /\ UNCHANGED vars

Next == Grow \/ Complete

Spec == Init /\ [][Next]_vars

-----------------------------------------------------------------------------

\* However short a structure is, its decoder returns an instance of its dataclass:
\* no sentinel, mask or half field gets through (structures.py, lines 27-54, and
\* every decoder, against models.py, lines 24-353).
TypeOK ==
    /\ whole \in Wholes
    /\ Decode(raw) \in Dataclass(raw.type)

\* What a decoder says of a field it has no bytes for.
Nothing == Decode([raw EXCEPT !.formatted = << >>])

\* The fields a later byte may revise: an 8-bit value that is the escape to a
\* field further on, which older structures do not have, is reported as it is.
Escape == [family |-> 254, core_count |-> 255, cores_enabled |-> 255, thread_count |-> 255]

Revisable(info, x) ==
    \/ x \in DOMAIN Escape /\ info[x] = Escape[x]
    \/ x = "rom_size_bytes" /\ info[x] = Size(<< 16 >>, "MB")

\* A longer structure never contradicts a shorter one: each field is unknown until
\* its bytes are all there and then keeps its value; half a word, half a UUID or a
\* sentinel is never taken for a value (structures.py, lines 27-46, and every
\* decoder).  The exceptions are the escapes above, and the BIOS characteristics
\* extension, which is all the bytes there are and grows with them.
FieldsOnlyFillIn ==
    [][ LET old == Decode(raw)
            new == Decode(raw')
        IN  \A x \in DOMAIN old :
                \/ old[x] \in {new[x], Nothing[x]}
                \/ Revisable(old, x)
                \/ x = "characteristics_extension" /\ IsPrefix(old[x], new[x]) ]_vars

\* The hazard of `or 0`: these list the code 0 (Reserved, Internal, Write Through,
\* Unknown), and a structure without their byte is given that name.
NamedWhenMissing == {"wake_up_type", "location", "operational_mode", "interface_type"}

\* The names of an older structure stand in a newer one: a code that is shown with a
\* name is never half of another code nor the escape to one, the name of a missing
\* code is taken back for the four codes above only, and features are only added
\* (enums.py, lines 20-21 and 820-845, with structures.py, lines 27-46).
NamesStand ==
    [][ LET old == Decode(raw)
            new == Decode(raw')
            names == Names(raw.type, old)
            missing == Names(raw.type, Nothing)
            features == FeatureLists(raw.type, old)
        IN  /\ \A x \in DOMAIN names :
                 \/ names[x] = Names(raw.type, new)[x]
                 \/ names[x] = missing[x] /\ (names[x] = Unlisted(0) \/ x \in NamedWhenMissing)
                 \/ x = "family" /\ names[x] = Unlisted(254)
            /\ \A x \in DOMAIN features :
                 ToSet(features[x]) \subseteq ToSet(FeatureLists(raw.type, new)[x]) ]_vars
=============================================================================
