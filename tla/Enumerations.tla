----------------------------- MODULE Enumerations ---------------------------
(***************************************************************************)
(* enums.py: which codes and bits have a name.  A name is kept as the code *)
(* it is listed under; what it says, and that a few codes share one, makes *)
(* no difference to anything here.  A code without a name is shown as      *)
(* Unknown(0x..), which is a name of another kind.                         *)
(***************************************************************************)
EXTENDS DMIBytes, SequencesExt

Listed(code) == [kind |-> "listed", code |-> code]
Unlisted(code) == [kind |-> "Unknown", code |-> code]

_lookup(table, value) == IF value \in table THEN Listed(value) ELSE Unlisted(value)

\* Bit b of a number.
Bit(value, b) == (value \div 2 ^ b) % 2 = 1

\* The bits of a table that are set in a value.  A table lists its bits in ascending
\* order, and so do the names taken from it.
BitsIn(table, value) == Ascending({b \in table : Bit(value, b)})

-----------------------------------------------------------------------------
(***************************************************************************)
(* The tables.                                                             *)
(***************************************************************************)

_WAKE_UP_TYPES   == 0 .. 8
_CHASSIS_TYPES   == 1 .. \h24
_PROCESSOR_TYPES == 1 .. 6

\* Seeded fault: the escape to the Family 2 field is given a name.
_PROCESSOR_FAMILIES_WITH_ESCAPE == (1 .. \h58) \cup (\h60 .. \h200)

_PROCESSOR_FAMILIES ==
    ((1 .. \h58) \ {\h17}) \cup (\h60 .. \h6B) \cup {\h70} \cup (\h78 .. \h7A)
        \cup {\h80} \cup (\h82 .. \h96) \cup ((\hA0 .. \hCF) \ {\hBE})
        \cup ((\hD2 .. \hE0) \ {\hDC}) \cup (\hE4 .. \hEF) \cup {\hFA, \hFB}
        \cup (\h100 .. \h105) \cup {\h118, \h119} \cup (\h12C .. \h12E)
        \cup {\h140, \h15E, \h1F4} \cup (\h200 .. \h202)
        \cup (\h258 .. \h262) \cup (\h26C .. \h271)

_SLOT_TYPES   == (1 .. \h28) \cup {\h30} \cup ((\hA0 .. \hC6) \ {\hB7})
_SLOT_USAGE   == 1 .. 5
_SLOT_LENGTHS == 1 .. 6

_MEMORY_ERROR_CORRECTION == 1 .. 7
_MEMORY_FORM_FACTORS     == 1 .. \h10
_MEMORY_TYPES            == 1 .. \h24
_MEMORY_TECHNOLOGIES     == 1 .. 7
_MEMORY_TYPE_DETAIL_BITS    == 1 .. 15
_MEMORY_OPERATING_MODE_BITS == 1 .. 5

_CACHE_ERROR_CORRECTION  == 1 .. 6
_CACHE_SYSTEM_TYPES      == 1 .. 5
_CACHE_ASSOCIATIVITIES   == 1 .. \h0E
_CACHE_LOCATIONS         == {0, 1, 3}
_CACHE_OPERATIONAL_MODES == 0 .. 3
_CACHE_SRAM_TYPE_BITS    == 0 .. 6

_IPMI_INTERFACE_TYPES == 0 .. 4

_BIOS_CHARACTERISTICS == 3 .. 31
_BIOS_CHAR_EXT_BYTE_1 == 0 .. 7
_BIOS_CHAR_EXT_BYTE_2 == 0 .. 6

-----------------------------------------------------------------------------

wake_up_type_name(value)            == _lookup(_WAKE_UP_TYPES, value)
chassis_type_name(value)            == _lookup(_CHASSIS_TYPES, value % 128)
processor_type_name(value)          == _lookup(_PROCESSOR_TYPES, value)
processor_family_name(value)        == _lookup(_PROCESSOR_FAMILIES, value)
slot_type_name(value)               == _lookup(_SLOT_TYPES, value)
slot_usage_name(value)              == _lookup(_SLOT_USAGE, value)
slot_length_name(value)             == _lookup(_SLOT_LENGTHS, value)
memory_error_correction_name(value) == _lookup(_MEMORY_ERROR_CORRECTION, value)
memory_form_factor_name(value)      == _lookup(_MEMORY_FORM_FACTORS, value)
memory_type_name(value)             == _lookup(_MEMORY_TYPES, value)
memory_technology_name(value)       == _lookup(_MEMORY_TECHNOLOGIES, value)
cache_error_correction_name(value)  == _lookup(_CACHE_ERROR_CORRECTION, value)
cache_system_type_name(value)       == _lookup(_CACHE_SYSTEM_TYPES, value)
cache_associativity_name(value)     == _lookup(_CACHE_ASSOCIATIVITIES, value)
cache_location_name(value)          == _lookup(_CACHE_LOCATIONS, value)
cache_operational_mode_name(value)  == _lookup(_CACHE_OPERATIONAL_MODES, value)
ipmi_interface_type_name(value)     == _lookup(_IPMI_INTERFACE_TYPES, value)

memory_type_detail_names(value)    == BitsIn(_MEMORY_TYPE_DETAIL_BITS, value)
memory_operating_mode_names(value) == BitsIn(_MEMORY_OPERATING_MODE_BITS, value)
cache_sram_type_names(value)       == BitsIn(_CACHE_SRAM_TYPE_BITS, value)

is_ecc(memory_error_correction) == memory_error_correction \in {5, 6, 7}

\* A feature of the BIOS, by the table and the bit it is listed under.
Features(table, bits) == [i \in DOMAIN bits |-> << table, bits[i] >>]

\* "BIOS characteristics not supported"
NotSupported == 3

\* Seeded fault: the extension is decoded only with a supported qword.
bios_characteristics_names_all_or_none(words, extension_bytes) ==
    LET Set(b) == Bit(words[b \div 16 + 1], b % 16)
        ext(n) == IF Len(extension_bytes) >= n THEN ByteAt(extension_bytes, n - 1) ELSE 0
    IN  IF Set(NotSupported) THEN Features("qword", << NotSupported >>)
        ELSE Features("qword", Ascending({b \in _BIOS_CHARACTERISTICS : Set(b)}))
                \o Features("byte 1", BitsIn(_BIOS_CHAR_EXT_BYTE_1, ext(1)))
                \o Features("byte 2", BitsIn(_BIOS_CHAR_EXT_BYTE_2, ext(2)))

\* words are the qword, low word first; only its low half has names.
bios_characteristics_names(words, extension_bytes) ==
    LET Set(b) == Bit(words[b \div 16 + 1], b % 16)
        ext(n) == IF Len(extension_bytes) >= n THEN ByteAt(extension_bytes, n - 1) ELSE 0
        qword == IF Set(NotSupported) THEN << NotSupported >>
                 ELSE Ascending({b \in _BIOS_CHARACTERISTICS : Set(b)})
    IN  Features("qword", qword)
            \o Features("byte 1", BitsIn(_BIOS_CHAR_EXT_BYTE_1, ext(1)))
            \o Features("byte 2", BitsIn(_BIOS_CHAR_EXT_BYTE_2, ext(2)))
=============================================================================
