-------------------------------- MODULE Reader ------------------------------
(***************************************************************************)
(* read_dmi of reader.py and the questions DMIInfo answers (models.py): a  *)
(* sequence of raw structures becomes one record.  Types 0 and 1 are       *)
(* singletons, of every other type all structures are kept, in table       *)
(* order; structures refer to each other by handle only.                   *)
(***************************************************************************)
EXTENDS Models

CONSTANTS
    PLATFORM_PREFIXES,  \* product names that begin with one of these are a model
    X10Product,         \* the baseboard product "iXsystems TrueNAS X10"
    X10Model,           \* the model it stands for
    TRUENAS_UNKNOWN     \* the model when nothing matches

\* Where in raws are the structures of one type.
OfType(raws, type_id) == {i \in DOMAIN raws : raws[i].type = type_id}

_first(raws, type_id) ==
    LET found == OfType(raws, type_id)
    IN  IF found = {} THEN None ELSE Decode(raws[Min(found)])

_all(raws, type_id) ==
    FlattenSeq([i \in DOMAIN raws |->
        IF i \in OfType(raws, type_id) THEN << Decode(raws[i]) >> ELSE << >>])

oem_strings(raws) ==
    FlattenSeq([i \in DOMAIN raws |->
        IF i \in OfType(raws, 11) THEN Decode(raws[i]) ELSE << >>])

_tn_model(system, baseboards) ==
    IF system # None /\ \E p \in PLATFORM_PREFIXES : IsPrefix(p, system.product_name)
    THEN system.product_name
    ELSE IF baseboards # << >> /\ baseboards[1].product = X10Product
    THEN X10Model
    ELSE TRUENAS_UNKNOWN

\* The DMIInfo built from the structures; smbios_version comes from the entry point.
read_dmi(raws) ==
    LET system == _first(raws, 1)
        baseboards == _all(raws, 2)
    IN  [bios           |-> _first(raws, 0),
         system         |-> system,
         baseboards     |-> baseboards,
         chassis        |-> _all(raws, 3),
         processors     |-> _all(raws, 4),
         caches         |-> _all(raws, 7),
         system_slots   |-> _all(raws, 9),
         oem_strings    |-> oem_strings(raws),
         memory_arrays  |-> _all(raws, 16),
         memory_devices |-> _all(raws, 17),
         ipmi_devices   |-> _all(raws, 38),
         tpm_devices    |-> _all(raws, 43),
         raw_structures |-> raws,
         tn_model       |-> _tn_model(system, baseboards)]

-----------------------------------------------------------------------------
(***************************************************************************)
(* The derived properties of DMIInfo.                                      *)
(***************************************************************************)

ecc_memory(info) ==
    \E i \in DOMAIN info.memory_arrays : is_ecc(info.memory_arrays[i].error_correction)

has_ipmi(info) == info.ipmi_devices # << >>
has_tpm(info) == info.tpm_devices # << >>

WithHandle(info, handle) == {i \in DOMAIN info.caches : info.caches[i].handle = handle}

\* Seeded fault: of two caches with one handle the last is found.
cache_by_handle_last(info, handle) ==
    LET found == WithHandle(info, handle)
    IN  IF found = {} THEN None ELSE info.caches[Max(found)]

cache_by_handle(info, handle) ==
    LET found == WithHandle(info, handle)
    IN  IF found = {} THEN None ELSE info.caches[Min(found)]
=============================================================================
