------------------------------ MODULE Structures ----------------------------
(***************************************************************************)
(* The per-type decoders of private/structures.py: functions from a raw    *)
(* structure to the record of models.py.  Offsets are the code's, relative *)
(* to the formatted area.  A decoder is the union of one record per kind   *)
(* of field, so that a reader can lay it beside the code's keyword list.   *)
(***************************************************************************)
EXTENDS ReleaseDate

Handle(raw) == [handle |-> raw.handle]

\* A ROM of 16 MB or more: the byte is 0xFF and the size is in the extended word.
_extended_rom_size(extended) ==
    IF extended = None \/ extended = 0 THEN Size(<< 16 >>, "MB")
    ELSE CASE extended \div 16384 = 0 -> Size(<< extended % 16384 >>, "MB")
           [] extended \div 16384 = 1 -> Size(<< extended % 16384 >>, "GB")
           [] OTHER -> None

_rom_size(rom_size, extended) ==
    IF rom_size = None THEN None
    ELSE IF rom_size = 255 THEN _extended_rom_size(extended)
    ELSE Size(<< rom_size + 1 >>, "64KB")

parse_bios(raw) ==
    LET f == raw.formatted
        release_date_raw == _str(raw.strings, Or(_u8(f, 4), 0))
    IN  Handle(raw)
        ++ StringFields(raw, [vendor |-> 0, version |-> 1])
        ++ OptionalBytes(raw, [bios_major |-> 16, bios_minor |-> 17,
                               ec_major |-> 18, ec_minor |-> 19], None)
        ++ [release_date_raw |-> release_date_raw,
            release_date |-> _parse_bios_release_date(release_date_raw),
            rom_size_bytes |-> _rom_size(_u8(f, 5), _u16(f, 20)),
            characteristics |-> Or(_u64(f, 6), Zero(4)),
            characteristics_extension |-> SafeSlice(f, 14, Len(f))]

\* UUID(bytes_le=raw): the first three groups are little-endian, all zero is unset.
_parse_uuid(buf) ==
    IF Len(buf) < 16 \/ buf = Zero(16) THEN None
    ELSE << buf[4], buf[3], buf[2], buf[1], buf[6], buf[5], buf[8], buf[7] >>
            \o SubSeq(buf, 9, 16)

parse_system(raw) ==
    LET f == raw.formatted
    IN  Handle(raw)
        ++ StringFields(raw, [manufacturer |-> 0, product_name |-> 1, version |-> 2,
                              serial_number |-> 3, sku_number |-> 21, family |-> 22])
        ++ ByteFields(raw, [wake_up_type |-> 20])
        ++ [uuid |-> IF Len(f) >= 20 THEN _parse_uuid(SafeSlice(f, 4, 20)) ELSE None]

parse_baseboard(raw) ==
    Handle(raw)
    ++ StringFields(raw, [manufacturer |-> 0, product |-> 1, version |-> 2,
                          serial_number |-> 3, asset_tag |-> 4, location_in_chassis |-> 6])
    ++ ByteFields(raw, [feature_flags |-> 5, board_type |-> 9])
    ++ WordFields(raw, [chassis_handle |-> 7])

\* Seeded fault: count and length of the contained elements are added.
sku_offset_sum(f) == 17 + Or(_u8(f, 15), 0) + Or(_u8(f, 16), 0)

\* The SKU index sits behind the table of contained elements: n records of m bytes.
sku_offset(f) == 17 + Or(_u8(f, 15), 0) * Or(_u8(f, 16), 0)

parse_chassis(raw) ==
    LET f == raw.formatted
        type_byte == Or(_u8(f, 1), 0)
    IN  Handle(raw)
        ++ StringFields(raw, [manufacturer |-> 0, version |-> 2, serial_number |-> 3,
                              asset_tag |-> 4, sku_number |-> sku_offset(f)])
        ++ ByteFields(raw, [bootup_state |-> 5, power_supply_state |-> 6,
                            thermal_state |-> 7, security_status |-> 8])
        ++ OptionalBytes(raw, [height_u |-> 13, power_cords |-> 14], 0)
        ++ [type |-> type_byte % 128, type_locked |-> type_byte >= 128]

\* Seeded fault: the escape of the family, 0xFE, is taken for that of the counts.
_resolve_family(small, big) ==
    IF small = None THEN None
    ELSE IF small = 254 /\ big # None THEN big
    ELSE Unless(small, 0)

\* An 8-bit count, or the 16-bit one when the byte is 0xFF.
_resolve(small, big) ==
    IF small = None THEN None
    ELSE IF small = 255 /\ big # None THEN big
    ELSE Unless(small, 0)

parse_processor(raw) ==
    LET f == raw.formatted
        family_8 == Or(_u8(f, 2), 0)
        family_16 == _u16(f, 36)
    IN  Handle(raw)
        ++ StringFields(raw, [socket_designation |-> 0, manufacturer |-> 3, version |-> 12,
                              serial_number |-> 28, asset_tag |-> 29, part_number |-> 30])
        ++ ByteFields(raw, [type |-> 1, voltage_raw |-> 13, status |-> 20, upgrade |-> 21])
        ++ WordFields(raw, [characteristics |-> 34])
        ++ OptionalWords(raw, [external_clock_mhz |-> 14, max_speed_mhz |-> 16,
                               current_speed_mhz |-> 18, threads_enabled |-> 44], 0)
        ++ OptionalWords(raw, [l1_cache_handle |-> 22, l2_cache_handle |-> 24,
                               l3_cache_handle |-> 26], MaxWord)
        ++ [family |-> IF family_8 = 254 /\ family_16 # None THEN family_16 ELSE family_8,
            processor_id |-> IF Len(f) >= 12 THEN SafeSlice(f, 4, 12) ELSE << >>,
            core_count |-> _resolve(_u8(f, 31), _u16(f, 38)),
            cores_enabled |-> _resolve(_u8(f, 32), _u16(f, 40)),
            thread_count |-> _resolve(_u8(f, 33), _u16(f, 42))]

\* Bit 15 (or 31) is the granularity, the bits below it the size; 0xFFFF in the
\* 16-bit field sends the reader to the 32-bit one.
_decode_cache_size(value, value2) ==
    LET unit(high) == IF high >= 32768 THEN "64KB" ELSE "KB"
    IN  IF value = None THEN None
        ELSE IF value = 0 THEN Size(<< 0 >>, "B")
        ELSE IF value # MaxWord THEN Size(<< value % 32768 >>, unit(value))
        ELSE IF value2 = None \/ value2 = Zero(2) THEN None
        ELSE Size(<< value2[1], value2[2] % 32768 >>, unit(value2[2]))

parse_cache(raw) ==
    LET f == raw.formatted
    IN  Handle(raw)
        ++ StringFields(raw, [socket_designation |-> 0])
        ++ ByteFields(raw, [error_correction |-> 12, system_cache_type |-> 13,
                            associativity |-> 14])
        ++ WordFields(raw, [configuration |-> 1, supported_sram_types |-> 7,
                            current_sram_type |-> 9])
        ++ OptionalBytes(raw, [speed_nanoseconds |-> 11], 0)
        ++ [max_size_bytes |-> _decode_cache_size(_u16(f, 3), _u32(f, 15)),
            installed_size_bytes |-> _decode_cache_size(_u16(f, 5), _u32(f, 19))]

parse_system_slot(raw) ==
    Handle(raw)
    ++ StringFields(raw, [designation |-> 0])
    ++ ByteFields(raw, [type |-> 1, bus_width |-> 2, current_usage |-> 3, length |-> 4,
                        characteristics_1 |-> 7, characteristics_2 |-> 8])
    ++ WordFields(raw, [slot_id |-> 5])
    ++ OptionalWords(raw, [segment_group |-> 9], None)
    ++ OptionalBytes(raw, [bus_number |-> 11, device_function |-> 12], None)

parse_oem_strings(raw) == raw.strings

parse_memory_array(raw) ==
    LET f == raw.formatted
        kb == _u32(f, 3)
        extended == _u64(f, 11)
    IN  Handle(raw)
        ++ ByteFields(raw, [location |-> 0, use |-> 1, error_correction |-> 2])
        ++ WordFields(raw, [error_info_handle |-> 7, device_count |-> 9])
        ++ [max_capacity_bytes |->
              IF kb # None /\ kb # << 0, 32768 >> THEN Size(kb, "KB")
              ELSE IF extended # None /\ extended # Zero(4) THEN Size(extended, "B")
              ELSE None]

\* Seeded fault: 0xFFFF, a size that is not known, is read as one in KB.
_decode_memory_size_unknown(size_word, extended_size) ==
    IF size_word = None THEN None
    ELSE IF size_word = 0 THEN Size(<< 0 >>, "B")
    ELSE IF size_word = 32767
         THEN IF extended_size = None \/ extended_size = Zero(2) THEN None
              ELSE Size(extended_size, "MB")
    ELSE IF size_word >= 32768 THEN Size(<< size_word % 32768 >>, "KB")
    ELSE Size(<< size_word >>, "MB")

_decode_memory_size(size_word, extended_size) ==
    IF size_word = None \/ size_word = MaxWord THEN None
    ELSE IF size_word = 0 THEN Size(<< 0 >>, "B")
    ELSE IF size_word = 32767
         THEN IF extended_size = None \/ extended_size = Zero(2) THEN None
              ELSE Size(extended_size, "MB")
    ELSE IF size_word >= 32768 THEN Size(<< size_word % 32768 >>, "KB")
    ELSE Size(<< size_word >>, "MB")

\* The low 31 bits of a 32-bit speed; 0 is unknown.
_extended_speed(value) ==
    IF value = None THEN None ELSE Unless(<< value[1], value[2] % 32768 >>, Zero(2))

parse_memory_device(raw) ==
    LET f == raw.formatted
        rank_byte == _u8(f, 23)
        bytes == ByteFields(raw, [form_factor |-> 10, device_set |-> 11, type |-> 14,
                                  memory_technology |-> 36])
        words == WordFields(raw, [array_handle |-> 0, error_info_handle |-> 2,
                                  type_detail |-> 15, operating_mode_capability |-> 37,
                                  module_manufacturer_id |-> 40, module_product_id |-> 42,
                                  subsystem_controller_manufacturer_id |-> 44,
                                  subsystem_controller_product_id |-> 46])
    IN  Handle(raw) ++ bytes ++ words
        ++ StringFields(raw, [locator |-> 12, bank_locator |-> 13, manufacturer |-> 19,
                              serial_number |-> 20, asset_tag |-> 21, part_number |-> 22,
                              module_firmware_version |-> 39])
        ++ OptionalWords(raw, [total_width_bits |-> 4, data_width_bits |-> 6], MaxWord)
        ++ OptionalWords(raw, [speed_mts |-> 17, configured_speed_mts |-> 28,
                               min_voltage_mv |-> 30, max_voltage_mv |-> 32,
                               configured_voltage_mv |-> 34], 0)
        ++ [size_bytes |-> _decode_memory_size(_u16(f, 8), _u32(f, 24)),
            rank |-> IF rank_byte = None THEN None ELSE Unless(rank_byte % 16, 0),
            non_volatile_size_bytes |-> _decode_extended_size(_u64(f, 48)),
            volatile_size_bytes |-> _decode_extended_size(_u64(f, 56)),
            cache_size_bytes |-> _decode_extended_size(_u64(f, 64)),
            logical_size_bytes |-> _decode_extended_size(_u64(f, 72)),
            extended_speed_mts |-> _extended_speed(_u32(f, 80)),
            extended_configured_speed_mts |-> _extended_speed(_u32(f, 84))]

parse_ipmi_device(raw) ==
    LET spec_byte == Or(_u8(raw.formatted, 1), 0)
    IN  Handle(raw)
        ++ ByteFields(raw, [interface_type |-> 0, i2c_slave_address |-> 2,
                            nv_storage_address |-> 3, base_address_modifier |-> 12,
                            interrupt_number |-> 13])
        ++ [spec_version_major |-> spec_byte \div 16, spec_version_minor |-> spec_byte % 16,
            base_address |-> Or(_u64(raw.formatted, 4), Zero(4))]

\* vendor_bytes.rstrip(b"\x00")
_rstrip_nul(bytes) ==
    SubSeq(bytes, 1, CHOOSE n \in 0 .. Len(bytes) :
                        /\ n = 0 \/ bytes[n] # NUL
                        /\ \A i \in n + 1 .. Len(bytes) : bytes[i] = NUL)

parse_tpm_device(raw) ==
    LET f == raw.formatted
    IN  Handle(raw)
        ++ StringFields(raw, [description |-> 14])
        ++ ByteFields(raw, [spec_major |-> 4, spec_minor |-> 5])
        ++ [vendor_id |-> IF Len(f) >= 4 THEN _rstrip_nul(SafeSlice(f, 0, 4)) ELSE << >>,
            firmware_version_1 |-> Or(_u32(f, 6), Zero(2)),
            firmware_version_2 |-> Or(_u32(f, 10), Zero(2)),
            characteristics |-> Or(_u64(f, 15), Zero(4))]

\* The decoder read_dmi applies to a structure (reader.py, lines 24-45).
Decode(r) ==
    CASE r.type = 0  -> parse_bios(r)
      [] r.type = 1  -> parse_system(r)
      [] r.type = 2  -> parse_baseboard(r)
      [] r.type = 3  -> parse_chassis(r)
      [] r.type = 4  -> parse_processor(r)
      [] r.type = 7  -> parse_cache(r)
      [] r.type = 9  -> parse_system_slot(r)
      [] r.type = 11 -> parse_oem_strings(r)
      [] r.type = 16 -> parse_memory_array(r)
      [] r.type = 17 -> parse_memory_device(r)
      [] r.type = 38 -> parse_ipmi_device(r)
      [] r.type = 43 -> parse_tpm_device(r)
=============================================================================
