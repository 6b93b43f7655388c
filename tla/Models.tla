-------------------------------- MODULE Models ------------------------------
(***************************************************************************)
(* The dataclasses of models.py, as the sets their instances lie in, and   *)
(* the properties they derive from their fields.  The sets are as tight as *)
(* the decoders make them: a handle that is None when unset is never       *)
(* 0xFFFF, a speed that is None when unknown is never 0, and a size is     *)
(* never what its sentinel or its escape would count as.                   *)
(***************************************************************************)
EXTENDS Structures, Enumerations

Opt(S) == S \cup {None}
Text == Seq(Byte)

\* A structure of a type that has a dataclass, as the parser yields it.
RawStructure ==
    [type : {0, 1, 2, 3, 4, 7, 9, 16, 17, 38, 43}, handle : Word,
     formatted : Seq(Byte), strings : Seq(Text)]

Positive(S) == S \ {0}
DoubleWord == [1 .. 2 -> Word]
QuadWord == [1 .. 4 -> Word]
SomeDate == {d \in [year : Nat, month : Nat, day : Nat] : IsDate(d)}
CacheHandle == Opt(Word \ {MaxWord})
Width == Opt(Word \ {MaxWord})
MemorySize == Opt(QuadWord \ {Ones(4)})
Speed == Opt(Positive(Word))

\* Amounts of bytes: the counts that a size field can hold beside its sentinels and
\* escapes, in the unit of the field.  The highest bits of a size tell its unit.
SizesIn(unit, counts) == [count : counts, unit : {unit}]
OneWord(S) == [1 .. 1 -> S]
Max15 == 32767
Count14 == 0 .. 16383
Count15 == 0 .. Max15
Count31 == {count \in DoubleWord : count[2] \in Count15}
Bit31 == << 0, 32768 >>

ROMSizes ==
    SizesIn("64KB", OneWord(1 .. 255)) \cup SizesIn("MB", OneWord(Positive(Count14)))
        \cup SizesIn("GB", OneWord(Count14))
CacheSizes ==
    SizesIn("B", OneWord({0})) \cup SizesIn("KB", OneWord(Positive(Count15)))
        \cup SizesIn("64KB", OneWord(Count15 \ {Max15}))
        \cup SizesIn("KB", Count31 \ {Zero(2)}) \cup SizesIn("64KB", Count31)
DeviceSizes ==
    SizesIn("B", OneWord({0})) \cup SizesIn("MB", OneWord(Positive(Count15) \ {Max15}))
        \cup SizesIn("KB", OneWord(Count15 \ {Max15})) \cup SizesIn("MB", DoubleWord \ {Zero(2)})
ArraySizes == SizesIn("KB", DoubleWord \ {Bit31}) \cup SizesIn("B", QuadWord \ {Zero(4)})

BIOSInfo ==
    [handle : Word, vendor : Text, version : Text,
     release_date : Opt(SomeDate), release_date_raw : Text,
     rom_size_bytes : Opt(ROMSizes),
     bios_major : Opt(Byte), bios_minor : Opt(Byte), ec_major : Opt(Byte), ec_minor : Opt(Byte),
     characteristics : QuadWord, characteristics_extension : Seq(Byte)]

SystemInfo ==
    [handle : Word, manufacturer : Text, product_name : Text, version : Text,
     serial_number : Text, uuid : Opt([1 .. 16 -> Byte] \ {Zero(16)}),
     wake_up_type : Byte, sku_number : Text, family : Text]

BaseboardInfo ==
    [handle : Word, manufacturer : Text, product : Text, version : Text,
     serial_number : Text, asset_tag : Text, feature_flags : Byte,
     location_in_chassis : Text, chassis_handle : Word, board_type : Byte]

ChassisInfo ==
    [handle : Word, manufacturer : Text, type : 0 .. 127, type_locked : BOOLEAN,
     version : Text, serial_number : Text, asset_tag : Text,
     bootup_state : Byte, power_supply_state : Byte, thermal_state : Byte,
     security_status : Byte, height_u : Opt(Positive(Byte)),
     power_cords : Opt(Positive(Byte)), sku_number : Text]

ProcessorInfo ==
    [handle : Word, socket_designation : Text, type : Byte, family : Word,
     manufacturer : Text, processor_id : {<< >>} \cup [1 .. 8 -> Byte], version : Text,
     voltage_raw : Byte, external_clock_mhz : Speed, max_speed_mhz : Speed,
     current_speed_mhz : Speed, status : Byte, upgrade : Byte,
     l1_cache_handle : CacheHandle, l2_cache_handle : CacheHandle,
     l3_cache_handle : CacheHandle, serial_number : Text, asset_tag : Text,
     part_number : Text, core_count : Opt(Word), cores_enabled : Opt(Word),
     thread_count : Opt(Word), threads_enabled : Opt(Positive(Word)),
     characteristics : Word]

CacheInfo ==
    [handle : Word, socket_designation : Text, configuration : Word,
     max_size_bytes : Opt(CacheSizes), installed_size_bytes : Opt(CacheSizes),
     supported_sram_types : Word, current_sram_type : Word,
     speed_nanoseconds : Opt(Positive(Byte)), error_correction : Byte,
     system_cache_type : Byte, associativity : Byte]

SystemSlot ==
    [handle : Word, designation : Text, type : Byte, bus_width : Byte,
     current_usage : Byte, length : Byte, slot_id : Word, characteristics_1 : Byte,
     characteristics_2 : Byte, segment_group : Opt(Word), bus_number : Opt(Byte),
     device_function : Opt(Byte)]

MemoryArray ==
    [handle : Word, location : Byte, use : Byte, error_correction : Byte,
     max_capacity_bytes : Opt(ArraySizes), error_info_handle : Word, device_count : Word]

MemoryDevice ==
    [handle : Word, array_handle : Word, error_info_handle : Word,
     total_width_bits : Width, data_width_bits : Width,
     size_bytes : Opt(DeviceSizes), form_factor : Byte, device_set : Byte,
     locator : Text, bank_locator : Text, type : Byte, type_detail : Word,
     speed_mts : Speed, manufacturer : Text, serial_number : Text, asset_tag : Text,
     part_number : Text, rank : Opt(1 .. 15), configured_speed_mts : Speed,
     min_voltage_mv : Speed, max_voltage_mv : Speed, configured_voltage_mv : Speed,
     memory_technology : Byte, operating_mode_capability : Word,
     module_firmware_version : Text, module_manufacturer_id : Word,
     module_product_id : Word, subsystem_controller_manufacturer_id : Word,
     subsystem_controller_product_id : Word,
     non_volatile_size_bytes : MemorySize,
     volatile_size_bytes : MemorySize,
     cache_size_bytes : MemorySize,
     logical_size_bytes : MemorySize,
     extended_speed_mts : Opt(DoubleWord \ {Zero(2)}),
     extended_configured_speed_mts : Opt(DoubleWord \ {Zero(2)})]

IPMIDevice ==
    [handle : Word, interface_type : Byte, spec_version_major : 0 .. 15,
     spec_version_minor : 0 .. 15, i2c_slave_address : Byte, nv_storage_address : Byte,
     base_address : QuadWord, base_address_modifier : Byte, interrupt_number : Byte]

TPMDevice ==
    [handle : Word, vendor_id : Seq(Byte), spec_major : Byte, spec_minor : Byte,
     firmware_version_1 : DoubleWord, firmware_version_2 : DoubleWord,
     description : Text, characteristics : QuadWord]

\* What the decoder of a type returns.
Dataclass(type) ==
    CASE type = 0  -> BIOSInfo
      [] type = 1  -> SystemInfo
      [] type = 2  -> BaseboardInfo
      [] type = 3  -> ChassisInfo
      [] type = 4  -> ProcessorInfo
      [] type = 7  -> CacheInfo
      [] type = 9  -> SystemSlot
      [] type = 16 -> MemoryArray
      [] type = 17 -> MemoryDevice
      [] type = 38 -> IPMIDevice
      [] type = 43 -> TPMDevice

-----------------------------------------------------------------------------
(***************************************************************************)
(* Derived properties.  A Python property is an operator on the instance;  *)
(* voltages are in tenths of a volt, because TLC has no fractions.         *)
(***************************************************************************)

characteristics_decoded(bios) ==
    bios_characteristics_names(bios.characteristics, bios.characteristics_extension)

\* Seeded fault: the lowest of the supported voltages is reported.
voltage_volts_lowest(cpu) ==
    LET v == cpu.voltage_raw
    IN  IF Bit(v, 7) THEN v % 128
        ELSE IF Bit(v, 2) THEN 29
        ELSE IF Bit(v, 1) THEN 33
        ELSE IF Bit(v, 0) THEN 50
        ELSE None

voltage_volts(cpu) ==
    LET v == cpu.voltage_raw
    IN  IF Bit(v, 7) THEN v % 128
        ELSE IF Bit(v, 0) THEN 50
        ELSE IF Bit(v, 1) THEN 33
        ELSE IF Bit(v, 2) THEN 29
        ELSE None

\* (configuration >> low) & (2^width - 1)
ConfigurationBits(cache, low, width) == (cache.configuration \div 2 ^ low) % 2 ^ width

\* Seeded fault: the mask of the level is one bit too wide.
cache_level_wide(cache) == ConfigurationBits(cache, 0, 4) + 1

cache_level(cache)           == ConfigurationBits(cache, 0, 3) + 1
socketed(cache)              == Bit(cache.configuration, 3)
enabled_at_boot(cache)       == Bit(cache.configuration, 7)
location_name(cache)         == cache_location_name(ConfigurationBits(cache, 5, 2))
operational_mode_name(cache) == cache_operational_mode_name(ConfigurationBits(cache, 8, 2))

\* A size that is known and not zero: a module is installed.
size_is_positive(size) == size # None /\ \E i \in DOMAIN size.count : size.count[i] > 0

i2c_slave_address_canonical(ipmi) == ipmi.i2c_slave_address \div 2
base_address_value(ipmi)     == [ipmi.base_address EXCEPT ![1] = 2 * (@ \div 2)]
base_address_io_mapped(ipmi) == Bit(ipmi.base_address[1], 0)

firmware_version(tpm) ==
    [major |-> tpm.firmware_version_1[2] % 256, minor |-> tpm.firmware_version_1[1] % 256]

-----------------------------------------------------------------------------
(***************************************************************************)
(* All a caller can ask about one decoded structure beyond its fields: the *)
(* derived properties, and the names enums.py has for its codes.           *)
(***************************************************************************)

Names(type, info) ==
    CASE type = 1  -> [wake_up_type |-> wake_up_type_name(info.wake_up_type)]
      [] type = 3  -> [type |-> chassis_type_name(info.type)]
      [] type = 4  -> [type   |-> processor_type_name(info.type),
                       family |-> processor_family_name(info.family)]
      [] type = 7  -> [location          |-> location_name(info),
                       operational_mode  |-> operational_mode_name(info),
                       error_correction  |-> cache_error_correction_name(info.error_correction),
                       system_cache_type |-> cache_system_type_name(info.system_cache_type),
                       associativity     |-> cache_associativity_name(info.associativity)]
      [] type = 9  -> [type          |-> slot_type_name(info.type),
                       current_usage |-> slot_usage_name(info.current_usage),
                       length        |-> slot_length_name(info.length)]
      [] type = 16 -> [error_correction |-> memory_error_correction_name(info.error_correction)]
      [] type = 17 -> [form_factor       |-> memory_form_factor_name(info.form_factor),
                       type              |-> memory_type_name(info.type),
                       memory_technology |-> memory_technology_name(info.memory_technology)]
      [] type = 38 -> [interface_type |-> ipmi_interface_type_name(info.interface_type)]
      [] OTHER     -> << >>

FeatureLists(type, info) ==
    CASE type = 0  -> [characteristics_decoded |-> characteristics_decoded(info)]
      [] type = 7  -> [supported_sram_types |-> cache_sram_type_names(info.supported_sram_types),
                       current_sram_types   |-> cache_sram_type_names(info.current_sram_type)]
      [] type = 17 -> [type_detail     |-> memory_type_detail_names(info.type_detail),
                       operating_modes |->
                           memory_operating_mode_names(info.operating_mode_capability)]
      [] OTHER     -> << >>

Facts(type, info) ==
    CASE type = 4  -> [populated |-> Bit(info.status, 6), voltage_volts |-> voltage_volts(info)]
      [] type = 7  -> [cache_level     |-> cache_level(info),
                       socketed        |-> socketed(info),
                       enabled_at_boot |-> enabled_at_boot(info)]
      [] type = 17 -> [populated |-> size_is_positive(info.size_bytes)]
      [] type = 38 -> [i2c_slave_address_canonical |-> i2c_slave_address_canonical(info),
                       base_address_value          |-> base_address_value(info),
                       base_address_io_mapped      |-> base_address_io_mapped(info)]
      [] type = 43 -> [firmware_version |-> firmware_version(info)]
      [] OTHER     -> << >>
=============================================================================
