# truenas_pydmi in TLA+

`truenas_pydmi` reads the two SMBIOS files Linux exposes under
`/sys/firmware/dmi/tables/` and turns them into one frozen `DMIInfo`. It is a
pure-Python library without threads of its own, but it parses bytes it does not
control, from files and an environment that other processes and threads may
change. This directory models what it does with them, checks it with TLC and
proves with TLAPS, for tables, files, structures, callers and worlds of any size, what it
promises about the walk, acquisition, the entry point, the decoders with their names and
dates, `DMIInfo` while more of a table comes into view, and the fixture sanitizer.

Paths below are relative to the repository; `parser.py`, `structures.py` are in
`src/truenas_pydmi/private/`, the rest of the package in `src/truenas_pydmi/`.

## The system

| Component | Code | State | Operations |
|---|---|---|---|
| Acquisition | `parser.py` 25-34, 55-56, 146-168 | none between calls; during one: two paths, two byte strings | `is_available`, `parse_dmi` |
| Entry point parser | `parser.py` 59-83 | none | `_parse_entry_point` |
| Structure walk | `parser.py` 86-143 | `offset`, `cursor`, strings so far, structures so far | `_walk_structures` |
| Structure decoders | `structures.py` | none | twelve `parse_*` functions and their helpers |
| Reader | `reader.py` | none | `read_dmi`, `_first`, `_all`, `_tn_model` |
| Data model | `models.py` | frozen dataclasses | derived properties, `cache_by_handle` |
| Enumerations | `enums.py` | constant tables | number to name lookups, `is_ecc` |
| Errors | `errors.py` | the error's path, message, offset | - |
| Fixture sanitizer | `tests/fixtures/dmi/_sanitize.py` | a copy of the table, `offset` | `sanitize` |

**How they interact.** `read_dmi` calls `parse_dmi`, which checks that both
files exist, reads the entry point, then the table, parses the entry point and
walks the table up to the length the entry point declares. The walk hands
`RawStructure`s to the decoders, chosen by type. Structures refer to each other
by handle, and `DMIInfo.cache_by_handle` resolves those later. There are no
callbacks and no shared state inside the library; the state it shares with the
outside is the file system and the environment variable
`TRUENAS_PYDMI_SYSFS_ROOT`, read anew whenever a path is needed. The sanitizer
has a walk of its own, and the parser must agree with it: the fixtures of the
test suite are its output.

**What is hard.**

- *Two ends.* Headers and formatted areas are bounded by the declared length,
  string areas by the bytes that were read (`parser.py` 89, 101, 112, 116). The
  fixtures declare exact lengths, so the tests do not tell the two apart.
- *Resynchronising.* A structure starts where the string scan of the one before
  stopped. An off-by-one there is not an error; it is a different table.
- *Truncation.* End-of-Table is optional, so a cut between two structures is
  silent. A cut inside one must not be.
- *Check, then open.* The existence check and the opens are separate steps, and
  the root directory is read for each of them again.
- *Versions.* Every field may be missing or cut in half in older firmware, and
  some fields are escapes to later ones.
- *Packed bits.* Some hundred offsets, masks and shifts are typed by hand; one that is
  off by one reads a neighbour and is plausible on most machines.
- *Zero defaults.* A missing byte reads as 0, and for some fields 0 has a name.
- *Two walks.* Where the sanitizer and the parser disagree, a secret survives or
  a fixture is not what the machine said.

**What makes each part correct.** Acquisition: a call nobody disturbs behaves
like one atomic read; one that is disturbed still returns only what was on disk
during the call; every error has a cause in that time; every call ends. Entry
point: every file is decided, and no prefix of a good file gives a different
entry point. Walk: structures tile the table, only the last may pass the
declared end, nothing follows End-of-Table, errors name the damage. Decoders: a
longer structure never contradicts a shorter one, the result is always an instance of
its dataclass with no sentinel among its sizes, no bit is read by two fields, an escape is
followed and nothing else is, and the elements a chassis contains are passed over. Derived
properties and names: one bit changes one answer, and a longer structure changes a name only
where a shorter one left a 0 or the escape 0xFE in the field: a code 0 without a name, one of
four names that 0 does have (a wake-up type "Reserved", a cache "Internal" and "Write Through",
an IPMI interface "Unknown"), or the processor family. Reader: what is told from a
part of a table stays true of the whole, but for a model taken from the X10 board for want of a
product name. Sanitizer: the parser sees the same
structures, no secrets, and the output is a fixed point.

`PROJECT.json` lists the hazards at their lines and the properties aimed at each.

## Modules

| Module | Models | State and actions |
|---|---|---|
| `DMIBytes` | bytes objects: indexing and slicing from 0, little-endian words, `find`, `strip` | pure |
| `SMBIOSTable` | the layout of a table; `Walk(buf, lim)` is `_walk_structures` as one recursive function | pure |
| `StructureStream` | the promise of the walk: one step delivers one structure (`Deliver`), or the table ends (`RunOut`) or is refused (`Reject`) | abstract |
| `StructureWalk` | `_walk_structures`: one action per branch of the two loops; `extents` is a history of where structures lie | detailed |
| `SMBIOSTableProofs` | lemmas on the layout functions: numbering of strings, the recursion of `Walk`, tables inside tables | - |
| `StructureWalkProofs` | theorems on `StructureWalk`: its invariants; what its loops implement and compute | - |
| `EntryPoint` | `_parse_entry_point`; a read past the end is the outcome `StrayRead` | pure |
| `EntryPointFile` | an entry point file of which more and more has been captured | `Arrive` |
| `EntryPointFileProofs` | theorems on `EntryPointFile` | - |
| `FirmwareFiles` | the two files in a world, what a stat and an open meet there, how a call can end; `ParseBytes` uses `EntryPoint` and `SMBIOSTable!Walk` | pure |
| `Acquisition` | the promise of `parse_dmi`: one read of each file from a root in force, an answer, or a refusal with a reason; atomic when undisturbed | abstract, per caller |
| `ParseDMI` | `is_available` and `parse_dmi`: a step for each evaluation of a path, each stat and each open; `Change` is the outside world | per caller |
| `ParseDMIProofs` | theorems on `ParseDMI`: its invariants; its steps as steps of `Acquisition` | - |
| `Fields`, `ReleaseDate`, `Structures` | the readers of single fields, the release date, and the decoders | pure |
| `ReleaseDateText` | a text written piece by piece, read as a release date after each | `Write` |
| `Enumerations` | the tables and lookups of `enums.py`; a name is the code it is listed under | pure |
| `Models` | the dataclasses as sets of records, the derived properties of single structures, and all answers about one (`Names`, `FeatureLists`, `Facts`) | pure |
| `StructureGrowth` | a structure decoded at every length of its formatted area | `Grow` |
| `StructureGrowthProofs` | theorems on `StructureGrowth`, decoder by decoder | - |
| `StructureBits` | two structures that differ in one bit: bits of a formatted area flip one after the other | `Flip` |
| `DecoderProofs` | theorems on `StructureBits` and `ReleaseDateText` | - |
| `Reader` | `read_dmi` and the questions `DMIInfo` answers | pure |
| `CapturedTable` | a table cut by the file's end or the declared length, both moving; a caller that reads it repeatedly; uses `Walk` and `Reader` | `Arrive`, `Declare`, `Read`, `ReadFails` |
| `CapturedTableProofs` | lemmas on what `read_dmi` tells from the first structures of a table and from more of them; theorems on `CapturedTable` | - |
| `Sanitizer` | `sanitize`, one structure per step, run twice; uses `Walk` to say what the parser sees | `Scrub`, `Stop`, `SanitizeAgain` |
| `SanitizerProofs` | theorems on `Sanitizer` | - |

Each state module has an `MC` module with the values for its constants and a
`.cfg`. Definitions that begin with "Seeded fault" are variants of the one below
them with a plausible bug. Nothing refers to them: each shows, put in place of the
real definition, that some property fails when the code is wrong.

Not of the code, but of the setting its functions are put in, are `Arrive`, `Declare`, `Grow`,
`Flip` and `Write`: they let a file, a table, a structure or a text become another one, so that
what the code says of the two can be compared.

Conventions: offsets are the code's, counted from 0. A Python exception is an
outcome with the data it carries, without its wording. TLC has 32-bit numbers
and the code does not, so wide fields are sequences of 16-bit words and amounts
of bytes are a count with its unit (`Fields`); nothing overflows in Python, and
nothing may overflow in the model. A helper for an expression that the code repeats in many
decoders (`Unless`, `Or`, `Size`, `StringFields` and the like in `Fields`, `Handle` in `Structures`)
is mapped in `PROJECT.json` to one place where the code has it.

`Walk` and `StructureWalk` say the same thing twice on purpose: the first by
looking for the double NUL, as a reader of the SMBIOS specification would, the
second by the code's scan. `WalkIsFunction` (they give the same result) and
`ImplementsStream` (they deliver it in the same steps) tie them together, and modules
that need only the result use the first.

## What the runs check

| Run | Bounds | Properties |
|---|---|---|
| `walk` | all byte strings up to 6 bytes over {0, 4, 127}; one structure with every string area up to 3 bytes over {NUL, space, letter} or 6 over {NUL, letter}, alone or followed by a second, possibly damaged one; declared lengths 0, 8, 11, 40 | `TypeOK`, `StringScan`, `StructuresTileTable`, `OnlyLastOvershoots`, `EndOfTableIsLast`, `ErrorNamesDamage`, `WalkIsFunction`, `ImplementsStream`, `Terminates` |
| `captured` | two structures of one type and a third in every order, or one, End-of-Table, and one behind it; cut at every byte in both ways | `CutLosesWholeStructures`, `CutIsBetweenStructures`, `HeldIsBehind`, `NothingIsTakenBack` |
| `entry_point` | both layouts, three lengths, a missing intermediate anchor, two foreign files; every prefix | `EveryFileIsDecided`, `AcceptanceIsStable` |
| `acquisition` | two callers, one change, `exists()` that raises | `TypeOK`, `QuietCallIsAtomic`, `ParsedWasOnDisk`, `ErrorsHaveAReason`, `CallsEnd` |
| `acquisition_changes` | one caller, two changes, `exists()` that returns False | `QuietCallIsAtomic`, `ParsedWasOnDisk`, `ErrorsHaveAReason`, `CallsEnd`, `ImplementsAcquisition` |
| `growth` | eleven patterns of bytes per type, two more for escapes that span fields, every length | `TypeOK`, `FieldsOnlyFillIn`, `NamesStand` |
| `bits` | every bit of every decoded type over four backgrounds, and six more where every escape is set; all subsets of the configuration word of a cache, of a voltage byte, of ten size and rank bits and of eleven BIOS characteristics; a chassis with two or three elements of up to three bytes | `OneBitOneField`, `EscapesAreFollowed`, `ElementsAreSkipped`, `OneBitOneAnswer`, `NamesFollowBits`, `FlagsNeverLowerVoltage` |
| `release_date` | all texts of up to five pieces out of slashes, blanks, one, two and four digits | `DatesAreReadAsWritten` |
| `sanitizer` | five types, every choice of string indices 0 to 2, five string areas, before and behind another structure, End-of-Table and eight kinds of damage; five declared lengths; two passes | `OnlySecretsChange`, `NoSecretIsLeft`, `SecondRunChangesNothing` |

**Why the bounds are enough.** *walk*: every decision depends on a byte being
NUL, a length, or 127, and on how positions compare with the two ends; the string
areas hold up to three strings, empty and blank ones included, and the declared
lengths fall in the second structure, in its strings and behind the table. The
proofs below have no bound. *captured*: what could be taken back is told by two
structures of one type with a third before, between or behind them. *acquisition*:
a call evaluates the root at most four times, stats twice and opens twice, so two
changes separate any three of its steps; a second caller matters only for what
could be shared, for which one change is enough. `MaxWorlds` (changes) and
`MaxCalls` (calls per thread) are the only bounds on behaviours. *growth*: each
field is read at one offset and compared with few constants; the patterns hold
each of the sentinels 0, 0xFF, 0xFFFF, 0x7FFF, 0x8000, 0xFE and the escapes made of
them, and the sets of sizes in `Models` leave out what no decoder may return, so that a
sentinel taken for a size is not of its type. (An 8-bit count has no such set: 0 is both what a
missing byte and what a byte 0 reads as, and 255 is one that was taken for the escape of
a field that is not there.) *bits*: a mask or an offset that is wrong shows when a bit it should not read
flips, whatever the other bits are, and the backgrounds put the escapes on and off; `EscapesAreFollowed` speaks of the wide field
behind each of the nine escapes while its short field holds the escape and while it does not; a
contained element of several bytes, or more than one of them, tells the product of the two lengths
from their sum; the subsets are the fields whose bits are read together. *release_date*: a date is five
pieces (three numbers, two slashes), and the numbers hold both sides of the century
rule, of leap years and of each month's end. *sanitizer*: the declared lengths fall
in the header, the formatted area, the strings and behind the first structure.

**Fairness.** `StructureWalk` has weak fairness of `Next`: a Python function that is
running keeps running, and `Terminates` follows from it. `StructureStream` and
`Acquisition` are promises, and promise the end itself (`WalkEnds`, `CallsEnd`) instead
of assuming a scheduler. `ParseDMI` has weak fairness of the steps of each caller inside a
call, from which `Acquisition`'s promise that calls end follows; nothing makes a caller
call or the world change. The other modules state no liveness property and assume no
fairness.

**Deadlock** is checked in every run; the actions `Terminating`, `Complete`,
`Finished`, `Written` and `AllFlipped` are the calls that are over.

### What the three violations show

- `acquisition_race`: a file is removed after `is_available` and before its
  `open`. `parse_dmi` translates `PermissionError` only, so `FileNotFoundError`
  leaves the library, while `errors.py` line 2 calls `DMIError` the base of
  everything raised.
- `acquisition_denied`: the directory itself cannot be searched. `Path.exists()`
  meets that first, and the caller gets `DMIUnavailableError` (Python 3.14, where
  `exists()` returns False) or a plain `PermissionError` (3.13, where it raises),
  while `errors.py` line 14 has `DMIPermissionError` for denied access to the
  directory. `StatRaises` selects the Python version; `pyproject.toml` allows both.

- `cache_location`: `_CACHE_LOCATIONS` has no entry for 2 (`enums.py` 789-798 says so
  on purpose), so `CacheInfo.location_name` is `Unknown(0x02)` where its docstring
  (`models.py` 191-192) has "Reserved".

## What is proved

| Module | Theorem | Statement |
|---|---|---|
| `StructureWalkProofs` | `TypeCorrect` | `Spec => []TypeOK` |
| | `ScanCorrect` | `Spec => []StringScan` |
| | `TilingCorrect` | `Spec => []StructuresTileTable` |
| | `OvershootCorrect` | `Spec => []OnlyLastOvershoots` |
| | `EndOfTableCorrect` | `Spec => []EndOfTableIsLast` |
| | `ErrorsCorrect` | `Spec => []ErrorNamesDamage` |
| | `StepsImplementStream` | `Spec => Stream!Init /\ [][Stream!Next]_(Stream!vars)` |
| | `Refinement` | `Spec /\ Terminates => ImplementsStream` |
| | `FunctionCorrect` | `Spec => []WalkIsFunction` |
| `CapturedTableProofs` | `PrefixCorrect` | `Spec => []CutLosesWholeStructures` |
| | `CutCorrect` | `Spec => []CutIsBetweenStructures` |
| | `HeldCorrect` | `Spec => []HeldIsBehind` |
| | `NothingCorrect` | `Spec => NothingIsTakenBack` |
| `StructureGrowthProofs` | `TypeCorrect` | `Spec => []TypeOK` |
| | `FillingIn` | `Spec => FieldsOnlyFillIn` |
| | `NamesStanding` | `Spec => NamesStand` |
| `DecoderProofs` | `OneBitReadOnce` | `Spec => OneBitOneField` |
| | `EscapesDecide` | `Spec => EscapesAreFollowed` |
| | `ElementsPassedOver` | `Spec => ElementsAreSkipped` |
| | `OneBitAnswersOnce` | `Spec => OneBitOneAnswer` |
| | `ListsFollowBits` | `Spec => NamesFollowBits` |
| | `FlagsRaiseVoltage` | `Spec => FlagsNeverLowerVoltage` |
| | `DatesRead` | `DateSpec => []DatesAreReadAsWritten` |
| `EntryPointFileProofs` | `DecisionCorrect` | `Spec => []EveryFileIsDecided` |
| | `AcceptanceCorrect` | `Spec => AcceptanceIsStable` |
| `ParseDMIProofs` | `TypeCorrect` | `Spec => []TypeOK` |
| | `QuietCallCorrect` | `Spec => []QuietCallIsAtomic` |
| | `FreshnessCorrect` | `Spec => []ParsedWasOnDisk` |
| | `ReasonsCorrect` | `Spec => []ErrorsHaveAReason` |
| | `StepsImplementAcquisition` | `Spec => Promise!Init /\ [][Promise!Next]_(Promise!vars)` |
| | `Refinement` | `Spec /\ CallsEnd => ImplementsAcquisition` |
| `SanitizerProofs` | `SanitizerChangesSecretsOnly` | `Spec => []OnlySecretsChange` |
| | `SanitizerLeavesNoSecret` | `Spec => []NoSecretIsLeft` |
| | `SanitizerIsDoneOnce` | `Spec => SecondRunChangesNothing` |

**From which assumptions.** Tables and files are sequences of bytes (`WalkTables`,
`TablesAreBytes`, `EntryPointFiles`, `SanitizerTables`), declared lengths are naturals
(`WalkLimits`, `SanitizerLimits`), a captured table was whole once, so that a walk over all of it returns
(`TablesAreWellFormed`; the walk and the sanitizer meet damaged tables as well); a structure
has one of the decoded types, a 16-bit handle, bytes for its formatted area and byte strings,
whatever they hold and however many there are (`RawWholes`, `RawCases`), and the bits that flip lie in
that area; the pieces of a text are bytes (`DateTexts`), and a date to be written is one
(`ReleaseDates`); Python's `None` is no number, nor the words of one, nor an amount of bytes (`NoneIsNoNumber`, `NoneIsNoAmount`); a world has
a root and a directory for each root
(`ParseDMIWorlds`), and the bounds on behaviours are numbers (`ParseDMIBounds`). Nothing
bounds how many callers, worlds, calls or bytes there are.

**The walk.** `TypeOK` alone is not inductive: when the string loop appends a
structure it reads the header at `offset` again, and only the fact that this
header was accepted keeps those bytes in range. `StringScan` carries that fact
through the loop, and with it that no double NUL lies between the formatted area and
`cursor`, which is why the double NUL the loop stops at is the first. The
inductive invariant is `IInv == TypeOK /\ StringScan /\ Delivered`, where
`Delivered` joins tiling, overshoot and End-of-Table: each needs the position the
structure before it left. Every action either appends one structure (`Emit`,
lemma `EmitDelivers`) or leaves what was delivered alone (`OtherStepsKeep`).
`ErrorNamesDamage` follows from `IInv` and `StringErrors`: an unterminated area
has no double NUL up to `cursor` by `StringScan`, and none behind it by the guard.

**What the walk implements.** In `StructureStream` a delivered structure has the strings
of `StringsIn`, which numbers the NULs of the area by counting; the code appends them one at
a time. The loop invariant `Collected` says that the strings so far are those of a list of the
NULs behind `cursor`, and `NumberedStrings` that listing and counting give the same. Then
an action that appends a structure is `Deliver`, `ExitLoop` is `RunOut`, an error is
`Reject`, and opening a string area or reading one string is no step at all. For
`WalkIsFunction` the loop invariant is `OnTheWay`: what was delivered, followed by what a walk
from `offset` gives, is what the call has to give. It needs `Walk`'s recursive equation to hold
(`FromSolves`) and its values to be outcomes (`FromIsOutcome`), which are facts by induction on
the bytes that are left. Both are shown by taking the least number of bytes for which they would
fail.

**Cut tables.** Two walks over bytes that begin alike decide alike until the shorter one
stops (`SameRound`), so its structures are the first ones of the longer (`PrefixOfLonger`),
again by a least counterexample. `CutIsBetweenStructures` compares a walk over the missing bytes
with the end of a walk over all of them: the section "A table inside a table" of
`SMBIOSTableProofs` moves offsets, strings and errors from one to the other (`WalkGoesOn`).
The inductive invariant says where the bytes are from and how the caller came by what it holds:
`IsCut`, that what is read is the beginning of the whole table, and `HeldFromLess`, that what
is held was returned for no more bytes and no larger declared length than there are now. Neither
follows from the properties, which speak of one moment.

`NothingIsTakenBack` follows from `HeldIsBehind` and two facts about the reader: what it
selects by type from the first structures of a table is a beginning of what it selects from more
of them (`AllGrows`, `OemGrows`, which rest on `FlattenPrefix`, that joining a beginning of
a list of sequences gives a beginning of what joining the list gives), and the first structure of
a type, or with a handle, stays the first (`FirstStands`, `HandleStands`). `MoreSaysMore` puts
them together, field by field. Nothing in it looks into the decoders: a structure is decoded
alike wherever it lies.

**Structures that grow.** The inductive invariant is that `raw` is `whole` with a beginning of its
formatted area; everything else is about two structures of which one is the other cut
(`Reads`, `ReadsInOrder`: what a reader finds in both, and what it finds in neither, is the same).
Each decoder puts its record together from smaller ones. `Growing` says of such a part that
its fields are of their types and that a longer structure leaves them or completes them;
`GrowingUnion` carries it over the union of two parts. So every kind of field is shown to
grow once (`GrowingFields`, `GrowingOptionalFields`), every escape once (`RomSizeFills`,
`CacheSizeFills`, `DeviceSizeFills`, `CapacityFills`, `FamilyFills`), and each decoder is a
lemma that lists its parts. `FieldsOnlyFillIn` and `TypeOK` are both read off
`DecoderGrows`. `NamesStand` adds the lookups (`NamesGrow`): a code that a longer structure
changes was missing before, and so read as 0, or was the escape 0xFE.

**Structures of which a bit flips.** The inductive invariant (`RawOK`) says only that `raw`
stays a structure. A step changes one byte by one power of two (`OneBitAtATime`). What is
read elsewhere stays, so for each decoder there is left to say which fields are made of which
byte. Every byte has one owner, but for the two halves of the specification version of an IPMI
device and bit 7 of the chassis type: this table of owners is what `OneBitOneField` is about.
For `EscapesAreFollowed` the owner of a wide field is the field behind the escape: a word
changes with each of its bits (`WordChanges`), so does what is made of words, and where the
short field does not hold the escape the decoder does not look at the wide one. For
`ElementsAreSkipped` the elements are a set of offsets, record by record, which turns out to be
an interval (`RecordsTile`, which chooses the least record that a byte is not behind); the
decoder's product is its end.
An answer is a function of one field, or of the bits of one (the five properties of a
cache's configuration word, the lowest bit of an IPMI base address), and these are disjoint.
A feature list is the set of bits in a table, sorted; the rank of an element is how many lie
below it, so one bit more is one element more, and the others stay in their order
(`OneNumberMore`). Of the BIOS characteristics, the part from the qword and the parts from the
extension bytes are told apart by their tables (`PickedByTable`).

**Dates.** Texts are sequences of bytes (`TextOK`). A text that is read as a date splits at two
slashes into three pieces without one, and a text that is written as one splits there again
(`WrittenAsRead` and its converse); in between, a numeral of up to four digits and its number
determine each other, and the years of two digits lie on either side of the century rule.

**The entry point.** The inductive invariant is that `buf` is what has arrived of the file and
`outcome` what it parses to. That every part is decided is a fact about `_parse_entry_point` for
any bytes (`BytesAreDecided`); that an acceptance stands needs two byte strings, one a beginning
of the other (`AcceptedIsStable`): every test the accepted one passed is about bytes both have.

**Acquisition.** The properties speak of calls that are over; what makes them true is what a
call has found out on its way. `CallInv` states it: the paths it holds were made of roots named
during the call (`PathsWereMade`), the bytes it holds were on disk, the entry point's first
(`BytesWereOnDisk`), one about to report a missing file met one (`SomethingWasMissing`), and if
nothing has changed since it began, every check it made still holds (`QuietSoFar`). The proof takes
one step of one caller (`StepIsLocal`, `OthersKeepCall`) and one change of the world
(`ChangeKeepsCalls`) at a time. In the refinement, calling is `Begin`, an open is `Read`, meeting
a missing file and reporting it are `NoticeMissing` and `ReportMissing`, a denied stat or a
failed open is `Refuse`, parsing is `Answer`, a change is `Change`, and evaluating a path or a
stat that goes well is no step.

**The sanitizer.** One step zeroes a UUID inside the formatted area and puts letters over
letters behind it, where no NUL comes or goes (`ScrubKeeps`). The sanitizer's scan and the
parser's find the same strings in an area that ends (`ScanFinds`, `FoundArea`), which makes
the structure the same but for its secrets (`ScrubbedStructure`). The invariant
says this of the whole table. `Leads`: from the start, clean structures lie one behind the
other up to some `d`; `Status`: the call is at `d`, or has ended there (`Final`), or the
structure at `d` is damaged. `Kept`: what a walk returned it still returns but for secrets,
for every declared length, and a walk over the whole table that raised still does. A walk
that enters the clean structures gets to `d`, so a fact about a walk from `d` is carried back
to one from the start (`BackAlongPath`). The hard case is damage: where strings do not end, the
sanitizer does not stop but goes on behind the last NUL, and may take letters for a system
structure and zero its UUID. The zeros can end the strings at `d`, but more zeros follow them,
which are no header, so that the walk raises there instead (`Doomed`, `DoomedRaises`,
`ScrubAhead`), and no declared length for which it returned reaches behind `d`
(`OnlyBefore`). `NothingToDo` says that a second call on what the parser accepts goes over
clean structures only, and overwriting a clean structure changes no byte (`CleanIsFixed`).

The inductive invariants (`IInv` of five modules, `Inv` of `SanitizerProofs`, `RawOK`, `TextOK`) were checked with TLC on
small instances before they were proved. Two loop invariants TLC cannot evaluate, for they quantify over all
sequences: `Collected` and `OnTheWay`; what follows from them is checked by `walk`.

## What is only model-checked

- Liveness: `Terminates` and `CallsEnd`, and with them the hypotheses of the two
  theorems named `Refinement`, follow from weak fairness, which is about ENABLED and
  out of the prover's reach. What is proved is that nothing else is missing. Every other
  property a passing run checks is a theorem.

## What is not modelled, and why

- What the names in `enums.py` say. A name is modelled as the code it is listed under,
  which tells all names apart that a property needs; the few codes that share a text
  ("ARM", "Reserved" memory types) count as different.
- `strptime` beyond the two formats the code passes: neither depends on the locale, and
  strings decoded from latin-1 hold no digits but the ASCII ones it reads as such.
- `voltage_volts` is in tenths of a volt; `firmware_version` and `vendor_id` are the
  numbers and bytes before they are formatted as text.
- The `PLATFORM_PREFIXES` themselves: a constant set, of which the runs use one.
- `__init__.py` and `py.typed`: a docstring and a marker.
- Strings are bytes: latin-1 decoding is one character per byte and cannot fail.
- I/O errors other than missing and denied files, and a file that changes while it
  is read: sysfs tables are replaced whole if at all.
- What the sanitizer leaves behind damage, where no call of the parser on the captured
  table reads: with an unterminated string area that looks like a system structure, zeros
  it writes can end the area for a small declared length, and a second run then goes
  further. The properties are about what the parser could read before. A string shared
  by a sensitive and another field is replaced for both; `OnlySecretsChange` counts it
  as a secret.
- Packaging, CI and the tests.

## Plan

Done, in this order: the structure walk with its abstract specification and
proofs; the entry point; acquisition; the decoders; the reader over a table that
comes into view; the sanitizer; the release date; enumerations and derived properties;
decoders bit by bit; the sanitizer on damaged tables; the abstract specification of
acquisition.

Left of the models: a step per string of the sanitizer's span loop, with the refinement
that its extents are those of `StructureWalk`. `Spans` is that loop as one operator;
`ScanFinds` proves that it finds the strings the parser does.

Proofs done: the structure walk and its refinement; acquisition and its refinement; the
entry point; cut tables and the reader over them; the sanitizer; the decoders over
structures that grow and over bits that flip, with derived properties and names; the release
date. Nothing is left of the safety and action properties; liveness stays with TLC.

## Running

```
tlc -workers 2 -config MCStructureWalk.cfg MCStructureWalk
tlapm StructureWalkProofs.tla
```

Every `.cfg` names its run in `PROJECT.json`; the module has the same name, except
that the four `MCParseDMI*.cfg` belong to `MCParseDMI` and `MCCacheLocation.cfg` to
`MCStructureBits`. The longest runs
(`acquisition`, `captured`) take about two minutes with two workers. The modules whose
names end in `Proofs` hold the theorems.
