---------------------------- MODULE FirmwareFiles ---------------------------
(***************************************************************************)
(* The files parse_dmi reads and the ways a call of it can end: what a     *)
(* stat and an open meet in a world, and what the code makes of the bytes. *)
(* A world is the root named by the environment and, for every root, a     *)
(* directory that can be searched or not, with two files in it.            *)
(***************************************************************************)
EXTENDS EntryPoint, SMBIOSTable

CONSTANTS
    Roots,          \* values of TRUENAS_PYDMI_SYSFS_ROOT
    StatRaises      \* TRUE: Path.exists() raises PermissionError when a directory
                    \* cannot be searched (Python 3.13); FALSE: it returns False (3.14)

FileNames == {"smbios_entry_point", "DMI"}
Files == [kind : {"absent", "denied", "readable"}, bytes : Seq(Byte)]
Directories == [searchable : BOOLEAN, files : [FileNames -> Files]]
Paths == [root : Roots, name : FileNames]

\* The file a path leads to.
FileAt(world, p) == world.disk[p.root].files[p.name]
Searchable(world, p) == world.disk[p.root].searchable

\* What a stat and an open of p meet in a world.
Exists(world, p) == Searchable(world, p) /\ FileAt(world, p).kind # "absent"
StatDenied(world, p) == StatRaises /\ ~ Searchable(world, p)
OpenDenied(world, p) == ~ Searchable(world, p) \/ FileAt(world, p).kind = "denied"
Missing(world, p) == Searchable(world, p) /\ FileAt(world, p).kind = "absent"
Readable(world, p) == Searchable(world, p) /\ FileAt(world, p).kind = "readable"

-----------------------------------------------------------------------------

\* How a call can end.
NotYet == [kind |-> "none"]
Unavailable(paths) == [kind |-> "DMIUnavailableError", paths |-> paths]
PermissionDenied(p) == [kind |-> "DMIPermissionError", path |-> p]
Escaped(errno, p) == [kind |-> "OSError", errno |-> errno, path |-> p]

\* Lines 166-168: parse the entry point, then walk the table as far as it says.
ParseBytes(ep, tbl) ==
    LET entry_point == ParseEntryPoint(ep)
        walked == Walk(tbl, entry_point.table_length)
    IN  IF entry_point.kind # "entry_point" THEN entry_point
        ELSE IF walked.kind = "raised"
        THEN Malformed(walked.message, walked.offset)
        ELSE [kind |-> "ParsedSMBIOS", entry_point |-> entry_point,
              structures |-> walked.structures]

\* parse_dmi when nothing changes between its first step and its last.
Attempt(world) ==
    LET ep == [root |-> world.root, name |-> "smbios_entry_point"]
        tbl == [root |-> world.root, name |-> "DMI"]
    IN  IF StatDenied(world, ep) THEN Escaped("EACCES", ep)
        ELSE IF ~ Exists(world, ep) \/ ~ Exists(world, tbl) THEN Unavailable(<< ep, tbl >>)
        ELSE IF OpenDenied(world, ep) THEN PermissionDenied(ep)
        ELSE IF OpenDenied(world, tbl) THEN PermissionDenied(tbl)
        ELSE ParseBytes(FileAt(world, ep).bytes, FileAt(world, tbl).bytes)
=============================================================================
