----------------------------- MODULE MCParseDMI -----------------------------
(***************************************************************************)
(* Small worlds for ParseDMI: two roots; the first holds every combination *)
(* of the file states the code tells apart that matters, the second is     *)
(* empty or holds other files, so that a mix of the two can be told from   *)
(* either.  The files are real: two entry points that declare different    *)
(* table lengths, one that is none, two tables and one that is damaged.    *)
(***************************************************************************)
EXTENDS ParseDMI

EntryPointDeclaring(len) ==
    AnchorSM3 \o << 1, 24, 3, 6, 0, 1, 0 >> \o << len, 0, 0, 0 >> \o << 0, 0, 0, 0, 0, 0, 0, 0 >>

Whole == EntryPointDeclaring(40)
Cut == EntryPointDeclaring(6)
NoAnchor == << 1, 2, 3, 4, 5, 6 >>

TableA == << 1, 5, 7, 0, 1, 65, 0, 0, 127, 4, 254, 255, 0, 0 >>
TableB == << 1, 4, 8, 0, 0, 0, 127, 4, 254, 255, 0, 0 >>
Damaged == << 1, 4, 7, 0, 65 >>

Absent == [kind |-> "absent", bytes |-> << >>]
Denied == [kind |-> "denied", bytes |-> << >>]
File(bytes) == [kind |-> "readable", bytes |-> bytes]

Holding(ep, tbl) ==
    [searchable |-> TRUE,
     files |-> [name \in FileNames |-> IF name = "DMI" THEN tbl ELSE ep]]
Closed == [Holding(File(Whole), File(TableA)) EXCEPT !.searchable = FALSE]

Directories1 ==
    {Closed, Holding(File(Whole), File(TableA)), Holding(File(Cut), File(TableB)),
     Holding(File(NoAnchor), Absent), Holding(File(NoAnchor), File(TableA)),
     Holding(File(Whole), File(Damaged)),
     Holding(Absent, File(TableA)), Holding(Denied, File(TableA)),
     Holding(File(Whole), Denied)}
Directories2 == {Holding(Absent, Absent), Holding(File(Cut), File(TableB))}

MCRoots == {"", "capture"}

MCWorlds ==
    {[root |-> r, disk |-> [q \in MCRoots |-> IF q = "" THEN d1 ELSE d2]] :
        r \in MCRoots, d1 \in Directories1, d2 \in Directories2}
=============================================================================
