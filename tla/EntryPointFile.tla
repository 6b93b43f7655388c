--------------------------- MODULE EntryPointFile ---------------------------
(***************************************************************************)
(* The entry point parsed at every length its file can have: an entry      *)
(* point of Files of which only a first part was captured.  Each step lets *)
(* one more byte arrive and parses again.                                  *)
(***************************************************************************)
EXTENDS EntryPoint

CONSTANT Files      \* complete entry point files

ASSUME EntryPointFiles == Files \subseteq Seq(Byte)

VARIABLES
    file,       \* the file as it should be
    buf,        \* the part of it there is
    outcome     \* what _parse_entry_point makes of buf

vars == << file, buf, outcome >>

Init ==
    /\ file \in Files
    /\ buf = << >>
    /\ outcome = ParseEntryPoint(<< >>)

Arrive ==
    /\ Len(buf) < Len(file)
    /\ buf' = Slice(file, 0, Len(buf) + 1)
    /\ outcome' = ParseEntryPoint(buf')
    /\ UNCHANGED file

Complete == buf = file /\ UNCHANGED vars

Next == Arrive \/ Complete

Spec == Init /\ [][Next]_vars

-----------------------------------------------------------------------------

\* Every byte string is decided: an entry point or a DMIProtocolError at a byte
\* of its own, never an exception of the language (lines 60-83).
EveryFileIsDecided ==
    \/ outcome.kind = "entry_point" /\ Len(buf) >= MinSM3
    \/ outcome.kind = "protocol" /\ outcome.offset \in {0, 16}

\* What was accepted stays: bytes behind the fields never change the version or
\* the table length, and no prefix of a good file gives another entry point.
AcceptanceIsStable == [][outcome.kind = "entry_point" => outcome' = outcome]_vars
=============================================================================
