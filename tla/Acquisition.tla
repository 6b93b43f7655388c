----------------------------- MODULE Acquisition ----------------------------
(***************************************************************************)
(* What a caller of parse_dmi may rely on, without the order of its checks *)
(* and opens.  A call reads the entry point once and then the table once,  *)
(* each from a root the environment named since the call began, and        *)
(* answers with what those two contents parse to; or it refuses, for a     *)
(* reason it met.  A call that no change disturbs is one atomic attempt.   *)
(***************************************************************************)
EXTENDS FirmwareFiles

CONSTANT Callers

VARIABLES
    world,
    phase,      \* "idle", "reading", or "missing": a file was found to be missing
    roots,      \* the roots the environment has named since the call began
    read,       \* the contents read so far: of the entry point, then of the table
    disturbed,  \* the world changed since the call began
    outcome     \* how the caller's last call ended

vars == << world, phase, roots, read, disturbed, outcome >>

\* The paths a call may have made of a file name.
Known(c, name) == [root : roots[c], name : {name}]

Init ==
    /\ phase = [c \in Callers |-> "idle"]
    /\ roots = [c \in Callers |-> {}]
    /\ read = [c \in Callers |-> << >>]
    /\ disturbed = [c \in Callers |-> FALSE]
    /\ outcome = [c \in Callers |-> NotYet]

Begin(c) ==
    /\ phase[c] = "idle"
    /\ phase' = [phase EXCEPT ![c] = "reading"]
    /\ roots' = [roots EXCEPT ![c] = {world.root}]
    /\ outcome' = [outcome EXCEPT ![c] = NotYet]
    /\ UNCHANGED << world, read, disturbed >>

End(c, how) ==
    /\ ~ disturbed[c] => how = Attempt(world)
    /\ phase' = [phase EXCEPT ![c] = "idle"]
    /\ roots' = [roots EXCEPT ![c] = {}]
    /\ read' = [read EXCEPT ![c] = << >>]
    /\ disturbed' = [disturbed EXCEPT ![c] = FALSE]
    /\ outcome' = [outcome EXCEPT ![c] = how]
    /\ UNCHANGED world

Read(c) ==
    /\ phase[c] = "reading"
    /\ Len(read[c]) < 2
    /\ \E p \in Known(c, << "smbios_entry_point", "DMI" >>[Len(read[c]) + 1]) :
         /\ Readable(world, p)
         /\ read' = [read EXCEPT ![c] = Append(@, FileAt(world, p).bytes)]
    /\ UNCHANGED << world, phase, roots, disturbed, outcome >>

Answer(c) ==
    /\ Len(read[c]) = 2
    /\ End(c, ParseBytes(read[c][1], read[c][2]))

\* An open or a stat fails.  A file is missing at its open only in a disturbed call.
Refuse(c) ==
    /\ phase[c] = "reading"
    /\ \E name \in FileNames : \E p \in Known(c, name) :
         \/ OpenDenied(world, p) /\ End(c, PermissionDenied(p))
         \/ StatDenied(world, p) /\ End(c, Escaped("EACCES", p))
         \/ disturbed[c] /\ Missing(world, p) /\ End(c, Escaped("ENOENT", p))

NoticeMissing(c) ==
    /\ phase[c] = "reading"
    /\ read[c] = << >>
    /\ \E name \in FileNames : \E p \in Known(c, name) :
         ~ StatDenied(world, p) /\ ~ Exists(world, p)
    /\ phase' = [phase EXCEPT ![c] = "missing"]
    /\ UNCHANGED << world, roots, read, disturbed, outcome >>

\* The error names the paths as they are when it is raised.
ReportMissing(c) ==
    /\ phase[c] = "missing"
    /\ \E ep \in Known(c, "smbios_entry_point"), tbl \in Known(c, "DMI") :
         End(c, Unavailable(<< ep, tbl >>))

Change ==
    /\ world' # world
    /\ roots' = [c \in Callers |-> IF phase[c] = "idle" THEN {} ELSE roots[c] \cup {world'.root}]
    /\ disturbed' = [c \in Callers |-> phase[c] # "idle"]
    /\ UNCHANGED << phase, read, outcome >>

Next ==
    \/ Change
    \/ \E c \in Callers :
         \/ Begin(c) \/ Read(c) \/ Answer(c) \/ Refuse(c)
         \/ NoticeMissing(c) \/ ReportMissing(c)

\* Every call ends, however often the world changes.
CallsEnd == \A c \in Callers : phase[c] # "idle" ~> phase[c] = "idle"

Spec == Init /\ [][Next]_vars /\ CallsEnd
=============================================================================
