------------------------------ MODULE ParseDMI ------------------------------
(***************************************************************************)
(* parse_dmi of private/parser.py: finding the two SMBIOS files, reading   *)
(* them and parsing what was read, in a world that other processes and     *)
(* threads change meanwhile.  The root directory (an environment variable  *)
(* read anew at every use) may be switched, and each root's directory may  *)
(* be closed to searching, and its files removed, protected or replaced.   *)
(*                                                                         *)
(* Every evaluation of a path, every stat and every open is a step of its  *)
(* own.  Reading an open file is part of the open: files are replaced      *)
(* whole, so an open file has one content.                                 *)
(*                                                                         *)
(* history is every world there has been; the last one is the present, and *)
(* a call is judged by the worlds between its beginning and its end.       *)
(***************************************************************************)
EXTENDS FirmwareFiles

CONSTANTS
    Callers,        \* threads that may call parse_dmi
    Worlds,         \* the worlds there may be: [root, disk]
    MaxWorlds,      \* how many of them one behaviour goes through
    MaxCalls        \* how often each caller calls

ASSUME ParseDMIWorlds == Worlds \subseteq [root : Roots, disk : [Roots -> Directories]]
ASSUME ParseDMIBounds ==
    MaxWorlds \in Nat \ {0} /\ MaxCalls \in Nat /\ StatRaises \in BOOLEAN

VARIABLES
    history,        \* the worlds so far, the present one last
    pc,             \* where each caller is in parse_dmi
    path,           \* the path is_available is about to stat
    ep_path, tbl_path,
    ep_bytes, tbl_bytes,
    outcome,        \* how the caller's last call ended
    began, calls    \* history: when the call began, how many there were

vars == << history, pc, path, ep_path, tbl_path, ep_bytes, tbl_bytes,
           outcome, began, calls >>
locals == << path, ep_path, tbl_path, ep_bytes, tbl_bytes >>

Now == history[Len(history)]

\* _entry_point_path() and _tables_path(): the root is read from the environment.
PathOf(name) == [root |-> Now.root, name |-> name]
NoPath == [root |-> "none", name |-> "none"]

-----------------------------------------------------------------------------

Init ==
    /\ \E world \in Worlds : history = << world >>
    /\ pc = [c \in Callers |-> "idle"]
    /\ path = [c \in Callers |-> NoPath]
    /\ ep_path = [c \in Callers |-> NoPath]
    /\ tbl_path = [c \in Callers |-> NoPath]
    /\ ep_bytes = [c \in Callers |-> << >>]
    /\ tbl_bytes = [c \in Callers |-> << >>]
    /\ outcome = [c \in Callers |-> NotYet]
    /\ began = [c \in Callers |-> 0]
    /\ calls = [c \in Callers |-> 0]

Goto(c, from, to) == pc[c] = from /\ pc' = [pc EXCEPT ![c] = to]

\* The call ends, and its local variables with it.
Finish(c, from, how) ==
    /\ Goto(c, from, "idle")
    /\ outcome' = [outcome EXCEPT ![c] = how]
    /\ path' = [path EXCEPT ![c] = NoPath]
    /\ ep_path' = [ep_path EXCEPT ![c] = NoPath]
    /\ tbl_path' = [tbl_path EXCEPT ![c] = NoPath]
    /\ ep_bytes' = [ep_bytes EXCEPT ![c] = << >>]
    /\ tbl_bytes' = [tbl_bytes EXCEPT ![c] = << >>]
    /\ UNCHANGED << history, began, calls >>

Call(c) ==
    /\ calls[c] < MaxCalls
    /\ Goto(c, "idle", "find_ep")
    /\ outcome' = [outcome EXCEPT ![c] = NotYet]
    /\ began' = [began EXCEPT ![c] = Len(history)]
    /\ calls' = [calls EXCEPT ![c] = @ + 1]
    /\ UNCHANGED << history, locals >>

\* is_available, line 56: Path(_entry_point_path()) ...
FindEntryPoint(c) ==
    /\ Goto(c, "find_ep", "stat_ep")
    /\ path' = [path EXCEPT ![c] = PathOf("smbios_entry_point")]
    /\ UNCHANGED << history, ep_path, tbl_path, ep_bytes, tbl_bytes, outcome, began, calls >>

\* ... and Path(_tables_path()), only when the first file exists.
FindTable(c) ==
    /\ Goto(c, "find_tbl", "stat_tbl")
    /\ path' = [path EXCEPT ![c] = PathOf("DMI")]
    /\ UNCHANGED << history, ep_path, tbl_path, ep_bytes, tbl_bytes, outcome, began, calls >>

\* Seeded fault: the second file is never looked for.
StatEntryPointOnly(c) ==
    \/ /\ pc[c] = "stat_ep"
       /\ StatDenied(Now, path[c])
       /\ Finish(c, "stat_ep", Escaped("EACCES", path[c]))
    \/ /\ pc[c] = "stat_ep"
       /\ ~ StatDenied(Now, path[c])
       /\ Goto(c, "stat_ep", IF Exists(Now, path[c]) THEN "bind_ep" ELSE "blame_ep")
       /\ UNCHANGED << history, locals, outcome, began, calls >>

\* .exists(): the next check or, after a False, the raise of line 149.
StatFrom(c, from, found) ==
    \/ /\ pc[c] = from
       /\ StatDenied(Now, path[c])
       /\ Finish(c, from, Escaped("EACCES", path[c]))
    \/ /\ pc[c] = from
       /\ ~ StatDenied(Now, path[c])
       /\ Goto(c, from, IF Exists(Now, path[c]) THEN found ELSE "blame_ep")
       /\ UNCHANGED << history, locals, outcome, began, calls >>

StatEntryPoint(c) == StatFrom(c, "stat_ep", "find_tbl")
StatTable(c) == StatFrom(c, "stat_tbl", "bind_ep")

\* Line 149: the paths in the error are evaluated once more.
BlameEntryPoint(c) ==
    /\ Goto(c, "blame_ep", "blame_tbl")
    /\ ep_path' = [ep_path EXCEPT ![c] = PathOf("smbios_entry_point")]
    /\ UNCHANGED << history, path, tbl_path, ep_bytes, tbl_bytes, outcome, began, calls >>

BlameTable(c) == Finish(c, "blame_tbl", Unavailable(<< ep_path[c], PathOf("DMI") >>))

\* Seeded fault: the path is left to the default.
BindEntryPointForgotten(c) ==
    /\ Goto(c, "bind_ep", "bind_tbl")
    /\ UNCHANGED << history, locals, outcome, began, calls >>

\* Lines 151 and 152.
BindEntryPoint(c) ==
    /\ Goto(c, "bind_ep", "bind_tbl")
    /\ ep_path' = [ep_path EXCEPT ![c] = PathOf("smbios_entry_point")]
    /\ UNCHANGED << history, path, tbl_path, ep_bytes, tbl_bytes, outcome, began, calls >>

BindTable(c) ==
    /\ Goto(c, "bind_tbl", "open_ep")
    /\ tbl_path' = [tbl_path EXCEPT ![c] = PathOf("DMI")]
    /\ UNCHANGED << history, path, ep_path, ep_bytes, tbl_bytes, outcome, began, calls >>

\* Seeded fault: "except OSError" instead of "except PermissionError".
OpenFailsAsPermission(c, from, p) ==
    pc[c] = from /\ ~ Readable(Now, p) /\ Finish(c, from, PermissionDenied(p))

\* open(p) failing: PermissionError is translated, everything else goes through.
OpenFails(c, from, p) ==
    /\ pc[c] = from
    /\ \/ OpenDenied(Now, p) /\ Finish(c, from, PermissionDenied(p))
       \/ Missing(Now, p) /\ Finish(c, from, Escaped("ENOENT", p))

\* Seeded fault: bytes another call is holding are reused.
OpenEntryPointCached(c) ==
    \/ /\ pc[c] = "open_ep"
       /\ Readable(Now, ep_path[c])
       /\ Goto(c, "open_ep", "open_tbl")
       /\ \E d \in Callers :
            /\ d = c \/ ep_bytes[d] # << >>
            /\ ep_bytes' = [ep_bytes EXCEPT ![c] =
                  IF d = c THEN FileAt(Now, ep_path[c]).bytes ELSE ep_bytes[d]]
       /\ UNCHANGED << history, path, ep_path, tbl_path, tbl_bytes, outcome, began, calls >>
    \/ OpenFails(c, "open_ep", ep_path[c])

\* Lines 154-158.
OpenEntryPoint(c) ==
    \/ /\ pc[c] = "open_ep"
       /\ Readable(Now, ep_path[c])
       /\ Goto(c, "open_ep", "open_tbl")
       /\ ep_bytes' = [ep_bytes EXCEPT ![c] = FileAt(Now, ep_path[c]).bytes]
       /\ UNCHANGED << history, path, ep_path, tbl_path, tbl_bytes, outcome, began, calls >>
    \/ OpenFails(c, "open_ep", ep_path[c])

\* Seeded fault: the open is tried until it succeeds.
OpenTableRetried(c) ==
    /\ pc[c] = "open_tbl"
    /\ \/ /\ Readable(Now, tbl_path[c])
          /\ Goto(c, "open_tbl", "parse")
          /\ tbl_bytes' = [tbl_bytes EXCEPT ![c] = FileAt(Now, tbl_path[c]).bytes]
          /\ UNCHANGED << history, path, ep_path, tbl_path, ep_bytes, outcome, began, calls >>
       \/ ~ Readable(Now, tbl_path[c]) /\ UNCHANGED vars

\* Lines 160-164.
OpenTable(c) ==
    \/ /\ pc[c] = "open_tbl"
       /\ Readable(Now, tbl_path[c])
       /\ Goto(c, "open_tbl", "parse")
       /\ tbl_bytes' = [tbl_bytes EXCEPT ![c] = FileAt(Now, tbl_path[c]).bytes]
       /\ UNCHANGED << history, path, ep_path, tbl_path, ep_bytes, outcome, began, calls >>
    \/ OpenFails(c, "open_tbl", tbl_path[c])

\* Seeded fault: the declared table length is not handed on.
ParseWholeFile(c) ==
    LET whole == ParseBytes(ep_bytes[c], tbl_bytes[c])
        walked == Walk(tbl_bytes[c], 0)
    IN  Finish(c, "parse",
               IF whole.kind = "ParsedSMBIOS" /\ walked.kind = "returned"
               THEN [whole EXCEPT !.structures = walked.structures] ELSE whole)

\* Lines 166-168.
Parse(c) == Finish(c, "parse", ParseBytes(ep_bytes[c], tbl_bytes[c]))

Step(c) ==
    \/ FindEntryPoint(c) \/ StatEntryPoint(c) \/ FindTable(c) \/ StatTable(c)
    \/ BlameEntryPoint(c) \/ BlameTable(c)
    \/ BindEntryPoint(c) \/ BindTable(c) \/ OpenEntryPoint(c) \/ OpenTable(c) \/ Parse(c)

\* The world changes: the environment variable or one root's directory.
Differs(w, v) ==
    \/ w.root # v.root /\ w.disk = v.disk
    \/ /\ w.root = v.root
       /\ \E r \in Roots : \A q \in Roots \ {r} : w.disk[q] = v.disk[q]

Change ==
    /\ Len(history) < MaxWorlds
    /\ \E world \in Worlds \ {Now} :
         /\ Differs(world, Now)
         /\ history' = Append(history, world)
    /\ UNCHANGED << pc, locals, outcome, began, calls >>

Done == \A c \in Callers : pc[c] = "idle" /\ calls[c] = MaxCalls

\* Every caller has made its calls.
Terminating == Done /\ UNCHANGED vars

Next == (\E c \in Callers : Call(c) \/ Step(c)) \/ Change \/ Terminating

\* A thread inside parse_dmi keeps running; nothing forces it to call, nor the
\* world to change.
Spec == Init /\ [][Next]_vars /\ \A c \in Callers : WF_vars(Step(c))

-----------------------------------------------------------------------------

InBinding == {"bind_tbl", "open_ep", "open_tbl", "parse"}
Steps == {"idle", "find_ep", "stat_ep", "find_tbl", "stat_tbl", "blame_ep", "blame_tbl",
          "bind_ep"} \cup InBinding
Kinds == {"none", "DMIUnavailableError", "DMIPermissionError", "OSError",
          "protocol", "ParsedSMBIOS"}

\* Each caller is at a step of the code, with the local variables that step has
\* assigned: the paths and bytes it uses are never the ones of no call, and the
\* exceptions of the language are not among the ways it ends.
TypeOK ==
    /\ history \in Seq(Worlds) /\ Len(history) \in 1 .. MaxWorlds
    /\ pc \in [Callers -> Steps]
    /\ calls \in [Callers -> 0 .. MaxCalls]
    /\ began \in [Callers -> 0 .. Len(history)]
    /\ path \in [Callers -> Paths \cup {NoPath}]
    /\ ep_path \in [Callers -> Paths \cup {NoPath}]
    /\ tbl_path \in [Callers -> Paths \cup {NoPath}]
    /\ ep_bytes \in [Callers -> Seq(Byte)]
    /\ tbl_bytes \in [Callers -> Seq(Byte)]
    /\ outcome = [c \in Callers |-> outcome[c]]
    /\ \A c \in Callers :
         /\ began[c] = 0 => pc[c] = "idle" /\ outcome[c] = NotYet
         /\ pc[c] \in {"stat_ep", "stat_tbl"} => path[c] \in Paths
         /\ pc[c] \in InBinding \cup {"blame_tbl"} => ep_path[c] \in Paths
         /\ pc[c] \in InBinding \ {"bind_tbl"} => tbl_path[c] \in Paths
         /\ outcome[c].kind \in Kinds

Over(c) == outcome[c] # NotYet

\* A call during which nothing changed ends the way parse_dmi ends when it runs
\* alone: the checks of is_available cover both opens, and the errors come in the
\* code's order of precedence (lines 148-168).
AtomicIfQuiet(c) == Over(c) /\ began[c] = Len(history) => outcome[c] = Attempt(Now)
QuietCallIsAtomic == \A c \in Callers : AtomicIfQuiet(c)

\* Root r was in the environment at or before world i of the call of c.
RootKnown(c, r, i) == \E h \in began[c] .. i : history[h].root = r

\* Outcome how is what the entry point under root r in world i and the table under
\* root q in world j parse to; the call of c knew both roots by world i.
ParsedFrom(c, how, i, j, r, q) ==
    LET ep == [root |-> r, name |-> "smbios_entry_point"]
        tbl == [root |-> q, name |-> "DMI"]
    IN  /\ RootKnown(c, r, i) /\ RootKnown(c, q, i)
        /\ Readable(history[i], ep) /\ Readable(history[j], tbl)
        /\ how = ParseBytes(FileAt(history[i], ep).bytes,
                            FileAt(history[j], tbl).bytes)

\* What was parsed was on disk while the call ran: the entry point in one world
\* and the table in the same or a later one, each under a root the environment
\* named during the call.  Nothing is kept from an earlier call or taken from
\* another thread (README: "fresh on every call", "no internal caching").
OnDiskIfParsed(c) ==
    outcome[c].kind \in {"ParsedSMBIOS", "protocol"} =>
        \E i \in began[c] .. Len(history) : \E j \in i .. Len(history) :
            \E r, q \in Roots : ParsedFrom(c, outcome[c], i, j, r, q)
ParsedWasOnDisk == \A c \in Callers : OnDiskIfParsed(c)

\* Every error names something that was so while the call ran: a file that did
\* not exist, a path that could not be opened, and an error of the operating
\* system escapes only if the file went away after the check (lines 148-164).
HasReason(c) ==
    LET span == began[c] .. Len(history)
        how == outcome[c]
    IN  /\ how.kind = "DMIUnavailableError" =>
             \E i \in span, r \in Roots, name \in FileNames :
                 /\ RootKnown(c, r, i)
                 /\ ~ Exists(history[i], [root |-> r, name |-> name])
        /\ how.kind = "DMIPermissionError" =>
             \E i \in span : RootKnown(c, how.path.root, i)
                              /\ OpenDenied(history[i], how.path)
        /\ how.kind = "OSError" /\ how.errno = "ENOENT" =>
             \E i \in span : i > began[c] /\ Missing(history[i], how.path)
        /\ how.kind = "OSError" /\ how.errno = "EACCES" =>
             \E i \in span : StatRaises /\ ~ Searchable(history[i], how.path)
ErrorsHaveAReason == \A c \in Callers : HasReason(c)

\* Every call ends, whatever happens to the files.
CallsEnd == \A c \in Callers : pc[c] # "idle" ~> pc[c] = "idle"

\* The state of a call as Acquisition sees it.
Phase(c) ==
    CASE pc[c] = "idle"                      -> "idle"
      [] pc[c] \in {"blame_ep", "blame_tbl"} -> "missing"
      [] OTHER                               -> "reading"
RootsNamed(c) ==
    IF pc[c] = "idle" THEN {} ELSE {history[h].root : h \in began[c] .. Len(history)}
BytesRead(c) ==
    CASE pc[c] = "open_tbl" -> << ep_bytes[c] >>
      [] pc[c] = "parse"    -> << ep_bytes[c], tbl_bytes[c] >>
      [] OTHER              -> << >>
Disturbed(c) == pc[c] # "idle" /\ began[c] < Len(history)

AbstractPhase == [c \in Callers |-> Phase(c)]
AbstractRoots == [c \in Callers |-> RootsNamed(c)]
AbstractRead == [c \in Callers |-> BytesRead(c)]
AbstractDisturbed == [c \in Callers |-> Disturbed(c)]

Promise == INSTANCE Acquisition WITH
    world <- Now, phase <- AbstractPhase, roots <- AbstractRoots,
    read <- AbstractRead, disturbed <- AbstractDisturbed

\* Checks, opens and changes in all their interleavings are a call of Acquisition: one
\* content of each file, entry point first, from roots in force since the call began;
\* an atomic attempt when nothing changed; a refusal only for what the call met; and an
\* end (lines 146-168).  In the abstract call a stat is nothing, a failed one apart.
ImplementsAcquisition == Promise!Spec

\* errors.py:2 says of DMIError: "Base exception for everything raised by
\* ``truenas_pydmi``."  The open calls translate PermissionError only.
EveryErrorIsDMIError ==
    \A c \in Callers : outcome[c].kind # "OSError"

\* errors.py:14 says of DMIPermissionError: "Read access to
\* /sys/firmware/dmi/tables/ was denied."  With the directory itself closed, the
\* call never gets to the open that would raise it.
DenialIsReported ==
    \A c \in Callers :
        /\ Over(c) /\ began[c] = Len(history)
        /\ ~ Searchable(Now, [root |-> Now.root, name |-> "DMI"])
        => outcome[c].kind = "DMIPermissionError"
=============================================================================
