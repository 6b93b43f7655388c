--------------------------- MODULE ParseDMIProofs ---------------------------
(***************************************************************************)
(* Proofs about ParseDMI, for any number of callers, worlds and calls: the *)
(* three safety invariants, and that every step is a step of Acquisition.  *)
(*                                                                         *)
(* The invariants speak of calls that have ended.  The inductive invariant *)
(* adds what a call under way has found out: whose paths and bytes its     *)
(* local variables hold, and, as long as nothing changed since it began,   *)
(* that every check it has passed still holds.                             *)
(***************************************************************************)
EXTENDS ParseDMI, SequenceTheorems, TLAPS

Span(c) == began[c] .. Len(history)

\* p was made of a root in force during the call of c.
Made(c, p, name) == \E h \in Span(c) : p = [root |-> history[h].root, name |-> name]

\* Every path a call is about to use was made by that call, in the code's order.
PathsWereMade(c) ==
    /\ pc[c] = "stat_ep" => Made(c, path[c], "smbios_entry_point")
    /\ pc[c] = "stat_tbl" => Made(c, path[c], "DMI")
    /\ pc[c] \in InBinding \cup {"blame_tbl"} => Made(c, ep_path[c], "smbios_entry_point")
    /\ pc[c] \in InBinding \ {"bind_tbl"} => Made(c, tbl_path[c], "DMI")

ReadIn(i, p, bytes) == Readable(history[i], p) /\ bytes = FileAt(history[i], p).bytes

\* In world i both paths had been made and the entry point was read.
EntryPointReadIn(c, i) ==
    /\ RootKnown(c, ep_path[c].root, i) /\ RootKnown(c, tbl_path[c].root, i)
    /\ ReadIn(i, ep_path[c], ep_bytes[c])

\* The bytes a call holds were on disk during it, the entry point's first.
BytesWereOnDisk(c) ==
    /\ pc[c] = "open_tbl" => \E i \in Span(c) : EntryPointReadIn(c, i)
    /\ pc[c] = "parse" => \E i \in Span(c) :
         /\ EntryPointReadIn(c, i)
         /\ \E j \in i .. Len(history) : ReadIn(j, tbl_path[c], tbl_bytes[c])

\* A call about to raise DMIUnavailableError has met a file that did not exist.
SomethingWasMissing(c) ==
    pc[c] \in {"blame_ep", "blame_tbl"} =>
        \E i \in Span(c), r \in Roots, name \in FileNames :
            /\ RootKnown(c, r, i)
            /\ ~ Exists(history[i], [root |-> r, name |-> name])

EntryPointHere == PathOf("smbios_entry_point")
TableHere == PathOf("DMI")

\* What a call has found out is still so when nothing changed since it began.
ChecksStillHold(c) ==
    /\ pc[c] = "stat_ep" => path[c] = EntryPointHere
    /\ pc[c] \in {"find_tbl", "stat_tbl"} =>
         ~ StatDenied(Now, EntryPointHere) /\ Exists(Now, EntryPointHere)
    /\ pc[c] = "stat_tbl" => path[c] = TableHere
    /\ pc[c] \in {"blame_ep", "blame_tbl"} =>
         /\ ~ StatDenied(Now, EntryPointHere)
         /\ ~ Exists(Now, EntryPointHere) \/ ~ Exists(Now, TableHere)
    /\ pc[c] \in InBinding \cup {"bind_ep"} =>
         /\ ~ StatDenied(Now, EntryPointHere)
         /\ Exists(Now, EntryPointHere) /\ Exists(Now, TableHere)
    /\ pc[c] \in InBinding \cup {"blame_tbl"} => ep_path[c] = EntryPointHere
    /\ pc[c] \in InBinding \ {"bind_tbl"} => tbl_path[c] = TableHere
    /\ pc[c] \in {"open_tbl", "parse"} => ReadIn(Len(history), EntryPointHere, ep_bytes[c])
    /\ pc[c] = "parse" => ReadIn(Len(history), TableHere, tbl_bytes[c])

QuietSoFar(c) == began[c] = Len(history) => ChecksStillHold(c)

CallInv(c) ==
    /\ PathsWereMade(c) /\ BytesWereOnDisk(c) /\ SomethingWasMissing(c) /\ QuietSoFar(c)
    /\ AtomicIfQuiet(c) /\ OnDiskIfParsed(c) /\ HasReason(c)

IInv == TypeOK /\ \A c \in Callers : CallInv(c)

-----------------------------------------------------------------------------

(***************************************************************************)
(* Parsing ends in one of two ways, and no error of parse_dmi's own looks  *)
(* like either.                                                            *)
(***************************************************************************)

LEMMA EntryPointDecided ==
    ASSUME NEW buf \in Seq(Byte)
    PROVE  ParseEntryPoint(buf).kind \in {"entry_point", "protocol"}
<1>1. Len(buf) \in Nat
  OBVIOUS
<1>2. ParseSM3(buf).kind \in {"entry_point", "protocol"}
  BY <1>1 DEF ParseSM3, Reads, MinSM3, Accepted, Malformed
<1>3. ParseSM2(buf).kind \in {"entry_point", "protocol"}
  BY <1>1 DEF ParseSM2, Reads, MinSM2, Accepted, Malformed
<1> QED
  BY <1>2, <1>3 DEF ParseEntryPoint, Malformed

LEMMA ParseBytesKinds ==
    ASSUME NEW ep \in Seq(Byte), NEW tbl
    PROVE  ParseBytes(ep, tbl).kind \in {"protocol", "ParsedSMBIOS"}
BY EntryPointDecided DEF ParseBytes, Malformed

LEMMA NowIsAWorld ==
    ASSUME TypeOK
    PROVE  /\ \A i \in 1 .. Len(history) : /\ history[i].root \in Roots
                                          /\ history[i].disk \in [Roots -> Directories]
           /\ Len(history) \in Nat \ {0}
           /\ \A name \in FileNames : PathOf(name) \in Paths
<1>1. Len(history) \in Nat \ {0} /\ \A i \in 1 .. Len(history) : history[i] \in Worlds
  BY ParseDMIBounds DEF TypeOK
<1>2. \A i \in 1 .. Len(history) : /\ history[i].root \in Roots
                                  /\ history[i].disk \in [Roots -> Directories]
  BY <1>1, ParseDMIWorlds
<1>3. Now.root \in Roots
  BY <1>1, <1>2 DEF Now
<1> QED
  BY <1>1, <1>2, <1>3 DEF PathOf, Paths

LEMMA ContentsAreBytes ==
    ASSUME TypeOK, NEW i \in 1 .. Len(history), NEW p \in Paths
    PROVE  FileAt(history[i], p).bytes \in Seq(Byte)
BY NowIsAWorld DEF FileAt, Paths, Directories, Files

-----------------------------------------------------------------------------

(***************************************************************************)
(* What a step leaves of the invariant of a call it is not a step of.      *)
(***************************************************************************)

SameLocals(c) ==
    /\ pc'[c] = pc[c] /\ path'[c] = path[c] /\ outcome'[c] = outcome[c]
    /\ ep_path'[c] = ep_path[c] /\ tbl_path'[c] = tbl_path[c]
    /\ ep_bytes'[c] = ep_bytes[c] /\ tbl_bytes'[c] = tbl_bytes[c]
    /\ began'[c] = began[c]

LEMMA OthersKeepCall ==
    ASSUME NEW c \in Callers, CallInv(c), UNCHANGED history, SameLocals(c)
    PROVE  CallInv(c)'
<1> USE DEF SameLocals
<1>1. PathsWereMade(c)'
  BY DEF CallInv, PathsWereMade, Made, Span
<1>2. BytesWereOnDisk(c)'
  BY DEF CallInv, BytesWereOnDisk, EntryPointReadIn, ReadIn, RootKnown, Span
<1>3. SomethingWasMissing(c)'
  BY DEF CallInv, SomethingWasMissing, RootKnown, Span
<1>4. QuietSoFar(c)'
  BY DEF CallInv, QuietSoFar, ChecksStillHold, ReadIn, EntryPointHere, TableHere, PathOf, Now
<1>5. AtomicIfQuiet(c)'
  BY DEF CallInv, AtomicIfQuiet, Over, Now
<1>6. OnDiskIfParsed(c)'
  <2>1. \A how, i, j, r, q : ParsedFrom(c, how, i, j, r, q)' <=> ParsedFrom(c, how, i, j, r, q)
    BY DEF ParsedFrom, RootKnown
  <2> QED
    BY <2>1 DEF CallInv, OnDiskIfParsed
<1>7. HasReason(c)'
  BY DEF CallInv, HasReason, RootKnown
<1> QED
  BY <1>1, <1>2, <1>3, <1>4, <1>5, <1>6, <1>7 DEF CallInv

\* A change of the world adds to what a call may have met and takes nothing away;
\* no call is quiet after it.
LEMMA ChangeKeepsCalls ==
    ASSUME IInv, Change, NEW c \in Callers
    PROVE  CallInv(c)'
<1>1. PICK world \in Worlds : history' = Append(history, world)
  BY DEF Change
<1>2. /\ history \in Seq(Worlds) /\ Len(history) \in Nat \ {0}
      /\ Len(history') = Len(history) + 1
      /\ \A i \in 1 .. Len(history) : history'[i] = history[i]
  BY <1>1, NowIsAWorld DEF IInv, TypeOK
<1>3. /\ began[c] \in 0 .. Len(history) /\ began'[c] = began[c]
      /\ began'[c] # Len(history') /\ SameLocals(c)
      /\ began[c] = 0 => pc[c] = "idle" /\ outcome[c] = NotYet
  BY <1>2 DEF IInv, TypeOK, Change, locals, SameLocals
<1>4. ASSUME began[c] = 0  PROVE  CallInv(c)'
  BY <1>2, <1>3, <1>4 DEF SameLocals, CallInv, PathsWereMade, BytesWereOnDisk,
     SomethingWasMissing, QuietSoFar, AtomicIfQuiet, OnDiskIfParsed, HasReason, NotYet, InBinding
<1>5. ASSUME began[c] \in 1 .. Len(history)  PROVE  CallInv(c)'
  <2>1. CallInv(c) /\ Span(c) \subseteq 1 .. Len(history) /\ Span(c) \subseteq Span(c)'
    BY <1>2, <1>3, <1>5 DEF IInv, Span
  <2>2. \A i \in Span(c) : \A r : RootKnown(c, r, i) => RootKnown(c, r, i)'
    BY <1>2, <1>3, <1>5, <2>1 DEF RootKnown, Span
  <2>3. PathsWereMade(c)'
    BY <1>2, <1>3, <2>1 DEF CallInv, PathsWereMade, Made, SameLocals
  <2>4. BytesWereOnDisk(c)'
    <3>1. \A i \in Span(c) : EntryPointReadIn(c, i) => EntryPointReadIn(c, i)'
      BY <1>2, <1>3, <2>1, <2>2 DEF EntryPointReadIn, ReadIn, SameLocals
    <3>2. \A i \in Span(c) : \A j \in i .. Len(history) :
            j \in i .. Len(history') /\ history'[j] = history[j]
      BY <1>2, <2>1
    <3> QED
      BY <1>3, <2>1, <3>1, <3>2 DEF CallInv, BytesWereOnDisk, ReadIn, SameLocals
  <2>5. SomethingWasMissing(c)'
    BY <1>2, <1>3, <2>1, <2>2 DEF CallInv, SomethingWasMissing, SameLocals
  <2>6. QuietSoFar(c)' /\ AtomicIfQuiet(c)'
    BY <1>3 DEF QuietSoFar, AtomicIfQuiet
  <2>7. OnDiskIfParsed(c)'
    <3>1. \A i \in Span(c) : \A j \in i .. Len(history) :
            j \in i .. Len(history') /\ history'[j] = history[j]
      BY <1>2, <2>1
    <3>2. \A i \in Span(c) : \A j \in i .. Len(history) : \A how, r, q :
            ParsedFrom(c, how, i, j, r, q) => ParsedFrom(c, how, i, j, r, q)'
      BY <1>2, <1>3, <2>1, <2>2, <3>1 DEF ParsedFrom, SameLocals
    <3> QED
      BY <1>2, <1>3, <2>1, <3>1, <3>2 DEF CallInv, OnDiskIfParsed, SameLocals, Span
  <2>8. HasReason(c)'
    BY <1>2, <1>3, <2>1, <2>2 DEF CallInv, HasReason, SameLocals, Span
  <2> QED
    BY <2>3, <2>4, <2>5, <2>6, <2>7, <2>8 DEF CallInv
<1> QED
  BY <1>2, <1>3, <1>4, <1>5

-----------------------------------------------------------------------------

(***************************************************************************)
(* Types.                                                                  *)
(***************************************************************************)

\* What an action leaves alone of the type invariant, it need not show again.
CallerTypeOK(c) ==
    /\ began[c] = 0 => pc[c] = "idle" /\ outcome[c] = NotYet
    /\ pc[c] \in {"stat_ep", "stat_tbl"} => path[c] \in Paths
    /\ pc[c] \in InBinding \cup {"blame_tbl"} => ep_path[c] \in Paths
    /\ pc[c] \in InBinding \ {"bind_tbl"} => tbl_path[c] \in Paths
    /\ outcome[c].kind \in Kinds

VariablesTypeOK ==
    /\ history \in Seq(Worlds) /\ Len(history) \in 1 .. MaxWorlds
    /\ pc \in [Callers -> Steps]
    /\ calls \in [Callers -> 0 .. MaxCalls]
    /\ began \in [Callers -> 0 .. Len(history)]
    /\ path \in [Callers -> Paths \cup {NoPath}]
    /\ ep_path \in [Callers -> Paths \cup {NoPath}]
    /\ tbl_path \in [Callers -> Paths \cup {NoPath}]
    /\ ep_bytes \in [Callers -> Seq(Byte)]
    /\ tbl_bytes \in [Callers -> Seq(Byte)]
    /\ outcome = [c \in Callers |-> outcome[c]]

LEMMA FinishType ==
    ASSUME TypeOK, NEW c \in Callers, NEW from \in Steps \ {"idle"}, NEW how,
           how.kind \in Kinds, Finish(c, from, how)
    PROVE  TypeOK'
<1>1. << >> \in Seq(Byte) /\ began[c] # 0
  BY DEF TypeOK, Finish, Goto, NotYet
<1>2. VariablesTypeOK'
  BY <1>1 DEF TypeOK, VariablesTypeOK, Finish, Goto, Steps
<1>3. ASSUME NEW d \in Callers  PROVE  CallerTypeOK(d)'
  BY <1>1 DEF TypeOK, CallerTypeOK, Finish, Goto, InBinding
<1> QED
  BY <1>2, <1>3 DEF TypeOK, VariablesTypeOK, CallerTypeOK

LEMMA CallType ==
    ASSUME TypeOK, NEW c \in Callers, Call(c)
    PROVE  TypeOK'
<1>1. Len(history) \in Nat \ {0} /\ calls[c] \in 0 .. MaxCalls
  BY NowIsAWorld DEF TypeOK
<1>2. calls[c] + 1 \in 0 .. MaxCalls
  BY <1>1, ParseDMIBounds DEF Call
<1>3. VariablesTypeOK'
  <2>1. calls' \in [Callers -> 0 .. MaxCalls] /\ began' \in [Callers -> 0 .. Len(history')]
    BY <1>1, <1>2 DEF TypeOK, Call
  <2>2. pc' \in [Callers -> Steps] /\ outcome' = [d \in Callers |-> outcome'[d]]
    BY DEF TypeOK, Call, Goto, Steps
  <2> QED
    BY <2>1, <2>2 DEF TypeOK, VariablesTypeOK, Call, locals
<1>4. ASSUME NEW d \in Callers  PROVE  CallerTypeOK(d)'
  BY <1>1 DEF TypeOK, CallerTypeOK, Call, Goto, InBinding, locals, NotYet, Kinds
<1> QED
  BY <1>3, <1>4 DEF TypeOK, VariablesTypeOK, CallerTypeOK

LEMMA ChangeType ==
    ASSUME TypeOK, Change
    PROVE  TypeOK'
<1>1. PICK world \in Worlds : history' = Append(history, world)
  BY DEF Change
<1>2. /\ history' \in Seq(Worlds) /\ Len(history') = Len(history) + 1
      /\ Len(history) \in Nat \ {0}
      /\ Len(history') \in 1 .. MaxWorlds
  BY <1>1, NowIsAWorld, ParseDMIBounds DEF TypeOK, Change
<1>3. VariablesTypeOK'
  BY <1>2 DEF TypeOK, VariablesTypeOK, Change, locals
<1>4. ASSUME NEW d \in Callers  PROVE  CallerTypeOK(d)'
  BY DEF TypeOK, CallerTypeOK, Change, locals
<1> QED
  BY <1>3, <1>4 DEF TypeOK, VariablesTypeOK, CallerTypeOK

\* The steps that go on leave the outcome, the history and the counters alone.
LEMMA FindType ==
    ASSUME TypeOK, NEW c \in Callers, FindEntryPoint(c) \/ FindTable(c)
    PROVE  TypeOK'
<1>1. PathOf("smbios_entry_point") \in Paths /\ PathOf("DMI") \in Paths /\ began[c] # 0
  BY NowIsAWorld DEF FileNames, TypeOK, FindEntryPoint, FindTable, Goto
<1>2. VariablesTypeOK'
  BY <1>1, ZenonT(40) DEF TypeOK, VariablesTypeOK, FindEntryPoint, FindTable, Goto, Steps
<1>3. ASSUME NEW d \in Callers  PROVE  CallerTypeOK(d)'
  BY <1>1 DEF TypeOK, CallerTypeOK, FindEntryPoint, FindTable, Goto, InBinding
<1> QED
  BY <1>2, <1>3 DEF TypeOK, VariablesTypeOK, CallerTypeOK

LEMMA StatType ==
    ASSUME TypeOK, NEW c \in Callers, NEW from \in {"stat_ep", "stat_tbl"},
           NEW found \in {"find_tbl", "bind_ep"}, StatFrom(c, from, found)
    PROVE  TypeOK'
<1>1. CASE Finish(c, from, Escaped("EACCES", path[c]))
  BY <1>1, FinishType DEF Steps, Escaped, Kinds
<1>2. CASE /\ Goto(c, from, IF Exists(Now, path[c]) THEN found ELSE "blame_ep")
           /\ UNCHANGED << history, locals, outcome, began, calls >>
  <2>1. pc[c] = from /\ began[c] # 0
    BY <1>2 DEF TypeOK, Goto
  <2>2. VariablesTypeOK'
    BY <1>2 DEF TypeOK, VariablesTypeOK, Goto, Steps, locals
  <2>3. ASSUME NEW d \in Callers  PROVE  CallerTypeOK(d)'
    BY <1>2, <2>1 DEF TypeOK, CallerTypeOK, Goto, InBinding, locals
  <2> QED
    BY <2>2, <2>3 DEF TypeOK, VariablesTypeOK, CallerTypeOK
<1> QED
  BY <1>1, <1>2 DEF StatFrom

LEMMA BindType ==
    ASSUME TypeOK, NEW c \in Callers,
           BlameEntryPoint(c) \/ BindEntryPoint(c) \/ BindTable(c)
    PROVE  TypeOK'
<1> USE DEF BlameEntryPoint, BindEntryPoint, BindTable, Goto
<1>1. PathOf("smbios_entry_point") \in Paths /\ PathOf("DMI") \in Paths /\ began[c] # 0
  BY NowIsAWorld DEF FileNames, TypeOK
<1>2. VariablesTypeOK'
  <2>1. pc' \in [Callers -> Steps]
    BY DEF TypeOK, Steps, InBinding
  <2>2. ep_path' \in [Callers -> Paths \cup {NoPath}] /\ tbl_path' \in [Callers -> Paths \cup {NoPath}]
    BY <1>1, ZenonT(40) DEF TypeOK
  <2> QED
    BY <2>1, <2>2 DEF TypeOK, VariablesTypeOK
<1>3. ASSUME NEW d \in Callers  PROVE  CallerTypeOK(d)'
  BY <1>1 DEF TypeOK, CallerTypeOK, InBinding
<1> QED
  BY <1>2, <1>3 DEF TypeOK, VariablesTypeOK, CallerTypeOK

LEMMA OpenType ==
    ASSUME TypeOK, NEW c \in Callers, OpenEntryPoint(c) \/ OpenTable(c)
    PROVE  TypeOK'
<1>1. ASSUME NEW from \in {"open_ep", "open_tbl"}, NEW p, OpenFails(c, from, p)
      PROVE  TypeOK'
  BY <1>1, FinishType DEF OpenFails, Steps, InBinding, PermissionDenied, Escaped, Kinds
<1>2. ASSUME \/ /\ Goto(c, "open_ep", "open_tbl")
                /\ ep_bytes' = [ep_bytes EXCEPT ![c] = FileAt(Now, ep_path[c]).bytes]
                /\ UNCHANGED << history, path, ep_path, tbl_path, tbl_bytes, outcome, began, calls >>
             \/ /\ Goto(c, "open_tbl", "parse")
                /\ tbl_bytes' = [tbl_bytes EXCEPT ![c] = FileAt(Now, tbl_path[c]).bytes]
                /\ UNCHANGED << history, path, ep_path, tbl_path, ep_bytes, outcome, began, calls >>
      PROVE  TypeOK'
  <2>1. /\ pc[c] \in {"open_ep", "open_tbl"} /\ began[c] # 0
        /\ ep_path[c] \in Paths /\ tbl_path[c] \in Paths
    BY <1>2 DEF Goto, TypeOK, InBinding
  <2>2. FileAt(Now, ep_path[c]).bytes \in Seq(Byte) /\ FileAt(Now, tbl_path[c]).bytes \in Seq(Byte)
    <3>1. Len(history) \in 1 .. Len(history)
      BY NowIsAWorld
    <3> QED
      BY <2>1, <3>1, ContentsAreBytes DEF Now
  <2>3. VariablesTypeOK'
    BY <1>2, <2>2 DEF TypeOK, VariablesTypeOK, Goto, Steps, InBinding
  <2>4. ASSUME NEW d \in Callers  PROVE  CallerTypeOK(d)'
    BY <1>2, <2>1 DEF TypeOK, CallerTypeOK, Goto, InBinding
  <2> QED
    BY <2>3, <2>4 DEF TypeOK, VariablesTypeOK, CallerTypeOK
<1> QED
  BY <1>1, <1>2 DEF OpenEntryPoint, OpenTable

LEMMA EndType ==
    ASSUME TypeOK, NEW c \in Callers, BlameTable(c) \/ Parse(c)
    PROVE  TypeOK'
<1>1. CASE BlameTable(c)
  BY <1>1, FinishType DEF BlameTable, Unavailable, Steps, Kinds
<1>2. CASE Parse(c)
  <2>1. ParseBytes(ep_bytes[c], tbl_bytes[c]).kind \in Kinds
    BY ParseBytesKinds DEF TypeOK, Kinds
  <2> QED
    BY <1>2, <2>1, FinishType DEF Parse, Steps, InBinding
<1> QED
  BY <1>1, <1>2

LEMMA TypeStep ==
    ASSUME TypeOK, [Next]_vars
    PROVE  TypeOK'
<1>1. ASSUME NEW c \in Callers, Step(c)  PROVE  TypeOK'
  <2>1. CASE StatEntryPoint(c) \/ StatTable(c)
    BY <2>1, StatType DEF StatEntryPoint, StatTable
  <2> QED
    BY <1>1, <2>1, FindType, BindType, OpenType, EndType DEF Step
<1>2. CASE UNCHANGED vars
  BY <1>2 DEF TypeOK, vars
<1> QED
  BY <1>1, <1>2, CallType, ChangeType DEF Next, Terminating

LEMMA TypeInit == Init => TypeOK
<1> SUFFICES ASSUME Init  PROVE  TypeOK
  OBVIOUS
<1>1. PICK world \in Worlds : history = << world >>
  BY DEF Init
<1>2. history \in Seq(Worlds) /\ Len(history) = 1 /\ << >> \in Seq(Byte)
  BY <1>1
<1> QED
  BY <1>2, ParseDMIBounds DEF Init, TypeOK, Steps, InBinding, NotYet, Kinds

-----------------------------------------------------------------------------

(***************************************************************************)
(* A step of a call keeps the call's own invariant.                        *)
(***************************************************************************)

LEMMA StepIsLocal ==
    ASSUME TypeOK, NEW c \in Callers, Call(c) \/ Step(c), NEW d \in Callers \ {c}
    PROVE  UNCHANGED history /\ SameLocals(d)
<1> USE DEF TypeOK, SameLocals, locals, Goto
<1>1. ASSUME NEW from, NEW how, Finish(c, from, how)
      PROVE  UNCHANGED history /\ SameLocals(d)
  BY <1>1 DEF Finish
<1>2. CASE Call(c)
  BY <1>2 DEF Call
<1>3. CASE FindEntryPoint(c) \/ FindTable(c)
  BY <1>3 DEF FindEntryPoint, FindTable
<1>4. CASE BlameEntryPoint(c) \/ BindEntryPoint(c) \/ BindTable(c)
  BY <1>4 DEF BlameEntryPoint, BindEntryPoint, BindTable
<1>5. CASE StatEntryPoint(c) \/ StatTable(c)
  BY <1>1, <1>5 DEF StatEntryPoint, StatTable, StatFrom
<1>6. CASE OpenEntryPoint(c) \/ OpenTable(c)
  BY <1>1, <1>6 DEF OpenEntryPoint, OpenTable, OpenFails
<1>7. CASE BlameTable(c) \/ Parse(c)
  BY <1>1, <1>7 DEF BlameTable, Parse
<1> QED
  BY <1>2, <1>3, <1>4, <1>5, <1>6, <1>7 DEF Step

LEMMA EndedCall ==
    ASSUME NEW c \in Callers, pc'[c] = "idle",
           AtomicIfQuiet(c)', OnDiskIfParsed(c)', HasReason(c)'
    PROVE  CallInv(c)'
BY DEF CallInv, PathsWereMade, BytesWereOnDisk, SomethingWasMissing, QuietSoFar,
   ChecksStillHold, InBinding

LEMMA RunningCall ==
    ASSUME NEW c \in Callers, CallInv(c), UNCHANGED << history, began, outcome >>,
           PathsWereMade(c)', BytesWereOnDisk(c)', SomethingWasMissing(c)', QuietSoFar(c)'
    PROVE  CallInv(c)'
<1>1. AtomicIfQuiet(c)'
  BY DEF CallInv, AtomicIfQuiet, Over, Now
<1>2. OnDiskIfParsed(c)'
  <2>1. \A how, i, j, r, q : ParsedFrom(c, how, i, j, r, q)' <=> ParsedFrom(c, how, i, j, r, q)
    BY DEF ParsedFrom, RootKnown
  <2> QED
    BY <2>1 DEF CallInv, OnDiskIfParsed
<1>3. HasReason(c)'
  BY DEF CallInv, HasReason, RootKnown
<1> QED
  BY <1>1, <1>2, <1>3 DEF CallInv

\* A call that has just begun has used and found out nothing.
LEMMA CallBegins ==
    ASSUME IInv, NEW c \in Callers, Call(c)
    PROVE  CallInv(c)'
<1>1. pc'[c] = "find_ep" /\ outcome'[c] = NotYet
  BY DEF IInv, TypeOK, Call, Goto
<1> QED
  BY <1>1 DEF CallInv, PathsWereMade, BytesWereOnDisk, SomethingWasMissing, QuietSoFar,
     ChecksStillHold, InBinding, AtomicIfQuiet, Over, OnDiskIfParsed, HasReason, NotYet

\* The present world is one of the call's own, and its root is known.
LEMMA NowIsKnown ==
    ASSUME TypeOK, NEW c \in Callers, pc[c] # "idle"
    PROVE  /\ Len(history) \in Span(c)
           /\ Now.root \in Roots
           /\ \A name : Made(c, PathOf(name), name)
           /\ RootKnown(c, Now.root, Len(history))
<1>1. Len(history) \in Span(c) /\ Len(history) \in 1 .. Len(history)
  BY NowIsAWorld DEF Span, TypeOK
<1> QED
  BY <1>1, NowIsAWorld DEF Made, PathOf, Now, RootKnown, Span

LEMMA FindKeeps ==
    ASSUME IInv, NEW c \in Callers, FindEntryPoint(c) \/ FindTable(c)
    PROVE  CallInv(c)'
<1> USE DEF FindEntryPoint, FindTable, Goto
<1>1. /\ CallInv(c) /\ TypeOK /\ pc[c] \in {"find_ep", "find_tbl"}
      /\ UNCHANGED << history, began, outcome >>
      /\ \/ pc[c] = "find_ep" /\ pc'[c] = "stat_ep" /\ path'[c] = EntryPointHere
         \/ pc[c] = "find_tbl" /\ pc'[c] = "stat_tbl" /\ path'[c] = TableHere
  BY DEF IInv, TypeOK, EntryPointHere, TableHere
<1> HIDE DEF FindEntryPoint, FindTable, Goto
<1>2. PathsWereMade(c)'
  BY <1>1, NowIsKnown DEF PathsWereMade, Made, Span, EntryPointHere, TableHere, InBinding
<1>3. BytesWereOnDisk(c)' /\ SomethingWasMissing(c)'
  BY <1>1 DEF BytesWereOnDisk, SomethingWasMissing
<1>4. QuietSoFar(c)'
  BY <1>1 DEF CallInv, QuietSoFar, ChecksStillHold, InBinding, EntryPointHere, TableHere, PathOf, Now
<1> QED
  BY <1>1, <1>2, <1>3, <1>4, RunningCall

LEMMA MadePaths ==
    ASSUME TypeOK, NEW c \in Callers, pc[c] # "idle", NEW name \in FileNames,
           NEW p, Made(c, p, name)
    PROVE  /\ p = [root |-> p.root, name |-> name] /\ p \in Paths
           /\ RootKnown(c, p.root, Len(history))
<1>1. PICK h \in Span(c) : p = [root |-> history[h].root, name |-> name]
  BY DEF Made
<1>2. h \in 1 .. Len(history) /\ h \in began[c] .. Len(history)
  BY NowIsAWorld DEF Span, TypeOK
<1> QED
  BY <1>1, <1>2, NowIsAWorld DEF Paths, RootKnown

\* The two files of a root are in one directory: is_available can be denied at the
\* second stat only if it is at the first.
LEMMA OneDirectory ==
    /\ Searchable(Now, EntryPointHere) <=> Searchable(Now, TableHere)
    /\ StatDenied(Now, EntryPointHere) <=> StatDenied(Now, TableHere)
BY DEF StatDenied, Searchable, EntryPointHere, TableHere, PathOf

\* The outcome of an ended call, judged in the world it ended in.
LEMMA FinishKeeps ==
    ASSUME IInv, NEW c \in Callers, NEW from, from # "idle", NEW how, Finish(c, from, how),
           began[c] = Len(history) => how = Attempt(Now),
           how.kind \in {"ParsedSMBIOS", "protocol"} =>
             \E i \in Span(c) : \E j \in i .. Len(history) : \E r, q \in Roots :
                ParsedFrom(c, how, i, j, r, q),
           how.kind = "DMIUnavailableError" =>
             \E i \in Span(c), r \in Roots, name \in FileNames :
                RootKnown(c, r, i) /\ ~ Exists(history[i], [root |-> r, name |-> name]),
           how.kind = "DMIPermissionError" =>
             RootKnown(c, how.path.root, Len(history)) /\ OpenDenied(Now, how.path),
           how.kind = "OSError" /\ how.errno = "ENOENT" =>
             began[c] # Len(history) /\ Missing(Now, how.path),
           how.kind = "OSError" /\ how.errno = "EACCES" =>
             StatRaises /\ ~ Searchable(Now, how.path)
    PROVE  CallInv(c)'
<1>1. /\ TypeOK /\ pc[c] # "idle" /\ pc'[c] = "idle" /\ outcome'[c] = how
      /\ UNCHANGED << history, began >>
  BY DEF IInv, TypeOK, Finish, Goto
<1>2. Len(history) \in Span(c) /\ began[c] \in Nat /\ began[c] <= Len(history)
  BY <1>1, NowIsKnown, NowIsAWorld DEF TypeOK
<1>3. AtomicIfQuiet(c)'
  BY <1>1 DEF AtomicIfQuiet, Now
<1>4. OnDiskIfParsed(c)'
  <2>1. \A i, j, r, q : ParsedFrom(c, how, i, j, r, q)' <=> ParsedFrom(c, how, i, j, r, q)
    BY <1>1 DEF ParsedFrom, RootKnown
  <2> QED
    BY <1>1, <2>1 DEF OnDiskIfParsed, Span
<1>5. HasReason(c)'
  <2>1. \A i, r : RootKnown(c, r, i)' <=> RootKnown(c, r, i)
    BY <1>1 DEF RootKnown
  <2>2. how.kind = "OSError" /\ how.errno = "ENOENT" => Len(history) > began[c]
    BY <1>2, NowIsAWorld, <1>1
  <2> QED
    BY <1>1, <1>2, <2>1, <2>2 DEF HasReason, Span, Now
<1> QED
  BY <1>1, <1>3, <1>4, <1>5, EndedCall

\* A stat that raises ends the call: it was the first one, if nothing changed.
LEMMA StatDeniedKeeps ==
    ASSUME IInv, NEW c \in Callers, NEW from \in {"stat_ep", "stat_tbl"},
           StatDenied(Now, path[c]), Finish(c, from, Escaped("EACCES", path[c]))
    PROVE  CallInv(c)'
<1> DEFINE how == Escaped("EACCES", path[c])
<1>1. pc[c] = from /\ CallInv(c)
  BY DEF IInv, Finish, Goto
<1>2. how.kind = "OSError" /\ how.errno = "EACCES" /\ how.path = path[c]
  BY DEF Escaped
<1>3. StatRaises /\ ~ Searchable(Now, path[c])
  BY DEF StatDenied
<1>4. ASSUME began[c] = Len(history)  PROVE  how = Attempt(Now)
  <2>1. ChecksStillHold(c)
    BY <1>1, <1>4 DEF CallInv, QuietSoFar
  <2>2. path[c] = EntryPointHere
    BY <1>1, <2>1, OneDirectory DEF ChecksStillHold
  <2> QED
    BY <2>2 DEF Attempt, EntryPointHere, PathOf
<1> HIDE DEF how
<1> QED
  BY <1>2, <1>3, <1>4, FinishKeeps DEF how

LEMMA StatKeeps ==
    ASSUME IInv, NEW c \in Callers, StatEntryPoint(c) \/ StatTable(c)
    PROVE  CallInv(c)'
<1>1. PICK from \in {"stat_ep", "stat_tbl"}, found \in {"find_tbl", "bind_ep"} :
        StatFrom(c, from, found) /\ (from = "stat_ep" <=> found = "find_tbl")
  BY DEF StatEntryPoint, StatTable
<1>2. CASE StatDenied(Now, path[c]) /\ Finish(c, from, Escaped("EACCES", path[c]))
  BY <1>2, StatDeniedKeeps
<1>3. CASE /\ ~ StatDenied(Now, path[c])
           /\ Goto(c, from, IF Exists(Now, path[c]) THEN found ELSE "blame_ep")
           /\ UNCHANGED << history, locals, outcome, began, calls >>
  <2>1. /\ TypeOK /\ CallInv(c) /\ pc[c] = from
        /\ pc'[c] = IF Exists(Now, path[c]) THEN found ELSE "blame_ep"
        /\ UNCHANGED << history, path, ep_path, tbl_path, ep_bytes, tbl_bytes, began, outcome >>
    BY <1>3 DEF IInv, TypeOK, Goto, locals
  <2>2. PathsWereMade(c)' /\ BytesWereOnDisk(c)'
    BY <2>1 DEF PathsWereMade, BytesWereOnDisk, InBinding
  <2>3. SomethingWasMissing(c)'
    <3>1. ASSUME ~ Exists(Now, path[c])
          PROVE  \E name \in FileNames :
                   /\ path[c] = [root |-> path[c].root, name |-> name]
                   /\ path[c].root \in Roots /\ RootKnown(c, path[c].root, Len(history))
      <4>1. PICK name \in FileNames : Made(c, path[c], name)
        BY <2>1 DEF CallInv, PathsWereMade, FileNames
      <4> QED
        BY <2>1, <4>1, MadePaths DEF Paths
    <3>2. Len(history) \in Span(c)
      BY <2>1, NowIsKnown
    <3>3. ASSUME ~ Exists(Now, path[c])
          PROVE  \E i \in Span(c), r \in Roots, name \in FileNames :
                    /\ RootKnown(c, r, i)
                    /\ ~ Exists(history[i], [root |-> r, name |-> name])
      BY <3>1, <3>2, <3>3 DEF Now
    <3> QED
      BY <2>1, <3>3 DEF SomethingWasMissing, Span, RootKnown
  <2>4. QuietSoFar(c)'
    BY <1>1, <1>3, <2>1, OneDirectory DEF CallInv, QuietSoFar, ChecksStillHold, InBinding,
       EntryPointHere, TableHere, PathOf, Now
  <2> QED
    BY <2>1, <2>2, <2>3, <2>4, RunningCall
<1> QED
  BY <1>1, <1>2, <1>3 DEF StatFrom

\* A path made now is known, and is the path Attempt uses if nothing changes.
LEMMA BindKeeps ==
    ASSUME IInv, NEW c \in Callers,
           BlameEntryPoint(c) \/ BindEntryPoint(c) \/ BindTable(c)
    PROVE  CallInv(c)'
<1> USE DEF BlameEntryPoint, BindEntryPoint, BindTable, Goto
<1>1. /\ CallInv(c) /\ TypeOK /\ pc[c] \in {"blame_ep", "bind_ep", "bind_tbl"}
      /\ UNCHANGED << history, began, outcome >>
      /\ \/ /\ pc[c] = "blame_ep" /\ pc'[c] = "blame_tbl"
            /\ ep_path'[c] = EntryPointHere
         \/ /\ pc[c] = "bind_ep" /\ pc'[c] = "bind_tbl"
            /\ ep_path'[c] = EntryPointHere
         \/ /\ pc[c] = "bind_tbl" /\ pc'[c] = "open_ep"
            /\ ep_path'[c] = ep_path[c] /\ tbl_path'[c] = TableHere
  BY DEF IInv, TypeOK, EntryPointHere, TableHere
<1> HIDE DEF BlameEntryPoint, BindEntryPoint, BindTable, Goto
<1>2. PathsWereMade(c)'
  BY <1>1, NowIsKnown DEF CallInv, PathsWereMade, Made, Span, EntryPointHere, TableHere, InBinding
<1>3. BytesWereOnDisk(c)' /\ SomethingWasMissing(c)'
  BY <1>1 DEF CallInv, BytesWereOnDisk, SomethingWasMissing, RootKnown, Span
<1>4. QuietSoFar(c)'
  BY <1>1 DEF CallInv, QuietSoFar, ChecksStillHold, InBinding, EntryPointHere, TableHere, PathOf, Now
<1> QED
  BY <1>1, <1>2, <1>3, <1>4, RunningCall

\* An open that fails ends the call: a missing file is impossible if nothing
\* changed, and the first path denied is the one Attempt reports.
LEMMA OpenFailsKeeps ==
    ASSUME IInv, NEW c \in Callers, NEW from, NEW p,
           \/ from = "open_ep" /\ p = ep_path[c]
           \/ from = "open_tbl" /\ p = tbl_path[c],
           OpenFails(c, from, p)
    PROVE  CallInv(c)'
<1>1. /\ TypeOK /\ CallInv(c) /\ pc[c] = from /\ pc[c] # "idle"
      /\ pc[c] \in InBinding \ {"bind_tbl"}
  BY DEF IInv, OpenFails, InBinding
<1>2. RootKnown(c, p.root, Len(history))
  <2>1. \E name \in FileNames : Made(c, p, name)
    BY <1>1 DEF CallInv, PathsWereMade, FileNames
  <2> QED
    BY <1>1, <2>1, MadePaths
<1>3. ASSUME began[c] = Len(history)
      PROVE  /\ ChecksStillHold(c) /\ Exists(Now, EntryPointHere) /\ Exists(Now, TableHere)
             /\ ~ StatDenied(Now, EntryPointHere)
             /\ from = "open_ep" => p = EntryPointHere
             /\ from = "open_tbl" => p = TableHere /\ Readable(Now, EntryPointHere)
  BY <1>1, <1>3 DEF CallInv, QuietSoFar, ChecksStillHold, InBinding, ReadIn, Now
<1>4. ASSUME OpenDenied(Now, p), Finish(c, from, PermissionDenied(p))  PROVE  CallInv(c)'
  <2> DEFINE how == PermissionDenied(p)
  <2>1. how.kind = "DMIPermissionError" /\ how.path = p
    BY DEF PermissionDenied
  <2>2. ASSUME began[c] = Len(history)  PROVE  how = Attempt(Now)
    BY <1>1, <1>3, <1>4, <2>2
       DEF Attempt, EntryPointHere, TableHere, PathOf, OpenDenied, Readable, Exists
  <2> HIDE DEF how
  <2> QED
    BY <1>1, <1>2, <1>4, <2>1, <2>2, FinishKeeps DEF how
<1>5. ASSUME Missing(Now, p), Finish(c, from, Escaped("ENOENT", p))  PROVE  CallInv(c)'
  <2> DEFINE how == Escaped("ENOENT", p)
  <2>1. how.kind = "OSError" /\ how.errno = "ENOENT" /\ how.path = p
    BY DEF Escaped
  <2>2. began[c] # Len(history)
    BY <1>1, <1>3, <1>5 DEF Exists, Missing
  <2> HIDE DEF how
  <2> QED
    BY <1>1, <1>5, <2>1, <2>2, FinishKeeps DEF how
<1> QED
  BY <1>4, <1>5 DEF OpenFails

LEMMA OpenEntryPointKeeps ==
    ASSUME IInv, NEW c \in Callers, OpenEntryPoint(c)
    PROVE  CallInv(c)'
<1>1. CASE OpenFails(c, "open_ep", ep_path[c])
  BY <1>1, OpenFailsKeeps
<1>2. CASE /\ Readable(Now, ep_path[c])
           /\ Goto(c, "open_ep", "open_tbl")
           /\ ep_bytes' = [ep_bytes EXCEPT ![c] = FileAt(Now, ep_path[c]).bytes]
           /\ UNCHANGED << history, path, ep_path, tbl_path, tbl_bytes, outcome, began, calls >>
  <2>1. /\ TypeOK /\ CallInv(c) /\ pc[c] = "open_ep" /\ pc'[c] = "open_tbl"
        /\ ep_bytes'[c] = FileAt(Now, ep_path[c]).bytes
        /\ UNCHANGED << history, ep_path, tbl_path, began, outcome >>
    BY <1>2 DEF IInv, TypeOK, Goto
  <2>2. PathsWereMade(c)'
    BY <2>1 DEF CallInv, PathsWereMade, Made, Span, InBinding
  <2>3. BytesWereOnDisk(c)'
    <3>1. /\ RootKnown(c, ep_path[c].root, Len(history))
          /\ RootKnown(c, tbl_path[c].root, Len(history))
          /\ Len(history) \in Span(c)
      <4>1. Made(c, ep_path[c], "smbios_entry_point") /\ Made(c, tbl_path[c], "DMI")
        BY <2>1 DEF CallInv, PathsWereMade, InBinding
      <4> QED
        BY <2>1, <4>1, MadePaths, NowIsKnown DEF FileNames
    <3>2. EntryPointReadIn(c, Len(history))'
      BY <1>2, <2>1, <3>1 DEF EntryPointReadIn, ReadIn, RootKnown, Now
    <3> QED
      BY <2>1, <3>1, <3>2 DEF BytesWereOnDisk, Span
  <2>4. SomethingWasMissing(c)'
    BY <2>1 DEF SomethingWasMissing
  <2>5. QuietSoFar(c)'
    BY <1>2, <2>1 DEF CallInv, QuietSoFar, ChecksStillHold, InBinding, ReadIn,
       EntryPointHere, TableHere, PathOf, Now
  <2> QED
    BY <2>1, <2>2, <2>3, <2>4, <2>5, RunningCall
<1> QED
  BY <1>1, <1>2 DEF OpenEntryPoint

LEMMA OpenTableKeeps ==
    ASSUME IInv, NEW c \in Callers, OpenTable(c)
    PROVE  CallInv(c)'
<1>1. CASE OpenFails(c, "open_tbl", tbl_path[c])
  BY <1>1, OpenFailsKeeps
<1>2. CASE /\ Readable(Now, tbl_path[c])
           /\ Goto(c, "open_tbl", "parse")
           /\ tbl_bytes' = [tbl_bytes EXCEPT ![c] = FileAt(Now, tbl_path[c]).bytes]
           /\ UNCHANGED << history, path, ep_path, tbl_path, ep_bytes, outcome, began, calls >>
  <2>1. /\ TypeOK /\ CallInv(c) /\ pc[c] = "open_tbl" /\ pc'[c] = "parse"
        /\ tbl_bytes'[c] = FileAt(Now, tbl_path[c]).bytes
        /\ UNCHANGED << history, ep_path, tbl_path, ep_bytes, began, outcome >>
    BY <1>2 DEF IInv, TypeOK, Goto
  <2>2. PathsWereMade(c)'
    BY <2>1 DEF CallInv, PathsWereMade, Made, Span, InBinding
  <2>3. BytesWereOnDisk(c)'
    <3>1. PICK i \in Span(c) : EntryPointReadIn(c, i)
      BY <2>1 DEF CallInv, BytesWereOnDisk
    <3>2. Len(history) \in i .. Len(history)
      BY <2>1, <3>1, NowIsAWorld DEF Span, TypeOK
    <3>3. EntryPointReadIn(c, i)'
      BY <2>1, <3>1 DEF EntryPointReadIn, ReadIn, RootKnown
    <3>4. ReadIn(Len(history), tbl_path[c], tbl_bytes[c])'
      BY <1>2, <2>1 DEF ReadIn, Now
    <3> QED
      BY <2>1, <3>1, <3>2, <3>3, <3>4 DEF BytesWereOnDisk, Span
  <2>4. SomethingWasMissing(c)'
    BY <2>1 DEF SomethingWasMissing
  <2>5. QuietSoFar(c)'
    BY <1>2, <2>1 DEF CallInv, QuietSoFar, ChecksStillHold, InBinding, ReadIn,
       EntryPointHere, TableHere, PathOf, Now
  <2> QED
    BY <2>1, <2>2, <2>3, <2>4, <2>5, RunningCall
<1> QED
  BY <1>1, <1>2 DEF OpenTable

\* The error is raised with the paths as they are by then.
LEMMA BlameTableKeeps ==
    ASSUME IInv, NEW c \in Callers, BlameTable(c)
    PROVE  CallInv(c)'
<1> DEFINE how == Unavailable(<< ep_path[c], PathOf("DMI") >>)
<1>1. /\ CallInv(c) /\ pc[c] = "blame_tbl" /\ Finish(c, "blame_tbl", how)
  BY DEF IInv, BlameTable, Finish, Goto
<1>2. how.kind = "DMIUnavailableError"
  BY DEF Unavailable
<1>3. ASSUME began[c] = Len(history)  PROVE  how = Attempt(Now)
  <2>1. /\ ep_path[c] = EntryPointHere /\ ~ StatDenied(Now, EntryPointHere)
        /\ ~ Exists(Now, EntryPointHere) \/ ~ Exists(Now, TableHere)
    BY <1>1, <1>3 DEF CallInv, QuietSoFar, ChecksStillHold
  <2> QED
    BY <2>1 DEF Attempt, EntryPointHere, TableHere, PathOf
<1>4. \E i \in Span(c), r \in Roots, name \in FileNames :
        RootKnown(c, r, i) /\ ~ Exists(history[i], [root |-> r, name |-> name])
  BY <1>1 DEF CallInv, SomethingWasMissing
<1> HIDE DEF how
<1> QED
  BY <1>1, <1>2, <1>3, <1>4, FinishKeeps

LEMMA ParseKeeps ==
    ASSUME IInv, NEW c \in Callers, Parse(c)
    PROVE  CallInv(c)'
<1> DEFINE how == ParseBytes(ep_bytes[c], tbl_bytes[c])
<1>1. /\ TypeOK /\ CallInv(c) /\ pc[c] = "parse" /\ Finish(c, "parse", how)
  BY DEF IInv, Parse, Finish, Goto
<1>2. how.kind \in {"protocol", "ParsedSMBIOS"}
  BY <1>1, ParseBytesKinds DEF TypeOK
<1>3. ASSUME began[c] = Len(history)  PROVE  how = Attempt(Now)
  <2>1. /\ ~ StatDenied(Now, EntryPointHere)
        /\ ReadIn(Len(history), EntryPointHere, ep_bytes[c])
        /\ ReadIn(Len(history), TableHere, tbl_bytes[c])
        /\ Exists(Now, EntryPointHere) /\ Exists(Now, TableHere)
    BY <1>1, <1>3 DEF CallInv, QuietSoFar, ChecksStillHold, InBinding
  <2>2. ~ OpenDenied(Now, EntryPointHere) /\ ~ OpenDenied(Now, TableHere)
    BY <2>1 DEF OpenDenied, Readable, ReadIn, Now
  <2>3. /\ ep_bytes[c] = FileAt(Now, EntryPointHere).bytes
        /\ tbl_bytes[c] = FileAt(Now, TableHere).bytes
    BY <2>1 DEF ReadIn, Now
  <2> QED
    BY <2>1, <2>2, <2>3 DEF Attempt, EntryPointHere, TableHere, PathOf
<1>4. \E i \in Span(c) : \E j \in i .. Len(history) : \E r, q \in Roots :
        ParsedFrom(c, how, i, j, r, q)
  <2>1. PICK i \in Span(c) : /\ EntryPointReadIn(c, i)
                            /\ \E j \in i .. Len(history) : ReadIn(j, tbl_path[c], tbl_bytes[c])
    BY <1>1 DEF CallInv, BytesWereOnDisk
  <2>2. PICK j \in i .. Len(history) : ReadIn(j, tbl_path[c], tbl_bytes[c])
    BY <2>1
  <2>3. /\ ep_path[c] = [root |-> ep_path[c].root, name |-> "smbios_entry_point"]
        /\ tbl_path[c] = [root |-> tbl_path[c].root, name |-> "DMI"]
        /\ ep_path[c] \in Paths /\ tbl_path[c] \in Paths
    BY <1>1, MadePaths DEF CallInv, PathsWereMade, InBinding, FileNames
  <2>4. ParsedFrom(c, how, i, j, ep_path[c].root, tbl_path[c].root)
    BY <2>1, <2>2, <2>3 DEF ParsedFrom, EntryPointReadIn, ReadIn
  <2> QED
    BY <2>3, <2>4 DEF Paths
<1> HIDE DEF how
<1> QED
  BY <1>1, <1>2, <1>3, <1>4, FinishKeeps

-----------------------------------------------------------------------------

(***************************************************************************)
(* The theorems.                                                           *)
(***************************************************************************)

LEMMA InvInit == Init => IInv
<1> SUFFICES ASSUME Init  PROVE  IInv
  OBVIOUS
<1>1. ASSUME NEW c \in Callers  PROVE  CallInv(c)
  BY DEF Init, CallInv, PathsWereMade, BytesWereOnDisk, SomethingWasMissing, QuietSoFar,
     ChecksStillHold, InBinding, AtomicIfQuiet, Over, OnDiskIfParsed, HasReason, NotYet
<1> QED
  BY <1>1, TypeInit DEF IInv

LEMMA InvStep ==
    ASSUME IInv, [Next]_vars
    PROVE  IInv'
<1>1. TypeOK /\ TypeOK'
  BY TypeStep DEF IInv
<1>2. ASSUME NEW c \in Callers, Step(c)  PROVE  CallInv(c)'
  BY <1>2, FindKeeps, StatKeeps, BindKeeps, BlameTableKeeps, OpenEntryPointKeeps,
     OpenTableKeeps, ParseKeeps DEF Step
<1>3. ASSUME NEW c \in Callers, Call(c) \/ Step(c), NEW d \in Callers  PROVE  CallInv(d)'
  <2>1. CASE d = c
    BY <1>2, <1>3, <2>1, CallBegins
  <2>2. CASE d # c
    BY <1>1, <1>3, <2>2, StepIsLocal, OthersKeepCall DEF IInv
  <2> QED
    BY <2>1, <2>2
<1>4. ASSUME UNCHANGED vars, NEW d \in Callers  PROVE  CallInv(d)'
  BY <1>4, OthersKeepCall DEF IInv, vars, SameLocals
<1>5. ASSUME Change, NEW d \in Callers  PROVE  CallInv(d)'
  BY <1>5, ChangeKeepsCalls
<1> QED
  BY <1>1, <1>3, <1>4, <1>5 DEF IInv, Next, Terminating

\* Whatever the interleaving, every caller is at a step of parse_dmi with the paths
\* and bytes that step needs, and no call ends with an IndexError or a struct.error
\* (private/parser.py, lines 146-168).
THEOREM TypeCorrect == Spec => []TypeOK
<1>1. TypeOK /\ [Next]_vars => TypeOK'
  BY TypeStep
<1> QED
  BY TypeInit, <1>1, PTL DEF Spec

LEMMA Inductive == Spec => []IInv
<1>1. IInv /\ [Next]_vars => IInv'
  BY InvStep
<1> QED
  BY InvInit, <1>1, PTL DEF Spec

\* A call that nothing disturbs is one atomic attempt: the two checks of
\* is_available cover the two opens (lines 56 and 148-168).
THEOREM QuietCallCorrect == Spec => []QuietCallIsAtomic
<1>1. IInv => QuietCallIsAtomic
  BY DEF IInv, CallInv, QuietCallIsAtomic
<1> QED
  BY Inductive, <1>1, PTL

\* What parse_dmi parsed was on disk during the call, the entry point first, each
\* file under a root the environment had by then (lines 151-168).
THEOREM FreshnessCorrect == Spec => []ParsedWasOnDisk
<1>1. IInv => ParsedWasOnDisk
  BY DEF IInv, CallInv, ParsedWasOnDisk
<1> QED
  BY Inductive, <1>1, PTL

\* Every error of parse_dmi names something the call met (lines 148-164).
THEOREM ReasonsCorrect == Spec => []ErrorsHaveAReason
<1>1. IInv => ErrorsHaveAReason
  BY DEF IInv, CallInv, ErrorsHaveAReason
<1> QED
  BY Inductive, <1>1, PTL

-----------------------------------------------------------------------------
(***************************************************************************)
(* Every step of ParseDMI is a step of Acquisition or leaves its variables *)
(* alone, for any number of callers, worlds and calls.  A call begins,     *)
(* opens and ends in the abstract call's steps; the evaluation of a path   *)
(* and a stat that goes well are nothing there.                            *)
(***************************************************************************)

(***************************************************************************)
(* Acquisition is instantiated with the constants of ParseDMI, so what it  *)
(* takes from FirmwareFiles means the same in both.                        *)
(***************************************************************************)

LEMMA SameTests ==
    ASSUME NEW w, NEW p
    PROVE  /\ Promise!FileAt(w, p) = FileAt(w, p)
           /\ Promise!Readable(w, p) <=> Readable(w, p)
           /\ Promise!Exists(w, p) <=> Exists(w, p)
           /\ Promise!StatDenied(w, p) <=> StatDenied(w, p)
           /\ Promise!OpenDenied(w, p) <=> OpenDenied(w, p)
           /\ Promise!Missing(w, p) <=> Missing(w, p)
BY DEF FileAt, Searchable, Readable, Exists, StatDenied, OpenDenied, Missing,
   Promise!FileAt, Promise!Searchable, Promise!Readable, Promise!Exists,
   Promise!StatDenied, Promise!OpenDenied, Promise!Missing

LEMMA SameOutcomes ==
    ASSUME NEW p, NEW errno
    PROVE  /\ Promise!FileNames = FileNames /\ Promise!NotYet = NotYet
           /\ Promise!Unavailable(p) = Unavailable(p)
           /\ Promise!PermissionDenied(p) = PermissionDenied(p)
           /\ Promise!Escaped(errno, p) = Escaped(errno, p)
BY DEF FileNames, NotYet, Unavailable, PermissionDenied, Escaped,
   Promise!FileNames, Promise!NotYet, Promise!Unavailable, Promise!PermissionDenied,
   Promise!Escaped

LEMMA SameWalk ==
    ASSUME NEW buf, NEW lim
    PROVE  Promise!Walk(buf, lim) = Walk(buf, lim)
BY ZenonT(60)
   DEF Walk, Promise!Walk, EndOffset, Promise!EndOffset, HeaderOK, Promise!HeaderOK,
       HeaderError, Promise!HeaderError, StringError, Promise!StringError,
       EndsStrings, Promise!EndsStrings, StructureAt, Promise!StructureAt,
       FormattedEnd, Promise!FormattedEnd, LengthAt, Promise!LengthAt, TypeAt,
       Promise!TypeAt, HandleAt, Promise!HandleAt, ByteAt, Promise!ByteAt, WordAt,
       Promise!WordAt, HeaderSize, Promise!HeaderSize, EndOfTable,
       Promise!EndOfTable, Slice, Promise!Slice, StringsIn, Promise!StringsIn,
       Strip, Promise!Strip, Whitespace, Promise!Whitespace, DoubleNul,
       Promise!DoubleNul, NUL, Promise!NUL, Returned, Promise!Returned, Raised,
       Promise!Raised, Cardinality, Promise!Cardinality

LEMMA SameEntryPoint ==
    ASSUME NEW buf
    PROVE  Promise!ParseEntryPoint(buf) = ParseEntryPoint(buf)
BY DEF ParseEntryPoint, Promise!ParseEntryPoint, ParseSM3, Promise!ParseSM3,
       ParseSM2, Promise!ParseSM2, Reads, Promise!Reads, HoldsAt, Promise!HoldsAt,
       Accepted, Promise!Accepted, Malformed, Promise!Malformed, StrayRead,
       Promise!StrayRead, ByteAt, Promise!ByteAt, WordAt, Promise!WordAt,
       DoubleWordAt, Promise!DoubleWordAt, Slice, Promise!Slice, AnchorSM2,
       Promise!AnchorSM2, AnchorSM3, Promise!AnchorSM3, AnchorDMI,
       Promise!AnchorDMI, MinAnchor, Promise!MinAnchor, MinSM3, Promise!MinSM3,
       MinSM2, Promise!MinSM2

LEMMA SameParse ==
    ASSUME NEW ep, NEW tbl
    PROVE  Promise!ParseBytes(ep, tbl) = ParseBytes(ep, tbl)
BY SameWalk, SameEntryPoint DEF ParseBytes, Promise!ParseBytes, Malformed, Promise!Malformed

LEMMA SameAttempt ==
    ASSUME NEW w
    PROVE  Promise!Attempt(w) = Attempt(w)
BY SameTests, SameOutcomes, SameParse DEF Attempt, Promise!Attempt

-----------------------------------------------------------------------------

(***************************************************************************)
(* The refinement mapping, caller by caller.                               *)
(***************************************************************************)

\* A step of one call moves that call alone.
LEMMA OthersStand ==
    ASSUME TypeOK, NEW c \in Callers, Call(c) \/ Step(c)
    PROVE  /\ Now' = Now
           /\ AbstractPhase' = [AbstractPhase EXCEPT ![c] = Phase(c)']
           /\ AbstractRoots' = [AbstractRoots EXCEPT ![c] = RootsNamed(c)']
           /\ AbstractRead' = [AbstractRead EXCEPT ![c] = BytesRead(c)']
           /\ AbstractDisturbed' = [AbstractDisturbed EXCEPT ![c] = Disturbed(c)']
<1>1. UNCHANGED history
  BY DEF Call, Step, FindEntryPoint, FindTable, StatEntryPoint, StatTable, StatFrom,
     BlameEntryPoint, BlameTable, BindEntryPoint, BindTable, OpenEntryPoint, OpenTable,
     OpenFails, Parse, Finish
<1>2. ASSUME NEW d \in Callers \ {c}
      PROVE  /\ Phase(d)' = Phase(d) /\ RootsNamed(d)' = RootsNamed(d)
             /\ BytesRead(d)' = BytesRead(d) /\ Disturbed(d)' = Disturbed(d)
  <2>1. SameLocals(d)
    BY StepIsLocal
  <2> QED
    BY <1>1, <2>1 DEF SameLocals, Phase, RootsNamed, BytesRead, Disturbed
<1>3. AbstractPhase' = [AbstractPhase EXCEPT ![c] = Phase(c)']
  BY <1>2 DEF AbstractPhase
<1>4. AbstractRoots' = [AbstractRoots EXCEPT ![c] = RootsNamed(c)']
  BY <1>2 DEF AbstractRoots
<1>5. AbstractRead' = [AbstractRead EXCEPT ![c] = BytesRead(c)']
  BY <1>2 DEF AbstractRead
<1>6. AbstractDisturbed' = [AbstractDisturbed EXCEPT ![c] = Disturbed(c)']
  BY <1>2 DEF AbstractDisturbed
<1> QED
  BY <1>1, <1>3, <1>4, <1>5, <1>6 DEF Now

\* A path made by a call is one the abstract call knows.
LEMMA MadeIsKnown ==
    ASSUME NEW c \in Callers, pc[c] # "idle", NEW p, NEW name, Made(c, p, name)
    PROVE  p \in Promise!Known(c, name)
<1>1. PICK h \in Span(c) : p = [root |-> history[h].root, name |-> name]
  BY DEF Made
<1>2. history[h].root \in RootsNamed(c)
  BY <1>1 DEF RootsNamed, Span
<1> QED
  BY <1>1, <1>2 DEF Promise!Known, AbstractRoots

-----------------------------------------------------------------------------

(***************************************************************************)
(* Steps that are steps of the abstract call.                              *)
(***************************************************************************)

LEMMA CallIsBegin ==
    ASSUME IInv, NEW c \in Callers, Call(c)
    PROVE  Promise!Begin(c)
<1>1. /\ TypeOK /\ pc[c] = "idle" /\ pc'[c] = "find_ep" /\ began'[c] = Len(history)
      /\ UNCHANGED << history, ep_bytes, tbl_bytes >>
      /\ outcome' = [outcome EXCEPT ![c] = NotYet]
  BY DEF IInv, TypeOK, Call, Goto, locals
<1>2. /\ Phase(c) = "idle" /\ Phase(c)' = "reading"
      /\ BytesRead(c) = << >> /\ BytesRead(c)' = << >>
  BY <1>1 DEF Phase, BytesRead
<1>3. Disturbed(c) = FALSE /\ Disturbed(c)' = FALSE
  BY <1>1, NowIsAWorld DEF Disturbed
<1>4. RootsNamed(c)' = {Now.root}
  <2>1. Len(history) .. Len(history) = {Len(history)}
    BY <1>1, NowIsAWorld
  <2> QED
    BY <1>1, <2>1 DEF RootsNamed, Now
<1>5. AbstractRead' = AbstractRead /\ AbstractDisturbed' = AbstractDisturbed
  BY <1>1, <1>2, <1>3, OthersStand DEF AbstractRead, AbstractDisturbed
<1> QED
  BY <1>1, <1>2, <1>4, <1>5, OthersStand, SameOutcomes
     DEF Promise!Begin, AbstractPhase, AbstractRoots, AbstractRead, AbstractDisturbed

\* The end of a call is the abstract call's, atomic if nothing disturbed it.
LEMMA FinishIsEnd ==
    ASSUME IInv, IInv', NEW c \in Callers, Step(c), NEW from, NEW how, how # NotYet,
           Finish(c, from, how)
    PROVE  Promise!End(c, how)
<1>1. /\ TypeOK /\ pc'[c] = "idle" /\ outcome'[c] = how
      /\ UNCHANGED << history, began >> /\ outcome' = [outcome EXCEPT ![c] = how]
  BY DEF IInv, TypeOK, Finish, Goto
<1>2. /\ Phase(c)' = "idle" /\ RootsNamed(c)' = {} /\ BytesRead(c)' = << >>
      /\ Disturbed(c)' = FALSE
  BY <1>1 DEF Phase, RootsNamed, BytesRead, Disturbed
<1>3. ASSUME ~ Disturbed(c)  PROVE  how = Attempt(Now)
  <2>1. AtomicIfQuiet(c)' /\ pc[c] # "idle"
    BY DEF IInv, CallInv, Step, FindEntryPoint, FindTable, StatEntryPoint, StatTable,
       StatFrom, BlameEntryPoint, BlameTable, BindEntryPoint, BindTable, OpenEntryPoint,
       OpenTable, OpenFails, Parse, Finish, Goto
  <2>2. began[c] = Len(history)
    BY <1>1, <1>3, <2>1, NowIsAWorld DEF Disturbed, TypeOK
  <2> QED
    BY <1>1, <2>1, <2>2 DEF AtomicIfQuiet, Over, Now
<1> QED
  BY <1>1, <1>2, <1>3, OthersStand, SameAttempt
     DEF Promise!End, AbstractDisturbed

\* Steps between two opens, or before the first: nothing in the abstract call.
LEMMA QuietStepsAreNothing ==
    ASSUME IInv, NEW c \in Callers, Step(c), UNCHANGED << history, began, outcome >>,
           Phase(c)' = Phase(c), BytesRead(c)' = BytesRead(c),
           pc[c] # "idle", pc'[c] # "idle"
    PROVE  UNCHANGED Promise!vars
<1>1. RootsNamed(c)' = RootsNamed(c) /\ Disturbed(c)' = Disturbed(c)
  BY DEF RootsNamed, Disturbed
<1>2. /\ AbstractPhase' = AbstractPhase /\ AbstractRoots' = AbstractRoots
      /\ AbstractRead' = AbstractRead /\ AbstractDisturbed' = AbstractDisturbed
  BY <1>1, OthersStand, ZenonT(40) DEF IInv, AbstractPhase, AbstractRoots, AbstractRead, AbstractDisturbed
<1> QED
  BY <1>2, OthersStand DEF IInv, Promise!vars, AbstractPhase, AbstractRoots, AbstractRead,
     AbstractDisturbed

LEMMA PathStepsAreNothing ==
    ASSUME IInv, NEW c \in Callers,
           \/ FindEntryPoint(c) \/ FindTable(c)
           \/ BlameEntryPoint(c) \/ BindEntryPoint(c) \/ BindTable(c)
    PROVE  UNCHANGED Promise!vars
<1>1. /\ Step(c) /\ UNCHANGED << history, began, outcome >>
      /\ << pc[c], pc'[c] >> \in {<< "find_ep", "stat_ep" >>, << "find_tbl", "stat_tbl" >>,
            << "blame_ep", "blame_tbl" >>, << "bind_ep", "bind_tbl" >>, << "bind_tbl", "open_ep" >>}
  BY DEF IInv, TypeOK, Step, FindEntryPoint, FindTable, BlameEntryPoint, BindEntryPoint,
     BindTable, Goto
<1>2. Phase(c)' = Phase(c) /\ BytesRead(c)' = BytesRead(c) /\ pc[c] # "idle" /\ pc'[c] # "idle"
  BY <1>1 DEF Phase, BytesRead
<1> QED
  BY <1>1, <1>2, QuietStepsAreNothing

\* A stat is nothing, the notice that a file is missing, or a refusal.
LEMMA StatIsAbstract ==
    ASSUME IInv, IInv', NEW c \in Callers, StatEntryPoint(c) \/ StatTable(c)
    PROVE  UNCHANGED Promise!vars \/ Promise!NoticeMissing(c) \/ Promise!Refuse(c)
<1>1. PICK from \in {"stat_ep", "stat_tbl"}, found \in {"find_tbl", "bind_ep"} :
        StatFrom(c, from, found)
  BY DEF StatEntryPoint, StatTable
<1>2. TypeOK /\ Step(c) /\ pc[c] = from
  BY <1>1 DEF IInv, Step, StatFrom
<1>3. /\ Phase(c) = "reading" /\ BytesRead(c) = << >>
      /\ AbstractPhase[c] = "reading" /\ AbstractRead[c] = << >>
  BY <1>2 DEF Phase, BytesRead, AbstractPhase, AbstractRead
<1>4. PICK name \in FileNames : path[c] \in Promise!Known(c, name)
  BY <1>2, MadeIsKnown DEF IInv, CallInv, PathsWereMade, FileNames
<1>5. CASE StatDenied(Now, path[c]) /\ Finish(c, from, Escaped("EACCES", path[c]))
  <2>1. Promise!End(c, Escaped("EACCES", path[c]))
    BY <1>2, <1>5, FinishIsEnd DEF Escaped, NotYet
  <2>2. Promise!Refuse(c)
    BY <1>3, <1>4, <1>5, <2>1, SameTests, SameOutcomes DEF Promise!Refuse
  <2> QED
    BY <2>2
<1>6. CASE /\ ~ StatDenied(Now, path[c])
           /\ Goto(c, from, IF Exists(Now, path[c]) THEN found ELSE "blame_ep")
           /\ UNCHANGED << history, locals, outcome, began, calls >>
  <2>1. /\ pc'[c] = IF Exists(Now, path[c]) THEN found ELSE "blame_ep"
        /\ UNCHANGED << history, began, outcome >>
    BY <1>2, <1>6 DEF TypeOK, Goto
  <2>2. BytesRead(c)' = << >>
    BY <2>1 DEF BytesRead
  <2>3. CASE Exists(Now, path[c])
    <3>1. Phase(c)' = "reading" /\ pc'[c] # "idle"
      BY <2>1, <2>3 DEF Phase
    <3> QED
      BY <1>2, <1>3, <2>1, <2>2, <3>1, QuietStepsAreNothing
  <2>4. CASE ~ Exists(Now, path[c])
    <3>1. Phase(c)' = "missing" /\ RootsNamed(c)' = RootsNamed(c) /\ Disturbed(c)' = Disturbed(c)
      BY <1>2, <2>1, <2>4 DEF Phase, RootsNamed, Disturbed
    <3>2. /\ AbstractRoots' = AbstractRoots /\ AbstractRead' = AbstractRead
          /\ AbstractDisturbed' = AbstractDisturbed
      BY <1>2, <1>3, <2>2, <3>1, OthersStand DEF AbstractRoots, AbstractRead, AbstractDisturbed
    <3>3. Promise!NoticeMissing(c)
      BY <1>2, <1>3, <1>4, <1>6, <2>1, <2>4, <3>1, <3>2, OthersStand, SameTests, SameOutcomes
         DEF Promise!NoticeMissing, AbstractPhase, AbstractRoots, AbstractRead, AbstractDisturbed
    <3> QED
      BY <3>3
  <2> QED
    BY <2>3, <2>4
<1> QED
  BY <1>1, <1>5, <1>6 DEF StatFrom

\* A failed open is a refusal; a file is missing there only in a disturbed call.
LEMMA OpenFailsIsRefuse ==
    ASSUME IInv, IInv', NEW c \in Callers, Step(c), NEW from, NEW p,
           \/ from = "open_ep" /\ p = ep_path[c]
           \/ from = "open_tbl" /\ p = tbl_path[c],
           OpenFails(c, from, p)
    PROVE  Promise!Refuse(c)
<1>1. TypeOK /\ pc[c] = from /\ pc[c] \in InBinding \ {"bind_tbl"} /\ pc[c] # "idle"
  BY DEF IInv, OpenFails, InBinding
<1>2. Phase(c) = "reading" /\ AbstractPhase[c] = "reading"
  BY <1>1 DEF Phase, AbstractPhase, InBinding
<1>3. PICK name \in FileNames : p \in Promise!Known(c, name)
  BY <1>1, MadeIsKnown DEF IInv, CallInv, PathsWereMade, FileNames
<1>4. CASE OpenDenied(Now, p) /\ Finish(c, from, PermissionDenied(p))
  <2>1. Promise!End(c, PermissionDenied(p))
    BY <1>1, <1>4, FinishIsEnd DEF PermissionDenied, NotYet
  <2> QED
    BY <1>2, <1>3, <1>4, <2>1, SameTests, SameOutcomes DEF Promise!Refuse
<1>5. CASE Missing(Now, p) /\ Finish(c, from, Escaped("ENOENT", p))
  <2>1. Promise!End(c, Escaped("ENOENT", p))
    BY <1>1, <1>5, FinishIsEnd DEF Escaped, NotYet
  <2>2. began[c] < Len(history)
    <3>1. /\ HasReason(c)' /\ UNCHANGED << history, began >>
          /\ outcome'[c] = Escaped("ENOENT", p)
      BY <1>1, <1>5 DEF IInv, CallInv, Finish, TypeOK
    <3>2. began[c] \in Nat /\ Len(history) \in Nat
      BY <1>1, NowIsAWorld DEF TypeOK
    <3> QED
      BY <3>1, <3>2 DEF HasReason, Escaped
  <2>3. AbstractDisturbed[c]
    BY <1>1, <2>2 DEF AbstractDisturbed, Disturbed
  <2> QED
    BY <1>2, <1>3, <1>5, <2>1, <2>3, SameTests, SameOutcomes
       DEF Promise!Refuse
<1> QED
  BY <1>4, <1>5 DEF OpenFails

LEMMA AppendToOne ==
    ASSUME NEW a, NEW b
    PROVE  Append(<< a >>, b) = << a, b >>
<1> DEFINE S == {a, b}
<1>1. << a >> \in Seq(S) /\ << a, b >> \in Seq(S) /\ b \in S
  OBVIOUS
<1>2. Append(<< a >>, b) \in Seq(S) /\ Len(Append(<< a >>, b)) = 2
  BY <1>1
<1>3. \A i \in 1 .. Len(Append(<< a >>, b)) : Append(<< a >>, b)[i] = << a, b >>[i]
  BY <1>1, <1>2
<1>4. Len(<< a, b >>) = 2
  OBVIOUS
<1> HIDE DEF S
<1> QED
  BY <1>1, <1>2, <1>3, <1>4, SeqEqual

\* Read in terms of the mapping.
LEMMA ReadOf ==
    ASSUME NEW c \in Callers, NEW name, NEW p \in Promise!Known(c, name),
           << "smbios_entry_point", "DMI" >>[Len(AbstractRead[c]) + 1] = name,
           AbstractPhase[c] = "reading", Len(AbstractRead[c]) < 2,
           Readable(Now, p),
           AbstractRead' = [AbstractRead EXCEPT ![c] = Append(@, FileAt(Now, p).bytes)],
           UNCHANGED << Now, AbstractPhase, AbstractRoots, AbstractDisturbed, outcome >>
    PROVE  Promise!Read(c)
<1>1. Promise!Readable(Now, p) /\ Promise!FileAt(Now, p) = FileAt(Now, p)
  BY SameTests
<1> QED
  BY Zenon, <1>1 DEF Promise!Read

\* An open that succeeds is the abstract call's read of that file.
LEMMA OpenIsRead ==
    ASSUME IInv, IInv', NEW c \in Callers, OpenEntryPoint(c) \/ OpenTable(c)
    PROVE  Promise!Read(c) \/ Promise!Refuse(c)
<1>1. Step(c) /\ TypeOK /\ CallInv(c)
  BY DEF IInv, Step
<1>2. CASE OpenFails(c, "open_ep", ep_path[c]) \/ OpenFails(c, "open_tbl", tbl_path[c])
  BY <1>1, <1>2, OpenFailsIsRefuse
<1>3. CASE /\ Readable(Now, ep_path[c])
           /\ Goto(c, "open_ep", "open_tbl")
           /\ ep_bytes' = [ep_bytes EXCEPT ![c] = FileAt(Now, ep_path[c]).bytes]
           /\ UNCHANGED << history, path, ep_path, tbl_path, tbl_bytes, outcome, began, calls >>
  <2>1. /\ pc[c] = "open_ep" /\ pc'[c] = "open_tbl" /\ UNCHANGED << history, began, outcome >>
        /\ ep_bytes'[c] = FileAt(Now, ep_path[c]).bytes
    BY <1>1, <1>3 DEF TypeOK, Goto
  <2>2. /\ Phase(c) = "reading" /\ Phase(c)' = "reading"
        /\ BytesRead(c) = << >> /\ BytesRead(c)' = << FileAt(Now, ep_path[c]).bytes >>
        /\ RootsNamed(c)' = RootsNamed(c) /\ Disturbed(c)' = Disturbed(c)
    BY <2>1 DEF Phase, BytesRead, RootsNamed, Disturbed
  <2>3. ep_path[c] \in Promise!Known(c, "smbios_entry_point")
    BY <1>1, <2>1, MadeIsKnown DEF CallInv, PathsWereMade, InBinding
  <2>4. /\ AbstractPhase' = AbstractPhase /\ AbstractRoots' = AbstractRoots
        /\ AbstractDisturbed' = AbstractDisturbed
        /\ AbstractRead' = [AbstractRead EXCEPT ![c] = << FileAt(Now, ep_path[c]).bytes >>]
    BY <1>1, <2>2, OthersStand DEF AbstractPhase, AbstractRoots, AbstractDisturbed
  <2>5. /\ AbstractPhase[c] = "reading" /\ AbstractRead[c] = << >>
        /\ AbstractRead' = [AbstractRead EXCEPT ![c] = Append(@, FileAt(Now, ep_path[c]).bytes)]
    BY <2>2, <2>4 DEF AbstractPhase, AbstractRead
  <2>6. /\ Len(AbstractRead[c]) < 2
        /\ << "smbios_entry_point", "DMI" >>[Len(AbstractRead[c]) + 1] = "smbios_entry_point"
    BY <2>5
  <2>7. UNCHANGED outcome /\ Now' = Now
    BY <2>1 DEF Now
  <2>8. Promise!Read(c)
    BY <1>3, <2>3, <2>4, <2>5, <2>6, <2>7, ReadOf
  <2> QED
    BY <2>8
<1>4. CASE /\ Readable(Now, tbl_path[c])
           /\ Goto(c, "open_tbl", "parse")
           /\ tbl_bytes' = [tbl_bytes EXCEPT ![c] = FileAt(Now, tbl_path[c]).bytes]
           /\ UNCHANGED << history, path, ep_path, tbl_path, ep_bytes, outcome, began, calls >>
  <2>1. /\ pc[c] = "open_tbl" /\ pc'[c] = "parse" /\ UNCHANGED << history, began, outcome >>
        /\ tbl_bytes'[c] = FileAt(Now, tbl_path[c]).bytes /\ ep_bytes'[c] = ep_bytes[c]
    BY <1>1, <1>4 DEF TypeOK, Goto
  <2>2. /\ Phase(c) = "reading" /\ Phase(c)' = "reading"
        /\ BytesRead(c) = << ep_bytes[c] >>
        /\ BytesRead(c)' = << ep_bytes[c], FileAt(Now, tbl_path[c]).bytes >>
        /\ RootsNamed(c)' = RootsNamed(c) /\ Disturbed(c)' = Disturbed(c)
    BY <2>1 DEF Phase, BytesRead, RootsNamed, Disturbed
  <2>3. tbl_path[c] \in Promise!Known(c, "DMI")
    BY <1>1, <2>1, MadeIsKnown DEF CallInv, PathsWereMade, InBinding
  <2>4. /\ AbstractPhase' = AbstractPhase /\ AbstractRoots' = AbstractRoots
        /\ AbstractDisturbed' = AbstractDisturbed
        /\ AbstractRead' =
             [AbstractRead EXCEPT ![c] = << ep_bytes[c], FileAt(Now, tbl_path[c]).bytes >>]
    BY <1>1, <2>2, OthersStand DEF AbstractPhase, AbstractRoots, AbstractDisturbed
  <2>5. /\ AbstractPhase[c] = "reading" /\ AbstractRead[c] = << ep_bytes[c] >>
        /\ AbstractRead' = [AbstractRead EXCEPT ![c] = Append(@, FileAt(Now, tbl_path[c]).bytes)]
    <3>1. AbstractPhase[c] = "reading" /\ AbstractRead[c] = << ep_bytes[c] >>
      BY <2>2 DEF AbstractPhase, AbstractRead
    <3>2. AbstractRead' = [AbstractRead EXCEPT ![c] =
                             Append(<< ep_bytes[c] >>, FileAt(Now, tbl_path[c]).bytes)]
      BY <2>4, AppendToOne
    <3> QED
      BY <3>1, <3>2
  <2>6. /\ Len(AbstractRead[c]) < 2
        /\ << "smbios_entry_point", "DMI" >>[Len(AbstractRead[c]) + 1] = "DMI"
    BY <2>5
  <2>7. UNCHANGED outcome /\ Now' = Now
    BY <2>1 DEF Now
  <2>8. Promise!Read(c)
    BY <1>4, <2>3, <2>4, <2>5, <2>6, <2>7, ReadOf
  <2> QED
    BY <2>8
<1> QED
  BY <1>2, <1>3, <1>4 DEF OpenEntryPoint, OpenTable

LEMMA BlameTableIsReport ==
    ASSUME IInv, IInv', NEW c \in Callers, BlameTable(c)
    PROVE  Promise!ReportMissing(c)
<1> DEFINE how == Unavailable(<< ep_path[c], PathOf("DMI") >>)
<1>1. TypeOK /\ Step(c) /\ pc[c] = "blame_tbl" /\ Finish(c, "blame_tbl", how)
  BY DEF IInv, Step, BlameTable, Finish, Goto
<1>2. Promise!End(c, how)
  BY <1>1, FinishIsEnd DEF Unavailable, NotYet
<1>3. /\ ep_path[c] \in Promise!Known(c, "smbios_entry_point")
      /\ PathOf("DMI") \in Promise!Known(c, "DMI")
  BY <1>1, MadeIsKnown, NowIsKnown DEF IInv, CallInv, PathsWereMade, InBinding
<1>4. Phase(c) = "missing"
  BY <1>1 DEF Phase
<1> QED
  BY <1>2, <1>3, <1>4, SameOutcomes DEF Promise!ReportMissing, AbstractPhase

LEMMA ParseIsAnswer ==
    ASSUME IInv, IInv', NEW c \in Callers, Parse(c)
    PROVE  Promise!Answer(c)
<1> DEFINE how == ParseBytes(ep_bytes[c], tbl_bytes[c])
<1>1. TypeOK /\ Step(c) /\ pc[c] = "parse" /\ Finish(c, "parse", how)
  BY DEF IInv, Step, Parse, Finish, Goto
<1>2. how.kind \in {"protocol", "ParsedSMBIOS"}
  BY <1>1, ParseBytesKinds DEF TypeOK
<1> HIDE DEF how
<1>3. how # NotYet
  BY <1>2 DEF NotYet
<1>4. Promise!End(c, how)
  BY <1>1, <1>3, FinishIsEnd
<1>5. BytesRead(c) = << ep_bytes[c], tbl_bytes[c] >>
  BY <1>1 DEF BytesRead
<1> QED
  BY <1>4, <1>5, SameParse DEF Promise!Answer, AbstractRead, how

\* A change of the world is one in the abstract system: every call under way knows
\* one root more and has been disturbed.
LEMMA ChangeIsChange ==
    ASSUME IInv, Change
    PROVE  Promise!Change
<1>1. PICK world \in Worlds \ {Now} : history' = Append(history, world)
  BY DEF Change
<1>2. /\ TypeOK /\ Len(history') = Len(history) + 1 /\ Len(history) \in Nat \ {0}
      /\ history'[Len(history) + 1] = world
      /\ \A i \in 1 .. Len(history) : history'[i] = history[i]
      /\ UNCHANGED << pc, ep_bytes, tbl_bytes, began, outcome >>
  BY <1>1, NowIsAWorld DEF IInv, TypeOK, Change, locals
<1>3. Now' = world
  BY <1>2 DEF Now
<1>4. ASSUME NEW c \in Callers
      PROVE  /\ Phase(c)' = Phase(c) /\ BytesRead(c)' = BytesRead(c)
             /\ Disturbed(c)' = (Phase(c) # "idle")
             /\ RootsNamed(c)' = IF Phase(c) = "idle" THEN {} ELSE RootsNamed(c) \cup {Now'.root}
  <2>1. Phase(c)' = Phase(c) /\ BytesRead(c)' = BytesRead(c) /\ (Phase(c) = "idle" <=> pc[c] = "idle")
    BY <1>2 DEF Phase, BytesRead
  <2>2. ASSUME pc[c] # "idle"
        PROVE  RootsNamed(c)' = RootsNamed(c) \cup {Now'.root}
    <3>1. /\ began[c] \in 1 .. Len(history) /\ began'[c] = began[c]
          /\ began[c] .. Len(history') = (began[c] .. Len(history)) \cup {Len(history')}
      BY <1>2, <2>2 DEF TypeOK
    <3>2. \A h \in began[c] .. Len(history) : history'[h].root = history[h].root
      BY <1>2, <3>1
    <3> QED
      BY <1>2, <1>3, <2>2, <3>1, <3>2 DEF RootsNamed
  <2>3. Disturbed(c)' = (Phase(c) # "idle")
    BY <1>2, <2>1 DEF Disturbed, TypeOK
  <2> QED
    BY <1>2, <2>1, <2>2, <2>3 DEF RootsNamed
<1>5. Now' # Now
  BY <1>1, <1>3
<1> QED
  BY <1>2, <1>4, <1>5
     DEF Promise!Change, AbstractPhase, AbstractRoots, AbstractRead, AbstractDisturbed

LEMMA StepIsAbstract ==
    ASSUME IInv, IInv', [Next]_vars
    PROVE  [Promise!Next]_(Promise!vars)
<1>1. ASSUME NEW c \in Callers, Step(c)
      PROVE  \/ UNCHANGED Promise!vars
             \/ Promise!Read(c) \/ Promise!Answer(c) \/ Promise!Refuse(c)
             \/ Promise!NoticeMissing(c) \/ Promise!ReportMissing(c)
  BY <1>1, PathStepsAreNothing, StatIsAbstract, OpenIsRead, BlameTableIsReport,
     ParseIsAnswer DEF Step
<1>2. CASE UNCHANGED vars
  BY <1>2 DEF vars, Promise!vars, Now, Phase, RootsNamed, BytesRead, Disturbed,
     AbstractPhase, AbstractRoots, AbstractRead, AbstractDisturbed
<1> QED
  BY <1>1, <1>2, CallIsBegin, ChangeIsChange DEF Next, Promise!Next, Terminating

LEMMA InitIsAbstract == Init => Promise!Init
<1> SUFFICES ASSUME Init  PROVE  Promise!Init
  OBVIOUS
<1>1. \A c \in Callers : pc[c] = "idle"
  BY DEF Init
<1>2. \A c \in Callers : /\ Phase(c) = "idle" /\ RootsNamed(c) = {}
                          /\ BytesRead(c) = << >> /\ Disturbed(c) = FALSE
  BY <1>1 DEF Phase, RootsNamed, BytesRead, Disturbed
<1> QED
  BY <1>2, SameOutcomes DEF Init, Promise!Init, AbstractPhase, AbstractRoots,
     AbstractRead, AbstractDisturbed

\* parse_dmi keeps the promise of Acquisition step by step: the initial states are
\* abstract initial states, every step is an abstract step or a stutter (lines 146-168).
THEOREM StepsImplementAcquisition == Spec => Promise!Init /\ [][Promise!Next]_(Promise!vars)
<1>1. IInv /\ IInv' /\ [Next]_vars => [Promise!Next]_(Promise!vars)
  BY StepIsAbstract
<1> QED
  BY InitIsAbstract, Inductive, <1>1, PTL DEF Spec

\* Idle in the one is idle in the other, so calls that end here end there.
LEMMA EndsAreEnds == CallsEnd => Promise!CallsEnd
<1> DEFINE Ends(c) == (pc[c] # "idle" ~> pc[c] = "idle")
           AbstractEnds(c) == (AbstractPhase[c] # "idle" ~> AbstractPhase[c] = "idle")
<1>1. ASSUME NEW c \in Callers  PROVE  Ends(c) => AbstractEnds(c)
  <2>1. pc[c] = "idle" <=> AbstractPhase[c] = "idle"
    BY DEF AbstractPhase, Phase
  <2>2. pc[c] # "idle" <=> AbstractPhase[c] # "idle"
    BY <2>1
  <2> QED
    BY <2>1, <2>2, PTL
<1>2. CallsEnd => \A c \in Callers : Ends(c)
  BY DEF CallsEnd
<1>3. (\A c \in Callers : AbstractEnds(c)) => Promise!CallsEnd
  BY DEF Promise!CallsEnd
<1> HIDE DEF Ends, AbstractEnds
<1>4. (\A c \in Callers : Ends(c)) => (\A c \in Callers : AbstractEnds(c))
  BY <1>1
<1> QED
  BY <1>2, <1>3, <1>4

\* With the one thing left to the runs, that calls end, the whole promise holds: one
\* content of each file, from roots in force; an atomic attempt when nothing changed;
\* a refusal only for what the call met (lines 146-168).
THEOREM Refinement == Spec /\ CallsEnd => ImplementsAcquisition
BY StepsImplementAcquisition, EndsAreEnds, PTL DEF ImplementsAcquisition, Promise!Spec
=============================================================================
