------------------------ MODULE EntryPointFileProofs ------------------------
(***************************************************************************)
(* Proofs about EntryPointFile, for every set of files: whatever part of a *)
(* file there is, _parse_entry_point decides it, and what it has accepted  *)
(* no further byte can change.  The inductive invariant says that buf is   *)
(* what has arrived of the file and outcome what it parses to.             *)
(***************************************************************************)
EXTENDS EntryPointFile, SequenceTheorems, TLAPS

\* longer holds the bytes of shorter and maybe more.
Extends(longer, shorter) ==
    /\ Len(shorter) <= Len(longer)
    /\ \A i \in 0 .. Len(shorter) - 1 : ByteAt(longer, i) = ByteAt(shorter, i)

(***************************************************************************)
(* _parse_entry_point as a function of the bytes.                          *)
(***************************************************************************)

LEMMA SliceOfBytes ==
    ASSUME NEW b \in Seq(Byte), NEW m \in Nat, NEW n \in Nat, m <= n, n <= Len(b)
    PROVE  /\ Slice(b, m, n) \in Seq(Byte) /\ Len(Slice(b, m, n)) = n - m
           /\ \A i \in 1 .. n - m : Slice(b, m, n)[i] = ByteAt(b, m + i - 1)
<1>1. Len(b) \in Nat /\ m + 1 \in 1 .. Len(b) + 1 /\ n \in m .. Len(b)
  OBVIOUS
<1>2. /\ SubSeq(b, m + 1, n) \in Seq(Byte) /\ Len(SubSeq(b, m + 1, n)) = n - m
      /\ \A i \in 1 .. n - m : SubSeq(b, m + 1, n)[i] = b[m + i]
  BY <1>1
<1> QED
  BY <1>2 DEF Slice, ByteAt

\* An anchor that fits into the bytes there are is seen, or not, for good.
LEMMA AnchorIsStable ==
    ASSUME NEW b \in Seq(Byte), NEW c \in Seq(Byte), Extends(c, b),
           NEW i \in Nat, NEW anchor \in Seq(Byte), i + Len(anchor) <= Len(b)
    PROVE  HoldsAt(c, i, anchor) <=> HoldsAt(b, i, anchor)
<1> DEFINE n == i + Len(anchor)
<1>1. /\ Len(anchor) \in Nat /\ Len(b) \in Nat /\ Len(c) \in Nat /\ Len(b) <= Len(c)
      /\ n \in Nat /\ i <= n /\ n <= Len(b) /\ n <= Len(c)
  BY DEF Extends
<1>2. \A j \in 1 .. n - i : ByteAt(c, i + j - 1) = ByteAt(b, i + j - 1)
  BY <1>1 DEF Extends
<1> HIDE DEF n
<1>3. Slice(c, i, n) = Slice(b, i, n)
  <2>1. /\ Slice(b, i, n) \in Seq(Byte) /\ Len(Slice(b, i, n)) = n - i
        /\ \A j \in 1 .. n - i : Slice(b, i, n)[j] = ByteAt(b, i + j - 1)
    BY <1>1, SliceOfBytes, ZenonT(40)
  <2>2. /\ Slice(c, i, n) \in Seq(Byte) /\ Len(Slice(c, i, n)) = n - i
        /\ \A j \in 1 .. n - i : Slice(c, i, n)[j] = ByteAt(c, i + j - 1)
    BY <1>1, SliceOfBytes, ZenonT(40)
  <2> QED
    BY <1>2, <2>1, <2>2, SeqEqual
<1> QED
  BY <1>1, <1>3 DEF HoldsAt, n

LEMMA Anchors ==
    /\ AnchorSM3 \in Seq(Byte) /\ Len(AnchorSM3) = 5
    /\ AnchorSM2 \in Seq(Byte) /\ Len(AnchorSM2) = 4
    /\ AnchorDMI \in Seq(Byte) /\ Len(AnchorDMI) = 5
BY DEF AnchorSM3, AnchorSM2, AnchorDMI, Byte

\* No byte string makes the parser read past its end (lines 60-83).
LEMMA BytesAreDecided ==
    ASSUME NEW b \in Seq(Byte)
    PROVE  \/ ParseEntryPoint(b).kind = "entry_point" /\ Len(b) >= MinSM3
           \/ ParseEntryPoint(b).kind = "protocol" /\ ParseEntryPoint(b).offset \in {0, 16}
<1>1. Len(b) \in Nat
  OBVIOUS
<1>2. \/ ParseSM3(b).kind = "entry_point" /\ Len(b) >= MinSM3
      \/ ParseSM3(b).kind = "protocol" /\ ParseSM3(b).offset \in {0, 16}
  BY <1>1 DEF ParseSM3, Reads, MinSM3, Accepted, Malformed
<1>3. \/ ParseSM2(b).kind = "entry_point" /\ Len(b) >= MinSM3
      \/ ParseSM2(b).kind = "protocol" /\ ParseSM2(b).offset \in {0, 16}
  BY <1>1 DEF ParseSM2, Reads, MinSM2, MinSM3, Accepted, Malformed
<1> QED
  BY <1>2, <1>3 DEF ParseEntryPoint, Malformed

\* The fields lie before the length the parser asks for.
LEMMA AcceptedIsStable ==
    ASSUME NEW b \in Seq(Byte), NEW c \in Seq(Byte), Extends(c, b),
           ParseEntryPoint(b).kind = "entry_point"
    PROVE  ParseEntryPoint(c) = ParseEntryPoint(b)
<1>1. /\ Len(b) \in Nat /\ Len(c) \in Nat /\ Len(b) <= Len(c) /\ Len(b) >= 5
      /\ ~ (Len(b) < 5) /\ ~ (Len(c) < 5)
  BY DEF Extends, ParseEntryPoint, MinAnchor, Malformed
<1>2. /\ HoldsAt(c, 0, AnchorSM3) <=> HoldsAt(b, 0, AnchorSM3)
      /\ HoldsAt(c, 0, AnchorSM2) <=> HoldsAt(b, 0, AnchorSM2)
  <2>1. 0 \in Nat /\ 0 + Len(AnchorSM3) <= Len(b) /\ 0 + Len(AnchorSM2) <= Len(b)
    BY <1>1, Anchors
  <2>2. HoldsAt(c, 0, AnchorSM3) <=> HoldsAt(b, 0, AnchorSM3)
    BY <2>1, Anchors, AnchorIsStable
  <2>3. HoldsAt(c, 0, AnchorSM2) <=> HoldsAt(b, 0, AnchorSM2)
    BY <2>1, Anchors, AnchorIsStable
  <2> QED
    BY <2>2, <2>3
<1>3. CASE HoldsAt(b, 0, AnchorSM3)
  <2>1. ParseEntryPoint(b) = ParseSM3(b) /\ ParseEntryPoint(c) = ParseSM3(c)
    BY <1>1, <1>2, <1>3 DEF ParseEntryPoint, MinAnchor
  <2>2. Len(b) >= 24 /\ ~ (Len(b) < 24) /\ ~ (Len(c) < 24)
    <3>1. ASSUME Len(b) < 24  PROVE  FALSE
      <4>1. ParseSM3(b).kind = "protocol"
        BY <3>1 DEF ParseSM3, MinSM3, Malformed
      <4> QED
        BY <2>1, <4>1
    <3> QED
      BY <1>1, <3>1
  <2>3. \A i \in 0 .. 23 : ByteAt(c, i) = ByteAt(b, i)
    BY <1>1, <2>2 DEF Extends
  <2>4. /\ ByteAt(c, 7) = ByteAt(b, 7) /\ ByteAt(c, 8) = ByteAt(b, 8)
        /\ ByteAt(c, 10) = ByteAt(b, 10) /\ DoubleWordAt(c, 12) = DoubleWordAt(b, 12)
    BY <2>3 DEF DoubleWordAt, WordAt
  <2> QED
    BY <1>1, <2>1, <2>2, <2>4 DEF ParseSM3, MinSM3, Reads
<1>4. CASE ~ HoldsAt(b, 0, AnchorSM3)
  <2>1. ParseEntryPoint(b) = ParseSM2(b) /\ ParseEntryPoint(c) = ParseSM2(c)
    BY <1>1, <1>2, <1>4 DEF ParseEntryPoint, MinAnchor, Malformed
  <2>2. Len(b) >= 31 /\ ~ (Len(b) < 31) /\ ~ (Len(c) < 31)
    <3>1. ASSUME Len(b) < 31  PROVE  FALSE
      <4>1. ParseSM2(b).kind = "protocol"
        BY <3>1 DEF ParseSM2, MinSM2, Malformed
      <4> QED
        BY <2>1, <4>1
    <3> QED
      BY <1>1, <3>1
  <2>3. \A i \in 0 .. 30 : ByteAt(c, i) = ByteAt(b, i)
    BY <1>1, <2>2 DEF Extends
  <2>4. /\ ByteAt(c, 6) = ByteAt(b, 6) /\ ByteAt(c, 7) = ByteAt(b, 7)
        /\ ByteAt(c, 10) = ByteAt(b, 10) /\ WordAt(c, 22) = WordAt(b, 22)
    BY <2>3 DEF WordAt
  <2>5. HoldsAt(c, 16, AnchorDMI) <=> HoldsAt(b, 16, AnchorDMI)
    <3>1. 16 \in Nat /\ 16 + Len(AnchorDMI) <= Len(b)
      BY <1>1, <2>2, Anchors
    <3> QED
      BY <3>1, Anchors, AnchorIsStable
  <2>6. HoldsAt(b, 16, AnchorDMI)
    <3>1. ASSUME ~ HoldsAt(b, 16, AnchorDMI)  PROVE  FALSE
      <4>1. ParseSM2(b).kind = "protocol"
        BY <2>2, <3>1 DEF ParseSM2, MinSM2, Malformed
      <4> QED
        BY <2>1, <4>1
    <3> QED
      BY <3>1
  <2>7. 24 <= Len(b) /\ 24 <= Len(c)
    BY <1>1, <2>2
  <2> QED
    BY <2>1, <2>2, <2>4, <2>5, <2>6, <2>7 DEF ParseSM2, MinSM2, Reads
<1> QED
  BY <1>3, <1>4

-----------------------------------------------------------------------------

(***************************************************************************)
(* The file arriving byte by byte.                                         *)
(***************************************************************************)

IInv ==
    /\ file \in Files /\ buf \in Seq(Byte) /\ Len(buf) <= Len(file)
    /\ buf = Slice(file, 0, Len(buf))
    /\ outcome = ParseEntryPoint(buf)

LEMMA BufIsBytes ==
    ASSUME IInv
    PROVE  /\ file \in Seq(Byte) /\ buf \in Seq(Byte) /\ Len(buf) \in 0 .. Len(file)
           /\ Extends(file, buf)
<1>1. file \in Seq(Byte) /\ Len(file) \in Nat
  BY EntryPointFiles DEF IInv
<1>2. buf \in Seq(Byte) /\ Len(buf) \in Nat
  BY DEF IInv
<1>3. 0 \in Nat /\ 0 <= Len(buf) /\ Len(buf) <= Len(file)
  BY <1>2 DEF IInv
<1>4. \A i \in 1 .. Len(buf) - 0 : Slice(file, 0, Len(buf))[i] = ByteAt(file, 0 + i - 1)
  BY <1>1, <1>2, <1>3, SliceOfBytes
<1>5. \A i \in 0 .. Len(buf) - 1 : ByteAt(file, i) = ByteAt(buf, i)
  <2>1. ASSUME NEW i \in 0 .. Len(buf) - 1  PROVE  ByteAt(file, i) = ByteAt(buf, i)
    <3>1. i + 1 \in 1 .. Len(buf) - 0 /\ 0 + (i + 1) - 1 = i
      BY <1>2
    <3> QED
      BY <1>4, <3>1 DEF IInv, ByteAt
  <2> QED
    BY <2>1
<1> QED
  BY <1>1, <1>2, <1>3, <1>4, <1>5 DEF IInv, Extends

LEMMA ArriveKeeps ==
    ASSUME IInv, Arrive
    PROVE  IInv'
<1> DEFINE n == Len(buf) + 1
<1>1. file \in Seq(Byte) /\ n \in Nat /\ 0 <= n /\ n <= Len(file) /\ Len(file) \in Nat
  BY BufIsBytes DEF Arrive
<1>2. buf' = Slice(file, 0, n) /\ UNCHANGED file /\ outcome' = ParseEntryPoint(buf')
  BY DEF Arrive
<1> HIDE DEF n
<1>3. buf' \in Seq(Byte) /\ Len(buf') = n
  BY <1>1, <1>2, SliceOfBytes
<1> QED
  BY <1>1, <1>2, <1>3 DEF IInv

\* One more byte extends what there was.
LEMMA ArriveExtends ==
    ASSUME IInv, Arrive
    PROVE  Extends(buf', buf)
<1>1. IInv' /\ UNCHANGED file
  BY ArriveKeeps DEF Arrive
<1>2. /\ Extends(file, buf) /\ Extends(file, buf)' /\ Len(buf) \in Nat
      /\ Len(buf') = Len(buf) + 1
  <2>1. Extends(file, buf) /\ Len(buf) \in 0 .. Len(file) /\ file \in Seq(Byte)
    BY BufIsBytes
  <2>2. Len(Slice(file, 0, Len(buf) + 1)) = Len(buf) + 1
    <3>1. 0 <= Len(buf) + 1 /\ Len(buf) + 1 <= Len(file) /\ Len(buf) + 1 \in Nat
      BY <2>1 DEF Arrive
    <3> QED
      BY <2>1, <3>1, SliceOfBytes
  <2>3. Extends(file, buf)'
    <3>1. (IInv => Extends(file, buf))'
      BY BufIsBytes, PTL
    <3> QED
      BY <1>1, <3>1
  <2> QED
    BY <2>1, <2>2, <2>3 DEF Arrive
<1> QED
  BY <1>1, <1>2 DEF Extends

LEMMA InvInit == Init => IInv
<1> SUFFICES ASSUME Init  PROVE  IInv
  OBVIOUS
<1>1. file \in Seq(Byte) /\ Len(file) \in Nat /\ buf = << >> /\ Len(buf) = 0
  BY EntryPointFiles DEF Init
<1>2. Slice(file, 0, 0) = << >>
  BY SubSeqEmpty DEF Slice
<1> QED
  BY <1>1, <1>2 DEF Init, IInv

LEMMA Inductive == Spec => []IInv
<1>1. IInv /\ [Next]_vars => IInv'
  <2> SUFFICES ASSUME IInv, [Next]_vars  PROVE  IInv'
    OBVIOUS
  <2>1. CASE UNCHANGED vars
    BY <2>1 DEF IInv, vars
  <2> QED
    BY <2>1, ArriveKeeps DEF Next, Complete
<1> QED
  BY InvInit, <1>1, PTL DEF Spec

\* Every part of every file is decided: an entry point, or a DMIProtocolError at byte
\* 0 or 16, never an exception of the language (private/parser.py, lines 60-83).
THEOREM DecisionCorrect == Spec => []EveryFileIsDecided
<1>1. IInv => EveryFileIsDecided
  BY BufIsBytes, BytesAreDecided DEF IInv, EveryFileIsDecided
<1> QED
  BY Inductive, <1>1, PTL

\* No byte that arrives later changes an entry point that was accepted (lines 62-83).
THEOREM AcceptanceCorrect == Spec => AcceptanceIsStable
<1>1. IInv /\ [Next]_vars => [outcome.kind = "entry_point" => outcome' = outcome]_vars
  <2> SUFFICES ASSUME IInv, Arrive, outcome.kind = "entry_point"
               PROVE  outcome' = outcome
    BY DEF Next, Complete
  <2>1. IInv' /\ Extends(buf', buf)
    BY ArriveKeeps, ArriveExtends
  <2>2. buf \in Seq(Byte) /\ buf' \in Seq(Byte)
    BY <2>1 DEF IInv
  <2> QED
    BY <2>1, <2>2, AcceptedIsStable DEF IInv
<1> QED
  BY Inductive, <1>1, PTL DEF Spec, AcceptanceIsStable
=============================================================================
