----------------------------- MODULE UnpackProofs -----------------------------
(***************************************************************************)
(* What the readers of a bundle keep, give, refuse and find, for any       *)
(* components, limits, destinations and alterations, and wherever a call   *)
(* fails.  The invariants are built one upon the other:                    *)
(*                                                                         *)
(* DestinationInv: while the call goes on nothing that was there has       *)
(* vanished (Standing), so that a place found empty was empty; and a file  *)
(* is opened where nothing was or where one may be overwritten (Allowed).  *)
(* ReadInv: the types, and how far the layer is read.                      *)
(* GivingInv: while the call goes on with what is named (Going), what is   *)
(* listed are the entries passed, each once and in order (Records), and    *)
(* what is written are those passed again (Written, Laid).                 *)
(* AdmissionInv: what has been compared while a layer was read makes it    *)
(* sound and fit (Admitted), as the bytes counted are its running totals   *)
(* (Summed); in a steady layout the second reading meets the same.         *)
(* SuccessInv, VerdictInv, Diffed: when a call ends well, and with what.   *)
(***************************************************************************)
EXTENDS Unpack, FiniteSetTheorems, WellFoundedInduction, NaturalsInduction, TLAPS

IsObject(o) ==
  \/ o \in {Absent, Directory, Link, Special}
  \/ \E x, whole : o = File(x, whole)

Typing ==
  /\ job \in Jobs
  /\ DOMAIN dest = Places
  /\ \A p \in Places : IsObject(dest[p])
  /\ ~Ended => failure = "none"

Standing == ~Ended => \A p \in Places : job.before[p] = Absent \/ dest[p].kind # "absent"

Replaceable(p) == job.before[p] = Absent \/ (job.overwrite /\ job.before[p].kind = "file")
Allowed == status = "writing" /\ Goal \in Places => Replaceable(Goal)

DestinationInv == Typing /\ Standing /\ Allowed /\ KeepsWhatWasThere /\ NoPartialFiles

------------------------------------------------------------------------------

\* The kinds of objects tell them apart.
LEMMA Kinds ==
  /\ Absent.kind = "absent" /\ Directory.kind = "directory"
  /\ \A x, whole : File(x, whole).kind = "file" /\ File(x, whole).whole = whole
  /\ \A x, whole : IsObject(File(x, whole))
  /\ \A o : IsObject(o) =>
       /\ o.kind = "absent" => o = Absent
       /\ o.kind = "directory" => o = Directory
  /\ IsObject(Absent) /\ IsObject(Directory)
<1>1. \A x, whole : File(x, whole).kind = "file" /\ File(x, whole).whole = whole
  BY DEF File
<1>2. /\ Absent.kind = "absent" /\ Directory.kind = "directory"
      /\ Link.kind = "link" /\ Special.kind = "special"
  BY DEF Absent, Directory, Link, Special
<1>3. QED
  BY <1>1, <1>2 DEF IsObject

\* The destination that a call finds has objects, and whole files only.
LEMMA Before ==
  ASSUME NEW j \in Jobs
  PROVE  /\ DOMAIN j.before = Places
         /\ \A p \in Places :
              /\ IsObject(j.before[p])
              /\ j.before[p].kind = "file" => j.before[p].whole
<1>1. j.before \in [Places -> {Absent, Directory, Link, Special} \cup {File(x, TRUE) : x \in Data}]
  BY JobsAssumption, Zenon
<1>2. ASSUME NEW p \in Places
      PROVE  /\ IsObject(j.before[p])
             /\ j.before[p].kind = "file" => j.before[p].whole
  <2>1. CASE j.before[p] \in {Absent, Directory, Link, Special}
    BY <2>1 DEF IsObject, Absent, Directory, Link, Special
  <2>2. CASE \E x \in Data : j.before[p] = File(x, TRUE)
    <3>1. PICK x \in Data : j.before[p] = File(x, TRUE)
      BY <2>2
    <3>2. IsObject(File(x, TRUE)) /\ File(x, TRUE).whole = TRUE
      BY Kinds, Zenon
    <3>3. QED
      BY <3>1, <3>2, Zenon
  <2>3. QED
    BY <1>1, <2>1, <2>2
<1>3. QED
  BY <1>1, <1>2

\* A step that changes a place only if it was empty, or else leaves there a file or nothing.
LEMMA KeptByStep ==
  ASSUME KeepsWhatWasThere, UNCHANGED job,
         \A p \in Places :
           \/ dest'[p] = dest[p]
           \/ job.before[p] = Absent
           \/ Replaceable(p) /\ dest'[p].kind \in {"file", "absent"}
  PROVE  KeepsWhatWasThere'
<1>1. ASSUME NEW p \in Places
      PROVE  \/ dest'[p] = job.before[p]
             \/ job.before[p] = Absent
             \/ /\ job.overwrite
                /\ job.before[p].kind = "file"
                /\ dest'[p].kind \in {"file", "absent"}
  <2>1. CASE dest'[p] = dest[p]
    BY <2>1, Zenon DEF KeepsWhatWasThere
  <2>2. CASE Replaceable(p) /\ dest'[p].kind \in {"file", "absent"}
    BY <2>2, Zenon DEF Replaceable
  <2>3. QED
    BY <2>1, <2>2
<1>2. QED
  BY <1>1, Zenon DEF KeepsWhatWasThere

LEMMA DestinationStart == Init => DestinationInv
<1> SUFFICES ASSUME Init PROVE DestinationInv
  OBVIOUS
<1>1. Typing /\ Standing
  BY Before, Kinds DEF Init, Typing, Standing, Ended
<1>2. Allowed /\ KeepsWhatWasThere
  BY DEF Init, Allowed, KeepsWhatWasThere
<1>3. NoPartialFiles
  BY Before DEF Init, NoPartialFiles
<1>4. QED
  BY <1>1, <1>2, <1>3 DEF DestinationInv

\* While a call goes on, directories are made only where nothing is and nothing was.
LEMMA DirectoriesMade ==
  ASSUME Typing, Standing, ~Ended, NEW place, DirectoryPath(place)
  PROVE  /\ DOMAIN WithDirectories(place) = Places
         /\ \A p \in Places :
              \/ WithDirectories(place)[p] = dest[p]
              \/ WithDirectories(place)[p] = Directory /\ job.before[p] = Absent
<1>1. ASSUME NEW p \in Places, p \in Prefixes(place)
      PROVE  dest[p] = Directory \/ job.before[p] = Absent
  BY <1>1, Kinds DEF Typing, DirectoryPath, Standing
<1>2. QED
  BY <1>1 DEF WithDirectories

------------------------------------------------------------------------------

\* A step that at most makes directories, between the writings.
LEMMA DirectoryStep ==
  ASSUME DestinationInv, status \in {"opening", "reading"}, UNCHANGED job,
         status' \in {"opening", "reading", "ended"}, ~Ended' => failure' = "none",
         UNCHANGED dest \/ \E place : DirectoryPath(place) /\ dest' = WithDirectories(place)
  PROVE  DestinationInv'
<1>1. /\ DOMAIN dest' = Places
      /\ \A p \in Places :
           dest'[p] = dest[p] \/ (dest'[p] = Directory /\ job.before[p] = Absent)
  BY DirectoriesMade DEF DestinationInv, Typing, Ended
<1>2. Typing'
  BY <1>1 DEF DestinationInv, Typing, IsObject
<1>3. Standing' /\ Allowed'
  BY <1>1 DEF DestinationInv, Standing, Allowed, Ended
<1>4. KeepsWhatWasThere'
  BY <1>1 DEF DestinationInv, KeepsWhatWasThere
<1>5. NoPartialFiles'
  <2>1. failure = "none"
    BY DEF DestinationInv, Typing, Ended
  <2>2. \A p \in Places : ~(dest[p].kind = "file" /\ ~dest[p].whole)
    BY <2>1 DEF DestinationInv, NoPartialFiles
  <2>3. QED
    BY <1>1, <2>2, Kinds DEF NoPartialFiles
<1>6. QED
  BY <1>2, <1>3, <1>4, <1>5 DEF DestinationInv

LEMMA ReadingStep ==
  ASSUME DestinationInv,
         OpenLayer \/ ScanEntry \/ VerifyEntry \/ EndLayer \/ FindMismatch \/ ReadFails
           \/ EndScan \/ EndDiff \/ EndExtract \/ EndVerify \/ Cancel
  PROVE  DestinationInv'
<1> USE DEF Fail, Stop, Trouble, Leave, Ended, PassEntry, layerVars
<1> USE DEF OpenLayer, ScanEntry, VerifyEntry, EndLayer, FindMismatch, ReadFails,
            EndScan, EndDiff, EndExtract, EndVerify, Cancel, AtEntry, AtLayer, AllRead
<1>1. status \in {"opening", "reading"} /\ UNCHANGED job
  OBVIOUS
<1>2. failure = "none"
  BY <1>1 DEF DestinationInv, Typing
<1>3. status' \in {"opening", "reading", "ended"} /\ (~Ended' => failure' = "none")
  BY <1>2
<1>4. UNCHANGED dest \/ (DirectoryPath(<<>>) /\ dest' = WithDirectories(<<>>))
  OBVIOUS
<1>5. QED
  BY <1>1, <1>3, <1>4, DirectoryStep

LEMMA CreateFileStep ==
  ASSUME DestinationInv, CreateFile
  PROVE  DestinationInv'
<1>1. status = "reading" /\ UNCHANGED job
  BY DEF CreateFile, AtEntry, Fail, Stop
<1>2. CASE status' = "ended"
  BY <1>1, <1>2, DirectoryStep DEF CreateFile, Fail, Ended
<1>3. CASE status' # "ended"
  <2> DEFINE made == WithDirectories(Front(Goal))
  <2>1. /\ SafeTarget(Goal) /\ DirectoryPath(Front(Goal))
        /\ dest' = [made EXCEPT ![Goal] = File(Entry.data, FALSE)]
        /\ status' = "writing"
        /\ UNCHANGED <<layerVars, failure>>
    BY <1>3 DEF CreateFile, Fail, Stop
  <2>2. /\ DOMAIN made = Places
        /\ \A p \in Places : made[p] = dest[p] \/ (made[p] = Directory /\ job.before[p] = Absent)
    BY <1>1, <2>1, DirectoriesMade DEF DestinationInv, Ended
  <2>3. Goal' = Goal
    BY <1>1, <2>1 DEF Goal, Entry, Place, layerVars
  <2> HIDE DEF made
  <2>4. /\ DOMAIN dest' = Places
        /\ Goal \in Places => dest'[Goal] = File(Entry.data, FALSE)
        /\ \A p \in Places \ {Goal} :
             dest'[p] = dest[p] \/ (dest'[p] = Directory /\ job.before[p] = Absent)
    BY <2>1, <2>2
  <2>5. failure' = "none" /\ ~Ended' /\ ~Ended
    BY <1>1, <2>1 DEF DestinationInv, Typing, Ended
  <2>6. Goal \in Places => Replaceable(Goal)
    <3>1. SUFFICES ASSUME Goal \in Places PROVE Replaceable(Goal)
      OBVIOUS
    <3>2. CASE dest[Goal].kind = "absent"
      BY <2>5, <3>1, <3>2 DEF DestinationInv, Standing, Replaceable
    <3>3. CASE job.overwrite /\ dest[Goal].kind = "file"
      BY <3>1, <3>3 DEF DestinationInv, KeepsWhatWasThere, Replaceable
    <3>4. QED
      BY <2>1, <3>2, <3>3 DEF SafeTarget
  <2>7. Typing' /\ Standing'
    <3> DEFINE part == File(Entry.data, FALSE)
    <3>0. IsObject(part) /\ part.kind = "file" /\ Directory.kind = "directory" /\ IsObject(Directory)
      BY Kinds, Zenon
    <3> HIDE DEF part
    <3>1. \A p \in Places : IsObject(dest'[p])
      <4>1. \A p \in Places : IsObject(dest[p])
        BY DEF DestinationInv, Typing
      <4>2. QED
        BY <2>4, <3>0, <4>1 DEF part
    <3>2. \A p \in Places : job.before[p] = Absent \/ dest'[p].kind # "absent"
      <4>1. \A p \in Places : job.before[p] = Absent \/ dest[p].kind # "absent"
        BY <2>5 DEF DestinationInv, Standing
      <4>2. QED
        BY <2>4, <3>0, <4>1 DEF part
    <3>3. Typing'
      BY <1>1, <2>4, <2>5, <3>1 DEF DestinationInv, Typing
    <3>4. QED
      BY <1>1, <3>2, <3>3 DEF Standing, Ended
  <2>8. Allowed'
    BY <1>1, <2>3, <2>6 DEF Allowed, Replaceable
  <2>9. KeepsWhatWasThere'
    <3>1. \A p \in Places \ {Goal} : dest'[p] = dest[p] \/ job.before[p] = Absent
      BY <2>4
    <3>2. Goal \in Places => Replaceable(Goal) /\ dest'[Goal].kind = "file"
      <4>1. File(Entry.data, FALSE).kind = "file"
        BY Kinds, Zenon
      <4>2. QED
        BY <2>4, <2>6, <4>1
    <3>3. \A p \in Places :
           \/ dest'[p] = dest[p]
           \/ job.before[p] = Absent
           \/ Replaceable(p) /\ dest'[p].kind \in {"file", "absent"}
      BY <3>1, <3>2 DEF Replaceable
    <3>4. QED
      BY <1>1, <3>3, KeptByStep DEF DestinationInv
  <2>10. NoPartialFiles'
    <3>1. \A p \in Places : ~(dest[p].kind = "file" /\ ~dest[p].whole)
      BY <1>1, <2>5 DEF DestinationInv, Typing, NoPartialFiles
    <3>2. \A p \in Places \ {Goal} : ~(dest'[p].kind = "file" /\ ~dest'[p].whole)
      BY <2>4, <3>1, Kinds
    <3>3. QED
      BY <2>1, <2>3, <3>2 DEF NoPartialFiles
  <2>11. QED
    BY <2>7, <2>8, <2>9, <2>10 DEF DestinationInv
<1>4. QED
  BY <1>2, <1>3

\* The end of a writing: the place has a whole file or nothing, or is as it was.
LEMMA WritingStep ==
  ASSUME DestinationInv, WriteFile \/ CopyFails \/ CloseFails
  PROVE  DestinationInv'
<1>1. /\ status = "writing" /\ status' \in {"reading", "ended"} /\ ~Ended
      /\ UNCHANGED job
      /\ failure = "none"
      /\ status' = "reading" => UNCHANGED failure
  BY DEF WriteFile, CopyFails, CloseFails, PassEntry, Fail, Stop, DestinationInv, Typing, Ended
<1>2. \A p \in Places \ {Goal} : ~(dest[p].kind = "file" /\ ~dest[p].whole)
  BY DEF DestinationInv, NoPartialFiles
<1>3. Goal \in Places => Replaceable(Goal)
  BY <1>1 DEF DestinationInv, Allowed
<1>4. CASE CloseFails
  <2>1. UNCHANGED <<job, dest, layerVars>> /\ Ended' /\ failure' = "close"
    BY <1>4 DEF CloseFails, Fail, Stop, Ended
  <2>2. Goal' = Goal
    BY <2>1 DEF Goal, Entry, Place, layerVars
  <2>3. Typing' /\ Standing' /\ Allowed' /\ KeepsWhatWasThere'
    BY <2>1 DEF DestinationInv, Typing, Standing, Allowed, KeepsWhatWasThere, Ended
  <2>4. NoPartialFiles'
    BY <2>1, <2>2 DEF DestinationInv, NoPartialFiles
  <2>5. QED
    BY <2>3, <2>4 DEF DestinationInv
<1>5. CASE WriteFile \/ CopyFails
  <2>1. PICK o \in {File(Entry.data, TRUE), Absent} :
          /\ dest' = [dest EXCEPT ![Goal] = o]
          /\ status' = "reading" => o # Absent
    BY <1>5, Kinds DEF WriteFile, CopyFails, Stop, PassEntry
  <2>2. /\ DOMAIN dest' = Places
        /\ Goal \in Places => dest'[Goal] = o
        /\ \A p \in Places \ {Goal} : dest'[p] = dest[p]
    BY <2>1 DEF DestinationInv, Typing
  <2>3. /\ IsObject(o)
        /\ o.kind \in {"file", "absent"}
        /\ o # Absent => o.kind = "file" /\ o.whole = TRUE
    <3>1. CASE o = Absent
      BY <3>1, Kinds
    <3>2. CASE o = File(Entry.data, TRUE)
      BY <3>2, Kinds, Zenon
    <3>3. QED
      BY <2>1, <3>1, <3>2
  <2>4. Typing' /\ Standing'
    <3>1. Typing'
      BY <1>1, <2>2, <2>3 DEF DestinationInv, Typing, Ended
    <3>2. ASSUME ~Ended' PROVE \A p \in Places : job.before[p] = Absent \/ dest'[p].kind # "absent"
      <4>1. o.kind # "absent"
        BY <1>1, <2>1, <2>3, <3>2 DEF Ended
      <4>2. QED
        BY <1>1, <2>2, <4>1 DEF DestinationInv, Standing
    <3>3. QED
      BY <1>1, <3>1, <3>2 DEF Standing, Ended
  <2>5. Allowed'
    BY <1>1 DEF Allowed
  <2>6. KeepsWhatWasThere'
    <3>1. Goal \in Places => Replaceable(Goal) /\ dest'[Goal].kind \in {"file", "absent"}
      BY <1>3, <2>2, <2>3
    <3>2. \A p \in Places :
           \/ dest'[p] = dest[p]
           \/ job.before[p] = Absent
           \/ Replaceable(p) /\ dest'[p].kind \in {"file", "absent"}
      BY <2>2, <3>1 DEF Replaceable
    <3>3. QED
      BY <1>1, <3>2, KeptByStep DEF DestinationInv
  <2>7. NoPartialFiles'
    BY <1>2, <2>2, <2>3, Kinds DEF NoPartialFiles
  <2>8. QED
    BY <2>4, <2>5, <2>6, <2>7 DEF DestinationInv
<1>6. QED
  BY <1>4, <1>5

LEMMA DestinationStep == DestinationInv /\ [Next]_vars => DestinationInv'
<1> SUFFICES ASSUME DestinationInv, [Next]_vars PROVE DestinationInv'
  OBVIOUS
<1>1. CASE UNCHANGED vars \/ \E i \in DOMAIN Layers : Alter(i)
  <2>1. UNCHANGED <<job, dest, status, layerVars, failure>>
    BY <1>1 DEF Alter, vars
  <2>2. Goal' = Goal /\ Ended' = Ended
    BY <2>1 DEF Goal, Entry, Place, layerVars, Ended
  <2>3. QED
    BY <2>1, <2>2 DEF DestinationInv, Typing, Standing, Allowed, Replaceable, KeepsWhatWasThere,
       NoPartialFiles
<1>2. CASE Step
  BY <1>2, ReadingStep, CreateFileStep, WritingStep DEF Step
<1>3. QED
  BY <1>1, <1>2 DEF Next, Done

\* Whatever a call finds, does, fails at or is interrupted by, it replaces no link, directory
\* or device, and no file unless it may overwrite (ensureSafeTarget, ensureDirectoryPath);
\* and part of a file stands only where it is written or its Close has failed (extractFile).
THEOREM DestinationIsSound == Spec => []DestinationSound
<1>1. DestinationInv => DestinationSound
  BY DEF DestinationInv, DestinationSound
<1>2. QED
  BY <1>1, DestinationStart, DestinationStep, PTL DEF Spec
------------------------------------------------------------------------------
(***************************************************************************)
(* The types, and the limits of a component while it is read.              *)
(***************************************************************************)

LEMMA SmallestExists ==
  ASSUME NEW S \in SUBSET Nat, S # {}
  PROVE  \E x \in S : \A y \in S : x =< y
<1> DEFINE Less == {ss \in Nat \X Nat : ss[1] < ss[2]}
<1>1. IsWellFoundedOn(Less, Nat)
  BY NatLessThanWellFounded DEF OpToRel
<1>2. \A x, y \in Nat : y < x => <<y, x>> \in Less
  OBVIOUS
<1> HIDE DEF Less
<1>3. PICK x \in S : \A y \in S : ~(<<y, x>> \in Less)
  BY <1>1, WFMin
<1>4. \A y \in S : x =< y
  <2> TAKE y \in S
  <2>1. x \in Nat /\ y \in Nat /\ ~(<<y, x>> \in Less)
    BY <1>3
  <2>2. ~(y < x)
    BY <1>2, <2>1, Zenon
  <2> QED
    BY <2>1, <2>2
<1> QED
  BY <1>4

LEMMA SmallestIsElement ==
  ASSUME NEW S \in SUBSET Nat, S # {}
  PROVE  Min(S) \in S /\ \A y \in S : Min(S) =< y
<1>1. \E x \in S : \A y \in S : x =< y
  BY SmallestExists
<1>2. QED
  BY <1>1, Zenon DEF Min

LEMMA ContentTyped ==
  ASSUME NEW content, IsContent(content)
  PROVE  /\ content.kind \in {"missing", "undecodable", "tar"}
         /\ content.kind = "tar" => /\ content.entries \in Seq(Entries)
                                    /\ content.end \in {"eof", "broken", "cut"}
                                    /\ content.tail \in Nat
BY DEF IsContent, Tar, Missing, Undecodable

LEMMA MissingIsContent == IsContent(Missing) /\ Missing.kind = "missing"
BY DEF IsContent, Missing

LEMMA LimitsAreNaturals ==
  ASSUME job \in Jobs, NEW of \in LimitKinds
  PROVE  Limit(of) \in Nat
<1>1. job.limits \in [LimitKinds -> Nat] /\ Default \in [LimitKinds -> Nat]
  BY JobsAssumption, UnpackAssumption, Zenon
<1>2. QED
  BY <1>1 DEF Limit

LEMMA LayersTyped ==
  ASSUME job \in Jobs
  PROVE  /\ Len(Layers) \in Nat
         /\ DOMAIN Layers = 1..Len(Layers)
         /\ \A i \in DOMAIN Layers : IsContent(Layers[i].content)
<1>1. PICK T : job.layers \in Seq(T)
  BY JobsAssumption, Zenon
<1>2. \A i \in DOMAIN job.layers : IsContent(job.layers[i].content)
  BY JobsAssumption, Zenon
<1>3. QED
  BY <1>1, <1>2 DEF Layers

LEMMA FirstIsRival ==
  ASSUME job \in Jobs, NEW i \in DOMAIN Layers
  PROVE  FirstOf(i) \in Rivals(i) /\ FirstOf(i) \in DOMAIN Layers
<1>1. Rivals(i) \in SUBSET Nat /\ i \in Rivals(i) /\ Rivals(i) \subseteq DOMAIN Layers
  BY LayersTyped DEF Rivals
<1>2. QED
  BY <1>1, SmallestIsElement DEF FirstOf

LEMMA NamedIsContent ==
  ASSUME job \in Jobs, NEW k \in Chosen
  PROVE  k \in DOMAIN Layers /\ IsContent(Named(k))
<1>1. k \in DOMAIN Layers
  BY DEF Chosen, Selected
<1>2. QED
  BY <1>1, FirstIsRival, LayersTyped DEF Named

\* What a call asks for stays as it is.
LEMMA JobStays ==
  ASSUME UNCHANGED job
  PROVE  /\ Layers' = Layers /\ Chosen' = Chosen
         /\ \A i : Named(i)' = Named(i) /\ FirstOf(i)' = FirstOf(i)
         /\ \A p : Place(p)' = Place(p)
<1>1. Layers' = Layers /\ Selected' = Selected /\ (\A i : Rivals(i)' = Rivals(i))
  BY DEF Layers, Selected, Rivals, Typed
<1>2. \A i : FirstOf(i)' = FirstOf(i) /\ Named(i)' = Named(i)
  BY <1>1 DEF FirstOf, Named
<1>3. \A t, s : Compared(t, s)' = Compared(t, s)
  BY <1>1 DEF Compared, Typed
<1>4. \A t : ContentChanged(t)' = ContentChanged(t)
  BY <1>1, <1>3 DEF ContentChanged, Digests
<1>5. Chosen' = Chosen
  <2>1. \A i : /\ ContentChanged(Typed(i))' = ContentChanged(Typed(i))
               /\ Compared(Typed(i), Layers[i].side)' = Compared(Typed(i), Layers[i].side)
    BY <1>1, <1>3, <1>4 DEF Typed
  <2>2. QED
    BY <1>1, <2>1 DEF Chosen
<1>6. QED
  BY <1>1, <1>2, <1>5 DEF Place

LEMMA LimitStays ==
  ASSUME UNCHANGED job, phase' = "verify" <=> phase = "verify", NEW of
  PROVE  Limit(of)' = Limit(of)
BY DEF Limit

Shape ==
  /\ job \in Jobs
  /\ alters \in 0..MaxAlters
  /\ DOMAIN blob = DOMAIN Layers
  /\ \A i \in DOMAIN blob : IsContent(blob[i])
  /\ DOMAIN dest = Places
  /\ phase \in {"scan", "extract", "verify"}
  /\ phase = "verify" <=> job.op = "verify"
  /\ status \in {"opening", "reading", "writing", "ended"}

WithinLimits ==
  /\ next \in Nat \ {0} /\ next - 1 <= Limit("files")
  /\ total \in 0..Limit("total")

Position ==
  /\ at \in Chosen \cup {Len(Layers) + 1}
  /\ IsContent(stream) /\ stream.kind \in {"tar", "missing"}
  /\ status = "opening" => next = 1 /\ total = 0
  /\ status \in {"reading", "writing"} =>
       at \in Chosen /\ stream.kind = "tar" /\ next \in 1..(Len(stream.entries) + 1)
  /\ status = "writing" =>
       phase = "extract" /\ next \in DOMAIN stream.entries /\ ~Invalid(Entry) /\ ~OverNow

Listings == [layer : Chosen, path : Places, size : Nat, data : Data]
Listing ==
  /\ listed \in Seq(Listings)
  /\ \A i \in DOMAIN listed : listed[i].size <= Limit("size")

ReadInv == Shape /\ WithinLimits /\ Position /\ Listing

LEMMA NotPastTheLayers ==
  ASSUME job \in Jobs
  PROVE  /\ Len(Layers) + 1 \notin DOMAIN Layers /\ Chosen \subseteq DOMAIN Layers
         /\ at \in Chosen \cup {Len(Layers) + 1} /\ AtLayer => at \in Chosen
BY LayersTyped DEF Chosen, Selected, AtLayer

LEMMA ReadStart == Init => ReadInv
<1> SUFFICES ASSUME Init PROVE ReadInv
  OBVIOUS
<1>1. job \in Jobs /\ status = "opening" /\ listed = <<>> /\ next = 1 /\ total = 0 /\ stream = Missing
  BY DEF Init
<1>2. Limit("files") \in Nat /\ Limit("total") \in Nat
  BY <1>1, LimitsAreNaturals DEF LimitKinds
<1>3. DOMAIN blob = DOMAIN Layers /\ \A i \in DOMAIN blob : IsContent(blob[i])
  <2>1. \A content \in Contents : IsContent(content)
    BY JobsAssumption
  <2>2. CASE blob = [i \in DOMAIN Layers |-> Layers[i].content]
    BY <1>1, <2>2, LayersTyped
  <2>3. ASSUME NEW k \in DOMAIN Layers, NEW content \in Contents,
               blob = [i \in DOMAIN Layers |-> IF i = k THEN content ELSE Layers[i].content]
        PROVE  DOMAIN blob = DOMAIN Layers /\ \A i \in DOMAIN blob : IsContent(blob[i])
    BY <1>1, <2>1, <2>3, LayersTyped
  <2>4. QED
    BY <2>2, <2>3 DEF Init
<1>4. DOMAIN dest = Places
  BY Before DEF Init
<1>5. Shape
  BY <1>1, <1>3, <1>4, UnpackAssumption DEF Init, Shape
<1>6. at \in Chosen \cup {Len(Layers) + 1}
  BY DEF Init, Following
<1>7. WithinLimits /\ Position /\ Listing
  BY <1>1, <1>2, <1>6, MissingIsContent DEF WithinLimits, Position, Listing
<1>8. QED
  BY <1>5, <1>7 DEF ReadInv

LEMMA EntryTyped ==
  ASSUME IsContent(stream), stream.kind = "tar", next \in DOMAIN stream.entries
  PROVE  Entry \in Entries
<1>1. stream.entries \in Seq(Entries)
  BY ContentTyped
<1>2. QED
  BY <1>1 DEF Entry

LEMMA ReadStopped ==
  ASSUME ReadInv, NEW why, Stop(why), DOMAIN dest' = Places
  PROVE  ReadInv'
<1>1. Layers' = Layers /\ Chosen' = Chosen /\ (\A of : Limit(of)' = Limit(of))
  BY JobStays, LimitStays DEF Stop
<1>2. UNCHANGED <<job, blob, alters, phase, at, stream, next, total, listed>> /\ status' = "ended"
  BY DEF Stop, layerVars
<1>3. Shape'
  BY <1>1, <1>2 DEF ReadInv, Shape
<1>4. WithinLimits' /\ Position'
  BY <1>1, <1>2 DEF ReadInv, WithinLimits, Position
<1>5. Listing'
  BY <1>1, <1>2 DEF ReadInv, Listing, Listings
<1>6. QED
  BY <1>3, <1>4, <1>5 DEF ReadInv

LEMMA ReadLeft ==
  ASSUME ReadInv, Leave, UNCHANGED listed
  PROVE  ReadInv'
<1>1. /\ UNCHANGED <<job, blob, alters, dest, phase, listed>>
      /\ status' = "opening" /\ next' = 1 /\ total' = 0 /\ stream' = Missing
  BY DEF Leave
<1>2. Layers' = Layers /\ Chosen' = Chosen /\ (\A of : Limit(of)' = Limit(of))
  BY <1>1, JobStays, LimitStays
<1>3. Shape'
  BY <1>1, <1>2 DEF ReadInv, Shape
<1>4. Limit("files") \in Nat /\ Limit("total") \in Nat
  BY LimitsAreNaturals DEF ReadInv, Shape, LimitKinds
<1>5. WithinLimits'
  BY <1>1, <1>2, <1>4 DEF WithinLimits
<1>6. at' \in Chosen \cup {Len(Layers) + 1}
  BY DEF Leave, Following
<1>7. Position'
  BY <1>1, <1>2, <1>6, MissingIsContent DEF Position
<1>8. Listing'
  BY <1>1, <1>2 DEF ReadInv, Listing, Listings
<1>9. QED
  BY <1>3, <1>5, <1>7, <1>8 DEF ReadInv

LEMMA ReadTroubled ==
  ASSUME ReadInv, NEW why, Trouble(why)
  PROVE  ReadInv'
<1>1. CASE Fail(why)
  BY <1>1, ReadStopped DEF Fail, ReadInv, Shape
<1>2. CASE Leave /\ UNCHANGED listed
  BY <1>2, ReadLeft
<1>3. QED
  BY <1>1, <1>2 DEF Trouble

LEMMA ReadFailed ==
  ASSUME ReadInv, NEW why, Fail(why)
  PROVE  ReadInv'
BY ReadStopped DEF Fail, ReadInv, Shape

\* A step that only goes on within the layer or lets it be altered.
LEMMA ReadKept ==
  ASSUME ReadInv, UNCHANGED <<job, phase, layerVars, listed>>,
         alters' \in 0..MaxAlters, DOMAIN blob' = DOMAIN blob, \A i \in DOMAIN blob' : IsContent(blob'[i]),
         DOMAIN dest' = Places, status' \in {status, "ended"}
  PROVE  ReadInv'
<1>1. Layers' = Layers /\ Chosen' = Chosen /\ (\A of : Limit(of)' = Limit(of))
  BY JobStays, LimitStays
<1>2. UNCHANGED <<at, stream, next, total>> /\ Entry' = Entry
  BY DEF layerVars, Entry
<1>3. Shape'
  BY <1>1 DEF ReadInv, Shape
<1>4. WithinLimits'
  BY <1>1, <1>2 DEF ReadInv, WithinLimits
<1>5. OverNow' = OverNow /\ Invalid(Entry)' = Invalid(Entry)
  BY <1>1, <1>2 DEF OverNow, Invalid
<1>6. Position'
  BY <1>1, <1>2, <1>5 DEF ReadInv, Position
<1>7. Listing'
  BY <1>1 DEF ReadInv, Listing, Listings
<1>8. QED
  BY <1>3, <1>4, <1>6, <1>7 DEF ReadInv

LEMMA OpenLayerReads ==
  ASSUME ReadInv, OpenLayer
  PROVE  ReadInv'
<1>1. CASE \E why : Trouble(why) \/ Fail(why)
  BY <1>1, ReadTroubled, ReadFailed
<1>2. CASE ~\E why : Trouble(why) \/ Fail(why)
  <2>1. /\ AtLayer /\ blob[Opened].kind = "tar"
        /\ dest' = IF phase = "extract" THEN WithDirectories(<<>>) ELSE dest
        /\ status' = "reading" /\ stream' = blob[Opened]
        /\ UNCHANGED <<job, blob, alters, phase, at, next, total, listed>>
    BY <1>2 DEF OpenLayer
  <2>2. Layers' = Layers /\ Chosen' = Chosen /\ (\A of : Limit(of)' = Limit(of))
    BY <2>1, JobStays, LimitStays
  <2>3. at \in Chosen /\ at \in DOMAIN Layers
    BY <2>1, NotPastTheLayers DEF ReadInv, Shape, Position, AtLayer
  <2>4. IsContent(blob[Opened])
    BY <2>3, FirstIsRival DEF Opened, ReadInv, Shape
  <2>5. Shape'
    BY <2>1, <2>2 DEF ReadInv, Shape, WithDirectories
  <2>6. WithinLimits'
    BY <2>1, <2>2 DEF ReadInv, WithinLimits
  <2>7. stream'.entries \in Seq(Entries) /\ next = 1
    BY <2>1, <2>4, ContentTyped DEF ReadInv, Position, AtLayer
  <2>8. next \in 1..(Len(stream'.entries) + 1)
    BY <2>7
  <2>9. Position'
    BY <2>1, <2>2, <2>3, <2>4, <2>8 DEF Position
  <2>10. Listing'
    BY <2>1, <2>2 DEF ReadInv, Listing, Listings
  <2>11. QED
    BY <2>5, <2>6, <2>9, <2>10 DEF ReadInv
<1>3. QED
  BY <1>1, <1>2

\* The entry is passed, and listed or not.
LEMMA ReadPassed ==
  ASSUME ReadInv, PassEntry, DOMAIN dest' = Places,
         status \in {"reading", "writing"}, next \in DOMAIN stream.entries,
         next <= Limit("files"), total + Entry.size <= Limit("total"),
         \/ UNCHANGED listed
         \/ ListEntry /\ Entry.size <= Limit("size")
  PROVE  ReadInv'
<1>1. /\ status' = "reading" /\ next' = next + 1 /\ total' = total + Entry.size
      /\ UNCHANGED <<job, blob, alters, phase, at, stream>>
  BY DEF PassEntry
<1>2. Layers' = Layers /\ Chosen' = Chosen /\ (\A of : Limit(of)' = Limit(of))
  BY <1>1, JobStays, LimitStays
<1>3. stream.kind = "tar" /\ stream.entries \in Seq(Entries) /\ Entry \in Entries /\ at \in Chosen
  BY ContentTyped, EntryTyped DEF ReadInv, Position
<1>4. Shape'
  BY <1>1, <1>2 DEF ReadInv, Shape
<1>5. WithinLimits'
  <2>1. Entry.size \in Nat /\ Limit("total") \in Nat /\ Limit("files") \in Nat
    BY <1>3, LimitsAreNaturals DEF Entries, ReadInv, Shape, LimitKinds
  <2>2. next \in Nat \ {0} /\ total \in Nat
    BY <2>1 DEF ReadInv, WithinLimits
  <2>3. QED
    BY <1>1, <1>2, <2>1, <2>2 DEF WithinLimits
<1>6. Position'
  <2>1. next + 1 \in 1..(Len(stream.entries) + 1)
    BY <1>3
  <2>2. QED
    BY <1>1, <1>2, <1>3, <2>1 DEF ReadInv, Position
<1>7. Listing'
  <2>1. CASE UNCHANGED listed
    BY <1>2, <2>1 DEF ReadInv, Listing, Listings
  <2>2. CASE ListEntry /\ Entry.size <= Limit("size")
    <3> DEFINE new == [layer |-> at, path |-> Entry.path, size |-> Entry.size, data |-> Entry.data]
    <3>1. new \in Listings /\ new.size <= Limit("size")
      BY <1>3, <2>2 DEF Entries, Listings
    <3>2. listed' = Append(listed, new)
      BY <2>2 DEF ListEntry
    <3> HIDE DEF new
    <3>3. listed \in Seq(Listings) /\ \A i \in DOMAIN listed : listed[i].size <= Limit("size")
      BY DEF ReadInv, Listing
    <3>4. listed' \in Seq(Listings) /\ \A i \in DOMAIN listed' : listed'[i].size <= Limit("size")
      BY <3>1, <3>2, <3>3
    <3>5. QED
      BY <1>2, <3>4 DEF Listing, Listings
  <2>3. QED
    BY <2>1, <2>2
<1>8. QED
  BY <1>4, <1>5, <1>6, <1>7 DEF ReadInv

LEMMA WhatIsNotOver ==
  ASSUME ReadInv, status = "reading", next \in DOMAIN stream.entries
  PROVE  /\ ~Over => /\ next <= Limit("files") /\ Entry.size <= Limit("size")
                     /\ total + Entry.size <= Limit("total")
         /\ ~OverNow => /\ next <= Limit("files") /\ Entry.size <= Limit("size")
                        /\ total + Entry.size <= Limit("total")
<1>1. Entry.size \in Nat
  BY EntryTyped DEF ReadInv, Position, Entries
<1>2. Limit("total") \in Nat /\ Limit("files") \in Nat /\ Limit("size") \in Nat
  BY LimitsAreNaturals DEF ReadInv, Shape, LimitKinds
<1>3. next \in Nat /\ total \in Nat
  BY <1>2 DEF ReadInv, WithinLimits
<1>4. ASSUME ~Over
      PROVE  /\ next <= Limit("files") /\ Entry.size <= Limit("size")
             /\ total + Entry.size <= Limit("total")
  BY <1>1, <1>2, <1>3, <1>4 DEF Over
<1>5. ASSUME ~OverNow
      PROVE  /\ next <= Limit("files") /\ Entry.size <= Limit("size")
             /\ total + Entry.size <= Limit("total")
  BY <1>1, <1>2, <1>3, <1>5 DEF OverNow
<1>6. QED
  BY <1>4, <1>5

LEMMA EntryReads ==
  ASSUME ReadInv, ScanEntry \/ VerifyEntry
  PROVE  ReadInv'
<1>1. CASE \E why : Trouble(why) \/ Fail(why)
  BY <1>1, ReadTroubled, ReadFailed
<1>2. CASE ~\E why : Trouble(why) \/ Fail(why)
  <2>1. /\ ~Over /\ PassEntry /\ AtEntry /\ UNCHANGED dest
        /\ ListEntry \/ UNCHANGED listed
    BY <1>2 DEF ScanEntry, VerifyEntry
  <2>2. /\ next <= Limit("files") /\ Entry.size <= Limit("size")
        /\ total + Entry.size <= Limit("total")
    BY <2>1, WhatIsNotOver DEF AtEntry
  <2>3. DOMAIN dest' = Places
    BY <2>1 DEF ReadInv, Shape
  <2>4. QED
    BY <2>1, <2>2, <2>3, ReadPassed DEF AtEntry
<1>3. QED
  BY <1>1, <1>2

LEMMA FileReads ==
  ASSUME ReadInv, CreateFile \/ WriteFile \/ CopyFails \/ CloseFails
  PROVE  ReadInv'
<1>0. DOMAIN dest' = Places
  BY DEF ReadInv, Shape, CreateFile, WriteFile, CopyFails, CloseFails, Fail, WithDirectories
<1>1. CASE \E why : Stop(why)
  BY <1>0, <1>1, ReadStopped
<1>2. CASE CreateFile /\ ~\E why : Stop(why)
  <2>1. /\ AtEntry /\ phase = "extract" /\ ~Invalid(Entry) /\ ~OverNow
        /\ status' = "writing"
        /\ UNCHANGED <<job, blob, alters, phase, layerVars, listed>>
    BY <1>2 DEF CreateFile, Fail
  <2>2. Layers' = Layers /\ Chosen' = Chosen /\ (\A of : Limit(of)' = Limit(of))
    BY <2>1, JobStays, LimitStays
  <2>3. UNCHANGED <<at, stream, next, total>> /\ Entry' = Entry
    BY <2>1 DEF layerVars, Entry
  <2>4. Shape'
    BY <1>0, <2>1, <2>2 DEF ReadInv, Shape
  <2>5. WithinLimits'
    BY <2>2, <2>3 DEF ReadInv, WithinLimits
  <2>6. ~OverNow' /\ ~Invalid(Entry)'
    BY <2>1, <2>2, <2>3 DEF OverNow, Invalid
  <2>7. Position'
    BY <2>1, <2>2, <2>3, <2>6 DEF ReadInv, Position, AtEntry
  <2>8. Listing'
    BY <2>1, <2>2 DEF ReadInv, Listing, Listings
  <2>9. QED
    BY <2>4, <2>5, <2>7, <2>8 DEF ReadInv
<1>3. CASE WriteFile
  <2>1. status = "writing" /\ PassEntry /\ UNCHANGED listed
    BY <1>3 DEF WriteFile
  <2>2. next \in DOMAIN stream.entries /\ ~OverNow
    BY <2>1 DEF ReadInv, Position
  <2>3. Limit("total") \in Nat /\ Limit("files") \in Nat /\ Entry.size \in Nat
    BY <2>1, <2>2, LimitsAreNaturals, EntryTyped DEF ReadInv, Shape, Position, LimitKinds, Entries
  <2>4. next <= Limit("files") /\ total + Entry.size <= Limit("total")
    BY <2>2, <2>3 DEF OverNow, ReadInv, WithinLimits
  <2>5. QED
    BY <1>0, <2>1, <2>2, <2>4, ReadPassed
<1>4. QED
  BY <1>1, <1>2, <1>3 DEF CopyFails, CloseFails, Fail

LEMMA EndScanReads ==
  ASSUME ReadInv, EndScan
  PROVE  ReadInv'
<1>1. CASE \E why : Fail(why)
  BY <1>1, ReadFailed
<1>2. CASE ~\E why : Fail(why)
  <2>1. /\ phase = "scan" /\ AllRead /\ job.op = "extract" /\ phase' = "extract"
        /\ \E i : Following(1, i) /\ at' = i
        /\ UNCHANGED <<job, blob, alters, dest, status, stream, next, total, listed>>
    BY <1>2 DEF EndScan
  <2>2. Layers' = Layers /\ Chosen' = Chosen /\ (\A of : Limit(of)' = Limit(of))
    BY <2>1, JobStays, LimitStays
  <2>3. Shape'
    BY <2>1, <2>2 DEF ReadInv, Shape
  <2>4. WithinLimits'
    BY <2>1, <2>2 DEF ReadInv, WithinLimits
  <2>5. at' \in Chosen \cup {Len(Layers) + 1} /\ status = "opening"
    BY <2>1 DEF Following, AllRead
  <2>6. Position'
    BY <2>1, <2>2, <2>5 DEF ReadInv, Position
  <2>7. Listing'
    BY <2>1, <2>2 DEF ReadInv, Listing, Listings
  <2>8. QED
    BY <2>3, <2>4, <2>6, <2>7 DEF ReadInv
<1>3. QED
  BY <1>1, <1>2

LEMMA AlterTyped ==
  ASSUME ReadInv, NEW i \in DOMAIN Layers, Alter(i)
  PROVE  /\ DOMAIN blob' = DOMAIN blob /\ \A k \in DOMAIN blob' : IsContent(blob'[k])
         /\ alters' \in 0..MaxAlters /\ alters' < MaxAlters
         /\ UNCHANGED <<job, dest, phase, status, layerVars, listed, report, failure>>
<1>1. PICK content \in Contents \cup {Layers[i].content} : blob' = [blob EXCEPT ![i] = content]
  BY DEF Alter
<1>2. IsContent(content)
  BY <1>1, JobsAssumption, LayersTyped DEF ReadInv, Shape
<1>3. alters' \in 0..MaxAlters /\ alters' < MaxAlters
  BY UnpackAssumption DEF Alter, ReadInv, Shape
<1>4. QED
  BY <1>1, <1>2, <1>3 DEF Alter, ReadInv, Shape

LEMMA ReadStep == ReadInv /\ [Next]_vars => ReadInv'
<1> SUFFICES ASSUME ReadInv, [Next]_vars PROVE ReadInv'
  OBVIOUS
<1>1. CASE OpenLayer
  BY <1>1, OpenLayerReads
<1>2. CASE ScanEntry \/ VerifyEntry
  BY <1>2, EntryReads
<1>3. CASE CreateFile \/ WriteFile \/ CopyFails \/ CloseFails
  BY <1>3, FileReads
<1>4. CASE EndLayer
  BY <1>4, ReadTroubled, ReadFailed, ReadLeft DEF EndLayer
<1>5. CASE FindMismatch \/ ReadFails
  BY <1>5, ReadTroubled DEF FindMismatch, ReadFails
<1>6. CASE EndScan
  BY <1>6, EndScanReads
<1>7. CASE EndExtract \/ Cancel
  BY <1>7, ReadFailed DEF EndExtract, Cancel
<1>8. CASE EndVerify \/ EndDiff
  <2>1. CASE \E why : Fail(why)
    BY <2>1, ReadFailed
  <2>2. CASE ~\E why : Fail(why)
    <3>1. UNCHANGED <<job, blob, alters, dest, phase, layerVars, listed>> /\ status' = "ended"
      BY <1>8, <2>2 DEF EndVerify, EndDiff
    <3>2. QED
      BY <3>1, ReadKept DEF ReadInv, Shape
  <2>3. QED
    BY <2>1, <2>2
<1>9. CASE \E i \in DOMAIN Layers : Alter(i)
  BY <1>9, AlterTyped, ReadKept DEF ReadInv, Shape
<1>10. CASE UNCHANGED vars
  BY <1>10, ReadKept DEF vars, ReadInv, Shape
<1>11. QED
  BY <1>1, <1>2, <1>3, <1>4, <1>5, <1>6, <1>7, <1>8, <1>9, <1>10 DEF Next, Step, Done

LEMMA ReadIsTyped == ReadInv => TypeOK
<1> SUFFICES ASSUME ReadInv PROVE TypeOK
  OBVIOUS
<1>1. \A e \in Range(listed) :
        e.layer \in Chosen /\ e.size \in 0..Default["size"] \cup 0..job.limits.size
  <2> SUFFICES ASSUME NEW i \in DOMAIN listed
               PROVE  /\ listed[i].layer \in Chosen
                      /\ listed[i].size \in 0..Default["size"] \cup 0..job.limits.size
    BY DEF Range
  <2>1. listed[i].layer \in Chosen /\ listed[i].size \in Nat /\ listed[i].size <= Limit("size")
    <3>1. listed[i] \in Listings /\ listed[i].size <= Limit("size")
      BY DEF ReadInv, Listing
    <3>2. QED
      BY <3>1 DEF Listings
  <2>2. job.limits \in [LimitKinds -> Nat] /\ Default \in [LimitKinds -> Nat]
    <3>1. job \in Jobs
      BY DEF ReadInv, Shape
    <3>2. QED
      BY <3>1, JobsAssumption, UnpackAssumption, Zenon
  <2>3. Limit("size") \in {Default["size"], job.limits["size"]}
    BY DEF Limit
  <2>4. Default["size"] \in Nat /\ job.limits["size"] \in Nat
    BY <2>2 DEF LimitKinds
  <2>5. QED
    BY <2>1, <2>3, <2>4
<1>2. QED
  BY <1>1 DEF ReadInv, Shape, WithinLimits, Position, TypeOK

\* The types; and no component takes more than its limits while it is read, by the scan, by
\* the extraction and by Verify (archive.Scan, archive.ExtractContext, verifyComponentDeep).
THEOREM ReadsWithinLimits == Spec => []TypeOK
<1>1. QED
  BY ReadStart, ReadStep, ReadIsTyped, PTL DEF Spec
------------------------------------------------------------------------------
(***************************************************************************)
(* What a call that may yet succeed has read.  A stream that is not the    *)
(* content its descriptor names ends in a failure, or for Verify in an     *)
(* issue; so what is said of a call is said while it goes on with what is  *)
(* named (Going), and the steps that keep it so are few (Advances).        *)
(***************************************************************************)

Going ==
  /\ Ended => failure = "none"
  /\ status \in {"reading", "writing"} => Genuine
  /\ phase = "verify" => report = {}

Opening ==
  /\ AtLayer /\ blob[Opened].kind = "tar"
  /\ phase = "extract" => DirectoryPath(<<>>)
  /\ dest' = IF phase = "extract" THEN WithDirectories(<<>>) ELSE dest
  /\ status' = "reading" /\ stream' = blob[Opened]
  /\ UNCHANGED <<job, blob, alters, phase, at, next, total, listed, report, failure>>

Counting ==
  /\ phase # "extract" /\ AtEntry /\ ~Over /\ ~Cut /\ ~Invalid(Entry)
  /\ ListEntry /\ PassEntry /\ UNCHANGED <<dest, report>>

Creating ==
  /\ phase = "extract" /\ AtEntry /\ ~Invalid(Entry) /\ ~OverNow
  /\ DirectoryPath(Front(Goal)) /\ SafeTarget(Goal)
  /\ status' = "writing"
  /\ dest' = [WithDirectories(Front(Goal)) EXCEPT ![Goal] = File(Entry.data, FALSE)]
  /\ UNCHANGED <<job, blob, alters, phase, layerVars, listed, report, failure>>

Leaving ==
  /\ status = "reading" /\ next \notin DOMAIN stream.entries
  /\ stream.end = "eof" /\ ~TailOver /\ Genuine
  /\ Leave /\ UNCHANGED <<listed, report>>

Turning ==
  /\ phase = "scan" /\ AllRead /\ job.op = "extract" /\ ~Unmatched /\ ~Collision(Listed)
  /\ phase' = "extract"
  /\ \E i : Following(1, i) /\ at' = i
  /\ UNCHANGED <<job, blob, alters, dest, status, stream, next, total, listed, report, failure>>

Ending ==
  /\ AllRead /\ Ended' /\ failure' = "none"
  /\ phase = "scan" => ~Unmatched /\ job.op \in {"list", "diff"}
  /\ phase = "verify" => EndVerify
  /\ phase = "scan" /\ job.op = "diff" => EndDiff
  /\ UNCHANGED <<job, blob, alters, dest, phase, layerVars, listed>>

Idling ==
  /\ UNCHANGED <<job, dest, phase, status, layerVars, listed, report, failure>>
  /\ DOMAIN blob' = DOMAIN blob
  /\ (alters' < MaxAlters \/ UNCHANGED <<blob, alters>>)

LEMMA FailureStops ==
  ASSUME NEW why, why # "none", Fail(why) \/ Stop(why)
  PROVE  ~Going'
BY DEF Fail, Stop, Going, Ended

LEMMA TroubleStops ==
  ASSUME NEW why, why # "none", Trouble(why)
  PROVE  ~Going'
<1>1. CASE Fail(why)
  BY <1>1, FailureStops
<1>2. CASE phase = "verify" /\ Leave /\ report' = report \cup {why}
  BY <1>2 DEF Leave, Going
<1>3. QED
  BY <1>1, <1>2 DEF Trouble

LEMMA Advances ==
  ASSUME DestinationInv, ReadInv, [Next]_vars, Going'
  PROVE  Opening \/ Counting \/ Creating \/ WriteFile \/ Leaving \/ Turning \/ Ending \/ Idling
<1>1. \A why : why # "none" => ~Trouble(why) /\ ~Fail(why) /\ ~Stop(why)
  BY FailureStops, TroubleStops
<1>2. CASE OpenLayer
  BY <1>1, <1>2 DEF OpenLayer, Opening
<1>3. CASE ScanEntry
  BY <1>1, <1>3 DEF ScanEntry, Counting
<1>4. CASE VerifyEntry
  <2>1. ASSUME ~Counting PROVE FALSE
    <3>1. report' = report \cup {"entry"} /\ phase = "verify" /\ phase' = phase
      BY <1>1, <1>4, <2>1 DEF VerifyEntry, Counting, PassEntry
    <3>2. QED
      BY <3>1 DEF Going
  <2>2. QED
    BY <2>1
<1>5. CASE CreateFile
  BY <1>1, <1>5 DEF CreateFile, Creating
<1>6. CASE WriteFile
  BY <1>6
<1>7. CASE CopyFails \/ CloseFails \/ FindMismatch \/ ReadFails \/ Cancel
  BY <1>1, <1>7 DEF CopyFails, CloseFails, FindMismatch, ReadFails, Cancel
<1>8. CASE EndLayer
  BY <1>1, <1>8 DEF EndLayer, Leaving
<1>9. CASE EndScan
  <2>1. CASE Fail("none")
    BY <1>1, <1>9, <2>1, JobsAssumption DEF EndScan, Ending, Fail, Stop, Ended, ReadInv, Shape
  <2>2. CASE ~\E why : Fail(why)
    BY <1>9, <2>2 DEF EndScan, Turning
  <2>3. QED
    BY <1>1, <2>1, <2>2
<1>10. CASE EndExtract
  BY <1>10 DEF EndExtract, Ending, Fail, Stop, Ended
<1>11. CASE EndDiff
  <2>1. failure = "none"
    BY <1>11 DEF EndDiff, AllRead, DestinationInv, Typing, Ended
  <2>2. QED
    BY <1>1, <1>11, <2>1 DEF EndDiff, Ending, Ended
<1>12. CASE EndVerify
  <2>1. failure = "none"
    BY <1>12 DEF EndVerify, AllRead, DestinationInv, Typing, Ended
  <2>2. QED
    BY <1>12, <2>1 DEF EndVerify, Ending, Ended
<1>13. CASE \E i \in DOMAIN Layers : Alter(i)
  BY <1>13, AlterTyped DEF Idling
<1>14. CASE UNCHANGED vars
  BY <1>14 DEF vars, Idling
<1>15. QED
  BY <1>2, <1>3, <1>4, <1>5, <1>6, <1>7, <1>8, <1>9, <1>10, <1>11, <1>12, <1>13, <1>14
     DEF Next, Step, Done

\* A call that goes on has gone on.
LEMMA WasGoing ==
  ASSUME DestinationInv, ReadInv, [Next]_vars, Going'
  PROVE  Going
<1>1. UNCHANGED job
  BY Advances DEF Opening, Counting, Creating, WriteFile, Leaving, Turning, Ending, Idling,
     PassEntry, Leave
<1>2. \A i : Named(i)' = Named(i)
  BY <1>1, JobStays
<1>3. CASE Opening \/ Turning \/ Ending
  <2>1. status = "opening"
    BY <1>3 DEF Opening, Turning, Ending, AtLayer, AllRead
  <2>2. phase = "verify" => report = {}
    BY <1>3 DEF Opening, Turning, Ending, EndVerify, Going
  <2>3. QED
    BY <2>1, <2>2 DEF Going, Ended
<1>4. CASE Counting \/ Creating \/ WriteFile
  <2>1. /\ status \in {"reading", "writing"} /\ status' \in {"reading", "writing"}
        /\ UNCHANGED <<stream, at, phase, report>>
    BY <1>4 DEF Counting, Creating, WriteFile, AtEntry, PassEntry, layerVars
  <2>2. QED
    BY <1>2, <2>1 DEF Going, Genuine, Ended
<1>5. CASE Leaving
  BY <1>5 DEF Leaving, Going, Ended, Leave
<1>6. CASE Idling
  BY <1>2, <1>6 DEF Idling, Going, Genuine, Ended, layerVars
<1>7. QED
  BY <1>3, <1>4, <1>5, <1>6, Advances

------------------------------------------------------------------------------
\* The entries that the present reading has passed, by the descriptors.
Behind == {h \in Held : h[1] < at \/ (h[1] = at /\ h[2] < next)}

LEMMA WhatIsHeld ==
  ASSUME NEW h
  PROVE  h \in Held <=> \E k \in Chosen : /\ Named(k).kind = "tar"
                                          /\ \E i \in DOMAIN Named(k).entries : h = <<k, i>>
BY DEF Held

LEMMA HeldIsTyped ==
  ASSUME job \in Jobs, NEW h \in Held
  PROVE  /\ h[1] \in Chosen /\ h[1] \in Nat /\ h[1] <= Len(Layers)
         /\ h[2] \in DOMAIN Named(h[1]).entries /\ h[2] \in Nat \ {0} /\ h = <<h[1], h[2]>>
         /\ Named(h[1]).kind = "tar" /\ IsContent(Named(h[1]))
         /\ HeldEntry(h) \in Entries
<1>1. PICK k \in Chosen : Named(k).kind = "tar" /\ \E i \in DOMAIN Named(k).entries : h = <<k, i>>
  BY WhatIsHeld
<1>2. PICK i \in DOMAIN Named(k).entries : h = <<k, i>>
  BY <1>1
<1>3. k \in DOMAIN Layers /\ IsContent(Named(k))
  BY NamedIsContent
<1>4. Named(k).entries \in Seq(Entries)
  BY <1>1, <1>3, ContentTyped
<1>5. i \in Nat \ {0} /\ Named(k).entries[i] \in Entries
  BY <1>2, <1>4
<1>6. k \in Nat /\ k <= Len(Layers)
  BY <1>3, LayersTyped
<1>7. HeldEntry(h) = Named(k).entries[i]
  BY <1>2 DEF HeldEntry
<1>8. QED
  BY <1>1, <1>2, <1>3, <1>5, <1>6, <1>7

LEMMA HeldStays ==
  ASSUME UNCHANGED job
  PROVE  Held' = Held /\ \A h : HeldEntry(h)' = HeldEntry(h)
<1>1. Chosen' = Chosen /\ \A i : Named(i)' = Named(i)
  BY JobStays
<1>2. QED
  BY <1>1 DEF Held, HeldEntry

LEMMA BehindStays ==
  ASSUME UNCHANGED <<job, at, next>>
  PROVE  Behind' = Behind
BY HeldStays DEF Behind

LEMMA BehindAtFirst ==
  ASSUME job \in Jobs, NEW i, Following(1, i)
  PROVE  \A h \in Held : ~(h[1] < i) /\ h[1] >= i
<1> TAKE h \in Held
<1>1. h[1] \in Chosen /\ h[1] \in Nat /\ h[1] >= 1
  BY HeldIsTyped, LayersTyped DEF Chosen, Selected
<1>2. Len(Layers) \in Nat
  BY LayersTyped
<1>3. i \in 1..(Len(Layers) + 1) /\ \A k \in 1..(i - 1) : k \notin Chosen
  BY DEF Following
<1>4. QED
  BY <1>1, <1>2, <1>3

LEMMA BehindAtLast ==
  ASSUME ReadInv, at \notin DOMAIN Layers
  PROVE  Behind = Held
<1>1. job \in Jobs /\ at = Len(Layers) + 1
  BY NotPastTheLayers DEF ReadInv, Shape, Position
<1>2. \A h \in Held : h[1] < at
  <2> TAKE h \in Held
  <2>1. h[1] \in Nat /\ h[1] <= Len(Layers) /\ Len(Layers) \in Nat
    BY <1>1, HeldIsTyped, LayersTyped
  <2>2. QED
    BY <1>1, <2>1
<1>3. QED
  BY <1>2 DEF Behind

\* Passing an entry of what is named puts it behind.
LEMMA BehindPassed ==
  ASSUME ReadInv, status \in {"reading", "writing"}, Genuine, PassEntry,
         next \in DOMAIN stream.entries
  PROVE  /\ <<at, next>> \in Held /\ <<at, next>> \notin Behind
         /\ HeldEntry(<<at, next>>) = Entry
         /\ Behind' = Behind \cup {<<at, next>>}
<1>1. job \in Jobs /\ at \in Chosen /\ Named(at) = stream /\ stream.kind = "tar"
  BY DEF ReadInv, Shape, Position, Genuine
<1>2. <<at, next>> \in Held /\ HeldEntry(<<at, next>>) = Entry
  BY <1>1, WhatIsHeld DEF HeldEntry, Entry
<1>3. at \in Nat /\ next \in Nat
  BY <1>1, <1>2, HeldIsTyped
<1>4. UNCHANGED <<job, at>> /\ next' = next + 1
  BY DEF PassEntry
<1>5. Behind' = {h \in Held : h[1] < at \/ (h[1] = at /\ h[2] < next + 1)}
  BY <1>4, HeldStays DEF Behind
<1>6. \A h \in Held : h[2] \in Nat /\ h = <<h[1], h[2]>>
  BY <1>1, HeldIsTyped
<1>7. <<at, next>> \notin Behind
  BY <1>3 DEF Behind
<1>8. ASSUME NEW h \in Held
      PROVE  (h[1] < at \/ (h[1] = at /\ h[2] < next + 1)) <=> (h \in Behind \/ h = <<at, next>>)
  BY <1>3, <1>6 DEF Behind
<1>9. Behind \subseteq Held
  BY DEF Behind
<1>10. Behind' = Behind \cup {<<at, next>>}
  BY <1>2, <1>5, <1>8, <1>9
<1>11. QED
  BY <1>2, <1>7, <1>10

\* Leaving a layer whose entries are all passed leaves nothing else out.
LEMMA BehindLeft ==
  ASSUME ReadInv, Leaving
  PROVE  Behind' = Behind
<1>1. job \in Jobs /\ at \in Chosen /\ Named(at) = stream /\ stream.kind = "tar"
      /\ next \in 1..(Len(stream.entries) + 1) /\ next \notin DOMAIN stream.entries
  BY DEF ReadInv, Shape, Position, Genuine, Leaving
<1>2. stream.entries \in Seq(Entries)
  BY <1>1, ContentTyped DEF ReadInv, Position
<1>3. next = Len(stream.entries) + 1 /\ next \in Nat
  BY <1>1, <1>2
<1>4. UNCHANGED job /\ next' = 1 /\ Following(at + 1, at')
  BY DEF Leaving, Leave
<1>5. at \in Nat /\ Len(Layers) \in Nat
  BY <1>1, LayersTyped, NotPastTheLayers
<1>6. at' \in (at + 1)..(Len(Layers) + 1) /\ \A k \in (at + 1)..(at' - 1) : k \notin Chosen
  BY <1>4 DEF Following
<1>7. ASSUME NEW h \in Held
      PROVE  (h[1] < at' \/ (h[1] = at' /\ h[2] < 1)) <=> (h[1] < at \/ (h[1] = at /\ h[2] < next))
  <2>1. h[1] \in Chosen /\ h[1] \in Nat /\ h[2] \in Nat \ {0} /\ h[2] \in DOMAIN Named(h[1]).entries
    BY <1>1, HeldIsTyped
  <2>2. h[1] = at => h[2] < next
    BY <1>1, <1>2, <1>3, <2>1
  <2>3. ASSUME h[1] < at' PROVE h[1] <= at
    <3>1. at' \in Nat
      BY <1>5, <1>6
    <3>2. h[1] > at => h[1] \in (at + 1)..(at' - 1)
      BY <1>5, <2>1, <2>3, <3>1
    <3>3. ~(h[1] > at)
      BY <1>6, <2>1, <3>2, Zenon
    <3>4. QED
      BY <1>5, <2>1, <3>3
  <2>4. at' \in Nat /\ at < at'
    BY <1>5, <1>6
  <2>5. CASE h[1] = at
    BY <2>1, <2>2, <2>4, <2>5, <1>5
  <2>6. CASE h[1] # at
    BY <2>1, <2>3, <2>4, <2>6, <1>5
  <2>7. QED
    BY <2>5, <2>6
<1>8. Behind' = {h \in Held : h[1] < at' \/ (h[1] = at' /\ h[2] < 1)}
  BY <1>4, HeldStays DEF Behind
<1>9. QED
  BY <1>7, <1>8 DEF Behind

------------------------------------------------------------------------------
(***************************************************************************)
(* What is listed are the entries passed, each once, those of a layer in   *)
(* their order.                                                            *)
(***************************************************************************)

Record(h) == [layer |-> h[1], path |-> HeldEntry(h).path,
              size |-> HeldEntry(h).size, data |-> HeldEntry(h).data]

Passed == IF phase = "extract" THEN Held ELSE Behind

\* f[i] is the entry that listed[i] records.
Records(f) ==
  /\ f \in [DOMAIN listed -> Passed]
  /\ \A i, j \in DOMAIN listed : f[i] = f[j] => i = j
  /\ \A h \in Passed : \E i \in DOMAIN listed : f[i] = h
  /\ \A i \in DOMAIN listed : listed[i] = Record(f[i])
  /\ \A i, j \in DOMAIN listed : i < j /\ f[i][1] = f[j][1] => f[i][2] < f[j][2]

Counted == Going => \E f : Records(f)

Outcome ==
  Going =>
    /\ phase = "extract" => job.op = "extract" /\ ~Unmatched /\ ~Collision(Listed)
    /\ Ended => /\ at \notin DOMAIN Layers
                /\ phase # "verify" => ~Unmatched
                /\ job.op = "extract" => phase = "extract"

LEMMA RecordStays ==
  ASSUME UNCHANGED job
  PROVE  \A h : Record(h)' = Record(h)
BY HeldStays DEF Record

LEMMA RecordsKept ==
  ASSUME UNCHANGED <<job, listed>>, Passed' = Passed, NEW f, Records(f)
  PROVE  Records(f)'
<1>1. \A h : Record(h)' = Record(h)
  BY RecordStays
<1>2. QED
  BY <1>1 DEF Records

LEMMA CountedStart == Init => Counted /\ Outcome
<1> SUFFICES ASSUME Init PROVE Counted /\ Outcome
  OBVIOUS
<1>1. listed = <<>> /\ next = 1 /\ job \in Jobs /\ phase # "extract" /\ status = "opening"
  BY DEF Init
<1>2. Behind = {}
  <2>1. Following(1, at)
    BY DEF Init
  <2>2. \A h \in Held : ~(h[1] < at) /\ h[2] \in Nat \ {0}
    BY <1>1, <2>1, BehindAtFirst, HeldIsTyped
  <2>3. QED
    BY <1>1, <2>2 DEF Behind
<1>3. Records(<<>>)
  BY <1>1, <1>2 DEF Records, Passed
<1>4. QED
  BY <1>1, <1>3 DEF Counted, Outcome, Ended

LEMMA CountedByOne ==
  ASSUME ReadInv, Going, Counting, NEW f, Records(f)
  PROVE  \E g : Records(g)'
<1>1. AtEntry /\ phase # "extract" /\ ListEntry /\ PassEntry /\ Genuine
  BY DEF Counting, AtEntry, Going
<1>2. /\ <<at, next>> \in Held /\ <<at, next>> \notin Behind
      /\ HeldEntry(<<at, next>>) = Entry
      /\ Behind' = Behind \cup {<<at, next>>}
  BY <1>1, BehindPassed DEF AtEntry
<1>3. Passed = Behind /\ Passed' = Behind \cup {<<at, next>>}
  BY <1>1, <1>2 DEF Passed, PassEntry
<1> DEFINE new == Record(<<at, next>>)
           n == Len(listed) + 1
           g == [i \in 1..n |-> IF i = n THEN <<at, next>> ELSE f[i]]
<1>4. listed' = Append(listed, new)
  BY <1>1, <1>2 DEF ListEntry, Record
<1>5. listed \in Seq(Listings)
  BY DEF ReadInv, Listing
<1>6. \A h : Record(h)' = Record(h)
  BY <1>1, RecordStays DEF PassEntry
<1> HIDE DEF new
<1>7. /\ DOMAIN listed' = 1..n /\ DOMAIN listed = 1..(n - 1) /\ n \in Nat \ {0}
      /\ \A i \in 1..(n - 1) : listed'[i] = listed[i]
      /\ listed'[n] = new
  BY <1>4, <1>5
<1> HIDE DEF n
<1>8. /\ \A i \in 1..(n - 1) : f[i] \in Behind /\ listed[i] = Record(f[i])
      /\ \A i, j \in 1..(n - 1) : f[i] = f[j] => i = j
      /\ \A h \in Behind : \E i \in 1..(n - 1) : f[i] = h
      /\ \A i, j \in 1..(n - 1) : i < j /\ f[i][1] = f[j][1] => f[i][2] < f[j][2]
  BY <1>3, <1>7 DEF Records
<1>9. g[n] = <<at, next>> /\ \A i \in 1..n : i # n => i \in 1..(n - 1) /\ g[i] = f[i]
  BY <1>7
<1>10. g \in [1..n -> Behind \cup {<<at, next>>}]
  BY <1>7, <1>8
<1>11. ASSUME NEW i \in 1..n, NEW j \in 1..n, g[i] = g[j] PROVE i = j
  BY <1>2, <1>8, <1>9, <1>11
<1>12. ASSUME NEW h \in Behind \cup {<<at, next>>} PROVE \E i \in 1..n : g[i] = h
  <2>1. CASE h = <<at, next>>
    BY <1>7, <1>9, <2>1
  <2>2. CASE h \in Behind
    <3>1. PICK i \in 1..(n - 1) : f[i] = h
      BY <1>8, <2>2
    <3>2. i \in 1..n /\ i # n
      BY <1>7, <3>1
    <3>3. QED
      BY <1>9, <3>1, <3>2
  <2>3. QED
    BY <2>1, <2>2
<1>13. ASSUME NEW i \in 1..n PROVE listed'[i] = Record(g[i])
  BY <1>7, <1>8, <1>9 DEF new
<1>14. ASSUME NEW i \in 1..n, NEW j \in 1..n, i < j, g[i][1] = g[j][1] PROVE g[i][2] < g[j][2]
  <2>1. i \in 1..(n - 1) /\ i # n /\ g[i] = f[i] /\ f[i] \in Behind
    BY <1>7, <1>8, <1>9, <1>14
  <2>2. CASE j = n
    <3>1. f[i][1] = at
      BY <1>9, <1>14, <2>1, <2>2
    <3>2. f[i][2] < next
      <4>1. at \in Nat
        BY <1>2, HeldIsTyped DEF ReadInv, Shape
      <4>2. QED
        BY <2>1, <3>1, <4>1 DEF Behind
    <3>3. QED
      BY <1>9, <2>1, <2>2, <3>2
  <2>3. CASE j # n
    BY <1>8, <1>9, <1>14, <2>1, <2>3
  <2>4. QED
    BY <2>2, <2>3
<1> HIDE DEF g
<1>15. PICK c : c = g
  OBVIOUS
<1>16. Records(c)'
  BY <1>3, <1>6, <1>7, <1>10, <1>11, <1>12, <1>13, <1>14, <1>15 DEF Records
<1>17. QED
  BY <1>16

LEMMA CountedStep ==
  ASSUME DestinationInv, ReadInv, Counted, Outcome, [Next]_vars
  PROVE  Counted'
<1> SUFFICES ASSUME Going' PROVE \E g : Records(g)'
  BY DEF Counted
<1>1. PICK f : Records(f)
  BY WasGoing DEF Counted
<1>2. CASE Opening \/ Creating \/ Ending \/ Idling
  <2>1. UNCHANGED <<job, phase, listed, at, next>>
    BY <1>2 DEF Opening, Creating, Ending, Idling, layerVars
  <2>2. Passed' = Passed
    BY <2>1, HeldStays, BehindStays DEF Passed
  <2>3. QED
    BY <1>1, <2>1, <2>2, RecordsKept
<1>3. CASE Counting
  BY <1>1, <1>3, WasGoing, CountedByOne
<1>4. CASE WriteFile
  <2>1. UNCHANGED <<job, phase, listed>> /\ phase = "extract"
    BY <1>4 DEF WriteFile, PassEntry, ReadInv, Position
  <2>2. Passed' = Passed
    BY <2>1, HeldStays DEF Passed
  <2>3. QED
    BY <1>1, <2>1, <2>2, RecordsKept
<1>5. CASE Leaving
  <2>1. UNCHANGED <<job, phase, listed>>
    BY <1>5 DEF Leaving, Leave
  <2>2. Passed' = Passed
    BY <1>5, <2>1, HeldStays, BehindLeft DEF Passed
  <2>3. QED
    BY <1>1, <2>1, <2>2, RecordsKept
<1>6. CASE Turning
  <2>1. UNCHANGED <<job, listed>> /\ phase = "scan" /\ phase' = "extract" /\ at \notin DOMAIN Layers
    BY <1>6 DEF Turning, AllRead
  <2>2. Passed' = Passed
    BY <2>1, HeldStays, BehindAtLast DEF Passed
  <2>3. QED
    BY <1>1, <2>1, <2>2, RecordsKept
<1>7. QED
  BY <1>2, <1>3, <1>4, <1>5, <1>6, Advances

LEMMA OutcomeStays ==
  ASSUME UNCHANGED <<job, listed>>
  PROVE  Unmatched' = Unmatched /\ Layers' = Layers /\ Collision(Listed)' = Collision(Listed)
<1>1. Selected' = Selected /\ Layers' = Layers
  BY DEF Selected, Layers, Typed
<1>2. Listed' = Listed
  BY DEF Listed
<1>3. QED
  BY <1>1, <1>2 DEF Unmatched

LEMMA OutcomeStep ==
  ASSUME DestinationInv, ReadInv, Outcome, [Next]_vars
  PROVE  Outcome'
<1> SUFFICES ASSUME Going'
             PROVE  (/\ phase = "extract" => job.op = "extract" /\ ~Unmatched /\ ~Collision(Listed)
                     /\ Ended => /\ at \notin DOMAIN Layers
                                 /\ phase # "verify" => ~Unmatched
                                 /\ job.op = "extract" => phase = "extract")'
  BY DEF Outcome
<1>1. /\ phase = "extract" => job.op = "extract" /\ ~Unmatched /\ ~Collision(Listed)
      /\ Ended => /\ at \notin DOMAIN Layers
                  /\ phase # "verify" => ~Unmatched
                  /\ job.op = "extract" => phase = "extract"
  BY WasGoing DEF Outcome
<1>2. CASE Opening \/ Creating \/ WriteFile \/ Leaving
  <2>1. UNCHANGED <<job, phase, listed>> /\ ~Ended'
    BY <1>2 DEF Opening, Creating, WriteFile, Leaving, Leave, PassEntry, Ended
  <2>2. QED
    BY <1>1, <2>1, OutcomeStays
<1>3. CASE Counting
  BY <1>3 DEF Counting, PassEntry, Ended
<1>4. CASE Turning
  <2>1. UNCHANGED <<job, listed>> /\ ~Ended' /\ job.op = "extract" /\ ~Unmatched /\ ~Collision(Listed)
    BY <1>4 DEF Turning, AllRead, Ended
  <2>2. QED
    BY <2>1, OutcomeStays
<1>5. CASE Ending
  <2>1. /\ UNCHANGED <<job, listed, phase, at>> /\ at \notin DOMAIN Layers
        /\ phase = "scan" => ~Unmatched /\ job.op # "extract"
    BY <1>5 DEF Ending, AllRead, layerVars
  <2>2. phase = "verify" => job.op # "extract"
    BY DEF ReadInv, Shape
  <2>3. phase \in {"scan", "extract", "verify"}
    BY DEF ReadInv, Shape
  <2>4. Unmatched' = Unmatched /\ Layers' = Layers /\ Collision(Listed)' = Collision(Listed)
    BY <2>1, OutcomeStays
  <2>5. phase = "extract" => job.op = "extract" /\ ~Unmatched /\ ~Collision(Listed)
    BY <1>1
  <2>6. phase # "verify" => ~Unmatched
    BY <2>1, <2>3, <2>5
  <2>7. job.op = "extract" => phase = "extract"
    BY <2>1, <2>2, <2>3
  <2>8. QED
    BY <2>1, <2>4, <2>5, <2>6, <2>7
<1>6. CASE Idling
  BY <1>1, <1>6, OutcomeStays DEF Idling, Ended, layerVars
<1>7. QED
  BY <1>2, <1>3, <1>4, <1>5, <1>6, Advances

------------------------------------------------------------------------------
(***************************************************************************)
(* Paths and places.                                                       *)
(***************************************************************************)

PlaceOf(h) == Place(HeldEntry(h).path)

LEMMA PlacesAreClosed ==
  ASSUME NEW p \in Places
  PROVE  /\ p \in Seq(Names) /\ Folded(p) \in Places /\ Place(p) \in Places
         /\ Prefixes(p) \subseteq Places
BY UnpackAssumption DEF Path, Place

LEMMA FoldedLength ==
  ASSUME NEW p \in Seq(Names), Folded(p) \in Seq(Names)
  PROVE  Len(Folded(p)) = Len(p) /\ \A i \in 1..Len(p) : Folded(p)[i] = Lower[p[i]]
BY DEF Folded

LEMMA PrefixesOfPath ==
  ASSUME NEW p \in Seq(Names)
  PROVE  /\ p \in Prefixes(p) /\ <<>> \in Prefixes(p)
         /\ p = <<>> => Prefixes(p) = {<<>>}
         /\ p # <<>> => Prefixes(Front(p)) = Prefixes(p) \ {p}
<1>1. SubSeq(p, 1, Len(p)) = p /\ SubSeq(p, 1, 0) = <<>> /\ Len(p) \in Nat
  OBVIOUS
<1>2. p \in Prefixes(p) /\ <<>> \in Prefixes(p)
  <2>1. Len(p) \in 0..Len(p) /\ 0 \in 0..Len(p)
    BY <1>1
  <2>2. QED
    BY <1>1, <2>1, Zenon DEF Prefixes
<1>3. ASSUME p = <<>> PROVE Prefixes(p) = {<<>>}
  <2>1. Len(p) = 0 /\ 0..0 = {0} /\ SubSeq(p, 1, 0) = <<>>
    BY <1>3
  <2>2. Prefixes(p) = {SubSeq(p, 1, l) : l \in {0}}
    BY <2>1 DEF Prefixes
  <2>3. QED
    BY <1>3, <2>1, <2>2
<1>4. ASSUME p # <<>> PROVE Prefixes(Front(p)) = Prefixes(p) \ {p}
  <2> DEFINE m == Len(p) - 1
             f == Front(p)
  <2>1. m \in Nat /\ Len(p) = m + 1
    BY <1>1, <1>4
  <2>2. f \in Seq(Names) /\ Len(f) = m /\ \A i \in 1..m : f[i] = p[i]
    BY <2>1 DEF Front
  <2>3. \A l \in 0..m : SubSeq(f, 1, l) = SubSeq(p, 1, l)
    <3> TAKE l \in 0..m
    <3>1. SubSeq(f, 1, l) \in Seq(Names) /\ SubSeq(p, 1, l) \in Seq(Names)
          /\ Len(SubSeq(f, 1, l)) = l /\ Len(SubSeq(p, 1, l)) = l
      BY <2>1, <2>2
    <3>2. \A i \in 1..l : SubSeq(f, 1, l)[i] = SubSeq(p, 1, l)[i]
      BY <2>1, <2>2
    <3>3. QED
      BY <3>1, <3>2
  <2>4. \A l \in 0..m : SubSeq(p, 1, l) # p
    <3> TAKE l \in 0..m
    <3>1. l \in Nat /\ l <= m
      BY <2>1
    <3> HIDE DEF m
    <3>0. l <= Len(p) /\ l # Len(p)
      BY <2>1, <3>1
    <3>2. Len(SubSeq(p, 1, l)) = l
      BY <3>0, <3>1
    <3>3. QED
      BY <3>0, <3>2
  <2>5. Prefixes(p) = {SubSeq(p, 1, l) : l \in 0..(m + 1)} /\ SubSeq(p, 1, m + 1) = p
    BY <1>1, <2>1 DEF Prefixes
  <2>6. Prefixes(f) = {SubSeq(f, 1, l) : l \in 0..m}
    BY <2>2 DEF Prefixes
  <2>7. \A l : l \in 0..(m + 1) <=> (l \in 0..m \/ l = m + 1)
    BY <2>1
  <2> HIDE DEF m, f
  <2>8. Prefixes(f) = Prefixes(p) \ {p}
    BY <2>3, <2>4, <2>5, <2>6, <2>7
  <2>9. QED
    BY <2>8 DEF f
<1>5. QED
  BY <1>2, <1>3, <1>4

LEMMA PrefixIsFolded ==
  ASSUME NEW p \in Places, NEW q \in Places, Place(p) \in Prefixes(Place(q))
  PROVE  IsPrefix(Folded(p), Folded(q))
<1>1. /\ p \in Seq(Names) /\ q \in Seq(Names)
      /\ Folded(p) \in Seq(Names) /\ Folded(q) \in Seq(Names)
  BY PlacesAreClosed
<1>2. CASE job.folds
  <2>1. PICK l \in 0..Len(Folded(q)) : Folded(p) = SubSeq(Folded(q), 1, l)
    BY <1>2 DEF Place, Prefixes
  <2>2. Len(Folded(p)) = l /\ l <= Len(Folded(q))
    BY <1>1, <2>1
  <2>3. SubSeq(Folded(p), 1, Len(Folded(p))) = Folded(p)
    BY <1>1
  <2>4. QED
    BY <2>1, <2>2, <2>3 DEF IsPrefix
<1>3. CASE ~job.folds
  <2>1. PICK l \in 0..Len(q) : p = SubSeq(q, 1, l)
    BY <1>3 DEF Place, Prefixes
  <2>2. l \in Nat /\ Len(p) = l /\ l <= Len(q) /\ \A i \in 1..l : p[i] = q[i]
    BY <1>1, <2>1
  <2>3. /\ Len(Folded(p)) = l /\ Len(Folded(q)) = Len(q)
        /\ \A i \in 1..l : Folded(p)[i] = Folded(q)[i]
    BY <1>1, <2>2, FoldedLength
  <2>4. SubSeq(Folded(p), 1, l) = SubSeq(Folded(q), 1, l)
    <3> DEFINE x == Folded(p)
               y == Folded(q)
    <3>1. x \in Seq(Names) /\ y \in Seq(Names) /\ Len(x) = l /\ l <= Len(y)
          /\ \A i \in 1..l : x[i] = y[i]
      BY <1>1, <2>2, <2>3
    <3> HIDE DEF x, y
    <3>2. SubSeq(x, 1, l) \in Seq(Names) /\ SubSeq(y, 1, l) \in Seq(Names)
          /\ Len(SubSeq(x, 1, l)) = l /\ Len(SubSeq(y, 1, l)) = l
      BY <2>2, <3>1
    <3>3. \A i \in 1..l : SubSeq(x, 1, l)[i] = SubSeq(y, 1, l)[i]
      BY <2>2, <3>1
    <3>4. QED
      BY <3>2, <3>3 DEF x, y
  <2>5. QED
    BY <2>2, <2>3, <2>4 DEF IsPrefix
<1>4. QED
  BY <1>2, <1>3

LEMMA PlaceIsBelow ==
  ASSUME NEW p \in Places, p # <<>>
  PROVE  Place(p) # <<>>
<1>1. p \in Seq(Names) /\ Folded(p) \in Seq(Names)
  BY PlacesAreClosed
<1>2. Len(p) # 0 /\ Len(Folded(p)) = Len(p)
  BY <1>1, FoldedLength
<1>3. Folded(p) # <<>>
  BY <1>1, <1>2
<1>4. QED
  BY <1>3 DEF Place

LEMMA PlaceOfHeld ==
  ASSUME job \in Jobs, NEW h \in Held
  PROVE  HeldEntry(h).path \in Places /\ PlaceOf(h) \in Places
<1>1. HeldEntry(h).path \in Places
  BY HeldIsTyped DEF Entries
<1>2. QED
  BY <1>1, PlacesAreClosed DEF PlaceOf

\* Where nothing collides, no entry stands at or above another's place.
LEMMA PlacesApart ==
  ASSUME job \in Jobs, ~Collision(HeldPaths), NEW h \in Held, NEW g \in Held, h # g
  PROVE  PlaceOf(h) \notin Prefixes(PlaceOf(g))
<1> SUFFICES ASSUME PlaceOf(h) \in Prefixes(PlaceOf(g)) PROVE FALSE
  OBVIOUS
<1>1. IsPrefix(Folded(HeldEntry(h).path), Folded(HeldEntry(g).path))
  BY PlaceOfHeld, PrefixIsFolded DEF PlaceOf
<1>2. DOMAIN HeldPaths = Held /\ HeldPaths[h] = {HeldEntry(h).path}
      /\ HeldPaths[g] = {HeldEntry(g).path}
  BY DEF HeldPaths
<1>3. <<h, HeldEntry(h).path>> # <<g, HeldEntry(g).path>>
  OBVIOUS
<1>4. HeldEntry(h).path \in HeldPaths[h] /\ HeldEntry(g).path \in HeldPaths[g]
  BY <1>2
<1>5. QED
  BY <1>1, <1>2, <1>3, <1>4, Zenon DEF Collision

\* The code looks for collisions among what it has listed.
LEMMA CollisionsAreListed ==
  ASSUME ReadInv, NEW f, Records(f), Passed = Held
  PROVE  Collision(Listed) <=> Collision(HeldPaths)
<1>1. /\ f \in [DOMAIN listed -> Held]
      /\ \A i, j \in DOMAIN listed : f[i] = f[j] => i = j
      /\ \A h \in Held : \E i \in DOMAIN listed : f[i] = h
      /\ \A i \in DOMAIN listed : listed[i] = Record(f[i])
  BY DEF Records
<1>2. DOMAIN Listed = DOMAIN listed /\ \A i \in DOMAIN listed : Listed[i] = HeldPaths[f[i]]
  BY <1>1 DEF Listed, HeldPaths, Record
<1>3. DOMAIN HeldPaths = Held
  BY DEF HeldPaths
<1> HIDE DEF Listed, HeldPaths
<1>4. ASSUME Collision(Listed) PROVE Collision(HeldPaths)
  <2>1. PICK i \in DOMAIN listed, j \in DOMAIN listed :
          \E p \in Listed[i], q \in Listed[j] :
            <<i, p>> # <<j, q>> /\ IsPrefix(Folded(p), Folded(q))
    BY <1>2, <1>4, Zenon DEF Collision
  <2>2. PICK p \in HeldPaths[f[i]], q \in HeldPaths[f[j]] :
          <<i, p>> # <<j, q>> /\ IsPrefix(Folded(p), Folded(q))
    BY <1>2, <2>1
  <2>3. <<f[i], p>> # <<f[j], q>> /\ f[i] \in Held /\ f[j] \in Held
    BY <1>1, <2>2
  <2>4. QED
    BY <1>3, <2>2, <2>3, Zenon DEF Collision
<1>5. ASSUME Collision(HeldPaths) PROVE Collision(Listed)
  <2>1. PICK h \in Held, g \in Held :
          \E p \in HeldPaths[h], q \in HeldPaths[g] :
            <<h, p>> # <<g, q>> /\ IsPrefix(Folded(p), Folded(q))
    BY <1>3, <1>5, Zenon DEF Collision
  <2>2. PICK i \in DOMAIN listed, j \in DOMAIN listed : f[i] = h /\ f[j] = g
    BY <1>1
  <2>3. PICK p \in Listed[i], q \in Listed[j] :
          <<h, p>> # <<g, q>> /\ IsPrefix(Folded(p), Folded(q))
    BY <1>2, <2>1, <2>2
  <2>4. <<i, p>> # <<j, q>>
    BY <2>2, <2>3
  <2>5. QED
    BY <1>2, <2>3, <2>4, Zenon DEF Collision
<1>6. QED
  BY <1>4, <1>5

------------------------------------------------------------------------------
(***************************************************************************)
(* What an extraction has written.                                         *)
(***************************************************************************)

Untouched == phase # "extract" => dest = job.before

Written ==
  Going /\ phase = "extract" => \A h \in Behind : dest[PlaceOf(h)] = File(HeldEntry(h).data, TRUE)

\* The entries whose files have been created.
Begun == Behind \cup (IF status = "writing" THEN {<<at, next>>} ELSE {})

OnTheWay(p) == p = <<>> \/ \E h \in Held : p \in Prefixes(PlaceOf(h)) \ {PlaceOf(h)}

Laid ==
  Going /\ phase = "extract" =>
    \A p \in Places : \/ dest[p] = job.before[p]
                      \/ dest[p] = Directory /\ OnTheWay(p)
                      \/ \E h \in Begun : p = PlaceOf(h)

GivingInv == DestinationInv /\ ReadInv /\ Counted /\ Outcome /\ Untouched /\ Written /\ Laid

LEMMA PlaceStays ==
  ASSUME UNCHANGED job
  PROVE  \A h : PlaceOf(h)' = PlaceOf(h)
<1>1. \A p : Place(p)' = Place(p)
  BY DEF Place
<1>2. QED
  BY <1>1, HeldStays DEF PlaceOf

LEMMA NothingCollides ==
  ASSUME ReadInv, Counted, Outcome, Going, phase = "extract"
  PROVE  ~Collision(HeldPaths)
<1>1. PICK f : Records(f)
  BY DEF Counted
<1>2. Passed = Held
  BY DEF Passed
<1>3. QED
  BY <1>1, <1>2, CollisionsAreListed DEF Outcome

LEMMA EntryIsHeld ==
  ASSUME ReadInv, Going, status \in {"reading", "writing"}, next \in DOMAIN stream.entries
  PROVE  /\ <<at, next>> \in Held /\ <<at, next>> \notin Behind
         /\ HeldEntry(<<at, next>>) = Entry /\ Goal = PlaceOf(<<at, next>>) /\ Goal \in Places
<1>1. job \in Jobs /\ at \in Chosen /\ Named(at) = stream /\ stream.kind = "tar"
  BY DEF ReadInv, Shape, Position, Going, Genuine
<1>2. <<at, next>> \in Held /\ HeldEntry(<<at, next>>) = Entry
  BY <1>1, WhatIsHeld DEF HeldEntry, Entry
<1>3. at \in Nat /\ next \in Nat
  BY <1>1, <1>2, HeldIsTyped
<1>4. <<at, next>> \notin Behind
  BY <1>3 DEF Behind
<1>5. Goal = PlaceOf(<<at, next>>)
  BY <1>2 DEF Goal, PlaceOf
<1>6. QED
  BY <1>1, <1>2, <1>4, <1>5, PlaceOfHeld

LEMMA GivingStart == Init => GivingInv
<1> SUFFICES ASSUME Init PROVE GivingInv
  OBVIOUS
<1>1. phase # "extract" /\ dest = job.before
  BY DEF Init
<1>2. QED
  BY <1>1, DestinationStart, ReadStart, CountedStart DEF GivingInv, Untouched, Written, Laid

LEMMA UntouchedStep ==
  ASSUME ReadInv, Untouched, [Next]_vars
  PROVE  Untouched'
<1>1. CASE Step
  <2>1. phase' # "extract" => phase # "extract" /\ UNCHANGED <<job, dest>>
    <3>1. CASE OpenLayer
      BY <3>1 DEF OpenLayer, Trouble, Fail, Stop, Leave
    <3>2. CASE ScanEntry \/ VerifyEntry
      BY <3>2 DEF ScanEntry, VerifyEntry, Trouble, Fail, Stop, Leave, PassEntry
    <3>3. CASE CreateFile
      BY <3>3 DEF CreateFile, Fail, Stop
    <3>4. CASE WriteFile \/ CopyFails \/ CloseFails
      BY <3>4 DEF WriteFile, CopyFails, CloseFails, PassEntry, Fail, Stop, ReadInv, Position
    <3>5. CASE EndLayer \/ FindMismatch \/ ReadFails
      BY <3>5 DEF EndLayer, FindMismatch, ReadFails, Trouble, Fail, Stop, Leave
    <3>6. CASE EndScan \/ EndDiff \/ EndExtract \/ EndVerify \/ Cancel
      BY <3>6 DEF EndScan, EndDiff, EndExtract, EndVerify, Cancel, Fail, Stop
    <3>7. QED
      BY <1>1, <3>1, <3>2, <3>3, <3>4, <3>5, <3>6 DEF Step
  <2>2. QED
    BY <2>1 DEF Untouched
<1>2. CASE (\E i \in DOMAIN Layers : Alter(i)) \/ UNCHANGED vars
  BY <1>2 DEF Alter, Untouched, vars
<1>3. QED
  BY <1>1, <1>2 DEF Next, Done

\* A written place is no directory on the way to another.
LEMMA DirectoriesBeside ==
  ASSUME ReadInv, NEW h \in Held, dest[PlaceOf(h)] = File(HeldEntry(h).data, TRUE),
         NEW p, DirectoryPath(p)
  PROVE  WithDirectories(p)[PlaceOf(h)] = dest[PlaceOf(h)] /\ PlaceOf(h) \notin Prefixes(p)
<1>1. PlaceOf(h) \in Places
  BY PlaceOfHeld DEF ReadInv, Shape
<1>2. dest[PlaceOf(h)].kind = "file"
  <2>1. File(HeldEntry(h).data, TRUE).kind = "file"
    BY DEF File
  <2>2. QED
    BY <2>1
<1>3. PlaceOf(h) \notin Prefixes(p)
  BY <1>2 DEF DirectoryPath
<1>4. QED
  BY <1>1, <1>3 DEF WithDirectories

LEMMA WrittenStep ==
  ASSUME GivingInv, [Next]_vars
  PROVE  Written'
<1> SUFFICES ASSUME Going', phase' = "extract", NEW h \in Behind'
             PROVE  dest'[PlaceOf(h)'] = File(HeldEntry(h)'.data, TRUE)
  BY DEF Written
<1>1. Going /\ ReadInv /\ DestinationInv
  BY WasGoing DEF GivingInv
<1>2. phase = "extract" => \A g \in Behind : dest[PlaceOf(g)] = File(HeldEntry(g).data, TRUE)
  BY <1>1 DEF GivingInv, Written
<1>3. job \in Jobs /\ DOMAIN dest = Places
  BY <1>1 DEF ReadInv, Shape
<1>4. UNCHANGED job
  BY <1>1, Advances DEF Opening, Counting, Creating, WriteFile, Leaving, Turning, Ending, Idling,
     PassEntry, Leave
<1>5. /\ PlaceOf(h)' = PlaceOf(h) /\ HeldEntry(h)' = HeldEntry(h)
      /\ h \in Held
  BY <1>4, PlaceStays, HeldStays DEF Behind
<1>6. PlaceOf(h) \in Places
  BY <1>3, <1>5, PlaceOfHeld
<1>7. CASE Opening
  <2>1. phase = "extract" /\ DirectoryPath(<<>>) /\ dest' = WithDirectories(<<>>) /\ Behind' = Behind
    BY <1>7, BehindStays DEF Opening
  <2>2. dest[PlaceOf(h)] = File(HeldEntry(h).data, TRUE)
    BY <1>2, <2>1
  <2>3. dest'[PlaceOf(h)] = dest[PlaceOf(h)]
    BY <1>1, <1>5, <2>1, <2>2, DirectoriesBeside
  <2>4. QED
    BY <1>5, <2>2, <2>3
<1>8. CASE Creating
  <2>1. /\ phase = "extract" /\ DirectoryPath(Front(Goal))
        /\ dest' = [WithDirectories(Front(Goal)) EXCEPT ![Goal] = File(Entry.data, FALSE)]
        /\ Behind' = Behind
    BY <1>8, BehindStays DEF Creating, layerVars
  <2>2. dest[PlaceOf(h)] = File(HeldEntry(h).data, TRUE)
    BY <1>2, <2>1
  <2>3. WithDirectories(Front(Goal))[PlaceOf(h)] = dest[PlaceOf(h)]
    BY <1>1, <1>5, <2>1, <2>2, DirectoriesBeside
  <2>4. PlaceOf(h) # Goal
    <3>1. <<at, next>> \in Held /\ h # <<at, next>> /\ Goal = PlaceOf(<<at, next>>) /\ Goal \in Places
      BY <1>1, <1>8, <2>1, EntryIsHeld DEF Creating, AtEntry
    <3>2. PlaceOf(h) \notin Prefixes(Goal)
      BY <1>1, <1>3, <1>5, <2>1, <3>1, NothingCollides, PlacesApart DEF GivingInv
    <3>3. QED
      BY <3>1, <3>2, PlacesAreClosed, PrefixesOfPath
  <2>5. DOMAIN WithDirectories(Front(Goal)) = Places
    BY DEF WithDirectories
  <2>6. QED
    BY <1>5, <1>6, <2>1, <2>2, <2>3, <2>4, <2>5
<1>9. CASE WriteFile
  <2>1. /\ phase = "extract" /\ PassEntry /\ status = "writing" /\ next \in DOMAIN stream.entries
        /\ dest' = [dest EXCEPT ![Goal] = File(Entry.data, TRUE)]
    BY <1>1, <1>9 DEF WriteFile, ReadInv, Position
  <2>2. /\ <<at, next>> \in Held /\ <<at, next>> \notin Behind
        /\ HeldEntry(<<at, next>>) = Entry
        /\ Goal = PlaceOf(<<at, next>>) /\ Goal \in Places
    BY <1>1, <2>1, EntryIsHeld
  <2>3. Behind' = Behind \cup {<<at, next>>}
    BY <1>1, <2>1, BehindPassed DEF Going
  <2>4. CASE h = <<at, next>>
    BY <1>3, <1>5, <2>1, <2>2, <2>4
  <2>5. CASE h # <<at, next>>
    <3>1. dest[PlaceOf(h)] = File(HeldEntry(h).data, TRUE)
      BY <1>2, <2>1, <2>3, <2>5
    <3>2. PlaceOf(h) \notin Prefixes(Goal)
      BY <1>1, <1>3, <1>5, <2>1, <2>2, <2>5, NothingCollides, PlacesApart DEF GivingInv
    <3>3. PlaceOf(h) # Goal
      BY <2>2, <3>2, PlacesAreClosed, PrefixesOfPath
    <3>4. QED
      BY <1>3, <1>5, <1>6, <2>1, <3>1, <3>3
  <2>6. QED
    BY <2>4, <2>5
<1>10. CASE Leaving
  <2>1. Behind' = Behind /\ UNCHANGED <<dest, phase>>
    BY <1>1, <1>10, BehindLeft DEF Leaving, Leave
  <2>2. QED
    BY <1>2, <1>5, <2>1
<1>11. CASE Turning
  <2>1. \E i : Following(1, i) /\ at' = i
    BY <1>11 DEF Turning
  <2>2. ~(h[1] < at') /\ next' = 1 /\ h[2] \in Nat \ {0}
    BY <1>1, <1>3, <1>5, <1>11, <2>1, BehindAtFirst, HeldIsTyped DEF Turning, AllRead, ReadInv, Position
  <2>3. QED
    BY <2>2 DEF Behind
<1>12. CASE Ending \/ Idling
  <2>1. Behind' = Behind /\ UNCHANGED <<dest, phase>>
    BY <1>12, BehindStays DEF Ending, Idling, layerVars
  <2>2. QED
    BY <1>2, <1>5, <2>1
<1>13. CASE Counting
  BY <1>13 DEF Counting, PassEntry
<1>14. QED
  BY <1>1, <1>7, <1>8, <1>9, <1>10, <1>11, <1>12, <1>13, Advances

\* A path that is no name of the destination itself stands at a place below it.
LEMMA GoalIsBelow ==
  ASSUME ReadInv, status \in {"reading", "writing"}, next \in DOMAIN stream.entries,
         ~Invalid(Entry)
  PROVE  Goal # <<>>
<1>1. Entry.path # <<>> /\ Entry.path \in Places
  BY EntryTyped DEF Invalid, ReadInv, Position, Entries
<1>2. QED
  BY <1>1, PlaceIsBelow DEF Goal

LEMMA LaidStep ==
  ASSUME GivingInv, [Next]_vars
  PROVE  Laid'
<1> SUFFICES ASSUME Going', phase' = "extract", NEW p \in Places, dest'[p] # job'.before[p],
                    ~(dest'[p] = Directory /\ OnTheWay(p)')
             PROVE  \E h \in Begun' : p = PlaceOf(h)'
  BY DEF Laid
<1>1. Going /\ ReadInv /\ DestinationInv /\ DOMAIN dest = Places
  BY WasGoing DEF GivingInv, ReadInv, Shape
<1>2. UNCHANGED job
  BY <1>1, Advances DEF Opening, Counting, Creating, WriteFile, Leaving, Turning, Ending, Idling,
     PassEntry, Leave
<1>3. Held' = Held /\ (\A h : PlaceOf(h)' = PlaceOf(h)) /\ OnTheWay(p)' = OnTheWay(p)
  <2>1. Held' = Held /\ (\A h : PlaceOf(h)' = PlaceOf(h))
    BY <1>2, HeldStays, PlaceStays
  <2>2. QED
    BY <2>1 DEF OnTheWay
<1>4. ASSUME dest'[p] = dest[p] PROVE phase = "extract" /\ \E h \in Begun : p = PlaceOf(h)
  <2>1. CASE phase = "extract"
    BY <1>1, <1>2, <1>3, <1>4, <2>1 DEF GivingInv, Laid
  <2>2. CASE phase # "extract"
    BY <1>2, <1>4, <2>2 DEF GivingInv, Untouched
  <2>3. QED
    BY <2>1, <2>2
<1>5. CASE Leaving \/ Ending \/ Idling
  <2>1. Begun' = Begun /\ UNCHANGED dest
    <3>1. CASE Leaving
      <4>1. Behind' = Behind
        BY <1>1, <3>1, BehindLeft
      <4>2. QED
        BY <3>1, <4>1 DEF Leaving, Leave, Begun
    <3>2. CASE Ending \/ Idling
      <4>1. Behind' = Behind
        BY <3>2, BehindStays DEF Ending, Idling, layerVars
      <4>2. QED
        BY <3>2, <4>1 DEF Ending, Idling, AllRead, Ended, layerVars, Begun
    <3>3. QED
      BY <1>5, <3>1, <3>2
  <2>2. QED
    BY <1>3, <1>4, <2>1
<1>6. CASE Turning \/ Counting
  BY <1>4, <1>6 DEF Turning, Counting, PassEntry
<1>7. CASE Opening
  <2>1. \A q \in Places : q \in Prefixes(<<>>) => q = <<>>
    BY PrefixesOfPath, PlacesAreClosed, UnpackAssumption
  <2>2. dest'[p] = dest[p]
    BY <1>3, <1>7, <2>1 DEF Opening, WithDirectories, OnTheWay
  <2>3. Begun' = Begun
    BY <1>7, BehindStays DEF Opening, Begun, AtLayer
  <2>4. QED
    BY <1>3, <1>4, <2>2, <2>3
<1>8. CASE Creating
  <2>1. status = "reading" /\ next \in DOMAIN stream.entries /\ ~Invalid(Entry)
    BY <1>8 DEF Creating, AtEntry
  <2>2. <<at, next>> \in Held /\ Goal = PlaceOf(<<at, next>>) /\ Goal \in Places /\ Goal # <<>>
    BY <1>1, <2>1, EntryIsHeld, GoalIsBelow
  <2>3. Begun' = Begun \cup {<<at, next>>}
    BY <1>8, <2>1, BehindStays DEF Creating, Begun, layerVars
  <2>4. Prefixes(Front(Goal)) = Prefixes(Goal) \ {Goal}
    BY <2>2, PlacesAreClosed, PrefixesOfPath
  <2>5. dest' = [WithDirectories(Front(Goal)) EXCEPT ![Goal] = File(Entry.data, FALSE)]
    BY <1>8 DEF Creating
  <2>6. CASE p = Goal
    BY <1>3, <2>2, <2>3, <2>6
  <2>7. CASE p # Goal
    <3>1. dest'[p] = IF p \in Prefixes(Goal) \ {Goal} THEN Directory ELSE dest[p]
      BY <2>4, <2>5, <2>7 DEF WithDirectories
    <3>2. dest'[p] = dest[p]
      BY <1>3, <2>2, <3>1 DEF OnTheWay
    <3>3. QED
      BY <1>3, <1>4, <2>3, <3>2
  <2>8. QED
    BY <2>6, <2>7
<1>9. CASE WriteFile
  <2>1. /\ PassEntry /\ status = "writing" /\ status' = "reading" /\ next \in DOMAIN stream.entries
        /\ dest' = [dest EXCEPT ![Goal] = File(Entry.data, TRUE)]
    BY <1>1, <1>9 DEF WriteFile, PassEntry, ReadInv, Position
  <2>2. <<at, next>> \in Held /\ Goal = PlaceOf(<<at, next>>) /\ Goal \in Places
    BY <1>1, <2>1, EntryIsHeld
  <2>3. Begun = Behind \cup {<<at, next>>} /\ Begun' = Behind \cup {<<at, next>>}
    BY <1>1, <2>1, BehindPassed DEF Begun, Going
  <2>4. CASE p = Goal
    BY <1>3, <2>2, <2>3, <2>4
  <2>5. CASE p # Goal
    BY <1>3, <1>4, <2>1, <2>3, <2>5
  <2>6. QED
    BY <2>4, <2>5
<1>10. QED
  BY <1>1, <1>5, <1>6, <1>7, <1>8, <1>9, Advances

LEMMA GivingStep == GivingInv /\ [Next]_vars => GivingInv'
<1> SUFFICES ASSUME GivingInv, [Next]_vars PROVE GivingInv'
  OBVIOUS
<1>1. DestinationInv' /\ ReadInv'
  BY DestinationStep, ReadStep DEF GivingInv
<1>2. Counted' /\ Outcome' /\ Untouched'
  BY CountedStep, OutcomeStep, UntouchedStep DEF GivingInv
<1>3. Written' /\ Laid'
  BY WrittenStep, LaidStep
<1>4. QED
  BY <1>1, <1>2, <1>3 DEF GivingInv

LEMMA GivingGives == GivingInv => GivesWhatIsNamed
<1> SUFFICES ASSUME GivingInv, Ended, failure = "none", job.op # "verify" PROVE
      /\ Range(listed) = {[layer |-> h[1], path |-> HeldEntry(h).path,
                           size |-> HeldEntry(h).size, data |-> HeldEntry(h).data] : h \in Held}
      /\ Len(listed) = Cardinality(Held)
      /\ job.op = "extract" =>
           /\ \A h \in Held : dest[Place(HeldEntry(h).path)] = File(HeldEntry(h).data, TRUE)
           /\ \A p \in Places :
                \/ dest[p] = job.before[p]
                \/ p = <<>>
                \/ \E h \in Held : p \in Prefixes(Place(HeldEntry(h).path))
  BY DEF GivesWhatIsNamed
<1>1. Going /\ ReadInv
  BY DEF GivingInv, Going, Ended, ReadInv, Shape
<1>2. Behind = Held /\ Passed = Held
  BY <1>1, BehindAtLast DEF GivingInv, Outcome, Passed
<1>3. PICK f : Records(f)
  BY <1>1 DEF GivingInv, Counted
<1>4. /\ f \in [DOMAIN listed -> Held]
      /\ \A i, j \in DOMAIN listed : f[i] = f[j] => i = j
      /\ \A h \in Held : \E i \in DOMAIN listed : f[i] = h
      /\ \A i \in DOMAIN listed : listed[i] = Record(f[i])
  BY <1>2, <1>3 DEF Records
<1>5. Range(listed) = {Record(h) : h \in Held}
  BY <1>4 DEF Range
<1>6. Len(listed) = Cardinality(Held)
  <2>1. f \in Bijection(DOMAIN listed, Held)
    BY <1>4 DEF Bijection, Injection, Surjection, IsInjective
  <2>2. DOMAIN listed = 1..Len(listed) /\ Len(listed) \in Nat
    BY <1>1 DEF ReadInv, Listing
  <2>3. IsFiniteSet(1..Len(listed)) /\ Cardinality(1..Len(listed)) = Len(listed)
    <3> DEFINE n == Len(listed)
    <3>1. n \in Nat
      BY <2>2
    <3> HIDE DEF n
    <3>2. IsFiniteSet(1..n) /\ Cardinality(1..n) = IF 1 > n THEN 0 ELSE n - 1 + 1
      BY <3>1, FS_Interval
    <3>3. IsFiniteSet(1..n) /\ Cardinality(1..n) = n
      BY <3>1, <3>2
    <3>4. QED
      BY <3>3 DEF n
  <2>4. ExistsBijection(1..Len(listed), Held)
    BY <2>1, <2>2 DEF ExistsBijection
  <2>5. QED
    BY <2>3, <2>4, FS_Bijection
<1>7. ASSUME job.op = "extract"
      PROVE  /\ \A h \in Held : dest[PlaceOf(h)] = File(HeldEntry(h).data, TRUE)
             /\ \A p \in Places : \/ dest[p] = job.before[p]
                                  \/ p = <<>>
                                  \/ \E h \in Held : p \in Prefixes(PlaceOf(h))
  <2>1. phase = "extract"
    BY <1>1, <1>7 DEF GivingInv, Outcome
  <2>2. Begun = Behind
    BY DEF Begun, Ended
  <2>3. ASSUME NEW p \in Places, OnTheWay(p) \/ \E h \in Begun : p = PlaceOf(h)
        PROVE  p = <<>> \/ \E h \in Held : p \in Prefixes(PlaceOf(h))
    <3>1. CASE OnTheWay(p)
      BY <3>1 DEF OnTheWay
    <3>2. CASE \E h \in Held : p = PlaceOf(h)
      BY <3>2, PlacesAreClosed, PrefixesOfPath
    <3>3. QED
      BY <1>2, <2>2, <2>3, <3>1, <3>2
  <2>4. QED
    BY <1>1, <1>2, <2>1, <2>3 DEF GivingInv, Written, Laid
<1>8. QED
  BY <1>5, <1>6, <1>7 DEF Record, PlaceOf

\* A List, Extract or Diff that succeeds has listed exactly the entries that the descriptors
\* name, and an Extract has written each of them whole and touched nothing else, whatever
\* happened to the blobs between its two readings (artifact.Extract, listComponentFiles,
\* extractComponent).
THEOREM SuccessGivesWhatIsNamed == Spec => []GivesWhatIsNamed
<1>1. QED
  BY GivingStart, GivingStep, GivingGives, PTL DEF Spec

------------------------------------------------------------------------------
(***************************************************************************)
(* The bytes of a component's entries.                                     *)
(***************************************************************************)

LEMMA SetInduction ==
  ASSUME NEW S, NEW n \in Nat, 0 \in S,
         \A m \in 0..n : m \in S /\ m < n => m + 1 \in S
  PROVE  \A m \in 0..n : m \in S
<1> SUFFICES ASSUME \E m \in 0..n : m \notin S PROVE FALSE
  OBVIOUS
<1> DEFINE T == {m \in 0..n : m \notin S}
<1>1. T \in SUBSET Nat /\ T # {}
  OBVIOUS
<1>2. PICK x \in T : \A y \in T : x =< y
  BY <1>1, SmallestExists
<1>3. x \in 0..n /\ x \notin S /\ x # 0
  BY <1>2
<1>4. x - 1 \in 0..n /\ x - 1 < n /\ (x - 1) + 1 = x /\ ~(x =< x - 1)
  BY <1>3
<1>5. x - 1 \in S
  BY <1>2, <1>4
<1>6. QED
  BY <1>3, <1>4, <1>5

LEMMA TotalsAdd ==
  ASSUME NEW entries \in Seq(Entries)
  PROVE  /\ Totals(entries) \in [0..Len(entries) -> Nat]
         /\ Totals(entries)[0] = 0
         /\ \A n \in 1..Len(entries) : Totals(entries)[n] = Totals(entries)[n - 1] + entries[n].size
<1> DEFINE n == Len(entries)
           Adds(t, m) == /\ t \in [0..m -> Nat] /\ t[0] = 0
                         /\ \A i \in 1..m : t[i] = t[i - 1] + entries[i].size
           S == {m \in 0..n : \E t : Adds(t, m)}
           Is(t) == t = [i \in 0..n |-> IF i = 0 THEN 0 ELSE t[i - 1] + entries[i].size]
<1>1. n \in Nat /\ \A i \in 1..n : entries[i].size \in Nat
  <2>1. \A i \in 1..n : entries[i] \in Entries
    OBVIOUS
  <2>2. QED
    BY <2>1 DEF Entries
<1>2. 0 \in S
  <2>1. Adds([i \in 0..0 |-> 0], 0)
    OBVIOUS
  <2>2. 0 \in 0..n
    BY <1>1
  <2> HIDE DEF Adds
  <2>3. QED
    BY <2>1, <2>2
<1>3. ASSUME NEW m \in 0..n, m \in S, m < n PROVE m + 1 \in S
  <2>1. PICK t : Adds(t, m)
    BY <1>3
  <2> DEFINE u == [i \in 0..(m + 1) |-> IF i = m + 1 THEN t[m] + entries[m + 1].size ELSE t[i]]
  <2>2. m + 1 \in 1..n /\ t[m] \in Nat /\ entries[m + 1].size \in Nat
    BY <1>1, <1>3, <2>1
  <2>3. u \in [0..(m + 1) -> Nat] /\ u[0] = 0
    BY <2>1, <2>2
  <2>4. ASSUME NEW i \in 1..(m + 1) PROVE u[i] = u[i - 1] + entries[i].size
    <3>1. CASE i = m + 1
      BY <2>1, <2>2, <3>1
    <3>2. CASE i # m + 1
      BY <2>1, <2>2, <3>2
    <3>3. QED
      BY <3>1, <3>2
  <2> HIDE DEF u
  <2>5. Adds(u, m + 1)
    BY <2>3, <2>4
  <2>6. m + 1 \in 0..n
    BY <1>1, <2>2
  <2> HIDE DEF Adds
  <2>7. QED
    BY <2>5, <2>6
<1>4. n \in S
  <2> HIDE DEF S, n
  <2>1. \A m \in 0..n : m \in S
    BY <1>1, <1>2, <1>3, SetInduction
  <2>2. QED
    BY <1>1, <2>1
<1>5. PICK t : Adds(t, n)
  BY <1>4
<1>6. Is(t)
  BY <1>1, <1>5
<1>7. Is(CHOOSE u : Is(u))
  <2> HIDE DEF Is
  <2>1. QED
    BY <1>6
<1>8. Totals(entries) = CHOOSE u : Is(u)
  BY DEF Totals
<1>9. PICK g : g = Totals(entries) /\ Is(g)
  BY <1>7, <1>8
<1>10. /\ g = [i \in 0..n |-> IF i = 0 THEN 0 ELSE g[i - 1] + entries[i].size]
  BY <1>9
<1>11. DOMAIN g = 0..n /\ g[0] = 0 /\ \A i \in 1..n : g[i] = g[i - 1] + entries[i].size
  <2>1. \A i \in 0..n : g[i] = IF i = 0 THEN 0 ELSE g[i - 1] + entries[i].size
    BY <1>10, Zenon
  <2>2. DOMAIN g = 0..n
    BY <1>10, Zenon
  <2>3. QED
    BY <1>1, <2>1, <2>2
<1>12. \A m \in 0..n : g[m] \in Nat
  <2> DEFINE R == {m \in 0..n : g[m] \in Nat}
  <2>1. 0 \in R
    BY <1>1, <1>11
  <2>2. ASSUME NEW m \in 0..n, m \in R, m < n PROVE m + 1 \in R
    <3>1. m + 1 \in 1..n /\ (m + 1) - 1 = m
      BY <1>1, <2>2
    <3>2. g[m + 1] = g[m] + entries[m + 1].size
      BY <1>11, <3>1
    <3>3. QED
      BY <1>1, <2>2, <3>1, <3>2
  <2> HIDE DEF R, n
  <2>3. \A m \in 0..n : m \in R
    BY <1>1, <2>1, <2>2, SetInduction
  <2>4. QED
    BY <2>3 DEF R
<1>13. g \in [0..n -> Nat]
  <2>1. g = [i \in 0..n |-> g[i]]
    BY <1>10, <1>11, Zenon
  <2>2. QED
    BY <1>12, <2>1
<1>14. QED
  BY <1>9, <1>11, <1>13

LEMMA TotalsGrow ==
  ASSUME NEW entries \in Seq(Entries), NEW m \in 0..Len(entries)
  PROVE  Totals(entries)[m] \in Nat /\ Totals(entries)[m] <= Sum(entries) /\ Sum(entries) \in Nat
<1> DEFINE n == Len(entries)
           t == Totals(entries)
           S == {k \in 0..n : \A i \in 0..k : t[i] <= t[k]}
<1>1. n \in Nat /\ (\A i \in 0..n : t[i] \in Nat)
      /\ \A i \in 1..n : t[i] = t[i - 1] + entries[i].size /\ entries[i].size \in Nat
  <2>1. \A i \in 1..n : entries[i] \in Entries
    OBVIOUS
  <2>2. \A i \in 1..n : entries[i].size \in Nat
    BY <2>1 DEF Entries
  <2>3. t \in [0..n -> Nat] /\ \A i \in 1..n : t[i] = t[i - 1] + entries[i].size
    BY TotalsAdd
  <2>4. n \in Nat
    OBVIOUS
  <2> HIDE DEF t, n
  <2>5. QED
    BY <2>2, <2>3, <2>4
<1> HIDE DEF t, n
<1>2. 0 \in S
  BY <1>1
<1>3. ASSUME NEW k \in 0..n, k \in S, k < n PROVE k + 1 \in S
  <2>1. k + 1 \in 1..n /\ k + 1 \in 0..n /\ (k + 1) - 1 = k
    BY <1>1, <1>3
  <2>2. t[k + 1] = t[k] + entries[k + 1].size /\ t[k] \in Nat /\ t[k + 1] \in Nat
        /\ entries[k + 1].size \in Nat
    BY <1>1, <2>1
  <2>3. t[k] <= t[k + 1]
    BY <2>2
  <2>4. ASSUME NEW i \in 0..(k + 1) PROVE t[i] <= t[k + 1]
    <3>1. CASE i = k + 1
      BY <2>2, <3>1
    <3>2. CASE i # k + 1
      <4>1. i \in 0..k /\ i \in 0..n
        BY <2>1, <3>2, <1>1
      <4>2. t[i] <= t[k] /\ t[i] \in Nat
        BY <1>1, <1>3, <4>1
      <4>3. QED
        BY <2>2, <2>3, <4>2
    <3>3. QED
      BY <3>1, <3>2
  <2>5. QED
    BY <2>1, <2>4
<1> HIDE DEF S
<1>4. \A k \in 0..n : k \in S
  BY <1>1, <1>2, <1>3, SetInduction
<1>5. n \in S /\ m \in 0..n /\ n \in 0..n
  BY <1>1, <1>4 DEF n
<1>6. t[m] <= t[n] /\ t[m] \in Nat /\ t[n] \in Nat
  BY <1>1, <1>5 DEF S
<1>7. QED
  BY <1>6 DEF Sum, t, n

------------------------------------------------------------------------------
(***************************************************************************)
(* What the scan has let pass.                                             *)
(***************************************************************************)

Summed == status \in {"reading", "writing"} => total = Totals(stream.entries)[next - 1]

Cleared ==
  status = "reading" /\ phase # "extract" /\ Going =>
    \A i \in 1..(next - 1) :
      ~Invalid(stream.entries[i]) /\ stream.entries[i].size <= Limit("size")

\* The layers of whose contents the present call is sure.
Sure(k) == phase = "extract" \/ (Going /\ k < at)

Admitted == \A k \in Chosen : Sure(k) => Sound(Named(k)) /\ Fits(Named(k), phase # "verify")

Agreed ==
  Steady =>
    /\ status \in {"reading", "writing"} => stream = blob[Opened]
    /\ \A k \in Chosen : Sure(k) => blob[FirstOf(k)] = Named(k)

Refusal ==
  Ended /\ Steady /\ phase = "extract" =>
    failure \notin {"invalid", "limit", "collision", "mismatch", "corrupt", "missing", "absent"}

AdmissionInv == GivingInv /\ Summed /\ Cleared /\ Admitted /\ Agreed /\ Refusal

LEMMA JobKept ==
  ASSUME [Next]_vars
  PROVE  UNCHANGED job
<1>1. CASE OpenLayer \/ ScanEntry \/ VerifyEntry
  BY <1>1 DEF OpenLayer, ScanEntry, VerifyEntry, PassEntry, Trouble, Leave, Fail, Stop
<1>2. CASE CreateFile \/ WriteFile \/ CopyFails \/ CloseFails
  BY <1>2 DEF CreateFile, WriteFile, CopyFails, CloseFails, PassEntry, Fail, Stop
<1>3. CASE EndLayer \/ FindMismatch \/ ReadFails
  BY <1>3 DEF EndLayer, FindMismatch, ReadFails, Trouble, Leave, Fail, Stop
<1>4. CASE EndScan \/ EndDiff \/ EndExtract \/ EndVerify \/ Cancel
  BY <1>4 DEF EndScan, EndDiff, EndExtract, EndVerify, Cancel, Fail, Stop
<1>5. CASE (\E i \in DOMAIN Layers : Alter(i)) \/ UNCHANGED vars
  BY <1>5 DEF Alter, vars
<1>6. QED
  BY <1>1, <1>2, <1>3, <1>4, <1>5 DEF Next, Step, Done

LEMMA TurnsOnly ==
  ASSUME [Next]_vars, phase' = "extract", phase # "extract"
  PROVE  Turning
<1>1. CASE OpenLayer \/ ScanEntry \/ VerifyEntry
  BY <1>1 DEF OpenLayer, ScanEntry, VerifyEntry, PassEntry, Trouble, Leave, Fail, Stop
<1>2. CASE CreateFile \/ WriteFile \/ CopyFails \/ CloseFails
  BY <1>2 DEF CreateFile, WriteFile, CopyFails, CloseFails, PassEntry, Fail, Stop
<1>3. CASE EndLayer \/ FindMismatch \/ ReadFails
  BY <1>3 DEF EndLayer, FindMismatch, ReadFails, Trouble, Leave, Fail, Stop
<1>4. CASE EndDiff \/ EndExtract \/ EndVerify \/ Cancel
  BY <1>4 DEF EndDiff, EndExtract, EndVerify, Cancel, Fail, Stop
<1>5. CASE EndScan
  BY <1>5 DEF EndScan, Fail, Stop, Turning
<1>6. CASE (\E i \in DOMAIN Layers : Alter(i)) \/ UNCHANGED vars
  BY <1>6 DEF Alter, vars
<1>7. QED
  BY <1>1, <1>2, <1>3, <1>4, <1>5, <1>6 DEF Next, Step, Done

LEMMA SteadyWas ==
  ASSUME ReadInv, [Next]_vars, Steady'
  PROVE  Steady /\ UNCHANGED blob
<1>1. CASE OpenLayer \/ ScanEntry \/ VerifyEntry
  BY <1>1 DEF OpenLayer, ScanEntry, VerifyEntry, PassEntry, Trouble, Leave, Fail, Stop, Steady
<1>2. CASE CreateFile \/ WriteFile \/ CopyFails \/ CloseFails
  BY <1>2 DEF CreateFile, WriteFile, CopyFails, CloseFails, PassEntry, Fail, Stop, Steady
<1>3. CASE EndLayer \/ FindMismatch \/ ReadFails
  BY <1>3 DEF EndLayer, FindMismatch, ReadFails, Trouble, Leave, Fail, Stop, Steady
<1>4. CASE EndScan \/ EndDiff \/ EndExtract \/ EndVerify \/ Cancel
  BY <1>4 DEF EndScan, EndDiff, EndExtract, EndVerify, Cancel, Fail, Stop, Steady
<1>5. CASE \E i \in DOMAIN Layers : Alter(i)
  <2>1. alters' < MaxAlters /\ alters' \in Nat /\ MaxAlters \in Nat
    BY <1>5, AlterTyped, UnpackAssumption
  <2>2. QED
    BY <2>1 DEF Steady
<1>6. CASE UNCHANGED vars
  BY <1>6 DEF vars, Steady
<1>7. QED
  BY <1>1, <1>2, <1>3, <1>4, <1>5, <1>6 DEF Next, Step, Done

\* How a stream goes on.
LEMMA StreamStep ==
  ASSUME ReadInv, [Next]_vars, status' \in {"reading", "writing"}
  PROVE  \/ Opening
         \/ /\ status \in {"reading", "writing"} /\ UNCHANGED <<at, stream, phase>>
            /\ \/ UNCHANGED <<next, total>>
               \/ PassEntry /\ next \in DOMAIN stream.entries
<1>1. CASE OpenLayer
  BY <1>1 DEF OpenLayer, Trouble, Leave, Fail, Stop, Opening
<1>2. CASE ScanEntry \/ VerifyEntry
  BY <1>2 DEF ScanEntry, VerifyEntry, PassEntry, Trouble, Leave, Fail, Stop, AtEntry
<1>3. CASE CreateFile
  BY <1>3 DEF CreateFile, Fail, Stop, AtEntry, layerVars
<1>4. CASE WriteFile
  BY <1>4 DEF WriteFile, PassEntry, ReadInv, Position
<1>5. CASE CopyFails \/ CloseFails
  BY <1>5 DEF CopyFails, CloseFails, Fail, Stop
<1>6. CASE EndLayer \/ FindMismatch \/ ReadFails
  BY <1>6 DEF EndLayer, FindMismatch, ReadFails, Trouble, Leave, Fail, Stop
<1>7. CASE EndScan \/ EndDiff \/ EndExtract \/ EndVerify \/ Cancel
  BY <1>7 DEF EndScan, EndDiff, EndExtract, EndVerify, Cancel, Fail, Stop, AllRead
<1>8. CASE (\E i \in DOMAIN Layers : Alter(i)) \/ UNCHANGED vars
  BY <1>8 DEF Alter, vars, layerVars
<1>9. QED
  BY <1>1, <1>2, <1>3, <1>4, <1>5, <1>6, <1>7, <1>8 DEF Next, Step, Done

LEMMA SummedStep ==
  ASSUME ReadInv, Summed, [Next]_vars
  PROVE  Summed'
<1> SUFFICES ASSUME status' \in {"reading", "writing"}
             PROVE  total' = Totals(stream'.entries)[next' - 1]
  BY DEF Summed
<1>1. CASE Opening
  <2>1. stream'.kind = "tar" /\ IsContent(stream')
    BY <1>1, ReadStep DEF ReadInv, Position, Opening
  <2>2. stream'.entries \in Seq(Entries)
    BY <2>1, ContentTyped
  <2>3. next' = 1 /\ total' = 0
    BY <1>1 DEF Opening, AtLayer, ReadInv, Position
  <2>4. QED
    BY <2>2, <2>3, TotalsAdd
<1>2. CASE status \in {"reading", "writing"} /\ UNCHANGED <<stream, next, total>>
  BY <1>2 DEF Summed
<1>3. CASE /\ status \in {"reading", "writing"} /\ UNCHANGED stream
           /\ PassEntry /\ next \in DOMAIN stream.entries
  <2>1. stream.entries \in Seq(Entries)
    BY <1>3, ContentTyped DEF ReadInv, Position
  <2>2. next \in 1..Len(stream.entries) /\ next' = next + 1 /\ total' = total + Entry.size
    BY <1>3, <2>1 DEF PassEntry
  <2>3. Totals(stream.entries)[next] = Totals(stream.entries)[next - 1] + Entry.size
    BY <2>1, <2>2, TotalsAdd DEF Entry
  <2>4. QED
    BY <1>3, <2>2, <2>3 DEF Summed
<1>4. QED
  BY <1>1, <1>2, <1>3, StreamStep

LEMMA ClearedStep ==
  ASSUME DestinationInv, ReadInv, Cleared, [Next]_vars
  PROVE  Cleared'
<1> SUFFICES ASSUME status' = "reading", phase' # "extract", Going', NEW i \in 1..(next' - 1)
             PROVE  ~Invalid(stream'.entries[i]) /\ stream'.entries[i].size <= Limit("size")'
  BY DEF Cleared, Invalid
<1>1. Going /\ (phase' = "verify" <=> phase = "verify") /\ UNCHANGED job
  <2>1. phase' = "verify" <=> phase = "verify"
    BY ReadStep, JobKept DEF ReadInv, Shape
  <2>2. QED
    BY <2>1, WasGoing, JobKept
<1>2. Limit("size")' = Limit("size")
  BY <1>1, LimitStays
<1>3. CASE Opening
  <2>1. next' = 1
    BY <1>3 DEF Opening, AtLayer, ReadInv, Position
  <2>2. QED
    BY <2>1
<1>4. CASE Counting
  <2>1. next' = next + 1 /\ UNCHANGED stream /\ next \in Nat \ {0} /\ status = "reading" /\ phase # "extract"
    BY <1>4 DEF Counting, PassEntry, AtEntry, ReadInv, WithinLimits
  <2>2. ~Invalid(Entry) /\ Entry.size <= Limit("size")
    BY <1>4, WhatIsNotOver DEF Counting, AtEntry
  <2>3. CASE i = next
    BY <1>2, <2>1, <2>2, <2>3 DEF Entry
  <2>4. CASE i # next
    <3>1. i \in 1..(next - 1)
      BY <2>1, <2>4
    <3>2. QED
      BY <1>1, <1>2, <2>1, <3>1 DEF Cleared
  <2>5. QED
    BY <2>3, <2>4
<1>5. CASE Idling
  BY <1>1, <1>2, <1>5 DEF Idling, layerVars, Cleared
<1>6. CASE Creating \/ WriteFile \/ Leaving \/ Turning \/ Ending
  BY <1>6 DEF Creating, WriteFile, PassEntry, ReadInv, Position, Leaving, Leave, Turning, Ending, Ended
<1>7. QED
  BY <1>3, <1>4, <1>5, <1>6, Advances

\* What is compared while a layer is read makes it sound and fit.
LEMMA LeavingAdmits ==
  ASSUME ReadInv, Summed, Cleared, Going, Leaving, phase # "extract"
  PROVE  Sound(Named(at)) /\ Fits(Named(at), phase # "verify")
<1>1. /\ Named(at) = stream /\ stream.kind = "tar" /\ stream.end = "eof" /\ ~TailOver
      /\ status = "reading" /\ at \in Chosen
      /\ next \in 1..(Len(stream.entries) + 1) /\ next \notin DOMAIN stream.entries
  BY DEF Leaving, Genuine, ReadInv, Position
<1>2. stream.entries \in Seq(Entries) /\ stream.tail \in Nat
  BY <1>1, ContentTyped DEF ReadInv, Position
<1>3. next = Len(stream.entries) + 1 /\ next - 1 = Len(stream.entries)
  BY <1>1, <1>2
<1>4. \A i \in 1..Len(stream.entries) :
        ~Invalid(stream.entries[i]) /\ stream.entries[i].size <= Limit("size")
  BY <1>1, <1>3 DEF Cleared
<1>5. \A e \in Range(stream.entries) : ~Invalid(e) /\ e.size <= Limit("size")
  BY <1>2, <1>4 DEF Range
<1>6. total = Sum(stream.entries) /\ total \in Nat /\ total <= Limit("total") /\ Limit("total") \in Nat
  <2>1. Limit("total") \in Nat
    BY LimitsAreNaturals DEF ReadInv, Shape, LimitKinds
  <2>2. QED
    BY <1>1, <1>3, <2>1 DEF Summed, Sum, ReadInv, WithinLimits
<1>7. Len(stream.entries) <= Limit("files")
  BY <1>3 DEF ReadInv, WithinLimits
<1>8. Sum(stream.entries) + (IF phase # "verify" THEN stream.tail ELSE 0) <= Limit("total")
  BY <1>1, <1>2, <1>6 DEF TailOver
<1>9. QED
  BY <1>1, <1>5, <1>7, <1>8 DEF Sound, Fits

LEMMA AdmittedStays ==
  ASSUME UNCHANGED job, phase' = "verify" <=> phase = "verify", NEW content
  PROVE  Sound(content)' = Sound(content)
         /\ Fits(content, phase # "verify")' = Fits(content, phase # "verify")
<1>1. \A of : Limit(of)' = Limit(of)
  BY LimitStays
<1>2. QED
  BY <1>1 DEF Sound, Fits, Invalid

\* The layers of which the call becomes sure by a step.
LEMMA SureStep ==
  ASSUME DestinationInv, ReadInv, [Next]_vars, NEW k \in Chosen, Sure(k)', ~Sure(k)
  PROVE  Leaving /\ Going /\ phase # "extract" /\ k = at
<1>1. job \in Jobs /\ k \in DOMAIN Layers
  BY NotPastTheLayers DEF ReadInv, Shape
<1>2. k \in Nat /\ k <= Len(Layers) /\ Len(Layers) \in Nat
  BY <1>1, LayersTyped
<1>3. at \in Nat
  BY <1>1, <1>2, LayersTyped, NotPastTheLayers DEF ReadInv, Position
<1>4. phase # "extract" /\ (Going => ~(k < at))
  BY DEF Sure
<1>5. CASE phase' = "extract"
  <2>1. Turning
    BY <1>4, <1>5, TurnsOnly
  <2>2. Going /\ at = Len(Layers) + 1
    BY <1>1, <2>1, NotPastTheLayers DEF Turning, AllRead, Going, Ended, ReadInv, Position
  <2>3. QED
    BY <1>2, <1>4, <2>2
<1>6. CASE Going' /\ k < at' /\ phase' # "extract"
  <2>1. Going
    BY <1>6, WasGoing
  <2>2. Leaving
    <3>1. at' # at
      BY <1>4, <1>6, <2>1
    <3>2. QED
      BY <1>6, <3>1, Advances DEF Opening, Counting, Creating, WriteFile, Turning, Ending, Idling,
         PassEntry, layerVars
  <2>3. at' \in (at + 1)..(Len(Layers) + 1) /\ \A m \in (at + 1)..(at' - 1) : m \notin Chosen
    BY <2>2 DEF Leaving, Leave, Following
  <2>4. at' \in Nat
    BY <1>2, <1>3, <2>3
  <2>5. k # at => k \in (at + 1)..(at' - 1)
    <3>1. ~(k < at) /\ k < at'
      BY <1>4, <1>6, <2>1
    <3>2. \A x, y, z \in Nat : ~(x < y) /\ x < z /\ x # y => x \in (y + 1)..(z - 1)
      OBVIOUS
    <3>3. k \in Nat
      BY <1>2
    <3>4. QED
      BY <1>3, <2>4, <3>1, <3>2, <3>3
  <2>6. QED
    BY <1>4, <2>1, <2>2, <2>3, <2>5
<1>7. QED
  BY <1>5, <1>6 DEF Sure

LEMMA AdmittedStep ==
  ASSUME DestinationInv, ReadInv, Summed, Cleared, Admitted, [Next]_vars
  PROVE  Admitted'
<1>1. UNCHANGED job /\ (phase' = "verify" <=> phase = "verify")
  BY ReadStep, JobKept DEF ReadInv, Shape
<1>2. Chosen' = Chosen /\ \A i : Named(i)' = Named(i)
  BY <1>1, JobStays
<1> SUFFICES ASSUME NEW k \in Chosen, Sure(k)'
             PROVE  (Sound(Named(k)) /\ Fits(Named(k), phase # "verify"))'
  BY <1>2 DEF Admitted
<1>3. Sound(Named(k)) /\ Fits(Named(k), phase # "verify")
  <2>1. CASE Sure(k)
    BY <2>1 DEF Admitted
  <2>2. CASE ~Sure(k)
    BY <2>2, SureStep, LeavingAdmits
  <2>3. QED
    BY <2>1, <2>2
<1>4. PICK content : content = Named(k)
  OBVIOUS
<1>5. Named(k)' = content
  BY <1>2, <1>4
<1>6. (Sound(content) /\ Fits(content, phase # "verify"))'
  BY <1>1, <1>3, <1>4, AdmittedStays
<1>7. QED
  BY <1>5, <1>6 DEF Sound, Fits

LEMMA AgreedStep ==
  ASSUME DestinationInv, ReadInv, Agreed, [Next]_vars
  PROVE  Agreed'
<1> SUFFICES ASSUME Steady' PROVE (/\ status \in {"reading", "writing"} => stream = blob[Opened]
                                   /\ \A k \in Chosen : Sure(k) => blob[FirstOf(k)] = Named(k))'
  BY DEF Agreed
<1>1. Steady /\ UNCHANGED <<blob, job>>
  BY SteadyWas, JobKept
<1>2. Chosen' = Chosen /\ \A i : Named(i)' = Named(i) /\ FirstOf(i)' = FirstOf(i)
  BY <1>1, JobStays
<1>3. ASSUME status' \in {"reading", "writing"} PROVE stream' = blob'[Opened']
  <2>1. CASE Opening
    BY <1>1, <1>2, <2>1 DEF Opening, Opened
  <2>2. CASE status \in {"reading", "writing"} /\ UNCHANGED <<at, stream>>
    BY <1>1, <1>2, <2>2 DEF Agreed, Opened
  <2>3. QED
    BY <1>3, <2>1, <2>2, StreamStep
<1>4. ASSUME NEW k \in Chosen, Sure(k)' PROVE blob[FirstOf(k)] = Named(k)
  <2>1. CASE Sure(k)
    BY <1>1, <2>1 DEF Agreed
  <2>2. CASE ~Sure(k)
    <3>1. Leaving /\ k = at
      BY <1>4, <2>2, SureStep
    <3>2. QED
      BY <1>1, <3>1 DEF Agreed, Leaving, Genuine, Opened
  <2>3. QED
    BY <2>1, <2>2
<1>5. QED
  BY <1>1, <1>2, <1>3, <1>4

\* A stream that is sound and fits meets no refusal.
LEMMA NothingRefused ==
  ASSUME ReadInv, Summed, status \in {"reading", "writing"},
         Sound(stream), Fits(stream, phase # "verify")
  PROVE  /\ stream.end = "eof" /\ ~Cut /\ ~TailOver
         /\ next \in DOMAIN stream.entries => ~Invalid(Entry) /\ ~OverNow /\ ~Over
<1>1. stream.end = "eof" /\ ~Cut
  BY DEF Sound, Cut
<1>2. /\ stream.entries \in Seq(Entries) /\ stream.tail \in Nat
      /\ next \in 1..(Len(stream.entries) + 1) /\ total = Totals(stream.entries)[next - 1]
  BY ContentTyped DEF ReadInv, Position, Summed
<1> DEFINE tail == IF phase # "verify" THEN stream.tail ELSE 0
<1>3. /\ Sum(stream.entries) + tail <= Limit("total") /\ Limit("total") \in Nat /\ tail \in Nat
      /\ Len(stream.entries) <= Limit("files") /\ Limit("files") \in Nat
      /\ \A e \in Range(stream.entries) : e.size <= Limit("size") /\ ~Invalid(e)
  BY <1>2, LimitsAreNaturals DEF Fits, Sound, ReadInv, Shape, LimitKinds
<1>4. total \in Nat /\ total <= Sum(stream.entries) /\ Sum(stream.entries) \in Nat
  <2>1. next - 1 \in 0..Len(stream.entries)
    BY <1>2
  <2>2. QED
    BY <1>2, <2>1, TotalsGrow
<1>5. ~TailOver
  <2>1. \A s, t, l, u \in Nat : t <= s /\ s + u <= l => ~(u > l - t)
    OBVIOUS
  <2> HIDE DEF tail
  <2>2. ~(tail > Limit("total") - total)
    BY <1>3, <1>4, <2>1
  <2>3. QED
    BY <2>2 DEF TailOver, tail
<1>6. ASSUME next \in DOMAIN stream.entries PROVE ~Invalid(Entry) /\ ~OverNow /\ ~Over
  <2> HIDE DEF tail
  <2>1. Entry \in Range(stream.entries) /\ Entry \in Entries
    BY <1>2, <1>6 DEF Entry, Range
  <2>2. next \in 1..Len(stream.entries) /\ next <= Limit("files")
    BY <1>2, <1>3, <1>6
  <2>3. Totals(stream.entries)[next] = total + Entry.size
    BY <1>2, <2>2, TotalsAdd DEF Entry
  <2>4. Totals(stream.entries)[next] <= Sum(stream.entries) /\ Totals(stream.entries)[next] \in Nat
    BY <1>2, <2>2, TotalsGrow
  <2>5. total + Entry.size <= Limit("total")
    <3>1. Entry.size \in Nat
      BY <2>1 DEF Entries
    <3>2. \A s, t, l, u \in Nat : t <= s /\ s + u <= l => t <= l
      OBVIOUS
    <3>3. QED
      BY <1>2, <1>3, <1>4, <2>3, <2>4, <3>2
  <2>6. Entry.size <= Limit("size") /\ ~Invalid(Entry)
    BY <1>3, <2>1
  <2>7. Entry.size \in Nat /\ Limit("size") \in Nat
    BY <2>1, LimitsAreNaturals DEF Entries, ReadInv, Shape, LimitKinds
  <2>8. next \in Nat
    BY <1>2
  <2>9. ~(next > Limit("files"))
    BY <1>3, <2>2, <2>8
  <2>10. ~(Entry.size > Limit("size"))
    BY <2>6, <2>7
  <2>11. ~(total + Entry.size > Limit("total"))
    <3>1. total + Entry.size \in Nat
      BY <1>4, <2>7
    <3>2. QED
      BY <1>3, <2>5, <3>1
  <2>12. ~(next - 1 >= Limit("files")) /\ ~(total > Limit("total") - Entry.size)
    BY <1>3, <1>4, <2>2, <2>5, <2>7, <2>8
  <2>13. QED
    BY <2>6, <2>9, <2>10, <2>11, <2>12 DEF OverNow, Over
<1>7. QED
  BY <1>1, <1>5, <1>6

\* In a steady layout the second reading meets what the first has let pass.
LEMMA SecondReading ==
  ASSUME AdmissionInv, Steady, phase = "extract", ~Ended, at \in Chosen
  PROVE  /\ blob[Opened].kind = "tar"
         /\ status \in {"reading", "writing"} =>
              /\ Genuine /\ stream.end = "eof" /\ ~Cut /\ ~TailOver
              /\ next \in DOMAIN stream.entries => ~Invalid(Entry) /\ ~OverNow
<1>1. /\ Sound(Named(at)) /\ Fits(Named(at), phase # "verify") /\ blob[Opened] = Named(at)
      /\ ReadInv /\ Summed
  BY DEF AdmissionInv, GivingInv, Admitted, Agreed, Sure, Opened
<1>2. ASSUME status \in {"reading", "writing"}
      PROVE  /\ Genuine /\ stream.end = "eof" /\ ~Cut /\ ~TailOver
             /\ next \in DOMAIN stream.entries => ~Invalid(Entry) /\ ~OverNow
  <2>1. stream = blob[Opened]
    BY <1>2 DEF AdmissionInv, Agreed
  <2>2. Genuine /\ Sound(stream) /\ Fits(stream, phase # "verify")
    BY <1>1, <2>1 DEF Genuine
  <2>3. QED
    BY <1>1, <1>2, <2>2, NothingRefused
<1>3. QED
  BY <1>1, <1>2 DEF Sound

LEMMA RefusalStep ==
  ASSUME AdmissionInv, [Next]_vars
  PROVE  Refusal'
<1> DEFINE Refused == failure \in {"invalid", "limit", "collision", "mismatch", "corrupt", "missing", "absent"}
<1> SUFFICES ASSUME Ended', Steady', phase' = "extract", Refused' PROVE FALSE
  BY DEF Refusal
<1>1. ReadInv /\ DestinationInv
  BY DEF AdmissionInv, GivingInv
<1>2. Steady
  BY <1>1, SteadyWas
<1>3. phase = "extract"
  BY TurnsOnly DEF Turning, AllRead, Ended
<1>4. CASE Ended
  <2>1. UNCHANGED <<failure, status>>
    BY <1>4 DEF Ended, Next, Step, Done, vars, OpenLayer, AtLayer, ScanEntry, VerifyEntry, AtEntry,
       CreateFile, WriteFile, CopyFails, CloseFails, EndLayer, FindMismatch, ReadFails, EndScan,
       EndDiff, EndExtract, EndVerify, AllRead, Cancel, Alter
  <2>2. QED
    BY <1>2, <1>3, <1>4, <2>1 DEF AdmissionInv, Refusal
<1>5. CASE ~Ended
  <2>0. failure = "none"
    BY <1>1, <1>5 DEF DestinationInv, Typing
  <2>1. at \in Chosen => /\ blob[Opened].kind = "tar"
                         /\ status \in {"reading", "writing"} =>
                              /\ Genuine /\ stream.end = "eof" /\ ~Cut /\ ~TailOver
                              /\ next \in DOMAIN stream.entries => ~Invalid(Entry) /\ ~OverNow
    BY <1>2, <1>3, <1>5, SecondReading
  <2>2. (status \in {"reading", "writing"} => at \in Chosen) /\ (AtLayer => at \in Chosen)
    BY <1>1, NotPastTheLayers DEF ReadInv, Position, Shape
  <2>3. \A why : Trouble(why) <=> Fail(why)
    BY <1>3 DEF Trouble
  <2>4. \A why : Fail(why) \/ Stop(why) => failure' = why
    BY DEF Fail, Stop
  <2>5. CASE OpenLayer
    BY <1>3, <2>0, <2>1, <2>2, <2>3, <2>4, <2>5 DEF OpenLayer, Ended
  <2>6. CASE CreateFile
    <3>1. ~Invalid(Entry) /\ ~OverNow
      BY <2>1, <2>2, <2>6 DEF CreateFile, AtEntry
    <3>2. QED
      BY <2>0, <2>4, <2>6, <3>1 DEF CreateFile
  <2>7. CASE CopyFails
    <3>1. Genuine /\ ~Cut
      BY <2>1, <2>2, <2>7 DEF CopyFails
    <3>2. QED
      BY <2>4, <2>7, <3>1 DEF CopyFails, Genuine
  <2>8. CASE CloseFails \/ ReadFails \/ EndExtract \/ Cancel
    BY <2>3, <2>4, <2>8 DEF CloseFails, ReadFails, EndExtract, Cancel
  <2>9. CASE EndLayer \/ FindMismatch
    BY <2>0, <2>1, <2>2, <2>3, <2>4, <2>9 DEF EndLayer, FindMismatch, Leave
  <2>10. CASE ScanEntry \/ VerifyEntry \/ EndScan \/ EndDiff \/ EndVerify
    BY <1>3, <2>10 DEF ScanEntry, VerifyEntry, EndScan, EndDiff, EndVerify
  <2>11. CASE WriteFile \/ (\E i \in DOMAIN Layers : Alter(i)) \/ UNCHANGED vars
    BY <1>5, <2>0, <2>11 DEF WriteFile, PassEntry, Alter, vars, Ended
  <2>12. QED
    BY <2>5, <2>6, <2>7, <2>8, <2>9, <2>10, <2>11 DEF Next, Step, Done
<1>6. QED
  BY <1>4, <1>5

LEMMA FirstIsFirst ==
  ASSUME job \in Jobs, NEW i, Following(1, i), NEW k \in Chosen
  PROVE  ~(k < i)
<1>1. k \in DOMAIN Layers
  BY NotPastTheLayers
<1>2. k \in Nat /\ k >= 1 /\ Len(Layers) \in Nat
  BY <1>1, LayersTyped
<1>3. i \in 1..(Len(Layers) + 1) /\ \A m \in 1..(i - 1) : m \notin Chosen
  BY DEF Following
<1>4. i \in Nat
  BY <1>2, <1>3
<1>5. k < i => k \in 1..(i - 1)
  BY <1>2, <1>4
<1>6. QED
  BY <1>3, <1>5

LEMMA AdmissionStart == Init => AdmissionInv
<1> SUFFICES ASSUME Init PROVE AdmissionInv
  OBVIOUS
<1>1. status = "opening" /\ phase # "extract" /\ job \in Jobs /\ Following(1, at)
  BY DEF Init
<1>2. \A k \in Chosen : ~(k < at)
  BY <1>1, FirstIsFirst
<1>3. Summed /\ Cleared /\ Admitted /\ Agreed /\ Refusal
  BY <1>1, <1>2 DEF Summed, Cleared, Admitted, Agreed, Refusal, Sure
<1>4. QED
  BY <1>3, GivingStart DEF AdmissionInv

LEMMA AdmissionStep == AdmissionInv /\ [Next]_vars => AdmissionInv'
<1> SUFFICES ASSUME AdmissionInv, [Next]_vars PROVE AdmissionInv'
  OBVIOUS
<1>1. GivingInv' /\ DestinationInv /\ ReadInv
  BY GivingStep DEF AdmissionInv, GivingInv
<1>2. Summed' /\ Cleared' /\ Admitted' /\ Agreed'
  BY <1>1, SummedStep, ClearedStep, AdmittedStep, AgreedStep DEF AdmissionInv
<1>3. QED
  BY <1>1, <1>2, RefusalStep DEF AdmissionInv

\* In a layout that stays as it is, an extraction refuses nothing once it has begun to write:
\* every comparison of its second reading comes out as that of the scan, which counts files
\* and bytes another way (archive.Scan, archive.ExtractContext, checkNoCollisions).
THEOREM RefusesFirst == Spec => []RefusesBeforeWriting
<1>1. AdmissionInv => RefusesBeforeWriting
  <2> SUFFICES ASSUME AdmissionInv, Ended, Steady,
                      failure \in {"invalid", "limit", "collision", "mismatch", "corrupt"}
               PROVE  dest = job.before
    BY DEF RefusesBeforeWriting
  <2>1. phase # "extract"
    BY DEF AdmissionInv, Refusal
  <2>2. QED
    BY <2>1 DEF AdmissionInv, GivingInv, Untouched
<1>2. QED
  BY <1>1, AdmissionStart, AdmissionStep, PTL DEF Spec

------------------------------------------------------------------------------
(***************************************************************************)
(* When a call succeeds.                                                   *)
(***************************************************************************)

Free == {"absent", "directory"}

HasRoom(h) ==
  /\ \A p \in Prefixes(PlaceOf(h)) \ {PlaceOf(h)} : job.before[p].kind \in Free
  /\ job.before[PlaceOf(h)].kind \in {"absent"} \cup (IF job.overwrite THEN {"file"} ELSE {})

Fitted ==
  Going /\ phase = "extract" =>
    /\ \A h \in Begun : HasRoom(h)
    /\ (status \in {"reading", "writing"} \/ \E k \in Chosen : k < at) =>
         job.before[<<>>].kind \in Free

Can ==
  /\ ~Unmatched
  /\ Intact
  /\ \A k \in Chosen : Sound(Named(k)) /\ Fits(Named(k), TRUE)
  /\ job.op = "extract" => ~Collision(HeldPaths) /\ Room

Permitted ==
  Steady /\ Can /\ job.op # "verify" => failure \in {"none", "io", "cancelled", "close"}

SuccessInv == AdmissionInv /\ Fitted /\ Permitted

\* What the extraction finds free was free.
LEMMA WasFree ==
  ASSUME DestinationInv, ~Ended, NEW p \in Places
  PROVE  /\ dest[p].kind \in Free => job.before[p].kind \in Free
         /\ SafeTarget(p) =>
              job.before[p].kind \in {"absent"} \cup (IF job.overwrite THEN {"file"} ELSE {})
<1>1. job.before[p] = Absent \/ dest[p].kind # "absent"
  BY DEF DestinationInv, Standing
<1>2. \/ dest[p] = job.before[p]
      \/ job.before[p] = Absent
      \/ job.overwrite /\ job.before[p].kind = "file" /\ dest[p].kind \in {"file", "absent"}
  BY DEF DestinationInv, KeepsWhatWasThere
<1>3. Absent.kind = "absent"
  BY Kinds
<1>4. dest[p].kind \in Free => job.before[p].kind \in Free
  BY <1>1, <1>2, <1>3 DEF Free
<1>5. SafeTarget(p) =>
        job.before[p].kind \in {"absent"} \cup (IF job.overwrite THEN {"file"} ELSE {})
  BY <1>1, <1>2, <1>3 DEF SafeTarget
<1>6. QED
  BY <1>4, <1>5

LEMMA FittedStep ==
  ASSUME AdmissionInv, Fitted, [Next]_vars
  PROVE  Fitted'
<1> SUFFICES ASSUME Going', phase' = "extract"
             PROVE  (/\ \A h \in Begun : HasRoom(h)
                     /\ (status \in {"reading", "writing"} \/ \E k \in Chosen : k < at) =>
                          job.before[<<>>].kind \in Free)'
  BY DEF Fitted
<1>1. Going /\ ReadInv /\ DestinationInv /\ job \in Jobs /\ DOMAIN dest = Places
  BY WasGoing DEF AdmissionInv, GivingInv, ReadInv, Shape
<1>2. UNCHANGED job /\ Chosen' = Chosen
  BY JobKept, JobStays
<1>3. Held' = Held /\ (\A h : PlaceOf(h)' = PlaceOf(h)) /\ (\A h : HasRoom(h)' = HasRoom(h))
  <2>1. Held' = Held /\ (\A h : PlaceOf(h)' = PlaceOf(h))
    BY <1>2, HeldStays, PlaceStays
  <2>2. QED
    BY <1>2, <2>1 DEF HasRoom
<1>4. phase = "extract" =>
        /\ \A h \in Begun : HasRoom(h)
        /\ (status \in {"reading", "writing"} \/ \E k \in Chosen : k < at) =>
             job.before[<<>>].kind \in Free
  BY <1>1 DEF Fitted
<1>5. CASE Leaving
  <2>1. Behind' = Behind /\ UNCHANGED phase /\ status = "reading" /\ status' = "opening"
    BY <1>1, <1>5, BehindLeft DEF Leaving, Leave
  <2>2. Begun' = Begun
    BY <2>1 DEF Begun
  <2>3. QED
    BY <1>2, <1>3, <1>4, <2>1, <2>2
<1>6. CASE Ending \/ Idling
  <2>1. Behind' = Behind /\ UNCHANGED <<phase, at, next>>
        /\ (status' = status \/ (status = "opening" /\ status' = "ended"))
    BY <1>6, BehindStays DEF Ending, Idling, layerVars, AllRead, Ended
  <2>2. Begun' = Begun
    BY <2>1 DEF Begun
  <2>3. QED
    BY <1>2, <1>3, <1>4, <2>1, <2>2
<1>7. CASE Turning
  <2>1. status' = "opening" /\ next' = 1 /\ \E i : Following(1, i) /\ at' = i
    BY <1>1, <1>7 DEF Turning, AllRead, ReadInv, Position
  <2>2. \A h \in Held : ~(h[1] < at') /\ h[2] \in Nat \ {0}
    BY <1>1, <2>1, BehindAtFirst, HeldIsTyped
  <2>3. Begun' = {}
    BY <1>3, <2>1, <2>2 DEF Begun, Behind
  <2>4. \A k \in Chosen : ~(k < at')
    BY <1>1, <2>1, FirstIsFirst
  <2>5. QED
    BY <1>2, <2>1, <2>3, <2>4
<1>8. CASE Counting
  BY <1>8 DEF Counting, PassEntry
<1>9. CASE Opening
  <2>1. phase = "extract" /\ DirectoryPath(<<>>) /\ ~Ended
    BY <1>9 DEF Opening, AtLayer, Ended
  <2>2. dest[<<>>].kind \in Free
    BY <2>1, PrefixesOfPath, PlacesAreClosed, UnpackAssumption DEF DirectoryPath, Free
  <2>3. job.before[<<>>].kind \in Free
    BY <1>1, <2>1, <2>2, WasFree, UnpackAssumption
  <2>4. Begun' = Begun
    BY <1>9, BehindStays DEF Opening, AtLayer, Begun
  <2>5. QED
    BY <1>2, <1>3, <1>4, <2>1, <2>3, <2>4
<1>10. CASE Creating
  <2>1. /\ status = "reading" /\ status' = "writing" /\ next \in DOMAIN stream.entries
        /\ ~Invalid(Entry) /\ phase = "extract" /\ ~Ended
        /\ DirectoryPath(Front(Goal)) /\ SafeTarget(Goal) /\ UNCHANGED <<at, next>>
    BY <1>10 DEF Creating, AtEntry, Ended, layerVars
  <2>2. <<at, next>> \in Held /\ Goal = PlaceOf(<<at, next>>) /\ Goal \in Places /\ Goal # <<>>
    BY <1>1, <2>1, EntryIsHeld, GoalIsBelow
  <2>3. Begun' = Begun \cup {<<at, next>>}
    BY <2>1, BehindStays, <1>2 DEF Begun
  <2>4. Prefixes(Front(Goal)) = Prefixes(Goal) \ {Goal} /\ Prefixes(Goal) \subseteq Places
    BY <2>2, PlacesAreClosed, PrefixesOfPath
  <2>5. \A p \in Prefixes(Goal) \ {Goal} : job.before[p].kind \in Free
    BY <1>1, <2>1, <2>4, WasFree DEF DirectoryPath, Free
  <2>6. job.before[Goal].kind \in {"absent"} \cup (IF job.overwrite THEN {"file"} ELSE {})
    BY <1>1, <2>1, <2>2, WasFree
  <2>7. HasRoom(<<at, next>>)
    BY <2>2, <2>5, <2>6 DEF HasRoom
  <2>8. job.before[<<>>].kind \in Free
    BY <1>4, <2>1
  <2>9. QED
    BY <1>2, <1>3, <1>4, <2>1, <2>3, <2>7, <2>8
<1>11. CASE WriteFile
  <2>1. /\ PassEntry /\ status = "writing" /\ status' = "reading" /\ next \in DOMAIN stream.entries
        /\ phase = "extract"
    BY <1>1, <1>11 DEF WriteFile, PassEntry, ReadInv, Position
  <2>2. Begun' = Begun
    BY <1>1, <2>1, BehindPassed DEF Begun, Going
  <2>3. QED
    BY <1>2, <1>3, <1>4, <2>1, <2>2
<1>12. QED
  BY <1>1, <1>5, <1>6, <1>7, <1>8, <1>9, <1>10, <1>11, Advances

------------------------------------------------------------------------------

LEMMA CanStays ==
  ASSUME UNCHANGED <<job, blob>>, phase' = "verify" <=> phase = "verify"
  PROVE  Can' = Can
<1>1. Chosen' = Chosen /\ Layers' = Layers /\ (\A i : Named(i)' = Named(i) /\ FirstOf(i)' = FirstOf(i))
  BY JobStays
<1>2. Unmatched' = Unmatched
  BY DEF Unmatched, Selected, Layers, Typed
<1>3. Intact' = Intact
  BY <1>1 DEF Intact
<1>4. \A k : Sound(Named(k))' = Sound(Named(k)) /\ Fits(Named(k), TRUE)' = Fits(Named(k), TRUE)
  <2>1. \A of : Limit(of)' = Limit(of)
    BY LimitStays
  <2>2. QED
    BY <1>1, <2>1 DEF Sound, Fits, Invalid
<1>5. Held' = Held /\ (\A h : HeldEntry(h)' = HeldEntry(h)) /\ (\A p : Place(p)' = Place(p))
  BY HeldStays, JobStays
<1>6. HeldPaths' = HeldPaths
  BY <1>5 DEF HeldPaths
<1>7. Room' = Room
  BY <1>1, <1>5 DEF Room
<1>8. QED
  BY <1>1, <1>2, <1>3, <1>4, <1>6, <1>7 DEF Can

LEMMA RoomIsForAll ==
  Room <=> (Chosen # {} => job.before[<<>>].kind \in Free) /\ \A h \in Held : HasRoom(h)
BY DEF Room, HasRoom, PlaceOf, Free

LEMMA SuccessIsPossible ==
  ASSUME SuccessInv, Ended, failure = "none", Steady, job.op # "verify"
  PROVE  Can
<1>1. ReadInv /\ phase # "verify" /\ job \in Jobs
  BY DEF SuccessInv, AdmissionInv, GivingInv, ReadInv, Shape
<1>2. Going
  BY <1>1 DEF Going, Ended
<1>3. at \notin DOMAIN Layers /\ ~Unmatched /\ (job.op = "extract" => phase = "extract")
  BY <1>1, <1>2 DEF SuccessInv, AdmissionInv, GivingInv, Outcome
<1>4. \A k \in Chosen : k < at
  <2> TAKE k \in Chosen
  <2>1. k \in DOMAIN Layers /\ at = Len(Layers) + 1
    BY <1>1, <1>3, NotPastTheLayers DEF ReadInv, Position
  <2>2. QED
    BY <1>1, <2>1, LayersTyped
<1>5. \A k \in Chosen : Sure(k)
  BY <1>2, <1>4 DEF Sure
<1>6. Intact
  BY <1>5 DEF Intact, SuccessInv, AdmissionInv, Agreed
<1>7. \A k \in Chosen : Sound(Named(k)) /\ Fits(Named(k), TRUE)
  <2>1. (phase # "verify") = TRUE
    BY <1>1
  <2>2. QED
    BY <1>5, <2>1 DEF SuccessInv, AdmissionInv, Admitted
<1>8. ASSUME job.op = "extract" PROVE ~Collision(HeldPaths) /\ Room
  <2>1. phase = "extract"
    BY <1>3, <1>8
  <2>2. ~Collision(HeldPaths)
    BY <1>1, <1>2, <2>1, NothingCollides DEF SuccessInv, AdmissionInv, GivingInv
  <2>3. Held \subseteq Begun
    BY <1>1, <1>3, BehindAtLast DEF Begun
  <2>4. (Chosen # {} => job.before[<<>>].kind \in Free) /\ \A h \in Held : HasRoom(h)
    BY <1>2, <1>4, <2>1, <2>3 DEF SuccessInv, Fitted
  <2>5. QED
    BY <2>2, <2>4, RoomIsForAll
<1>9. QED
  BY <1>3, <1>6, <1>7, <1>8 DEF Can

\* Where a call can succeed, it meets what is named, and that is sound and fits.
LEMMA GoodReading ==
  ASSUME AdmissionInv, Steady, Can, ~Ended, job.op # "verify", at \in Chosen
  PROVE  /\ Going /\ blob[Opened].kind = "tar"
         /\ status \in {"reading", "writing"} =>
              /\ Genuine /\ stream.end = "eof" /\ ~Cut /\ ~TailOver
              /\ next \in DOMAIN stream.entries => ~Invalid(Entry) /\ ~OverNow /\ ~Over
<1>1. /\ ReadInv /\ Summed /\ phase # "verify"
      /\ status \in {"reading", "writing"} => stream = blob[Opened]
  BY DEF AdmissionInv, GivingInv, Agreed, ReadInv, Shape
<1>2. blob[Opened] = Named(at) /\ Sound(Named(at)) /\ Fits(Named(at), TRUE)
  BY DEF Can, Intact, Opened
<1>3. Going
  BY <1>1, <1>2 DEF Going, Genuine
<1>4. blob[Opened].kind = "tar"
  BY <1>2 DEF Sound
<1>5. ASSUME status \in {"reading", "writing"}
      PROVE  /\ Genuine /\ stream.end = "eof" /\ ~Cut /\ ~TailOver
             /\ next \in DOMAIN stream.entries => ~Invalid(Entry) /\ ~OverNow /\ ~Over
  <2>1. stream = Named(at) /\ (phase # "verify") = TRUE
    BY <1>1, <1>2, <1>5
  <2>2. Sound(stream) /\ Fits(stream, phase # "verify")
    BY <1>2, <2>1
  <2>3. QED
    BY <1>1, <1>5, <2>1, <2>2, NothingRefused DEF Genuine
<1>6. QED
  BY <1>3, <1>4, <1>5

\* No entry of a sound component stands at the destination itself.
LEMMA HeldIsBelow ==
  ASSUME job \in Jobs, Can, NEW h \in Held
  PROVE  PlaceOf(h) # <<>>
<1>1. h[1] \in Chosen /\ h[2] \in DOMAIN Named(h[1]).entries /\ HeldEntry(h) \in Entries
  BY HeldIsTyped
<1>2. HeldEntry(h) \in Range(Named(h[1]).entries)
  BY <1>1 DEF HeldEntry, Range
<1>3. ~Invalid(HeldEntry(h))
  BY <1>1, <1>2 DEF Can, Sound
<1>4. HeldEntry(h).path # <<>> /\ HeldEntry(h).path \in Places
  BY <1>1, <1>3 DEF Invalid, Entries
<1>5. QED
  BY <1>4, PlaceIsBelow DEF PlaceOf

LEMMA BegunIsHeld ==
  ASSUME ReadInv, Going
  PROVE  Begun \subseteq Held
<1>1. Behind \subseteq Held
  BY DEF Behind
<1>2. CASE status = "writing"
  <2>1. next \in DOMAIN stream.entries
    BY <1>2 DEF ReadInv, Position
  <2>2. <<at, next>> \in Held
    BY <1>2, <2>1, EntryIsHeld
  <2>3. QED
    BY <1>1, <2>2 DEF Begun
<1>3. CASE status # "writing"
  BY <1>1, <1>3 DEF Begun
<1>4. QED
  BY <1>2, <1>3

\* Where there is room, the destination can be made.
LEMMA RootIsFree ==
  ASSUME AdmissionInv, Can, Going, phase = "extract", at \in Chosen, job.op = "extract"
  PROVE  DirectoryPath(<<>>)
<1>1. ReadInv /\ job \in Jobs /\ Laid
  BY DEF AdmissionInv, GivingInv, ReadInv, Shape
<1>2. job.before[<<>>].kind \in Free /\ <<>> \in Places
  BY RoomIsForAll, UnpackAssumption DEF Can
<1>3. \A h \in Begun : PlaceOf(h) # <<>>
  BY <1>1, BegunIsHeld, HeldIsBelow
<1>4. dest[<<>>].kind \in Free
  <2>1. dest[<<>>] = job.before[<<>>] \/ dest[<<>>] = Directory
    BY <1>1, <1>2, <1>3 DEF Laid
  <2>2. QED
    BY <1>2, <2>1, Kinds DEF Free
<1>5. Prefixes(<<>>) = {<<>>}
  BY <1>2, PlacesAreClosed, PrefixesOfPath
<1>6. QED
  BY <1>4, <1>5 DEF DirectoryPath, Free

\* Where there is room, each file can be created.
LEMMA FileHasRoom ==
  ASSUME AdmissionInv, Can, Going, phase = "extract", job.op = "extract",
         status = "reading", next \in DOMAIN stream.entries, ~Invalid(Entry)
  PROVE  DirectoryPath(Front(Goal)) /\ SafeTarget(Goal)
<1> DEFINE e == <<at, next>>
<1>1. ReadInv /\ job \in Jobs /\ Laid
  BY DEF AdmissionInv, GivingInv, ReadInv, Shape
<1>2. e \in Held /\ e \notin Behind /\ Goal = PlaceOf(e) /\ Goal \in Places /\ Goal # <<>>
  BY <1>1, EntryIsHeld, GoalIsBelow
<1>3. Begun = Behind /\ Behind \subseteq Held
  BY DEF Begun, Behind
<1>4. ~Collision(HeldPaths) /\ HasRoom(e)
  BY <1>2, RoomIsForAll DEF Can
<1>5. Goal \in Prefixes(Goal) /\ Prefixes(Goal) \subseteq Places
      /\ Prefixes(Front(Goal)) = Prefixes(Goal) \ {Goal}
  BY <1>2, PlacesAreClosed, PrefixesOfPath
<1>6. \A h \in Begun : PlaceOf(h) \notin Prefixes(Goal)
  BY <1>1, <1>2, <1>3, <1>4, PlacesApart
<1>7. ~OnTheWay(Goal)
  <2>1. ASSUME NEW h \in Held, Goal \in Prefixes(PlaceOf(h)), Goal # PlaceOf(h) PROVE FALSE
    <3>1. h # e
      BY <1>2, <2>1
    <3>2. QED
      BY <1>1, <1>2, <1>4, <2>1, <3>1, PlacesApart
  <2>2. QED
    BY <1>2, <2>1 DEF OnTheWay
<1>8. \A p \in Prefixes(Goal) \ {Goal} : dest[p].kind \in Free
  <2> TAKE p \in Prefixes(Goal) \ {Goal}
  <2>1. p \in Places
    BY <1>5
  <2>2. job.before[p].kind \in Free
    BY <1>2, <1>4 DEF HasRoom
  <2>3. dest[p] = job.before[p] \/ dest[p] = Directory
    BY <1>1, <1>6, <2>1 DEF Laid
  <2>4. QED
    BY <2>2, <2>3, Kinds DEF Free
<1>9. dest[Goal] = job.before[Goal]
  BY <1>1, <1>2, <1>5, <1>6, <1>7 DEF Laid
<1>10. SafeTarget(Goal)
  BY <1>2, <1>4, <1>9 DEF HasRoom, SafeTarget
<1>11. QED
  BY <1>5, <1>8, <1>10 DEF DirectoryPath, Free

LEMMA PermittedStep ==
  ASSUME SuccessInv, [Next]_vars
  PROVE  Permitted'
<1> DEFINE Ok == {"none", "io", "cancelled", "close"}
<1> SUFFICES ASSUME Steady', Can', job'.op # "verify" PROVE failure' \in Ok
  BY DEF Permitted
<1>1. AdmissionInv /\ ReadInv /\ DestinationInv /\ job \in Jobs
  BY DEF SuccessInv, AdmissionInv, GivingInv, ReadInv, Shape
<1>2. UNCHANGED <<job, blob>> /\ Steady
  BY <1>1, JobKept, SteadyWas
<1>3. phase # "verify" /\ phase' # "verify"
  BY <1>1, <1>2, ReadStep DEF ReadInv, Shape
<1>4. Can /\ job.op # "verify"
  BY <1>2, <1>3, CanStays
<1>5. failure \in Ok
  BY <1>2, <1>4 DEF SuccessInv, Permitted
<1>6. CASE UNCHANGED failure
  BY <1>5, <1>6
<1>7. CASE ~Ended
  <2> USE <1>7
  <2>0. failure = "none"
    BY <1>1 DEF DestinationInv, Typing
  <2>1. at \in Chosen =>
          /\ Going /\ blob[Opened].kind = "tar"
          /\ status \in {"reading", "writing"} =>
               /\ Genuine /\ stream.end = "eof" /\ ~Cut /\ ~TailOver
               /\ next \in DOMAIN stream.entries => ~Invalid(Entry) /\ ~OverNow /\ ~Over
    BY <1>1, <1>2, <1>4, GoodReading
  <2>2. /\ AtLayer => at \in Chosen
        /\ status \in {"reading", "writing"} => at \in Chosen
    BY <1>1, NotPastTheLayers DEF ReadInv, Position
  <2>3. phase = "extract" => job.op = "extract"
    <3>1. at \in Chosen => Going
      BY <2>1
    <3>2. at \notin Chosen => Going
      BY <1>3, <2>2 DEF Going
    <3>3. QED
      BY <1>1, <3>1, <3>2 DEF AdmissionInv, GivingInv, Outcome
  <2>4. CASE OpenLayer
    <3>1. AtLayer /\ at \in Chosen /\ blob[Opened].kind = "tar"
      BY <2>1, <2>2, <2>4 DEF OpenLayer
    <3>2. phase = "extract" => DirectoryPath(<<>>)
      BY <1>1, <1>4, <2>1, <2>3, <3>1, RootIsFree
    <3>3. UNCHANGED failure
      BY <2>4, <3>1, <3>2 DEF OpenLayer
    <3>4. QED
      BY <1>6, <3>3
  <2>5. CASE ScanEntry
    BY <1>6, <2>1, <2>2, <2>5 DEF ScanEntry, AtEntry, PassEntry
  <2>6. CASE CreateFile
    <3>1. /\ phase = "extract" /\ status = "reading" /\ next \in DOMAIN stream.entries
          /\ at \in Chosen /\ ~Invalid(Entry) /\ ~OverNow
      BY <2>1, <2>2, <2>6 DEF CreateFile, AtEntry
    <3>2. DirectoryPath(Front(Goal)) /\ SafeTarget(Goal)
      BY <1>1, <1>4, <2>1, <2>3, <3>1, FileHasRoom
    <3>3. UNCHANGED failure \/ failure' = "io"
      BY <2>6, <3>1, <3>2 DEF CreateFile, Stop
    <3>4. QED
      BY <1>6, <3>3
  <2>7. CASE CopyFails
    <3>1. at \in Chosen /\ ~Cut /\ Genuine
      BY <2>1, <2>2, <2>7 DEF CopyFails
    <3>2. failure' \in {"io", "cancelled"}
      BY <2>7, <3>1 DEF CopyFails, Stop, Genuine
    <3>3. QED
      BY <3>2
  <2>8. CASE EndLayer
    <3>1. at \in Chosen /\ stream.end = "eof" /\ ~TailOver
      BY <2>1, <2>2, <2>8 DEF EndLayer
    <3>2. UNCHANGED failure
      BY <2>8, <3>1 DEF EndLayer, Leave
    <3>3. QED
      BY <1>6, <3>2
  <2>9. CASE FindMismatch
    BY <2>1, <2>2, <2>9 DEF FindMismatch
  <2>10. CASE EndScan
    <3>1. phase = "scan" /\ AllRead /\ job.op # "diff" /\ ~Unmatched
      BY <1>4, <2>10 DEF EndScan, Can
    <3>2. Going
      BY <3>1 DEF Going, AllRead, Ended
    <3>3. Passed = Held
      BY <1>1, <3>1, BehindAtLast DEF Passed, AllRead
    <3>4. PICK f : Records(f)
      BY <1>1, <3>2 DEF AdmissionInv, GivingInv, Counted
    <3>5. job.op = "extract" => ~Collision(Listed)
      BY <1>1, <1>4, <3>3, <3>4, CollisionsAreListed DEF Can
    <3>6. failure' = "none" \/ UNCHANGED failure
      BY <2>10, <3>1, <3>5 DEF EndScan, Fail, Stop
    <3>7. QED
      BY <1>6, <3>6
  <2>11. CASE EndDiff
    <3>1. UNCHANGED failure
      BY <1>4, <2>11 DEF EndDiff, Can
    <3>2. QED
      BY <1>6, <3>1
  <2>12. CASE ReadFails \/ CloseFails \/ EndExtract \/ Cancel
    BY <1>3, <2>12 DEF ReadFails, CloseFails, EndExtract, Cancel, Trouble, Fail, Stop
  <2>13. CASE VerifyEntry \/ EndVerify
    BY <1>3, <2>13 DEF VerifyEntry, EndVerify
  <2>14. CASE WriteFile \/ UNCHANGED vars \/ \E i \in DOMAIN Layers : Alter(i)
    BY <1>6, <2>14 DEF WriteFile, PassEntry, vars, Alter
  <2>15. QED
    BY <2>4, <2>5, <2>6, <2>7, <2>8, <2>9, <2>10, <2>11, <2>12, <2>13, <2>14 DEF Next, Step, Done
<1>8. CASE Ended
  BY <1>6, <1>8 DEF Next, Step, Done, vars, Ended, OpenLayer, ScanEntry, VerifyEntry, CreateFile,
       WriteFile, CopyFails, CloseFails, EndLayer, FindMismatch, ReadFails, EndScan, EndDiff,
       EndExtract, EndVerify, Cancel, Alter, AtLayer, AtEntry, AllRead
<1>9. QED
  BY <1>7, <1>8

LEMMA SuccessStart == Init => SuccessInv
<1> SUFFICES ASSUME Init PROVE SuccessInv
  OBVIOUS
<1>1. AdmissionInv
  BY AdmissionStart
<1>2. Fitted /\ Permitted
  BY DEF Init, Fitted, Permitted
<1>3. QED
  BY <1>1, <1>2 DEF SuccessInv

LEMMA SuccessStep == SuccessInv /\ [Next]_vars => SuccessInv'
<1> SUFFICES ASSUME SuccessInv, [Next]_vars PROVE SuccessInv'
  OBVIOUS
<1>1. AdmissionInv' /\ Fitted'
  BY AdmissionStep, FittedStep DEF SuccessInv
<1>2. QED
  BY <1>1, PermittedStep DEF SuccessInv

\* In a layout that stays as it is, and where no read or write fails, List, Diff and Extract
\* succeed if and only if what they need exists, is what the descriptors name, is sound and
\* within limits, and for Extract collides with nothing and has room at the destination
\* (List, Diff, Extract; archive.Scan, archive.ExtractContext, checkNoCollisions,
\* ensureDirectoryPath, ensureSafeTarget).
THEOREM SucceedsExactlyWhenItCan == Spec => []SucceedsWhenItCan
<1>1. SuccessInv => SucceedsWhenItCan
  <2> SUFFICES ASSUME SuccessInv, Ended, Steady, job.op # "verify",
                      failure \notin {"io", "cancelled", "close"}
               PROVE  failure = "none" <=> Can
    BY DEF SucceedsWhenItCan, Can
  <2>1. failure = "none" => Can
    BY SuccessIsPossible
  <2>2. Can => failure = "none"
    BY DEF SuccessInv, Permitted
  <2>3. QED
    BY <2>1, <2>2
<1>2. QED
  BY <1>1, SuccessStart, SuccessStep, PTL DEF Spec

------------------------------------------------------------------------------
(***************************************************************************)
(* What Verify finds.                                                      *)
(***************************************************************************)

Single == \A i, j \in DOMAIN Layers : Typed(i) = Typed(j) => i = j
FilesHeld(k) == {HeldEntry(h).path : h \in {g \in Held : g[1] = k}}
Configured(k) ==
  /\ Config[Typed(k)].entry # <<>> => Config[Typed(k)].entry \in FilesHeld(k)
  /\ Config[Typed(k)].localeEntry # <<>> => Config[Typed(k)].localeEntry \in Config[Typed(k)].locale
  /\ Config[Typed(k)].locale \subseteq {p \in FilesHeld(k) : IsDocument(p)}

Issued == job.op = "verify" => MetadataIssues \subseteq report

Concluded ==
  Going /\ Ended /\ job.op = "verify" /\ ~job.metadataOnly =>
    ~Unmatched /\ ~EntrypointMissing /\ ~Collision(Listed) /\ ~LocaleWrong

Blameless ==
  Steady /\ Intact /\ Valid /\ job.op = "verify" /\ "io" \notin report => report = {}

VerdictInv == AdmissionInv /\ Issued /\ Concluded /\ Blameless

LEMMA ValidIs ==
  Valid <=> /\ Layers # <<>> /\ (job.metadataOnly \/ ~Unmatched)
            /\ Single
            /\ DOMAIN Config = TypesOf(DOMAIN Layers)
            /\ \A k \in Chosen : Sound(Named(k)) /\ Fits(Named(k), FALSE)
            /\ ~Collision(HeldPaths)
            /\ \A k \in Chosen : Configured(k)
BY DEF Valid, Single, TypesOf, Configured, FilesHeld

LEMMA FindingsStay ==
  ASSUME UNCHANGED job
  PROVE  /\ MetadataIssues' = MetadataIssues /\ Unmatched' = Unmatched
         /\ phase' = "verify" <=> phase = "verify" => Valid' = Valid
         /\ UNCHANGED listed =>
              EntrypointMissing' = EntrypointMissing /\ LocaleWrong' = LocaleWrong
<1>1. /\ Chosen' = Chosen /\ Layers' = Layers /\ Config' = Config
      /\ \A i : Named(i)' = Named(i) /\ Typed(i)' = Typed(i)
  BY JobStays DEF Config, Typed, Layers
<1>2. MetadataIssues' = MetadataIssues
  BY <1>1 DEF MetadataIssues, TypesOf
<1>3. Unmatched' = Unmatched
  BY DEF Unmatched, Selected, Typed, Layers
<1>4. ASSUME phase' = "verify" <=> phase = "verify" PROVE Valid' = Valid
  <2>1. Held' = Held /\ \A h : HeldEntry(h)' = HeldEntry(h)
    BY HeldStays
  <2>2. HeldPaths' = HeldPaths
    BY <2>1 DEF HeldPaths
  <2>3. \A k : Sound(Named(k))' = Sound(Named(k)) /\ Fits(Named(k), FALSE)' = Fits(Named(k), FALSE)
    <3>1. \A of : Limit(of)' = Limit(of)
      BY <1>4, LimitStays
    <3>2. QED
      BY <1>1, <3>1 DEF Sound, Fits, Invalid
  <2>4. \A k : Configured(k)' = Configured(k)
    <3>1. \A k : FilesHeld(k)' = FilesHeld(k)
      BY <2>1 DEF FilesHeld
    <3>2. QED
      BY <1>1, <3>1 DEF Configured, IsDocument
  <2>5. Single' = Single /\ TypesOf(DOMAIN Layers)' = TypesOf(DOMAIN Layers)
    BY <1>1 DEF Single, TypesOf
  <2>6. Valid' <=> Valid
    <3>1. Collision(HeldPaths)' = Collision(HeldPaths)
      BY <2>2 DEF Collision
    <3>2. Valid' <=> (/\ Layers # <<>> /\ (job.metadataOnly \/ ~Unmatched)
                      /\ Single
                      /\ DOMAIN Config = TypesOf(DOMAIN Layers)
                      /\ \A k \in Chosen : Sound(Named(k)) /\ Fits(Named(k), FALSE)
                      /\ ~Collision(HeldPaths)
                      /\ \A k \in Chosen : Configured(k))'
      BY ValidIs, PTL
    <3>3. QED
      BY <1>1, <1>3, <2>3, <2>4, <2>5, <3>1, <3>2, ValidIs
  <2>7. QED
    BY <2>6 DEF Valid
<1>5. ASSUME UNCHANGED listed
      PROVE  EntrypointMissing' = EntrypointMissing /\ LocaleWrong' = LocaleWrong
  <2>1. \A c : FilesOf(c)' = FilesOf(c)
    BY <1>1, <1>5 DEF FilesOf
  <2>2. QED
    BY <1>1, <2>1 DEF EntrypointMissing, LocaleWrong, TypesOf
<1>6. QED
  BY <1>2, <1>3, <1>4, <1>5

\* At the end of a reading without a trouble, the files listed are those named.
LEMMA FilesAreListed ==
  ASSUME ReadInv, Single, NEW f, Records(f), Passed = Held, NEW k \in Chosen
  PROVE  FilesOf(Typed(k)) = FilesHeld(k)
<1>1. job \in Jobs /\ listed \in Seq(Listings) /\ Chosen \subseteq DOMAIN Layers
  BY NotPastTheLayers DEF ReadInv, Shape, Listing
<1>2. /\ \A i \in DOMAIN listed : f[i] \in Held /\ listed[i] = Record(f[i])
      /\ \A h \in Held : \E i \in DOMAIN listed : f[i] = h
  BY DEF Records
<1>3. ASSUME NEW p \in FilesOf(Typed(k)) PROVE p \in FilesHeld(k)
  <2>1. PICK i \in DOMAIN listed : Typed(listed[i].layer) = Typed(k) /\ p = listed[i].path
    BY DEF FilesOf, Range
  <2>2. f[i] \in Held /\ f[i][1] = listed[i].layer /\ HeldEntry(f[i]).path = p
    BY <1>2, <2>1 DEF Record
  <2>3. f[i][1] \in DOMAIN Layers
    BY <1>1, <2>2, HeldIsTyped
  <2>4. f[i][1] = k
    BY <1>1, <2>1, <2>2, <2>3 DEF Single
  <2>5. QED
    BY <2>2, <2>4 DEF FilesHeld
<1>4. ASSUME NEW p \in FilesHeld(k) PROVE p \in FilesOf(Typed(k))
  <2>1. PICK h \in Held : h[1] = k /\ p = HeldEntry(h).path
    BY DEF FilesHeld
  <2>2. PICK i \in DOMAIN listed : f[i] = h
    BY <1>2
  <2>3. listed[i].layer = k /\ listed[i].path = p /\ listed[i] \in Range(listed)
    BY <1>2, <2>1, <2>2 DEF Record, Range
  <2>4. QED
    BY <2>3 DEF FilesOf
<1>5. QED
  BY <1>3, <1>4

\* What Verify concludes of the files is what is to be said of those named.
LEMMA ConclusionIsRight ==
  ASSUME ReadInv, Single, DOMAIN Config = TypesOf(DOMAIN Layers), job.op = "verify",
         ~job.metadataOnly, NEW f, Records(f), Passed = Held
  PROVE  ~EntrypointMissing /\ ~LocaleWrong <=> \A k \in Chosen : Configured(k)
<1>1. \A k \in Chosen : FilesOf(Typed(k)) = FilesHeld(k) /\ k \in DOMAIN Layers
                        /\ job.only \in {All, Typed(k)}
  BY FilesAreListed, NotPastTheLayers DEF ReadInv, Shape, Chosen, Selected
<1>2. \A c \in DOMAIN Config : job.only \in {All, c} => \E k \in Chosen : c = Typed(k)
  BY DEF TypesOf, Chosen, Selected
<1>3. \A k \in Chosen : Typed(k) \in DOMAIN Config \cap TypesOf(Chosen)
  BY <1>1 DEF TypesOf
<1>4. \A c \in DOMAIN Config \cap TypesOf(Chosen) : \E k \in Chosen : c = Typed(k)
  BY DEF TypesOf
<1> DEFINE Entered(c, files) == Config[c].entry \in {<<>>} \cup files
           Located(c, files) == /\ Config[c].localeEntry \in {<<>>} \cup Config[c].locale
                                /\ \A p \in Config[c].locale : p \in files /\ IsDocument(p)
<1>5. ~EntrypointMissing <=> \A k \in Chosen : Entered(Typed(k), FilesHeld(k))
  BY <1>1, <1>3, <1>4 DEF EntrypointMissing
<1>6. ~LocaleWrong <=> \A k \in Chosen : Located(Typed(k), FilesHeld(k))
  BY <1>1, <1>2, <1>3 DEF LocaleWrong
<1>7. QED
  BY <1>5, <1>6 DEF Configured

LEMMA ReportGrows ==
  ASSUME ReadInv, [Next]_vars, job.op = "verify"
  PROVE  report \subseteq report' /\ phase = "verify"
<1>1. phase = "verify"
  BY DEF ReadInv, Shape
<1>2. QED
  BY <1>1 DEF Next, Step, Done, vars, OpenLayer, ScanEntry, VerifyEntry, CreateFile, WriteFile,
       CopyFails, CloseFails, EndLayer, FindMismatch, ReadFails, EndScan, EndDiff, EndExtract,
       EndVerify, Cancel, Alter, Trouble, Fail, Stop, Leave

LEMMA IssuedStep ==
  ASSUME ReadInv, Issued, [Next]_vars
  PROVE  Issued'
BY JobKept, ReportGrows, FindingsStay DEF Issued

LEMMA ConcludedStep ==
  ASSUME GivingInv, Concluded, [Next]_vars
  PROVE  Concluded'
<1> SUFFICES ASSUME Going', Ended', job'.op = "verify", ~job'.metadataOnly
             PROVE  (~Unmatched /\ ~EntrypointMissing /\ ~Collision(Listed) /\ ~LocaleWrong)'
  BY DEF Concluded
<1>1. ReadInv /\ DestinationInv /\ Going /\ UNCHANGED job
  BY WasGoing, JobKept DEF GivingInv
<1>2. phase = "verify" /\ report' = {}
  BY <1>1, ReportGrows, ReadStep DEF Going, ReadInv, Shape
<1>3. CASE Ending
  <2>1. EndVerify
    BY <1>2, <1>3 DEF Ending
  <2>2. ~Unmatched /\ ~EntrypointMissing /\ ~Collision(Listed) /\ ~LocaleWrong
    BY <1>1, <1>2, <2>1 DEF EndVerify
  <2>3. UNCHANGED <<job, listed>>
    BY <2>1 DEF EndVerify
  <2>4. QED
    BY <2>2, <2>3, FindingsStay, OutcomeStays
<1>4. CASE Idling
  <2>1. ~Unmatched /\ ~EntrypointMissing /\ ~Collision(Listed) /\ ~LocaleWrong
    BY <1>1, <1>4 DEF Idling, Ended, Concluded
  <2>2. UNCHANGED <<job, listed>>
    BY <1>4 DEF Idling
  <2>3. QED
    BY <2>1, <2>2, FindingsStay, OutcomeStays
<1>5. CASE Opening \/ Counting \/ Creating \/ WriteFile \/ Leaving
  BY <1>5 DEF Opening, Counting, Creating, WriteFile, Leaving, PassEntry, Leave, Ended
<1>6. CASE Turning
  BY <1>2, <1>6 DEF Turning
<1>7. QED
  BY <1>1, <1>3, <1>4, <1>5, <1>6, Advances

\* What Verify reads of a valid artifact in an intact layout meets no trouble but "io".
LEMMA BlamelessStep ==
  ASSUME AdmissionInv, Issued, Blameless, [Next]_vars
  PROVE  Blameless'
<1> SUFFICES ASSUME Steady', Intact', Valid', job'.op = "verify", "io" \notin report'
             PROVE  report' = {}
  BY DEF Blameless
<1>1. ReadInv /\ DestinationInv /\ Summed /\ Counted /\ job \in Jobs
  BY DEF AdmissionInv, GivingInv, ReadInv, Shape
<1>2. UNCHANGED <<job, blob>> /\ Steady /\ job.op = "verify"
  BY <1>1, JobKept, SteadyWas
<1>3. phase = "verify" /\ phase' = "verify" /\ "io" \notin report
  BY <1>1, <1>2, ReportGrows, ReadStep DEF ReadInv, Shape
<1>4. Valid /\ Intact
  <2>1. Chosen' = Chosen /\ \A k : Named(k)' = Named(k) /\ FirstOf(k)' = FirstOf(k)
    BY <1>2, JobStays
  <2>2. QED
    BY <1>2, <1>3, <2>1, FindingsStay DEF Intact
<1>5. report = {}
  BY <1>2, <1>3, <1>4 DEF Blameless
<1>6. /\ Layers # <<>> /\ (job.metadataOnly \/ ~Unmatched) /\ Single
      /\ DOMAIN Config = TypesOf(DOMAIN Layers)
      /\ \A k \in Chosen : Sound(Named(k)) /\ Fits(Named(k), FALSE)
      /\ ~Collision(HeldPaths) /\ \A k \in Chosen : Configured(k)
  BY <1>4, ValidIs
<1>7. CASE UNCHANGED report
  BY <1>5, <1>7
<1>8. at \in Chosen =>
        /\ blob[Opened].kind = "tar"
        /\ status \in {"reading", "writing"} =>
             /\ Genuine /\ stream.end = "eof" /\ ~Cut /\ ~TailOver
             /\ next \in DOMAIN stream.entries => ~Invalid(Entry) /\ ~OverNow /\ ~Over
  <2> SUFFICES ASSUME at \in Chosen
               PROVE  /\ blob[Opened].kind = "tar"
                      /\ status \in {"reading", "writing"} =>
                           /\ Genuine /\ stream.end = "eof" /\ ~Cut /\ ~TailOver
                           /\ next \in DOMAIN stream.entries => ~Invalid(Entry) /\ ~OverNow /\ ~Over
    OBVIOUS
  <2>1. blob[Opened] = Named(at) /\ Sound(Named(at)) /\ Fits(Named(at), FALSE)
    BY <1>4, <1>6 DEF Intact, Opened
  <2>2. ASSUME status \in {"reading", "writing"}
        PROVE  /\ Genuine /\ stream.end = "eof" /\ ~Cut /\ ~TailOver
               /\ next \in DOMAIN stream.entries => ~Invalid(Entry) /\ ~OverNow /\ ~Over
    <3>1. stream = Named(at) /\ (phase # "verify") = FALSE
      BY <1>2, <1>3, <2>1, <2>2 DEF AdmissionInv, Agreed
    <3>2. Sound(stream) /\ Fits(stream, phase # "verify")
      BY <2>1, <3>1
    <3>3. QED
      BY <1>1, <2>2, <3>1, <3>2, NothingRefused DEF Genuine
  <2>3. QED
    BY <2>1, <2>2 DEF Sound
<1>9. /\ AtLayer => at \in Chosen
      /\ status \in {"reading", "writing"} => at \in Chosen
  BY <1>1, NotPastTheLayers DEF ReadInv, Position
<1>10. CASE OpenLayer
  <2>1. AtLayer /\ at \in Chosen /\ blob[Opened].kind = "tar"
    BY <1>8, <1>9, <1>10 DEF OpenLayer
  <2>2. UNCHANGED report
    BY <1>3, <1>10, <2>1 DEF OpenLayer
  <2>3. QED
    BY <1>7, <2>2
<1>11. CASE VerifyEntry
  BY <1>7, <1>8, <1>9, <1>11 DEF VerifyEntry, AtEntry
<1>12. CASE EndLayer
  <2>1. at \in Chosen /\ stream.end = "eof" /\ ~TailOver
    BY <1>8, <1>9, <1>12 DEF EndLayer
  <2>2. UNCHANGED report
    BY <1>12, <2>1 DEF EndLayer
  <2>3. QED
    BY <1>7, <2>2
<1>13. CASE FindMismatch
  BY <1>8, <1>9, <1>13 DEF FindMismatch
<1>14. CASE ReadFails
  BY <1>3, <1>14 DEF ReadFails, Trouble
<1>15. CASE EndVerify /\ ~job.metadataOnly
  <2>1. AllRead /\ ~Unmatched
    BY <1>6, <1>15 DEF EndVerify
  <2>2. Going
    BY <1>1, <1>5, <2>1 DEF Going, AllRead, Ended
  <2>3. Passed = Held
    BY <1>1, <1>3, <2>1, BehindAtLast DEF Passed, AllRead
  <2>4. PICK f : Records(f)
    BY <1>1, <2>2 DEF Counted
  <2>5. ~Collision(Listed)
    BY <1>1, <1>6, <2>3, <2>4, CollisionsAreListed
  <2>6. ~EntrypointMissing /\ ~LocaleWrong
    BY <1>1, <1>2, <1>6, <1>15, <2>3, <2>4, ConclusionIsRight
  <2>7. QED
    BY <1>5, <1>15, <2>1, <2>5, <2>6 DEF EndVerify
<1>16. CASE EndVerify /\ job.metadataOnly
  BY <1>5, <1>16 DEF EndVerify
<1>17. CASE Cancel \/ UNCHANGED vars \/ \E i \in DOMAIN Layers : Alter(i)
  BY <1>7, <1>17 DEF Cancel, Fail, Stop, vars, Alter
<1>18. CASE ScanEntry \/ EndScan \/ EndDiff \/ CreateFile \/ EndExtract
  BY <1>3, <1>18 DEF ScanEntry, EndScan, EndDiff, CreateFile, EndExtract
<1>19. CASE WriteFile \/ CopyFails \/ CloseFails
  BY <1>7, <1>19 DEF WriteFile, CopyFails, CloseFails, Fail, Stop
<1>20. QED
  BY <1>10, <1>11, <1>12, <1>13, <1>14, <1>15, <1>16, <1>17, <1>18, <1>19 DEF Next, Step, Done

LEMMA VerdictStart == Init => VerdictInv
<1> SUFFICES ASSUME Init PROVE VerdictInv
  OBVIOUS
<1>1. AdmissionInv
  BY AdmissionStart
<1>2. Issued /\ Concluded
  BY DEF Init, Issued, Concluded, Ended
<1>3. Blameless
  <2> SUFFICES ASSUME Valid, job.op = "verify" PROVE report = {}
    BY DEF Blameless
  <2>1. Layers # <<>> /\ Single /\ DOMAIN Config = TypesOf(DOMAIN Layers)
    BY ValidIs
  <2>2. MetadataIssues = {}
    BY <2>1 DEF MetadataIssues, Single
  <2>3. QED
    BY <2>2 DEF Init
<1>4. QED
  BY <1>1, <1>2, <1>3 DEF VerdictInv

LEMMA VerdictStep == VerdictInv /\ [Next]_vars => VerdictInv'
<1> SUFFICES ASSUME VerdictInv, [Next]_vars PROVE VerdictInv'
  OBVIOUS
<1>1. AdmissionInv /\ GivingInv /\ ReadInv
  BY DEF VerdictInv, AdmissionInv, GivingInv
<1>2. AdmissionInv' /\ Issued' /\ Concluded' /\ Blameless'
  BY <1>1, AdmissionStep, IssuedStep, ConcludedStep, BlamelessStep DEF VerdictInv
<1>3. QED
  BY <1>2 DEF VerdictInv

\* What Verify does not complain of is valid.
LEMMA NoIssueIsValid ==
  ASSUME VerdictInv, Ended, job.op = "verify", failure = "none", report = {}
  PROVE  Valid
<1>1. AdmissionInv /\ ReadInv /\ Counted /\ job \in Jobs /\ phase = "verify"
  BY DEF VerdictInv, AdmissionInv, GivingInv, ReadInv, Shape
<1>2. Going
  BY DEF Going, Ended
<1>3. at \notin DOMAIN Layers
  BY <1>1, <1>2 DEF AdmissionInv, GivingInv, Outcome
<1>4. MetadataIssues = {}
  BY DEF VerdictInv, Issued
<1>5. Layers # <<>> /\ Single /\ DOMAIN Config = TypesOf(DOMAIN Layers)
  BY <1>4 DEF MetadataIssues, Single
<1>6. Chosen \subseteq DOMAIN Layers /\ (job.metadataOnly => Chosen = {})
  BY <1>1, NotPastTheLayers DEF Chosen
<1>7. \A k \in Chosen : Sound(Named(k)) /\ Fits(Named(k), FALSE)
  <2>1. \A k \in Chosen : k < at
    <3> TAKE k \in Chosen
    <3>1. k \in DOMAIN Layers /\ at = Len(Layers) + 1
      BY <1>1, <1>3, <1>6 DEF ReadInv, Position
    <3>2. QED
      BY <1>1, <3>1, LayersTyped
  <2>2. (phase # "verify") = FALSE
    BY <1>1
  <2>3. QED
    BY <1>1, <1>2, <2>1, <2>2 DEF AdmissionInv, Admitted, Sure
<1>8. Passed = Held
  BY <1>1, <1>3, BehindAtLast DEF Passed
<1>9. PICK f : Records(f)
  BY <1>1, <1>2 DEF Counted
<1>10. CASE job.metadataOnly
  <2>1. Held = {}
    BY <1>6, <1>10, WhatIsHeld
  <2>2. ~Collision(HeldPaths)
    BY <2>1 DEF Collision, HeldPaths
  <2>3. QED
    BY <1>5, <1>6, <1>7, <1>10, <2>2, ValidIs
<1>11. CASE ~job.metadataOnly
  <2>1. ~Unmatched /\ ~EntrypointMissing /\ ~Collision(Listed) /\ ~LocaleWrong
    BY <1>2, <1>11 DEF VerdictInv, Concluded
  <2>2. ~Collision(HeldPaths)
    BY <1>1, <1>8, <1>9, <2>1, CollisionsAreListed
  <2>3. \A k \in Chosen : Configured(k)
    BY <1>1, <1>5, <1>8, <1>9, <1>11, <2>1, ConclusionIsRight
  <2>4. QED
    BY <1>5, <1>7, <2>1, <2>2, <2>3, ValidIs
<1>12. QED
  BY <1>10, <1>11

\* Verify finds no issue only in an artifact that is valid by what its descriptors name,
\* although blobs are altered meanwhile, and none in a valid one whose layout is intact, stays
\* so and can be read (artifact.Verify, verifyComponentDeep, verifyLocalePaths).
THEOREM VerdictIsRight == Spec => []VerifyIsRight
<1>1. VerdictInv => VerifyIsRight
  BY NoIssueIsValid DEF VerifyIsRight, VerdictInv, Blameless
<1>2. QED
  BY <1>1, VerdictStart, VerdictStep, PTL DEF Spec

------------------------------------------------------------------------------
(***************************************************************************)
(* What Diff finds.                                                        *)
(***************************************************************************)

LEMMA LargestIsElement ==
  ASSUME NEW n \in Nat, NEW S \in SUBSET (0..n), S # {}
  PROVE  Max(S) \in S /\ \A y \in S : y =< Max(S)
<1> DEFINE T == {n - x : x \in S}
<1>1. T \in SUBSET Nat /\ T # {}
  <2>1. \A x \in S : n - x \in Nat
    OBVIOUS
  <2>2. QED
    BY <2>1
<1>2. PICK t \in T : \A u \in T : t =< u
  BY <1>1, SmallestExists
<1>3. PICK x \in S : t = n - x
  BY <1>2
<1>4. \A y \in S : x >= y
  <2> TAKE y \in S
  <2>1. n - x =< n - y
    BY <1>2, <1>3
  <2>2. QED
    BY <1>3, <2>1
<1>5. Max(S) \in S /\ \A y \in S : Max(S) >= y
  BY <1>4, Zenon DEF Max
<1>6. QED
  BY <1>5

Alone == \A i \in DOMAIN Layers : Rivals(i) = {i}

\* An artifact without two components of a type.
LEMMA ComparedAlone ==
  ASSUME job \in Jobs, Alone
  PROVE  /\ \A i \in DOMAIN Layers : Named(i) = Layers[i].content
         /\ \A c, side : Compared(c, side) =
              {i \in Selected : Typed(i) = c /\ Layers[i].side = side}
         /\ \A c, side : \A i, k \in Compared(c, side) : i = k
         /\ \A c, side : Compared(c, side) \subseteq DOMAIN Layers
<1>1. \A i \in DOMAIN Layers : Min({i}) = i /\ Max({i}) = i
  <2> TAKE i \in DOMAIN Layers
  <2>1. i \in Nat
    BY LayersTyped
  <2>2. QED
    BY <2>1, SmallestIsElement, LargestIsElement, {i} \in SUBSET (0..i)
<1>2. \A i \in DOMAIN Layers : Named(i) = Layers[i].content
  BY <1>1 DEF Named, FirstOf, Alone
<1>3. \A i \in Selected : i \in DOMAIN Layers /\ Max(Rivals(i)) = i /\ Min(Rivals(i)) = i
  BY <1>1 DEF Alone, Selected
<1>4. \A c, side : Compared(c, side) = {i \in Selected : Typed(i) = c /\ Layers[i].side = side}
  BY <1>3 DEF Compared
<1>5. ASSUME NEW c, NEW side, NEW i \in Compared(c, side), NEW k \in Compared(c, side) PROVE i = k
  <2>1. k \in Rivals(i) /\ i \in DOMAIN Layers
    BY <1>3, <1>4 DEF Rivals
  <2>2. QED
    BY <2>1 DEF Alone
<1>6. QED
  BY <1>2, <1>3, <1>4, <1>5

\* The files by their fingerprints.
FilesIn(prints) ==
  {[path |-> p, size |-> prints[p].size, data |-> prints[p].data] : p \in DOMAIN prints}

\* Of what a component lists the fingerprints are those of the files that it holds last.
LEMMA FingerprintsAreNamed ==
  ASSUME ReadInv, Alone, NEW f, Records(f), Passed = Held, NEW c, NEW side,
         Compared(c, side) \subseteq Chosen
  PROVE  FilesIn(Fingerprints(c, side)) = NamedFiles(c, side)
<1> DEFINE own == {i \in DOMAIN listed : listed[i].layer \in Compared(c, side)}
           of(p) == {i \in own : listed[i].path = p}
           prints == [p \in {listed[i].path : i \in own} |-> listed[Max(of(p))]]
           entries(k) == Layers[k].content.entries
           Latest(k, j) == \A l \in (j + 1)..Len(entries(k)) : entries(k)[l].path # entries(k)[j].path
           file(k, j) == [path |-> entries(k)[j].path, size |-> entries(k)[j].size,
                          data |-> entries(k)[j].data]
<1>1. job \in Jobs /\ listed \in Seq(Listings)
  BY DEF ReadInv, Shape, Listing
<1>2. prints = Fingerprints(c, side)
  BY DEF Fingerprints
<1>3. \A i : i \in own <=> i \in DOMAIN listed /\ listed[i].layer \in Compared(c, side)
  OBVIOUS
<1>4. \A p, i : i \in of(p) <=> i \in own /\ listed[i].path = p
  OBVIOUS
<1>5. /\ \A p : p \in DOMAIN prints <=> \E i \in own : listed[i].path = p
      /\ \A p \in DOMAIN prints : prints[p] = listed[Max(of(p))]
  OBVIOUS
<1>6. \A k, j : Latest(k, j) <=>
        \A l \in (j + 1)..Len(entries(k)) : entries(k)[l].path # entries(k)[j].path
  OBVIOUS
<1>7. \A k : entries(k) = Layers[k].content.entries
  OBVIOUS
<1>8. NamedFiles(c, side) =
         UNION {{file(k, j) : j \in {i \in DOMAIN entries(k) : Latest(k, i)}} :
                  k \in {m \in Compared(c, side) : Layers[m].content.kind = "tar"}}
  BY DEF NamedFiles
<1> HIDE DEF own, of, prints, entries, Latest
<1>9. /\ \A i \in DOMAIN listed : f[i] \in Held /\ listed[i] = Record(f[i])
      /\ \A h \in Held : \E i \in DOMAIN listed : f[i] = h
      /\ \A i, j \in DOMAIN listed : i < j /\ f[i][1] = f[j][1] => f[i][2] < f[j][2]
  BY DEF Records
<1>10. \A h \in Held : /\ h[1] \in Chosen /\ h[1] \in DOMAIN Layers
                      /\ h[2] \in DOMAIN entries(h[1]) /\ h[2] \in Nat
                      /\ entries(h[1]) \in Seq(Entries) /\ h = <<h[1], h[2]>>
                      /\ Layers[h[1]].content.kind = "tar" /\ HeldEntry(h) = entries(h[1])[h[2]]
  <2> TAKE h \in Held
  <2>1. /\ h[1] \in Chosen /\ h[1] \in DOMAIN Layers /\ h[2] \in DOMAIN Named(h[1]).entries
        /\ h[2] \in Nat /\ h = <<h[1], h[2]>>
        /\ Named(h[1]).kind = "tar" /\ IsContent(Named(h[1]))
    BY <1>1, HeldIsTyped, NotPastTheLayers DEF ReadInv, Shape
  <2>2. Named(h[1]) = Layers[h[1]].content
    BY <1>1, <2>1, ComparedAlone
  <2>3. QED
    BY <1>7, <2>1, <2>2, ContentTyped DEF HeldEntry
<1>11. \A k \in Compared(c, side) : k \in Chosen /\ k \in DOMAIN Layers /\ Named(k) = Layers[k].content
  BY <1>1, ComparedAlone
<1>12. \A i \in own : /\ f[i] \in Held /\ f[i][1] \in Compared(c, side)
                     /\ listed[i].layer = f[i][1]
                     /\ listed[i].path = entries(f[i][1])[f[i][2]].path
                     /\ listed[i].size = entries(f[i][1])[f[i][2]].size
                     /\ listed[i].data = entries(f[i][1])[f[i][2]].data
  BY <1>9, <1>10, <1>3 DEF Record
<1>13. \A p \in DOMAIN prints : Max(of(p)) \in of(p) /\ \A i \in of(p) : i =< Max(of(p))
  <2> TAKE p \in DOMAIN prints
  <2>1. of(p) # {}
    BY <1>4, <1>5
  <2>2. of(p) \subseteq DOMAIN listed
    BY <1>3, <1>4
  <2>3. DOMAIN listed \subseteq 0..Len(listed) /\ Len(listed) \in Nat
    BY <1>1
  <2>4. of(p) \in SUBSET (0..Len(listed))
    BY <2>2, <2>3
  <2>5. QED
    BY <2>1, <2>3, <2>4, LargestIsElement
<1>14. ASSUME NEW p \in DOMAIN prints
      PROVE  \E k \in Compared(c, side) :
               /\ Layers[k].content.kind = "tar"
               /\ \E j \in DOMAIN entries(k) :
                    /\ Latest(k, j)
                    /\ [path |-> p, size |-> prints[p].size, data |-> prints[p].data] = file(k, j)
  <2> DEFINE m == Max(of(p))
             k == f[m][1]
             j == f[m][2]
  <2>1. m \in own /\ listed[m].path = p /\ (\A i \in of(p) : i =< m) /\ prints[p] = listed[m]
    BY <1>13, <1>4, <1>5
  <2>2. /\ k \in Compared(c, side) /\ Layers[k].content.kind = "tar"
        /\ j \in DOMAIN entries(k) /\ j \in Nat /\ f[m] \in Held /\ f[m] = <<k, j>>
        /\ entries(k) \in Seq(Entries) /\ entries(k)[j].path = p
    BY <1>10, <1>12, <2>1
  <2>3. ASSUME NEW l \in (j + 1)..Len(entries(k)), entries(k)[l].path = p PROVE FALSE
    <3>1. l \in DOMAIN entries(k) /\ l > j /\ l \in Nat
      BY <2>2, <2>3
    <3>2. <<k, l>> \in Held
      BY <1>11, <1>7, <2>2, <3>1, WhatIsHeld
    <3>3. PICK i \in DOMAIN listed : f[i] = <<k, l>>
      BY <1>9, <3>2
    <3>4. i \in of(p)
      <4>1. listed[i].layer = k /\ listed[i].path = p
        BY <1>9, <1>10, <2>3, <3>2, <3>3 DEF Record
      <4>2. QED
        BY <1>3, <1>4, <2>2, <4>1
    <3>5. i =< m /\ i \in Nat /\ m \in Nat /\ m \in DOMAIN listed
      BY <1>1, <1>3, <1>4, <2>1, <3>4
    <3>6. i # m
      BY <2>2, <3>1, <3>3
    <3>7. l < j
      BY <1>9, <2>2, <3>3, <3>5, <3>6
    <3>8. QED
      BY <2>2, <3>1, <3>7
  <2>4. Latest(k, j)
    BY <1>6, <2>2, <2>3
  <2>5. [path |-> p, size |-> prints[p].size, data |-> prints[p].data] = file(k, j)
    BY <1>12, <2>1, <2>2
  <2>6. QED
    BY <2>2, <2>4, <2>5
<1>15. ASSUME NEW k \in Compared(c, side), Layers[k].content.kind = "tar",
             NEW j \in DOMAIN entries(k), Latest(k, j)
      PROVE  /\ entries(k)[j].path \in DOMAIN prints
             /\ prints[entries(k)[j].path].size = entries(k)[j].size
             /\ prints[entries(k)[j].path].data = entries(k)[j].data
  <2> DEFINE p == entries(k)[j].path
             m == Max(of(p))
  <2>1. <<k, j>> \in Held
    BY <1>11, <1>15, <1>7, WhatIsHeld
  <2>2. PICK i \in DOMAIN listed : f[i] = <<k, j>>
    BY <1>9, <2>1
  <2>3. listed[i].layer = k /\ listed[i].path = p
    BY <1>9, <1>10, <2>1, <2>2 DEF Record
  <2>4. i \in own /\ p \in DOMAIN prints
    BY <1>3, <1>5, <2>3
  <2>5. m \in own /\ listed[m].path = p /\ i =< m /\ prints[p] = listed[m]
    BY <1>13, <1>4, <1>5, <2>3, <2>4
  <2>6. f[m][1] = k
    BY <1>1, <1>12, <2>5, ComparedAlone
  <2>7. f[m][2] = j
    <3> SUFFICES ASSUME f[m][2] # j PROVE FALSE
      OBVIOUS
    <3>1. i < m /\ m \in DOMAIN listed
      BY <1>1, <1>3, <2>2, <2>4, <2>5
    <3>2. j < f[m][2]
      BY <1>9, <2>2, <2>6, <3>1
    <3>3. f[m][2] \in DOMAIN entries(k) /\ f[m][2] \in Nat /\ j \in Nat
          /\ entries(k) \in Seq(Entries) /\ entries(k)[f[m][2]].path = p
      BY <1>10, <1>12, <2>1, <2>5, <2>6
    <3>4. f[m][2] \in (j + 1)..Len(entries(k))
      BY <3>2, <3>3
    <3>5. QED
      BY <1>15, <1>6, <3>3, <3>4
  <2>8. QED
    BY <1>12, <2>4, <2>5, <2>6, <2>7
<1>16. FilesIn(prints) \subseteq NamedFiles(c, side)
  <2> SUFFICES ASSUME NEW p \in DOMAIN prints
               PROVE  [path |-> p, size |-> prints[p].size, data |-> prints[p].data]
                        \in NamedFiles(c, side)
    BY DEF FilesIn
  <2> DEFINE print == [path |-> p, size |-> prints[p].size, data |-> prints[p].data]
  <2>1. PICK k \in Compared(c, side) :
          /\ Layers[k].content.kind = "tar"
          /\ \E j \in DOMAIN entries(k) : Latest(k, j) /\ print = file(k, j)
    BY <1>14
  <2>2. PICK j \in DOMAIN entries(k) : Latest(k, j) /\ print = file(k, j)
    BY <2>1
  <2> HIDE DEF print, file
  <2>3. print \in NamedFiles(c, side)
    BY <1>8, <2>1, <2>2
  <2>4. QED
    BY <2>3 DEF print
<1>17. NamedFiles(c, side) \subseteq FilesIn(prints)
  <2> SUFFICES ASSUME NEW k \in Compared(c, side), Layers[k].content.kind = "tar",
                      NEW j \in DOMAIN entries(k), Latest(k, j)
               PROVE  file(k, j) \in FilesIn(prints)
    BY <1>8
  <2>1. /\ entries(k)[j].path \in DOMAIN prints
        /\ prints[entries(k)[j].path].size = entries(k)[j].size
        /\ prints[entries(k)[j].path].data = entries(k)[j].data
    BY <1>15
  <2>2. QED
    BY <2>1 DEF FilesIn
<1>18. QED
  BY <1>2, <1>16, <1>17

\* What is said of the files by their fingerprints is what is to be said of them.
LEMMA FileDiffsAreExact ==
  ASSUME NEW g, NEW h
  PROVE  LET before == FilesIn(g)
             after == FilesIn(h)
             differing == {f.path : f \in (before \ after) \cup (after \ before)}
             paths(change) == {d.path : d \in {x \in FileDiffs(g, h) : x.change = change}}
         IN  /\ paths("added") = differing \ {f.path : f \in before}
             /\ paths("removed") = differing \ {f.path : f \in after}
             /\ paths("modified") = differing \ (paths("added") \cup paths("removed"))
<1> DEFINE before == FilesIn(g)
           after == FilesIn(h)
           differing == {f.path : f \in (before \ after) \cup (after \ before)}
           paths(change) == {d.path : d \in {x \in FileDiffs(g, h) : x.change = change}}
           Both == {q \in DOMAIN g \cap DOMAIN h : Modified(g[q], h[q])}
           in(x, p) == [path |-> p, size |-> x[p].size, data |-> x[p].data]
<1>1. /\ \A f : f \in before <=> \E p \in DOMAIN g : f = in(g, p)
      /\ \A f : f \in after <=> \E p \in DOMAIN h : f = in(h, p)
      /\ \A x, p : in(x, p).path = p
      /\ \A p, q : in(g, p) = in(h, q) <=> p = q /\ g[p].size = h[q].size /\ g[p].data = h[q].data
  BY DEF FilesIn
<1>2. \A p : p \in differing <=> \E f : f.path = p /\ (f \in before <=> f \notin after)
  OBVIOUS
<1>3. \A p : p \in Both <=> p \in DOMAIN g /\ p \in DOMAIN h /\ in(g, p) # in(h, p)
  BY <1>1 DEF Modified
<1>4. /\ paths("removed") = DOMAIN g \ DOMAIN h
      /\ paths("added") = DOMAIN h \ DOMAIN g
      /\ paths("modified") = Both
  <2> DEFINE diff(p, change) == [path |-> p, change |-> change]
  <2>1. FileDiffs(g, h) = {diff(p, "removed") : p \in DOMAIN g \ DOMAIN h}
                          \cup {diff(p, "added") : p \in DOMAIN h \ DOMAIN g}
                          \cup {diff(p, "modified") : p \in Both}
    BY DEF FileDiffs
  <2>2. \A p, change : diff(p, change).path = p /\ diff(p, change).change = change
    OBVIOUS
  <2> HIDE DEF diff, Both
  <2>3. paths("removed") = DOMAIN g \ DOMAIN h
    BY <2>1, <2>2
  <2>4. paths("added") = DOMAIN h \ DOMAIN g
    BY <2>1, <2>2
  <2>5. paths("modified") = Both
    BY <2>1, <2>2
  <2>6. QED
    BY <2>3, <2>4, <2>5
<1> HIDE DEF before, after, differing, Both, in
<1>5. \A p : /\ p \in {f.path : f \in before} <=> p \in DOMAIN g
             /\ p \in {f.path : f \in after} <=> p \in DOMAIN h
  BY <1>1
<1>6. \A p : p \in differing <=> \/ p \in DOMAIN g /\ p \notin DOMAIN h
                                 \/ p \in DOMAIN h /\ p \notin DOMAIN g
                                 \/ p \in Both
  <2> TAKE p
  <2>1. ASSUME p \in differing
        PROVE  p \in DOMAIN g \ DOMAIN h \/ p \in DOMAIN h \ DOMAIN g \/ p \in Both
    BY <1>1, <1>2, <1>3, <2>1
  <2>2. ASSUME p \in DOMAIN g, p \notin DOMAIN h PROVE p \in differing
    BY <1>1, <1>2, <2>2
  <2>3. ASSUME p \in DOMAIN h, p \notin DOMAIN g PROVE p \in differing
    BY <1>1, <1>2, <2>3
  <2>4. ASSUME p \in Both PROVE p \in differing
    <3>1. p \in DOMAIN g /\ p \in DOMAIN h /\ in(g, p) # in(h, p)
      BY <1>3, <2>4
    <3>2. in(g, p) \in before /\ in(g, p) \notin after /\ in(g, p).path = p
      BY <1>1, <3>1
    <3>3. QED
      BY <1>2, <3>2
  <2>5. QED
    BY <2>1, <2>2, <2>3, <2>4
<1>7. \A p : p \in Both => p \in DOMAIN g /\ p \in DOMAIN h
  BY <1>3
<1>8. /\ paths("added") = differing \ {f.path : f \in before}
      /\ paths("removed") = differing \ {f.path : f \in after}
      /\ paths("modified") = differing \ (paths("added") \cup paths("removed"))
  <2> HIDE DEF paths
  <2>1. paths("added") = differing \ {f.path : f \in before}
    BY <1>4, <1>5, <1>6, <1>7
  <2>2. paths("removed") = differing \ {f.path : f \in after}
    BY <1>4, <1>5, <1>6, <1>7
  <2>3. paths("modified") = differing \ (paths("added") \cup paths("removed"))
    BY <1>4, <1>5, <1>6, <1>7
  <2>4. QED
    BY <2>1, <2>2, <2>3
<1>9. QED
  BY <1>8 DEF before, after, differing, paths

Differences == ComponentDiffs \cup LocaleDiffs \cup MetadataDiffs

Diffed == Going /\ Ended /\ job.op = "diff" => report = Differences

LEMMA DifferencesStay ==
  ASSUME UNCHANGED <<job, listed>>
  PROVE  Differences' = Differences
<1>1. /\ Layers' = Layers /\ Selected' = Selected /\ (\A i : Typed(i)' = Typed(i))
      /\ \A c, side : ConfigOf(c, side)' = ConfigOf(c, side)
  BY DEF Layers, Selected, Typed, ConfigOf
<1>2. \A c, side : Compared(c, side)' = Compared(c, side)
  <2>1. \A i : Rivals(i)' = Rivals(i)
    BY <1>1 DEF Rivals
  <2>2. QED
    BY <1>1, <2>1 DEF Compared
<1>3. \A c, side : /\ Digests(c, side)' = Digests(c, side)
                   /\ Fingerprints(c, side)' = Fingerprints(c, side)
  BY <1>1, <1>2 DEF Digests, Fingerprints
<1>4. \A c : ContentChanged(c)' = ContentChanged(c) /\ EntryChanged(c)' = EntryChanged(c)
  BY <1>1, <1>3 DEF ContentChanged, EntryChanged
<1>5. \A c : ComponentDiff(c)' = ComponentDiff(c)
  BY <1>3, <1>4 DEF ComponentDiff
<1>6. ComponentDiffs' = ComponentDiffs
  BY <1>1, <1>4, <1>5 DEF ComponentDiffs, TypesOf
<1>7. LocaleDiffs' = LocaleDiffs /\ MetadataDiffs' = MetadataDiffs
  BY <1>1 DEF LocaleDiffs, LocaleOf, MetadataDiffs
<1>8. QED
  BY <1>6, <1>7 DEF Differences

LEMMA DiffedStep ==
  ASSUME GivingInv, Diffed, [Next]_vars
  PROVE  Diffed'
<1> SUFFICES ASSUME Going', Ended', job'.op = "diff" PROVE report' = Differences'
  BY DEF Diffed
<1>1. ReadInv /\ DestinationInv /\ Going /\ Outcome /\ UNCHANGED job
  BY WasGoing, JobKept DEF GivingInv
<1>2. phase = "scan"
  <2>1. phase # "verify" /\ phase \in {"scan", "extract", "verify"}
    BY <1>1 DEF ReadInv, Shape
  <2>2. phase # "extract"
    BY <1>1 DEF Outcome
  <2>3. QED
    BY <2>1, <2>2
<1>3. CASE Ending
  <2>1. EndDiff /\ failure' = "none" /\ UNCHANGED listed
    BY <1>1, <1>2, <1>3 DEF Ending
  <2>2. report' = Differences
    BY <2>1 DEF EndDiff, Fail, Stop, Differences
  <2>3. QED
    BY <1>1, <2>1, <2>2, DifferencesStay
<1>4. CASE Idling
  <2>1. report' = Differences /\ UNCHANGED listed
    BY <1>1, <1>4 DEF Idling, Ended, Diffed
  <2>2. QED
    BY <1>1, <2>1, DifferencesStay
<1>5. CASE Opening \/ Counting \/ Creating \/ WriteFile \/ Leaving \/ Turning
  BY <1>5 DEF Opening, Counting, Creating, WriteFile, Leaving, Turning, PassEntry, Leave, Ended,
       AllRead
<1>6. QED
  BY <1>1, <1>3, <1>4, <1>5, Advances

\* No file of a component that is not opened differs.
LEMMA NothingOpened ==
  ASSUME ReadInv, job.op = "diff", NEW c, ~ContentChanged(c) \/ job.metadataOnly
  PROVE  FileDiffs(Fingerprints(c, "a"), Fingerprints(c, "b")) = {}
<1>1. \A i \in DOMAIN listed : listed[i].layer \in Chosen
  <2>1. listed \in Seq(Listings)
    BY DEF ReadInv, Listing
  <2>2. \A i \in DOMAIN listed : listed[i] \in Listings
    BY <2>1
  <2>3. QED
    BY <2>2 DEF Listings
<1>2. ASSUME NEW side, NEW k \in Chosen, k \in Compared(c, side) PROVE FALSE
  <2>1. ~job.metadataOnly /\ ContentChanged(Typed(k))
    BY <1>2 DEF Chosen
  <2>2. Typed(k) = c
    BY <1>2 DEF Compared
  <2>3. QED
    BY <2>1, <2>2
<1>3. \A side : {i \in DOMAIN listed : listed[i].layer \in Compared(c, side)} = {}
  BY <1>1, <1>2
<1>4. \A side : DOMAIN Fingerprints(c, side) = {}
  BY <1>3 DEF Fingerprints
<1>5. QED
  BY <1>4 DEF FileDiffs

\* Equal contents hold equal files.
LEMMA EqualContents ==
  ASSUME job \in Jobs, Alone, NEW c, ~ContentChanged(c)
  PROVE  NamedFiles(c, "a") = NamedFiles(c, "b")
<1> DEFINE files(content) ==
             {[path |-> content.entries[i].path, size |-> content.entries[i].size,
               data |-> content.entries[i].data] :
                i \in {j \in DOMAIN content.entries :
                        \A l \in (j + 1)..Len(content.entries) :
                          content.entries[l].path # content.entries[j].path}}
<1>1. \A side : NamedFiles(c, side) =
        UNION {files(Layers[k].content) :
                 k \in {m \in Compared(c, side) : Layers[m].content.kind = "tar"}}
  BY DEF NamedFiles
<1>2. \A side : Digests(c, side) = {Layers[k].content : k \in Compared(c, side)}
  BY DEF Digests
<1>3. Digests(c, "a") = Digests(c, "b")
  BY DEF ContentChanged
<1> HIDE DEF files
<1>4. \A side : NamedFiles(c, side) =
        UNION {files(content) : content \in {d \in Digests(c, side) : d.kind = "tar"}}
  <2> TAKE side
  <2>1. {files(Layers[k].content) : k \in {m \in Compared(c, side) : Layers[m].content.kind = "tar"}}
        = {files(content) : content \in {d \in Digests(c, side) : d.kind = "tar"}}
    BY <1>2
  <2>2. QED
    BY <1>1, <2>1
<1>5. QED
  BY <1>3, <1>4

LEMMA WhatIsFound ==
  ASSUME GivingInv, Diffed, Ended, job.op = "diff", failure = "none", NEW c \in TypesOf(Selected)
  PROVE  {d \in report : d.what = "component" /\ d.type = c} =
           IF ContentChanged(c) \/ EntryChanged(c) THEN {ComponentDiff(c)} ELSE {}
<1>1. phase # "verify" /\ job \in Jobs
  BY DEF GivingInv, ReadInv, Shape
<1>2. report = ComponentDiffs \cup LocaleDiffs \cup MetadataDiffs
  BY <1>1 DEF Diffed, Differences, Going, Ended
<1>3. \A t : ComponentDiff(t).what = "component" /\ ComponentDiff(t).type = t
  BY DEF ComponentDiff
<1>4. \A d \in LocaleDiffs : d.what # "component"
  BY DEF LocaleDiffs
<1>5. \A d \in MetadataDiffs : d.what # "component"
  <2>1. DOMAIN job.metadata["a"] \subseteq {"annotations", "schema", "subject"}
    BY <1>1, JobsAssumption, Zenon
  <2>2. QED
    BY <2>1 DEF MetadataDiffs
<1>6. {d \in report : d.what = "component" /\ d.type = c} =
        {d \in ComponentDiffs : d.what = "component" /\ d.type = c}
  BY <1>2, <1>4, <1>5
<1>7. \A d : d \in ComponentDiffs <=>
        \E t \in TypesOf(Selected) : (ContentChanged(t) \/ EntryChanged(t)) /\ d = ComponentDiff(t)
  BY DEF ComponentDiffs
<1>8. {d \in ComponentDiffs : d.what = "component" /\ d.type = c} =
        IF ContentChanged(c) \/ EntryChanged(c) THEN {ComponentDiff(c)} ELSE {}
  BY <1>3, <1>7
<1>9. QED
  BY <1>6, <1>8

LEMMA FilesAreExact ==
  ASSUME GivingInv, Ended, job.op = "diff", failure = "none", Alone, ~job.metadataOnly,
         NEW c \in TypesOf(Selected), ContentChanged(c), NEW side
  PROVE  FilesIn(Fingerprints(c, side)) = NamedFiles(c, side)
<1>1. ReadInv /\ job \in Jobs /\ phase # "verify" /\ Outcome /\ Counted
  BY DEF GivingInv, ReadInv, Shape
<1>2. Going
  BY <1>1 DEF Going, Ended
<1>3. at \notin DOMAIN Layers /\ phase # "extract"
  BY <1>1, <1>2 DEF Outcome
<1>4. Passed = Held
  BY <1>1, <1>3, BehindAtLast DEF Passed
<1>5. PICK f : Records(f)
  BY <1>1, <1>2 DEF Counted
<1>6. ASSUME NEW k \in Compared(c, side) PROVE k \in Chosen
  <2>1. k \in Selected /\ Typed(k) = c /\ Layers[k].side = side
    BY <1>6 DEF Compared
  <2>2. QED
    BY <1>6, <2>1 DEF Chosen
<1>7. QED
  BY <1>1, <1>4, <1>5, <1>6, FingerprintsAreNamed

LEMMA DiffGives == GivingInv /\ Diffed => DiffIsExact
<1> SUFFICES ASSUME GivingInv, Diffed, Ended, job.op = "diff", failure = "none", Alone,
                    NEW c \in TypesOf(Selected)
             PROVE
      LET found == {d \in report : d.what = "component" /\ d.type = c}
          named(side) == {Layers[i].content :
                            i \in {k \in Selected : Typed(k) = c /\ Layers[k].side = side}}
          before == NamedFiles(c, "a")
          after == NamedFiles(c, "b")
          differing == {f.path : f \in (before \ after) \cup (after \ before)}
          paths(change) == {f.path : f \in {g \in UNION {d.files : d \in found} : g.change = change}}
      IN  /\ found = {} <=> named("a") = named("b") /\ ~EntryChanged(c)
          /\ ~job.metadataOnly =>
               /\ paths("added") = differing \ {f.path : f \in before}
               /\ paths("removed") = differing \ {f.path : f \in after}
               /\ paths("modified") = differing \ (paths("added") \cup paths("removed"))
          /\ job.metadataOnly => \A d \in found : d.files = {}
  BY DEF DiffIsExact, Alone
<1> DEFINE found == {d \in report : d.what = "component" /\ d.type = c}
           named(side) == {Layers[i].content :
                             i \in {k \in Selected : Typed(k) = c /\ Layers[k].side = side}}
           before == NamedFiles(c, "a")
           after == NamedFiles(c, "b")
           differing == {f.path : f \in (before \ after) \cup (after \ before)}
           paths(change) == {f.path : f \in {g \in UNION {d.files : d \in found} : g.change = change}}
           diffs == FileDiffs(Fingerprints(c, "a"), Fingerprints(c, "b"))
<1>1. ReadInv /\ job \in Jobs
  BY DEF GivingInv, ReadInv, Shape
<1>2. found = IF ContentChanged(c) \/ EntryChanged(c) THEN {ComponentDiff(c)} ELSE {}
  BY WhatIsFound
<1>3. ComponentDiff(c).files = diffs
  BY DEF ComponentDiff
<1>4. named("a") = Digests(c, "a") /\ named("b") = Digests(c, "b")
  BY <1>1, ComparedAlone DEF Digests
<1> HIDE DEF found, named, before, after, diffs
<1>5. found = {} <=> named("a") = named("b") /\ ~EntryChanged(c)
  BY <1>2, <1>4 DEF ContentChanged
<1>6. CASE ContentChanged(c) /\ ~job.metadataOnly
  <2>1. PICK g, h : g = Fingerprints(c, "a") /\ h = Fingerprints(c, "b")
    OBVIOUS
  <2>2. UNION {d.files : d \in found} = FileDiffs(g, h)
    BY <1>2, <1>3, <1>6, <2>1 DEF diffs
  <2>3. before = FilesIn(g) /\ after = FilesIn(h)
    BY <1>6, <2>1, FilesAreExact DEF before, after
  <2>4. differing = {f.path : f \in (FilesIn(g) \ FilesIn(h)) \cup (FilesIn(h) \ FilesIn(g))}
    BY <2>3
  <2>5. \A change : paths(change) = {d.path : d \in {x \in FileDiffs(g, h) : x.change = change}}
    BY <2>2
  <2> HIDE DEF paths, differing
  <2>6. /\ paths("added") = differing \ {f.path : f \in before}
        /\ paths("removed") = differing \ {f.path : f \in after}
        /\ paths("modified") = differing \ (paths("added") \cup paths("removed"))
    BY <2>3, <2>4, <2>5, FileDiffsAreExact
  <2>7. QED
    BY <1>5, <1>6, <2>6 DEF found, named, before, after, paths, differing
<1>7. CASE ~(ContentChanged(c) /\ ~job.metadataOnly)
  <2>1. diffs = {}
    BY <1>1, <1>7, NothingOpened DEF diffs
  <2>2. \A d \in found : d.files = {}
    BY <1>2, <1>3, <2>1
  <2>3. \A change : paths(change) = {}
    BY <2>2
  <2>4. ~job.metadataOnly => differing = {}
    <3>1. ~job.metadataOnly => before = after
      BY <1>1, <1>7, EqualContents DEF before, after
    <3>2. QED
      BY <3>1
  <2> HIDE DEF paths, differing
  <2>5. ~job.metadataOnly =>
          /\ paths("added") = differing \ {f.path : f \in before}
          /\ paths("removed") = differing \ {f.path : f \in after}
          /\ paths("modified") = differing \ (paths("added") \cup paths("removed"))
    BY <2>3, <2>4
  <2>6. QED
    BY <1>5, <2>2, <2>5 DEF found, named, before, after, paths, differing
<1>8. QED
  BY <1>6, <1>7

\* A comparison that succeeds has found what the descriptors of the two artifacts say, and
\* nothing else: the components that differ, and of those that differ in content exactly the
\* paths added, removed and modified, whatever happened to the blobs (artifact.Diff,
\* diffComponents, componentFileFingerprints, diffComponentFiles).
THEOREM DifferencesAreExact == Spec => []DiffIsExact
<1>1. Init => GivingInv /\ Diffed
  BY GivingStart DEF Init, Diffed, Ended
<1>2. GivingInv /\ Diffed /\ [Next]_vars => (GivingInv /\ Diffed)'
  BY GivingStep, DiffedStep
<1>3. QED
  BY <1>1, <1>2, DiffGives, PTL DEF Spec
===============================================================================
