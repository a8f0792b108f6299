-------------------------------- MODULE Unpack --------------------------------
(***************************************************************************)
(* The readers of a bundle's components: artifact.List, artifact.Extract   *)
(* (a scan of every component, then a second reading that writes),         *)
(* artifact.Verify and artifact.Diff, one action per tar entry, while      *)
(* blobs of the layout may be altered and any read or write may fail.      *)
(*                                                                         *)
(* A component's blob is a tar that a decompressor yields; the descriptor  *)
(* names one content, which the verifying reader compares with what it has *)
(* read when it meets the end.  The content of an opened blob is taken at  *)
(* once: to alter it under the reader is to open the mixture.              *)
(*                                                                         *)
(* Diff reads two artifacts; their layers are one sequence here, by type   *)
(* and of one type the first artifact's before the second's, which is the  *)
(* order they are read in.                                                 *)
(*                                                                         *)
(* Not modelled: media types, the order of a result, a destination that    *)
(* others write to.                                                        *)
(***************************************************************************)
EXTENDS BundlePaths, FiniteSetsExt, Integers

CONSTANTS
  Types,      \* component types
  Documents,  \* names of documents
  Data,       \* contents of files
  Places,     \* paths below the destination, <<>> for the destination itself
  Jobs,       \* calls to try
  Contents,   \* what an altered blob may yield
  Default,    \* the limits that are used for those not set
  MaxAlters,  \* bound on alterations
  All         \* no component is selected

LimitKinds == {"files", "size", "total"}

ASSUME UnpackAssumption ==
  /\ MaxAlters \in Nat
  /\ All \notin Types
  /\ Places \subseteq Path
  /\ <<>> \in Places
  /\ \A p \in Places : Prefixes(p) \subseteq Places /\ Folded(p) \in Places
  /\ Default \in [LimitKinds -> Nat]

VARIABLES
  job,      \* the call, the manifest and config it has read, the destination as it was
  blob,     \* blob[i]: what the blob of layer i yields now
  alters,   \* alterations left
  dest,     \* what stands at each place
  phase,    \* "scan", "extract" or "verify"
  status,   \* "opening", "reading", "writing" or "ended"
  at,       \* the layer being read, of those chosen
  stream,   \* what it yields
  next,     \* the entry that comes next
  total,    \* the bytes of the entries before it
  listed,   \* entries found by the scan or by Verify
  report,   \* what Verify has found wrong, or Diff different
  failure   \* the error returned, "none" for none

layerVars == <<at, stream, next, total>>
vars == <<job, blob, alters, dest, phase, status, layerVars, listed, report, failure>>

\* What a blob yields: the entries of a tar and then its end, after which there may be a
\* tail; a tar may break off between two entries or in the last one.
Tar(entries, end, tail) ==
  [kind |-> "tar", entries |-> entries, end |-> end, tail |-> tail]
Undecodable == [kind |-> "undecodable"]
Missing == [kind |-> "missing"]

\* An entry that is no regular file, or whose path is <<>> for a name that
\* spec.ValidateBundlePath refuses, is invalid.
Invalid(entry) == ~entry.regular \/ entry.path = <<>>

Absent == [kind |-> "absent"]
Directory == [kind |-> "directory"]
Link == [kind |-> "link"]
Special == [kind |-> "special"]
File(data, whole) == [kind |-> "file", data |-> data, whole |-> whole]

Entries == [path : Places, size : Nat, data : Data, regular : BOOLEAN]

IsContent(content) ==
  \/ content \in {Missing, Undecodable}
  \/ /\ content.entries \in Seq(Entries)
     /\ content.end \in {"eof", "broken", "cut"}
     /\ content.tail \in Nat
     /\ content = Tar(content.entries, content.end, content.tail)

\* No call meets a file of which somebody has written a part only, or sets a negative limit.
ASSUME JobsAssumption ==
  /\ \A content \in Contents : IsContent(content)
  /\ \A j \in Jobs :
       /\ j.op \in {"list", "extract", "verify", "diff"}
       /\ j.limits \in [LimitKinds -> Nat]
       /\ \A i \in DOMAIN j.layers : IsContent(j.layers[i].content)
       /\ j.layers \in Seq([side : {"a", "b"}, type : Types,
                             content : {j.layers[i].content : i \in DOMAIN j.layers}])
       /\ DOMAIN j.metadata["a"] \subseteq {"annotations", "schema", "subject"}
       /\ j.before \in [Places -> {Absent, Directory, Link, Special} \cup {File(x, TRUE) : x \in Data}]

\* Two names that differ by case are one place where the file system folds case.
Place(path) == IF job.folds THEN Folded(path) ELSE path

Ended == status = "ended"

------------------------------------------------------------------------------
\* The layers to read.  A component is opened by its type, so that of two layers of a type
\* the first is read twice.

Layers == job.layers
Typed(i) == Layers[i].type
Rivals(i) == {k \in DOMAIN Layers : Typed(k) = Typed(i) /\ Layers[k].side = Layers[i].side}
FirstOf(i) == Min(Rivals(i))
Selected == {i \in DOMAIN Layers : job.only \in {All, Typed(i)}}

\* Diff: the layer whose digest counts for a component of one artifact, if there is any: of
\* two layers of one type the later one, which replaces the other in componentMap, unless
\* filterComponents has taken the first.
Compared(type, side) ==
  {i \in Selected : /\ Typed(i) = type
                    /\ Layers[i].side = side
                    /\ i = IF job.only = All THEN Max(Rivals(i)) ELSE Min(Rivals(i))}
Digests(type, side) == {Layers[i].content : i \in Compared(type, side)}
ContentChanged(type) == Digests(type, "a") # Digests(type, "b")

\* Verify takes every layer of the selected type, List and Extract the first, Diff those
\* whose digests differ; with MetadataOnly neither Verify nor Diff opens any.
Chosen ==
  {i \in Selected :
     /\ ~job.metadataOnly
     /\ IF job.op = "diff"
          THEN ContentChanged(Typed(i)) /\ i \in Compared(Typed(i), Layers[i].side)
          ELSE job.only = All \/ job.op = "verify" \/ i = Min(Rivals(i))}

\* The first layer to read from the given one on, if any.
Following(from, i) ==
  /\ i \in from..(Len(Layers) + 1)
  /\ i \in Chosen \cup {Len(Layers) + 1}
  /\ \A k \in from..(i - 1) : k \notin Chosen

Opened == FirstOf(at)
Named(i) == Layers[FirstOf(i)].content

\* artifact.applyExtractDefaults; Verify takes the defaults always.
Limit(of) == IF job.limits[of] = 0 \/ phase = "verify" THEN Default[of] ELSE job.limits[of]

Stop(why) ==
  /\ status' = "ended"
  /\ failure' = why
  /\ UNCHANGED <<job, blob, alters, phase, layerVars, listed, report>>

Fail(why) == Stop(why) /\ UNCHANGED dest

\* The layer is done with.
Leave ==
  /\ status' = "opening"
  /\ \E i \in 1..(Len(Layers) + 1) : Following(at + 1, i) /\ at' = i
  /\ stream' = Missing
  /\ next' = 1
  /\ total' = 0
  /\ UNCHANGED <<job, blob, alters, dest, phase, failure>>

\* A layer cannot be read to its end: an issue for Verify, which goes on.
Trouble(why) ==
  \/ phase # "verify" /\ Fail(why)
  \/ phase = "verify" /\ Leave /\ report' = report \cup {why} /\ UNCHANGED listed

------------------------------------------------------------------------------
\* The destination.

\* ensureDirectoryPath: nothing on the way is a link or anything but a directory.
DirectoryPath(place) == \A p \in Prefixes(place) : dest[p].kind \in {"absent", "directory"}

\* os.MkdirAll
WithDirectories(place) ==
  [p \in Places |-> IF p \in Prefixes(place) THEN Directory ELSE dest[p]]

\* Mutant: what may be overwritten is overwritten whatever it is.
TargetOverwritable(place) ==
  \/ dest[place].kind = "absent"
  \/ job.overwrite

\* ensureSafeTarget
SafeTarget(place) ==
  \/ dest[place].kind = "absent"
  \/ job.overwrite /\ dest[place].kind = "file"

------------------------------------------------------------------------------
\* One layer: listComponentFiles, extractComponent, verifyComponentDeep.

AtLayer == status = "opening" /\ at \in DOMAIN Layers

\* OpenComponent and compression.NewReader; ExtractContext makes its destination.
OpenLayer ==
  LET content == blob[Opened]
  IN  /\ AtLayer
      /\ \/ content.kind = "missing" /\ Trouble("missing")
         \/ content.kind = "undecodable" /\ Trouble("corrupt")
         \/ content.kind = "tar" /\ phase = "extract" /\ ~DirectoryPath(<<>>) /\ Fail("unsafe")
         \/ /\ content.kind = "tar"
            /\ phase = "extract" => DirectoryPath(<<>>)
            /\ dest' = IF phase = "extract" THEN WithDirectories(<<>>) ELSE dest
            /\ status' = "reading"
            /\ stream' = content
            /\ UNCHANGED <<job, blob, alters, phase, at, next, total, listed, report, failure>>

AtEntry == status = "reading" /\ next \in DOMAIN stream.entries
Entry == stream.entries[next]
\* The entry's content is shorter than its header says.
Cut == stream.end = "cut" /\ next = Len(stream.entries)

PassEntry ==
  /\ status' = "reading"
  /\ next' = next + 1
  /\ total' = total + Entry.size
  /\ UNCHANGED <<job, blob, alters, phase, at, stream, failure>>

ListEntry ==
  listed' = Append(listed, [layer |-> at, path |-> Entry.path, size |-> Entry.size,
                            data |-> Entry.data])

\* Mutant: the total is not compared.
OverButTotal ==
  \/ next - 1 >= Limit("files")
  \/ Entry.size > Limit("size")

\* The limits as archive.Scan and Verify compare them, before the entry is counted.
Over ==
  \/ next - 1 >= Limit("files")
  \/ Entry.size > Limit("size")
  \/ total > Limit("total") - Entry.size

\* archive.Scan, one entry.
ScanEntry ==
  /\ phase = "scan" /\ AtEntry
  /\ \/ Invalid(Entry) /\ Fail("invalid")
     \/ ~Invalid(Entry) /\ Over /\ Fail("limit")
     \/ ~Invalid(Entry) /\ ~Over /\ Cut /\ Fail("corrupt")
     \/ ~Invalid(Entry) /\ ~Over /\ ~Cut /\ ListEntry /\ PassEntry /\ UNCHANGED <<dest, report>>

\* verifyComponentTarSafety, one entry: an invalid one is an issue and is passed over.
VerifyEntry ==
  /\ phase = "verify" /\ AtEntry
  /\ \/ Over /\ Trouble("limit")
     \/ ~Over /\ Cut /\ Trouble("corrupt")
     \/ /\ ~Over /\ ~Cut /\ Invalid(Entry)
        /\ report' = report \cup {"entry"}
        /\ PassEntry /\ UNCHANGED <<dest, listed>>
     \/ ~Over /\ ~Cut /\ ~Invalid(Entry) /\ ListEntry /\ PassEntry /\ UNCHANGED <<dest, report>>

\* Mutant: one file less than the scan lets pass.
OverEarly ==
  \/ next >= Limit("files")
  \/ Entry.size > Limit("size")
  \/ total + Entry.size > Limit("total")

\* The limits as archive.ExtractContext compares them, with the entry counted.
OverNow ==
  \/ next > Limit("files")
  \/ Entry.size > Limit("size")
  \/ total + Entry.size > Limit("total")

Goal == Place(Entry.path)

\* archive.ExtractContext, one entry up to its file, which is created or truncated.
CreateFile ==
  /\ phase = "extract" /\ AtEntry
  /\ \/ Invalid(Entry) /\ Fail("invalid")
     \/ ~Invalid(Entry) /\ OverNow /\ Fail("limit")
     \/ ~Invalid(Entry) /\ ~OverNow /\ ~DirectoryPath(Front(Goal)) /\ Fail("unsafe")
     \/ /\ ~Invalid(Entry) /\ ~OverNow /\ DirectoryPath(Front(Goal))
        /\ \E why \in {"io"} \cup (IF SafeTarget(Goal) THEN {} ELSE {"exists"}) : Stop(why)
        /\ dest' = WithDirectories(Front(Goal))
     \/ /\ ~Invalid(Entry) /\ ~OverNow /\ DirectoryPath(Front(Goal))
        /\ SafeTarget(Goal)
        /\ status' = "writing"
        /\ dest' = [WithDirectories(Front(Goal)) EXCEPT ![Goal] = File(Entry.data, FALSE)]
        /\ UNCHANGED <<job, blob, alters, phase, layerVars, listed, report, failure>>

\* The rest of extractFile: the copy, or the removal of what a failed copy has left.
WriteFile ==
  /\ status = "writing" /\ ~Cut
  /\ dest' = [dest EXCEPT ![Goal] = File(Entry.data, TRUE)]
  /\ PassEntry
  /\ UNCHANGED <<listed, report>>

\* Mutant: what the copy has left stays.
CopyFailsUnremoved ==
  /\ status = "writing"
  /\ \E why \in {"io", "cancelled"} : Fail(why)

CopyFails ==
  /\ status = "writing"
  /\ \E why \in {"io", "cancelled", "corrupt", "mismatch"} :
       /\ why = "corrupt" => Cut
       /\ why = "mismatch" => stream # Named(at)
       /\ Stop(why)
  /\ dest' = [dest EXCEPT ![Goal] = Absent]

\* A failed Close leaves the file: what of it has reached the disk nobody knows.
CloseFails ==
  /\ status = "writing" /\ ~Cut
  /\ Fail("close")

\* Mutant: the content is not compared.
GenuineAlways == TRUE

\* VerifyingReadCloser compares size and digest.
Genuine == stream = Named(at)

\* Mutant: the entries are not counted with the tail.
TailOverAlone == phase # "verify" /\ stream.tail > Limit("total")

\* drain: what follows the tar's end counts as extracted bytes; Verify does not count it.
TailOver == phase # "verify" /\ stream.tail > Limit("total") - total

\* The end of the tar, of the decompressed stream and of the blob (finishComponentStream).
EndLayer ==
  /\ status = "reading" /\ next \notin DOMAIN stream.entries
  /\ \/ stream.end = "broken" /\ Trouble("corrupt")
     \/ stream.end = "eof" /\ TailOver /\ Fail("limit")
     \/ stream.end = "eof" /\ ~TailOver /\ Genuine /\ Leave /\ UNCHANGED <<listed, report>>

\* The decompressor reads ahead, so that a mismatch may come up in any read before the end.
FindMismatch ==
  /\ status = "reading" /\ ~Genuine
  /\ Trouble("mismatch")

ReadFails ==
  /\ AtLayer \/ status = "reading"
  /\ Trouble("io")

------------------------------------------------------------------------------
\* Whole calls.

AllRead == status = "opening" /\ at \notin DOMAIN Layers
Unmatched == job.only # All /\ Selected = {}
Listed == [i \in DOMAIN listed |-> {listed[i].path}]

\* Mutant: no look for collisions.
EndScanUnchecked ==
  /\ phase = "scan" /\ AllRead /\ job.op # "diff"
  /\ \/ Unmatched /\ Fail("absent")
     \/ ~Unmatched /\ job.op = "list" /\ Fail("none")
     \/ /\ ~Unmatched /\ job.op = "extract"
        /\ phase' = "extract"
        /\ at' \in {i \in 1..(Len(Layers) + 1) : Following(1, i)}
        /\ UNCHANGED <<job, blob, alters, dest, status, stream, next, total, listed, report,
                       failure>>

\* List returns; Extract looks for collisions (checkNoCollisions) and reads all again.
EndScan ==
  /\ phase = "scan" /\ AllRead /\ job.op # "diff"
  /\ \/ Unmatched /\ Fail("absent")
     \/ ~Unmatched /\ job.op = "list" /\ Fail("none")
     \/ ~Unmatched /\ job.op = "extract" /\ Collision(Listed) /\ Fail("collision")
     \/ /\ ~Unmatched /\ job.op = "extract" /\ ~Collision(Listed)
        /\ phase' = "extract"
        /\ at' \in {i \in 1..(Len(Layers) + 1) : Following(1, i)}
        /\ UNCHANGED <<job, blob, alters, dest, status, stream, next, total, listed, report,
                       failure>>

EndExtract ==
  /\ phase = "extract" /\ AllRead
  /\ Fail("none")

TypesOf(layers) == {Typed(i) : i \in layers}
Config == job.config["a"]

\* Verify's checks of the manifest and the config.
MetadataIssues ==
  (IF Layers = <<>> THEN {"layers"} ELSE {})
  \cup (IF \E i, j \in DOMAIN Layers : i # j /\ Typed(i) = Typed(j) THEN {"duplicate"} ELSE {})
  \cup (IF DOMAIN Config # TypesOf(DOMAIN Layers) THEN {"config"} ELSE {})

\* Of two layers of one type, an issue already, the code keeps the files of the later one.
FilesOf(type) == {e.path : e \in {f \in Range(listed) : Typed(f.layer) = type}}
IsDocument(path) == Last(path) \in Documents

\* The entrypoints of the components that were opened are among their files.
EntrypointMissing ==
  \E c \in DOMAIN Config \cap TypesOf(Chosen) :
    Config[c].entry \notin {<<>>} \cup FilesOf(c)

\* verifyLocalePaths, for one locale of each component.
LocaleWrong ==
  \E c \in DOMAIN Config :
    /\ job.only \in {All, c}
    /\ \/ Config[c].localeEntry \notin {<<>>} \cup Config[c].locale
       \/ \E p \in Config[c].locale : p \notin FilesOf(c) \/ ~IsDocument(p)

EndVerify ==
  /\ phase = "verify" /\ AllRead
  /\ status' = "ended"
  /\ report' = report \cup
       IF job.metadataOnly THEN {}
       ELSE IF Unmatched THEN {"absent"}
       ELSE (IF EntrypointMissing THEN {"entrypoint"} ELSE {})
              \cup (IF Collision(Listed) THEN {"collision"} ELSE {})
              \cup (IF LocaleWrong THEN {"locale"} ELSE {})
  /\ UNCHANGED <<job, blob, alters, dest, phase, layerVars, listed, failure>>

\* componentFileFingerprints: of two entries of one path the later one counts.
Fingerprints(type, side) ==
  LET own == {i \in DOMAIN listed : listed[i].layer \in Compared(type, side)}
  IN  [p \in {listed[i].path : i \in own} |-> listed[Max({i \in own : listed[i].path = p})]]

\* Mutant: the digests of the files are not compared.
ModifiedInSize(f, g) == f.size # g.size

Modified(f, g) == f.size # g.size \/ f.data # g.data

\* diffComponentFiles
FileDiffs(before, after) ==
  {[path |-> p, change |-> "removed"] : p \in DOMAIN before \ DOMAIN after}
  \cup {[path |-> p, change |-> "added"] : p \in DOMAIN after \ DOMAIN before}
  \cup {[path |-> p, change |-> "modified"] :
          p \in {q \in DOMAIN before \cap DOMAIN after : Modified(before[q], after[q])}}

\* diffComponents
ConfigOf(type, side) ==
  IF type \in DOMAIN job.config[side] THEN job.config[side][type]
                                      ELSE [entry |-> <<>>, locale |-> {}, localeEntry |-> <<>>]
EntryChanged(type) == ConfigOf(type, "a").entry # ConfigOf(type, "b").entry

ComponentDiff(type) ==
  [what     |-> "component",
   type     |-> type,
   presence |-> CASE Digests(type, "b") = {} -> "removed"
                  [] Digests(type, "a") = {} -> "added"
                  [] OTHER -> "present",
   digest   |-> ContentChanged(type),
   entry    |-> EntryChanged(type),
   files    |-> FileDiffs(Fingerprints(type, "a"), Fingerprints(type, "b"))]

ComponentDiffs ==
  {ComponentDiff(c) : c \in {t \in TypesOf(Selected) : ContentChanged(t) \/ EntryChanged(t)}}

\* diffLocales, of all components whichever is selected.
LocaleOf(type, side) == <<ConfigOf(type, side).locale, ConfigOf(type, side).localeEntry>>
LocaleDiffs ==
  {[what |-> "locale", type |-> c] :
     c \in {t \in UNION {DOMAIN job.config[side] : side \in {"a", "b"}} :
              LocaleOf(t, "a") # LocaleOf(t, "b")}}

\* diffAnnotations, the config's schema version and the manifest's subject.
MetadataDiffs ==
  {[what |-> m] : m \in {k \in DOMAIN job.metadata["a"] : job.metadata["a"][k] # job.metadata["b"][k]}}

EndDiff ==
  /\ phase = "scan" /\ AllRead /\ job.op = "diff"
  /\ \/ Unmatched /\ Fail("absent")
     \/ /\ ~Unmatched
        /\ status' = "ended"
        /\ report' = ComponentDiffs \cup LocaleDiffs \cup MetadataDiffs
        /\ UNCHANGED <<job, blob, alters, dest, phase, layerVars, listed, failure>>

\* The caller gives up; the next check of the context sees it.  Nothing checks it once the
\* last layer is read, except Verify.
Cancel ==
  /\ \/ AtLayer \/ status = "reading"
     \/ AllRead /\ (phase = "verify" \/ Chosen = {})
  /\ Fail("cancelled")

Alter(i) ==
  /\ ~Ended /\ alters > 0
  /\ alters' = alters - 1
  /\ \E content \in (Contents \cup {Layers[i].content}) \ {blob[i]} : blob' = [blob EXCEPT ![i] = content]
  /\ UNCHANGED <<job, dest, phase, status, layerVars, listed, report, failure>>

Done == Ended /\ UNCHANGED vars

Init ==
  /\ job \in Jobs
  /\ blob \in {[i \in DOMAIN Layers |-> Layers[i].content]}
              \cup {[i \in DOMAIN Layers |-> IF i = k THEN content ELSE Layers[i].content] :
                      k \in DOMAIN Layers, content \in Contents}
  /\ alters = MaxAlters
  /\ dest = job.before
  /\ phase = IF job.op = "verify" THEN "verify" ELSE "scan"
  /\ status = "opening"
  /\ at \in {i \in 1..(Len(Layers) + 1) : Following(1, i)}
  /\ stream = Missing
  /\ next = 1
  /\ total = 0
  /\ listed = <<>>
  /\ report = IF job.op = "verify" THEN MetadataIssues ELSE {}
  /\ failure = "none"

Step ==
  \/ OpenLayer \/ ScanEntry \/ VerifyEntry \/ CreateFile \/ WriteFile \/ CopyFails \/ CloseFails
  \/ EndLayer \/ FindMismatch \/ ReadFails \/ EndScan \/ EndDiff \/ EndExtract \/ EndVerify
  \/ Cancel

Next ==
  \/ Step
  \/ \E i \in DOMAIN Layers : Alter(i)
  \/ Done

Spec == Init /\ [][Next]_vars

------------------------------------------------------------------------------
\* Properties.

\* The types; and no component takes more than its limit while it is read (archive.Scan,
\* archive.ExtractContext and Verify, each by comparisons of its own).
TypeOK ==
  /\ alters \in 0..MaxAlters
  /\ DOMAIN blob = DOMAIN Layers
  /\ DOMAIN dest = Places
  /\ phase \in {"scan", "extract", "verify"}
  /\ status \in {"opening", "reading", "writing", "ended"}
  /\ at \in Chosen \cup {Len(Layers) + 1}
  /\ stream.kind \in {"tar", "missing"}
  /\ next \in Nat \ {0}
  /\ next - 1 <= Limit("files")
  /\ total \in 0..Limit("total")
  /\ \A e \in Range(listed) :
       e.layer \in Chosen /\ e.size \in 0..Default["size"] \cup 0..job.limits.size

\* The layout stays as it is while the call runs, and has every blob as it is named.
Steady == alters = MaxAlters
Intact == \A k \in Chosen : blob[FirstOf(k)] = Named(k)

\* What the chosen components hold according to the manifest's descriptors.
Held == UNION {{<<k, i>> : i \in DOMAIN Named(k).entries} :
                 k \in {m \in Chosen : Named(m).kind = "tar"}}
HeldEntry(h) == Named(h[1]).entries[h[2]]
HeldPaths == [h \in Held |-> {HeldEntry(h).path}]

\* A call that succeeds has given what the descriptors name, whatever happened to the blobs
\* between the two readings and however the file system treats case: Extract has written
\* every entry of the chosen components, whole, and touched nothing beside them; List has
\* listed every entry ("forming one merged global virtual tree", artifact/extract.go:44;
\* "which verifies each blob's digest as it is drained", list.go:47).
GivesWhatIsNamed ==
  Ended /\ failure = "none" /\ job.op # "verify" =>
    /\ Range(listed) = {[layer |-> h[1], path |-> HeldEntry(h).path,
                         size |-> HeldEntry(h).size, data |-> HeldEntry(h).data] : h \in Held}
    /\ Len(listed) = Cardinality(Held)
    /\ job.op = "extract" =>
         /\ \A h \in Held : dest[Place(HeldEntry(h).path)] = File(HeldEntry(h).data, TRUE)
         /\ \A p \in Places :
              \/ dest[p] = job.before[p]
              \/ p = <<>>
              \/ \E h \in Held : p \in Prefixes(Place(HeldEntry(h).path))

\* Whatever happens, an extraction replaces no link, directory or device, and no file
\* unless it may overwrite ("create files without overwrite unless explicitly asked",
\* archive/extract.go:46).
KeepsWhatWasThere ==
  \A p \in Places :
    \/ dest[p] = job.before[p]
    \/ job.before[p] = Absent
    \/ /\ job.overwrite
       /\ job.before[p].kind = "file"
       /\ dest[p].kind \in {"file", "absent"}

\* Part of a file stands at the destination only while it is being written, or after its
\* Close has failed ("delete the partial file if writing that entry fails",
\* archive/extract.go:71).
NoPartialFiles ==
  \A p \in Places :
    dest[p].kind = "file" /\ ~dest[p].whole =>
      /\ status = "writing" \/ failure = "close"
      /\ p = Goal

\* Whatever a call finds, fails at or is interrupted by, the destination holds at every
\* place what it held before or what the call may put there, and half a file at most where
\* it is being written or could not be closed.
DestinationSound == KeepsWhatWasThere /\ NoPartialFiles

\* In a layout that stays as it is, what is wrong with an artifact is found before anything
\* is written: the extraction refuses nothing that the scan has let pass ("before any file
\* is written, rather than an O_EXCL failure partway through",
\* artifact/extract.go:49).
RefusesBeforeWriting ==
  Ended /\ Steady /\ failure \in {"invalid", "limit", "collision", "mismatch", "corrupt"} =>
    dest = job.before

\* A component that is sound and within limits.
Totals(entries) ==
  LET upTo[n \in 0..Len(entries)] == IF n = 0 THEN 0 ELSE upTo[n - 1] + entries[n].size IN upTo
Sum(entries) == Totals(entries)[Len(entries)]
Sound(content) ==
  /\ content.kind = "tar" /\ content.end = "eof"
  /\ \A e \in Range(content.entries) : ~Invalid(e)
Fits(content, withTail) ==
  /\ Len(content.entries) <= Limit("files")
  /\ \A e \in Range(content.entries) : e.size <= Limit("size")
  /\ Sum(content.entries) + (IF withTail THEN content.tail ELSE 0) <= Limit("total")

\* There is room for every file: directories or nothing above it, nothing or a file that
\* may be overwritten at its place.
Room ==
  /\ Chosen # {} => job.before[<<>>].kind \in {"absent", "directory"}
  /\ \A h \in Held :
       LET place == Place(HeldEntry(h).path)
       IN  /\ \A p \in Prefixes(place) \ {place} : job.before[p].kind \in {"absent", "directory"}
           /\ job.before[place].kind \in {"absent"} \cup (IF job.overwrite THEN {"file"} ELSE {})

\* In a layout that stays as it is, and where no read or write fails, List, Diff and Extract
\* succeed exactly when they can: the chosen component exists, every blob they need is the
\* one that is named, sound and within limits, and for Extract the paths do not collide and
\* there is room for the files.
SucceedsWhenItCan ==
  Ended /\ Steady /\ job.op # "verify" /\ failure \notin {"io", "cancelled", "close"} =>
    (failure = "none" <=>
       /\ ~Unmatched
       /\ Intact
       /\ \A k \in Chosen : Sound(Named(k)) /\ Fits(Named(k), TRUE)
       /\ job.op = "extract" => ~Collision(HeldPaths) /\ Room)

\* The files that a component of one artifact holds according to its descriptor.
NamedFiles(type, side) ==
  UNION {LET entries == Layers[k].content.entries
         IN  {[path |-> entries[i].path, size |-> entries[i].size, data |-> entries[i].data] :
                i \in {j \in DOMAIN entries :
                        \A l \in (j + 1)..Len(entries) : entries[l].path # entries[j].path}} :
           k \in {m \in Compared(type, side) : Layers[m].content.kind = "tar"}}

\* A comparison that succeeds has found what the descriptors of the two artifacts say,
\* whatever happened to their blobs: the components that one artifact only has, or that
\* differ in digest or entrypoint, and no others; of those that differ in content exactly
\* the paths whose size or data differ, by the way they do; and it calls the artifacts
\* equal only where nothing of that differs ("Equal is true when nothing at all differs;
\* Components lists only the components that differ", diff.go:165).  For artifacts without
\* two components of one type.
DiffIsExact ==
  Ended /\ job.op = "diff" /\ failure = "none" /\ (\A i \in DOMAIN Layers : Rivals(i) = {i}) =>
    \A c \in TypesOf(Selected) :
      LET found == {d \in report : d.what = "component" /\ d.type = c}
          named(side) == {Layers[i].content :
                            i \in {k \in Selected : Typed(k) = c /\ Layers[k].side = side}}
          before == NamedFiles(c, "a")
          after == NamedFiles(c, "b")
          differing == {f.path : f \in (before \ after) \cup (after \ before)}
          paths(change) == {f.path : f \in {g \in UNION {d.files : d \in found} : g.change = change}}
      IN  /\ found = {} <=> named("a") = named("b") /\ ~EntryChanged(c)
          /\ ~job.metadataOnly =>
               /\ paths("added") = differing \ {f.path : f \in before}
               /\ paths("removed") = differing \ {f.path : f \in after}
               /\ paths("modified") = differing \ (paths("added") \cup paths("removed"))
          /\ job.metadataOnly => \A d \in found : d.files = {}

\* What Verify promises of a valid artifact (verify.go:66); without the components' contents
\* where MetadataOnly opens none.
Valid ==
  /\ Layers # <<>> /\ (job.metadataOnly \/ ~Unmatched)
  /\ \A i, j \in DOMAIN Layers : Typed(i) = Typed(j) => i = j
  /\ DOMAIN Config = {Typed(i) : i \in DOMAIN Layers}
  /\ \A k \in Chosen : Sound(Named(k)) /\ Fits(Named(k), FALSE)
  /\ ~Collision(HeldPaths)
  /\ \A k \in Chosen :
       LET config == Config[Typed(k)]
           files == {HeldEntry(h).path : h \in {g \in Held : g[1] = k}}
       IN  /\ config.entry # <<>> => config.entry \in files
           /\ config.localeEntry # <<>> => config.localeEntry \in config.locale
           /\ config.locale \subseteq {p \in files : IsDocument(p)}

\* Verify finds no issue only in an artifact that is valid by what its descriptors name,
\* although blobs are altered meanwhile; and it finds none in a valid one whose layout is
\* intact, stays so and can be read.
VerifyIsRight ==
  Ended /\ job.op = "verify" /\ failure = "none" =>
    /\ report = {} => Valid
    /\ Steady /\ Intact /\ Valid /\ "io" \notin report => report = {}
===============================================================================
