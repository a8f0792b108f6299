-------------------------------- MODULE Store --------------------------------
(***************************************************************************)
(* The local document store (package store): Commit, Remove, Prune and     *)
(* Verify run under the catalog lock of StoreLock, one action per access   *)
(* to the store's files; Documents and OpenDocument's readers take no lock *)
(* and run between any two of those accesses.  Processes die, calls fail   *)
(* half-way, blobs rot on disk and store.json is damaged, within bounds.   *)
(*                                                                         *)
(* A digest stands for the content it names.  oras-go's content/oci.Store  *)
(* is external: Push of a manifest writes its blob and then adds it to     *)
(* index.json, Delete takes it out of index.json and then deletes its      *)
(* blob.  A blob is renamed into place.  index.json is rewritten where it  *)
(* stands: truncated, then written, so that a caller without the lock may  *)
(* read it in between, and a death or a failed write leaves it torn.       *)
(***************************************************************************)
EXTENDS StoreLock, Naturals

CONSTANTS Docs,       \* root manifest digests
          Leaves,     \* digests of configs and components
          Origins,    \* registry references a commit may name
          ConfigOf,   \* manifest.Config of each document
          LayersOf,   \* manifest.Layers of each document
          Menu,       \* Menu[w]: the calls worker w may make
          NoCall,     \* the worker has no call in progress
          FaultKinds, \* the faults that may happen
          MaxFaults   \* how many of them

Digests == Docs \cup Leaves

Calls == [op : {"commit", "remove", "prune", "verify", "documents", "read"},
          doc : Docs,
          origins : SUBSET Origins, \* {} or {origin.Reference}
          write : BOOLEAN,          \* repair, or not dryRun
          deep : BOOLEAN]           \* not metadataOnly

ASSUME StoreAssumption ==
  /\ Docs \cap Leaves = {}
  /\ ConfigOf \in [Docs -> Leaves]
  /\ LayersOf \in [Docs -> SUBSET Leaves]
  /\ Menu \in [Workers -> SUBSET Calls]
  /\ NoCall \notin Calls
  /\ FaultKinds \subseteq {"crash", "interrupt", "rot", "spoil"}
  /\ MaxFaults \in Nat

VARIABLES
  opened,   \* handles whose process is running
  mem,      \* mem[h]: the index as h's oci.Store holds it in memory
  blobs,    \* files under blobs/
  rotten,   \* those whose bytes no longer match their digest
  index,    \* index.json: the authoritative roots, as it last was whole
  torn,     \* index.json has been truncated and not yet written in full
  catalog,  \* store.json
  pc,       \* pc[w]: the next file access of w's call
  call,     \* call[w]: its operation and arguments
  todo,     \* todo[w]: blobs or roots it has not handled yet
  found,    \* found[w]: roots or blobs it has collected
  view,     \* view[w]: the catalog records it has loaded
  res,      \* res[w]: what the call returns
  acked,    \* documents whose Commit succeeded and that no Remove has taken out
  stable,   \* stable[w]: intact documents indexed ever since reader w began
  blurred,  \* calls that have read a torn index.json
  faults    \* faults so far

disk == <<blobs, rotten, index, torn, catalog>>
locals == <<call, todo, found, view>>
ghosts == <<acked, stable, blurred>>
vars == <<lockVars, opened, mem, disk, pc, locals, res, ghosts, faults>>

Graph(d) == {d, ConfigOf[d]} \cup LayersOf[d]
Reachable == UNION {Graph(d) : d \in index}
Intact(d) == Graph(d) \subseteq blobs \ rotten

Records == [docs : SUBSET Docs, origins : [Docs -> SUBSET Origins]]
NoRecords == [docs |-> {}, origins |-> [d \in Docs |-> {}]]
Catalogs == [kind : {"missing", "current", "malformed", "future"}, recs : Records]

\* loadCatalog: a missing file reads as an empty catalog, a malformed one or
\* one of another version is an error.
Loadable == catalog.kind \in {"missing", "current"}
Saved(recs) == [kind |-> "current", recs |-> recs]

Results == {"none", "ok", "issues", "notFound", "broken", "unreadable", "failed"}

FnSteps == {"config", "layers", "tag", "saveTag", "record", "save",
            "lookup", "untag", "saveUntag", "unlink", "forget",
            "mark", "sweep", "scan", "check"}
ReadSteps == {"listIndex", "listCatalog", "openRoot", "openManifest", "readBlobs"}

TypeOK ==
  /\ LockTypeOK
  /\ opened \subseteq Handles
  /\ mem \in [Handles -> SUBSET Docs]
  /\ blobs \subseteq Digests
  /\ rotten \subseteq blobs \cap Leaves
  /\ index \subseteq Docs
  /\ torn \in BOOLEAN
  /\ catalog \in Catalogs
  /\ pc \in [Workers -> {"idle", "enter", "return"} \cup FnSteps \cup ReadSteps]
  /\ call \in [Workers -> Calls \cup {NoCall}]
  /\ \A w \in Workers : pc[w] # "idle" => call[w] \in Calls
  /\ todo \in [Workers -> SUBSET Digests]
  /\ found \in [Workers -> SUBSET Digests]
  /\ view \in [Workers -> Records]
  /\ res \in [Workers -> Results]
  /\ acked \subseteq Docs
  /\ stable \in [Workers -> SUBSET Docs]
  /\ blurred \subseteq Workers
  /\ faults \in 0..MaxFaults

Init ==
  /\ LockInit
  /\ opened = {}
  /\ mem = [h \in Handles |-> {}]
  /\ blobs = {}
  /\ rotten = {}
  /\ index = {}
  /\ torn = FALSE
  /\ catalog = [kind |-> "missing", recs |-> NoRecords]
  /\ pc = [w \in Workers |-> "idle"]
  /\ call = [w \in Workers |-> NoCall]
  /\ todo = [w \in Workers |-> {}]
  /\ found = [w \in Workers |-> {}]
  /\ view = [w \in Workers |-> NoRecords]
  /\ res = [w \in Workers |-> "none"]
  /\ acked = {}
  /\ stable = [w \in Workers |-> {}]
  /\ blurred = {}
  /\ faults = 0

------------------------------------------------------------------------------
(***************************************************************************)
(* Opening a store, starting and ending a call.                            *)
(***************************************************************************)

\* Mutant: the index in memory is rebuilt from the blob files.
OpenFromBlobs(h) ==
  /\ h \notin opened
  /\ opened' = opened \cup {h}
  /\ mem' = [mem EXCEPT ![h] = blobs]
  /\ UNCHANGED <<lockVars, disk, pc, locals, res, ghosts, faults>>

\* What a caller without the lock may take index.json for: what it names or,
\* while a call rewrites it, any mixture of what it named and will name.  (A read
\* takes several system calls, and oras-go writes the roots in no fixed order.)
\* What nobody will finish, nobody can parse.
Rewriters == {w \in Workers : pc[w] \in {"saveTag", "saveUntag"}}
Glimpses == IF torn THEN UNION {SUBSET (index \cup mem[HandleOf[w]]) : w \in Rewriters}
                    ELSE {index}

\* Open: the new oci.Store loads index.json (external), without the lock.
Open(h) ==
  /\ h \notin opened
  /\ opened' = opened \cup {h}
  /\ \E roots \in Glimpses : mem' = [mem EXCEPT ![h] = roots]
  /\ UNCHANGED <<lockVars, disk, pc, locals, res, ghosts, faults>>

\* Open of an index it cannot parse: an error, and no handle.
OpenFails(h) ==
  /\ h \notin opened
  /\ torn
  /\ UNCHANGED vars

Begin(w, c, step) ==
  /\ pc[w] = "idle"
  /\ HandleOf[w] \in opened
  /\ call' = [call EXCEPT ![w] = c]
  /\ pc' = [pc EXCEPT ![w] = step]
  /\ stable' = [stable EXCEPT ![w] = {d \in index : step \in ReadSteps /\ Intact(d)}]
  /\ UNCHANGED <<opened, mem, disk, todo, found, view, res, acked, blurred, faults>>

CallLocked(w) ==
  \E c \in Menu[w] : /\ c.op \in {"commit", "remove", "prune", "verify"}
                     /\ Begin(w, c, "enter")
                     /\ Request(w)

CallDocuments(w) ==
  \E c \in Menu[w] : /\ c.op = "documents"
                     /\ Begin(w, c, "listIndex")
                     /\ UNCHANGED lockVars

CallRead(w) ==
  \E c \in Menu[w] : /\ c.op = "read"
                     /\ Begin(w, c, "openRoot")
                     /\ UNCHANGED lockVars

\* The locals of a call that is over go out of scope.
Forgotten(W) ==
  /\ pc' = [w \in Workers |-> IF w \in W THEN "idle" ELSE pc[w]]
  /\ call' = [w \in Workers |-> IF w \in W THEN NoCall ELSE call[w]]
  /\ todo' = [w \in Workers |-> IF w \in W THEN {} ELSE todo[w]]
  /\ found' = [w \in Workers |-> IF w \in W THEN {} ELSE found[w]]
  /\ view' = [w \in Workers |-> IF w \in W THEN NoRecords ELSE view[w]]
  /\ res' = [w \in Workers |-> IF w \in W THEN "none" ELSE res[w]]
  /\ stable' = [w \in Workers |-> IF w \in W THEN {} ELSE stable[w]]
  /\ blurred' = blurred \ W

TakeMu(w) ==
  /\ AcquireMu(w)
  /\ UNCHANGED <<opened, mem, disk, pc, locals, res, ghosts, faults>>

TakeFlock(w) ==
  /\ AcquireFlock(w)
  /\ UNCHANGED <<opened, mem, disk, pc, locals, res, ghosts, faults>>

\* ErrLocked.
GiveUp(w) ==
  /\ AbandonMu(w) \/ AbandonFlock(w)
  /\ Forgotten({w})
  /\ UNCHANGED <<opened, mem, disk, acked, faults>>

DropFlock(w) ==
  /\ pc[w] = "return"
  /\ UnlockFlock(w)
  /\ UNCHANGED <<opened, mem, disk, pc, locals, res, ghosts, faults>>

DropMu(w) ==
  /\ UnlockMu(w)
  /\ Forgotten({w})
  /\ UNCHANGED <<opened, mem, disk, acked, faults>>

\* A call that took no lock returns.
EndRead(w) ==
  /\ pc[w] = "return"
  /\ stage[w] = "out"
  /\ Forgotten({w})
  /\ UNCHANGED <<lockVars, opened, mem, disk, acked, faults>>

------------------------------------------------------------------------------
(***************************************************************************)
(* Inside the lock.  At(w, step) is a call about to make that file access; *)
(* Goto and Return move it on and leave the rest of its locals alone.      *)
(***************************************************************************)
At(w, step) == stage[w] = "held" /\ pc[w] = step

Doc(w) == call[w].doc

Goto(w, step) ==
  /\ pc' = [pc EXCEPT ![w] = step]
  /\ UNCHANGED <<lockVars, opened, call, res, faults>>

Return(w, r) ==
  /\ pc' = [pc EXCEPT ![w] = "return"]
  /\ res' = [res EXCEPT ![w] = r]
  /\ UNCHANGED <<lockVars, opened, call, faults>>

FirstStep(op) == CASE op = "commit" -> "config"
                   [] op = "remove" -> "lookup"
                   [] op = "prune"  -> "mark"
                   [] op = "verify" -> "scan"

\* Mutant: the handle keeps the index it loaded when it was opened.
RefreshSkipped(w) ==
  /\ At(w, "enter")
  /\ Goto(w, FirstStep(call[w].op))
  /\ UNCHANGED <<mem, disk, todo, found, view, ghosts>>

\* refreshOCIStore: index.json as it is now replaces the handle's memory of it;
\* a torn one ends the call before it does anything.
Refresh(w) ==
  /\ At(w, "enter")
  /\ \/ /\ ~torn
        /\ mem' = [mem EXCEPT ![HandleOf[w]] = index]
        /\ Goto(w, FirstStep(call[w].op))
     \/ torn /\ UNCHANGED mem /\ Return(w, "failed")
  /\ UNCHANGED <<disk, todo, found, view, ghosts>>

\* Commit: the config, then the components in the order of the source, each
\* pushed unless a file of that name exists.
PushConfig(w) ==
  /\ At(w, "config")
  /\ blobs' = blobs \cup {ConfigOf[Doc(w)]}
  /\ todo' = [todo EXCEPT ![w] = LayersOf[Doc(w)]]
  /\ Goto(w, "layers")
  /\ UNCHANGED <<mem, rotten, index, torn, catalog, found, view, ghosts>>

PushLayer(w) ==
  /\ At(w, "layers")
  /\ \E b \in todo[w] :
       /\ blobs' = blobs \cup {b}
       /\ todo' = [todo EXCEPT ![w] = @ \ {b}]
  /\ Goto(w, "layers")
  /\ UNCHANGED <<mem, rotten, index, torn, catalog, found, view, ghosts>>

\* The root manifest last.  A manifest file that exists is not pushed again,
\* and what is not pushed is not added to index.json either.
PushManifest(w) ==
  /\ At(w, "layers")
  /\ todo[w] = {}
  /\ blobs' = blobs \cup {Doc(w)}
  /\ Goto(w, IF Doc(w) \in blobs THEN "record" ELSE "tag")
  /\ UNCHANGED <<mem, rotten, index, torn, catalog, todo, found, view, ghosts>>

\* The second half of oci.Store.Push: the handle's index grows and is saved,
\* which truncates index.json ...
Tag(w) ==
  /\ At(w, "tag")
  /\ mem' = [mem EXCEPT ![HandleOf[w]] = @ \cup {Doc(w)}]
  /\ torn' = TRUE
  /\ Goto(w, "saveTag")
  /\ UNCHANGED <<blobs, rotten, index, catalog, todo, found, view, ghosts>>

\* ... and writes it.
SaveTag(w) ==
  /\ At(w, "saveTag")
  /\ index' = mem[HandleOf[w]]
  /\ torn' = FALSE
  /\ Goto(w, "record")
  /\ UNCHANGED <<mem, blobs, rotten, catalog, todo, found, view, ghosts>>

\* recordDocument, loading: an unreadable catalog fails the commit here.
LoadRecords(w) ==
  /\ At(w, "record")
  /\ IF Loadable
       THEN /\ view' = [view EXCEPT ![w] = catalog.recs]
            /\ Goto(w, "save")
       ELSE UNCHANGED view /\ Return(w, "failed")
  /\ UNCHANGED <<mem, disk, todo, found, ghosts>>

\* Mutant: the record's origins are replaced by the new commit's.
SaveRecordReplacing(w) ==
  /\ At(w, "save")
  /\ catalog' = Saved([docs |-> view[w].docs \cup {Doc(w)},
                       origins |-> [view[w].origins EXCEPT ![Doc(w)] = call[w].origins]])
  /\ acked' = acked \cup {Doc(w)}
  /\ Return(w, "ok")
  /\ UNCHANGED <<mem, blobs, rotten, index, torn, todo, found, view, stable, blurred>>

\* recordDocument, saving: origins accumulate.
SaveRecord(w) ==
  /\ At(w, "save")
  /\ catalog' = Saved([docs |-> view[w].docs \cup {Doc(w)},
                       origins |-> [view[w].origins EXCEPT ![Doc(w)] = @ \cup call[w].origins]])
  /\ acked' = acked \cup {Doc(w)}
  /\ Return(w, "ok")
  /\ UNCHANGED <<mem, blobs, rotten, index, torn, todo, found, view, stable, blurred>>

\* Remove: the root must be indexed and the catalog readable before anything
\* is deleted.
Lookup(w) ==
  /\ At(w, "lookup")
  /\ IF Doc(w) \in index /\ Loadable
       THEN /\ view' = [view EXCEPT ![w] = catalog.recs]
            /\ Goto(w, "untag")
       ELSE /\ Return(w, IF Doc(w) \in index THEN "failed" ELSE "notFound")
            /\ UNCHANGED view
  /\ UNCHANGED <<mem, disk, todo, found, ghosts>>

\* oci.Store.Delete: index.json first, truncated and written, ...
Untag(w) ==
  /\ At(w, "untag")
  /\ mem' = [mem EXCEPT ![HandleOf[w]] = @ \ {Doc(w)}]
  /\ torn' = TRUE
  /\ Goto(w, "saveUntag")
  /\ UNCHANGED <<blobs, rotten, index, catalog, todo, found, view, ghosts>>

SaveUntag(w) ==
  /\ At(w, "saveUntag")
  /\ index' = mem[HandleOf[w]]
  /\ torn' = FALSE
  /\ acked' = acked \ {Doc(w)}
  /\ stable' = [v \in Workers |-> stable[v] \ {Doc(w)}]
  /\ Goto(w, "unlink")
  /\ UNCHANGED <<mem, blobs, rotten, catalog, todo, found, view, blurred>>

\* ... then the manifest's blob.
Unlink(w) ==
  /\ At(w, "unlink")
  /\ blobs' = blobs \ {Doc(w)}
  /\ Goto(w, "forget")
  /\ UNCHANGED <<mem, rotten, index, torn, catalog, todo, found, view, ghosts>>

DropRecord(w) ==
  /\ At(w, "forget")
  /\ catalog' = IF Doc(w) \in view[w].docs
                  THEN Saved([docs |-> view[w].docs \ {Doc(w)},
                              origins |-> [view[w].origins EXCEPT ![Doc(w)] = {}]])
                  ELSE catalog
  /\ Return(w, "ok")
  /\ UNCHANGED <<mem, blobs, rotten, index, torn, todo, found, view, ghosts>>

\* Mutant: configs are not counted as reachable.
MarkWithoutConfigs(w) ==
  /\ At(w, "mark")
  /\ found' = [found EXCEPT ![w] = index \cup UNION {LayersOf[d] : d \in index}]
  /\ IF call[w].write THEN Goto(w, "sweep") ELSE Return(w, "ok")
  /\ UNCHANGED <<mem, disk, todo, view, ghosts>>

\* Mutant: the roots are taken from the catalog.
MarkFromCatalog(w) ==
  /\ At(w, "mark")
  /\ found' = [found EXCEPT ![w] = UNION {Graph(d) : d \in catalog.recs.docs}]
  /\ IF call[w].write THEN Goto(w, "sweep") ELSE Return(w, "ok")
  /\ UNCHANGED <<mem, disk, todo, view, ghosts>>

\* Prune: what the roots reach, read from their manifests; a dry run stops here.
Mark(w) ==
  /\ At(w, "mark")
  /\ found' = [found EXCEPT ![w] = Reachable]
  /\ IF index \subseteq blobs
       THEN IF call[w].write THEN Goto(w, "sweep") ELSE Return(w, "ok")
       ELSE Return(w, "failed")
  /\ UNCHANGED <<mem, disk, todo, view, ghosts>>

Sweep(w) ==
  /\ At(w, "sweep")
  /\ \E b \in blobs \ found[w] :
       /\ blobs' = blobs \ {b}
       /\ rotten' = rotten \ {b}
  /\ Goto(w, "sweep")
  /\ UNCHANGED <<mem, index, torn, catalog, todo, found, view, ghosts>>

SweepDone(w) ==
  /\ At(w, "sweep")
  /\ blobs \subseteq found[w]
  /\ Return(w, "ok")
  /\ UNCHANGED <<mem, disk, todo, found, view, ghosts>>

\* Mutant: a repair starts over from any catalog it cannot read.
ScanRebuildingAny(w) ==
  /\ At(w, "scan")
  /\ IF Loadable \/ call[w].write
       THEN /\ view' = [view EXCEPT ![w] = IF Loadable THEN catalog.recs ELSE NoRecords]
            /\ todo' = [todo EXCEPT ![w] = index]
            /\ Goto(w, "check")
       ELSE UNCHANGED <<view, todo>> /\ Return(w, "failed")
  /\ UNCHANGED <<mem, disk, found, ghosts>>

\* Verify: index.json and store.json first; a repair starts from an empty
\* catalog where store.json is malformed, never where it is newer.
Scan(w) ==
  /\ At(w, "scan")
  /\ IF Loadable \/ (call[w].write /\ catalog.kind = "malformed")
       THEN /\ view' = [view EXCEPT ![w] = IF Loadable THEN catalog.recs ELSE NoRecords]
            /\ todo' = [todo EXCEPT ![w] = index]
            /\ Goto(w, "check")
       ELSE UNCHANGED <<view, todo>> /\ Return(w, "failed")
  /\ UNCHANGED <<mem, disk, found, ghosts>>

\* openDocument and artifact.Verify of one root; components only when deep.
Verified(w, d) ==
  {d, ConfigOf[d]} \cup (IF call[w].deep THEN LayersOf[d] ELSE {}) \subseteq blobs \ rotten

CheckRoot(w) ==
  /\ At(w, "check")
  /\ \E d \in todo[w] :
       /\ todo' = [todo EXCEPT ![w] = @ \ {d}]
       /\ found' = [found EXCEPT ![w] = IF Verified(w, d) THEN @ \cup {d} ELSE @]
  /\ Goto(w, "check")
  /\ UNCHANGED <<mem, disk, view, ghosts>>

\* Mutant: a repair keeps records, and adds none.
ConcludeWithoutAdding(w) ==
  /\ At(w, "check")
  /\ todo[w] = {}
  /\ catalog' = IF call[w].write
                  THEN Saved([view[w] EXCEPT !.docs = @ \cap found[w]])
                  ELSE catalog
  /\ Return(w, IF found[w] = index /\ (call[w].write \/ view[w].docs = found[w])
                 THEN "ok" ELSE "issues")
  /\ UNCHANGED <<mem, blobs, rotten, index, torn, todo, found, view, ghosts>>

\* Issues are roots that did not verify and, unless they are repaired, records
\* without a verified root and verified roots without a record.
Conclude(w) ==
  /\ At(w, "check")
  /\ todo[w] = {}
  /\ catalog' = IF call[w].write
                  THEN Saved([docs |-> found[w],
                              origins |-> [d \in Docs |-> IF d \in found[w] THEN view[w].origins[d]
                                                                            ELSE {}]])
                  ELSE catalog
  /\ Return(w, IF found[w] = index /\ (call[w].write \/ view[w].docs = found[w])
                 THEN "ok" ELSE "issues")
  /\ UNCHANGED <<mem, blobs, rotten, index, torn, todo, found, view, ghosts>>

------------------------------------------------------------------------------
(***************************************************************************)
(* Without the lock: Documents, and a document opened and read to the end. *)
(***************************************************************************)
Reading(w, step) == pc[w] = step

Blur(w) == /\ blurred' = IF torn THEN blurred \cup {w} ELSE blurred
           /\ UNCHANGED <<acked, stable>>

ListIndex(w) ==
  /\ Reading(w, "listIndex")
  /\ \/ \E roots \in Glimpses : /\ found' = [found EXCEPT ![w] = roots]
                                /\ Goto(w, "listCatalog")
     \/ torn /\ UNCHANGED found /\ Return(w, "unreadable")
  /\ Blur(w)
  /\ UNCHANGED <<mem, disk, todo, view>>

ListCatalog(w) ==
  /\ Reading(w, "listCatalog")
  /\ view' = [view EXCEPT ![w] = IF Loadable THEN catalog.recs ELSE NoRecords]
  /\ Return(w, IF Loadable THEN "ok" ELSE "failed")
  /\ UNCHANGED <<mem, disk, todo, found, ghosts>>

OpenRoot(w) ==
  /\ Reading(w, "openRoot")
  /\ \/ \E roots \in Glimpses :
          IF Doc(w) \in roots THEN Goto(w, "openManifest") ELSE Return(w, "notFound")
     \/ torn /\ Return(w, "unreadable")
  /\ Blur(w)
  /\ UNCHANGED <<mem, disk, todo, found, view>>

OpenManifest(w) ==
  /\ Reading(w, "openManifest")
  /\ todo' = [todo EXCEPT ![w] = Graph(Doc(w)) \ {Doc(w)}]
  /\ IF Doc(w) \in blobs \ rotten THEN Goto(w, "readBlobs") ELSE Return(w, "broken")
  /\ UNCHANGED <<mem, disk, found, view, ghosts>>

\* The reader fetches a blob each time it is asked for one, and verifies it.
ReadBlob(w) ==
  /\ Reading(w, "readBlobs")
  /\ \E b \in todo[w] :
       /\ todo' = [todo EXCEPT ![w] = @ \ {b}]
       /\ IF b \in blobs \ rotten THEN Goto(w, "readBlobs") ELSE Return(w, "broken")
  /\ UNCHANGED <<mem, disk, found, view, ghosts>>

ReadDone(w) ==
  /\ Reading(w, "readBlobs")
  /\ todo[w] = {}
  /\ Return(w, "ok")
  /\ UNCHANGED <<mem, disk, todo, found, view, ghosts>>

------------------------------------------------------------------------------
(***************************************************************************)
(* Faults.                                                                 *)
(***************************************************************************)
Fault(kind) ==
  /\ kind \in FaultKinds
  /\ faults < MaxFaults
  /\ faults' = faults + 1

\* The process of handle h dies; its files stay as they are.
Crash(h) ==
  /\ Fault("crash")
  /\ h \in opened
  /\ Die(h)
  /\ opened' = opened \ {h}
  /\ mem' = [mem EXCEPT ![h] = {}]
  /\ Forgotten({w \in Workers : HandleOf[w] = h})
  /\ UNCHANGED <<disk, acked>>

\* The context is cancelled, or a file access fails, before the next access:
\* fn returns the error and nothing is undone.  A verification checks its roots
\* to the end all the same; only a repair's save can still fail it.
Interrupt(w) ==
  /\ Fault("interrupt")
  /\ stage[w] = "held"
  /\ pc[w] \in FnSteps \cup {"enter"}
  /\ pc[w] = "check" => todo[w] = {} /\ call[w].write
  /\ pc' = [pc EXCEPT ![w] = "return"]
  /\ res' = [res EXCEPT ![w] = "failed"]
  /\ UNCHANGED <<lockVars, opened, mem, disk, locals, ghosts>>

\* Inside a verification a passing read error costs one root, and a cancelled
\* context every root that is left: each counts as one that did not verify.
MissRoots(w) ==
  /\ Fault("interrupt")
  /\ At(w, "check")
  /\ \E roots \in SUBSET todo[w] \ {{}} : todo' = [todo EXCEPT ![w] = @ \ roots]
  /\ UNCHANGED <<lockVars, opened, mem, disk, pc, call, found, view, res, ghosts>>

\* A config or component file goes bad.
Rot(b) ==
  /\ Fault("rot")
  /\ b \in (blobs \cap Leaves) \ rotten
  /\ rotten' = rotten \cup {b}
  /\ stable' = [w \in Workers |-> {d \in stable[w] : b \notin Graph(d)}]
  /\ UNCHANGED <<lockVars, opened, mem, blobs, index, torn, catalog, pc, locals, res, acked, blurred>>

\* store.json is deleted, damaged, or rewritten by a newer version of the
\* program, which takes the same lock.
Spoil(kind) ==
  /\ Fault("spoil")
  /\ flock = NoHandle
  /\ Loadable
  /\ catalog' = [kind |-> kind, recs |-> NoRecords]
  /\ UNCHANGED <<lockVars, opened, mem, blobs, rotten, index, torn, pc, locals, res, ghosts>>

------------------------------------------------------------------------------
Lock(w) == CallLocked(w) \/ TakeMu(w) \/ TakeFlock(w) \/ GiveUp(w) \/ DropFlock(w) \/ DropMu(w)

Commit(w) == PushConfig(w) \/ PushLayer(w) \/ PushManifest(w) \/ Tag(w)
             \/ SaveTag(w) \/ LoadRecords(w) \/ SaveRecord(w)

Remove(w) == Lookup(w) \/ Untag(w) \/ SaveUntag(w) \/ Unlink(w) \/ DropRecord(w)

Prune(w) == Mark(w) \/ Sweep(w) \/ SweepDone(w)

Verify(w) == Scan(w) \/ CheckRoot(w) \/ Conclude(w)

Documents(w) == CallDocuments(w) \/ ListIndex(w) \/ ListCatalog(w)

OpenDocument(w) == CallRead(w) \/ OpenRoot(w) \/ OpenManifest(w) \/ ReadBlob(w) \/ ReadDone(w)

Next ==
  \/ \E h \in Handles : Open(h) \/ OpenFails(h) \/ Crash(h)
  \/ \E w \in Workers : \/ Lock(w) \/ Refresh(w) \/ Commit(w) \/ Remove(w) \/ Prune(w) \/ Verify(w)
                        \/ Documents(w) \/ OpenDocument(w) \/ EndRead(w)
                        \/ Interrupt(w) \/ MissRoots(w)
  \/ \E b \in Leaves : Rot(b)
  \/ \E kind \in {"missing", "malformed", "future"} : Spoil(kind)

Spec == Init /\ [][Next]_vars

------------------------------------------------------------------------------
(***************************************************************************)
(* The inductive invariant: why the properties below hold.                 *)
(***************************************************************************)
CommitSteps == {"config", "layers", "tag", "saveTag", "record", "save"}
RemoveSteps == {"lookup", "untag", "saveUntag", "unlink", "forget"}
PruneSteps == {"mark", "sweep"}
VerifySteps == {"scan", "check"}

\* Every step belongs to its operation, and fn runs only inside the lock.
StepsInPlace ==
  \A w \in Workers :
    /\ pc[w] # "idle" => HandleOf[w] \in opened
    /\ pc[w] \in FnSteps => stage[w] = "held"
    /\ stage[w] \in {"waitMu", "waitFlock"} => pc[w] = "enter"
    /\ pc[w] = "enter" => call[w].op \in {"commit", "remove", "prune", "verify"}
    /\ pc[w] \in CommitSteps => call[w].op = "commit"
    /\ pc[w] \in RemoveSteps => call[w].op = "remove"
    /\ pc[w] \in PruneSteps => call[w].op = "prune"
    /\ pc[w] \in VerifySteps => call[w].op = "verify"
    /\ pc[w] \in ReadSteps => call[w].op \in {"documents", "read"}

\* Inside fn the handle's memory of index.json is index.json, or what is being
\* written there.
MemoryFresh ==
  \A w \in Workers :
    /\ pc[w] \in FnSteps \ {"saveTag", "saveUntag"} => mem[HandleOf[w]] = index
    /\ pc[w] = "saveTag" => mem[HandleOf[w]] = index \cup {Doc(w)}
    /\ pc[w] = "saveUntag" => mem[HandleOf[w]] = index \ {Doc(w)}

\* Inside fn index.json is whole, except while the call itself rewrites it.
TornByHolder ==
  \A w \in Workers :
    /\ pc[w] \in FnSteps \ {"saveTag", "saveUntag"} => ~torn
    /\ pc[w] \in {"saveTag", "saveUntag"} => torn

\* A commit has pushed what it has gone past.
GraphPushed ==
  \A w \in Workers :
    /\ pc[w] = "layers" => /\ todo[w] \subseteq LayersOf[Doc(w)]
                           /\ Graph(Doc(w)) \ (todo[w] \cup {Doc(w)}) \subseteq blobs
    /\ pc[w] \in {"tag", "saveTag"} => Graph(Doc(w)) \subseteq blobs

\* A removal deletes the file of a document that is no longer indexed.
UntaggedFirst == \A w \in Workers : pc[w] = "unlink" => Doc(w) \notin index

\* A prune that deletes knows exactly what the index reaches.
MarkExact == \A w \in Workers : pc[w] = "sweep" => found[w] = Reachable

\* A verification starts with nothing collected, and collects indexed roots.
RootsOnly ==
  \A w \in Workers :
    /\ pc[w] \in {"idle", "enter", "scan"} => found[w] = {}
    /\ pc[w] = "check" => todo[w] \cup found[w] \subseteq index

\* Stable documents are indexed and intact, and a reader still has only blobs
\* of its document to read.
StableIntact ==
  \A w \in Workers :
    /\ \A d \in stable[w] : d \in index /\ Intact(d)
    /\ pc[w] = "readBlobs" => todo[w] \subseteq Graph(Doc(w))

------------------------------------------------------------------------------
(***************************************************************************)
(* Further invariants, which rest on the one above: what a call knows of   *)
(* the catalog, and what holds as long as no call is cut short.            *)
(***************************************************************************)

\* A call that is about to rewrite store.json still holds what is in it; a
\* repair may hold nothing instead, of a file it could not read.
ViewFresh ==
  \A w \in Workers :
    /\ pc[w] \in {"save", "untag", "saveUntag", "unlink", "forget"} => Loadable /\ view[w] = catalog.recs
    /\ pc[w] = "check" => /\ Loadable => view[w] = catalog.recs
                          /\ Loadable \/ (call[w].write /\ catalog.kind = "malformed")
    /\ pc[w] = "forget" => Doc(w) \notin index

\* Where no call is cut short, a manifest on disk is indexed, or about to be,
\* or about to be deleted; so a commit that finds its manifest finds it indexed.
ManifestsIndexed ==
  /\ \A d \in Docs \cap blobs :
       d \in index \/ \E w \in Workers : pc[w] \in {"tag", "saveTag", "unlink"} /\ d = Doc(w)
  /\ \A w \in Workers : pc[w] \in {"record", "save"} => Doc(w) \in index

\* Where no call fails, a verification has found every intact root it checked.
IntactFound ==
  \A w \in Workers :
    pc[w] = "check" => \A d \in index \ todo[w] : Intact(d) => d \in found[w]

------------------------------------------------------------------------------
(***************************************************************************)
(* What must hold.                                                         *)
(***************************************************************************)

\* Every indexed document has its whole graph on disk, at every moment and
\* after every crash: commits write leaves before manifests and manifests
\* before the index, and a prune running at any time takes nothing of it.
IndexClosed == \A d \in index : Graph(d) \subseteq blobs

\* "Commit copies source's complete graph into the store": a document whose
\* commit returned success is in the index until somebody removes it.
CommittedIsListed == acked \subseteq index

\* A call that takes no lock sees every intact document that stays indexed
\* while it runs, whatever is committed, removed, pruned or repaired meanwhile:
\* Documents lists it and OpenDocument finds it, unless they read index.json at
\* a moment when it was torn; and once it is open, reading it to the end never
\* fails, torn index or not.
StableDocumentsVisible ==
  \A w \in Workers :
    /\ pc[w] = "listCatalog" /\ w \notin blurred => stable[w] \subseteq found[w]
    /\ pc[w] = "return" =>
         /\ res[w] = "notFound" /\ w \notin blurred => Doc(w) \notin stable[w]
         /\ res[w] = "unreadable" => w \in blurred
         /\ res[w] = "broken" => Doc(w) \notin stable[w]

\* An index.json that was left torn is nobody's empty index: no commit builds
\* on it or on a handle's older memory of it, no removal or prune deletes a blob
\* by it, and no repair writes a catalog from it.
TornStoreKept ==
  [][torn /\ Rewriters = {} =>
       /\ UNCHANGED <<blobs, index, torn>>
       /\ catalog' # catalog => flock = NoHandle]_vars

\* A prune that returns success leaves exactly what the index reaches.
PruneExact ==
  \A w \in Workers :
    At(w, "return") /\ res[w] = "ok" /\ call[w].op = "prune" /\ call[w].write
      => blobs = Reachable

\* The inductive invariant of the three properties above.
StoreInv ==
  /\ TypeOK
  /\ LockInv
  /\ StepsInPlace
  /\ MemoryFresh
  /\ TornByHolder
  /\ GraphPushed
  /\ UntaggedFirst
  /\ MarkExact
  /\ RootsOnly
  /\ StableIntact
  /\ IndexClosed
  /\ StableDocumentsVisible
  /\ PruneExact

\* A repair that returns, and a verification that found nothing wrong, leave a
\* readable catalog of indexed documents that misses no intact one.
VerifiedAgrees ==
  \A w \in Workers :
    At(w, "return") /\ call[w].op = "verify"
      /\ (res[w] = "ok" \/ (res[w] = "issues" /\ call[w].write))
      => /\ Loadable
         /\ catalog.recs.docs \subseteq index
         /\ \A d \in index : Intact(d) => d \in catalog.recs.docs

\* No step loses an origin of an intact document that stays indexed: commits
\* of two processes do not overwrite each other's records, and a repair keeps
\* what it found.
OriginsKept ==
  [][\A d \in index \cap index' :
       Intact(d) /\ catalog.kind = "current" /\ catalog'.kind = "current"
         => catalog.recs.origins[d] \subseteq catalog'.recs.origins[d]]_vars

\* A catalog this version cannot read is left alone: a newer one by every call,
\* a malformed one by every call but a repair.
UnreadableCatalogKept ==
  [][catalog' # catalog =>
       /\ catalog.kind # "future"
       /\ catalog.kind = "malformed" =>
            \E w \in Workers : At(w, "check") /\ call[w].op = "verify" /\ call[w].write]_vars
==============================================================================
