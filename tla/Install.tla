------------------------------- MODULE Install -------------------------------
(***************************************************************************)
(* Calls that put a complete result at one destination: archives through   *)
(* atomicfile.WriteFile (BuildArchive, PullArchive, Store.ExportFile), or  *)
(* layouts through replaceDirectory (Copy to a layout), one action per     *)
(* access to the file system.  Any access may fail and any process may     *)
(* die; the file system itself does not lose what it was told.             *)
(*                                                                         *)
(* External: os.Link fails where something exists, os.Rename replaces a    *)
(* file but, in Go, fails where a directory exists.                        *)
(***************************************************************************)
EXTENDS Naturals

CONSTANTS Workers,    \* calls, each with a result of its own
          Old,        \* what may be at the destination before
          Absent,     \* nothing
          Partial,    \* a file or directory that is not complete
          Crashes,    \* whether processes may die
          MaxFailures \* accesses that may fail

ASSUME InstallAssumption ==
  /\ Old \notin Workers /\ Absent \notin Workers /\ Partial \notin Workers
  /\ Old # Absent /\ Old # Partial /\ Absent # Partial
  /\ Crashes \in BOOLEAN
  /\ MaxFailures \in Nat

VARIABLES
  kind,       \* "archive" or "layout"
  dest,       \* what is at the destination
  pc,         \* pc[w]: w's next access
  overwrite,  \* overwrite[w]: Destination.Overwrite
  staged,     \* staged[w]: its temporary file or directory
  backup,     \* backup[w]: the layout it has moved away
  res,        \* res[w]: what the call returned
  failures,   \* accesses that failed
  placed,     \* results that calls have put at the destination
  newest      \* the last of them, or what was there before

vars == <<kind, dest, pc, overwrite, staged, backup, res, failures, placed, newest>>

Results == Workers \cup {Old, Absent}   \* what is complete, or not there
ArchiveSteps == {"check", "stage", "write", "publish", "unlink"}
LayoutSteps == {"stage", "write", "look", "place", "backUp", "install", "restore", "discard"}
Steps == ArchiveSteps \cup LayoutSteps

TypeOK ==
  /\ kind \in {"archive", "layout"}
  /\ dest \in Results
  /\ pc \in [Workers -> Steps \cup {"idle", "done", "dead"}]
  /\ overwrite \in [Workers -> BOOLEAN]
  /\ staged \in [Workers -> Results \cup {Partial}]
  /\ backup \in [Workers -> Results \cup {Partial}]
  /\ res \in [Workers -> {"none", "ok", "failed", "stranded"}]
  /\ failures \in 0..MaxFailures
  /\ placed \subseteq Workers
  /\ newest \in Results

Init ==
  /\ kind \in {"archive", "layout"}
  /\ dest \in {Old, Absent} /\ newest = dest
  /\ pc = [w \in Workers |-> "idle"]
  /\ overwrite = [w \in Workers |-> FALSE]
  /\ staged = [w \in Workers |-> Absent]
  /\ backup = [w \in Workers |-> Absent]
  /\ res = [w \in Workers |-> "none"]
  /\ failures = 0
  /\ placed = {}

------------------------------------------------------------------------------
Goto(w, step) == pc' = [pc EXCEPT ![w] = step] /\ UNCHANGED res

\* The deferred cleanup removes what is still staged.
Return(w, r) ==
  /\ pc' = [pc EXCEPT ![w] = "done"]
  /\ res' = [res EXCEPT ![w] = r]
  /\ staged' = [staged EXCEPT ![w] = Absent]

Kept == UNCHANGED <<dest, placed, newest>>

\* What w has staged is now at the destination.
Place(w) == dest' = staged[w] /\ placed' = placed \cup {w} /\ newest' = staged[w]

\* BuildArchive and PullArchive check first, ExportFile and Copy do not.
Begin(w) ==
  /\ pc[w] = "idle"
  /\ \E o \in BOOLEAN : overwrite' = [overwrite EXCEPT ![w] = o]
  /\ \E step \in IF kind = "archive" THEN {"check", "stage"} ELSE {"stage"} : Goto(w, step)
  /\ Kept /\ UNCHANGED <<kind, staged, backup, failures>>

Check(w) ==
  /\ pc[w] = "check"
  /\ \/ (overwrite[w] \/ dest = Absent) /\ Goto(w, "stage") /\ UNCHANGED staged
     \/ ~overwrite[w] /\ dest # Absent /\ Return(w, "failed")
  /\ Kept /\ UNCHANGED <<kind, overwrite, backup, failures>>

\* CreateTemp, MkdirTemp.
Stage(w) ==
  /\ pc[w] = "stage"
  /\ staged' = [staged EXCEPT ![w] = Partial]
  /\ Goto(w, "write")
  /\ Kept /\ UNCHANGED <<kind, overwrite, backup, failures>>

\* Mutant: an error of the callback is dropped.
WriteUnchecked(w) ==
  /\ pc[w] = "write"
  /\ \E c \in {Partial, w} : staged' = [staged EXCEPT ![w] = c]
  /\ Goto(w, IF kind = "archive" THEN "publish" ELSE "look")
  /\ Kept /\ UNCHANGED <<kind, overwrite, backup, failures>>

Write(w) ==
  /\ pc[w] = "write"
  /\ staged' = [staged EXCEPT ![w] = w]
  /\ Goto(w, IF kind = "archive" THEN "publish" ELSE "look")
  /\ Kept /\ UNCHANGED <<kind, overwrite, backup, failures>>

------------------------------------------------------------------------------
(***************************************************************************)
(* Archives.                                                               *)
(***************************************************************************)

\* Mutant: a rename, with or without Overwrite.
PublishByRename(w) ==
  /\ pc[w] = "publish"
  /\ Place(w) /\ Return(w, "ok")
  /\ UNCHANGED <<kind, overwrite, backup, failures>>

\* publish renames over the destination, publishNoReplace links.
Publish(w) ==
  /\ pc[w] = "publish"
  /\ \/ overwrite[w] /\ Place(w) /\ Return(w, "ok")
     \/ ~overwrite[w] /\ dest = Absent /\ Place(w) /\ Goto(w, "unlink") /\ UNCHANGED staged
     \/ ~overwrite[w] /\ dest # Absent /\ Kept /\ Return(w, "failed")
  /\ UNCHANGED <<kind, overwrite, backup, failures>>

\* Mutant: a private link that cannot be removed fails the publication.
UnlinkReported(w) ==
  /\ pc[w] = "unlink"
  /\ \E r \in {"ok", "failed"} : Return(w, r)
  /\ Kept /\ UNCHANGED <<kind, overwrite, backup, failures>>

Unlink(w) ==
  /\ pc[w] = "unlink"
  /\ Return(w, "ok")
  /\ Kept /\ UNCHANGED <<kind, overwrite, backup, failures>>

------------------------------------------------------------------------------
(***************************************************************************)
(* Layouts: replaceDirectory.                                              *)
(***************************************************************************)
Look(w) ==
  /\ pc[w] = "look"
  /\ \/ dest = Absent /\ Goto(w, "place") /\ UNCHANGED staged
     \/ dest # Absent /\ overwrite[w] /\ Goto(w, "backUp") /\ UNCHANGED staged
     \/ dest # Absent /\ ~overwrite[w] /\ Return(w, "failed")
  /\ Kept /\ UNCHANGED <<kind, overwrite, backup, failures>>

PlaceLayout(w) ==
  /\ pc[w] = "place"
  /\ \/ dest = Absent /\ Place(w) /\ Return(w, "ok")
     \/ dest # Absent /\ Kept /\ Return(w, "failed")
  /\ UNCHANGED <<kind, overwrite, backup, failures>>

BackUp(w) ==
  /\ pc[w] = "backUp"
  /\ \/ /\ dest # Absent
        /\ backup' = [backup EXCEPT ![w] = dest] /\ dest' = Absent
        /\ Goto(w, "install") /\ UNCHANGED staged
     \/ dest = Absent /\ Return(w, "failed") /\ UNCHANGED <<dest, backup>>
  /\ UNCHANGED <<kind, overwrite, failures, placed, newest>>

\* Mutant: what was moved away is removed whether or not the rename worked.
InstallCareless(w) ==
  /\ pc[w] = "install"
  /\ \/ /\ dest = Absent /\ Place(w)
        /\ staged' = [staged EXCEPT ![w] = Absent]
     \/ dest # Absent /\ Kept /\ UNCHANGED staged
  /\ Goto(w, "discard")
  /\ UNCHANGED <<kind, overwrite, backup, failures>>

Install(w) ==
  /\ pc[w] = "install"
  /\ \/ /\ dest = Absent /\ Place(w)
        /\ staged' = [staged EXCEPT ![w] = Absent]
        /\ Goto(w, "discard")
     \/ dest # Absent /\ Kept /\ UNCHANGED staged /\ Goto(w, "restore")
  /\ UNCHANGED <<kind, overwrite, backup, failures>>

\* Mutant: the install is given up without restoring.
RestoreSkipped(w) ==
  /\ pc[w] = "restore"
  /\ Return(w, "stranded")
  /\ Kept /\ UNCHANGED <<kind, overwrite, backup, failures>>

\* The layout that was moved away returns, unless another took its place.
Restore(w) ==
  /\ pc[w] = "restore"
  /\ \/ /\ dest = Absent /\ dest' = backup[w]
        /\ backup' = [backup EXCEPT ![w] = Absent]
        /\ Return(w, "failed")
     \/ dest # Absent /\ Return(w, "stranded") /\ UNCHANGED <<dest, backup>>
  /\ UNCHANGED <<kind, overwrite, failures, placed, newest>>

Discard(w) ==
  /\ pc[w] = "discard"
  /\ backup' = [backup EXCEPT ![w] = Absent]
  /\ Return(w, "ok")
  /\ Kept /\ UNCHANGED <<kind, overwrite, failures>>

------------------------------------------------------------------------------
(***************************************************************************)
(* Accesses fail, processes die.                                           *)
(***************************************************************************)

\* RemoveAll may have removed a part.
Spoiled(w) == \E c \in {backup[w], Partial} : backup' = [backup EXCEPT ![w] = c]

Fail(w) ==
  /\ failures < MaxFailures /\ failures' = failures + 1
  /\ \/ /\ pc[w] \in Steps \ {"unlink", "install", "restore", "discard"}
        /\ Return(w, "failed") /\ UNCHANGED backup
     \/ /\ pc[w] = "unlink"   \* ignored, and the cleanup takes it for done
        /\ pc' = [pc EXCEPT ![w] = "done"] /\ res' = [res EXCEPT ![w] = "ok"]
        /\ UNCHANGED <<staged, backup>>
     \/ pc[w] = "install" /\ Goto(w, "restore") /\ UNCHANGED <<staged, backup>>
     \/ pc[w] = "restore" /\ Return(w, "stranded") /\ UNCHANGED backup
     \/ pc[w] = "discard" /\ Return(w, "failed") /\ Spoiled(w)
  /\ Kept /\ UNCHANGED <<kind, overwrite>>

Crash(w) ==
  /\ Crashes
  /\ pc[w] \in Steps
  /\ Goto(w, "dead")
  /\ IF pc[w] = "discard" THEN Spoiled(w) ELSE UNCHANGED backup
  /\ Kept /\ UNCHANGED <<kind, overwrite, staged, failures>>

Archive(w) == Check(w) \/ Publish(w) \/ Unlink(w)
Layout(w) == Look(w) \/ PlaceLayout(w) \/ BackUp(w) \/ Install(w) \/ Restore(w) \/ Discard(w)

Act(w) == Begin(w) \/ Stage(w) \/ Write(w) \/ Archive(w) \/ Layout(w) \/ Fail(w) \/ Crash(w)

Next == \E w \in Workers : Act(w)

Spec == Init /\ [][Next]_vars

------------------------------------------------------------------------------
(***************************************************************************)
(* The inductive invariant.                                                *)
(***************************************************************************)

\* Only what is complete is published, and only a call that has moved a layout
\* away, and put its own in its place, throws it out.
InPlace ==
  \A w \in Workers :
    /\ pc[w] \in {"publish", "unlink", "look", "place", "backUp", "install", "restore"}
         => staged[w] = w
    /\ pc[w] \in {"install", "restore"} => backup[w] \notin {Absent, Partial, w}
    /\ pc[w] \in LayoutSteps \ {"stage", "write"} => kind = "layout"
    /\ pc[w] \in {"backUp", "install", "restore", "discard"} => overwrite[w]
    /\ pc[w] \in {"idle", "check", "stage", "write", "publish", "look", "place", "backUp"}
         => w \notin placed /\ backup[w] = Absent
    /\ pc[w] \in {"install", "restore"} => w \notin placed
    /\ pc[w] \in {"unlink", "discard"} => w \in placed
    /\ pc[w] = "discard" => backup[w] # newest

\* What is at the destination or in a backup was put at the destination once.
Copies ==
  /\ dest \in placed \cup {Old, Absent}
  /\ newest \in placed \cup {Old, Absent}
  /\ \A w \in Workers : backup[w] \in placed \cup {Old, Absent, Partial}

------------------------------------------------------------------------------
(***************************************************************************)
(* What must hold.                                                         *)
(***************************************************************************)

\* "Existing destinations are preserved unless overwrite is true": only calls
\* that may overwrite change what is there.
KeepsExisting ==
  [][dest # Absent /\ dest' # dest => \E w \in Workers : pc'[w] # pc[w] /\ overwrite[w]]_vars

\* What was put at the destination last is there or in a backup, whatever
\* fails, whoever dies, and whatever other calls do meanwhile.
NothingLost ==
  newest # Absent => newest = dest \/ \E w \in Workers : newest = backup[w]

AtRest == \A w \in Workers : pc[w] \in {"idle", "done", "dead"}

\* "Restored if installing source fails": once the calls have returned, after
\* one failure at most, the destination is not empty if it was not before.
RestoredAtRest ==
  AtRest /\ failures <= 1 /\ (\A w \in Workers : pc[w] # "dead") /\ newest # Absent
    => dest # Absent

\* An archive is reported as written exactly if it was.
ArchiveResultTrue ==
  kind = "archive" => \A w \in Workers : pc[w] = "done" => (res[w] = "ok" <=> w \in placed)

\* Where something was and nothing is, a call is about to put something: one
\* that has yet to install, as long as nothing failed, or one that restores,
\* after the one failure.
RefillUnderWay ==
  dest = Absent /\ newest # Absent /\ failures <= 1 /\ (\A w \in Workers : pc[w] # "dead")
    => \E w \in Workers : pc[w] = "install" \/ (pc[w] = "restore" /\ failures = 1)

InstallInv ==
  TypeOK /\ InPlace /\ Copies /\ NothingLost /\ ArchiveResultTrue /\ RefillUnderWay

\* "Atomically installs": an existing layout is never left without a
\* successor, even if the process that replaces it dies.
AtomicThroughCrashes == AtRest /\ failures = 0 /\ newest # Absent => dest # Absent
==============================================================================
