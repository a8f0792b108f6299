------------------------------- MODULE Registry -------------------------------
(***************************************************************************)
(* Clients of one registry repository (package registry): Attach, Push,    *)
(* Discover, Detach, Remove and Prune of the documentation attached to one *)
(* subject image, one action per registry request, any number of calls at  *)
(* once.  Nothing locks a registry: other calls run between any two        *)
(* requests of a call, and a call may fail at any of them.                 *)
(*                                                                         *)
(* The registry and oras-go are external.  A native registry lists every   *)
(* manifest that names the subject; on any other one oras-go reads, edits  *)
(* and rewrites an index of referrers under a tag, and merges the edits of *)
(* one Repository value only: registry.Client opens a new one for each     *)
(* call.  Deleting a manifest deletes the tags that point to it.           *)
(***************************************************************************)
EXTENDS Naturals, FiniteSets

CONSTANTS Workers,     \* calls that may be in progress
          Attached,    \* manifests whose subject is the image
          Standalone,  \* manifests without a subject
          NoManifest,
          Slots,       \* pairs of a document ID and a variant
          SlotOf,      \* the slot an attached manifest's annotations name
          Menu,        \* Menu[w]: the calls worker w may make
          NoCall,      \* the worker has no call in progress
          MaxFaults    \* requests that may fail

Manifests == Attached \cup Standalone
Tags == {"doc",      \* the documentation tag of the subject
         "release"}  \* any other tag

Calls == [op : {"attach", "push", "remove", "detach", "discover", "prune"},
          m : Manifests \cup {NoManifest},      \* published, or removed by digest
          tag : Tags,                           \* pushed to, or removed by tag
          mode : {"tag", "referrer", "both"},   \* "both" also stands for auto
          force : BOOLEAN,                      \* Replace, Execute, not DryRun
          strict : BOOLEAN,                     \* DiscoverOptions.Strict
          slots : SUBSET Slots,                 \* what Document and Variant select
          digest : Attached \cup {NoManifest}]  \* Digest, or Keep of a prune

Publishing == {"attach", "push"}

ASSUME RegistryAssumption ==
  /\ Attached \cap Standalone = {}
  /\ NoManifest \notin Manifests
  /\ SlotOf \in [Attached -> Slots]
  /\ IsFiniteSet(Attached)
  /\ Menu \in [Workers -> SUBSET Calls]
  /\ \A w \in Workers : \A c \in Menu[w] :
       /\ c.op = "attach" => c.m \in Attached /\ ~(c.force /\ c.mode = "referrer")
       /\ c.op = "push" => c.m \in Standalone
  /\ NoCall \notin Calls
  /\ MaxFaults \in Nat

VARIABLES
  native,     \* whether the registry serves the referrers API
  manifests,  \* manifests in the repository
  tags,       \* what each tag points to
  fallback,   \* the index of referrers oras-go maintains (external)
  pc,         \* pc[w]: the next request of w's call
  call,       \* call[w]: its operation and arguments
  target,     \* target[w]: the manifest it publishes, selected or deletes
  index,      \* index[w]: the fallback index oras-go has read for it
  tagB,       \* tagB[w]: its direct-tag discovery branch
  refB,       \* refB[w]: its referrer discovery branch
  plan,       \* plan[w]: superseded manifests a prune has yet to delete
  res,        \* res[w]: what the call returns
  faults,     \* requests that failed
  acked,      \* attachments published to the referrers, and not deleted since
  overlapped, \* two edits of the fallback index have overlapped
  same,       \* same[w]: the documentation tag has not moved since w began
  lasting,    \* lasting[w]: attachments listed ever since w began
  gone        \* gone[w]: manifests some call has been deleting since w began

repository == <<manifests, tags, fallback>>
branches == <<tagB, refB>>
ghosts == <<acked, overlapped, same, lasting, gone>>
vars == <<native, repository, pc, call, target, index, branches, plan, res, faults, ghosts>>

Listed == IF native THEN manifests \cap Attached ELSE fallback

Errors == {"notFound", "invalid", "temporary", "failed"}
Statuses == Errors \cup {"none", "ok", "conflict", "ambiguous"}
Branches == [at : {"off", "ask", "load", "done"},
             todo : SUBSET Manifests,   \* listed and not yet loaded
             cands : SUBSET Attached,   \* discoveryBranch.candidates
             err : Errors \cup {"none"}]
Off == [at |-> "off", todo |-> {}, cands |-> {}, err |-> "none"]
Ask == [Off EXCEPT !.at = "ask"]
BranchErr(e) == [Off EXCEPT !.at = "done", !.err = e]

Steps == {"lookup", "manifest", "indexRead", "indexWrite", "tag",
          "discover", "resolve", "delete", "erase"}

TypeOK ==
  /\ native \in BOOLEAN
  /\ manifests \subseteq Manifests
  /\ tags \in [Tags -> Manifests \cup {NoManifest}]
  /\ fallback \subseteq Attached
  /\ pc \in [Workers -> Steps \cup {"idle", "return"}]
  /\ call \in [Workers -> Calls \cup {NoCall}]
  /\ \A w \in Workers : pc[w] # "idle" => call[w] \in Calls
  /\ target \in [Workers -> Manifests \cup {NoManifest}]
  /\ index \in [Workers -> SUBSET Attached]
  /\ tagB \in [Workers -> Branches]
  /\ refB \in [Workers -> Branches]
  /\ plan \in [Workers -> SUBSET Attached]
  /\ res \in [Workers -> Statuses]
  /\ faults \in 0..MaxFaults
  /\ acked \subseteq Attached
  /\ overlapped \in BOOLEAN
  /\ same \in [Workers -> BOOLEAN]
  /\ lasting \in [Workers -> SUBSET Attached]
  /\ gone \in [Workers -> SUBSET Manifests]

Init ==
  /\ native \in BOOLEAN
  /\ manifests = {} /\ fallback = {}
  /\ tags = [t \in Tags |-> NoManifest]
  /\ pc = [w \in Workers |-> "idle"]
  /\ call = [w \in Workers |-> NoCall]
  /\ target = [w \in Workers |-> NoManifest]
  /\ index = [w \in Workers |-> {}]
  /\ tagB = [w \in Workers |-> Off]
  /\ refB = [w \in Workers |-> Off]
  /\ plan = [w \in Workers |-> {}]
  /\ res = [w \in Workers |-> "none"]
  /\ faults = 0
  /\ acked = {} /\ overlapped = FALSE
  /\ same = [w \in Workers |-> TRUE]
  /\ lasting = [w \in Workers |-> {}]
  /\ gone = [w \in Workers |-> {}]

------------------------------------------------------------------------------
(***************************************************************************)
(* Calls begin and end; Goto and Return move one on.                       *)
(***************************************************************************)
Move(w, step) ==
  /\ pc' = [pc EXCEPT ![w] = step]
  /\ UNCHANGED <<native, call, res, faults>>

Goto(w, step) == Move(w, step) /\ UNCHANGED <<index, branches, plan>>

\* What the call has read is forgotten, but for what it selected.
Forget(w) ==
  /\ index' = [index EXCEPT ![w] = {}]
  /\ tagB' = [tagB EXCEPT ![w] = Off]
  /\ refB' = [refB EXCEPT ![w] = Off]
  /\ plan' = [plan EXCEPT ![w] = {}]

Return(w, r) ==
  /\ pc' = [pc EXCEPT ![w] = "return"]
  /\ res' = [res EXCEPT ![w] = r]
  /\ Forget(w)
  /\ UNCHANGED <<native, call, faults>>

FirstStep(c) ==
  CASE c.op = "attach" -> IF c.mode = "referrer" THEN "manifest" ELSE "lookup"
    [] c.op = "push" -> "manifest"
    [] c.op = "remove" -> "resolve"
    [] OTHER -> "discover"

\* Where discovery starts; a prune asks for the referrers after the tag.
AsksTag(c) == c.op = "prune" \/ (c.op \in {"discover", "detach"} /\ c.mode # "referrer")
AsksReferrers(c) == c.op \in {"discover", "detach"} /\ c.mode # "tag"

\* The subject is resolved to its digest, which fixes the documentation tag;
\* the branches of the discovery mode start.
Begin(w) ==
  /\ pc[w] = "idle"
  /\ \E c \in Menu[w] :
       /\ call' = [call EXCEPT ![w] = c]
       /\ pc' = [pc EXCEPT ![w] = FirstStep(c)]
       /\ target' = [target EXCEPT ![w] = c.m]
       /\ tagB' = [tagB EXCEPT ![w] = IF AsksTag(c) THEN Ask ELSE Off]
       /\ refB' = [refB EXCEPT ![w] = IF AsksReferrers(c) THEN Ask ELSE Off]
  /\ UNCHANGED <<native, repository, index, plan, res, faults>>

End(w) ==
  /\ pc[w] = "return"
  /\ pc' = [pc EXCEPT ![w] = "idle"]
  /\ call' = [call EXCEPT ![w] = NoCall]
  /\ target' = [target EXCEPT ![w] = NoManifest]
  /\ res' = [res EXCEPT ![w] = "none"]
  /\ UNCHANGED <<native, repository, index, branches, plan, faults>>

------------------------------------------------------------------------------
(***************************************************************************)
(* Attach and Push.                                                        *)
(***************************************************************************)
Referred(c) == c.op = "attach" /\ c.mode # "tag"
Tagged(c) == c.op = "push" \/ c.mode # "referrer"

\* Mutant: any tag may be moved.
LookupUnguarded(w) ==
  /\ pc[w] = "lookup"
  /\ Goto(w, "manifest")
  /\ UNCHANGED <<repository, target>>

\* checkTagReplacement: the tag may be absent, ours already, or replaced.
Lookup(w) ==
  /\ pc[w] = "lookup"
  /\ LET existing == tags["doc"]
         free == existing = NoManifest \/ call[w].force
     IN  \/ existing = target[w] /\ call[w].mode = "tag" /\ Return(w, "ok")
         \/ existing = target[w] /\ call[w].mode # "tag" /\ Goto(w, "manifest")
         \/ existing # target[w] /\ free /\ Goto(w, "manifest")
         \/ existing # target[w] /\ ~free /\ Return(w, "conflict")
  /\ UNCHANGED <<repository, target>>

\* Mutant: the fallback index is never maintained.
PushManifestUnlisted(w) ==
  /\ pc[w] = "manifest"
  /\ manifests' = manifests \cup {target[w]}
  /\ IF Tagged(call[w]) THEN Goto(w, "tag") ELSE Return(w, "ok")
  /\ UNCHANGED <<tags, fallback, target>>

\* pushGraph and PushManifest: config and components are there before the
\* manifest is; indexReferrers only selects whether oras-go keeps the index.
PushManifest(w) ==
  /\ pc[w] = "manifest"
  /\ manifests' = manifests \cup {target[w]}
  /\ \/ Referred(call[w]) /\ ~native /\ Goto(w, "indexRead")
     \/ (native \/ ~Referred(call[w])) /\ Tagged(call[w]) /\ Goto(w, "tag")
     \/ native /\ ~Tagged(call[w]) /\ Return(w, "ok")
  /\ UNCHANGED <<tags, fallback, target>>

\* oras-go reads the index of referrers, to add a manifest or to drop one.
IndexRead(w) ==
  /\ pc[w] = "indexRead"
  /\ index' = [index EXCEPT ![w] = fallback]
  /\ Move(w, "indexWrite")
  /\ UNCHANGED <<repository, target, branches, plan>>

Edited(w) == IF call[w].op \in Publishing THEN index[w] \cup {target[w]}
                                          ELSE index[w] \ {target[w]}

\* It tags the new index, unless it is empty, and deletes the one it had read,
\* which is an error when another edit has deleted that one before.
IndexWrite(w) ==
  LET edited == Edited(w) # index[w]
      stale == index[w] \notin {{}, fallback}
  IN  /\ pc[w] = "indexWrite"
      /\ fallback' = IF edited /\ ~(Edited(w) = {} /\ stale) THEN Edited(w) ELSE fallback
      /\ \/ edited /\ stale /\ Return(w, "failed")
         \/ /\ ~(edited /\ stale)
            /\ call[w].op \in Publishing
            /\ IF Tagged(call[w]) THEN Goto(w, "tag") ELSE Return(w, "ok")
         \/ ~(edited /\ stale) /\ call[w].op \notin Publishing /\ Goto(w, "erase")
      /\ UNCHANGED <<manifests, tags, target>>

\* Tag: the manifest must still be there.
Tag(w) ==
  /\ pc[w] = "tag"
  /\ LET t == IF call[w].op = "push" THEN call[w].tag ELSE "doc"
     IN  \/ /\ target[w] \in manifests
            /\ tags' = [tags EXCEPT ![t] = target[w]]
            /\ Return(w, "ok")
         \/ target[w] \notin manifests /\ UNCHANGED tags /\ Return(w, "notFound")
  /\ UNCHANGED <<manifests, fallback, target>>

------------------------------------------------------------------------------
(***************************************************************************)
(* Discovery: two branches of requests, concurrent in auto mode.           *)
(***************************************************************************)
Wanted(c, m) == c.op = "prune" \/ (SlotOf[m] \in c.slots /\ c.digest \in {NoManifest, m})

\* discoverTag: what the tag points to ...
AskTag(w) ==
  /\ pc[w] = "discover" /\ tagB[w].at = "ask"
  /\ tagB' = [tagB EXCEPT ![w] = IF tags["doc"] = NoManifest
                                   THEN BranchErr("notFound")
                                   ELSE [Ask EXCEPT !.at = "load", !.todo = {tags["doc"]}]]
  /\ UNCHANGED <<native, repository, pc, call, target, index, refB, plan, res, faults>>

\* Mutant: whatever the tag points to is an attachment.
LoadTagUnchecked(w) ==
  /\ pc[w] = "discover" /\ tagB[w].at = "load"
  /\ tagB' = [tagB EXCEPT ![w] = [Off EXCEPT !.at = "done", !.cands = tagB[w].todo]]
  /\ UNCHANGED <<native, repository, pc, call, target, index, refB, plan, res, faults>>

\* ... must be an attachment of the subject.
LoadTag(w) ==
  /\ pc[w] = "discover" /\ tagB[w].at = "load"
  /\ \E m \in tagB[w].todo :
       tagB' = [tagB EXCEPT ![w] =
                  IF m \notin manifests THEN BranchErr("notFound")
                  ELSE IF m \notin Attached THEN BranchErr("invalid")
                  ELSE [Off EXCEPT !.at = "done",
                                   !.cands = {x \in {m} : Wanted(call[w], x)}]]
  /\ UNCHANGED <<native, repository, pc, call, target, index, refB, plan, res, faults>>

\* Branch b of call c once listed manifest m is loaded.
Loaded(b, c, m) == [b EXCEPT !.at = IF b.todo = {m} THEN "done" ELSE "load",
                             !.todo = @ \ {m},
                             !.cands = @ \cup {x \in {m} : Wanted(c, x)}]

\* discoverReferrers: the listing, then every manifest on it; one that cannot
\* be loaded fails the branch.
AskReferrers(w) ==
  /\ pc[w] = "discover" /\ refB[w].at = "ask"
  /\ refB' = [refB EXCEPT ![w] = [Off EXCEPT !.at = IF Listed = {} THEN "done" ELSE "load",
                                             !.todo = Listed]]
  /\ UNCHANGED <<native, repository, pc, call, target, index, tagB, plan, res, faults>>

LoadReferrer(w) ==
  /\ pc[w] = "discover" /\ refB[w].at = "load"
  /\ \E m \in refB[w].todo :
       refB' = [refB EXCEPT ![w] = IF m \in manifests THEN Loaded(@, call[w], m)
                                                      ELSE BranchErr("notFound")]
  /\ UNCHANGED <<native, repository, pc, call, target, index, tagB, plan, res, faults>>

Only(S) == CHOOSE m \in S : TRUE
Found(m) == [status |-> "ok", m |-> m]
Fail(e) == [status |-> e, m |-> NoManifest]

\* selectSingle.
Single(b) ==
  CASE b.err # "none"            -> Fail(b.err)
    [] b.err = "none" /\ Cardinality(b.cands) = 0 -> Fail("notFound")
    [] b.err = "none" /\ Cardinality(b.cands) = 1 -> Found(Only(b.cands))
    [] OTHER                     -> Fail("ambiguous")

\* reconcileTagAndReferrers.
TagAndReferrers(m, refs, strict) ==
  CASE m \in refs                                   -> Found(m)
    [] m \notin refs /\ (strict \/ Cardinality(refs) > 1) -> Fail("conflict")
    [] OTHER                                        -> Found(Only(refs))

\* Mutant: a tag that is missing ends the discovery.
AutoNeedingTag(t, r, strict) ==
  CASE t.err # "none" -> Fail(t.err)
    [] t.err = "none" /\ r.err # "none" -> Fail(r.err)
    [] OTHER -> Single([r EXCEPT !.cands = @ \cup t.cands])

\* reconcileAutoDiscovery.
AutoDiscovery(t, r, strict) ==
  CASE t.err \notin {"none", "notFound"} -> Fail(t.err)
    [] t.err \in {"none", "notFound"} /\ r.err # "none" ->
         IF t.cands # {} /\ ~strict /\ r.err = "temporary" THEN Found(Only(t.cands))
                                                           ELSE Fail(r.err)
    [] OTHER -> IF t.cands = {} \/ r.cands = {}
                  THEN Single([r EXCEPT !.cands = @ \cup t.cands])
                  ELSE TagAndReferrers(Only(t.cands), r.cands, strict)

\* Mutant: a single referrer wins over the tag, whatever the tag says.
ReconcilePreferringReferrers(c, t, r) ==
  CASE c.mode = "tag" -> Single(t)
    [] c.mode = "referrer" -> Single(r)
    [] OTHER -> IF Cardinality(r.cands) > 0 THEN Found(Only(r.cands)) ELSE AutoDiscovery(t, r, c.strict)

\* reconcileDiscovery.
Reconcile(c, t, r) ==
  CASE c.mode = "tag" -> Single(t)
    [] c.mode = "referrer" -> Single(r)
    [] OTHER -> AutoDiscovery(t, r, c.strict)

\* Discover returns; Detach goes on to remove what it selected by its digest.
Select(w) ==
  /\ pc[w] = "discover" /\ call[w].op \in {"discover", "detach"}
  /\ tagB[w].at \in {"off", "done"} /\ refB[w].at \in {"off", "done"}
  /\ LET o == Reconcile(call[w], tagB[w], refB[w])
     IN  /\ target' = [target EXCEPT ![w] = o.m]
         /\ \/ call[w].op = "detach" /\ o.status = "ok" /\ Move(w, "resolve") /\ Forget(w)
            \/ (call[w].op = "discover" \/ o.status # "ok") /\ Return(w, o.status)
  /\ UNCHANGED repository

------------------------------------------------------------------------------
(***************************************************************************)
(* Remove and Prune.                                                       *)
(***************************************************************************)

\* Remove resolves its reference, a digest or a tag, and looks at the manifest
\* before it deletes it.
Resolve(w) ==
  /\ pc[w] = "resolve"
  /\ LET m == IF target[w] = NoManifest THEN tags[call[w].tag] ELSE target[w]
     IN  /\ target' = [target EXCEPT ![w] = m]
         /\ \/ m \notin manifests /\ Return(w, "notFound")
            \/ m \in manifests /\ ~call[w].force /\ Return(w, "ok")
            \/ m \in manifests /\ call[w].force /\ Goto(w, "delete")
  /\ UNCHANGED repository

\* The registry deletes a manifest, and with it every tag that points to it.
\* A prune goes on with the next one.
Erased(w) ==
  \/ /\ target[w] \notin manifests
     /\ UNCHANGED <<manifests, tags, target>>
     /\ Return(w, "notFound")
  \/ /\ target[w] \in manifests
     /\ manifests' = manifests \ {target[w]}
     /\ tags' = [t \in Tags |-> IF tags[t] = target[w] THEN NoManifest ELSE tags[t]]
     /\ \/ plan[w] = {} /\ UNCHANGED target /\ Return(w, "ok")
        \/ \E m \in plan[w] : /\ target' = [target EXCEPT ![w] = m]
                              /\ plan' = [plan EXCEPT ![w] = @ \ {m}]
                              /\ index' = [index EXCEPT ![w] = {}]
                              /\ Move(w, "delete")
                              /\ UNCHANGED branches

\* Delete: without the referrers API, oras-go fetches a manifest with a subject
\* and takes it out of the fallback index first.
Delete(w) ==
  /\ pc[w] = "delete"
  /\ \/ (native \/ target[w] \notin Attached) /\ Erased(w)
     \/ /\ ~native /\ target[w] \in Attached
        /\ IF target[w] \in manifests THEN Goto(w, "indexRead") ELSE Return(w, "notFound")
        /\ UNCHANGED <<manifests, tags, target>>
  /\ UNCHANGED fallback

Erase(w) ==
  /\ pc[w] = "erase"
  /\ Erased(w)
  /\ UNCHANGED fallback

\* prunePrimary: the tag first; without one there is no primary.
PrunePrimary(w) ==
  /\ pc[w] = "discover" /\ call[w].op = "prune"
  /\ tagB[w].at = "done" /\ refB[w].at = "off"
  /\ \/ /\ tagB[w].err \in {"none", "notFound"}
        /\ refB' = [refB EXCEPT ![w] = Ask]
        /\ Move(w, "discover")
        /\ UNCHANGED <<index, tagB, plan>>
     \/ tagB[w].err \notin {"none", "notFound"} /\ Return(w, tagB[w].err)
  /\ UNCHANGED <<repository, target>>

Matching(c, S) == {m \in S : SlotOf[m] \in c.slots}

\* Mutant: the keep option is enough, whatever the tag says.
PruneKeepOfOption(c, primary, refs) ==
  IF c.digest # NoManifest THEN Found(c.digest)
  ELSE IF primary # {} THEN Found(Only(primary)) ELSE Fail("conflict")

\* selectPruneKeep, where primary and refs match the selectors.
PruneKeep(c, primary, refs) ==
  CASE primary # {} /\ c.digest \in {NoManifest} \cup primary -> Found(Only(primary))
    [] primary # {} /\ c.digest \notin {NoManifest} \cup primary -> Fail("conflict")
    [] primary = {} /\ refs = {} /\ c.digest = NoManifest -> Found(NoManifest)
    [] primary = {} /\ refs # {} /\ c.digest = NoManifest -> Fail("conflict")
    [] primary = {} /\ c.digest \in refs -> Found(c.digest)
    [] OTHER -> Fail("notFound")

\* Mutant: the slots are compared the wrong way round.
SupersededElsewhere(keep, refs) ==
  {m \in refs \ {keep} : keep \in Attached /\ SlotOf[m] # SlotOf[keep]}

\* planPrune: everything else in the slot of the manifest that is kept.
Superseded(keep, refs) ==
  {m \in refs \ {keep} : keep \in Attached /\ SlotOf[m] = SlotOf[keep]}

PlanPrune(w) ==
  /\ pc[w] = "discover" /\ call[w].op = "prune" /\ refB[w].at = "done"
  /\ LET refs == Matching(call[w], refB[w].cands)
         keep == PruneKeep(call[w], Matching(call[w], tagB[w].cands), refs)
         selected == Superseded(keep.m, refs)
         error == IF refB[w].err # "none" THEN refB[w].err ELSE keep.status
     IN  \/ error # "ok" /\ UNCHANGED target /\ Return(w, error)
         \/ error = "ok" /\ (selected = {} \/ ~call[w].force) /\ UNCHANGED target /\ Return(w, "ok")
         \/ /\ error = "ok" /\ call[w].force
            /\ \E m \in selected : /\ target' = [target EXCEPT ![w] = m]
                                   /\ plan' = [plan EXCEPT ![w] = selected \ {m}]
            /\ tagB' = [tagB EXCEPT ![w] = Off]
            /\ refB' = [refB EXCEPT ![w] = Off]
            /\ Move(w, "delete")
            /\ UNCHANGED index
  /\ UNCHANGED repository

------------------------------------------------------------------------------
(***************************************************************************)
(* Requests fail: a timeout or a server error inside discovery is a        *)
(* branch's error, anything else the call's.                               *)
(***************************************************************************)
Fault == faults < MaxFaults /\ faults' = faults + 1

FailBranch(w) ==
  /\ Fault
  /\ pc[w] = "discover"
  /\ \E e \in {"temporary", "failed"} :
       \/ /\ tagB[w].at \in {"ask", "load"}
          /\ tagB' = [tagB EXCEPT ![w] = BranchErr(e)]
          /\ UNCHANGED refB
       \/ /\ refB[w].at \in {"ask", "load"}
          /\ refB' = [refB EXCEPT ![w] = BranchErr(e)]
          /\ UNCHANGED tagB
  /\ UNCHANGED <<native, repository, pc, call, target, index, plan, res>>

Cut(w) ==
  /\ Fault
  /\ pc[w] \in Steps \ {"discover"}
  /\ pc' = [pc EXCEPT ![w] = "return"]
  /\ res' = [res EXCEPT ![w] = "failed"]
  /\ Forget(w)
  /\ UNCHANGED <<native, repository, call, target>>

------------------------------------------------------------------------------
Attach(w) == Lookup(w) \/ PushManifest(w) \/ IndexRead(w) \/ IndexWrite(w) \/ Tag(w)
Discover(w) == AskTag(w) \/ LoadTag(w) \/ AskReferrers(w) \/ LoadReferrer(w) \/ Select(w)
Remove(w) == Resolve(w) \/ Delete(w) \/ Erase(w)
Prune(w) == PrunePrimary(w) \/ PlanPrune(w)

Act(w) == Begin(w) \/ Attach(w) \/ Discover(w) \/ Remove(w) \/ Prune(w)
            \/ FailBranch(w) \/ Cut(w) \/ End(w)

\* Attachments whose publication to the referrers succeeds with this step and
\* that no call has been deleting meanwhile.
Listing == {call[w].m : w \in {v \in Workers :
              /\ pc[v] \notin {"idle", "return"} /\ Referred(call[v])
              /\ pc'[v] = "return" /\ res'[v] = "ok" /\ call[v].m \notin gone[v]}}

\* What calls are deleting.
Deleting == {target[w] : w \in {v \in Workers :
              \/ pc[v] \in {"delete", "erase"}
              \/ pc[v] \in {"indexRead", "indexWrite"} /\ call[v].op \notin Publishing}}

\* What the history variables record of a step.
Over(w) == pc'[w] = "idle" \/ call'[w].op \in {"push", "remove"}
Watch ==
  /\ acked' = IF native THEN {} ELSE ((acked \cup Listing) \ Deleting) \cap manifests'
  /\ overlapped' = (overlapped \/ \E v, w \in Workers :
                      v # w /\ pc'[v] = "indexWrite" /\ pc'[w] = "indexWrite")
  /\ same' = [w \in Workers |-> Over(w) \/ (same[w] /\ tags'["doc"] = tags["doc"])]
  /\ lasting' = [w \in Workers |-> CASE Over(w) \/ call'[w].op \in Publishing -> {}
                                     [] ~Over(w) /\ pc[w] = "idle" -> Listed'
                                     [] OTHER -> lasting[w] \cap Listed']
  /\ gone' = [w \in Workers |-> IF Over(w) THEN {}
                                ELSE gone[w] \cup Deleting \cup (manifests \ manifests')]

Next == (\E w \in Workers : Act(w)) /\ Watch

Spec == Init /\ [][Next]_vars

------------------------------------------------------------------------------
(***************************************************************************)
(* The inductive invariant.                                                *)
(***************************************************************************)
IndexSteps == {"indexRead", "indexWrite"}

\* Every step belongs to its operation, and what a call publishes is what it
\* was asked to.
CallInPlace(w) ==
  /\ pc[w] # "idle" => call[w] \in Menu[w]
  /\ pc[w] \in {"manifest", "tag"} => call[w].op \in Publishing
  /\ pc[w] = "lookup" => call[w].op = "attach" /\ call[w].mode # "referrer"
  /\ pc[w] = "discover" => call[w].op \in {"discover", "detach", "prune"}
  /\ pc[w] = "resolve" => call[w].op \in {"remove", "detach"}
  /\ pc[w] = "tag" => Tagged(call[w])
  /\ pc[w] \in {"delete", "erase"} => call[w].op \notin Publishing /\ target[w] \in Manifests
  /\ pc[w] \in IndexSteps => target[w] \in Attached
  /\ pc[w] # "idle" /\ call[w].op \in Publishing => target[w] = call[w].m
  /\ refB[w].todo \subseteq Attached
InPlace == \A w \in Workers : CallInPlace(w)

\* A tag points to a manifest of the repository.
TagsExist == \A t \in Tags : tags[t] \in manifests \cup {NoManifest}

\* An attachment that may not replace the tag's target has found none.
FoundNone(w) ==
  pc[w] \in {"manifest", "tag"} \cup IndexSteps
    /\ call[w].op = "attach" /\ call[w].mode # "referrer" /\ ~call[w].force /\ same[w]
    => tags["doc"] \in {NoManifest, target[w]}
LookedUp == \A w \in Workers : FoundNone(w)

\* While the tag does not move, a call knows what it points to ...
KnowsPrimary(w) ==
  pc[w] = "discover" /\ same[w] =>
    /\ tagB[w].at = "load" => tagB[w].todo = {tags["doc"]} /\ tags["doc"] \in manifests
    /\ tagB[w].at = "done" /\ tagB[w].err = "none" =>
         tagB[w].cands = {m \in {tags["doc"]} : Wanted(call[w], m)}
    /\ tagB[w].at = "done" /\ tagB[w].err = "notFound" => tags["doc"] = NoManifest
    /\ call[w].op = "prune" /\ refB[w].at # "off" =>
         tagB[w].at = "done" /\ tagB[w].err \in {"none", "notFound"}
PrimaryKnown == \A w \in Workers : KnowsPrimary(w)

\* ... and a prune does not plan to delete it.
SparesPrimary(w) ==
  pc[w] \in {"delete", "erase"} \cup IndexSteps /\ call[w].op = "prune" /\ same[w]
    => tags["doc"] \notin plan[w] \cup {target[w]}
PrimaryPlanned == \A w \in Workers : SparesPrimary(w)

\* Edits of the fallback index that do not overlap start from what it holds.
IndexCurrent ==
  ~overlapped => \A w \in Workers : pc[w] = "indexWrite" =>
    index[w] = fallback /\ \A v \in Workers : pc[v] = "indexWrite" => v = w

\* A publication is listed before it is tagged, ...
ListedBeforeTag ==
  ~native /\ ~overlapped => \A w \in Workers :
    pc[w] = "tag" /\ Referred(call[w]) /\ call[w].m \notin gone[w] => call[w].m \in fallback

\* ... and after it.
AckedInFallback ==
  /\ native => acked = {}
  /\ ~native /\ ~overlapped => acked \subseteq fallback

\* A discovery deletes nothing, and waits for the branches of its mode.
CallLooks(w) ==
  /\ pc[w] # "idle" /\ call[w].op = "discover" => pc[w] \in {"discover", "return"}
  /\ pc[w] = "discover" /\ call[w].op \in {"discover", "detach"} =>
       /\ call[w].mode # "referrer" => tagB[w].at # "off"
       /\ call[w].mode # "tag" => refB[w].at # "off"
Looking == \A w \in Workers : CallLooks(w)

\* What was listed all along, and is wanted, is found or still to be loaded; it
\* is there to be loaded as long as nothing is being deleted.
KnowsReferrers(w) ==
  pc[w] = "discover" =>
    /\ refB[w].at \in {"load", "done"} /\ refB[w].err = "none" =>
         \A m \in lasting[w] : Wanted(call[w], m) => m \in refB[w].cands \cup refB[w].todo
    /\ refB[w].at = "done" => refB[w].todo = {}
    /\ native /\ gone[w] = {} => refB[w].todo \subseteq manifests /\ refB[w].err # "notFound"
ReferrersKnown == \A w \in Workers : KnowsReferrers(w)

\* Of what was listed all along in the one slot of a prune, one is not in its
\* plan; what is taken out of the fallback index was in it if it still counts.
PlansTheRest(w) ==
  pc[w] \in {"delete", "erase"} \cup IndexSteps /\ call[w].op = "prune" =>
    /\ pc[w] # "delete" => ~native
    /\ pc[w] = "indexWrite" /\ target[w] \in lasting[w] => target[w] \in index[w]
    /\ pc[w] = "erase" => target[w] \notin lasting[w]
    /\ \A s \in Slots : call[w].slots = {s} =>
         \A m, n \in lasting[w] \ (plan[w] \cup {target[w]}) :
           SlotOf[m] = s /\ SlotOf[n] = s => m = n
RestPlanned == \A w \in Workers : PlansTheRest(w)

RegistryInv ==
  /\ TypeOK
  /\ InPlace
  /\ TagsExist
  /\ LookedUp
  /\ PrimaryKnown
  /\ PrimaryPlanned
  /\ IndexCurrent
  /\ ListedBeforeTag
  /\ AckedInFallback

------------------------------------------------------------------------------
(***************************************************************************)
(* What must hold.                                                         *)
(***************************************************************************)

\* An attachment whose publication to the referrers succeeded is listed until a
\* call deletes it, also after publications and deletions that failed half-way,
\* unless two edits of the fallback index overlapped.  (A native registry lists
\* what it holds, and acked stays empty.)
AttachedIsListed == ~overlapped => acked \subseteq Listed

\* "Replace permits replacing an existing direct documentation tag": without
\* it, Attach leaves a tag that points elsewhere alone, if the tag did not move
\* after the call began.
ReplaceGuard ==
  [][\A w \in Workers :
       pc[w] = "tag" /\ pc'[w] # "tag" /\ call[w].op = "attach" /\ ~call[w].force /\ same[w]
         => tags["doc"] \in {NoManifest, tags'["doc"]}]_vars

\* No deletion of a prune takes what the documentation tag points to, whatever
\* the prune is told to keep and whatever the referrers list, unless the tag
\* moved since it began.  (A registry with the referrers API deletes at "delete",
\* where a prune stays until its plan is done, one without it at "erase".)
PruneSparesPrimary ==
  [][\A w \in Workers :
       pc[w] \in {"delete", "erase"} /\ call[w].op = "prune" /\ same[w]
         /\ <<pc'[w], target'[w], plan'[w]>> # <<pc[w], target[w], plan[w]>>
         => tags'["doc"] = tags["doc"]]_vars

\* A prune of one slot that succeeded leaves at most one of the attachments of
\* that slot that were listed all along.
PruneLeavesOne ==
  \A w \in Workers :
    pc[w] = "return" /\ res[w] = "ok" /\ call[w].op = "prune" /\ call[w].force
      => \A s \in Slots : call[w].slots = {s} =>
           \A m, n \in lasting[w] : SlotOf[m] = s /\ SlotOf[n] = s => m = n

Selected(w) == \/ pc[w] = "return" /\ res[w] = "ok" /\ call[w].op = "discover"
               \/ pc[w] = "resolve" /\ call[w].op = "detach"

\* A primary that does not move wins: if the documentation tag points to one
\* wanted attachment, and the referrers list it, from the beginning of the call
\* to its end, discovery selects that one or fails, and Detach removes no other.
SteadyPrimaryWins ==
  \A w \in Workers :
    Selected(w) /\ call[w].mode # "referrer" /\ same[w]
      /\ tags["doc"] \in lasting[w] /\ Wanted(call[w], tags["doc"])
      => target[w] = tags["doc"]

\* "ErrNotFound reports that the requested OCIDoc artifact ... does not exist":
\* discovery that looks at the referrers says so only if no wanted attachment
\* was listed throughout.
NotFoundMeansAbsent ==
  \A w \in Workers :
    pc[w] = "return" /\ res[w] = "notFound" /\ call[w].op = "discover" /\ call[w].mode # "tag"
      => \A m \in lasting[w] : ~Wanted(call[w], m)

\* The same where nothing is being deleted and the registry lists by itself.
NotFoundMeansAbsentAtRest ==
  \A w \in Workers :
    pc[w] = "return" /\ res[w] = "notFound" /\ call[w].op = "discover" /\ call[w].mode # "tag"
      /\ native /\ gone[w] = {}
      => \A m \in lasting[w] : ~Wanted(call[w], m)

\* What the calls have read, with what they answer from it.
SelectionInv ==
  /\ Looking
  /\ ReferrersKnown
  /\ RestPlanned
  /\ SteadyPrimaryWins
  /\ NotFoundMeansAbsentAtRest
  /\ PruneLeavesOne
==============================================================================
