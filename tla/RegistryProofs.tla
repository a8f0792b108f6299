---------------------------- MODULE RegistryProofs ----------------------------
(***************************************************************************)
(* What a registry's clients keep, for any number of calls, attachments    *)
(* and failing requests, with and without the referrers API.  RegistryInv  *)
(* gives what publications promise; SelectionInv, an invariant relative to *)
(* it, what a discovery or a prune answers after other calls have run      *)
(* between any two of its requests.                                        *)
(***************************************************************************)
EXTENDS Registry, FiniteSetTheorems, TLAPS

------------------------------------------------------------------------------
(***************************************************************************)
(* Types.                                                                  *)
(***************************************************************************)

LEMMA BranchesTyped ==
  /\ Off \in Branches
  /\ Ask \in Branches
  /\ \A e \in Errors : BranchErr(e) \in Branches
BY DEF Off, Ask, BranchErr, Branches

LEMMA ListedTyped == TypeOK => Listed \subseteq Attached
BY DEF TypeOK, Listed

LEMMA MenuTyped ==
  ASSUME NEW w \in Workers, NEW c \in Menu[w]
  PROVE  /\ c \in Calls
         /\ c.op = "attach" => c.m \in Attached /\ ~(c.force /\ c.mode = "referrer")
         /\ c.op = "push" => c.m \in Standalone
BY RegistryAssumption

LEMMA OnlyTyped == \A S : S # {} => Only(S) \in S
BY DEF Only

\* What the selection of a call may answer.
Answers == [status : Statuses, m : Manifests \cup {NoManifest}]

LEMMA AnswersTyped ==
  /\ \A e \in Errors \cup {"ambiguous", "conflict"} : Fail(e) \in Answers
  /\ \A m \in Manifests : Found(m) \in Answers
  /\ \A S \in SUBSET Attached : S # {} => Found(Only(S)) \in Answers
<1>1. \A e \in Errors \cup {"ambiguous", "conflict"} : Fail(e) \in Answers
  BY DEF Fail, Answers, Statuses
<1>2. \A m \in Manifests : Found(m) \in Answers
  BY DEF Found, Answers, Statuses
<1>3. \A S \in SUBSET Attached : S # {} => Found(Only(S)) \in Answers
  BY <1>2, OnlyTyped DEF Manifests
<1>4. QED
  BY <1>1, <1>2, <1>3

LEMMA SingleTyped == ASSUME NEW b \in Branches PROVE Single(b) \in Answers
<1>1. b.cands \in SUBSET Attached /\ b.err \in Errors \cup {"none"}
  BY DEF Branches
<1>2. Cardinality({}) = 0
  BY FS_EmptySet
<1>3. Cardinality(b.cands) = 1 => Found(Only(b.cands)) \in Answers
  BY <1>1, <1>2, AnswersTyped
<1>4. "notFound" \in Errors
  BY DEF Errors
<1>5. CASE b.err # "none"
  BY <1>1, <1>5, AnswersTyped DEF Single
<1>6. CASE b.err = "none" /\ Cardinality(b.cands) = 0
  BY <1>4, <1>6, AnswersTyped DEF Single
<1>7. CASE b.err = "none" /\ Cardinality(b.cands) = 1
  BY <1>3, <1>7 DEF Single
<1>8. CASE b.err = "none" /\ Cardinality(b.cands) \notin {0, 1}
  BY <1>8, AnswersTyped DEF Single
<1>9. QED
  BY <1>5, <1>6, <1>7, <1>8

LEMMA AutoTyped ==
  ASSUME NEW t \in Branches, NEW r \in Branches, NEW strict \in BOOLEAN
  PROVE  AutoDiscovery(t, r, strict) \in Answers
<1> DEFINE joined == [r EXCEPT !.cands = @ \cup t.cands]
<1>1. /\ t.cands \in SUBSET Attached /\ r.cands \in SUBSET Attached
      /\ t.err \in Errors \cup {"none"} /\ r.err \in Errors \cup {"none"}
  BY DEF Branches
<1>2. joined \in Branches
  BY DEF Branches
<1>3. Single(joined) \in Answers
  BY <1>2, SingleTyped
<1>4. t.cands # {} => Only(t.cands) \in Attached /\ Found(Only(t.cands)) \in Answers
  BY <1>1, OnlyTyped, AnswersTyped
<1>5. ASSUME t.cands # {}, r.cands # {}
      PROVE  TagAndReferrers(Only(t.cands), r.cands, strict) \in Answers
  <2>1. Found(Only(r.cands)) \in Answers /\ Fail("conflict") \in Answers
    BY <1>1, <1>5, AnswersTyped
  <2>2. QED
    BY <2>1, <1>4, <1>5 DEF TagAndReferrers
<1>6. \A e \in Errors : Fail(e) \in Answers
  BY AnswersTyped
<1>7. CASE t.err \notin {"none", "notFound"}
  BY <1>1, <1>6, <1>7 DEF AutoDiscovery
<1>8. CASE t.err \in {"none", "notFound"} /\ r.err # "none"
  BY <1>1, <1>4, <1>6, <1>8 DEF AutoDiscovery
<1>9. CASE t.err \in {"none", "notFound"} /\ r.err = "none"
  <2>1. AutoDiscovery(t, r, strict) = IF t.cands = {} \/ r.cands = {} THEN Single(joined)
                             ELSE TagAndReferrers(Only(t.cands), r.cands, strict)
    BY <1>9 DEF AutoDiscovery
  <2>2. QED
    BY <2>1, <1>3, <1>5
<1>10. QED
  BY <1>7, <1>8, <1>9

LEMMA SelectedTyped ==
  ASSUME NEW c \in Calls, NEW t \in Branches, NEW r \in Branches
  PROVE  Reconcile(c, t, r) \in Answers
<1>1. c.strict \in BOOLEAN
  BY DEF Calls
<1>2. QED
  BY <1>1, SingleTyped, AutoTyped DEF Reconcile

LEMMA PruneTyped ==
  ASSUME NEW keep, NEW c \in Calls, NEW S \in SUBSET Attached
  PROVE  Matching(c, S) \subseteq Attached /\ Superseded(keep, Matching(c, S)) \subseteq Attached
BY DEF Matching, Superseded

\* A status a plan of a prune ends with.
LEMMA PruneStatus ==
  ASSUME NEW c, NEW primary, NEW refs
  PROVE  PruneKeep(c, primary, refs).status \in {"ok", "conflict", "notFound"}
BY DEF PruneKeep, Found, Fail

\* TypeOK without the history variables.
ProgramTyped ==
  /\ native \in BOOLEAN
  /\ manifests \subseteq Manifests
  /\ tags \in [Tags -> Manifests \cup {NoManifest}]
  /\ fallback \subseteq Attached
  /\ pc \in [Workers -> Steps \cup {"idle", "return"}]
  /\ call \in [Workers -> Calls \cup {NoCall}]
  /\ \A w \in Workers : pc[w] # "idle" => call[w] \in Calls
  /\ target \in [Workers -> Manifests \cup {NoManifest}]
  /\ index \in [Workers -> SUBSET Attached]
  /\ tagB \in [Workers -> Branches]
  /\ refB \in [Workers -> Branches]
  /\ plan \in [Workers -> SUBSET Attached]
  /\ res \in [Workers -> Statuses]
  /\ faults \in 0..MaxFaults

LEMMA TypeStart == Init => TypeOK
<1> SUFFICES ASSUME Init PROVE TypeOK
  OBVIOUS
<1>1. /\ native \in BOOLEAN
      /\ manifests \subseteq Manifests
      /\ fallback \subseteq Attached
      /\ tags \in [Tags -> Manifests \cup {NoManifest}]
      /\ overlapped \in BOOLEAN
      /\ acked \subseteq Attached
  BY DEF Init
<1>2. /\ pc \in [Workers -> Steps \cup {"idle", "return"}]
      /\ call \in [Workers -> Calls \cup {NoCall}]
      /\ \A w \in Workers : pc[w] # "idle" => call[w] \in Calls
      /\ res \in [Workers -> Statuses]
  BY DEF Init, Statuses
<1>3. /\ target \in [Workers -> Manifests \cup {NoManifest}]
      /\ index \in [Workers -> SUBSET Attached]
      /\ plan \in [Workers -> SUBSET Attached]
      /\ same \in [Workers -> BOOLEAN]
      /\ lasting \in [Workers -> SUBSET Attached]
      /\ gone \in [Workers -> SUBSET Manifests]
  BY DEF Init
<1>4. tagB \in [Workers -> Branches] /\ refB \in [Workers -> Branches]
  BY BranchesTyped DEF Init
<1>5. faults \in 0..MaxFaults
  BY RegistryAssumption DEF Init
<1>6. QED
  BY <1>1, <1>2, <1>3, <1>4, <1>5 DEF TypeOK

LEMMA ProgramStep ==
  ASSUME TypeOK, InPlace, NEW w \in Workers, Act(w)
  PROVE  ProgramTyped'
<1>1. ProgramTyped
  BY DEF TypeOK, ProgramTyped
<1> USE <1>1
<1> USE DEF Move, Goto, Return, Forget, repository, branches, Steps
<1>a. Off \in Branches /\ Ask \in Branches /\ \A e \in Errors : BranchErr(e) \in Branches
  BY BranchesTyped
<1>b. {"ok", "conflict", "notFound", "none", "failed"} \subseteq Statuses /\ Errors \subseteq Statuses
  BY DEF Statuses, Errors
<1>d. Menu \in [Workers -> SUBSET Calls] /\ MaxFaults \in Nat
  BY RegistryAssumption
<1>c. CASE Begin(w)
  <2>1. PICK c \in Menu[w] :
          /\ call' = [call EXCEPT ![w] = c]
          /\ pc' = [pc EXCEPT ![w] = FirstStep(c)]
          /\ target' = [target EXCEPT ![w] = c.m]
          /\ tagB' = [tagB EXCEPT ![w] = IF AsksTag(c) THEN Ask ELSE Off]
          /\ refB' = [refB EXCEPT ![w] = IF AsksReferrers(c) THEN Ask ELSE Off]
    BY <1>c DEF Begin
  <2>2. c \in Calls /\ c.m \in Manifests \cup {NoManifest} /\ FirstStep(c) \in Steps
    BY <1>d DEF Calls, FirstStep
  <2>3. UNCHANGED <<native, manifests, tags, fallback, index, plan, res, faults>>
    BY <1>c DEF Begin
  <2>4. QED
    BY <2>1, <2>2, <2>3, <1>a DEF ProgramTyped
<1>2. CASE End(w)
  BY <1>2, <1>b DEF End, ProgramTyped
<1>3. CASE Lookup(w)
  <2>1. UNCHANGED <<native, manifests, tags, fallback, call, target, faults>>
    BY <1>3 DEF Lookup
  <2>2. Return(w, "ok") \/ Return(w, "conflict") \/ Goto(w, "manifest")
    BY <1>3 DEF Lookup
  <2>3. CASE Return(w, "ok") \/ Return(w, "conflict")
    BY <2>1, <2>3, <1>3, <1>a, <1>b DEF ProgramTyped, Lookup
  <2>4. CASE Goto(w, "manifest")
    BY <2>1, <2>4, <1>3 DEF ProgramTyped, Lookup
  <2>5. QED
    BY <2>2, <2>3, <2>4
<1>4. CASE PushManifest(w)
  <2>1. target[w] \in Manifests
    BY <1>4, MenuTyped DEF PushManifest, InPlace, CallInPlace, Publishing, Manifests
  <2>2. QED
    BY <1>4, <2>1, <1>a, <1>b DEF PushManifest, ProgramTyped
<1>5. CASE IndexRead(w)
  BY <1>5 DEF IndexRead, ProgramTyped
<1>6. CASE IndexWrite(w)
  <2>1. Edited(w) \subseteq Attached
    BY <1>6 DEF IndexWrite, Edited, InPlace, CallInPlace, IndexSteps, ProgramTyped
  <2>2. QED
    BY <1>6, <2>1, <1>a, <1>b DEF IndexWrite, ProgramTyped
<1>7. CASE Tag(w)
  <2>1. target[w] \in Manifests
    BY <1>7, MenuTyped DEF Tag, InPlace, CallInPlace, Publishing, Manifests
  <2>2. QED
    BY <1>7, <2>1, <1>a, <1>b DEF Tag, ProgramTyped
<1>8. CASE AskTag(w)
  <2>1. tags["doc"] \in Manifests \cup {NoManifest}
    BY DEF ProgramTyped, Tags
  <2>2. tagB'[w] \in Branches
    <3>1. \A m \in Manifests : [Ask EXCEPT !.at = "load", !.todo = {m}] \in Branches
      BY DEF Branches, Ask, Off
    <3>2. BranchErr("notFound") \in Branches
      BY <1>a DEF Errors
    <3>3. tagB'[w] = IF tags["doc"] = NoManifest
                       THEN BranchErr("notFound")
                       ELSE [Ask EXCEPT !.at = "load", !.todo = {tags["doc"]}]
      BY <1>8 DEF AskTag, ProgramTyped
    <3>4. QED
      BY <2>1, <3>1, <3>2, <3>3
  <2>3. QED
    BY <1>8, <2>2 DEF AskTag, ProgramTyped
<1>9. CASE LoadTag(w)
  <2>1. PICK m \in tagB[w].todo :
          tagB'[w] = IF m \notin manifests THEN BranchErr("notFound")
                     ELSE IF m \notin Attached THEN BranchErr("invalid")
                     ELSE [Off EXCEPT !.at = "done",
                                      !.cands = {x \in {m} : Wanted(call[w], x)}]
    BY <1>9 DEF LoadTag, ProgramTyped
  <2>2. tagB'[w] \in Branches
    <3>1. BranchErr("notFound") \in Branches /\ BranchErr("invalid") \in Branches
      BY <1>a DEF Errors
    <3>2. m \in Attached =>
            [Off EXCEPT !.at = "done", !.cands = {x \in {m} : Wanted(call[w], x)}] \in Branches
      BY DEF Branches, Off
    <3>3. QED
      BY <2>1, <3>1, <3>2
  <2>3. QED
    BY <1>9, <2>2 DEF LoadTag, ProgramTyped
<1>10. CASE AskReferrers(w)
  BY <1>10, ListedTyped DEF AskReferrers, ProgramTyped, Branches, Off, Manifests
<1>11. CASE LoadReferrer(w)
  <2>1. PICK m \in refB[w].todo :
          refB' = [refB EXCEPT ![w] = IF m \in manifests THEN Loaded(refB[w], call[w], m)
                                                         ELSE BranchErr("notFound")]
    BY <1>11 DEF LoadReferrer
  <2>2. m \in Attached /\ refB[w] \in Branches
    BY <2>1 DEF InPlace, CallInPlace, ProgramTyped
  <2>3. Loaded(refB[w], call[w], m) \in Branches
    BY <2>2 DEF Branches, Loaded
  <2>4. BranchErr("notFound") \in Branches
    BY <1>a DEF Errors
  <2>5. refB'[w] \in Branches
    BY <2>1, <2>3, <2>4 DEF ProgramTyped
  <2>6. QED
    BY <1>11, <2>1, <2>5 DEF LoadReferrer, ProgramTyped
<1>12. CASE Select(w)
  <2>1. Reconcile(call[w], tagB[w], refB[w]) \in Answers
    BY <1>12, SelectedTyped DEF Select, ProgramTyped
  <2>2. QED
    BY <1>12, <2>1, <1>a DEF Select, ProgramTyped, Answers
<1>13. CASE Resolve(w)
  <2>1. tags[call[w].tag] \in Manifests \cup {NoManifest}
    BY <1>13 DEF Resolve, ProgramTyped, Calls
  <2>2. QED
    BY <1>13, <2>1, <1>a, <1>b DEF Resolve, ProgramTyped
<1>e. ASSUME pc[w] \in Steps, Erased(w), UNCHANGED fallback PROVE ProgramTyped'
  <2>1. CASE target[w] \notin manifests
    BY <1>e, <2>1, <1>a, <1>b DEF Erased, ProgramTyped
  <2>2. CASE target[w] \in manifests
    <3>1. manifests' \subseteq Manifests /\ tags' \in [Tags -> Manifests \cup {NoManifest}]
      BY <1>e, <2>2 DEF Erased, ProgramTyped
    <3>2. CASE plan[w] = {} /\ UNCHANGED target /\ Return(w, "ok")
      BY <1>e, <3>1, <3>2, <1>a, <1>b DEF ProgramTyped
    <3>3. ASSUME NEW m \in plan[w],
                 target' = [target EXCEPT ![w] = m],
                 plan' = [plan EXCEPT ![w] = @ \ {m}],
                 index' = [index EXCEPT ![w] = {}],
                 Move(w, "delete"), UNCHANGED branches
          PROVE  ProgramTyped'
      <4>1. m \in Manifests
        BY <3>3 DEF ProgramTyped, Manifests
      <4>2. QED
        BY <1>e, <3>1, <3>3, <4>1 DEF ProgramTyped
    <3>4. QED
      BY <1>e, <2>2, <3>2, <3>3 DEF Erased
  <2>3. QED
    BY <2>1, <2>2
<1>14. CASE Delete(w)
  BY <1>14, <1>e, <1>a, <1>b DEF Delete, ProgramTyped
<1>15. CASE Erase(w)
  BY <1>15, <1>e DEF Erase
<1>16. CASE PrunePrimary(w)
  <2>1. tagB[w].err \in Statuses
    BY <1>b DEF ProgramTyped, Branches, Errors, Statuses
  <2>2. QED
    BY <1>16, <2>1, <1>a, <1>b DEF PrunePrimary, ProgramTyped
<1>17. CASE PlanPrune(w)
  <2> DEFINE refs == Matching(call[w], refB[w].cands)
             keep == PruneKeep(call[w], Matching(call[w], tagB[w].cands), refs)
             selected == Superseded(keep.m, refs)
             error == IF refB[w].err # "none" THEN refB[w].err ELSE keep.status
  <2>1. selected \subseteq Attached
    BY <1>17, PruneTyped DEF PlanPrune, ProgramTyped, Branches
  <2>2. error \in Statuses
    <3>1. refB[w].err \in Statuses
      BY <1>b DEF ProgramTyped, Branches, Errors, Statuses
    <3>2. keep.status \in Statuses
      BY <1>b, PruneStatus
    <3>3. QED
      BY <3>1, <3>2
  <2> HIDE DEF selected, error
  <2>3. CASE error # "ok" /\ UNCHANGED <<repository, target>> /\ Return(w, error)
    BY <1>17, <2>2, <2>3, <1>a, <1>b DEF PlanPrune, ProgramTyped
  <2>4. CASE UNCHANGED <<repository, target>> /\ Return(w, "ok")
    BY <1>17, <2>4, <1>a, <1>b DEF PlanPrune, ProgramTyped
  <2>5. ASSUME NEW m \in selected,
               target' = [target EXCEPT ![w] = m],
               plan' = [plan EXCEPT ![w] = selected \ {m}],
               tagB' = [tagB EXCEPT ![w] = Off],
               refB' = [refB EXCEPT ![w] = Off],
               Move(w, "delete"), UNCHANGED index, UNCHANGED repository
        PROVE  ProgramTyped'
    BY <1>17, <2>1, <2>5, <1>a DEF PlanPrune, ProgramTyped, Manifests
  <2>6. QED
    BY <1>17, <2>3, <2>4, <2>5 DEF PlanPrune, selected, error
<1>18. CASE FailBranch(w)
  BY <1>18, <1>a, <1>d DEF FailBranch, Fault, ProgramTyped, Errors
<1>19. CASE Cut(w)
  BY <1>19, <1>a, <1>b, <1>d DEF Cut, Fault, ProgramTyped
<1>20. QED
  BY <1>c, <1>2, <1>3, <1>4, <1>5, <1>6, <1>7, <1>8, <1>9, <1>10, <1>11, <1>12, <1>13, <1>14, <1>15, <1>16, <1>17, <1>18, <1>19
     DEF Act, Attach, Discover, Remove, Prune

LEMMA TypeStep ==
  ASSUME TypeOK, InPlace, NEW w \in Workers, Act(w), Watch
  PROVE  TypeOK'
<1>1. ProgramTyped'
  BY ProgramStep
<1>2. Listing \subseteq Attached
  BY MenuTyped DEF Listing, Referred, InPlace, CallInPlace
<1>3. Deleting \subseteq Manifests
  BY DEF Deleting, InPlace, CallInPlace, IndexSteps, Manifests
<1>4. /\ acked' \subseteq Attached
      /\ overlapped' \in BOOLEAN
      /\ same' \in [Workers -> BOOLEAN]
  BY <1>2 DEF Watch, TypeOK, Over
<1>5. lasting' \in [Workers -> SUBSET Attached]
  <2>1. Listed' \subseteq Attached
    BY <1>1 DEF Listed, ProgramTyped
  <2>2. QED
    BY <2>1 DEF Watch, TypeOK
<1>6. gone' \in [Workers -> SUBSET Manifests]
  BY <1>3 DEF Watch, TypeOK
<1>7. QED
  BY <1>1, <1>4, <1>5, <1>6 DEF TypeOK, ProgramTyped

\* A step of one call leaves the locals of the others alone, ...
LEMMA Frame ==
  ASSUME TypeOK, NEW w \in Workers, Act(w), NEW v \in Workers, v # w
  PROVE  /\ pc'[v] = pc[v]
         /\ call'[v] = call[v]
         /\ target'[v] = target[v]
         /\ tagB'[v] = tagB[v]
         /\ refB'[v] = refB[v]
         /\ plan'[v] = plan[v]
<1> USE DEF TypeOK, Move, Goto, Return, Forget, repository, branches
<1>1. CASE Begin(w)
  BY <1>1 DEF Begin
<1>2. CASE End(w)
  BY <1>2 DEF End
<1>3. CASE Lookup(w)
  BY <1>3 DEF Lookup
<1>4. CASE PushManifest(w)
  BY <1>4 DEF PushManifest
<1>5. CASE IndexRead(w)
  BY <1>5 DEF IndexRead
<1>6. CASE IndexWrite(w)
  BY <1>6 DEF IndexWrite
<1>7. CASE Tag(w)
  BY <1>7 DEF Tag
<1>8. CASE AskTag(w)
  BY <1>8 DEF AskTag
<1>9. CASE LoadTag(w)
  BY <1>9 DEF LoadTag
<1>10. CASE AskReferrers(w)
  BY <1>10 DEF AskReferrers
<1>11. CASE LoadReferrer(w)
  BY <1>11 DEF LoadReferrer
<1>12. CASE Select(w)
  BY <1>12 DEF Select
<1>13. CASE Resolve(w)
  BY <1>13 DEF Resolve
<1>14. CASE Delete(w)
  BY <1>14 DEF Delete, Erased
<1>15. CASE Erase(w)
  BY <1>15 DEF Erase, Erased
<1>16. CASE PrunePrimary(w)
  BY <1>16 DEF PrunePrimary
<1>17. CASE PlanPrune(w)
  BY <1>17 DEF PlanPrune
<1>18. CASE FailBranch(w)
  BY <1>18 DEF FailBranch
<1>19. CASE Cut(w)
  BY <1>19 DEF Cut
<1>20. QED
  BY <1>1, <1>2, <1>3, <1>4, <1>5, <1>6, <1>7, <1>8, <1>9, <1>10, <1>11, <1>12, <1>13, <1>14, <1>15, <1>16, <1>17, <1>18, <1>19 DEF Act, Attach, Discover, Remove, Prune
\* ... the index it has read, too.
LEMMA IndexFrame ==
  ASSUME TypeOK, NEW w \in Workers, Act(w), NEW v \in Workers, v # w
  PROVE  index'[v] = index[v]
BY DEF Act, Attach, Discover, Remove, Prune, Begin, Lookup, PushManifest, IndexRead, IndexWrite,
       Tag, AskTag, LoadTag, AskReferrers, LoadReferrer, Select, Resolve, Delete, Erase, Erased,
       PrunePrimary, PlanPrune, FailBranch, Cut, End, Move, Goto, Return, Forget, TypeOK

------------------------------------------------------------------------------
(***************************************************************************)
(* Calls keep to their steps, and tags to the repository.                  *)
(***************************************************************************)

LEMMA InPlaceStep ==
  ASSUME TypeOK, InPlace, NEW w \in Workers, Act(w)
  PROVE  InPlace'
<1> SUFFICES ASSUME NEW v \in Workers PROVE CallInPlace(v)'
  BY DEF InPlace
<1>1. CASE v # w
  BY <1>1, Frame DEF InPlace, CallInPlace
<1> SUFFICES ASSUME v = w PROVE CallInPlace(w)'
  BY <1>1
<1>a. CallInPlace(w)
  BY DEF InPlace
<1>b. Off.todo = {} /\ Ask.todo = {} /\ \A e \in Errors : BranchErr(e).todo = {}
  BY DEF Off, Ask, BranchErr
<1>c. pc[w] # "idle" => call[w] \in Calls
  BY DEF TypeOK
<1>d. pc[w] # "idle" /\ call[w].op = "attach" => call[w].m \in Attached
  BY <1>a, MenuTyped DEF CallInPlace
<1> USE DEF TypeOK, Move, Goto, Return, Forget, repository, branches, CallInPlace, Publishing, IndexSteps
<1>2. CASE Begin(w)
  BY <1>2, <1>b, MenuTyped DEF Begin, FirstStep, Calls
<1>3. CASE End(w)
  BY <1>3, <1>a, <1>b DEF End
<1>4. CASE Lookup(w)
  BY <1>4, <1>a, <1>b DEF Lookup, Tagged
<1>5. CASE PushManifest(w)
  BY <1>5, <1>a, <1>b, <1>d DEF PushManifest, Referred, Tagged
<1>6. CASE IndexRead(w)
  BY <1>6, <1>a, <1>b DEF IndexRead
<1>7. CASE IndexWrite(w)
  BY <1>7, <1>a, <1>b DEF IndexWrite, Manifests
<1>8. CASE Tag(w)
  BY <1>8, <1>a, <1>b DEF Tag
<1>9. CASE AskTag(w)
  BY <1>9, <1>a, <1>b DEF AskTag
<1>10. CASE LoadTag(w)
  BY <1>10, <1>a, <1>b DEF LoadTag
<1>11. CASE AskReferrers(w)
  BY <1>11, <1>a, <1>b, ListedTyped DEF AskReferrers, Off
<1>12. CASE LoadReferrer(w)
  BY <1>12, <1>a, <1>b DEF LoadReferrer, Loaded, Errors, Branches
<1>13. CASE Select(w)
  BY <1>13, <1>a, <1>b DEF Select, Calls
<1>14. CASE Resolve(w)
  BY <1>14, <1>a, <1>b DEF Resolve
<1>15. CASE Delete(w)
  BY <1>15, <1>a, <1>b DEF Delete, Erased, Manifests
<1>16. CASE Erase(w)
  BY <1>16, <1>a, <1>b DEF Erase, Erased, Manifests
<1>17. CASE PrunePrimary(w)
  BY <1>17, <1>a, <1>b DEF PrunePrimary
<1>18. CASE PlanPrune(w)
  <2>1. \/ Return(w, "ok") /\ UNCHANGED target
        \/ \E e \in Statuses : Return(w, e) /\ UNCHANGED target
        \/ /\ pc' = [pc EXCEPT ![w] = "delete"] /\ UNCHANGED call
           /\ target'[w] \in Attached /\ refB' = [refB EXCEPT ![w] = Off]
    <3>1. refB[w].cands \subseteq Attached /\ refB[w].err \in Statuses
      BY DEF Branches, Statuses
    <3>2. \A keep, primary, refs : PruneKeep(call[w], primary, refs).status \in Statuses
      BY PruneStatus DEF Statuses, Errors
    <3>3. \A keep : Superseded(keep, Matching(call[w], refB[w].cands)) \subseteq Attached
      BY <1>18, <1>c, <3>1, PruneTyped DEF PlanPrune
    <3>4. QED
      BY <1>18, <3>1, <3>2, <3>3 DEF PlanPrune
  <2>2. QED
    BY <1>18, <2>1, <1>a, <1>b DEF PlanPrune, Manifests
<1>19. CASE FailBranch(w)
  BY <1>19, <1>a, <1>b DEF FailBranch, Errors
<1>20. CASE Cut(w)
  BY <1>20, <1>a, <1>b DEF Cut, Steps
<1>21. QED
  BY <1>1, <1>2, <1>3, <1>4, <1>5, <1>6, <1>7, <1>8, <1>9, <1>10, <1>11,
     <1>12, <1>13, <1>14, <1>15, <1>16, <1>17, <1>18, <1>19, <1>20
     DEF Act, Attach, Discover, Remove, Prune

LEMMA TagsExistStep ==
  ASSUME TypeOK, TagsExist, NEW w \in Workers, Act(w)
  PROVE  TagsExist'
<1> USE DEF TypeOK, TagsExist, repository
<1>1. CASE Begin(w)
  BY <1>1 DEF Begin
<1>2. CASE End(w)
  BY <1>2 DEF End
<1>3. CASE Lookup(w)
  BY <1>3 DEF Lookup
<1>4. CASE PushManifest(w)
  BY <1>4 DEF PushManifest
<1>5. CASE IndexRead(w)
  BY <1>5 DEF IndexRead
<1>6. CASE IndexWrite(w)
  BY <1>6 DEF IndexWrite
<1>7. CASE Tag(w)
  BY <1>7 DEF Tag
<1>8. CASE AskTag(w)
  BY <1>8 DEF AskTag
<1>9. CASE LoadTag(w)
  BY <1>9 DEF LoadTag
<1>10. CASE AskReferrers(w)
  BY <1>10 DEF AskReferrers
<1>11. CASE LoadReferrer(w)
  BY <1>11 DEF LoadReferrer
<1>12. CASE Select(w)
  BY <1>12 DEF Select
<1>13. CASE Resolve(w)
  BY <1>13 DEF Resolve
<1>14. CASE Delete(w)
  BY <1>14 DEF Delete, Erased
<1>15. CASE Erase(w)
  BY <1>15 DEF Erase, Erased
<1>16. CASE PrunePrimary(w)
  BY <1>16 DEF PrunePrimary
<1>17. CASE PlanPrune(w)
  BY <1>17 DEF PlanPrune
<1>18. CASE FailBranch(w)
  BY <1>18 DEF FailBranch
<1>19. CASE Cut(w)
  BY <1>19 DEF Cut, Forget
<1>20. QED
  BY <1>1, <1>2, <1>3, <1>4, <1>5, <1>6, <1>7, <1>8, <1>9, <1>10,
     <1>11, <1>12, <1>13, <1>14, <1>15, <1>16, <1>17, <1>18, <1>19
     DEF Act, Attach, Discover, Remove, Prune
------------------------------------------------------------------------------
(***************************************************************************)
(* What a call knows of the documentation tag while it does not move.      *)
(***************************************************************************)

\* In the middle of a call that is no push and no removal, the history
\* variables mean what they say.
LEMMA SameStep ==
  ASSUME Watch, NEW v \in Workers, pc'[v] # "idle", call'[v].op \notin {"push", "remove"}, same'[v]
  PROVE  same[v] /\ tags'["doc"] = tags["doc"]
BY DEF Watch, Over

LEMMA HistoryStep ==
  ASSUME TypeOK, Watch, NEW v \in Workers, pc'[v] # "idle", call'[v].op \notin {"push", "remove"}
  PROVE  /\ gone[v] \cup (manifests \ manifests') \subseteq gone'[v]
         /\ lasting'[v] \subseteq Listed'
         /\ pc[v] # "idle" => lasting'[v] \subseteq lasting[v]
<1>1. ~Over(v)
  BY DEF Over
<1>2. QED
  BY <1>1 DEF Watch

LEMMA LookedUpStep ==
  ASSUME TypeOK, InPlace, LookedUp, NEW w \in Workers, Act(w), Watch
  PROVE  LookedUp'
<1> SUFFICES ASSUME NEW v \in Workers, 
                    pc'[v] \in {"manifest", "tag"} \cup IndexSteps,
                    call'[v].op = "attach", call'[v].mode # "referrer",
                    ~call'[v].force, same'[v]
             PROVE  tags'["doc"] \in {NoManifest, target'[v]}
  BY DEF LookedUp, FoundNone
<1>a. same[v] /\ tags'["doc"] = tags["doc"]
  BY SameStep DEF IndexSteps
<1>b. FoundNone(v)
  BY DEF LookedUp
<1>1. CASE v # w
  BY <1>1, <1>a, <1>b, Frame DEF FoundNone
<1> SUFFICES ASSUME v = w PROVE tags'["doc"] \in {NoManifest, target'[w]}
  BY <1>1
<1>c. CallInPlace(w)
  BY DEF InPlace
<1> USE <1>a, <1>b, <1>c DEF TypeOK, Move, Goto, Return, Forget, repository, branches, IndexSteps, Publishing
<1>2. CASE Begin(w)
  BY <1>2 DEF Begin, FirstStep
<1>3. CASE End(w)
  BY <1>3 DEF End, FoundNone
<1>4. CASE Lookup(w)
  BY <1>4 DEF Lookup, FoundNone
<1>5. CASE PushManifest(w)
  BY <1>5 DEF PushManifest, FoundNone
<1>6. CASE IndexRead(w)
  BY <1>6 DEF IndexRead, FoundNone
<1>7. CASE IndexWrite(w)
  BY <1>7 DEF IndexWrite, FoundNone
<1>8. CASE Tag(w)
  BY <1>8 DEF Tag, FoundNone
<1>9. CASE AskTag(w)
  BY <1>9 DEF AskTag, FoundNone
<1>10. CASE LoadTag(w)
  BY <1>10 DEF LoadTag, FoundNone
<1>11. CASE AskReferrers(w)
  BY <1>11 DEF AskReferrers, FoundNone
<1>12. CASE LoadReferrer(w)
  BY <1>12 DEF LoadReferrer, FoundNone
<1>13. CASE Select(w)
  BY <1>13 DEF Select, FoundNone
<1>14. CASE Resolve(w)
  BY <1>14 DEF Resolve, FoundNone
<1>15. CASE Delete(w)
  BY <1>15 DEF Delete, Erased, CallInPlace
<1>16. CASE Erase(w)
  BY <1>16 DEF Erase, Erased
<1>17. CASE PrunePrimary(w)
  BY <1>17 DEF PrunePrimary, FoundNone
<1>18. CASE PlanPrune(w)
  BY <1>18 DEF PlanPrune, FoundNone
<1>19. CASE FailBranch(w)
  BY <1>19 DEF FailBranch, FoundNone
<1>20. CASE Cut(w)
  BY <1>20 DEF Cut, FoundNone
<1>21. QED
  BY <1>1, <1>2, <1>3, <1>4, <1>5, <1>6, <1>7, <1>8, <1>9, <1>10, <1>11,
     <1>12, <1>13, <1>14, <1>15, <1>16, <1>17, <1>18, <1>19, <1>20
     DEF Act, Attach, Discover, Remove, Prune

LEMMA PrimaryKnownStep ==
  ASSUME TypeOK, InPlace, TagsExist', PrimaryKnown, NEW w \in Workers, Act(w), Watch
  PROVE  PrimaryKnown'
<1> SUFFICES ASSUME NEW v \in Workers, pc'[v] = "discover", same'[v]
             PROVE  KnowsPrimary(v)'
  BY DEF PrimaryKnown, KnowsPrimary
<1>0. call'[v].op \in {"discover", "detach", "prune"}
  BY InPlaceStep DEF InPlace, CallInPlace
<1>a. same[v] /\ tags'["doc"] = tags["doc"]
  BY <1>0, SameStep
<1>b. KnowsPrimary(v)
  BY DEF PrimaryKnown
<1>c. tags["doc"] \in manifests' \cup {NoManifest}
  BY <1>a DEF TagsExist, Tags
<1>d. NoManifest \notin Manifests
  BY RegistryAssumption
<1>e. tags["doc"] \in manifests => tags["doc"] \in manifests'
  BY <1>c, <1>d DEF TypeOK
<1>1. CASE v # w
  BY <1>1, <1>a, <1>b, <1>e, Frame DEF KnowsPrimary
<1> SUFFICES ASSUME v = w PROVE KnowsPrimary(w)'
  BY <1>1
<1> USE <1>a, <1>b, <1>c, <1>d, <1>e
<1> USE DEF TypeOK, Move, Goto, Return, Forget, repository, branches
<1>2. CASE Begin(w)
  BY <1>2 DEF Begin, KnowsPrimary, AsksTag, AsksReferrers, Ask, Off
<1>3. CASE End(w)
  BY <1>3 DEF End, KnowsPrimary
<1>4. CASE Lookup(w)
  BY <1>4 DEF Lookup, KnowsPrimary
<1>5. CASE PushManifest(w)
  BY <1>5 DEF PushManifest, KnowsPrimary
<1>6. CASE IndexRead(w)
  BY <1>6 DEF IndexRead, KnowsPrimary
<1>7. CASE IndexWrite(w)
  BY <1>7 DEF IndexWrite, KnowsPrimary
<1>8. CASE Tag(w)
  BY <1>8 DEF Tag, KnowsPrimary
<1>9. CASE AskTag(w)
  BY <1>9 DEF AskTag, KnowsPrimary, Ask, Off, BranchErr, Branches, Tags
<1>10. CASE LoadTag(w)
  BY <1>10 DEF LoadTag, KnowsPrimary, Ask, Off, BranchErr
<1>11. CASE AskReferrers(w)
  BY <1>11 DEF AskReferrers, KnowsPrimary, Off
<1>12. CASE LoadReferrer(w)
  BY <1>12 DEF LoadReferrer, Loaded, BranchErr, KnowsPrimary, Off
<1>13. CASE Select(w)
  BY <1>13 DEF Select, KnowsPrimary
<1>14. CASE Resolve(w)
  BY <1>14 DEF Resolve, KnowsPrimary
<1>15. CASE Delete(w)
  BY <1>15 DEF Delete, Erased
<1>16. CASE Erase(w)
  BY <1>16 DEF Erase, Erased
<1>17. CASE PrunePrimary(w)
  BY <1>17 DEF PrunePrimary, KnowsPrimary, Ask, Off
<1>18. CASE PlanPrune(w)
  BY <1>18 DEF PlanPrune, KnowsPrimary
<1>19. CASE FailBranch(w)
  <2>1. \A e : BranchErr(e).err = e /\ BranchErr(e).at = "done"
    BY DEF BranchErr, Off
  <2>2. CASE /\ tagB[w].at \in {"ask", "load"}
             /\ \E e \in {"temporary", "failed"} : tagB' = [tagB EXCEPT ![w] = BranchErr(e)]
             /\ UNCHANGED refB
    BY <1>19, <2>1, <2>2 DEF FailBranch, KnowsPrimary
  <2>3. CASE /\ refB[w].at \in {"ask", "load"}
             /\ \E e \in {"temporary", "failed"} : refB' = [refB EXCEPT ![w] = BranchErr(e)]
             /\ UNCHANGED tagB
    BY <1>19, <2>1, <2>3 DEF FailBranch, KnowsPrimary
  <2>4. QED
    BY <1>19, <2>2, <2>3 DEF FailBranch
<1>20. CASE Cut(w)
  BY <1>20 DEF Cut, KnowsPrimary
<1>21. QED
  BY <1>1, <1>2, <1>3, <1>4, <1>5, <1>6, <1>7, <1>8, <1>9, <1>10, <1>11,
     <1>12, <1>13, <1>14, <1>15, <1>16, <1>17, <1>18, <1>19, <1>20
     DEF Act, Attach, Discover, Remove, Prune

\* What a prune plans to delete is not what the tag points to.
LEMMA PlanSparesPrimary ==
  ASSUME NEW c \in Calls, NEW p \in Manifests \cup {NoManifest},
         NEW cands \in SUBSET Attached, NEW refs \in SUBSET Attached,
         p = NoManifest \/ cands = {p},
         PruneKeep(c, Matching(c, cands), Matching(c, refs)).status = "ok"
  PROVE  p \notin Superseded(PruneKeep(c, Matching(c, cands), Matching(c, refs)).m, Matching(c, refs))
<1>1. CASE p = NoManifest
  BY <1>1, RegistryAssumption DEF Superseded, Matching, Manifests
<1>2. CASE cands = {p} /\ SlotOf[p] \notin c.slots
  BY <1>2 DEF Superseded, Matching
<1>3. CASE cands = {p} /\ SlotOf[p] \in c.slots
  <2>1. Matching(c, cands) = {p} /\ Only({p}) = p
    BY <1>3 DEF Matching, Only
  <2>2. PruneKeep(c, {p}, Matching(c, refs)).m = p
    BY <2>1 DEF PruneKeep, Found, Fail
  <2>3. QED
    BY <2>1, <2>2 DEF Superseded
<1>4. QED
  BY <1>1, <1>2, <1>3

LEMMA PrimaryPlannedStep ==
  ASSUME TypeOK, InPlace, PrimaryKnown, PrimaryPlanned, NEW w \in Workers, Act(w), Watch
  PROVE  PrimaryPlanned'
<1> SUFFICES ASSUME NEW v \in Workers,
                    pc'[v] \in {"delete", "erase"} \cup IndexSteps,
                    call'[v].op = "prune", same'[v]
             PROVE  tags'["doc"] \notin plan'[v] \cup {target'[v]}
  BY DEF PrimaryPlanned, SparesPrimary
<1>a. same[v] /\ tags'["doc"] = tags["doc"]
  BY SameStep DEF IndexSteps
<1>b. SparesPrimary(v)
  BY DEF PrimaryPlanned
<1>1. CASE v # w
  BY <1>1, <1>a, <1>b, Frame DEF SparesPrimary
<1> SUFFICES ASSUME v = w PROVE tags["doc"] \notin plan'[w] \cup {target'[w]}
  BY <1>1, <1>a
<1>c. CallInPlace(w) /\ KnowsPrimary(w)
  BY DEF InPlace, PrimaryKnown
<1> USE <1>a, <1>b, <1>c
<1> USE DEF TypeOK, Move, Goto, Return, Forget, repository, branches, IndexSteps, Publishing
<1>2. CASE Begin(w)
  BY <1>2 DEF Begin, FirstStep
<1>3. CASE End(w)
  BY <1>3 DEF End, SparesPrimary
<1>4. CASE Lookup(w)
  BY <1>4 DEF Lookup, SparesPrimary
<1>5. CASE PushManifest(w)
  BY <1>5 DEF PushManifest, CallInPlace
<1>6. CASE IndexRead(w)
  BY <1>6 DEF IndexRead, SparesPrimary
<1>7. CASE IndexWrite(w)
  BY <1>7 DEF IndexWrite, SparesPrimary
<1>8. CASE Tag(w)
  BY <1>8 DEF Tag, SparesPrimary
<1>9. CASE AskTag(w)
  BY <1>9 DEF AskTag, SparesPrimary
<1>10. CASE LoadTag(w)
  BY <1>10 DEF LoadTag, SparesPrimary
<1>11. CASE AskReferrers(w)
  BY <1>11 DEF AskReferrers, SparesPrimary
<1>12. CASE LoadReferrer(w)
  BY <1>12 DEF LoadReferrer, SparesPrimary
<1>13. CASE Select(w)
  BY <1>13 DEF Select, SparesPrimary
<1>14. CASE Resolve(w)
  BY <1>14 DEF Resolve, CallInPlace
<1>15. CASE Delete(w)
  BY <1>15 DEF Delete, Erased, SparesPrimary
<1>16. CASE Erase(w)
  BY <1>16 DEF Erase, Erased, SparesPrimary
<1>17. CASE PrunePrimary(w)
  BY <1>17 DEF PrunePrimary, SparesPrimary
<1>18. CASE PlanPrune(w)
  <2> DEFINE refs == Matching(call[w], refB[w].cands)
             keep == PruneKeep(call[w], Matching(call[w], tagB[w].cands), refs)
             selected == Superseded(keep.m, refs)
  <2>1. /\ keep.status = "ok"
        /\ target'[w] \in selected /\ plan'[w] \subseteq selected
    <3>1. refB[w].err # "ok"
      BY DEF Branches, Errors
    <3>2. pc'[w] # "return"
      OBVIOUS
    <3>3. \A r : ~Return(w, r)
      BY <3>2
    <3>4. refB[w].err = "none" /\ keep.status = "ok"
      BY <1>18, <3>1, <3>3 DEF PlanPrune
    <3>5. \E m \in selected : /\ target' = [target EXCEPT ![w] = m]
                             /\ plan' = [plan EXCEPT ![w] = selected \ {m}]
      BY <1>18, <3>3 DEF PlanPrune
    <3> HIDE DEF selected, keep
    <3>6. QED
      BY <3>4, <3>5
  <2>2. /\ call[w] \in Calls /\ tags["doc"] \in Manifests \cup {NoManifest}
        /\ tagB[w].cands \in SUBSET Attached /\ refB[w].cands \in SUBSET Attached
    BY <1>18 DEF PlanPrune, Branches, Tags
  <2>3. tags["doc"] = NoManifest \/ tagB[w].cands = {tags["doc"]}
    BY <1>18 DEF PlanPrune, KnowsPrimary, Wanted
  <2>4. tags["doc"] \notin selected
    BY <2>1, <2>2, <2>3, PlanSparesPrimary
  <2>5. QED
    BY <2>1, <2>4
<1>19. CASE FailBranch(w)
  BY <1>19 DEF FailBranch, SparesPrimary
<1>20. CASE Cut(w)
  BY <1>20 DEF Cut, SparesPrimary
<1>21. QED
  BY <1>1, <1>2, <1>3, <1>4, <1>5, <1>6, <1>7, <1>8, <1>9, <1>10, <1>11,
     <1>12, <1>13, <1>14, <1>15, <1>16, <1>17, <1>18, <1>19, <1>20
     DEF Act, Attach, Discover, Remove, Prune
------------------------------------------------------------------------------
(***************************************************************************)
(* The fallback index, as long as no two edits of it overlap.              *)
(***************************************************************************)

\* The index changes at one step of one call only; what it drops is being
\* deleted, and the call is on its way to delete it.
LEMMA FallbackStep ==
  ASSUME TypeOK, NEW w \in Workers, Act(w)
  PROVE  native' = native /\ (fallback' = fallback \/ IndexWrite(w))
BY DEF Act, Attach, Discover, Remove, Prune, Begin, Lookup, PushManifest, IndexRead, IndexWrite,
       Tag, AskTag, LoadTag, AskReferrers, LoadReferrer, Select, Resolve, Delete, Erase, Erased,
       PrunePrimary, PlanPrune, FailBranch, Cut, End, Move, Goto, Return, Forget, repository

\* A call comes to write the index only by reading it.
LEMMA IndexWriteEntered ==
  ASSUME TypeOK, NEW w \in Workers, Act(w), pc'[w] = "indexWrite"
  PROVE  IndexRead(w)
BY DEF Act, Attach, Discover, Remove, Prune, Begin, Lookup, PushManifest, IndexRead, IndexWrite,
       Tag, AskTag, LoadTag, AskReferrers, LoadReferrer, Select, Resolve, Delete, Erase, Erased,
       PrunePrimary, PlanPrune, FailBranch, Cut, End, Move, Goto, Return, Forget, FirstStep,
       TypeOK, Steps

\* An edit that starts from what the index holds changes one entry of it.
LEMMA EditOfCurrent ==
  ASSUME NEW w \in Workers, IndexWrite(w), index[w] = fallback
  PROVE  fallback' = Edited(w)
BY DEF IndexWrite

LEMMA IndexCurrentStep ==
  ASSUME TypeOK, IndexCurrent, NEW w \in Workers, Act(w), Watch
  PROVE  IndexCurrent'
<1> SUFFICES ASSUME ~overlapped', NEW v \in Workers, pc'[v] = "indexWrite"
             PROVE  /\ index'[v] = fallback'
                    /\ \A u \in Workers : pc'[u] = "indexWrite" => u = v
  BY DEF IndexCurrent
<1>1. ~overlapped /\ \A u \in Workers : pc'[u] = "indexWrite" => u = v
  BY DEF Watch
<1>2. CASE v = w
  <2>1. IndexRead(w)
    BY <1>2, IndexWriteEntered
  <2>2. QED
    BY <1>1, <1>2, <2>1 DEF IndexRead, repository, TypeOK
<1>3. CASE v # w
  <2>1. pc[v] = "indexWrite" /\ index'[v] = index[v]
    BY <1>3, Frame, IndexFrame
  <2>2. index[v] = fallback /\ pc[w] # "indexWrite"
    BY <1>1, <1>3, <2>1 DEF IndexCurrent
  <2>3. fallback' = fallback
    BY <2>2, FallbackStep DEF IndexWrite
  <2>4. QED
    BY <1>1, <2>1, <2>2, <2>3
<1>4. QED
  BY <1>2, <1>3

\* What a step takes out of the index is being deleted.
LEMMA DroppedIsDeleting ==
  ASSUME TypeOK, IndexCurrent, ~overlapped, NEW w \in Workers, Act(w), NEW m \in fallback
  PROVE  m \in fallback' \/ m \in Deleting
<1>1. CASE fallback' = fallback
  BY <1>1
<1>2. CASE IndexWrite(w)
  <2>1. pc[w] = "indexWrite" /\ index[w] = fallback
    BY <1>2 DEF IndexWrite, IndexCurrent
  <2>2. fallback' = Edited(w)
    BY <1>2, <2>1, EditOfCurrent
  <2>3. CASE call[w].op \in Publishing
    BY <2>1, <2>2, <2>3 DEF Edited
  <2>4. CASE call[w].op \notin Publishing
    BY <2>1, <2>2, <2>4 DEF Edited, Deleting
  <2>5. QED
    BY <2>3, <2>4
<1>3. QED
  BY <1>1, <1>2, FallbackStep

\* A publication to the referrers comes to its tag, or to its end, by writing
\* the index first.
LEMMA PublicationWrites ==
  ASSUME TypeOK, InPlace, ~native, NEW w \in Workers, Act(w),
         pc[w] \notin {"idle", "return"}, Referred(call[w])
  PROVE  /\ pc'[w] = "tag" => IndexWrite(w)
         /\ pc'[w] = "return" /\ res'[w] = "ok" => IndexWrite(w) \/ Tag(w)
<1>a. CallInPlace(w)
  BY DEF InPlace
<1>b. call[w].op = "attach" /\ call[w].mode # "tag" /\ Tagged(call[w]) = (call[w].mode # "referrer")
  BY DEF Referred, Tagged
<1> USE <1>a, <1>b DEF CallInPlace, Publishing
<1>1. Begin(w) \/ Attach(w) \/ FailBranch(w) \/ Cut(w) \/ End(w)
  BY DEF Act, Discover, Remove, Prune, AskTag, LoadTag, AskReferrers, LoadReferrer, Select, Resolve,
         Delete, Erase, PrunePrimary, PlanPrune
<1>2. CASE Begin(w) \/ End(w)
  BY <1>2 DEF Begin, End
<1>3. CASE FailBranch(w)
  BY <1>3 DEF FailBranch
<1>4. CASE Cut(w)
  BY <1>4 DEF Cut, TypeOK
<1>5. CASE Lookup(w)
  BY <1>5 DEF Lookup, Goto, Move, Return, TypeOK
<1>6. CASE PushManifest(w)
  BY <1>6 DEF PushManifest, Goto, Move, TypeOK
<1>7. CASE IndexRead(w)
  BY <1>7 DEF IndexRead, Move, TypeOK
<1>8. CASE IndexWrite(w)
  BY <1>8
<1>9. CASE Tag(w)
  BY <1>9 DEF Tag, Return, TypeOK
<1>10. QED
  BY <1>1, <1>2, <1>3, <1>4, <1>5, <1>6, <1>7, <1>8, <1>9 DEF Attach

LEMMA ListedStep ==
  ASSUME TypeOK, InPlace, IndexCurrent, ListedBeforeTag, AckedInFallback,
         NEW w \in Workers, Act(w), Watch
  PROVE  ListedBeforeTag' /\ AckedInFallback'
<1>1. native' = native
  BY FallbackStep
<1>2. ~overlapped' => ~overlapped
  BY DEF Watch
<1>3. ASSUME ~overlapped, ~native, IndexWrite(w), Referred(call[w])
      PROVE  call[w].m \in fallback'
  <2>1. pc[w] = "indexWrite" /\ index[w] = fallback
    BY <1>3 DEF IndexWrite, IndexCurrent
  <2>2. fallback' = Edited(w)
    BY <1>3, <2>1, EditOfCurrent
  <2>3. call[w].op \in Publishing /\ target[w] = call[w].m
    BY <1>3, <2>1 DEF Referred, Publishing, InPlace, CallInPlace
  <2>4. QED
    BY <2>2, <2>3 DEF Edited
<1>4. ASSUME ~native', ~overlapped', NEW v \in Workers,
             pc'[v] = "tag", Referred(call'[v]), call'[v].m \notin gone'[v]
      PROVE  call'[v].m \in fallback'
  <2>1. call'[v].m \notin gone[v] /\ call'[v].m \notin Deleting
    BY <1>4 DEF Watch, Over, Referred
  <2>2. CASE v # w
    <3>1. pc[v] = "tag" /\ call[v] = call'[v]
      BY <1>4, <2>2, Frame
    <3>2. call[v].m \in fallback
      BY <1>1, <1>2, <1>4, <2>1, <3>1 DEF ListedBeforeTag
    <3>3. QED
      BY <1>2, <1>4, <2>1, <3>1, <3>2, DroppedIsDeleting
  <2>3. CASE v = w
    <3>1. call'[w] = call[w] /\ pc[w] \notin {"idle", "return"}
      BY <1>4, <2>3
         DEF Act, Attach, Discover, Remove, Prune, Begin, Lookup, PushManifest, IndexRead,
             IndexWrite, Tag, AskTag, LoadTag, AskReferrers, LoadReferrer, Select, Resolve, Delete,
             Erase, Erased, PrunePrimary, PlanPrune, FailBranch, Cut, End, Move, Goto, Return,
             FirstStep, TypeOK, Steps
    <3>2. IndexWrite(w)
      BY <1>1, <1>4, <2>3, <3>1, PublicationWrites
    <3>3. QED
      BY <1>1, <1>2, <1>3, <1>4, <2>3, <3>1, <3>2
  <2>4. QED
    BY <2>2, <2>3
<1>5. ASSUME ~native', ~overlapped', NEW m \in acked' PROVE m \in fallback'
  <2>1. m \in acked \cup Listing /\ m \notin Deleting
    BY <1>1, <1>5 DEF Watch
  <2>2. CASE m \in acked
    BY <1>1, <1>2, <1>5, <2>1, <2>2, DroppedIsDeleting DEF AckedInFallback
  <2>3. CASE m \in Listing
    <3>1. PICK v \in Workers : /\ pc[v] \notin {"idle", "return"} /\ Referred(call[v])
                               /\ pc'[v] = "return" /\ res'[v] = "ok"
                               /\ call[v].m \notin gone[v] /\ m = call[v].m
      BY <2>3 DEF Listing
    <3>2. v = w
      BY <3>1, Frame
    <3>3. CASE IndexWrite(w)
      BY <1>1, <1>2, <1>3, <1>5, <3>1, <3>2, <3>3
    <3>4. CASE Tag(w)
      BY <1>1, <1>2, <1>5, <3>1, <3>2, <3>4 DEF Tag, ListedBeforeTag
    <3>5. QED
      BY <1>1, <1>5, <3>1, <3>2, <3>3, <3>4, PublicationWrites
  <2>4. QED
    BY <2>1, <2>2, <2>3
<1>6. native' => acked' = {}
  BY <1>1 DEF Watch
<1>7. QED
  BY <1>4, <1>5, <1>6 DEF ListedBeforeTag, AckedInFallback

------------------------------------------------------------------------------
(***************************************************************************)
(* The invariant and what follows from it.                                 *)
(***************************************************************************)

LEMMA RegistryStart == Init => RegistryInv
<1> SUFFICES ASSUME Init PROVE RegistryInv
  OBVIOUS
<1>1. TypeOK
  BY TypeStart
<1>2. InPlace
  BY DEF Init, InPlace, CallInPlace, IndexSteps, Off
<1>3. TagsExist
  BY DEF Init, TagsExist
<1>4. LookedUp /\ PrimaryKnown /\ PrimaryPlanned
  BY DEF Init, LookedUp, FoundNone, PrimaryKnown, KnowsPrimary, PrimaryPlanned, SparesPrimary,
         IndexSteps
<1>5. IndexCurrent /\ ListedBeforeTag /\ AckedInFallback
  BY DEF Init, IndexCurrent, ListedBeforeTag, AckedInFallback
<1>6. QED
  BY <1>1, <1>2, <1>3, <1>4, <1>5 DEF RegistryInv

LEMMA RegistryStep == RegistryInv /\ [Next]_vars => RegistryInv'
<1> SUFFICES ASSUME RegistryInv, [Next]_vars PROVE RegistryInv'
  OBVIOUS
<1>1. CASE Next
  <2>1. PICK w \in Workers : Act(w)
    BY <1>1 DEF Next
  <2>2. Watch
    BY <1>1 DEF Next
  <2>3. /\ TypeOK /\ InPlace /\ TagsExist /\ LookedUp /\ PrimaryKnown /\ PrimaryPlanned
        /\ IndexCurrent /\ ListedBeforeTag /\ AckedInFallback
    BY DEF RegistryInv
  <2>4. TypeOK'
    BY <2>1, <2>2, <2>3, TypeStep
  <2>5. InPlace'
    BY <2>1, <2>3, InPlaceStep
  <2>6. TagsExist'
    BY <2>1, <2>3, TagsExistStep
  <2>7. LookedUp'
    BY <2>1, <2>2, <2>3, LookedUpStep
  <2>8. PrimaryKnown'
    BY <2>1, <2>2, <2>3, <2>6, PrimaryKnownStep
  <2>9. PrimaryPlanned'
    BY <2>1, <2>2, <2>3, PrimaryPlannedStep
  <2>10. IndexCurrent'
    BY <2>1, <2>2, <2>3, IndexCurrentStep
  <2>11. ListedBeforeTag' /\ AckedInFallback'
    BY <2>1, <2>2, <2>3, ListedStep
  <2>12. QED
    BY <2>4, <2>5, <2>6, <2>7, <2>8, <2>9, <2>10, <2>11 DEF RegistryInv
<1>2. CASE UNCHANGED vars
  BY <1>2 DEF vars, repository, branches, ghosts, RegistryInv, TypeOK, InPlace, CallInPlace,
              TagsExist, LookedUp, FoundNone, PrimaryKnown, KnowsPrimary, PrimaryPlanned,
              SparesPrimary, IndexCurrent, ListedBeforeTag, AckedInFallback
<1>3. QED
  BY <1>1, <1>2

\* Every step of every call keeps to its operation, tags point to manifests of
\* the repository, and publications and prunes know the documentation tag's
\* target as long as it does not move.
THEOREM RegistryInvariant == Spec => []RegistryInv
BY RegistryStart, RegistryStep, PTL DEF Spec

\* Every variable of the registry's clients keeps its type.
THEOREM TypeCorrect == Spec => []TypeOK
<1>1. RegistryInv => TypeOK
  BY DEF RegistryInv
<1>2. QED
  BY <1>1, RegistryInvariant, PTL

\* Attach without Replace leaves a documentation tag that points elsewhere
\* alone, if the tag did not move after the call began.
THEOREM ReplaceIsGuarded == Spec => ReplaceGuard
<1> DEFINE A == \A w \in Workers :
                  pc[w] = "tag" /\ pc'[w] # "tag" /\ call[w].op = "attach" /\ ~call[w].force
                    /\ same[w] => tags["doc"] \in {NoManifest, tags'["doc"]}
<1>1. RegistryInv /\ [Next]_vars => [A]_vars
  <2> SUFFICES ASSUME RegistryInv, NEW w \in Workers, Act(w), NEW v \in Workers,
                      pc[v] = "tag", pc'[v] # "tag", call[v].op = "attach", ~call[v].force, same[v]
               PROVE  tags["doc"] \in {NoManifest, tags'["doc"]}
    BY DEF Next
  <2>1. v = w
    BY Frame DEF RegistryInv
  <2>2. Tag(w) \/ Cut(w)
    BY <2>1 DEF Act, Attach, Discover, Remove, Prune, Begin, Lookup, PushManifest, IndexRead,
                IndexWrite, AskTag, LoadTag, AskReferrers, LoadReferrer, Select, Resolve, Delete,
                Erase, PrunePrimary, PlanPrune, FailBranch, End
  <2>3. call[w].mode # "referrer"
    BY <2>1 DEF RegistryInv, InPlace, CallInPlace, Tagged
  <2>4. tags["doc"] \in {NoManifest, target[w]}
    BY <2>1, <2>3 DEF RegistryInv, LookedUp, FoundNone
  <2>5. CASE Tag(w)
    BY <2>1, <2>4, <2>5 DEF Tag, RegistryInv, TypeOK, Tags
  <2>6. CASE Cut(w)
    BY <2>6 DEF Cut, repository
  <2>7. QED
    BY <2>2, <2>5, <2>6
<1>2. QED
  BY <1>1, RegistryInvariant, PTL DEF Spec, ReplaceGuard

\* No deletion of a prune, with or without the referrers API, takes what the
\* documentation tag points to, unless the tag moved after the prune began.
THEOREM PruneSparesThePrimary == Spec => PruneSparesPrimary
<1> DEFINE A == \A w \in Workers :
                  pc[w] \in {"delete", "erase"} /\ call[w].op = "prune" /\ same[w]
                    /\ <<pc'[w], target'[w], plan'[w]>> # <<pc[w], target[w], plan[w]>>
                    => tags'["doc"] = tags["doc"]
<1>1. RegistryInv /\ [Next]_vars => [A]_vars
  <2> SUFFICES ASSUME RegistryInv, NEW w \in Workers, Act(w), NEW v \in Workers,
                      pc[v] \in {"delete", "erase"}, call[v].op = "prune", same[v],
                      <<pc'[v], target'[v], plan'[v]>> # <<pc[v], target[v], plan[v]>>
               PROVE  tags'["doc"] = tags["doc"]
    BY DEF Next
  <2>1. v = w
    BY Frame DEF RegistryInv
  <2>2. Delete(w) \/ Erase(w) \/ Cut(w)
    BY <2>1 DEF Act, Attach, Discover, Remove, Prune, Begin, Lookup, PushManifest, IndexRead,
                IndexWrite, Tag, AskTag, LoadTag, AskReferrers, LoadReferrer, Select, Resolve,
                PrunePrimary, PlanPrune, FailBranch, End
  <2>3. tags["doc"] # target[w]
    BY <2>1 DEF RegistryInv, PrimaryPlanned, SparesPrimary
  <2>4. CASE Erased(w)
    BY <2>3, <2>4 DEF Erased, RegistryInv, TypeOK, Tags
  <2>5. CASE Cut(w)
    BY <2>5 DEF Cut, repository
  <2>6. CASE Delete(w) /\ ~Erased(w)
    BY <2>6 DEF Delete
  <2>7. QED
    BY <2>2, <2>4, <2>5, <2>6 DEF Erase
<1>2. QED
  BY <1>1, RegistryInvariant, PTL DEF Spec, PruneSparesPrimary

\* An attachment published to the referrers stays listed until a call deletes
\* it, whatever fails half-way, if no two edits of the fallback index overlap.
THEOREM PublicationsAreListed == Spec => []AttachedIsListed
<1>1. RegistryInv => AttachedIsListed
  BY DEF RegistryInv, AckedInFallback, AttachedIsListed, Listed
<1>2. QED
  BY <1>1, RegistryInvariant, PTL

------------------------------------------------------------------------------
(***************************************************************************)
(* What discoveries and prunes have read, and what they answer from it.    *)
(***************************************************************************)

\* The last entry of a listing, and what is selected from one or two branches.
LEMMA SingleIs ==
  ASSUME NEW b \in Branches
  PROVE  /\ Single(b).status = "ok" => b.err = "none" /\ \A m : b.cands = {m} => Single(b).m = m
         /\ Single(b).status = "notFound" => b.err = "notFound" \/ (b.err = "none" /\ b.cands = {})
<1>1. b.cands \in SUBSET Attached /\ b.err \in Errors \cup {"none"}
  BY DEF Branches
<1>2. IsFiniteSet(b.cands)
  BY <1>1, RegistryAssumption, FS_Subset
<1>3. Cardinality(b.cands) = 0 => b.cands = {}
  BY <1>2, FS_EmptySet
<1>4. \A m : b.cands = {m} => Cardinality(b.cands) = 1 /\ Only(b.cands) = m
  <2>1. ASSUME NEW m PROVE Cardinality({m}) = 1 /\ Only({m}) = m
    BY FS_Singleton DEF Only
  <2>2. QED
    BY <2>1
<1>5. CASE b.err # "none"
  <2>1. Single(b) = Fail(b.err)
    BY <1>5 DEF Single
  <2>2. b.err # "ok"
    BY <1>1 DEF Errors
  <2>3. QED
    BY <1>5, <2>1, <2>2 DEF Fail
<1>6. CASE b.err = "none" /\ Cardinality(b.cands) = 0
  BY <1>3, <1>6 DEF Single, Fail
<1>7. CASE b.err = "none" /\ Cardinality(b.cands) = 1
  BY <1>4, <1>7 DEF Single, Found
<1>8. CASE b.err = "none" /\ Cardinality(b.cands) \notin {0, 1}
  BY <1>8 DEF Single, Fail
<1>9. QED
  BY <1>5, <1>6, <1>7, <1>8

\* A tag that points to a wanted manifest which the referrers list wins.
LEMMA TagWins ==
  ASSUME NEW t \in Branches, NEW r \in Branches, NEW strict \in BOOLEAN, NEW m \in Attached,
         t.err = "none", t.cands = {m}, r.err = "none" => m \in r.cands,
         AutoDiscovery(t, r, strict).status = "ok"
  PROVE  AutoDiscovery(t, r, strict).m = m
<1>1. Only(t.cands) = m
  BY DEF Only
<1>2. r.err \in Errors \cup {"none"}
  BY DEF Branches
<1>3. CASE r.err # "none"
  BY <1>1, <1>2, <1>3 DEF AutoDiscovery, Found, Fail, Errors
<1>4. CASE r.err = "none"
  <2>1. AutoDiscovery(t, r, strict) = TagAndReferrers(m, r.cands, strict)
    BY <1>1, <1>4 DEF AutoDiscovery
  <2>2. QED
    BY <1>4, <2>1 DEF TagAndReferrers, Found
<1>5. QED
  BY <1>3, <1>4

\* Two branches that find nothing: the referrers were loaded and none is wanted.
LEMMA NothingFound ==
  ASSUME NEW t \in Branches, NEW r \in Branches, NEW strict \in BOOLEAN,
         r.err # "notFound",
         AutoDiscovery(t, r, strict).status = "notFound"
  PROVE  r.err = "none" /\ r.cands = {}
<1> DEFINE joined == [r EXCEPT !.cands = @ \cup t.cands]
<1>1. t.err \in Errors \cup {"none"} /\ r.err \in Errors \cup {"none"}
  BY DEF Branches
<1>2. joined \in Branches /\ joined.err = r.err /\ joined.cands = r.cands \cup t.cands
  BY DEF Branches
<1>3. CASE t.err \notin {"none", "notFound"}
  BY <1>1, <1>3 DEF AutoDiscovery, Fail
<1>4. CASE t.err \in {"none", "notFound"} /\ r.err # "none"
  BY <1>1, <1>4 DEF AutoDiscovery, Fail, Found
<1>5. CASE t.err \in {"none", "notFound"} /\ r.err = "none"
  <2>1. AutoDiscovery(t, r, strict) = IF t.cands = {} \/ r.cands = {} THEN Single(joined)
                             ELSE TagAndReferrers(Only(t.cands), r.cands, strict)
    BY <1>5 DEF AutoDiscovery
  <2>2. TagAndReferrers(Only(t.cands), r.cands, strict).status # "notFound"
    BY DEF TagAndReferrers, Found, Fail
  <2>3. Single(joined).status = "notFound"
    BY <2>1, <2>2
  <2>4. joined.cands = {}
    BY <1>2, <1>5, <2>3, SingleIs
  <2>5. QED
    BY <1>2, <1>5, <2>4
<1>6. QED
  BY <1>3, <1>4, <1>5

\* What a prune keeps is one of the manifests it selects from.
LEMMA KeepIsSelected ==
  ASSUME NEW c, NEW primary, NEW refs \in SUBSET Attached, refs # {}
  PROVE  LET keep == PruneKeep(c, primary, refs)
         IN  keep.status = "ok" => keep.m \in primary \cup refs
<1>1. CASE primary # {} /\ c.digest \in {NoManifest} \cup primary
  BY <1>1, OnlyTyped DEF PruneKeep, Found
<1>2. CASE primary # {} /\ c.digest \notin {NoManifest} \cup primary
  BY <1>2 DEF PruneKeep, Fail
<1>3. CASE primary = {} /\ c.digest = NoManifest
  <2>1. PruneKeep(c, primary, refs) = Fail("conflict")
    BY <1>3, RegistryAssumption DEF Manifests, PruneKeep
  <2>2. QED
    BY <2>1 DEF Fail
<1>4. CASE primary = {} /\ c.digest # NoManifest /\ c.digest \in refs
  BY <1>4 DEF PruneKeep, Found
<1>5. CASE primary = {} /\ c.digest # NoManifest /\ c.digest \notin refs
  BY <1>5 DEF PruneKeep, Fail
<1>6. QED
  BY <1>1, <1>2, <1>3, <1>4, <1>5

\* A plan of a prune leaves out one manifest of a slot at most.
LEMMA KeepsOneOfSlot ==
  ASSUME NEW c \in Calls, NEW cands \in SUBSET Attached, NEW listed \in SUBSET Attached,
         PruneKeep(c, Matching(c, cands), Matching(c, listed)).status = "ok",
         NEW s \in Slots, c.slots = {s},
         NEW m \in listed \ Superseded(PruneKeep(c, Matching(c, cands), Matching(c, listed)).m,
                                       Matching(c, listed)),
         NEW n \in listed \ Superseded(PruneKeep(c, Matching(c, cands), Matching(c, listed)).m,
                                       Matching(c, listed)),
         SlotOf[m] = s, SlotOf[n] = s
  PROVE  m = n
<1> DEFINE primary == Matching(c, cands)
           refs == Matching(c, listed)
           keep == PruneKeep(c, primary, refs)
<1>1. m \in refs /\ n \in refs /\ refs \in SUBSET Attached /\ \A x \in primary \cup refs : x \in Attached /\ SlotOf[x] = s
  BY DEF Matching
<1>2. keep.m \in primary \cup refs
  BY <1>1, KeepIsSelected
<1>3. keep.m \in Attached /\ SlotOf[keep.m] = s
  BY <1>1, <1>2
<1>4. m \notin Superseded(keep.m, refs) /\ n \notin Superseded(keep.m, refs)
  OBVIOUS
<1> HIDE DEF keep, refs
<1>5. m = keep.m /\ n = keep.m
  BY <1>1, <1>3, <1>4 DEF Superseded
<1>6. QED
  BY <1>5

\* A step within a discovery.
LEMMA DiscoverEntered ==
  ASSUME TypeOK, NEW w \in Workers, Act(w), pc'[w] = "discover"
  PROVE  \/ Begin(w)
         \/ AskTag(w) \/ LoadTag(w) \/ AskReferrers(w) \/ LoadReferrer(w) \/ FailBranch(w)
         \/ PrunePrimary(w) /\ refB' = [refB EXCEPT ![w] = Ask] /\ pc[w] = "discover"
              /\ UNCHANGED <<native, repository, call, tagB>>
BY DEF Act, Attach, Discover, Remove, Prune, Lookup, PushManifest, IndexRead, IndexWrite,
       Tag, Select, Resolve, Delete, Erase, Erased, PrunePrimary, PlanPrune, Cut, End, Move, Goto,
       Return, Forget, TypeOK, Steps

LEMMA LookingStep ==
  ASSUME TypeOK, InPlace, Looking, NEW w \in Workers, Act(w)
  PROVE  Looking'
<1> SUFFICES ASSUME NEW v \in Workers PROVE CallLooks(v)'
  BY DEF Looking
<1>a. CallLooks(v) /\ CallInPlace(v)
  BY DEF Looking, InPlace
<1>1. CASE v # w
  BY <1>1, <1>a, Frame DEF CallLooks
<1> SUFFICES ASSUME v = w PROVE CallLooks(w)'
  BY <1>1
<1>2. CASE pc'[w] = "discover"
  <2>a. \A b \in Branches : b.at \in {"off", "ask", "load", "done"}
    BY DEF Branches
  <2>b. Ask.at = "ask" /\ \A e : BranchErr(e).at = "done"
    BY DEF Ask, Off, BranchErr
  <2> USE DEF TypeOK, CallLooks
  <2>1. CASE Begin(w)
    BY <1>2, <2>1, <2>b DEF Begin, AsksTag, AsksReferrers
  <2>2. CASE AskTag(w)
    BY <2>2, <2>b, <1>a DEF AskTag, Ask, Off
  <2>3. CASE LoadTag(w)
    BY <2>3, <2>b, <1>a DEF LoadTag, Off
  <2>4. CASE AskReferrers(w)
    BY <2>4, <1>a DEF AskReferrers, Off
  <2>5. CASE LoadReferrer(w)
    BY <2>5, <2>b, <1>a DEF LoadReferrer, Loaded, Branches
  <2>6. CASE FailBranch(w)
    BY <2>6, <2>b, <1>a DEF FailBranch
  <2>7. CASE PrunePrimary(w)
    BY <2>7, <1>2 DEF PrunePrimary, Move, Return
  <2>8. QED
    BY <1>2, <2>1, <2>2, <2>3, <2>4, <2>5, <2>6, <2>7, DiscoverEntered
<1>3. CASE pc'[w] # "discover"
  <2> USE DEF TypeOK, Move, Goto, Return, Forget
  <2>1. SUFFICES ASSUME pc'[w] # "idle", call'[w].op = "discover" PROVE pc'[w] = "return"
    BY <1>3 DEF CallLooks
  <2>2. CASE Begin(w)
    BY <1>3, <2>1, <2>2 DEF Begin, FirstStep, TypeOK
  <2>3. CASE Select(w)
    BY <1>3, <2>1, <2>3 DEF Select, Move, Return, TypeOK
  <2>4. CASE PrunePrimary(w) \/ PlanPrune(w)
    <3>1. call'[w] = call[w]
      BY <2>4 DEF PrunePrimary, PlanPrune
    <3>2. QED
      BY <2>1, <2>4, <3>1 DEF PrunePrimary, PlanPrune
  <2>5. CASE AskTag(w) \/ LoadTag(w) \/ AskReferrers(w) \/ LoadReferrer(w) \/ FailBranch(w)
    <3>1. pc[w] = "discover" /\ UNCHANGED pc
      <4>1. CASE AskTag(w)
        BY <4>1 DEF AskTag
      <4>2. CASE LoadTag(w)
        BY <4>2 DEF LoadTag
      <4>3. CASE AskReferrers(w)
        BY <4>3 DEF AskReferrers
      <4>4. CASE LoadReferrer(w)
        BY <4>4 DEF LoadReferrer
      <4>5. CASE FailBranch(w)
        BY <4>5 DEF FailBranch
      <4>6. QED
        BY <2>5, <4>1, <4>2, <4>3, <4>4, <4>5
    <3>2. QED
      BY <1>3, <3>1
  <2>6. CASE End(w) \/ Cut(w)
    BY <2>1, <2>6 DEF End, Cut
  <2>7. CASE Attach(w) \/ Remove(w)
    <3>1. pc[w] \notin {"idle", "discover", "return"}
      BY <2>7 DEF Attach, Remove, Lookup, PushManifest, IndexRead, IndexWrite, Tag, Resolve, Delete,
                  Erase
    <3>2. call'[w] = call[w]
      BY <2>7 DEF Attach, Remove, Lookup, PushManifest, IndexRead, IndexWrite, Tag, Resolve, Delete,
                  Erase, Erased
    <3>3. QED
      BY <1>a, <2>1, <3>1, <3>2 DEF CallLooks
  <2>8. QED
    BY <2>2, <2>3, <2>4, <2>5, <2>6, <2>7 DEF Act, Discover, Prune
<1>4. QED
  BY <1>2, <1>3

LEMMA ReferrersKnownStep ==
  ASSUME TypeOK, TypeOK', InPlace, InPlace', ReferrersKnown, NEW w \in Workers, Act(w), Watch
  PROVE  ReferrersKnown'
<1> SUFFICES ASSUME NEW v \in Workers, pc'[v] = "discover" PROVE KnowsReferrers(v)'
  BY DEF ReferrersKnown, KnowsReferrers
<1>a. call'[v].op \in {"discover", "detach", "prune"}
  BY DEF InPlace, CallInPlace
<1>b. /\ gone[v] \cup (manifests \ manifests') \subseteq gone'[v]
      /\ lasting'[v] \subseteq Listed'
      /\ pc[v] # "idle" => lasting'[v] \subseteq lasting[v]
  BY <1>a, HistoryStep
<1>c. native' = native
  BY FallbackStep
<1>d. KnowsReferrers(v) /\ refB[v] \in Branches
  BY DEF ReferrersKnown, TypeOK
<1>1. CASE v # w
  BY <1>1, <1>b, <1>c, <1>d, Frame DEF KnowsReferrers
<1> SUFFICES ASSUME v = w PROVE KnowsReferrers(w)'
  BY <1>1
<1>e. ASSUME pc[w] = "discover", call' = call, manifests' = manifests
      PROVE  /\ KnowsReferrers(w)
             /\ native' /\ gone'[w] = {} => native /\ gone[w] = {}
             /\ \A m \in lasting'[w] : m \in lasting[w]
  BY <1>b, <1>c, <1>d, <1>e
<1>2. CASE Begin(w)
  BY <1>2 DEF Begin, KnowsReferrers, TypeOK, Ask, Off
<1>3. CASE AskTag(w) \/ LoadTag(w)
  <2>1. pc[w] = "discover" /\ call' = call /\ manifests' = manifests /\ refB' = refB
    <3>1. CASE AskTag(w)
      BY <3>1 DEF AskTag, repository
    <3>2. CASE LoadTag(w)
      BY <3>2 DEF LoadTag, repository
    <3>3. QED
      BY <1>3, <3>1, <3>2
  <2>2. QED
    BY <2>1, <1>e DEF KnowsReferrers
<1>4. CASE AskReferrers(w)
  <2>1. /\ refB'[w].at \in {"load", "done"} /\ refB'[w].err = "none"
        /\ refB'[w].todo = Listed /\ refB'[w].cands = {}
        /\ refB'[w].at = "done" => Listed = {}
        /\ manifests' = manifests /\ Listed' = Listed
    BY <1>4 DEF AskReferrers, Off, TypeOK, repository, Listed
  <2>2. native => Listed \subseteq manifests
    BY DEF Listed
  <2>3. QED
    BY <2>1, <2>2, <1>b, <1>c DEF KnowsReferrers
<1>5. CASE LoadReferrer(w)
  <2>1. pc[w] = "discover" /\ call' = call /\ manifests' = manifests
    BY <1>5 DEF LoadReferrer, repository
  <2>2. PICK m \in refB[w].todo :
          refB'[w] = IF m \in manifests THEN Loaded(refB[w], call[w], m) ELSE BranchErr("notFound")
    BY <1>5 DEF LoadReferrer, TypeOK
  <2>3. CASE m \in manifests
    <3>1. /\ refB'[w].err = refB[w].err
          /\ refB'[w].todo = refB[w].todo \ {m}
          /\ refB'[w].cands = refB[w].cands \cup {x \in {m} : Wanted(call[w], x)}
          /\ refB'[w].at = "done" => refB[w].todo = {m}
      BY <2>2, <2>3, <1>d DEF Loaded, Branches
    <3>2. refB[w].at = "load"
      BY <1>5 DEF LoadReferrer
    <3>3. QED
      BY <2>1, <3>1, <3>2, <1>e DEF KnowsReferrers
  <2>4. CASE m \notin manifests
    <3>1. /\ refB'[w].err = "notFound" /\ refB'[w].todo = {}
      BY <2>2, <2>4 DEF BranchErr, Off
    <3>2. ~(native /\ gone[w] = {})
      BY <2>1, <2>4, <1>e DEF KnowsReferrers
    <3>3. QED
      BY <2>1, <3>1, <3>2, <1>e DEF KnowsReferrers
  <2>5. QED
    BY <2>3, <2>4
<1>6. CASE FailBranch(w)
  <2>1. pc[w] = "discover" /\ call' = call /\ manifests' = manifests
    BY <1>6 DEF FailBranch, repository
  <2>2. refB'[w] = refB[w] \/ \E e \in {"temporary", "failed"} : refB'[w] = BranchErr(e)
    BY <1>6 DEF FailBranch, TypeOK
  <2>3. ASSUME NEW e \in {"temporary", "failed"}, refB'[w] = BranchErr(e)
        PROVE  refB'[w].err \notin {"none", "notFound"} /\ refB'[w].todo = {}
    BY <2>3 DEF BranchErr, Off
  <2>4. QED
    BY <2>1, <2>2, <2>3, <1>e DEF KnowsReferrers
<1>7. CASE refB' = [refB EXCEPT ![w] = Ask] /\ pc[w] = "discover" /\ UNCHANGED <<native, repository, call, tagB>>
  BY <1>7 DEF KnowsReferrers, TypeOK, Ask, Off
<1>8. QED
  BY <1>2, <1>3, <1>4, <1>5, <1>6, <1>7, DiscoverEntered

\* The steps of a prune after its plan.
LEMMA PruneEntered ==
  ASSUME TypeOK, InPlace, NEW w \in Workers, Act(w), call'[w].op = "prune",
         pc'[w] \in {"delete", "erase"} \cup IndexSteps
  PROVE  /\ pc[w] # "idle" /\ call'[w] = call[w]
         /\ PlanPrune(w) \/ IndexRead(w) \/ IndexWrite(w) \/ Delete(w) \/ Erase(w)
<1>a. CallInPlace(w)
  BY DEF InPlace
<1> USE DEF TypeOK, Move, Goto, Return, Forget, IndexSteps
<1>1. CASE Begin(w)
  BY <1>1 DEF Begin, FirstStep
<1>2. CASE Discover(w) \/ PrunePrimary(w) \/ FailBranch(w)
  <2>1. CASE AskTag(w)
    BY <2>1 DEF AskTag
  <2>2. CASE LoadTag(w)
    BY <2>2 DEF LoadTag
  <2>3. CASE AskReferrers(w)
    BY <2>3 DEF AskReferrers
  <2>4. CASE LoadReferrer(w)
    BY <2>4 DEF LoadReferrer
  <2>5. CASE Select(w)
    BY <2>5 DEF Select
  <2>6. CASE PrunePrimary(w)
    BY <2>6 DEF PrunePrimary
  <2>7. CASE FailBranch(w)
    BY <2>7 DEF FailBranch
  <2>8. QED
    BY <1>2, <2>1, <2>2, <2>3, <2>4, <2>5, <2>6, <2>7 DEF Discover
<1>3. CASE Lookup(w) \/ PushManifest(w) \/ Tag(w) \/ Resolve(w)
  BY <1>3, <1>a DEF Lookup, PushManifest, Tag, Resolve, CallInPlace, Publishing
<1>4. CASE End(w) \/ Cut(w)
  BY <1>4 DEF End, Cut
<1>5. CASE PlanPrune(w)
  BY <1>5 DEF PlanPrune
<1>6. CASE IndexRead(w) \/ IndexWrite(w)
  BY <1>6 DEF IndexRead, IndexWrite
<1>7. CASE Delete(w) \/ Erase(w)
  BY <1>7 DEF Delete, Erase, Erased
<1>8. QED
  BY <1>1, <1>2, <1>3, <1>4, <1>5, <1>6, <1>7 DEF Act, Attach, Remove, Prune

LEMMA PlanLeavesOne ==
  ASSUME TypeOK, ReferrersKnown, NEW w \in Workers, PlanPrune(w),
         pc'[w] = "delete" \/ (pc'[w] = "return" /\ res'[w] = "ok" /\ call[w].force),
         NEW s \in Slots, call[w].slots = {s},
         NEW m \in lasting[w], NEW n \in lasting[w], SlotOf[m] = s, SlotOf[n] = s,
         pc'[w] = "delete" => {m, n} \cap (plan'[w] \cup {target'[w]}) = {}
  PROVE  m = n
<1> DEFINE cands == tagB[w].cands
           listed == refB[w].cands
           keep == PruneKeep(call[w], Matching(call[w], cands), Matching(call[w], listed))
           selected == Superseded(keep.m, Matching(call[w], listed))
           error == IF refB[w].err # "none" THEN refB[w].err ELSE keep.status
<1>1. /\ call[w] \in Calls /\ call[w].op = "prune"
      /\ cands \in SUBSET Attached /\ listed \in SUBSET Attached
      /\ refB[w].err # "ok"
  BY DEF TypeOK, PlanPrune, Branches, Errors
<1>2. /\ error = "ok"
      /\ pc'[w] = "delete" => selected = plan'[w] \cup {target'[w]}
      /\ pc'[w] = "return" => selected = {}
  <2> HIDE DEF selected, keep
  <2>1. \/ error # "ok" /\ Return(w, error)
        \/ error = "ok" /\ (selected = {} \/ ~call[w].force) /\ Return(w, "ok")
        \/ /\ error = "ok"
           /\ \E x \in selected : /\ target' = [target EXCEPT ![w] = x]
                                  /\ plan' = [plan EXCEPT ![w] = selected \ {x}]
           /\ Move(w, "delete")
    BY DEF PlanPrune, selected, keep
  <2> HIDE DEF error
  <2>2. QED
    BY <2>1 DEF Return, Move, TypeOK
<1>3. refB[w].err = "none" /\ keep.status = "ok"
  BY <1>1, <1>2
<1>4. m \in listed /\ n \in listed
  <2>1. KnowsReferrers(w) /\ refB[w].at = "done" /\ pc[w] = "discover"
    BY DEF ReferrersKnown, PlanPrune
  <2>2. QED
    BY <1>1, <1>3, <2>1 DEF KnowsReferrers, Wanted
<1>5. m \notin selected /\ n \notin selected
  <2> HIDE DEF selected, error
  <2>1. QED
    BY <1>2
<1> HIDE DEF cands, listed
<1>6. QED
  BY <1>1, <1>3, <1>4, <1>5, KeepsOneOfSlot

\* What Erased leaves is not the manifest it deleted; the prune goes on with
\* the next one of its plan, or ends.
LEMMA ErasedIs ==
  ASSUME TypeOK, NEW w \in Workers, Erased(w),
         pc'[w] = "delete" \/ (pc'[w] = "return" /\ res'[w] = "ok")
  PROVE  /\ manifests' = manifests \ {target[w]}
         /\ pc'[w] = "delete" => plan'[w] \cup {target'[w]} = plan[w]
         /\ pc'[w] = "return" => plan[w] = {}
<1> USE DEF TypeOK, Return, Move
<1>1. target[w] \in manifests /\ manifests' = manifests \ {target[w]}
  BY DEF Erased
<1>2. CASE plan[w] = {} /\ Return(w, "ok")
  BY <1>1, <1>2
<1>3. ASSUME NEW m \in plan[w], target' = [target EXCEPT ![w] = m],
             plan' = [plan EXCEPT ![w] = @ \ {m}], Move(w, "delete")
      PROVE  plan'[w] \cup {target'[w]} = plan[w] /\ pc'[w] = "delete"
  BY <1>3
<1>4. QED
  BY <1>1, <1>2, <1>3 DEF Erased

\* A prune that goes on after a deletion, or ends with it, has deleted what it
\* was about to delete.
LEMMA DeletedIsGone ==
  ASSUME TypeOK, RestPlanned, NEW w \in Workers, Delete(w) \/ Erase(w), call[w].op = "prune",
         Listed' \subseteq manifests' \/ ~native, native' = native,
         lasting'[w] \subseteq lasting[w] \cap Listed',
         pc'[w] = "delete" \/ (pc'[w] = "return" /\ res'[w] = "ok")
  PROVE  /\ Erased(w)
         /\ target[w] \notin lasting'[w]
<1>1. Erased(w)
  BY DEF Delete, Erase, Goto, Move, Return, TypeOK
<1>2. manifests' = manifests \ {target[w]}
  BY <1>1, ErasedIs
<1>3. CASE native
  BY <1>1, <1>2, <1>3
<1>4. CASE ~native /\ Delete(w)
  <2>1. target[w] \notin Attached
    BY <1>4 DEF Delete, Goto, Move, Return, TypeOK
  <2>2. QED
    BY <1>1, <2>1 DEF TypeOK
<1>5. CASE Erase(w)
  BY <1>5 DEF Erase, RestPlanned, PlansTheRest
<1>6. QED
  BY <1>3, <1>4, <1>5

LEMMA RestPlannedStep ==
  ASSUME TypeOK, TypeOK', InPlace, ReferrersKnown, RestPlanned, NEW w \in Workers, Act(w), Watch
  PROVE  RestPlanned'
<1> SUFFICES ASSUME NEW v \in Workers, pc'[v] \in {"delete", "erase"} \cup IndexSteps,
                    call'[v].op = "prune"
             PROVE  PlansTheRest(v)'
  BY DEF RestPlanned, PlansTheRest
<1>a. /\ lasting'[v] \subseteq Listed'
      /\ pc[v] # "idle" => lasting'[v] \subseteq lasting[v]
  BY HistoryStep DEF IndexSteps
<1>b. native' = native
  BY FallbackStep
<1>c. PlansTheRest(v)
  BY DEF RestPlanned
<1>1. CASE v # w
  BY <1>1, <1>a, <1>b, <1>c, Frame, IndexFrame DEF PlansTheRest, IndexSteps
<1> SUFFICES ASSUME v = w PROVE PlansTheRest(w)'
  BY <1>1
<1>d. /\ pc[w] # "idle" /\ call'[w] = call[w]
      /\ PlanPrune(w) \/ IndexRead(w) \/ IndexWrite(w) \/ Delete(w) \/ Erase(w)
  BY PruneEntered
<1>e. lasting'[w] \subseteq lasting[w]
  BY <1>a, <1>d
<1>2. CASE PlanPrune(w)
  <2>1. pc'[w] = "delete"
    BY <1>2 DEF PlanPrune, Return, Move, TypeOK, IndexSteps
  <2>2. ASSUME NEW s \in Slots, call'[w].slots = {s},
               NEW m \in lasting'[w] \ (plan'[w] \cup {target'[w]}),
               NEW n \in lasting'[w] \ (plan'[w] \cup {target'[w]}),
               SlotOf[m] = s, SlotOf[n] = s
        PROVE  m = n
    BY <1>2, <1>d, <1>e, <2>1, <2>2, PlanLeavesOne
  <2>3. QED
    BY <2>1, <2>2 DEF PlansTheRest
<1>3. CASE IndexRead(w)
  <2>1. /\ pc[w] = "indexRead" /\ pc'[w] = "indexWrite" /\ index'[w] = fallback
        /\ fallback' = fallback /\ plan' = plan /\ target' = target
    BY <1>3 DEF IndexRead, Move, repository, branches, TypeOK
  <2>2. ~native
    BY <1>c, <1>d, <2>1 DEF PlansTheRest, IndexSteps
  <2>3. Listed' = fallback
    BY <1>b, <2>1, <2>2 DEF Listed
  <2>4. QED
    BY <1>a, <1>b, <1>c, <1>d, <1>e, <2>1, <2>2, <2>3 DEF PlansTheRest, IndexSteps
<1>4. CASE IndexWrite(w)
  <2>1. /\ pc[w] = "indexWrite" /\ pc'[w] = "erase" /\ plan' = plan /\ target' = target
        /\ ~(Edited(w) # index[w] /\ index[w] \notin {{}, fallback})
        /\ fallback' = IF Edited(w) # index[w] THEN Edited(w) ELSE fallback
    BY <1>4, <1>d DEF IndexWrite, Goto, Move, Return, TypeOK, Publishing, IndexSteps
  <2>2. ~native /\ Edited(w) = index[w] \ {target[w]}
    BY <1>c, <1>d, <2>1 DEF PlansTheRest, IndexSteps, Edited, Publishing
  <2>3. Listed' = fallback'
    BY <1>b, <2>2 DEF Listed
  <2>4. target[w] \notin lasting'[w]
    <3>1. CASE target[w] \in index[w]
      BY <1>a, <2>1, <2>2, <2>3, <3>1
    <3>2. CASE target[w] \notin index[w]
      BY <1>c, <1>d, <1>e, <2>1, <3>2 DEF PlansTheRest, IndexSteps
    <3>3. QED
      BY <3>1, <3>2
  <2>5. QED
    BY <1>b, <1>c, <1>d, <1>e, <2>1, <2>2, <2>4 DEF PlansTheRest, IndexSteps
<1>5. CASE Delete(w) \/ Erase(w)
  <2>1. CASE pc'[w] = "delete"
    <3>1. Erased(w) /\ target[w] \notin lasting'[w]
      BY <1>5, <1>a, <1>b, <1>d, <1>e, <2>1, DeletedIsGone DEF Listed
    <3>2. plan'[w] \cup {target'[w]} = plan[w]
      BY <2>1, <3>1, ErasedIs
    <3>3. pc[w] \in {"delete", "erase"}
      BY <1>5 DEF Delete, Erase
    <3>4. QED
      BY <1>c, <1>d, <1>e, <2>1, <3>1, <3>2, <3>3 DEF PlansTheRest
  <2>2. CASE pc'[w] # "delete"
    <3>1. /\ pc[w] = "delete" /\ pc'[w] = "indexRead" /\ ~native
          /\ plan' = plan /\ target' = target
      BY <1>5, <2>2 DEF Delete, Erase, Erased, Goto, Move, Return, TypeOK, IndexSteps
    <3>2. QED
      BY <1>b, <1>c, <1>d, <1>e, <3>1 DEF PlansTheRest
  <2>3. QED
    BY <2>1, <2>2
<1>6. QED
  BY <1>d, <1>2, <1>3, <1>4, <1>5

\* What another call returns is left alone, too.
LEMMA ResultFrame ==
  ASSUME TypeOK, NEW w \in Workers, Act(w), NEW v \in Workers, v # w
  PROVE  res'[v] = res[v]
<1> USE DEF TypeOK, Move, Goto, Return
<1>1. CASE Begin(w)
  BY <1>1 DEF Begin
<1>2. CASE End(w)
  BY <1>2 DEF End
<1>3. CASE Lookup(w)
  BY <1>3 DEF Lookup
<1>4. CASE PushManifest(w)
  BY <1>4 DEF PushManifest
<1>5. CASE IndexRead(w)
  BY <1>5 DEF IndexRead
<1>6. CASE IndexWrite(w)
  BY <1>6 DEF IndexWrite
<1>7. CASE Tag(w)
  BY <1>7 DEF Tag
<1>8. CASE AskTag(w)
  BY <1>8 DEF AskTag
<1>9. CASE LoadTag(w)
  BY <1>9 DEF LoadTag
<1>10. CASE AskReferrers(w)
  BY <1>10 DEF AskReferrers
<1>11. CASE LoadReferrer(w)
  BY <1>11 DEF LoadReferrer
<1>12. CASE Select(w)
  BY <1>12 DEF Select
<1>13. CASE Resolve(w)
  BY <1>13 DEF Resolve
<1>14. CASE Delete(w)
  BY <1>14 DEF Delete, Erased
<1>15. CASE Erase(w)
  BY <1>15 DEF Erase, Erased
<1>16. CASE PrunePrimary(w)
  BY <1>16 DEF PrunePrimary
<1>17. CASE PlanPrune(w)
  BY <1>17 DEF PlanPrune
<1>18. CASE FailBranch(w)
  BY <1>18 DEF FailBranch
<1>19. CASE Cut(w)
  BY <1>19 DEF Cut
<1>20. QED
  BY <1>1, <1>2, <1>3, <1>4, <1>5, <1>6, <1>7, <1>8, <1>9, <1>10, <1>11,
     <1>12, <1>13, <1>14, <1>15, <1>16, <1>17, <1>18, <1>19
     DEF Act, Attach, Discover, Remove, Prune

\* A prune that succeeds ends with its plan, or with its last deletion.
LEMMA PruneEnds ==
  ASSUME TypeOK, InPlace, NEW w \in Workers, Act(w), call'[w].op = "prune",
         pc'[w] = "return", res'[w] = "ok"
  PROVE  /\ pc[w] # "idle" /\ call'[w] = call[w]
         /\ PlanPrune(w) \/ Delete(w) \/ Erase(w)
<1>a. CallInPlace(w)
  BY DEF InPlace
<1> USE DEF TypeOK, Move, Goto, Return, Forget
<1>1. CASE Begin(w)
  BY <1>1 DEF Begin, FirstStep
<1>2. CASE PrunePrimary(w)
  <2>1. tagB[w].err # "ok"
    BY DEF Branches, Errors
  <2>2. QED
    BY <1>2, <2>1 DEF PrunePrimary
<1>3. CASE Discover(w) \/ FailBranch(w)
  <2>1. CASE AskTag(w)
    BY <2>1 DEF AskTag
  <2>2. CASE LoadTag(w)
    BY <2>2 DEF LoadTag
  <2>3. CASE AskReferrers(w)
    BY <2>3 DEF AskReferrers
  <2>4. CASE LoadReferrer(w)
    BY <2>4 DEF LoadReferrer
  <2>5. CASE Select(w)
    BY <2>5 DEF Select
  <2>6. CASE FailBranch(w)
    BY <2>6 DEF FailBranch
  <2>7. QED
    BY <1>3, <2>1, <2>2, <2>3, <2>4, <2>5, <2>6 DEF Discover
<1>4. CASE Lookup(w) \/ PushManifest(w) \/ Tag(w) \/ Resolve(w)
  BY <1>4, <1>a DEF Lookup, PushManifest, Tag, Resolve, CallInPlace, Publishing
<1>5. CASE End(w) \/ Cut(w)
  BY <1>5 DEF End, Cut
<1>6. CASE IndexRead(w) \/ IndexWrite(w)
  BY <1>6 DEF IndexRead, IndexWrite, Publishing
<1>7. CASE PlanPrune(w)
  BY <1>7 DEF PlanPrune
<1>8. CASE Delete(w) \/ Erase(w)
  BY <1>8 DEF Delete, Erase, Erased
<1>9. QED
  BY <1>1, <1>2, <1>3, <1>4, <1>5, <1>6, <1>7, <1>8 DEF Act, Attach, Remove, Prune

\* A discovery ends, and a detachment goes on, by selecting.
LEMMA SelectEntered ==
  ASSUME TypeOK, InPlace, Looking, NEW w \in Workers, Act(w),
         \/ pc'[w] = "return" /\ res'[w] # "failed" /\ call'[w].op = "discover"
         \/ pc'[w] = "resolve" /\ call'[w].op = "detach"
  PROVE  Select(w)
<1>a. CallInPlace(w) /\ CallLooks(w)
  BY DEF InPlace, Looking
<1> USE DEF TypeOK, Move, Goto, Return, Forget
<1>1. CASE Begin(w)
  BY <1>1 DEF Begin, FirstStep
<1>2. CASE PrunePrimary(w) \/ PlanPrune(w)
  <2>1. CASE PrunePrimary(w)
    BY <2>1 DEF PrunePrimary
  <2>2. CASE PlanPrune(w)
    BY <2>2 DEF PlanPrune
  <2>3. QED
    BY <1>2, <2>1, <2>2
<1>3. CASE AskTag(w) \/ LoadTag(w) \/ AskReferrers(w) \/ LoadReferrer(w) \/ FailBranch(w)
  <2>1. CASE AskTag(w)
    BY <2>1 DEF AskTag
  <2>2. CASE LoadTag(w)
    BY <2>2 DEF LoadTag
  <2>3. CASE AskReferrers(w)
    BY <2>3 DEF AskReferrers
  <2>4. CASE LoadReferrer(w)
    BY <2>4 DEF LoadReferrer
  <2>5. CASE FailBranch(w)
    BY <2>5 DEF FailBranch
  <2>6. QED
    BY <1>3, <2>1, <2>2, <2>3, <2>4, <2>5
<1>4. CASE Attach(w) \/ Remove(w)
  <2>1. pc[w] \notin {"idle", "discover", "return"} /\ call'[w] = call[w] /\ pc'[w] # "resolve"
    BY <1>4 DEF Attach, Remove, Lookup, PushManifest, IndexRead, IndexWrite, Tag, Resolve, Delete,
                Erase, Erased
  <2>2. QED
    BY <1>a, <2>1 DEF CallLooks
<1>5. CASE End(w)
  BY <1>5 DEF End
<1>6. CASE Cut(w)
  BY <1>6 DEF Cut
<1>7. QED
  BY <1>1, <1>2, <1>3, <1>4, <1>5, <1>6 DEF Act, Discover, Prune

\* What a selection answers.
LEMMA SelectIs ==
  ASSUME TypeOK, NEW w \in Workers, Select(w)
  PROVE  LET o == Reconcile(call[w], tagB[w], refB[w])
         IN  /\ pc[w] = "discover" /\ call' = call /\ UNCHANGED repository
             /\ call[w].op \in {"discover", "detach"}
             /\ tagB[w].at \in {"off", "done"} /\ refB[w].at \in {"off", "done"}
             /\ target'[w] = o.m
             /\ pc'[w] = "return" => res'[w] = o.status
             /\ pc'[w] = "resolve" => o.status = "ok"
             /\ pc'[w] \in {"return", "resolve"}
<1> DEFINE o == Reconcile(call[w], tagB[w], refB[w])
<1> HIDE DEF o
<1>1. /\ pc[w] = "discover" /\ call' = call /\ UNCHANGED repository
      /\ call[w].op \in {"discover", "detach"}
      /\ tagB[w].at \in {"off", "done"} /\ refB[w].at \in {"off", "done"}
  BY DEF Select, Move, Return
<1>2. /\ target' = [target EXCEPT ![w] = o.m]
      /\ (o.status = "ok" /\ Move(w, "resolve")) \/ Return(w, o.status)
  BY DEF Select, o
<1>3. /\ target'[w] = o.m
      /\ pc'[w] = "return" => res'[w] = o.status
      /\ pc'[w] = "resolve" => o.status = "ok"
      /\ pc'[w] \in {"return", "resolve"}
  BY <1>2 DEF Move, Return, TypeOK
<1>4. QED
  BY <1>1, <1>3 DEF o

LEMMA PrimaryWinsStep ==
  ASSUME TypeOK, InPlace, InPlace', PrimaryKnown, Looking, ReferrersKnown, SteadyPrimaryWins,
         NEW w \in Workers, Act(w), Watch
  PROVE  SteadyPrimaryWins'
<1> SUFFICES ASSUME NEW v \in Workers, Selected(v)', call'[v].mode # "referrer", same'[v],
                    tags'["doc"] \in lasting'[v], Wanted(call'[v], tags'["doc"])
             PROVE  target'[v] = tags'["doc"]
  BY DEF SteadyPrimaryWins
<1>a. pc'[v] # "idle" /\ call'[v].op \notin {"push", "remove"}
  BY DEF Selected
<1>b. /\ same[v] /\ tags'["doc"] = tags["doc"]
      /\ pc[v] # "idle" => lasting'[v] \subseteq lasting[v]
  BY <1>a, SameStep, HistoryStep
<1>1. CASE v # w
  <2>1. Selected(v)
    <3>1. res'[v] = res[v]
      BY <1>1, ResultFrame
    <3>2. QED
      BY <1>1, <3>1, Frame DEF Selected
  <2>2. QED
    BY <1>a, <1>b, <1>1, <2>1, Frame DEF SteadyPrimaryWins
<1> SUFFICES ASSUME v = w PROVE target'[w] = tags["doc"]
  BY <1>1, <1>b
<1>2. Select(w)
  BY SelectEntered DEF Selected
<1> DEFINE o == Reconcile(call[w], tagB[w], refB[w])
           t == tagB[w]
           r == refB[w]
           d == tags["doc"]
<1>3. /\ pc[w] = "discover" /\ call'[w] = call[w] /\ call[w] \in Calls
      /\ call[w].op \in {"discover", "detach"}
      /\ t.at \in {"off", "done"} /\ r.at \in {"off", "done"}
      /\ target'[w] = o.m /\ o.status = "ok"
  BY <1>2, SelectIs DEF Selected, TypeOK
<1>4. /\ d \in lasting[w] /\ d \in Attached /\ d # NoManifest /\ Wanted(call[w], d)
      /\ t \in Branches /\ r \in Branches
  BY <1>b, <1>3, RegistryAssumption DEF TypeOK, Manifests
<1>5. t.at = "done" /\ (call[w].mode # "tag" => r.at = "done")
  BY <1>3 DEF Looking, CallLooks
<1>6. t.err # "notFound" /\ (t.err = "none" => t.cands = {d})
  BY <1>b, <1>3, <1>4, <1>5 DEF PrimaryKnown, KnowsPrimary
<1>7. call[w].mode # "tag" /\ r.err = "none" => d \in r.cands
  BY <1>3, <1>4, <1>5 DEF ReferrersKnown, KnowsReferrers
<1> HIDE DEF t, r, d
<1>8. CASE call[w].mode = "tag"
  <2>1. o = Single(t)
    BY <1>8 DEF Reconcile, t
  <2>2. QED
    BY <1>3, <1>4, <1>6, <2>1, SingleIs DEF d
<1>9. CASE call[w].mode # "tag"
  <2>1. o = AutoDiscovery(t, r, call[w].strict) /\ call[w].strict \in BOOLEAN
    BY <1>3, <1>9 DEF Reconcile, Calls, t, r
  <2>2. t.err = "none"
    BY <1>3, <1>4, <1>6, <2>1 DEF AutoDiscovery, Fail, Branches, Errors
  <2>3. QED
    BY <1>3, <1>4, <1>6, <1>7, <1>9, <2>1, <2>2, TagWins DEF d
<1>10. QED
  BY <1>8, <1>9

LEMMA NotFoundStep ==
  ASSUME TypeOK, InPlace, InPlace', Looking, ReferrersKnown, NotFoundMeansAbsentAtRest,
         NEW w \in Workers, Act(w), Watch
  PROVE  NotFoundMeansAbsentAtRest'
<1> SUFFICES ASSUME NEW v \in Workers, pc'[v] = "return", res'[v] = "notFound",
                    call'[v].op = "discover", call'[v].mode # "tag", native', gone'[v] = {},
                    NEW m \in lasting'[v], Wanted(call'[v], m)
             PROVE  FALSE
  BY DEF NotFoundMeansAbsentAtRest
<1>a. /\ native /\ gone[v] = {}
      /\ pc[v] # "idle" => m \in lasting[v]
  BY HistoryStep, FallbackStep
<1>1. CASE v # w
  <2>1. res'[v] = res[v]
    BY <1>1, ResultFrame
  <2>2. QED
    BY <1>a, <1>1, <2>1, Frame DEF NotFoundMeansAbsentAtRest
<1> SUFFICES ASSUME v = w PROVE FALSE
  BY <1>1
<1>2. Select(w)
  BY SelectEntered
<1> DEFINE o == Reconcile(call[w], tagB[w], refB[w])
           t == tagB[w]
           r == refB[w]
<1>3. /\ pc[w] = "discover" /\ call'[w] = call[w] /\ call[w] \in Calls
      /\ r.at \in {"off", "done"}
      /\ o.status = "notFound"
  BY <1>2, SelectIs DEF TypeOK
<1>4. t \in Branches /\ r \in Branches /\ m \in lasting[w]
  BY <1>a, <1>3 DEF TypeOK
<1>5. r.at = "done"
  BY <1>3 DEF Looking, CallLooks
<1>6. r.err # "notFound" /\ (r.err = "none" => m \in r.cands)
  BY <1>a, <1>3, <1>4, <1>5 DEF ReferrersKnown, KnowsReferrers
<1> HIDE DEF t, r
<1>7. CASE call[w].mode = "referrer"
  BY <1>3, <1>4, <1>6, <1>7, SingleIs DEF Reconcile, t, r
<1>8. CASE call[w].mode # "referrer"
  <2>1. o = AutoDiscovery(t, r, call[w].strict) /\ call[w].strict \in BOOLEAN
    BY <1>3, <1>8 DEF Reconcile, Calls, t, r
  <2>2. QED
    BY <1>3, <1>4, <1>6, <2>1, NothingFound
<1>9. QED
  BY <1>7, <1>8

LEMMA LeavesOneStep ==
  ASSUME TypeOK, TypeOK', InPlace, ReferrersKnown, RestPlanned, PruneLeavesOne,
         NEW w \in Workers, Act(w), Watch
  PROVE  PruneLeavesOne'
<1> SUFFICES ASSUME NEW v \in Workers, pc'[v] = "return", res'[v] = "ok",
                    call'[v].op = "prune", call'[v].force,
                    NEW s \in Slots, call'[v].slots = {s},
                    NEW m \in lasting'[v], NEW n \in lasting'[v], SlotOf[m] = s, SlotOf[n] = s
             PROVE  m = n
  BY DEF PruneLeavesOne
<1>a. /\ lasting'[v] \subseteq Listed'
      /\ pc[v] # "idle" => lasting'[v] \subseteq lasting[v]
  BY HistoryStep
<1>b. native' = native
  BY FallbackStep
<1>1. CASE v # w
  <2>1. res'[v] = res[v]
    BY <1>1, ResultFrame
  <2>2. QED
    BY <1>a, <1>1, <2>1, Frame DEF PruneLeavesOne
<1> SUFFICES ASSUME v = w PROVE m = n
  BY <1>1
<1>2. /\ pc[w] # "idle" /\ call'[w] = call[w]
      /\ PlanPrune(w) \/ Delete(w) \/ Erase(w)
  BY PruneEnds
<1>3. m \in lasting[w] /\ n \in lasting[w]
  BY <1>a, <1>2
<1>4. CASE PlanPrune(w)
  BY <1>2, <1>3, <1>4, PlanLeavesOne
<1>5. CASE Delete(w) \/ Erase(w)
  <2>1. Erased(w) /\ target[w] \notin lasting'[w]
    BY <1>a, <1>b, <1>2, <1>5, DeletedIsGone DEF Listed
  <2>2. plan[w] = {}
    BY <2>1, ErasedIs
  <2>3. pc[w] \in {"delete", "erase"}
    BY <1>5 DEF Delete, Erase
  <2>4. PlansTheRest(w) /\ m \notin plan[w] \cup {target[w]} /\ n \notin plan[w] \cup {target[w]}
    BY <2>1, <2>2 DEF RestPlanned
  <2>5. QED
    BY <1>2, <1>3, <2>3, <2>4 DEF PlansTheRest
<1>6. QED
  BY <1>2, <1>4, <1>5

LEMMA SelectionStart == Init => SelectionInv
BY DEF Init, SelectionInv, Looking, CallLooks, ReferrersKnown, KnowsReferrers, RestPlanned,
       PlansTheRest, IndexSteps, SteadyPrimaryWins, Selected, NotFoundMeansAbsentAtRest,
       PruneLeavesOne

LEMMA SelectionStep == RegistryInv /\ RegistryInv' /\ SelectionInv /\ [Next]_vars => SelectionInv'
<1> SUFFICES ASSUME RegistryInv, RegistryInv', SelectionInv, [Next]_vars PROVE SelectionInv'
  OBVIOUS
<1>1. /\ TypeOK /\ TypeOK' /\ InPlace /\ InPlace' /\ PrimaryKnown
      /\ Looking /\ ReferrersKnown /\ RestPlanned
      /\ SteadyPrimaryWins /\ NotFoundMeansAbsentAtRest /\ PruneLeavesOne
  BY DEF RegistryInv, SelectionInv
<1>2. CASE Next
  <2>1. PICK w \in Workers : Act(w)
    BY <1>2 DEF Next
  <2>2. Watch
    BY <1>2 DEF Next
  <2>3. Looking' /\ ReferrersKnown' /\ RestPlanned'
    BY <1>1, <2>1, <2>2, LookingStep, ReferrersKnownStep, RestPlannedStep
  <2>4. SteadyPrimaryWins' /\ NotFoundMeansAbsentAtRest' /\ PruneLeavesOne'
    BY <1>1, <2>1, <2>2, PrimaryWinsStep, NotFoundStep, LeavesOneStep
  <2>5. QED
    BY <2>3, <2>4 DEF SelectionInv
<1>3. CASE UNCHANGED vars
  BY <1>3 DEF vars, repository, branches, ghosts, SelectionInv, Looking, CallLooks, ReferrersKnown,
              KnowsReferrers, RestPlanned, PlansTheRest, SteadyPrimaryWins, Selected,
              NotFoundMeansAbsentAtRest, PruneLeavesOne
<1>4. QED
  BY <1>2, <1>3

\* What a discovery or a prune has read stays true of the repository as far as
\* its answer needs it: what was listed all along was found, or is planned.
THEOREM SelectionInvariant == Spec => []SelectionInv
BY SelectionStart, SelectionStep, RegistryInvariant, PTL DEF Spec

\* A documentation tag that does not move, and points to a wanted attachment
\* that is listed all along, is what a discovery selects and Detach removes.
THEOREM PrimaryWins == Spec => []SteadyPrimaryWins
<1>1. SelectionInv => SteadyPrimaryWins
  BY DEF SelectionInv
<1>2. QED
  BY <1>1, SelectionInvariant, PTL

\* A discovery that looks at the referrers of a native registry in which
\* nothing is being deleted says "not found" only of what was not there.
THEOREM NotFoundIsTrue == Spec => []NotFoundMeansAbsentAtRest
<1>1. SelectionInv => NotFoundMeansAbsentAtRest
  BY DEF SelectionInv
<1>2. QED
  BY <1>1, SelectionInvariant, PTL

\* A prune of one slot that succeeds leaves at most one of the attachments of
\* the slot that were listed all along, whatever other calls do meanwhile.
THEOREM PruneLeavesAtMostOne == Spec => []PruneLeavesOne
<1>1. SelectionInv => PruneLeavesOne
  BY DEF SelectionInv
<1>2. QED
  BY <1>1, SelectionInvariant, PTL
==============================================================================
