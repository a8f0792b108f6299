-------------------------- MODULE StoreCatalogProofs --------------------------
(***************************************************************************)
(* What commits, removals and repairs do to store.json and to index.json,  *)
(* for any number of documents, handles and calls.  A call rewrites the    *)
(* catalog from the records it loaded under the same lock (ViewFresh).     *)
(***************************************************************************)
EXTENDS StoreProofs

\* What a step needs to know to leave the other calls' parts alone.
LEMMA HolderKnown ==
  StoreInv =>
    /\ \A v, w \in Workers : pc[v] \in FnSteps /\ stage[w] = "held" => v = w
    /\ flock = NoHandle => \A w \in Workers : pc[w] \notin FnSteps /\ stage[w] # "held"
    /\ \A w \in Workers : pc[w] \in FnSteps => stage[w] = "held"
    /\ \A w \in Workers : stage[w] \in {"waitMu", "waitFlock"} => pc[w] = "enter"
BY SoleHolder, LockAssumption DEF StoreInv, StepsInPlace, LockInv, Inside

\* What a call about to write index.json writes there.
LEMMA WhatIsSaved ==
  ASSUME StoreInv, NEW w \in Workers
  PROVE  /\ pc[w] = "saveTag" => mem[HandleOf[w]] = index \cup {Doc(w)}
         /\ pc[w] = "saveUntag" => mem[HandleOf[w]] = index \ {Doc(w)}
BY DEF StoreInv, MemoryFresh, FnSteps

LEMMA ViewStart == Init => ViewFresh
<1>1. Init => pc = [w \in Workers |-> "idle"]
  BY DEF Init
<1>2. ASSUME Init, NEW w \in Workers
      PROVE  /\ pc[w] \notin {"save", "untag", "saveUntag", "unlink", "forget"}
             /\ pc[w] # "check" /\ pc[w] # "forget"
  <2>1. pc[w] = "idle"
    BY <1>1, <1>2
  <2>2. QED
    BY <2>1
<1>3. QED
  BY <1>2, Zenon DEF ViewFresh

LEMMA ViewStep == StoreInv /\ ViewFresh /\ [Next]_vars => ViewFresh'
<1> SUFFICES ASSUME StoreInv, ViewFresh, [Next]_vars
             PROVE  ViewFresh'
  OBVIOUS
<1> USE LockAssumption, StoreAssumption, HolderKnown, RecordsTyped
<1> USE DEF ViewFresh, Loadable, disk, locals, ghosts, Begin, Forgotten, At, Goto, Return, Fault,
            FnSteps, Doc
<1>0. TypeOK /\ StepsInPlace
  BY DEF StoreInv
<1> USE DEF TypeOK
<1>1. ASSUME NEW w \in Workers, Lock(w) PROVE ViewFresh'
  BY <1>0, <1>1 DEF Lock, CallLocked, TakeMu, TakeFlock, GiveUp, DropFlock, DropMu
<1>2. ASSUME NEW w \in Workers, Documents(w) \/ OpenDocument(w) \/ EndRead(w) PROVE ViewFresh'
  BY <1>0, <1>2 DEF Documents, CallDocuments, ListIndex, Blur, ListCatalog, OpenDocument, CallRead,
                    OpenRoot, OpenManifest, ReadBlob, ReadDone, EndRead, Reading
<1>3. ASSUME NEW w \in Workers, Refresh(w) PROVE ViewFresh'
  BY <1>0, <1>3 DEF Refresh, FirstStep, StepsInPlace
<1>4. ASSUME NEW w \in Workers, PushConfig(w) \/ PushLayer(w) \/ PushManifest(w) \/ Tag(w)
                                \/ SaveTag(w)
      PROVE  ViewFresh'
  BY <1>0, <1>4 DEF PushConfig, PushLayer, PushManifest, Tag, SaveTag
<1>5. ASSUME NEW w \in Workers, LoadRecords(w) PROVE ViewFresh'
  BY <1>0, <1>5 DEF LoadRecords
<1>6. ASSUME NEW w \in Workers, SaveRecord(w) PROVE ViewFresh'
  BY <1>0, <1>6 DEF SaveRecord, Saved
<1>7. ASSUME NEW w \in Workers, Lookup(w) PROVE ViewFresh'
  BY <1>0, <1>7 DEF Lookup
<1>8. ASSUME NEW w \in Workers, Untag(w) \/ SaveUntag(w) PROVE ViewFresh'
  BY <1>0, <1>8 DEF Untag, SaveUntag
<1>9. ASSUME NEW w \in Workers, Unlink(w) PROVE ViewFresh'
  BY <1>0, <1>9 DEF Unlink, StoreInv, UntaggedFirst
<1>10. ASSUME NEW w \in Workers, DropRecord(w) PROVE ViewFresh'
  BY <1>0, <1>10 DEF DropRecord, Saved
<1>11. ASSUME NEW w \in Workers, Prune(w) PROVE ViewFresh'
  BY <1>0, <1>11 DEF Prune, Mark, Sweep, SweepDone
<1>12. ASSUME NEW w \in Workers, Scan(w) PROVE ViewFresh'
  BY <1>0, <1>12 DEF Scan
<1>13. ASSUME NEW w \in Workers, CheckRoot(w) PROVE ViewFresh'
  BY <1>0, <1>13 DEF CheckRoot
<1>14. ASSUME NEW w \in Workers, Conclude(w) PROVE ViewFresh'
  BY <1>0, <1>14 DEF Conclude, Saved
<1>15. ASSUME NEW w \in Workers, Interrupt(w) \/ MissRoots(w) PROVE ViewFresh'
  BY <1>0, <1>15 DEF Interrupt, MissRoots
<1>16. ASSUME NEW h \in Handles, Open(h) \/ OpenFails(h) \/ Crash(h) PROVE ViewFresh'
  BY <1>0, <1>16 DEF Open, OpenFails, vars, Crash
<1>17. ASSUME NEW b \in Leaves, Rot(b) PROVE ViewFresh'
  BY <1>0, <1>17 DEF Rot
<1>18. ASSUME NEW kind \in {"missing", "malformed", "future"}, Spoil(kind) PROVE ViewFresh'
  BY <1>0, <1>18 DEF Spoil
<1>19. CASE UNCHANGED vars
  BY <1>19 DEF vars
<1>20. QED
  BY <1>1, <1>2, <1>3, <1>4, <1>5, <1>6, <1>7, <1>8, <1>9, <1>10, <1>11, <1>12, <1>13, <1>14,
     <1>15, <1>16, <1>17, <1>18, <1>19 DEF Next, Commit, Remove, Verify

LEMMA ViewInvariant == Spec => [](StoreInv /\ ViewFresh)
<1>1. QED
  BY StoreInvariant, ViewStart, ViewStep, PTL DEF Spec

\* Which steps write store.json.
LEMMA CatalogWriters ==
  ASSUME StoreInv, [Next]_vars, catalog' # catalog
  PROVE  \/ \E w \in Workers : SaveRecord(w) \/ DropRecord(w) \/ Conclude(w)
         \/ \E kind \in {"missing", "malformed", "future"} : Spoil(kind)
<1> USE DEF disk, locals, ghosts
<1>1. ASSUME NEW w \in Workers,
             Lock(w) \/ Documents(w) \/ OpenDocument(w) \/ EndRead(w) \/ Refresh(w) \/ Prune(w)
             \/ Interrupt(w) \/ MissRoots(w)
      PROVE  FALSE
  BY <1>1 DEF Lock, CallLocked, TakeMu, TakeFlock, GiveUp, DropFlock, DropMu, Begin,
              Documents, CallDocuments, ListIndex, Blur, ListCatalog, OpenDocument, CallRead, OpenRoot,
              OpenManifest, ReadBlob, ReadDone, EndRead, Refresh, Prune, Mark, Sweep, SweepDone,
              Interrupt, MissRoots
<1>2. ASSUME NEW w \in Workers, Commit(w), ~SaveRecord(w) PROVE FALSE
  BY <1>2 DEF Commit, PushConfig, PushLayer, PushManifest, Tag, SaveTag, LoadRecords
<1>3. ASSUME NEW w \in Workers, Remove(w), ~DropRecord(w) PROVE FALSE
  BY <1>3 DEF Remove, Lookup, Untag, SaveUntag, Unlink
<1>4. ASSUME NEW w \in Workers, Verify(w), ~Conclude(w) PROVE FALSE
  BY <1>4 DEF Verify, Scan, CheckRoot
<1>5. ASSUME (\E h \in Handles : Open(h) \/ OpenFails(h) \/ Crash(h)) \/ (\E b \in Leaves : Rot(b))
      PROVE  FALSE
  BY <1>5 DEF Open, OpenFails, vars, Crash, Rot
<1>6. CASE UNCHANGED vars
  BY <1>6 DEF vars
<1>7. QED
  BY <1>1, <1>2, <1>3, <1>4, <1>5, <1>6 DEF Next

\* No call rewrites a catalog it cannot read, except that a repair replaces a
\* malformed one.
THEOREM UnreadableIsKept == Spec => UnreadableCatalogKept
<1> DEFINE A == catalog' # catalog =>
                  /\ catalog.kind # "future"
                  /\ catalog.kind = "malformed" =>
                       \E w \in Workers : At(w, "check") /\ call[w].op = "verify" /\ call[w].write
<1>1. StoreInv /\ ViewFresh /\ [Next]_vars => A
  <2> SUFFICES ASSUME StoreInv, ViewFresh, [Next]_vars, catalog' # catalog PROVE A
    OBVIOUS
  <2>1. ASSUME NEW w \in Workers, SaveRecord(w) PROVE A
    BY <2>1 DEF SaveRecord, At, ViewFresh, Loadable
  <2>2. ASSUME NEW w \in Workers, DropRecord(w) PROVE A
    BY <2>2 DEF DropRecord, At, ViewFresh, Loadable
  <2>3. ASSUME NEW w \in Workers, Conclude(w) PROVE A
    BY <2>3 DEF Conclude, At, ViewFresh, Loadable, StoreInv, StepsInPlace, VerifySteps
  <2>4. ASSUME NEW kind \in {"missing", "malformed", "future"}, Spoil(kind) PROVE A
    BY <2>4 DEF Spoil, Loadable
  <2>5. QED
    BY <2>1, <2>2, <2>3, <2>4, CatalogWriters
<1>2. QED
  BY ViewInvariant, <1>1, PTL DEF Spec, UnreadableCatalogKept

------------------------------------------------------------------------------
(***************************************************************************)
(* Where no call is cut short.                                             *)
(***************************************************************************)
CommitInv == ManifestsIndexed /\ CommittedIsListed

LEMMA CommitStep ==
  ASSUME FaultKinds \cap {"crash", "interrupt"} = {},
         StoreInv, CommitInv, [Next]_vars
  PROVE  CommitInv'
<1> USE LockAssumption, StoreAssumption, HolderKnown
<1> USE DEF CommitInv, ManifestsIndexed, CommittedIsListed, disk, locals, ghosts, Begin, Forgotten,
            At, Goto, Return, Fault, FnSteps, Doc
<1>0. TypeOK /\ StepsInPlace /\ MemoryFresh
  BY DEF StoreInv
<1> USE DEF TypeOK
<1>1. ASSUME NEW w \in Workers, Lock(w) PROVE CommitInv'
  <2>1. CASE CallLocked(w)
    BY <1>0, <2>1 DEF CallLocked
  <2>2. CASE TakeMu(w) \/ TakeFlock(w)
    BY <1>0, <2>2 DEF TakeMu, TakeFlock
  <2>3. CASE GiveUp(w)
    <3>1. pc[w] = "enter"
      BY <2>3 DEF GiveUp, AbandonMu, AbandonFlock
    <3>2. QED
      BY <1>0, <2>3, <3>1 DEF GiveUp
  <2>4. CASE DropFlock(w)
    BY <1>0, <2>4 DEF DropFlock
  <2>5. CASE DropMu(w)
    <3>1. pc[w] \notin FnSteps
      BY <2>5 DEF DropMu, UnlockMu
    <3>2. QED
      BY <1>0, <2>5, <3>1 DEF DropMu
  <2>6. QED
    BY <1>1, <2>1, <2>2, <2>3, <2>4, <2>5 DEF Lock
<1>2. ASSUME NEW w \in Workers, Documents(w) \/ OpenDocument(w) \/ EndRead(w) PROVE CommitInv'
  <2>1. CASE Documents(w)
    BY <1>0, <2>1 DEF Documents, CallDocuments, ListIndex, Blur, ListCatalog, Reading
  <2>2. CASE CallRead(w) \/ OpenRoot(w)
    BY <1>0, <2>2 DEF CallRead, OpenRoot, Blur, Reading
  <2>3. CASE OpenManifest(w)
    BY <1>0, <2>3 DEF OpenManifest, Reading
  <2>4. CASE ReadBlob(w) \/ ReadDone(w)
    BY <1>0, <2>4 DEF ReadBlob, ReadDone, Reading
  <2>5. CASE EndRead(w)
    BY <1>0, <2>5 DEF EndRead
  <2>6. QED
    BY <1>2, <2>1, <2>2, <2>3, <2>4, <2>5 DEF OpenDocument
<1>3. ASSUME NEW w \in Workers, Refresh(w) PROVE CommitInv'
  BY <1>0, <1>3 DEF Refresh, FirstStep, StepsInPlace
<1>4. ASSUME NEW w \in Workers, PushConfig(w) \/ PushLayer(w) PROVE CommitInv'
  <2>1. blobs' \cap Docs = blobs \cap Docs
    BY <1>0, <1>4 DEF PushConfig, PushLayer, StoreInv, GraphPushed, Calls
  <2>2. QED
    BY <1>0, <1>4, <2>1 DEF PushConfig, PushLayer
<1>5. ASSUME NEW w \in Workers, PushManifest(w) PROVE CommitInv'
  <2>1. CASE Doc(w) \in blobs
    <3>1. Doc(w) \in index
      BY <1>0, <1>5, <2>1 DEF PushManifest, Calls
    <3>2. QED
      BY <1>0, <1>5, <2>1, <3>1 DEF PushManifest
  <2>2. CASE Doc(w) \notin blobs
    BY <1>0, <1>5, <2>2 DEF PushManifest
  <2>3. QED
    BY <2>1, <2>2
<1>6. ASSUME NEW w \in Workers, Tag(w) \/ SaveTag(w) PROVE CommitInv'
  <2>1. CASE Tag(w)
    BY <1>0, <2>1 DEF Tag
  <2>2. CASE SaveTag(w)
    BY <1>0, <2>2, WhatIsSaved DEF SaveTag
  <2>3. QED
    BY <1>6, <2>1, <2>2
<1>7. ASSUME NEW w \in Workers, LoadRecords(w) \/ SaveRecord(w) PROVE CommitInv'
  BY <1>0, <1>7 DEF LoadRecords, SaveRecord
<1>8. ASSUME NEW w \in Workers, Lookup(w) PROVE CommitInv'
  BY <1>0, <1>8 DEF Lookup
<1>9. ASSUME NEW w \in Workers, Untag(w) \/ SaveUntag(w) PROVE CommitInv'
  <2>1. CASE Untag(w)
    BY <1>0, <2>1 DEF Untag
  <2>2. CASE SaveUntag(w)
    BY <1>0, <2>2, WhatIsSaved DEF SaveUntag
  <2>3. QED
    BY <1>9, <2>1, <2>2
<1>10. ASSUME NEW w \in Workers, Unlink(w) PROVE CommitInv'
  BY <1>0, <1>10 DEF Unlink
<1>11. ASSUME NEW w \in Workers, DropRecord(w) PROVE CommitInv'
  BY <1>0, <1>11 DEF DropRecord
<1>12. ASSUME NEW w \in Workers, Prune(w) PROVE CommitInv'
  BY <1>0, <1>12 DEF Prune, Mark, Sweep, SweepDone
<1>13. ASSUME NEW w \in Workers, Verify(w) PROVE CommitInv'
  BY <1>0, <1>13 DEF Verify, Scan, CheckRoot, Conclude
<1>14. ASSUME NEW w \in Workers, Interrupt(w) \/ MissRoots(w) PROVE CommitInv'
  BY <1>14 DEF Interrupt, MissRoots
<1>15. ASSUME NEW h \in Handles, Open(h) \/ OpenFails(h) \/ Crash(h) PROVE CommitInv'
  BY <1>0, <1>15 DEF Open, OpenFails, vars, Crash
<1>16. ASSUME NEW b \in Leaves, Rot(b) PROVE CommitInv'
  BY <1>0, <1>16 DEF Rot
<1>17. ASSUME NEW kind \in {"missing", "malformed", "future"}, Spoil(kind) PROVE CommitInv'
  BY <1>0, <1>17 DEF Spoil
<1>18. CASE UNCHANGED vars
  BY <1>18 DEF vars
<1>19. QED
  BY <1>1, <1>2, <1>3, <1>4, <1>5, <1>6, <1>7, <1>8, <1>9, <1>10, <1>11, <1>12, <1>13, <1>14,
     <1>15, <1>16, <1>17, <1>18 DEF Next, Commit, Remove

\* A commit that returned success is in the index until somebody removes it,
\* provided no call dies or fails half-way: a commit that skips the push of its
\* manifest relies on a file that only then is sure to be indexed.
THEOREM CommitsAreListed ==
  ASSUME FaultKinds \cap {"crash", "interrupt"} = {}
  PROVE  Spec => []CommittedIsListed
<1>1. Init => CommitInv
  BY DEF Init, CommitInv, ManifestsIndexed, CommittedIsListed
<1>2. StoreInv /\ CommitInv /\ [Next]_vars => CommitInv'
  BY CommitStep
<1>3. CommitInv => CommittedIsListed
  BY DEF CommitInv
<1>4. QED
  BY StoreInvariant, <1>1, <1>2, <1>3, PTL DEF Spec

\* IntactFound needs that no call is interrupted, VerifiedAgrees follows from it.
VerifyInv == IntactFound /\ VerifiedAgrees

LEMMA VerifyStep ==
  ASSUME "interrupt" \notin FaultKinds,
         StoreInv, ViewFresh, VerifyInv, [Next]_vars
  PROVE  VerifyInv'
<1> USE LockAssumption, StoreAssumption, HolderKnown
<1> USE DEF VerifyInv, IntactFound, VerifiedAgrees, disk, locals, ghosts, Begin, Forgotten,
            At, Goto, Return, Fault, FnSteps, Intact, Loadable
<1>0. TypeOK /\ StepsInPlace
  BY DEF StoreInv
<1> USE DEF TypeOK
<1>1. ASSUME NEW w \in Workers, Lock(w) PROVE VerifyInv'
  <2>1. CASE CallLocked(w)
    BY <1>0, <2>1 DEF CallLocked, Request
  <2>2. CASE TakeMu(w) \/ TakeFlock(w)
    <3>1. pc[w] = "enter"
      BY <2>2 DEF TakeMu, TakeFlock, AcquireMu, AcquireFlock
    <3>2. \A v \in Workers \ {w} : stage'[v] = stage[v]
      BY <1>0, <2>2 DEF TakeMu, TakeFlock, AcquireMu, AcquireFlock, LockTypeOK
    <3>3. QED
      BY <1>0, <2>2, <3>1, <3>2 DEF TakeMu, TakeFlock
  <2>3. CASE GiveUp(w)
    <3>1. \A v \in Workers \ {w} : stage'[v] = stage[v]
      BY <1>0, <2>3 DEF GiveUp, AbandonMu, AbandonFlock, LockTypeOK
    <3>2. pc'[w] = "idle" /\ UNCHANGED disk
      BY <1>0, <2>3 DEF GiveUp
    <3>3. \A v \in Workers \ {w} :
            /\ pc'[v] = pc[v] /\ call'[v] = call[v] /\ res'[v] = res[v]
            /\ todo'[v] = todo[v] /\ found'[v] = found[v]
      BY <1>0, <2>3 DEF GiveUp
    <3>4. IntactFound'
      BY <3>2, <3>3
    <3>5. VerifiedAgrees'
      BY <3>1, <3>2, <3>3
    <3>6. QED
      BY <3>4, <3>5
  <2>4. CASE DropFlock(w)
    BY <1>0, <2>4 DEF DropFlock, UnlockFlock
  <2>5. CASE DropMu(w)
    BY <1>0, <2>5 DEF DropMu, UnlockMu
  <2>6. QED
    BY <1>1, <2>1, <2>2, <2>3, <2>4, <2>5 DEF Lock
<1>2. ASSUME NEW w \in Workers, Documents(w) \/ OpenDocument(w) \/ EndRead(w) PROVE VerifyInv'
  <2>1. pc[w] \notin FnSteps /\ pc'[w] # "check"
    BY <1>0, <1>2 DEF Documents, CallDocuments, ListIndex, Blur, ListCatalog, OpenDocument, CallRead,
                      OpenRoot, OpenManifest, ReadBlob, ReadDone, EndRead, Reading
  <2>2. \A v \in Workers : At(v, "return")' /\ call'[v].op = "verify" => v # w
    BY <1>0, <1>2 DEF Documents, CallDocuments, ListIndex, Blur, ListCatalog, OpenDocument, CallRead,
                      OpenRoot, OpenManifest, ReadBlob, ReadDone, EndRead, Reading,
                      StepsInPlace, ReadSteps, Calls, lockVars
  <2>3. UNCHANGED <<lockVars, disk>> /\ \A v \in Workers \ {w} :
          /\ pc'[v] = pc[v] /\ call'[v] = call[v] /\ res'[v] = res[v]
          /\ todo'[v] = todo[v] /\ found'[v] = found[v]
    BY <1>0, <1>2 DEF Documents, CallDocuments, ListIndex, Blur, ListCatalog, OpenDocument, CallRead,
                      OpenRoot, OpenManifest, ReadBlob, ReadDone, EndRead, Reading
  <2>4. QED
    BY <1>0, <2>1, <2>2, <2>3 DEF lockVars
<1>3. ASSUME NEW w \in Workers, Refresh(w) PROVE VerifyInv'
  BY <1>0, <1>3 DEF Refresh, FirstStep, StepsInPlace, lockVars
<1>4. ASSUME NEW w \in Workers, Commit(w) PROVE VerifyInv'
  <2>1. \A v \in Workers : v # w => stage[v] # "held"
    BY <1>0, <1>4 DEF Commit, PushConfig, PushLayer, PushManifest, Tag, SaveTag, LoadRecords, SaveRecord
  <2>2. call'[w].op = "commit" /\ pc'[w] # "check" /\ UNCHANGED <<stage, call>>
    BY <1>0, <1>4 DEF Commit, PushConfig, PushLayer, PushManifest, Tag, SaveTag, LoadRecords, SaveRecord,
                      StepsInPlace, CommitSteps, lockVars
  <2>3. \A v \in Workers \ {w} : pc'[v] = pc[v]
    BY <1>0, <1>4 DEF Commit, PushConfig, PushLayer, PushManifest, Tag, SaveTag, LoadRecords, SaveRecord
  <2>4. QED
    BY <1>0, <2>1, <2>2, <2>3
<1>5. ASSUME NEW w \in Workers, Remove(w) PROVE VerifyInv'
  <2>1. \A v \in Workers : v # w => stage[v] # "held"
    BY <1>0, <1>5 DEF Remove, Lookup, Untag, SaveUntag, Unlink, DropRecord
  <2>2. call'[w].op = "remove" /\ pc'[w] # "check" /\ UNCHANGED <<stage, call>>
    BY <1>0, <1>5 DEF Remove, Lookup, Untag, SaveUntag, Unlink, DropRecord, StepsInPlace, RemoveSteps, lockVars
  <2>3. \A v \in Workers \ {w} : pc'[v] = pc[v]
    BY <1>0, <1>5 DEF Remove, Lookup, Untag, SaveUntag, Unlink, DropRecord
  <2>4. QED
    BY <1>0, <2>1, <2>2, <2>3
<1>6. ASSUME NEW w \in Workers, Prune(w) PROVE VerifyInv'
  <2>1. \A v \in Workers : v # w => stage[v] # "held"
    BY <1>0, <1>6 DEF Prune, Mark, Sweep, SweepDone
  <2>2. call'[w].op = "prune" /\ pc'[w] # "check" /\ UNCHANGED <<stage, call>>
    BY <1>0, <1>6 DEF Prune, Mark, Sweep, SweepDone, StepsInPlace, PruneSteps, lockVars
  <2>3. \A v \in Workers \ {w} : pc'[v] = pc[v]
    BY <1>0, <1>6 DEF Prune, Mark, Sweep, SweepDone
  <2>4. QED
    BY <1>0, <2>1, <2>2, <2>3
<1>7. ASSUME NEW w \in Workers, Scan(w) PROVE VerifyInv'
  <2>1. CASE Loadable \/ (call[w].write /\ catalog.kind = "malformed")
    BY <1>0, <1>7, <2>1 DEF Scan, lockVars
  <2>2. CASE ~(Loadable \/ (call[w].write /\ catalog.kind = "malformed"))
    BY <1>0, <1>7, <2>2 DEF Scan, lockVars
  <2>3. QED
    BY <2>1, <2>2
<1>8. ASSUME NEW w \in Workers, CheckRoot(w) PROVE VerifyInv'
  <2>1. \A d \in Docs : Intact(d) => Verified(w, d)
    BY DEF Verified, Graph
  <2>2. QED
    BY <1>0, <1>8, <2>1 DEF CheckRoot, lockVars
<1>9. ASSUME NEW w \in Workers, Conclude(w) PROVE VerifyInv'
  <2>1. /\ found[w] \subseteq index
        /\ \A d \in index : Intact(d) => d \in found[w]
        /\ ~call[w].write => Loadable /\ view[w] = catalog.recs
    BY <1>0, <1>9 DEF Conclude, StoreInv, RootsOnly, ViewFresh
  <2>2. catalog' = IF call[w].write THEN catalog' ELSE catalog
    BY <1>9 DEF Conclude
  <2>3. call[w].write => catalog'.kind = "current" /\ catalog'.recs.docs = found[w]
    BY <1>9 DEF Conclude, Saved
  <2>4. \A v \in Workers : v # w => stage[v] # "held"
    BY <1>0, <1>9 DEF Conclude
  <2>5. /\ UNCHANGED <<stage, call, index, blobs, rotten>>
        /\ pc' = [pc EXCEPT ![w] = "return"]
        /\ res'[w] = "ok" => found[w] = index /\ (call[w].write \/ view[w].docs = found[w])
    BY <1>0, <1>9 DEF Conclude, lockVars
  <2>6. res'[w] = "ok" \/ call[w].write =>
          /\ Loadable'
          /\ catalog'.recs.docs \subseteq index'
          /\ \A d \in index' : Intact(d)' => d \in catalog'.recs.docs
    <3>1. CASE call[w].write
      BY <2>1, <2>3, <2>5, <3>1
    <3>2. CASE ~call[w].write
      <4>1. catalog' = catalog /\ view[w].docs = catalog.recs.docs /\ Loadable
        BY <2>1, <2>2, <3>2
      <4>2. res'[w] = "ok" => catalog'.recs.docs = found[w]
        BY <2>5, <3>2, <4>1
      <4>3. QED
        BY <2>1, <2>5, <3>2, <4>1, <4>2
    <3>3. QED
      BY <3>1, <3>2
  <2>7. QED
    BY <1>0, <2>4, <2>5, <2>6
<1>10. ASSUME NEW w \in Workers, Interrupt(w) \/ MissRoots(w) PROVE VerifyInv'
  BY <1>10 DEF Interrupt, MissRoots
<1>11. ASSUME NEW h \in Handles, Open(h) \/ OpenFails(h) PROVE VerifyInv'
  BY <1>0, <1>11 DEF Open, OpenFails, vars, lockVars
<1>12. ASSUME NEW h \in Handles, Crash(h) PROVE VerifyInv'
  BY <1>0, <1>12 DEF Crash, Die
<1>13. ASSUME NEW b \in Leaves, Rot(b) PROVE VerifyInv'
  BY <1>0, <1>13 DEF Rot, lockVars
<1>14. ASSUME NEW kind \in {"missing", "malformed", "future"}, Spoil(kind) PROVE VerifyInv'
  BY <1>0, <1>14 DEF Spoil, lockVars
<1>15. CASE UNCHANGED vars
  BY <1>15 DEF vars, lockVars
<1>16. QED
  BY <1>1, <1>2, <1>3, <1>4, <1>5, <1>6, <1>7, <1>8, <1>9, <1>10, <1>11, <1>12, <1>13, <1>14,
     <1>15 DEF Next, Verify

\* A repair, and a verification without issues, leave a catalog that agrees
\* with the index, provided no read is cut short; deaths and damage are allowed.
THEOREM VerifyAlwaysAgrees ==
  ASSUME "interrupt" \notin FaultKinds
  PROVE  Spec => []VerifiedAgrees
<1>1. Init => VerifyInv
  BY DEF Init, VerifyInv, IntactFound, VerifiedAgrees, At
<1>2. StoreInv /\ ViewFresh /\ VerifyInv /\ [Next]_vars => VerifyInv'
  BY VerifyStep
<1>3. VerifyInv => VerifiedAgrees
  BY DEF VerifyInv
<1>4. QED
  BY ViewInvariant, <1>1, <1>2, <1>3, PTL DEF Spec

\* No step loses an origin of an intact document that stays indexed, provided no
\* read is cut short.
THEOREM OriginsAreKept ==
  ASSUME "interrupt" \notin FaultKinds
  PROVE  Spec => OriginsKept
<1> DEFINE Kept == \A d \in index \cap index' :
                     Intact(d) /\ catalog.kind = "current" /\ catalog'.kind = "current"
                       => catalog.recs.origins[d] \subseteq catalog'.recs.origins[d]
<1>1. StoreInv /\ ViewFresh /\ VerifyInv /\ [Next]_vars => Kept
  <2> SUFFICES ASSUME StoreInv, ViewFresh, VerifyInv, [Next]_vars, catalog' # catalog PROVE Kept
    OBVIOUS
  <2>0. TypeOK
    BY DEF StoreInv
  <2> USE DEF At, ViewFresh, TypeOK, Saved, Doc, Return
  <2>1. ASSUME NEW w \in Workers, SaveRecord(w) PROVE Kept
    <3>1. view[w] = catalog.recs /\ view[w] \in Records
      BY <2>0, <2>1 DEF SaveRecord
    <3>2. QED
      BY <2>0, <2>1, <3>1 DEF SaveRecord, Records
  <2>2. ASSUME NEW w \in Workers, DropRecord(w) PROVE Kept
    <3>1. view[w] = catalog.recs /\ view[w] \in Records /\ Doc(w) \notin index
      BY <2>0, <2>2 DEF DropRecord
    <3>2. QED
      BY <2>0, <2>2, <3>1 DEF DropRecord, Records
  <2>3. ASSUME NEW w \in Workers, Conclude(w) PROVE Kept
    <3>1. catalog.kind = "current" => view[w] = catalog.recs
      BY <2>3 DEF Conclude, Loadable
    <3>2. \A d \in index : Intact(d) => d \in found[w]
      BY <2>3 DEF Conclude, VerifyInv, IntactFound
    <3>3. QED
      BY <2>0, <2>3, <3>1, <3>2 DEF Conclude
  <2>4. ASSUME NEW kind \in {"missing", "malformed", "future"}, Spoil(kind) PROVE Kept
    BY <2>4 DEF Spoil
  <2>5. QED
    BY <2>1, <2>2, <2>3, <2>4, CatalogWriters
<1>2. Init => VerifyInv
  BY DEF Init, VerifyInv, IntactFound, VerifiedAgrees, At
<1>3. StoreInv /\ ViewFresh /\ VerifyInv /\ [Next]_vars => VerifyInv'
  BY VerifyStep
<1>4. QED
  BY ViewInvariant, <1>1, <1>2, <1>3, PTL DEF Spec, OriginsKept
==============================================================================
