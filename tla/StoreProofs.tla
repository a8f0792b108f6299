----------------------------- MODULE StoreProofs -----------------------------
(***************************************************************************)
(* The store's invariant for any number of documents, handles and calls,   *)
(* under every fault: what index.json names is on disk, what a prune       *)
(* leaves, and what callers without the lock see.  The argument: fn runs   *)
(* only under the lock (StoreLockProofs), so a step of one call disturbs   *)
(* no other call inside fn, and between them only blobs outside the graphs *)
(* of indexed documents go away.                                           *)
(***************************************************************************)
EXTENDS Store, StoreLockProofs

------------------------------------------------------------------------------
(***************************************************************************)
(* Types.                                                                  *)
(***************************************************************************)

LEMMA GraphTyped == \A d \in Docs : Graph(d) \subseteq Digests
BY StoreAssumption DEF Graph, Digests

LEMMA ReachableTyped == TypeOK => Reachable \subseteq Digests
BY GraphTyped DEF TypeOK, Reachable

LEMMA RecordsTyped ==
  /\ NoRecords \in Records
  /\ TypeOK => catalog.recs \in Records
  /\ \A docs \in SUBSET Docs, origins \in [Docs -> SUBSET Origins] :
       Saved([docs |-> docs, origins |-> origins]) \in Catalogs
<1>1. NoRecords \in Records
  BY DEF NoRecords, Records
<1>2. TypeOK => catalog.recs \in Records
  BY DEF TypeOK, Catalogs
<1>3. QED
  BY <1>1, <1>2 DEF Saved, Catalogs, Records

LEMMA TypeStart == Init => TypeOK
<1> SUFFICES ASSUME Init PROVE TypeOK
  OBVIOUS
<1>1. LockTypeOK
  BY LockStart DEF Init, LockInv
<1>2. catalog \in Catalogs
  BY RecordsTyped DEF Init, Catalogs
<1>3. /\ mem \in [Handles -> SUBSET Docs]
      /\ todo \in [Workers -> SUBSET Digests] /\ found \in [Workers -> SUBSET Digests]
      /\ view \in [Workers -> Records] /\ res \in [Workers -> Results]
      /\ stable \in [Workers -> SUBSET Docs]
  BY RecordsTyped DEF Init, Results
<1>4. faults \in 0..MaxFaults
  BY StoreAssumption DEF Init
<1>5. /\ pc \in [Workers -> {"idle", "enter", "return"} \cup FnSteps \cup ReadSteps]
      /\ call \in [Workers -> Calls \cup {NoCall}]
      /\ \A w \in Workers : pc[w] # "idle" => call[w] \in Calls
      /\ opened \subseteq Handles /\ blobs \subseteq Digests /\ rotten \subseteq blobs \cap Leaves
      /\ index \subseteq Docs /\ torn \in BOOLEAN /\ acked \subseteq Docs /\ blurred \subseteq Workers
  BY DEF Init
<1>6. QED
  BY <1>1, <1>2, <1>3, <1>4, <1>5 DEF TypeOK

LEMMA TypeStep == TypeOK /\ StepsInPlace /\ RootsOnly /\ LockTypeOK' /\ [Next]_vars => TypeOK'
<1> SUFFICES ASSUME TypeOK, StepsInPlace, RootsOnly, LockTypeOK', [Next]_vars
             PROVE  TypeOK'
  OBVIOUS
<1> USE LockAssumption, StoreAssumption
<1> USE DEF TypeOK, Digests, disk, locals, ghosts, Begin, Forgotten, At, Goto, Return, Fault, Reading
<1>1. ASSUME NEW h \in Handles, Open(h) PROVE TypeOK'
  <2>1. Glimpses \subseteq SUBSET Docs
    BY DEF Glimpses, Rewriters
  <2>2. QED
    BY <1>1, <2>1 DEF Open
<1>2. ASSUME NEW h \in Handles, Crash(h) PROVE TypeOK'
  BY <1>2, RecordsTyped DEF Crash, Results
<1>3. ASSUME NEW w \in Workers, CallLocked(w) PROVE TypeOK'
  BY <1>3 DEF CallLocked
<1>4. ASSUME NEW w \in Workers, CallDocuments(w) PROVE TypeOK'
  BY <1>4 DEF CallDocuments, ReadSteps
<1>5. ASSUME NEW w \in Workers, CallRead(w) PROVE TypeOK'
  BY <1>5 DEF CallRead, ReadSteps
<1>6. ASSUME NEW w \in Workers, TakeMu(w) PROVE TypeOK'
  BY <1>6 DEF TakeMu
<1>7. ASSUME NEW w \in Workers, TakeFlock(w) PROVE TypeOK'
  BY <1>7 DEF TakeFlock
<1>8. ASSUME NEW w \in Workers, GiveUp(w) PROVE TypeOK'
  BY <1>8, RecordsTyped DEF GiveUp, Results
<1>9. ASSUME NEW w \in Workers, DropFlock(w) PROVE TypeOK'
  BY <1>9 DEF DropFlock
<1>10. ASSUME NEW w \in Workers, DropMu(w) PROVE TypeOK'
  BY <1>10, RecordsTyped DEF DropMu, Results
<1>11. ASSUME NEW w \in Workers, EndRead(w) PROVE TypeOK'
  BY <1>11, RecordsTyped DEF EndRead, Results
<1>12. ASSUME NEW w \in Workers, Refresh(w) PROVE TypeOK'
  <2>1. CASE torn
    BY <1>12, <2>1 DEF Refresh, Results
  <2>2. CASE ~torn
    BY <1>12, <2>2 DEF Refresh, StepsInPlace, FirstStep, FnSteps
  <2>3. QED
    BY <2>1, <2>2
<1>13. ASSUME NEW w \in Workers, PushConfig(w) PROVE TypeOK'
  BY <1>13 DEF PushConfig, FnSteps, Doc, Calls
<1>14. ASSUME NEW w \in Workers, PushLayer(w) PROVE TypeOK'
  BY <1>14 DEF PushLayer, FnSteps
<1>15. ASSUME NEW w \in Workers, PushManifest(w) PROVE TypeOK'
  BY <1>15 DEF PushManifest, FnSteps, Doc, Calls
<1>16. ASSUME NEW w \in Workers, Tag(w) PROVE TypeOK'
  BY <1>16 DEF Tag, FnSteps, Doc, Calls
<1>17. ASSUME NEW w \in Workers, LoadRecords(w) PROVE TypeOK'
  <2>1. CASE Loadable
    BY <1>17, <2>1, RecordsTyped DEF LoadRecords, FnSteps, Results, Doc
  <2>2. CASE ~(Loadable)
    BY <1>17, <2>2, RecordsTyped DEF LoadRecords, FnSteps, Results, Doc
  <2>3. QED
    BY <2>1, <2>2
<1>18. ASSUME NEW w \in Workers, SaveRecord(w) PROVE TypeOK'
  BY <1>18 DEF SaveRecord, Results, Records, Catalogs, Saved, Doc, Calls
<1>19. ASSUME NEW w \in Workers, Lookup(w) PROVE TypeOK'
  <2>1. CASE Doc(w) \in index /\ Loadable
    BY <1>19, <2>1, RecordsTyped DEF Lookup, FnSteps, Results, Doc
  <2>2. CASE ~(Doc(w) \in index /\ Loadable)
    BY <1>19, <2>2, RecordsTyped DEF Lookup, FnSteps, Results, Doc
  <2>3. QED
    BY <2>1, <2>2
<1>20. ASSUME NEW w \in Workers, Untag(w) PROVE TypeOK'
  BY <1>20 DEF Untag, FnSteps, Doc, Calls
<1>21. ASSUME NEW w \in Workers, Unlink(w) PROVE TypeOK'
  BY <1>21 DEF Unlink, FnSteps, Doc, Calls
<1>22. ASSUME NEW w \in Workers, DropRecord(w) PROVE TypeOK'
  BY <1>22 DEF DropRecord, Results, Records, Catalogs, Saved, Doc, Calls
<1>23. ASSUME NEW w \in Workers, Mark(w) PROVE TypeOK'
  <2>1. CASE index \subseteq blobs
    BY <1>23, <2>1, ReachableTyped DEF Mark, FnSteps, Results
  <2>2. CASE ~(index \subseteq blobs)
    BY <1>23, <2>2, ReachableTyped DEF Mark, FnSteps, Results
  <2>3. QED
    BY <2>1, <2>2
<1>24. ASSUME NEW w \in Workers, Sweep(w) PROVE TypeOK'
  BY <1>24 DEF Sweep, FnSteps
<1>25. ASSUME NEW w \in Workers, SweepDone(w) PROVE TypeOK'
  BY <1>25 DEF SweepDone, Results
<1>26. ASSUME NEW w \in Workers, Scan(w) PROVE TypeOK'
  <2>1. CASE Loadable
    BY <1>26, <2>1, RecordsTyped DEF Scan, FnSteps, Results
  <2>2. CASE ~Loadable /\ call[w].write /\ catalog.kind = "malformed"
    BY <1>26, <2>2, RecordsTyped DEF Scan, FnSteps, Results
  <2>3. CASE ~Loadable /\ ~(call[w].write /\ catalog.kind = "malformed")
    BY <1>26, <2>3, RecordsTyped DEF Scan, Results
  <2>4. QED
    BY <2>1, <2>2, <2>3
<1>27. ASSUME NEW w \in Workers, CheckRoot(w) PROVE TypeOK'
  BY <1>27 DEF CheckRoot, FnSteps
<1>28. ASSUME NEW w \in Workers, Conclude(w) PROVE TypeOK'
  <2>1. catalog' \in Catalogs
    <3>1. CASE ~call[w].write
      BY <1>28, <3>1 DEF Conclude
    <3>2. CASE call[w].write
      <4> DEFINE kept == [d \in Docs |-> IF d \in found[w] THEN view[w].origins[d] ELSE {}]
      <4>1. found[w] \in SUBSET Docs
        BY <1>28 DEF Conclude, RootsOnly
      <4>2. kept \in [Docs -> SUBSET Origins]
        BY DEF Records
      <4>3. catalog' = Saved([docs |-> found[w], origins |-> kept])
        BY <1>28, <3>2 DEF Conclude
      <4>4. QED
        BY <4>1, <4>2, <4>3, RecordsTyped
    <3>3. QED
      BY <3>1, <3>2
  <2>2. QED
    BY <1>28, <2>1 DEF Conclude, Results
<1>29. ASSUME NEW w \in Workers, ListIndex(w) PROVE TypeOK'
  <2>1. Glimpses \subseteq SUBSET Docs
    BY DEF Glimpses, Rewriters
  <2>2. CASE pc'[w] = "listCatalog"
    BY <1>29, <2>1, <2>2 DEF ListIndex, Blur, ReadSteps
  <2>3. CASE pc'[w] # "listCatalog"
    BY <1>29, <2>3 DEF ListIndex, Blur, Results
  <2>4. QED
    BY <2>2, <2>3
<1>30. ASSUME NEW w \in Workers, ListCatalog(w) PROVE TypeOK'
  BY <1>30, RecordsTyped DEF ListCatalog, Results
<1>31. ASSUME NEW w \in Workers, OpenRoot(w) PROVE TypeOK'
  <2>1. CASE pc'[w] = "openManifest"
    BY <1>31, <2>1 DEF OpenRoot, Blur, ReadSteps, Results
  <2>2. CASE pc'[w] # "openManifest"
    BY <1>31, <2>2 DEF OpenRoot, Blur, ReadSteps, Results
  <2>3. QED
    BY <2>1, <2>2
<1>32. ASSUME NEW w \in Workers, OpenManifest(w) PROVE TypeOK'
  <2>1. CASE Doc(w) \in blobs \ rotten
    BY <1>32, <2>1, GraphTyped DEF OpenManifest, ReadSteps, Results, Doc, Calls
  <2>2. CASE ~(Doc(w) \in blobs \ rotten)
    <3>1. todo' \in [Workers -> SUBSET Digests]
      BY <1>32, GraphTyped DEF OpenManifest, ReadSteps, Doc, Calls
    <3>2. QED
      BY <1>32, <2>2, <3>1 DEF OpenManifest, Results
  <2>3. QED
    BY <2>1, <2>2
<1>33. ASSUME NEW w \in Workers, ReadBlob(w) PROVE TypeOK'
  <2>1. CASE pc'[w] = "readBlobs"
    BY <1>33, <2>1 DEF ReadBlob, ReadSteps, Results
  <2>2. CASE ~(pc'[w] = "readBlobs")
    BY <1>33, <2>2 DEF ReadBlob, ReadSteps, Results
  <2>3. QED
    BY <2>1, <2>2
<1>34. ASSUME NEW w \in Workers, ReadDone(w) PROVE TypeOK'
  BY <1>34 DEF ReadDone, Results
<1>35. ASSUME NEW w \in Workers, Interrupt(w) PROVE TypeOK'
  BY <1>35 DEF Interrupt, Results, FnSteps
<1>36. ASSUME NEW w \in Workers, MissRoots(w) PROVE TypeOK'
  BY <1>36 DEF MissRoots
<1>37. ASSUME NEW b \in Leaves, Rot(b) PROVE TypeOK'
  BY <1>37 DEF Rot
<1>38. ASSUME NEW kind \in {"missing", "malformed", "future"}, Spoil(kind) PROVE TypeOK'
  BY <1>38, RecordsTyped DEF Spoil, Catalogs
<1>39. ASSUME NEW w \in Workers, SaveTag(w) PROVE TypeOK'
  BY <1>39 DEF SaveTag, FnSteps
<1>40. ASSUME NEW w \in Workers, SaveUntag(w) PROVE TypeOK'
  BY <1>40 DEF SaveUntag, FnSteps
<1>41. CASE UNCHANGED vars
  BY <1>41 DEF vars
<1>42. QED
  BY <1>1, <1>2, <1>3, <1>4, <1>5, <1>6, <1>7, <1>8, <1>9, <1>10, <1>11, <1>12, <1>13,
     <1>14, <1>15, <1>16, <1>17, <1>18, <1>19, <1>20, <1>21, <1>22, <1>23, <1>24, <1>25, <1>26,
     <1>27, <1>28, <1>29, <1>30, <1>31, <1>32, <1>33, <1>34, <1>35, <1>36, <1>37, <1>38, <1>39,
     <1>40, <1>41
     DEF Next, Lock, Commit, Remove, Prune, Verify, Documents, OpenDocument, OpenFails

------------------------------------------------------------------------------
(***************************************************************************)
(* Under the lock.                                                         *)
(***************************************************************************)

\* A step of the store is a step of the lock, or leaves it alone.
LEMMA LockPart == [Next]_vars => [LockNext]_lockVars
<1> SUFFICES ASSUME [Next]_vars PROVE [LockNext]_lockVars
  OBVIOUS
<1>1. ASSUME NEW w \in Workers, Lock(w) PROVE [LockNext]_lockVars
  BY <1>1 DEF Lock, CallLocked, TakeMu, TakeFlock, GiveUp, DropFlock, DropMu, LockNext, Step
<1>2. ASSUME NEW h \in Handles, Crash(h) PROVE [LockNext]_lockVars
  BY <1>2 DEF Crash, LockNext
<1>3. ASSUME NEW w \in Workers, Commit(w) \/ Remove(w) \/ Prune(w) \/ Verify(w)
      PROVE  UNCHANGED lockVars
  BY <1>3 DEF Commit, PushConfig, PushLayer, PushManifest, Tag, SaveTag, LoadRecords, SaveRecord,
              Remove, Lookup, Untag, SaveUntag, Unlink, DropRecord, Prune, Mark, Sweep, SweepDone,
              Verify, Scan, CheckRoot, Conclude, Goto, Return
<1>4. ASSUME NEW w \in Workers,
             Documents(w) \/ OpenDocument(w) \/ EndRead(w) \/ Refresh(w)
      PROVE  UNCHANGED lockVars
  BY <1>4 DEF Documents, CallDocuments, ListIndex, ListCatalog, OpenDocument, CallRead,
              OpenRoot, OpenManifest, ReadBlob, ReadDone, EndRead, Refresh, Goto, Return
<1>5. ASSUME NEW w \in Workers, Interrupt(w) \/ MissRoots(w)
      PROVE  UNCHANGED lockVars
  BY <1>5 DEF Interrupt, MissRoots
<1>6. ASSUME (\E h \in Handles : Open(h) \/ OpenFails(h)) \/ (\E b \in Leaves : Rot(b))
             \/ \E kind \in {"missing", "malformed", "future"} : Spoil(kind)
      PROVE  UNCHANGED lockVars
  BY <1>6 DEF Open, OpenFails, vars, Rot, Spoil
<1>7. CASE UNCHANGED vars
  BY <1>7 DEF vars
<1>8. QED
  BY <1>1, <1>2, <1>3, <1>4, <1>5, <1>6, <1>7 DEF Next

\* Two calls inside fn are one call.
LEMMA SoleHolder ==
  LockInv /\ StepsInPlace =>
    \A v, w \in Workers : pc[v] \in FnSteps /\ stage[w] = "held" => v = w
BY InsideIsOne DEF StepsInPlace, MutualExclusion, Inside

\* Manifests and the blobs they name are different files.
LEMMA RootOfGraph == \A d, e \in Docs : e \in Graph(d) => e = d
BY StoreAssumption DEF Graph

------------------------------------------------------------------------------
(***************************************************************************)
(* The parts of StoreInv that are not types.                               *)
(***************************************************************************)
Parts ==
  /\ StepsInPlace
  /\ MemoryFresh
  /\ TornByHolder
  /\ GraphPushed
  /\ UntaggedFirst
  /\ MarkExact
  /\ RootsOnly
  /\ StableIntact
  /\ IndexClosed
  /\ StableDocumentsVisible
  /\ PruneExact

LEMMA PartsStart == Init => Parts
BY DEF Init, LockInit, Parts, StepsInPlace, MemoryFresh, TornByHolder, GraphPushed, UntaggedFirst, MarkExact,
       RootsOnly, StableIntact, IndexClosed, StableDocumentsVisible, PruneExact, FnSteps,
       CommitSteps, RemoveSteps, PruneSteps, VerifySteps, ReadSteps, At

\* A step of one call that touches no file the parts speak of: call w goes on to
\* its next reading step, or returns, and what it still holds is as it should be.
Quiet(w) ==
  /\ UNCHANGED <<opened, stage, call, mem, blobs, rotten, index, torn, stable>>
  /\ blurred' \ {w} = blurred \ {w}
  /\ \A v \in Workers \ {w} : /\ pc'[v] = pc[v]
                             /\ todo'[v] = todo[v]
                             /\ found'[v] = found[v]
                             /\ res'[v] = res[v]
  /\ stage[w] \notin {"waitMu", "waitFlock"}
  /\ HandleOf[w] \in opened
  /\ pc'[w] \in {"return"} \cup ReadSteps
  /\ pc'[w] \in ReadSteps => call[w].op \in {"documents", "read"}
  /\ pc'[w] = "readBlobs" => todo'[w] \subseteq Graph(Doc(w))
  /\ pc'[w] = "listCatalog" /\ w \notin blurred' => stable[w] \subseteq found'[w]
  /\ pc'[w] = "return" =>
       /\ res'[w] = "notFound" /\ w \notin blurred' => Doc(w) \notin stable[w]
       /\ res'[w] = "unreadable" => w \in blurred'
       /\ res'[w] = "broken" => Doc(w) \notin stable[w]
  /\ pc'[w] = "return" /\ stage[w] = "held" /\ res'[w] = "ok"
       /\ call[w].op = "prune" /\ call[w].write => blobs = Reachable

LEMMA QuietStep == ASSUME StoreInv, NEW w \in Workers, Quiet(w) PROVE Parts'
<1>1. StepsInPlace /\ MemoryFresh /\ TornByHolder /\ GraphPushed /\ UntaggedFirst /\ MarkExact
      /\ RootsOnly /\ StableIntact /\ IndexClosed /\ StableDocumentsVisible /\ PruneExact
  BY DEF StoreInv
<1>2. UNCHANGED <<opened, stage, call, mem, blobs, rotten, index, torn, stable>>
  BY DEF Quiet
<1>3. ASSUME NEW v \in Workers, v # w
      PROVE  /\ pc'[v] = pc[v] /\ todo'[v] = todo[v] /\ found'[v] = found[v] /\ res'[v] = res[v]
             /\ v \in blurred' <=> v \in blurred
  <2>1. v \in Workers \ {w} /\ blurred' \ {w} = blurred \ {w}
    BY <1>3 DEF Quiet
  <2>2. v \in blurred' <=> v \in blurred
    BY <2>1, <1>3
  <2>3. pc'[v] = pc[v] /\ todo'[v] = todo[v] /\ found'[v] = found[v] /\ res'[v] = res[v]
    BY <2>1 DEF Quiet
  <2>4. QED
    BY <2>2, <2>3
<1>4. pc'[w] \in {"return", "listIndex", "listCatalog", "openRoot", "openManifest", "readBlobs"}
  BY DEF Quiet, ReadSteps
<1>5. pc'[w] \notin FnSteps \cup CommitSteps \cup RemoveSteps \cup PruneSteps \cup VerifySteps
                     \cup {"idle", "enter"}
  BY <1>4 DEF FnSteps, CommitSteps, RemoveSteps, PruneSteps, VerifySteps
<1>6. stage[w] \notin {"waitMu", "waitFlock"} /\ HandleOf[w] \in opened
      /\ (pc'[w] \in ReadSteps => call[w].op \in {"documents", "read"})
  BY DEF Quiet
<1>7. \A d \in Docs : Intact(d)' = Intact(d)
  BY <1>2 DEF Intact, Graph
<1>8. Reachable' = Reachable
  BY <1>2 DEF Reachable, Graph
<1>9. \A v \in Workers : Doc(v)' = Doc(v)
  BY <1>2 DEF Doc
<1>10. StepsInPlace'
  BY <1>1, <1>2, <1>3, <1>5, <1>6 DEF StepsInPlace
<1>11. MemoryFresh' /\ TornByHolder'
  <2>1. MemoryFresh'
    BY <1>1, <1>2, <1>3, <1>4, <1>5, <1>9 DEF MemoryFresh
  <2>2. TornByHolder'
    BY <1>1, <1>2, <1>3, <1>4, <1>5 DEF TornByHolder
  <2>3. QED
    BY <2>1, <2>2
<1>12. GraphPushed'
  <2>1. pc'[w] \notin {"layers", "tag", "saveTag"}
    BY <1>4
  <2>2. QED
    BY <1>1, <1>2, <1>3, <1>9, <2>1 DEF GraphPushed, Graph
<1>13. UntaggedFirst' /\ MarkExact'
  BY <1>1, <1>2, <1>3, <1>4, <1>8, <1>9 DEF UntaggedFirst, MarkExact
<1>14. RootsOnly'
  BY <1>1, <1>2, <1>3, <1>4 DEF RootsOnly
<1>15. StableIntact'
  <2>1. pc'[w] = "readBlobs" => todo'[w] \subseteq Graph(Doc(w))
    BY DEF Quiet
  <2>2. \A v \in Workers : pc'[v] = "readBlobs" => todo'[v] \subseteq Graph(Doc(v))
    BY <1>1, <1>3, <2>1 DEF StableIntact
  <2>3. \A v \in Workers : \A d \in stable'[v] : d \in index' /\ Intact(d)'
    BY <1>1, <1>2 DEF StableIntact, Intact, Graph
  <2>4. QED
    BY <1>2, <2>2, <2>3 DEF StableIntact, Doc, Graph
<1>16. IndexClosed'
  BY <1>1, <1>2 DEF IndexClosed, Graph
<1>17. StableDocumentsVisible'
  <2>1. /\ pc'[w] = "listCatalog" /\ w \notin blurred' => stable[w] \subseteq found'[w]
        /\ pc'[w] = "return" =>
             /\ res'[w] = "notFound" /\ w \notin blurred' => Doc(w) \notin stable[w]
             /\ res'[w] = "unreadable" => w \in blurred'
             /\ res'[w] = "broken" => Doc(w) \notin stable[w]
    BY DEF Quiet
  <2>2. QED
    BY <1>1, <1>2, <1>3, <1>9, <2>1 DEF StableDocumentsVisible
<1>18. PruneExact'
  <2>1. pc'[w] = "return" /\ stage[w] = "held" /\ res'[w] = "ok"
          /\ call[w].op = "prune" /\ call[w].write => blobs = Reachable
    BY DEF Quiet
  <2>2. QED
    BY <1>1, <1>2, <1>3, <1>8, <2>1 DEF PruneExact, At
<1>19. QED
  BY <1>10, <1>11, <1>12, <1>13, <1>14, <1>15, <1>16, <1>17, <1>18 DEF Parts

LEMMA PartsStep == StoreInv /\ TypeOK' /\ LockInv' /\ [Next]_vars => Parts'
<1> SUFFICES ASSUME StoreInv, TypeOK', LockInv', [Next]_vars
             PROVE  Parts'
  OBVIOUS
<1>18. ASSUME NEW w \in Workers, SaveRecord(w) PROVE Parts'
  <2>1. stage[w] = "held" /\ HandleOf[w] \in opened /\ call[w].op = "commit"
    BY <1>18 DEF StoreInv, StepsInPlace, CommitSteps, SaveRecord, At
  <2>2. Quiet(w)
    BY <1>18, <2>1 DEF StoreInv, TypeOK, Quiet, SaveRecord, Return, lockVars, ghosts, ReadSteps
  <2>3. QED
    BY <2>2, QuietStep
<1>22. ASSUME NEW w \in Workers, DropRecord(w) PROVE Parts'
  <2>1. stage[w] = "held" /\ HandleOf[w] \in opened /\ call[w].op = "remove"
    BY <1>22 DEF StoreInv, StepsInPlace, RemoveSteps, DropRecord, At
  <2>2. Quiet(w)
    BY <1>22, <2>1 DEF StoreInv, TypeOK, Quiet, DropRecord, Return, lockVars, ghosts, ReadSteps
  <2>3. QED
    BY <2>2, QuietStep
<1>28. ASSUME NEW w \in Workers, Conclude(w) PROVE Parts'
  <2>1. stage[w] = "held" /\ HandleOf[w] \in opened /\ call[w].op = "verify"
    BY <1>28 DEF StoreInv, StepsInPlace, VerifySteps, Conclude, At
  <2>2. Quiet(w)
    BY <1>28, <2>1 DEF StoreInv, TypeOK, Quiet, Conclude, Return, lockVars, ghosts, ReadSteps
  <2>3. QED
    BY <2>2, QuietStep
<1>29. ASSUME NEW w \in Workers, ListIndex(w) PROVE Parts'
  <2>1. /\ stage[w] \notin {"waitMu", "waitFlock"}
        /\ call[w].op \in {"documents", "read"}
    BY <1>29 DEF StoreInv, StepsInPlace, ReadSteps, ListIndex, Reading
  <2>2. HandleOf[w] \in opened
    BY <1>29 DEF StoreInv, StepsInPlace, ListIndex, Reading
  <2>3. /\ blurred' = IF torn THEN blurred \cup {w} ELSE blurred
        /\ pc'[w] = "listCatalog" /\ ~torn => stable[w] \subseteq found'[w]
        /\ pc'[w] # "listCatalog" => torn /\ pc'[w] = "return" /\ res'[w] = "unreadable"
    BY <1>29 DEF StoreInv, TypeOK, StableIntact, ListIndex, Blur, Glimpses, Goto, Return
  <2>4. /\ \A v \in Workers \ {w} : pc'[v] = pc[v] /\ res'[v] = res[v] /\ found'[v] = found[v]
        /\ UNCHANGED <<opened, lockVars, call, mem, disk, todo, stable>>
    BY <1>29 DEF StoreInv, TypeOK, ListIndex, Blur, Goto, Return, lockVars, disk
  <2>5. Quiet(w)
    BY <2>1, <2>2, <2>3, <2>4 DEF Quiet, lockVars, disk, ReadSteps
  <2>6. QED
    BY <2>5, QuietStep
<1>30. ASSUME NEW w \in Workers, ListCatalog(w) PROVE Parts'
  <2>1. /\ stage[w] \notin {"waitMu", "waitFlock"}
        /\ HandleOf[w] \in opened
        /\ call[w].op \in {"documents", "read"}
    BY <1>30 DEF StoreInv, StepsInPlace, ReadSteps, ListCatalog, Reading
  <2>2. res'[w] \in {"ok", "failed"}
    BY <1>30 DEF StoreInv, TypeOK, ListCatalog, Return
  <2>3. Quiet(w)
    BY <1>30, <2>1, <2>2 DEF StoreInv, TypeOK, Quiet, ListCatalog, Goto, Return, lockVars, disk, ghosts,
                                 ReadSteps
  <2>4. QED
    BY <2>3, QuietStep
<1>31. ASSUME NEW w \in Workers, OpenRoot(w) PROVE Parts'
  <2>1. /\ stage[w] \notin {"waitMu", "waitFlock"}
        /\ call[w].op \in {"documents", "read"}
    BY <1>31 DEF StoreInv, StepsInPlace, ReadSteps, OpenRoot, Reading
  <2>2. HandleOf[w] \in opened
    BY <1>31 DEF StoreInv, StepsInPlace, OpenRoot, Reading
  <2>3. /\ blurred' = IF torn THEN blurred \cup {w} ELSE blurred
        /\ \/ pc'[w] = "openManifest"
           \/ pc'[w] = "return" /\ res'[w] = "notFound" /\ (torn \/ Doc(w) \notin index)
           \/ pc'[w] = "return" /\ res'[w] = "unreadable" /\ torn
    BY <1>31 DEF StoreInv, TypeOK, OpenRoot, Blur, Glimpses, Goto, Return
  <2>4. Doc(w) \notin index => Doc(w) \notin stable[w]
    BY DEF StoreInv, StableIntact
  <2>5. /\ \A v \in Workers \ {w} : pc'[v] = pc[v] /\ res'[v] = res[v]
        /\ UNCHANGED <<opened, lockVars, call, mem, disk, todo, found, stable>>
    BY <1>31 DEF StoreInv, TypeOK, OpenRoot, Blur, Goto, Return, lockVars, disk
  <2>6. Quiet(w)
    BY <2>1, <2>2, <2>3, <2>4, <2>5 DEF Quiet, lockVars, disk, ReadSteps
  <2>7. QED
    BY <2>6, QuietStep
<1>32. ASSUME NEW w \in Workers, OpenManifest(w) PROVE Parts'
  <2>1. /\ stage[w] \notin {"waitMu", "waitFlock"}
        /\ HandleOf[w] \in opened
        /\ call[w].op \in {"documents", "read"}
    BY <1>32 DEF StoreInv, StepsInPlace, ReadSteps, OpenManifest, Reading
  <2>2. /\ Doc(w) \notin blobs \ rotten => Doc(w) \notin stable[w]
        /\ pc'[w] = "readBlobs" => todo'[w] \subseteq Graph(Doc(w))
    BY <1>32 DEF StoreInv, TypeOK, StableIntact, Intact, Graph, OpenManifest
  <2>3. Quiet(w)
    BY <1>32, <2>1, <2>2 DEF StoreInv, TypeOK, Quiet, OpenManifest, Goto, Return, lockVars, disk, ghosts,
                                 ReadSteps
  <2>4. QED
    BY <2>3, QuietStep
<1>33. ASSUME NEW w \in Workers, ReadBlob(w) PROVE Parts'
  <2>1. /\ stage[w] \notin {"waitMu", "waitFlock"}
        /\ HandleOf[w] \in opened
        /\ call[w].op \in {"documents", "read"}
    BY <1>33 DEF StoreInv, StepsInPlace, ReadSteps, ReadBlob, Reading
  <2>2. /\ ~(todo[w] \subseteq blobs \ rotten) => Doc(w) \notin stable[w]
        /\ todo'[w] \subseteq Graph(Doc(w))
    <3>1. todo[w] \subseteq Graph(Doc(w)) /\ todo'[w] \subseteq todo[w]
      BY <1>33 DEF StoreInv, TypeOK, StableIntact, ReadBlob, Reading
    <3>2. Doc(w) \in stable[w] => Graph(Doc(w)) \subseteq blobs \ rotten
      BY DEF StoreInv, StableIntact, Intact
    <3>3. QED
      BY <3>1, <3>2
  <2>3. Quiet(w)
    BY <1>33, <2>1, <2>2 DEF StoreInv, TypeOK, Quiet, ReadBlob, Goto, Return, lockVars, disk, ghosts,
                                 ReadSteps
  <2>4. QED
    BY <2>3, QuietStep
<1>34. ASSUME NEW w \in Workers, ReadDone(w) PROVE Parts'
  <2>1. /\ stage[w] \notin {"waitMu", "waitFlock"}
        /\ HandleOf[w] \in opened
        /\ call[w].op \in {"documents", "read"}
    BY <1>34 DEF StoreInv, StepsInPlace, ReadSteps, ReadDone, Reading
  <2>2. res'[w] = "ok"
    BY <1>34 DEF StoreInv, TypeOK, ReadDone, Return
  <2>3. Quiet(w)
    BY <1>34, <2>1, <2>2 DEF StoreInv, TypeOK, Quiet, ReadDone, Goto, Return, lockVars, disk, ghosts,
                                 ReadSteps
  <2>4. QED
    BY <2>3, QuietStep
<1>35. ASSUME NEW w \in Workers, Interrupt(w) PROVE Parts'
  <2>1. Quiet(w)
    BY <1>35 DEF StoreInv, TypeOK, StepsInPlace, Quiet, Interrupt, lockVars, disk, locals, ghosts,
                ReadSteps, FnSteps
  <2>2. QED
    BY <2>1, QuietStep
<1> USE LockAssumption, StoreAssumption, SoleHolder, GraphTyped
<1> USE DEF Parts, StoreInv, TypeOK, StepsInPlace, MemoryFresh, TornByHolder, GraphPushed,
            UntaggedFirst, MarkExact, RootsOnly, StableIntact, IndexClosed, StableDocumentsVisible, PruneExact,
            disk, locals, ghosts, lockVars, Begin, Forgotten, At, Goto, Return, Fault, Reading,
            FnSteps, ReadSteps, CommitSteps, RemoveSteps, PruneSteps, VerifySteps,
            Doc, Graph, Reachable, Intact
<1>1. ASSUME NEW h \in Handles, Open(h) PROVE Parts'
  BY <1>1 DEF Open
<1>2. ASSUME NEW h \in Handles, Crash(h) PROVE Parts'
  BY <1>2 DEF Crash, Die
<1>3. ASSUME NEW w \in Workers, CallLocked(w) PROVE Parts'
  BY <1>3 DEF CallLocked, Request, Calls
<1>4. ASSUME NEW w \in Workers, CallDocuments(w) PROVE Parts'
  BY <1>4 DEF CallDocuments
<1>5. ASSUME NEW w \in Workers, CallRead(w) PROVE Parts'
  BY <1>5 DEF CallRead
<1>6. ASSUME NEW w \in Workers, TakeMu(w) PROVE Parts'
  BY <1>6 DEF TakeMu, AcquireMu
<1>7. ASSUME NEW w \in Workers, TakeFlock(w) PROVE Parts'
  BY <1>7 DEF TakeFlock, AcquireFlock
<1>8. ASSUME NEW w \in Workers, GiveUp(w) PROVE Parts'
  <2>1. stage[w] \in {"waitMu", "waitFlock"} /\ stage'[w] = "out"
    BY <1>8 DEF GiveUp, AbandonMu, AbandonFlock, LockInv, LockTypeOK
  <2>2. \A v \in Workers \ {w} : stage'[v] = stage[v]
    BY <1>8 DEF GiveUp, AbandonMu, AbandonFlock, LockInv, LockTypeOK
  <2>3. StepsInPlace' /\ MemoryFresh' /\ TornByHolder' /\ GraphPushed'
    <3>1. StepsInPlace'
      BY <1>8, <2>1, <2>2 DEF GiveUp
    <3>2. TornByHolder'
      BY <1>8, <2>1 DEF GiveUp
    <3>3. MemoryFresh' /\ GraphPushed'
      BY <1>8, <2>1, <2>2 DEF GiveUp
    <3>4. QED
      BY <3>1, <3>2, <3>3
  <2>4. UntaggedFirst' /\ MarkExact' /\ RootsOnly'
    BY <1>8, <2>1, <2>2 DEF GiveUp
  <2>5. StableIntact' /\ IndexClosed'
    BY <1>8, <2>1, <2>2 DEF GiveUp
  <2>6. StableDocumentsVisible' /\ PruneExact'
    <3>1. StableDocumentsVisible'
      BY <1>8, <2>1 DEF GiveUp
    <3>2. PruneExact'
      BY <1>8, <2>1, <2>2 DEF GiveUp
    <3>3. QED
      BY <3>1, <3>2
  <2>7. QED
    BY <2>3, <2>4, <2>5, <2>6
<1>9. ASSUME NEW w \in Workers, DropFlock(w) PROVE Parts'
  BY <1>9 DEF DropFlock, UnlockFlock
<1>10. ASSUME NEW w \in Workers, DropMu(w) PROVE Parts'
  BY <1>10 DEF DropMu, UnlockMu
<1>11. ASSUME NEW w \in Workers, EndRead(w) PROVE Parts'
  BY <1>11 DEF EndRead
<1>12. ASSUME NEW w \in Workers, Refresh(w) PROVE Parts'
  <2>1. StepsInPlace' /\ MemoryFresh' /\ TornByHolder' /\ GraphPushed'
    <3>1. CASE torn
      BY <1>12, <3>1 DEF Refresh
    <3>2. CASE ~torn
      <4>1. StepsInPlace' /\ GraphPushed'
        BY <1>12, <3>2 DEF Refresh, FirstStep
      <4>2. MemoryFresh' /\ TornByHolder'
        BY <1>12, <3>2 DEF Refresh, FirstStep
      <4>3. QED
        BY <4>1, <4>2
    <3>3. QED
      BY <3>1, <3>2
  <2>2. UntaggedFirst' /\ MarkExact' /\ RootsOnly'
    BY <1>12 DEF Refresh, FirstStep
  <2>3. StableIntact' /\ IndexClosed'
    <3>1. StableIntact'
      BY <1>12 DEF Refresh, FirstStep
    <3>2. IndexClosed'
      BY <1>12 DEF Refresh, FirstStep
    <3>3. QED
      BY <3>1, <3>2
  <2>4. StableDocumentsVisible' /\ PruneExact'
    BY <1>12 DEF Refresh, FirstStep
  <2>5. QED
    BY <2>1, <2>2, <2>3, <2>4
<1>13. ASSUME NEW w \in Workers, PushConfig(w) PROVE Parts'
  BY <1>13 DEF PushConfig
<1>14. ASSUME NEW w \in Workers, PushLayer(w) PROVE Parts'
  BY <1>14 DEF PushLayer
<1>15. ASSUME NEW w \in Workers, PushManifest(w) PROVE Parts'
  BY <1>15 DEF PushManifest
<1>16. ASSUME NEW w \in Workers, Tag(w) PROVE Parts'
  BY <1>16 DEF Tag
<1>17. ASSUME NEW w \in Workers, LoadRecords(w) PROVE Parts'
  <2>1. StepsInPlace' /\ MemoryFresh' /\ TornByHolder' /\ GraphPushed'
    BY <1>17 DEF LoadRecords
  <2>2. UntaggedFirst' /\ MarkExact' /\ RootsOnly'
    BY <1>17 DEF LoadRecords
  <2>3. StableIntact' /\ IndexClosed'
    <3>1. StableIntact'
      BY <1>17 DEF LoadRecords
    <3>2. IndexClosed'
      BY <1>17 DEF LoadRecords
    <3>3. QED
      BY <3>1, <3>2
  <2>4. StableDocumentsVisible' /\ PruneExact'
    BY <1>17 DEF LoadRecords
  <2>5. QED
    BY <2>1, <2>2, <2>3, <2>4
<1>19. ASSUME NEW w \in Workers, Lookup(w) PROVE Parts'
  <2>1. CASE Doc(w) \in index /\ Loadable
    <3>1. StepsInPlace' /\ MemoryFresh' /\ TornByHolder' /\ GraphPushed'
      BY <1>19, <2>1 DEF Lookup
    <3>2. UntaggedFirst' /\ MarkExact' /\ RootsOnly'
      <4>1. UntaggedFirst' /\ MarkExact'
        BY <1>19, <2>1 DEF Lookup
      <4>2. RootsOnly'
        BY <1>19, <2>1 DEF Lookup
      <4>3. QED
        BY <4>1, <4>2
    <3>3. StableIntact' /\ IndexClosed'
      BY <1>19, <2>1 DEF Lookup
    <3>4. StableDocumentsVisible' /\ PruneExact'
      BY <1>19, <2>1 DEF Lookup
    <3>5. QED
      BY <3>1, <3>2, <3>3, <3>4
  <2>2. CASE ~(Doc(w) \in index /\ Loadable)
    <3>1. StepsInPlace' /\ MemoryFresh' /\ TornByHolder' /\ GraphPushed'
      BY <1>19, <2>2 DEF Lookup
    <3>2. UntaggedFirst' /\ MarkExact' /\ RootsOnly'
      <4>1. UntaggedFirst' /\ MarkExact'
        BY <1>19, <2>2 DEF Lookup
      <4>2. RootsOnly'
        BY <1>19, <2>2 DEF Lookup
      <4>3. QED
        BY <4>1, <4>2
    <3>3. StableIntact' /\ IndexClosed'
      BY <1>19, <2>2 DEF Lookup
    <3>4. StableDocumentsVisible' /\ PruneExact'
      BY <1>19, <2>2 DEF Lookup
    <3>5. QED
      BY <3>1, <3>2, <3>3, <3>4
  <2>3. QED
    BY <2>1, <2>2
<1>20. ASSUME NEW w \in Workers, Untag(w) PROVE Parts'
  BY <1>20 DEF Untag
<1>21. ASSUME NEW w \in Workers, Unlink(w) PROVE Parts'
  <2>1. \A d \in index : Doc(w) \notin Graph(d)
    BY <1>21, RootOfGraph DEF Unlink, Calls
  <2>2. StepsInPlace' /\ MemoryFresh' /\ TornByHolder' /\ GraphPushed' /\ UntaggedFirst' /\ MarkExact' /\ RootsOnly'
    BY <1>21 DEF Unlink
  <2>3. StableIntact' /\ IndexClosed'
    BY <1>21, <2>1 DEF Unlink
  <2>4. StableDocumentsVisible' /\ PruneExact'
    BY <1>21 DEF Unlink
  <2>5. QED
    BY <2>2, <2>3, <2>4
<1>23. ASSUME NEW w \in Workers, Mark(w) PROVE Parts'
  <2>1. CASE ~(index \subseteq blobs)
    BY <1>23, <2>1 DEF Mark
  <2>2. CASE index \subseteq blobs /\ call[w].write
    <3>1. StepsInPlace' /\ MemoryFresh' /\ TornByHolder' /\ GraphPushed'
      BY <1>23, <2>2 DEF Mark
    <3>2. UntaggedFirst' /\ MarkExact' /\ RootsOnly'
      BY <1>23, <2>2 DEF Mark
    <3>3. StableIntact' /\ IndexClosed'
      BY <1>23, <2>2 DEF Mark
    <3>4. StableDocumentsVisible' /\ PruneExact'
      BY <1>23, <2>2 DEF Mark
    <3>5. QED
      BY <3>1, <3>2, <3>3, <3>4
  <2>3. CASE index \subseteq blobs /\ ~call[w].write
    <3>1. StepsInPlace' /\ MemoryFresh' /\ TornByHolder' /\ GraphPushed'
      BY <1>23, <2>3 DEF Mark
    <3>2. UntaggedFirst' /\ MarkExact' /\ RootsOnly'
      BY <1>23, <2>3 DEF Mark
    <3>3. StableIntact' /\ IndexClosed'
      BY <1>23, <2>3 DEF Mark
    <3>4. StableDocumentsVisible' /\ PruneExact'
      BY <1>23, <2>3 DEF Mark
    <3>5. QED
      BY <3>1, <3>2, <3>3, <3>4
  <2>4. QED
    BY <2>1, <2>2, <2>3
<1>24. ASSUME NEW w \in Workers, Sweep(w) PROVE Parts'
  BY <1>24 DEF Sweep
<1>25. ASSUME NEW w \in Workers, SweepDone(w) PROVE Parts'
  BY <1>25 DEF SweepDone
<1>26. ASSUME NEW w \in Workers, Scan(w) PROVE Parts'
  <2>1. CASE Loadable \/ (call[w].write /\ catalog.kind = "malformed")
    <3>1. StepsInPlace' /\ MemoryFresh' /\ TornByHolder' /\ GraphPushed'
      BY <1>26, <2>1 DEF Scan
    <3>2. UntaggedFirst' /\ MarkExact' /\ RootsOnly'
      <4>1. UntaggedFirst' /\ MarkExact'
        BY <1>26, <2>1 DEF Scan
      <4>2. RootsOnly'
        BY <1>26, <2>1 DEF Scan
      <4>3. QED
        BY <4>1, <4>2
    <3>3. StableIntact' /\ IndexClosed'
      BY <1>26, <2>1 DEF Scan
    <3>4. StableDocumentsVisible' /\ PruneExact'
      BY <1>26, <2>1 DEF Scan
    <3>5. QED
      BY <3>1, <3>2, <3>3, <3>4
  <2>2. CASE ~(Loadable \/ (call[w].write /\ catalog.kind = "malformed"))
    <3>1. StepsInPlace' /\ MemoryFresh' /\ TornByHolder' /\ GraphPushed'
      BY <1>26, <2>2 DEF Scan
    <3>2. UntaggedFirst' /\ MarkExact' /\ RootsOnly'
      BY <1>26, <2>2 DEF Scan
    <3>3. StableIntact' /\ IndexClosed'
      BY <1>26, <2>2 DEF Scan
    <3>4. StableDocumentsVisible' /\ PruneExact'
      BY <1>26, <2>2 DEF Scan
    <3>5. QED
      BY <3>1, <3>2, <3>3, <3>4
  <2>3. QED
    BY <2>1, <2>2
<1>27. ASSUME NEW w \in Workers, CheckRoot(w) PROVE Parts'
  BY <1>27 DEF CheckRoot
<1>36. ASSUME NEW w \in Workers, MissRoots(w) PROVE Parts'
  BY <1>36 DEF MissRoots
<1>37. ASSUME NEW b \in Leaves, Rot(b) PROVE Parts'
  BY <1>37 DEF Rot
<1>38. ASSUME NEW kind \in {"missing", "malformed", "future"}, Spoil(kind) PROVE Parts'
  BY <1>38 DEF Spoil
<1>39. ASSUME NEW w \in Workers, SaveTag(w) PROVE Parts'
  BY <1>39 DEF SaveTag
<1>40. ASSUME NEW w \in Workers, SaveUntag(w) PROVE Parts'
  BY <1>40 DEF SaveUntag
<1>41. CASE UNCHANGED vars
  BY <1>41 DEF vars
<1> HIDE StoreAssumption, LockAssumption
<1> HIDE DEF Parts, StoreInv, TypeOK
<1>42. QED
  BY <1>1, <1>2, <1>3, <1>4, <1>5, <1>6, <1>7, <1>8, <1>9, <1>10, <1>11, <1>12, <1>13,
     <1>14, <1>15, <1>16, <1>17, <1>18, <1>19, <1>20, <1>21, <1>22, <1>23, <1>24, <1>25, <1>26,
     <1>27, <1>28, <1>29, <1>30, <1>31, <1>32, <1>33, <1>34, <1>35, <1>36, <1>37, <1>38, <1>39,
     <1>40, <1>41
     DEF Next, Lock, Commit, Remove, Prune, Verify, Documents, OpenDocument, OpenFails

------------------------------------------------------------------------------
(***************************************************************************)
(* The theorems.                                                           *)
(***************************************************************************)

\* The store's invariant: every step of Commit, Remove, Prune, Verify and the
\* readers keeps it, and so does every fault.
THEOREM StoreInvariant == Spec => []StoreInv
<1>1. Init => StoreInv
  BY LockStart, TypeStart, PartsStart DEF Init, StoreInv, Parts
<1>2. StoreInv /\ [Next]_vars => StoreInv'
  <2> SUFFICES ASSUME StoreInv, [Next]_vars
               PROVE  StoreInv'
    OBVIOUS
  <2>1. LockInv'
    BY LockPart, LockStep DEF StoreInv
  <2>2. TypeOK'
    BY <2>1, TypeStep DEF StoreInv, LockInv
  <2>3. Parts'
    BY <2>1, <2>2, PartsStep
  <2>4. QED
    BY <2>1, <2>2, <2>3 DEF StoreInv, Parts
<1>3. QED
  BY <1>1, <1>2, PTL DEF Spec

\* The types of the files, of the handles and of every call's locals.
THEOREM TypeCorrect == Spec => []TypeOK
<1>1. StoreInv => TypeOK
  BY DEF StoreInv
<1>2. QED
  BY <1>1, StoreInvariant, PTL

\* What index.json names is complete on disk, through crashes and prunes.
THEOREM IndexAlwaysClosed == Spec => []IndexClosed
<1>1. StoreInv => IndexClosed
  BY DEF StoreInv
<1>2. QED
  BY <1>1, StoreInvariant, PTL

\* Documents and OpenDocument see every intact document that stays indexed, but
\* where they read a torn index.json; a document once open is read to its end.
THEOREM StableAlwaysVisible == Spec => []StableDocumentsVisible
<1>1. StoreInv => StableDocumentsVisible
  BY DEF StoreInv
<1>2. QED
  BY <1>1, StoreInvariant, PTL

\* Nothing is deleted, indexed or recorded by a store whose index.json was left
\* torn: inside fn it is whole, or the call itself is about to write it.
THEOREM TornStoreIsKept == Spec => TornStoreKept
<1> DEFINE Kept == torn /\ Rewriters = {} =>
                     /\ UNCHANGED <<blobs, index, torn>>
                     /\ catalog' # catalog => flock = NoHandle
<1>1. StoreInv /\ [Next]_vars => Kept
  <2> SUFFICES ASSUME StoreInv, [Next]_vars, torn, Rewriters = {}
               PROVE  /\ UNCHANGED <<blobs, index, torn>>
                      /\ catalog' # catalog => flock = NoHandle
    OBVIOUS
  <2>1. \A w \in Workers : pc[w] \notin FnSteps
    BY DEF StoreInv, TornByHolder, Rewriters
  <2> USE DEF disk, locals, ghosts
  <2>2. ASSUME NEW w \in Workers, Commit(w) \/ Remove(w) \/ Prune(w) \/ Verify(w) PROVE FALSE
    BY <2>1, <2>2 DEF Commit, PushConfig, PushLayer, PushManifest, Tag, SaveTag, LoadRecords,
                      SaveRecord, Remove, Lookup, Untag, SaveUntag, Unlink, DropRecord, Prune,
                      Mark, Sweep, SweepDone, Verify, Scan, CheckRoot, Conclude, At, FnSteps
  <2>3. ASSUME NEW w \in Workers,
               Lock(w) \/ Documents(w) \/ OpenDocument(w) \/ EndRead(w) \/ Refresh(w)
               \/ Interrupt(w) \/ MissRoots(w)
        PROVE  UNCHANGED disk
    BY <2>3 DEF Lock, CallLocked, TakeMu, TakeFlock, GiveUp, DropFlock, DropMu, Begin,
                Documents, CallDocuments, ListIndex, ListCatalog, OpenDocument, CallRead, OpenRoot,
                OpenManifest, ReadBlob, ReadDone, EndRead, Refresh, Interrupt, MissRoots
  <2>4. ASSUME NEW h \in Handles, Open(h) \/ OpenFails(h) \/ Crash(h) PROVE UNCHANGED disk
    BY <2>4 DEF Open, OpenFails, vars, Crash
  <2>5. ASSUME NEW b \in Leaves, Rot(b) PROVE UNCHANGED <<blobs, index, torn, catalog>>
    BY <2>5 DEF Rot
  <2>6. ASSUME NEW kind \in {"missing", "malformed", "future"}, Spoil(kind)
        PROVE  UNCHANGED <<blobs, index, torn>> /\ flock = NoHandle
    BY <2>6 DEF Spoil
  <2>7. CASE UNCHANGED vars
    BY <2>7 DEF vars
  <2>8. QED
    BY <2>2, <2>3, <2>4, <2>5, <2>6, <2>7 DEF Next
<1>2. QED
  BY StoreInvariant, <1>1, PTL DEF Spec, TornStoreKept

\* A prune that succeeds leaves exactly what the index reaches.
THEOREM PruneAlwaysExact == Spec => []PruneExact
<1>1. StoreInv => PruneExact
  BY DEF StoreInv
<1>2. QED
  BY <1>1, StoreInvariant, PTL
==============================================================================
