---------------------------- MODULE InstallProofs ----------------------------
(***************************************************************************)
(* What a destination keeps, for any number of calls, failures and deaths. *)
(* The argument: a backup is made of what is at the destination, and is    *)
(* thrown out only by the call that has since put its own result there.    *)
(***************************************************************************)
EXTENDS Install, TLAPS

LEMMA InstallStart == Init => InstallInv
<1> SUFFICES ASSUME Init PROVE InstallInv
  OBVIOUS
<1>1. TypeOK
  BY InstallAssumption DEF Init, TypeOK, Results
<1>2. InPlace /\ Copies
  BY DEF Init, InPlace, Copies, LayoutSteps
<1>3. NothingLost /\ ArchiveResultTrue /\ RefillUnderWay
  BY DEF Init, NothingLost, ArchiveResultTrue, RefillUnderWay
<1>4. QED
  BY <1>1, <1>2, <1>3 DEF InstallInv

LEMMA TypeStep ==
  ASSUME TypeOK, InPlace, NEW w \in Workers, Act(w)
  PROVE  TypeOK'
<1> USE InstallAssumption
<1> USE DEF TypeOK, Goto, Return, Kept, Place, Results, Steps, ArchiveSteps, LayoutSteps, InPlace
<1>1. CASE Begin(w)
  BY <1>1 DEF Begin
<1>2. CASE Stage(w)
  BY <1>2 DEF Stage
<1>3. CASE Write(w)
  BY <1>3 DEF Write
<1>4. CASE Check(w)
  BY <1>4 DEF Check
<1>5. CASE Publish(w)
  BY <1>5 DEF Publish
<1>6. CASE Unlink(w)
  BY <1>6 DEF Unlink
<1>7. CASE Look(w)
  BY <1>7 DEF Look
<1>8. CASE PlaceLayout(w)
  BY <1>8 DEF PlaceLayout
<1>9. CASE BackUp(w)
  BY <1>9 DEF BackUp
<1>10. CASE Install(w)
  BY <1>10 DEF Install
<1>11. CASE Restore(w)
  BY <1>11 DEF Restore
<1>12. CASE Discard(w)
  BY <1>12 DEF Discard
<1>13. CASE Fail(w)
  BY <1>13 DEF Fail, Spoiled
<1>14. CASE Crash(w)
  BY <1>14 DEF Crash, Spoiled
<1>15. QED
  BY <1>1, <1>2, <1>3, <1>4, <1>5, <1>6, <1>7, <1>8, <1>9, <1>10, <1>11,
     <1>12, <1>13, <1>14 DEF Act, Archive, Layout

LEMMA InPlaceStep ==
  ASSUME TypeOK, InPlace, Copies, NEW w \in Workers, Act(w)
  PROVE  InPlace' /\ Copies'
<1> USE InstallAssumption
<1> USE DEF TypeOK, Goto, Return, Kept, Place, Results, LayoutSteps, InPlace, Copies
<1>1. CASE Begin(w)
  BY <1>1 DEF Begin
<1>2. CASE Stage(w)
  BY <1>2 DEF Stage
<1>3. CASE Write(w)
  BY <1>3 DEF Write
<1>4. CASE Check(w)
  BY <1>4 DEF Check
<1>5. CASE Publish(w)
  BY <1>5 DEF Publish
<1>6. CASE Unlink(w)
  BY <1>6 DEF Unlink
<1>7. CASE Look(w)
  BY <1>7 DEF Look
<1>8. CASE PlaceLayout(w)
  BY <1>8 DEF PlaceLayout
<1>9. CASE BackUp(w)
  BY <1>9 DEF BackUp
<1>10. CASE Install(w)
  BY <1>10 DEF Install
<1>11. CASE Restore(w)
  BY <1>11 DEF Restore
<1>12. CASE Discard(w)
  BY <1>12 DEF Discard
<1>13. CASE Fail(w)
  BY <1>13 DEF Fail, Spoiled, Steps, ArchiveSteps
<1>14. CASE Crash(w)
  BY <1>14 DEF Crash, Spoiled
<1>15. QED
  BY <1>1, <1>2, <1>3, <1>4, <1>5, <1>6, <1>7, <1>8, <1>9, <1>10, <1>11,
     <1>12, <1>13, <1>14 DEF Act, Archive, Layout

LEMMA NothingLostStep ==
  ASSUME TypeOK, InPlace, NothingLost, NEW w \in Workers, Act(w)
  PROVE  NothingLost'
<1> USE InstallAssumption
<1> USE DEF TypeOK, Goto, Return, Kept, Place, Results, InPlace, NothingLost
<1>1. CASE Begin(w)
  BY <1>1 DEF Begin
<1>2. CASE Stage(w)
  BY <1>2 DEF Stage
<1>3. CASE Write(w)
  BY <1>3 DEF Write
<1>4. CASE Check(w)
  BY <1>4 DEF Check
<1>5. CASE Publish(w)
  BY <1>5 DEF Publish
<1>6. CASE Unlink(w)
  BY <1>6 DEF Unlink
<1>7. CASE Look(w)
  BY <1>7 DEF Look
<1>8. CASE PlaceLayout(w)
  BY <1>8 DEF PlaceLayout
<1>9. CASE BackUp(w)
  BY <1>9 DEF BackUp
<1>10. CASE Install(w)
  BY <1>10 DEF Install
<1>11. CASE Restore(w)
  BY <1>11 DEF Restore
<1>12. CASE Discard(w)
  BY <1>12 DEF Discard
<1>13. CASE Fail(w)
  BY <1>13 DEF Fail, Spoiled
<1>14. CASE Crash(w)
  BY <1>14 DEF Crash, Spoiled
<1>15. QED
  BY <1>1, <1>2, <1>3, <1>4, <1>5, <1>6, <1>7, <1>8, <1>9, <1>10, <1>11,
     <1>12, <1>13, <1>14 DEF Act, Archive, Layout

LEMMA ResultStep ==
  ASSUME TypeOK, InPlace, ArchiveResultTrue, NEW w \in Workers, Act(w)
  PROVE  ArchiveResultTrue'
<1> USE DEF TypeOK, Goto, Return, Kept, Place, LayoutSteps, InPlace, ArchiveResultTrue
<1>1. CASE Begin(w)
  BY <1>1 DEF Begin
<1>2. CASE Stage(w)
  BY <1>2 DEF Stage
<1>3. CASE Write(w)
  BY <1>3 DEF Write
<1>4. CASE Check(w)
  BY <1>4 DEF Check
<1>5. CASE Publish(w)
  BY <1>5 DEF Publish
<1>6. CASE Unlink(w)
  BY <1>6 DEF Unlink
<1>7. CASE Look(w)
  BY <1>7 DEF Look
<1>8. CASE PlaceLayout(w)
  BY <1>8 DEF PlaceLayout
<1>9. CASE BackUp(w)
  BY <1>9 DEF BackUp
<1>10. CASE Install(w)
  BY <1>10 DEF Install
<1>11. CASE Restore(w)
  BY <1>11 DEF Restore
<1>12. CASE Discard(w)
  BY <1>12 DEF Discard
<1>13. CASE Fail(w)
  BY <1>13 DEF Fail, Steps, ArchiveSteps
<1>14. CASE Crash(w)
  BY <1>14 DEF Crash
<1>15. QED
  BY <1>1, <1>2, <1>3, <1>4, <1>5, <1>6, <1>7, <1>8, <1>9, <1>10, <1>11,
     <1>12, <1>13, <1>14 DEF Act, Archive, Layout

\* The call that empties the destination is about to fill it; it leaves only
\* when something is there, or after a failure, and the one after that is not
\* counted any more.
LEMMA RefillStep ==
  ASSUME TypeOK, InPlace, RefillUnderWay, NEW w \in Workers, Act(w)
  PROVE  RefillUnderWay'
<1> SUFFICES ASSUME dest' = Absent, newest' # Absent, failures' <= 1, \A v \in Workers : pc'[v] # "dead"
             PROVE  \E v \in Workers : pc'[v] = "install" \/ (pc'[v] = "restore" /\ failures' = 1)
  BY DEF RefillUnderWay
<1>a. (staged[w] = w /\ w # Absent) \/ pc[w] \notin {"publish", "place", "install"}
  BY InstallAssumption DEF InPlace
<1>b. ASSUME dest = Absent, newest # Absent, failures <= 1, \A v \in Workers : pc[v] # "dead"
      PROVE  \E v \in Workers : pc[v] = "install" \/ (pc[v] = "restore" /\ failures = 1)
  BY <1>b DEF RefillUnderWay
<1> USE DEF TypeOK, Goto, Return, Kept
<1>1. CASE Begin(w)
  BY <1>1, <1>b DEF Begin
<1>2. CASE Stage(w)
  BY <1>2, <1>b DEF Stage
<1>3. CASE Write(w)
  BY <1>3, <1>b DEF Write
<1>4. CASE Check(w)
  BY <1>4, <1>b DEF Check
<1>5. CASE Unlink(w)
  BY <1>5, <1>b DEF Unlink
<1>6. CASE Look(w)
  BY <1>6, <1>b DEF Look
<1>7. CASE Discard(w)
  BY <1>7, <1>b DEF Discard
<1>8. CASE Crash(w)
  BY <1>8 DEF Crash
<1>9. CASE Publish(w)
  BY <1>9, <1>a, <1>b DEF Publish, Place
<1>10. CASE PlaceLayout(w)
  BY <1>10, <1>a, <1>b DEF PlaceLayout, Place
<1>11. CASE Install(w)
  BY <1>11, <1>a, <1>b DEF Install, Place
<1>12. CASE BackUp(w)
  BY <1>12, <1>b DEF BackUp
<1>13. CASE Restore(w)
  BY <1>13, <1>b DEF Restore, InPlace
<1>14. CASE Fail(w)
  <2>1. /\ failures = 0 /\ failures' = 1
        /\ dest' = dest /\ newest' = newest
        /\ \A v \in Workers : pc[v] # "dead"
    BY <1>14, InstallAssumption DEF Fail, Steps, ArchiveSteps, LayoutSteps
  <2>2. PICK v \in Workers : pc[v] = "install"
    BY <2>1, <1>b
  <2>3. pc'[v] \in {"install", "restore"}
    BY <1>14, <2>2 DEF Fail
  <2>4. QED
    BY <2>1, <2>3
<1>15. QED
  BY <1>1, <1>2, <1>3, <1>4, <1>5, <1>6, <1>7, <1>8, <1>9, <1>10, <1>11, <1>12, <1>13, <1>14
     DEF Act, Archive, Layout

LEMMA InstallStep == InstallInv /\ [Next]_vars => InstallInv'
<1>1. ASSUME InstallInv, NEW w \in Workers, Act(w) PROVE InstallInv'
  BY <1>1, TypeStep, InPlaceStep, NothingLostStep, ResultStep, RefillStep DEF InstallInv
<1>2. ASSUME InstallInv, UNCHANGED vars PROVE InstallInv'
  BY <1>2 DEF vars, InstallInv, TypeOK, InPlace, Copies, NothingLost, ArchiveResultTrue,
              RefillUnderWay
<1>3. QED
  BY <1>1, <1>2 DEF Next

\* What is published is complete, and what is moved away is thrown out only
\* after something else took its place.
THEOREM InstallInvariant == Spec => []InstallInv
BY InstallStart, InstallStep, PTL DEF Spec

\* The destination never holds anything incomplete.
THEOREM TypeCorrect == Spec => []TypeOK
<1>1. InstallInv => TypeOK
  BY DEF InstallInv
<1>2. QED
  BY <1>1, InstallInvariant, PTL

\* What was put at the destination last is there or in a backup.
THEOREM NothingIsLost == Spec => []NothingLost
<1>1. InstallInv => NothingLost
  BY DEF InstallInv
<1>2. QED
  BY <1>1, InstallInvariant, PTL

\* An archive is reported as written exactly if it was.
THEOREM ResultsAreTrue == Spec => []ArchiveResultTrue
<1>1. InstallInv => ArchiveResultTrue
  BY DEF InstallInv
<1>2. QED
  BY <1>1, InstallInvariant, PTL

\* Only calls that may overwrite change what is at the destination.
THEOREM ExistingIsKept == Spec => KeepsExisting
<1> DEFINE A == dest # Absent /\ dest' # dest => \E w \in Workers : pc'[w] # pc[w] /\ overwrite[w]
<1>1. InstallInv /\ [Next]_vars => [A]_vars
  <2> SUFFICES ASSUME InstallInv, NEW w \in Workers, Act(w), dest # Absent, dest' # dest
               PROVE  pc'[w] # pc[w] /\ overwrite[w]
    BY DEF Next
  <2>1. Publish(w) \/ PlaceLayout(w) \/ BackUp(w) \/ Install(w) \/ Restore(w)
    BY DEF Act, Archive, Layout, Begin, Stage, Write, Check, Unlink, Look, Discard, Fail, Crash, Kept
  <2>2. Publish(w) \/ BackUp(w)
    BY <2>1 DEF PlaceLayout, Install, Restore, Kept
  <2>3. CASE Publish(w)
    BY <2>3 DEF Publish, Kept, Return, Goto, InstallInv, TypeOK
  <2>4. CASE BackUp(w)
    BY <2>4 DEF BackUp, Goto, Return, InstallInv, TypeOK, InPlace
  <2>5. QED
    BY <2>2, <2>3, <2>4
<1>2. QED
  BY <1>1, InstallInvariant, PTL DEF Spec, KeepsExisting

\* Once the calls have returned, after one failure at most and nobody's death,
\* the destination is not empty if it was not before.
THEOREM RestoredOnceAtRest == Spec => []RestoredAtRest
<1>1. InstallInv => RestoredAtRest
  BY DEF InstallInv, RefillUnderWay, RestoredAtRest, AtRest
<1>2. QED
  BY <1>1, InstallInvariant, PTL
==============================================================================
