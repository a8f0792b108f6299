--------------------------- MODULE PathPlanProofs ---------------------------
(***************************************************************************)
(* Proofs about the builds of PathPlan, for any trees, configurations,     *)
(* components and edits.  The first half uses nothing of what a path leads *)
(* to, and Kind and RefsOf stay as they are; from the recursion of Resolve *)
(* on, the walk and the waves are compared with what the tree has.         *)
(***************************************************************************)
EXTENDS PathPlan, FiniteSetTheorems, SequenceTheorems, WellFoundedInduction, TLAPS

\* Variables that are functions of the components, and the document's fields.
Shape ==
  /\ result = [c \in Components |-> result[c]]
  /\ todo = [c \in Components |-> todo[c]]
  /\ claims = [c \in Components |-> claims[c]]
  /\ packed = [c \in Components |-> packed[c]]
  /\ reading = [path |-> reading.path, component |-> reading.component, left |-> reading.left]

\* The walk gives a file to all whose rules match it, of which there is one; claims are
\* of files that nobody owns.
Claimed ==
  /\ status = "walk" =>
       /\ claims = Nothing
       /\ \A c, d \in Components : \A p \in result[c] : p \in config.included[d] => c = d
  /\ \A c, d \in Components : claims[c] \cap result[d] = {}

OwnInv == Shape /\ Claimed /\ OneOwner

LEMMA ShapeStays ==
  ASSUME Shape, [Next]_vars
  PROVE  Shape'
<1> USE DEF Shape
<1>1. CASE VisitFile
  BY <1>1 DEF VisitFile, Fail, treeVars, walkVars, waveVars, planVars, packVars
<1>2. CASE VisitDirectory \/ VisitNothing \/ LeaveDirectory
  BY <1>2 DEF VisitDirectory, VisitNothing, LeaveDirectory, Fail, treeVars, walkVars,
     waveVars, planVars, packVars
<1>3. CASE EndWalk
  BY <1>3 DEF EndWalk, Documents, Fail, treeVars, walkVars, waveVars, planVars, packVars
<1>4. ASSUME NEW c \in Components, Read(c) PROVE Shape'
  BY <1>4 DEF Read, Discovering, Fail, treeVars, walkVars, waveVars, planVars, packVars
<1>5. CASE Follow
  BY <1>5 DEF Follow, FollowFile, FollowNoFile, FollowNowhere, Ignore, Drop, Add, Fail,
     treeVars, walkVars, waveVars, planVars, packVars
<1>6. CASE EndWave
  BY <1>6 DEF EndWave, Documents, Nothing, Fail, treeVars, walkVars, waveVars, planVars, packVars
<1>7. CASE Settle
  BY <1>7 DEF Settle, Fail, treeVars, walkVars, waveVars, planVars, packVars
<1>8. ASSUME NEW c \in Components, BeginBlob(c) PROVE Shape'
  BY <1>8 DEF BeginBlob, treeVars, walkVars, waveVars, planVars, packVars
<1>9. CASE ResolveSource
  BY <1>9 DEF ResolveSource, Fail, treeVars, walkVars, waveVars, planVars, packVars
<1>10. CASE WriteEntry
  BY <1>10 DEF WriteEntry, Add, Fail, treeVars, walkVars, waveVars, planVars, packVars
<1>11. CASE EndBuild \/ Cancel \/ Edit
  BY <1>11 DEF EndBuild, Cancel, Edit, Fail, treeVars, walkVars, waveVars, planVars, packVars
<1>12. CASE UNCHANGED vars
  BY <1>12 DEF vars, treeVars, walkVars, waveVars, planVars, packVars
<1> QED
  BY <1>1, <1>2, <1>3, <1>4, <1>5, <1>6, <1>7, <1>8, <1>9, <1>10, <1>11, <1>12 DEF Next, Step

LEMMA OwnStart == Init => OwnInv
<1> SUFFICES ASSUME Init PROVE OwnInv
  OBVIOUS
<1>1. Shape
  BY DEF Init, Shape, Nothing, NoDocument
<1>2. Claimed /\ OneOwner
  BY DEF Init, Claimed, OneOwner, Nothing, Planned
<1> QED
  BY <1>1, <1>2 DEF OwnInv

\* Most steps leave the ownership alone, and do not go back to the walk.
LEMMA OwnQuiet ==
  ASSUME OwnInv, UNCHANGED <<config, result>>, Shape',
         claims' = claims, status' = "walk" => status = "walk",
         Planned' => Planned
  PROVE  Claimed' /\ OneOwner'
BY DEF OwnInv, Claimed, OneOwner, Planned, Nothing, Collision

LEMMA OwnStep ==
  ASSUME OwnInv, [Next]_vars
  PROVE  OwnInv'
<1>0. Shape'
  BY ShapeStays DEF OwnInv
<1> SUFFICES Claimed' /\ OneOwner'
  BY <1>0 DEF OwnInv
<1> USE DEF treeVars, walkVars, waveVars, planVars, packVars
<1>1. ASSUME NEW why, Fail(why) PROVE Claimed' /\ OneOwner'
  BY <1>0, <1>1, OwnQuiet DEF Fail, Planned
<1>2. CASE VisitFile
  <2> DEFINE owners == IF Visited \in config.ignored THEN {} ELSE Owners(Visited)
  <2>1. CASE \E c, d \in owners : c # d
    BY <1>1, <1>2, <2>1 DEF VisitFile
  <2>2. CASE /\ \A c, d \in owners : c = d
             /\ result' = [c \in Components |->
                            IF c \in owners THEN result[c] \cup {Visited} ELSE result[c]]
             /\ UNCHANGED <<config, status, claims>>
    <3>1. status = "walk" /\ claims = Nothing
      BY <1>2 DEF VisitFile, Visiting, OwnInv, Claimed
    <3>2. ASSUME NEW c \in Components, NEW d \in Components, NEW p \in result'[c],
                 p \in config.included[d]
          PROVE  c = d
      <4>1. CASE p \in result[c]
        BY <3>1, <3>2, <4>1 DEF OwnInv, Claimed
      <4>2. CASE c \in owners /\ p = Visited
        BY <2>2, <3>2, <4>2 DEF Owners
      <4> QED
        BY <2>2, <4>1, <4>2
    <3>3. ASSUME NEW c \in Components, NEW d \in Components, NEW p \in result'[c],
                 p \in result'[d]
          PROVE  c = d
      <4>1. CASE p \in result[c] /\ p \in result[d]
        BY <4>1 DEF OwnInv, OneOwner
      <4>2. CASE p \in config.included[c]
        BY <2>2, <3>2, <3>3, <4>2
      <4>3. CASE p \in config.included[d]
        BY <2>2, <3>2, <3>3, <4>3
      <4> QED
        BY <2>2, <3>3, <4>1, <4>2, <4>3 DEF Owners
    <3> QED
      BY <2>2, <3>1, <3>2, <3>3 DEF Claimed, OneOwner, Nothing, Planned
  <2> QED
    BY <1>2, <2>1, <2>2 DEF VisitFile
<1>3. CASE VisitDirectory \/ VisitNothing \/ LeaveDirectory
  BY <1>0, <1>1, <1>3, OwnQuiet DEF VisitDirectory, VisitNothing, LeaveDirectory, Planned
<1>4. CASE EndWalk
  BY <1>0, <1>1, <1>4, OwnQuiet DEF EndWalk, Planned
<1>5. ASSUME NEW c \in Components, Read(c) PROVE Claimed' /\ OneOwner'
  BY <1>0, <1>1, <1>5, OwnQuiet DEF Read, Planned
<1>6. CASE Follow
  <2> PICK ref \in reading.left :
             FollowFile(ref) \/ FollowNoFile(ref) \/ FollowNowhere(ref) \/ Ignore(ref)
    BY <1>6 DEF Follow
  <2>1. CASE FollowFile(ref)
    <3> DEFINE target == Target(reading.path, ref)
    <3>1. \/ claims' = claims
          \/ target \notin Owned(result) /\ claims' = Add(claims, reading.component, target)
      BY <2>1 DEF FollowFile
    <3>2. \A c \in Components :
            \/ claims'[c] = claims[c]
            \/ target \notin Owned(result) /\ claims'[c] = claims[c] \cup {target}
      BY <3>1 DEF OwnInv, Shape, Add
    <3>3. \A d \in Components : target \in result[d] => target \in Owned(result)
      BY DEF Owned
    <3>4. \A c, d \in Components : claims'[c] \cap result[d] = {}
      BY <3>2, <3>3 DEF OwnInv, Claimed
    <3> QED
      BY <1>6, <2>1, <3>4 DEF FollowFile, Follow, OwnInv, Claimed, OneOwner, Planned, Collision
  <2>2. CASE FollowNoFile(ref) \/ FollowNowhere(ref) \/ Ignore(ref)
    BY <1>0, <1>1, <2>2, OwnQuiet DEF FollowNoFile, FollowNowhere, Ignore, Planned
  <2> QED
    BY <2>1, <2>2
<1>7. CASE EndWave
  <2>1. CASE \E why : Fail(why)
    BY <1>1, <2>1
  <2>2. CASE /\ ~Contested /\ (claims = Nothing => ~Collision(result))
             /\ result' = [c \in Components |-> result[c] \cup claims[c]]
             /\ claims' = Nothing
             /\ status' = IF claims = Nothing THEN "settle" ELSE "discover"
    <3>1. claims = Nothing => result' = result
      BY <2>2 DEF OwnInv, Shape, Nothing
    <3>2. \A c, d \in Components : c # d => result'[c] \cap result'[d] = {}
      BY <2>2 DEF OwnInv, Claimed, OneOwner, Contested
    <3>3. Planned' => ~Collision(result')
      BY <2>2, <3>1 DEF Planned
    <3> QED
      BY <2>2, <3>2, <3>3 DEF Claimed, OneOwner, Nothing, Collision
  <2> QED
    BY <1>7, <2>1, <2>2 DEF EndWave
<1>8. CASE Settle
  BY <1>0, <1>1, <1>8, OwnQuiet DEF Settle, Planned
<1>9. ASSUME NEW c \in Components, BeginBlob(c) PROVE Claimed' /\ OneOwner'
  BY <1>0, <1>9, OwnQuiet DEF BeginBlob, Planned
<1>10. CASE ResolveSource
  BY <1>0, <1>1, <1>10, OwnQuiet DEF ResolveSource, Planned
<1>11. CASE WriteEntry
  BY <1>0, <1>1, <1>11, OwnQuiet DEF WriteEntry, Planned
<1>12. CASE EndBuild
  BY <1>0, <1>12, OwnQuiet DEF EndBuild, Idle, Planned
<1>13. CASE Cancel \/ Edit
  BY <1>0, <1>1, <1>13, OwnQuiet DEF Cancel, Edit, Planned
<1>14. CASE UNCHANGED vars
  BY <1>0, <1>14, OwnQuiet DEF vars, Planned
<1> QED
  BY <1>0, <1>1, <1>2, <1>3, <1>4, <1>5, <1>6, <1>7, <1>8, <1>9, <1>10, <1>11, <1>12, <1>13,
     <1>14 DEF Next, Step, OwnInv

\* A file has one owner in every build, whatever documents refer to it and however the
\* tree changes (plan.go, dependencies.go).
THEOREM EveryFileHasOneOwner == Spec => []OneOwner
<1>1. OwnInv => OneOwner
  BY DEF OwnInv
<1> QED
  BY OwnStart, OwnStep, <1>1, PTL DEF Spec

------------------------------------------------------------------------------
\* What has become of a reference in a document that has been read.
Handled(path, ref) == Closed(path, ref) \/ Target(path, ref) \in Owned(claims)

\* Every reference of an owned document is handled, or is still to be read.
Scanned ==
  steady /\ status = "discover" =>
    \A path \in Owned(result) : IsMarkdown(path) =>
      \A ref \in RefsOf(tree, path) :
        \/ Handled(path, ref)
        \/ path \in Owned(todo)
        \/ path = reading.path /\ ref \in reading.left

ScanInv ==
  /\ Shape
  /\ reading.left # {} => reading.component \in Components
  /\ Scanned
  /\ BundleClosed

LEMMA ScanStart == Init => ScanInv
<1> SUFFICES ASSUME Init PROVE ScanInv
  OBVIOUS
<1>1. Shape
  BY OwnStart DEF OwnInv
<1>2. reading.left = {} /\ Scanned /\ BundleClosed
  BY DEF Init, NoDocument, Scanned, BundleClosed, Planned
<1> QED
  BY <1>1, <1>2 DEF ScanInv

\* The union of sets that grow, or of the sums of two.
LEMMA OwnedGrows ==
  ASSUME NEW f, NEW g, \A c \in Components : f[c] \subseteq g[c]
  PROVE  Owned(f) \subseteq Owned(g)
BY DEF Owned

LEMMA OwnedSum ==
  ASSUME NEW f, NEW g
  PROVE  Owned([c \in Components |-> f[c] \cup g[c]]) = Owned(f) \cup Owned(g)
BY DEF Owned

LEMMA OwnedNothing == Owned(Nothing) = {}
BY DEF Owned, Nothing

\* Steps that end the build, come after the plan, or see an edit.
LEMMA ScanQuiet ==
  ASSUME ScanInv, Shape', UNCHANGED <<config, tree, result, reading, warnings>>,
         status' # "discover", Planned' => Planned, steady' => steady
  PROVE  ScanInv'
<1>1. Scanned'
  BY DEF Scanned
<1>2. BundleClosed'
  BY DEF ScanInv, BundleClosed, Closed
<1> QED
  BY <1>1, <1>2 DEF ScanInv

LEMMA ScanStep ==
  ASSUME ScanInv, [Next]_vars
  PROVE  ScanInv'
<1>0. Shape'
  BY ShapeStays DEF ScanInv
<1> USE DEF treeVars, walkVars, waveVars, planVars, packVars
<1>1. ASSUME NEW why, Fail(why) PROVE ScanInv'
  BY <1>0, <1>1, ScanQuiet DEF Fail, Planned
<1>2. CASE VisitFile
  <2>1. CASE status' = "walk"
    BY <1>0, <1>2, <2>1 DEF VisitFile, Fail, ScanInv, Scanned, BundleClosed, Planned
  <2> QED
    BY <1>1, <1>2, <2>1 DEF VisitFile, Visiting
<1>3. CASE VisitDirectory \/ VisitNothing \/ LeaveDirectory
  BY <1>0, <1>1, <1>3, ScanQuiet DEF VisitDirectory, VisitNothing, LeaveDirectory, Visiting, Planned
<1>4. CASE EndWalk
  <2>1. CASE /\ todo' = Documents(result) /\ status' = "discover"
             /\ UNCHANGED <<result, reading>>
    <3>1. \A path \in Owned(result) : IsMarkdown(path) => path \in Owned(todo')
      BY <2>1 DEF Documents, Owned
    <3> QED
      BY <1>0, <2>1, <3>1 DEF ScanInv, Scanned, BundleClosed, Planned
  <2> QED
    BY <1>1, <1>4, <2>1 DEF EndWalk
<1>5. ASSUME NEW c \in Components, Read(c) PROVE ScanInv'
  <2> PICK path \in todo[c] :
         \/ /\ reading' = [path |-> path, component |-> c, left |-> RefsOf(tree, path)]
            /\ todo' = [todo EXCEPT ![c] = @ \ {path}]
            /\ UNCHANGED <<treeVars, status, result, claims, warnings>>
         \/ Fail("gone")
    BY <1>5 DEF Read
  <2>1. CASE /\ reading' = [path |-> path, component |-> c, left |-> RefsOf(tree, path)]
             /\ todo' = [todo EXCEPT ![c] = @ \ {path}]
             /\ UNCHANGED <<treeVars, status, result, claims, warnings>>
    <3>1. \A p : p \in Owned(todo) => p = path \/ p \in Owned(todo')
      BY <2>1 DEF ScanInv, Shape, Owned
    <3>2. reading'.path = path /\ reading'.left = RefsOf(tree, path) /\ reading'.component = c
      BY <2>1
    <3>3. reading.left = {} /\ status = "discover"
      BY <1>5 DEF Read, Discovering
    <3>4. Scanned'
      BY <2>1, <3>1, <3>2, <3>3 DEF ScanInv, Scanned, Handled, Closed
    <3> QED
      BY <1>0, <2>1, <3>2, <3>3, <3>4 DEF ScanInv, BundleClosed, Planned
  <2> QED
    BY <1>1, <2>1
<1>6. CASE Follow
  <2> PICK ref \in reading.left :
             FollowFile(ref) \/ FollowNoFile(ref) \/ FollowNowhere(ref) \/ Ignore(ref)
    BY <1>6 DEF Follow
  <2>0. status = "discover" /\ reading.component \in Components
    BY <1>6 DEF Follow, ScanInv
  <2>1. ASSUME Drop(ref), status' = "discover", UNCHANGED <<treeVars, result, todo>>,
               Owned(claims) \subseteq Owned(claims'), warnings \subseteq warnings',
               Handled(reading.path, ref)'
        PROVE  ScanInv'
    <3>1. /\ reading'.path = reading.path /\ reading'.component = reading.component
          /\ reading'.left = reading.left \ {ref}
      BY <2>1 DEF ScanInv, Shape, Drop
    <3>2. \A p, r : Handled(p, r) => Handled(p, r)'
      BY <2>1 DEF Handled, Closed
    <3>3. Scanned'
      BY <2>0, <2>1, <3>1, <3>2 DEF ScanInv, Scanned
    <3> QED
      BY <1>0, <2>0, <2>1, <3>1, <3>3 DEF ScanInv, BundleClosed, Planned
  <2>2. CASE FollowFile(ref)
    <3> DEFINE target == Target(reading.path, ref)
    <3>1. \A d \in Components : claims[d] \subseteq claims'[d]
      BY <2>2 DEF FollowFile, ScanInv, Shape, Add
    <3>2. target \in Owned(result) \/ target \in claims'[reading.component]
      BY <2>0, <2>2 DEF FollowFile, ScanInv, Shape, Add
    <3>3. Handled(reading.path, ref)'
      BY <2>0, <2>2, <3>2 DEF FollowFile, Handled, Closed, Drop, Owned, ScanInv, Shape
    <3> QED
      BY <2>0, <2>1, <2>2, <3>1, <3>3, OwnedGrows DEF FollowFile
  <2>3. CASE FollowNoFile(ref) /\ status' = "discover"
    <3>1. Handled(reading.path, ref)'
      BY <2>0, <2>3 DEF FollowNoFile, Fail, Handled, Closed, Drop, ScanInv, Shape
    <3> QED
      BY <2>0, <2>1, <2>3, <3>1 DEF FollowNoFile, Fail
  <2>4. CASE Ignore(ref)
    <3>1. Handled(reading.path, ref)'
      BY <2>4 DEF Ignore, Handled, Closed, Drop, ScanInv, Shape
    <3> QED
      BY <2>0, <2>1, <2>4, <3>1 DEF Ignore
  <2>5. CASE FollowNowhere(ref) \/ (FollowNoFile(ref) /\ status' # "discover")
    BY <1>1, <2>0, <2>5 DEF FollowNowhere, FollowNoFile
  <2> QED
    BY <2>2, <2>3, <2>4, <2>5
<1>7. CASE EndWave
  <2>1. CASE /\ result' = [c \in Components |-> result[c] \cup claims[c]]
             /\ todo' = Documents(claims)
             /\ claims' = Nothing
             /\ status' = IF claims = Nothing THEN "settle" ELSE "discover"
             /\ UNCHANGED <<treeVars, reading, warnings>>
    <3>1. status = "discover" /\ reading.left = {} /\ Owned(todo) = {}
      BY <1>7, OwnedNothing DEF EndWave, Discovering
    <3>2. Owned(result') = Owned(result) \cup Owned(claims)
      BY <2>1, OwnedSum
    <3>3. ASSUME steady, NEW path \in Owned(result), IsMarkdown(path),
                 NEW ref \in RefsOf(tree, path)
          PROVE  Closed(path, ref)'
      <4>1. Handled(path, ref)
        BY <3>1, <3>3 DEF ScanInv, Scanned
      <4> QED
        BY <2>1, <3>2, <4>1 DEF Handled, Closed
    <3>4. \A path \in Owned(claims) : IsMarkdown(path) => path \in Owned(todo')
      BY <2>1 DEF Documents, Owned
    <3>5. Scanned'
      BY <2>1, <3>2, <3>3, <3>4 DEF Scanned, Handled
    <3>6. status' = "settle" => Owned(result') = Owned(result)
      BY <2>1, <3>2, OwnedNothing
    <3>7. BundleClosed'
      BY <2>1, <3>3, <3>6 DEF BundleClosed, Planned
    <3> QED
      BY <1>0, <2>1, <3>1, <3>5, <3>7 DEF ScanInv
  <2> QED
    BY <1>1, <1>7, <2>1 DEF EndWave
<1>8. CASE Settle
  BY <1>0, <1>1, <1>8, ScanQuiet DEF Settle, Planned
<1>9. ASSUME NEW c \in Components, BeginBlob(c) PROVE ScanInv'
  BY <1>0, <1>9, ScanQuiet DEF BeginBlob, Idle, Planned
<1>10. CASE ResolveSource
  BY <1>0, <1>1, <1>10, ScanQuiet DEF ResolveSource, Planned
<1>11. CASE WriteEntry
  BY <1>0, <1>1, <1>11, ScanQuiet DEF WriteEntry, Planned
<1>12. CASE EndBuild
  BY <1>0, <1>12, ScanQuiet DEF EndBuild, Idle, Planned
<1>13. CASE Cancel
  BY <1>1, <1>13 DEF Cancel
<1>14. CASE Edit
  BY <1>0, <1>14 DEF Edit, ScanInv, Scanned, BundleClosed
<1>15. CASE UNCHANGED vars
  BY <1>0, <1>15 DEF vars, ScanInv, Scanned, BundleClosed, Handled, Closed, Planned
<1> QED
  BY <1>1, <1>2, <1>3, <1>4, <1>5, <1>6, <1>7, <1>8, <1>9, <1>10, <1>11, <1>12, <1>13, <1>14,
     <1>15 DEF Next, Step

\* The references of a plan lead to what is planned, to what is ignored, or have been
\* warned of, in trees that stand still (dependencies.go).
THEOREM BundlesAreClosed == Spec => []BundleClosed
<1>1. ScanInv => BundleClosed
  BY DEF ScanInv
<1> QED
  BY ScanStart, ScanStep, <1>1, PTL DEF Spec

------------------------------------------------------------------------------
LEMMA SmallestIsElement ==
  ASSUME NEW S \in SUBSET Nat, S # {}
  PROVE  Min(S) \in S
<1> DEFINE Less == {ss \in Nat \X Nat : ss[1] < ss[2]}
<1>1. IsWellFoundedOn(Less, Nat)
  BY NatLessThanWellFounded DEF OpToRel
<1>2. \A x, y \in Nat : y < x => <<y, x>> \in Less
  OBVIOUS
<1> HIDE DEF Less
<1>3. PICK x \in S : \A y \in S : ~(<<y, x>> \in Less)
  BY <1>1, WFMin
<1>4. \A y \in S : x =< y
  <2> TAKE y \in S
  <2>1. x \in Nat /\ y \in Nat /\ ~(<<y, x>> \in Less)
    BY <1>3
  <2>2. ~(y < x)
    BY <1>2, <2>1, Zenon
  <2> QED
    BY <2>1, <2>2
<1>5. \E z \in S : \A y \in S : z =< y
  BY <1>4
<1> QED
  BY <1>5, Zenon DEF Min

LEMMA DetectedIsAmong ==
  ASSUME NEW c, NEW files, Detected(c, files) # <<>>
  PROVE  Detected(c, files) \in files
<1> DEFINE hits == {i \in 1..Len(Preferred[c]) : Preferred[c][i] \in files}
           first == SelectInSeq(Preferred[c], LAMBDA p : p \in files)
<1>1. first = IF hits # {} THEN Min(hits) ELSE 0
  BY DEF SelectInSeq
<1>2. Detected(c, files) = IF first = 0 THEN <<>> ELSE Preferred[c][first]
  BY DEF Detected
<1>3. hits \in SUBSET Nat
  OBVIOUS
<1> HIDE DEF first
<1>4. first \in hits
  BY <1>1, <1>2, <1>3, SmallestIsElement
<1> QED
  BY <1>2, <1>4

LEMMA EntrypointIsPlanned ==
  ASSUME NEW c, Set(c) => config.entry[c] \in result[c], Entrypoint(c) # <<>>
  PROVE  Entrypoint(c) \in result[c]
BY DetectedIsAmong DEF Entrypoint

\* A locale's entrypoint, wherever it comes from, is one of the locale's documents.
LEMMA LocaleEntrypointIsAmong ==
  ASSUME NEW c, NEW i, ~Astray(c, i), LocaleEntrypoint(c, i) # <<>>
  PROVE  LocaleEntrypoint(c, i) \in LocaleFiles(c, i)
<1> DEFINE files == LocaleFiles(c, i)
           own == config.locales[c][i].entry
<1>1. files # {}
  BY DEF LocaleEntrypoint
<1>2. CASE own # <<>>
  BY <1>1, <1>2 DEF LocaleEntrypoint, Astray
<1>3. CASE own = <<>> /\ Entrypoint(c) \in files
  BY <1>1, <1>3 DEF LocaleEntrypoint
<1>4. CASE own = <<>> /\ Entrypoint(c) \notin files
  <2>1. LocaleEntrypoint(c, i) = Detected(c, files)
    BY <1>1, <1>4 DEF LocaleEntrypoint
  <2> QED
    BY <2>1, DetectedIsAmong
<1> QED
  BY <1>2, <1>3, <1>4

LEMMA DefaultIsDeclared ==
  ASSUME config \in Configs, NEW c \in Components, Keys(c) # {}
  PROVE  DefaultLocale(c) \in Keys(c)
<1> DEFINE declared == config.locales[c]
           hits == {i \in 1..Len(declared) : declared[i].default}
           first == SelectInSeq(declared, LAMBDA locale : locale.default)
<1>0. Keys(c) = 1..Len(declared) /\ Len(declared) \in Nat
  BY PlanAssumption DEF Keys
<1>1. first = IF hits # {} THEN Min(hits) ELSE 0
  BY DEF SelectInSeq
<1>2. DefaultLocale(c) = IF first = 0 THEN 1 ELSE first
  BY DEF DefaultLocale
<1>3. hits \in SUBSET Nat
  OBVIOUS
<1> HIDE DEF first
<1>4. first = 0 \/ first \in 1..Len(declared)
  BY <1>1, <1>3, SmallestIsElement
<1> QED
  BY <1>0, <1>2, <1>4

LEMMA Firsts ==
  ASSUME NEW S
  PROVE  /\ {s[1] : s \in {}} = {}
         /\ \A x, y : {s[1] : s \in S \cup {<<x, y>>}} = {s[1] : s \in S} \cup {x}
<1>1. {s[1] : s \in {}} = {}
  OBVIOUS
<1>2. ASSUME NEW x, NEW y
      PROVE  {s[1] : s \in S \cup {<<x, y>>}} = {s[1] : s \in S} \cup {x}
  <2>1. <<x, y>>[1] = x
    OBVIOUS
  <2> QED
    BY <2>1
<1> QED
  BY <1>1, <1>2

\* Before the first blob nothing is packed.  Of the component in hand, each path is still
\* to be resolved, to be written, or packed; of the others all are packed, or none.
Packed ==
  /\ status \in {"walk", "discover", "settle"} =>
       packed = Nothing /\ packing = NoComponent /\ pending = {} /\ sources = {}
  /\ status = "assemble" =>
       \A c \in Components :
         IF c = packing THEN packed[c] \cup pending \cup {s[1] : s \in sources} = result[c]
         ELSE packed[c] \in {{}, result[c]}
  /\ status = "assemble" /\ packing \notin Components => pending = {} /\ sources = {}

Entered == status \in {"assemble", "built"} =>
             \A c \in Components : entry[c] # <<>> => entry[c] \in result[c]

\* The locales speak of what is owned, and one of them is the default.
Localised ==
  status \in {"assemble", "built"} =>
    \A c \in Components :
      /\ \A i \in DOMAIN locales[c] : LocaleHolds(locales[c][i], result[c])
      /\ locales[c] # <<>> =>
           \E i \in DOMAIN locales[c] : \A j \in DOMAIN locales[c] :
             locales[c][j].default <=> j = i

PackInv ==
  /\ Shape /\ Packed /\ Entered /\ Localised
  /\ config \in Configs
  /\ status = "built" => packed = result

LEMMA PackStart == Init => PackInv
<1> SUFFICES ASSUME Init PROVE PackInv
  OBVIOUS
<1>1. Shape
  BY OwnStart DEF OwnInv
<1> QED
  BY <1>1 DEF Init, PackInv, Packed, Entered, Localised

\* The plan is not yet settled, or all is over.
LEMMA PackQuiet ==
  ASSUME PackInv, Shape',
         \/ status' = "failed" /\ UNCHANGED config
         \/ /\ {status, status'} \subseteq {"walk", "discover", "settle"}
            /\ UNCHANGED <<config, packVars>>
         \/ UNCHANGED <<status, config, result, planVars, packVars>>
  PROVE  PackInv'
BY DEF PackInv, Packed, Entered, Localised, planVars, packVars

LEMMA PackStep ==
  ASSUME PackInv, [Next]_vars
  PROVE  PackInv'
<1>0. Shape'
  BY ShapeStays DEF PackInv
<1> USE DEF treeVars, walkVars, waveVars, planVars, packVars
<1>1. ASSUME NEW why, Fail(why) PROVE PackInv'
  BY <1>0, <1>1, PackQuiet DEF Fail
<1>2. CASE VisitFile \/ VisitDirectory \/ VisitNothing \/ LeaveDirectory \/ EndWalk
  BY <1>0, <1>1, <1>2, PackQuiet DEF VisitFile, VisitDirectory, VisitNothing, LeaveDirectory,
     EndWalk, Visiting
<1>3. ASSUME NEW c \in Components, Read(c) PROVE PackInv'
  BY <1>0, <1>1, <1>3, PackQuiet DEF Read, Discovering
<1>4. CASE Follow
  BY <1>0, <1>1, <1>4, PackQuiet DEF Follow, FollowFile, FollowNoFile, FollowNowhere, Ignore
<1>5. CASE EndWave
  BY <1>0, <1>1, <1>5, PackQuiet DEF EndWave, Discovering
<1>6. CASE Settle
  <2>1. CASE \E why : Fail(why)
    BY <1>1, <2>1
  <2>2. CASE /\ \A c \in Components : Set(c) => config.entry[c] \in result[c]
             /\ \A c \in Components : \A i \in Keys(c) : ~Astray(c, i)
             /\ entry' = [c \in Components |-> Entrypoint(c)]
             /\ locales' = [c \in Components |-> [i \in Keys(c) |-> LocalePlan(c, i)]]
             /\ status' = "assemble"
             /\ UNCHANGED <<config, result, packVars>>
    <3>1. Entered'
      BY <2>2, EntrypointIsPlanned DEF Entered
    <3>2. Localised'
      <4> SUFFICES ASSUME NEW c \in Components
                   PROVE  /\ \A i \in DOMAIN locales'[c] : LocaleHolds(locales'[c][i], result'[c])
                          /\ locales'[c] # <<>> =>
                               \E i \in DOMAIN locales'[c] : \A j \in DOMAIN locales'[c] :
                                 locales'[c][j].default <=> j = i
        BY DEF Localised
      <4>1. locales'[c] = [i \in Keys(c) |-> LocalePlan(c, i)]
        BY <2>2
      <4>2. ASSUME NEW i \in Keys(c) PROVE LocaleHolds(LocalePlan(c, i), result[c])
        BY <2>2, <4>2, LocaleEntrypointIsAmong DEF LocaleHolds, LocalePlan, LocaleFiles
      <4>3. ASSUME NEW j \in Keys(c)
            PROVE  locales'[c][j].default <=> j = DefaultLocale(c)
        <5>1. locales'[c][j] = LocalePlan(c, j)
          BY <4>1
        <5>2. LocalePlan(c, j).default = (j = DefaultLocale(c))
          BY DEF LocalePlan
        <5> QED
          BY <5>1, <5>2, Zenon
      <4>4. Keys(c) = {} => locales'[c] = <<>>
        BY <4>1
      <4>5. Keys(c) # {} => DefaultLocale(c) \in Keys(c)
        BY DefaultIsDeclared DEF PackInv
      <4> QED
        BY <2>2, <4>1, <4>2, <4>3, <4>4, <4>5
    <3>3. packed = Nothing /\ packing = NoComponent /\ pending = {} /\ sources = {}
      BY <1>6 DEF Settle, PackInv, Packed
    <3>4. Packed' /\ status' # "built"
      <4>1. \A c \in Components : packed[c] = {}
        BY <3>3 DEF Nothing
      <4> QED
        BY <2>2, <3>3, <4>1, PlanAssumption DEF Packed
    <3> QED
      BY <1>0, <2>2, <3>1, <3>2, <3>4 DEF PackInv
  <2> QED
    BY <1>6, <2>1, <2>2 DEF Settle
<1>7. ASSUME NEW c \in Components, BeginBlob(c) PROVE PackInv'
  <2>1. Packed'
    BY <1>7, Firsts DEF BeginBlob, Idle, PackInv, Packed
  <2> QED
    BY <1>0, <1>7, <2>1 DEF BeginBlob, Idle, PackInv, Entered, Localised
<1>8. CASE ResolveSource
  <2> DEFINE path == CHOOSE p \in pending : TRUE
  <2>1. path \in pending /\ status = "assemble"
    BY <1>8 DEF ResolveSource
  <2>2. ASSUME NEW place, sources' = sources \cup {<<path, place>>}, pending' = pending \ {path},
               UNCHANGED <<status, config, result, planVars, packing, packed>>
        PROVE  PackInv'
    <3>1. {s[1] : s \in sources'} = {s[1] : s \in sources} \cup {path}
      BY <2>2, Firsts
    <3>2. Packed'
      BY <2>1, <2>2, <3>1 DEF PackInv, Packed
    <3> QED
      BY <1>0, <2>1, <2>2, <3>2 DEF PackInv, Entered, Localised
  <2> QED
    BY <1>1, <1>8, <2>2 DEF ResolveSource
<1>9. CASE WriteEntry
  <2> DEFINE source == CHOOSE s \in sources : TRUE
  <2>1. source \in sources /\ status = "assemble" /\ packing \in Components
    BY <1>9 DEF WriteEntry, PackInv, Packed
  <2>2. ASSUME packed' = Add(packed, packing, source[1]), sources' = sources \ {source},
               UNCHANGED <<status, config, result, planVars, packing, pending>>
        PROVE  PackInv'
    <3>1. {s[1] : s \in sources} = {s[1] : s \in sources'} \cup {source[1]}
      BY <2>1, <2>2
    <3>2. \A c \in Components :
             packed'[c] = IF c = packing THEN packed[c] \cup {source[1]} ELSE packed[c]
      BY <2>2 DEF Add, PackInv, Shape
    <3>3. Packed'
      BY <2>1, <2>2, <3>1, <3>2 DEF PackInv, Packed
    <3> QED
      BY <1>0, <2>1, <2>2, <3>3 DEF PackInv, Entered, Localised
  <2> QED
    BY <1>1, <1>9, <2>2 DEF WriteEntry
<1>10. CASE EndBuild
  <2>1. \A c \in Components : packed[c] = result[c]
    BY <1>10, Firsts DEF EndBuild, Idle, PackInv, Packed
  <2>2. packed = result
    BY <2>1 DEF PackInv, Shape
  <2> QED
    BY <1>0, <1>10, <2>2 DEF EndBuild, Idle, PackInv, Packed, Entered, Localised
<1>11. CASE Cancel
  BY <1>1, <1>11 DEF Cancel
<1>12. CASE Edit
  BY <1>0, <1>12, PackQuiet DEF Edit
<1>13. CASE UNCHANGED vars
  BY <1>0, <1>13, PackQuiet DEF vars
<1> QED
  BY <1>1, <1>2, <1>3, <1>4, <1>5, <1>6, <1>7, <1>8, <1>9, <1>10, <1>11, <1>12, <1>13 DEF Next, Step

\* What a build has packed is what it planned, and agrees with the config it writes, in
\* all that verification looks at (component.go, manifest.go, verify.go).
THEOREM BuildsVerify == Spec => []BuiltVerifies
<1>1. OwnInv /\ PackInv => BuiltVerifies
  <2> SUFFICES ASSUME OwnInv, PackInv, status = "built" PROVE BuiltVerifies
    BY DEF BuiltVerifies
  <2>1. packed = result /\ ~Collision(packed)
    BY DEF PackInv, OwnInv, OneOwner, Planned
  <2>2. DOMAIN ArtifactConfig = {c \in Components : packed[c] # {}}
    BY <2>1 DEF ArtifactConfig
  <2>3. ASSUME NEW c \in DOMAIN ArtifactConfig
        PROVE  /\ ArtifactConfig[c].entry = entry[c]
               /\ ArtifactConfig[c].locales = locales[c]
               /\ c \in Components
    BY <2>3 DEF ArtifactConfig
  <2> QED
    BY <2>1, <2>2, <2>3 DEF BuiltVerifies, PackInv, Entered, Localised
<1> QED
  BY OwnStart, OwnStep, PackStart, PackStep, <1>1, PTL DEF Spec

------------------------------------------------------------------------------
\* S holds what the rules match and is closed under references, in the tree as it is.
Saturated(S) ==
  /\ \A path : /\ Kind(tree, path) = "file"
              /\ path \notin config.ignored
              /\ Owners(path) # {}
              => path \in S
  /\ \A path \in S : IsMarkdown(path) =>
       \A ref \in RefsOf(tree, path) :
         LET target == Target(path, ref)
         IN  /\ ~Escapes(path, ref)
             /\ Kind(tree, target) = "file"
             /\ target \notin config.ignored
             => target \in S

\* All that is owned, claimed or read comes from S.
FoundIn(S) ==
  /\ Owned(result) \cup Owned(claims) \cup Owned(todo) \subseteq S
  /\ \A path \in Owned(todo) : IsMarkdown(path)
  /\ reading.left # {} => /\ reading.path \in S
                          /\ IsMarkdown(reading.path)
                          /\ reading.left \subseteq RefsOf(tree, reading.path)

LeastInv(S) == Shape /\ (steady /\ Saturated(S) => FoundIn(S))

LEMMA LeastStart ==
  ASSUME NEW S, Init
  PROVE  LeastInv(S)
<1>1. Shape
  BY OwnStart DEF OwnInv
<1>2. FoundIn(S)
  BY OwnedNothing DEF Init, NoDocument, FoundIn
<1> QED
  BY <1>1, <1>2 DEF LeastInv

LEMMA LeastQuiet ==
  ASSUME NEW S, LeastInv(S), Shape',
         UNCHANGED <<config, tree, result, claims, todo, reading>>, steady' => steady
  PROVE  LeastInv(S)'
BY DEF LeastInv, Saturated, FoundIn, Owners

LEMMA LeastStep ==
  ASSUME NEW S, LeastInv(S), [Next]_vars
  PROVE  LeastInv(S)'
<1>0. Shape'
  BY ShapeStays DEF LeastInv
<1> USE DEF treeVars, walkVars, waveVars, planVars, packVars
<1>1. ASSUME NEW why, Fail(why) PROVE LeastInv(S)'
  BY <1>0, <1>1, LeastQuiet DEF Fail
<1>3. CASE VisitFile
  <2>1. CASE \E why : Fail(why)
    BY <1>1, <2>1
  <2>2. CASE ~ \E why : Fail(why)
    <3>1. UNCHANGED <<config, tree, steady, claims, todo, reading>>
      BY <1>3, <2>2 DEF VisitFile
    <3>2. ASSUME Saturated(S), NEW c \in Components PROVE result'[c] \subseteq result[c] \cup S
      <4>1. CASE Visited \in S
        BY <1>3, <2>2, <4>1 DEF VisitFile, LeastInv, Shape
      <4>2. CASE Visited \notin S
        <5>1. Visited \in config.ignored \/ Owners(Visited) = {}
          BY <1>3, <3>2, <4>2 DEF VisitFile, Saturated
        <5> QED
          BY <1>3, <2>2, <5>1 DEF VisitFile, LeastInv, Shape
      <4> QED
        BY <4>1, <4>2
    <3>3. Saturated(S) => Owned(result') \subseteq Owned(result) \cup S
      BY <3>2 DEF Owned
    <3> QED
      BY <1>0, <3>1, <3>3 DEF LeastInv, Saturated, Owners, FoundIn
  <2> QED
    BY <2>1, <2>2
<1>4. CASE VisitDirectory \/ VisitNothing \/ LeaveDirectory
  BY <1>0, <1>1, <1>4, LeastQuiet DEF VisitDirectory, VisitNothing, LeaveDirectory
<1>5. CASE EndWalk
  <2>1. CASE todo' = Documents(result) /\ UNCHANGED <<treeVars, result, claims, reading>>
    <3>1. Owned(todo') \subseteq Owned(result) /\ \A path \in Owned(todo') : IsMarkdown(path)
      BY <2>1 DEF Documents, Owned
    <3> QED
      BY <1>0, <2>1, <3>1 DEF LeastInv, Saturated, Owners, FoundIn
  <2> QED
    BY <1>1, <1>5, <2>1 DEF EndWalk
<1>6. ASSUME NEW c \in Components, Read(c) PROVE LeastInv(S)'
  <2> PICK path \in todo[c] :
         \/ /\ reading' = [path |-> path, component |-> c, left |-> RefsOf(tree, path)]
            /\ todo' = [todo EXCEPT ![c] = @ \ {path}]
            /\ UNCHANGED <<treeVars, result, claims>>
         \/ Fail("gone")
    BY <1>6 DEF Read
  <2>1. CASE /\ reading' = [path |-> path, component |-> c, left |-> RefsOf(tree, path)]
             /\ todo' = [todo EXCEPT ![c] = @ \ {path}]
             /\ UNCHANGED <<treeVars, result, claims>>
    <3>1. path \in Owned(todo) /\ Owned(todo') \subseteq Owned(todo)
      BY <2>1 DEF LeastInv, Shape, Owned
    <3>2. reading'.path = path /\ reading'.left = RefsOf(tree, path)
      BY <2>1
    <3> QED
      BY <1>0, <2>1, <3>1, <3>2 DEF LeastInv, Saturated, Owners, FoundIn
  <2> QED
    BY <1>1, <2>1
<1>7. CASE Follow
  <2> PICK ref \in reading.left :
             FollowFile(ref) \/ FollowNoFile(ref) \/ FollowNowhere(ref) \/ Ignore(ref)
    BY <1>7 DEF Follow
  <2>1. ASSUME Drop(ref), UNCHANGED <<treeVars, result, todo>>,
               Saturated(S) /\ FoundIn(S) => Owned(claims') \subseteq Owned(claims) \cup S
        PROVE  LeastInv(S)'
    <3>1. reading'.path = reading.path /\ reading'.left = reading.left \ {ref}
      BY <2>1 DEF LeastInv, Shape, Drop
    <3> QED
      BY <1>0, <2>1, <3>1 DEF LeastInv, Saturated, Owners, FoundIn
  <2>2. CASE FollowFile(ref)
    <3> DEFINE target == Target(reading.path, ref)
    <3>1. Saturated(S) /\ FoundIn(S) => target \in S
      BY <2>2 DEF FollowFile, Followed, Saturated, FoundIn
    <3>2. \A c \in Components : claims'[c] \subseteq claims[c] \cup {target}
      BY <2>2 DEF FollowFile, LeastInv, Shape, Add
    <3>3. Owned(claims') \subseteq Owned(claims) \cup {target}
      BY <3>2 DEF Owned
    <3> QED
      BY <2>1, <2>2, <3>1, <3>3 DEF FollowFile
  <2>3. CASE FollowNoFile(ref)
    BY <1>1, <2>1, <2>3 DEF FollowNoFile
  <2>4. CASE Ignore(ref) \/ FollowNowhere(ref)
    BY <1>1, <2>1, <2>4 DEF Ignore, FollowNowhere
  <2> QED
    BY <2>2, <2>3, <2>4
<1>8. CASE EndWave
  <2>1. CASE /\ result' = [c \in Components |-> result[c] \cup claims[c]]
             /\ todo' = Documents(claims)
             /\ claims' = Nothing
             /\ UNCHANGED <<treeVars, reading>>
    <3>1. Owned(result') = Owned(result) \cup Owned(claims) /\ Owned(claims') = {}
      BY <2>1, OwnedSum, OwnedNothing
    <3>2. Owned(todo') \subseteq Owned(claims) /\ \A path \in Owned(todo') : IsMarkdown(path)
      BY <2>1 DEF Documents, Owned
    <3> QED
      BY <1>0, <2>1, <3>1, <3>2 DEF LeastInv, Saturated, Owners, FoundIn
  <2> QED
    BY <1>1, <1>8, <2>1 DEF EndWave
<1>9. CASE Settle
  BY <1>0, <1>1, <1>9, LeastQuiet DEF Settle
<1>10. ASSUME NEW c \in Components, BeginBlob(c) PROVE LeastInv(S)'
  BY <1>0, <1>10, LeastQuiet DEF BeginBlob
<1>11. CASE ResolveSource
  BY <1>0, <1>1, <1>11, LeastQuiet DEF ResolveSource
<1>12. CASE WriteEntry
  BY <1>0, <1>1, <1>12, LeastQuiet DEF WriteEntry
<1>13. CASE EndBuild \/ Cancel
  BY <1>0, <1>1, <1>13, LeastQuiet DEF EndBuild, Cancel
<1>14. CASE Edit
  BY <1>0, <1>14 DEF Edit, LeastInv
<1>15. CASE UNCHANGED vars
  BY <1>0, <1>15, LeastQuiet DEF vars
<1> QED
  BY <1>1, <1>3, <1>4, <1>5, <1>6, <1>7, <1>8, <1>9, <1>10, <1>11, <1>12, <1>13, <1>14, <1>15
     DEF Next, Step

\* A plan holds nothing but what every set holds that contains the files of the rules and
\* is closed under references: with BundlesAreClosed, it is the least of them
\* (dependencies.go).
THEOREM PlansAreLeast ==
  ASSUME NEW S
  PROVE  Spec => [](steady /\ Saturated(S) => Owned(result) \subseteq S)
<1>1. Init => LeastInv(S)
  BY LeastStart
<1>2. LeastInv(S) /\ [Next]_vars => LeastInv(S)'
  BY LeastStep
<1>3. LeastInv(S) => (steady /\ Saturated(S) => Owned(result) \subseteq S)
  BY DEF LeastInv, FoundIn
<1> QED
  BY <1>1, <1>2, <1>3, PTL DEF Spec

------------------------------------------------------------------------------
(***************************************************************************)
(* What a path leads to: the recursion of Resolve, unfolded.               *)
(***************************************************************************)
IsTree(t) == t \in [DOMAIN t -> Object]

LEMMA SmallestExists ==
  ASSUME NEW S \in SUBSET Nat, S # {}
  PROVE  \E x \in S : \A y \in S : x =< y
<1> DEFINE Less == {ss \in Nat \X Nat : ss[1] < ss[2]}
<1>1. IsWellFoundedOn(Less, Nat)
  BY NatLessThanWellFounded DEF OpToRel
<1>2. \A x, y \in Nat : y < x => <<y, x>> \in Less
  OBVIOUS
<1> HIDE DEF Less
<1>3. PICK x \in S : \A y \in S : ~(<<y, x>> \in Less)
  BY <1>1, WFMin
<1>4. \A y \in S : x =< y
  <2> TAKE y \in S
  <2>1. x \in Nat /\ y \in Nat /\ ~(<<y, x>> \in Less)
    BY <1>3
  <2>2. ~(y < x)
    BY <1>2, <2>1, Zenon
  <2> QED
    BY <2>1, <2>2
<1> QED
  BY <1>4

LEMMA AtTyped ==
  ASSUME NEW t, IsTree(t), NEW place
  PROVE  /\ At(t, place) \in Object
         /\ At(t, place).kind \in {"absent", "special", "directory", "link", "file"}
         /\ At(t, place).kind = "link" => At(t, place).to \in Path
         /\ At(t, place).kind = "file" => At(t, place).refs \subseteq Reference
         /\ At(t, place).kind # "absent" => place \in DOMAIN t /\ At(t, place) = t[place]
<1>1. At(t, place) \in Object
  BY DEF At, IsTree, Object
<1> QED
  BY <1>1 DEF Object, Absent, Special, Directory, At

LEMMA ForwardTyped ==
  ASSUME NEW t, IsTree(t), NEW w \in Way, GoesOn(t, w)
  PROVE  /\ Forward(t, w) \in Way
         /\ Ahead(w) \in Path
         /\ \/ /\ At(t, Ahead(w)).kind = "directory"
               /\ Forward(t, w).links = w.links /\ Forward(t, w).at = Ahead(w)
               /\ Forward(t, w).rest = Tail(w.rest)
               /\ Len(Forward(t, w).rest) < Len(w.rest)
            \/ /\ At(t, Ahead(w)).kind = "link" /\ w.links > 0
               /\ Forward(t, w).links = w.links - 1 /\ Forward(t, w).at = <<>>
               /\ Forward(t, w).rest = At(t, Ahead(w)).to \o Tail(w.rest)
<1>1. w.links \in Nat /\ w.at \in Path /\ w.rest \in Path /\ w.rest # <<>>
      /\ w = [links |-> w.links, at |-> w.at, rest |-> w.rest]
  BY DEF Way, GoesOn
<1>2. /\ Head(w.rest) \in Names /\ Tail(w.rest) \in Path /\ Len(Tail(w.rest)) = Len(w.rest) - 1
      /\ Len(w.rest) \in Nat
  BY <1>1, HeadTailProperties, LenProperties DEF Path
<1>3. Ahead(w) \in Path
  BY <1>1, <1>2, AppendProperties DEF Ahead, Path
<1>4. CASE At(t, Ahead(w)).kind = "directory"
  <2>1. Forward(t, w) = [links |-> w.links, at |-> Ahead(w), rest |-> Tail(w.rest)]
    BY <1>1, <1>4 DEF Forward
  <2> QED
    BY <1>1, <1>2, <1>3, <1>4, <2>1 DEF Way
<1>5. CASE At(t, Ahead(w)).kind = "link" /\ w.links > 0
  <2>1. Forward(t, w) = [links |-> w.links - 1, at |-> <<>>,
                         rest |-> At(t, Ahead(w)).to \o Tail(w.rest)]
    BY <1>5 DEF Forward
  <2>2. At(t, Ahead(w)).to \in Path
    BY <1>5, AtTyped
  <2>3. At(t, Ahead(w)).to \o Tail(w.rest) \in Path /\ <<>> \in Path
    BY <1>2, <2>2, ConcatProperties DEF Path
  <2> QED
    BY <1>1, <1>3, <1>5, <2>1, <2>3 DEF Way
<1> QED
  BY <1>4, <1>5 DEF GoesOn

\* A way ends: each step takes a name from it, or one of the links.
LEMMA WayInduction ==
  ASSUME NEW t, IsTree(t), NEW G,
         \A w \in Way : (GoesOn(t, w) => Forward(t, w) \in G) => w \in G
  PROVE  Way \subseteq G
<1> DEFINE Bad == {w \in Way : w \notin G}
           Links == {w.links : w \in Bad}
<1> SUFFICES ASSUME Bad # {} PROVE FALSE
  OBVIOUS
<1>0. \A w \in Way : w.links \in Nat /\ Len(w.rest) \in Nat
  BY LenProperties DEF Way, Path
<1>1. Links \in SUBSET Nat /\ Links # {}
  BY <1>0
<1>2. PICK l \in Links : \A k \in Links : l =< k
  BY <1>1, SmallestExists
<1> DEFINE Lengths == {Len(w.rest) : w \in {v \in Bad : v.links = l}}
<1>3. Lengths \in SUBSET Nat /\ Lengths # {}
  BY <1>0, <1>2
<1>4. PICK m \in Lengths : \A k \in Lengths : m =< k
  <2> HIDE DEF Lengths
  <2> QED
    BY <1>3, SmallestExists
<1>5. PICK w \in Bad : w.links = l /\ Len(w.rest) = m
  BY <1>4
<1>6. ASSUME GoesOn(t, w) PROVE Forward(t, w) \in G
  <2> DEFINE v == Forward(t, w)
  <2>1. v \in Way
    BY <1>6, ForwardTyped
  <2>2. v.links < w.links \/ (v.links = w.links /\ Len(v.rest) < Len(w.rest))
    <3>1. \/ v.links = w.links /\ Len(v.rest) < Len(w.rest)
          \/ v.links = w.links - 1
      BY <1>6, ForwardTyped
    <3> HIDE DEF v
    <3> QED
      BY <1>0, <1>5, <3>1
  <2> HIDE DEF v
  <2>3. v \in Bad => l =< v.links /\ (v.links = l => m =< Len(v.rest))
    BY <1>2, <1>4
  <2>4. v \notin Bad
    BY <1>0, <1>5, <2>1, <2>2, <2>3
  <2> QED
    BY <2>1, <2>4 DEF v
<1> QED
  BY <1>5, <1>6

Eval(t) ==
  CHOOSE f : f = [way \in Way |-> IF GoesOn(t, way) THEN f[Forward(t, way)] ELSE Arrived(t, way)]

\* A function that follows a way to its end exists: a value is an end of way w if every
\* set of pairs holds it that is closed under steps back.
LEMMA EvalUnfolds ==
  ASSUME NEW t, IsTree(t), NEW w \in Way
  PROVE  Eval(t)[w] = IF GoesOn(t, w) THEN Eval(t)[Forward(t, w)] ELSE Arrived(t, w)
<1> DEFINE Ends == {Arrived(t, v) : v \in Way}
           Closed1(C) == \A v \in Way, r \in Ends :
                           /\ ~GoesOn(t, v) /\ r = Arrived(t, v) => <<v, r>> \in C
                           /\ GoesOn(t, v) /\ <<Forward(t, v), r>> \in C => <<v, r>> \in C
           EndsOf(v) == {r \in Ends : \A C \in SUBSET (Way \X Ends) : Closed1(C) => <<v, r>> \in C}
           g == [v \in Way |-> CHOOSE r : r \in EndsOf(v)]
           Is(f) == f = [way \in Way |-> IF GoesOn(t, way) THEN f[Forward(t, way)]
                                         ELSE Arrived(t, way)]
<1>1. ASSUME NEW v \in Way, ~GoesOn(t, v) PROVE EndsOf(v) = {Arrived(t, v)}
  <2>1. Arrived(t, v) \in EndsOf(v)
    BY <1>1
  <2>2. ASSUME NEW r \in EndsOf(v), r # Arrived(t, v) PROVE FALSE
    <3> DEFINE D == (Way \X Ends) \ {<<v, r>>}
    <3>1. ASSUME NEW u \in Way, NEW s \in Ends
          PROVE  /\ ~GoesOn(t, u) /\ s = Arrived(t, u) => <<u, s>> \in D
                 /\ GoesOn(t, u) /\ <<Forward(t, u), s>> \in D => <<u, s>> \in D
      <4> HIDE DEF Ends
      <4> QED
        BY <1>1, <2>2
    <3>3. Closed1(D)
      <4> HIDE DEF D, Ends
      <4> QED
        BY <3>1, Zenon
    <3>2. D \in SUBSET (Way \X Ends) /\ <<v, r>> \notin D
      OBVIOUS
    <3> HIDE DEF D, Closed1
    <3> QED
      BY <2>2, <3>2, <3>3
  <2> HIDE DEF EndsOf
  <2> QED
    BY <2>1, <2>2
<1>2. ASSUME NEW v \in Way, GoesOn(t, v) PROVE EndsOf(v) = EndsOf(Forward(t, v))
  <2>1. ASSUME NEW r \in EndsOf(Forward(t, v)) PROVE r \in EndsOf(v)
    BY <1>2, <2>1
  <2>2. ASSUME NEW r \in EndsOf(v), NEW C \in SUBSET (Way \X Ends), Closed1(C),
               <<Forward(t, v), r>> \notin C
        PROVE  FALSE
    <3> DEFINE D == C \ {<<v, r>>}
    <3>1. ASSUME NEW u \in Way, NEW s \in Ends
          PROVE  /\ ~GoesOn(t, u) /\ s = Arrived(t, u) => <<u, s>> \in D
                 /\ GoesOn(t, u) /\ <<Forward(t, u), s>> \in D => <<u, s>> \in D
      <4> HIDE DEF Ends
      <4> QED
        BY <1>2, <2>2
    <3>3. Closed1(D)
      <4> HIDE DEF D, Ends
      <4> QED
        BY <3>1, Zenon
    <3>2. D \in SUBSET (Way \X Ends) /\ <<v, r>> \notin D
      OBVIOUS
    <3> HIDE DEF D, Closed1
    <3> QED
      BY <2>2, <3>2, <3>3
  <2>3. ASSUME NEW r \in EndsOf(v) PROVE r \in EndsOf(Forward(t, v))
    <3>1. r \in Ends
      BY <2>3
    <3> HIDE DEF Closed1, Ends
    <3> QED
      BY <2>2, <2>3, <3>1
  <2> HIDE DEF EndsOf
  <2> QED
    BY <2>1, <2>3
<1>3. \A v \in Way : g[v] = IF GoesOn(t, v) THEN g[Forward(t, v)] ELSE Arrived(t, v)
  <2> HIDE DEF EndsOf
  <2>1. \A v \in Way : g[v] = CHOOSE r : r \in EndsOf(v)
    OBVIOUS
  <2> HIDE DEF g
  <2>2. ASSUME NEW v \in Way, GoesOn(t, v) PROVE g[v] = g[Forward(t, v)]
    BY <1>2, <2>1, <2>2, ForwardTyped
  <2>3. ASSUME NEW v \in Way, ~GoesOn(t, v) PROVE g[v] = Arrived(t, v)
    BY <1>1, <2>1, <2>3
  <2> QED
    BY <2>2, <2>3
<1>4. Is(g)
  <2> HIDE DEF EndsOf
  <2>1. g = [v \in Way |-> g[v]]
    OBVIOUS
  <2> HIDE DEF g
  <2> QED
    BY <1>3, <2>1, Zenon
<1>5. Is(CHOOSE f : Is(f))
  <2> HIDE DEF Is, g
  <2> QED
    BY <1>4
<1>6. Eval(t) = CHOOSE f : Is(f)
  BY DEF Eval
<1>7. PICK f : f = Eval(t) /\ Is(f)
  BY <1>5, <1>6
<1>8. f[w] = IF GoesOn(t, w) THEN f[Forward(t, w)] ELSE Arrived(t, w)
  BY <1>7, Zenon
<1> QED
  BY <1>7, <1>8

LEMMA ResolveIsEval ==
  ASSUME NEW t, NEW path
  PROVE  Resolve(t, path) = Eval(t)[[links |-> MaxLinks, at |-> <<>>, rest |-> path]]
BY DEF Resolve, Eval

\* Sequences: a name moved from one to the other, and one set behind others.
LEMMA SumsAssociate ==
  ASSUME NEW S
  PROVE  \A x, y, z \in Seq(S) : (x \o y) \o z = x \o (y \o z)
BY ConcatAssociative

LEMMA AppendMoves ==
  ASSUME NEW S, NEW s \in Seq(S), NEW e \in S, NEW q \in Seq(S)
  PROVE  /\ Append(s, e) \in Seq(S) /\ <<e>> \o q \in Seq(S)
         /\ Append(s, e) \o q = s \o (<<e>> \o q)
<1>1. <<e>> \in Seq(S)
  OBVIOUS
<1>2. (s \o <<e>>) \o q = s \o (<<e>> \o q)
  BY <1>1, ConcatAssociative
<1>3. Append(s, e) = s \o <<e>> /\ Append(s, e) \in Seq(S)
  BY AppendIsConcat, AppendProperties
<1>4. <<e>> \o q \in Seq(S)
  BY <1>1, ConcatProperties
<1> QED
  BY <1>2, <1>3, <1>4

LEMMA HeadMoves ==
  ASSUME NEW S, NEW s \in Seq(S), NEW r \in Seq(S), r # <<>>
  PROVE  /\ Head(r) \in S /\ Tail(r) \in Seq(S)
         /\ Append(s, Head(r)) \in Seq(S)
         /\ Append(s, Head(r)) \o Tail(r) = s \o r
         /\ r = <<Head(r)>> \o Tail(r)
<1>1. Head(r) \in S /\ Tail(r) \in Seq(S) /\ r = <<Head(r)>> \o Tail(r)
  BY HeadTailProperties
<1>2. \A e \in S, q \in Seq(S) : /\ Append(s, e) \in Seq(S)
                               /\ Append(s, e) \o q = s \o (<<e>> \o q)
  BY AppendMoves
<1> QED
  BY <1>1, <1>2

LEMMA TailOfSum ==
  ASSUME NEW S, NEW r \in Seq(S), r # <<>>, NEW q \in Seq(S)
  PROVE  /\ r \o q \in Seq(S) /\ r \o q # <<>>
         /\ Head(r \o q) = Head(r) /\ Tail(r \o q) = Tail(r) \o q
<1>1. Head(r) \in S /\ Tail(r) \in Seq(S) /\ Len(r) \in Nat \ {0} /\ Len(q) \in Nat
      /\ Len(Tail(r)) = Len(r) - 1
  BY HeadTailProperties, EmptySeq, LenProperties
<1>2. r \o q \in Seq(S) /\ Len(r \o q) = Len(r) + Len(q)
  BY ConcatProperties
<1>3. r \o q # <<>>
  BY <1>1, <1>2, EmptySeq
<1>4. Head(r \o q) = Head(r)
  BY <1>1, <1>2, <1>3
<1>5. Tail(r \o q) = Tail(r) \o q
  <2>1. Tail(r \o q) \in Seq(S) /\ Len(Tail(r \o q)) = Len(r) + Len(q) - 1
    BY <1>2, <1>3, HeadTailProperties
  <2>2. Tail(r) \o q \in Seq(S) /\ Len(Tail(r) \o q) = Len(r) - 1 + Len(q)
    BY <1>1, ConcatProperties
  <2>3. ASSUME NEW i \in 1..(Len(r) + Len(q) - 1) PROVE Tail(r \o q)[i] = (Tail(r) \o q)[i]
    <3>1. Tail(r \o q)[i] = (r \o q)[i + 1]
      BY <1>1, <1>2, <1>3, <2>1, HeadTailProperties
    <3>2. (r \o q)[i + 1] = IF i + 1 <= Len(r) THEN r[i + 1] ELSE q[i + 1 - Len(r)]
      BY <1>1, ConcatProperties
    <3>3. (Tail(r) \o q)[i] = IF i <= Len(r) - 1 THEN Tail(r)[i] ELSE q[i - (Len(r) - 1)]
      BY <1>1, ConcatProperties
    <3>4. i <= Len(r) - 1 => Tail(r)[i] = r[i + 1]
      BY <1>1, HeadTailProperties
    <3> QED
      BY <1>1, <3>1, <3>2, <3>3, <3>4
  <2> QED
    BY <1>1, <2>1, <2>2, <2>3, SeqEqual
<1> QED
  BY <1>2, <1>3, <1>4, <1>5

LEMMA PrefixOfSum ==
  ASSUME NEW S, NEW s \in Seq(S), NEW r \in Seq(S), NEW i \in 0..Len(s), NEW sum, sum = s \o r
  PROVE  /\ SubSeq(sum, 1, i) = SubSeq(s, 1, i) /\ Len(s) <= Len(sum)
         /\ SubSeq(sum, 1, Len(s)) = s
<1>1. Len(s) \in Nat /\ Len(r) \in Nat /\ Len(s \o r) = Len(s) + Len(r)
  BY LenProperties, ConcatProperties
<1>2. \A k \in 1..Len(s) : SubSeq(s \o r, 1, k) = SubSeq(s, 1, k)
  <2>1. \A k \in 1..Len(s) : 1 \in 1..Len(s)
    BY <1>1
  <2> QED
    BY <2>1, SubSeqOfConcat1
<1>3. SubSeq(s \o r, 1, 0) = SubSeq(s, 1, 0)
  BY SubSeqEmpty
<1>4. SubSeq(s, 1, Len(s)) = s
  BY SubSeqFull
<1>5. \A k \in 0..Len(s) : SubSeq(s \o r, 1, k) = SubSeq(s, 1, k)
  <2> TAKE k \in 0..Len(s)
  <2> QED
    BY <1>1, <1>2, <1>3
<1>6. Len(s) \in 0..Len(s)
  BY <1>1
<1> QED
  BY <1>1, <1>4, <1>5, <1>6

\* A place that is a directory, as all above it are: no link leads there.
Real(t, place) == \A i \in 1..Len(place) : At(t, SubSeq(place, 1, i)).kind = "directory"

LEMMA FrontLast ==
  ASSUME NEW S, NEW s \in Seq(S)
  PROVE  /\ \A e \in S : Front(Append(s, e)) = s /\ Last(Append(s, e)) = e
         /\ s # <<>> => /\ Front(s) \in Seq(S) /\ Last(s) \in S /\ Append(Front(s), Last(s)) = s
                        /\ Len(Front(s)) = Len(s) - 1
<1>1. ASSUME NEW q \in Seq(S), NEW e \in S PROVE Front(Append(q, e)) = q /\ Last(Append(q, e)) = e
  <2>1. Len(Append(q, e)) = Len(q) + 1 /\ Len(q) \in Nat /\ Append(q, e)[Len(q) + 1] = e
        /\ Append(q, e) = q \o <<e>> /\ <<e>> \in Seq(S)
    BY AppendProperties, AppendIsConcat, LenProperties
  <2>2. Front(Append(q, e)) = SubSeq(q \o <<e>>, 1, Len(q))
    BY <2>1 DEF Front
  <2>3. CASE q = <<>>
    BY <2>1, <2>2, <2>3, SubSeqEmpty DEF Last
  <2>4. CASE q # <<>>
    <3>1. Len(q) \in 1..Len(q) /\ 1 \in 1..Len(q)
      BY <2>1, <2>4, EmptySeq
    <3>2. SubSeq(q \o <<e>>, 1, Len(q)) = SubSeq(q, 1, Len(q))
      BY <2>1, <3>1, SubSeqOfConcat1
    <3> QED
      BY <2>1, <2>2, <3>2, SubSeqFull DEF Last
  <2> QED
    BY <2>3, <2>4
<1>2. CASE s # <<>>
  <2>1. PICK q \in Seq(S), e \in S : s = Append(q, e)
    BY <1>2, SequenceEmptyOrAppend
  <2>2. Front(s) = q /\ Last(s) = e
    BY <1>1, <2>1
  <2>3. Len(q) = Len(s) - 1
    BY <2>1, AppendProperties, LenProperties
  <2> QED
    BY <1>1, <2>1, <2>2, <2>3
<1> QED
  BY <1>1, <1>2

LEMMA RealDown ==
  ASSUME NEW t, NEW place \in Path, NEW n \in Names, Real(t, place),
         At(t, Append(place, n)).kind = "directory"
  PROVE  Real(t, Append(place, n))
<1> DEFINE long == Append(place, n)
<1> SUFFICES ASSUME NEW i \in 1..Len(long) PROVE At(t, SubSeq(long, 1, i)).kind = "directory"
  BY DEF Real
<1>1. /\ Len(long) = Len(place) + 1 /\ long \in Seq(Names)
      /\ place \in Seq(Names) /\ Len(place) \in Nat
  BY AppendProperties, LenProperties DEF Path
<1>2. CASE i = Len(long)
  BY <1>1, <1>2, SubSeqFull
<1>3. CASE i # Len(long)
  <2>1. i \in 1..Len(place)
    BY <1>1, <1>3
  <2>2. long = place \o <<n>>
    BY <1>1, AppendIsConcat
  <2>3. <<n>> \in Seq(Names)
    OBVIOUS
  <2>4. SubSeq(long, 1, i) = SubSeq(place, 1, i)
    BY <1>1, <2>1, <2>2, <2>3, SubSeqOfConcat1
  <2> QED
    BY <2>1, <2>4 DEF Real
<1> QED
  BY <1>2, <1>3

\* What a way that starts at a real place ends at.
Ends(t, end) ==
  /\ end.kind \in {"directory", "file", "missing", "invalid"}
  /\ end.place \in Path
  /\ end.kind = "directory" => Real(t, end.place)
  /\ end.kind = "file" => /\ end.place # <<>> /\ At(t, end.place).kind = "file"
                          /\ Real(t, Front(end.place))

LEMMA ArrivedEnds ==
  ASSUME NEW t, IsTree(t), NEW w \in Way, Real(t, w.at)
  PROVE  Ends(t, Arrived(t, w))
<1>1. w.at \in Seq(Names) /\ w.rest \in Seq(Names) /\ <<>> \in Seq(Names)
  BY DEF Way, Path
<1>2. CASE w.rest = <<>>
  BY <1>1, <1>2 DEF Arrived, Found, Ends, Path
<1>3. CASE w.rest # <<>>
  <2>1. Head(w.rest) \in Names
    BY <1>1, <1>3, HeadTailProperties
  <2>2. Ahead(w) \in Seq(Names) /\ Ahead(w) # <<>> /\ Front(Ahead(w)) = w.at
    <3>1. Append(w.at, Head(w.rest)) \in Seq(Names) /\ Append(w.at, Head(w.rest)) # <<>>
      BY <1>1, <2>1, AppendProperties
    <3>2. Front(Append(w.at, Head(w.rest))) = w.at
      BY <1>1, <2>1, FrontLast
    <3> QED
      BY <3>1, <3>2 DEF Ahead
  <2>3. \/ Arrived(t, w) = Found("file", Ahead(w)) /\ At(t, Ahead(w)).kind = "file"
        \/ Arrived(t, w) = Found("missing", <<>>)
        \/ Arrived(t, w) = Found("invalid", Ahead(w))
    BY <1>3 DEF Arrived
  <2>4. <<>> \in Path /\ Ahead(w) \in Path
    BY <1>1, <2>2 DEF Path
  <2>5. At(t, Ahead(w)).kind = "file" => Ends(t, Found("file", Ahead(w)))
    BY <2>2, <2>4 DEF Ends, Found
  <2>6. Ends(t, Found("missing", <<>>)) /\ Ends(t, Found("invalid", Ahead(w)))
    BY <2>4 DEF Ends, Found
  <2> QED
    BY <2>3, <2>5, <2>6
<1> QED
  BY <1>2, <1>3

LEMMA EvalEnds ==
  ASSUME NEW t, IsTree(t), NEW w \in Way, Real(t, w.at)
  PROVE  Ends(t, Eval(t)[w])
<1> DEFINE G == {v \in Way : Real(t, v.at) => Ends(t, Eval(t)[v])}
<1>1. ASSUME NEW v \in Way, GoesOn(t, v) => Forward(t, v) \in G PROVE v \in G
  <2> SUFFICES ASSUME Real(t, v.at) PROVE Ends(t, Eval(t)[v])
    OBVIOUS
  <2>1. CASE GoesOn(t, v)
    <3>1. Real(t, Forward(t, v).at)
      <4>1. v.at \in Path /\ Head(v.rest) \in Names
        <5>1. v.at \in Seq(Names) /\ v.rest \in Seq(Names) /\ v.rest # <<>>
          BY <2>1 DEF Way, Path, GoesOn
        <5> QED
          BY <5>1, HeadTailProperties DEF Path
      <4>2. CASE At(t, Ahead(v)).kind = "directory"
        <5>1. Forward(t, v).at = Ahead(v)
          BY <2>1, <4>2, ForwardTyped
        <5> QED
          BY <4>1, <4>2, <5>1, RealDown DEF Ahead
      <4>3. CASE At(t, Ahead(v)).kind # "directory"
        <5>1. Forward(t, v).at = <<>>
          BY <2>1, <4>3, ForwardTyped
        <5> QED
          BY <5>1 DEF Real
      <4> QED
        BY <4>2, <4>3
    <3> QED
      BY <1>1, <2>1, <3>1, EvalUnfolds
  <2>2. CASE ~GoesOn(t, v)
    BY <2>2, EvalUnfolds, ArrivedEnds
  <2> QED
    BY <2>1, <2>2
<1> HIDE DEF G
<1>2. Way \subseteq G
  BY <1>1, WayInduction
<1> QED
  BY <1>2 DEF G

LEMMA StartOfWay ==
  ASSUME NEW path \in Path
  PROVE  /\ [links |-> MaxLinks, at |-> <<>>, rest |-> path] \in Way
         /\ \A t : Real(t, <<>>)
BY PlanAssumption DEF Way, Path, Real

LEMMA ResolveEnds ==
  ASSUME NEW t, IsTree(t), NEW path \in Path
  PROVE  Ends(t, Resolve(t, path))
BY StartOfWay, EvalEnds, ResolveIsEval

LEMMA AheadMoves ==
  ASSUME NEW w \in Way, w.rest # <<>>
  PROVE  /\ Head(w.rest) \in Names /\ Ahead(w) \in Seq(Names) /\ Tail(w.rest) \in Seq(Names)
         /\ Ahead(w) \o Tail(w.rest) = w.at \o w.rest
         /\ Len(Ahead(w)) = Len(w.at) + 1 /\ Len(w.at) \in Nat
<1>1. w.at \in Seq(Names) /\ w.rest \in Seq(Names)
  BY DEF Way, Path
<1>2. \A s, r \in Seq(Names) :
        r # <<>> => /\ Head(r) \in Names /\ Append(s, Head(r)) \in Seq(Names)
                    /\ Tail(r) \in Seq(Names)
                    /\ Append(s, Head(r)) \o Tail(r) = s \o r
  BY HeadMoves
<1>3. /\ Head(w.rest) \in Names /\ Ahead(w) \in Seq(Names) /\ Tail(w.rest) \in Seq(Names)
      /\ Ahead(w) \o Tail(w.rest) = w.at \o w.rest
  BY <1>1, <1>2, Zenon DEF Ahead
<1>4. Len(Ahead(w)) = Len(w.at) + 1 /\ Len(w.at) \in Nat
  BY <1>1, <1>3, AppendProperties, LenProperties DEF Ahead
<1> QED
  BY <1>3, <1>4

\* A real place is reached as it stands.
LEMMA RealIsReached ==
  ASSUME NEW t, IsTree(t), NEW place \in Path, Real(t, place)
  PROVE  Resolve(t, place) = Found("directory", place)
<1> DEFINE G == {v \in Way : v.at \o v.rest = place => Eval(t)[v] = Found("directory", place)}
<1>1. ASSUME NEW v \in Way, GoesOn(t, v) => Forward(t, v) \in G PROVE v \in G
  <2> SUFFICES ASSUME v.at \o v.rest = place PROVE Eval(t)[v] = Found("directory", place)
    OBVIOUS
  <2>0. v.at \in Seq(Names) /\ v.rest \in Seq(Names)
    BY DEF Way, Path
  <2>1. CASE v.rest = <<>>
    <3>1. v.at = place
      BY <2>0, <2>1, ConcatEmptySeq
    <3>2. ~GoesOn(t, v) /\ Arrived(t, v) = Found("directory", v.at)
      BY <2>1 DEF GoesOn, Arrived
    <3> QED
      BY <3>1, <3>2, EvalUnfolds
  <2>2. CASE v.rest # <<>>
    <3>1. /\ Ahead(v) \in Seq(Names) /\ Tail(v.rest) \in Seq(Names)
          /\ Ahead(v) \o Tail(v.rest) = place
      BY <2>2, AheadMoves, Zenon
    <3>2. Len(Ahead(v)) = Len(v.at) + 1 /\ Len(v.at) \in Nat
      BY <2>2, AheadMoves
    <3>3. Len(Ahead(v)) \in 0..Len(Ahead(v)) /\ Len(Ahead(v)) >= 1
      BY <3>2
    <3>4. Len(Ahead(v)) \in 1..Len(place) /\ SubSeq(place, 1, Len(Ahead(v))) = Ahead(v)
      <4>1. SubSeq(place, 1, Len(Ahead(v))) = Ahead(v) /\ Len(Ahead(v)) <= Len(place)
        <5>1. \A s, r \in Seq(Names) : \A sum : sum = s \o r /\ Len(s) \in 0..Len(s) =>
                SubSeq(sum, 1, Len(s)) = s /\ Len(s) <= Len(sum)
          BY PrefixOfSum
        <5> QED
          BY <3>1, <3>3, <5>1, Zenon
      <4>2. Len(place) \in Nat /\ Len(Ahead(v)) \in Nat
        BY <3>1, LenProperties DEF Path
      <4>3. Len(Ahead(v)) \in 1..Len(place)
        <5>1. \A k, l \in Nat : k >= 1 /\ k <= l => k \in 1..l
          OBVIOUS
        <5> QED
          BY <3>3, <4>1, <4>2, <5>1, Zenon
      <4> QED
        BY <4>1, <4>3, Zenon
    <3>5. At(t, Ahead(v)).kind = "directory"
      BY <3>4 DEF Real
    <3>6. GoesOn(t, v)
      BY <2>2, <3>5 DEF GoesOn
    <3>7. Forward(t, v).at = Ahead(v) /\ Forward(t, v).rest = Tail(v.rest)
      BY <3>5, <3>6, ForwardTyped
    <3> QED
      BY <1>1, <3>1, <3>6, <3>7, EvalUnfolds
  <2> QED
    BY <2>1, <2>2
<1> HIDE DEF G
<1>2. Way \subseteq G
  BY <1>1, WayInduction
<1> DEFINE start == [links |-> MaxLinks, at |-> <<>>, rest |-> place]
<1>3. start \in G /\ start.at \o start.rest = place
  BY <1>2, StartOfWay, ConcatEmptySeq DEF Path
<1> QED
  BY <1>3, ResolveIsEval DEF G

\* A file that a path has led to is a file for Lstat as well.
LEMMA FileIsSeen ==
  ASSUME NEW t, IsTree(t), NEW path \in Path, Kind(t, path) = "file"
  PROVE  Lstat(t, Resolve(t, path).place) = {"file"}
<1> DEFINE place == Resolve(t, path).place
<1>1. place \in Path /\ place # <<>> /\ At(t, place).kind = "file" /\ Real(t, Front(place))
  BY ResolveEnds DEF Kind, Ends
<1> HIDE DEF place
<1>2. Front(place) \in Path /\ Append(Front(place), Last(place)) = place
  BY <1>1, FrontLast DEF Path
<1>3. Resolve(t, Front(place)) = Found("directory", Front(place))
  BY <1>1, <1>2, RealIsReached
<1>4. Resolve(t, Front(place)).kind = "directory" /\ Resolve(t, Front(place)).place = Front(place)
  BY <1>3 DEF Found
<1>5. Lstat(t, place) = {"file"}
  BY <1>1, <1>2, <1>4 DEF Lstat
<1> QED
  BY <1>5 DEF place

\* The same way with more names to go.
Longer(w, more) == [links |-> w.links, at |-> w.at, rest |-> w.rest \o more]

LEMMA LongerGoesOn ==
  ASSUME NEW t, IsTree(t), NEW w \in Way, NEW more \in Path, w.rest # <<>>
  PROVE  /\ Longer(w, more) \in Way
         /\ Longer(w, more).rest # <<>>
         /\ Ahead(Longer(w, more)) = Ahead(w)
         /\ Tail(Longer(w, more).rest) = Tail(w.rest) \o more
         /\ GoesOn(t, Longer(w, more)) <=> GoesOn(t, w)
         /\ GoesOn(t, w) => Forward(t, Longer(w, more)) = Longer(Forward(t, w), more)
<1> DEFINE v == Longer(w, more)
<1>1. w.at \in Seq(Names) /\ w.rest \in Seq(Names) /\ more \in Seq(Names) /\ w.links \in Nat
  BY DEF Way, Path
<1>2. v.rest = w.rest \o more /\ v.at = w.at /\ v.links = w.links
  BY DEF Longer
<1>3. /\ v.rest \in Seq(Names) /\ v.rest # <<>>
      /\ Head(v.rest) = Head(w.rest) /\ Tail(v.rest) = Tail(w.rest) \o more
      /\ Tail(w.rest) \in Seq(Names)
  <2>1. w.rest \o more \in Seq(Names) /\ w.rest \o more # <<>>
        /\ Head(w.rest \o more) = Head(w.rest) /\ Tail(w.rest \o more) = Tail(w.rest) \o more
    BY <1>1, TailOfSum
  <2>2. Tail(w.rest) \in Seq(Names)
    BY <1>1, HeadTailProperties
  <2> QED
    BY <1>2, <2>1, <2>2
<1>4. v \in Way
  BY <1>1, <1>3 DEF Longer, Way, Path
<1>5. Ahead(v) = Ahead(w)
  BY <1>2, <1>3 DEF Ahead
<1>6. GoesOn(t, v) <=> GoesOn(t, w)
  BY <1>2, <1>3, <1>5 DEF GoesOn
<1>7. ASSUME GoesOn(t, w) PROVE Forward(t, v) = Longer(Forward(t, w), more)
  <2>1. CASE At(t, Ahead(w)).kind = "directory"
    <3>1. Forward(t, v) = [links |-> w.links, at |-> Ahead(w), rest |-> Tail(w.rest) \o more]
      BY <1>2, <1>3, <1>5, <2>1 DEF Forward, Longer
    <3> QED
      BY <1>7, <2>1, <3>1, ForwardTyped DEF Longer
  <2>2. CASE At(t, Ahead(w)).kind # "directory"
    <3>1. Forward(t, v) = [links |-> w.links - 1, at |-> <<>>,
                           rest |-> At(t, Ahead(w)).to \o (Tail(w.rest) \o more)]
      BY <1>2, <1>3, <1>5, <2>2 DEF Forward
    <3>2. At(t, Ahead(w)).to \in Seq(Names)
      BY <1>7, <2>2, AtTyped DEF GoesOn, Path
    <3>3. At(t, Ahead(w)).to \o (Tail(w.rest) \o more) = (At(t, Ahead(w)).to \o Tail(w.rest)) \o more
      <4>1. \A x, y, z \in Seq(Names) : x \o (y \o z) = (x \o y) \o z
        BY SumsAssociate
      <4> QED
        BY <1>1, <1>3, <3>2, <4>1, Zenon
    <3> QED
      BY <1>7, <2>2, <3>1, <3>3, ForwardTyped DEF Longer
  <2> QED
    BY <2>1, <2>2
<1> QED
  BY <1>3, <1>4, <1>5, <1>6, <1>7, <1>2

\* A path that leads to a directory, and more names: the way goes on from the directory.
\* Nothing lies below a file.
LEMMA EvalLonger ==
  ASSUME NEW t, IsTree(t), NEW w \in Way
  PROVE  /\ Eval(t)[w].kind = "directory" =>
              \E links \in Nat : \A more \in Path :
                Eval(t)[Longer(w, more)] =
                  Eval(t)[[links |-> links, at |-> Eval(t)[w].place, rest |-> more]]
         /\ Eval(t)[w].kind = "file" =>
              \A more \in Path : more # <<>> => Eval(t)[Longer(w, more)].kind = "invalid"
<1> DEFINE Down(v) == \E links \in Nat : \A more \in Path :
                        Eval(t)[Longer(v, more)] =
                          Eval(t)[[links |-> links, at |-> Eval(t)[v].place, rest |-> more]]
           Under(v) == \A more \in Path : more # <<>> => Eval(t)[Longer(v, more)].kind = "invalid"
           G == {v \in Way : /\ Eval(t)[v].kind = "directory" => Down(v)
                             /\ Eval(t)[v].kind = "file" => Under(v)}
<1>1. ASSUME NEW v \in Way, GoesOn(t, v) => Forward(t, v) \in G PROVE v \in G
  <2>1. CASE v.rest = <<>>
    <3>1. ~GoesOn(t, v) /\ Arrived(t, v).kind = "directory" /\ Arrived(t, v).place = v.at
      BY <2>1 DEF GoesOn, Arrived, Found
    <3>2. Eval(t)[v].kind = "directory" /\ Eval(t)[v].place = v.at
      BY <3>1, EvalUnfolds
    <3>3. ASSUME NEW more \in Path
          PROVE  Longer(v, more) = [links |-> v.links, at |-> v.at, rest |-> more]
      BY <2>1, ConcatEmptySeq DEF Longer, Path
    <3>4. v.links \in Nat
      BY DEF Way
    <3> QED
      BY <3>2, <3>3, <3>4
  <2>2. CASE GoesOn(t, v)
    <3>1. Forward(t, v) \in G /\ Eval(t)[v] = Eval(t)[Forward(t, v)]
      BY <1>1, <2>2, EvalUnfolds
    <3>2. ASSUME NEW more \in Path
          PROVE  Eval(t)[Longer(v, more)] = Eval(t)[Longer(Forward(t, v), more)]
      <4>1. /\ Longer(v, more) \in Way /\ GoesOn(t, Longer(v, more))
            /\ Forward(t, Longer(v, more)) = Longer(Forward(t, v), more)
        BY <2>2, LongerGoesOn DEF GoesOn
      <4> QED
        BY <4>1, EvalUnfolds
    <3> QED
      BY <3>1, <3>2
  <2>3. CASE v.rest # <<>> /\ ~GoesOn(t, v)
    <3>1. Eval(t)[v] = Arrived(t, v)
      BY <2>3, EvalUnfolds
    <3>2. Eval(t)[v].kind # "directory"
      BY <2>3, <3>1 DEF Arrived, Found
    <3>3. ASSUME Eval(t)[v].kind = "file", NEW more \in Path, more # <<>>
          PROVE  Eval(t)[Longer(v, more)].kind = "invalid"
      <4>1. At(t, Ahead(v)).kind = "file"
        BY <2>3, <3>1, <3>3 DEF Arrived, Found
      <4>2. /\ Longer(v, more) \in Way /\ ~GoesOn(t, Longer(v, more))
            /\ Longer(v, more).rest # <<>> /\ Ahead(Longer(v, more)) = Ahead(v)
            /\ Tail(Longer(v, more).rest) = Tail(v.rest) \o more
        BY <2>3, LongerGoesOn
      <4>3. Tail(v.rest) \in Seq(Names) /\ more \in Seq(Names)
        BY <2>3, AheadMoves DEF Path
      <4>4. \A x, y \in Seq(Names) : y # <<>> => x \o y # <<>>
        <5> TAKE x, y \in Seq(Names)
        <5>1. Len(x \o y) = Len(x) + Len(y) /\ Len(x) \in Nat
          BY ConcatProperties, LenProperties
        <5>2. y # <<>> => Len(y) \in Nat /\ Len(y) # 0
          BY EmptySeq
        <5> QED
          BY <5>1, <5>2, EmptySeq
      <4>5. Tail(Longer(v, more).rest) # <<>>
        BY <3>3, <4>2, <4>3, <4>4, Zenon
      <4>6. Arrived(t, Longer(v, more)).kind = "invalid"
        BY <4>1, <4>2, <4>5 DEF Arrived, Found
      <4> QED
        BY <4>2, <4>6, EvalUnfolds
    <3> QED
      BY <3>2, <3>3
  <2> QED
    BY <2>1, <2>2, <2>3
<1> HIDE DEF G
<1>2. Way \subseteq G
  BY <1>1, WayInduction
<1> QED
  BY <1>2 DEF G

LEMMA ResolveLonger ==
  ASSUME NEW path \in Path, NEW more \in Path, NEW t
  PROVE  Resolve(t, path \o more) =
           Eval(t)[Longer([links |-> MaxLinks, at |-> <<>>, rest |-> path], more)]
BY ResolveIsEval DEF Longer

LEMMA FileIsLeaf ==
  ASSUME NEW t, IsTree(t), NEW path \in Path, Kind(t, path) = "file", NEW more \in Path, more # <<>>
  PROVE  Kind(t, path \o more) = "invalid"
<1> DEFINE start == [links |-> MaxLinks, at |-> <<>>, rest |-> path]
<1>1. start \in Way /\ Eval(t)[start].kind = "file"
  BY StartOfWay, ResolveIsEval DEF Kind
<1>2. Eval(t)[Longer(start, more)].kind = "invalid"
  <2> HIDE DEF start
  <2> QED
    BY <1>1, EvalLonger
<1> QED
  BY <1>2, ResolveLonger DEF Kind

\* What a directory does not list leads nowhere.
LEMMA ListingIsComplete ==
  ASSUME NEW t, IsTree(t), NEW path \in Path, Kind(t, path) = "directory",
         NEW n \in Names, At(t, Append(Resolve(t, path).place, n)).kind = "absent",
         NEW more \in Path
  PROVE  Kind(t, Append(path, n) \o more) = "missing"
<1> DEFINE start == [links |-> MaxLinks, at |-> <<>>, rest |-> path]
           names == <<n>> \o more
           place == Resolve(t, path).place
<1>1. names \in Path /\ names # <<>> /\ Head(names) = n /\ Append(path, n) \o more = path \o names
  <2>1. \A s, q \in Seq(Names), e \in Names :
          <<e>> \o q \in Seq(Names) /\ Append(s, e) \o q = s \o (<<e>> \o q)
    BY AppendMoves
  <2>2. names \in Path /\ Append(path, n) \o more = path \o names
    BY <2>1, Zenon DEF Path
  <2>3. <<n>> \in Seq(Names) /\ <<n>> # <<>> /\ Head(<<n>>) = n
    OBVIOUS
  <2>4. names # <<>> /\ Head(names) = n
    BY <2>3, TailOfSum DEF Path
  <2> QED
    BY <2>2, <2>4
<1> HIDE DEF names
<1>2. start \in Way /\ Eval(t)[start] = Resolve(t, path) /\ Eval(t)[start].kind = "directory"
  BY StartOfWay, ResolveIsEval DEF Kind
<1>3. PICK links \in Nat :
        Eval(t)[Longer(start, names)] = Eval(t)[[links |-> links, at |-> place, rest |-> names]]
  <2> HIDE DEF start, place
  <2> QED
    BY <1>1, <1>2, EvalLonger DEF place
<1> DEFINE w == [links |-> links, at |-> place, rest |-> names]
<1>4. w \in Way /\ Ahead(w) = Append(place, n) /\ w.rest # <<>>
  <2>1. place \in Path
    BY ResolveEnds DEF Ends
  <2> HIDE DEF place
  <2> QED
    BY <1>1, <2>1 DEF Way, Ahead
<1>5. ~GoesOn(t, w) /\ Arrived(t, w).kind = "missing"
  <2> HIDE DEF w
  <2> QED
    BY <1>4 DEF GoesOn, Arrived, Found
<1>6. Eval(t)[w].kind = "missing"
  <2> HIDE DEF w
  <2> QED
    BY <1>4, <1>5, EvalUnfolds
<1> QED
  BY <1>1, <1>3, <1>6, ResolveLonger DEF Kind

------------------------------------------------------------------------------
(***************************************************************************)
(* The types.                                                              *)
(***************************************************************************)
LEMMA FirstIsAmong ==
  ASSUME NEW names \in SUBSET Names, names # {}
  PROVE  First(names) \in names
<1> DEFINE hits == {i \in 1..Len(Order) : Order[i] \in names}
           first == SelectInSeq(Order, LAMBDA n : n \in names)
<1>1. first = IF hits # {} THEN Min(hits) ELSE 0
  BY DEF SelectInSeq
<1>2. First(names) = Order[first]
  BY DEF First
<1>3. hits \in SUBSET Nat /\ hits # {}
  <2>1. PICK n \in names : TRUE
    OBVIOUS
  <2>2. n \in ToSet(Order) /\ DOMAIN Order = 1..Len(Order)
    BY PlanAssumption, LenProperties
  <2> QED
    BY <2>1, <2>2 DEF ToSet
<1> HIDE DEF first
<1>4. first \in hits
  BY <1>1, <1>3, SmallestIsElement
<1> QED
  BY <1>2, <1>4

LEMMA TargetTyped ==
  ASSUME NEW path \in Path, NEW ref \in Reference
  PROVE  Target(path, ref) \in Path
<1> DEFINE base == Base(path, ref)
<1>1. base \in Seq(Names)
  BY DEF Base, Path, Front
<1>2. ref.up \in Nat /\ ref.down \in Seq(Names) /\ Len(base) \in Nat
  BY <1>1, LenProperties DEF Reference, Path
<1>3. \A i \in 1..(Len(base) - ref.up) : base[i] \in Names
  BY <1>1, <1>2, ElementOfSeq
<1>4. 1 \in Int /\ Len(base) - ref.up \in Int
  BY <1>2
<1> HIDE DEF base
<1>5. SubSeq(base, 1, Len(base) - ref.up) \in Seq(Names)
  BY <1>3, <1>4, SubSeqProperties
<1>6. SubSeq(base, 1, Len(base) - ref.up) \o ref.down \in Seq(Names)
  BY <1>2, <1>5, ConcatProperties
<1> QED
  BY <1>6 DEF Target, Path, base

Document == [path : Path, component : Components \cup {NoComponent}, left : SUBSET Reference]
Frames == [prefix : Path, place : Path, left : SUBSET Names]
PathSets == [Components -> SUBSET Path]

TypeInv == TypeOK /\ config \in Configs /\ reading \in Document

LEMMA FrameTyped ==
  ASSUME NEW prefix \in Path, NEW place \in Path
  PROVE  Frame(prefix, place) \in Frames
BY DEF Frame, Frames

LEMMA TypeStart == Init => TypeInv
<1> SUFFICES ASSUME Init PROVE TypeInv
  OBVIOUS
<1>1. <<>> \in Path
  BY DEF Path
<1>2. tree \in [DOMAIN tree -> Object] /\ edits \in 0..MaxEdits
  <2>1. tree \in Trees \cup EditedTrees
    BY DEF Init
  <2>2. MaxEdits \in Nat /\ edits \in {0, MaxEdits}
    BY PlanAssumption DEF Init
  <2>3. tree \in [DOMAIN tree -> Object]
    BY <2>1, PlanAssumption
  <2>4. edits \in 0..MaxEdits
    BY <2>2
  <2> QED
    BY <2>3, <2>4
<1>3. stack \in Seq(Frames)
  BY <1>1, FrameTyped DEF Init
<1>4. reading \in Document
  BY <1>1 DEF Init, NoDocument, Document
<1>5. {result, todo, claims, packed} \subseteq PathSets
  BY DEF Init, Nothing, PathSets
<1>6. entry \in [Components -> Path]
  BY <1>1 DEF Init
<1>7. \A c \in Components :
        locales[c] \in Seq([default : BOOLEAN, entry : Path, files : SUBSET Path])
  BY DEF Init
<1>8. /\ steady \in BOOLEAN /\ status = "walk" /\ failure = "none"
      /\ warnings \subseteq Path \X Reference
      /\ packing \in Components \cup {NoComponent} /\ pending \subseteq Path
      /\ sources \subseteq Path \X Path /\ config \in Configs
  BY DEF Init
<1>9. /\ reading.component \in Components \cup {NoComponent} /\ reading.left \subseteq Reference
  BY <1>4 DEF Document
<1> QED
  BY <1>2, <1>3, <1>4, <1>5, <1>6, <1>7, <1>8, <1>9 DEF TypeInv, TypeOK, Failures, Frames, PathSets

LEMMA TypeParts ==
  ASSUME TypeInv
  PROVE  /\ IsTree(tree) /\ config \in Configs
         /\ edits \in 0..MaxEdits
         /\ stack \in Seq(Frames)
         /\ result \in PathSets /\ todo \in PathSets /\ claims \in PathSets /\ packed \in PathSets
         /\ reading \in Document /\ reading.path \in Path /\ reading.left \subseteq Reference
         /\ reading.component \in Components \cup {NoComponent}
         /\ warnings \subseteq Path \X Reference
         /\ pending \subseteq Path /\ sources \subseteq Path \X Path
BY DEF TypeInv, TypeOK, IsTree, Frames, PathSets, Document

\* The parts of the types that most steps leave alone.
LEMMA TypeFrom ==
  ASSUME TypeInv,
         tree' = tree, config' = config, edits' = edits, steady' = steady,
         \/ /\ status' \in {"walk", "discover", "settle", "assemble", "built"}
            /\ status # "failed" /\ failure' = failure
         \/ status' = "failed" /\ failure' \in Failures \ {"none"},
         stack' \in Seq(Frames),
         result' \in PathSets, todo' \in PathSets, claims' \in PathSets, packed' \in PathSets,
         reading' \in Document,
         warnings' \subseteq Path \X Reference,
         entry' \in [Components -> Path],
         \A c \in Components :
           locales'[c] \in Seq([default : BOOLEAN, entry : Path, files : SUBSET Path]),
         packing' \in Components \cup {NoComponent},
         pending' \subseteq Path, sources' \subseteq Path \X Path
  PROVE  TypeInv'
<1>1. reading'.component \in Components \cup {NoComponent} /\ reading'.left \subseteq Reference
  BY DEF Document
<1>2. {result', todo', claims', packed'} \subseteq [Components -> SUBSET Path]
  BY DEF PathSets
<1>3. tree' \in [DOMAIN tree' -> Object] /\ edits' \in 0..MaxEdits /\ steady' \in BOOLEAN
      /\ config' \in Configs
  BY DEF TypeInv, TypeOK
<1>4. /\ status' \in {"walk", "discover", "settle", "assemble", "built", "failed"}
      /\ failure' \in Failures
      /\ (failure' = "none") <=> (status' # "failed")
  BY DEF TypeInv, TypeOK
<1>5. stack' \in Seq([prefix : Path, place : Path, left : SUBSET Names])
  BY DEF Frames
<1> QED
  BY <1>1, <1>2, <1>3, <1>4, <1>5 DEF TypeInv, TypeOK

LEMMA TypeFail ==
  ASSUME TypeInv, NEW why \in Failures \ {"none"}, Fail(why)
  PROVE  TypeInv'
<1> USE DEF Fail, treeVars, walkVars, waveVars, planVars, packVars
<1>1. /\ entry \in [Components -> Path] /\ packing \in Components \cup {NoComponent}
      /\ \A c \in Components :
           locales[c] \in Seq([default : BOOLEAN, entry : Path, files : SUBSET Path])
  BY DEF TypeInv, TypeOK
<1> QED
  BY <1>1, TypeParts, TypeFrom

\* The walk looks at paths, and goes on with the rest of the directory.
LEMMA VisitTyped ==
  ASSUME TypeInv, Visiting
  PROVE  /\ stack \in Seq(Frames) /\ Len(stack) \in Nat \ {0} /\ Top = stack[Len(stack)]
         /\ Top \in Frames /\ First(Top.left) \in Top.left /\ First(Top.left) \in Names
         /\ Visited \in Path /\ Visited # <<>>
         /\ Visited = Append(Top.prefix, First(Top.left))
         /\ Front(stack) \in Seq(Frames) /\ Len(Front(stack)) = Len(stack) - 1
         /\ Advanced \in Seq(Frames) /\ Len(Advanced) = Len(stack)
         /\ \A i \in 1..Len(stack) :
              Advanced[i] = IF i = Len(stack) THEN [Top EXCEPT !.left = @ \ {First(@)}]
                            ELSE stack[i]
<1>1. stack \in Seq(Frames) /\ stack # <<>> /\ Top.left # {}
  BY TypeParts DEF Visiting
<1>2. Len(stack) \in Nat \ {0}
  BY <1>1, EmptySeq
<1>3. Top = stack[Len(stack)] /\ Top \in Frames
  BY <1>1, FrontLast DEF Top, Last
<1>4. First(Top.left) \in Top.left /\ First(Top.left) \in Names
  BY <1>1, <1>3, FirstIsAmong DEF Frames
<1>5. Visited = Append(Top.prefix, First(Top.left)) /\ Visited \in Path /\ Visited # <<>>
  BY <1>3, <1>4, AppendProperties DEF Visited, Path, Frames
<1>6. Front(stack) \in Seq(Frames) /\ Len(Front(stack)) = Len(stack) - 1
  BY <1>1, FrontLast
<1>7. \A i \in 1..(Len(stack) - 1) : Front(stack)[i] = stack[i]
  BY <1>1, <1>2 DEF Front
<1> DEFINE top == [Top EXCEPT !.left = @ \ {First(@)}]
<1>8. top \in Frames
  BY <1>3 DEF Frames
<1>9. Advanced = Append(Front(stack), top)
  BY DEF Advanced
<1> HIDE DEF top
<1>10. /\ Advanced \in Seq(Frames) /\ Len(Advanced) = Len(stack)
       /\ \A i \in 1..Len(stack) : Advanced[i] = IF i = Len(stack) THEN top ELSE stack[i]
  <2> DEFINE rest == Front(stack)
  <2>1. rest \in Seq(Frames) /\ Len(rest) = Len(stack) - 1
    BY <1>6
  <2> HIDE DEF rest
  <2>2. /\ Append(rest, top) \in Seq(Frames) /\ Len(Append(rest, top)) = Len(rest) + 1
        /\ \A i \in 1..Len(rest) : Append(rest, top)[i] = rest[i]
        /\ Append(rest, top)[Len(rest) + 1] = top
    BY <1>8, <2>1, AppendProperties
  <2> QED
    BY <1>2, <1>7, <1>9, <2>1, <2>2 DEF rest
<1> QED
  BY <1>1, <1>2, <1>3, <1>4, <1>5, <1>6, <1>10 DEF top

LEMMA TypeStep ==
  ASSUME TypeInv, [Next]_vars
  PROVE  TypeInv'
<1> USE DEF treeVars, walkVars, waveVars, planVars, packVars
<1>a. /\ entry \in [Components -> Path] /\ packing \in Components \cup {NoComponent}
      /\ \A c \in Components :
           locales[c] \in Seq([default : BOOLEAN, entry : Path, files : SUBSET Path])
      /\ status \in {"walk", "discover", "settle", "assemble", "built", "failed"}
  BY DEF TypeInv, TypeOK
<1>b. \A why : Fail(why) /\ why \in Failures \ {"none"} => TypeInv'
  BY TypeFail
<1>c. \A why \in {"cycle", "missing", "invalid", "conflict", "collision", "gone", "escape",
                  "strict", "nothing", "entrypoint", "locale", "emptyLocale", "empty",
                  "cancelled"} : Fail(why) => TypeInv'
  BY <1>b DEF Failures
<1>1. CASE VisitFile
  <2>1. CASE Fail("conflict")
    BY <1>c, <2>1
  <2>2. CASE /\ stack' = Advanced
             /\ \E owners :
                  result' = [c \in Components |->
                               IF c \in owners THEN result[c] \cup {Visited} ELSE result[c]]
             /\ UNCHANGED <<treeVars, status, failure, waveVars, planVars, packVars>>
    <3>1. Visited \in Path /\ Advanced \in Seq(Frames) /\ status = "walk"
      BY <1>1, VisitTyped DEF VisitFile, Visiting
    <3>2. result' \in PathSets
      BY <2>2, <3>1, TypeParts DEF PathSets
    <3> QED
      BY <1>a, <2>2, <3>1, <3>2, TypeParts, TypeFrom
  <2> QED
    BY <1>1, <2>1, <2>2 DEF VisitFile
<1>2. CASE VisitDirectory
  <2> DEFINE place == Resolve(tree, Visited).place
  <2>1. CASE Fail("cycle")
    BY <1>c, <2>1
  <2>2. CASE /\ stack' = Append(Advanced, Frame(Visited, place))
             /\ UNCHANGED <<treeVars, status, failure, result, waveVars, planVars, packVars>>
    <3>1. Visited \in Path /\ Advanced \in Seq(Frames) /\ status = "walk"
      BY <1>2, VisitTyped DEF VisitDirectory, Visiting
    <3>2. place \in Path
      BY <3>1, ResolveEnds, TypeParts DEF Ends
    <3> HIDE DEF place
    <3>3. stack' \in Seq(Frames)
      BY <2>2, <3>1, <3>2, FrameTyped, AppendProperties
    <3> QED
      BY <1>a, <2>2, <3>1, <3>3, TypeParts, TypeFrom
  <2> QED
    BY <1>2, <2>1, <2>2 DEF VisitDirectory
<1>3. CASE VisitNothing
  BY <1>3, <1>c DEF VisitNothing
<1>4. CASE LeaveDirectory
  <2>1. stack' \in Seq(Frames) /\ status = "walk"
    BY <1>4, TypeParts, FrontLast DEF LeaveDirectory
  <2> QED
    BY <1>4, <1>a, <2>1, TypeParts, TypeFrom DEF LeaveDirectory
<1>5. CASE EndWalk
  <2>1. CASE Fail("collision")
    BY <1>c, <2>1
  <2>2. CASE /\ status' = "discover" /\ status = "walk" /\ todo' = Documents(result)
             /\ UNCHANGED <<treeVars, failure, walkVars, result, reading, claims, warnings,
                            planVars, packVars>>
    <3>1. todo' \in PathSets
      BY <2>2, TypeParts DEF Documents, PathSets
    <3> QED
      BY <1>a, <2>2, <3>1, TypeParts, TypeFrom
  <2> QED
    BY <1>5, <2>1, <2>2 DEF EndWalk
<1>6. ASSUME NEW c \in Components, Read(c) PROVE TypeInv'
  <2> PICK path \in todo[c] :
         \/ /\ Kind(tree, path) = "file"
            /\ reading' = [path |-> path, component |-> c, left |-> RefsOf(tree, path)]
            /\ todo' = [todo EXCEPT ![c] = @ \ {path}]
            /\ UNCHANGED <<treeVars, status, failure, walkVars, result, claims, warnings, planVars,
                           packVars>>
         \/ Fail("gone")
    BY <1>6 DEF Read
  <2>1. CASE Fail("gone")
    BY <1>c, <2>1
  <2>2. CASE /\ Kind(tree, path) = "file"
             /\ reading' = [path |-> path, component |-> c, left |-> RefsOf(tree, path)]
             /\ todo' = [todo EXCEPT ![c] = @ \ {path}]
             /\ UNCHANGED <<treeVars, status, failure, walkVars, result, claims, warnings,
                            planVars, packVars>>
    <3>1. path \in Path /\ todo' \in PathSets
      BY <2>2, TypeParts DEF PathSets
    <3>2. RefsOf(tree, path) \subseteq Reference
      <4>1. At(tree, Resolve(tree, path).place).kind = "file"
        BY <2>2, <3>1, TypeParts, ResolveEnds DEF Kind, Ends
      <4> QED
        BY <4>1, TypeParts, AtTyped DEF RefsOf
    <3>3. reading' \in Document
      BY <2>2, <3>1, <3>2 DEF Document
    <3>4. status = "discover"
      BY <1>6 DEF Read, Discovering
    <3> QED
      BY <1>a, <2>2, <3>1, <3>3, <3>4, TypeParts, TypeFrom
  <2> QED
    BY <2>1, <2>2
<1>7. CASE Follow
  <2> PICK ref \in reading.left :
             FollowFile(ref) \/ FollowNoFile(ref) \/ FollowNowhere(ref) \/ Ignore(ref)
    BY <1>7 DEF Follow
  <2>0. /\ ref \in Reference /\ Target(reading.path, ref) \in Path /\ status = "discover"
        /\ (Drop(ref) => reading' \in Document)
    <3>1. ref \in Reference /\ status = "discover"
      BY <1>7, TypeParts DEF Follow
    <3>2. Drop(ref) => reading' \in Document
      BY TypeParts DEF Drop, Document
    <3> QED
      BY <3>1, <3>2, TypeParts, TargetTyped
  <2>1. CASE FollowFile(ref)
    <3>1. claims' \in PathSets
      BY <2>0, <2>1, TypeParts DEF FollowFile, Add, PathSets
    <3> QED
      BY <1>a, <2>0, <2>1, <3>1, TypeParts, TypeFrom DEF FollowFile
  <2>2. CASE FollowNoFile(ref)
    <3>1. CASE Fail("strict")
      BY <1>c, <3>1
    <3>2. CASE /\ warnings' = warnings \cup {<<reading.path, ref>>} /\ Drop(ref)
               /\ UNCHANGED <<treeVars, status, failure, walkVars, result, todo, claims, planVars,
                              packVars>>
      <4>1. warnings' \subseteq Path \X Reference
        BY <2>0, <3>2, TypeParts
      <4> QED
        BY <1>a, <2>0, <3>2, <4>1, TypeParts, TypeFrom
    <3> QED
      BY <2>2, <3>1, <3>2 DEF FollowNoFile
  <2>3. CASE FollowNowhere(ref)
    BY <1>c, <2>3 DEF FollowNowhere
  <2>4. CASE Ignore(ref)
    BY <1>a, <2>0, <2>4, TypeParts, TypeFrom DEF Ignore
  <2> QED
    BY <2>1, <2>2, <2>3, <2>4
<1>8. CASE EndWave
  <2>1. CASE Fail("conflict") \/ Fail("collision")
    BY <1>c, <2>1
  <2>2. CASE /\ result' = [c \in Components |-> result[c] \cup claims[c]]
             /\ todo' = Documents(claims)
             /\ claims' = Nothing
             /\ status' = IF claims = Nothing THEN "settle" ELSE "discover"
             /\ UNCHANGED <<treeVars, failure, walkVars, reading, warnings, planVars, packVars>>
    <3>1. result' \in PathSets /\ todo' \in PathSets /\ claims' \in PathSets
      BY <2>2, TypeParts DEF Documents, Nothing, PathSets
    <3>2. status = "discover"
      BY <1>8 DEF EndWave, Discovering
    <3> QED
      BY <1>a, <2>2, <3>1, <3>2, TypeParts, TypeFrom
  <2> QED
    BY <1>8, <2>1, <2>2 DEF EndWave
<1>9. CASE Settle
  <2>1. CASE \E why \in {"nothing", "entrypoint", "locale", "emptyLocale", "empty"} : Fail(why)
    BY <1>c, <2>1
  <2>2. CASE /\ entry' = [c \in Components |-> Entrypoint(c)]
             /\ locales' = [c \in Components |-> [i \in Keys(c) |-> LocalePlan(c, i)]]
             /\ status' = "assemble"
             /\ UNCHANGED <<treeVars, failure, walkVars, result, waveVars, packVars>>
    <3>1. <<>> \in Path
      BY DEF Path
    <3>2. ASSUME NEW c \in Components, NEW files \in SUBSET Path PROVE Detected(c, files) \in Path
      BY <3>1, <3>2, DetectedIsAmong
    <3>3. ASSUME NEW c \in Components PROVE Entrypoint(c) \in Path
      <4>1. config.entry[c] \in Path
        BY TypeParts, PlanAssumption
      <4>2. result[c] \in SUBSET Path
        BY TypeParts DEF PathSets
      <4> QED
        BY <3>2, <4>1, <4>2 DEF Entrypoint
    <3>4. ASSUME NEW c \in Components, NEW i \in Keys(c)
          PROVE  LocalePlan(c, i) \in [default : BOOLEAN, entry : Path, files : SUBSET Path]
      <4>1. config.locales[c][i] \in [paths : SUBSET Path, entry : Path, default : BOOLEAN]
        <5>1. config.locales[c] \in Seq([paths : SUBSET Path, entry : Path, default : BOOLEAN])
          BY TypeParts, PlanAssumption
        <5>2. i \in 1..Len(config.locales[c])
          BY <5>1, LenProperties DEF Keys
        <5> QED
          BY <5>1, <5>2, ElementOfSeq
      <4>2. LocaleFiles(c, i) \in SUBSET Path
        BY TypeParts DEF LocaleFiles, PathSets
      <4>3. LocaleEntrypoint(c, i) \in Path
        BY <3>1, <3>2, <3>3, <4>1, <4>2 DEF LocaleEntrypoint
      <4> QED
        BY <4>2, <4>3 DEF LocalePlan
    <3>5. ASSUME NEW c \in Components
          PROVE  locales'[c] \in Seq([default : BOOLEAN, entry : Path, files : SUBSET Path])
      <4>1. config.locales[c] \in Seq([paths : SUBSET Path, entry : Path, default : BOOLEAN])
        BY TypeParts, PlanAssumption
      <4>2. Keys(c) = 1..Len(config.locales[c]) /\ Len(config.locales[c]) \in Nat
        BY <4>1 DEF Keys
      <4>3. locales'[c] = [i \in Keys(c) |-> LocalePlan(c, i)]
        BY <2>2
      <4> QED
        BY <3>4, <4>2, <4>3
    <3>6. status = "settle" /\ entry' \in [Components -> Path]
      BY <1>9, <2>2, <3>3 DEF Settle
    <3> QED
      BY <1>a, <2>2, <3>5, <3>6, TypeParts, TypeFrom
  <2> QED
    BY <1>9, <2>1, <2>2 DEF Settle
<1>10. ASSUME NEW c \in Components, BeginBlob(c) PROVE TypeInv'
  <2>1. pending' \subseteq Path /\ status = "assemble"
    BY <1>10, TypeParts DEF BeginBlob, Idle, PathSets
  <2> QED
    BY <1>10, <1>a, <2>1, TypeParts, TypeFrom DEF BeginBlob
<1>11. CASE ResolveSource
  <2> DEFINE path == CHOOSE p \in pending : TRUE
             place == Resolve(tree, path).place
  <2>1. CASE Fail("gone")
    BY <1>c, <2>1
  <2>2. CASE /\ sources' = sources \cup {<<path, place>>} /\ pending' = pending \ {path}
             /\ UNCHANGED <<treeVars, status, failure, walkVars, result, waveVars, planVars,
                            packing, packed>>
    <3>1. path \in Path /\ status = "assemble"
      BY <1>11, TypeParts DEF ResolveSource
    <3>2. place \in Path
      BY <3>1, TypeParts, ResolveEnds DEF Ends
    <3> HIDE DEF path, place
    <3>3. sources' \subseteq Path \X Path /\ pending' \subseteq Path
      BY <2>2, <3>1, <3>2, TypeParts
    <3> QED
      BY <1>a, <2>2, <3>1, <3>3, TypeParts, TypeFrom
  <2> QED
    BY <1>11, <2>1, <2>2 DEF ResolveSource
<1>12. CASE WriteEntry
  <2> DEFINE source == CHOOSE s \in sources : TRUE
  <2>1. CASE Fail("gone")
    BY <1>c, <2>1
  <2>2. CASE /\ packed' = Add(packed, packing, source[1]) /\ sources' = sources \ {source}
             /\ UNCHANGED <<treeVars, status, failure, walkVars, result, waveVars, planVars,
                            packing, pending>>
    <3>1. source[1] \in Path /\ status = "assemble"
      BY <1>12, TypeParts DEF WriteEntry
    <3> HIDE DEF source
    <3>2. packed' \in PathSets /\ sources' \subseteq Path \X Path
      BY <2>2, <3>1, TypeParts DEF Add, PathSets
    <3> QED
      BY <1>a, <2>2, <3>1, <3>2, TypeParts, TypeFrom
  <2> QED
    BY <1>12, <2>1, <2>2 DEF WriteEntry
<1>13. CASE EndBuild
  BY <1>13, <1>a, TypeParts, TypeFrom DEF EndBuild, Idle
<1>14. CASE Cancel
  BY <1>14, <1>c DEF Cancel
<1>15. CASE Edit
  <2>1. tree' \in [DOMAIN tree' -> Object]
    <3>1. PICK place \in DOMAIN tree, object \in Objects : tree' = [tree EXCEPT ![place] = object]
      BY <1>15 DEF Edit
    <3>2. tree \in [DOMAIN tree -> Object] /\ object \in Object
      BY PlanAssumption DEF TypeInv, TypeOK
    <3> QED
      BY <3>1, <3>2
  <2>2. edits' \in 0..MaxEdits
    <3>1. edits \in 0..MaxEdits /\ edits > 0 /\ edits' = edits - 1 /\ MaxEdits \in Nat
      BY <1>15, PlanAssumption DEF Edit, TypeInv, TypeOK
    <3> QED
      BY <3>1
  <2> QED
    BY <1>15, <2>1, <2>2 DEF Edit, TypeInv, TypeOK
<1>16. CASE UNCHANGED vars
  BY <1>16 DEF vars, TypeInv, TypeOK
<1> QED
  BY <1>1, <1>2, <1>3, <1>4, <1>5, <1>6, <1>7, <1>8, <1>9, <1>10, <1>11, <1>12, <1>13, <1>14,
     <1>15, <1>16 DEF Next, Step

\* The variables of a build stay within their types (plan.go, dependencies.go).
THEOREM BuildsAreTyped == Spec => []TypeOK
<1>1. TypeInv => TypeOK
  BY DEF TypeInv
<1> QED
  BY TypeStart, TypeStep, <1>1, PTL DEF Spec

------------------------------------------------------------------------------
(***************************************************************************)
(* No file is lost in a tree that stands still.                            *)
(***************************************************************************)
AreFiles ==
  /\ \A path \in Owned(result) \cup Owned(claims) \cup Owned(todo) \cup pending :
       Kind(tree, path) = "file"
  /\ \A source \in sources : Lstat(tree, source[2]) = {"file"}
  /\ failure # "gone"

FoundInv == steady => AreFiles

LEMMA FoundStart == Init => FoundInv
BY OwnedNothing DEF Init, FoundInv, AreFiles

LEMMA FoundFrom ==
  ASSUME FoundInv, steady' = steady, tree' = tree, failure' # "gone",
         Owned(result') \cup Owned(claims') \cup Owned(todo') \cup pending' \subseteq
           Owned(result) \cup Owned(claims) \cup Owned(todo) \cup pending,
         sources' \subseteq sources
  PROVE  FoundInv'
BY DEF FoundInv, AreFiles

LEMMA FoundStep ==
  ASSUME TypeInv, Shape, FoundInv, [Next]_vars
  PROVE  FoundInv'
<1> USE DEF treeVars, walkVars, waveVars, planVars, packVars
<1>a. ASSUME NEW why, Fail(why), why # "gone" PROVE FoundInv'
  BY <1>a, FoundFrom DEF Fail
<1>b. failure = "none" \/ Ended
  BY DEF TypeInv, TypeOK, Ended
<1>c. status # "failed" => failure # "gone"
  BY DEF TypeInv, TypeOK
<1>1. CASE VisitFile
  <2>1. CASE Fail("conflict")
    BY <1>a, <2>1
  <2>2. CASE \E owners :
               /\ result' = [c \in Components |->
                               IF c \in owners THEN result[c] \cup {Visited} ELSE result[c]]
               /\ UNCHANGED <<treeVars, status, failure, waveVars, planVars, packVars>>
    <3>1. Kind(tree, Visited) = "file" /\ failure # "gone"
      BY <1>1, <1>c DEF VisitFile, Visiting
    <3>2. Owned(result') \subseteq Owned(result) \cup {Visited}
      BY <2>2 DEF Owned
    <3> QED
      BY <2>2, <3>1, <3>2 DEF FoundInv, AreFiles
  <2> QED
    BY <1>1, <2>1, <2>2 DEF VisitFile
<1>2. CASE VisitDirectory
  BY <1>2, <1>a, <1>c, FoundFrom DEF VisitDirectory, Visiting
<1>3. CASE VisitNothing
  BY <1>3, <1>a DEF VisitNothing
<1>4. CASE LeaveDirectory
  BY <1>4, <1>c, FoundFrom DEF LeaveDirectory
<1>5. CASE EndWalk
  <2>1. CASE Fail("collision")
    BY <1>a, <2>1
  <2>2. CASE todo' = Documents(result) /\ UNCHANGED <<treeVars, failure, result, claims, packVars>>
    <3>1. Owned(todo') \subseteq Owned(result)
      BY <2>2 DEF Owned, Documents
    <3> QED
      BY <1>5, <1>c, <2>2, <3>1, FoundFrom DEF EndWalk
  <2> QED
    BY <1>5, <2>1, <2>2 DEF EndWalk
<1>6. ASSUME NEW c \in Components, Read(c) PROVE FoundInv'
  <2>1. CASE Fail("gone")
    <3>1. \E path \in todo[c] : Kind(tree, path) # "file"
      BY <1>6, <2>1 DEF Read, Fail, Discovering
    <3> QED
      BY <2>1, <3>1 DEF Fail, FoundInv, AreFiles, Owned
  <2>2. CASE ~Fail("gone")
    <3>1. PICK path \in todo[c] :
            /\ todo' = [todo EXCEPT ![c] = @ \ {path}]
            /\ UNCHANGED <<treeVars, failure, result, claims, packVars>>
      BY <1>6, <2>2 DEF Read
    <3>2. Owned(todo') \subseteq Owned(todo)
      BY <3>1 DEF Owned, Shape
    <3> QED
      BY <1>6, <1>c, <3>1, <3>2, FoundFrom DEF Read, Discovering
  <2> QED
    BY <2>1, <2>2
<1>7. CASE Follow
  <2> PICK ref \in reading.left :
             FollowFile(ref) \/ FollowNoFile(ref) \/ FollowNowhere(ref) \/ Ignore(ref)
    BY <1>7 DEF Follow
  <2>1. CASE FollowFile(ref)
    <3> DEFINE target == Target(reading.path, ref)
    <3>1. Kind(tree, target) = "file" /\ failure # "gone"
      BY <1>7, <1>c, <2>1 DEF FollowFile, Follow
    <3>2. \A c \in Components : claims'[c] \subseteq claims[c] \cup {target}
      BY <2>1 DEF FollowFile, Add, Shape
    <3>3. Owned(claims') \subseteq Owned(claims) \cup {target}
      BY <3>2 DEF Owned
    <3> QED
      BY <2>1, <3>1, <3>3 DEF FoundInv, AreFiles, FollowFile
  <2>2. CASE FollowNoFile(ref) \/ FollowNowhere(ref) \/ Ignore(ref)
    BY <1>7, <1>a, <1>c, <2>2, FoundFrom DEF FollowNoFile, FollowNowhere, Ignore, Follow
  <2> QED
    BY <2>1, <2>2
<1>8. CASE EndWave
  <2>1. CASE Fail("conflict") \/ Fail("collision")
    BY <1>a, <2>1
  <2>2. CASE /\ result' = [c \in Components |-> result[c] \cup claims[c]]
             /\ todo' = Documents(claims)
             /\ claims' = Nothing
             /\ UNCHANGED <<treeVars, failure, packVars>>
    <3>1. Owned(result') = Owned(result) \cup Owned(claims) /\ Owned(claims') = {}
      BY <2>2, OwnedSum, OwnedNothing
    <3>2. Owned(todo') \subseteq Owned(claims)
      BY <2>2 DEF Documents, Owned
    <3> QED
      BY <1>8, <1>c, <2>2, <3>1, <3>2, FoundFrom DEF EndWave, Discovering
  <2> QED
    BY <1>8, <2>1, <2>2 DEF EndWave
<1>9. CASE Settle
  BY <1>9, <1>a, <1>c, FoundFrom DEF Settle
<1>10. ASSUME NEW c \in Components, BeginBlob(c) PROVE FoundInv'
  <2>1. pending' \subseteq Owned(result)
    BY <1>10 DEF BeginBlob, Owned
  <2> QED
    BY <1>10, <1>c, <2>1, FoundFrom DEF BeginBlob, Idle
<1>11. CASE ResolveSource
  <2> DEFINE path == CHOOSE p \in pending : TRUE
             place == Resolve(tree, path).place
  <2>1. path \in pending /\ path \in Path /\ failure # "gone"
    BY <1>11, <1>c, TypeParts DEF ResolveSource
  <2>2. CASE Fail("gone")
    <3>1. ~steady
      BY <1>11, <2>1, <2>2 DEF ResolveSource, Fail, FoundInv, AreFiles, Kind
    <3> QED
      BY <2>2, <3>1 DEF Fail, FoundInv
  <2>3. CASE ~Fail("gone")
    <3>1. /\ sources' = sources \cup {<<path, place>>} /\ pending' = pending \ {path}
          /\ Kind(tree, path) = "file"
          /\ UNCHANGED <<treeVars, failure, result, waveVars>>
      BY <1>11, <2>3 DEF ResolveSource, Kind
    <3>2. Lstat(tree, place) = {"file"}
      BY <2>1, <3>1, TypeParts, FileIsSeen
    <3> HIDE DEF path, place
    <3> QED
      BY <2>1, <3>1, <3>2 DEF FoundInv, AreFiles
  <2> QED
    BY <2>2, <2>3
<1>12. CASE WriteEntry
  <2> DEFINE source == CHOOSE s \in sources : TRUE
  <2>1. source \in sources /\ failure # "gone"
    BY <1>12, <1>c DEF WriteEntry
  <2>2. CASE Fail("gone")
    <3>1. ~steady
      BY <1>12, <2>1, <2>2 DEF WriteEntry, Fail, FoundInv, AreFiles
    <3> QED
      BY <2>2, <3>1 DEF Fail, FoundInv
  <2>3. CASE ~Fail("gone")
    BY <1>12, <2>1, <2>3, FoundFrom DEF WriteEntry
  <2> QED
    BY <2>2, <2>3
<1>13. CASE EndBuild
  BY <1>13, <1>c, FoundFrom DEF EndBuild, Idle
<1>14. CASE Cancel
  BY <1>14, <1>a DEF Cancel
<1>15. CASE Edit
  BY <1>15 DEF Edit, FoundInv
<1>16. CASE UNCHANGED vars
  BY <1>16 DEF vars, FoundInv, AreFiles
<1> QED
  BY <1>1, <1>2, <1>3, <1>4, <1>5, <1>6, <1>7, <1>8, <1>9, <1>10, <1>11, <1>12, <1>13, <1>14,
     <1>15, <1>16 DEF Next, Step

------------------------------------------------------------------------------
(***************************************************************************)
(* The walk of a tree that stands still meets every file, at most MaxDepth *)
(* names down, and calls nothing a cycle that is none.                     *)
(***************************************************************************)

\* The frames of a stack lie below each other, at places of their own.
Chained(frames) ==
  /\ \A i \in 1..Len(frames) :
       /\ Kind(tree, frames[i].prefix) = "directory"
       /\ Resolve(tree, frames[i].prefix).place = frames[i].place
       /\ Len(frames[i].prefix) = i - 1
  /\ \A i, j \in 1..Len(frames) :
       /\ i <= j => frames[i].prefix = SubSeq(frames[j].prefix, 1, i - 1)
       /\ frames[i].place = frames[j].place => i = j

\* The path lies below a name that a frame has left.
Listed(frames, path) ==
  \E i \in 1..Len(frames) : \E n \in frames[i].left, more \in Path :
    path = Append(frames[i].prefix, n) \o more

Fits(c, path) == c \in Owners(path) /\ path \notin config.ignored

Sorted(files, path) ==
  /\ Len(path) <= MaxDepth
  /\ \A c \in Components : Fits(c, path) => path \in files[c]

Covered(frames, files) ==
  /\ \A path \in Path : path # <<>> /\ Kind(tree, path) = "file" =>
       Listed(frames, path) \/ Sorted(files, path)
  /\ \A c \in Components : \A path \in files[c] : path \in Files /\ Fits(c, path)

Walked(frames, files) == Chained(frames) /\ Covered(frames, files)

Known == tree \in Trees \cup EditedTrees

LEMMA SmallDepth ==
  ASSUME TypeInv, Known, Chained(stack)
  PROVE  Len(stack) <= MaxDepth
<1> DEFINE directories == {place \in DOMAIN tree : tree[place].kind = "directory"}
           places == directories \cup {<<>>}
           f == [i \in 1..Len(stack) |-> stack[i].place]
<1>1. Len(stack) \in Nat /\ stack \in Seq(Frames) /\ MaxDepth \in Nat
  BY TypeParts, LenProperties, PlanAssumption
<1>2. /\ IsFiniteSet(directories) /\ Cardinality(directories) \in Nat
      /\ Cardinality(directories) < MaxDepth
  <2>1. IsFiniteSet(DOMAIN tree) /\ Cardinality(directories) < MaxDepth
    BY PlanAssumption DEF Known
  <2> QED
    BY <2>1, FS_Subset, FS_CardinalityType
<1>3. IsFiniteSet(places) /\ Cardinality(places) <= MaxDepth /\ Cardinality(places) \in Nat
  <2> HIDE DEF directories
  <2>1. \A x : /\ IsFiniteSet(directories \cup {x})
               /\ Cardinality(directories \cup {x}) =
                    IF x \in directories THEN Cardinality(directories)
                    ELSE Cardinality(directories) + 1
    BY <1>2, FS_AddElement
  <2>2. /\ IsFiniteSet(places)
        /\ \/ Cardinality(places) = Cardinality(directories)
           \/ Cardinality(places) = Cardinality(directories) + 1
    BY <2>1
  <2> QED
    BY <1>1, <1>2, <2>2
<1>4. ASSUME NEW i \in 1..Len(stack) PROVE stack[i].place \in places
  <2>1. stack[i] \in Frames
    BY <1>1, ElementOfSeq
  <2>2. Real(tree, stack[i].place) /\ stack[i].place \in Path
    BY <2>1, TypeParts, ResolveEnds DEF Chained, Ends, Kind, Frames
  <2>3. stack[i].place # <<>> => At(tree, stack[i].place).kind = "directory"
    <3> DEFINE p == stack[i].place
    <3>1. p \in Seq(Names) /\ Real(tree, p)
      BY <2>2 DEF Path
    <3> HIDE DEF p
    <3>2. p # <<>> => Len(p) \in 1..Len(p) /\ SubSeq(p, 1, Len(p)) = p
      BY <3>1, LenProperties, EmptySeq, SubSeqFull
    <3>3. p # <<>> => At(tree, p).kind = "directory"
      BY <3>1, <3>2 DEF Real
    <3> QED
      BY <3>3 DEF p
  <2> QED
    BY <2>3, TypeParts, AtTyped
<1>5. f \in [1..Len(stack) -> places]
  BY <1>4
<1>6. \A i, j \in 1..Len(stack) : f[i] = f[j] => i = j
  BY DEF Chained
<1>7. IsFiniteSet(1..Len(stack)) /\ Cardinality(1..Len(stack)) = Len(stack)
  <2>1. 1 \in Int /\ Len(stack) \in Int
    BY <1>1
  <2>2. /\ IsFiniteSet(1..Len(stack))
        /\ Cardinality(1..Len(stack)) = IF 1 > Len(stack) THEN 0 ELSE Len(stack) - 1 + 1
    BY <2>1, FS_Interval
  <2> QED
    BY <1>1, <2>2
<1> HIDE DEF f, places
<1> QED
  BY <1>1, <1>3, <1>5, <1>6, <1>7, FS_PigeonHole

\* The path that is visited is in reach of the properties.
LEMMA VisitedIsLogical ==
  ASSUME TypeInv, Known, Chained(stack), Visiting
  PROVE  /\ Visited \in Logical /\ Len(Visited) = Len(stack)
         /\ \A i \in 1..Len(stack) : SubSeq(Visited, 1, i - 1) = stack[i].prefix
<1> DEFINE prefix == Top.prefix
           n == First(Top.left)
<1>1. /\ Visited = Append(prefix, n) /\ Visited \in Path /\ Visited # <<>>
      /\ prefix \in Seq(Names) /\ n \in Names /\ Len(stack) \in Nat \ {0}
      /\ prefix = stack[Len(stack)].prefix
  BY VisitTyped DEF Frames, Path
<1> HIDE DEF prefix, n
<1>2. Len(prefix) = Len(stack) - 1
  BY <1>1 DEF Chained
<1>3. Len(Visited) = Len(stack)
  BY <1>1, <1>2, AppendProperties
<1>4. Visited \in Logical
  <2>1. Len(Visited) <= MaxDepth /\ MaxDepth \in Nat
    BY <1>3, SmallDepth, PlanAssumption
  <2>2. Visited \in BoundedSeq(Names, MaxDepth)
    <3>1. Visited \in [1..Len(Visited) -> Names] /\ Len(Visited) \in 0..MaxDepth
      <4>1. Visited \in Seq(Names)
        BY <1>1 DEF Path
      <4>2. Visited \in [1..Len(Visited) -> Names] /\ Len(Visited) \in Nat
        BY <4>1, LenProperties
      <4> QED
        BY <2>1, <4>2
    <3> QED
      BY <3>1 DEF BoundedSeq, SeqOf
  <2> QED
    BY <1>1, <2>2 DEF Logical
<1>5. ASSUME NEW i \in 1..Len(stack) PROVE SubSeq(Visited, 1, i - 1) = stack[i].prefix
  <2>1. stack[i].prefix = SubSeq(prefix, 1, i - 1) /\ i - 1 \in 0..Len(prefix)
    BY <1>1, <1>2, <1>5 DEF Chained
  <2>2. Visited = prefix \o <<n>> /\ <<n>> \in Seq(Names)
    <3>1. Append(prefix, n) = prefix \o <<n>>
      BY <1>1, AppendIsConcat
    <3>2. <<n>> \in Seq(Names)
      BY <1>1
    <3> QED
      BY <1>1, <3>1, <3>2, Zenon
  <2>3. SubSeq(Visited, 1, i - 1) = SubSeq(prefix, 1, i - 1)
    BY <1>1, <2>1, <2>2, PrefixOfSum
  <2> QED
    BY <2>1, <2>3
<1> QED
  BY <1>3, <1>4, <1>5

\* What is listed, other than the path that is visited and what lies below it, stays so.
LEMMA AdvancedLists ==
  ASSUME TypeInv, Visiting, NEW path, Listed(stack, path)
  PROVE  \/ Listed(Advanced, path)
         \/ \E more \in Path : path = Visited \o more
<1>0. /\ Top = stack[Len(stack)] /\ Len(Advanced) = Len(stack)
      /\ Visited = Append(Top.prefix, First(Top.left))
      /\ \A i \in 1..Len(stack) :
           Advanced[i] = IF i = Len(stack) THEN [Top EXCEPT !.left = @ \ {First(@)}] ELSE stack[i]
      /\ Top = [prefix |-> Top.prefix, place |-> Top.place, left |-> Top.left]
  BY VisitTyped DEF Frames
<1>1. PICK i \in 1..Len(stack) : \E n \in stack[i].left, more \in Path :
             path = Append(stack[i].prefix, n) \o more
  BY DEF Listed
<1>2. PICK n \in stack[i].left, more \in Path : path = Append(stack[i].prefix, n) \o more
  BY <1>1
<1>3. CASE i = Len(stack) /\ n = First(Top.left)
  BY <1>0, <1>2, <1>3
<1>4. CASE i # Len(stack)
  BY <1>0, <1>2, <1>4 DEF Listed
<1>5. CASE i = Len(stack) /\ n # First(Top.left)
  <2>1. Advanced[i].prefix = stack[i].prefix /\ n \in Advanced[i].left
    BY <1>0, <1>2, <1>5
  <2> QED
    BY <1>0, <1>2, <2>1 DEF Listed
<1> QED
  BY <1>3, <1>4, <1>5

LEMMA ChainedToo ==
  ASSUME NEW frames, Chained(frames), Len(frames) \in Nat,
         NEW others, Len(others) \in Nat, Len(others) <= Len(frames),
         \A i \in 1..Len(others) :
           others[i].prefix = frames[i].prefix /\ others[i].place = frames[i].place
  PROVE  Chained(others)
<1>1. \A i \in 1..Len(others) : i \in 1..Len(frames)
  OBVIOUS
<1>2. ASSUME NEW i \in 1..Len(others)
      PROVE  /\ Kind(tree, others[i].prefix) = "directory"
             /\ Resolve(tree, others[i].prefix).place = others[i].place
             /\ Len(others[i].prefix) = i - 1
  <2>1. /\ Kind(tree, frames[i].prefix) = "directory"
        /\ Resolve(tree, frames[i].prefix).place = frames[i].place
        /\ Len(frames[i].prefix) = i - 1
    BY <1>1 DEF Chained
  <2> QED
    BY <2>1
<1>3. ASSUME NEW i \in 1..Len(others), NEW j \in 1..Len(others)
      PROVE  /\ i <= j => others[i].prefix = SubSeq(others[j].prefix, 1, i - 1)
             /\ others[i].place = others[j].place => i = j
  <2>1. /\ i <= j => frames[i].prefix = SubSeq(frames[j].prefix, 1, i - 1)
        /\ frames[i].place = frames[j].place => i = j
    BY <1>1 DEF Chained
  <2> QED
    BY <2>1
<1> QED
  BY <1>2, <1>3 DEF Chained

LEMMA AdvancedIsChained ==
  ASSUME TypeInv, Chained(stack), Visiting
  PROVE  Chained(Advanced)
<1>0. /\ Len(Advanced) = Len(stack)
      /\ \A i \in 1..Len(stack) :
           Advanced[i].prefix = stack[i].prefix /\ Advanced[i].place = stack[i].place
      /\ Len(stack) \in Nat
  BY VisitTyped DEF Frames
<1> QED
  BY <1>0, ChainedToo

\* A file is sorted as the rules say.
LEMMA WalkedFile ==
  ASSUME TypeInv, Known, Walked(stack, result), Visiting, Kind(tree, Visited) = "file", NEW files,
         \A c \in Components :
           files[c] = IF Fits(c, Visited) THEN result[c] \cup {Visited} ELSE result[c]
  PROVE  Walked(Advanced, files)
<1>0. Visited \in Path /\ IsTree(tree) /\ Visited \in Logical /\ Len(Visited) <= MaxDepth
  <2>1. Visited \in Logical /\ Len(Visited) = Len(stack) /\ Len(stack) <= MaxDepth
    BY VisitedIsLogical, SmallDepth DEF Walked
  <2> QED
    BY <2>1, VisitTyped, TypeParts
<1>1. Chained(Advanced)
  BY AdvancedIsChained DEF Walked
<1>2. Sorted(files, Visited)
  BY <1>0 DEF Sorted
<1>3. ASSUME NEW path \in Path, path # <<>>, Kind(tree, path) = "file"
      PROVE  Listed(Advanced, path) \/ Sorted(files, path)
  <2>1. CASE Sorted(result, path)
    BY <2>1 DEF Sorted
  <2>2. CASE Listed(stack, path)
    <3>1. CASE \E more \in Path : path = Visited \o more
      <4>1. PICK more \in Path : path = Visited \o more
        BY <3>1
      <4>2. more = <<>>
        BY <1>0, <1>3, <4>1, FileIsLeaf
      <4>3. path = Visited
        BY <1>0, <4>1, <4>2, ConcatEmptySeq DEF Path
      <4> QED
        BY <1>2, <4>3
    <3> QED
      BY <2>2, <3>1, AdvancedLists
  <2> QED
    BY <1>3, <2>1, <2>2 DEF Walked, Covered
<1>4. ASSUME NEW c \in Components, NEW path \in files[c]
      PROVE  path \in Files /\ Fits(c, path)
  BY <1>0, <1>4 DEF Walked, Covered, Files
<1> QED
  BY <1>1, <1>3, <1>4 DEF Walked, Covered

\* A directory that is none of those it lies in is listed.
LEMMA WalkedDirectory ==
  ASSUME TypeInv, Known, Walked(stack, result), Visiting, Kind(tree, Visited) = "directory",
         NEW place, place = Resolve(tree, Visited).place,
         \A i \in 1..Len(stack) : stack[i].place # place
  PROVE  Walked(Append(Advanced, Frame(Visited, place)), result)
<1> DEFINE frame == Frame(Visited, place)
           frames == Append(Advanced, frame)
           l == Len(stack)
<1>0. /\ Visited \in Path /\ Visited # <<>> /\ IsTree(tree) /\ Len(Visited) = l /\ l \in Nat \ {0}
      /\ \A i \in 1..l : SubSeq(Visited, 1, i - 1) = stack[i].prefix
  BY VisitTyped, TypeParts, VisitedIsLogical DEF Walked
<1>1. place \in Path
  BY <1>0, ResolveEnds DEF Ends
<1>2. /\ frame \in Frames /\ frame.prefix = Visited /\ frame.place = place
      /\ frame.left = {n \in Names : At(tree, Append(place, n)).kind # "absent"}
  BY <1>0, <1>1, FrameTyped DEF Frame
<1> HIDE DEF frame
<1>3. /\ Advanced \in Seq(Frames) /\ Len(Advanced) = l
      /\ \A i \in 1..l :
           Advanced[i].prefix = stack[i].prefix /\ Advanced[i].place = stack[i].place
  BY VisitTyped DEF Frames
<1>4. /\ Len(frames) = l + 1 /\ frames[l + 1] = frame
      /\ \A i \in 1..l : frames[i] = Advanced[i]
  BY <1>2, <1>3, AppendProperties
<1> HIDE DEF frames
<1>5. SubSeq(Visited, 1, l) = Visited
  BY <1>0, SubSeqFull DEF Path
<1>6. Chained(frames)
  <2>1. Chained(Advanced)
    BY AdvancedIsChained DEF Walked
  <2>2. ASSUME NEW i \in 1..Len(frames)
        PROVE  /\ Kind(tree, frames[i].prefix) = "directory"
               /\ Resolve(tree, frames[i].prefix).place = frames[i].place
               /\ Len(frames[i].prefix) = i - 1
    <3>1. CASE i = l + 1
      BY <1>0, <1>2, <1>4, <3>1
    <3>2. CASE i \in 1..l
      <4>1. /\ Kind(tree, Advanced[i].prefix) = "directory"
            /\ Resolve(tree, Advanced[i].prefix).place = Advanced[i].place
            /\ Len(Advanced[i].prefix) = i - 1
        BY <1>3, <2>1, <3>2 DEF Chained
      <4> QED
        BY <1>4, <3>2, <4>1
    <3> QED
      BY <1>0, <1>4, <3>1, <3>2
  <2>3. ASSUME NEW i \in 1..Len(frames), NEW j \in 1..Len(frames), i <= j
        PROVE  frames[i].prefix = SubSeq(frames[j].prefix, 1, i - 1)
    <3>1. CASE j <= l
      <4>1. i \in 1..l /\ j \in 1..l
        BY <1>0, <1>4, <3>1, <2>3
      <4>2. Advanced[i].prefix = SubSeq(Advanced[j].prefix, 1, i - 1)
        BY <1>3, <2>1, <2>3, <4>1 DEF Chained
      <4> QED
        BY <1>4, <4>1, <4>2
    <3>2. CASE j = l + 1 /\ i <= l
      BY <1>0, <1>2, <1>3, <1>4, <2>3, <3>2
    <3>3. CASE j = l + 1 /\ i = l + 1
      BY <1>0, <1>2, <1>4, <1>5, <3>3
    <3> QED
      BY <1>0, <1>4, <2>3, <3>1, <3>2, <3>3
  <2>4. ASSUME NEW i \in 1..Len(frames), NEW j \in 1..Len(frames), frames[i].place = frames[j].place
        PROVE  i = j
    <3>1. i \in 1..l \cup {l + 1} /\ j \in 1..l \cup {l + 1}
      BY <1>0, <1>4
    <3>2. CASE i \in 1..l /\ j \in 1..l
      <4>1. Advanced[i].place = Advanced[j].place
        BY <1>4, <2>4, <3>2
      <4> QED
        BY <1>3, <2>1, <3>2, <4>1 DEF Chained
    <3>3. CASE i = l + 1 /\ j \in 1..l
      BY <1>2, <1>3, <1>4, <2>4, <3>3
    <3>4. CASE i \in 1..l /\ j = l + 1
      BY <1>2, <1>3, <1>4, <2>4, <3>4
    <3> QED
      BY <3>1, <3>2, <3>3, <3>4
  <2> QED
    BY <2>2, <2>3, <2>4 DEF Chained
<1>7. ASSUME NEW path \in Path, path # <<>>, Kind(tree, path) = "file"
      PROVE  Listed(frames, path) \/ Sorted(result, path)
  <2>1. CASE Listed(Advanced, path)
    <3>1. PICK i \in 1..l : \E n \in Advanced[i].left, more \in Path :
                path = Append(Advanced[i].prefix, n) \o more
      BY <1>3, <2>1 DEF Listed
    <3> HIDE DEF l
    <3>2. i \in 1..Len(frames) /\ frames[i] = Advanced[i]
      <4>1. l \in Nat
        BY <1>0
      <4> QED
        BY <1>4, <4>1
    <3> QED
      BY <3>1, <3>2 DEF Listed
  <2>2. CASE \E more \in Path : path = Visited \o more
    <3>1. PICK more \in Path : path = Visited \o more
      BY <2>2
    <3>2. more # <<>>
      BY <1>0, <1>7, <3>1, ConcatEmptySeq DEF Path
    <3> DEFINE n == Head(more)
               rest == Tail(more)
    <3>3. n \in Names /\ rest \in Path /\ path = Append(Visited, n) \o rest
      BY <1>0, <3>1, <3>2, HeadMoves DEF Path
    <3> HIDE DEF n, rest
    <3>4. At(tree, Append(place, n)).kind # "absent"
      BY <1>0, <1>7, <3>3, ListingIsComplete
    <3> QED
      <4>1. l + 1 \in 1..Len(frames) /\ frames[l + 1].prefix = Visited /\ n \in frames[l + 1].left
        BY <1>0, <1>2, <1>4, <3>3, <3>4
      <4> QED
        BY <3>3, <4>1 DEF Listed
  <2>3. CASE Sorted(result, path)
    BY <2>3
  <2> QED
    BY <1>7, <2>1, <2>2, <2>3, AdvancedLists DEF Walked, Covered
<1> QED
  BY <1>6, <1>7 DEF Walked, Covered, frames, frame

\* An exhausted directory is left.
LEMMA WalkedUp ==
  ASSUME TypeInv, Walked(stack, result), stack # <<>>, Top.left = {}
  PROVE  Walked(Front(stack), result)
<1>1. stack \in Seq(Frames) /\ Len(stack) \in Nat \ {0} /\ stack[Len(stack)].left = {}
  BY TypeParts, EmptySeq DEF Top, Last
<1>2. /\ Len(Front(stack)) = Len(stack) - 1
      /\ \A i \in 1..(Len(stack) - 1) : Front(stack)[i] = stack[i]
  BY <1>1, FrontLast DEF Front
<1> DEFINE frames == Front(stack)
<1> HIDE DEF frames
<1>3. /\ Len(frames) = Len(stack) - 1
      /\ \A i \in 1..Len(frames) : i \in 1..Len(stack) /\ frames[i] = stack[i]
  BY <1>1, <1>2 DEF frames
<1>4. Chained(frames)
  <2>1. Chained(stack)
    BY DEF Walked
  <2> QED
    BY <1>1, <1>3, <2>1, ChainedToo
<1>5. ASSUME NEW path, Listed(stack, path) PROVE Listed(frames, path)
  <2>1. PICK i \in 1..Len(stack) : \E n \in stack[i].left, more \in Path :
              path = Append(stack[i].prefix, n) \o more
    BY <1>5 DEF Listed
  <2>2. i # Len(stack)
    BY <1>1, <2>1
  <2>3. i \in 1..Len(frames) /\ frames[i] = stack[i]
    BY <1>1, <1>3, <2>2
  <2> QED
    BY <2>1, <2>3 DEF Listed
<1> QED
  BY <1>4, <1>5 DEF Walked, Covered, frames
------------------------------------------------------------------------------
(***************************************************************************)
(* Within: the recursion, unfolded.                                        *)
(***************************************************************************)

\* A path is the set of its names with their positions, of which there are finitely many.
LEMMA FilesAreFinite == IsFiniteSet(Files)
<1> DEFINE Cells == (1..MaxDepth) \X Names
           f == [s \in Files |-> {<<i, s[i]>> : i \in 1..Len(s)}]
<1>1. IsFiniteSet(Names)
  <2>1. Order \in Seq(Names) /\ ToSet(Order) = Names
    BY PlanAssumption
  <2>2. /\ Len(Order) \in Nat /\ DOMAIN Order = 1..Len(Order)
        /\ Order \in [1..Len(Order) -> Names]
    BY <2>1, LenProperties
  <2>3. Order \in Surjection(1..Len(Order), Names)
    BY <2>1, <2>2 DEF Surjection, ToSet
  <2>4. 1 \in Int /\ Len(Order) \in Int
    BY <2>2
  <2>5. IsFiniteSet(1..Len(Order))
    BY <2>4, FS_Interval
  <2> QED
    BY <2>3, <2>5, FS_Surjection
<1>2. IsFiniteSet(Cells)
  <2>1. 1 \in Int /\ MaxDepth \in Int
    BY PlanAssumption
  <2>2. IsFiniteSet(1..MaxDepth)
    BY <2>1, FS_Interval
  <2> QED
    BY <1>1, <2>2, FS_Product
<1>3. IsFiniteSet(SUBSET Cells)
  <2> HIDE DEF Cells
  <2> QED
    BY <1>2, FS_SUBSET
<1>4. ASSUME NEW s \in Files
      PROVE  s \in Seq(Names) /\ Len(s) \in 0..MaxDepth
  <2>1. s \in UNION {[1..m -> Names] : m \in 0..MaxDepth}
    BY DEF Files, Logical, BoundedSeq, SeqOf
  <2>2. PICK m \in 0..MaxDepth : s \in [1..m -> Names]
    BY <2>1
  <2>3. m \in Nat
    BY <2>2, PlanAssumption
  <2>4. s \in Seq(Names)
    BY <2>2, <2>3
  <2>5. Len(s) = m
    BY <2>2, <2>3
  <2> QED
    BY <2>2, <2>4, <2>5
<1>5. ASSUME NEW s \in Files PROVE f[s] \in SUBSET Cells
  <2>1. \A i \in 1..Len(s) : s[i] \in Names /\ i \in 1..MaxDepth
    BY <1>4, ElementOfSeq, PlanAssumption
  <2> QED
    BY <2>1
<1>6. ASSUME NEW s \in Files, NEW r \in Files, f[s] = f[r] PROVE s = r
  <2>1. /\ s \in Seq(Names) /\ r \in Seq(Names) /\ Len(s) \in Nat /\ Len(r) \in Nat
    BY <1>4, LenProperties
  <2>2. \A i, x : <<i, x>> \in f[s] <=> i \in 1..Len(s) /\ x = s[i]
    OBVIOUS
  <2>3. \A i, x : <<i, x>> \in f[r] <=> i \in 1..Len(r) /\ x = r[i]
    OBVIOUS
  <2> HIDE DEF f
  <2>4. \A i : i \in 1..Len(s) <=> i \in 1..Len(r)
    BY <1>6, <2>2, <2>3
  <2>5. Len(s) = Len(r)
    <3>1. Len(s) > 0 => Len(s) \in 1..Len(r)
      BY <2>1, <2>4
    <3>2. Len(r) > 0 => Len(r) \in 1..Len(s)
      BY <2>1, <2>4
    <3> QED
      BY <2>1, <3>1, <3>2
  <2>6. \A i \in 1..Len(s) : s[i] = r[i]
    BY <1>6, <2>2, <2>3
  <2> QED
    BY <2>1, <2>5, <2>6, SeqEqual
<1>7. f \in Injection(Files, SUBSET Cells)
  <2>1. f \in [Files -> SUBSET Cells]
    BY <1>5
  <2> HIDE DEF f, Cells
  <2> QED
    BY <1>6, <2>1 DEF Injection, IsInjective
<1> HIDE DEF f, Cells
<1> QED
  BY <1>3, <1>7, FS_Injection

Waves(files) ==
  CHOOSE f : f = [n \in 0..Cardinality(files) |->
                    IF n = 0 THEN Direct(files) ELSE f[n - 1] \cup Reached(files, f[n - 1])]

LEMMA WithinIsWaves == Within = Waves(Files)
BY DEF Within, Waves

LEMMA WithinUnfolds ==
  /\ Cardinality(Files) \in Nat /\ DOMAIN Within = 0..Cardinality(Files)
  /\ Within[0] = Direct(Files)
  /\ \A n \in 1..Cardinality(Files) :
       Within[n] = Within[n - 1] \cup Reached(Files, Within[n - 1])
<1> DEFINE N == Cardinality(Files)
           Rule(f, m) == f = [n \in 0..m |-> IF n = 0 THEN Direct(Files)
                                             ELSE f[n - 1] \cup Reached(Files, f[n - 1])]
           Bad == {m \in 0..N : ~ \E f : Rule(f, m)}
<1>1. N \in Nat
  BY FilesAreFinite, FS_CardinalityType
<1> HIDE DEF N
<1>2. Bad = {}
  <2> SUFFICES ASSUME Bad # {} PROVE FALSE
    OBVIOUS
  <2>1. Bad \in SUBSET Nat
    BY <1>1
  <2>2. PICK m \in Bad : \A k \in Bad : m <= k
    <3> HIDE DEF Bad
    <3> QED
      BY <2>1, SmallestExists
  <2>3. m \in 0..N /\ ~ \E f : Rule(f, m)
    OBVIOUS
  <2>4. CASE m = 0
    <3>1. Rule([n \in 0..0 |-> Direct(Files)], 0)
      OBVIOUS
    <3> QED
      BY <2>3, <2>4, <3>1
  <2>5. CASE m # 0
    <3>1. m - 1 \in 0..N /\ m - 1 \notin Bad
      <4> HIDE DEF Rule
      <4>1. m \in Int /\ N \in Int /\ 0 <= m /\ m <= N
        BY <1>1, <2>3
      <4>2. m - 1 \in 0..N /\ ~(m <= m - 1)
        BY <4>1, <2>5
      <4> HIDE DEF Bad
      <4> QED
        BY <2>2, <4>2
    <3>2. PICK f : Rule(f, m - 1)
      BY <3>1
    <3> DEFINE g == [n \in 0..m |-> IF n = 0 THEN Direct(Files)
                                    ELSE f[n - 1] \cup Reached(Files, f[n - 1])]
    <3>3. \A n \in 0..(m - 1) : g[n] = f[n]
      <4>1. f = [n \in 0..(m - 1) |-> IF n = 0 THEN Direct(Files)
                                      ELSE f[n - 1] \cup Reached(Files, f[n - 1])]
        BY <3>2
      <4>2. \A n \in 0..(m - 1) : n \in 0..m
        BY <1>1, <2>3
      <4>3. \A n \in 0..(m - 1) : f[n] = IF n = 0 THEN Direct(Files)
                                         ELSE f[n - 1] \cup Reached(Files, f[n - 1])
        BY <4>1, Zenon
      <4> QED
        BY <4>2, <4>3
    <3>4. \A n \in 0..m : n # 0 => n - 1 \in 0..(m - 1)
      BY <1>1, <2>3
    <3>5. g = [n \in 0..m |-> IF n = 0 THEN Direct(Files)
                              ELSE g[n - 1] \cup Reached(Files, g[n - 1])]
      BY <3>3, <3>4
    <3> HIDE DEF g
    <3> QED
      BY <2>3, <3>5
  <2> QED
    BY <2>4, <2>5
<1>3. \E f : Rule(f, N)
  <2> HIDE DEF Rule
  <2>1. N \in 0..N
    BY <1>1
  <2> QED
    BY <1>2, <2>1
<1>4. Rule(Within, N)
  BY <1>3, WithinIsWaves DEF Waves, N
<1>5. \A n \in 0..N : Within[n] = IF n = 0 THEN Direct(Files)
                              ELSE Within[n - 1] \cup Reached(Files, Within[n - 1])
  BY <1>4, Zenon
<1>6. DOMAIN Within = 0..N
  <2>1. \A f : Rule(f, N) => DOMAIN f = 0..N
    BY Zenon
  <2> HIDE DEF Rule
  <2> QED
    BY <1>4, <2>1
<1>7. 0 \in 0..N /\ \A n \in 1..N : n \in 0..N /\ n # 0
  BY <1>1
<1> QED
  BY <1>1, <1>5, <1>6, <1>7 DEF N

Wanted == Files \ config.ignored

\* A reference in one document leads to the other file.
Leads(path, target) ==
  /\ IsMarkdown(path)
  /\ \E ref \in RefsOf(tree, path) : ~Leaves(path, ref) /\ Target(path, ref) = target

LEMMA ReachedIs ==
  ASSUME NEW pairs \in SUBSET (Components \X Files), NEW c \in Components, NEW target
  PROVE  <<c, target>> \in Reached(Files, pairs) <=>
           target \in Wanted /\ \E path \in Files : <<c, path>> \in pairs /\ Leads(path, target)
<1> DEFINE to(pair) == {<<pair[1], Target(pair[2], ref)>> :
                          ref \in {r \in RefsOf(tree, pair[2]) : ~Leaves(pair[2], r)}}
           all == {<<pair[1], file>> : pair \in pairs, file \in Files \ config.ignored}
           led == UNION {to(pair) : pair \in {p \in pairs : IsMarkdown(p[2])}}
<1>1. Reached(Files, pairs) = all \cap led
  BY DEF Reached
<1>2. ASSUME <<c, target>> \in all \cap led
      PROVE  target \in Wanted /\ \E path \in Files : <<c, path>> \in pairs /\ Leads(path, target)
  <2>1. PICK pair \in pairs, file \in Files \ config.ignored : <<c, target>> = <<pair[1], file>>
    BY <1>2
  <2>2. PICK from \in pairs : IsMarkdown(from[2]) /\ <<c, target>> \in to(from)
    BY <1>2
  <2>3. PICK ref \in RefsOf(tree, from[2]) :
               ~Leaves(from[2], ref) /\ <<c, target>> = <<from[1], Target(from[2], ref)>>
    BY <2>2
  <2>4. from = <<c, from[2]>> /\ from[2] \in Files /\ Target(from[2], ref) = target
    BY <2>2, <2>3
  <2> QED
    BY <2>1, <2>2, <2>3, <2>4 DEF Wanted, Leads
<1>3. ASSUME target \in Wanted, NEW path \in Files, <<c, path>> \in pairs, Leads(path, target)
      PROVE  <<c, target>> \in all \cap led
  <2> DEFINE pair == <<c, path>>
  <2>1. pair \in pairs /\ pair[1] = c /\ pair[2] = path
    BY <1>3
  <2> HIDE DEF pair
  <2>2. <<pair[1], target>> \in all
    BY <1>3, <2>1 DEF Wanted
  <2>3. PICK ref \in RefsOf(tree, pair[2]) : ~Leaves(pair[2], ref) /\ Target(pair[2], ref) = target
    BY <1>3, <2>1 DEF Leads
  <2>4. <<pair[1], target>> \in to(pair)
    BY <2>3
  <2>5. pair \in {p \in pairs : IsMarkdown(p[2])}
    BY <1>3, <2>1 DEF Leads
  <2> HIDE DEF to, all
  <2>6. <<pair[1], target>> \in led
    BY <2>4, <2>5
  <2> QED
    BY <2>1, <2>2, <2>6
<1> HIDE DEF all, led
<1> QED
  BY <1>1, <1>2, <1>3

LEMMA DirectIs ==
  ASSUME NEW c \in Components, NEW path
  PROVE  <<c, path>> \in Direct(Files) <=> path \in Wanted /\ c \in Owners(path)
BY DEF Direct, Wanted

\* Waves grow, and hold nothing that is ignored.
LEMMA WavesTyped ==
  ASSUME NEW n \in 0..Cardinality(Files)
  PROVE  Within[n] \subseteq Components \X Wanted
<1> DEFINE N == Cardinality(Files)
           Bad == {m \in 0..N : ~(Within[m] \subseteq Components \X Wanted)}
<1> SUFFICES ASSUME Bad # {} PROVE FALSE
  OBVIOUS
<1>0. N \in Nat
  BY WithinUnfolds
<1>1. Bad \in SUBSET Nat
  BY <1>0
<1>2. PICK m \in Bad : \A k \in Bad : m <= k
  <2> HIDE DEF Bad
  <2> QED
    BY <1>1, SmallestExists
<1>3. m # 0
  <2>1. Direct(Files) \subseteq Components \X Wanted
    BY DEF Direct, Wanted
  <2> QED
    BY <1>2, <2>1, WithinUnfolds
<1>4. m \in 1..N /\ m - 1 \in 0..N /\ ~(m <= m - 1)
  BY <1>0, <1>2, <1>3
<1>5. Within[m - 1] \subseteq Components \X Wanted
  BY <1>2, <1>4
<1>6. \A pairs : pairs \subseteq Components \X Wanted =>
        Reached(Files, pairs) \subseteq Components \X Wanted
  BY DEF Reached, Wanted
<1>7. Within[m] = Within[m - 1] \cup Reached(Files, Within[m - 1])
  BY <1>4, WithinUnfolds
<1> QED
  BY <1>2, <1>5, <1>6, <1>7

LEMMA WavesGrow ==
  ASSUME NEW n \in 0..Cardinality(Files), NEW m \in 0..n
  PROVE  Within[m] \subseteq Within[n]
<1> DEFINE N == Cardinality(Files)
           Bad == {k \in 0..N : m <= k /\ ~(Within[m] \subseteq Within[k])}
<1>0. N \in Nat /\ m \in Nat /\ n \in Nat
  BY WithinUnfolds
<1> SUFFICES ASSUME Bad # {} PROVE FALSE
  BY <1>0
<1>1. Bad \in SUBSET Nat
  BY <1>0
<1>2. PICK k \in Bad : \A i \in Bad : k <= i
  <2> HIDE DEF Bad
  <2> QED
    BY <1>1, SmallestExists
<1>3. k # m
  BY <1>2
<1>4. k \in 1..N /\ k - 1 \in 0..N /\ m <= k - 1 /\ ~(k <= k - 1)
  BY <1>0, <1>2, <1>3
<1>5. Within[m] \subseteq Within[k - 1]
  BY <1>2, <1>4
<1>6. Within[k] = Within[k - 1] \cup Reached(Files, Within[k - 1])
  BY <1>4, WithinUnfolds
<1> QED
  BY <1>2, <1>5, <1>6

\* What lies one reference behind a wave is in the next.
LEMMA NextWave ==
  ASSUME NEW n \in 1..Cardinality(Files), NEW c \in Components, NEW target
  PROVE  <<c, target>> \in Within[n] <=>
           \/ <<c, target>> \in Within[n - 1]
           \/ /\ target \in Wanted
              /\ \E path \in Files : <<c, path>> \in Within[n - 1] /\ Leads(path, target)
<1>1. n - 1 \in 0..Cardinality(Files)
  BY WithinUnfolds
<1>2. Within[n - 1] \in SUBSET (Components \X Files)
  BY <1>1, WavesTyped DEF Wanted
<1>3. Within[n] = Within[n - 1] \cup Reached(Files, Within[n - 1])
  BY WithinUnfolds
<1> DEFINE before == Within[n - 1]
<1> HIDE DEF before
<1>4. <<c, target>> \in Reached(Files, before) <=>
        target \in Wanted /\ \E path \in Files : <<c, path>> \in before /\ Leads(path, target)
  BY <1>2, ReachedIs DEF before
<1> QED
  BY <1>3, <1>4 DEF before
------------------------------------------------------------------------------
(***************************************************************************)
(* The waves of discovery are the waves of Within.                         *)
(***************************************************************************)
Alone(n, c, path) ==
  <<c, path>> \in Within[n] /\ \A d \in Components \ {c} : <<d, path>> \notin Within[n]

\* Each file of the first n waves is owned by the component that came first.
Ranked(n, files) ==
  /\ n \in 0..Cardinality(Files)
  /\ \A c \in Components : \A path : path \in files[c] <=> \E m \in 0..n : Alone(m, c, path)
  /\ \A c \in Components : \A path : <<c, path>> \in Within[n] => path \in Owned(files)
  /\ n <= Cardinality(Owned(files))

\* Where an owned document leads is owned or claimed for its owner, or has to be read.
Awaited(files, claimed, left, read) ==
  /\ \A c \in Components : \A target \in claimed[c] :
       /\ target \in Wanted /\ target \notin Owned(files)
       /\ \E path \in files[c] : Leads(path, target)
  /\ \A c \in Components : \A path \in files[c], target \in Wanted : Leads(path, target) =>
       \/ target \in Owned(files) \cup claimed[c]
       \/ path \in left[c]
       \/ /\ read.component = c /\ read.path = path
          /\ \E ref \in read.left : ~Leaves(path, ref) /\ Target(path, ref) = target
  /\ \A c \in Components : \A path \in left[c] : path \in files[c] /\ IsMarkdown(path)
  /\ read.left # {} =>
       /\ read.component \in Components /\ read.path \in files[read.component]
       /\ IsMarkdown(read.path) /\ read.left \subseteq RefsOf(tree, read.path)

LEMMA OwnedIs ==
  ASSUME NEW files
  PROVE  \A path : path \in Owned(files) <=> \E c \in Components : path \in files[c]
BY DEF Owned

LEMMA RankedTyped ==
  ASSUME NEW n, NEW files, Ranked(n, files)
  PROVE  /\ n \in Nat /\ Cardinality(Files) \in Nat
         /\ \A c \in Components : files[c] \subseteq Wanted
         /\ Owned(files) \subseteq Wanted
         /\ \A m \in 0..n : m \in 0..Cardinality(Files)
         /\ \A c \in Components : \A path : <<c, path>> \in Within[n] =>
              path \in Wanted /\ \E d \in Components : path \in files[d]
<1>1. n \in Nat /\ Cardinality(Files) \in Nat /\ n \in 0..Cardinality(Files)
  BY WithinUnfolds DEF Ranked
<1>2. \A m \in 0..n : m \in 0..Cardinality(Files)
  BY <1>1
<1>3. \A m \in 0..n : Within[m] \subseteq Components \X Wanted
  BY <1>2, WavesTyped
<1>4. ASSUME NEW c \in Components, NEW path \in files[c] PROVE path \in Wanted
  <2>1. PICK m \in 0..n : Alone(m, c, path)
    BY DEF Ranked
  <2> QED
    BY <1>3, <2>1 DEF Alone
<1>5. n \in 0..n
  BY <1>1
<1>6. ASSUME NEW c \in Components, NEW path, <<c, path>> \in Within[n]
      PROVE  path \in Wanted /\ \E d \in Components : path \in files[d]
  <2>1. path \in Owned(files)
    BY <1>6 DEF Ranked
  <2> QED
    BY <1>3, <1>5, <1>6, <2>1, OwnedIs
<1> QED
  BY <1>1, <1>2, <1>4, <1>6, OwnedIs

\* Who comes to a file that another one owns has come later.
LEMMA OwnersComeFirst ==
  ASSUME NEW n, NEW files, Ranked(n, files), NEW k \in 0..Cardinality(Files), n <= k,
         NEW c \in Components, NEW d \in Components,
         NEW path, <<c, path>> \in Within[k], path \in files[d], c # d
  PROVE  \E m \in 0..n : m < k /\ <<d, path>> \in Within[m]
<1>1. n \in Nat /\ k \in Nat
  BY RankedTyped
<1>2. PICK m \in 0..n : Alone(m, d, path)
  BY DEF Ranked
<1>3. <<c, path>> \notin Within[m] /\ <<d, path>> \in Within[m]
  BY <1>2 DEF Alone
<1>4. m # k
  BY <1>3
<1> QED
  BY <1>1, <1>3, <1>4

\* As long as a wanted file has no owner, there is a next wave.
LEMMA MoreWaves ==
  ASSUME NEW n, NEW files, Ranked(n, files), NEW target \in Wanted, target \notin Owned(files)
  PROVE  n < Cardinality(Files)
<1>1. Owned(files) \in SUBSET Files /\ Owned(files) # Files
  BY RankedTyped DEF Wanted
<1>2. IsFiniteSet(Files) /\ IsFiniteSet(Owned(files))
  BY <1>1, FilesAreFinite, FS_Subset
<1>3. /\ Cardinality(Owned(files)) <= Cardinality(Files)
      /\ Cardinality(Owned(files)) # Cardinality(Files)
  BY <1>1, <1>2, FS_Subset
<1>4. Cardinality(Owned(files)) \in Nat /\ Cardinality(Files) \in Nat
  BY <1>2, FS_CardinalityType
<1>5. n \in Nat /\ n <= Cardinality(Owned(files))
  BY RankedTyped DEF Ranked
<1> QED
  BY <1>3, <1>4, <1>5

\* After a wave is read, its claims are what the next wave of Within adds.
LEMMA ClaimsAreNext ==
  ASSUME NEW n, NEW files, Ranked(n, files), n < Cardinality(Files),
         NEW claimed, NEW read, Awaited(files, claimed, Nothing, read), read.left = {},
         NEW c \in Components, NEW target, target \notin Owned(files)
  PROVE  target \in claimed[c] <=> <<c, target>> \in Within[n + 1]
<1>1. n \in Nat /\ Cardinality(Files) \in Nat /\ n + 1 \in 1..Cardinality(Files) /\ n + 1 - 1 = n
  BY RankedTyped
<1>2. <<c, target>> \notin Within[n]
  BY RankedTyped, OwnedIs
<1>3. <<c, target>> \in Within[n + 1] <=>
        target \in Wanted /\ \E path \in Files : <<c, path>> \in Within[n] /\ Leads(path, target)
  <2> DEFINE k == n + 1
  <2>1. k \in 1..Cardinality(Files) /\ k - 1 = n
    BY <1>1
  <2> HIDE DEF k
  <2>2. <<c, target>> \in Within[k] <=>
           \/ <<c, target>> \in Within[k - 1]
           \/ /\ target \in Wanted
              /\ \E path \in Files : <<c, path>> \in Within[k - 1] /\ Leads(path, target)
    BY <2>1, NextWave
  <2>3. <<c, target>> \in Within[k] <=>
           target \in Wanted /\ \E path \in Files : <<c, path>> \in Within[n] /\ Leads(path, target)
    BY <1>2, <2>1, <2>2
  <2> QED
    BY <2>3 DEF k
<1>4. ASSUME target \in claimed[c] PROVE <<c, target>> \in Within[n + 1]
  <2>1. target \in Wanted /\ \E path \in files[c] : Leads(path, target)
    BY <1>4 DEF Awaited
  <2>2. PICK path \in files[c] : Leads(path, target)
    BY <2>1
  <2>3. PICK m \in 0..n : Alone(m, c, path)
    BY DEF Ranked
  <2>4. <<c, path>> \in Within[n]
    BY <1>1, <2>3, WavesGrow DEF Alone
  <2>5. path \in Files
    BY RankedTyped DEF Wanted
  <2> QED
    BY <1>3, <2>1, <2>2, <2>4, <2>5
<1>5. ASSUME <<c, target>> \in Within[n + 1] PROVE target \in claimed[c]
  <2>1. PICK path \in Files : <<c, path>> \in Within[n] /\ Leads(path, target)
    BY <1>3, <1>5
  <2>2. PICK d \in Components : path \in files[d]
    BY <2>1, RankedTyped
  <2>3. CASE d = c
    BY <1>3, <1>5, <2>1, <2>2, <2>3 DEF Awaited, Nothing
  <2>4. CASE d # c
    <3>1. PICK m \in 0..n : m < n /\ <<d, path>> \in Within[m]
      <4>1. n \in 0..Cardinality(Files) /\ n <= n
        BY <1>1
      <4> QED
        BY <2>1, <2>2, <2>4, <4>1, OwnersComeFirst
    <3>2. m + 1 \in 1..Cardinality(Files) /\ m + 1 - 1 = m /\ m + 1 \in 0..n
      BY <1>1, <3>1
    <3>3. <<d, target>> \in Within[m + 1]
      <4>1. <<d, path>> \in Within[m + 1 - 1] /\ target \in Wanted
        BY <1>3, <1>5, <3>1, <3>2
      <4> QED
        BY <2>1, <3>2, <4>1, NextWave
    <3>4. <<d, target>> \in Within[n]
      BY <1>1, <3>2, <3>3, WavesGrow
    <3> QED
      BY <3>4 DEF Ranked
  <2> QED
    BY <2>3, <2>4
<1> QED
  BY <1>4, <1>5

\* A claim of two components is a tie.
LEMMA ContestedIsTie ==
  ASSUME NEW n, NEW files, Ranked(n, files),
         NEW claimed, NEW read, Awaited(files, claimed, Nothing, read), read.left = {},
         NEW c \in Components, NEW d \in Components, c # d,
         NEW target, target \in claimed[c], target \in claimed[d]
  PROVE  target \in Files /\ Tie(Within, target)
<1>1. target \in Wanted /\ target \notin Owned(files)
  BY DEF Awaited
<1>2. n < Cardinality(Files) /\ n \in Nat /\ Cardinality(Files) \in Nat
  BY <1>1, MoreWaves, RankedTyped
<1>3. <<c, target>> \in Within[n + 1] /\ <<d, target>> \in Within[n + 1]
  BY <1>1, <1>2, ClaimsAreNext
<1>4. \A e \in Components : <<e, target>> \notin Within[n]
  BY <1>1 DEF Ranked
<1>5. (Components \X {target}) \cap Within[n] = {}
  BY <1>4
<1>6. Tie(Within, target)
  <2> DEFINE k == n + 1
  <2>1. {<<c, target>>, <<d, target>>} \subseteq Within[k]
    BY <1>3
  <2>2. k \in DOMAIN Within /\ k - 1 = n
    BY <1>2, WithinUnfolds
  <2> HIDE DEF k
  <2>3. (Components \X {target}) \cap Within[k - 1] = {}
    BY <1>5, <2>2
  <2> QED
    BY <2>1, <2>2, <2>3 DEF Tie
<1> QED
  BY <1>1, <1>6 DEF Wanted

\* The claims of a wave, if nobody contests them, make the next one.
LEMMA NextRanked ==
  ASSUME NEW n, NEW files, Ranked(n, files),
         NEW claimed, NEW read, Awaited(files, claimed, Nothing, read), read.left = {},
         \A c, d \in Components : c # d => claimed[c] \cap claimed[d] = {},
         NEW e \in Components, claimed[e] # {},
         NEW sum, sum = [c \in Components |-> files[c] \cup claimed[c]]
  PROVE  Ranked(n + 1, sum)
<1> DEFINE k == n + 1
<1>0. PICK new \in claimed[e] : new \in Wanted /\ new \notin Owned(files)
  BY DEF Awaited
<1>1. n < Cardinality(Files) /\ n \in Nat /\ Cardinality(Files) \in Nat
  BY <1>0, MoreWaves, RankedTyped
<1>2. /\ k \in 0..Cardinality(Files) /\ k = n + 1 /\ n < k /\ n <= k /\ k \in Nat /\ k \in 0..k
      /\ n \in 0..k /\ \A m \in 0..k : m \in 0..n \/ m = k
      /\ \A m \in 0..n : m \in 0..k
  BY <1>1
<1>3. \A c \in Components : \A target : target \notin Owned(files) =>
        (target \in claimed[c] <=> <<c, target>> \in Within[k])
  BY <1>1, ClaimsAreNext
<1> HIDE DEF k
<1>4. \A c \in Components : sum[c] = files[c] \cup claimed[c]
  OBVIOUS
<1>5. \A c, d \in Components : \A path : path \in claimed[c] => path \notin files[d]
  BY OwnedIs DEF Awaited
<1>6. ASSUME NEW c \in Components, NEW path \in sum[c]
      PROVE  \E m \in 0..k : Alone(m, c, path)
  <2>1. CASE path \in files[c]
    BY <1>2, <2>1 DEF Ranked
  <2>2. CASE path \in claimed[c]
    <3>1. path \notin Owned(files)
      BY <2>2 DEF Awaited
    <3>2. <<c, path>> \in Within[k]
      BY <1>3, <2>2, <3>1
    <3>3. \A d \in Components \ {c} : <<d, path>> \notin Within[k]
      BY <1>3, <2>2, <3>1
    <3> QED
      BY <1>2, <3>2, <3>3 DEF Alone
  <2> QED
    BY <1>4, <2>1, <2>2
<1>7. ASSUME NEW c \in Components, NEW path, NEW m \in 0..k, Alone(m, c, path)
      PROVE  path \in sum[c]
  <2>1. CASE m \in 0..n
    BY <1>4, <1>7, <2>1 DEF Ranked
  <2>2. CASE m = k
    <3>1. <<c, path>> \in Within[k] /\ \A d \in Components \ {c} : <<d, path>> \notin Within[k]
      BY <1>7, <2>2 DEF Alone
    <3>2. CASE path \notin Owned(files)
      BY <1>3, <1>4, <3>1, <3>2
    <3>3. CASE path \in Owned(files)
      <4>1. PICK d \in Components : path \in files[d]
        BY <3>3, OwnedIs
      <4>2. PICK i \in 0..n : Alone(i, d, path)
        BY <4>1 DEF Ranked
      <4>3. <<d, path>> \in Within[k]
        BY <1>2, <4>2, WavesGrow DEF Alone
      <4>4. d = c
        BY <3>1, <4>3
      <4> QED
        BY <1>4, <4>1, <4>4
    <3> QED
      BY <3>2, <3>3
  <2> QED
    BY <1>2, <2>1, <2>2
<1>8. Owned(sum) = Owned(files) \cup Owned(claimed)
  BY OwnedSum
<1>9. ASSUME NEW c \in Components, NEW path, <<c, path>> \in Within[k]
      PROVE  path \in Owned(sum)
  BY <1>3, <1>8, <1>9, OwnedIs
<1>10. k <= Cardinality(Owned(sum))
  <2>1. Owned(sum) \in SUBSET Files
    <3>1. \A c \in Components : claimed[c] \subseteq Files
      BY DEF Awaited, Wanted
    <3>2. Owned(files) \subseteq Files
      BY RankedTyped DEF Wanted
    <3> QED
      BY <1>8, <3>1, <3>2, OwnedIs
  <2>2. IsFiniteSet(Owned(sum)) /\ Owned(files) \in SUBSET Owned(sum) /\ Owned(files) # Owned(sum)
    <3>1. new \in Owned(claimed)
      BY <1>0, OwnedIs
    <3> QED
      BY <1>0, <1>8, <2>1, <3>1, FilesAreFinite, FS_Subset
  <2>3. IsFiniteSet(Owned(files)) /\ Cardinality(Owned(files)) <= Cardinality(Owned(sum))
        /\ Cardinality(Owned(files)) # Cardinality(Owned(sum))
    BY <2>2, FS_Subset
  <2>4. Cardinality(Owned(files)) \in Nat /\ Cardinality(Owned(sum)) \in Nat
    BY <2>2, <2>3, FS_CardinalityType
  <2>5. n <= Cardinality(Owned(files))
    BY DEF Ranked
  <2> QED
    BY <1>1, <1>2, <2>3, <2>4, <2>5
<1>11. Ranked(k, sum)
  BY <1>2, <1>6, <1>7, <1>9, <1>10 DEF Ranked
<1> QED
  BY <1>11 DEF k

\* After a wave without claims no wave of Within adds a file.
LEMMA LastWave ==
  ASSUME NEW n, NEW files, Ranked(n, files),
         NEW read, Awaited(files, Nothing, Nothing, read), read.left = {},
         NEW k \in 0..Cardinality(Files), NEW c \in Components, NEW path, <<c, path>> \in Within[k]
  PROVE  path \in Owned(files)
<1> DEFINE Bad == {m \in 0..Cardinality(Files) :
                     \E d \in Components : \E p : <<d, p>> \in Within[m] /\ p \notin Owned(files)}
<1> SUFFICES ASSUME Bad # {} PROVE FALSE
  OBVIOUS
<1>0. n \in Nat /\ Cardinality(Files) \in Nat
  BY RankedTyped
<1>1. Bad \in SUBSET Nat
  BY <1>0
<1>2. PICK m \in Bad : \A i \in Bad : m <= i
  <2> HIDE DEF Bad
  <2> QED
    BY <1>1, SmallestExists
<1>3. PICK d \in Components :
         \E p : <<d, p>> \in Within[m] /\ p \notin Owned(files)
  BY <1>2
<1>a. PICK target : <<d, target>> \in Within[m] /\ target \notin Owned(files)
  BY <1>3
<1>4. n < m
  <2>1. ASSUME m \in 0..n PROVE FALSE
    <3>1. <<d, target>> \in Within[n]
      BY <1>0, <1>a, <2>1, WavesGrow DEF Ranked
    <3> QED
      BY <1>a, <3>1 DEF Ranked
  <2> QED
    BY <1>0, <1>2, <2>1
<1>5. m \in 1..Cardinality(Files) /\ m - 1 \in 0..Cardinality(Files) /\ ~(m <= m - 1)
  BY <1>0, <1>2, <1>4
<1>6. m - 1 \notin Bad
  <2> HIDE DEF Bad
  <2> QED
    BY <1>2, <1>5
<1>7. \A e \in Components : \A p : <<e, p>> \in Within[m - 1] => p \in Owned(files)
  BY <1>5, <1>6
<1>8. /\ target \in Wanted
      /\ \E p \in Files : <<d, p>> \in Within[m - 1] /\ Leads(p, target)
  BY <1>a, <1>5, <1>7, NextWave
<1>9. PICK p \in Files : <<d, p>> \in Within[m - 1] /\ Leads(p, target)
  BY <1>8
<1>10. PICK e \in Components : p \in files[e]
  BY <1>7, <1>9, OwnedIs
<1> QED
  BY <1>a, <1>8, <1>9, <1>10 DEF Awaited, Nothing

LEMMA LastIsNearest ==
  ASSUME NEW n, NEW files, Ranked(n, files),
         NEW read, Awaited(files, Nothing, Nothing, read), read.left = {},
         files = [c \in Components |-> files[c]]
  PROVE  files = [c \in Components |-> {path \in Files : Nearest(Within, c, path)}]
<1>0. n \in Nat /\ Cardinality(Files) \in Nat /\ DOMAIN Within = 0..Cardinality(Files)
      /\ \A m \in 0..n : m \in 0..Cardinality(Files)
  BY RankedTyped, WithinUnfolds
<1>1. ASSUME NEW c \in Components, NEW path \in files[c]
      PROVE  path \in Files /\ Nearest(Within, c, path)
  <2>1. PICK m \in 0..n : Alone(m, c, path)
    BY DEF Ranked
  <2> QED
    BY <1>0, <2>1, RankedTyped DEF Alone, Nearest, Wanted
<1>2. ASSUME NEW c \in Components, NEW path \in Files, Nearest(Within, c, path)
      PROVE  path \in files[c]
  <2>1. PICK k \in 0..Cardinality(Files) : Alone(k, c, path)
    BY <1>0, <1>2 DEF Nearest, Alone
  <2>2. <<c, path>> \in Within[k] /\ path \in Owned(files)
    BY <2>1, LastWave DEF Alone
  <2>3. PICK d \in Components : path \in files[d]
    BY <2>2, OwnedIs
  <2>4. CASE k \in 0..n
    BY <2>1, <2>4 DEF Ranked
  <2>5. CASE n <= k
    <3>1. d # c => <<d, path>> \in Within[k]
      <4>1. ASSUME d # c PROVE \E m \in 0..n : m < k /\ <<d, path>> \in Within[m]
        BY <2>2, <2>3, <2>5, <4>1, OwnersComeFirst
      <4>2. \A m \in 0..n : m < k => m \in 0..k
        BY <1>0
      <4> QED
        BY <4>1, <4>2, WavesGrow
    <3> QED
      BY <2>1, <2>3, <3>1 DEF Alone
  <2> QED
    BY <1>0, <2>4, <2>5
<1>3. \A c \in Components : files[c] = {path \in Files : Nearest(Within, c, path)}
  BY <1>1, <1>2
<1> QED
  BY <1>3

\* The first wave is what the rules match.
LEMMA FirstRanked ==
  ASSUME NEW files,
         \A c \in Components : files[c] = {path \in Files : Fits(c, path)},
         \A c, d \in Components : files[c] \cap files[d] = {} \/ c = d
  PROVE  Ranked(0, files)
<1>1. Within[0] = Direct(Files) /\ Cardinality(Files) \in Nat
  BY WithinUnfolds
<1>2. ASSUME NEW c \in Components, NEW path
      PROVE  <<c, path>> \in Within[0] <=> path \in files[c]
  <2>1. <<c, path>> \in Direct(Files) <=> path \in Wanted /\ c \in Owners(path)
    BY DirectIs
  <2>2. path \in files[c] <=> path \in Files /\ Fits(c, path)
    OBVIOUS
  <2> QED
    BY <1>1, <2>1, <2>2 DEF Wanted, Fits
<1>3. ASSUME NEW c \in Components, NEW path
      PROVE  path \in files[c] <=> Alone(0, c, path)
  <2>1. path \in files[c] => \A d \in Components \ {c} : path \notin files[d]
    OBVIOUS
  <2> QED
    BY <1>2, <2>1 DEF Alone
<1>4. 0 \in 0..Cardinality(Files) /\ \A m \in 0..0 : m = 0
  BY <1>1
<1>5. 0 <= Cardinality(Owned(files))
  <2>1. Owned(files) \in SUBSET Files
    BY OwnedIs
  <2>2. Cardinality(Owned(files)) \in Nat
    BY <2>1, FilesAreFinite, FS_Subset, FS_CardinalityType
  <2> QED
    BY <2>2
<1> QED
  BY <1>2, <1>3, <1>4, <1>5, OwnedIs DEF Ranked
------------------------------------------------------------------------------
(***************************************************************************)
(* The plan of a tree that stands still.                                   *)
(***************************************************************************)
InReach == \A path \in Path : path # <<>> /\ Kind(tree, path) = "file" => path \in Files

NearestPlan == [c \in Components |-> {path \in Files : Nearest(Within, c, path)}]

Ties == \E path \in Files : Tie(Within, path)

NearInv ==
  steady =>
    /\ Known
    /\ status = "walk" => Walked(stack, result) /\ reading.left = {}
    /\ status = "discover" =>
         /\ InReach
         /\ \E n \in Nat : Ranked(n, result)
         /\ Awaited(result, claims, todo, reading)
    /\ status = "settle" => result = NearestPlan
    /\ failure = "cycle" => Cyclic
    /\ failure = "conflict" => Ties

\* What is said of a tree that does not change.
LEMMA FilesStay ==
  ASSUME UNCHANGED <<tree, config>>
  PROVE  Files' = Files /\ Wanted' = Wanted
BY DEF Files, Logical, Wanted

LEMMA WithinStays ==
  ASSUME UNCHANGED <<tree, config>>
  PROVE  Within' = Within
<1>1. Files' = Files
  BY FilesStay
<1>2. \A files : Direct(files)' = Direct(files)
  BY DEF Direct, Owners
<1>3. \A files, pairs : Reached(files, pairs)' = Reached(files, pairs)
  BY DEF Reached
<1> QED
  BY <1>1, <1>2, <1>3 DEF Within

LEMMA TiesStay ==
  ASSUME UNCHANGED <<tree, config>>
  PROVE  /\ Ties => Ties'
         /\ NearestPlan' = NearestPlan
         /\ Cyclic => Cyclic'
         /\ Known => Known'
         /\ InReach => InReach'
<1>1. Files' = Files /\ Within' = Within
  BY FilesStay, WithinStays
<1>2. Ties => Ties'
  BY <1>1 DEF Ties, Tie
<1>3. NearestPlan' = NearestPlan
  BY <1>1 DEF NearestPlan, Nearest
<1>4. Cyclic => Cyclic'
  BY DEF Cyclic, Logical
<1>5. Known => Known'
  BY DEF Known
<1>6. InReach => InReach'
  BY <1>1 DEF InReach
<1> QED
  BY <1>2, <1>3, <1>4, <1>5, <1>6

LEMMA WalkedStays ==
  ASSUME UNCHANGED <<tree, config>>, Walked(stack', result')
  PROVE  Walked(stack, result)'
<1>1. Files' = Files
  BY FilesStay
<1>2. Chained(stack)'
  BY DEF Walked, Chained
<1>3. Covered(stack, result)'
  BY <1>1 DEF Walked, Covered, Listed, Sorted, Fits, Owners
<1> QED
  BY <1>2, <1>3 DEF Walked

LEMMA RankedStays ==
  ASSUME UNCHANGED <<tree, config>>, NEW n \in Nat, Ranked(n, result')
  PROVE  Ranked(n, result)'
<1>1. Files' = Files /\ Within' = Within
  BY FilesStay, WithinStays
<1>2. Owned(result') = Owned(result)'
  BY DEF Owned
<1> QED
  BY <1>1, <1>2 DEF Ranked, Alone

LEMMA AwaitedStays ==
  ASSUME UNCHANGED <<tree, config>>, Awaited(result', claims', todo', reading')
  PROVE  Awaited(result, claims, todo, reading)'
<1>1. Files' = Files /\ Wanted' = Wanted
  BY FilesStay
<1>2. Owned(result') = Owned(result)'
  BY DEF Owned
<1>3. \A path, target : Leads(path, target)' <=> Leads(path, target)
  BY DEF Leads
<1> QED
  BY <1>1, <1>2, <1>3 DEF Awaited

LEMMA NearFrom ==
  ASSUME NearInv, UNCHANGED <<tree, config, steady>>,
         failure' = failure \/ failure' \notin {"cycle", "conflict"},
         \/ status' \notin {"walk", "discover", "settle"}
         \/ UNCHANGED <<status, stack, result, claims, todo, reading>>
  PROVE  NearInv'
<1> SUFFICES ASSUME steady PROVE NearInv'
  BY DEF NearInv
<1>1. /\ Known' /\ (failure' = "cycle" => Cyclic') /\ (failure' = "conflict" => Ties')
      /\ NearestPlan' = NearestPlan /\ (InReach => InReach')
  BY TiesStay DEF NearInv
<1>2. CASE status' \notin {"walk", "discover", "settle"}
  BY <1>1, <1>2 DEF NearInv
<1>3. CASE UNCHANGED <<status, stack, result, claims, todo, reading>>
  <2>1. status' = "walk" => Walked(stack, result)' /\ reading'.left = {}
    BY <1>3, WalkedStays DEF NearInv
  <2>2. ASSUME status' = "discover"
        PROVE  /\ \E n \in Nat : Ranked(n, result)'
               /\ Awaited(result, claims, todo, reading)' /\ InReach'
    BY <1>1, <1>3, <2>2, RankedStays, AwaitedStays DEF NearInv
  <2> QED
    BY <1>1, <1>3, <2>1, <2>2 DEF NearInv
<1> QED
  BY <1>2, <1>3

LEMMA NearStart ==
  ASSUME Init
  PROVE  NearInv
<1>1. TypeInv /\ IsTree(tree) /\ Known
  BY TypeStart, TypeParts DEF Init, Known
<1>2. <<>> \in Path /\ Resolve(tree, <<>>) = Found("directory", <<>>)
  <2>1. <<>> \in Path
    BY DEF Path
  <2> QED
    BY <1>1, <2>1, StartOfWay, RealIsReached
<1>3. Kind(tree, <<>>) = "directory" /\ Resolve(tree, <<>>).place = <<>>
  BY <1>2 DEF Kind, Found
<1> DEFINE frame == Frame(<<>>, <<>>)
<1>4. /\ frame.prefix = <<>> /\ frame.place = <<>>
      /\ frame.left = {n \in Names : At(tree, Append(<<>>, n)).kind # "absent"}
  BY DEF Frame
<1>5. /\ stack = <<frame>> /\ result = Nothing /\ reading.left = {}
      /\ status = "walk" /\ failure = "none"
  BY DEF Init, NoDocument
<1> HIDE DEF frame
<1>6. Len(stack) = 1 /\ stack[1] = frame /\ \A i \in 1..1 : i = 1
  BY <1>5
<1>7. Chained(stack)
  <2>1. Len(<<>>) = 0 /\ SubSeq(<<>>, 1, 0) = <<>>
    OBVIOUS
  <2>2. \A i \in 1..Len(stack) : i = 1
    BY <1>6
  <2>3. stack[1].prefix = <<>> /\ stack[1].place = <<>>
    BY <1>4, <1>6
  <2>4. ASSUME NEW i \in 1..Len(stack)
        PROVE  /\ Kind(tree, stack[i].prefix) = "directory"
               /\ Resolve(tree, stack[i].prefix).place = stack[i].place
               /\ Len(stack[i].prefix) = i - 1
               /\ SubSeq(stack[i].prefix, 1, i - 1) = stack[i].prefix
    <3>1. i = 1 /\ i - 1 = 0
      BY <2>2
    <3> QED
      BY <1>3, <2>1, <2>3, <3>1
  <2> QED
    BY <2>2, <2>4, Zenon DEF Chained
<1>8. ASSUME NEW path \in Path, path # <<>>, Kind(tree, path) = "file"
      PROVE  Listed(stack, path)
  <2> DEFINE n == Head(path)
             rest == Tail(path)
  <2>1. n \in Names /\ rest \in Path /\ Append(<<>>, n) \o rest = <<>> \o path
    BY <1>2, <1>8, HeadMoves DEF Path
  <2>2. <<>> \o path = path
    BY ConcatEmptySeq DEF Path
  <2> HIDE DEF n, rest
  <2>3. path = Append(<<>>, n) \o rest
    BY <2>1, <2>2
  <2>4. At(tree, Append(<<>>, n)).kind # "absent"
    <3>1. ASSUME At(tree, Append(<<>>, n)).kind = "absent"
          PROVE  Kind(tree, Append(<<>>, n) \o rest) = "missing"
      BY <1>1, <1>2, <1>3, <2>1, <3>1, ListingIsComplete
    <3> QED
      BY <1>8, <2>3, <3>1
  <2>5. n \in stack[1].left /\ stack[1].prefix = <<>> /\ 1 \in 1..Len(stack)
    BY <1>4, <1>6, <2>1, <2>4
  <2>6. path = Append(stack[1].prefix, n) \o rest
    BY <2>3, <2>5
  <2> QED
    BY <2>1, <2>5, <2>6, Zenon DEF Listed
<1>9. Covered(stack, result)
  BY <1>5, <1>8 DEF Covered, Nothing
<1> QED
  BY <1>1, <1>5, <1>7, <1>9 DEF NearInv, Walked

LEMMA LogicalIsPath ==
  ASSUME NEW path \in Logical
  PROVE  path \in Path /\ path # <<>>
<1>1. path \in UNION {[1..m -> Names] : m \in 0..MaxDepth} /\ path # <<>>
  BY DEF Logical, BoundedSeq, SeqOf
<1>2. PICK m \in 0..MaxDepth : path \in [1..m -> Names]
  BY <1>1
<1>3. m \in Nat
  BY <1>2, PlanAssumption
<1>4. path \in Seq(Names)
  BY <1>2, <1>3
<1> QED
  BY <1>1, <1>4 DEF Path

\* One path of the walk.
LEMMA NearVisit ==
  ASSUME TypeInv, NearInv, VisitFile \/ VisitDirectory \/ VisitNothing \/ LeaveDirectory
  PROVE  NearInv'
<1> USE DEF treeVars, walkVars, waveVars, planVars, packVars
<1> SUFFICES ASSUME steady PROVE NearInv'
  <2>1. steady' = steady
    BY DEF VisitFile, VisitDirectory, VisitNothing, LeaveDirectory, Fail
  <2> QED
    BY <2>1 DEF NearInv
<1>0. /\ status = "walk" /\ Known /\ Walked(stack, result) /\ Chained(stack) /\ reading.left = {}
      /\ failure = "none"
  BY DEF NearInv, Walked, VisitFile, VisitDirectory, VisitNothing, LeaveDirectory, Visiting,
     TypeInv, TypeOK
<1>1. ASSUME NEW why, Fail(why), why \notin {"cycle", "conflict"} PROVE NearInv'
  BY <1>1, NearFrom DEF Fail
<1>2. ASSUME UNCHANGED <<treeVars, status, failure, reading>>, Walked(stack', result')
      PROVE  NearInv'
  <2>1. Known' /\ Walked(stack, result)'
    BY <1>0, <1>2, TiesStay, WalkedStays
  <2> QED
    BY <1>0, <1>2, <2>1 DEF NearInv
<1>3. CASE VisitFile
  <2> DEFINE owners == IF Visited \in config.ignored THEN {} ELSE Owners(Visited)
  <2>0. Visiting /\ Kind(tree, Visited) = "file" /\ Visited \in Logical
    BY <1>0, <1>3, VisitedIsLogical DEF VisitFile
  <2>1. CASE (\E c, d \in owners : c # d) /\ Fail("conflict")
    <3>1. PICK c \in owners, d \in owners : c # d
      BY <2>1
    <3>2. /\ Visited \notin config.ignored /\ c \in Components /\ d \in Components
          /\ c \in Owners(Visited) /\ d \in Owners(Visited)
      BY <3>1 DEF Owners
    <3>3. Visited \in Files /\ Visited \in Wanted
      BY <2>0, <3>2 DEF Files, Wanted
    <3>4. {<<c, Visited>>, <<d, Visited>>} \subseteq Within[0] /\ 0 \in DOMAIN Within
      BY <3>2, <3>3, DirectIs, WithinUnfolds
    <3>5. Tie(Within, Visited)
      BY <3>1, <3>2, <3>4 DEF Tie
    <3>6. Ties' /\ Known'
      BY <1>0, <2>1, <3>3, <3>5, TiesStay DEF Ties, Fail
    <3> QED
      BY <2>1, <3>6 DEF Fail, NearInv
  <2>2. CASE /\ \A c, d \in owners : c = d
             /\ result' = [c \in Components |->
                            IF c \in owners THEN result[c] \cup {Visited} ELSE result[c]]
             /\ stack' = Advanced
             /\ UNCHANGED <<treeVars, status, failure, waveVars, planVars, packVars>>
    <3>1. ASSUME NEW c \in Components
          PROVE  result'[c] = IF Fits(c, Visited) THEN result[c] \cup {Visited} ELSE result[c]
      BY <2>2 DEF Fits, Owners
    <3> DEFINE files == result'
    <3>2. \A c \in Components :
            files[c] = IF Fits(c, Visited) THEN result[c] \cup {Visited} ELSE result[c]
      BY <3>1
    <3> HIDE DEF files
    <3>3. Walked(Advanced, files)
      BY <1>0, <2>0, <3>2, WalkedFile
    <3> QED
      BY <1>2, <2>2, <3>3 DEF files
  <2> QED
    BY <1>3, <2>1, <2>2 DEF VisitFile
<1>4. CASE VisitDirectory
  <2> DEFINE place == Resolve(tree, Visited).place
             ancestors == {frame.place : frame \in ToSet(stack)}
  <2>0. /\ Visiting /\ Kind(tree, Visited) = "directory" /\ Visited \in Logical
        /\ Len(Visited) = Len(stack) /\ Len(stack) \in Nat /\ DOMAIN stack = 1..Len(stack)
        /\ \A i \in 1..Len(stack) : SubSeq(Visited, 1, i - 1) = stack[i].prefix
    BY <1>0, <1>4, VisitedIsLogical, TypeParts, LenProperties DEF VisitDirectory
  <2>1. CASE place \in ancestors /\ Fail("cycle")
    <3>1. PICK i \in 1..Len(stack) : stack[i].place = place
      BY <2>0, <2>1 DEF ToSet
    <3>2. Resolve(tree, SubSeq(Visited, 1, i - 1)).place = place
      BY <1>0, <2>0, <3>1 DEF Chained
    <3>3. i - 1 \in 0..(Len(Visited) - 1)
      BY <2>0
    <3>4. Cyclic
      BY <2>0, <3>2, <3>3 DEF Cyclic
    <3>5. Cyclic' /\ Known'
      BY <1>0, <2>1, <3>4, TiesStay DEF Fail
    <3> QED
      BY <2>1, <3>5 DEF Fail, NearInv
  <2>2. CASE /\ place \notin ancestors
             /\ stack' = Append(Advanced, Frame(Visited, place))
             /\ UNCHANGED <<treeVars, status, failure, result, waveVars, planVars, packVars>>
    <3>1. \A i \in 1..Len(stack) : stack[i].place # place
      BY <2>0, <2>2 DEF ToSet
    <3>2. Walked(Append(Advanced, Frame(Visited, place)), result)
      <4> HIDE DEF place
      <4>1. place = Resolve(tree, Visited).place
        BY DEF place
      <4> QED
        BY <1>0, <2>0, <3>1, <4>1, WalkedDirectory
    <3> QED
      BY <1>2, <2>2, <3>2
  <2> QED
    BY <1>4, <2>1, <2>2 DEF VisitDirectory
<1>5. CASE VisitNothing
  BY <1>1, <1>5 DEF VisitNothing
<1>6. CASE LeaveDirectory
  <2>1. Walked(Front(stack), result)
    BY <1>0, <1>6, WalkedUp DEF LeaveDirectory
  <2> QED
    BY <1>2, <1>6, <2>1 DEF LeaveDirectory
<1> QED
  BY <1>3, <1>4, <1>5, <1>6

\* What the walk has sorted is the first wave.
LEMMA NearEndWalk ==
  ASSUME TypeInv, OwnInv, NearInv, EndWalk
  PROVE  NearInv'
<1> USE DEF treeVars, walkVars, waveVars, planVars, packVars
<1>1. CASE Fail("collision")
  BY <1>1, NearFrom DEF Fail
<1>2. CASE /\ status' = "discover"
           /\ todo' = Documents(result)
           /\ UNCHANGED <<treeVars, failure, walkVars, result, reading, claims, warnings, planVars,
                          packVars>>
  <2> SUFFICES ASSUME steady PROVE NearInv'
    BY <1>2 DEF NearInv
  <2>0. /\ status = "walk" /\ stack = <<>> /\ Known /\ Covered(stack, result) /\ reading.left = {}
        /\ failure = "none" /\ claims = Nothing /\ Len(stack) = 0
    BY DEF EndWalk, NearInv, Walked, TypeInv, TypeOK, OwnInv, Claimed
  <2>1. ASSUME NEW path \in Path, path # <<>>, Kind(tree, path) = "file"
        PROVE  Sorted(result, path) /\ path \in Files
    <3>1. Sorted(result, path)
      <4>1. ~Listed(stack, path)
        BY <2>0 DEF Listed
      <4> QED
        BY <2>0, <2>1, <4>1 DEF Covered
    <3>2. path \in Logical
      <4>1. path \in Seq(Names) /\ Len(path) <= MaxDepth /\ MaxDepth \in Nat
        BY <3>1, PlanAssumption DEF Sorted, Path
      <4>2. path \in [1..Len(path) -> Names] /\ Len(path) \in Nat
        BY <4>1, LenProperties
      <4>3. Len(path) \in 0..MaxDepth
        BY <4>1, <4>2
      <4> QED
        BY <2>1, <4>2, <4>3 DEF Logical, BoundedSeq, SeqOf
    <3> QED
      BY <2>1, <3>1, <3>2 DEF Files
  <2>2. InReach
    BY <2>1 DEF InReach
  <2>3. \A path \in Files : path \in Path /\ path # <<>> /\ Kind(tree, path) = "file"
    BY LogicalIsPath DEF Files
  <2>4. ASSUME NEW c \in Components
        PROVE  result[c] = {path \in Files : Fits(c, path)}
    BY <2>0, <2>1, <2>3 DEF Covered, Sorted
  <2>5. \A c, d \in Components : result[c] \cap result[d] = {} \/ c = d
    BY DEF OwnInv, OneOwner
  <2>6. Ranked(0, result)
    BY <2>4, <2>5, FirstRanked
  <2>7. Awaited(result, claims, Documents(result), reading)
    <3>1. ASSUME NEW c \in Components, NEW path \in result[c], NEW target, Leads(path, target)
          PROVE  path \in Documents(result)[c]
      BY <3>1 DEF Leads, Documents
    <3>2. \A c \in Components : \A path \in Documents(result)[c] :
            path \in result[c] /\ IsMarkdown(path)
      BY DEF Documents
    <3>3. \A c \in Components : claims[c] = {}
      BY <2>0 DEF Nothing
    <3> HIDE DEF Documents
    <3> QED
      BY <2>0, <3>1, <3>2, <3>3 DEF Awaited
  <2>8. Ranked(0, result)' /\ Awaited(result, claims, todo, reading)' /\ InReach' /\ Known'
    BY <1>2, <2>0, <2>2, <2>6, <2>7, TiesStay, RankedStays, AwaitedStays
  <2> QED
    BY <1>2, <2>0, <2>8 DEF NearInv
<1> QED
  BY <1>1, <1>2 DEF EndWalk

\* A document is opened, and a reference taken off it.
LEMMA NearRead ==
  ASSUME TypeInv, NearInv, NEW c \in Components, Read(c)
  PROVE  NearInv'
<1> USE DEF treeVars, walkVars, waveVars, planVars, packVars
<1> PICK path \in todo[c] :
       \/ /\ reading' = [path |-> path, component |-> c, left |-> RefsOf(tree, path)]
          /\ todo' = [todo EXCEPT ![c] = @ \ {path}]
          /\ UNCHANGED <<treeVars, status, failure, walkVars, result, claims>>
       \/ Fail("gone")
  BY DEF Read
<1>1. CASE Fail("gone")
  BY <1>1, NearFrom DEF Fail
<1>2. CASE /\ reading' = [path |-> path, component |-> c, left |-> RefsOf(tree, path)]
           /\ todo' = [todo EXCEPT ![c] = @ \ {path}]
           /\ UNCHANGED <<treeVars, status, failure, walkVars, result, claims>>
  <2> SUFFICES ASSUME steady PROVE NearInv'
    BY <1>2 DEF NearInv
  <2>0. /\ status = "discover" /\ failure = "none" /\ reading.left = {}
        /\ Known /\ InReach /\ Awaited(result, claims, todo, reading)
    BY DEF Read, Discovering, NearInv, TypeInv, TypeOK
  <2> DEFINE left == todo'
             read == reading'
  <2>1. /\ read.path = path /\ read.component = c /\ read.left = RefsOf(tree, path)
        /\ \A d \in Components : left[d] = IF d = c THEN todo[d] \ {path} ELSE todo[d]
    BY <1>2, TypeParts DEF PathSets
  <2>2. path \in result[c] /\ IsMarkdown(path)
    BY <2>0 DEF Awaited
  <2> HIDE DEF left, read
  <2>3. ASSUME NEW d \in Components, NEW from \in result[d], NEW target \in Wanted,
               Leads(from, target)
        PROVE  \/ target \in Owned(result) \cup claims[d]
               \/ from \in left[d]
               \/ /\ read.component = d /\ read.path = from
                  /\ \E ref \in read.left : ~Leaves(from, ref) /\ Target(from, ref) = target
    <3>1. \/ target \in Owned(result) \cup claims[d]
          \/ from \in todo[d]
      BY <2>0, <2>3 DEF Awaited
    <3>2. CASE from = path /\ d = c
      BY <2>1, <2>3, <3>2 DEF Leads
    <3> QED
      BY <2>1, <3>1, <3>2
  <2>4. \A d \in Components : \A from \in left[d] : from \in result[d] /\ IsMarkdown(from)
    <3>1. \A d \in Components : \A from \in todo[d] : from \in result[d] /\ IsMarkdown(from)
      BY <2>0 DEF Awaited
    <3> QED
      BY <2>1, <3>1
  <2>5. Awaited(result, claims, left, read)
    BY <2>0, <2>1, <2>2, <2>3, <2>4 DEF Awaited
  <2>6. Awaited(result', claims', todo', reading')
    BY <1>2, <2>5 DEF left, read
  <2>7. Awaited(result, claims, todo, reading)' /\ InReach' /\ Known'
    BY <1>2, <2>0, <2>6, TiesStay, AwaitedStays
  <2>8. \E n \in Nat : Ranked(n, result)'
    BY <1>2, <2>0, RankedStays DEF NearInv
  <2> QED
    BY <1>2, <2>0, <2>7, <2>8 DEF NearInv
<1> QED
  BY <1>1, <1>2

LEMMA NearFollow ==
  ASSUME TypeInv, NearInv, Follow
  PROVE  NearInv'
<1> USE DEF treeVars, walkVars, waveVars, planVars, packVars
<1> PICK ref \in reading.left :
           FollowFile(ref) \/ FollowNoFile(ref) \/ FollowNowhere(ref) \/ Ignore(ref)
  BY DEF Follow
<1> DEFINE target == Target(reading.path, ref)
<1>1. ASSUME NEW why, Fail(why), why \notin {"cycle", "conflict"} PROVE NearInv'
  BY <1>1, NearFrom DEF Fail
<1>2. ASSUME Drop(ref), UNCHANGED <<treeVars, status, failure, walkVars, result, todo>>,
             ~Escapes(reading.path, ref),
             \/ UNCHANGED claims /\ (target \in Wanted /\ steady => target \in Owned(result))
             \/ /\ Kind(tree, target) = "file" /\ target \notin config.ignored
                /\ target \notin Owned(result)
                /\ claims' = Add(claims, reading.component, target)
      PROVE  NearInv'
  <2> SUFFICES ASSUME steady PROVE NearInv'
    BY <1>2 DEF NearInv
  <2>0. /\ status = "discover" /\ failure = "none" /\ reading.left # {}
        /\ Known /\ InReach /\ Awaited(result, claims, todo, reading)
    BY DEF Follow, NearInv, TypeInv, TypeOK
  <2> DEFINE c == reading.component
             path == reading.path
  <2>1. /\ c \in Components /\ path \in result[c] /\ IsMarkdown(path)
        /\ reading.left \subseteq RefsOf(tree, path) /\ ref \in Reference
        /\ path \in Path
    BY <2>0, TypeParts DEF Awaited
  <2> HIDE DEF c, path
  <2>2. target = Target(path, ref) /\ target \in Path /\ target # <<>> /\ ~Leaves(path, ref)
    BY <1>2, <2>1, TargetTyped DEF path, Escapes
  <2>3. Leads(path, target)
    BY <2>1, <2>2 DEF Leads
  <2> DEFINE claimed == claims'
             read == reading'
  <2>4. /\ read.path = path /\ read.component = c /\ read.left = reading.left \ {ref}
    BY <1>2, TypeParts DEF Drop, Document, c, path
  <2>5. \/ /\ claimed = claims
           /\ target \in Wanted => target \in Owned(result)
        \/ /\ target \in Wanted /\ target \notin Owned(result)
           /\ \A d \in Components :
                claimed[d] = IF d = c THEN claims[d] \cup {target} ELSE claims[d]
    <3>1. CASE UNCHANGED claims /\ (target \in Wanted /\ steady => target \in Owned(result))
      BY <3>1
    <3>2. CASE /\ Kind(tree, target) = "file" /\ target \notin config.ignored
               /\ target \notin Owned(result)
               /\ claims' = Add(claims, reading.component, target)
      <4>1. target \in Wanted
        BY <2>0, <2>2, <3>2 DEF InReach, Wanted
      <4>2. \A d \in Components : claimed[d] = IF d = c THEN claims[d] \cup {target} ELSE claims[d]
        BY <3>2, TypeParts DEF Add, PathSets, c
      <4> QED
        BY <3>2, <4>1, <4>2
    <3> QED
      BY <1>2, <3>1, <3>2
  <2> HIDE DEF claimed, read, target
  <2>6. ASSUME NEW d \in Components, NEW to \in claimed[d]
        PROVE  /\ to \in Wanted /\ to \notin Owned(result)
               /\ \E from \in result[d] : Leads(from, to)
    <3>1. CASE to \in claims[d]
      BY <2>0, <3>1 DEF Awaited
    <3>2. CASE to \notin claims[d]
      BY <2>1, <2>3, <2>5, <2>6, <3>2
    <3> QED
      BY <3>1, <3>2
  <2>7. ASSUME NEW d \in Components, NEW from \in result[d], NEW to \in Wanted, Leads(from, to)
        PROVE  \/ to \in Owned(result) \cup claimed[d]
               \/ from \in todo[d]
               \/ /\ read.component = d /\ read.path = from
                  /\ \E r \in read.left : ~Leaves(from, r) /\ Target(from, r) = to
    <3>1. CASE to \in Owned(result) \cup claims[d] \/ from \in todo[d]
      BY <2>5, <3>1
    <3>2. CASE /\ c = d /\ path = from
               /\ \E r \in reading.left : ~Leaves(from, r) /\ Target(from, r) = to
      <4>1. PICK r \in reading.left : ~Leaves(from, r) /\ Target(from, r) = to
        BY <3>2
      <4>2. CASE r = ref
        BY <2>2, <2>5, <3>2, <4>1, <4>2
      <4>3. CASE r # ref
        BY <2>4, <3>2, <4>1, <4>3
      <4> QED
        BY <4>2, <4>3
    <3> QED
      BY <2>0, <2>7, <3>1, <3>2 DEF Awaited, c, path
  <2>8. /\ \A d \in Components : \A from \in todo[d] : from \in result[d] /\ IsMarkdown(from)
        /\ read.left # {} =>
             /\ read.component \in Components /\ read.path \in result[read.component]
             /\ IsMarkdown(read.path) /\ read.left \subseteq RefsOf(tree, read.path)
    BY <2>0, <2>1, <2>4 DEF Awaited
  <2>9. Awaited(result, claimed, todo, read)
    BY <2>6, <2>7, <2>8 DEF Awaited
  <2>10. Awaited(result', claims', todo', reading')
    BY <1>2, <2>9 DEF claimed, read
  <2>11. Awaited(result, claims, todo, reading)' /\ InReach' /\ Known'
    BY <1>2, <2>0, <2>10, TiesStay, AwaitedStays
  <2>12. \E n \in Nat : Ranked(n, result)'
    BY <1>2, <2>0, RankedStays DEF NearInv
  <2> QED
    BY <1>2, <2>0, <2>11, <2>12 DEF NearInv
<1>3. CASE FollowFile(ref)
  BY <1>2, <1>3 DEF FollowFile, Followed
<1>4. CASE FollowNoFile(ref)
  <2>1. target \notin Wanted
    BY <1>4 DEF FollowNoFile, Wanted, Files
  <2> QED
    BY <1>1, <1>2, <1>4, <2>1 DEF FollowNoFile, Followed
<1>5. CASE FollowNowhere(ref)
  BY <1>1, <1>5 DEF FollowNowhere
<1>6. CASE Ignore(ref)
  <2>1. target \notin Wanted
    BY <1>6 DEF Ignore, Wanted
  <2> QED
    BY <1>2, <1>6, <2>1 DEF Ignore
<1> QED
  BY <1>3, <1>4, <1>5, <1>6

\* The end of a wave.
LEMMA NearEndWave ==
  ASSUME TypeInv, NearInv, EndWave
  PROVE  NearInv'
<1> USE DEF treeVars, walkVars, waveVars, planVars, packVars
<1> SUFFICES ASSUME steady PROVE NearInv'
  <2>1. steady' = steady
    BY DEF EndWave, Fail
  <2> QED
    BY <2>1 DEF NearInv
<1>0. /\ status = "discover" /\ failure = "none" /\ reading.left = {} /\ todo = Nothing
      /\ Known /\ InReach /\ Awaited(result, claims, Nothing, reading)
  BY DEF EndWave, Discovering, NearInv, TypeInv, TypeOK
<1>1. PICK n \in Nat : Ranked(n, result)
  BY <1>0 DEF NearInv
<1>2. CASE Contested /\ Fail("conflict")
  <2>1. PICK c \in Components, d \in Components : c # d /\ claims[c] \cap claims[d] # {}
    BY <1>2 DEF Contested
  <2>2. PICK target \in claims[c] : target \in claims[d]
    BY <2>1
  <2>3. target \in Files /\ Tie(Within, target)
    BY <1>0, <1>1, <2>1, <2>2, ContestedIsTie
  <2>4. Ties' /\ Known'
    BY <1>0, <1>2, <2>3, TiesStay DEF Ties, Fail
  <2> QED
    BY <1>2, <2>4 DEF Fail, NearInv
<1>3. CASE Fail("collision")
  BY <1>3, NearFrom DEF Fail
<1>4. CASE /\ ~Contested
           /\ result' = [c \in Components |-> result[c] \cup claims[c]]
           /\ todo' = Documents(claims)
           /\ claims' = Nothing
           /\ status' = IF claims = Nothing THEN "settle" ELSE "discover"
           /\ UNCHANGED <<treeVars, failure, walkVars, reading, warnings, planVars, packVars>>
  <2>0. /\ result = [c \in Components |-> result[c]] /\ claims = [c \in Components |-> claims[c]]
    BY TypeParts DEF PathSets
  <2>1. CASE claims = Nothing
    <3>1. result' = result
      BY <1>4, <2>0, <2>1 DEF Nothing
    <3>2. result = NearestPlan
      BY <1>0, <1>1, <2>0, <2>1, LastIsNearest DEF NearestPlan
    <3>3. NearestPlan' = NearestPlan /\ Known'
      BY <1>0, <1>4, TiesStay
    <3> QED
      BY <1>0, <1>4, <2>1, <3>1, <3>2, <3>3 DEF NearInv
  <2>2. CASE claims # Nothing
    <3>1. PICK e \in Components : claims[e] # {}
      BY <2>0, <2>2 DEF Nothing
    <3> DEFINE sum == [c \in Components |-> result[c] \cup claims[c]]
    <3>2. \A c, d \in Components : c # d => claims[c] \cap claims[d] = {}
      BY <1>4 DEF Contested
    <3>3. Ranked(n + 1, sum) /\ n + 1 \in Nat
      BY <1>0, <1>1, <3>1, <3>2, NextRanked
    <3>4. \A path : path \in Owned(sum) <=> path \in Owned(result) \/ path \in Owned(claims)
      BY OwnedSum
    <3>5. \A c \in Components : sum[c] = result[c] \cup claims[c]
      OBVIOUS
    <3> HIDE DEF sum
    <3>6. \A c \in Components : Documents(claims)[c] = {p \in claims[c] : IsMarkdown(p)}
      BY DEF Documents
    <3>7. ASSUME NEW c \in Components, NEW path \in sum[c], NEW target \in Wanted,
                 Leads(path, target)
          PROVE  target \in Owned(sum) \/ path \in Documents(claims)[c]
      <4>1. CASE path \in claims[c]
        BY <3>6, <3>7, <4>1 DEF Leads
      <4>2. CASE path \in result[c]
        <5>1. target \in Owned(result) \cup claims[c]
          BY <1>0, <3>7, <4>2 DEF Awaited, Nothing
        <5> QED
          BY <3>4, <5>1, OwnedIs
      <4> QED
        BY <3>5, <3>7, <4>1, <4>2
    <3>8. Awaited(sum, Nothing, Documents(claims), reading)
      <4>1. \A c \in Components : Nothing[c] = {}
        BY DEF Nothing
      <4>2. \A c \in Components : \A path \in Documents(claims)[c] :
              path \in sum[c] /\ IsMarkdown(path)
        BY <3>5, <3>6
      <4> QED
        BY <1>0, <3>7, <4>1, <4>2 DEF Awaited
    <3>9. Awaited(result', claims', todo', reading') /\ Ranked(n + 1, result')
      BY <1>4, <3>3, <3>8 DEF sum
    <3>10. InReach' /\ Known' /\ Awaited(result, claims, todo, reading)'
      BY <1>0, <1>4, <3>9, TiesStay, AwaitedStays
    <3>11. \E k \in Nat : Ranked(k, result)'
      <4> DEFINE k == n + 1
      <4>1. k \in Nat /\ Ranked(k, result')
        BY <3>3, <3>9
      <4> HIDE DEF k
      <4> QED
        BY <1>4, <4>1, RankedStays
    <3> QED
      BY <1>0, <1>4, <2>2, <3>10, <3>11 DEF NearInv
  <2> QED
    BY <2>1, <2>2
<1> QED
  BY <1>2, <1>3, <1>4 DEF EndWave

LEMMA NearStep ==
  ASSUME TypeInv, OwnInv, NearInv, [Next]_vars
  PROVE  NearInv'
<1> USE DEF treeVars, walkVars, waveVars, planVars, packVars
<1>1. ASSUME NEW why, Fail(why), why \notin {"cycle", "conflict"} PROVE NearInv'
  BY <1>1, NearFrom DEF Fail
<1>2. CASE VisitFile \/ VisitDirectory \/ VisitNothing \/ LeaveDirectory
  BY <1>2, NearVisit
<1>3. CASE EndWalk
  BY <1>3, NearEndWalk
<1>4. ASSUME NEW c \in Components, Read(c) PROVE NearInv'
  BY <1>4, NearRead
<1>5. CASE Follow
  BY <1>5, NearFollow
<1>6. CASE EndWave
  BY <1>6, NearEndWave
<1>7. CASE Settle
  BY <1>1, <1>7, NearFrom DEF Settle
<1>8. ASSUME NEW c \in Components, BeginBlob(c) PROVE NearInv'
  BY <1>8, NearFrom DEF BeginBlob, Idle
<1>9. CASE ResolveSource
  BY <1>1, <1>9, NearFrom DEF ResolveSource
<1>10. CASE WriteEntry
  BY <1>1, <1>10, NearFrom DEF WriteEntry
<1>11. CASE EndBuild
  BY <1>11, NearFrom DEF EndBuild
<1>12. CASE Cancel
  BY <1>1, <1>12 DEF Cancel
<1>13. CASE Edit
  BY <1>13 DEF Edit, NearInv
<1>14. CASE UNCHANGED vars
  BY <1>14, NearFrom DEF vars
<1> QED
  BY <1>2, <1>3, <1>4, <1>5, <1>6, <1>7, <1>8, <1>9, <1>10, <1>11, <1>12, <1>13, <1>14
     DEF Next, Step

\* What a settled plan says of a tree that stands still is right: each file is of the
\* component that is fewest references away, for any tree, rules and references
\* (resolver.go, plan.go, dependencies.go).
THEOREM PlansAreNearest == Spec => []PlanIsNearest
<1>1. Init => TypeInv /\ OwnInv /\ NearInv
  BY TypeStart, OwnStart, NearStart
<1>2. TypeInv /\ OwnInv /\ NearInv /\ [Next]_vars => (TypeInv /\ OwnInv /\ NearInv)'
  BY TypeStep, OwnStep, NearStep
<1>3. TypeInv /\ OwnInv /\ NearInv => PlanIsNearest
  BY DEF NearInv, PlanIsNearest, NearestPlan
<1> QED
  BY <1>1, <1>2, <1>3, PTL DEF Spec

\* A build is never refused for a cycle of directories, a tie of components or a lost
\* file that the tree, while it stands still, does not have (resolver.go, dependencies.go,
\* component.go).
THEOREM RefusalsHaveReasons == Spec => []FailuresAreReal
<1> DEFINE Inv == TypeInv /\ OwnInv /\ NearInv /\ FoundInv
<1>1. Init => Inv
  BY TypeStart, OwnStart, NearStart, FoundStart
<1>2. Inv /\ [Next]_vars => Inv'
  BY TypeStep, OwnStep, NearStep, FoundStep DEF OwnInv
<1>3. Inv => FailuresAreReal
  BY DEF NearInv, FoundInv, AreFiles, FailuresAreReal, Ties
<1> QED
  BY <1>1, <1>2, <1>3, PTL DEF Spec
=============================================================================
