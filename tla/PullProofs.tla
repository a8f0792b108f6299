----------------------------- MODULE PullProofs -----------------------------
(***************************************************************************)
(* Fetched graphs, for any sources, graphs and calls.  A call of Pull is a *)
(* call of Install, so that what InstallProofs says of destinations holds  *)
(* here; and what it installs is whole because a name only ever gets its   *)
(* own content and the index is written last.                              *)
(***************************************************************************)
EXTENDS Pull, InstallProofs

\* Every step of Pull is a step of Install, or none.
LEMMA PullStepInstalls == PullNext => [Next]_vars
<1> SUFFICES ASSUME PullNext PROVE [Next]_vars
  OBVIOUS
<1>1. ASSUME NEW w \in Workers, BeginPull(w) PROVE [Next]_vars
  BY <1>1 DEF BeginPull, Next, Act
<1>2. ASSUME NEW w \in Workers, Fetch(w) PROVE [Next]_vars
  BY <1>2 DEF Fetch, ResolveReference, FetchManifest, FetchPart, WriteIndex, Refuse, Next, Act
<1>3. ASSUME NEW w \in Workers, Proceed(w) PROVE [Next]_vars
  BY <1>3 DEF Proceed, Next, Act
<1>4. CASE Retag \/ Sweep
  BY <1>4 DEF Retag, Sweep
<1> QED
  BY <1>1, <1>2, <1>3, <1>4 DEF PullNext

\* Calls that fetch what they install are calls that install: what is proved of
\* archives and layouts at their destination (InstallProofs) holds of pulls.
THEOREM PullsInstall == PullSpec => Spec
<1>1. PullInit => Init
  BY DEF PullInit
<1>2. [PullNext]_pullVars => [Next]_vars
  BY PullStepInstalls DEF pullVars
<1> QED
  BY <1>1, <1>2, PTL DEF PullSpec, Spec

------------------------------------------------------------------------------
Exact(blobs) == {<<blob, blob>> : blob \in blobs}

FetchTypes ==
  /\ seen \in [Workers -> SUBSET Roots]
  /\ phase \in [Workers -> {"resolve", "manifest", "parts", "complete"}]
  /\ root \in [Workers -> Roots \cup {NoRoot}]
  /\ left = [w \in Workers |-> left[w]]
  /\ layout = [w \in Workers |-> layout[w]]
  /\ early \in [Workers -> BOOLEAN]
  /\ named \in Roots

\* A call's directory grows into the graph of the root it has resolved.
Growing(w) ==
  /\ phase[w] # "resolve" => root[w] \in seen[w]
  /\ phase[w] = "parts" => layout[w] \cup Exact(left[w]) = Exact(Graph(root[w]))
  /\ phase[w] = "complete" => layout[w] = Exact(Graph(root[w]))

\* What is written or put in place has been fetched, and until then a call has
\* seen what the reference names.
FetchedFirst(w) ==
  /\ pc[w] \in {"check", "stage", "write"} => named \in seen[w]
  /\ pc[w] = "idle" => phase[w] = "resolve"
  /\ pc[w] \in Steps \ {"check", "stage", "write"} => phase[w] = "complete"
  /\ pc[w] = "write" /\ early[w] => phase[w] = "complete"
  /\ w \in placed => phase[w] = "complete"

PullInv == FetchTypes /\ \A w \in Pullers : Growing(w) /\ FetchedFirst(w)

LEMMA PullStart == PullInit => PullInv
<1> SUFFICES ASSUME PullInit PROVE PullInv
  OBVIOUS
<1>1. FetchTypes
  BY DEF PullInit, FetchTypes
<1>2. ASSUME NEW w \in Pullers PROVE Growing(w) /\ FetchedFirst(w)
  <2>1. phase[w] = "resolve" /\ pc[w] = "idle" /\ placed = {}
    BY PullAssumption DEF PullInit, Init
  <2> QED
    BY <2>1 DEF Growing, FetchedFirst, Steps, ArchiveSteps, LayoutSteps
<1> QED
  BY <1>1, <1>2 DEF PullInv

\* A call that gives up has nothing of a graph, and has put nothing in place.
LEMMA ForgetKeeps ==
  ASSUME FetchTypes, NEW w \in Workers, \A v \in Pullers : Growing(v), Forget(w), named' = named
  PROVE  FetchTypes' /\ \A v \in Pullers : Growing(v)'
<1> USE PullAssumption
<1>1. FetchTypes'
  BY DEF FetchTypes, Forget
<1>2. ASSUME NEW v \in Pullers PROVE Growing(v)'
  BY DEF FetchTypes, Forget, Growing
<1> QED
  BY <1>1, <1>2

LEMMA FetchKeeps ==
  ASSUME PullInv, InstallInv, NEW w \in Pullers, Fetch(w)
  PROVE  PullInv'
<1> USE PullAssumption DEF Steps, ArchiveSteps, LayoutSteps
<1>0. /\ pc[w] \in {"stage", "write"} /\ w \notin placed /\ phase[w] # "complete"
      /\ pc[w] = "write" => ~early[w]
  BY DEF Fetch, ResolveReference, FetchManifest, FetchPart, WriteIndex, Fetching, InstallInv,
     InPlace, PullInv, FetchTypes
<1>1. CASE Refuse(w)
  <2>1. pc' = [pc EXCEPT ![w] = "done"] /\ placed' = placed
    BY <1>0, <1>1 DEF Refuse, Fail, Return, Kept
  <2>2. FetchTypes' /\ \A v \in Pullers : Growing(v)'
    BY <1>1, ForgetKeeps DEF Refuse, PullInv, sourceVars
  <2>3. ASSUME NEW v \in Pullers PROVE FetchedFirst(v)'
    <3>1. CASE v = w
      BY <1>0, <2>1, <3>1 DEF InstallInv, TypeOK, FetchedFirst
    <3>2. CASE v # w
      <4>1. /\ phase'[v] = phase[v] /\ early' = early /\ seen' = seen
            /\ pc'[v] = pc[v] /\ named' = named
        BY <1>1, <2>1, <3>2 DEF Refuse, Forget, sourceVars, InstallInv, TypeOK, PullInv, FetchTypes
      <4> QED
        BY <2>1, <4>1 DEF PullInv, FetchedFirst
    <3> QED
      BY <3>1, <3>2
  <2> QED
    BY <2>2, <2>3 DEF PullInv
<1>2. ASSUME UNCHANGED <<vars, named, early, seen>>, FetchTypes', Growing(w)',
             \A v \in Workers \ {w} : /\ phase'[v] = phase[v] /\ root'[v] = root[v]
                                     /\ left'[v] = left[v] /\ layout'[v] = layout[v]
      PROVE  PullInv'
  BY <1>0, <1>2 DEF PullInv, Growing, FetchedFirst, vars
<1>3. CASE ResolveReference(w)
  <2>1. Growing(w)'
    BY <1>0, <1>3 DEF ResolveReference, sourceVars, PullInv, FetchTypes, Growing, FetchedFirst
  <2>2. FetchTypes'
    BY <1>3 DEF ResolveReference, sourceVars, PullInv, FetchTypes
  <2> QED
    BY <1>2, <1>3, <2>1, <2>2 DEF ResolveReference, sourceVars, PullInv, FetchTypes
<1>4. CASE FetchManifest(w) /\ ~Refuse(w)
  <2>1. /\ layout' = [layout EXCEPT ![w] = {<<root[w], root[w]>>}]
        /\ left' = [left EXCEPT ![w] = PartsOf[root[w]]]
        /\ phase' = [phase EXCEPT ![w] = "parts"]
        /\ UNCHANGED <<vars, sourceVars, early, seen, root>>
    BY <1>4 DEF FetchManifest
  <2>2. Growing(w)'
    <3>1. {<<root[w], root[w]>>} \cup Exact(PartsOf[root[w]]) = Exact(Graph(root[w]))
      BY DEF Exact, Graph
    <3>2. root[w] \in seen[w]
      BY <1>4 DEF FetchManifest, PullInv, Growing
    <3> QED
      BY <2>1, <3>1, <3>2 DEF PullInv, FetchTypes, Growing
  <2>3. FetchTypes'
    BY <2>1 DEF sourceVars, PullInv, FetchTypes
  <2> QED
    BY <1>2, <2>1, <2>2, <2>3 DEF sourceVars, PullInv, FetchTypes
<1>5. CASE FetchPart(w) /\ ~Refuse(w)
  <2>1. PICK part \in left[w] :
          /\ layout' = [layout EXCEPT ![w] = @ \cup {<<part, part>>}]
          /\ left' = [left EXCEPT ![w] = @ \ {part}]
          /\ UNCHANGED <<vars, sourceVars, early, seen, phase, root>>
    BY <1>5 DEF FetchPart
  <2>2. Growing(w)'
    <3>1. {<<part, part>>} \cup Exact(left[w] \ {part}) = Exact(left[w])
      BY <2>1 DEF Exact
    <3>2. /\ phase[w] = "parts" /\ root[w] \in seen[w]
          /\ layout[w] \cup Exact(left[w]) = Exact(Graph(root[w]))
      BY <1>5 DEF FetchPart, PullInv, Growing
    <3>3. layout'[w] \cup Exact(left'[w]) = Exact(Graph(root[w]))
      BY <2>1, <3>1, <3>2 DEF PullInv, FetchTypes
    <3> QED
      BY <2>1, <3>2, <3>3 DEF Growing
  <2>3. FetchTypes'
    BY <2>1 DEF sourceVars, PullInv, FetchTypes
  <2> QED
    BY <1>2, <2>1, <2>2, <2>3 DEF sourceVars, PullInv, FetchTypes
<1>6. CASE WriteIndex(w)
  BY <1>2, <1>6 DEF WriteIndex, sourceVars, PullInv, FetchTypes, Growing, Exact
<1> QED
  BY <1>1, <1>3, <1>4, <1>5, <1>6 DEF Fetch

\* Steps that fetch nothing and forget nothing.
LEMMA QuietKeeps ==
  ASSUME PullInv, UNCHANGED <<phase, root, left, layout>>,
         named' \in Roots, early' \in [Workers -> BOOLEAN],
         seen' \in [Workers -> SUBSET Roots], \A v \in Pullers : seen[v] \subseteq seen'[v],
         \A v \in Pullers : FetchedFirst(v)'
  PROVE  PullInv'
BY PullAssumption DEF PullInv, FetchTypes, Growing

LEMMA BeginKeeps ==
  ASSUME PullInv, InstallInv, NEW w \in Workers, BeginPull(w)
  PROVE  PullInv'
<1> USE PullAssumption
<1>1. /\ pc[w] = "idle" /\ w \notin placed /\ placed' = placed
      /\ \E step \in {"check", "stage"} : pc' = [pc EXCEPT ![w] = step]
  BY DEF BeginPull, Begin, Goto, Kept, InstallInv, InPlace
<1>2. /\ UNCHANGED <<phase, root, left, layout, named>>
      /\ IF w \in Pullers
         THEN /\ early' = [early EXCEPT ![w] = pc'[w] = "check"]
              /\ seen' = [seen EXCEPT ![w] = {named}]
         ELSE UNCHANGED <<early, seen>>
  BY DEF BeginPull, sourceVars
<1>3. ASSUME NEW v \in Pullers PROVE Growing(v)' /\ FetchedFirst(v)'
  <2>1. CASE v = w
    <3>1. phase[w] = "resolve"
      BY <1>1, <2>1 DEF PullInv, FetchedFirst
    <3> QED
      BY <1>1, <1>2, <2>1, <3>1 DEF PullInv, FetchTypes, InstallInv, TypeOK, Growing,
         FetchedFirst, Steps, ArchiveSteps, LayoutSteps
  <2>2. CASE v # w
    <3>1. pc'[v] = pc[v] /\ seen'[v] = seen[v] /\ early'[v] = early[v]
      BY <1>1, <1>2, <2>2 DEF PullInv, FetchTypes, InstallInv, TypeOK
    <3> QED
      BY <1>1, <1>2, <3>1 DEF PullInv, Growing, FetchedFirst
  <2> QED
    BY <2>1, <2>2
<1>4. early' \in [Workers -> BOOLEAN]
  <2>1. \E b \in BOOLEAN : early' = [early EXCEPT ![w] = b] \/ early' = early
    <3>1. (pc'[w] = "check") \in BOOLEAN
      OBVIOUS
    <3> QED
      BY <1>2, <3>1, Zenon
  <2> QED
    BY <2>1 DEF PullInv, FetchTypes
<1>5. seen' \in [Workers -> SUBSET Roots]
  BY <1>2 DEF PullInv, FetchTypes
<1> QED
  BY <1>2, <1>3, <1>4, <1>5 DEF PullInv, FetchTypes

\* Where the steps of Install lead, and what they put in place.
LEMMA ProceedMoves ==
  ASSUME InstallInv, NEW w \in Workers, Proceed(w)
  PROVE  /\ \A v \in Workers \ {w} : pc'[v] = pc[v] /\ (v \in placed' => v \in placed)
         /\ pc'[w] # "idle" /\ pc'[w] # "check"
         /\ pc'[w] = "stage" => pc[w] = "check"
         /\ pc'[w] = "write" => pc[w] = "stage"
         /\ pc'[w] \in Steps \ {"check", "stage", "write"} =>
              pc[w] = "write" \/ pc[w] \in Steps \ {"check", "stage", "write"}
         /\ w \in placed' => w \in placed \/ pc[w] \in {"publish", "place", "install"}
         /\ pc[w] = "stage" /\ pc'[w] = "write" => Stage(w)
         /\ pc[w] = "write" /\ pc'[w] \in Steps => Write(w)
<1> USE DEF InstallInv, TypeOK, Goto, Return, Kept, Place, Steps, ArchiveSteps, LayoutSteps
<1>1. CASE Stage(w) \/ Write(w)
  BY <1>1 DEF Stage, Write
<1>2. CASE Archive(w)
  BY <1>2 DEF Archive, Check, Publish, Unlink
<1>3. CASE Look(w) \/ PlaceLayout(w) \/ BackUp(w)
  BY <1>3 DEF Look, PlaceLayout, BackUp
<1>4. CASE Install(w) \/ Restore(w) \/ Discard(w)
  BY <1>4 DEF Install, Restore, Discard
<1>5. CASE Fail(w) \/ Crash(w)
  BY <1>5 DEF Fail, Crash
<1> QED
  BY <1>1, <1>2, <1>3, <1>4, <1>5 DEF Proceed, Layout

LEMMA ProceedKeeps ==
  ASSUME PullInv, InstallInv, NEW w \in Workers, Proceed(w)
  PROVE  PullInv'
<1> USE PullAssumption
<1>1. /\ \A v \in Workers \ {w} : pc'[v] = pc[v] /\ (v \in placed' => v \in placed)
      /\ named' = named
  BY ProceedMoves DEF Proceed, sourceVars
<1>2. CASE pc'[w] = "done" /\ w \notin placed' /\ Forget(w)
  <2>1. FetchTypes' /\ \A v \in Pullers : Growing(v)'
    BY <1>1, <1>2, ForgetKeeps DEF PullInv
  <2>2. ASSUME NEW v \in Pullers PROVE FetchedFirst(v)'
    <3>1. CASE v = w
      BY <1>2, <3>1 DEF FetchedFirst, Steps, ArchiveSteps, LayoutSteps
    <3>2. CASE v # w
      <4>1. phase'[v] = phase[v] /\ early' = early /\ seen' = seen
        BY <1>2, <3>2 DEF Forget, PullInv, FetchTypes
      <4> QED
        BY <1>1, <3>2, <4>1 DEF PullInv, FetchedFirst
    <3> QED
      BY <3>1, <3>2
  <2> QED
    BY <2>1, <2>2 DEF PullInv
<1>3. CASE UNCHANGED fetchVars
  <2>1. ASSUME NEW v \in Pullers PROVE FetchedFirst(v)'
    <3>1. CASE v # w
      BY <1>1, <1>3, <3>1 DEF fetchVars, PullInv, FetchedFirst
    <3>2. CASE v = w
      <4>1. pc[w] = "stage" /\ pc'[w] = "write" /\ early[w] => phase[w] = "complete"
        <5>1. Stage(w) => (early[w] => Fetched(w)) \/ pc'[w] # "write"
          BY DEF Proceed, Stage, Write, Archive, Check, Publish, Unlink, Layout, Look, PlaceLayout,
             BackUp, Install, Restore, Discard, Fail, Crash, Goto, Return, InstallInv, TypeOK
        <5> QED
          BY <3>2, <5>1, ProceedMoves DEF Fetched
      <4>2. pc[w] = "write" /\ pc'[w] \in Steps => phase[w] = "complete"
        <5>1. Write(w) => Fetched(w)
          BY DEF Proceed, Write, Stage, Archive, Check, Publish, Unlink, Layout, Look, PlaceLayout,
             BackUp, Install, Restore, Discard, Fail, Crash, Goto, Return, InstallInv, TypeOK
        <5> QED
          BY <3>2, <5>1, ProceedMoves DEF Fetched
      <4> QED
        BY <1>1, <1>3, <3>2, <4>1, <4>2, ProceedMoves DEF fetchVars, PullInv, FetchedFirst,
           Steps, ArchiveSteps, LayoutSteps
    <3> QED
      BY <3>1, <3>2
  <2> QED
    BY <1>1, <1>3, <2>1, QuietKeeps DEF fetchVars, PullInv, FetchTypes
<1> QED
  BY <1>2, <1>3 DEF Proceed

\* Whatever the source does, no call's directory changes.
LEMMA ChangeKeeps ==
  ASSUME PullInv, Retag \/ Sweep
  PROVE  PullInv'
<1> USE PullAssumption
<1>1. CASE Retag
  <2>1. PICK r \in Roots :
          /\ named' = r
          /\ seen' = [w \in Workers |-> IF pc[w] \in {"check", "stage", "write"} /\ w \in Pullers
                                        THEN seen[w] \cup {r} ELSE seen[w]]
          /\ UNCHANGED <<vars, early, phase, root, left, layout>>
    BY <1>1 DEF Retag
  <2>2. \A v \in Pullers : FetchedFirst(v)'
    BY <2>1 DEF vars, PullInv, FetchedFirst
  <2>3. seen' \in [Workers -> SUBSET Roots] /\ \A v \in Pullers : seen[v] \subseteq seen'[v]
    BY <2>1 DEF PullInv, FetchTypes
  <2> QED
    BY <2>1, <2>2, <2>3, QuietKeeps DEF PullInv, FetchTypes
<1>2. CASE Sweep
  BY <1>2 DEF Sweep, vars, fetchVars, PullInv, FetchTypes, Growing, FetchedFirst
<1> QED
  BY <1>1, <1>2

LEMMA PullStep == PullInv /\ InstallInv /\ [PullNext]_pullVars => PullInv'
<1> SUFFICES ASSUME PullInv, InstallInv, [PullNext]_pullVars PROVE PullInv'
  OBVIOUS
<1>1. ASSUME NEW w \in Workers, BeginPull(w) \/ Proceed(w) PROVE PullInv'
  BY <1>1, BeginKeeps, ProceedKeeps
<1>2. ASSUME NEW w \in Workers, Fetch(w) PROVE PullInv'
  <2>1. w \in Pullers
    BY <1>2 DEF Fetch, ResolveReference, FetchManifest, FetchPart, WriteIndex, Fetching
  <2> QED
    BY <1>2, <2>1, FetchKeeps
<1>3. CASE Retag \/ Sweep
  BY <1>3, ChangeKeeps
<1>4. CASE UNCHANGED pullVars
  BY <1>4 DEF pullVars, vars, sourceVars, fetchVars, PullInv, FetchTypes, Growing, FetchedFirst
<1> QED
  BY <1>1, <1>2, <1>3, <1>4 DEF PullNext

\* A pull, a copy or an export puts one whole graph at its destination, that of a
\* manifest its reference has named while it ran, whatever happens to the source.
THEOREM PulledGraphsAreWhole == PullSpec => []PulledWhole
<1>1. PullInv => PulledWhole
  BY DEF PullInv, Growing, FetchedFirst, PulledWhole, Exact
<1>2. Spec => []InstallInv
  BY InstallInvariant
<1> QED
  BY <1>1, <1>2, PullsInstall, PullStart, PullStep, PTL DEF PullSpec
==============================================================================
