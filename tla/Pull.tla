-------------------------------- MODULE Pull --------------------------------
(***************************************************************************)
(* Calls of Install whose result is a graph fetched from a source that     *)
(* changes meanwhile: Client.PullArchive, Copy to a layout (pullToLayout), *)
(* Store.ExportFile (artifact.PackageReader).  PullArchive fetches into a  *)
(* directory of its own before it opens the temporary archive, the others  *)
(* when they write.                                                        *)
(*                                                                         *)
(* External: the registry or the store, where tags move and blobs vanish,  *)
(* and which may answer with bytes other than those asked for.             *)
(***************************************************************************)
EXTENDS Install

CONSTANTS
  Pullers,    \* the calls whose fetching is followed
  Roots,      \* root manifests
  Foreign,    \* those that are no OCIDoc artifacts
  PartsOf,    \* PartsOf[r]: the config and the layers of a manifest
  NoRoot, Wrong,
  MaxChanges  \* changes of the source

ASSUME PullAssumption ==
  /\ Pullers \subseteq Workers
  /\ MaxChanges \in Nat
  /\ NoRoot \notin Roots

VARIABLES
  named,     \* the manifest that the reference names
  held,      \* the blobs that the source holds
  changes,   \* its changes so far
  early,     \* early[w]: it fetches before it stages
  seen,      \* seen[w]: what the reference has named since w began
  phase,     \* phase[w]: "resolve", "manifest", "parts" or "complete"
  root,      \* root[w]: the descriptor it has resolved
  left,      \* left[w]: parts it has not fetched
  layout     \* layout[w]: its blobs, names and contents

sourceVars == <<named, held, changes>>
fetchVars == <<early, seen, phase, root, left, layout>>
pullVars == <<vars, sourceVars, fetchVars>>

Graph(r) == {r} \cup PartsOf[r]

PullInit ==
  /\ Init
  /\ named \in Roots
  /\ held = UNION {Graph(r) : r \in Roots}
  /\ changes = 0
  /\ early = [w \in Workers |-> FALSE]
  /\ seen = [w \in Workers |-> {}]
  /\ phase = [w \in Workers |-> "resolve"]
  /\ root = [w \in Workers |-> NoRoot]
  /\ left = [w \in Workers |-> {}]
  /\ layout = [w \in Workers |-> {}]

------------------------------------------------------------------------------
BeginPull(w) ==
  /\ Begin(w)
  /\ IF w \in Pullers
     THEN /\ early' = [early EXCEPT ![w] = pc'[w] = "check"]
          /\ seen' = [seen EXCEPT ![w] = {named}]
     ELSE UNCHANGED <<early, seen>>
  /\ UNCHANGED <<sourceVars, phase, root, left, layout>>

Fetching(w) == w \in Pullers /\ pc[w] = IF early[w] THEN "stage" ELSE "write"

\* The reference becomes a descriptor, once.
ResolveReference(w) ==
  /\ Fetching(w) /\ phase[w] = "resolve"
  /\ root' = [root EXCEPT ![w] = named]
  /\ phase' = [phase EXCEPT ![w] = "manifest"]
  /\ UNCHANGED <<vars, sourceVars, early, seen, left, layout>>

\* What a request for a blob may bring: the blob, other bytes, fewer, or more.
Answers(blob) == IF blob \in held THEN {blob, Wrong} ELSE {Wrong}

\* The deferred RemoveAll of its directory, and what else ends with the call.
Forget(w) ==
  /\ phase' = [phase EXCEPT ![w] = "resolve"]
  /\ root' = [root EXCEPT ![w] = NoRoot]
  /\ left' = [left EXCEPT ![w] = {}]
  /\ layout' = [layout EXCEPT ![w] = {}]
  /\ UNCHANGED <<early, seen>>

\* The call returns the error.
Refuse(w) == Fail(w) /\ Forget(w) /\ UNCHANGED sourceVars

FetchManifest(w) ==
  /\ Fetching(w) /\ phase[w] = "manifest"
  /\ \E answer \in Answers(root[w]) :
       \/ /\ answer = root[w] /\ answer \notin Foreign
          /\ layout' = [layout EXCEPT ![w] = {<<root[w], answer>>}]
          /\ left' = [left EXCEPT ![w] = PartsOf[answer]]
          /\ phase' = [phase EXCEPT ![w] = "parts"]
          /\ UNCHANGED <<vars, sourceVars, early, seen, root>>
       \/ (answer # root[w] \/ answer \in Foreign) /\ Refuse(w)

\* Mutant: the digest is not compared.
FetchPartUnchecked(w) ==
  /\ Fetching(w) /\ phase[w] = "parts"
  /\ \E part \in left[w] : \E answer \in Answers(part) :
       /\ layout' = [layout EXCEPT ![w] = @ \cup {<<part, answer>>}]
       /\ left' = [left EXCEPT ![w] = @ \ {part}]
  /\ UNCHANGED <<vars, sourceVars, early, seen, phase, root>>

\* Some order, which the manifest fixes.
FetchPart(w) ==
  /\ Fetching(w) /\ phase[w] = "parts"
  /\ \E part \in left[w] : \E answer \in Answers(part) :
       \/ /\ answer = part
          /\ layout' = [layout EXCEPT ![w] = @ \cup {<<part, answer>>}]
          /\ left' = [left EXCEPT ![w] = @ \ {part}]
          /\ UNCHANGED <<vars, sourceVars, early, seen, phase, root>>
       \/ answer # part /\ Refuse(w)

\* oci-layout and index.json, which names the resolved descriptor.
WriteIndex(w) ==
  /\ Fetching(w) /\ phase[w] = "parts" /\ left[w] = {}
  /\ phase' = [phase EXCEPT ![w] = "complete"]
  /\ UNCHANGED <<vars, sourceVars, early, seen, root, left, layout>>

Fetched(w) == w \in Pullers => phase[w] = "complete"

\* The rest of the call, which the fetched graph waits for or follows.
Proceed(w) ==
  /\ \/ Stage(w) /\ (early[w] => Fetched(w))
     \/ Write(w) /\ Fetched(w)
     \/ Archive(w) \/ Layout(w) \/ Fail(w) \/ Crash(w)
  /\ IF pc'[w] = "done" /\ w \notin placed' THEN Forget(w) ELSE UNCHANGED fetchVars
  /\ UNCHANGED sourceVars

Fetch(w) == ResolveReference(w) \/ FetchManifest(w) \/ FetchPart(w) \/ WriteIndex(w)

\* Bound: the source changes while a call can see it.
Change ==
  /\ changes < MaxChanges /\ changes' = changes + 1
  /\ \E w \in Pullers : pc[w] \in {"check", "stage", "write"}

\* Somebody tags another manifest, whose blobs were pushed before.
Retag ==
  /\ Change
  /\ \E r \in Roots \ {named} :
       /\ named' = r
       /\ held' = held \cup Graph(r)
       /\ seen' = [w \in Workers |-> IF pc[w] \in {"check", "stage", "write"} /\ w \in Pullers
                                     THEN seen[w] \cup {r} ELSE seen[w]]
  /\ UNCHANGED <<vars, early, phase, root, left, layout>>

\* A garbage collection, or Store.Prune.
Sweep ==
  /\ Change
  /\ \E blob \in held : held' = held \ {blob}
  /\ UNCHANGED <<vars, named, fetchVars>>

PullNext == (\E w \in Workers : BeginPull(w) \/ Fetch(w) \/ Proceed(w)) \/ Retag \/ Sweep

PullSpec == PullInit /\ [][PullNext]_pullVars

------------------------------------------------------------------------------
\* What a call puts at the destination is one graph and a whole one: every blob that
\* its root names, under its name, nothing else, and the root is one that the
\* reference named while the call ran, whatever is tagged, deleted or garbled
\* meanwhile ("every fetched blob is digest-checked against the descriptor that named
\* it before it is trusted", pull.go:55).
PulledWhole ==
  \A w \in placed \cap Pullers :
    /\ root[w] \in seen[w]
    /\ layout[w] = {<<blob, blob>> : blob \in Graph(root[w])}
==============================================================================
