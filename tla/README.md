# A model of ocidoc-go

TLA+ modules for the parts of `ocidoc-go` that keep state while others change it
under their feet: the local store, the clients of a registry, the
installation of results in the file system, the build of a document from a
source tree, and the readers that list, extract, verify and compare its components. TLC checks them on small instances,
TLAPS proves the central invariants for all instances. `PROJECT.json` holds the
same information as data: the definitions with the lines they translate, the
runs, the mutants each property was tried on, the hazards and the theorems.

## The system

`ocidoc-go` is a library without a daemon: every state it keeps is in files or
in a registry, and several goroutines, handles and processes may work on either.

| component | state | operations | hard behaviour | correct if |
|---|---|---|---|---|
| `store` lock (`store.go`) | channel of a handle, lock file | `withCatalogLock` | goroutines and processes, polling, contexts, death of the holder | one `fn` at a time, no lock without an owner, a deadline ends every wait |
| `store` documents | `blobs/`, `index.json`, `store.json`, each handle's copy of the index | `Open`, `Commit`, `Remove`, `Prune`, `Verify`, `Documents`, `OpenDocument` | readers without the lock, an index rewritten in place, crash between and within files, failing reads, rot, catalogs of other versions | indexed documents are complete and visible, commits stay, origins stay, prune is exact, repair agrees |
| `store` export, usage, paths | none of its own | `ExportFile`, `Usage`, path lookup | files vanish during a walk | the export is a whole archive |
| `registry` publication | documentation tag, manifests, referrers | `Attach`, `Push`, `Detach`, `Remove` | nothing locks a registry; look-up and write are separate requests; requests fail | no unwanted replacement, publications stay listed |
| `registry` discovery | two branches of candidates | `Discover` | tag and listing disagree, change, or fail | the primary wins, "not found" means absent |
| `registry` prune | the plan | `Prune` | the plan ages while it is executed | the primary survives, one attachment per slot remains |
| `registry` pull and copy | destination, temporary and backup directories | `PullArchive`, `Copy` | rival calls, failure and death between renames, a source that changes while it is read | nothing existing is lost, what arrives is one whole graph |
| `registry` credentials | none | hands credentials to oras-go | - | - |
| `internal/orasrepo` | an oras-go repository for each call | the requests above, classification of errors | two edits of a fallback index | see publication |
| `internal/atomicfile` | temporary file | `WriteFile`, `Temp.Rename`, `Cleanup` | writers of one name, with and without replacement | all or nothing |
| `internal/ociblob`, `digestio`, `ociclone` | bytes read and hashed | verifying reader | short reads, size limits | nothing unverified is passed as complete |
| `internal/archive`, `compression` | position, bytes and entries counted | `Scan`, `Extract` | limits at their boundary | no limit is passed |
| `internal/pathplan`, `sourcepath` | claims of components on paths | dependency waves, entry points, matchers | two components claim one file; symlinks | each file has one owner, links between documents are followed |
| `internal/markdown` | none | extracts references | - | - |
| `spec` | none | validates configurations and paths | collisions of paths and names | what it accepts can be built |
| `artifact` plan and build | the plan, a staging layout | `Plan`, `BuildLayout`, `BuildArchive` | many sources, locales, components, edits | the layout holds what the plan says, and verifies |
| `artifact` layouts, packages, verify, extract, diff | readers | `OpenLayout`, `OpenArchive`, `Verify`, `Extract`, `Diff` | untidy inputs | the verdict is right |

Interactions: `store` calls `artifact.Verify` and reads through
`artifact.Reader`; `registry` and `store` exchange documents as
`artifact.Reader`s; everything that writes a file goes through
`internal/atomicfile`; `registry` reaches oras-go only through
`internal/orasrepo`; `artifact` plans with `internal/pathplan` and checks with
`spec`. Callbacks are `fn` of `withCatalogLock` and the write callback of
`WriteFile`.

## The modules

```
Mutex                     the abstract lock
StoreLock                 implements Mutex          StoreLockProofs
  Store (EXTENDS)         the store's files         StoreProofs, StoreCatalogProofs
  MCStoreLock, MCStore    instances
Registry                  a registry's clients      RegistryProofs
  MCRegistry              instances
Install                   a destination of files    InstallProofs
  Pull (EXTENDS)          graphs that are fetched   PullProofs
  MCPull                  an instance of both
BundlePaths               the paths of a bundle
  SourceTree (EXTENDS)    paths, links, references
    PathPlan (EXTENDS)    plan and build            PathPlanProofs
    MCPathPlan            instances
  Unpack (EXTENDS)        list, extract, verify,
                          compare                   UnpackProofs
  MCUnpack                instances
```

Properties stand at the end of each module and quote the promise they come
from. Definitions marked "Mutant" are never part of a specification: each one is a
plausible bug, and the property named for it in `PROJECT.json` fails when it
takes the place of the definition below it.

### Mutex, StoreLock: `withCatalogLock`

A worker is one call with one handle. `stage[w]` goes from `out` over `waitMu` (in the
`select` on the channel `lockMu[h]`) and `waitFlock` (polling the lock file) to `held` (inside
`fn`) and `unlocked` (the file lock is released, the channel is not yet). `AbandonMu` and `AbandonFlock` are the cancelled context, and the lock file
that cannot be used; `Die(h)` is the end of the process with its handle, when the
system releases the file lock. `flock.Flock` is external: it is reentrant
for one handle, which is why the channel exists, and `AcquireFlockShared` is the mutant that
forgets it. `Mutex` promises one holder at a time; `ImplementsMutex` is the refinement
(`holders <- Inside`), checked and proved.

### Store: the files

`index` is what `index.json` names, `torn` says that it is truncated and not yet written, `catalog` is `store.json` with its kind (`missing`, `current`,
`malformed`, `future`: another version), `blobs` the file names, `rotten` those whose
content changed, `mem[h]` the index that a handle's oci.Store holds in memory. One action is
one access to a file, in the order of the code, inside the lock:

| call | actions |
|---|---|
| every locked call | `CallLocked`, `TakeMu`, `TakeFlock`, `Refresh` (the handle reloads the index), ..., `DropFlock`, `DropMu`, or `GiveUp` |
| `Open` | `Open`, or `OpenFails` where it cannot parse the index |
| `Commit` | `PushConfig`, `PushLayer`, `PushManifest` (with its shortcut if the blob exists), `Tag` and `SaveTag` (the index is truncated, then written), `LoadRecords`, `SaveRecord` |
| `Remove` | `Lookup`, `Untag` and `SaveUntag`, `Unlink`, `DropRecord` |
| `Prune` | `Mark`, `Sweep` blob by blob, `SweepDone` |
| `Verify` | `Scan`, `CheckRoot` root by root, `Conclude` (with repair) |
| `Documents` | `ListIndex`, `ListCatalog`, without the lock |
| `OpenDocument` and its reader | `OpenRoot`, `OpenManifest`, `ReadBlob`, `ReadDone`, without the lock |

Faults, each within `MaxFaults`: `Crash` (a process dies anywhere), `Interrupt` and
`MissRoots` (a call fails half-way, a verification cannot read a root), `Rot`
(a blob's content changes), `Spoil` (`store.json` is damaged, or written by a newer version).
`content/oci.Store` of oras-go (v2.6.2) is external: its `Push` of a manifest writes the blob and
then the index, its `Delete` the index and then the blob. A blob is renamed into place, `index.json` is not: it is written
with `os.WriteFile`, which truncates it first. So a call without the lock may find nothing that can be parsed
(`unreadable`) or, as its read takes several system calls, any mixture of what the index named and will name (`Glimpses`), and a death or a failed write
leaves the file torn. `blurred` are the calls that have read such an index; a read is taken to
meet one rewriting at most. Calls under the lock reload the index first, and `Refresh` of a torn one ends them.

### Registry: concurrent clients

`manifests`, `tags` and `fallback` are the repository; a call's locals are its step, its target
and what it has read (`index`, `tagB`, `refB`, `plan`). One action is one request. Attachments
belong to a slot, the pair of document ID and variant. Nothing locks a registry,
so the requests of all calls interleave freely.

| call | actions |
|---|---|
| `Attach`, `Push` | `Lookup` (`checkTagReplacement`), `PushManifest`, `IndexRead`, `IndexWrite`, `Tag` |
| `Discover` | `AskTag`, `LoadTag` and `AskReferrers`, `LoadReferrer` side by side, then `Select` with `Reconcile` |
| `Detach`, `Remove` | discovery, `Resolve`, `Delete`, `IndexRead`, `IndexWrite`, `Erase` |
| `Prune` | `AskTag`, `LoadTag`, `PrunePrimary`, the referrers, `PlanPrune`, then a deletion per superseded manifest |

oras-go and the registry are external. `native` says whether the registry serves
the referrers API; if not, oras-go keeps an index under a tag: it
reads, edits and rewrites it, and deletes the one it had read. It merges concurrent
edits of one `Repository` value, but `registry.Client` opens a new one for each call
(`client.go`, `open`), so edits of two calls are independent. A failing request is
`FailBranch` in discovery (temporary or not) and `Cut` elsewhere.

Ghost variables say what the repository did during a call: `same[w]` (the documentation
tag did not move), `lasting[w]` (attachments listed all along), `gone[w]` (manifests being
deleted), `acked` (attachments whose publication was acknowledged) and `overlapped` (two edits of the
fallback index overlapped).

### Install: one destination

Calls that put a finished result at one path: archives through `atomicfile.WriteFile`
(`BuildArchive`, `PullArchive`, `Store.ExportFile`) or layouts through `replaceDirectory`
(`Copy` to a layout). The actions are the accesses in order: `Check`, `Stage`, `Write`,
then `Publish`, `Unlink` for an archive, and `Look`, `PlaceLayout` or `BackUp`, `Install`,
`Restore` or `Discard` for a layout. `Fail` is any access that fails, with the error path the code takes, `Crash` a
process that dies. The operating system itself does not fail: nothing in the code syncs a
file, and nothing here is said about power loss.

### Pull: what is installed, when it is fetched

`Pull` extends `Install`: for the calls in `Pullers`, the result is a graph that is fetched, blob by blob, from a
source that changes. `PullArchive` fetches into a directory of its own before it stages (`early`), `Copy` to a layout and
`ExportFile` (through `PackageReader`) while they write what is staged.

| code | actions |
|---|---|
| a call begins | `BeginPull` |
| `resolveReference` | `ResolveReference`: the reference becomes a descriptor, `root[w]`, once |
| `fetchBlob` of the manifest, `artifactType` | `FetchManifest` |
| `fetchBlobToFile` of config and layers, `copyBlob` | `FetchPart`, one blob at a time, in any order |
| `writePulledLayoutMetadata` | `WriteIndex` |
| the rest of the call | `Proceed`: a step of `Install`, which staging or writing has to wait for |
| the source, external | `Retag` (the reference names another manifest), `Sweep` (a blob is gone), and `Answers`: other bytes than those asked for |

`layout[w]` pairs the name of each blob with the content that was stored under it. An answer that is not what its
descriptor says ends the call (`Refuse`), and its directory goes (`Forget`). A reference that is a digest, as `ExportFile`'s, is one that never
moves. Calls share nothing but the source and the destination, so that following the fetching of one of them meets everything
that can happen to it; the others stay calls of `Install`.

### BundlePaths, SourceTree, PathPlan: from a tree to its components

`BundlePaths` has the paths inside a bundle and `Collision`, which is `spec.ValidateBundlePaths`. `SourceTree` is `internal/sourcepath` without state: a tree maps physical places to files
(with the references that `internal/markdown` finds in them), directories, links and special
objects; `Resolve` follows links along a logical path as `Resolver.Resolve` does with `EvalSymlinks`: a `Way` has the links that may
still be followed, where one stands and what is left of the path, and goes `Forward` one name or one link at a time until it has `Arrived`. `Target`
and `Escapes` are `ResolveReference`.

`PathPlan` is one call of `BuildLayout`: `Plan`, then `Assemble`. Its `status` says how far it has come.

| `status` | code | actions |
|---|---|---|
| `walk` | `PlanContext`, `WalkContext` | `VisitFile`, `VisitDirectory`, `VisitNothing`, `LeaveDirectory` for each path; `stack` holds the frames of `walkDirectory`, each with the names it has left, which are taken in the order of `ReadDir` (`First`); `EndWalk` |
| `discover` | `DiscoverDependenciesContext` | `Read` a document of the wave (`todo`), `Follow` each of its references (`FollowFile`, `FollowNoFile`, `FollowNowhere`, `Ignore`), and `EndWave`, when the `claims` become owned |
| `settle` | the rest of `Plan` | `Settle`: no files, entrypoints, locales (`ClassifyLocales`, `resolveLocalePlans`), empty locales and components |
| `assemble` | `buildComponentBlob`, `BuildTar` | `BeginBlob`, `ResolveSource` path by path, `WriteEntry` entry by entry, `EndBuild` |
| `built`, `failed` | `Assemble` and `Plan` return | |

`result` is the `Ownership`, `warnings` the references that led to no file, `entry` the entrypoints, `locales` the `LocalePlan`s.
A locale classifies documents its component already owns and adds none; its entrypoint is its own, the component's, or a
detected one (`LocaleEntrypoint`), and a declared one that it does not have is an error (`Astray`). `ArtifactConfig` is what the config
blob says of the plan. `BuiltVerifies` holds it against the packed files by the rules of `artifact.Verify`.
The code reads documents and references in sorted order; the model takes any order, so that what is checked does not hang on it. `Cancel` is the
context, looked at before every step, and `Edit` somebody who changes the tree, after which `steady` is
false. The rules of a configuration are the sets of paths that match, a library's business.

What a build should find is defined apart from the waves: `Within[n]` holds the files that lie at most
`n` references behind a file of a component, `Nearest` the component that is fewest references
away. `Saturated` (in the proofs) is closure under references.

### Unpack: `List`, `Extract`, `Verify`, `Diff`

One call (`job`) over the layers of a manifest. `layers[i].content` is what the descriptor of layer `i` names, `blob[i]` what its
blob yields now: a tar with its entries, an end (`eof`, `broken` between two entries, `cut` in the last one) and a tail after
it, or something that cannot be decompressed, or no blob. `phase` is `scan`, `extract` or `verify`, `status` how far the
layer `at` is: `opening`, `reading`, `writing` (its file is open), or the call has `ended`. `dest` is the destination.

| code | actions |
|---|---|
| `OpenComponent`, `compression.NewReader` | `OpenLayer` |
| `archive.Scan` | `ScanEntry` for each tar entry, `EndLayer` (`drain`, `finishComponentStream`) |
| `List`, `Extract` between its readings | `EndScan` |
| `archive.ExtractContext` | `CreateFile` (limits, `ensureDirectoryPath`, `ensureSafeTarget`, the new file), `WriteFile`, `CopyFails` or `CloseFails` for each entry, `EndLayer`; `EndExtract` |
| `verifyComponentsDeep` | `VerifyEntry` for each tar entry, `EndLayer`, `EndVerify` (entrypoints, collisions, locales) |
| `Diff`, `diffComponentFiles` | the components that differ are scanned, first of one artifact, then of the other, as `List` does; then `EndDiff` (fingerprints, metadata, locales) |
| the verifying reader | `EndLayer` at the end, or `FindMismatch` before, since decompressors read ahead |
| reads, contexts | `ReadFails`, `Cancel` |

`Trouble` is what cannot go on: an error for `List` and `Extract`, an issue for `Verify`, which goes on with the next layer. The
three readers compare the same limits in ways of their own (`Over`, `OverNow`, `TailOver`), and so does the model. `Alter`
is anybody who changes a blob, at any moment and also before the call (`Init`). A component is opened by its type
(`FirstOf`), so that of two layers of one type the first is read twice. The two artifacts of a `Diff` are
the layers of sides "a" and "b"; which of them it opens is decided by their descriptors (`ContentChanged`) before any is
read, and `MetadataOnly` opens none, for `Diff` and for `Verify`.

## The runs

| run | bounds | question |
|---|---|---|
| `store_lock` | 4 calls on 2 handles | mutual exclusion, leaks, refinement of `Mutex`, progress with and without deadlines |
| `store_mutators` | 3 calls on 2 handles, 2 documents sharing their config, 2 origins, one of rot and damage, 1.1 million states | commits, removals, prunes and repairs against each other: `CommittedIsListed`, `PruneExact`, `VerifiedAgrees`, `OriginsKept`, `UnreadableCatalogKept`, types |
| `store_faults` | the same calls and readers, one crash or interruption, 4.3 million states | `IndexClosed`, `StableDocumentsVisible`, `TornStoreKept` |
| `store_lost_commit` | one crash | finding 1 |
| `store_lost_origins` | one interruption | finding 2 |
| `registry_writers` | 2 clients with four calls each on their menus, 2 attachments of one slot, a standalone manifest, 1 failure, 3.7 million states | `AttachedIsListed`, `PruneLeavesOne`, `ReplaceGuard`, `PruneSparesPrimary`, types |
| `registry_readers` | 2 clients, 1 failure, 1.8 million states | `SteadyPrimaryWins`, `NotFoundMeansAbsentAtRest` |
| `registry_vanished` | 2 clients, no failure | finding 3 |
| `install` | `MCPull`: 3 calls, 2 failures, any death; one of the calls fetches, from a source with two documents that share a layer and an image, which changes once; 1.6 million states (55 thousand without the fetching) | `NothingLost`, `RestoredAtRest`, `ArchiveResultTrue`, `KeepsExisting`, `PulledWhole`, and that the destination is never incomplete (`TypeOK`) |
| `install_crash` | 3 calls, any death | finding 4 |
| `path_plan` | 2 components, trees of up to 7 places, 1,200 of them steady and 3 that are edited once, 13 configurations, 5 of them with locales, 751 thousand states | `OneOwner`, `BundleClosed`, `PlanIsNearest`, `FailuresAreReal`, `BuiltVerifies`, `Terminates`, types |
| `unpack` | 25 bundles of up to 2 components and 3 files, 11 destinations, limits set or not, and 57 pairs of bundles to compare, one altered blob before the call and one during it, any failure, 2.5 million states | `GivesWhatIsNamed`, `DestinationSound` (`KeepsWhatWasThere`, `NoPartialFiles`), `RefusesBeforeWriting`, `SucceedsWhenItCan`, `VerifyIsRight`, `DiffIsExact`, types |

Why the bounds are enough. Two handles with two calls on one of them meet both locks; the
fourth call lets one wait for a lock while a third dies. Two documents that share a blob are what a
prune, a removal and a commit can quarrel about; a third adds no new kind of sharing.
One crash at every step is every crash, since what a crash leaves is the state
that the next call starts from, and a worker makes any number of calls. Two clients of a registry suffice for
every pair of requests in every order, and each repeats its calls; the
theorems below cover more. Layouts need the third call of `install`: one moves the old layout away, one takes
its place, and one moves that away in turn. One call of the three fetches (`Pullers`), since fetching calls do
not touch each other; the other two are interchangeable (`SYMMETRY Others`). One change of the source (`MaxChanges`), at any moment
of the call before it has written, is a tag that moves or a blob that vanishes before or after it was asked for, and an answer may
be wrong at every request; `PulledGraphsAreWhole` covers any number.

The trees of `path_plan` have three documents and a picture, enough for a chain of two waves, for two components that
reach a file in one wave or in different ones, and for cycles of references; a directory that a link repeats, contains or leaves;
two names that differ in case. A directory is at most two names deep, so that `MaxDepth` = 3 names cover every
logical path of a tree without cycles; `MaxLinks` = 8 stands for the 255 links of `EvalSymlinks`, with one or two links
in a tree. The locales have assets among their rules, an entrypoint of their own, one declared default or none, and may be empty.
One edit at any moment, of any place, is what a plan can be wrong about: each path is read once for the plan and
twice for the archive.

The bundles of `unpack` are each sound in all respects or unsound in one: a limit passed by one (`Limits` are 2 files, 2 bytes a file, 3
in all, or set otherwise), a tail that fits alone but not with the entries, a device, a name that is refused, two equal paths, paths
that collide between components, by case or as directory and file, a tar that breaks, two layers of one type.
The destinations have a file, a link, a device or a directory where a file or one of its directories goes, or in place of the
destination itself, on file systems that fold case or do not. A blob altered before the call meets both readings,
one altered during it tells the first from the second. The pairs that `Diff` compares have a component on both sides or on one, equal,
changed, added, removed and duplicated files, two layers of one type, and other entrypoints, locales and annotations.

Deadlock is checked except in `install`, `install_crash` and `path_plan`, where every call is made once and ends. In `unpack` a call that
has ended stutters (`Done`), so that what is checked is that no call gets stuck before.

### Fairness

`PathPlan` assumes weak fairness of its steps: a goroutine that can go on does. Nobody has to
cancel or to edit. `Terminates` then says that the waves and the walk end, whatever cycles the tree has.

`StoreLock` has liveness under `LockFairness`: weak fairness of acquiring the channel and
the lock file when they are free, and of leaving. The runtime serves a
goroutine that can go on, and the poll of `flock` tries again for ever; neither queues, so
strong fairness would be a promise nobody gives, and a call without
a deadline can starve. `PollingIsNotStuck` says what is left: while a call polls for the
file lock, some call gets inside or the polling ends. `DeadlineSuffices` takes the deadline
(`HasDeadline`: the abandoning steps are fair) as a hypothesis of the property and not of the
specification, since callers need not have one.

## What is proved

For any number of calls, handles, documents, attachments, slots and faults, for any tree and configuration, from the
assumptions named `LockAssumption`, `StoreAssumption`, `RegistryAssumption`,
`InstallAssumption`, `PlanAssumption`, `UnpackAssumption` and `JobsAssumption` (constants have their types, names are distinct, a registry
holds finitely many attachments, a tree has finitely many places, of which fewer than `MaxDepth` are directories before it is edited, the places of a
destination are closed under prefixes and folding of case, limits are not negative):

- `StoreLockProofs`: `LockInvariant`, then `Exclusion`, `NoLeak` and `Refinement` (every step of the
  protocol is a step of `Mutex` or none). The invariant says for every stage who holds the channel and the file lock;
  mutual exclusion alone is not inductive, as it says nothing of who is about to enter.
- `StoreProofs`: `StoreInvariant`, then `TypeCorrect`, `IndexAlwaysClosed`, `StableAlwaysVisible`,
  `PruneAlwaysExact` and `TornStoreIsKept`, under every fault. The argument: `fn` runs under the lock only,
  so a step of one call disturbs no other call inside, and the handle's copy of the
  index is the file, or what the file is about to be (`MemoryFresh`); inside `fn`, past `Refresh`, the file is torn only while the holder itself is writing it
  (`TornByHolder`), so that nothing is deleted, indexed or recorded by a torn index. A commit at a step has pushed everything before it
  (`GraphPushed`), a prune keeps what the index reaches (`MarkExact`), and a document
  that is intact and indexed during a whole call without the lock loses nothing (`StableIntact`); such a call misses it only if it has read a torn index, and
  once the document is open it is read to its end. The steps
  that only move one call on are dealt with once, by `QuietStep`.
- `StoreCatalogProofs`: `UnreadableIsKept`; and where calls neither die nor stop half-way, `CommitsAreListed`
  (needs `ManifestsIndexed`: a manifest on disk is indexed, which is what a crash breaks), `VerifyAlwaysAgrees` and
  `OriginsAreKept` (need `ViewFresh`: the records a call has read are those of the file, and `IntactFound`: a repair has met every intact root).
  The hypotheses are constants (`FaultKinds`), and findings 1 and 2 show that they are needed.
- `RegistryProofs`: `RegistryInvariant`, then `TypeCorrect`, `ReplaceIsGuarded`,
  `PruneSparesThePrimary` (of both deletions, the registry's own and that of a registry without the referrers API) and `PublicationsAreListed`. `LookedUp` keeps what an
  attachment has found at the tag, `PrimaryKnown` and `PrimaryPlanned` what a prune knows of it;
  both speak of calls during which the tag did not move. `IndexCurrent`, `ListedBeforeTag` and
  `AckedInFallback` follow an edit of the fallback index from its reading to the end of the call.
  Then `SelectionInvariant`, with `PrimaryWins`, `NotFoundIsTrue` and `PruneLeavesAtMostOne`: what was listed all along and is wanted
  has been found or is still to be loaded, and can be loaded while nothing is deleted (`ReferrersKnown`); and of what lasted in
  the slot of a prune, all but one are in its plan, or were deleted (`RestPlanned`). The three answers are conjuncts of the invariant, as
  a `Detach` goes on from the selection it has made.
- `InstallProofs`: `InstallInvariant`, then `TypeCorrect`, `NothingIsLost`, `ResultsAreTrue`,
  `ExistingIsKept` and `RestoredOnceAtRest`. The last one needs more than a count of failures: where something was and
  nothing is, some call is about to install, or the one that failed is about to restore (`RefillUnderWay`). `NothingLost` needs to know that the backup a call throws out is not what was placed last
  (`InPlace`), and for that that a result is placed once only (`Copies`).
- `PullProofs`: `PullsInstall`, every behaviour of `Pull` is one of `Install`, so that the theorems above hold of it; and
  `PulledGraphsAreWhole`, by `PullInv`: the directory of a call and the parts it has left are together the graph of its root
  (`Growing`), the root is one its reference has named (`seen`), and what is written has been fetched to the end (`FetchedFirst`).
- `PathPlanProofs`: all that the run `path_plan` checks but termination, and one theorem more. `EveryFileHasOneOwner`, `BundlesAreClosed`, `PlansAreLeast` and
  `BuildsVerify` use nothing of what a path leads to. Ownership
  needs `Claimed`: claims are of files that nobody owns, and the walk gives a file to all that match it. Closure
  needs `Scanned`: until a wave ends, a reference of an owned document is owned, claimed, ignored or warned of, or still to be
  read; and `LeastInv` says that all that is owned, claimed or read lies in every saturated set, so that a plan is the least
  one. `Packed` follows each path of a blob from the plan through its resolution into the archive, `Entered` and `Localised` keep what `Settle` has found out of entrypoints and locales.

  `BuildsAreTyped`, `PlansAreNearest` and `RefusalsHaveReasons` do look at the tree, through any links:
  - `EvalUnfolds`: the recursion of `Resolve` has a value, since a way that goes on has fewer links or fewer names before it
    (`WayInduction`). What it arrives at is typed, and is a `Real` place, one that no link leads to (`ResolveEnds`); a real place is reached as it
    stands, so that `Lstat`, which follows the parents wherever they lead, sees the file that was found and nothing else (`FileIsSeen`, which `BuildsAreTyped` and `FoundInv` do with: no file of a steady build is gone).
    Below a file lies nothing (`FileIsLeaf`), and what a directory does not list leads nowhere, however long the path (`ListingIsComplete`).
  - `Walked`: the frames of the walk are at places of their own, each below the one before (`Chained`), so that there are no more of them than directories
    (`SmallDepth`); a file is sorted as the rules say or lies below a name that some frame has left (`Covered`). Hence the walk meets every
    file, no path is longer than `MaxDepth`, and a cycle that is reported is one.
  - `FilesAreFinite`, `WithinUnfolds` and `NextWave` say what the waves of the definition `Within` are. `Ranked(n, result)`: the files owned are those of the first n waves, each of
    the component that came alone when the file came first; `Awaited`: where an owned document leads is owned, claimed for its owner, or has to be read. Then the claims at the end of a
    wave are what the next one of `Within` adds (`ClaimsAreNext`), two claims of a file are a tie (`ContestedIsTie`), and after a wave
    without claims no later one adds a file (`LastWave`). `Ranked` alone is not inductive: that a component has passed through a document another one owns is
    harmless only because the owner has come first, and so has what it leads to (`OwnersComeFirst`).

- `UnpackProofs`: all that the run `unpack` checks, for any components, limits, alterations, failures and destinations:
  `DestinationIsSound`, `ReadsWithinLimits`, `SuccessGivesWhatIsNamed`, `RefusesFirst`, `SucceedsExactlyWhenItCan`,
  `VerdictIsRight` and `DifferencesAreExact`. The argument, one invariant upon the other:
  - `DestinationInv`. What a destination keeps is not inductive alone: a place found empty must have been empty before the call
    (`Standing`; a failed copy removes an old file, but it also ends the call), and the file being written must be one that may be there
    (`Allowed`).
  - `GivingInv`. A stream that is not what its descriptor names ends in a failure, or for Verify in an issue; so the rest is said of
    calls that go on with what is named (`Going`), and the steps that keep a call so are eight (`Advances`). For these, `Records(f)` pairs what is listed with the entries
    passed, one to one and those of a layer in order, and `Written` and `Laid` say the same of the second reading: as nothing collides,
    a file that was written is neither overwritten nor made a directory (`PlacesApart`).
  - `AdmissionInv`. The scan compares before it counts and the extraction after; the bytes counted are the running totals of the
    entries (`Summed`), so that what the scan has let pass is sound and fits (`Admitted`), and what fits meets no refusal
    (`NothingRefused`). In a steady layout the second reading meets the same content (`Agreed`).
  - `SuccessInv`: what an extraction finds free was free (`Fitted`), and where there is room all that it needs is free
    (`RootIsFree`, `FileHasRoom`). `VerdictInv`: an issue is never forgotten (`Issued`), and the files of the config are those listed
    (`FilesAreListed`). `Diffed`, with `FingerprintsAreNamed`: the last entry of a path listed is the last one named, which is what the order in `Records` is for.

The theorems of the library that prove by induction take an operator as a parameter, which the provers here cannot do. What is proved of
the sums of sizes, of `Resolve` and of `Within` goes by the least element of a set of counterexamples instead (`SmallestExists`, `SetInduction`,
`WayInduction`), and that such a function exists is proved as well.

Only model-checked: liveness (`PollingIsNotStuck`, `DeadlineSuffices`, `Terminates`), as the prover has no rule for
fairness here. Every invariant and action property of a run that passes is a theorem. The inductive invariants of `PathPlan` speak of all
paths and of waves of any number, which TLC cannot enumerate; what it checks is what follows from them.

## Findings

1. A crash between the blob of a manifest and the index makes later commits of the document
   succeed without listing it: `pushIfMissing` skips the push that would index
   it (`store/commit.go:161`), against "Commit copies source's complete graph into the store"
   (`store/commit.go:29`, `:53`). Run `store_lost_commit`.
2. A repair that cannot read one root writes a catalog without it, and its origins are gone
   although the document is intact (`store/maintenance.go:92`). Run `store_lost_origins`.
3. A manifest deleted after it was listed and before it is loaded makes discovery report
   `ErrNotFound` although another attachment that matches was there throughout
   (`registry/discovery.go:254`). Run `registry_vanished`.
4. `replaceDirectory` "atomically installs" a layout with two renames; a process that dies between them
   leaves no layout at the destination (`registry/copy.go:365`). Run `install_crash`.

Remarks without a run of their own:

- `Documents`, `OpenDocument` and `Open` take no lock, and oras-go rewrites `index.json` in place: while a commit or a removal
  does (`store/commit.go:165`, `store/remove.go:34`), they may fail on half a file, or miss a document that was there all along. The changelog
  says that "local-store commits and metadata updates now coordinate concurrent handles and publish files atomically" (`CHANGELOG.md:33`), and
  `withCatalogLock` that the content store is what "oras-go already gets right" (`store/store.go:115`). How oras-go v2.6.2 writes
  the file is not in the repository. `Glimpses`, `OpenFails` and the result `unreadable` have it; `StableDocumentsVisible` says what is left to promise.
- A process that dies in that rewriting, or a disk that is full, leaves an `index.json` that nothing parses: `Open`, `Documents` and every call under the
  lock fail from then on, a repair too (`store/store.go:149`, `store/maintenance.go:242`). What is on disk stays as it is (`TornStoreKept`).
- `extractFile` promises "removing a partially written file on any error" (`internal/archive/extract.go:214`), and leaves it when `Close`
  fails (`internal/archive/extract.go:250`). `NoPartialFiles` has this as a condition, and says that it is the only way.
- A Markdown link to the root directory itself (`/`, or `..` in a document of `docs/`) ends a build as an escape from the
  root, also one that is not strict (`internal/sourcepath/resolver.go:133`), where "missing and non-file local targets produce
  deterministic warnings unless Strict is set" and root escapes only are fatal
  (`internal/pathplan/dependencies.go:43`). `FollowNowhere` has it as the code does. A reference that continues below a regular file (`guide.md/x`) is fatal too, since the
  system calls it no directory rather than missing. Whether such a target is "missing" nobody says.
- With `Overwrite`, a copy that fails takes the old file with it (`internal/archive/extract.go:245`; `KeepsWhatWasThere` allows it).
- A component that cannot be decompressed, or whose tar breaks off, is not drained although a comment says that "its digest is
  verified regardless" (`artifact/verify.go:253`). The verdict is the same, as there is an issue already.
- `DiffOptions` says that `Component` "restricts the comparison to one component", but annotations, schema version, subject and the
  locales of all components are compared with it too (`artifact/diff.go:154`, `:239`).
- `BuildLayout` promises that "a failed build never leaves a partially-named blob behind" (`artifact/layout.go:50`), but writes the manifest
  straight to its digest's name (`artifact/layout.go:150`); a write that fails half-way leaves part of it there. `BuildArchive` and
  `BuildReader` throw the directory away.
- The default locale is the one declared, or else the first key in order, also if that locale has no documents
  (`artifact/plan.go:248`); "exactly one locale is normally marked default" holds all the same.
- `Usage` walks `blobs/` without the lock and fails when a prune removes a file between the listing and its `stat` (`store/usage.go:35`);
  it changes nothing.
- `Verify` counts no tail of a tar against the limit of the total, the other readers do (`TailOver`).

Two races are not findings, as nothing promises otherwise, and stand as conditions of
properties. Two `Attach` calls without `Replace` may both find no tag, and the later one
then moves it (`ReplaceGuard`: "if the tag did not move after the call began"). Two edits of a fallback
index that overlap may lose one (`AttachedIsListed`: "unless overlapped").

## What is not modelled, and why

- Registry: the resolution of a subject always succeeds; blobs arrive with their manifest;
  `Tag` is one request, though oras-go fetches the manifest and puts it again; a request whose
  effect happened and whose answer was lost is not distinguished from one that failed before, except
  that the call may fail at every later step; subjects other than the one. Garbage collection is the registry's business.
- Store: the first `Open` of a new directory, for which oras-go writes an empty `index.json` without the lock, so that a commit made meanwhile may be overwritten: the model starts
  where there is an index. `Usage` changes nothing in the store. The 16 MiB limit of the catalog and the JSON text are data. `path.go` reads the environment.
- Install, Pull: what a call does not fetch (an archive that is built) is staged in one step; fetching that is cancelled is a failure
  like any other, and is bounded with them; a destination of the other kind (a file where a
  layout goes) is not considered.
- `internal/markdown`, `compression`, `ociclone`, credentials, schemas: text or bytes in, text or bytes out, or libraries.
- Plan: the loading and merging of configurations (values from two sources, no state), annotations, names that are
  invalid in themselves, compression. `BuildLayout` writes its files, the index last, into a directory that
  nobody else uses (a temporary one, but for direct callers), as `Pull`'s calls do. Listing a directory, reading a document, and `Lstat` and copy of a file
  are one step each, so that a file whose size changes while it is copied is not considered.
- Unpack: media types, annotations and subjects (one value stands for those that `Diff` compares), the order of a list, directories of a layout, permissions of
  files, others who write to the destination. The content of a blob is taken when it is opened; a blob that changes while it is read is
  one that had the mixture from the start.
- Copying from registry to registry or from subject to subject is `Discover`, `Open` and `Attach` in a row: the first two change nothing, and the
  third is `Registry`'s, with the manifest `Discover` found.

## Plan

Done: `Mutex`, `StoreLock`, `Store`, `Registry`, `Install`, `Pull`, `BundlePaths`, `SourceTree`, `PathPlan` with its locales, `Unpack` with its
comparisons, and their proofs, most important first: the store is the state the library owns, the registry the one it shares, the
destination the one the user sees, the plan decides what a document holds, and its readers whether that arrives.

Next, as far as it says something new: that a plan depends on the tree and the rules only, not on the order of documents (it follows from `PlansAreNearest`
for plans, not for warnings); a measure that every step of the walk and of the waves lowers, which is the part of `Terminates` that
can be said without fairness; and the call of `BuildLayout` around `Assemble` (`artifact/layout.go`), whose files `Install` takes as one.
