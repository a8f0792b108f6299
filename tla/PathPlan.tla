------------------------------- MODULE PathPlan -------------------------------
(***************************************************************************)
(* One build of a document from a source tree: artifact.Plan (the walk of  *)
(* the tree, the waves of dependency discovery, the entrypoints and        *)
(* locales) and then artifact.Assemble, one action per path, document or   *)
(* reference, while somebody may edit the tree.                            *)
(*                                                                         *)
(* Not modelled: annotations and settings other than strict, bytes.  A     *)
(* locale is its place in the sorted keys of its component.  A file is     *)
(* stat-ed and copied in one step.                                         *)
(***************************************************************************)
EXTENDS SourceTree

CONSTANTS
  Components,   \* declared components
  Order,        \* the names as os.ReadDir sorts them
  Markdown,     \* the names with a Markdown extension
  Prose,        \* the names of documents: Markdown, text, HTML, README and its like
  Preferred,    \* Preferred[c]: the paths an entrypoint of c is detected from, best first
  Configs,      \* build configurations to try
  Trees,        \* trees that stay as they are
  EditedTrees,  \* trees that somebody edits
  Objects,      \* what an edit may put at a place
  MaxEdits,     \* bound on edits
  MaxDepth,     \* bound on the names of a path in the properties
  NoComponent

ASSUME PlanAssumption ==
  /\ Order \in Seq(Names) /\ ToSet(Order) = Names
  /\ MaxEdits \in Nat
  /\ {MaxDepth, MaxLinks} \subseteq Nat
  /\ NoComponent \notin Components
  /\ Preferred \in [Components -> Seq(Path)]
  /\ \A given \in Configs :
       /\ given.included \in [Components -> SUBSET Path]
       /\ given.strict \in BOOLEAN
       /\ given.entry \in [Components -> Path]
       /\ \A c \in Components :
            given.locales[c] \in Seq([paths : SUBSET Path, entry : Path, default : BOOLEAN])
  /\ \A source \in Trees \cup EditedTrees :
       /\ source \in [DOMAIN source -> Object]
       /\ IsFiniteSet(DOMAIN source)
       /\ Cardinality({place \in DOMAIN source : source[place].kind = "directory"}) < MaxDepth
  /\ Objects \subseteq Object

VARIABLES
  config,    \* [included, ignored, strict, entry, locales]: rules and overrides
  tree,
  edits,     \* edits left
  steady,    \* nobody has edited the tree
  status,    \* "walk", "discover", "settle", "assemble", "built" or "failed"
  failure,   \* why the build failed
  stack,     \* walkDirectory's frames, the root first
  result,    \* Ownership
  todo,      \* Markdown documents of this wave that are not yet read, by component
  reading,   \* the document being read, with the references left
  claims,    \* what documents of this wave refer to, by component
  warnings,  \* references that lead to no file
  entry,     \* entrypoints, <<>> for none
  locales,   \* LocalePlans, by component and in the order of their keys
  packing,   \* the component whose blob is being built
  pending,   \* its paths that are not yet resolved
  sources,   \* its resolved paths that are not yet written
  packed     \* entries written, by component

walkVars == <<stack>>
planVars == <<entry, locales>>
waveVars == <<todo, reading, claims, warnings>>
packVars == <<packing, pending, sources, packed>>
treeVars == <<config, tree, edits, steady>>
vars == <<treeVars, status, failure, walkVars, result, waveVars, planVars, packVars>>

Nothing == [c \in Components |-> {}]
NoDocument == [path |-> <<>>, component |-> NoComponent, left |-> {}]

Owned(paths) == UNION {paths[c] : c \in Components}
Owners(path) == {c \in Components : path \in config.included[c]}
IsMarkdown(path) == Last(path) \in Markdown
IsDocumentPath(path) == Last(path) \in Prose
Documents(paths) == [c \in Components |-> {p \in paths[c] : IsMarkdown(p)}]
Add(paths, c, path) == [paths EXCEPT ![c] = @ \cup {path}]

Failures == {"none", "cycle", "missing", "invalid", "conflict", "collision", "gone",
             "escape", "strict", "nothing", "entrypoint", "locale", "emptyLocale", "empty",
             "cancelled"}

Ended == status \in {"built", "failed"}

\* Mutant: the error is lost.
FailSilently(why) ==
  /\ status' = "failed"
  /\ UNCHANGED <<treeVars, failure, walkVars, result, waveVars, planVars, packVars>>

\* An error returned: nothing of the build is left.
Fail(why) ==
  /\ status' = "failed"
  /\ failure' = why
  /\ UNCHANGED <<treeVars, walkVars, result, waveVars, planVars, packVars>>

------------------------------------------------------------------------------
\* sourcepath.Resolver.WalkContext under pathplan.PlanContext.

\* os.ReadDir of the directory at a place, walked under the name prefix.
Frame(prefix, place) ==
  [prefix |-> prefix, place |-> place,
   left |-> {n \in Names : At(tree, Append(place, n)).kind # "absent"}]

\* The entry that os.ReadDir sorts first.
First(names) == Order[SelectInSeq(Order, LAMBDA n : n \in names)]

Init ==
  /\ config \in Configs
  /\ \/ edits = 0 /\ tree \in Trees
     \/ edits = MaxEdits /\ tree \in EditedTrees
  /\ steady = TRUE
  /\ status = "walk"
  /\ failure = "none"
  /\ stack = <<Frame(<<>>, <<>>)>>
  /\ result = Nothing
  /\ todo = Nothing
  /\ reading = NoDocument
  /\ claims = Nothing
  /\ warnings = {}
  /\ entry = [c \in Components |-> <<>>]
  /\ locales = [c \in Components |-> <<>>]
  /\ packing = NoComponent
  /\ pending = {}
  /\ sources = {}
  /\ packed = Nothing

Top == Last(stack)
Visiting == status = "walk" /\ stack # <<>> /\ Top.left # {}
Visited == Append(Top.prefix, First(Top.left))
Advanced == Append(Front(stack), [Top EXCEPT !.left = @ \ {First(@)}])

\* A file: ignored, claimed by nobody, by one component, or by several.
VisitFile ==
  /\ Visiting /\ Kind(tree, Visited) = "file"
  /\ LET owners == IF Visited \in config.ignored THEN {} ELSE Owners(Visited)
     IN  \/ /\ \A c, d \in owners : c = d
            /\ result' = [c \in Components |->
                            IF c \in owners THEN result[c] \cup {Visited} ELSE result[c]]
            /\ stack' = Advanced
            /\ UNCHANGED <<treeVars, status, failure, waveVars, planVars, packVars>>
         \/ /\ \E c, d \in owners : c # d
            /\ Fail("conflict")

\* Mutant: a linked directory is taken for a cycle.
VisitDirectoryUnlinked ==
  LET place == Resolve(tree, Visited).place
  IN  /\ Visiting /\ Kind(tree, Visited) = "directory"
      /\ \/ /\ place # Visited
            /\ Fail("cycle")
         \/ /\ place = Visited
            /\ stack' = Append(Advanced, Frame(Visited, place))
            /\ UNCHANGED <<treeVars, status, failure, result, waveVars, planVars, packVars>>

\* A directory that is not its own ancestor is walked, under the name it was met by.
VisitDirectory ==
  LET place == Resolve(tree, Visited).place
      Ancestors == {frame.place : frame \in ToSet(stack)}
  IN  /\ Visiting /\ Kind(tree, Visited) = "directory"
      /\ \/ /\ place \in Ancestors
            /\ Fail("cycle")
         \/ /\ place \notin Ancestors
            /\ stack' = Append(Advanced, Frame(Visited, place))
            /\ UNCHANGED <<treeVars, status, failure, result, waveVars, planVars, packVars>>

\* A dangling link, a loop of links, an escape, a device: nothing is skipped.
VisitNothing ==
  /\ Visiting /\ Kind(tree, Visited) \in {"missing", "invalid"}
  /\ Fail(Kind(tree, Visited))

LeaveDirectory ==
  /\ status = "walk" /\ stack # <<>> /\ Top.left = {}
  /\ stack' = Front(stack)
  /\ UNCHANGED <<treeVars, status, failure, result, waveVars, planVars, packVars>>

EndWalk ==
  /\ status = "walk" /\ stack = <<>>
  /\ \/ /\ Collision(result)
        /\ Fail("collision")
     \/ /\ ~Collision(result)
        /\ status' = "discover"
        /\ todo' = Documents(result)
        /\ UNCHANGED <<treeVars, failure, walkVars, result, reading, claims, warnings, planVars,
                       packVars>>

------------------------------------------------------------------------------
\* pathplan.DiscoverDependenciesContext: wave after wave.

Discovering == status = "discover" /\ reading.left = {}

\* One document of the wave; the code takes them sorted.
Read(c) ==
  /\ Discovering
  /\ \E path \in todo[c] :
       \/ /\ Kind(tree, path) = "file"
          /\ reading' = [path |-> path, component |-> c, left |-> RefsOf(tree, path)]
          /\ todo' = [todo EXCEPT ![c] = @ \ {path}]
          /\ UNCHANGED <<treeVars, status, failure, walkVars, result, claims, warnings, planVars,
                         packVars>>
       \/ /\ Kind(tree, path) # "file"
          /\ Fail("gone")

\* A reference that may be packed: it stays in the root, leads somewhere, is not ignored.
Followed(ref) ==
  /\ ~Escapes(reading.path, ref)
  /\ Kind(tree, Target(reading.path, ref)) # "invalid"
  /\ Target(reading.path, ref) \notin config.ignored

Drop(ref) == reading' = [reading EXCEPT !.left = @ \ {ref}]

\* Mutant: an owned file is claimed again.
FollowFileAgain(ref) ==
  LET target == Target(reading.path, ref)
  IN  /\ Followed(ref) /\ Kind(tree, target) = "file"
      /\ claims' = Add(claims, reading.component, target)
      /\ Drop(ref)
      /\ UNCHANGED <<treeVars, status, failure, walkVars, result, todo, warnings, planVars,
                     packVars>>

\* Mutant: the document read first gets the file, at once.
FollowFileEagerly(ref) ==
  LET target == Target(reading.path, ref)
  IN  /\ Followed(ref) /\ Kind(tree, target) = "file"
      /\ IF target \in Owned(result) THEN UNCHANGED <<result, todo>>
         ELSE /\ result' = Add(result, reading.component, target)
              /\ todo' = [todo EXCEPT ![reading.component] =
                                @ \cup {p \in {target} : IsMarkdown(p)}]
      /\ Drop(ref)
      /\ UNCHANGED <<treeVars, status, failure, walkVars, claims, warnings, planVars, packVars>>

\* A reference to a file: left where it is owned, claimed otherwise.
FollowFile(ref) ==
  LET target == Target(reading.path, ref)
  IN  /\ Followed(ref) /\ Kind(tree, target) = "file"
      /\ claims' = IF target \in Owned(result) THEN claims
                   ELSE Add(claims, reading.component, target)
      /\ Drop(ref)
      /\ UNCHANGED <<treeVars, status, failure, walkVars, result, todo, warnings, planVars,
                     packVars>>

\* A missing file or a directory: a warning, or the end of a strict build.
FollowNoFile(ref) ==
  /\ Followed(ref) /\ Kind(tree, Target(reading.path, ref)) \in {"missing", "directory"}
  /\ \/ /\ config.strict
        /\ Fail("strict")
     \/ /\ ~config.strict
        /\ warnings' = warnings \cup {<<reading.path, ref>>}
        /\ Drop(ref)
        /\ UNCHANGED <<treeVars, status, failure, walkVars, result, todo, claims, planVars,
                       packVars>>

\* The resolver's errors are fatal even for ignored references.
FollowNowhere(ref) ==
  \/ Escapes(reading.path, ref) /\ Fail("escape")
  \/ /\ ~Escapes(reading.path, ref)
     /\ Kind(tree, Target(reading.path, ref)) = "invalid"
     /\ Fail("invalid")

Ignore(ref) ==
  /\ ~Escapes(reading.path, ref)
  /\ Kind(tree, Target(reading.path, ref)) # "invalid"
  /\ Target(reading.path, ref) \in config.ignored
  /\ Drop(ref)
  /\ UNCHANGED <<treeVars, status, failure, walkVars, result, todo, claims, warnings, planVars,
                 packVars>>

Follow ==
  /\ status = "discover"
  /\ \E ref \in reading.left :
       FollowFile(ref) \/ FollowNoFile(ref) \/ FollowNowhere(ref) \/ Ignore(ref)

\* Two components claim one path.
Contested == \E c, d \in Components : c # d /\ claims[c] \cap claims[d] # {}

\* Mutant: what a wave has found is not read.
EndWaveOnce ==
  /\ Discovering /\ todo = Nothing
  /\ \/ /\ Contested
        /\ Fail("conflict")
     \/ /\ ~Contested
        /\ result' = [c \in Components |-> result[c] \cup claims[c]]
        /\ claims' = Nothing
        /\ status' = "settle"
        /\ UNCHANGED <<treeVars, failure, walkVars, todo, reading, warnings, planVars, packVars>>

\* Mutant: a wave is everything owned so far.
EndWaveRestarting ==
  /\ Discovering /\ todo = Nothing
  /\ \/ /\ Contested
        /\ Fail("conflict")
     \/ /\ ~Contested
        /\ result' = [c \in Components |-> result[c] \cup claims[c]]
        /\ todo' = Documents(result')
        /\ claims' = Nothing
        /\ status' = IF todo' = Nothing THEN "settle" ELSE "discover"
        /\ UNCHANGED <<treeVars, failure, walkVars, reading, warnings, planVars, packVars>>

\* The claims become owned and are the next wave; after an empty wave the plan is complete.
EndWave ==
  /\ Discovering /\ todo = Nothing
  /\ \/ /\ Contested
        /\ Fail("conflict")
     \/ /\ claims = Nothing /\ Collision(result)
        /\ Fail("collision")
     \/ /\ ~Contested /\ (claims = Nothing => ~Collision(result))
        /\ result' = [c \in Components |-> result[c] \cup claims[c]]
        /\ todo' = Documents(claims)
        /\ claims' = Nothing
        /\ status' = IF claims = Nothing THEN "settle" ELSE "discover"
        /\ UNCHANGED <<treeVars, failure, walkVars, reading, warnings, planVars, packVars>>

------------------------------------------------------------------------------
\* The rest of artifact.Plan, which looks at the ownership only.

Set(c) == config.entry[c] # <<>>

\* pathplan.detectEntrypoint
Detected(c, files) ==
  LET first == SelectInSeq(Preferred[c], LAMBDA p : p \in files)
  IN  IF first = 0 THEN <<>> ELSE Preferred[c][first]

Entrypoint(c) == IF Set(c) THEN config.entry[c] ELSE Detected(c, result[c])

Keys(c) == DOMAIN config.locales[c]

\* pathplan.ClassifyLocales: of the documents that the component owns.
LocaleFiles(c, i) == {p \in result[c] \cap config.locales[c][i].paths : IsDocumentPath(p)}

\* The one that is declared, or the first one, though it may have no documents.
DefaultLocale(c) ==
  LET declared == SelectInSeq(config.locales[c], LAMBDA locale : locale.default)
  IN  IF declared = 0 THEN 1 ELSE declared

\* Mutant: the component's entrypoint serves every locale.
LocaleEntrypointShared(c, i) ==
  LET own == config.locales[c][i].entry
  IN  IF LocaleFiles(c, i) = {} THEN <<>> ELSE IF own # <<>> THEN own ELSE Entrypoint(c)

\* Its own entrypoint, the component's if it is of the locale, or a detected one.
LocaleEntrypoint(c, i) ==
  LET files == LocaleFiles(c, i)
      own == config.locales[c][i].entry
  IN  CASE files = {} -> <<>>
        [] files # {} /\ own # <<>> -> own
        [] files # {} /\ own = <<>> /\ Entrypoint(c) \in files -> Entrypoint(c)
        [] OTHER -> Detected(c, files)

LocalePlan(c, i) ==
  [default |-> i = DefaultLocale(c), entry |-> LocaleEntrypoint(c, i), files |-> LocaleFiles(c, i)]

\* A locale with documents declares an entrypoint that is none of them.
Astray(c, i) ==
  /\ config.locales[c][i].entry # <<>>
  /\ LocaleFiles(c, i) # {} /\ config.locales[c][i].entry \notin LocaleFiles(c, i)

Settle ==
  /\ status = "settle"
  /\ \/ result = Nothing /\ Fail("nothing")
     \/ /\ result # Nothing
        /\ \E c \in Components : Set(c) /\ config.entry[c] \notin result[c]
        /\ Fail("entrypoint")
     \/ /\ result # Nothing
        /\ \A c \in Components : Set(c) => config.entry[c] \in result[c]
        /\ \/ /\ \E c \in Components : \E i \in Keys(c) : Astray(c, i)
              /\ Fail("locale")
           \/ /\ \A c \in Components : \A i \in Keys(c) : ~Astray(c, i)
              /\ \/ /\ config.strict
                    /\ \E c \in Components : \E i \in Keys(c) : LocaleFiles(c, i) = {}
                    /\ Fail("emptyLocale")
                 \/ /\ config.strict /\ \E c \in Components : result[c] = {}
                    /\ \A c \in Components : \A i \in Keys(c) : LocaleFiles(c, i) # {}
                    /\ Fail("empty")
                 \/ /\ config.strict =>
                         \A c \in Components :
                           result[c] # {} /\ \A i \in Keys(c) : LocaleFiles(c, i) # {}
                    /\ entry' = [c \in Components |-> Entrypoint(c)]
                    /\ locales' = [c \in Components |-> [i \in Keys(c) |-> LocalePlan(c, i)]]
                    /\ status' = "assemble"
                    /\ UNCHANGED <<treeVars, failure, walkVars, result, waveVars, packVars>>

------------------------------------------------------------------------------
\* artifact.Assemble: a blob for every component, its paths resolved first and written then.

Idle == status = "assemble" /\ pending = {} /\ sources = {}

BeginBlob(c) ==
  /\ Idle /\ result[c] # {} /\ packed[c] = {}
  /\ packing' = c
  /\ pending' = result[c]
  /\ UNCHANGED <<treeVars, status, failure, walkVars, result, waveVars, planVars, sources, packed>>

\* Some order, which the code fixes.
ResolveSource ==
  /\ status = "assemble" /\ pending # {}
  /\ LET path == CHOOSE p \in pending : TRUE
         found == Resolve(tree, path)
     IN  \/ /\ found.kind = "file"
            /\ sources' = sources \cup {<<path, found.place>>}
            /\ pending' = pending \ {path}
            /\ UNCHANGED <<treeVars, status, failure, walkVars, result, waveVars, planVars, packing,
                           packed>>
         \/ /\ found.kind # "file"
            /\ Fail("gone")

\* archive.writeEntry: the file that stands at the place now, found by the kernel:
\* the resolver is not asked again.
WriteEntry ==
  /\ status = "assemble" /\ pending = {} /\ sources # {}
  /\ LET source == CHOOSE s \in sources : TRUE
     IN  \/ /\ "file" \in Lstat(tree, source[2])
            /\ packed' = Add(packed, packing, source[1])
            /\ sources' = sources \ {source}
            /\ UNCHANGED <<treeVars, status, failure, walkVars, result, waveVars, planVars, packing,
                           pending>>
         \/ /\ Lstat(tree, source[2]) # {"file"}
            /\ Fail("gone")

EndBuild ==
  /\ Idle /\ \A c \in Components : result[c] # {} => packed[c] # {}
  /\ status' = "built"
  /\ UNCHANGED <<treeVars, failure, walkVars, result, waveVars, planVars, packVars>>

------------------------------------------------------------------------------
\* The context is looked at before every step.
Cancel == ~Ended /\ Fail("cancelled")

Edit ==
  /\ ~Ended /\ edits > 0
  /\ \E place \in DOMAIN tree, object \in Objects :
       /\ object # tree[place]
       /\ tree' = [tree EXCEPT ![place] = object]
  /\ edits' = edits - 1
  /\ steady' = FALSE
  /\ UNCHANGED <<config, status, failure, walkVars, result, waveVars, planVars, packVars>>

Step ==
  \/ VisitFile \/ VisitDirectory \/ VisitNothing \/ LeaveDirectory \/ EndWalk
  \/ (\E c \in Components : Read(c)) \/ Follow \/ EndWave \/ Settle
  \/ (\E c \in Components : BeginBlob(c)) \/ ResolveSource \/ WriteEntry \/ EndBuild

Next == Step \/ Cancel \/ Edit

\* The goroutine of the build goes on; nobody has to cancel or to edit.
Spec == Init /\ [][Next]_vars /\ WF_vars(Step)

------------------------------------------------------------------------------
TypeOK ==
  /\ tree \in [DOMAIN tree -> Object]
  /\ edits \in 0..MaxEdits
  /\ steady \in BOOLEAN
  /\ status \in {"walk", "discover", "settle", "assemble", "built", "failed"}
  /\ failure \in Failures
  /\ (failure = "none") <=> (status # "failed")
  /\ stack \in Seq([prefix : Path, place : Path, left : SUBSET Names])
  /\ {result, todo, claims, packed} \subseteq [Components -> SUBSET Path]
  /\ reading.component \in Components \cup {NoComponent}
  /\ reading.left \subseteq Reference
  /\ warnings \subseteq Path \X Reference
  /\ entry \in [Components -> Path]
  /\ \A c \in Components :
       locales[c] \in Seq([default : BOOLEAN, entry : Path, files : SUBSET Path])
  /\ packing \in Components \cup {NoComponent}
  /\ pending \subseteq Path
  /\ sources \subseteq Path \X Path

Planned == status \in {"settle", "assemble", "built"}

\* A file has one owner at every moment, however claims and waves follow each other, and
\* what is planned fits into one tree, the files that references added included
\* ("a file may belong to only one component", plan.go:23; "so it is always
\* collision-free", plan.go:53).
OneOwner ==
  /\ \A c, d \in Components : c # d => result[c] \cap result[d] = {}
  /\ Planned => ~Collision(result)

\* What is packed is closed: a reference in a packed document leads to a packed file,
\* to an ignored one, or has been warned of, which a strict build never does
\* ("recursively (a discovered Markdown dependency is itself scanned)",
\* dependencies.go:33).
Closed(path, ref) ==
  LET target == Target(path, ref)
  IN  \/ target \in config.ignored
      \/ target \in Owned(result)
      \/ ~config.strict /\ <<path, ref>> \in warnings

BundleClosed ==
  Planned /\ steady =>
    \A path \in Owned(result) : IsMarkdown(path) =>
      \A ref \in RefsOf(tree, path) : Closed(path, ref)

------------------------------------------------------------------------------
\* What a build should find, said of the tree alone.  MaxDepth bounds
\* the logical paths; where no directory is its own ancestor they are no longer than
\* there are directories, and one name.

Logical == BoundedSeq(Names, MaxDepth) \ {<<>>}
Files == {path \in Logical : Kind(tree, path) = "file"}

Direct(files) ==
  {pair \in Components \X (files \ config.ignored) : pair[1] \in Owners(pair[2])}

\* What the documents of some pairs refer to, for the same components.
Reached(files, pairs) ==
  {<<pair[1], target>> : pair \in pairs, target \in files \ config.ignored} \cap
  UNION {{<<pair[1], Target(pair[2], ref)>> :
            ref \in {r \in RefsOf(tree, pair[2]) : ~Leaves(pair[2], r)}} :
         pair \in {p \in pairs : IsMarkdown(p[2])}}

\* Within[n]: each file that lies at most n references behind a file of the component.
Within ==
  LET files == Files
      Waves[n \in 0..Cardinality(files)] ==
        IF n = 0 THEN Direct(files)
        ELSE LET before == Waves[n - 1] IN before \cup Reached(files, before)
  IN  Waves

\* c is the one component that some number of references suffices for.
Nearest(waves, c, path) ==
  \E n \in DOMAIN waves : /\ <<c, path>> \in waves[n]
                          /\ \A d \in Components \ {c} : <<d, path>> \notin waves[n]

\* The plan says of every file whose it is: of the component that is fewest references
\* away, whatever else refers to it later, and of nobody if no chain of references
\* leads to it ("a dependency already explicitly owned by another component is never
\* duplicated", dependencies.go:38).
PlanIsNearest ==
  status = "settle" /\ steady =>
    LET waves == Within
        files == Files
    IN  result = [c \in Components |-> {path \in files : Nearest(waves, c, path)}]

\* Two components reach a file over equally many references, and none over fewer.
Tie(waves, path) ==
  \E n \in DOMAIN waves, c, d \in Components :
    /\ c # d
    /\ {<<c, path>>, <<d, path>>} \subseteq waves[n]
    /\ n = 0 \/ (Components \X {path}) \cap waves[n - 1] = {}

\* A directory that is met again below itself.
Cyclic ==
  \E path \in {p \in Logical : Kind(tree, p) = "directory"} : \E n \in 0..(Len(path) - 1) :
    Resolve(tree, path).place = Resolve(tree, SubSeq(path, 1, n)).place

\* A build of a tree that stands still is refused for a reason that the tree has:
\* directories that are linked twice are no cycle, components that meet later than
\* one of them owns the file are no conflict (resolver.go:164, dependencies.go:35).
FailuresAreReal ==
  steady =>
    /\ failure = "cycle" => Cyclic
    /\ failure = "conflict" => LET waves == Within IN \E path \in Files : Tie(waves, path)
    /\ failure # "gone"

\* artifact.buildArtifactConfig: of the components that own something.
ArtifactConfig ==
  [c \in {d \in Components : result[d] # {}} |-> [entry |-> entry[c], locales |-> locales[c]]]

\* What a locale says of itself agrees with the files that were packed.
LocaleHolds(locale, files) ==
  /\ locale.files \subseteq files
  /\ \A path \in locale.files : IsDocumentPath(path)
  /\ locale.entry # <<>> => locale.entry \in locale.files

\* What a build has packed is what it planned, and passes artifact.Verify in every point
\* that joins the blobs to the config, though the config speaks of the plan, the blobs
\* of the tree as it was later (a path that is gone fails the build, component.go:57),
\* and the entrypoints of locales may be declared, borrowed or detected: a blob for
\* every component of the config and no other, one tree of names, entrypoints among the
\* files, locales that list packed documents and one locale to fall back on
\* (verify.go:299; "exactly one locale is normally marked default", config.go:193).
BuiltVerifies ==
  status = "built" =>
    /\ packed = result
    /\ {c \in Components : packed[c] # {}} = DOMAIN ArtifactConfig
    /\ ~Collision(packed)
    /\ \A c \in DOMAIN ArtifactConfig :
         LET said == ArtifactConfig[c]
         IN  /\ said.entry # <<>> => said.entry \in packed[c]
             /\ \A i \in DOMAIN said.locales : LocaleHolds(said.locales[i], packed[c])
             /\ said.locales # <<>> =>
                  \E i \in DOMAIN said.locales : \A j \in DOMAIN said.locales :
                    said.locales[j].default <=> j = i

\* Cycles of links and of references end, and every build with them.
Terminates == <>Ended
===============================================================================
