------------------------------ MODULE SourceTree ------------------------------
(***************************************************************************)
(* A source tree as internal/sourcepath reads it.  A path is a sequence of *)
(* names below the root; a tree says what stands at each physical place,   *)
(* and symbolic links make logical paths that are not places.              *)
(*                                                                         *)
(* A link's destination is written from the root.  A link that leaves the  *)
(* root and a device are both "special": whatever goes through them is     *)
(* invalid to the resolver.  filepath.EvalSymlinks is external.            *)
(***************************************************************************)
EXTENDS BundlePaths

CONSTANT MaxLinks  \* the links after which EvalSymlinks gives up, 255 in Go

\* A cleaned reference goes some directories up and then down, from the root or from the
\* directory of the document.
Reference == [rooted : BOOLEAN, up : Nat, down : Path]

Absent == [kind |-> "absent"]
Special == [kind |-> "special"]
Directory == [kind |-> "directory"]
File(refs) == [kind |-> "file", refs |-> refs]   \* refs: its Markdown references
Link(to) == [kind |-> "link", to |-> to]

Object == {Absent, Special, Directory} \cup [kind : {"link"}, to : Path]
            \cup [kind : {"file"}, refs : SUBSET Reference]

At(tree, place) == IF place \in DOMAIN tree THEN tree[place] ELSE Absent

\* On the way along a path: the links that may be followed, where one stands, what is left.
Way == [links : Nat, at : Path, rest : Path]

Ahead(way) == Append(way.at, Head(way.rest))

GoesOn(tree, way) ==
  /\ way.rest # <<>>
  /\ \/ At(tree, Ahead(way)).kind = "directory"
     \/ At(tree, Ahead(way)).kind = "link" /\ way.links > 0

Forward(tree, way) ==
  LET object == At(tree, Ahead(way))
  IN  IF object.kind = "directory" THEN [way EXCEPT !.at = Ahead(way), !.rest = Tail(@)]
      ELSE [links |-> way.links - 1, at |-> <<>>, rest |-> object.to \o Tail(way.rest)]

Found(kind, place) == [kind |-> kind, place |-> place]

Arrived(tree, way) ==
  IF way.rest = <<>> THEN Found("directory", way.at) ELSE
  LET kind == At(tree, Ahead(way)).kind
  IN  CASE kind = "absent" -> Found("missing", <<>>)
        [] kind = "file" /\ Tail(way.rest) = <<>> -> Found("file", Ahead(way))
        [] OTHER -> Found("invalid", Ahead(way))

\* Resolver.Resolve: what a logical path leads to, and the place it stands at.
Resolve(tree, path) ==
  LET Eval[way \in Way] ==
        IF GoesOn(tree, way) THEN Eval[Forward(tree, way)] ELSE Arrived(tree, way)
  IN  Eval[[links |-> MaxLinks, at |-> <<>>, rest |-> path]]

Kind(tree, path) == Resolve(tree, path).kind

\* The references in the file that a path leads to.
RefsOf(tree, path) == tree[Resolve(tree, path).place].refs

\* The kinds os.Lstat may find at a place: the parents are followed, out of the
\* root as well, the last name is not.  What lies behind a special is unknown.
Lstat(tree, place) ==
  LET parent == Resolve(tree, Front(place))
  IN  CASE parent.kind = "directory" -> {At(tree, Append(parent.place, Last(place))).kind}
        [] parent.kind = "invalid" /\ At(tree, parent.place) = Special -> {"absent", "file"}
        [] OTHER -> {"absent"}

------------------------------------------------------------------------------
\* Resolver.ResolveReference.

Base(referrer, ref) == IF ref.rooted THEN <<>> ELSE Front(referrer)

\* The reference leads out of the root.
Leaves(referrer, ref) == ref.up > Len(Base(referrer, ref))

Target(referrer, ref) ==
  LET base == Base(referrer, ref)
  IN  SubSeq(base, 1, Len(base) - ref.up) \o ref.down

\* "." is refused with "..".
Escapes(referrer, ref) == Leaves(referrer, ref) \/ Target(referrer, ref) = <<>>
===============================================================================
