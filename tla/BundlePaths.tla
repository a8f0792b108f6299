------------------------------ MODULE BundlePaths ------------------------------
(***************************************************************************)
(* The paths of a bundle, and when two of them collide                     *)
(* (spec.ValidateBundlePaths).                                             *)
(***************************************************************************)
EXTENDS SequencesExt

CONSTANTS Names,    \* file names
          Lower     \* Lower[n]: n in lower case

Path == Seq(Names)

Folded(path) == [i \in DOMAIN path |-> Lower[path[i]]]

\* One path equals or lies below another, but for case; paths[i] are the paths that i lists.
Collision(paths) ==
  \E i, j \in DOMAIN paths : \E p \in paths[i], q \in paths[j] :
    /\ <<i, p>> # <<j, q>>
    /\ IsPrefix(Folded(p), Folded(q))
===============================================================================
