------------------------------- MODULE MCStore -------------------------------
(***************************************************************************)
(* Two documents that share their config and differ in one component, and  *)
(* three calls: w1 and w2 on one handle, w3 on the handle of another       *)
(* process.  The menus say which calls each run lets them make.            *)
(***************************************************************************)
EXTENDS Store, TLC

CONSTANTS w1, w2, w3, h1, h2, d1, d2, cfg, la, lb, ra, rb

MCHandles == {h1, h2}
MCHandleOf == [w \in Workers |-> IF w = w3 THEN h2 ELSE h1]
MCConfigOf == [d \in Docs |-> cfg]
MCLayersOf == [d \in Docs |-> IF d = d1 THEN {la} ELSE {lb}]

A(op, d, o, write) == [op |-> op, doc |-> d, origins |-> o, write |-> write, deep |-> TRUE]

CommitA == A("commit", d1, {ra}, TRUE)
CommitB == A("commit", d2, {rb}, TRUE)
CommitAgain == A("commit", d1, {rb}, TRUE)
RemoveA == A("remove", d1, {}, TRUE)
PruneAll == A("prune", d1, {}, TRUE)
PruneDry == A("prune", d1, {}, FALSE)
VerifyOnly == A("verify", d1, {}, FALSE)
Repair == A("verify", d1, {}, TRUE)
RepairShallow == [Repair EXCEPT !.deep = FALSE]
List == A("documents", d1, {}, FALSE)
ReadA == A("read", d1, {}, FALSE)

\* Every mutation against every other, on one handle and across processes.
MenuMutators == (w1 :> {CommitA, RemoveA, VerifyOnly, PruneDry}) @@ (w2 :> {CommitAgain, PruneAll})
                  @@ (w3 :> {CommitB, PruneAll, Repair, RepairShallow})

\* Readers against everything that writes and deletes, where calls fail.
MenuFaults == (w1 :> {CommitA, RemoveA}) @@ (w2 :> {List, ReadA})
                @@ (w3 :> {CommitB, PruneAll, Repair})
==============================================================================
