------------------------------ MODULE MCRegistry ------------------------------
(***************************************************************************)
(* Three attachments, a and b of one slot and c of another, a standalone   *)
(* manifest p, and two clients.                                            *)
(***************************************************************************)
EXTENDS Registry, TLC

CONSTANTS w1, w2, a, b, c, p, x, y

MCSlotOf == [m \in Attached |-> IF m = c THEN y ELSE x]

A(op, m, mode, force, strict, slots, digest) ==
  [op |-> op, m |-> m, tag |-> "doc", mode |-> mode, force |-> force, strict |-> strict,
   slots |-> slots, digest |-> digest]

AttachA == A("attach", a, "both", FALSE, FALSE, {}, NoManifest)
AttachB == A("attach", b, "both", TRUE, FALSE, {}, NoManifest)
ListB == A("attach", b, "referrer", FALSE, FALSE, {}, NoManifest)
PushDoc == A("push", p, "tag", TRUE, FALSE, {}, NoManifest)
RemoveDoc == A("remove", NoManifest, "tag", TRUE, FALSE, {}, NoManifest)
RemoveA == A("remove", a, "tag", TRUE, FALSE, {}, NoManifest)
PruneX == A("prune", NoManifest, "both", TRUE, FALSE, {x}, NoManifest)
PruneKeepingB == A("prune", NoManifest, "both", TRUE, FALSE, {x, y}, b)
DiscoverX == A("discover", NoManifest, "both", FALSE, FALSE, {x}, NoManifest)
DiscoverReferrer == A("discover", NoManifest, "referrer", FALSE, FALSE, {x, y}, NoManifest)
DetachX == A("detach", NoManifest, "both", TRUE, FALSE, {x}, NoManifest)
DetachDry == A("detach", NoManifest, "tag", FALSE, FALSE, {x}, NoManifest)

\* Two clients that publish, remove and prune.
MenuWriters == (w1 :> {AttachA, PushDoc, RemoveDoc, PruneX})
                 @@ (w2 :> {AttachB, ListB, RemoveA, PruneKeepingB})

\* One that publishes, removes and prunes, and one that discovers and detaches.
MenuReaders == (w1 :> {AttachA, AttachB, PruneX})
                 @@ (w2 :> {DiscoverX, DiscoverReferrer, DetachX, DetachDry})
==============================================================================
