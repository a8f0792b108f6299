-------------------------------- MODULE Mutex --------------------------------
(***************************************************************************)
(* What the store's catalog lock promises: the section it protects is      *)
(* occupied by nobody or by one call, and it is empty between one occupant *)
(* and the next.  StoreLock implements it (store/store.go, withCatalogLock).*)
(***************************************************************************)
CONSTANT Workers

VARIABLE holders

Init == holders = {}

Enter(w) == /\ holders = {}
            /\ holders' = {w}

Exit == /\ holders # {}
        /\ holders' = {}

Next == Exit \/ \E w \in Workers : Enter(w)

Spec == Init /\ [][Next]_holders
==============================================================================
