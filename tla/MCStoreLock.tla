----------------------------- MODULE MCStoreLock -----------------------------
(***************************************************************************)
(* Two processes with one handle each: two calls run on each.              *)
(***************************************************************************)
EXTENDS StoreLock

CONSTANTS w1, w2, w3, w4, h1, h2

MCWorkers == {w1, w2, w3, w4}
MCHandles == {h1, h2}
MCHandleOf == [w \in Workers |-> IF w \in {w1, w2} THEN h1 ELSE h2]
==============================================================================
