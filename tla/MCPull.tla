------------------------------- MODULE MCPull -------------------------------
(***************************************************************************)
(* Two documents that share a layer, and an image.                         *)
(***************************************************************************)
EXTENDS Pull, TLC

CONSTANTS w2, w3, first, second, image, config1, config2, shared

MCPartsOf ==
  [r \in Roots |-> CASE r = first -> {config1, shared}
                     [] r = second -> {config2, shared}
                     [] OTHER -> {}]

\* The calls whose fetching is not followed.
Others == Permutations({w2, w3})
=============================================================================
