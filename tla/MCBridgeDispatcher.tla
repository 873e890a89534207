-------------------------- MODULE MCBridgeDispatcher --------------------------
(* Small instances of BridgeDispatcher.  Request identifiers and workers are  *)
(* interchangeable: Init and Next treat every one alike and no property names *)
(* one, so safety runs may identify states up to their permutations.          *)
EXTENDS BridgeDispatcher

Symmetry == Permutations(Ids) \cup Permutations(Workers)

=============================================================================
