--------------------------- MODULE MCPlanDispatcher ---------------------------
(* Small instances of PlanDispatcher.  Plans and request identifiers are      *)
(* interchangeable, so safety runs may identify states up to permutation.     *)
EXTENDS PlanDispatcher

Symmetry == Permutations(Plans) \cup Permutations(Requests)

=============================================================================
