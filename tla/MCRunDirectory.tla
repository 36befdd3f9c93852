--------------------------- MODULE MCRunDirectory ---------------------------
(* Instances of RunDirectory for TLC.                                      *)
EXTENDS RunDirectory, TLC

Symmetry == Permutations(Processes) \union Permutations(Recipes)
=============================================================================
