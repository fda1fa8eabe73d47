-------------------------- MODULE MCResilientStore --------------------------
(* ResilientStore with interchangeable operations, keys and values.          *)
EXTENDS ResilientStore, TLC

Symmetry == Permutations(Calls) \cup Permutations(Keys) \cup Permutations(Values)
=============================================================================
