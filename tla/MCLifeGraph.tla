----------------------------- MODULE MCLifeGraph -----------------------------
(* Two events to record, one demo event, two changes at once.  The calls are  *)
(* interchangeable; so are the ids, which the code compares for equality only. *)
EXTENDS LifeGraph, TLC

CONSTANTS e1, e2, s1, c1, c2

MCSeeds  == <<s1>>
Symmetry == Permutations({c1, c2}) \cup Permutations({e1, e2})
=============================================================================
