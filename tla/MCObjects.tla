------------------------------ MODULE MCObjects ------------------------------
(* Module Objects on two objects, or on one object whose file may have a      *)
(* length that was never synced.                                              *)
EXTENDS ObjectsRefinement, FiniteSets, TLC

Focus ==
  \/ Cardinality(minted) <= 1
  \/ \A o \in Object : synced[o] = size[o] /\ unproven[o] = 0

Symmetry == Permutations(Object) \cup Permutations(Name)
=============================================================================
