---------------------------- MODULE MCPageCache ----------------------------
(* The references of callers are interchangeable.                          *)
EXTENDS PageCacheProofs, TLC

Symmetry == Permutations(Refs)
=============================================================================
