--------------------------- MODULE MCResourceSets ---------------------------
(* ResourceSets for TLC: two calls, one Secret, one ConfigMap and one set. *)
EXTENDS ResourceSets, TLC

CallerSymmetry == Permutations(Callers)
=============================================================================
