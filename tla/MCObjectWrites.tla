--------------------------- MODULE MCObjectWrites ---------------------------
(* ObjectWrites for TLC: two calls in flight on one object of each kind.   *)
EXTENDS ObjectWrites, TLC

CallerSymmetry == Permutations(Callers)

Touched(K) == \E k \in K : Exists(k) \/ \E c \in Callers : calls[c].key = k

\* Clusters share nothing with Machines and MachineDeployments but the
\* revision counter: at any time only the one or the others are in use.
OneKindInUse == ~Touched(Clusters) \/ ~Touched(Machines \cup MachineDeployments)
=============================================================================
