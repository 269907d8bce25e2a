---------------------------- MODULE WritePolicy ----------------------------
(***************************************************************************)
(* The write policy of pkg/capi/policy.go, as pure operators on a policy   *)
(* and on the labels and annotations of one object.                        *)
(*                                                                         *)
(* An object's labels and annotations are the entries of a function f from *)
(* field names to naturals, 0 standing for "absent or empty".  The six     *)
(* ownership markers the code looks for differ only in the wording of the  *)
(* refusal, so they are one field, "managed".                              *)
(***************************************************************************)
EXTENDS Naturals

\* type WritePolicy struct
WritePolicies ==
    [readOnly : BOOLEAN, gitOpsGuard : BOOLEAN, exposeKubeconfig : BOOLEAN]

\* What a check answers: "ok", or the error value the refusal wraps.
Refusals == {"ErrReadOnly", "ErrManagedResource", "ErrDeletionPrevented",
             "ErrCredentialExport"}

\* ManagedBy: some Flux, Argo CD or Helm marker is set on the object.
ManagedBy(f) == f["managed"] # 0

\* PreventDeletionLabel is present, whatever its value.
Protected(f) == f["protected"] # 0

\* Mutants of check: read-only mode, or the guard, is forgotten.
checkWithoutReadOnly(p, f) ==
    IF p.gitOpsGuard /\ ManagedBy(f) THEN "ErrManagedResource" ELSE "ok"
checkWithoutGuard(p, f) == IF p.readOnly THEN "ErrReadOnly" ELSE "ok"

\* (p WritePolicy) check, the part CheckUpdate and CheckDelete share.
check(p, f) ==
    IF p.readOnly THEN "ErrReadOnly"
    ELSE IF p.gitOpsGuard /\ ManagedBy(f) THEN "ErrManagedResource"
    ELSE "ok"

CheckUpdate(p, f) == check(p, f)

CheckDelete(p, f) ==
    IF check(p, f) = "ok" /\ Protected(f)
    THEN "ErrDeletionPrevented"
    ELSE check(p, f)

CheckCreate(p) == IF p.readOnly THEN "ErrReadOnly" ELSE "ok"

CheckCredentialExport(p) ==
    IF p.exposeKubeconfig THEN "ok" ELSE "ErrCredentialExport"
=============================================================================
