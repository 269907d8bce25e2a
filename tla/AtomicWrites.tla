---------------------------- MODULE AtomicWrites ----------------------------
(***************************************************************************)
(* What the single-object tools promise, with no resourceVersion and no    *)
(* gap between reading and writing: a call in flight ends either without a *)
(* trace, or with one atomic write that the policy permits on the object   *)
(* as it is at that very moment and that touches nothing but the fields    *)
(* tools assign.  Deletes and creates promise less: only that the server   *)
(* is not read-only.                                                       *)
(***************************************************************************)
EXTENDS WritePolicy

CONSTANTS Keys, Callers, Fields, Assignable, Vals

VARIABLES
    policy,   \* the server's write policy
    objects,  \* whether there is an object of each key, and its fields
    active    \* the calls in flight

vars == <<policy, objects, active>>

Objects == [there : BOOLEAN, f : [Fields -> Vals]]

Init ==
    /\ policy \in WritePolicies
    /\ objects \in [Keys -> Objects]
    /\ active = {}

Begin(c) ==
    /\ c \notin active
    /\ active' = active \cup {c}
    /\ UNCHANGED <<policy, objects>>

Return(c) ==
    /\ c \in active
    /\ active' = active \ {c}
    /\ UNCHANGED <<policy, objects>>

\* One object changes, in a way that the caller of this operator restricts.
Changes(k) ==
    /\ objects' \in [Keys -> Objects]
    /\ \A j \in Keys \ {k} : objects'[j] = objects[j]
    /\ UNCHANGED policy

EndsChanging(c, k) ==
    /\ c \in active
    /\ active' = active \ {c}
    /\ Changes(k)

AtomicUpdate(c, k) ==
    /\ objects[k].there
    /\ CheckUpdate(policy, objects[k].f) = "ok"
    /\ EndsChanging(c, k)
    /\ objects'[k].there
    /\ \A x \in Fields \ Assignable : objects'[k].f[x] = objects[k].f[x]

AtomicDelete(c, k) ==
    /\ objects[k].there
    /\ ~policy.readOnly
    /\ EndsChanging(c, k)
    /\ ~objects'[k].there

AtomicCreate(c, k) ==
    /\ ~objects[k].there
    /\ CheckCreate(policy) = "ok"
    /\ EndsChanging(c, k)
    /\ objects'[k].there

\* Anyone else may change any one object at any time.
Environment(k) == Changes(k) /\ UNCHANGED active

Next ==
    \/ \E c \in Callers : Begin(c) \/ Return(c)
    \/ \E c \in Callers, k \in Keys :
          AtomicUpdate(c, k) \/ AtomicDelete(c, k) \/ AtomicCreate(c, k)
    \/ \E k \in Keys : Environment(k)

Spec == Init /\ [][Next]_vars
=============================================================================
