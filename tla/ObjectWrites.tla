---------------------------- MODULE ObjectWrites ----------------------------
(***************************************************************************)
(* The mutating tools that change one object of the management cluster     *)
(* (pkg/capi/client.go, providers.go and their MCP handlers), run by       *)
(* concurrent tool calls against one Kubernetes API server.                *)
(*                                                                         *)
(* Every call to the API server is a step of its own; what the code does   *)
(* with an object between two such calls is local and belongs to the step  *)
(* that read it.  The client is built with client.New, without a cache: a  *)
(* Get returns the current object.  An Update carries the resourceVersion  *)
(* of the object that was read and is refused when the object has changed  *)
(* since; a Delete carries only the name.                                  *)
(***************************************************************************)
EXTENDS WritePolicy, FiniteSets

CONSTANTS
    Clusters, Machines, MachineDeployments,  \* object keys (namespace/name)
    Callers,    \* tool calls that may be in flight at the same time
    MaxFields,  \* labels, annotations and spec fields one update call assigns
    MaxVal,     \* fields range over 0..MaxVal, 0 being absent
    MaxRev      \* no call or outside edit starts beyond this revision

Keys == Clusters \cup Machines \cup MachineDeployments

ASSUME SizesAssumption == MaxVal \in Nat \ {0} /\ MaxRev \in Nat

ASSUME KeysAssumption ==
    /\ Clusters \cap Machines = {}
    /\ Clusters \cap MachineDeployments = {}
    /\ Machines \cap MachineDeployments = {}

VARIABLES
    policy,   \* Client.policy, fixed when the server starts
    rev,      \* the API server's revision counter
    store,    \* the objects the API server holds
    calls     \* the tool calls in flight, and the answer of each finished one

vars == <<policy, rev, store, calls>>

Vals == 0 .. MaxVal

\* What the tools read or write of an object: the labels and annotations
\* (managed, protected, paused, controlPlane, remediate; label is any other
\* one), the spec (specPaused, replicas, rolloutAfter; template is any other
\* field of it) and the status (ready: a Cluster's Ready condition, a
\* Machine's HealthCheckSucceeded condition).
ClusterFields == {"managed", "protected", "label", "paused", "specPaused", "ready"}
MachineFields == {"managed", "protected", "ready", "controlPlane", "remediate"}
MachineDeploymentFields == {"managed", "label", "replicas", "template", "rolloutAfter"}
Fields == ClusterFields \cup MachineFields \cup MachineDeploymentFields

FieldsOf(k) ==
    IF k \in Clusters THEN ClusterFields
    ELSE IF k \in Machines THEN MachineFields ELSE MachineDeploymentFields

Objects == [rv : Nat, f : [Fields -> Vals]]
Absent == [rv |-> 0, f |-> [x \in Fields |-> 0]]   \* no object of that name
Exists(k) == store[k] # Absent

\* Only these fields are ever assigned by a tool.
Assignable == {"managed", "protected", "label", "paused", "remediate",
               "replicas", "template", "rolloutAfter"}

\* An edit names the fields a tool assigns and their new values.
EditsOf(F) == UNION {[S -> Vals] : S \in SUBSET F}
SmallEditsOf(F) == UNION {[S -> Vals] : S \in {T \in SUBSET F : Cardinality(T) <= MaxFields}}
NoEdit == [x \in {} |-> 0]
Apply(e, f) == [x \in Fields |-> IF x \in DOMAIN e THEN e[x] ELSE f[x]]

Tools == {"capi_pause_cluster", "capi_resume_cluster", "capi_update_cluster",
          "capi_create_cluster", "capi_delete_cluster",
          "capi_delete_machine", "capi_remediate_machine",
          "capi_create_machinedeployment", "capi_scale_machinedeployment",
          "capi_update_machinedeployment", "capi_rollout_machinedeployment"}

Answers == {"none", "ok", "error", "NotFound", "Conflict", "AlreadyExists",
            "SafetyCheck"} \cup Refusals

\* pc names the API call the tool makes next.
PCs == {"idle", "get", "update", "delete", "create"}

Idle(a) == [pc |-> "idle", tool |-> "none", key |-> "none", force |-> FALSE,
            edit |-> NoEdit, base |-> Absent, answer |-> a]

\* No tool here exports credentials: that part of the policy has no say.
Init ==
    /\ policy \in {p \in WritePolicies : ~p.exposeKubeconfig}
    /\ store \in [Keys -> {Absent} \cup [rv : {1}, f : [Fields -> {0}]]]
    /\ rev = 1
    /\ calls = [c \in Callers |-> Idle("none")]
-----------------------------------------------------------------------------
(* How a call starts, goes on and ends.                                    *)

Start(c) == calls[c].pc = "idle" /\ rev < MaxRev

\* The handler returns a to its caller.
Answer(c, a) == calls' = [calls EXCEPT ![c] = Idle(a)]

Goto(c, pc, tool, k, force, e) ==
    calls' = [calls EXCEPT ![c] =
        [pc |-> pc, tool |-> tool, key |-> k, force |-> force, edit |-> e,
         base |-> store[k], answer |-> "none"]]

Local == UNCHANGED <<policy, rev, store>>

\* Mutant of GetForUpdate: the policy is not asked.
GetForUpdateUnchecked(c, tool, k, e) ==
    /\ Local
    /\ IF Exists(k) THEN Goto(c, "update", tool, k, FALSE, e) ELSE Answer(c, "NotFound")

\* ctrlClient.Get, the policy's CheckUpdate, the assignments of e in memory;
\* ctrlClient.Update comes next.
GetForUpdate(c, tool, k, e) ==
    /\ Local
    /\ \/ ~Exists(k) /\ Answer(c, "NotFound")
       \/ /\ Exists(k)
          /\ CheckUpdate(policy, store[k].f) # "ok"
          /\ Answer(c, CheckUpdate(policy, store[k].f))
       \/ /\ Exists(k)
          /\ CheckUpdate(policy, store[k].f) = "ok"
          /\ Goto(c, "update", tool, k, FALSE, e)

\* Mutant of GetForDelete: the policy is asked as for an update.
GetForDeleteAsUpdate(c, tool, k, force, safe) ==
    /\ Local
    /\ IF Exists(k) /\ CheckUpdate(policy, store[k].f) = "ok" /\ safe
       THEN Goto(c, "delete", tool, k, force, NoEdit)
       ELSE Answer(c, "error")

\* ctrlClient.Get and the policy's CheckDelete, then the tool's own check
\* (safe); ctrlClient.Delete comes next.
GetForDelete(c, tool, k, force, safe) ==
    /\ Local
    /\ \/ ~Exists(k) /\ Answer(c, "NotFound")
       \/ /\ Exists(k)
          /\ CheckDelete(policy, store[k].f) # "ok"
          /\ Answer(c, CheckDelete(policy, store[k].f))
       \/ /\ Exists(k)
          /\ CheckDelete(policy, store[k].f) = "ok"
          /\ IF safe THEN Goto(c, "delete", tool, k, force, NoEdit)
                     ELSE Answer(c, "SafetyCheck")
-----------------------------------------------------------------------------
(* The tools.                                                              *)

\* One-element edit.
Set(x, v) == [y \in {x} |-> v]

\* Mutant of PauseCluster: spec.paused is assigned, not the annotation.
PauseClusterInSpec(c, k) ==
    Start(c) /\ GetForUpdate(c, "capi_pause_cluster", k, Set("specPaused", 1))

PauseCluster(c, k) ==
    Start(c) /\ GetForUpdate(c, "capi_pause_cluster", k, Set("paused", 1))

ResumeCluster(c, k) ==
    Start(c) /\ GetForUpdate(c, "capi_resume_cluster", k, Set("paused", 0))

\* Any labels and annotations may be set, or removed with an empty value,
\* the ownership markers and the deletion protection included.
UpdateClusterArguments == SmallEditsOf({"label", "managed", "protected", "paused"})

UpdateCluster(c, k) ==
    /\ Start(c)
    /\ \E e \in UpdateClusterArguments :
          GetForUpdate(c, "capi_update_cluster", k, e)

\* CheckCreate, then the ClusterClass must exist (found).
CreateCluster(c, k, found) ==
    /\ Start(c)
    /\ Local
    /\ IF CheckCreate(policy) # "ok" THEN Answer(c, CheckCreate(policy))
       ELSE IF ~found THEN Answer(c, "NotFound")
       ELSE Goto(c, "create", "capi_create_cluster", k, FALSE, NoEdit)

\* Mutant of DeleteClusterHandler: only a failed read stops it.
DeleteClusterHandlerTrusting(c, k, force) ==
    /\ Start(c)
    /\ Local
    /\ IF ~Exists(k) THEN Answer(c, "NotFound")
       ELSE Goto(c, "get", "capi_delete_cluster", k, force, NoEdit)

\* The handler reads the status first and refuses a Ready cluster.
DeleteClusterHandler(c, k, force) ==
    /\ Start(c)
    /\ Local
    /\ IF ~Exists(k) THEN Answer(c, "NotFound")
       ELSE IF ~force /\ store[k].f["ready"] # 0 THEN Answer(c, "SafetyCheck")
       ELSE Goto(c, "get", "capi_delete_cluster", k, force, NoEdit)

DeleteCluster(c) ==
    /\ calls[c].pc = "get"
    /\ calls[c].tool = "capi_delete_cluster"
    /\ GetForDelete(c, "capi_delete_cluster", calls[c].key, calls[c].force, TRUE)

\* Without force a healthy or a control plane machine stays.
SafeToDelete(f) == f["ready"] = 0 /\ f["controlPlane"] = 0

\* Mutant of DeleteMachine: control plane machines are not special.
DeleteMachineIfUnhealthy(c, k, force) ==
    /\ Start(c)
    /\ GetForDelete(c, "capi_delete_machine", k, force, force \/ store[k].f["ready"] = 0)

DeleteMachine(c, k, force) ==
    /\ Start(c)
    /\ GetForDelete(c, "capi_delete_machine", k, force, force \/ SafeToDelete(store[k].f))

\* The handler reads the machine for its answer before the client does.
RemediateMachineHandler(c, k) ==
    /\ Start(c)
    /\ Local
    /\ IF Exists(k) THEN Goto(c, "get", "capi_remediate_machine", k, FALSE, NoEdit)
                    ELSE Answer(c, "NotFound")

\* The annotation's value is the time of the call.
RemediateMachine(c) ==
    /\ calls[c].pc = "get"
    /\ calls[c].tool = "capi_remediate_machine"
    /\ \E now \in Vals \ {0} :
          GetForUpdate(c, "capi_remediate_machine", calls[c].key, Set("remediate", now))

\* A size and a template, named or defaulted.
CreateMachineDeploymentArguments ==
    {e \in [{"replicas", "template"} -> Vals] : e["template"] # 0}

CreateMachineDeployment(c, k) ==
    /\ Start(c)
    /\ Local
    /\ IF CheckCreate(policy) # "ok"
       THEN Answer(c, CheckCreate(policy))
       ELSE \E e \in CreateMachineDeploymentArguments :
               Goto(c, "create", "capi_create_machinedeployment", k, FALSE, e)

\* The handler lists the deployments for the previous size, then scales.
ScaleMachineDeploymentHandler(c, k, n) ==
    /\ Start(c)
    /\ Local
    /\ IF Exists(k) THEN Goto(c, "get", "capi_scale_machinedeployment", k, FALSE, Set("replicas", n))
                    ELSE Answer(c, "NotFound")

ScaleMachineDeployment(c) ==
    /\ calls[c].pc = "get"
    /\ calls[c].tool = "capi_scale_machinedeployment"
    /\ GetForUpdate(c, "capi_scale_machinedeployment", calls[c].key, calls[c].edit)

\* Only the arguments that were given are assigned.
UpdateMachineDeploymentArguments == SmallEditsOf({"replicas", "template", "label", "managed"})

UpdateMachineDeployment(c, k) ==
    /\ Start(c)
    /\ \E e \in UpdateMachineDeploymentArguments :
          GetForUpdate(c, "capi_update_machinedeployment", k, e)

\* spec.rolloutAfter is now; the reason, if any, goes to an annotation.
RolloutArguments ==
    UNION {[S -> Vals \ {0}] : S \in {{"rolloutAfter"}, {"rolloutAfter", "label"}}}

RolloutMachineDeployment(c, k) ==
    /\ Start(c)
    /\ \E e \in RolloutArguments :
          GetForUpdate(c, "capi_rollout_machinedeployment", k, e)
-----------------------------------------------------------------------------
(* The write at the API server, and its answer.                            *)

\* The API server accepted the write of call c, which turned its object into
\* o.  The answer may be lost on its way: the tool then reports an error.
Accepted(c, o) ==
    /\ rev' = rev + 1
    /\ store' = [store EXCEPT ![calls[c].key] = o]
    /\ \E a \in {"ok", "error"} : Answer(c, a)
    /\ UNCHANGED policy

\* Mutant of SameVersion: the object is sent without its resourceVersion.
AnyVersion(c) == TRUE

\* The resourceVersion sent along is that of the object that was read.
SameVersion(c) == store[calls[c].key].rv = calls[c].base.rv

\* The object that was read, as the tool changed it, replaces the stored one.
Update(c) ==
    /\ calls[c].pc = "update"
    /\ Exists(calls[c].key)
    /\ SameVersion(c)
    /\ Accepted(c, [rv |-> rev + 1, f |-> Apply(calls[c].edit, calls[c].base.f)])

UpdateRefused(c) ==
    /\ calls[c].pc = "update"
    /\ \/ ~Exists(calls[c].key) /\ Answer(c, "NotFound")
       \/ Exists(calls[c].key) /\ ~SameVersion(c) /\ Answer(c, "Conflict")
    /\ Local

\* Only the name is sent along.  The finalizers of a Cluster or Machine keep
\* the object for a while, but an accepted deletion cannot be taken back: the
\* model drops the object here.
Delete(c) ==
    /\ calls[c].pc = "delete"
    /\ Exists(calls[c].key)
    /\ Accepted(c, Absent)

DeleteRefused(c) ==
    /\ calls[c].pc = "delete"
    /\ ~Exists(calls[c].key)
    /\ Answer(c, "NotFound")
    /\ Local

Create(c) ==
    /\ calls[c].pc = "create"
    /\ ~Exists(calls[c].key)
    /\ Accepted(c, [rv |-> rev + 1, f |-> Apply(calls[c].edit, Absent.f)])

CreateRefused(c) ==
    /\ calls[c].pc = "create"
    /\ Exists(calls[c].key)
    /\ Answer(c, "AlreadyExists")
    /\ Local

\* An API call that never reached the server: a timeout, a lost connection.
CallFails(c) ==
    /\ calls[c].pc # "idle"
    /\ Answer(c, "error")
    /\ Local
-----------------------------------------------------------------------------
(* Everyone else who writes to the API server: people, GitOps controllers, *)
(* the CAPI controllers.                                                   *)

OutsideEdit(k, x, v) ==
    /\ rev < MaxRev
    /\ Exists(k)
    /\ store[k].f[x] # v
    /\ rev' = rev + 1
    /\ store' = [store EXCEPT ![k] = [rv |-> rev + 1, f |-> [store[k].f EXCEPT ![x] = v]]]
    /\ UNCHANGED <<policy, calls>>

OutsideDelete(k) ==
    /\ rev < MaxRev
    /\ Exists(k)
    /\ rev' = rev + 1
    /\ store' = [store EXCEPT ![k] = Absent]
    /\ UNCHANGED <<policy, calls>>

OutsideCreate(k) ==
    /\ rev < MaxRev
    /\ ~Exists(k)
    /\ rev' = rev + 1
    /\ store' = [store EXCEPT ![k] = [rv |-> rev + 1, f |-> Absent.f]]
    /\ UNCHANGED <<policy, calls>>

ClusterTools(c) ==
    \E k \in Clusters :
        \/ PauseCluster(c, k)
        \/ ResumeCluster(c, k)
        \/ UpdateCluster(c, k)
        \/ \E found \in BOOLEAN : CreateCluster(c, k, found)
        \/ \E force \in BOOLEAN : DeleteClusterHandler(c, k, force)

MachineTools(c) ==
    \E k \in Machines :
        \/ \E force \in BOOLEAN : DeleteMachine(c, k, force)
        \/ RemediateMachineHandler(c, k)

MachineDeploymentTools(c) ==
    \E k \in MachineDeployments :
        \/ CreateMachineDeployment(c, k)
        \/ \E n \in Vals : ScaleMachineDeploymentHandler(c, k, n)
        \/ UpdateMachineDeployment(c, k)
        \/ RolloutMachineDeployment(c, k)

Continue(c) ==
    \/ DeleteCluster(c)
    \/ RemediateMachine(c)
    \/ ScaleMachineDeployment(c)
    \/ Update(c) \/ UpdateRefused(c)
    \/ Delete(c) \/ DeleteRefused(c)
    \/ Create(c) \/ CreateRefused(c)
    \/ CallFails(c)

Outside ==
    \E k \in Keys :
        \/ \E x \in FieldsOf(k), v \in Vals : OutsideEdit(k, x, v)
        \/ OutsideDelete(k)
        \/ OutsideCreate(k)

Next ==
    \/ \E c \in Callers :
          ClusterTools(c) \/ MachineTools(c) \/ MachineDeploymentTools(c) \/ Continue(c)
    \/ Outside

Spec == Init /\ [][Next]_vars
-----------------------------------------------------------------------------
Calls == [pc : PCs, tool : Tools \cup {"none"}, key : Keys \cup {"none"},
          force : BOOLEAN, edit : EditsOf(Assignable), base : Objects, answer : Answers]

\* The type invariant: what the client, its calls and the API server hold.
TypeOK ==
    /\ policy \in WritePolicies
    /\ rev \in Nat
    /\ store \in [Keys -> Objects]
    /\ calls \in [Callers -> Calls]
    /\ \A c \in Callers : calls[c].pc # "idle" => calls[c].key \in Keys

\* Versions are never reused, and a version names one state of an object.
VersionsOK ==
    \A k \in Keys : store[k].rv <= rev /\ (store[k].rv = 0 => store[k] = Absent)

\* What a call in flight has checked still holds of what it read, and what it
\* read is what the API server holds as long as the versions agree.
CallOK(c) ==
    LET b == calls[c].base
    IN  /\ b.rv <= rev
        /\ calls[c].pc \in {"get", "update", "delete"} =>
              b.rv > 0 /\ (store[calls[c].key].rv = b.rv => store[calls[c].key] = b)
        /\ calls[c].pc = "get" /\ calls[c].tool = "capi_delete_cluster" /\ ~calls[c].force =>
              b.f["ready"] = 0
        /\ calls[c].pc = "update" => CheckUpdate(policy, b.f) = "ok"
        /\ calls[c].pc = "delete" =>
              /\ CheckDelete(policy, b.f) = "ok"
              /\ calls[c].tool = "capi_delete_machine" /\ ~calls[c].force => SafeToDelete(b.f)
        /\ calls[c].pc = "create" => CheckCreate(policy) = "ok"

\* The inductive invariant: a check made on a read object remains a check of
\* the stored object until its version moves on.
ChecksStayValid == TypeOK /\ VersionsOK /\ \A c \in Callers : CallOK(c)

\* Call c changes the API server's object in this step.
Writes(c) == calls'[c] # calls[c] /\ store' # store

\* A server started with --read-only never writes: no tool call, whatever it
\* interleaves with, changes an object of the API server.
ReadOnlyNeverWrites ==
    [][policy.readOnly => \A c \in Callers : ~Writes(c)]_vars

\* The GitOps guard is checked on what a Get returned, and the object may be
\* handed to Flux, Argo CD or Helm before the Update arrives.  Even so, no
\* Update of an object that is managed at that moment is ever accepted.
GuardHoldsAtUpdate ==
    [][\A c \in Callers :
          Writes(c) /\ calls[c].pc = "update" /\ policy.gitOpsGuard
             => ~ManagedBy(store[calls[c].key].f)]_vars

\* Read-modify-write loses nothing: an Update leaves every field it did not
\* assign as it was at that moment, although it sends the whole object it had
\* read, and other calls and controllers write the object in between.
NoLostUpdate ==
    [][\A c \in Callers :
          Writes(c) /\ calls[c].pc = "update"
             => \A x \in Fields \ DOMAIN calls[c].edit :
                   store'[calls[c].key].f[x] = store[calls[c].key].f[x]]_vars

\* An object that reached Delete and has not changed since it was read was
\* neither protected nor, under the guard, managed, and a Machine deleted
\* without force was neither healthy nor of the control plane.
UnchangedIsSafeToDelete ==
    \A c \in Callers :
        calls[c].pc = "delete" /\ Exists(calls[c].key) /\ SameVersion(c)
           => LET f == store[calls[c].key].f IN
              /\ CheckDelete(policy, f) = "ok"
              /\ calls[c].tool = "capi_delete_machine" /\ ~calls[c].force => SafeToDelete(f)

\* The handler of capi_delete_cluster judges readiness on a status it read before
\* client.DeleteCluster reads the Cluster again.  Without force a Ready cluster
\* gets past that second read only if it has changed since the first.
ReadyOnlySinceRead ==
    [][\A c \in Callers :
          calls[c].pc = "get" /\ calls'[c].pc = "delete" /\ ~calls[c].force /\ SameVersion(c)
             => store[calls[c].key].f["ready"] = 0]_vars

Atomic == INSTANCE AtomicWrites WITH
    objects <- [k \in Keys |-> [there |-> Exists(k), f |-> store[k].f]],
    active <- {c \in Callers : calls[c].pc # "idle"}

\* The calls to the API server of one tool, interleaved with everyone else's,
\* amount to one atomic write that is checked when it happens.
ImplementsAtomicWrites == Atomic!Spec
=============================================================================
