--------------------------- MODULE ClusterScaling ---------------------------
(***************************************************************************)
(* capi_scale_cluster and capi_upgrade_cluster (pkg/capi/providers.go and  *)
(* client.go): calls that write a Cluster's topology, or its               *)
(* KubeadmControlPlane and MachineDeployments ("children") one after the   *)
(* other, next to the CAPI controllers, which write the same objects.      *)
(***************************************************************************)
EXTENDS WritePolicy, Integers

CONSTANTS
    MDs,        \* the MachineDeployments with the cluster's label
    Generated,  \* those that the topology controller generates, if any
    Callers,
    MaxVal,     \* replicas and versions range over 0 .. MaxVal
    MaxBegun    \* calls and outside edits that may begin

Children == {"kcp"} \cup MDs
Vals == 0 .. MaxVal
None == -1

ASSUME ScalingAssumption ==
    /\ "kcp" \notin MDs
    /\ Generated \subseteq MDs
    /\ MaxVal \in Nat \ {0} /\ MaxBegun \in Nat

VARIABLES
    policy,
    topology,    \* spec.topology is set
    cpKind,      \* the kind of spec.controlPlaneRef
    cluster,     \* the Cluster: its topology's replicas and version
    child,       \* the KubeadmControlPlane and the MachineDeployments
    running,     \* the version that the control plane's machines run
    calls,
    begun,
    asked        \* history: what accepted writes asked for and nobody revoked

vars == <<policy, topology, cpKind, cluster, child, running, calls, begun, asked>>

ClusterObjects == [rv : Nat, managed : 0 .. 1, sizes : [Children -> Vals], version : Vals]
ChildObjects == [rv : Nat, managed : 0 .. 1, replicas : Vals, version : Vals]

\* n is the replica count or the version; list is what ListMachineDeployments
\* returned and todo what is left of it; wrote are the children written.
Idle(a) == [pc |-> "idle", tool |-> "none", target |-> "kcp", n |-> 0, workers |-> FALSE,
            base |-> [rv |-> 0], list |-> <<>>, todo |-> {}, wrote |-> {}, answer |-> a]

PCs == {"idle", "status", "resolve", "updateCluster", "get", "update", "list", "workers"}
Answers == {"none", "ok", "error", "refused"}
Calls == [pc : PCs, tool : {"none", "scale", "upgrade"}, target : Children, n : Vals,
          workers : BOOLEAN, base : ClusterObjects \cup ChildObjects \cup {[rv |-> 0]},
          list : [Children -> ChildObjects] \cup {<<>>}, todo : SUBSET MDs,
          wrote : SUBSET Children, answer : Answers]

Init ==
    /\ policy \in {p \in WritePolicies : ~p.exposeKubeconfig}
    /\ topology \in BOOLEAN
    /\ cpKind \in {"KubeadmControlPlane", "other", "none"}
    /\ topology => cpKind # "none"   \* a ClusterClass names a control plane
    /\ cluster = [rv |-> 1, managed |-> 0, sizes |-> [k \in Children |-> 1], version |-> 1]
    /\ \E version \in [MDs -> 0 .. 1] :   \* a MachineDeployment may name no version
          /\ \A m \in Generated : topology => version[m] = 1
          /\ child = [k \in Children |-> [rv |-> 1, managed |-> 0, replicas |-> 1,
                        version |-> IF k \in MDs THEN version[k] ELSE 1]]
    /\ running = 1
    /\ calls = [c \in Callers |-> Idle("none")]
    /\ begun = 0
    /\ asked = [k \in Children |-> [replicas |-> None, version |-> None]]
-----------------------------------------------------------------------------
Objects == <<cluster, child, asked>>
Setup == UNCHANGED <<policy, topology, cpKind>>
Fixed == Setup /\ UNCHANGED running
Local == Fixed /\ UNCHANGED <<cluster, child, asked, begun>>

Answer(c, a) == calls' = [calls EXCEPT ![c] = Idle(a)]

Begin(c) ==
    /\ calls[c].pc = "idle"
    /\ begun < MaxBegun
    /\ begun' = begun + 1
    /\ Fixed /\ UNCHANGED Objects

\* Mutant of Allowed: only read-only mode is looked at.
AllowedUnlessReadOnly(o) == ~policy.readOnly

Allowed(o) == CheckUpdate(policy, [managed |-> o.managed]) = "ok"

\* Mutant of ScaleCluster: the child is written, topology or not.
ScaleChild(c, k, n, invalid) ==
    /\ Begin(c)
    /\ calls' = [calls EXCEPT ![c] =
          IF invalid THEN Idle("error")
          ELSE [Idle("none") EXCEPT !.tool = "scale", !.target = k, !.n = n, !.pc = "get"]]

\* GetCluster.  The topology, if there is one, is the place to write to, and
\* then the policy is applied to the Cluster.  (invalid: replicas out of range,
\* an unknown target, or no MachineDeployment named.)
ScaleCluster(c, k, n, invalid) ==
    /\ Begin(c)
    /\ IF invalid THEN Answer(c, "error")
       ELSE LET call == [Idle("none") EXCEPT !.tool = "scale", !.target = k, !.n = n]
            IN  IF ~topology THEN calls' = [calls EXCEPT ![c] = [call EXCEPT !.pc = "get"]]
                ELSE IF ~Allowed(cluster) THEN Answer(c, "refused")
                ELSE calls' = [calls EXCEPT ![c] =
                       [call EXCEPT !.pc = IF k = "kcp" THEN "updateCluster" ELSE "resolve",
                                    !.base = cluster]]

\* resolveMachineDeploymentTopologyName: a generated resource's label leads to
\* its entry in the topology; without that (the MachineDeployment is not a
\* generated one, or could not be read) there is no entry of that name, unless
\* the caller named the entry itself.
ResolveTopologyName(c, byTopologyName, found) ==
    /\ calls[c].pc = "resolve"
    /\ IF calls[c].target \in Generated /\ (byTopologyName \/ found)
       THEN calls' = [calls EXCEPT ![c].pc = "updateCluster"]
       ELSE Answer(c, "error")
    /\ Local

\* scaleClusterTopology's Update.
UpdateTopology(c) ==
    /\ calls[c].pc = "updateCluster"
    /\ cluster.rv = calls[c].base.rv
    /\ cluster' = [calls[c].base EXCEPT !.rv = @ + 1, !.sizes[calls[c].target] = calls[c].n]
    /\ asked' = [asked EXCEPT ![calls[c].target].replicas = calls[c].n]
    /\ \E a \in {"ok", "error"} : Answer(c, a)
    /\ Fixed /\ UNCHANGED <<child, begun>>

\* The workers come next, unless upgrade_workers is false.
GoOnToWorkers(call) == IF call.workers THEN [call EXCEPT !.pc = "list"] ELSE Idle("ok")

\* The handler reads the cluster's status first, for its answer.
UpgradeClusterHandler(c, v, workers) ==
    /\ Begin(c)
    /\ calls' = [calls EXCEPT ![c] = [Idle("none") EXCEPT
          !.pc = "status", !.tool = "upgrade", !.n = v, !.workers = workers]]

\* Mutant of UpgradeCluster: the workers come first.
UpgradeWorkersFirst(c) ==
    /\ calls[c].pc = "status"
    /\ calls' = [calls EXCEPT ![c] = GoOnToWorkers(calls[c])]
    /\ Local

\* UpgradeCluster's Get of the Cluster and what its controlPlaneRef leads to.
UpgradeCluster(c) ==
    /\ calls[c].pc = "status"
    /\ IF ~Allowed(cluster) THEN Answer(c, "refused")
       ELSE IF cpKind = "other" THEN Answer(c, "error")
       ELSE IF cpKind = "none" THEN calls' = [calls EXCEPT ![c] = GoOnToWorkers(@)]
       ELSE calls' = [calls EXCEPT ![c].pc = "get"]
    /\ Local

\* ScaleControlPlane, ScaleMachineDeployment and UpgradeCluster: the Get of the
\* KubeadmControlPlane or MachineDeployment, and its policy check.
GetChild(c) ==
    /\ calls[c].pc = "get"
    /\ IF Allowed(child[calls[c].target])
       THEN calls' = [calls EXCEPT ![c].pc = "update", ![c].base = child[calls[c].target]]
       ELSE Answer(c, "refused")
    /\ Local

\* Mutant of Edited: replicas are added to those there are.
EditedRelatively(c, o) ==
    IF calls[c].tool = "scale"
    THEN [o EXCEPT !.rv = @ + 1, !.replicas = @ + calls[c].n]
    ELSE [o EXCEPT !.rv = @ + 1, !.version = calls[c].n]

\* What a write of call c makes of the child o it has read.
Edited(c, o) ==
    IF calls[c].tool = "scale"
    THEN [o EXCEPT !.rv = @ + 1, !.replicas = calls[c].n]
    ELSE [o EXCEPT !.rv = @ + 1, !.version = calls[c].n]

\* The API server accepts call c's Update of child k, read as o: the call goes
\* on as r, or stops when the answer is lost.
WriteChild(c, k, o, r) ==
    /\ child[k].rv = o.rv
    /\ child' = [child EXCEPT ![k] = Edited(c, o)]
    /\ asked' = IF calls[c].tool = "scale"
                THEN [asked EXCEPT ![k].replicas = calls[c].n]
                ELSE [asked EXCEPT ![k].version = calls[c].n]
    /\ calls' = [calls EXCEPT ![c] = r] \/ Answer(c, "error")
    /\ Fixed /\ UNCHANGED <<cluster, begun>>

UpdateChild(c) ==
    /\ calls[c].pc = "update"
    /\ WriteChild(c, calls[c].target, calls[c].base,
          IF calls[c].tool = "scale" THEN Idle("ok")
          ELSE GoOnToWorkers([calls[c] EXCEPT !.wrote = {"kcp"}]))

\* ListMachineDeployments; those that name no version are passed over.
ListMachineDeployments(c) ==
    /\ calls[c].pc = "list"
    /\ calls' = [calls EXCEPT ![c].pc = "workers", ![c].list = child,
                              ![c].todo = {m \in MDs : child[m].version # 0}]
    /\ Local

\* Mutant of UpgradeWorker: the loop goes on after a refusal.
UpgradeWorkerOrSkip(c, m) ==
    /\ calls[c].pc = "workers"
    /\ m \in calls[c].todo
    /\ \/ /\ ~Allowed(calls[c].list[m])
          /\ calls' = [calls EXCEPT ![c].todo = @ \ {m}]
          /\ Local
       \/ /\ Allowed(calls[c].list[m])
          /\ WriteChild(c, m, calls[c].list[m],
                        [calls[c] EXCEPT !.todo = @ \ {m}, !.wrote = @ \cup {m}])

\* One turn of the loop: the policy check of the listed object, its Update.
UpgradeWorker(c, m) ==
    /\ calls[c].pc = "workers"
    /\ m \in calls[c].todo
    /\ \/ /\ ~Allowed(calls[c].list[m])
          /\ Answer(c, "refused")
          /\ Local
       \/ /\ Allowed(calls[c].list[m])
          /\ WriteChild(c, m, calls[c].list[m],
                        [calls[c] EXCEPT !.todo = @ \ {m}, !.wrote = @ \cup {m}])

UpgradeDone(c) ==
    /\ calls[c].pc = "workers"
    /\ calls[c].todo = {}
    /\ Answer(c, "ok")
    /\ Local

\* Any call to the API server may fail, an Update with a Conflict in particular:
\* what was written before stays written.
CallFails(c) ==
    /\ calls[c].pc # "idle"
    /\ calls[c].pc = "workers" => calls[c].todo # {}
    /\ Answer(c, "error")
    /\ Local
-----------------------------------------------------------------------------
(* CAPI's controllers and everyone else.                                   *)

\* The children the topology controller owns.
Owned == IF topology THEN Generated \cup {"kcp"} ELSE {}

\* It reconciles a child back to what the topology says.
Reconcile(k) ==
    /\ k \in Owned
    /\ \/ child[k].replicas # cluster.sizes[k]
       \/ child[k].version # cluster.version
    /\ child' = [child EXCEPT ![k].rv = @ + 1, ![k].replicas = cluster.sizes[k],
                              ![k].version = cluster.version]
    /\ Fixed /\ UNCHANGED <<cluster, calls, begun, asked>>

\* The KubeadmControlPlane controller has rolled the control plane's machines
\* over to the version asked for, and says so in the object's status.
RollOut ==
    /\ cpKind = "KubeadmControlPlane"
    /\ running # child["kcp"].version
    /\ running' = child["kcp"].version
    /\ child' = [child EXCEPT !["kcp"].rv = @ + 1]
    /\ Setup /\ UNCHANGED <<cluster, calls, begun, asked>>

OutsideBegins == begun < MaxBegun /\ begun' = begun + 1 /\ Fixed

\* Someone scales child k where that has an effect.
OutsideScale(k, n) ==
    /\ OutsideBegins
    /\ IF k \in Owned
       THEN /\ cluster' = [cluster EXCEPT !.rv = @ + 1, !.sizes[k] = n]
            /\ UNCHANGED child
       ELSE /\ child' = [child EXCEPT ![k].rv = @ + 1, ![k].replicas = n]
            /\ UNCHANGED cluster
    /\ asked' = [asked EXCEPT ![k].replicas = None]
    /\ UNCHANGED calls

\* Flux, Argo CD or Helm takes an object over, or lets it go.
OutsideMarkCluster ==
    /\ OutsideBegins
    /\ cluster' = [cluster EXCEPT !.rv = @ + 1, !.managed = 1 - @]
    /\ UNCHANGED <<child, calls, asked>>

OutsideMark(k) ==
    /\ OutsideBegins
    /\ child' = [child EXCEPT ![k].rv = @ + 1, ![k].managed = 1 - @]
    /\ UNCHANGED <<cluster, calls, asked>>

Step(c) ==
    \/ \E byTopologyName, found \in BOOLEAN : ResolveTopologyName(c, byTopologyName, found)
    \/ UpgradeCluster(c) \/ UpdateTopology(c) \/ GetChild(c) \/ UpdateChild(c)
    \/ ListMachineDeployments(c)
    \/ \E m \in MDs : UpgradeWorker(c, m)
    \/ UpgradeDone(c) \/ CallFails(c)

Next ==
    \/ \E c \in Callers :
          \/ \E k \in Children, n \in Vals, invalid \in BOOLEAN : ScaleCluster(c, k, n, invalid)
          \/ \E v \in Vals \ {0}, workers \in BOOLEAN : UpgradeClusterHandler(c, v, workers)
          \/ Step(c)
    \/ \E k \in Children : Reconcile(k) \/ OutsideMark(k) \/ \E n \in Vals : OutsideScale(k, n)
    \/ OutsideMarkCluster \/ RollOut

\* The topology controller keeps reconciling every child.
Fairness == \A k \in Children : WF_vars(Reconcile(k))

Spec == Init /\ [][Next]_vars /\ Fairness
-----------------------------------------------------------------------------
\* The type invariant.
TypeOK ==
    /\ policy \in WritePolicies
    /\ topology \in BOOLEAN
    /\ cluster \in ClusterObjects
    /\ child \in [Children -> ChildObjects]
    /\ running \in Vals
    /\ begun \in 0 .. MaxBegun
    /\ asked \in [Children -> [replicas : Vals \cup {None}, version : Vals \cup {None}]]
    /\ calls \in [Callers -> Calls]

\* "The change that actually sticks": what a scale call was accepted for is in
\* the end the size of the child, whatever reconciles it, unless someone scales
\* it again.  Concurrent upgrades write the same objects and lose nothing.
ScaleSticks ==
    <>[](\A k \in Children :
            asked[k].replicas # None => child[k].replicas = asked[k].replicas)

\* Call c changes the Cluster or a child in this step.
Writes(c) == calls'[c] # calls[c] /\ (cluster' # cluster \/ child' # child)

\* The policy is applied where the write goes: under the guard neither the
\* Cluster nor a child is written while Flux, Argo CD or Helm owns it, although
\* each was checked when it was read, and the workers all at once.
GuardHoldsAtWrite ==
    [][\A c \in Callers :
          Writes(c) /\ policy.gitOpsGuard =>
             /\ cluster' # cluster => cluster.managed = 0
             /\ \A k \in Children : child'[k] # child[k] => child[k].managed = 0]_vars

\* The order of an upgrade's writes, over refusals, conflicts and errors: it gets
\* to a worker only after the control plane's version was written, so that one
\* that stops on its way leaves workers behind and never ahead.  (Written, not
\* rolled out: see WorkersWaitForControlPlane.)
ControlPlaneWrittenFirst ==
    [][\A c \in Callers, m \in MDs :
          Writes(c) /\ calls[c].tool = "upgrade" /\ child'[m] # child[m]
             => cpKind = "none" \/ "kcp" \in calls[c].wrote]_vars

\* An upgrade that reports success has written the control plane and every
\* worker that was listed with a version: no partial upgrade passes for one.
SuccessIsComplete ==
    [][\A c \in Callers :
          calls[c].pc = "workers" /\ calls'[c].answer = "ok" =>
             /\ cpKind # "none" => "kcp" \in calls[c].wrote
             /\ \A m \in MDs : calls[c].list[m].version # 0 => m \in calls[c].wrote]_vars

\* "worker machines are upgraded after the control plane is ready"
\* (pkg/mcp/handlers/cluster.go): an upgrade writes a worker's version only once
\* the control plane's machines run it.
WorkersWaitForControlPlane ==
    [][\A c \in Callers, m \in MDs :
          Writes(c) /\ calls[c].tool = "upgrade" /\ child'[m] # child[m]
             => cpKind = "none" \/ running = calls[c].n]_vars

\* "Upgrade a CAPI cluster's Kubernetes version: control plane, and workers
\* unless upgrade_workers is false" (docs/tools.md): what an upgrade wrote is
\* in the end the version of the child.
UpgradeSticks ==
    <>[](\A k \in Children :
            asked[k].version # None => child[k].version = asked[k].version)
=============================================================================
