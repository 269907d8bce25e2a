# A TLA+ model of mcp-capi

mcp-capi is an MCP server, written in Go, that lets an assistant operate
Cluster API (CAPI) management clusters: it lists, creates, scales, upgrades,
pauses, drains and deletes clusters, machines and nodes through the Kubernetes
API. Its own difficulty is not in any single request. It is in what happens
*between* two requests of one tool call: the object that was read and checked
is written a moment later, while other tool calls, people, GitOps controllers
and CAPI's own controllers write the same objects, and while any answer may be
lost. This project models that.

Paths below are relative to the repository root (`src/` here).

## 1. Inventory

| Component | State it keeps | Operations | Interacts with |
|---|---|---|---|
| Write policy, `pkg/capi/policy.go` | three switches, fixed at start | `CheckCreate`, `CheckUpdate`, `CheckDelete`, `CheckCredentialExport` | asked by the client before it writes |
| Single-object tools, `pkg/capi/client.go`, `providers.go`, `pkg/mcp/handlers/{cluster,machine}.go` | none of its own; Clusters, Machines, MachineDeployments at the API server | pause, resume, update, create, delete a cluster; delete, remediate a machine; create, scale, update, roll out a machine deployment | Get, then Update, Delete or Create at the API server |
| Scale and upgrade a cluster, `providers.go`, `client.go` | none of its own; the Cluster's topology, KubeadmControlPlane, MachineDeployments | `ScaleCluster`, `UpgradeCluster` | several objects per call; the topology controller writes the same ones |
| ClusterResourceSets, `pkg/capi/resourceset.go` | none of its own; Secrets, ConfigMaps, ClusterResourceSets | create (several objects), delete | API server; the registry alone protects a read-only server |
| Drain and cordon, `pkg/capi/drain.go` | the list of pods to evict, evicted, still there; a deadline | `DrainNode`, `CordonNode` | Node, Eviction API, PodDisruptionBudgets, scheduler, kubelet |
| Tool registry, `pkg/mcp/handlers/{registry,readonly}.go` | four classes of tool names | `BuildAllTools`, `annotationsFor` | decides which tools exist under a policy |
| Per-caller clients, `pkg/capi/bearer.go`, `pkg/oauth/identity.go`, `handlers/types.go` | a bounded cache of clients with expiry, shared by all requests | identity middleware, `ServerContext.Client`, `ClientFor` | OAuth token store, clock |
| kubectl, helm, kubeconfig, `client.go` | temporary kubeconfig files | `ExecKubectl`, `ExecHelm`, `GetKubeconfig` | child processes, file system, the registry |
| Reading tools and status, `client.go`, `utils.go`, `handlers/{cluster,machine,provider_*,results}.go` | none; what it read so far | get, list, status, health, provider tools, search by label | API server, reads only |
| Transports and life cycle, `pkg/mcp/{transport,server}.go` | listener, signal context | start, serve, bounded shutdown | all requests in flight |
| OAuth server, `pkg/oauth/{server,config}.go` | the token store | start-up, `Close` | a library; validates each request |
| Command line, `cmd/serve.go` | flags | validation, `RunServe` | starts the server |
| Self-update, project metadata | none | replacing the binary | a library |

What is hard in it:

* **Check, then write.** The policy looks at an object that a Get returned.
  What holds of it must hold of the object that is written.
* **Read-modify-write.** Updates send the whole object.
* **Several writes per call.** Upgrades, resource sets and drains stop at the
  first error with part of the work done.
* **Names versus identities.** Deletes and Evictions carry names; the object of
  that name may be another one by then.
* **Lost answers.** A write that was made may be reported as an error.
* **Controllers.** CAPI's topology controller reverts what is written in the
  wrong place.
* **A shared cache** of clients that act with different people's rights, read
  and filled in two critical sections with the slow part in between.
* **Deadlines** that must end a drain whatever the cluster does.
* **Credentials on disk** for the time a child process runs, with error paths
  before the deferred removal, and a process that may end first.
* **Ending.** A signal, a drain of connections that is bounded, and a store that
  must be closed after the last request needs it, also when the start fails.
* **Answers joined from several reads**, each of which may fail or see another
  moment than the one before.

`PROJECT.json` lists each as a hazard at its line, with the properties that
would catch it.

## 2. Modules

```
WritePolicy ──┬── ObjectWrites ──(refines)── AtomicWrites
              ├── ToolRegistry ─┬── ResourceSets
              │                 └── ExecTools ── ServerLife
              ├── ClusterScaling
              └── Drain
BearerClients
ClusterViews
```

ObjectWrites, ResourceSets, ServerLife, ClusterScaling, Drain, BearerClients and
ClusterViews each have a module `<name>Proofs` that extends them and holds the
theorems and their proofs (section 4).

Every module has an `MC` module that adds symmetry, constraints or constant
functions for TLC; the `.cfg` files give the constants.

**WritePolicy** holds the policy's checks as operators. An object's labels and
annotations are a function from field names to naturals, 0 meaning absent. The
six ownership markers of Flux, Argo CD and Helm become one field `managed`.

**ObjectWrites** is the core. `store` is what the API server holds, each object
with the revision of its last change; `calls` holds for each tool call in
flight the API request it makes next (`pc`), the object it read (`base`) and
the fields it assigns (`edit`). One step is one request to the API server with
everything the code does up to the next one. `GetForUpdate` and `GetForDelete`
are the pattern all client methods share (Get, policy check, own check);
`Update` is accepted only with the revision that was read (the objects the code
sends carry their resourceVersion), `Delete` carries just the name. `Outside*`
is everyone else. `CallFails` is a request that does not reach the server, and
an accepted write may be answered with an error.

**AtomicWrites** is what these tools promise, without revisions or gaps: a call
ends without a trace or with one write, permitted by the policy on the object
as it is at that moment. `ObjectWrites!Atomic` is the mapping: an object is
its fields and whether it exists, a call is active or not.

**ToolRegistry** transcribes the tool classes and the filter; **ResourceSets**
uses it, since for the ClusterResourceSet tools the registry is the only
place where the policy acts. A create call walks through its resources
(`i`), each Create, or Create, Get, Update, and creates the set last. The API
server refuses an Update that changes a Secret's type (`TypeFits`).

**ClusterScaling** models both calls that write a cluster's children, for
clusters with and without a topology, next to the topology controller
(`Reconcile`) and the control plane's (`RollOut`): `running` is the version that
the control plane's machines run, which follows what is written at its own pace.
`asked` is a history variable: what accepted writes asked for
and nobody else has revoked.

**Drain** models one `DrainNode` call in full (resolve, cordon, list and plan,
eviction rounds, waiting rounds, deadline), concurrent `CordonNode` calls, and
the pods: they finish, terminate, are deleted, recreated under the same name on
this node or another, and scheduled. A round of a loop is a set, the list having
no promised order. `undone` records that someone uncordoned the node.

**BearerClients** models the request path from the identity middleware to
`ClientFor`, with its two critical sections as steps and the clock read before
the first, the token store of the OAuth library, and time.

**ExecTools** has the calls that read a workload cluster's kubeconfig, one step
per request, file operation or child process, with each error path of
`resolveWorkloadKubeconfigFile`, and the temporary directory as a function from
names to contents. **ServerLife** extends it with the process the calls run in:
`main` is what the main goroutine does next, from `RunServe` through the start of
the OAuth server to the transport and the deferred `Shutdown`; `CancelOnSignal` is the
goroutine that waits for a signal; a stream is a client that keeps an event
stream open. `Killed` and `Restart` end and restart the process, of which only
the temporary directory survives. `left` records the files that were left
behind, because their call was in flight when its process ended or because
`os.Remove` failed, whose error the code drops. The composition matters: whether a
kubeconfig stays behind depends on a call's error paths, on the transport
(a streamable-http call runs in its request, which Shutdown waits for; an SSE
call does not) and on how the process ends.

**ClusterViews** has the tools that answer from several reads, or search:
`GetClusterStatus` as three reads (Cluster, provider, machines), health as one
more, `capi_get_cluster` with its fallback to label values, the list of clusters
with one list of machines joined to it, the provider tools, `capi_list_machines`
and the backup and move placeholders. `past` records everything that was stored
since the call began, so that the properties can say "at some moment of the call".
Reading calls do not affect one another, so a behaviour is one call.

Definitions whose comment says "Mutant of X" are wrong versions of X.
They are never used by a specification; they document which slip of the code
each property would notice.

## 3. Runs

Passing runs:

| Run | Question | Bounds |
|---|---|---|
| `object_writes` | Do policy and read-modify-write hold when an object is really written, does what a call checked stay valid while its revision does not move on (`ChecksStayValid`, which the proofs rest on), is a Ready cluster deleted only if it changed after it was judged, is the Delete of an unchanged machine safe, and do the tools implement AtomicWrites? | 2 calls, 1 Cluster, 1 Machine, 1 MachineDeployment, 2 values per field, 1 field per update, work starts up to revision 3; the constraint `OneKindInUse` keeps the Cluster and the other two apart, which share only the revision counter |
| `resource_sets` | Does a read-only server write nothing, does a set come after its contents, do markers survive an overwrite? | 2 calls, 1 Secret, 1 ConfigMap, 1 set, 2 resources per call |
| `drain` | Is the node empty, and are the evicted pods gone, when a drain reports success, is only evicted what the options accept, and does every drain end? | concurrent cordon and uncordon, 1 replacement, and (`TwoPodsOrOne`) either 2 plain or DaemonSet pods with or without IgnoreDaemonSets, or 1 pod of any of the 6 kinds beside an idle mirror pod under all 8 combinations of options; only steps of the cluster, which have no fairness, lead out of the constraint, so it hides no endless drain |
| `bearer_clients` | Is the cache bounded, and does everyone get a fresh client of their own? | 2 requests, 2 users, 3 tokens (early, late, no expiry), a cache of 1, 4 ticks |
| `cluster_scaling` | Does the guard hold at every write, is the control plane written first, is success complete, does a scale last? | 2 calls or outside edits, 1 control plane, 1 generated and 1 standalone MachineDeployment |
| `server_life` | Does a child always find its own cluster's kubeconfig, is every file left on the disk accounted for, is the store closed when and only when it should, does a graceful stop cut nothing, does a signal end the process? | 2 calls, 2 clusters, 2 file names, 7 configurations (each transport, OAuth with and without caller identity, each reason to refuse), 2 policies, 2 starts |
| `cluster_views` | Is a summary of its cluster only, is health what was seen, is a list complete, does a match by label match, is every call answered? | 1 call of any reading tool, 2 namespaces, 2 names, 2 machines, 2 starting points, 2 changes during the call, any read fails |

Why the bounds suffice to make the interesting cases happen: a race needs one
reader and one writer between its read and its write, so two calls (or a call
and an outside edit) on one object are enough, and `MaxRev` leaves room for
an edit before a call starts, which makes refusals happen, and another one
while it runs. Objects of different kinds share no state in ObjectWrites, so
`OneKindInUse` loses no interleaving of Cluster calls or of the others'. A cache of one entry is full at
once; three tokens compete for it. A drain needs a second pod for a round that
is half refused, and one spare UID for a replacement. Two file names make the
second call of a restarted server meet the file that a killed one left behind.
Two changes fall before and after any one read of a reading call, which is
what it takes to make a summary mix moments; its starting points have one
cluster name in two namespaces, and two clusters that share a label value with
the name of a third.

`CHECK_DEADLOCK FALSE` stands where the bounds (or a finished drain) let
everything come to rest; `bearer_clients` never stops and is checked.

Runs that find the repository's own statements violated:

| Run | What is said | What the code does |
|---|---|---|
| `tools_keep_their_class` | writes of mutating tools "go through the client's WritePolicy (GitOps guard)"; additive tools "never change or remove what exists" | the ClusterResourceSet calls never ask the policy: a set labelled prevent-deletion is deleted, a managed ConfigMap or Secret is overwritten, and create overwrites although it is additive |
| `workers_wait` | "worker machines are upgraded after the control plane is ready" (`handlers/cluster.go:789`) | the workers' version is written as soon as the control plane's was accepted, whatever its machines run; nothing waits, and whether worker machines do is left to the installed controllers |
| `health_covers_workers` | "Check a CAPI cluster's health: control plane, infrastructure and workers" | `healthy` starts true and the machines are judged only if they can be listed: an error leaves a cluster without a ready machine healthy |
| `name_matches_first` | "The name matches the resource name first, then label values" | any error of the read by name counts as absence; a cluster matched by label is answered while the named one exists |
| `upgrade_sticks` | "Upgrade a CAPI cluster's Kubernetes version" | with a topology the children are written, and the topology controller reverts them; `ScaleCluster` avoids exactly that |

Divergences met on the way that have no run of their own, being visible in one
step:

* `ResumeCluster` removes the annotation only; a cluster with `spec.paused` stays
  paused while the answer says "Reconciliation resumed" (`handlers/cluster.go:665`).
  Conversely `ClusterStatus.Paused` shows `spec.paused` and not the annotation that
  `capi_pause_cluster` sets.
* `AWSManagedCluster` and its siblings are listed by the provider tools, while
  `DetermineProvider` calls them "unknown".
* "must always be called" (`client.go:463`) cannot hold of a process that ends first:
  a kubeconfig stays in the temporary directory, and its child keeps running. The
  chart says of that directory that "The server writes nothing of its own there"
  (`helm/mcp-capi/values.yaml`).

Fairness. Safety properties need none. `DrainEnds` assumes weak fairness of the
drain's own steps (a goroutine that can run does) and of `Expire`, the
`context.WithTimeout` that `DrainNode` always sets. It is set after the node was
resolved and cordoned (`drain.go:46-52`): that these first requests return is an
assumption, which only the caller's own context could replace. Nothing is assumed of pods,
budgets or evictions. `ScaleSticks` and `UpgradeSticks` assume weak fairness of
the topology controller for each child: a controller reconciles what differs,
for as long as it differs, which is what the comment on `ScaleCluster` relies on.
Nothing is assumed of calls; they may hang. `SignalEnds` assumes that the main
goroutine and the one that waits for a signal go on when they can, that the
library's `Listen` returns once its context is done, and that the timer of the
shutdown fires; nothing of calls, children, clients or the start-up.
`EveryCallIsAnswered` assumes that a request to the API server returns, with an
answer or an error.

## 4. Proofs

Every invariant, safety action property and the refinement that the passing runs
check is also a theorem, for every value of the constants: any number of
objects, callers, pods, tokens or files, and any bounds.

| Module | Theorems (the property each one states) |
|---|---|
| `ObjectWritesProofs` | `TypeCorrect` (`TypeOK`), `ChecksAlwaysValid` (`ChecksStayValid`), `GuardHolds` (`GuardHoldsAtUpdate`), `LosesNothing` (`NoLostUpdate`), `ReadOnlyIsReadOnly` (`ReadOnlyNeverWrites`), `DeletesAreChecked` (`UnchangedIsSafeToDelete`), `ReadyMeansChanged` (`ReadyOnlySinceRead`), `ImplementsAtomic` (`ImplementsAtomicWrites`) |
| `BearerClientsProofs` | `TypeCorrect`, `CacheIsBounded` (`CacheBounded`), `RequestsActAsCaller` (`ActsAsCaller`), `CachedClientsAreFresh` (`CachedIsFresh`), `EvictionIsHarmless` (`EvictsOnlyExpired`) |
| `ServerLifeProofs` | `TypeCorrect`, `ChildrenSeeTheirCluster` (`ChildSeesItsCluster`), `PolicyIsKept` (`PolicyBoundsReads`), `NoFileIsForgotten` (`FilesAreAccountedFor`), `StoreIsReleased` (`StoreReleased`), `GracefulStop` (`GracefulStopCutsNothing`) |
| `ClusterScalingProofs` | `TypeCorrect`, `GuardHolds` (`GuardHoldsAtWrite`), `ControlPlaneIsWrittenFirst` (`ControlPlaneWrittenFirst`), `SuccessMeansAll` (`SuccessIsComplete`) |
| `DrainProofs` | `TypeCorrect`, `SuccessfulDrainsWait` (`SuccessMeansGone`), `DrainedNodesAreEmpty` (`DrainedMeansEmpty`), `LossesAreAccepted` (`NoUnacceptedLoss`) |
| `ResourceSetsProofs` | `TypeCorrect`, `RegistryIsEnough` (`ReadOnlyNeverWrites`), `SetsComeLast` (`SetComesLast`), `UpdatesKeepMarkers` (`MarkersSurvive`) |
| `ClusterViewsProofs` | `TypeCorrect`, `HealthIsSeen` (`HealthWasSeen`), `SummariesAreTheirOwn` (`SummaryIsOfItsCluster`), `ListsAreComplete` (`ListIsComplete`), `LabelsMatch` (`LabelAnswersMatch`) |

Each module has the same shape: an inductive invariant `IInv`, one lemma per
action (or group of actions that leave the same things alone) saying that it
keeps `IInv`, and the theorems, which follow from `IInv` and, for action
properties, from one more look at the actions concerned.

**ObjectWrites.** The guard is checked in one step and the write happens in a
later one, so neither `GuardHoldsAtUpdate` nor `NoLostUpdate` is inductive.
What connects the two steps is the revision. `ChecksStayValid` says so: (1)
revisions of stored objects never exceed the counter, and only absent objects
have revision 0 (`VersionsOK`); (2) the object a call read passed the check that
belongs to its next request, and as long as the stored object has the revision
that was read, it *is* the object that was read (`CallOK`). Every write uses
a revision above all earlier ones, so (2) survives the writes of others; an
accepted Update finds equal revisions, so what was checked is what is written.
For the same reason the refinement maps the Update step to `AtomicUpdate`. A
Delete has no such premise, and AtomicWrites promises less for it.
`capi_delete_cluster` reads twice; (2) covers the first read too, and adds that
without `force` the status seen there was not Ready. So a cluster that the
second read finds Ready has another revision than the one that was judged.

**ResourceSets** rests on the same two clauses. The third is about the loop of a
create call: every resource before the current one that came with data is among
those it wrote, so at the end of the list they all are.

**ClusterScaling.** A call holds an object it read (`base`), or a whole list of
MachineDeployments. `Seen` says that its version has not moved ahead of the
stored one and, where they are equal, the two are the same object. With it,
`CallOK` keeps what was checked, that the control plane was written before the
list was taken, and that a MachineDeployment with a version is either still to
do or written. The theorem is about the order of writes; that the control plane
has rolled out when the workers are written is what `workers_wait` refutes.

**Drain.** UIDs are never reused (`UidsOK`), so a pod with the UID that the
drain remembers is the pod it looked at. `DrainOK` says of the pods it
remembers that the options accept their loss; that, unless somebody undid
the cordon, every pod that must leave is remembered, which holds because a
cordoned node (`Cordoned`) gets no new ones; and that, from the waiting rounds
on, each evicted pod is still to be looked for or its UID is gone. With nothing
left to look for, that is `SuccessMeansGone`, and with the clause before it
`DrainedMeansEmpty`. `PodsMayMove` shows once that this survives everything
pods do by themselves.

**BearerClients.** Two critical sections with the build in between mean that
the entry a request stores may meet any cache. The invariant says for the entry
of a token that its client presents that token and that it expires with the
token or sooner (`CacheOK`), and for a request that its token is its own user's
(`RequestOK`), which rests on the same of the token store (`StoreOK`).
`CacheBounded` is part of the invariant; it needs the cardinality of the cache
after an eviction and one insertion.

**ServerLife.** `ExecInv` is about the calls: a call holds a file exactly from
its creation to the attempt to remove it, no two hold the same, a file that no
call holds was left behind in one of the two ways that `left` records, and a file given to a child
is complete and of the call's cluster. `MainInv` is about the main goroutine:
where calls may be in flight and the store open, and that a streamable-http
server on its way to a clean return has no call in flight. Neither can be
proved without the other, since `Killed` and the end of the process change both.

**ClusterViews.** `past` is all a call has lived through. The invariant follows
the answer while it is put together: each part a call has collected was so in
some member of `past` (`StatusOK`, `TargetOK`, `ItemsOK`), and an answer that
was given keeps what its call knew (`AnswerOK`). `HealthIsSeen` says of the two
verdicts of `capi_cluster_health` what each vouches for: `healthy` for the Cluster
only, `workersReady` for the machines; the first without the second means that the
machines could not be listed, which is the case that `health_covers_workers` finds.
Since `past` only grows, this
survives every change of the management cluster.

The assumptions on constants are named, and TLC evaluates each in the runs of
its module. They say that the kinds of objects have different keys
(`KeysAssumption` of ObjectWrites and of ResourceSets; "kcp" is no
MachineDeployment in `ScalingAssumption`; "all" no namespace in
`ViewsAssumption`); that an e-mail address is no session, each token has one
owner, and the default time to live does not exceed the largest one
(`FactoryAssumption`); that configurations, policies, options and starting
points are what they are named for (`LifeAssumption`, `ExecAssumption`,
`DrainAssumption`, `ViewsAssumption`); that the sets whose sizes are taken are
finite; and that the bounds are naturals, large enough that the initial state
exists (a UID for each pod, one start of the process, two values per field).

Only model-checked: the liveness properties `DrainEnds`, `ScaleSticks`,
`SignalEnds` and `EveryCallIsAnswered`, which need fairness and `ENABLED` and are
out of the prover's reach. The five runs that expect a violation have no theorem.

## 5. Abstractions

* Wording, formatting, descriptions and JSON of answers are left out; argument
  parsing is reduced to which arguments a call can arrive with.
* An accepted Delete removes the object; finalizers only delay that and cannot
  take it back. A client reads uncached (`client.New`).
* Init has bare objects; markers, protection, readiness and the rest come about
  by outside edits, so every combination is reached by steps.
* A Secret's `stringData` is merged and a ConfigMap's `data` replaced; both are
  one value here. The type of a Secret is whether it is the one that the
  ClusterResourceSet controller requires. Digests of tokens are taken not to collide.
* Whether a cluster has a topology does not change during a behaviour, and a
  cluster with one has a control plane object.
* The scheduler's look at `unschedulable` and its binding are one step, and
  no pod but a DaemonSet's tolerates an unschedulable node; a binding in
  flight at the moment of the cordon is outside `DrainedMeansEmpty`. The Node's
  ownership marker is fixed, and only `CordonNode` uncordons.
* A Delete that follows a check by name only leaves gaps that the code
  accepts: an object may be labelled, adopted, or become Ready between the
  last read and the Delete. `UnchangedIsSafeToDelete` and `ReadyOnlySinceRead`
  are what remains true: their premises exclude the race, which the code does not.
  An Eviction by name may likewise hit a replacement of the listed pod.

* A kubeconfig is the cluster it was read for and whose host it names; the
  arguments of a child are accepted or the call has ended. A killed process takes
  its goroutines with it; what an orphaned child does is not modelled.
* The configuration, provider, key and store errors of the OAuth server's start are one
  failure before the store is open, or one after.
* A Cluster in ClusterViews has one user label, and values that differ only in
  case are one value. A summary may mix moments of its cluster, so a cluster that
  is replaced under its name between two reads contributes both lives to it;
  `SummaryIsOfItsCluster` only excludes other clusters. A search is the set of terms that contain it. Phase, version,
  warnings and recommendations are left out.

Not modelled: tools that print one object or a list from a single read, and
`handlers/resources.go` (one request and its formatting); reading the OAuth environment
and the validation of single flags (pure parsing of values that nothing relates to
each other); the helpers of `utils.go` that no tool calls; self-update and metadata
(a sequence of library calls, and constants); the AWS, Azure, GCP and vSphere
placeholders, which are not registered. The conversion of number arguments from
float64 to int32 is left out as well: out of range its result is the platform's,
and the repository says nothing about it.

## 6. Plan

Done: all modules of section 2 with their runs, and a proof of every safety
property that a passing run checks.

Next: what the liveness properties rest on and the prover can reach, as action
properties: that a drain's rounds never take back a pod that was found gone,
and that no step of a server after a signal leads back to serving. Both are
implied by the models' control and worth a theorem only together with the
liveness property that TLC checks.
