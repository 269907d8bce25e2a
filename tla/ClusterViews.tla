---------------------------- MODULE ClusterViews ----------------------------
(***************************************************************************)
(* The tools that only read clusters: capi_get_cluster, capi_list_clusters,*)
(* capi_cluster_status, capi_cluster_health, the provider tools,           *)
(* capi_list_machines, capi_backup_cluster and capi_move_cluster           *)
(* (pkg/mcp/handlers/cluster.go, machine.go and provider_common.go,        *)
(* pkg/capi/client.go, utils.go and providers.go).                         *)
(*                                                                         *)
(* An answer is put together from several reads, each of which may fail,   *)
(* while controllers and other clients change what is stored.  These calls *)
(* change nothing, so they do not meet: a behaviour is one call.           *)
(***************************************************************************)
EXTENDS Naturals, FiniteSets

CONSTANTS
    Namespaces,  \* namespaces of the management cluster
    Names,       \* names of clusters
    Terms,       \* what a caller may give as a name, or a label have as its value
    Searches,    \* what capi_list_clusters may be asked for
    Machines,
    Kinds,       \* kinds of infrastructure references
    Starts,      \* what may be stored when the call begins
    MaxChanges   \* how often what is stored changes during the call

AllKinds == {"AWSCluster", "AWSManagedCluster", "AzureCluster", "AzureManagedCluster",
             "GCPCluster", "GCPManagedCluster", "VSphereCluster", "VCDCluster", "noRef"}

Keys == Namespaces \X Names
NoKey == <<"none", "none">>

\* A Cluster: its readiness, whether some condition has severity Error, the one
\* label a user gave it (values that differ in case are one value), and the kind
\* of its infrastructureRef.
Clusters == [cp : BOOLEAN, infra : BOOLEAN, err : BOOLEAN,
             label : Terms \cup {"none"}, kind : Kinds]
NoCluster == [cp |-> FALSE, infra |-> FALSE, err |-> FALSE, label |-> "none", kind |-> "absent"]

\* A Machine: its namespace and cluster name label, its nodeRef, its Ready condition.
MachineStates == [of : Keys \cup {NoKey}, node : BOOLEAN, ready : BOOLEAN]
NoMachine == [of |-> NoKey, node |-> FALSE, ready |-> FALSE]

\* What the management cluster may store.
Stores == [clusters : [Keys -> Clusters \cup {NoCluster}], machines : [Machines -> MachineStates]]

\* search, as the set of terms that contain it, and label_selector, or "none".
SearchArguments == [in : SUBSET Terms, selector : Terms \cup {"none"}]
NoSearch == [in |-> Terms, selector |-> "none"]

\* No namespace is the empty one, which stands for all of them.
ASSUME ViewsAssumption ==
    /\ "all" \notin Namespaces
    /\ Names \subseteq Terms
    /\ Searches \subseteq SearchArguments
    /\ Kinds \subseteq AllKinds
    /\ Starts \subseteq Stores
    /\ IsFiniteSet(Namespaces) /\ IsFiniteSet(Names) /\ IsFiniteSet(Machines)
    /\ MaxChanges \in Nat

VARIABLES
    stored,     \* what the management cluster stores
    changes,
    call,
    answer,
    past        \* history: everything that was stored since the call began

vars == <<stored, changes, call, answer, past>>

Exists(w, k) == k \in Keys /\ w.clusters[k] # NoCluster
MachinesOf(w, k) == {m \in Machines : w.machines[m].of = k}

Providers == {"aws", "azure", "gcp", "vsphere", "vcd", "unknown"}

\* Mutant of DetermineProvider: the kind is handed on as it is.
DetermineProviderKind(kind) == kind

\* Only the kind says who the provider is; a managed kind is "unknown".
DetermineProvider(kind) ==
    CASE kind = "AWSCluster" -> "aws"
      [] kind = "AzureCluster" -> "azure"
      [] kind = "GCPCluster" -> "gcp"
      [] kind = "VSphereCluster" -> "vsphere"
      [] kind = "VCDCluster" -> "vcd"
      [] OTHER -> "unknown"

\* The kinds that each provider's list and get tools accept.
ProviderKinds ==
    [aws |-> {"AWSCluster", "AWSManagedCluster"}, azure |-> {"AzureCluster", "AzureManagedCluster"},
     gcp |-> {"GCPCluster", "GCPManagedCluster"}, vsphere |-> {"VSphereCluster"}]

\* A ClusterStatus: what is taken from the Cluster, the rest not yet known.
ClusterStatus(k, c) ==
    [key |-> k, cp |-> c.cp, infra |-> c.infra, err |-> c.err, provider |-> "unknown",
     total |-> 0, ready |-> 0]
NoStatus == ClusterStatus(NoKey, NoCluster)
Statuses == [key : Keys \cup {NoKey}, cp : BOOLEAN, infra : BOOLEAN, err : BOOLEAN,
             provider : Providers, total : Nat, ready : Nat]

\* The machine counts; a machine with a node counts as ready.
WithMachines(s, ms) ==
    [s EXCEPT !.total = Cardinality(ms),
              !.ready = Cardinality({m \in ms : stored.machines[m].node})]

\* tool and args say what is called; pc is the read that is next, "returned" and
\* "failed" are where GetClusterStatus returns to its caller.  by is what the
\* target of GetClusterStatus was found by.  StatusTools are the tools that call it.
NoArgs == [ns |-> "all", name |-> "none", search |-> NoSearch, provider |-> "none"]
NoCall == [tool |-> "none", args |-> NoArgs, pc |-> "idle", by |-> "name", target |-> NoKey,
           status |-> NoStatus, todo |-> {}, items |-> {}]

StatusTools == {"capi_get_cluster", "capi_cluster_status", "capi_cluster_health"}
Tools == StatusTools \cup {"capi_move_cluster", "capi_backup_cluster", "capi_list_clusters",
                          "capi_list_machines", "provider_get", "provider_list"}
PCs == {"idle", "getCluster", "getProvider", "countMachines", "returned", "failed", "findByLabel",
        "listClusters", "listAllMachines", "listMachines", "done"}
Arguments == [ns : Namespaces \cup {"all"}, name : Terms \cup {"none"}, search : SearchArguments,
              provider : DOMAIN ProviderKinds \cup {"none"}]
Calls == [tool : Tools \cup {"none"}, args : Arguments, pc : PCs, by : {"name", "label", "labels"},
          target : (Namespaces \X Terms) \cup {NoKey}, status : Statuses,
          todo : SUBSET Keys, items : SUBSET Statuses]

\* How a call ended, with the statuses, machines or keys it lists, and the two
\* verdicts of capi_cluster_health; counted is history: the machines were listed.
NoAnswer == [kind |-> "none", items |-> {}, healthy |-> FALSE, workersReady |-> FALSE,
             counted |-> FALSE]

Init ==
    /\ stored \in Starts
    /\ changes = 0
    /\ call = NoCall
    /\ answer = NoAnswer
    /\ past = {stored}
-----------------------------------------------------------------------------
Outside == UNCHANGED <<stored, changes, past>>
At(pc) == call.pc = pc
Goto(pc) == call' = [call EXCEPT !.pc = pc] /\ UNCHANGED answer

Answers(a) ==
    /\ answer' = a
    /\ call' = [NoCall EXCEPT !.tool = call.tool, !.args = call.args, !.pc = "done"]
Answer(kind, items) == Answers([NoAnswer EXCEPT !.kind = kind, !.items = items])
ToolError == Answer("error", {})

Call(tool, args, pc, target) ==
    /\ At("idle")
    /\ call' = [NoCall EXCEPT !.tool = tool, !.args = args, !.pc = pc, !.target = target]
    /\ UNCHANGED answer /\ Outside

\* The tools that name one cluster.  (A backup with Secrets that the policy does
\* not let out ends at once, like a call without a namespace or a name.)
BeginOne(tool, ns, name) ==
    Call(tool, [NoArgs EXCEPT !.ns = ns, !.name = name], "getCluster", <<ns, name>>)

BeginProviderGet(p, ns, name) ==
    Call("provider_get", [NoArgs EXCEPT !.ns = ns, !.name = name, !.provider = p],
         "getCluster", <<ns, name>>)

\* The lists; ns may be "all".
BeginList(ns, search) ==
    Call("capi_list_clusters", [NoArgs EXCEPT !.ns = ns, !.search = search], "listClusters", NoKey)

BeginProviderList(p, ns) ==
    Call("provider_list", [NoArgs EXCEPT !.ns = ns, !.provider = p], "listClusters", NoKey)

\* name "none" lists every machine of the namespace.
BeginListMachines(ns, name) ==
    Call("capi_list_machines", [NoArgs EXCEPT !.ns = ns, !.name = name], "listMachines", NoKey)
-----------------------------------------------------------------------------
(* GetClusterStatus, and the tools that read one Cluster.                  *)

\* ok: the API answers.
GetCluster(ok) ==
    /\ At("getCluster") /\ call.tool \in StatusTools
    /\ IF ok /\ Exists(stored, call.target)
       THEN /\ call' = [call EXCEPT !.pc = "getProvider",
                           !.status = ClusterStatus(call.target, stored.clusters[call.target])]
            /\ UNCHANGED answer
       ELSE Goto("failed")
    /\ Outside

\* GetProviderForCluster reads the Cluster again; its error is dropped.
GetProviderForCluster(ok) ==
    /\ At("getProvider")
    /\ call' = [call EXCEPT !.pc = "countMachines",
                   !.status.provider = IF ok /\ Exists(stored, call.target)
                                       THEN DetermineProvider(stored.clusters[call.target].kind)
                                       ELSE "unknown"]
    /\ UNCHANGED answer /\ Outside

\* ListMachines, whose error is dropped too and leaves the counts at 0.  (The
\* KubeadmControlPlane is read last, for a version, which is left out.)
CountMachines(ok) ==
    /\ At("countMachines")
    /\ call' = [call EXCEPT !.pc = "returned",
                   !.status = IF ok THEN WithMachines(@, MachinesOf(stored, call.target)) ELSE @]
    /\ UNCHANGED answer /\ Outside

\* MoveCluster and BackupCluster: placeholders that read the Cluster, no more.
Placeholder(ok) ==
    /\ At("getCluster") /\ call.tool \in {"capi_move_cluster", "capi_backup_cluster"}
    /\ IF ok /\ Exists(stored, call.target) THEN Answer("placeholder", {}) ELSE ToolError
    /\ Outside

\* hasInfrastructureKind
hasInfrastructureKind(k) == stored.clusters[k].kind \in ProviderKinds[call.args.provider]

createProviderGetCluster(ok) ==
    /\ At("getCluster") /\ call.tool = "provider_get"
    /\ IF ok /\ Exists(stored, call.target) /\ hasInfrastructureKind(call.target)
       THEN Answer("provider", {ClusterStatus(call.target, stored.clusters[call.target])})
       ELSE ToolError
    /\ Outside

CreateClusterStatusHandler ==
    /\ call.tool = "capi_cluster_status"
    /\ \/ At("returned") /\ Answer("status", {call.status})
       \/ At("failed") /\ ToolError
    /\ Outside

\* Mutant of WorkersReady: a cluster without machines is fine.
WorkersReadyEvenNone(ms) == \A m \in ms : stored.machines[m].ready

\* By the Ready condition, unlike the counts of GetClusterStatus.
WorkersReady(ms) == ms # {} /\ \A m \in ms : stored.machines[m].ready

\* GetClusterHealth lists the machines once more; an error leaves Healthy as it
\* is and WorkersReady FALSE.  Phase, warnings and recommendations are left out.
GetClusterHealth(ok) ==
    /\ call.tool = "capi_cluster_health"
    /\ \/ /\ At("returned")
          /\ Answers([kind |-> "health", items |-> {}, counted |-> ok,
                      workersReady |-> ok /\ WorkersReady(MachinesOf(stored, call.target)),
                      healthy |-> /\ call.status.cp /\ call.status.infra /\ ~call.status.err
                                  /\ ok => WorkersReady(MachinesOf(stored, call.target))])
       \/ At("failed") /\ ToolError
    /\ Outside
-----------------------------------------------------------------------------
(* capi_get_cluster: by name, else by label value.                         *)

GetByName ==
    /\ call.tool = "capi_get_cluster" /\ call.by = "name"
    /\ \/ At("returned") /\ Answer("status", {call.status})
       \/ At("failed") /\ Goto("findByLabel")
    /\ Outside

\* Mutant of InNamespace: the option is left out.
InNamespaceNever(k) == TRUE

\* client.InNamespace, unless the namespace is empty.
InNamespace(k) == call.args.ns \in {"all", k[1]}

\* Reads one of the matches, in the order of the list, which is any order.
ReadNext(by, ks, items) ==
    \E k \in ks :
        /\ call' = [call EXCEPT !.pc = "getCluster", !.by = by, !.target = k,
                                !.status = NoStatus, !.todo = ks \ {k}, !.items = items]
        /\ UNCHANGED answer

FindClustersByLabelValue(ok) ==
    /\ At("findByLabel")
    /\ LET matched == {k \in Keys : /\ Exists(stored, k) /\ InNamespace(k)
                                    /\ stored.clusters[k].label = call.args.name}
       IN  CASE ~ok \/ matched = {} -> ToolError
             [] ok /\ Cardinality(matched) = 1 -> ReadNext("label", matched, {})
             [] OTHER -> ReadNext("labels", matched, {})
    /\ Outside

OneMatch ==
    /\ call.by = "label"
    /\ \/ At("returned") /\ Answer("byLabel", {call.status})
       \/ At("failed") /\ ToolError
    /\ Outside

\* Mutant of ManyMatches: a candidate that cannot be read is tried again.
ManyMatchesRetried ==
    /\ call.by = "labels"
    /\ \/ At("failed") /\ Goto("getCluster")
       \/ /\ At("returned")
          /\ LET items == call.items \cup {call.status}
             IN  IF call.todo = {} THEN Answer("candidates", items)
                 ELSE ReadNext("labels", call.todo, items)
    /\ Outside

\* A candidate that cannot be read any more is left out.
ManyMatches ==
    /\ call.by = "labels"
    /\ At("returned") \/ At("failed")
    /\ LET items == call.items \cup (IF At("returned") THEN {call.status} ELSE {})
       IN  IF call.todo = {} THEN Answer("candidates", items)
           ELSE ReadNext("labels", call.todo, items)
    /\ Outside
-----------------------------------------------------------------------------
(* The lists.                                                              *)

\* client.MatchingLabels, then the search in the name and the label values.
Wanted(w, k) ==
    LET search == call.args.search IN
    /\ Exists(w, k) /\ InNamespace(k)
    /\ search.selector \in {"none", w.clusters[k].label}
    /\ k[2] \in search.in \/ w.clusters[k].label \in search.in

ListClusters(ok) ==
    /\ At("listClusters") /\ call.tool = "capi_list_clusters"
    /\ IF ~ok THEN ToolError
       ELSE /\ call' = [call EXCEPT !.pc = "listAllMachines",
                           !.items = {[ClusterStatus(k, stored.clusters[k])
                                         EXCEPT !.provider = DetermineProvider(stored.clusters[k].kind)] :
                                      k \in {j \in Keys : Wanted(stored, j)}}]
            /\ UNCHANGED answer
    /\ Outside

\* Mutant of GroupKey: machines are grouped by the cluster's name alone.
GroupKeyName(k, m) == stored.machines[m].of[2] = k[2]

\* machinesByCluster: the machine's namespace and label, the cluster's namespace and name.
GroupKey(k, m) == stored.machines[m].of = k

\* Mutant of ListAllMachines: only the clusters that have machines are listed.
ListAllMachinesJoin(ok) ==
    /\ At("listAllMachines")
    /\ IF ~ok THEN ToolError
       ELSE Answer("list", {s \in {WithMachines(t, MachinesOf(stored, t.key)) : t \in call.items} :
                               s.total > 0})
    /\ Outside

\* One list of machines for all clusters, then GetClusterStatusFromList.
ListAllMachines(ok) ==
    /\ At("listAllMachines")
    /\ IF ~ok THEN ToolError
       ELSE Answer("list", {WithMachines(s, {m \in Machines : InNamespace(stored.machines[m].of)
                                                                /\ GroupKey(s.key, m)}) : s \in call.items})
    /\ Outside

createProviderListClusters(ok) ==
    /\ At("listClusters") /\ call.tool = "provider_list"
    /\ IF ~ok THEN ToolError
       ELSE Answer("provider", {ClusterStatus(k, stored.clusters[k]) :
                k \in {j \in Keys : Exists(stored, j) /\ InNamespace(j) /\ hasInfrastructureKind(j)}})
    /\ Outside

ListMachines(ok) ==
    /\ At("listMachines")
    /\ IF ~ok THEN ToolError
       ELSE Answer("machines", {m \in Machines :
                /\ stored.machines[m] # NoMachine
                /\ InNamespace(stored.machines[m].of)
                /\ call.args.name \in {"none", stored.machines[m].of[2]}})
    /\ Outside
-----------------------------------------------------------------------------
(* Controllers and other clients.                                          *)

InFlight == ~At("idle") /\ ~At("done")

Change(w) ==
    /\ InFlight
    /\ changes < MaxChanges
    /\ w # stored
    /\ stored' = w
    /\ changes' = changes + 1
    /\ past' = past \cup {w}
    /\ UNCHANGED <<call, answer>>

SetCluster(k, c) == Change([stored EXCEPT !.clusters[k] = c])
SetMachine(m, s) == Change([stored EXCEPT !.machines[m] = s])

ClusterChanges(k) ==
    LET c == stored.clusters[k]
    IN  \/ SetCluster(k, NoCluster)
        \/ \E kind \in Kinds : c = NoCluster /\ SetCluster(k, [NoCluster EXCEPT !.kind = kind])
        \/ /\ c # NoCluster
           /\ \/ \E b \in BOOLEAN : \/ SetCluster(k, [c EXCEPT !.cp = b])
                                    \/ SetCluster(k, [c EXCEPT !.infra = b])
                                    \/ SetCluster(k, [c EXCEPT !.err = b])
              \/ \E l \in Terms : SetCluster(k, [c EXCEPT !.label = l])

MachineChanges(m) ==
    LET s == stored.machines[m]
    IN  \/ SetMachine(m, NoMachine)
        \/ \E k \in Keys : s = NoMachine /\ SetMachine(m, [NoMachine EXCEPT !.of = k])
        \/ /\ s # NoMachine
           /\ \E b \in BOOLEAN : \/ SetMachine(m, [s EXCEPT !.node = TRUE, !.ready = b])
                                 \/ SetMachine(m, [s EXCEPT !.ready = b])

Begin ==
    \/ \E tool \in StatusTools \cup {"capi_move_cluster", "capi_backup_cluster"},
          ns \in Namespaces, name \in Terms : BeginOne(tool, ns, name)
    \/ \E p \in DOMAIN ProviderKinds, ns \in Namespaces, name \in Names : BeginProviderGet(p, ns, name)
    \/ \E p \in DOMAIN ProviderKinds, ns \in Namespaces \cup {"all"} : BeginProviderList(p, ns)
    \/ \E ns \in Namespaces \cup {"all"}, search \in Searches : BeginList(ns, search)
    \/ \E ns \in Namespaces, name \in Names \cup {"none"} : BeginListMachines(ns, name)

Read ==
    \/ \E ok \in BOOLEAN :
          \/ GetCluster(ok) \/ GetProviderForCluster(ok) \/ CountMachines(ok)
          \/ Placeholder(ok) \/ createProviderGetCluster(ok) \/ GetClusterHealth(ok)
          \/ FindClustersByLabelValue(ok) \/ ListClusters(ok) \/ ListAllMachines(ok)
          \/ createProviderListClusters(ok) \/ ListMachines(ok)
    \/ CreateClusterStatusHandler \/ GetByName \/ OneMatch \/ ManyMatches

Next ==
    \/ Begin \/ Read
    \/ \E k \in Keys : ClusterChanges(k)
    \/ \E m \in Machines : MachineChanges(m)

\* Every request to the API returns, with an answer or an error.
Spec == Init /\ [][Next]_vars /\ WF_vars(Read)
-----------------------------------------------------------------------------
\* The type invariant.
TypeOK ==
    /\ stored \in Stores
    /\ changes \in 0 .. MaxChanges
    /\ call \in Calls
    /\ \A s \in call.items \cup {call.status} :
          s.ready <= s.total /\ s.total <= Cardinality(Machines)
    /\ answer.kind \in {"none", "error", "status", "byLabel", "candidates", "list", "provider",
                        "machines", "placeholder", "health"}
    /\ answer.items \subseteq (IF answer.kind = "machines" THEN Machines ELSE Statuses)
    /\ answer.healthy \in BOOLEAN /\ answer.workersReady \in BOOLEAN /\ answer.counted \in BOOLEAN
    /\ At("done") <=> answer.kind # "none"
    /\ stored \in past

Named == <<call.args.ns, call.args.name>>

\* What GetClusterHealth looks at, all of it at one moment.
HealthyCluster(w) == Exists(w, Named) /\ LET c == w.clusters[Named] IN c.cp /\ c.infra /\ ~c.err
HealthyWorkers(w) ==
    MachinesOf(w, Named) # {} /\ \A m \in MachinesOf(w, Named) : w.machines[m].ready

\* What capi_cluster_health's two verdicts are worth.  healthy vouches for the
\* Cluster alone and workersReady for the machines, each of some moment of the
\* call; healthy without workersReady is said only if the machines could not be
\* listed; and unhealthy only if at some moment Cluster or machines were not
\* well, so that reads that fail make no cluster unhealthy.
HealthWasSeen ==
    answer.kind = "health" =>
        /\ answer.healthy => \E w \in past : HealthyCluster(w)
        /\ answer.workersReady => \E w \in past : HealthyWorkers(w)
        /\ answer.healthy /\ ~answer.workersReady => ~answer.counted
        /\ ~answer.healthy => \E w \in past : ~HealthyCluster(w) \/ ~HealthyWorkers(w)

\* "Check a CAPI cluster's health: control plane, infrastructure and workers": a
\* cluster is called healthy only if its machines, too, all were at some moment of
\* the call.  GetClusterHealth leaves Healthy TRUE if it cannot list them.
HealthCoversWorkers ==
    answer.kind = "health" /\ answer.healthy =>
        (\E w \in past : HealthyCluster(w)) /\ (\E w \in past : HealthyWorkers(w))

\* Nothing in a summary is another cluster's, whatever changes between the
\* reads it is put together from: readiness, machine counts (0 if the machines
\* could not be listed, which capi_list_clusters reports instead) and provider
\* ("unknown" if the Cluster was gone by then) were this cluster's at some
\* moment of the call, though not all at the same moment.
SummaryIsOfItsCluster ==
    \A s \in IF answer.kind \in {"status", "byLabel", "candidates", "list"} THEN answer.items ELSE {} :
        /\ \E w \in past : /\ Exists(w, s.key)
                           /\ LET c == w.clusters[s.key]
                              IN  c.cp = s.cp /\ c.infra = s.infra /\ c.err = s.err
        /\ \/ \E w \in past : /\ s.total = Cardinality(MachinesOf(w, s.key))
                              /\ s.ready = Cardinality({m \in MachinesOf(w, s.key) : w.machines[m].node})
           \/ answer.kind # "list" /\ s.total = 0 /\ s.ready = 0
        /\ \/ s.provider = "unknown"
           \/ \E w \in past : Exists(w, s.key) /\ s.provider = DetermineProvider(w.clusters[s.key].kind)

\* A list is complete: there was a moment of the call at which the clusters that
\* capi_list_clusters lists were exactly those that the arguments let through,
\* although the machines are listed later and clusters come and go.
ListIsComplete ==
    answer.kind = "list" =>
        \E w \in past : {s.key : s \in answer.items} = {k \in Keys : Wanted(w, k)}

\* What capi_get_cluster finds by a label value is in the namespace it was asked
\* for and had that label at some moment of the call; if it says that one
\* cluster matched, at some moment exactly one did.
LabelAnswersMatch ==
    LET matches(w) == {k \in Keys : /\ Exists(w, k) /\ k[1] = call.args.ns
                                    /\ w.clusters[k].label = call.args.name}
        keys == {s.key : s \in answer.items}
    IN  /\ answer.kind = "byLabel" => \E w \in past : matches(w) = keys
        /\ answer.kind = "candidates" => \E w \in past : keys \subseteq matches(w)

\* Every call is answered, however often reads fail and candidates vanish.
EveryCallIsAnswered == InFlight ~> At("done")

\* "The name matches the resource name first, then label values": an answer by
\* label value is given only if at some moment of the call no cluster had the
\* name.  CreateGetClusterHandler takes any error of GetClusterStatus for that.
NameMatchesFirst ==
    answer.kind \in {"byLabel", "candidates"} => \E w \in past : ~Exists(w, Named)
=============================================================================
