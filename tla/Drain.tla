------------------------------- MODULE Drain -------------------------------
(***************************************************************************)
(* capi_drain_node and capi_cordon_node (pkg/capi/drain.go, client.go):    *)
(* one drain of one node, concurrent capi_cordon_node calls, and the       *)
(* cluster around them, in which pods end, are deleted, recreated under    *)
(* the same name and scheduled.                                            *)
(*                                                                         *)
(* The pods of one round of a loop are tried in the order of the list; the *)
(* list has no particular order, so a round is a set.                      *)
(***************************************************************************)
EXTENDS WritePolicy, FiniteSets

CONSTANTS
    Names,      \* pod names (namespace/name)
    PodKinds,   \* the kinds of pods there are, a subset of Kinds
    Policies,   \* the write policies the server may be started with
    CallOptions,\* the options the drain may be called with
    MaxUid,     \* pods are numbered 1 .. MaxUid; no pod is created beyond
    MaxRev      \* no capi_cordon_node call starts beyond this node revision

VARIABLES
    policy,   \* the server's write policy
    node,     \* the Node object: revision, unschedulable, ownership marker
    pods,     \* the pod of each name, if any
    lastUid,  \* the UIDs given out so far
    drain,    \* the DrainNode call
    cordon,   \* the CordonNode call in flight, if any
    undone    \* history: the node was uncordoned after the drain cordoned it

vars == <<policy, node, pods, lastUid, drain, cordon, undone>>

\* Bare pods have no controller, local ones have emptyDir volumes.
Bare == {"bare", "bareLocal"}
Local == {"local", "bareLocal"}
Kinds == {"mirror", "daemon", "plain"} \cup Bare \cup Local

Options == [IgnoreDaemonSets : BOOLEAN, DeleteLocalData : BOOLEAN, Force : BOOLEAN]

ASSUME DrainAssumption ==
    /\ PodKinds \subseteq Kinds
    /\ Policies \subseteq WritePolicies
    /\ CallOptions \subseteq Options
    /\ IsFiniteSet(Names)
    /\ MaxUid \in Nat /\ Cardinality(Names) <= MaxUid
    /\ MaxRev \in Nat

Pods == [uid : 1 .. MaxUid, kind : Kinds, here : BOOLEAN, finished : BOOLEAN,
         terminating : BOOLEAN]
NoPod == [uid |-> 0, kind |-> "plain", here |-> FALSE, finished |-> FALSE,
          terminating |-> FALSE]
Gone(n) == pods[n].uid = 0

\* The identity of a pod in the lists DrainNode keeps.
Refs == [name : Names, uid : 1 .. MaxUid]
Ref(n) == [name |-> n, uid |-> pods[n].uid]

\* round: still to try in this turn of the loop; retry: for the next turn
\* (refused by a budget, or still terminating).  result: nil while the node is
\* not known to be cordoned, then the outcome.
NewDrain(o) == [pc |-> "start", opts |-> o, rv |-> 0, expired |-> FALSE, round |-> {},
                retry |-> {}, evicted |-> {}, result |-> "running"]

DrainPCs == {"start", "cordon", "list", "evict", "evictWait", "gone", "goneWait", "done"}
Drains == [pc : DrainPCs, opts : Options, rv : Nat, expired : BOOLEAN, round : SUBSET Refs,
           retry : SUBSET Refs, evicted : SUBSET Refs, result : {"running", "nil", "error", "ok"}]

NoCordon == [pc |-> "idle", rv |-> 0, unschedulable |-> FALSE]

\* The pods at first are running on the node; finished, terminating and
\* absent ones, and pods elsewhere, come about by the cluster's own steps.
Init ==
    /\ policy \in Policies
    /\ node \in [rv : {1}, unschedulable : BOOLEAN, managed : 0 .. 1]
    /\ lastUid = Cardinality(Names)
    /\ \E uid \in [Names -> 1 .. lastUid], kind \in [Names -> PodKinds] :
          /\ \A m, n \in Names : uid[m] = uid[n] => m = n
          /\ pods = [n \in Names |-> [NoPod EXCEPT !.uid = uid[n], !.kind = kind[n], !.here = TRUE]]
    /\ \E o \in CallOptions : drain = NewDrain(o)
    /\ cordon = NoCordon
    /\ undone = FALSE
-----------------------------------------------------------------------------
(* DrainNode.                                                              *)

Quiet == UNCHANGED <<policy, node, pods, lastUid, cordon, undone>>

Ends(result) == drain' = [drain EXCEPT !.pc = "done", !.result = result,
                                       !.round = {}, !.retry = {}]

NodeFields == [managed |-> node.managed]

\* resolveNodeName (the Machine has a node or not: found), then
\* setUnschedulable's Get and policy check.
ResolveAndGetNode(found) ==
    /\ drain.pc = "start"
    /\ IF found /\ CheckUpdate(policy, NodeFields) = "ok"
       THEN drain' = [drain EXCEPT !.pc = "cordon", !.rv = node.rv]
       ELSE Ends("nil")
    /\ Quiet

\* Mutant of CordonForDrain: the Node is read and checked, not cordoned.
CordonForDrainForgotten ==
    /\ drain.pc = "cordon"
    /\ drain' = [drain EXCEPT !.pc = "list"] \/ Ends("nil")
    /\ Quiet

\* setUnschedulable's Update, refused when the Node has changed.  A call that
\* fails otherwise may have cordoned the Node all the same.
CordonForDrain ==
    /\ drain.pc = "cordon"
    /\ \/ /\ node.rv = drain.rv
          /\ node' = [node EXCEPT !.rv = @ + 1, !.unschedulable = TRUE]
          /\ drain' = [drain EXCEPT !.pc = "list"] \/ Ends("nil")
       \/ /\ Ends("nil")
          /\ UNCHANGED node
    /\ UNCHANGED <<policy, pods, lastUid, cordon, undone>>

\* The context ends: the timeout, which runs from the cordon on.
Expire ==
    /\ drain.pc \notin {"start", "cordon", "done"}
    /\ ~drain.expired
    /\ drain' = [drain EXCEPT !.expired = TRUE]
    /\ Quiet

\* Mutant of ctxDone: the loops do not look at the context.
ctxIgnored == FALSE

ctxDone == drain.expired

\* drainPlan, for one pod.
Skips(p, o) == p.kind = "mirror" \/ (~p.finished /\ p.kind = "daemon" /\ o.IgnoreDaemonSets)

\* Mutant of Refuses: the first case that matches decides, force or not.
RefusesByFirstCase(p, o) ==
    /\ p.kind # "mirror" /\ ~p.finished
    /\ IF p.kind = "daemon" THEN ~o.IgnoreDaemonSets
       ELSE IF p.kind \in Bare THEN ~o.Force
       ELSE p.kind \in Local /\ ~o.DeleteLocalData
Refuses(p, o) ==
    /\ p.kind # "mirror" /\ ~p.finished
    /\ \/ p.kind = "daemon" /\ ~o.IgnoreDaemonSets
       \/ p.kind \in Bare /\ ~o.Force
       \/ p.kind \in Local /\ ~o.DeleteLocalData

\* Pods().List with the node's name, then drainPlan.
ListAndPlan ==
    /\ drain.pc = "list"
    /\ LET here == {n \in Names : ~Gone(n) /\ pods[n].here}
       IN  \/ /\ ~ctxDone
              /\ \A n \in here : ~Refuses(pods[n], drain.opts)
              /\ drain' = [drain EXCEPT !.pc = "evict",
                              !.round = {Ref(n) : n \in {m \in here : ~Skips(pods[m], drain.opts)}}]
           \/ /\ \E n \in here : Refuses(pods[n], drain.opts)
              /\ Ends("error")
    /\ Quiet

ListFails ==
    /\ drain.pc = "list"
    /\ Ends("error")
    /\ Quiet

\* Mutant of Tried: the pod is remembered by its name only.
TriedByName(p, done) == [drain EXCEPT !.round = @ \ {p},
                                      !.evicted = IF done THEN @ \cup {p.name} ELSE @,
                                      !.retry = IF done THEN @ ELSE @ \cup {p}]

\* One Evict call: it names the pod, not its UID.  A PodDisruptionBudget may
\* refuse it; a pod that is not there counts as evicted.
Tried(p, done) == [drain EXCEPT !.round = @ \ {p},
                                !.evicted = IF done THEN @ \cup {p} ELSE @,
                                !.retry = IF done THEN @ ELSE @ \cup {p}]

EvictPod(p) ==
    /\ drain.pc = "evict"
    /\ p \in drain.round
    /\ ~ctxDone
    /\ \/ /\ Gone(p.name)
          /\ drain' = Tried(p, TRUE)
          /\ UNCHANGED pods
       \/ /\ ~Gone(p.name)
          /\ drain' = Tried(p, TRUE)
          /\ pods' = [pods EXCEPT ![p.name].terminating = TRUE]
       \/ /\ ~Gone(p.name)
          /\ drain' = Tried(p, FALSE)
          /\ UNCHANGED pods
    /\ UNCHANGED <<policy, node, lastUid, cordon, undone>>

\* Any other error, that of an expired context included, ends the drain; the
\* eviction may have been done all the same.
EvictFails(p) ==
    /\ drain.pc = "evict"
    /\ p \in drain.round
    /\ Ends("error")
    /\ \/ ~Gone(p.name) /\ pods' = [pods EXCEPT ![p.name].terminating = TRUE]
       \/ UNCHANGED pods
    /\ UNCHANGED <<policy, node, lastUid, cordon, undone>>

EvictRoundEnds ==
    /\ drain.pc = "evict"
    /\ drain.round = {}
    /\ drain' = IF drain.retry = {}
                THEN [drain EXCEPT !.pc = "gone", !.round = drain.evicted]
                ELSE [drain EXCEPT !.pc = "evictWait"]
    /\ Quiet

\* select: the context or the poll interval, whichever comes first.
EvictWait ==
    /\ drain.pc = "evictWait"
    /\ \/ ctxDone /\ Ends("error")
       \/ drain' = [drain EXCEPT !.pc = "evict", !.round = drain.retry, !.retry = {}]
    /\ Quiet

\* Mutant of CheckGone: a pod that is terminating counts as gone.
CheckTerminating(p) ==
    /\ drain.pc = "gone"
    /\ p \in drain.round
    /\ ~ctxDone
    /\ drain' = [drain EXCEPT !.round = @ \ {p},
                              !.retry = IF pods[p.name].uid = p.uid /\ ~pods[p.name].terminating
                                        THEN @ \cup {p} ELSE @]
    /\ Quiet

\* waitForPodsGone: one Get; a pod of the same name and another UID replaced it.
CheckGone(p) ==
    /\ drain.pc = "gone"
    /\ p \in drain.round
    /\ ~ctxDone
    /\ drain' = [drain EXCEPT !.round = @ \ {p},
                              !.retry = IF pods[p.name].uid = p.uid THEN @ \cup {p} ELSE @]
    /\ Quiet

CheckGoneFails ==
    /\ drain.pc = "gone"
    /\ drain.round # {}
    /\ Ends("error")
    /\ Quiet

GoneRoundEnds ==
    /\ drain.pc = "gone"
    /\ drain.round = {}
    /\ IF drain.retry = {} THEN Ends("ok") ELSE drain' = [drain EXCEPT !.pc = "goneWait"]
    /\ Quiet

GoneWait ==
    /\ drain.pc = "goneWait"
    /\ \/ ctxDone /\ Ends("error")
       \/ drain' = [drain EXCEPT !.pc = "gone", !.round = drain.retry, !.retry = {}]
    /\ Quiet

DrainStep ==
    \/ \E found \in BOOLEAN : ResolveAndGetNode(found)
    \/ CordonForDrain
    \/ ListAndPlan \/ ListFails
    \/ \E p \in drain.round : EvictPod(p) \/ EvictFails(p) \/ CheckGone(p)
    \/ EvictRoundEnds \/ EvictWait
    \/ CheckGoneFails \/ GoneRoundEnds \/ GoneWait
-----------------------------------------------------------------------------
(* CordonNode, called by someone else.                                     *)

CordonNode(unschedulable) ==
    /\ cordon.pc = "idle"
    /\ node.rv < MaxRev
    /\ CheckUpdate(policy, NodeFields) = "ok"
    /\ cordon' = [pc |-> "update", rv |-> node.rv, unschedulable |-> unschedulable]
    /\ UNCHANGED <<policy, node, pods, lastUid, drain, undone>>

UpdateNode ==
    /\ cordon.pc = "update"
    /\ cordon' = NoCordon
    /\ IF node.rv = cordon.rv
       THEN /\ node' = [node EXCEPT !.rv = @ + 1, !.unschedulable = cordon.unschedulable]
            /\ undone' = (undone \/ (~cordon.unschedulable /\ drain.pc \notin {"start", "cordon"}))
       ELSE UNCHANGED <<node, undone>>
    /\ UNCHANGED <<policy, pods, lastUid, drain>>
-----------------------------------------------------------------------------
(* The cluster.                                                            *)

Cluster == UNCHANGED <<policy, node, drain, cordon, undone>>

\* A kubelet removes a terminating pod.
PodEnds(n) ==
    /\ pods[n].terminating
    /\ pods' = [pods EXCEPT ![n] = NoPod]
    /\ UNCHANGED lastUid /\ Cluster

PodFinishes(n) ==
    /\ ~Gone(n) /\ ~pods[n].finished
    /\ pods' = [pods EXCEPT ![n].finished = TRUE]
    /\ UNCHANGED lastUid /\ Cluster

\* Someone else deletes the pod: a rollout, a controller, a person.
PodDeleted(n) ==
    /\ ~Gone(n) /\ ~pods[n].terminating
    /\ pods' = [pods EXCEPT ![n].terminating = TRUE]
    /\ UNCHANGED lastUid /\ Cluster

\* A pod is created and scheduled.  The scheduler leaves an unschedulable node
\* alone; DaemonSet and mirror pods do not ask it.
PodCreated(n, kind, here) ==
    /\ Gone(n)
    /\ lastUid < MaxUid
    /\ here /\ node.unschedulable => kind \in {"daemon", "mirror"}
    /\ lastUid' = lastUid + 1
    /\ pods' = [pods EXCEPT ![n] = [NoPod EXCEPT !.uid = lastUid + 1, !.kind = kind, !.here = here]]
    /\ Cluster

ClusterStep ==
    \E n \in Names :
        \/ PodEnds(n) \/ PodFinishes(n) \/ PodDeleted(n)
        \/ \E kind \in PodKinds, here \in BOOLEAN : PodCreated(n, kind, here)

Next ==
    \/ DrainStep
    \/ Expire
    \/ \E unschedulable \in BOOLEAN : CordonNode(unschedulable)
    \/ UpdateNode
    \/ ClusterStep

\* The drain runs as long as it can, and its deadline comes.
Fairness == WF_vars(DrainStep) /\ WF_vars(Expire)

Spec == Init /\ [][Next]_vars /\ Fairness
-----------------------------------------------------------------------------
\* The type invariant.
TypeOK ==
    /\ policy \in Policies
    /\ node \in [rv : Nat, unschedulable : BOOLEAN, managed : 0 .. 1]
    /\ pods \in [Names -> Pods \cup {NoPod}]
    /\ lastUid \in 0 .. MaxUid
    /\ drain \in Drains
    /\ cordon \in [pc : {"idle", "update"}, rv : Nat, unschedulable : BOOLEAN]
    /\ undone \in BOOLEAN

\* "Evicted are the evicted pods, all gone from the node when DrainNode returns
\* without an error": budgets refuse and are retried, pods are replaced by
\* others of the same name, and none of the evicted ones is left.
SuccessMeansGone ==
    drain.result = "ok" => \A p \in drain.evicted : pods[p.name].uid # p.uid

\* What a drain is for: a successful one leaves a node with nothing on it but
\* mirror and DaemonSet pods, and it stays so while the node stays cordoned.
\* The cordon comes before the list, or a pod could slip in between.
DrainedMeansEmpty ==
    drain.result = "ok" /\ ~undone
       => \A n \in Names : ~Gone(n) /\ pods[n].here => pods[n].kind \in {"mirror", "daemon"}

\* No pod is planned for eviction whose loss the options do not accept, judged by
\* what the pod is now, not when it was listed.  (A pod that has taken a listed
\* pod's name meanwhile is another one: Evict names it without having seen it.)
NoUnacceptedLoss ==
    \A p \in drain.evicted \cup drain.round \cup drain.retry :
        LET pod == pods[p.name]
        IN  pod.uid = p.uid =>
                /\ pod.kind # "mirror"
                /\ pod.kind = "daemon" => pod.finished
                /\ pod.kind \in Bare => drain.opts.Force \/ pod.finished
                /\ pod.kind \in Local => drain.opts.DeleteLocalData \/ pod.finished

\* Whatever the budgets do, a drain ends: the deadline cuts every loop.
DrainEnds == <>(drain.pc = "done")
=============================================================================
