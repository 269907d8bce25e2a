------------------------- MODULE ClusterViewsProofs -------------------------
(***************************************************************************)
(* Proofs about ClusterViews, for any namespaces, names, label values,     *)
(* machines, contents of the management cluster and number of changes.     *)
(*                                                                         *)
(* The invariant follows an answer while it is being put together: what a  *)
(* call q has collected was so in a member of ps, the states it has lived  *)
(* through.                                                                *)
(***************************************************************************)
EXTENDS ClusterViews, FiniteSetTheorems, TLAPS

\* The parts of a summary: from the Cluster, its second read and the machines.
Seen(s, ps) ==
    \E w \in ps : /\ Exists(w, s.key)
                  /\ LET c == w.clusters[s.key]
                     IN  c.cp = s.cp /\ c.infra = s.infra /\ c.err = s.err
ProviderSeen(s, ps) ==
    \/ s.provider = "unknown"
    \/ \E w \in ps : Exists(w, s.key) /\ s.provider = DetermineProvider(w.clusters[s.key].kind)
Counted(s, ps) ==
    \E w \in ps : /\ s.total = Cardinality(MachinesOf(w, s.key))
                  /\ s.ready = Cardinality({m \in MachinesOf(w, s.key) : w.machines[m].node})
Uncounted(s) == s.total = 0 /\ s.ready = 0
Summary(s, ps) == Seen(s, ps) /\ ProviderSeen(s, ps) /\ (Counted(s, ps) \/ Uncounted(s))
SizesOK(s) == s.ready <= s.total /\ s.total <= Cardinality(Machines)

\* What the arguments ask for, in the store w.
Matches(args, w) ==
    {k \in Keys : Exists(w, k) /\ k[1] = args.ns /\ w.clusters[k].label = args.name}
WantedBy(args, w) ==
    {k \in Keys : /\ Exists(w, k) /\ args.ns \in {"all", k[1]}
                  /\ args.search.selector \in {"none", w.clusters[k].label}
                  /\ k[2] \in args.search.in \/ w.clusters[k].label \in args.search.in}

\* Where GetClusterStatus has a status to give.
Reading == {"getProvider", "countMachines", "returned"}

StatusOK(q, ps) ==
    /\ q.pc \in Reading =>
          /\ q.status.key = q.target
          /\ Seen(q.status, ps) /\ ProviderSeen(q.status, ps)
          /\ Uncounted(q.status) \/ (q.pc = "returned" /\ Counted(q.status, ps))
    /\ q.pc \in Reading \cup {"failed"} => q.tool \in StatusTools

TargetOK(q, ps) ==
    /\ q.tool = "capi_get_cluster" => q.args.ns \in Namespaces
    /\ q.pc = "findByLabel" \/ q.by # "name" => q.tool = "capi_get_cluster"
    /\ q.by = "name" /\ q.pc \in Reading => q.target = <<q.args.ns, q.args.name>>
    /\ q.by = "name" /\ q.pc = "getCluster" => q.target = <<q.args.ns, q.args.name>>
    /\ q.by = "label" => \E w \in ps : Matches(q.args, w) = {q.target}
    /\ q.by = "labels" =>
          \E w \in ps : /\ q.target \in Matches(q.args, w) /\ q.todo \subseteq Matches(q.args, w)
                        /\ \A s \in q.items : s.key \in Matches(q.args, w)

ItemsOK(q, ps) ==
    /\ q.by = "labels" => \A s \in q.items : Summary(s, ps)
    /\ q.pc = "listAllMachines" =>
          /\ \E w \in ps : {s.key : s \in q.items} = WantedBy(q.args, w)
          /\ \A s \in q.items : Seen(s, ps) /\ ProviderSeen(s, ps)

CallOK(q, ps) ==
    /\ StatusOK(q, ps) /\ TargetOK(q, ps) /\ ItemsOK(q, ps)
    /\ \A s \in q.items \cup {q.status} : SizesOK(s)

\* What a given answer is worth, the arguments being args.
HealthOK(args, a, ps) ==
    LET k == <<args.ns, args.name>>
        cluster(w) == Exists(w, k) /\ w.clusters[k].cp /\ w.clusters[k].infra /\ ~w.clusters[k].err
        workers(w) == MachinesOf(w, k) # {} /\ \A m \in MachinesOf(w, k) : w.machines[m].ready
    IN  a.kind = "health" =>
            /\ a.healthy => \E w \in ps : cluster(w)
            /\ a.workersReady => \E w \in ps : workers(w)
            /\ a.healthy /\ ~a.workersReady => ~a.counted
            /\ ~a.healthy => \E w \in ps : ~cluster(w) \/ ~workers(w)

SummariesOK(a, ps) ==
    /\ a.kind \in {"status", "byLabel", "candidates"} => \A s \in a.items : Summary(s, ps)
    /\ a.kind = "list" =>
          \A s \in a.items : Seen(s, ps) /\ ProviderSeen(s, ps) /\ Counted(s, ps)

ListOK(args, a, ps) ==
    a.kind = "list" => \E w \in ps : {s.key : s \in a.items} = WantedBy(args, w)

LabelsOK(args, a, ps) ==
    /\ a.kind = "byLabel" => \E w \in ps : Matches(args, w) = {s.key : s \in a.items}
    /\ a.kind = "candidates" => \E w \in ps : {s.key : s \in a.items} \subseteq Matches(args, w)

AnswerOK(args, a, ps) ==
    HealthOK(args, a, ps) /\ SummariesOK(a, ps) /\ ListOK(args, a, ps) /\ LabelsOK(args, a, ps)

\* The inductive invariant.
IInv == TypeOK /\ CallOK(call, past) /\ AnswerOK(call.args, answer, past)
-----------------------------------------------------------------------------
(* Types and sizes.                                                        *)

LEMMA MachineCount ==
    ASSUME NEW S \in SUBSET Machines
    PROVE  IsFiniteSet(S) /\ Cardinality(S) \in Nat /\ Cardinality(Machines) \in Nat
           /\ Cardinality(S) <= Cardinality(Machines)
BY ViewsAssumption, FS_Subset, FS_CardinalityType

LEMMA ProviderType ==
    ASSUME NEW kind
    PROVE  DetermineProvider(kind) \in Providers
BY DEF DetermineProvider, Providers

\* What GetClusterStatus takes from the Cluster it has read.
LEMMA StatusType ==
    ASSUME NEW k \in Keys \cup {NoKey}, NEW c \in Clusters \cup {NoCluster}
    PROVE  /\ ClusterStatus(k, c) \in Statuses /\ SizesOK(ClusterStatus(k, c))
           /\ ClusterStatus(k, c).key = k /\ ClusterStatus(k, c).provider = "unknown"
           /\ ClusterStatus(k, c).cp = c.cp /\ ClusterStatus(k, c).infra = c.infra
           /\ ClusterStatus(k, c).err = c.err
           /\ Uncounted(ClusterStatus(k, c))
<1>1. c.cp \in BOOLEAN /\ c.infra \in BOOLEAN /\ c.err \in BOOLEAN
    <2>1. CASE c \in Clusters
        BY <2>1 DEF Clusters
    <2>2. CASE c = NoCluster
        BY <2>2 DEF NoCluster
    <2>. QED  BY <2>1, <2>2
<1>2. 0 <= Cardinality(Machines)
    BY MachineCount
<1>. QED  BY <1>1, <1>2 DEF ClusterStatus, Statuses, Providers, SizesOK, Uncounted

LEMMA NoStatusType == NoStatus \in Statuses /\ SizesOK(NoStatus)
BY StatusType DEF NoStatus

\* The counts of WithMachines, from what is stored.
LEMMA WithMachinesType ==
    ASSUME TypeOK, NEW s \in Statuses, NEW ms \in SUBSET Machines
    PROVE  /\ WithMachines(s, ms) \in Statuses /\ SizesOK(WithMachines(s, ms))
           /\ WithMachines(s, ms).key = s.key /\ WithMachines(s, ms).provider = s.provider
           /\ WithMachines(s, ms).cp = s.cp /\ WithMachines(s, ms).infra = s.infra
           /\ WithMachines(s, ms).err = s.err
           /\ WithMachines(s, ms).total = Cardinality(ms)
           /\ WithMachines(s, ms).ready = Cardinality({m \in ms : stored.machines[m].node})
<1>. DEFINE up == {m \in ms : stored.machines[m].node}
<1>1. IsFiniteSet(ms) /\ up \in SUBSET ms /\ up \in SUBSET Machines
    BY MachineCount
<1>2. Cardinality(up) <= Cardinality(ms)
    BY <1>1, FS_Subset
<1>3. Cardinality(ms) \in Nat /\ Cardinality(up) \in Nat /\ Cardinality(ms) <= Cardinality(Machines)
    BY <1>1, MachineCount
<1>. HIDE DEF up
<1>4. WithMachines(s, ms) = [s EXCEPT !.total = Cardinality(ms), !.ready = Cardinality(up)]
    BY DEF WithMachines, up
<1>5. WithMachines(s, ms) \in Statuses
    BY <1>3, <1>4 DEF Statuses
<1>6. /\ WithMachines(s, ms).key = s.key /\ WithMachines(s, ms).provider = s.provider
      /\ WithMachines(s, ms).cp = s.cp /\ WithMachines(s, ms).infra = s.infra
      /\ WithMachines(s, ms).err = s.err
      /\ WithMachines(s, ms).total = Cardinality(ms)
      /\ WithMachines(s, ms).ready = Cardinality(up)
    BY <1>4 DEF Statuses
<1>. QED  BY <1>2, <1>3, <1>5, <1>6 DEF SizesOK, up

\* A call that has collected nothing.
LEMMA FreshCall ==
    ASSUME NEW tool \in Tools \cup {"none"}, NEW args \in Arguments,
           NEW pc \in {"idle", "getCluster", "listClusters", "listMachines", "done"},
           NEW target \in (Namespaces \X Terms) \cup {NoKey}, NEW ps,
           tool = "capi_get_cluster" => args.ns \in Namespaces,
           pc = "getCluster" => target = <<args.ns, args.name>>,
           NEW q, q = [tool |-> tool, args |-> args, pc |-> pc, by |-> "name", target |-> target,
                       status |-> NoStatus, todo |-> {}, items |-> {}]
    PROVE  q \in Calls /\ CallOK(q, ps) /\ q.pc = pc /\ q.args = args
<1>2. q \in Calls
    BY NoStatusType DEF Calls, PCs
<1>3. /\ q.tool = tool /\ q.args = args /\ q.pc = pc /\ q.by = "name" /\ q.target = target
      /\ q.status = NoStatus /\ q.items = {}
    OBVIOUS
<1>4. StatusOK(q, ps) /\ TargetOK(q, ps) /\ ItemsOK(q, ps)
    BY <1>3 DEF StatusOK, TargetOK, ItemsOK, Reading
<1>5. \A s \in q.items \cup {q.status} : SizesOK(s)
    BY <1>3, NoStatusType
<1>. QED  BY <1>2, <1>3, <1>4, <1>5 DEF CallOK

LEMMA NoArgsType ==
    /\ NoArgs \in Arguments /\ NoArgs.ns = "all" /\ NoArgs.name = "none" /\ NoArgs.provider = "none"
BY DEF NoArgs, Arguments, NoSearch, SearchArguments

\* Answers that claim nothing of what was stored.
LEMMA PlainAnswer ==
    ASSUME NEW args, NEW a, NEW ps,
           a.kind \in {"none", "error", "placeholder", "provider", "machines"}
    PROVE  AnswerOK(args, a, ps)
BY DEF AnswerOK, HealthOK, SummariesOK, ListOK, LabelsOK
-----------------------------------------------------------------------------
(* The three ways a step goes: the call goes on, it ends, the store changes.*)

AnswerKinds == {"error", "status", "byLabel", "candidates", "list", "provider", "machines",
                "placeholder", "health"}

LEMMA GoesOn ==
    ASSUME IInv, Outside, answer' = answer, call.pc # "done",
           NEW q \in Calls, call' = q, q.pc # "done", CallOK(q, past)
    PROVE  IInv'
<1>1. answer.kind = "none" /\ answer'.kind = "none" /\ past' = past /\ stored' = stored
    BY DEF IInv, TypeOK, At, Outside
<1>2. TypeOK'
    BY <1>1 DEF IInv, TypeOK, At, Outside, CallOK, SizesOK
<1>3. CallOK(call', past')
    BY <1>1
<1>4. AnswerOK(call'.args, answer', past')
    BY <1>1, PlainAnswer
<1>5. CallOK(call, past)' /\ AnswerOK(call.args, answer, past)'
    BY <1>1, <1>3, <1>4
       DEF CallOK, StatusOK, TargetOK, ItemsOK, AnswerOK, HealthOK, SummariesOK, ListOK, LabelsOK
<1>. QED  BY <1>2, <1>5 DEF IInv

LEMMA Ends ==
    ASSUME IInv, Outside, NEW a, a.kind \in AnswerKinds,
           a.items \subseteq (IF a.kind = "machines" THEN Machines ELSE Statuses),
           a.healthy \in BOOLEAN, a.workersReady \in BOOLEAN, a.counted \in BOOLEAN,
           AnswerOK(call.args, a, past), Answers(a)
    PROVE  IInv'
<1>0. PICK q, tool, args : q = call' /\ tool = call.tool /\ args = call.args
    OBVIOUS
<1>1. answer' = a /\ call' = q /\ past' = past /\ stored' = stored /\ changes' = changes
    BY <1>0 DEF Answers, Outside
<1>2. /\ tool \in Tools \cup {"none"} /\ args \in Arguments
      /\ tool = "capi_get_cluster" => args.ns \in Namespaces
    BY <1>0 DEF IInv, TypeOK, Calls, CallOK, TargetOK
<1>3. q = [NoCall EXCEPT !.tool = tool, !.args = args, !.pc = "done"]
    BY <1>0 DEF Answers
<1>r. q = [tool |-> tool, args |-> args, pc |-> "done", by |-> "name", target |-> NoKey,
           status |-> NoStatus, todo |-> {}, items |-> {}]
    BY <1>3 DEF NoCall
<1>4. q \in Calls /\ CallOK(q, past) /\ q.pc = "done" /\ q.args = call.args
    BY <1>0, <1>2, <1>r, FreshCall
<1>5. TypeOK'
    BY <1>1, <1>4 DEF IInv, TypeOK, At, CallOK, SizesOK, AnswerKinds
<1>6. CallOK(call', past') /\ AnswerOK(call'.args, answer', past')
    BY <1>1, <1>4
<1>7. CallOK(call, past)' /\ AnswerOK(call.args, answer, past)'
    BY <1>1, <1>6
       DEF CallOK, StatusOK, TargetOK, ItemsOK, AnswerOK, HealthOK, SummariesOK, ListOK, LabelsOK
<1>. QED  BY <1>5, <1>7 DEF IInv

LEMMA EndsWith ==
    ASSUME IInv, Outside, NEW kind \in AnswerKinds, kind # "health",
           NEW items \in SUBSET (IF kind = "machines" THEN Machines ELSE Statuses),
           Answer(kind, items),
           \A a : a.kind = kind /\ a.items = items => AnswerOK(call.args, a, past)
    PROVE  IInv'
<1>. DEFINE a == [NoAnswer EXCEPT !.kind = kind, !.items = items]
<1>1. /\ a.kind = kind /\ a.items = items /\ Answers(a)
      /\ a.healthy \in BOOLEAN /\ a.workersReady \in BOOLEAN /\ a.counted \in BOOLEAN
    BY DEF NoAnswer, Answer
<1>. HIDE DEF a
<1>. QED  BY <1>1, Ends

LEMMA FailsKeeps ==
    ASSUME IInv, Outside, ToolError
    PROVE  IInv'
BY PlainAnswer, EndsWith DEF ToolError, AnswerKinds

\* What was collected stays true of a longer past.
LEMMA PastGrows ==
    ASSUME NEW s, NEW ps, NEW w
    PROVE  /\ Seen(s, ps) => Seen(s, ps \cup {w})
           /\ ProviderSeen(s, ps) => ProviderSeen(s, ps \cup {w})
           /\ Counted(s, ps) => Counted(s, ps \cup {w})
           /\ Summary(s, ps) => Summary(s, ps \cup {w})
BY DEF Seen, ProviderSeen, Counted, Summary

LEMMA ChangeKeeps ==
    ASSUME IInv, NEW w \in Stores, Change(w)
    PROVE  IInv'
<1>1. /\ call' = call /\ answer' = answer /\ past' = past \cup {w} /\ stored' = w
      /\ changes' = changes + 1 /\ changes < MaxChanges /\ call.pc # "done"
    BY DEF Change, InFlight, At
<1>2. answer.kind = "none"
    BY <1>1 DEF IInv, TypeOK, At
<1>3. changes' \in 0 .. MaxChanges
    BY <1>1, ViewsAssumption DEF IInv, TypeOK
<1>4. TypeOK'
    BY <1>1, <1>2, <1>3 DEF IInv, TypeOK, At
<1>5. CallOK(call, past \cup {w})
    <2>1. StatusOK(call, past \cup {w})
        BY PastGrows DEF IInv, CallOK, StatusOK
    <2>2. TargetOK(call, past \cup {w})
        BY DEF IInv, CallOK, TargetOK
    <2>3. ItemsOK(call, past \cup {w})
        <3>1. call.by = "labels" => \A s \in call.items : Summary(s, past \cup {w})
            BY PastGrows DEF IInv, CallOK, ItemsOK
        <3>2. call.pc = "listAllMachines" =>
                 /\ \E v \in past \cup {w} : {s.key : s \in call.items} = WantedBy(call.args, v)
                 /\ \A s \in call.items : Seen(s, past \cup {w}) /\ ProviderSeen(s, past \cup {w})
            BY PastGrows DEF IInv, CallOK, ItemsOK
        <3>. QED  BY <3>1, <3>2 DEF ItemsOK
    <2>. QED  BY <2>1, <2>2, <2>3 DEF IInv, CallOK
<1>6. AnswerOK(call.args, answer, past \cup {w})
    BY <1>2, PlainAnswer
<1>s. CallOK(call', past') /\ AnswerOK(call'.args, answer', past')
    BY <1>1, <1>5, <1>6
<1>7. CallOK(call, past)' /\ AnswerOK(call.args, answer, past)'
    BY <1>s
       DEF CallOK, StatusOK, TargetOK, ItemsOK, AnswerOK, HealthOK, SummariesOK, ListOK, LabelsOK
<1>. QED  BY <1>4, <1>7 DEF IInv

LEMMA ClusterChangesKeep ==
    ASSUME IInv, NEW k \in Keys, ClusterChanges(k)
    PROVE  IInv'
<1>1. stored \in Stores /\ stored.clusters[k] \in Clusters \cup {NoCluster}
    BY DEF IInv, TypeOK, Stores
<1>2. ASSUME NEW c \in Clusters \cup {NoCluster}, SetCluster(k, c) PROVE IInv'
    <2>1. [stored EXCEPT !.clusters[k] = c] \in Stores
        BY <1>1 DEF Stores
    <2>. QED  BY <1>2, <2>1, ChangeKeeps DEF SetCluster
<1>3. ASSUME NEW kind \in Kinds PROVE [NoCluster EXCEPT !.kind = kind] \in Clusters
    BY DEF NoCluster, Clusters
<1>4. PICK c : c = stored.clusters[k]
    OBVIOUS
<1>5. CASE SetCluster(k, NoCluster)
    BY <1>2, <1>5
<1>6. CASE \E kind \in Kinds : SetCluster(k, [NoCluster EXCEPT !.kind = kind])
    BY <1>2, <1>3, <1>6
<1>7. CASE /\ c # NoCluster
           /\ \/ \E b \in BOOLEAN : \/ SetCluster(k, [c EXCEPT !.cp = b])
                                    \/ SetCluster(k, [c EXCEPT !.infra = b])
                                    \/ SetCluster(k, [c EXCEPT !.err = b])
              \/ \E l \in Terms : SetCluster(k, [c EXCEPT !.label = l])
    <2>1. c \in Clusters
        BY <1>1, <1>4, <1>7
    <2>2. ASSUME NEW b \in BOOLEAN, \/ SetCluster(k, [c EXCEPT !.cp = b])
                                    \/ SetCluster(k, [c EXCEPT !.infra = b])
                                    \/ SetCluster(k, [c EXCEPT !.err = b])
          PROVE  IInv'
        <3>1. PICK x : /\ x = [c EXCEPT !.cp = b] \/ x = [c EXCEPT !.infra = b]
                          \/ x = [c EXCEPT !.err = b]
                       /\ SetCluster(k, x)
            BY <2>2
        <3>2. x \in Clusters
            BY <2>1, <3>1 DEF Clusters
        <3>. QED  BY <1>2, <3>1, <3>2
    <2>3. ASSUME NEW l \in Terms, SetCluster(k, [c EXCEPT !.label = l]) PROVE IInv'
        <3>1. [c EXCEPT !.label = l] \in Clusters
            BY <2>1 DEF Clusters
        <3>. QED  BY <1>2, <2>3, <3>1
    <2>. QED  BY <1>7, <2>2, <2>3
<1>. QED  BY <1>4, <1>5, <1>6, <1>7 DEF ClusterChanges

LEMMA MachineChangesKeep ==
    ASSUME IInv, NEW m \in Machines, MachineChanges(m)
    PROVE  IInv'
<1>1. stored \in Stores /\ stored.machines[m] \in MachineStates
    BY DEF IInv, TypeOK, Stores
<1>2. ASSUME NEW s \in MachineStates, SetMachine(m, s) PROVE IInv'
    <2>1. [stored EXCEPT !.machines[m] = s] \in Stores
        BY <1>1 DEF Stores
    <2>. QED  BY <1>2, <2>1, ChangeKeeps DEF SetMachine
<1>3. NoMachine \in MachineStates
    BY DEF NoMachine, MachineStates
<1>4. ASSUME NEW k \in Keys PROVE [NoMachine EXCEPT !.of = k] \in MachineStates
    BY DEF NoMachine, MachineStates
<1>5. ASSUME NEW s \in MachineStates, NEW b \in BOOLEAN
      PROVE  /\ [s EXCEPT !.node = TRUE, !.ready = b] \in MachineStates
             /\ [s EXCEPT !.ready = b] \in MachineStates
    BY DEF MachineStates
<1>. QED  BY <1>1, <1>2, <1>3, <1>4, <1>5 DEF MachineChanges
-----------------------------------------------------------------------------
(* How a call begins.                                                      *)

LEMMA CallBegins ==
    ASSUME IInv, NEW tool \in Tools, NEW args \in Arguments,
           NEW pc \in {"getCluster", "listClusters", "listMachines"},
           NEW target \in (Namespaces \X Terms) \cup {NoKey},
           tool = "capi_get_cluster" => args.ns \in Namespaces,
           pc = "getCluster" => target = <<args.ns, args.name>>,
           Call(tool, args, pc, target)
    PROVE  IInv'
<1>1. PICK q : q = call'
    OBVIOUS
<1>2. /\ q = [NoCall EXCEPT !.tool = tool, !.args = args, !.pc = pc, !.target = target]
      /\ call.pc # "done" /\ answer' = answer /\ Outside
    BY <1>1 DEF Call, At
<1>3. q = [tool |-> tool, args |-> args, pc |-> pc, by |-> "name", target |-> target,
           status |-> NoStatus, todo |-> {}, items |-> {}]
    BY <1>2 DEF NoCall
<1>4. q \in Calls /\ CallOK(q, past) /\ q.pc = pc
    BY <1>3, FreshCall
<1>. QED  BY <1>1, <1>2, <1>4, GoesOn

LEMMA BeginKeeps ==
    ASSUME IInv, Begin
    PROVE  IInv'
<1>2. /\ Names \subseteq Terms /\ Searches \subseteq SearchArguments
      /\ "aws" \in DOMAIN ProviderKinds /\ NoSearch \in SearchArguments
    BY ViewsAssumption DEF ProviderKinds, NoSearch, SearchArguments
<1>3. ASSUME NEW tool \in StatusTools \cup {"capi_move_cluster", "capi_backup_cluster"},
             NEW ns \in Namespaces, NEW name \in Terms, BeginOne(tool, ns, name)
      PROVE  IInv'
    <2>1. PICK args : args = [NoArgs EXCEPT !.ns = ns, !.name = name]
        OBVIOUS
    <2>2. args \in Arguments /\ args.ns = ns /\ args.name = name
        BY <1>2, <2>1, NoArgsType DEF Arguments
    <2>3. Call(tool, args, "getCluster", <<ns, name>>)
        BY <1>3, <2>1 DEF BeginOne
    <2>. QED  BY <2>2, <2>3, CallBegins DEF Tools
<1>4. ASSUME NEW p \in DOMAIN ProviderKinds, NEW ns \in Namespaces, NEW name \in Names,
             BeginProviderGet(p, ns, name)
      PROVE  IInv'
    <2>1. PICK args : args = [NoArgs EXCEPT !.ns = ns, !.name = name, !.provider = p]
        OBVIOUS
    <2>2. args \in Arguments /\ args.ns = ns /\ args.name = name
        BY <1>2, <2>1, NoArgsType DEF Arguments
    <2>3. Call("provider_get", args, "getCluster", <<ns, name>>)
        BY <1>4, <2>1 DEF BeginProviderGet
    <2>4. <<ns, name>> \in Namespaces \X Terms
        BY <1>2
    <2>. QED  BY <2>2, <2>3, <2>4, CallBegins DEF Tools
<1>5. ASSUME NEW p \in DOMAIN ProviderKinds, NEW ns \in Namespaces \cup {"all"},
             BeginProviderList(p, ns)
      PROVE  IInv'
    <2>1. PICK args : args = [NoArgs EXCEPT !.ns = ns, !.provider = p]
        OBVIOUS
    <2>2. args \in Arguments
        BY <1>2, <2>1, NoArgsType DEF Arguments
    <2>3. Call("provider_list", args, "listClusters", NoKey)
        BY <1>5, <2>1 DEF BeginProviderList
    <2>. QED  BY <2>2, <2>3, CallBegins DEF Tools
<1>6. ASSUME NEW ns \in Namespaces \cup {"all"}, NEW search \in Searches, BeginList(ns, search)
      PROVE  IInv'
    <2>1. PICK args : args = [NoArgs EXCEPT !.ns = ns, !.search = search]
        OBVIOUS
    <2>2. args \in Arguments
        BY <1>2, <2>1, NoArgsType DEF Arguments
    <2>3. Call("capi_list_clusters", args, "listClusters", NoKey)
        BY <1>6, <2>1 DEF BeginList
    <2>. QED  BY <2>2, <2>3, CallBegins DEF Tools
<1>7. ASSUME NEW ns \in Namespaces, NEW name \in Names \cup {"none"}, BeginListMachines(ns, name)
      PROVE  IInv'
    <2>1. PICK args : args = [NoArgs EXCEPT !.ns = ns, !.name = name]
        OBVIOUS
    <2>2. args \in Arguments
        BY <1>2, <2>1, NoArgsType DEF Arguments
    <2>3. Call("capi_list_machines", args, "listMachines", NoKey)
        BY <1>7, <2>1 DEF BeginListMachines
    <2>. QED  BY <2>2, <2>3, CallBegins DEF Tools
<1>. QED  BY <1>3, <1>4, <1>5, <1>6, <1>7 DEF Begin
-----------------------------------------------------------------------------
(* GetClusterStatus.                                                       *)

LEMMA StatusStep ==
    ASSUME IInv, Outside, answer' = answer, call.tool \in StatusTools,
           call.pc \in {"getCluster", "getProvider", "countMachines"},
           NEW pc \in Reading \cup {"failed"}, NEW st \in Statuses, SizesOK(st),
           pc \in Reading => /\ st.key = call.target
                             /\ Seen(st, past) /\ ProviderSeen(st, past)
                             /\ Uncounted(st) \/ (pc = "returned" /\ Counted(st, past)),
           NEW q, q = [call EXCEPT !.pc = pc, !.status = st], call' = q
    PROVE  IInv'
<1>1. call \in Calls /\ CallOK(call, past)
    BY DEF IInv, TypeOK
<1>2. q \in Calls
    BY <1>1 DEF Calls, PCs, Reading
<1>3. /\ q.tool = call.tool /\ q.args = call.args /\ q.pc = pc /\ q.by = call.by
      /\ q.target = call.target /\ q.status = st /\ q.todo = call.todo /\ q.items = call.items
    BY <1>1 DEF Calls
<1>4. StatusOK(q, past)
    BY <1>3 DEF StatusOK
<1>5. pc # "findByLabel" /\ pc # "listAllMachines" /\ pc # "done" /\ pc # "getCluster"
    BY DEF Reading
<1>6. TargetOK(q, past)
    BY <1>1, <1>3, <1>5 DEF CallOK, TargetOK, Reading
<1>7. ItemsOK(q, past)
    BY <1>1, <1>3, <1>5 DEF CallOK, ItemsOK
<1>8. \A s \in q.items \cup {q.status} : SizesOK(s)
    BY <1>1, <1>3 DEF CallOK
<1>. QED  BY <1>2, <1>3, <1>4, <1>5, <1>6, <1>7, <1>8, GoesOn DEF CallOK

\* Only the program counter moves.
LEMMA MoveIsExcept ==
    ASSUME NEW q \in Calls, NEW pc
    PROVE  [q EXCEPT !.pc = pc] = [q EXCEPT !.pc = pc, !.status = q.status]
BY DEF Calls

LEMMA GetClusterKeeps ==
    ASSUME IInv, NEW ok \in BOOLEAN, GetCluster(ok)
    PROVE  IInv'
<1>0. /\ call \in Calls /\ CallOK(call, past) /\ call.pc = "getCluster" /\ call.tool \in StatusTools
      /\ stored \in Stores /\ stored \in past /\ Outside /\ answer' = answer
    BY DEF GetCluster, Goto, IInv, TypeOK, At
<1>1. CASE Goto("failed")
    <2>1. call' = [call EXCEPT !.pc = "failed", !.status = call.status]
        BY <1>0, <1>1, MoveIsExcept DEF Goto
    <2>2. call.status \in Statuses /\ SizesOK(call.status)
        BY <1>0 DEF Calls, CallOK
    <2>. QED  BY <1>0, <2>1, <2>2, StatusStep DEF Reading
<1>2. CASE ~Goto("failed")
    <2>1. PICK k, st : k = call.target /\ st = ClusterStatus(k, stored.clusters[k])
        OBVIOUS
    <2>2. Exists(stored, k) /\ call' = [call EXCEPT !.pc = "getProvider", !.status = st]
        BY <1>2, <2>1 DEF GetCluster
    <2>3. k \in Keys /\ stored.clusters[k] \in Clusters \cup {NoCluster}
        BY <1>0, <2>2 DEF Exists, Stores
    <2>4. st \in Statuses /\ SizesOK(st) /\ st.key = k /\ Uncounted(st) /\ st.provider = "unknown"
        BY <2>1, <2>3, StatusType
    <2>5. Seen(st, past)
        BY <1>0, <2>1, <2>2, <2>3, <2>4, StatusType DEF Seen
    <2>. QED  BY <1>0, <2>1, <2>2, <2>4, <2>5, StatusStep DEF Reading, ProviderSeen
<1>. QED  BY <1>1, <1>2

LEMMA GetProviderKeeps ==
    ASSUME IInv, NEW ok \in BOOLEAN, GetProviderForCluster(ok)
    PROVE  IInv'
<1>0. /\ call \in Calls /\ CallOK(call, past) /\ call.pc = "getProvider"
      /\ stored \in past /\ Outside /\ answer' = answer
    BY DEF GetProviderForCluster, IInv, TypeOK, At
<1>1. /\ call.tool \in StatusTools /\ call.status \in Statuses /\ SizesOK(call.status)
      /\ call.status.key = call.target /\ Seen(call.status, past) /\ Uncounted(call.status)
    BY <1>0 DEF CallOK, StatusOK, Reading, Calls
<1>2. PICK p : p = IF ok /\ Exists(stored, call.target)
                   THEN DetermineProvider(stored.clusters[call.target].kind) ELSE "unknown"
    OBVIOUS
<1>3. p \in Providers
    BY <1>2, ProviderType DEF Providers
<1>4. PICK st : st = [call.status EXCEPT !.provider = p]
    OBVIOUS
<1>5. call' = [call EXCEPT !.pc = "countMachines", !.status = st]
    BY <1>0, <1>2, <1>4 DEF GetProviderForCluster, Calls
<1>6. /\ st \in Statuses /\ st.key = call.target /\ st.provider = p /\ st.cp = call.status.cp
      /\ st.infra = call.status.infra /\ st.err = call.status.err
      /\ st.total = call.status.total /\ st.ready = call.status.ready
    BY <1>1, <1>3, <1>4 DEF Statuses
<1>7. SizesOK(st) /\ Uncounted(st)
    BY <1>1, <1>6 DEF SizesOK, Uncounted
<1>8. Seen(st, past)
    BY <1>1, <1>6 DEF Seen
<1>9. ProviderSeen(st, past)
    BY <1>0, <1>2, <1>6 DEF ProviderSeen
<1>. QED  BY <1>0, <1>1, <1>5, <1>6, <1>7, <1>8, <1>9, StatusStep DEF Reading

LEMMA CountMachinesKeeps ==
    ASSUME IInv, NEW ok \in BOOLEAN, CountMachines(ok)
    PROVE  IInv'
<1>0. /\ call \in Calls /\ CallOK(call, past) /\ call.pc = "countMachines" /\ TypeOK
      /\ stored \in past /\ Outside /\ answer' = answer
    BY DEF CountMachines, IInv, TypeOK, At
<1>1. /\ call.tool \in StatusTools /\ call.status \in Statuses /\ SizesOK(call.status)
      /\ call.status.key = call.target /\ Seen(call.status, past)
      /\ ProviderSeen(call.status, past) /\ Uncounted(call.status)
    BY <1>0 DEF CallOK, StatusOK, Reading, Calls
<1>2. PICK ms : ms = MachinesOf(stored, call.target)
    OBVIOUS
<1>3. PICK st : st = IF ok THEN WithMachines(call.status, ms) ELSE call.status
    OBVIOUS
<1>4. call' = [call EXCEPT !.pc = "returned", !.status = st]
    BY <1>2, <1>3 DEF CountMachines
<1>5. CASE ok
    <2>1. ms \in SUBSET Machines
        BY <1>2 DEF MachinesOf
    <2>2. /\ st \in Statuses /\ SizesOK(st) /\ st.key = call.target
          /\ st.provider = call.status.provider /\ st.cp = call.status.cp
          /\ st.infra = call.status.infra /\ st.err = call.status.err
          /\ st.total = Cardinality(ms)
          /\ st.ready = Cardinality({m \in ms : stored.machines[m].node})
        BY <1>0, <1>1, <1>3, <1>5, <2>1, WithMachinesType
    <2>3. Seen(st, past) /\ ProviderSeen(st, past)
        BY <1>1, <2>2 DEF Seen, ProviderSeen
    <2>4. Counted(st, past)
        BY <1>0, <1>2, <2>2 DEF Counted
    <2>. QED  BY <1>0, <1>1, <1>4, <2>2, <2>3, <2>4, StatusStep DEF Reading
<1>6. CASE ~ok
    BY <1>0, <1>1, <1>3, <1>4, <1>6, StatusStep DEF Reading
<1>. QED  BY <1>5, <1>6
-----------------------------------------------------------------------------
(* The answers.                                                            *)

\* A status that has been put together is a summary of the target.
LEMMA ReturnedStatus ==
    ASSUME IInv, call.pc = "returned"
    PROVE  /\ call.status \in Statuses /\ Summary(call.status, past) /\ SizesOK(call.status)
           /\ call.status.key = call.target
BY DEF IInv, TypeOK, CallOK, StatusOK, Reading, Summary, Calls

LEMMA PlaceholderKeeps ==
    ASSUME IInv, NEW ok \in BOOLEAN, Placeholder(ok)
    PROVE  IInv'
BY PlainAnswer, EndsWith, FailsKeeps DEF Placeholder, AnswerKinds

LEMMA ProviderGetKeeps ==
    ASSUME IInv, NEW ok \in BOOLEAN, createProviderGetCluster(ok)
    PROVE  IInv'
<1>1. CASE ToolError
    BY <1>1, FailsKeeps DEF createProviderGetCluster
<1>2. CASE ~ToolError
    <2>1. PICK k, st : k = call.target /\ st = ClusterStatus(k, stored.clusters[k])
        OBVIOUS
    <2>2. Exists(stored, k) /\ Answer("provider", {st}) /\ Outside
        BY <1>2, <2>1 DEF createProviderGetCluster
    <2>3. k \in Keys /\ stored.clusters[k] \in Clusters \cup {NoCluster}
        BY <2>2 DEF Exists, IInv, TypeOK, Stores
    <2>4. {st} \in SUBSET Statuses
        BY <2>1, <2>3, StatusType
    <2>. QED  BY <2>2, <2>4, PlainAnswer, EndsWith DEF AnswerKinds
<1>. QED  BY <1>1, <1>2

\* The status that was read is the answer.
LEMMA StatusAnswerKeeps ==
    ASSUME IInv, Outside, call.pc = "returned", Answer("status", {call.status})
    PROVE  IInv'
<1>1. {call.status} \in SUBSET Statuses
    BY ReturnedStatus
<1>2. ASSUME NEW a, a.kind = "status", a.items = {call.status}
      PROVE  AnswerOK(call.args, a, past)
    BY <1>2, ReturnedStatus DEF AnswerOK, HealthOK, SummariesOK, ListOK, LabelsOK
<1>. QED  BY <1>1, <1>2, EndsWith DEF AnswerKinds

LEMMA StatusHandlerKeeps ==
    ASSUME IInv, CreateClusterStatusHandler
    PROVE  IInv'
BY StatusAnswerKeeps, FailsKeeps DEF CreateClusterStatusHandler, At

LEMMA HealthKeeps ==
    ASSUME IInv, NEW ok \in BOOLEAN, GetClusterHealth(ok)
    PROVE  IInv'
<1>1. CASE ToolError
    BY <1>1, FailsKeeps DEF GetClusterHealth
<1>2. CASE ~ToolError
    <2>. DEFINE k == <<call.args.ns, call.args.name>>
                fine == call.status.cp /\ call.status.infra /\ ~call.status.err
                workers == WorkersReady(MachinesOf(stored, k))
    <2>1. call.pc = "returned" /\ call.tool = "capi_cluster_health" /\ Outside
        BY <1>2 DEF GetClusterHealth, At
    <2>2. call.by = "name"
        BY <2>1 DEF IInv, CallOK, TargetOK, TypeOK, Calls
    <2>3. call.target = k /\ call.status.key = k /\ Seen(call.status, past) /\ call.status \in Statuses
        BY <2>1, <2>2, ReturnedStatus DEF IInv, CallOK, TargetOK, Reading, Summary
    <2>4. PICK a : /\ a = [kind |-> "health", items |-> {}, counted |-> ok,
                           workersReady |-> ok /\ workers,
                           healthy |-> fine /\ (ok => workers)]
                   /\ Answers(a)
        BY <1>2, <2>3 DEF GetClusterHealth
    <2>5. /\ a.kind = "health" /\ a.items = {} /\ a.counted = ok
          /\ a.healthy = (fine /\ (ok => workers)) /\ a.healthy \in BOOLEAN
          /\ a.workersReady = (ok /\ workers) /\ a.workersReady \in BOOLEAN
        BY <2>4 DEF WorkersReady
    <2>6. stored \in past
        BY DEF IInv, TypeOK
    <2>7. HealthOK(call.args, a, past)
        <3>1. PICK w \in past : /\ Exists(w, k) /\ w.clusters[k].cp = call.status.cp
                                /\ w.clusters[k].infra = call.status.infra
                                /\ w.clusters[k].err = call.status.err
            BY <2>3 DEF Seen
        <3>2. CASE a.healthy
            BY <2>5, <2>6, <3>1, <3>2 DEF HealthOK, WorkersReady
        <3>3. CASE ~a.healthy /\ ~fine
            BY <2>5, <2>6, <3>1, <3>3 DEF HealthOK, WorkersReady
        <3>4. CASE ~a.healthy /\ fine
            BY <2>5, <2>6, <3>4 DEF HealthOK, WorkersReady
        <3>. QED  BY <3>2, <3>3, <3>4
    <2>8. AnswerOK(call.args, a, past)
        BY <2>5, <2>7 DEF AnswerOK, SummariesOK, ListOK, LabelsOK
    <2>9. /\ a.kind \in AnswerKinds /\ a.counted \in BOOLEAN
          /\ a.items \subseteq (IF a.kind = "machines" THEN Machines ELSE Statuses)
        BY <2>5 DEF AnswerKinds
    <2>. QED  BY <2>1, <2>4, <2>5, <2>8, <2>9, Ends
<1>. QED  BY <1>1, <1>2
-----------------------------------------------------------------------------
(* capi_get_cluster by label value.                                        *)

LEMMA GetByNameKeeps ==
    ASSUME IInv, GetByName
    PROVE  IInv'
<1>1. CASE Goto("findByLabel")
    <2>0. /\ call \in Calls /\ CallOK(call, past) /\ call.tool = "capi_get_cluster"
          /\ call.by = "name" /\ call.pc # "done" /\ Outside /\ answer' = answer
        BY <1>1 DEF GetByName, Goto, IInv, TypeOK, At
    <2>1. PICK q : q = [call EXCEPT !.pc = "findByLabel"] /\ call' = q
        BY <1>1 DEF Goto
    <2>2. q \in Calls
        BY <2>0, <2>1 DEF Calls, PCs
    <2>3. /\ q.tool = call.tool /\ q.args = call.args /\ q.pc = "findByLabel" /\ q.by = "name"
          /\ q.status = call.status /\ q.items = call.items
        BY <2>0, <2>1 DEF Calls
    <2>4. CallOK(q, past)
        BY <2>0, <2>3 DEF CallOK, StatusOK, TargetOK, ItemsOK, Reading
    <2>. QED  BY <2>0, <2>1, <2>2, <2>3, <2>4, GoesOn
<1>2. CASE ~Goto("findByLabel")
    BY <1>2, StatusAnswerKeeps DEF GetByName, At
<1>. QED  BY <1>1, <1>2

\* The next match is read.
LEMMA ReadNextKeeps ==
    ASSUME IInv, Outside, call.tool = "capi_get_cluster", call.pc # "done",
           NEW by \in {"label", "labels"}, NEW ks \in SUBSET Keys, NEW items \in SUBSET Statuses,
           \A s \in items : Summary(s, past) /\ SizesOK(s),
           by = "label" => /\ \E w \in past : Matches(call.args, w) = ks
                           /\ \A k \in ks : ks = {k},
           by = "labels" => \E w \in past : /\ ks \subseteq Matches(call.args, w)
                                            /\ \A s \in items : s.key \in Matches(call.args, w),
           ReadNext(by, ks, items)
    PROVE  IInv'
<1>0. call \in Calls /\ CallOK(call, past)
    BY DEF IInv, TypeOK
<1>. DEFINE next(k) == [call EXCEPT !.pc = "getCluster", !.by = by, !.target = k,
                                    !.status = NoStatus, !.todo = ks \ {k}, !.items = items]
<1>k. PICK k \in ks : call' = next(k) /\ answer' = answer
    BY DEF ReadNext
<1>1. PICK q : q = next(k)
    OBVIOUS
<1>2. k \in Namespaces \X Terms
    BY ViewsAssumption DEF Keys
<1>3. q \in Calls
    BY <1>0, <1>1, <1>2, NoStatusType DEF Calls, PCs
<1>4. /\ q.tool = call.tool /\ q.args = call.args /\ q.pc = "getCluster" /\ q.by = by
      /\ q.target = k /\ q.status = NoStatus /\ q.todo = ks \ {k} /\ q.items = items
    BY <1>0, <1>1 DEF Calls
<1>5. StatusOK(q, past) /\ ItemsOK(q, past)
    BY <1>4 DEF StatusOK, ItemsOK, Reading
<1>6. call.args.ns \in Namespaces
    BY <1>0 DEF CallOK, TargetOK
<1>7. TargetOK(q, past)
    BY <1>4, <1>6 DEF TargetOK
<1>8. \A s \in q.items \cup {q.status} : SizesOK(s)
    BY <1>4, NoStatusType
<1>9. call' = q /\ answer' = answer
    BY <1>k, <1>1
<1>. HIDE DEF next
<1>. QED  BY <1>9, <1>3, <1>4, <1>5, <1>7, <1>8, GoesOn DEF CallOK

LEMMA FindKeeps ==
    ASSUME IInv, NEW ok \in BOOLEAN, FindClustersByLabelValue(ok)
    PROVE  IInv'
<1>0. /\ call.pc = "findByLabel" /\ call.tool = "capi_get_cluster" /\ Outside /\ stored \in past
      /\ call.args.ns \in Namespaces
    BY DEF FindClustersByLabelValue, At, IInv, TypeOK, CallOK, TargetOK
<1>1. PICK matched : matched = {k \in Keys : /\ Exists(stored, k) /\ InNamespace(k)
                                             /\ stored.clusters[k].label = call.args.name}
    OBVIOUS
<1>2. matched \in SUBSET Keys /\ matched = Matches(call.args, stored)
    BY <1>0, <1>1, ViewsAssumption DEF Matches, InNamespace
<1>f. IsFiniteSet(matched)
    BY <1>2, ViewsAssumption, FS_Product, FS_Subset DEF Keys
<1>3. CASE ToolError
    BY <1>0, <1>3, FailsKeeps
<1>4. CASE Cardinality(matched) = 1 /\ matched # {} /\ ReadNext("label", matched, {})
    <2>1. ASSUME NEW k \in matched PROVE matched = {k}
        <3>1. PICK j : matched = {j}
            BY <1>4, <1>f, FS_Singleton
        <3>. QED  BY <3>1
    <2>. QED  BY <1>0, <1>2, <1>4, <2>1, ReadNextKeeps
<1>5. CASE ReadNext("labels", matched, {})
    BY <1>0, <1>2, <1>5, ReadNextKeeps
<1>6. \/ ToolError
      \/ Cardinality(matched) = 1 /\ matched # {} /\ ReadNext("label", matched, {})
      \/ ReadNext("labels", matched, {})
    <2>1. CASE ~ok \/ matched = {}
        BY <1>1, <2>1, FS_EmptySet DEF FindClustersByLabelValue
    <2>2. CASE ok /\ matched # {} /\ Cardinality(matched) = 1
        BY <1>1, <2>2 DEF FindClustersByLabelValue
    <2>3. CASE ok /\ matched # {} /\ Cardinality(matched) # 1
        BY <1>1, <2>3 DEF FindClustersByLabelValue
    <2>. QED  BY <2>1, <2>2, <2>3
<1>. QED  BY <1>3, <1>4, <1>5, <1>6

LEMMA OneMatchKeeps ==
    ASSUME IInv, OneMatch
    PROVE  IInv'
<1>1. CASE ToolError
    BY <1>1, FailsKeeps DEF OneMatch
<1>2. CASE ~ToolError
    <2>1. /\ call.pc = "returned" /\ call.by = "label" /\ Outside
          /\ Answer("byLabel", {call.status})
        BY <1>2 DEF OneMatch, At
    <2>2. \E w \in past : Matches(call.args, w) = {call.target}
        BY <2>1 DEF IInv, CallOK, TargetOK
    <2>3. {call.status} \in SUBSET Statuses
        BY <2>1, ReturnedStatus
    <2>4. ASSUME NEW a, a.kind = "byLabel", a.items = {call.status}
          PROVE  AnswerOK(call.args, a, past)
        <3>1. {s.key : s \in a.items} = {call.target}
            BY <2>1, <2>4, ReturnedStatus
        <3>2. \A s \in a.items : Summary(s, past)
            BY <2>1, <2>4, ReturnedStatus
        <3>. QED  BY <2>2, <2>4, <3>1, <3>2
                  DEF AnswerOK, HealthOK, SummariesOK, ListOK, LabelsOK
    <2>. QED  BY <2>1, <2>3, <2>4, EndsWith DEF AnswerKinds
<1>. QED  BY <1>1, <1>2

LEMMA ManyMatchesKeep ==
    ASSUME IInv, ManyMatches
    PROVE  IInv'
<1>0. /\ call.by = "labels" /\ call.pc \in {"returned", "failed"} /\ Outside
      /\ call \in Calls /\ CallOK(call, past)
    BY DEF ManyMatches, At, IInv, TypeOK
<1>1. PICK items : items = call.items \cup (IF At("returned") THEN {call.status} ELSE {})
    OBVIOUS
<1>2. items \in SUBSET Statuses
    BY <1>0, <1>1 DEF Calls
<1>3. \A s \in items : SizesOK(s)
    BY <1>0, <1>1 DEF CallOK
<1>4. \A s \in items : Summary(s, past)
    BY <1>0, <1>1, ReturnedStatus DEF CallOK, ItemsOK, At
<1>5. call.todo \in SUBSET Keys
    BY <1>0 DEF Calls
<1>6. PICK w \in past : /\ call.target \in Matches(call.args, w)
                        /\ call.todo \subseteq Matches(call.args, w)
                        /\ \A s \in call.items : s.key \in Matches(call.args, w)
    BY <1>0 DEF CallOK, TargetOK
<1>7. \A s \in items : s.key \in Matches(call.args, w)
    BY <1>1, <1>6, ReturnedStatus DEF At
<1>8. CASE Answer("candidates", items)
    <2>1. ASSUME NEW a, a.kind = "candidates", a.items = items
          PROVE  AnswerOK(call.args, a, past)
        <3>1. {s.key : s \in a.items} \subseteq Matches(call.args, w)
            BY <1>7, <2>1
        <3>. QED  BY <1>4, <2>1, <3>1 DEF AnswerOK, HealthOK, SummariesOK, ListOK, LabelsOK
    <2>. QED  BY <1>0, <1>2, <1>8, <2>1, EndsWith DEF AnswerKinds
<1>9. CASE ReadNext("labels", call.todo, items)
    <2>1. call.tool = "capi_get_cluster" /\ call.pc # "done"
        BY <1>0 DEF CallOK, TargetOK
    <2>2. \E v \in past : /\ call.todo \subseteq Matches(call.args, v)
                          /\ \A s \in items : s.key \in Matches(call.args, v)
        BY <1>6, <1>7
    <2>. QED  BY <1>0, <1>2, <1>3, <1>4, <1>5, <1>9, <2>1, <2>2, ReadNextKeeps
<1>. QED  BY <1>1, <1>8, <1>9 DEF ManyMatches
-----------------------------------------------------------------------------
(* The lists.                                                              *)

\* A status with its provider, as capi_list_clusters takes it from a Cluster.
LEMMA ListedStatus ==
    ASSUME NEW w \in Stores, NEW ps, w \in ps, NEW k \in Keys, Exists(w, k),
           NEW s, s = [ClusterStatus(k, w.clusters[k])
                         EXCEPT !.provider = DetermineProvider(w.clusters[k].kind)]
    PROVE  /\ s \in Statuses /\ SizesOK(s) /\ s.key = k
           /\ Seen(s, ps) /\ ProviderSeen(s, ps)
<1>1. PICK t, p : t = ClusterStatus(k, w.clusters[k]) /\ p = DetermineProvider(w.clusters[k].kind)
    OBVIOUS
<1>2. w.clusters[k] \in Clusters \cup {NoCluster}
    BY DEF Stores
<1>3. /\ t \in Statuses /\ SizesOK(t) /\ t.key = k /\ t.cp = w.clusters[k].cp
      /\ t.infra = w.clusters[k].infra /\ t.err = w.clusters[k].err /\ p \in Providers
    BY <1>1, <1>2, StatusType, ProviderType
<1>4. s = [t EXCEPT !.provider = p]
    BY <1>1
<1>5. /\ s \in Statuses /\ s.key = k /\ s.cp = t.cp /\ s.infra = t.infra /\ s.err = t.err
      /\ s.total = t.total /\ s.ready = t.ready /\ s.provider = p
    BY <1>3, <1>4 DEF Statuses
<1>6. SizesOK(s)
    BY <1>3, <1>5 DEF SizesOK
<1>7. Seen(s, ps)
    BY <1>3, <1>5 DEF Seen
<1>8. ProviderSeen(s, ps)
    BY <1>1, <1>5 DEF ProviderSeen
<1>. QED  BY <1>5, <1>6, <1>7, <1>8

LEMMA ListClustersKeeps ==
    ASSUME IInv, NEW ok \in BOOLEAN, ListClusters(ok)
    PROVE  IInv'
<1>0. /\ call \in Calls /\ CallOK(call, past) /\ call.pc = "listClusters"
      /\ call.tool = "capi_list_clusters" /\ stored \in Stores /\ stored \in past /\ Outside
    BY DEF ListClusters, At, IInv, TypeOK
<1>1. CASE ToolError
    BY <1>0, <1>1, FailsKeeps
<1>2. CASE ~ToolError
    <2>. DEFINE status(k) == [ClusterStatus(k, stored.clusters[k])
                                EXCEPT !.provider = DetermineProvider(stored.clusters[k].kind)]
                wanted == {j \in Keys : Wanted(stored, j)}
    <2>1. PICK q, items : /\ items = {status(k) : k \in wanted}
                          /\ q = [call EXCEPT !.pc = "listAllMachines", !.items = items]
                          /\ call' = q /\ answer' = answer
        BY <1>2 DEF ListClusters
    <2>2. wanted = WantedBy(call.args, stored)
        BY DEF Wanted, WantedBy, InNamespace
    <2>3. \A k \in wanted : k \in Keys /\ Exists(stored, k)
        BY DEF Wanted
    <2>. HIDE DEF wanted
    <2>4. ASSUME NEW k \in wanted
          PROVE  /\ status(k) \in Statuses /\ SizesOK(status(k)) /\ status(k).key = k
                 /\ Seen(status(k), past) /\ ProviderSeen(status(k), past)
        <3>1. k \in Keys /\ Exists(stored, k) /\ stored \in Stores /\ stored \in past
            BY <1>0, <2>3, <2>4
        <3>2. PICK s : s = status(k)
            OBVIOUS
        <3>3. /\ s \in Statuses /\ SizesOK(s) /\ s.key = k
              /\ Seen(s, past) /\ ProviderSeen(s, past)
            BY <3>1, <3>2, ListedStatus
        <3>. HIDE DEF status
        <3>. QED  BY <3>2, <3>3
    <2>. HIDE DEF status
    <2>5. /\ items \in SUBSET Statuses
          /\ \A s \in items : SizesOK(s) /\ Seen(s, past) /\ ProviderSeen(s, past)
        BY <2>1, <2>4
    <2>6. {s.key : s \in items} = wanted
        BY <2>1, <2>4
    <2>7. q \in Calls
        BY <1>0, <2>1, <2>5 DEF Calls, PCs
    <2>8. /\ q.tool = call.tool /\ q.args = call.args /\ q.pc = "listAllMachines"
          /\ q.by = call.by /\ q.target = call.target /\ q.status = call.status /\ q.items = items
        BY <1>0, <2>1 DEF Calls
    <2>9. StatusOK(q, past)
        BY <2>8 DEF StatusOK, Reading
    <2>10. TargetOK(q, past)
        BY <1>0, <2>8 DEF CallOK, TargetOK, Reading, Calls
    <2>11. ItemsOK(q, past)
        <3>1. q.by # "labels"
            BY <1>0, <2>8 DEF CallOK, TargetOK
        <3>2. {s.key : s \in q.items} = WantedBy(q.args, stored)
            BY <2>2, <2>6, <2>8
        <3>. QED  BY <1>0, <2>5, <2>8, <3>1, <3>2 DEF ItemsOK
    <2>12. \A s \in q.items \cup {q.status} : SizesOK(s)
        BY <1>0, <2>5, <2>8 DEF CallOK
    <2>. QED  BY <1>0, <2>1, <2>7, <2>8, <2>9, <2>10, <2>11, <2>12, GoesOn DEF CallOK
<1>. QED  BY <1>1, <1>2

LEMMA ListAllMachinesKeeps ==
    ASSUME IInv, NEW ok \in BOOLEAN, ListAllMachines(ok)
    PROVE  IInv'
<1>0. /\ call \in Calls /\ CallOK(call, past) /\ call.pc = "listAllMachines"
      /\ TypeOK /\ stored \in past /\ Outside
    BY DEF ListAllMachines, At, IInv, TypeOK
<1>1. CASE ToolError
    BY <1>0, <1>1, FailsKeeps
<1>2. CASE ~ToolError
    <2>. DEFINE ms(s) == {m \in Machines : InNamespace(stored.machines[m].of) /\ GroupKey(s.key, m)}
                status(s) == WithMachines(s, ms(s))
    <2>1. PICK items : items = {status(s) : s \in call.items} /\ Answer("list", items)
        BY <1>2 DEF ListAllMachines
    <2>2. PICK w \in past : {s.key : s \in call.items} = WantedBy(call.args, w)
        BY <1>0 DEF CallOK, ItemsOK
    <2>3. ASSUME NEW s \in call.items
          PROVE  /\ status(s) \in Statuses /\ status(s).key = s.key
                 /\ Seen(status(s), past) /\ ProviderSeen(status(s), past)
                 /\ Counted(status(s), past)
        <3>1. s \in Statuses /\ Seen(s, past) /\ ProviderSeen(s, past)
            BY <1>0 DEF CallOK, ItemsOK, Calls
        <3>2. InNamespace(s.key)
            BY <2>2 DEF WantedBy, InNamespace
        <3>3. ms(s) = MachinesOf(stored, s.key) /\ ms(s) \in SUBSET Machines
            BY <3>2 DEF MachinesOf, GroupKey
        <3>4. PICK g, t : g = ms(s) /\ t = status(s)
            OBVIOUS
        <3>5. /\ t \in Statuses /\ t.key = s.key /\ t.provider = s.provider
              /\ t.cp = s.cp /\ t.infra = s.infra /\ t.err = s.err /\ t.total = Cardinality(g)
              /\ t.ready = Cardinality({m \in g : stored.machines[m].node})
            BY <1>0, <3>1, <3>3, <3>4, WithMachinesType
        <3>6. Seen(t, past) /\ ProviderSeen(t, past)
            BY <3>1, <3>5 DEF Seen, ProviderSeen
        <3>7. Counted(t, past)
            BY <1>0, <3>3, <3>4, <3>5 DEF Counted
        <3>. QED  BY <3>4, <3>5, <3>6, <3>7
    <2>. HIDE DEF status
    <2>4. /\ items \in SUBSET Statuses
          /\ \A s \in items : Seen(s, past) /\ ProviderSeen(s, past) /\ Counted(s, past)
        BY <2>1, <2>3
    <2>5. {s.key : s \in items} = {s.key : s \in call.items}
        BY <2>1, <2>3
    <2>6. ASSUME NEW a, a.kind = "list", a.items = items
          PROVE  AnswerOK(call.args, a, past)
        <3>1. {s.key : s \in a.items} = WantedBy(call.args, w)
            BY <2>2, <2>5, <2>6
        <3>. QED  BY <2>4, <2>6, <3>1 DEF AnswerOK, HealthOK, SummariesOK, ListOK, LabelsOK
    <2>. QED  BY <1>0, <2>1, <2>4, <2>6, EndsWith DEF AnswerKinds
<1>. QED  BY <1>1, <1>2

LEMMA OtherListsKeep ==
    ASSUME IInv, NEW ok \in BOOLEAN, createProviderListClusters(ok) \/ ListMachines(ok)
    PROVE  IInv'
<1>0. Outside
    BY DEF createProviderListClusters, ListMachines
<1>1. CASE ToolError
    BY <1>0, <1>1, FailsKeeps
<1>2. CASE createProviderListClusters(ok) /\ ~ToolError
    <2>. DEFINE ks == {j \in Keys : Exists(stored, j) /\ InNamespace(j) /\ hasInfrastructureKind(j)}
    <2>1. PICK items : /\ items = {ClusterStatus(k, stored.clusters[k]) : k \in ks}
                       /\ Answer("provider", items)
        BY <1>2 DEF createProviderListClusters
    <2>2. \A k \in Keys : stored.clusters[k] \in Clusters \cup {NoCluster}
        BY DEF IInv, TypeOK, Stores
    <2>3. items \in SUBSET Statuses
        BY <2>1, <2>2, StatusType
    <2>. QED  BY <1>0, <2>1, <2>3, PlainAnswer, EndsWith DEF AnswerKinds
<1>3. CASE ListMachines(ok) /\ ~ToolError
    <2>1. PICK items \in SUBSET Machines : Answer("machines", items)
        BY <1>3 DEF ListMachines
    <2>. QED  BY <1>0, <2>1, PlainAnswer, EndsWith DEF AnswerKinds
<1>. QED  BY <1>1, <1>2, <1>3
-----------------------------------------------------------------------------
LEMMA InitHolds == Init => IInv
<1>. SUFFICES ASSUME Init PROVE IInv
    OBVIOUS
<1>1. PICK q : q = call
    OBVIOUS
<1>2. q = [tool |-> "none", args |-> NoArgs, pc |-> "idle", by |-> "name", target |-> NoKey,
           status |-> NoStatus, todo |-> {}, items |-> {}]
    BY <1>1 DEF Init, NoCall
<1>3. q \in Calls /\ CallOK(q, past) /\ q.pc = "idle"
    BY <1>2, NoArgsType, FreshCall
<1>4. answer.kind = "none" /\ answer.items = {}
    BY DEF Init, NoAnswer
<1>5. answer.healthy \in BOOLEAN /\ answer.workersReady \in BOOLEAN /\ answer.counted \in BOOLEAN
    BY DEF Init, NoAnswer
<1>6. stored \in Stores /\ stored \in past /\ changes \in 0 .. MaxChanges
    BY ViewsAssumption DEF Init
<1>7. TypeOK
    BY <1>1, <1>3, <1>4, <1>5, <1>6 DEF TypeOK, At, CallOK, SizesOK
<1>. QED  BY <1>1, <1>3, <1>4, <1>7, PlainAnswer DEF IInv

LEMMA StepHolds == IInv /\ [Next]_vars => IInv'
<1>. SUFFICES ASSUME IInv, [Next]_vars PROVE IInv'
    OBVIOUS
<1>1. CASE UNCHANGED vars
    BY <1>1 DEF vars, IInv, TypeOK, At, CallOK, StatusOK, TargetOK, ItemsOK, AnswerOK, HealthOK,
       SummariesOK, ListOK, LabelsOK
<1>2. CASE Read
    BY <1>2, GetClusterKeeps, GetProviderKeeps, CountMachinesKeeps, PlaceholderKeeps,
       ProviderGetKeeps, StatusHandlerKeeps, HealthKeeps, GetByNameKeeps, FindKeeps,
       OneMatchKeeps, ManyMatchesKeep, ListClustersKeeps, ListAllMachinesKeeps, OtherListsKeep
       DEF Read
<1>. QED  BY <1>1, <1>2, BeginKeeps, ClusterChangesKeep, MachineChangesKeep DEF Next

LEMMA Invariance == Spec => []IInv
BY InitHolds, StepHolds, PTL DEF Spec

\* Every reachable state has the type the model gives it: among others, a
\* summary never counts more ready machines than machines, nor more machines
\* than there are, and a provider is one of the six that the code names.
THEOREM TypeCorrect == Spec => []TypeOK
<1>1. IInv => TypeOK
    BY DEF IInv
<1>. QED  BY <1>1, Invariance, PTL

\* capi_cluster_health judges from several reads, some of which fail.  healthy
\* was true of the Cluster, and workersReady of its machines, at moments of the
\* call; healthy without workersReady, which says nothing of the machines, is
\* answered only if they could not be listed; unhealthy was true of one of them.
THEOREM HealthIsSeen == Spec => []HealthWasSeen
<1>1. IInv => HealthWasSeen
    BY DEF IInv, AnswerOK, HealthOK, HealthWasSeen, HealthyCluster, HealthyWorkers, Named
<1>. QED  BY <1>1, Invariance, PTL

\* A summary mixes reads of different moments but never of different clusters.
THEOREM SummariesAreTheirOwn == Spec => []SummaryIsOfItsCluster
<1>1. IInv => SummaryIsOfItsCluster
    <2>. SUFFICES ASSUME IInv, NEW s \in answer.items,
                         answer.kind \in {"status", "byLabel", "candidates", "list"}
                  PROVE  /\ Seen(s, past) /\ ProviderSeen(s, past)
                         /\ Counted(s, past) \/ (answer.kind # "list" /\ Uncounted(s))
        BY DEF SummaryIsOfItsCluster, Seen, ProviderSeen, Counted, Uncounted
    <2>. QED  BY DEF IInv, AnswerOK, SummariesOK, Summary
<1>. QED  BY <1>1, Invariance, PTL

\* capi_list_clusters lists what was there at one moment, nothing more and
\* nothing less, although it lists the machines later.
THEOREM ListsAreComplete == Spec => []ListIsComplete
<1>1. IInv => ListIsComplete
    <2>1. ASSUME NEW w PROVE {k \in Keys : Wanted(w, k)} = WantedBy(call.args, w)
        BY DEF Wanted, WantedBy, InNamespace
    <2>. QED  BY <2>1 DEF IInv, AnswerOK, ListOK, ListIsComplete
<1>. QED  BY <1>1, Invariance, PTL

\* capi_get_cluster by label value answers with clusters of the namespace it was
\* given that had the label at one moment, and with one only if one had it.
THEOREM LabelsMatch == Spec => []LabelAnswersMatch
<1>1. IInv => LabelAnswersMatch
    BY DEF IInv, AnswerOK, LabelsOK, LabelAnswersMatch, Matches
<1>. QED  BY <1>1, Invariance, PTL
=============================================================================
