---------------------------- MODULE ResourceSets ----------------------------
(***************************************************************************)
(* The ClusterResourceSet tools (pkg/capi/resourceset.go and its handlers):*)
(* one call writes several objects, the Secrets and ConfigMaps first and   *)
(* the ClusterResourceSet that names them last, and stops at the first     *)
(* error.  Concurrent calls and everyone else write the same objects.      *)
(*                                                                         *)
(* The client does not apply its write policy to these objects; on a       *)
(* read-only server the tools are not registered.                          *)
(***************************************************************************)
EXTENDS ToolRegistry, Sequences

CONSTANTS
    ConfigMaps, Secrets,  \* the keys of the resources a set may name
    Sets,                 \* the keys of ClusterResourceSets
    Callers,              \* tool calls that may be in flight at the same time
    MaxResources,         \* resources one call names
    MaxData,              \* contents range over 0 .. MaxData, 0 being none
    MaxRev                \* no call or outside edit starts beyond this revision

Resources == ConfigMaps \cup Secrets
Keys == Resources \cup Sets

\* A key names the kind of its object, and "invalid" is none.
ASSUME KeysAssumption ==
    /\ Resources \cap Sets = {}
    /\ "invalid" \notin Resources
    /\ MaxResources \in Nat /\ MaxData \in Nat /\ MaxRev \in Nat

VARIABLES
    policy,   \* the server's write policy
    rev,      \* the API server's revision counter
    store,    \* the objects the API server holds
    calls     \* the tool calls, with what they have written so far

vars == <<policy, rev, store, calls>>

\* crsType: a Secret has the type the CRS controller requires.
Objects == [rv : Nat, managed : BOOLEAN, protected : BOOLEAN,
            data : 0 .. MaxData, crsType : BOOLEAN]
Absent == [rv |-> 0, managed |-> FALSE, protected |-> FALSE, data |-> 0, crsType |-> FALSE]
Exists(k) == store[k] # Absent

\* type ClusterResourceSetResourceSpec: data 0 refers to an existing resource;
\* the key "invalid" stands for a kind that is neither Secret nor ConfigMap.
Specs == [key : Resources \cup {"invalid"}, data : 0 .. MaxData]

Idle(a) == [pc |-> "idle", set |-> "none", resources |-> <<>>, i |-> 1, base |-> Absent,
            wrote |-> {}, answer |-> a]

PCs == {"idle", "next", "get", "update", "delete"}
Answers == {"none", "ok", "error", "AlreadyExists", "Conflict", "NotFound"}
Arguments == UNION {[1 .. n -> Specs] : n \in 0 .. MaxResources}
Calls == [pc : PCs, set : Sets \cup {"none"}, resources : Arguments, i : 1 .. MaxResources + 1,
          base : Objects, wrote : SUBSET Keys, answer : Answers]

Init ==
    /\ policy \in {p \in WritePolicies : ~p.exposeKubeconfig}
    /\ rev = 1
    /\ store \in [Keys -> {Absent} \cup [rv : {1}, managed : {FALSE}, protected : {FALSE},
                                       data : {0}, crsType : BOOLEAN]]
    /\ \A k \in Keys : store[k].crsType => k \in Secrets
    /\ calls = [c \in Callers |-> Idle("none")]
-----------------------------------------------------------------------------
Local == UNCHANGED <<policy, rev, store>>

\* The tool returns; what it wrote stays written.
Answer(c, a) == calls' = [calls EXCEPT ![c] = Idle(a)]

Current(c) == calls[c].resources[calls[c].i]

\* Mutant of AllDone: off by one.
AllDoneEarly(c) == calls[c].i >= Len(calls[c].resources)
AllDone(c) == calls[c].i > Len(calls[c].resources)

\* A write of call c turns object k into o; the call goes on as r.  When the
\* answer is lost the tool stops with an error, the write having been made.
Write(c, k, o, r) ==
    /\ rev' = rev + 1
    /\ store' = [store EXCEPT ![k] = o]
    /\ calls' = [calls EXCEPT ![c] = r] \/ Answer(c, "error")
    /\ UNCHANGED policy

\* The loop turns to the next resource; w holds what it wrote of this one.
NextResource(c, w) ==
    [calls[c] EXCEPT !.pc = "next", !.i = @ + 1, !.base = Absent, !.wrote = @ \cup w]

\* The arguments are checked (valid) before anything is written.
CreateClusterResourceSet(c, s, resources, valid) ==
    /\ calls[c].pc = "idle"
    /\ rev < MaxRev
    /\ "capi_create_cluster_resource_set" \in BuildAllTools(policy)
    /\ calls' = [calls EXCEPT ![c] =
          IF valid /\ resources # <<>>
          THEN [Idle("none") EXCEPT !.pc = "next", !.set = s, !.resources = resources]
          ELSE Idle("error")]
    /\ Local

\* Mutant of InvalidKind: the switch has no default, the loop goes on.
InvalidKindSkipped(c) ==
    /\ calls[c].pc = "next"
    /\ ~AllDone(c)
    /\ Current(c).key = "invalid"
    /\ calls' = [calls EXCEPT ![c] = NextResource(c, {Current(c).key})]
    /\ Local

\* The loop's default case: the kinds are only checked one at a time, after
\* the resources before this one have been written.
InvalidKind(c) ==
    /\ calls[c].pc = "next"
    /\ ~AllDone(c)
    /\ Current(c).key = "invalid"
    /\ Answer(c, "error")
    /\ Local

\* No data: the resource is expected to exist.
SkipResource(c) ==
    /\ calls[c].pc = "next"
    /\ ~AllDone(c)
    /\ Current(c).key # "invalid"
    /\ Current(c).data = 0
    /\ calls' = [calls EXCEPT ![c] = NextResource(c, {})]
    /\ Local

\* createOrUpdateResourceSetConfigMap and ...Secret: Create comes first,
CreateResource(c) ==
    /\ calls[c].pc = "next"
    /\ ~AllDone(c)
    /\ Current(c).key # "invalid"
    /\ Current(c).data # 0
    /\ IF Exists(Current(c).key)
       THEN Local /\ calls' = [calls EXCEPT ![c].pc = "get"]
       ELSE Write(c, Current(c).key,
                  [Absent EXCEPT !.rv = rev + 1, !.data = Current(c).data,
                                 !.crsType = Current(c).key \in Secrets],
                  NextResource(c, {Current(c).key}))

\* then, when there is one already, Get
GetResource(c) ==
    /\ calls[c].pc = "get"
    /\ IF Exists(Current(c).key)
       THEN calls' = [calls EXCEPT ![c].pc = "update", ![c].base = store[Current(c).key]]
       ELSE Answer(c, "NotFound")
    /\ Local

\* Update sets a Secret's type, and the API server lets nobody change one.
TypeFits(c) == Current(c).key \in Secrets => calls[c].base.crsType

\* Mutant of UpdateResource: a new object takes the place of the one read.
UpdateResourceFromScratch(c) ==
    /\ calls[c].pc = "update"
    /\ store[Current(c).key].rv = calls[c].base.rv
    /\ TypeFits(c)
    /\ Write(c, Current(c).key,
             [Absent EXCEPT !.rv = rev + 1, !.data = Current(c).data,
                            !.crsType = Current(c).key \in Secrets],
             NextResource(c, {Current(c).key}))

\* and Update, with the version that was read.
UpdateResource(c) ==
    /\ calls[c].pc = "update"
    /\ store[Current(c).key].rv = calls[c].base.rv
    /\ TypeFits(c)
    /\ Write(c, Current(c).key,
             [calls[c].base EXCEPT !.rv = rev + 1, !.data = Current(c).data,
                                   !.crsType = Current(c).key \in Secrets],
             NextResource(c, {Current(c).key}))

UpdateResourceRefused(c) ==
    /\ calls[c].pc = "update"
    /\ \/ ~Exists(Current(c).key) /\ Answer(c, "NotFound")
       \/ /\ Exists(Current(c).key) /\ store[Current(c).key].rv # calls[c].base.rv
          /\ Answer(c, "Conflict")
       \/ /\ store[Current(c).key].rv = calls[c].base.rv /\ ~TypeFits(c)
          /\ Answer(c, "error")
    /\ Local

\* The set itself is created once every resource is in place.
CreateSet(c) ==
    /\ calls[c].pc = "next"
    /\ AllDone(c)
    /\ IF Exists(calls[c].set)
       THEN Local /\ Answer(c, "AlreadyExists")
       ELSE Write(c, calls[c].set, [Absent EXCEPT !.rv = rev + 1], Idle("ok"))

\* DeleteClusterResourceSet: GetClusterResourceSet, then Delete by name.
DeleteClusterResourceSet(c, s) ==
    /\ calls[c].pc = "idle"
    /\ rev < MaxRev
    /\ "capi_delete_cluster_resource_set" \in BuildAllTools(policy)
    /\ calls' = [calls EXCEPT ![c] =
          IF Exists(s) THEN [Idle("none") EXCEPT !.pc = "delete", !.set = s, !.base = store[s]]
                       ELSE Idle("NotFound")]
    /\ Local

DeleteSet(c) ==
    /\ calls[c].pc = "delete"
    /\ IF Exists(calls[c].set)
       THEN Write(c, calls[c].set, Absent, Idle("ok"))
       ELSE Local /\ Answer(c, "NotFound")

\* An API call that never reached the server.
CallFails(c) ==
    /\ calls[c].pc # "idle"
    /\ Answer(c, "error")
    /\ Local

-----------------------------------------------------------------------------
(* Everyone else.                                                          *)
Outside(k, o) ==
    /\ rev < MaxRev
    /\ o # store[k]
    /\ rev' = rev + 1
    /\ store' = [store EXCEPT ![k] = o]
    /\ UNCHANGED <<policy, calls>>

OutsideWrite(k) ==
    \/ Exists(k) /\ Outside(k, Absent)
    \/ \E crs \in {b \in BOOLEAN : b => k \in Secrets} :
          ~Exists(k) /\ Outside(k, [Absent EXCEPT !.rv = rev + 1, !.data = MaxData, !.crsType = crs])
    \/ Exists(k) /\ Outside(k, [store[k] EXCEPT !.rv = rev + 1, !.managed = ~@])
    \/ Exists(k) /\ Outside(k, [store[k] EXCEPT !.rv = rev + 1, !.protected = ~@])

Step(c) ==
    \/ InvalidKind(c) \/ SkipResource(c)
    \/ CreateResource(c) \/ GetResource(c)
    \/ UpdateResource(c) \/ UpdateResourceRefused(c)
    \/ CreateSet(c) \/ DeleteSet(c)
    \/ CallFails(c)

Next ==
    \/ \E c \in Callers, s \in Sets :
          \/ \E resources \in Arguments, valid \in BOOLEAN :
                CreateClusterResourceSet(c, s, resources, valid)
          \/ DeleteClusterResourceSet(c, s)
    \/ \E c \in Callers : Step(c)
    \/ \E k \in Keys : OutsideWrite(k)

Spec == Init /\ [][Next]_vars
-----------------------------------------------------------------------------
\* The type invariant.
TypeOK ==
    /\ policy \in WritePolicies
    /\ rev \in Nat
    /\ store \in [Keys -> Objects]
    /\ calls \in [Callers -> Calls]

\* Call c changes object k in this step.
Writes(c, k) == calls'[c] # calls[c] /\ store'[k] # store[k]

\* The client has no policy check here, so a read-only server relies on the
\* registry alone: with the tools hidden no call of theirs reaches an object.
ReadOnlyNeverWrites ==
    [][policy.readOnly => \A c \in Callers, k \in Keys : ~Writes(c, k)]_vars

\* A set never appears before its contents: when a call creates the
\* ClusterResourceSet it has itself written every resource it got data for,
\* although it stops at errors, conflicts and lost answers in between.
SetComesLast ==
    [][\A c \in Callers, s \in Sets :
          Writes(c, s) /\ calls[c].pc = "next"
             => \A j \in DOMAIN calls[c].resources :
                   calls[c].resources[j].data # 0
                      => calls[c].resources[j].key \in calls[c].wrote]_vars

\* Overwriting an existing resource keeps its labels and annotations as they
\* are at that moment: another writer's marker is never undone.
MarkersSurvive ==
    [][\A c \in Callers, k \in Resources :
          Writes(c, k) /\ Exists(k)
             => store'[k].managed = store[k].managed
                /\ store'[k].protected = store[k].protected]_vars

\* What pkg/mcp/handlers/readonly.go says of the classes of tools: a mutating
\* tool's "writes go through the client's WritePolicy", so that it neither
\* overwrites what the guard protects nor deletes what is labelled, of objects
\* that carried the marker when they were read and when they are written; and
\* additive tools "never change or remove what exists".
ToolsKeepTheirClass ==
    [][\A c \in Callers, k \in Keys :
          LET deletes == calls[c].pc = "delete"
              marked(f) == store[k][f] /\ calls[c].base[f]
          IN  Writes(c, k) /\ Exists(k)
                 => /\ ~(policy.gitOpsGuard /\ marked("managed"))
                    /\ deletes => ~marked("protected")
                    /\ ~deletes => destructiveHint("capi_create_cluster_resource_set")]_vars
=============================================================================
