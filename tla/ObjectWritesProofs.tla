------------------------- MODULE ObjectWritesProofs -------------------------
(***************************************************************************)
(* Proofs about ObjectWrites, for any number of clusters, machines,        *)
(* deployments and calls in flight, and for any bounds.                    *)
(*                                                                         *)
(* Every action answers, goes on to the next API call, or writes.  There   *)
(* is one lemma for each of the three, and the proof of the inductive      *)
(* invariant only has to say which of them an action is.                   *)
(***************************************************************************)
EXTENDS ObjectWrites, TLAPS

LEMMA ApplyType ==
    ASSUME NEW e \in EditsOf(Assignable), NEW f \in [Fields -> Vals]
    PROVE  Apply(e, f) \in [Fields -> Vals]
<1>1. PICK S \in SUBSET Assignable : e \in [S -> Vals]
    BY DEF EditsOf
<1>. QED  BY <1>1 DEF Apply

LEMMA SmallEditsType ==
    ASSUME NEW F \in SUBSET Assignable, NEW e \in SmallEditsOf(F)
    PROVE  e \in EditsOf(Assignable)
BY DEF SmallEditsOf, EditsOf

LEMMA SetType ==
    ASSUME NEW x \in Assignable, NEW v \in Vals
    PROVE  Set(x, v) \in EditsOf(Assignable)
<1>1. {x} \in SUBSET Assignable /\ Set(x, v) \in [{x} -> Vals]
    BY DEF Set
<1>. QED  BY <1>1 DEF EditsOf

LEMMA ValsType == 0 \in Vals /\ 1 \in Vals /\ Vals \subseteq Nat
BY SizesAssumption DEF Vals

LEMMA NoEditType == NoEdit \in EditsOf(Assignable)
<1>1. {} \in SUBSET Assignable /\ NoEdit \in [{} -> Vals]
    BY DEF NoEdit
<1>. QED  BY <1>1 DEF EditsOf

LEMMA AbsentType == Absent \in Objects /\ Absent.rv = 0
BY ValsType DEF Absent, Objects

LEMMA IdleType ==
    ASSUME NEW a \in Answers
    PROVE  Idle(a) \in Calls /\ Idle(a).pc = "idle" /\ Idle(a).base = Absent
BY NoEditType, AbsentType DEF Idle, Calls, PCs

LEMMA CheckType ==
    ASSUME NEW p \in WritePolicies, NEW f
    PROVE  /\ CheckUpdate(p, f) \in Answers
           /\ CheckDelete(p, f) \in Answers
           /\ CheckCreate(p) \in Answers
BY DEF CheckUpdate, CheckDelete, CheckCreate, check, Answers, Refusals

\* The call ends and nothing else changes.
LEMMA AnswerKeeps ==
    ASSUME ChecksStayValid, NEW c \in Callers, NEW a \in Answers,
           Local, Answer(c, a)
    PROVE  ChecksStayValid'
<1>1. calls' = [calls EXCEPT ![c] = Idle(a)] /\ UNCHANGED <<policy, rev, store>>
    BY DEF Answer, Local
<1>2. TypeOK'
    BY <1>1, IdleType DEF ChecksStayValid, TypeOK
<1>3. VersionsOK'
    BY <1>1 DEF ChecksStayValid, VersionsOK
<1>4. ASSUME NEW d \in Callers PROVE CallOK(d)'
    <2>1. CASE d = c
        BY <1>1, <2>1, IdleType, AbsentType DEF ChecksStayValid, TypeOK, CallOK
    <2>2. CASE d # c
        <3>1. calls'[d] = calls[d]
            BY <1>1, <2>2 DEF ChecksStayValid, TypeOK
        <3>. QED  BY <1>1, <3>1 DEF ChecksStayValid, CallOK
    <2>. QED  BY <2>1, <2>2
<1>. QED  BY <1>2, <1>3, <1>4 DEF ChecksStayValid

\* The call goes on to the API call pc, having read the object of key k.
LEMMA GotoKeeps ==
    ASSUME ChecksStayValid, NEW c \in Callers,
           NEW pc \in PCs, NEW tool \in Tools, NEW k \in Keys,
           NEW force \in BOOLEAN, NEW e \in EditsOf(Assignable),
           pc \in {"get", "update", "delete"} => Exists(k),
           pc = "get" /\ tool = "capi_delete_cluster" /\ ~force => store[k].f["ready"] = 0,
           pc = "update" => CheckUpdate(policy, store[k].f) = "ok",
           pc = "delete" => CheckDelete(policy, store[k].f) = "ok",
           pc = "delete" /\ tool = "capi_delete_machine" /\ ~force
              => SafeToDelete(store[k].f),
           pc = "create" => CheckCreate(policy) = "ok",
           Local, Goto(c, pc, tool, k, force, e)
    PROVE  ChecksStayValid'
<1>. DEFINE r == [pc |-> pc, tool |-> tool, key |-> k, force |-> force,
                  edit |-> e, base |-> store[k], answer |-> "none"]
<1>1. calls' = [calls EXCEPT ![c] = r] /\ UNCHANGED <<policy, rev, store>>
    BY DEF Goto, Local
<1>2. r \in Calls
    BY DEF ChecksStayValid, TypeOK, Calls, Answers
<1>3. TypeOK'
    BY <1>1, <1>2 DEF ChecksStayValid, TypeOK
<1>4. VersionsOK'
    BY <1>1 DEF ChecksStayValid, VersionsOK
<1>5. ASSUME NEW d \in Callers PROVE CallOK(d)'
    <2>1. CASE d = c
        <3>1. calls'[c] = r
            BY <1>1 DEF ChecksStayValid, TypeOK
        <3>2. store[k].rv <= rev /\ (Exists(k) => store[k].rv > 0)
            BY DEF ChecksStayValid, VersionsOK, TypeOK, Objects, Exists
        <3>. QED  BY <1>1, <2>1, <3>1, <3>2 DEF CallOK
    <2>2. CASE d # c
        <3>1. calls'[d] = calls[d]
            BY <1>1, <2>2 DEF ChecksStayValid, TypeOK
        <3>. QED  BY <1>1, <3>1 DEF ChecksStayValid, CallOK
    <2>. QED  BY <2>1, <2>2
<1>. QED  BY <1>3, <1>4, <1>5 DEF ChecksStayValid

\* The object of key k becomes o, which is gone or carries a new version; the
\* calls in flight go on, except that one of them may end.
LEMMA WriteKeeps ==
    ASSUME ChecksStayValid, NEW k \in Keys, NEW o \in Objects,
           o = Absent \/ o.rv = rev + 1,
           rev' = rev + 1, policy' = policy,
           store' = [store EXCEPT ![k] = o],
           \/ calls' = calls
           \/ \E c \in Callers, a \in Answers : Answer(c, a)
    PROVE  ChecksStayValid'
<1>1. calls' \in [Callers -> Calls]
    BY IdleType DEF ChecksStayValid, TypeOK, Answer
<1>2. \A d \in Callers : calls'[d] = calls[d] \/ \E a \in Answers : calls'[d] = Idle(a)
    BY DEF ChecksStayValid, TypeOK, Answer
<1>3. TypeOK'
    BY <1>1, <1>2, IdleType DEF ChecksStayValid, TypeOK
<1>4. VersionsOK'
    BY AbsentType DEF ChecksStayValid, VersionsOK, TypeOK, Objects
<1>5. ASSUME NEW d \in Callers PROVE CallOK(d)'
    <2>1. CASE calls'[d] = calls[d]
        <3>1. calls[d].base.rv \in Nat /\ calls[d].base.rv <= rev
            BY DEF ChecksStayValid, TypeOK, Calls, Objects, CallOK
        <3>2. CASE calls[d].pc \in {"get", "update", "delete"}
            <4>1. calls[d].key \in Keys /\ calls[d].base.rv > 0
                BY <3>2 DEF ChecksStayValid, TypeOK, CallOK
            <4>2. o.rv # calls[d].base.rv
                BY <3>1, <4>1, AbsentType DEF ChecksStayValid, TypeOK
            <4>3. store'[calls[d].key].rv = calls[d].base.rv
                     => store'[calls[d].key] = calls[d].base
                BY <3>2, <4>1, <4>2 DEF ChecksStayValid, TypeOK, CallOK
            <4>. QED  BY <2>1, <3>1, <4>1, <4>3 DEF ChecksStayValid, TypeOK, CallOK
        <3>3. CASE calls[d].pc \notin {"get", "update", "delete"}
            BY <2>1, <3>1, <3>3 DEF ChecksStayValid, TypeOK, CallOK
        <3>. QED  BY <3>2, <3>3
    <2>2. CASE \E a \in Answers : calls'[d] = Idle(a)
        BY <2>2, IdleType, AbsentType DEF ChecksStayValid, TypeOK, CallOK
    <2>. QED  BY <1>2, <2>1, <2>2
<1>. QED  BY <1>3, <1>4, <1>5 DEF ChecksStayValid
-----------------------------------------------------------------------------
(* Each tool action is one of the above.                                   *)

LEMMA GetForUpdateKeeps ==
    ASSUME ChecksStayValid, NEW c \in Callers, NEW tool \in Tools,
           NEW k \in Keys, NEW e \in EditsOf(Assignable),
           GetForUpdate(c, tool, k, e)
    PROVE  ChecksStayValid'
<1>. CheckUpdate(policy, store[k].f) \in Answers
    BY CheckType DEF ChecksStayValid, TypeOK
<1>1. CASE ~Exists(k) /\ Answer(c, "NotFound")
    BY <1>1, AnswerKeeps DEF GetForUpdate, Answers
<1>2. CASE Answer(c, CheckUpdate(policy, store[k].f))
    BY <1>2, AnswerKeeps DEF GetForUpdate
<1>3. CASE /\ Exists(k)
           /\ CheckUpdate(policy, store[k].f) = "ok"
           /\ Goto(c, "update", tool, k, FALSE, e)
    BY <1>3, GotoKeeps DEF GetForUpdate, PCs
<1>. QED  BY <1>1, <1>2, <1>3 DEF GetForUpdate

LEMMA GetForDeleteKeeps ==
    ASSUME ChecksStayValid, NEW c \in Callers, NEW tool \in Tools,
           NEW k \in Keys, NEW force \in BOOLEAN, NEW safe \in BOOLEAN,
           tool = "capi_delete_machine" /\ ~force /\ safe => SafeToDelete(store[k].f),
           GetForDelete(c, tool, k, force, safe)
    PROVE  ChecksStayValid'
<1>. CheckDelete(policy, store[k].f) \in Answers
    BY CheckType DEF ChecksStayValid, TypeOK
<1>1. CASE ~Exists(k) /\ Answer(c, "NotFound")
    BY <1>1, AnswerKeeps DEF GetForDelete, Answers
<1>2. CASE Answer(c, CheckDelete(policy, store[k].f))
    BY <1>2, AnswerKeeps DEF GetForDelete
<1>3. CASE Answer(c, "SafetyCheck")
    BY <1>3, AnswerKeeps DEF GetForDelete, Answers
<1>4. CASE /\ Exists(k) /\ safe
           /\ CheckDelete(policy, store[k].f) = "ok"
           /\ Goto(c, "delete", tool, k, force, NoEdit)
    BY <1>4, GotoKeeps, NoEditType DEF GetForDelete, PCs
<1>. QED  BY <1>1, <1>2, <1>3, <1>4 DEF GetForDelete

LEMMA ClusterToolsKeep ==
    ASSUME ChecksStayValid, NEW c \in Callers, ClusterTools(c)
    PROVE  ChecksStayValid'
<1>. PICK k \in Clusters :
        \/ PauseCluster(c, k)
        \/ ResumeCluster(c, k)
        \/ UpdateCluster(c, k)
        \/ \E found \in BOOLEAN : CreateCluster(c, k, found)
        \/ \E force \in BOOLEAN : DeleteClusterHandler(c, k, force)
    BY DEF ClusterTools
<1>k. k \in Keys
    BY DEF Keys
<1>1. CASE PauseCluster(c, k)
    <2>. Set("paused", 1) \in EditsOf(Assignable)
        BY SetType, ValsType DEF Assignable
    <2>. QED  BY <1>1, <1>k, GetForUpdateKeeps DEF PauseCluster, Tools
<1>2. CASE ResumeCluster(c, k)
    <2>. Set("paused", 0) \in EditsOf(Assignable)
        BY SetType, ValsType DEF Assignable
    <2>. QED  BY <1>2, <1>k, GetForUpdateKeeps DEF ResumeCluster, Tools
<1>3. CASE UpdateCluster(c, k)
    <2>. PICK e \in SmallEditsOf({"label", "managed", "protected", "paused"}) :
            GetForUpdate(c, "capi_update_cluster", k, e)
        BY <1>3 DEF UpdateCluster, UpdateClusterArguments
    <2>. {"label", "managed", "protected", "paused"} \in SUBSET Assignable
        BY DEF Assignable
    <2>. e \in EditsOf(Assignable)
        BY SmallEditsType
    <2>. QED  BY <1>k, GetForUpdateKeeps DEF Tools
<1>4. ASSUME NEW found \in BOOLEAN, CreateCluster(c, k, found)
      PROVE  ChecksStayValid'
    <2>1. CASE CheckCreate(policy) # "ok"
        BY <1>4, <2>1, AnswerKeeps, CheckType DEF CreateCluster, ChecksStayValid, TypeOK
    <2>2. CASE CheckCreate(policy) = "ok" /\ ~found
        BY <1>4, <2>2, AnswerKeeps DEF CreateCluster, Answers
    <2>3. CASE CheckCreate(policy) = "ok" /\ found
        BY <1>4, <1>k, <2>3, GotoKeeps, NoEditType DEF CreateCluster, Tools, PCs
    <2>. QED  BY <2>1, <2>2, <2>3
<1>5. ASSUME NEW force \in BOOLEAN, DeleteClusterHandler(c, k, force)
      PROVE  ChecksStayValid'
    <2>1. CASE Answer(c, "NotFound") \/ Answer(c, "SafetyCheck")
        BY <1>5, <2>1, AnswerKeeps DEF DeleteClusterHandler, Answers
    <2>2. CASE /\ Exists(k) /\ (~force => store[k].f["ready"] = 0)
               /\ Goto(c, "get", "capi_delete_cluster", k, force, NoEdit)
        BY <1>5, <1>k, <2>2, GotoKeeps, NoEditType DEF DeleteClusterHandler, Tools, PCs
    <2>. QED  BY <1>5, <2>1, <2>2 DEF DeleteClusterHandler
<1>. QED  BY <1>1, <1>2, <1>3, <1>4, <1>5

LEMMA MachineToolsKeep ==
    ASSUME ChecksStayValid, NEW c \in Callers, MachineTools(c)
    PROVE  ChecksStayValid'
<1>. PICK k \in Machines :
        \/ \E force \in BOOLEAN : DeleteMachine(c, k, force)
        \/ RemediateMachineHandler(c, k)
    BY DEF MachineTools
<1>k. k \in Keys
    BY DEF Keys
<1>1. ASSUME NEW force \in BOOLEAN, DeleteMachine(c, k, force)
      PROVE  ChecksStayValid'
    <2>. DEFINE safe == force \/ SafeToDelete(store[k].f)
    <2>. safe \in BOOLEAN
        BY DEF SafeToDelete
    <2>1. GetForDelete(c, "capi_delete_machine", k, force, safe)
        BY <1>1 DEF DeleteMachine
    <2>2. ~force /\ safe => SafeToDelete(store[k].f)
        OBVIOUS
    <2>. HIDE DEF safe
    <2>. QED  BY <1>k, <2>1, <2>2, GetForDeleteKeeps DEF Tools
<1>2. CASE RemediateMachineHandler(c, k)
    <2>1. CASE Answer(c, "NotFound")
        BY <1>2, <2>1, AnswerKeeps DEF RemediateMachineHandler, Answers
    <2>2. CASE Exists(k) /\ Goto(c, "get", "capi_remediate_machine", k, FALSE, NoEdit)
        BY <1>2, <1>k, <2>2, GotoKeeps, NoEditType DEF RemediateMachineHandler, Tools, PCs
    <2>. QED  BY <1>2, <2>1, <2>2 DEF RemediateMachineHandler
<1>. QED  BY <1>1, <1>2

LEMMA MachineDeploymentToolsKeep ==
    ASSUME ChecksStayValid, NEW c \in Callers, MachineDeploymentTools(c)
    PROVE  ChecksStayValid'
<1>. PICK k \in MachineDeployments :
        \/ CreateMachineDeployment(c, k)
        \/ \E n \in Vals : ScaleMachineDeploymentHandler(c, k, n)
        \/ UpdateMachineDeployment(c, k)
        \/ RolloutMachineDeployment(c, k)
    BY DEF MachineDeploymentTools
<1>k. k \in Keys
    BY DEF Keys
<1>1. CASE CreateMachineDeployment(c, k)
    <2>1. CASE CheckCreate(policy) # "ok"
        BY <1>1, <2>1, AnswerKeeps, CheckType
           DEF CreateMachineDeployment, ChecksStayValid, TypeOK
    <2>2. CASE CheckCreate(policy) = "ok"
        <3>. PICK e \in CreateMachineDeploymentArguments :
                Goto(c, "create", "capi_create_machinedeployment", k, FALSE, e)
            BY <1>1, <2>2 DEF CreateMachineDeployment
        <3>1. {"replicas", "template"} \in SUBSET Assignable
            BY DEF Assignable
        <3>2. e \in [{"replicas", "template"} -> Vals]
            BY DEF CreateMachineDeploymentArguments
        <3>3. e \in EditsOf(Assignable)
            BY <3>1, <3>2 DEF EditsOf
        <3>. QED  BY <1>1, <1>k, <2>2, <3>3, GotoKeeps
                  DEF CreateMachineDeployment, Tools, PCs
    <2>. QED  BY <2>1, <2>2
<1>2. ASSUME NEW n \in Vals, ScaleMachineDeploymentHandler(c, k, n)
      PROVE  ChecksStayValid'
    <2>1. CASE Answer(c, "NotFound")
        BY <1>2, <2>1, AnswerKeeps DEF ScaleMachineDeploymentHandler, Answers
    <2>2. CASE /\ Exists(k)
               /\ Goto(c, "get", "capi_scale_machinedeployment", k, FALSE, Set("replicas", n))
        <3>. Set("replicas", n) \in EditsOf(Assignable)
            BY SetType DEF Assignable
        <3>. QED  BY <1>2, <1>k, <2>2, GotoKeeps DEF ScaleMachineDeploymentHandler, Tools, PCs
    <2>. QED  BY <1>2, <2>1, <2>2 DEF ScaleMachineDeploymentHandler
<1>3. CASE UpdateMachineDeployment(c, k)
    <2>. PICK e \in SmallEditsOf({"replicas", "template", "label", "managed"}) :
            GetForUpdate(c, "capi_update_machinedeployment", k, e)
        BY <1>3 DEF UpdateMachineDeployment, UpdateMachineDeploymentArguments
    <2>. {"replicas", "template", "label", "managed"} \in SUBSET Assignable
        BY DEF Assignable
    <2>. e \in EditsOf(Assignable)
        BY SmallEditsType
    <2>. QED  BY <1>k, GetForUpdateKeeps DEF Tools
<1>4. CASE RolloutMachineDeployment(c, k)
    <2>. PICK e \in RolloutArguments :
            GetForUpdate(c, "capi_rollout_machinedeployment", k, e)
        BY <1>4 DEF RolloutMachineDeployment
    <2>. PICK S \in {{"rolloutAfter"}, {"rolloutAfter", "label"}} : e \in [S -> Vals \ {0}]
        BY DEF RolloutArguments
    <2>1. S \in SUBSET Assignable /\ e \in [S -> Vals]
        BY DEF Assignable
    <2>2. e \in EditsOf(Assignable)
        BY <2>1 DEF EditsOf
    <2>. QED  BY <1>k, <2>2, GetForUpdateKeeps DEF Tools
<1>. QED  BY <1>1, <1>2, <1>3, <1>4

LEMMA ContinueKeeps ==
    ASSUME ChecksStayValid, NEW c \in Callers, Continue(c)
    PROVE  ChecksStayValid'
<1>. DEFINE k == calls[c].key
<1>t. /\ calls[c] \in Calls
      /\ calls[c].pc # "idle" => k \in Keys
      /\ rev \in Nat
    BY DEF ChecksStayValid, TypeOK
<1>e. calls[c].edit \in EditsOf(Assignable) /\ calls[c].base \in Objects
    BY <1>t DEF Calls
<1>1. CASE DeleteCluster(c)
    BY <1>1, <1>t, GetForDeleteKeeps DEF DeleteCluster, Tools, Calls
<1>2. CASE RemediateMachine(c)
    <2>. PICK now \in Vals \ {0} :
            GetForUpdate(c, "capi_remediate_machine", k, Set("remediate", now))
        BY <1>2 DEF RemediateMachine
    <2>. Set("remediate", now) \in EditsOf(Assignable)
        BY SetType DEF Assignable
    <2>. QED  BY <1>2, <1>t, GetForUpdateKeeps DEF RemediateMachine, Tools
<1>3. CASE ScaleMachineDeployment(c)
    BY <1>3, <1>t, <1>e, GetForUpdateKeeps DEF ScaleMachineDeployment, Tools
<1>4. CASE Update(c)
    <2>. DEFINE o == [rv |-> rev + 1, f |-> Apply(calls[c].edit, calls[c].base.f)]
    <2>1. o \in Objects /\ o.rv = rev + 1
        BY <1>t, <1>e, ApplyType DEF Objects
    <2>2. Accepted(c, o) /\ k \in Keys
        BY <1>4, <1>t DEF Update
    <2>. HIDE DEF o
    <2>. QED  BY <2>1, <2>2, WriteKeeps DEF Accepted, Answers
<1>5. CASE Delete(c)
    BY <1>5, <1>t, AbsentType, WriteKeeps DEF Delete, Accepted, Answers
<1>6. CASE Create(c)
    <2>. DEFINE o == [rv |-> rev + 1, f |-> Apply(calls[c].edit, Absent.f)]
    <2>1. o \in Objects /\ o.rv = rev + 1
        BY <1>t, <1>e, ApplyType, AbsentType DEF Objects
    <2>2. Accepted(c, o) /\ k \in Keys
        BY <1>6, <1>t DEF Create
    <2>. HIDE DEF o
    <2>. QED  BY <2>1, <2>2, WriteKeeps DEF Accepted, Answers
<1>7. CASE UpdateRefused(c) \/ DeleteRefused(c) \/ CreateRefused(c) \/ CallFails(c)
    BY <1>7, AnswerKeeps
       DEF UpdateRefused, DeleteRefused, CreateRefused, CallFails, Answers
<1>. QED  BY <1>1, <1>2, <1>3, <1>4, <1>5, <1>6, <1>7 DEF Continue

LEMMA OutsideKeeps ==
    ASSUME ChecksStayValid, Outside
    PROVE  ChecksStayValid'
<1>. rev \in Nat /\ store \in [Keys -> Objects]
    BY DEF ChecksStayValid, TypeOK
<1>1. ASSUME NEW k \in Keys, NEW x \in FieldsOf(k), NEW v \in Vals, OutsideEdit(k, x, v)
      PROVE  ChecksStayValid'
    <2>. DEFINE o == [rv |-> rev + 1, f |-> [store[k].f EXCEPT ![x] = v]]
    <2>0. x \in Fields /\ store[k].f \in [Fields -> Vals]
        BY DEF Objects, FieldsOf, Fields
    <2>1. [store[k].f EXCEPT ![x] = v] \in [Fields -> Vals]
        BY <2>0
    <2>2. o \in Objects /\ o.rv = rev + 1
        BY <2>1 DEF Objects
    <2>3. store' = [store EXCEPT ![k] = o]
        BY <1>1 DEF OutsideEdit
    <2>. HIDE DEF o
    <2>. QED  BY <1>1, <2>2, <2>3, WriteKeeps DEF OutsideEdit
<1>2. ASSUME NEW k \in Keys, OutsideDelete(k)
      PROVE  ChecksStayValid'
    BY <1>2, AbsentType, WriteKeeps DEF OutsideDelete
<1>3. ASSUME NEW k \in Keys, OutsideCreate(k)
      PROVE  ChecksStayValid'
    <2>. DEFINE o == [rv |-> rev + 1, f |-> Absent.f]
    <2>1. o \in Objects /\ o.rv = rev + 1
        BY AbsentType DEF Objects
    <2>2. store' = [store EXCEPT ![k] = o]
        BY <1>3 DEF OutsideCreate
    <2>. HIDE DEF o
    <2>. QED  BY <1>3, <2>1, <2>2, WriteKeeps DEF OutsideCreate
<1>. QED  BY <1>1, <1>2, <1>3 DEF Outside
-----------------------------------------------------------------------------
LEMMA InitChecks == Init => ChecksStayValid
<1>. SUFFICES ASSUME Init PROVE ChecksStayValid
    OBVIOUS
<1>1. \A c \in Callers : calls[c] = Idle("none") /\ Idle("none") \in Calls
    BY IdleType DEF Init, Answers
<1>2. store \in [Keys -> Objects]
    BY AbsentType, ValsType DEF Init, Objects
<1>3. \A k \in Keys : store[k] = Absent \/ store[k].rv = 1
    BY DEF Init
<1>4. TypeOK
    BY <1>1, <1>2, IdleType DEF Init, TypeOK, Answers
<1>5. VersionsOK
    BY <1>3, AbsentType DEF Init, VersionsOK
<1>6. \A c \in Callers : CallOK(c)
    BY <1>1, IdleType, AbsentType DEF Init, CallOK, Answers
<1>. QED  BY <1>4, <1>5, <1>6 DEF ChecksStayValid

LEMMA NextChecks == ChecksStayValid /\ [Next]_vars => ChecksStayValid'
<1>. SUFFICES ASSUME ChecksStayValid, [Next]_vars PROVE ChecksStayValid'
    OBVIOUS
<1>1. ASSUME NEW c \in Callers,
             ClusterTools(c) \/ MachineTools(c) \/ MachineDeploymentTools(c) \/ Continue(c)
      PROVE  ChecksStayValid'
    BY <1>1, ClusterToolsKeep, MachineToolsKeep, MachineDeploymentToolsKeep, ContinueKeeps
<1>2. CASE Outside
    BY <1>2, OutsideKeeps
<1>3. CASE UNCHANGED vars
    BY <1>3 DEF vars, ChecksStayValid, TypeOK, VersionsOK, CallOK
<1>. QED  BY <1>1, <1>2, <1>3 DEF Next

\* The inductive invariant holds: what a tool checked on the object it read
\* (CheckUpdate, CheckDelete, the safety check of DeleteMachine, the readiness
\* check of the capi_delete_cluster handler) is true of the stored object for as long as its resourceVersion is the one that was read.
THEOREM ChecksAlwaysValid == Spec => []ChecksStayValid
BY InitChecks, NextChecks, PTL DEF Spec

\* The type invariant of the client, its calls and the API server.
THEOREM TypeCorrect == Spec => []TypeOK
BY ChecksAlwaysValid, PTL DEF ChecksStayValid

-----------------------------------------------------------------------------
(* Which steps of a call write, and what they write.                       *)

\* A step in which call c writes is its Update, its Delete or its Create.
LEMMA WhoWrites ==
    ASSUME ChecksStayValid, [Next]_vars, NEW c \in Callers, Writes(c)
    PROVE  Update(c) \/ Delete(c) \/ Create(c)
<1>1. store' # store /\ calls' # calls
    BY DEF Writes
<1>2. ~Outside
    BY <1>1 DEF Outside, OutsideEdit, OutsideDelete, OutsideCreate
<1>3. \A d \in Callers : ~ClusterTools(d) /\ ~MachineTools(d) /\ ~MachineDeploymentTools(d)
    BY <1>1 DEF ClusterTools, MachineTools, MachineDeploymentTools, PauseCluster,
       ResumeCluster, UpdateCluster, CreateCluster, DeleteClusterHandler, DeleteMachine,
       RemediateMachineHandler, CreateMachineDeployment, ScaleMachineDeploymentHandler,
       UpdateMachineDeployment, RolloutMachineDeployment, GetForUpdate, GetForDelete, Local
<1>4. PICK d \in Callers : Continue(d)
    BY <1>1, <1>2, <1>3 DEF Next, vars
<1>5. Update(d) \/ Delete(d) \/ Create(d)
    BY <1>1, <1>4 DEF Continue, DeleteCluster, RemediateMachine, ScaleMachineDeployment,
       GetForUpdate, GetForDelete, UpdateRefused, DeleteRefused, CreateRefused, CallFails, Local
<1>6. d = c
    BY <1>5 DEF Update, Delete, Create, Accepted, Answer, Writes, ChecksStayValid, TypeOK
<1>. QED  BY <1>5, <1>6

\* The object an Update replaces is the one that was read and checked.
LEMMA UpdateIsChecked ==
    ASSUME ChecksStayValid, NEW c \in Callers, Update(c)
    PROVE  /\ calls[c].key \in Keys
           /\ store[calls[c].key] = calls[c].base
           /\ CheckUpdate(policy, store[calls[c].key].f) = "ok"
           /\ store'[calls[c].key].f = Apply(calls[c].edit, store[calls[c].key].f)
           /\ store'[calls[c].key].rv = rev + 1
<1>1. calls[c].key \in Keys /\ store[calls[c].key] = calls[c].base
    BY DEF ChecksStayValid, TypeOK, CallOK, Update, SameVersion
<1>2. CheckUpdate(policy, calls[c].base.f) = "ok"
    BY DEF ChecksStayValid, CallOK, Update
<1>3. store'[calls[c].key] = [rv |-> rev + 1, f |-> Apply(calls[c].edit, calls[c].base.f)]
    BY <1>1 DEF ChecksStayValid, TypeOK, Update, Accepted
<1>. QED  BY <1>1, <1>2, <1>3

\* PauseCluster, UpdateCluster, ScaleMachineDeployment and the others check the
\* GitOps guard on what they read; still no Update is accepted on an object
\* that is managed when the Update arrives.
THEOREM GuardHolds == Spec => GuardHoldsAtUpdate
<1>1. ChecksStayValid /\ [Next]_vars
        => [\A c \in Callers :
              Writes(c) /\ calls[c].pc = "update" /\ policy.gitOpsGuard
                 => ~ManagedBy(store[calls[c].key].f)]_vars
    <2>. SUFFICES ASSUME ChecksStayValid, [Next]_vars, NEW c \in Callers,
                         Writes(c), calls[c].pc = "update", policy.gitOpsGuard
                  PROVE  ~ManagedBy(store[calls[c].key].f)
        OBVIOUS
    <2>1. Update(c)
        BY WhoWrites DEF Delete, Create
    <2>. QED  BY <2>1, UpdateIsChecked DEF CheckUpdate, check
<1>. QED  BY <1>1, ChecksAlwaysValid, PTL DEF Spec, GuardHoldsAtUpdate

\* Every Update sends the whole object back, and still loses nothing that
\* another tool call, a person or a controller wrote in the meantime.
THEOREM LosesNothing == Spec => NoLostUpdate
<1>1. ChecksStayValid /\ [Next]_vars
        => [\A c \in Callers :
              Writes(c) /\ calls[c].pc = "update"
                 => \A x \in Fields \ DOMAIN calls[c].edit :
                       store'[calls[c].key].f[x] = store[calls[c].key].f[x]]_vars
    <2>. SUFFICES ASSUME ChecksStayValid, [Next]_vars, NEW c \in Callers,
                         Writes(c), calls[c].pc = "update",
                         NEW x \in Fields \ DOMAIN calls[c].edit
                  PROVE  store'[calls[c].key].f[x] = store[calls[c].key].f[x]
        OBVIOUS
    <2>1. Update(c)
        BY WhoWrites DEF Delete, Create
    <2>. QED  BY <2>1, UpdateIsChecked DEF Apply
<1>. QED  BY <1>1, ChecksAlwaysValid, PTL DEF Spec, NoLostUpdate

\* A server started with --read-only changes nothing on the API server.
THEOREM ReadOnlyIsReadOnly == Spec => ReadOnlyNeverWrites
<1>1. ChecksStayValid /\ [Next]_vars
        => [policy.readOnly => \A c \in Callers : ~Writes(c)]_vars
    <2>. SUFFICES ASSUME ChecksStayValid, [Next]_vars, policy.readOnly,
                         NEW c \in Callers, Writes(c)
                  PROVE  FALSE
        OBVIOUS
    <2>1. CASE Update(c)
        BY <2>1, UpdateIsChecked DEF CheckUpdate, check
    <2>2. CASE Delete(c)
        BY <2>2 DEF ChecksStayValid, CallOK, Delete, CheckDelete, check
    <2>3. CASE Create(c)
        BY <2>3 DEF ChecksStayValid, CallOK, Create, CheckCreate
    <2>. QED  BY <2>1, <2>2, <2>3, WhoWrites
<1>. QED  BY <1>1, ChecksAlwaysValid, PTL DEF Spec, ReadOnlyNeverWrites

\* An object about to be deleted that has not changed since it was read passed
\* CheckDelete and, for a Machine without force, the safety check.
THEOREM DeletesAreChecked == Spec => []UnchangedIsSafeToDelete
<1>1. ChecksStayValid => UnchangedIsSafeToDelete
    BY DEF ChecksStayValid, CallOK, UnchangedIsSafeToDelete, SameVersion
<1>. QED  BY <1>1, ChecksAlwaysValid, PTL

\* The tools that read twice: only capi_delete_cluster goes on to a Delete.
LEMMA SecondReadOfDelete ==
    ASSUME ChecksStayValid, [Next]_vars, NEW c \in Callers,
           calls[c].pc = "get", calls'[c].pc = "delete"
    PROVE  calls[c].tool = "capi_delete_cluster"
<1>1. calls'[c] # calls[c]
    OBVIOUS
<1>2. ~Outside /\ ~UNCHANGED vars
    BY <1>1 DEF Outside, OutsideEdit, OutsideDelete, OutsideCreate, vars
<1>3. PICK d \in Callers :
          ClusterTools(d) \/ MachineTools(d) \/ MachineDeploymentTools(d) \/ Continue(d)
    BY <1>2 DEF Next
<1>4. \E r : calls' = [calls EXCEPT ![d] = r]
    <2>1. CASE ClusterTools(d)
        BY <2>1 DEF ClusterTools, PauseCluster, ResumeCluster, UpdateCluster, CreateCluster,
           DeleteClusterHandler, GetForUpdate, Answer, Goto
    <2>2. CASE MachineTools(d)
        BY <2>2 DEF MachineTools, DeleteMachine, RemediateMachineHandler, GetForDelete,
           Answer, Goto
    <2>3. CASE MachineDeploymentTools(d)
        BY <2>3 DEF MachineDeploymentTools, CreateMachineDeployment,
           ScaleMachineDeploymentHandler, UpdateMachineDeployment, RolloutMachineDeployment,
           GetForUpdate, Answer, Goto
    <2>4. CASE Continue(d)
        BY <2>4 DEF Continue, DeleteCluster, RemediateMachine, ScaleMachineDeployment,
           UpdateRefused, DeleteRefused, CreateRefused, CallFails, GetForUpdate,
           GetForDelete, Answer, Goto, Update, Delete, Create, Accepted
    <2>. QED  BY <1>3, <2>1, <2>2, <2>3, <2>4
<1>5. d = c
    BY <1>1, <1>4 DEF ChecksStayValid, TypeOK
<1>6. Continue(c)
    BY <1>3, <1>5 DEF ClusterTools, MachineTools, MachineDeploymentTools, PauseCluster,
       ResumeCluster, UpdateCluster, CreateCluster, DeleteClusterHandler, DeleteMachine,
       RemediateMachineHandler, CreateMachineDeployment, ScaleMachineDeploymentHandler,
       UpdateMachineDeployment, RolloutMachineDeployment, Start
<1>7. \A k, tool, e : ~GetForUpdate(c, tool, k, e)
    BY DEF GetForUpdate, Answer, Goto, Idle, ChecksStayValid, TypeOK
<1>8. ~\E a : Answer(c, a)
    BY DEF Answer, Idle, ChecksStayValid, TypeOK
<1>9. DeleteCluster(c)
    BY <1>6, <1>7, <1>8 DEF Continue, RemediateMachine, ScaleMachineDeployment, UpdateRefused,
       DeleteRefused, CreateRefused, CallFails, Update, Delete, Create
<1>. QED  BY <1>9 DEF DeleteCluster

\* capi_delete_cluster judges readiness on one read and deletes after another:
\* without force, a Ready cluster passes only if it changed between the two.
THEOREM ReadyMeansChanged == Spec => ReadyOnlySinceRead
<1>. DEFINE B(c) ==
        calls[c].pc = "get" /\ calls'[c].pc = "delete" /\ ~calls[c].force /\ SameVersion(c)
           => store[calls[c].key].f["ready"] = 0
            A == \A c \in Callers : B(c)
<1>1. ASSUME ChecksStayValid, [Next]_vars PROVE [A]_vars
    BY <1>1, SecondReadOfDelete DEF ChecksStayValid, CallOK, SameVersion
<1>. QED  BY <1>1, ChecksAlwaysValid, PTL DEF Spec, ReadyOnlySinceRead

-----------------------------------------------------------------------------
(* The refinement of AtomicWrites.                                         *)

Objs == [k \in Keys |-> [there |-> Exists(k), f |-> store[k].f]]
Active == {c \in Callers : calls[c].pc # "idle"}

LEMMA ObjsType ==
    ASSUME store \in [Keys -> Objects]
    PROVE  /\ Objs \in [Keys -> [there : BOOLEAN, f : [Fields -> Vals]]]
           /\ \A k \in Keys : Objs[k].there = Exists(k) /\ Objs[k].f = store[k].f
BY DEF Objs, Objects, Exists

\* A step that only moves one call on begins it, ends it or cannot be seen.
LEMMA LocalRefines ==
    ASSUME TypeOK, NEW c \in Callers, NEW r \in Calls, Local,
           calls' = [calls EXCEPT ![c] = r]
    PROVE  [Atomic!Next]_(Atomic!vars)
<1>1. policy' = policy /\ Objs' = Objs
    BY DEF Local, Objs, Exists
<1>2. \A d \in Callers : calls'[d] = IF d = c THEN r ELSE calls[d]
    BY DEF TypeOK
<1>3. CASE r.pc = "idle" /\ c \in Active
    <2>1. Active' = Active \ {c}
        BY <1>2, <1>3 DEF Active
    <2>2. Atomic!Return(c)
        BY <1>1, <1>3, <2>1 DEF Atomic!Return, Objs, Active
    <2>. QED  BY <2>2 DEF Atomic!Next
<1>4. CASE r.pc # "idle" /\ c \notin Active
    <2>1. Active' = Active \cup {c}
        BY <1>2, <1>4 DEF Active
    <2>2. Atomic!Begin(c)
        BY <1>1, <1>4, <2>1 DEF Atomic!Begin, Objs, Active
    <2>. QED  BY <2>2 DEF Atomic!Next
<1>5. CASE (r.pc = "idle") = (c \notin Active)
    <2>1. Active' = Active
        BY <1>2, <1>5 DEF Active
    <2>. QED  BY <1>1, <2>1 DEF Atomic!vars, Objs, Active
<1>. QED  BY <1>3, <1>4, <1>5

\* Only the object of key k changes.
LEMMA OthersKeep ==
    ASSUME TypeOK, TypeOK', NEW k \in Keys, NEW o, policy' = policy,
           store' = [store EXCEPT ![k] = o]
    PROVE  Atomic!Changes(k)
<1>1. Objs' \in [Keys -> [there : BOOLEAN, f : [Fields -> Vals]]]
    BY DEF TypeOK, Objs, Objects, Exists
<1>2. \A j \in Keys \ {k} : Objs'[j] = Objs[j]
    BY DEF TypeOK, Objs, Exists
<1>. QED  BY <1>1, <1>2 DEF Atomic!Changes, Atomic!Objects, Objs

LEMMA AcceptedRefines ==
    ASSUME ChecksStayValid, ChecksStayValid', NEW c \in Callers, NEW o,
           NEW k \in Keys, k = calls[c].key,
           calls[c].pc # "idle", Accepted(c, o)
    PROVE  Atomic!EndsChanging(c, k) /\ store'[k] = o
<1>1. store' = [store EXCEPT ![k] = o] /\ policy' = policy
    BY DEF Accepted
<1>2. Atomic!Changes(k)
    BY <1>1, OthersKeep DEF ChecksStayValid
<1>3. PICK a \in {"ok", "error"} : calls' = [calls EXCEPT ![c] = Idle(a)]
    BY DEF Accepted, Answer
<1>4. Active' = Active \ {c} /\ c \in Active
    BY <1>3 DEF ChecksStayValid, TypeOK, Active, Idle
<1>5. store'[k] = o
    BY <1>1 DEF ChecksStayValid, TypeOK
<1>. QED  BY <1>2, <1>4, <1>5 DEF Atomic!EndsChanging, Active

\* What the refinement mapping makes of the object of key k.
LEMMA MappedObject ==
    ASSUME NEW k \in Keys
    PROVE  /\ Objs[k].there = Exists(k) /\ Objs[k].f = store[k].f
           /\ Objs'[k].there = Exists(k)' /\ Objs'[k].f = store'[k].f
BY DEF Objs

LEMMA UpdateRefines ==
    ASSUME ChecksStayValid, ChecksStayValid', NEW c \in Callers, Update(c)
    PROVE  Atomic!Next
<1>1. PICK k \in Keys : k = calls[c].key
    BY UpdateIsChecked
<1>2. Atomic!EndsChanging(c, k)
    BY <1>1, AcceptedRefines DEF Update
<1>3. Exists(k) /\ Exists(k)'
    <2>1. rev \in Nat /\ store'[k].rv = rev + 1
        BY <1>1, UpdateIsChecked DEF ChecksStayValid, TypeOK
    <2>. QED  BY <1>1, <2>1, AbsentType DEF Update, Exists, Absent
<1>4. CheckUpdate(policy, store[k].f) = "ok"
    BY <1>1, UpdateIsChecked
<1>5. ASSUME NEW x \in Fields \ Assignable
      PROVE  store'[k].f[x] = store[k].f[x]
    <2>1. calls[c].edit \in EditsOf(Assignable)
        BY DEF ChecksStayValid, TypeOK, Calls
    <2>2. x \notin DOMAIN calls[c].edit
        BY <2>1 DEF EditsOf
    <2>. QED  BY <1>1, <2>2, UpdateIsChecked DEF Apply
<1>6. Atomic!AtomicUpdate(c, k)
    BY <1>2, <1>3, <1>4, <1>5, MappedObject
       DEF Atomic!AtomicUpdate, Atomic!CheckUpdate, Atomic!check,
           Atomic!ManagedBy, CheckUpdate, check, ManagedBy, Objs
<1>. QED  BY <1>6 DEF Atomic!Next

LEMMA DeleteRefines ==
    ASSUME ChecksStayValid, ChecksStayValid', NEW c \in Callers, Delete(c)
    PROVE  Atomic!Next
<1>1. PICK k \in Keys : k = calls[c].key
    BY DEF ChecksStayValid, TypeOK, Delete
<1>2. Atomic!EndsChanging(c, k) /\ store'[k] = Absent
    BY <1>1, AcceptedRefines DEF Delete
<1>3. Exists(k) /\ ~Exists(k)'
    BY <1>1, <1>2 DEF Delete, Exists, Absent
<1>4. ~policy.readOnly
    BY DEF ChecksStayValid, CallOK, Delete, CheckDelete, check
<1>5. Atomic!AtomicDelete(c, k)
    BY <1>2, <1>3, <1>4, MappedObject DEF Atomic!AtomicDelete, Objs
<1>. QED  BY <1>5 DEF Atomic!Next

LEMMA CreateRefines ==
    ASSUME ChecksStayValid, ChecksStayValid', NEW c \in Callers, Create(c)
    PROVE  Atomic!Next
<1>1. PICK k \in Keys : k = calls[c].key
    BY DEF ChecksStayValid, TypeOK, Create
<1>2. /\ Atomic!EndsChanging(c, k)
      /\ store'[k] = [rv |-> rev + 1, f |-> Apply(calls[c].edit, Absent.f)]
    BY <1>1, AcceptedRefines DEF Create
<1>3. ~Exists(k) /\ Exists(k)'
    <2>1. rev \in Nat /\ store'[k].rv = rev + 1
        BY <1>2 DEF ChecksStayValid, TypeOK
    <2>. QED  BY <1>1, <2>1, AbsentType DEF Create, Exists, Absent
<1>4. CheckCreate(policy) = "ok"
    BY DEF ChecksStayValid, CallOK, Create
<1>5. Atomic!AtomicCreate(c, k)
    BY <1>2, <1>3, <1>4, MappedObject
       DEF Atomic!AtomicCreate, Atomic!CheckCreate, CheckCreate, Objs
<1>. QED  BY <1>5 DEF Atomic!Next

LEMMA OutsideRefines ==
    ASSUME ChecksStayValid, ChecksStayValid', Outside
    PROVE  Atomic!Next
<1>1. PICK k \in Keys : \/ \E x \in FieldsOf(k), v \in Vals : OutsideEdit(k, x, v)
                        \/ OutsideDelete(k)
                        \/ OutsideCreate(k)
    BY DEF Outside
<1>2. policy' = policy /\ calls' = calls /\ \E o : store' = [store EXCEPT ![k] = o]
    BY <1>1 DEF OutsideEdit, OutsideDelete, OutsideCreate
<1>3. Atomic!Changes(k)
    BY <1>2, OthersKeep DEF ChecksStayValid
<1>4. Atomic!Environment(k)
    BY <1>2, <1>3 DEF Atomic!Environment
<1>. QED  BY <1>4 DEF Atomic!Next

\* An action that makes no write moves one call on.
LEMMA QuietSteps ==
    ASSUME ChecksStayValid, ChecksStayValid', NEW c \in Callers,
           \/ ClusterTools(c) \/ MachineTools(c) \/ MachineDeploymentTools(c)
           \/ Continue(c) /\ ~Update(c) /\ ~Delete(c) /\ ~Create(c)
    PROVE  Local /\ \E r \in Calls : calls' = [calls EXCEPT ![c] = r]
<1>1. Local /\ \E r : calls' = [calls EXCEPT ![c] = r]
    <2>1. CASE ClusterTools(c)
        BY <2>1 DEF ClusterTools, PauseCluster, ResumeCluster, UpdateCluster, CreateCluster,
           DeleteClusterHandler, GetForUpdate, Answer, Goto
    <2>2. CASE MachineTools(c)
        BY <2>2 DEF MachineTools, DeleteMachine, RemediateMachineHandler, GetForDelete,
           Answer, Goto
    <2>3. CASE MachineDeploymentTools(c)
        BY <2>3 DEF MachineDeploymentTools, CreateMachineDeployment,
           ScaleMachineDeploymentHandler, UpdateMachineDeployment, RolloutMachineDeployment,
           GetForUpdate, Answer, Goto
    <2>4. CASE Continue(c) /\ ~Update(c) /\ ~Delete(c) /\ ~Create(c)
        BY <2>4 DEF Continue, DeleteCluster, RemediateMachine, ScaleMachineDeployment,
           UpdateRefused, DeleteRefused, CreateRefused, CallFails, GetForUpdate,
           GetForDelete, Answer, Goto
    <2>. QED  BY <2>1, <2>2, <2>3, <2>4
<1>2. PICK r : calls' = [calls EXCEPT ![c] = r]
    BY <1>1
<1>3. r \in Calls
    BY <1>2 DEF ChecksStayValid, TypeOK
<1>. QED  BY <1>1, <1>2, <1>3

\* The tools, which read, check and write in separate API calls, implement
\* AtomicWrites, in which every update is checked against the object it
\* changes at the moment it changes it.
THEOREM ImplementsAtomic == Spec => ImplementsAtomicWrites
<1>1. Init => Atomic!Init
    <2>. SUFFICES ASSUME Init PROVE Atomic!Init
        OBVIOUS
    <2>1. TypeOK /\ Active = {}
        BY InitChecks DEF ChecksStayValid, Init, Active, Idle
    <2>2. Objs \in [Keys -> [there : BOOLEAN, f : [Fields -> Vals]]]
        BY <2>1, ObjsType DEF TypeOK
    <2>. QED  BY <2>1, <2>2 DEF Atomic!Init, Atomic!Objects, Atomic!WritePolicies,
                  WritePolicies, TypeOK, Objs, Active
<1>2. ChecksStayValid /\ ChecksStayValid' /\ [Next]_vars => [Atomic!Next]_(Atomic!vars)
    <2>. SUFFICES ASSUME ChecksStayValid, ChecksStayValid', [Next]_vars
                  PROVE  [Atomic!Next]_(Atomic!vars)
        OBVIOUS
    <2>1. ASSUME NEW c \in Callers,
                 ClusterTools(c) \/ MachineTools(c) \/ MachineDeploymentTools(c) \/ Continue(c)
          PROVE  [Atomic!Next]_(Atomic!vars)
        <3>1. CASE Update(c) \/ Delete(c) \/ Create(c)
            BY <3>1, UpdateRefines, DeleteRefines, CreateRefines
        <3>2. CASE ~Update(c) /\ ~Delete(c) /\ ~Create(c)
            BY <2>1, <3>2, QuietSteps, LocalRefines DEF ChecksStayValid
        <3>. QED  BY <3>1, <3>2
    <2>2. CASE Outside
        BY <2>2, OutsideRefines
    <2>3. CASE UNCHANGED vars
        BY <2>3 DEF vars, Atomic!vars, Exists
    <2>. QED  BY <2>1, <2>2, <2>3 DEF Next
<1>. QED  BY <1>1, <1>2, ChecksAlwaysValid, PTL
          DEF Spec, ImplementsAtomicWrites, Atomic!Spec

=============================================================================
