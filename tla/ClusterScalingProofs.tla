------------------------ MODULE ClusterScalingProofs ------------------------
(***************************************************************************)
(* Proofs about ClusterScaling, for any MachineDeployments, calls in       *)
(* flight, replica counts and versions.                                    *)
(***************************************************************************)
EXTENDS ClusterScaling, TLAPS

\* What was read as o is an older version of what is there now, or the same.
Seen(o, now) == o.rv <= now.rv /\ (o.rv = now.rv => o = now)

\* What call q relies on, the Cluster being cl and the children ch.
CallOK(q, cl, ch) ==
    /\ q.tool = "upgrade" => q.target = "kcp"
    /\ q.pc # "idle" => q.tool # "none" /\ q.answer = "none"
    /\ q.pc = "status" => q.tool = "upgrade"
    /\ q.pc \in {"resolve", "updateCluster"} =>
          q.base \in ClusterObjects /\ Seen(q.base, cl) /\ Allowed(q.base)
    /\ q.pc = "update" =>
          q.base \in ChildObjects /\ Seen(q.base, ch[q.target]) /\ Allowed(q.base)
    /\ q.pc \in {"list", "workers"} =>
          q.tool = "upgrade" /\ (cpKind = "none" \/ "kcp" \in q.wrote)
    /\ q.pc = "workers" =>
          /\ q.list \in [Children -> ChildObjects]
          /\ \A m \in MDs : /\ Seen(q.list[m], ch[m])
                            /\ q.list[m].version # 0 => m \in q.todo \cup q.wrote

\* The inductive invariant.
IInv == TypeOK /\ \A c \in Callers : CallOK(calls[c], cluster, child)

LEMMA Constants ==
    /\ "kcp" \in Children /\ MDs \subseteq Children /\ "kcp" \notin MDs
    /\ Vals \subseteq Nat /\ 0 \in Vals /\ 1 \in Vals /\ Generated \subseteq MDs
BY ScalingAssumption DEF Children, Vals

LEMMA IdleOK ==
    ASSUME NEW a \in Answers, NEW cl, NEW ch
    PROVE  Idle(a) \in Calls /\ CallOK(Idle(a), cl, ch)
<1>1. Idle(a) \in Calls
    BY Constants DEF Idle, Calls, PCs
<1>. QED  BY <1>1 DEF CallOK, Idle

\* Objects only move to later versions: what a call has read stays behind.
LEMMA CallStays ==
    ASSUME TypeOK, NEW q \in Calls, CallOK(q, cluster, child),
           NEW cl \in ClusterObjects, NEW ch \in [Children -> ChildObjects],
           cl = cluster \/ cl.rv = cluster.rv + 1,
           \A k \in Children : ch[k] = child[k] \/ ch[k].rv = child[k].rv + 1
    PROVE  CallOK(q, cl, ch)
<1>1. ASSUME NEW o, NEW p, NEW n, o.rv \in Nat, p.rv \in Nat, n.rv \in Nat,
             n = p \/ n.rv = p.rv + 1, Seen(o, p)
      PROVE  Seen(o, n)
    BY <1>1 DEF Seen
<1>2. CASE q.pc \in {"resolve", "updateCluster"}
    <2>1. q.base \in ClusterObjects /\ Seen(q.base, cluster)
        BY <1>2 DEF CallOK
    <2>2. q.base.rv \in Nat /\ cl.rv \in Nat /\ cluster.rv \in Nat
        BY <2>1 DEF TypeOK, ClusterObjects
    <2>3. Seen(q.base, cl)
        BY <1>1, <2>1, <2>2
    <2>. QED  BY <1>2, <2>1, <2>3 DEF CallOK
<1>3. CASE q.pc = "update"
    <2>1. q.base \in ChildObjects /\ q.target \in Children /\ Seen(q.base, child[q.target])
        BY <1>3 DEF CallOK, Calls
    <2>2. q.base.rv \in Nat /\ ch[q.target].rv \in Nat /\ child[q.target].rv \in Nat
        BY <2>1 DEF TypeOK, ChildObjects
    <2>3. Seen(q.base, ch[q.target])
        BY <1>1, <2>1, <2>2
    <2>. QED  BY <1>3, <2>1, <2>3 DEF CallOK
<1>4. CASE q.pc = "workers"
    <2>1. q.list \in [Children -> ChildObjects] /\ \A m \in MDs : Seen(q.list[m], child[m])
        BY <1>4 DEF CallOK
    <2>2. ASSUME NEW m \in MDs PROVE Seen(q.list[m], ch[m])
        <3>1. m \in Children
            BY Constants
        <3>2. q.list[m].rv \in Nat /\ ch[m].rv \in Nat /\ child[m].rv \in Nat
            BY <2>1, <3>1 DEF TypeOK, ChildObjects
        <3>. QED  BY <1>1, <2>1, <3>1, <3>2
    <2>. QED  BY <1>4, <2>1, <2>2 DEF CallOK
<1>5. CASE q.pc \notin {"resolve", "updateCluster", "update", "workers"}
    BY <1>5 DEF CallOK
<1>. QED  BY <1>2, <1>3, <1>4, <1>5

\* A step of call c, which goes on as q, or of everyone else.
LEMMA ObjectsKeep ==
    ASSUME IInv, Setup, running' \in Vals, begun' \in 0 .. MaxBegun,
           asked' \in [Children -> [replicas : Vals \cup {None}, version : Vals \cup {None}]],
           cluster' \in ClusterObjects, child' \in [Children -> ChildObjects],
           cluster' = cluster \/ cluster'.rv = cluster.rv + 1,
           \A k \in Children : child'[k] = child[k] \/ child'[k].rv = child[k].rv + 1,
           \/ calls' = calls
           \/ \E c \in Callers, q \in Calls :
                 calls' = [calls EXCEPT ![c] = q] /\ CallOK(q, cluster', child')
    PROVE  IInv'
<1>1. calls' \in [Callers -> Calls]
    BY DEF IInv, TypeOK
<1>2. TypeOK'
    BY <1>1 DEF IInv, TypeOK, Setup
<1>3. ASSUME NEW d \in Callers PROVE CallOK(calls'[d], cluster', child')
    <2>1. calls'[d] = calls[d] \/ CallOK(calls'[d], cluster', child')
        BY DEF IInv, TypeOK
    <2>2. calls[d] \in Calls /\ CallOK(calls[d], cluster, child) /\ TypeOK
        BY DEF IInv, TypeOK
    <2>. QED  BY <2>1, <2>2, CallStays
<1>4. (\A d \in Callers : CallOK(calls[d], cluster, child))'
    BY <1>3 DEF CallOK, Allowed, Setup
<1>. QED  BY <1>2, <1>4 DEF IInv

LEMMA StepKeeps ==
    ASSUME IInv, Fixed, begun' \in 0 .. MaxBegun,
           asked' \in [Children -> [replicas : Vals \cup {None}, version : Vals \cup {None}]],
           cluster' \in ClusterObjects, child' \in [Children -> ChildObjects],
           cluster' = cluster \/ cluster'.rv = cluster.rv + 1,
           \A k \in Children : child'[k] = child[k] \/ child'[k].rv = child[k].rv + 1,
           \/ calls' = calls
           \/ \E c \in Callers, q \in Calls :
                 calls' = [calls EXCEPT ![c] = q] /\ CallOK(q, cluster', child')
    PROVE  IInv'
<1>1. Setup /\ running' \in Vals
    BY DEF Fixed, IInv, TypeOK
<1>. QED  BY <1>1, ObjectsKeep

\* The call goes on as q, or answers, and no object changes.
LEMMA LocalKeeps ==
    ASSUME IInv, NEW c \in Callers, NEW q \in Calls, CallOK(q, cluster, child),
           calls' = [calls EXCEPT ![c] = q],
           Fixed, UNCHANGED Objects, begun' \in 0 .. MaxBegun
    PROVE  IInv'
BY StepKeeps DEF IInv, TypeOK, Objects

LEMMA AnswerKeeps ==
    ASSUME IInv, NEW c \in Callers, NEW a \in Answers, Answer(c, a),
           Fixed, UNCHANGED Objects, begun' \in 0 .. MaxBegun
    PROVE  IInv'
BY LocalKeeps, IdleOK DEF Answer

LEMMA InitHolds == Init => IInv
<1>. SUFFICES ASSUME Init PROVE IInv
    OBVIOUS
<1>1. \A c \in Callers : calls[c] = Idle("none")
    BY DEF Init
<1>2. calls \in [Callers -> Calls]
    BY IdleOK DEF Init, Answers
<1>3. cluster \in ClusterObjects
    BY Constants DEF Init, ClusterObjects
<1>4. child \in [Children -> ChildObjects]
    BY Constants DEF Init, ChildObjects
<1>5. begun \in 0 .. MaxBegun
    BY ScalingAssumption DEF Init
<1>6. TypeOK
    BY <1>2, <1>3, <1>4, <1>5, Constants DEF Init, TypeOK
<1>. QED  BY <1>1, <1>6, IdleOK DEF IInv, Answers

LEMMA LocalBegun == ASSUME IInv PROVE begun \in 0 .. MaxBegun /\ (Local => begun' \in 0 .. MaxBegun)
BY DEF IInv, TypeOK, Local

LEMMA BeginBegun == ASSUME IInv, NEW c, Begin(c) PROVE begun' \in 0 .. MaxBegun
BY ScalingAssumption DEF IInv, TypeOK, Begin

LEMMA ScaleClusterKeeps ==
    ASSUME IInv, NEW c \in Callers, NEW k \in Children, NEW n \in Vals,
           NEW invalid \in BOOLEAN, ScaleCluster(c, k, n, invalid)
    PROVE  IInv'
<1>1. Fixed /\ UNCHANGED Objects /\ begun' \in 0 .. MaxBegun
    BY BeginBegun DEF ScaleCluster, Begin
<1>. DEFINE call == [Idle("none") EXCEPT !.tool = "scale", !.target = k, !.n = n]
            q == [call EXCEPT !.pc = "get"]
            p == [call EXCEPT !.pc = IF k = "kcp" THEN "updateCluster" ELSE "resolve",
                              !.base = cluster]
<1>2. \/ \E a \in Answers : Answer(c, a)
      \/ calls' = [calls EXCEPT ![c] = q]
      \/ Allowed(cluster) /\ calls' = [calls EXCEPT ![c] = p]
    BY DEF ScaleCluster, Answers
<1>3. Idle("none") \in Calls
    BY IdleOK DEF Answers
<1>4. q \in Calls /\ CallOK(q, cluster, child)
    BY <1>3 DEF Calls, PCs, CallOK, Idle
<1>5. ASSUME Allowed(cluster) PROVE p \in Calls /\ CallOK(p, cluster, child)
    <2>1. cluster \in ClusterObjects /\ cluster.rv \in Nat
        BY DEF IInv, TypeOK, ClusterObjects
    <2>2. p \in Calls
        BY <1>3, <2>1 DEF Calls, PCs, Idle
    <2>3. /\ p.pc \in {"resolve", "updateCluster"} /\ p.tool = "scale"
          /\ p.base = cluster /\ p.answer = "none"
        BY DEF Idle
    <2>. HIDE DEF p
    <2>. QED  BY <1>5, <2>1, <2>2, <2>3 DEF CallOK, Seen
<1>. HIDE DEF p, q
<1>. QED  BY <1>1, <1>2, <1>4, <1>5, AnswerKeeps, LocalKeeps

LEMMA HandlerKeeps ==
    ASSUME IInv, NEW c \in Callers, NEW v \in Vals, NEW workers \in BOOLEAN,
           UpgradeClusterHandler(c, v, workers)
    PROVE  IInv'
<1>. DEFINE q == [Idle("none") EXCEPT !.pc = "status", !.tool = "upgrade", !.n = v,
                                      !.workers = workers]
<1>1. q \in Calls /\ CallOK(q, cluster, child)
    <2>1. q \in Calls
        BY IdleOK DEF Calls, PCs, Answers, Idle
    <2>2. q.pc = "status" /\ q.target = "kcp" /\ q.tool = "upgrade" /\ q.answer = "none"
        BY DEF Idle
    <2>. HIDE DEF q
    <2>. QED  BY <2>1, <2>2 DEF CallOK
<1>2. calls' = [calls EXCEPT ![c] = q]
    BY DEF UpgradeClusterHandler
<1>3. Fixed /\ UNCHANGED Objects /\ begun' \in 0 .. MaxBegun
    BY BeginBegun DEF UpgradeClusterHandler, Begin
<1>. QED  BY <1>1, <1>2, <1>3, LocalKeeps

\* After the control plane, or without one, an upgrade goes on or has succeeded.
LEMMA GoOnToWorkersOK ==
    ASSUME NEW q \in Calls, q.tool = "upgrade", q.target = "kcp", q.answer = "none",
           cpKind = "none" \/ "kcp" \in q.wrote, NEW cl, NEW ch
    PROVE  GoOnToWorkers(q) \in Calls /\ CallOK(GoOnToWorkers(q), cl, ch)
<1>1. CASE ~q.workers
    BY <1>1, IdleOK DEF GoOnToWorkers, Answers
<1>2. CASE q.workers
    <2>. DEFINE p == [q EXCEPT !.pc = "list"]
    <2>1. GoOnToWorkers(q) = p
        BY <1>2 DEF GoOnToWorkers
    <2>2. p \in Calls
        BY DEF Calls, PCs
    <2>3. /\ p.pc = "list" /\ p.tool = "upgrade" /\ p.target = "kcp" /\ p.wrote = q.wrote
          /\ p.answer = "none"
        BY DEF Calls
    <2>. HIDE DEF p
    <2>. QED  BY <2>1, <2>2, <2>3 DEF CallOK
<1>. QED  BY <1>1, <1>2 DEF Calls

\* An accepted Update of child k, which the call read as o and may write.
LEMMA WriteChildKeeps ==
    ASSUME IInv, NEW c \in Callers, NEW k \in Children, NEW o \in ChildObjects,
           NEW r \in Calls, WriteChild(c, k, o, r), Seen(o, child[k]),
           CallOK(r, cluster, child')
    PROVE  /\ IInv'
           /\ child[k] = o
           /\ \A m \in Children \ {k} : child'[m] = child[m]
<1>1. child[k] = o
    BY DEF WriteChild, Seen
<1>2. calls[c] \in Calls /\ calls[c].n \in Vals
    BY DEF IInv, TypeOK, Calls
<1>3. Edited(c, o) \in ChildObjects /\ Edited(c, o).rv = o.rv + 1
    <2>1. o.rv + 1 \in Nat
        BY DEF ChildObjects
    <2>2. ASSUME NEW n \in Nat, NEW v \in Vals
          PROVE  /\ [o EXCEPT !.rv = n, !.replicas = v] \in ChildObjects
                 /\ [o EXCEPT !.rv = n, !.version = v] \in ChildObjects
        BY DEF ChildObjects
    <2>3. Edited(c, o) \in ChildObjects
        BY <1>2, <2>1, <2>2 DEF Edited
    <2>4. Edited(c, o).rv = o.rv + 1
        BY DEF Edited, ChildObjects
    <2>. QED  BY <2>3, <2>4
<1>4. child' = [child EXCEPT ![k] = Edited(c, o)] /\ child \in [Children -> ChildObjects]
    BY DEF WriteChild, IInv, TypeOK
<1>5. child' \in [Children -> ChildObjects]
    BY <1>3, <1>4
<1>6. /\ \A m \in Children : child'[m] = child[m] \/ child'[m].rv = child[m].rv + 1
      /\ \A m \in Children \ {k} : child'[m] = child[m]
    BY <1>1, <1>3, <1>4
<1>7. asked' \in [Children -> [replicas : Vals \cup {None}, version : Vals \cup {None}]]
    BY <1>2 DEF WriteChild, IInv, TypeOK
<1>8. \E q \in Calls : calls' = [calls EXCEPT ![c] = q] /\ CallOK(q, cluster', child')
    <2>1. cluster' = cluster
        BY DEF WriteChild
    <2>2. Idle("error") \in Calls /\ CallOK(Idle("error"), cluster', child')
        BY IdleOK DEF Answers
    <2>. QED  BY <2>1, <2>2 DEF WriteChild, Answer
<1>9. Fixed /\ cluster' = cluster /\ cluster' \in ClusterObjects /\ begun' \in 0 .. MaxBegun
    BY DEF WriteChild, IInv, TypeOK
<1>10. IInv'
    BY <1>5, <1>6, <1>7, <1>8, <1>9, StepKeeps
<1>. QED  BY <1>1, <1>6, <1>10

LEMMA UpdateTopologyKeeps ==
    ASSUME IInv, NEW c \in Callers, UpdateTopology(c)
    PROVE  IInv' /\ Allowed(cluster) /\ child' = child
<1>. DEFINE q == calls[c]
<1>1. q \in Calls /\ q.base \in ClusterObjects /\ Seen(q.base, cluster) /\ Allowed(q.base)
    BY DEF IInv, TypeOK, CallOK, UpdateTopology
<1>2. q.base = cluster /\ cluster \in ClusterObjects
    BY <1>1 DEF UpdateTopology, Seen, IInv, TypeOK
<1>3. q.target \in Children /\ q.n \in Vals
    BY <1>1 DEF Calls
<1>4. cluster' \in ClusterObjects /\ cluster'.rv = cluster.rv + 1
    <2>1. [cluster.sizes EXCEPT ![q.target] = q.n] \in [Children -> Vals]
        BY <1>2, <1>3 DEF ClusterObjects
    <2>2. cluster' = [cluster EXCEPT !.rv = @ + 1,
                        !.sizes = [cluster.sizes EXCEPT ![q.target] = q.n]]
        BY <1>2 DEF UpdateTopology, ClusterObjects
    <2>3. cluster.rv + 1 \in Nat
        BY <1>2 DEF ClusterObjects
    <2>4. ASSUME NEW n \in Nat, NEW f \in [Children -> Vals]
          PROVE  [cluster EXCEPT !.rv = n, !.sizes = f] \in ClusterObjects
        BY <1>2 DEF ClusterObjects
    <2>5. cluster' \in ClusterObjects
        BY <2>1, <2>2, <2>3, <2>4
    <2>6. cluster'.rv = cluster.rv + 1
        BY <1>2, <2>2 DEF ClusterObjects
    <2>. QED  BY <2>5, <2>6
<1>5. asked' \in [Children -> [replicas : Vals \cup {None}, version : Vals \cup {None}]]
    BY <1>3 DEF UpdateTopology, IInv, TypeOK
<1>6. PICK a \in {"ok", "error"} : calls' = [calls EXCEPT ![c] = Idle(a)]
    BY DEF UpdateTopology, Answer
<1>7. Idle(a) \in Calls /\ CallOK(Idle(a), cluster', child')
    BY IdleOK DEF Answers
<1>8. /\ Fixed /\ child' = child /\ child' \in [Children -> ChildObjects]
      /\ begun' \in 0 .. MaxBegun
    BY DEF UpdateTopology, IInv, TypeOK
<1>9. IInv'
    BY <1>4, <1>5, <1>6, <1>7, <1>8, StepKeeps
<1>. QED  BY <1>1, <1>2, <1>8, <1>9

LEMMA UpdateChildKeeps ==
    ASSUME IInv, NEW c \in Callers, UpdateChild(c)
    PROVE  /\ IInv' /\ cluster' = cluster
           /\ \A k \in Children : child'[k] # child[k] =>
                 k = calls[c].target /\ Allowed(child[k])
<1>. DEFINE q == calls[c]
            p == [q EXCEPT !.wrote = {"kcp"}]
            r == IF q.tool = "scale" THEN Idle("ok") ELSE GoOnToWorkers(p)
<1>1. q \in Calls /\ CallOK(q, cluster, child) /\ q.pc = "update"
    BY DEF IInv, TypeOK, UpdateChild
<1>2. /\ q.base \in ChildObjects /\ q.target \in Children
      /\ Seen(q.base, child[q.target]) /\ Allowed(q.base)
    BY <1>1 DEF CallOK, Calls
<1>3. WriteChild(c, q.target, q.base, r)
    BY DEF UpdateChild
<1>4. r \in Calls /\ CallOK(r, cluster, child')
    <2>1. CASE q.tool = "scale"
        BY <2>1, IdleOK DEF Answers
    <2>2. CASE q.tool = "upgrade"
        <3>1. /\ p \in Calls /\ p.tool = "upgrade" /\ p.target = "kcp" /\ p.wrote = {"kcp"}
              /\ p.answer = "none"
            BY <1>1, <2>2, Constants DEF Calls, CallOK
        <3>. QED  BY <2>2, <3>1, GoOnToWorkersOK
    <2>3. CASE q.tool = "none"
        BY <1>1, <2>3 DEF CallOK
    <2>. QED  BY <1>1, <2>1, <2>2, <2>3 DEF Calls
<1>5. cluster' = cluster
    BY <1>3 DEF WriteChild
<1>. QED  BY <1>2, <1>3, <1>4, <1>5, WriteChildKeeps

LEMMA UpgradeWorkerKeeps ==
    ASSUME IInv, NEW c \in Callers, NEW m \in MDs, UpgradeWorker(c, m)
    PROVE  /\ IInv' /\ cluster' = cluster /\ calls'[c].answer # "ok"
           /\ \A k \in Children : child'[k] # child[k] => k = m /\ Allowed(child[k])
<1>. DEFINE q == calls[c]
            o == q.list[m]
            r == [q EXCEPT !.todo = @ \ {m}, !.wrote = @ \cup {m}]
<1>1. q \in Calls /\ CallOK(q, cluster, child) /\ q.pc = "workers" /\ m \in Children
    BY Constants DEF IInv, TypeOK, UpgradeWorker
<1>2. /\ o \in ChildObjects /\ Seen(o, child[m])
      /\ q.tool = "upgrade" /\ q.target = "kcp" /\ q.answer = "none"
      /\ q.list \in [Children -> ChildObjects]
    BY <1>1 DEF CallOK
<1>3. CASE Answer(c, "refused") /\ Local
    <2>1. IInv'
        BY <1>3, AnswerKeeps, LocalBegun DEF Local, Objects, Answers
    <2>2. calls'[c].answer # "ok"
        BY <1>3 DEF Answer, Idle, IInv, TypeOK
    <2>. QED  BY <1>3, <2>1, <2>2 DEF Local
<1>4. CASE Allowed(o) /\ WriteChild(c, m, o, r)
    <2>1. cluster' = cluster
        BY <1>4 DEF WriteChild
    <2>2. r \in Calls
        BY <1>1 DEF Calls
    <2>3. /\ r.pc = "workers" /\ r.tool = "upgrade" /\ r.target = "kcp" /\ r.answer = "none"
          /\ r.list = q.list /\ r.todo = q.todo \ {m} /\ r.wrote = q.wrote \cup {m}
        BY <1>1, <1>2 DEF Calls
    <2>. HIDE DEF r
    <2>4. IInv' /\ child[m] = o /\ \A k \in Children \ {m} : child'[k] = child[k]
        <3>1. /\ child[m] = o /\ child' = [child EXCEPT ![m] = Edited(c, o)]
              /\ child \in [Children -> ChildObjects]
            BY <1>2, <1>4 DEF WriteChild, Seen, IInv, TypeOK
        <3>2. Edited(c, o).rv = o.rv + 1 /\ o.rv \in Nat
            BY <1>2 DEF Edited, ChildObjects
        <3>3. ASSUME NEW j \in MDs PROVE Seen(q.list[j], child'[j])
            <4>1. CASE j = m
                BY <1>1, <3>1, <3>2, <4>1 DEF Seen
            <4>2. CASE j # m
                <5>1. Seen(q.list[j], child[j]) /\ child'[j] = child[j]
                    BY <1>1, <3>1, <4>2 DEF CallOK, Children
                <5>. QED  BY <5>1
            <4>. QED  BY <4>1, <4>2
        <3>4. \A j \in MDs : q.list[j].version # 0 => j \in r.todo \cup r.wrote
            BY <1>1, <2>3 DEF CallOK
        <3>5. cpKind = "none" \/ "kcp" \in r.wrote
            BY <1>1, <2>3 DEF CallOK
        <3>6. CallOK(r, cluster, child')
            BY <1>2, <2>3, <3>3, <3>4, <3>5 DEF CallOK
        <3>. QED  BY <1>1, <1>2, <1>4, <2>2, <3>6, WriteChildKeeps
    <2>5. calls'[c].answer # "ok"
        BY <1>4, <2>3 DEF WriteChild, Answer, Idle, IInv, TypeOK
    <2>. QED  BY <1>4, <2>1, <2>4, <2>5
<1>. QED  BY <1>3, <1>4 DEF UpgradeWorker

\* The steps of a call that write nothing.
LEMMA QuietStepKeeps ==
    ASSUME IInv, NEW c \in Callers,
           \/ \E byTopologyName, found \in BOOLEAN : ResolveTopologyName(c, byTopologyName, found)
           \/ UpgradeCluster(c) \/ GetChild(c) \/ ListMachineDeployments(c)
           \/ UpgradeDone(c) \/ CallFails(c)
    PROVE  IInv' /\ UNCHANGED <<cluster, child>>
<1>. DEFINE q == calls[c]
<1>1. Fixed /\ UNCHANGED Objects /\ begun' \in 0 .. MaxBegun /\ UNCHANGED <<cluster, child>>
    BY LocalBegun DEF ResolveTopologyName, UpgradeCluster, GetChild, ListMachineDeployments,
          UpgradeDone, CallFails, Local, Objects
<1>2. q \in Calls /\ CallOK(q, cluster, child) /\ calls \in [Callers -> Calls]
    BY DEF IInv, TypeOK
<1>3. CASE \E a \in Answers : Answer(c, a)
    BY <1>1, <1>3, AnswerKeeps
<1>4. CASE q.pc = "resolve" /\ calls' = [calls EXCEPT ![c].pc = "updateCluster"]
    <2>. DEFINE r == [q EXCEPT !.pc = "updateCluster"]
    <2>1. r \in Calls /\ CallOK(r, cluster, child)
        BY <1>2, <1>4 DEF Calls, PCs, CallOK
    <2>2. calls' = [calls EXCEPT ![c] = r]
        BY <1>2, <1>4
    <2>. QED  BY <1>1, <2>1, <2>2, LocalKeeps
<1>5. CASE UpgradeCluster(c)
    <2>0. q.tool = "upgrade" /\ q.target = "kcp" /\ q.answer = "none"
        BY <1>2, <1>5 DEF UpgradeCluster, CallOK
    <2>1. CASE cpKind = "none" /\ calls' = [calls EXCEPT ![c] = GoOnToWorkers(q)]
        BY <1>1, <1>2, <2>0, <2>1, GoOnToWorkersOK, LocalKeeps
    <2>2. CASE calls' = [calls EXCEPT ![c].pc = "get"]
        <3>. DEFINE r == [q EXCEPT !.pc = "get"]
        <3>1. r \in Calls /\ CallOK(r, cluster, child)
            BY <1>2, <2>0 DEF Calls, PCs, CallOK
        <3>2. calls' = [calls EXCEPT ![c] = r]
            BY <1>2, <2>2
        <3>. QED  BY <1>1, <3>1, <3>2, LocalKeeps
    <2>. QED  BY <1>3, <1>5, <2>1, <2>2 DEF UpgradeCluster, Answers
<1>6. CASE GetChild(c) /\ Allowed(child[q.target])
    <2>. DEFINE r == [q EXCEPT !.pc = "update", !.base = child[q.target]]
    <2>1. q.target \in Children /\ child[q.target] \in ChildObjects
        BY <1>2 DEF Calls, IInv, TypeOK
    <2>2. r \in Calls
        BY <1>2, <2>1 DEF Calls, PCs
    <2>3. /\ r.pc = "update" /\ r.tool = q.tool /\ r.target = q.target
          /\ r.base = child[q.target] /\ r.answer = q.answer
        BY <1>2 DEF Calls
    <2>4. calls' = [calls EXCEPT ![c] = r]
        BY <1>2, <1>6 DEF GetChild
    <2>. HIDE DEF r
    <2>5. CallOK(r, cluster, child)
        BY <1>2, <1>6, <2>1, <2>2, <2>3 DEF CallOK, Seen, ChildObjects, GetChild
    <2>. QED  BY <1>1, <2>2, <2>4, <2>5, LocalKeeps
<1>7. CASE ListMachineDeployments(c)
    <2>. DEFINE r == [q EXCEPT !.pc = "workers", !.list = child,
                               !.todo = {m \in MDs : child[m].version # 0}]
    <2>1. child \in [Children -> ChildObjects]
        BY DEF IInv, TypeOK
    <2>2. r \in Calls
        BY <1>2, <2>1 DEF Calls, PCs
    <2>3. calls' = [calls EXCEPT ![c] = r]
        BY <1>2, <1>7 DEF ListMachineDeployments
    <2>4. /\ r.pc = "workers" /\ r.tool = q.tool /\ r.target = q.target /\ r.answer = q.answer
          /\ r.list = child /\ r.todo = {m \in MDs : child[m].version # 0} /\ r.wrote = q.wrote
        BY <1>2 DEF Calls
    <2>. HIDE DEF r
    <2>5. \A m \in MDs : child[m].rv \in Nat
        BY <2>1 DEF Children, ChildObjects
    <2>6. CallOK(r, cluster, child)
        BY <1>2, <1>7, <2>1, <2>4, <2>5 DEF CallOK, Seen, ListMachineDeployments
    <2>. QED  BY <1>1, <2>2, <2>3, <2>6, LocalKeeps
<1>. QED  BY <1>3, <1>4, <1>5, <1>6, <1>7
          DEF ResolveTopologyName, GetChild, UpgradeDone, CallFails, Answers

\* The controllers and everyone else write one object and no call moves.
LEMMA ChildEditKeeps ==
    ASSUME IInv, Fixed, begun' \in 0 .. MaxBegun,
           asked' \in [Children -> [replicas : Vals \cup {None}, version : Vals \cup {None}]],
           UNCHANGED <<cluster, calls>>,
           NEW k \in Children, NEW o \in ChildObjects, o.rv = child[k].rv + 1,
           child' = [child EXCEPT ![k] = o]
    PROVE  IInv'
<1>1. child' \in [Children -> ChildObjects]
    BY DEF IInv, TypeOK
<1>2. \A m \in Children : child'[m] = child[m] \/ child'[m].rv = child[m].rv + 1
    BY DEF IInv, TypeOK
<1>3. cluster' \in ClusterObjects
    BY DEF IInv, TypeOK
<1>. QED  BY <1>1, <1>2, <1>3, StepKeeps

LEMMA ClusterEditKeeps ==
    ASSUME IInv, Fixed, begun' \in 0 .. MaxBegun,
           asked' \in [Children -> [replicas : Vals \cup {None}, version : Vals \cup {None}]],
           UNCHANGED <<child, calls>>,
           cluster' \in ClusterObjects, cluster'.rv = cluster.rv + 1
    PROVE  IInv'
BY StepKeeps DEF IInv, TypeOK

LEMMA ReconcileKeeps ==
    ASSUME IInv, NEW k \in Children, Reconcile(k)
    PROVE  IInv'
<1>. DEFINE o == [child[k] EXCEPT !.rv = child[k].rv + 1, !.replicas = cluster.sizes[k],
                                  !.version = cluster.version]
<1>1. child[k] \in ChildObjects /\ child[k].rv + 1 \in Nat
    BY DEF IInv, TypeOK, ChildObjects
<1>2. cluster.sizes[k] \in Vals /\ cluster.version \in Vals
    BY DEF IInv, TypeOK, ClusterObjects
<1>3. o \in ChildObjects
    BY <1>1, <1>2 DEF ChildObjects
<1>4. o.rv = child[k].rv + 1
    BY <1>1 DEF ChildObjects
<1>5. child' = [child EXCEPT ![k] = o]
    BY DEF Reconcile, IInv, TypeOK
<1>6. /\ begun' \in 0 .. MaxBegun /\ Fixed /\ UNCHANGED <<cluster, calls>>
      /\ asked' \in [Children -> [replicas : Vals \cup {None}, version : Vals \cup {None}]]
    BY DEF Reconcile, IInv, TypeOK
<1>. HIDE DEF o
<1>. QED  BY <1>3, <1>4, <1>5, <1>6, ChildEditKeeps

LEMMA OutsideBegun == ASSUME IInv, OutsideBegins PROVE begun' \in 0 .. MaxBegun /\ Fixed
BY ScalingAssumption DEF IInv, TypeOK, OutsideBegins

LEMMA OutsideScaleKeeps ==
    ASSUME IInv, NEW k \in Children, NEW n \in Vals, OutsideScale(k, n)
    PROVE  IInv'
<1>1. begun' \in 0 .. MaxBegun /\ Fixed
    BY OutsideBegun DEF OutsideScale
<1>2. asked' \in [Children -> [replicas : Vals \cup {None}, version : Vals \cup {None}]]
    BY DEF OutsideScale, IInv, TypeOK
<1>3. CASE k \in Owned
    <2>. DEFINE f == [cluster.sizes EXCEPT ![k] = n]
    <2>1. cluster \in ClusterObjects /\ cluster.rv + 1 \in Nat /\ f \in [Children -> Vals]
        BY DEF IInv, TypeOK, ClusterObjects
    <2>2. cluster' = [cluster EXCEPT !.rv = cluster.rv + 1, !.sizes = f]
        BY <1>3, <2>1 DEF OutsideScale, ClusterObjects
    <2>3. cluster' \in ClusterObjects
        <3>. HIDE DEF f
        <3>. QED  BY <2>1, <2>2 DEF ClusterObjects
    <2>4. cluster'.rv = cluster.rv + 1
        BY <2>1, <2>2 DEF ClusterObjects
    <2>5. UNCHANGED <<child, calls>>
        BY <1>3 DEF OutsideScale
    <2>. QED  BY <1>1, <1>2, <2>3, <2>4, <2>5, ClusterEditKeeps
<1>4. CASE k \notin Owned
    <2>. DEFINE o == [child[k] EXCEPT !.rv = child[k].rv + 1, !.replicas = n]
    <2>1. child[k] \in ChildObjects /\ child[k].rv + 1 \in Nat
        BY DEF IInv, TypeOK, ChildObjects
    <2>2. o \in ChildObjects
        BY <2>1 DEF ChildObjects
    <2>3. o.rv = child[k].rv + 1
        BY <2>1 DEF ChildObjects
    <2>4. child' = [child EXCEPT ![k] = o] /\ UNCHANGED <<cluster, calls>>
        BY <1>4 DEF OutsideScale, IInv, TypeOK
    <2>. HIDE DEF o
    <2>. QED  BY <1>1, <1>2, <2>2, <2>3, <2>4, ChildEditKeeps
<1>. QED  BY <1>3, <1>4

LEMMA OutsideMarkKeeps ==
    ASSUME IInv, OutsideMarkCluster \/ \E k \in Children : OutsideMark(k)
    PROVE  IInv'
<1>1. begun' \in 0 .. MaxBegun /\ Fixed
    BY OutsideBegun DEF OutsideMarkCluster, OutsideMark
<1>2. asked' \in [Children -> [replicas : Vals \cup {None}, version : Vals \cup {None}]]
    BY DEF OutsideMarkCluster, OutsideMark, IInv, TypeOK
<1>3. CASE OutsideMarkCluster
    <2>1. cluster \in ClusterObjects /\ cluster.rv + 1 \in Nat /\ 1 - cluster.managed \in 0 .. 1
        BY DEF IInv, TypeOK, ClusterObjects
    <2>2. cluster' = [cluster EXCEPT !.rv = cluster.rv + 1, !.managed = 1 - cluster.managed]
        BY <1>3, <2>1 DEF OutsideMarkCluster
    <2>3. cluster' \in ClusterObjects
        BY <2>1, <2>2 DEF ClusterObjects
    <2>4. cluster'.rv = cluster.rv + 1
        BY <2>1, <2>2 DEF ClusterObjects
    <2>5. UNCHANGED <<child, calls>>
        BY <1>3 DEF OutsideMarkCluster
    <2>. QED  BY <1>1, <1>2, <2>3, <2>4, <2>5, ClusterEditKeeps
<1>4. CASE \E k \in Children : OutsideMark(k)
    <2>1. PICK k \in Children : OutsideMark(k)
        BY <1>4
    <2>. DEFINE o == [child[k] EXCEPT !.rv = child[k].rv + 1, !.managed = 1 - child[k].managed]
    <2>2. child[k] \in ChildObjects /\ child[k].rv + 1 \in Nat /\ 1 - child[k].managed \in 0 .. 1
        BY DEF IInv, TypeOK, ChildObjects
    <2>3. o \in ChildObjects
        BY <2>2 DEF ChildObjects
    <2>4. o.rv = child[k].rv + 1
        BY <2>2 DEF ChildObjects
    <2>5. child' = [child EXCEPT ![k] = o] /\ UNCHANGED <<cluster, calls>>
        BY <2>1 DEF OutsideMark, IInv, TypeOK
    <2>. HIDE DEF o
    <2>. QED  BY <1>1, <1>2, <2>3, <2>4, <2>5, ChildEditKeeps
<1>. QED  BY <1>3, <1>4

LEMMA RollOutKeeps ==
    ASSUME IInv, RollOut
    PROVE  IInv'
<1>. DEFINE o == [child["kcp"] EXCEPT !.rv = child["kcp"].rv + 1]
<1>1. /\ "kcp" \in Children /\ child["kcp"] \in ChildObjects
      /\ child["kcp"].rv + 1 \in Nat /\ child["kcp"].version \in Vals
    BY Constants DEF IInv, TypeOK, ChildObjects
<1>2. o \in ChildObjects
    BY <1>1 DEF ChildObjects
<1>3. o.rv = child["kcp"].rv + 1
    BY <1>1 DEF ChildObjects
<1>4. child' = [child EXCEPT !["kcp"] = o] /\ child \in [Children -> ChildObjects]
    BY DEF RollOut, IInv, TypeOK
<1>. HIDE DEF o
<1>5. /\ child' \in [Children -> ChildObjects]
      /\ \A k \in Children : child'[k] = child[k] \/ child'[k].rv = child[k].rv + 1
    BY <1>2, <1>3, <1>4
<1>6. /\ Setup /\ running' \in Vals /\ begun' \in 0 .. MaxBegun
      /\ asked' \in [Children -> [replicas : Vals \cup {None}, version : Vals \cup {None}]]
      /\ cluster' = cluster /\ cluster' \in ClusterObjects /\ calls' = calls
    BY <1>1 DEF RollOut, IInv, TypeOK
<1>. QED  BY <1>5, <1>6, ObjectsKeep

LEMMA StepHolds == IInv /\ [Next]_vars => IInv'
<1>. SUFFICES ASSUME IInv, [Next]_vars PROVE IInv'
    OBVIOUS
<1>1. ASSUME NEW c \in Callers, NEW k \in Children, NEW n \in Vals, NEW invalid \in BOOLEAN,
             ScaleCluster(c, k, n, invalid)
      PROVE  IInv'
    BY <1>1, ScaleClusterKeeps
<1>2. ASSUME NEW c \in Callers, NEW v \in Vals \ {0}, NEW workers \in BOOLEAN,
             UpgradeClusterHandler(c, v, workers)
      PROVE  IInv'
    BY <1>2, HandlerKeeps
<1>3. ASSUME NEW c \in Callers, Step(c) PROVE IInv'
    BY <1>3, QuietStepKeeps, UpdateTopologyKeeps, UpdateChildKeeps, UpgradeWorkerKeeps DEF Step
<1>4. ASSUME NEW k \in Children, Reconcile(k) \/ OutsideMark(k) \/ \E n \in Vals : OutsideScale(k, n)
      PROVE  IInv'
    BY <1>4, ReconcileKeeps, OutsideMarkKeeps, OutsideScaleKeeps
<1>5. CASE OutsideMarkCluster
    BY <1>5, OutsideMarkKeeps
<1>6. CASE RollOut
    BY <1>6, RollOutKeeps
<1>7. CASE UNCHANGED vars
    BY <1>7 DEF vars, IInv, TypeOK, CallOK, Allowed
<1>. QED  BY <1>1, <1>2, <1>3, <1>4, <1>5, <1>6, <1>7 DEF Next

LEMMA Invariance == Spec => []IInv
BY InitHolds, StepHolds, PTL DEF Spec

LEMMA StepMovesOne ==
    ASSUME IInv, NEW c \in Callers, Step(c)
    PROVE  \E q : calls' = [calls EXCEPT ![c] = q]
<1>1. CASE \E q, x : calls' = [calls EXCEPT ![c].pc = x] \/ calls' = [calls EXCEPT ![c] = q]
    BY <1>1
<1>2. CASE GetChild(c) \/ ListMachineDeployments(c)
    BY <1>2 DEF GetChild, ListMachineDeployments, Answer
<1>. QED  BY <1>1, <1>2 DEF Step, ResolveTopologyName, UpgradeCluster, UpdateTopology, UpdateChild,
              UpgradeWorker, UpgradeDone, CallFails, WriteChild, Answer

\* What call c writes is its own, and allowed: only its own step changes it and
\* an object together, and it found the object as it had read it.
LEMMA WritesAreAllowed ==
    ASSUME IInv, Next, NEW c \in Callers, Writes(c)
    PROVE  /\ UpdateTopology(c) \/ UpdateChild(c) \/ \E m \in MDs : UpgradeWorker(c, m)
           /\ cluster' # cluster => Allowed(cluster)
           /\ \A k \in Children : child'[k] # child[k] => Allowed(child[k])
<1>1. PICK d \in Callers : Step(d)
    BY DEF Next, Writes, ScaleCluster, UpgradeClusterHandler, Begin, Objects, Reconcile,
           OutsideMark, OutsideScale, OutsideMarkCluster, RollOut
<1>2. \/ UpdateTopology(d) \/ UpdateChild(d) \/ \E m \in MDs : UpgradeWorker(d, m)
    BY <1>1, QuietStepKeeps DEF Step, Writes
<1>3. d = c
    BY <1>2 DEF Writes, UpdateTopology, UpdateChild, UpgradeWorker, WriteChild, Answer,
               IInv, TypeOK
<1>. QED  BY <1>2, <1>3, UpdateTopologyKeeps, UpdateChildKeeps, UpgradeWorkerKeeps

\* Every variable keeps its type.
THEOREM TypeCorrect == Spec => []TypeOK
<1>1. IInv => TypeOK
    BY DEF IInv
<1>. QED  BY <1>1, Invariance, PTL

\* capi_scale_cluster and capi_upgrade_cluster never write an object that Flux,
\* Argo CD or Helm owns when the write takes effect: the policy was checked on
\* what was read, and optimistic concurrency refuses the write of anything else.
THEOREM GuardHolds == Spec => GuardHoldsAtWrite
<1>. DEFINE A == \A c \in Callers :
                   Writes(c) /\ policy.gitOpsGuard =>
                      /\ cluster' # cluster => cluster.managed = 0
                      /\ \A k \in Children : child'[k] # child[k] => child[k].managed = 0
<1>1. ASSUME IInv, [Next]_vars PROVE [A]_vars
    <2>. SUFFICES ASSUME Next, NEW c \in Callers, Writes(c), policy.gitOpsGuard
                  PROVE  /\ cluster' # cluster => cluster.managed = 0
                         /\ \A k \in Children : child'[k] # child[k] => child[k].managed = 0
        BY <1>1
    <2>1. ASSUME NEW o, Allowed(o) PROVE o.managed = 0
        BY <2>1 DEF Allowed, CheckUpdate, check, ManagedBy
    <2>. QED  BY <1>1, <2>1, WritesAreAllowed
<1>. QED  BY <1>1, Invariance, PTL DEF Spec, GuardHoldsAtWrite

\* The order of the writes of capi_upgrade_cluster: the control plane's version
\* is written before any worker's, whatever fails and whoever else writes.
THEOREM ControlPlaneIsWrittenFirst == Spec => ControlPlaneWrittenFirst
<1>. DEFINE A == \A c \in Callers, m \in MDs :
                   Writes(c) /\ calls[c].tool = "upgrade" /\ child'[m] # child[m]
                      => cpKind = "none" \/ "kcp" \in calls[c].wrote
<1>1. ASSUME IInv, [Next]_vars PROVE [A]_vars
    <2>. SUFFICES ASSUME Next, NEW c \in Callers, NEW m \in MDs, Writes(c),
                         calls[c].tool = "upgrade", child'[m] # child[m]
                  PROVE  cpKind = "none" \/ "kcp" \in calls[c].wrote
        BY <1>1
    <2>1. CallOK(calls[c], cluster, child) /\ m \in Children /\ m # "kcp"
        BY <1>1, Constants DEF IInv
    <2>2. \E j \in MDs : UpgradeWorker(c, j)
        BY <1>1, <2>1, WritesAreAllowed, UpdateTopologyKeeps, UpdateChildKeeps DEF CallOK
    <2>. QED  BY <2>1, <2>2 DEF UpgradeWorker, CallOK
<1>. QED  BY <1>1, Invariance, PTL DEF Spec, ControlPlaneWrittenFirst

\* An upgrade that answers ok has written the control plane and every worker it
\* listed with a version.
THEOREM SuccessMeansAll == Spec => SuccessIsComplete
<1>. DEFINE A == \A c \in Callers :
                   calls[c].pc = "workers" /\ calls'[c].answer = "ok" =>
                      /\ cpKind # "none" => "kcp" \in calls[c].wrote
                      /\ \A m \in MDs : calls[c].list[m].version # 0 => m \in calls[c].wrote
<1>1. ASSUME IInv, [Next]_vars PROVE [A]_vars
    <2>. SUFFICES ASSUME Next, NEW c \in Callers, calls[c].pc = "workers", calls'[c].answer = "ok"
                  PROVE  /\ cpKind # "none" => "kcp" \in calls[c].wrote
                         /\ \A m \in MDs : calls[c].list[m].version # 0 => m \in calls[c].wrote
        BY <1>1
    <2>1. CallOK(calls[c], cluster, child) /\ calls[c].answer = "none"
        BY <1>1 DEF IInv, CallOK
    <2>2. calls'[c] # calls[c]
        BY <2>1
    <2>3. Step(c)
        <3>1. PICK d \in Callers :
                 \/ Begin(d) /\ \E q : calls' = [calls EXCEPT ![d] = q]
                 \/ Step(d)
            BY <2>2 DEF Next, ScaleCluster, UpgradeClusterHandler, Reconcile, OutsideMark,
                  OutsideScale, OutsideMarkCluster, RollOut, Answer
        <3>2. \E q : calls' = [calls EXCEPT ![d] = q]
            BY <1>1, <3>1, StepMovesOne
        <3>3. d = c
            BY <2>2, <3>2, <1>1 DEF IInv, TypeOK
        <3>. QED  BY <3>1, <3>3 DEF Begin
    <2>4. UpgradeDone(c)
        <3>1. ~CallFails(c)
            BY <1>1 DEF CallFails, Answer, Idle, IInv, TypeOK
        <3>. QED  BY <1>1, <2>3, <3>1, UpgradeWorkerKeeps DEF Step, ResolveTopologyName, UpgradeCluster,
                  GetChild, ListMachineDeployments, UpdateTopology, UpdateChild
    <2>. QED  BY <2>1, <2>4 DEF UpgradeDone, CallOK
<1>. QED  BY <1>1, Invariance, PTL DEF Spec, SuccessIsComplete
=============================================================================
