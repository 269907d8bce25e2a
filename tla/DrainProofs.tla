---------------------------- MODULE DrainProofs ----------------------------
(***************************************************************************)
(* Proofs about Drain, for any pods, policies, options and bounds.         *)
(***************************************************************************)
EXTENDS Drain, FiniteSetTheorems, TLAPS

\* The options o accept the loss of pod q.
Accepted(q, o) ==
    /\ q.kind # "mirror"
    /\ q.kind = "daemon" => q.finished
    /\ q.kind \in Bare => o.Force \/ q.finished
    /\ q.kind \in Local => o.DeleteLocalData \/ q.finished

\* A pod that a successful drain must not leave on the node.
Must(q) == q.uid # 0 /\ q.here /\ q.kind \notin {"mirror", "daemon"}

\* The drain is past its cordon, and was not given up.
Working(d) ==
    \/ d.pc \in {"list", "evict", "evictWait", "gone", "goneWait"}
    \/ d.result = "ok"

AllRefs(d) == d.round \cup d.retry \cup d.evicted

\* What drain d has found out about the pods ps.  Every pod it remembers may be
\* lost; every pod that must leave is remembered, if nobody undid the cordon;
\* and each evicted pod is still to be looked for, or gone.
DrainOK(d, ps) ==
    /\ \A p \in AllRefs(d) :
          p.uid <= lastUid /\ (ps[p.name].uid = p.uid => Accepted(ps[p.name], d.opts))
    /\ d.pc \in {"evictWait", "goneWait", "done"} => d.round = {}
    /\ d.pc = "done" => d.retry = {}
    /\ d.pc = "done" <=> d.result # "running"
    /\ d.pc \in {"evict", "evictWait"} /\ ~undone =>
          \A n \in Names : Must(ps[n]) => [name |-> n, uid |-> ps[n].uid] \in AllRefs(d)
    /\ d.pc \in {"gone", "goneWait"} /\ ~undone =>
          \A n \in Names : Must(ps[n]) => [name |-> n, uid |-> ps[n].uid] \in d.evicted
    /\ d.pc \in {"gone", "goneWait"} \/ d.result = "ok" =>
          \A p \in d.evicted : p \in d.round \cup d.retry \/ ps[p.name].uid # p.uid
    /\ d.result = "ok" /\ ~undone => \A n \in Names : ~Must(ps[n])

Cordoned(d) == Working(d) => node.unschedulable \/ undone

UidsOK == \A n \in Names : pods[n].uid <= lastUid

\* The inductive invariant.
IInv == TypeOK /\ UidsOK /\ Cordoned(drain) /\ DrainOK(drain, pods)

\* How a pod q of a name follows on p: the same pod, perhaps finished or
\* terminating by now, or none, or a new one, which the scheduler keeps off an
\* unschedulable node.
Follows(q, p) ==
    \/ /\ q.uid = p.uid /\ q.kind = p.kind /\ q.here = p.here
       /\ p.finished => q.finished
    \/ q.uid = 0
    \/ q.uid > lastUid /\ (q.here /\ node.unschedulable => q.kind \in {"mirror", "daemon"})

\* What the drain knows stays true while the pods go their way.
LEMMA PodsMayMove ==
    ASSUME TypeOK, NEW d \in Drains, Cordoned(d), DrainOK(d, pods),
           NEW ps \in [Names -> Pods \cup {NoPod}],
           \A n \in Names : Follows(ps[n], pods[n])
    PROVE  DrainOK(d, ps)
<1>1. lastUid \in Nat /\ AllRefs(d) \subseteq Refs
    BY DrainAssumption DEF TypeOK, Drains, AllRefs
<1>2. ASSUME NEW p \in AllRefs(d)
      PROVE  /\ p.name \in Names /\ p.uid \in Nat /\ p.uid > 0 /\ p.uid <= lastUid
             /\ ps[p.name].uid = p.uid =>
                   /\ pods[p.name].uid = p.uid
                   /\ ps[p.name].kind = pods[p.name].kind
                   /\ pods[p.name].finished => ps[p.name].finished
    <2>1. p \in Refs /\ p.uid <= lastUid
        BY <1>1, <1>2 DEF DrainOK
    <2>2. p.name \in Names /\ p.uid \in Nat /\ p.uid > 0
        BY <2>1, DrainAssumption DEF Refs
    <2>3. Follows(ps[p.name], pods[p.name])
        BY <2>2
    <2>. QED  BY <1>1, <2>1, <2>2, <2>3 DEF Follows
<1>3. ASSUME NEW p \in AllRefs(d)
      PROVE  p.uid <= lastUid /\ (ps[p.name].uid = p.uid => Accepted(ps[p.name], d.opts))
    BY <1>2 DEF DrainOK, Accepted
<1>4. ASSUME NEW n \in Names, Working(d), ~undone, Must(ps[n])
      PROVE  Must(pods[n]) /\ ps[n].uid = pods[n].uid
    BY <1>4 DEF Cordoned, Follows, Must
<1>5. \A p \in d.evicted : p \in AllRefs(d)
    BY DEF AllRefs
<1>6. \A p \in d.evicted : pods[p.name].uid # p.uid => ps[p.name].uid # p.uid
    BY <1>2, <1>5
<1>7. d.pc \in {"evict", "evictWait"} /\ ~undone =>
          \A n \in Names : Must(ps[n]) => [name |-> n, uid |-> ps[n].uid] \in AllRefs(d)
    BY <1>4 DEF DrainOK, Working
<1>8. d.pc \in {"gone", "goneWait"} /\ ~undone =>
          \A n \in Names : Must(ps[n]) => [name |-> n, uid |-> ps[n].uid] \in d.evicted
    BY <1>4 DEF DrainOK, Working
<1>9. d.result = "ok" /\ ~undone => \A n \in Names : ~Must(ps[n])
    BY <1>4 DEF DrainOK, Working
<1>10. d.pc \in {"gone", "goneWait"} \/ d.result = "ok" =>
          \A p \in d.evicted : p \in d.round \cup d.retry \/ ps[p.name].uid # p.uid
    BY <1>6 DEF DrainOK
<1>. QED  BY <1>3, <1>7, <1>8, <1>9, <1>10 DEF DrainOK

\* More UIDs and an undone cordon take nothing away.
LEMMA Later ==
    ASSUME lastUid \in Nat, lastUid' \in Nat, lastUid <= lastUid', undone => undone',
           NEW d \in Drains, NEW ps, DrainOK(d, ps), drain' = d, pods' = ps,
           Cordoned(d)', TypeOK', UidsOK'
    PROVE  IInv'
<1>1. \A p \in AllRefs(d) : p.uid \in Nat
    BY DrainAssumption DEF Drains, AllRefs, Refs
<1>2. \A p \in AllRefs(d) : p.uid <= lastUid'
    BY <1>1 DEF DrainOK
<1>3. DrainOK(drain, pods)'
    BY <1>2 DEF DrainOK, AllRefs
<1>4. Cordoned(drain)'
    BY DEF Cordoned, Working
<1>. QED  BY <1>3, <1>4 DEF IInv

\* A step of the drain: it goes on as d, and evicts one pod or none.
LEMMA DrainKeeps ==
    ASSUME IInv, NEW d \in Drains, DrainOK(d, pods), drain' = d,
           Working(d) => node'.unschedulable \/ undone,
           node' \in [rv : Nat, unschedulable : BOOLEAN, managed : 0 .. 1],
           node.unschedulable => node'.unschedulable,
           Cordoned(d) \/ pods' = pods,
           \/ pods' = pods
           \/ \E n \in Names : ~Gone(n) /\ pods' = [pods EXCEPT ![n].terminating = TRUE],
           UNCHANGED <<policy, lastUid, cordon, undone>>
    PROVE  IInv'
<1>1. pods \in [Names -> Pods \cup {NoPod}] /\ lastUid \in Nat
    BY DrainAssumption DEF IInv, TypeOK
<1>2. pods' \in [Names -> Pods \cup {NoPod}]
    <2>1. ASSUME NEW n \in Names, ~Gone(n)
          PROVE  [pods[n] EXCEPT !.terminating = TRUE] \in Pods
        <3>1. pods[n] \in Pods
            BY <1>1, <2>1 DEF NoPod, Gone
        <3>. QED  BY <3>1 DEF Pods
    <2>. QED  BY <1>1, <2>1
<1>3. \A n \in Names : /\ pods'[n].uid = pods[n].uid /\ pods'[n].kind = pods[n].kind
                       /\ pods'[n].here = pods[n].here /\ pods'[n].finished = pods[n].finished
    BY <1>1 DEF Pods, NoPod
<1>4. DrainOK(d, pods')
    <2>1. CASE pods' = pods
        BY <2>1
    <2>2. CASE pods' # pods
        <3>1. \A n \in Names : Follows(pods'[n], pods[n])
            BY <1>3 DEF Follows
        <3>2. Cordoned(d)
            BY <2>2 DEF Cordoned
        <3>. QED  BY <1>2, <3>1, <3>2, PodsMayMove DEF IInv
    <2>. QED  BY <2>1, <2>2
<1>5. TypeOK'
    BY <1>2 DEF IInv, TypeOK
<1>6. UidsOK'
    BY <1>3 DEF IInv, UidsOK
<1>7. Cordoned(d)'
    BY DEF Cordoned, Working
<1>. QED  BY <1>1, <1>4, <1>5, <1>6, <1>7, Later

\* A step of the drain that leaves everything else alone.
LEMMA QuietKeeps ==
    ASSUME IInv, Quiet, NEW d \in Drains, DrainOK(d, pods), Cordoned(d), drain' = d
    PROVE  IInv'
<1>1. node' \in [rv : Nat, unschedulable : BOOLEAN, managed : 0 .. 1]
    BY DEF IInv, TypeOK, Quiet
<1>. QED  BY <1>1, DrainKeeps DEF Quiet, Cordoned

\* The drain gives up; an eviction may still have been made.
LEMMA GivingUp ==
    ASSUME IInv, NEW r \in {"nil", "error"}, Ends(r)
    PROVE  drain' \in Drains /\ DrainOK(drain', pods) /\ ~Working(drain') /\ Cordoned(drain')
<1>. DEFINE d == [drain EXCEPT !.pc = "done", !.result = r, !.round = {}, !.retry = {}]
<1>1. drain' = d /\ drain \in Drains
    BY DEF Ends, IInv, TypeOK
<1>2. d \in Drains
    BY <1>1 DEF Drains, DrainPCs
<1>3. /\ d.pc = "done" /\ d.result = r /\ d.round = {} /\ d.retry = {}
      /\ d.evicted = drain.evicted /\ d.opts = drain.opts
    BY <1>1 DEF Drains
<1>. HIDE DEF d
<1>4. DrainOK(d, pods)
    BY <1>3 DEF IInv, DrainOK, AllRefs
<1>. QED  BY <1>1, <1>2, <1>3, <1>4 DEF Working, Cordoned

LEMMA ResolveKeeps ==
    ASSUME IInv, NEW found \in BOOLEAN, ResolveAndGetNode(found)
    PROVE  IInv'
<1>1. CASE Ends("nil")
    BY <1>1, GivingUp, QuietKeeps DEF ResolveAndGetNode
<1>2. CASE drain' = [drain EXCEPT !.pc = "cordon", !.rv = node.rv]
    <2>. DEFINE d == [drain EXCEPT !.pc = "cordon", !.rv = node.rv]
    <2>1. drain \in Drains /\ node.rv \in Nat /\ drain.pc = "start"
        BY DEF IInv, TypeOK, ResolveAndGetNode
    <2>2. d \in Drains
        BY <2>1 DEF Drains, DrainPCs
    <2>3. /\ d.pc = "cordon" /\ d.round = drain.round /\ d.retry = drain.retry
          /\ d.evicted = drain.evicted /\ d.opts = drain.opts /\ d.result = drain.result
        BY <2>1 DEF Drains
    <2>4. drain' = d
        BY <1>2
    <2>. HIDE DEF d
    <2>5. DrainOK(d, pods) /\ Cordoned(d)
        BY <2>1, <2>3 DEF IInv, DrainOK, AllRefs, Cordoned, Working
    <2>. QED  BY <2>2, <2>4, <2>5, QuietKeeps DEF ResolveAndGetNode
<1>. QED  BY <1>1, <1>2 DEF ResolveAndGetNode

LEMMA CordonForDrainKeeps ==
    ASSUME IInv, CordonForDrain
    PROVE  IInv'
<1>1. /\ node \in [rv : Nat, unschedulable : BOOLEAN, managed : 0 .. 1]
      /\ drain \in Drains /\ drain.pc = "cordon"
    BY DEF IInv, TypeOK, CordonForDrain
<1>2. /\ node' \in [rv : Nat, unschedulable : BOOLEAN, managed : 0 .. 1]
      /\ node.unschedulable => node'.unschedulable
    <2>1. node.rv + 1 \in Nat
        BY <1>1
    <2>2. CASE node' = [node EXCEPT !.rv = node.rv + 1, !.unschedulable = TRUE]
        BY <1>1, <2>1, <2>2
    <2>3. CASE node' = node
        BY <1>1, <2>3
    <2>. QED  BY <2>2, <2>3 DEF CordonForDrain
<1>3. pods' = pods /\ UNCHANGED <<policy, lastUid, cordon, undone>>
    BY DEF CordonForDrain
<1>4. CASE Ends("nil")
    BY <1>2, <1>3, <1>4, GivingUp, DrainKeeps
<1>5. CASE ~Ends("nil")
    <2>. DEFINE d == [drain EXCEPT !.pc = "list"]
    <2>1. drain' = d /\ node'.unschedulable
        BY <1>1, <1>5 DEF CordonForDrain
    <2>2. d \in Drains
        BY <1>1 DEF Drains, DrainPCs
    <2>3. /\ d.pc = "list" /\ d.round = drain.round /\ d.retry = drain.retry
          /\ d.evicted = drain.evicted /\ d.opts = drain.opts /\ d.result = drain.result
        BY <1>1 DEF Drains
    <2>. HIDE DEF d
    <2>4. DrainOK(d, pods)
        BY <1>1, <2>3 DEF IInv, DrainOK, AllRefs
    <2>. QED  BY <1>2, <1>3, <2>1, <2>2, <2>4, DrainKeeps
<1>. QED  BY <1>4, <1>5

LEMMA ExpireKeeps ==
    ASSUME IInv, Expire
    PROVE  IInv'
<1>. DEFINE d == [drain EXCEPT !.expired = TRUE]
<1>1. drain \in Drains /\ drain' = d
    BY DEF IInv, TypeOK, Expire
<1>2. d \in Drains
    BY <1>1 DEF Drains
<1>3. /\ d.pc = drain.pc /\ d.round = drain.round /\ d.retry = drain.retry
      /\ d.evicted = drain.evicted /\ d.opts = drain.opts /\ d.result = drain.result
    BY <1>1 DEF Drains
<1>. HIDE DEF d
<1>4. DrainOK(d, pods) /\ Cordoned(d)
    BY <1>3 DEF IInv, DrainOK, AllRefs, Cordoned, Working
<1>. QED  BY <1>1, <1>2, <1>4, QuietKeeps DEF Expire

LEMMA ListAndPlanKeeps ==
    ASSUME IInv, ListAndPlan
    PROVE  IInv'
<1>1. CASE Ends("error")
    BY <1>1, GivingUp, QuietKeeps DEF ListAndPlan
<1>. DEFINE here == {n \in Names : ~Gone(n) /\ pods[n].here}
            plan == {Ref(n) : n \in {m \in here : ~Skips(pods[m], drain.opts)}}
            d == [drain EXCEPT !.pc = "evict", !.round = plan]
<1>2. CASE drain' = d /\ \A n \in here : ~Refuses(pods[n], drain.opts)
    <2>1. /\ drain \in Drains /\ drain.pc = "list" /\ lastUid \in Nat
          /\ pods \in [Names -> Pods \cup {NoPod}]
        BY DrainAssumption DEF IInv, TypeOK, ListAndPlan
    <2>2. plan \subseteq Refs
        BY <2>1, DrainAssumption DEF Ref, Refs, Gone, Pods, NoPod
    <2>3. \A p \in plan : /\ p.uid <= lastUid
                          /\ Accepted(pods[p.name], drain.opts)
        <3>1. SUFFICES ASSUME NEW n \in here, ~Skips(pods[n], drain.opts)
                       PROVE  pods[n].uid <= lastUid /\ Accepted(pods[n], drain.opts)
            BY DEF Ref
        <3>2. ~Refuses(pods[n], drain.opts)
            BY <1>2
        <3>3. pods[n].uid <= lastUid
            BY DEF IInv, UidsOK
        <3>4. pods[n].kind \in Kinds
            BY <2>1 DEF Pods, NoPod, Kinds
        <3>. QED  BY <3>1, <3>2, <3>3, <3>4 DEF Skips, Refuses, Accepted, Bare, Local
    <2>4. ASSUME NEW n \in Names, Must(pods[n])
          PROVE  [name |-> n, uid |-> pods[n].uid] \in plan
        <3>1. n \in here /\ ~Skips(pods[n], drain.opts)
            BY <2>4 DEF Must, Gone, Skips
        <3>. QED  BY <3>1 DEF Ref
    <2>. HIDE DEF plan
    <2>5. d \in Drains
        BY <2>1, <2>2 DEF Drains, DrainPCs
    <2>6. /\ d.pc = "evict" /\ d.round = plan /\ d.retry = drain.retry
          /\ d.evicted = drain.evicted /\ d.opts = drain.opts /\ d.result = drain.result
        BY <2>1 DEF Drains
    <2>. HIDE DEF d
    <2>7. \A p \in AllRefs(d) :
             p.uid <= lastUid /\ (pods[p.name].uid = p.uid => Accepted(pods[p.name], d.opts))
        BY <2>3, <2>6 DEF IInv, DrainOK, AllRefs
    <2>8. DrainOK(d, pods)
        BY <2>1, <2>4, <2>6, <2>7 DEF IInv, DrainOK, AllRefs
    <2>9. Cordoned(d)
        BY <2>1, <2>6 DEF IInv, Cordoned, Working
    <2>. QED  BY <1>2, <2>5, <2>8, <2>9, QuietKeeps DEF ListAndPlan
<1>. QED  BY <1>1, <1>2 DEF ListAndPlan

\* One turn of a loop moves p out of the round, into the retries or not; in the
\* eviction loop into the evicted pods if not.
LEMMA TriedOK ==
    ASSUME IInv, drain.pc = "evict", NEW p \in drain.round, NEW done \in BOOLEAN
    PROVE  /\ Tried(p, done) \in Drains /\ DrainOK(Tried(p, done), pods)
           /\ Cordoned(Tried(p, done)) /\ Working(Tried(p, done))
<1>. DEFINE d == Tried(p, done)
<1>1. drain \in Drains /\ p \in Refs
    BY DEF IInv, TypeOK, Drains
<1>2. d \in Drains
    BY <1>1 DEF Drains, Tried
<1>3. /\ d.pc = "evict" /\ d.opts = drain.opts /\ d.result = drain.result
      /\ d.round = drain.round \ {p}
      /\ d.evicted = (IF done THEN drain.evicted \cup {p} ELSE drain.evicted)
      /\ d.retry = (IF done THEN drain.retry ELSE drain.retry \cup {p})
    BY <1>1 DEF Drains, Tried
<1>. HIDE DEF d
<1>4. AllRefs(d) = AllRefs(drain)
    BY <1>3 DEF AllRefs
<1>5. DrainOK(d, pods)
    BY <1>3, <1>4 DEF IInv, DrainOK
<1>6. Cordoned(d) /\ Working(d)
    BY <1>3 DEF IInv, Cordoned, Working
<1>. QED  BY <1>2, <1>5, <1>6 DEF d

LEMMA EvictPodKeeps ==
    ASSUME IInv, NEW p \in drain.round, EvictPod(p)
    PROVE  IInv'
<1>1. PICK done \in BOOLEAN : drain' = Tried(p, done)
    BY DEF EvictPod
<1>2. p.name \in Names
    BY DEF IInv, TypeOK, Drains, Refs
<1>3. \/ pods' = pods
      \/ \E n \in Names : ~Gone(n) /\ pods' = [pods EXCEPT ![n].terminating = TRUE]
    BY <1>2 DEF EvictPod
<1>4. node' \in [rv : Nat, unschedulable : BOOLEAN, managed : 0 .. 1] /\ node' = node
    BY DEF EvictPod, IInv, TypeOK
<1>5. drain.pc = "evict" /\ UNCHANGED <<policy, lastUid, cordon, undone>>
    BY DEF EvictPod
<1>. QED  BY <1>1, <1>3, <1>4, <1>5, TriedOK, DrainKeeps DEF Cordoned

LEMMA EvictFailsKeeps ==
    ASSUME IInv, NEW p \in drain.round, EvictFails(p)
    PROVE  IInv'
<1>1. p.name \in Names
    BY DEF IInv, TypeOK, Drains, Refs
<1>2. \/ pods' = pods
      \/ \E n \in Names : ~Gone(n) /\ pods' = [pods EXCEPT ![n].terminating = TRUE]
    BY <1>1 DEF EvictFails
<1>3. node' \in [rv : Nat, unschedulable : BOOLEAN, managed : 0 .. 1] /\ node' = node
    BY DEF EvictFails, IInv, TypeOK
<1>4. UNCHANGED <<policy, lastUid, cordon, undone>>
    BY DEF EvictFails
<1>5. /\ drain' \in Drains /\ DrainOK(drain', pods)
      /\ ~Working(drain') /\ Cordoned(drain')
    BY GivingUp DEF EvictFails
<1>. QED  BY <1>2, <1>3, <1>4, <1>5, DrainKeeps

\* The rounds end and begin: in the eviction loop every pod is evicted, or kept
\* for the next round.
LEMMA EvictRoundKeeps ==
    ASSUME IInv, EvictRoundEnds \/ EvictWait
    PROVE  IInv'
<1>1. drain \in Drains /\ Quiet /\ Cordoned(drain) /\ DrainOK(drain, pods)
    BY DEF IInv, TypeOK, EvictRoundEnds, EvictWait
<1>2. CASE Ends("error")
    BY <1>1, <1>2, GivingUp, QuietKeeps
<1>3. CASE /\ drain.pc = "evict" /\ drain.round = {} /\ drain.retry = {}
           /\ drain' = [drain EXCEPT !.pc = "gone", !.round = drain.evicted]
    <2>. DEFINE d == [drain EXCEPT !.pc = "gone", !.round = drain.evicted]
    <2>1. d \in Drains
        BY <1>1 DEF Drains, DrainPCs
    <2>2. /\ d.pc = "gone" /\ d.opts = drain.opts /\ d.result = drain.result
          /\ d.round = drain.evicted /\ d.retry = {} /\ d.evicted = drain.evicted
        BY <1>1, <1>3 DEF Drains
    <2>3. drain' = d
        BY <1>3
    <2>. HIDE DEF d
    <2>4. AllRefs(d) = drain.evicted /\ AllRefs(drain) = drain.evicted
        BY <1>3, <2>2 DEF AllRefs
    <2>5. DrainOK(d, pods) /\ Cordoned(d)
        BY <1>1, <1>3, <2>2, <2>4 DEF DrainOK, Cordoned, Working
    <2>. QED  BY <1>1, <2>1, <2>3, <2>5, QuietKeeps
<1>4. CASE /\ drain.pc = "evict" /\ drain.round = {}
           /\ drain' = [drain EXCEPT !.pc = "evictWait"]
    <2>. DEFINE d == [drain EXCEPT !.pc = "evictWait"]
    <2>1. d \in Drains
        BY <1>1 DEF Drains, DrainPCs
    <2>2. /\ d.pc = "evictWait" /\ d.opts = drain.opts /\ d.result = drain.result
          /\ d.round = {} /\ d.retry = drain.retry /\ d.evicted = drain.evicted
        BY <1>1, <1>4 DEF Drains
    <2>3. drain' = d
        BY <1>4
    <2>. HIDE DEF d
    <2>4. AllRefs(d) = AllRefs(drain)
        BY <1>4, <2>2 DEF AllRefs
    <2>5. DrainOK(d, pods) /\ Cordoned(d)
        BY <1>1, <1>4, <2>2, <2>4 DEF DrainOK, Cordoned, Working
    <2>. QED  BY <1>1, <2>1, <2>3, <2>5, QuietKeeps
<1>5. CASE /\ drain.pc = "evictWait"
           /\ drain' = [drain EXCEPT !.pc = "evict", !.round = drain.retry, !.retry = {}]
    <2>. DEFINE d == [drain EXCEPT !.pc = "evict", !.round = drain.retry, !.retry = {}]
    <2>1. d \in Drains
        BY <1>1 DEF Drains, DrainPCs
    <2>2. /\ d.pc = "evict" /\ d.opts = drain.opts /\ d.result = drain.result
          /\ d.round = drain.retry /\ d.retry = {} /\ d.evicted = drain.evicted
        BY <1>1 DEF Drains
    <2>3. drain' = d
        BY <1>5
    <2>. HIDE DEF d
    <2>4. drain.round = {}
        BY <1>1, <1>5 DEF DrainOK
    <2>5. AllRefs(d) = AllRefs(drain)
        BY <2>2, <2>4 DEF AllRefs
    <2>6. DrainOK(d, pods) /\ Cordoned(d)
        BY <1>1, <1>5, <2>2, <2>5 DEF DrainOK, Cordoned, Working
    <2>. QED  BY <1>1, <2>1, <2>3, <2>6, QuietKeeps
<1>. QED  BY <1>2, <1>3, <1>4, <1>5 DEF EvictRoundEnds, EvictWait

\* In waitForPodsGone a pod leaves the lists only when it is gone.
LEMMA GoneKeeps ==
    ASSUME IInv, GoneRoundEnds \/ GoneWait \/ \E p \in drain.round : CheckGone(p)
    PROVE  IInv'
<1>1. drain \in Drains /\ Quiet /\ Cordoned(drain) /\ DrainOK(drain, pods)
    BY DEF IInv, TypeOK, GoneRoundEnds, GoneWait, CheckGone
<1>2. CASE Ends("error")
    BY <1>1, <1>2, GivingUp, QuietKeeps
<1>3. CASE drain.pc = "gone" /\ drain.round = {} /\ drain.retry = {} /\ Ends("ok")
    <2>. DEFINE d == [drain EXCEPT !.pc = "done", !.result = "ok", !.round = {}, !.retry = {}]
    <2>1. d \in Drains
        BY <1>1 DEF Drains, DrainPCs
    <2>2. /\ d.pc = "done" /\ d.opts = drain.opts /\ d.result = "ok"
          /\ d.round = {} /\ d.retry = {} /\ d.evicted = drain.evicted
        BY <1>1 DEF Drains
    <2>3. drain' = d
        BY <1>3 DEF Ends
    <2>. HIDE DEF d
    <2>4. \A p \in drain.evicted : pods[p.name].uid # p.uid
        BY <1>1, <1>3 DEF DrainOK
    <2>5. ~undone => \A n \in Names : ~Must(pods[n])
        <3>1. SUFFICES ASSUME ~undone, NEW n \in Names, Must(pods[n]) PROVE FALSE
            OBVIOUS
        <3>2. [name |-> n, uid |-> pods[n].uid] \in drain.evicted
            BY <1>1, <1>3, <3>1 DEF DrainOK
        <3>. QED  BY <2>4, <3>2
    <2>6. AllRefs(d) \subseteq AllRefs(drain)
        BY <2>2 DEF AllRefs
    <2>7. DrainOK(d, pods)
        BY <1>1, <2>2, <2>4, <2>5, <2>6 DEF DrainOK
    <2>8. Cordoned(d)
        BY <1>1, <1>3 DEF Cordoned, Working
    <2>. QED  BY <1>1, <2>1, <2>3, <2>7, <2>8, QuietKeeps
<1>4. CASE drain.pc = "gone" /\ drain.round = {} /\ drain' = [drain EXCEPT !.pc = "goneWait"]
    <2>. DEFINE d == [drain EXCEPT !.pc = "goneWait"]
    <2>1. d \in Drains
        BY <1>1 DEF Drains, DrainPCs
    <2>2. /\ d.pc = "goneWait" /\ d.opts = drain.opts /\ d.result = drain.result
          /\ d.round = {} /\ d.retry = drain.retry /\ d.evicted = drain.evicted
        BY <1>1, <1>4 DEF Drains
    <2>3. drain' = d
        BY <1>4
    <2>. HIDE DEF d
    <2>4. AllRefs(d) = AllRefs(drain)
        BY <1>4, <2>2 DEF AllRefs
    <2>5. DrainOK(d, pods) /\ Cordoned(d)
        BY <1>1, <1>4, <2>2, <2>4 DEF DrainOK, Cordoned, Working
    <2>. QED  BY <1>1, <2>1, <2>3, <2>5, QuietKeeps
<1>5. CASE /\ drain.pc = "goneWait"
           /\ drain' = [drain EXCEPT !.pc = "gone", !.round = drain.retry, !.retry = {}]
    <2>. DEFINE d == [drain EXCEPT !.pc = "gone", !.round = drain.retry, !.retry = {}]
    <2>1. d \in Drains
        BY <1>1 DEF Drains, DrainPCs
    <2>2. /\ d.pc = "gone" /\ d.opts = drain.opts /\ d.result = drain.result
          /\ d.round = drain.retry /\ d.retry = {} /\ d.evicted = drain.evicted
        BY <1>1 DEF Drains
    <2>3. drain' = d
        BY <1>5
    <2>. HIDE DEF d
    <2>4. drain.round = {}
        BY <1>1, <1>5 DEF DrainOK
    <2>5. AllRefs(d) = AllRefs(drain)
        BY <2>2, <2>4 DEF AllRefs
    <2>6. DrainOK(d, pods) /\ Cordoned(d)
        BY <1>1, <1>5, <2>2, <2>4, <2>5 DEF DrainOK, Cordoned, Working
    <2>. QED  BY <1>1, <2>1, <2>3, <2>6, QuietKeeps
<1>6. CASE \E p \in drain.round : CheckGone(p)
    <2>1. PICK p \in drain.round : CheckGone(p)
        BY <1>6
    <2>. DEFINE still == pods[p.name].uid = p.uid
                d == [drain EXCEPT !.round = @ \ {p},
                                   !.retry = IF still THEN @ \cup {p} ELSE @]
    <2>2. drain' = d /\ drain.pc = "gone" /\ p \in Refs
        BY <1>1, <2>1 DEF CheckGone, Drains
    <2>3. d \in Drains
        BY <1>1, <2>2 DEF Drains
    <2>4. /\ d.pc = "gone" /\ d.opts = drain.opts /\ d.result = drain.result
          /\ d.round = drain.round \ {p} /\ d.evicted = drain.evicted
          /\ d.retry = IF still THEN drain.retry \cup {p} ELSE drain.retry
        BY <1>1, <2>2 DEF Drains
    <2>. HIDE DEF d
    <2>5. AllRefs(d) \subseteq AllRefs(drain)
        BY <2>4 DEF AllRefs
    <2>6. \A e \in d.evicted : e \in d.round \cup d.retry \/ pods[e.name].uid # e.uid
        BY <1>1, <2>2, <2>4 DEF DrainOK
    <2>7. DrainOK(d, pods)
        BY <1>1, <2>2, <2>4, <2>5, <2>6 DEF DrainOK
    <2>8. Cordoned(d)
        BY <1>1, <2>2, <2>4 DEF Cordoned, Working
    <2>. QED  BY <1>1, <2>2, <2>3, <2>7, <2>8, QuietKeeps
<1>. QED  BY <1>2, <1>3, <1>4, <1>5, <1>6 DEF GoneRoundEnds, GoneWait

LEMMA DrainStepKeeps ==
    ASSUME IInv, DrainStep
    PROVE  IInv'
<1>1. CASE ListFails \/ CheckGoneFails
    BY <1>1, GivingUp, QuietKeeps DEF ListFails, CheckGoneFails
<1>2. CASE \E p \in drain.round : EvictPod(p) \/ EvictFails(p) \/ CheckGone(p)
    BY <1>2, EvictPodKeeps, EvictFailsKeeps, GoneKeeps
<1>. QED  BY <1>1, <1>2, ResolveKeeps, CordonForDrainKeeps, ListAndPlanKeeps, EvictRoundKeeps,
             GoneKeeps DEF DrainStep

\* Someone else cordons or uncordons the node.
LEMMA CordonKeeps ==
    ASSUME IInv, UpdateNode \/ \E unschedulable \in BOOLEAN : CordonNode(unschedulable)
    PROVE  IInv'
<1>1. /\ node \in [rv : Nat, unschedulable : BOOLEAN, managed : 0 .. 1] /\ undone \in BOOLEAN
      /\ cordon \in [pc : {"idle", "update"}, rv : Nat, unschedulable : BOOLEAN]
      /\ drain \in Drains /\ lastUid \in Nat
    BY DrainAssumption DEF IInv, TypeOK
<1>2. UNCHANGED <<policy, pods, lastUid, drain>>
    BY DEF UpdateNode, CordonNode
<1>3. cordon' \in [pc : {"idle", "update"}, rv : Nat, unschedulable : BOOLEAN]
    <2>1. CASE UpdateNode
        BY <2>1 DEF UpdateNode, NoCordon
    <2>2. ASSUME NEW u \in BOOLEAN, CordonNode(u)
          PROVE  cordon' \in [pc : {"idle", "update"}, rv : Nat, unschedulable : BOOLEAN]
        <3>1. cordon' = [pc |-> "update", rv |-> node.rv, unschedulable |-> u] /\ node.rv \in Nat
            BY <1>1, <2>2 DEF CordonNode
        <3>. QED  BY <3>1
    <2>. QED  BY <2>1, <2>2
<1>4. node' \in [rv : Nat, unschedulable : BOOLEAN, managed : 0 .. 1]
    <2>1. CASE node' = node
        BY <1>1, <2>1
    <2>2. CASE node' = [node EXCEPT !.rv = node.rv + 1, !.unschedulable = cordon.unschedulable]
        <3>1. node.rv + 1 \in Nat /\ cordon.unschedulable \in BOOLEAN
            BY <1>1
        <3>. QED  BY <1>1, <2>2, <3>1
    <2>. QED  BY <2>1, <2>2 DEF UpdateNode, CordonNode
<1>5. undone' \in BOOLEAN
    BY <1>1 DEF UpdateNode, CordonNode
<1>6. TypeOK' /\ UidsOK'
    BY <1>2, <1>3, <1>4, <1>5 DEF IInv, TypeOK, UidsOK
<1>7. undone => undone'
    BY DEF UpdateNode, CordonNode
<1>8. Working(drain) => node'.unschedulable \/ undone'
    <2>1. SUFFICES ASSUME Working(drain) PROVE node'.unschedulable \/ undone'
        OBVIOUS
    <2>2. node.unschedulable \/ undone
        BY <2>1 DEF IInv, Cordoned
    <2>3. drain.pc \notin {"start", "cordon"}
        BY <2>1 DEF Working, IInv, DrainOK
    <2>4. CASE node' = node
        BY <1>7, <2>2, <2>4
    <2>5. CASE /\ node' = [node EXCEPT !.rv = @ + 1, !.unschedulable = cordon.unschedulable]
               /\ undone' = (undone \/ (~cordon.unschedulable /\ drain.pc \notin {"start", "cordon"}))
        <3>1. node'.unschedulable = cordon.unschedulable
            BY <1>1, <2>5
        <3>. QED  BY <1>1, <2>3, <2>5, <3>1
    <2>. QED  BY <2>4, <2>5 DEF UpdateNode, CordonNode
<1>9. ASSUME NEW d \in Drains, d = drain PROVE Cordoned(d)'
    BY <1>8, <1>9 DEF Cordoned, Working
<1>10. PICK d \in Drains : d = drain
    BY <1>1
<1>11. PICK ps : ps = pods
    OBVIOUS
<1>12. DrainOK(d, ps)
    BY <1>10, <1>11 DEF IInv
<1>. QED  BY <1>1, <1>2, <1>6, <1>7, <1>9, <1>10, <1>11, <1>12, Later

LEMMA PodTypes ==
    ASSUME TypeOK, NEW n \in Names
    PROVE  /\ pods[n] \in Pods \cup {NoPod}
           /\ ~Gone(n) => pods[n] \in Pods
           /\ Gone(n) => pods[n] = NoPod
BY DrainAssumption DEF TypeOK, Gone, NoPod, Pods

\* The pods move and nothing else does.
LEMMA PodsKeep ==
    ASSUME IInv, Cluster, NEW n \in Names, NEW q \in Pods \cup {NoPod},
           pods' = [pods EXCEPT ![n] = q], Follows(q, pods[n]),
           lastUid' \in 0 .. MaxUid, lastUid <= lastUid', q.uid <= lastUid'
    PROVE  IInv'
<1>1. /\ pods \in [Names -> Pods \cup {NoPod}] /\ drain \in Drains
      /\ lastUid \in Nat /\ lastUid' \in Nat
    BY DrainAssumption DEF IInv, TypeOK
<1>2. pods' \in [Names -> Pods \cup {NoPod}]
    BY <1>1
<1>3. \A m \in Names : Follows(pods'[m], pods[m])
    BY <1>1 DEF Follows
<1>4. TypeOK'
    BY <1>2 DEF IInv, TypeOK, Cluster
<1>5. UidsOK'
    <2>1. \A m \in Names : pods[m].uid \in Nat
        BY <1>1, DrainAssumption DEF Pods, NoPod
    <2>. QED  BY <1>1, <2>1 DEF IInv, UidsOK
<1>6. PICK d \in Drains, ps \in [Names -> Pods \cup {NoPod}] : d = drain /\ ps = pods'
    BY <1>1, <1>2
<1>7. TypeOK /\ Cordoned(d) /\ DrainOK(d, pods)
    BY <1>6 DEF IInv
<1>8. DrainOK(d, ps)
    BY <1>3, <1>6, <1>7, PodsMayMove
<1>9. Cordoned(d)'
    BY <1>7 DEF Cordoned, Cluster
<1>10. drain' = d /\ (undone => undone')
    BY <1>6 DEF Cluster
<1>. QED  BY <1>1, <1>4, <1>5, <1>6, <1>8, <1>9, <1>10, Later

LEMMA ClusterStepKeeps ==
    ASSUME IInv, ClusterStep
    PROVE  IInv'
<1>1. PICK n \in Names :
         \/ PodEnds(n) \/ PodFinishes(n) \/ PodDeleted(n)
         \/ \E kind \in PodKinds, here \in BOOLEAN : PodCreated(n, kind, here)
    BY DEF ClusterStep
<1>2. /\ TypeOK /\ lastUid \in 0 .. MaxUid /\ pods[n].uid <= lastUid /\ lastUid \in Nat
      /\ pods \in [Names -> Pods \cup {NoPod}] /\ 0 <= lastUid /\ lastUid <= lastUid
    BY DrainAssumption DEF IInv, TypeOK, UidsOK
<1>3. CASE PodEnds(n)
    <2>1. NoPod.uid = 0 /\ Follows(NoPod, pods[n])
        BY DEF NoPod, Follows
    <2>2. pods' = [pods EXCEPT ![n] = NoPod] /\ lastUid' = lastUid /\ Cluster
        BY <1>3 DEF PodEnds
    <2>. QED  BY <1>2, <2>1, <2>2, PodsKeep
<1>4. CASE PodFinishes(n)
    <2>. DEFINE q == [pods[n] EXCEPT !.finished = TRUE]
    <2>1. pods[n] \in Pods
        BY <1>2, <1>4, PodTypes DEF PodFinishes
    <2>2. q \in Pods /\ Follows(q, pods[n]) /\ q.uid = pods[n].uid
        BY <2>1 DEF Pods, Follows
    <2>3. pods' = [pods EXCEPT ![n] = q] /\ lastUid' = lastUid /\ Cluster
        BY <1>2, <1>4 DEF PodFinishes
    <2>. HIDE DEF q
    <2>. QED  BY <1>2, <2>2, <2>3, PodsKeep
<1>5. CASE PodDeleted(n)
    <2>. DEFINE q == [pods[n] EXCEPT !.terminating = TRUE]
    <2>1. pods[n] \in Pods
        BY <1>2, <1>5, PodTypes DEF PodDeleted
    <2>2. q \in Pods /\ Follows(q, pods[n]) /\ q.uid = pods[n].uid
        BY <2>1 DEF Pods, Follows
    <2>3. pods' = [pods EXCEPT ![n] = q] /\ lastUid' = lastUid /\ Cluster
        BY <1>2, <1>5 DEF PodDeleted
    <2>. HIDE DEF q
    <2>. QED  BY <1>2, <2>2, <2>3, PodsKeep
<1>6. ASSUME NEW kind \in PodKinds, NEW here \in BOOLEAN, PodCreated(n, kind, here) PROVE IInv'
    <2>. DEFINE q == [NoPod EXCEPT !.uid = lastUid + 1, !.kind = kind, !.here = here]
    <2>1. lastUid + 1 \in 1 .. MaxUid /\ kind \in Kinds
        BY <1>2, <1>6, DrainAssumption DEF PodCreated
    <2>2. q \in Pods
        BY <2>1 DEF Pods, NoPod
    <2>3. q.uid = lastUid + 1 /\ q.kind = kind /\ q.here = here
        BY DEF NoPod
    <2>4. pods' = [pods EXCEPT ![n] = q] /\ lastUid' = lastUid + 1
        BY <1>6 DEF PodCreated
    <2>. HIDE DEF q
    <2>5. Follows(q, pods[n])
        BY <1>2, <1>6, <2>3 DEF Follows, PodCreated
    <2>6. lastUid' \in 0 .. MaxUid /\ lastUid <= lastUid' /\ q.uid <= lastUid'
        BY <1>2, <2>1, <2>3, <2>4, DrainAssumption
    <2>. QED  BY <1>6, <2>2, <2>4, <2>5, <2>6, PodsKeep DEF PodCreated
<1>. QED  BY <1>1, <1>3, <1>4, <1>5, <1>6

LEMMA InitHolds == Init => IInv
<1>. SUFFICES ASSUME Init PROVE IInv
    OBVIOUS
<1>1. lastUid \in Nat /\ lastUid \in 0 .. MaxUid
    <2>1. Cardinality(Names) \in Nat
        BY DrainAssumption, FS_CardinalityType
    <2>2. lastUid = Cardinality(Names)
        BY DEF Init
    <2>3. MaxUid \in Nat /\ Cardinality(Names) <= MaxUid
        BY DrainAssumption
    <2>. QED  BY <2>1, <2>2, <2>3
<1>2. PICK uid \in [Names -> 1 .. lastUid], kind \in [Names -> PodKinds] :
        pods = [n \in Names |-> [NoPod EXCEPT !.uid = uid[n], !.kind = kind[n], !.here = TRUE]]
    BY DEF Init
<1>3. \A n \in Names : uid[n] \in 1 .. MaxUid /\ uid[n] <= lastUid /\ kind[n] \in Kinds
    BY <1>1, DrainAssumption
<1>4. \A n \in Names : pods[n] \in Pods /\ pods[n].uid = uid[n]
    BY <1>2, <1>3 DEF Pods, NoPod
<1>5. PICK o \in Options : drain = NewDrain(o)
    BY DrainAssumption DEF Init
<1>6. drain \in Drains
    BY <1>5 DEF NewDrain, Drains, DrainPCs
<1>7. pods \in [Names -> Pods \cup {NoPod}]
    BY <1>2, <1>4
<1>8. cordon \in [pc : {"idle", "update"}, rv : Nat, unschedulable : BOOLEAN]
    BY DEF Init, NoCordon
<1>9. node \in [rv : Nat, unschedulable : BOOLEAN, managed : 0 .. 1]
    <2>1. node \in [rv : {1}, unschedulable : BOOLEAN, managed : 0 .. 1]
        BY DEF Init
    <2>2. node.rv \in Nat
        BY <2>1
    <2>. QED  BY <2>1, <2>2
<1>10. TypeOK
    BY <1>1, <1>6, <1>7, <1>8, <1>9 DEF Init, TypeOK
<1>11. UidsOK
    BY <1>3, <1>4 DEF UidsOK
<1>12. Cordoned(drain) /\ DrainOK(drain, pods)
    BY <1>5 DEF NewDrain, Cordoned, Working, DrainOK, AllRefs
<1>. QED  BY <1>10, <1>11, <1>12 DEF IInv

LEMMA StepHolds == IInv /\ [Next]_vars => IInv'
<1>. SUFFICES ASSUME IInv, [Next]_vars PROVE IInv'
    OBVIOUS
<1>1. CASE UNCHANGED vars
    BY <1>1 DEF vars, IInv, TypeOK, UidsOK, Cordoned, DrainOK
<1>. QED  BY <1>1, DrainStepKeeps, ExpireKeeps, CordonKeeps, ClusterStepKeeps DEF Next

LEMMA Invariance == Spec => []IInv
BY InitHolds, StepHolds, PTL DEF Spec

\* Every variable keeps its type.
THEOREM TypeCorrect == Spec => []TypeOK
<1>1. IInv => TypeOK
    BY DEF IInv
<1>. QED  BY <1>1, Invariance, PTL

\* DrainNode returns without an error only when every pod it evicted is gone,
\* however often budgets refused and whatever took the pods' names.
THEOREM SuccessfulDrainsWait == Spec => []SuccessMeansGone
<1>1. IInv => SuccessMeansGone
    BY DEF IInv, DrainOK, SuccessMeansGone
<1>. QED  BY <1>1, Invariance, PTL

\* A successful DrainNode leaves only mirror and DaemonSet pods on the node, as
\* long as nobody uncordons it.
THEOREM DrainedNodesAreEmpty == Spec => []DrainedMeansEmpty
<1>1. IInv => DrainedMeansEmpty
    BY DEF IInv, DrainOK, DrainedMeansEmpty, Must, Gone
<1>. QED  BY <1>1, Invariance, PTL

\* None of the pods that DrainNode planned to evict is one whose loss its options
\* do not accept, however long ago it listed them.
THEOREM LossesAreAccepted == Spec => []NoUnacceptedLoss
<1>1. IInv => NoUnacceptedLoss
    BY DEF IInv, DrainOK, AllRefs, Accepted, NoUnacceptedLoss
<1>. QED  BY <1>1, Invariance, PTL
=============================================================================
