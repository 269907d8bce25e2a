------------------------- MODULE ResourceSetsProofs -------------------------
(***************************************************************************)
(* Proofs about ResourceSets, for any objects, calls in flight, numbers of *)
(* resources per call and contents.                                        *)
(***************************************************************************)
EXTENDS ResourceSets, SequenceTheorems, TLAPS

\* Revisions: an object that exists has one that was given out.
VersionsOK == \A k \in Keys : store[k].rv <= rev /\ (Exists(k) => store[k].rv > 0)

\* What call q relies on, the store being st: its tool is offered, the resources
\* before the current one are written, and what it has read for its Update is
\* there unchanged if the version still is.
CallOK(q, st) ==
    /\ q.pc # "idle" => ~policy.readOnly
    /\ q.pc \in {"next", "get", "update", "delete"} => q.set \in Sets
    /\ q.pc \in {"next", "get", "update"} =>
          /\ q.i <= Len(q.resources) + 1
          /\ \A j \in 1 .. q.i - 1 :
                q.resources[j].data # 0 => q.resources[j].key \in q.wrote
    /\ q.pc \in {"get", "update"} =>
          q.i <= Len(q.resources) /\ q.resources[q.i].key \in Resources
    /\ q.pc = "update" =>
          /\ 0 < q.base.rv /\ q.base.rv <= rev
          /\ st[q.resources[q.i].key].rv = q.base.rv => st[q.resources[q.i].key] = q.base

\* The inductive invariant.
IInv == TypeOK /\ VersionsOK /\ \A c \in Callers : CallOK(calls[c], store)

LEMMA ArgumentsAreSequences ==
    ASSUME NEW r \in Arguments
    PROVE  /\ Len(r) \in 0 .. MaxResources /\ DOMAIN r = 1 .. Len(r)
           /\ \A j \in 1 .. Len(r) : r[j] \in Specs
<1>1. PICK n \in 0 .. MaxResources : r \in [1 .. n -> Specs]
    BY DEF Arguments
<1>2. n \in Nat
    BY KeysAssumption
<1>3. r \in Seq(Specs)
    BY <1>1, <1>2, SeqDef
<1>4. Len(r) \in Nat /\ DOMAIN r = 1 .. Len(r)
    BY <1>3, LenProperties
<1>5. Len(r) = n
    BY <1>1, <1>2, <1>4
<1>. QED  BY <1>1, <1>4, <1>5

LEMMA EmptyArguments == <<>> \in Arguments
<1>1. <<>> \in [1 .. 0 -> Specs]
    BY EmptySeq, SeqDef
<1>2. 0 \in 0 .. MaxResources
    BY KeysAssumption
<1>. QED  BY <1>1, <1>2 DEF Arguments

LEMMA AbsentType == Absent \in Objects /\ Absent.rv = 0
BY KeysAssumption DEF Absent, Objects

LEMMA IdleOK ==
    ASSUME NEW a \in Answers, NEW st
    PROVE  Idle(a) \in Calls /\ CallOK(Idle(a), st) /\ Idle(a).pc = "idle"
<1>1. 1 \in 1 .. MaxResources + 1
    BY KeysAssumption
<1>2. Idle(a) \in Calls
    BY <1>1, EmptyArguments, AbsentType DEF Idle, Calls, PCs
<1>. QED  BY <1>2 DEF CallOK, Idle

\* The call goes on as q and no object changes.
LEMMA LocalKeeps ==
    ASSUME IInv, Local, NEW c \in Callers, NEW q \in Calls, CallOK(q, store),
           calls' = [calls EXCEPT ![c] = q]
    PROVE  IInv'
<1>1. TypeOK' /\ VersionsOK'
    BY DEF IInv, TypeOK, VersionsOK, Local, Exists
<1>2. \A d \in Callers : calls'[d] = IF d = c THEN q ELSE calls[d]
    BY DEF IInv, TypeOK
<1>3. \A d \in Callers : CallOK(calls'[d], store)
    BY <1>2 DEF IInv
<1>4. (\A d \in Callers : CallOK(calls[d], store))'
    BY <1>3 DEF CallOK, Local
<1>. QED  BY <1>1, <1>4 DEF IInv

LEMMA AnswerKeeps ==
    ASSUME IInv, Local, NEW c \in Callers, NEW a \in Answers, Answer(c, a)
    PROVE  IInv'
BY IdleOK, LocalKeeps DEF Answer

\* Object k becomes o, which is gone or carries a new revision.  The calls go
\* on; one of them may move to q, which is not about to update.
LEMMA ObjectKeeps ==
    ASSUME IInv, NEW k \in Keys, NEW o \in Objects, o = Absent \/ o.rv = rev + 1,
           rev' = rev + 1, store' = [store EXCEPT ![k] = o], policy' = policy,
           \/ calls' = calls
           \/ \E c \in Callers, q \in Calls : /\ calls' = [calls EXCEPT ![c] = q]
                                              /\ CallOK(q, store) /\ q.pc # "update"
    PROVE  IInv'
<1>1. rev \in Nat /\ store \in [Keys -> Objects]
    BY DEF IInv, TypeOK
<1>2. calls' \in [Callers -> Calls]
    BY DEF IInv, TypeOK
<1>3. TypeOK'
    BY <1>1, <1>2 DEF IInv, TypeOK
<1>4. VersionsOK'
    <2>1. \A j \in Keys : store[j].rv \in Nat
        BY <1>1 DEF Objects
    <2>. QED  BY <1>1, <2>1, AbsentType DEF IInv, VersionsOK, Exists
<1>5. ASSUME NEW d \in Callers PROVE CallOK(calls[d], store)'
    <2>1. \/ calls'[d] = calls[d]
          \/ calls'[d].pc # "update" /\ CallOK(calls'[d], store)
        BY DEF IInv, TypeOK
    <2>2. CASE calls'[d].pc # "update"
        <3>1. CallOK(calls'[d], store)
            BY <2>1 DEF IInv
        <3>. QED  BY <2>2, <3>1 DEF CallOK
    <2>3. CASE calls'[d] = calls[d] /\ calls[d].pc = "update"
        <3>. DEFINE q == calls[d]
                    x == q.resources[q.i].key
        <3>1. q \in Calls /\ CallOK(q, store) /\ q.pc = "update"
            BY <2>3 DEF IInv, TypeOK
        <3>2. /\ x \in Keys /\ 0 < q.base.rv /\ q.base.rv <= rev
              /\ store[x].rv = q.base.rv => store[x] = q.base
            BY <3>1 DEF CallOK, Keys
        <3>3. q.base.rv \in Nat
            BY <3>1 DEF Calls, Objects
        <3>4. o.rv # q.base.rv
            BY <1>1, <3>2, <3>3, AbsentType
        <3>5. store'[x].rv = q.base.rv => store'[x] = q.base
            BY <1>1, <3>2, <3>4
        <3>6. q.base.rv <= rev'
            BY <1>1, <3>2, <3>3
        <3>. QED  BY <2>3, <3>1, <3>2, <3>5, <3>6 DEF CallOK
    <2>. QED  BY <2>1, <2>2, <2>3
<1>. QED  BY <1>3, <1>4, <1>5 DEF IInv

LEMMA WriteKeeps ==
    ASSUME IInv, NEW c \in Callers, NEW k \in Keys, NEW o \in Objects,
           o = Absent \/ o.rv = rev + 1,
           NEW q \in Calls, CallOK(q, store), q.pc # "update", Write(c, k, o, q)
    PROVE  IInv' /\ \A j \in Keys \ {k} : store'[j] = store[j]
<1>1. Idle("error") \in Calls /\ CallOK(Idle("error"), store) /\ Idle("error").pc # "update"
    BY IdleOK DEF Answers
<1>2. \E r \in Calls : /\ calls' = [calls EXCEPT ![c] = r]
                       /\ CallOK(r, store) /\ r.pc # "update"
    BY <1>1 DEF Write, Answer
<1>3. IInv'
    BY <1>2, ObjectKeeps DEF Write
<1>4. \A j \in Keys \ {k} : store'[j] = store[j]
    BY DEF Write, IInv, TypeOK
<1>. QED  BY <1>3, <1>4

\* The current resource of a call in the loop.
LEMMA CurrentOK ==
    ASSUME IInv, NEW c \in Callers, calls[c].pc \in {"next", "get", "update"}
    PROVE  /\ calls[c] \in Calls /\ CallOK(calls[c], store)
           /\ calls[c].i \in Nat /\ calls[c].i > 0 /\ Len(calls[c].resources) \in 0 .. MaxResources
           /\ Len(calls[c].resources) \in Nat
           /\ ~AllDone(c) => calls[c].i <= Len(calls[c].resources) /\ Current(c) \in Specs
<1>1. calls[c] \in Calls /\ CallOK(calls[c], store)
    BY DEF IInv, TypeOK
<1>2. calls[c].i \in Nat /\ calls[c].i > 0 /\ calls[c].resources \in Arguments
    BY <1>1, KeysAssumption DEF Calls
<1>3. Len(calls[c].resources) \in 0 .. MaxResources /\ Len(calls[c].resources) \in Nat
    BY <1>2, ArgumentsAreSequences, KeysAssumption
<1>4. ASSUME ~AllDone(c) PROVE calls[c].i <= Len(calls[c].resources) /\ Current(c) \in Specs
    <2>1. calls[c].i \in 1 .. Len(calls[c].resources)
        BY <1>2, <1>3, <1>4 DEF AllDone
    <2>. QED  BY <1>2, <1>3, <2>1, ArgumentsAreSequences DEF Current
<1>. QED  BY <1>1, <1>2, <1>3, <1>4

\* A turn of the loop: the current resource has been written, or needs no write.
LEMMA NextResourceOK ==
    ASSUME IInv, NEW c \in Callers, calls[c].pc \in {"next", "get", "update"},
           calls[c].i <= Len(calls[c].resources),
           NEW w \in SUBSET Keys, Current(c).data # 0 => Current(c).key \in w
    PROVE  /\ NextResource(c, w) \in Calls /\ CallOK(NextResource(c, w), store)
           /\ NextResource(c, w).pc # "update"
<1>. DEFINE q == calls[c]
            r == NextResource(c, w)
<1>1. /\ q \in Calls /\ CallOK(q, store) /\ q.i \in Nat /\ q.i > 0 /\ q.wrote \in SUBSET Keys
      /\ Len(q.resources) \in 0 .. MaxResources /\ Len(q.resources) \in Nat
    BY CurrentOK DEF Calls
<1>2. q.i + 1 \in 1 .. MaxResources + 1 /\ q.i + 1 <= Len(q.resources) + 1
    BY <1>1, KeysAssumption
<1>3. r = [q EXCEPT !.pc = "next", !.i = q.i + 1, !.base = Absent, !.wrote = q.wrote \cup w]
    BY DEF NextResource
<1>4. r \in Calls
    BY <1>1, <1>2, <1>3, AbsentType DEF Calls, PCs
<1>5. /\ r.pc = "next" /\ r.set = q.set /\ r.resources = q.resources /\ r.i = q.i + 1
      /\ r.wrote = q.wrote \cup w
    BY <1>1, <1>3 DEF Calls
<1>. HIDE DEF r
<1>6. ASSUME NEW j \in 1 .. r.i - 1, r.resources[j].data # 0
      PROVE  r.resources[j].key \in r.wrote
    <2>1. CASE j = q.i
        BY <1>5, <1>6, <2>1 DEF Current
    <2>2. CASE j # q.i
        <3>1. j \in 1 .. q.i - 1
            BY <1>1, <1>5, <2>2
        <3>. QED  BY <1>1, <1>5, <1>6, <3>1 DEF CallOK
    <2>. QED  BY <2>1, <2>2
<1>7. CallOK(r, store)
    BY <1>1, <1>2, <1>5, <1>6 DEF CallOK
<1>. QED  BY <1>4, <1>5, <1>7 DEF r

LEMMA BeginKeeps ==
    ASSUME IInv, NEW c \in Callers, NEW s \in Sets,
           \/ \E resources \in Arguments, valid \in BOOLEAN :
                 CreateClusterResourceSet(c, s, resources, valid)
           \/ DeleteClusterResourceSet(c, s)
    PROVE  IInv' /\ store' = store
<1>0. Local /\ store' = store
    BY DEF CreateClusterResourceSet, DeleteClusterResourceSet, Local
<1>1. ~policy.readOnly
    BY DEF CreateClusterResourceSet, DeleteClusterResourceSet, BuildAllTools, credentialTools,
           mutatingTools
<1>2. CASE \E a \in Answers : Answer(c, a)
    BY <1>0, <1>2, AnswerKeeps
<1>3. Idle("none") \in Calls
    BY IdleOK DEF Answers
<1>4. ASSUME NEW resources \in Arguments,
             calls' = [calls EXCEPT ![c] = [Idle("none") EXCEPT !.pc = "next", !.set = s,
                                                                !.resources = resources]]
      PROVE  IInv'
    <2>. DEFINE q == [Idle("none") EXCEPT !.pc = "next", !.set = s, !.resources = resources]
    <2>1. q \in Calls
        BY <1>3 DEF Calls, PCs
    <2>2. q.pc = "next" /\ q.set = s /\ q.resources = resources /\ q.i = 1
        BY DEF Idle
    <2>3. calls' = [calls EXCEPT ![c] = q]
        BY <1>4
    <2>. HIDE DEF q
    <2>4. Len(resources) \in Nat /\ 1 .. q.i - 1 = {}
        BY <2>2, ArgumentsAreSequences, KeysAssumption
    <2>5. CallOK(q, store)
        BY <1>1, <2>2, <2>4 DEF CallOK
    <2>. QED  BY <1>0, <2>1, <2>3, <2>5, LocalKeeps
<1>5. CASE calls' = [calls EXCEPT ![c] = [Idle("none") EXCEPT !.pc = "delete", !.set = s,
                                                              !.base = store[s]]]
    <2>. DEFINE q == [Idle("none") EXCEPT !.pc = "delete", !.set = s, !.base = store[s]]
    <2>1. store[s] \in Objects
        BY DEF IInv, TypeOK, Keys
    <2>2. q \in Calls
        BY <1>3, <2>1 DEF Calls, PCs
    <2>3. q.pc = "delete" /\ q.set = s
        BY DEF Idle
    <2>4. calls' = [calls EXCEPT ![c] = q]
        BY <1>5
    <2>. HIDE DEF q
    <2>5. CallOK(q, store)
        BY <1>1, <2>3 DEF CallOK
    <2>. QED  BY <1>0, <2>2, <2>4, <2>5, LocalKeeps
<1>6. CASE \E resources \in Arguments, valid \in BOOLEAN :
              CreateClusterResourceSet(c, s, resources, valid)
    BY <1>0, <1>2, <1>4, <1>6 DEF CreateClusterResourceSet, Answer, Answers
<1>7. CASE DeleteClusterResourceSet(c, s)
    BY <1>0, <1>2, <1>5, <1>7 DEF DeleteClusterResourceSet, Answer, Answers
<1>. QED  BY <1>0, <1>6, <1>7

\* The steps that write nothing.
LEMMA QuietStepKeeps ==
    ASSUME IInv, NEW c \in Callers, Local,
           \/ InvalidKind(c) \/ SkipResource(c) \/ CreateResource(c) \/ GetResource(c)
           \/ UpdateResourceRefused(c) \/ CreateSet(c) \/ DeleteSet(c) \/ CallFails(c)
    PROVE  IInv'
<1>0. rev' # rev + 1
    BY DEF IInv, TypeOK, Local
<1>1. CASE \E a \in Answers : Answer(c, a)
    BY <1>1, AnswerKeeps
<1>2. CASE SkipResource(c)
    <2>1. calls[c].i <= Len(calls[c].resources)
        BY <1>2, CurrentOK DEF SkipResource
    <2>. QED  BY <1>2, <2>1, NextResourceOK, LocalKeeps DEF SkipResource
<1>3. CASE CreateResource(c)
    <2>. DEFINE q == [calls[c] EXCEPT !.pc = "get"]
    <2>1. calls' = [calls EXCEPT ![c] = q] /\ calls[c].pc = "next" /\ ~AllDone(c)
        BY <1>0, <1>3 DEF CreateResource, Write, IInv, TypeOK
    <2>2. /\ calls[c] \in Calls /\ CallOK(calls[c], store)
          /\ calls[c].i <= Len(calls[c].resources) /\ Current(c) \in Specs
        BY <2>1, CurrentOK
    <2>3. Current(c).key \in Resources
        BY <1>3, <2>2 DEF CreateResource, Specs
    <2>4. q \in Calls
        BY <2>2 DEF Calls, PCs
    <2>5. /\ q.pc = "get" /\ q.set = calls[c].set /\ q.resources = calls[c].resources
          /\ q.i = calls[c].i /\ q.wrote = calls[c].wrote
        BY <2>2 DEF Calls
    <2>. HIDE DEF q
    <2>6. CallOK(q, store)
        BY <2>1, <2>2, <2>3, <2>5 DEF CallOK, Current
    <2>. QED  BY <2>1, <2>4, <2>6, LocalKeeps
<1>4. CASE GetResource(c) /\ Exists(Current(c).key)
    <2>. DEFINE k == Current(c).key
                q == [calls[c] EXCEPT !.pc = "update", !.base = store[k]]
    <2>1. calls' = [calls EXCEPT ![c] = q] /\ calls[c].pc = "get"
        BY <1>4 DEF GetResource, IInv, TypeOK
    <2>2. calls[c] \in Calls /\ CallOK(calls[c], store)
        BY DEF IInv, TypeOK
    <2>3. k \in Resources /\ k \in Keys
        BY <2>1, <2>2 DEF CallOK, Current, Keys
    <2>4. store[k] \in Objects /\ store[k].rv \in Nat /\ store[k].rv <= rev /\ store[k].rv > 0
        BY <1>4, <2>3 DEF IInv, TypeOK, VersionsOK, Objects
    <2>. HIDE DEF k
    <2>5. q \in Calls
        BY <2>2, <2>4 DEF Calls, PCs
    <2>6. /\ q.pc = "update" /\ q.set = calls[c].set /\ q.resources = calls[c].resources
          /\ q.i = calls[c].i /\ q.wrote = calls[c].wrote /\ q.base = store[k]
        BY <2>2 DEF Calls
    <2>7. q.resources[q.i].key = k
        BY <2>6 DEF k, Current
    <2>. HIDE DEF q
    <2>8. CallOK(q, store)
        BY <2>1, <2>2, <2>3, <2>4, <2>6, <2>7 DEF CallOK
    <2>. QED  BY <2>1, <2>5, <2>8, LocalKeeps
<1>. QED  BY <1>0, <1>1, <1>2, <1>3, <1>4
          DEF InvalidKind, GetResource, UpdateResourceRefused, CreateSet, DeleteSet, CallFails,
              Write, Answers

\* The steps that write a resource keep the markers of the one they overwrite.
LEMMA ResourceWriteKeeps ==
    ASSUME IInv, NEW c \in Callers, ~Local, CreateResource(c) \/ UpdateResource(c)
    PROVE  /\ IInv'
           /\ \A k \in Keys \ {Current(c).key} : store'[k] = store[k]
           /\ Current(c).key \in Resources
           /\ Exists(Current(c).key) =>
                 /\ store'[Current(c).key].managed = store[Current(c).key].managed
                 /\ store'[Current(c).key].protected = store[Current(c).key].protected
<1>. DEFINE k == Current(c).key
            d == Current(c).data
            b == k \in Secrets
            new == [Absent EXCEPT !.rv = rev + 1, !.data = d, !.crsType = b]
            next == [store[k] EXCEPT !.rv = rev + 1, !.data = d, !.crsType = b]
<1>. HIDE DEF d, b
<1>1. calls[c].pc \in {"next", "update"}
    BY DEF CreateResource, UpdateResource
<1>2. calls[c] \in Calls /\ CallOK(calls[c], store) /\ calls[c].i <= Len(calls[c].resources)
    BY <1>1, CurrentOK DEF CreateResource, UpdateResource, CallOK
<1>3. ~AllDone(c)
    <2>1. calls[c].i \in Nat /\ Len(calls[c].resources) \in Nat
        BY <1>1, CurrentOK
    <2>. QED  BY <1>2, <2>1 DEF AllDone
<1>4. Current(c) \in Specs
    BY <1>1, <1>3, CurrentOK
<1>5. k \in Resources /\ k \in Keys /\ d \in 0 .. MaxData /\ b \in BOOLEAN
    <2>1. calls[c].pc = "update" => k \in Resources
        BY <1>2 DEF CallOK, Current
    <2>. QED  BY <1>4, <2>1 DEF CreateResource, UpdateResource, Specs, Keys, d, b
<1>6. /\ NextResource(c, {k}) \in Calls /\ CallOK(NextResource(c, {k}), store)
      /\ NextResource(c, {k}).pc # "update"
    BY <1>1, <1>2, <1>5, NextResourceOK
<1>7. rev \in Nat /\ rev + 1 \in Nat /\ store[k] \in Objects
    BY <1>5 DEF IInv, TypeOK
<1>8. new \in Objects /\ new.rv = rev + 1
    BY <1>5, <1>7, AbsentType DEF Objects
<1>9. /\ next \in Objects /\ next.rv = rev + 1
      /\ next.managed = store[k].managed /\ next.protected = store[k].protected
    BY <1>5, <1>7 DEF Objects
<1>10. CASE CreateResource(c)
    <2>1. ~Exists(k) /\ Write(c, k, new, NextResource(c, {k}))
        BY <1>10 DEF CreateResource, d, b
    <2>. HIDE DEF k, new
    <2>2. IInv' /\ \A j \in Keys \ {k} : store'[j] = store[j]
        BY <1>5, <1>6, <1>8, <2>1, WriteKeeps
    <2>. QED  BY <1>5, <2>1, <2>2 DEF k
<1>11. CASE UpdateResource(c)
    <2>1. store[k] = calls[c].base
        BY <1>2, <1>11 DEF UpdateResource, CallOK, Current
    <2>2. Write(c, k, next, NextResource(c, {k}))
        BY <1>11, <2>1 DEF UpdateResource, d, b
    <2>. HIDE DEF k, next
    <2>3. IInv' /\ \A j \in Keys \ {k} : store'[j] = store[j]
        BY <1>5, <1>6, <1>9, <2>2, WriteKeeps
    <2>4. store'[k] = next
        BY <1>5, <2>2 DEF Write, IInv, TypeOK
    <2>. QED  BY <1>5, <1>9, <2>3, <2>4 DEF k
<1>. QED  BY <1>10, <1>11

\* The steps that write the set touch nothing else, and create it only when the
\* loop is done.
LEMMA SetWriteKeeps ==
    ASSUME IInv, NEW c \in Callers, ~Local, CreateSet(c) \/ DeleteSet(c)
    PROVE  /\ IInv'
           /\ \A k \in Keys \ {calls[c].set} : store'[k] = store[k]
           /\ calls[c].set \in Sets
           /\ calls[c].pc = "next" => AllDone(c)
<1>. DEFINE s == calls[c].set
            new == [Absent EXCEPT !.rv = rev + 1]
<1>1. CallOK(calls[c], store)
    BY DEF IInv
<1>2. s \in Sets /\ s \in Keys
    BY <1>1 DEF CreateSet, DeleteSet, CallOK, Keys
<1>3. Idle("ok") \in Calls /\ CallOK(Idle("ok"), store) /\ Idle("ok").pc # "update"
    BY IdleOK DEF Answers
<1>4. rev + 1 \in Nat
    BY DEF IInv, TypeOK
<1>5. new \in Objects /\ new.rv = rev + 1
    BY <1>4, AbsentType DEF Objects
<1>6. Write(c, s, new, Idle("ok")) \/ Write(c, s, Absent, Idle("ok"))
    BY DEF CreateSet, DeleteSet
<1>7. calls[c].pc = "next" => AllDone(c)
    BY DEF CreateSet, DeleteSet
<1>. HIDE DEF s, new
<1>8. IInv' /\ \A j \in Keys \ {s} : store'[j] = store[j]
    BY <1>2, <1>3, <1>5, <1>6, AbsentType, WriteKeeps
<1>. QED  BY <1>2, <1>7, <1>8 DEF s

LEMMA StepKeeps ==
    ASSUME IInv, NEW c \in Callers, Step(c)
    PROVE  IInv'
<1>1. CASE Local
    <2>1. rev' # rev + 1
        BY <1>1 DEF IInv, TypeOK, Local
    <2>2. ~UpdateResource(c)
        BY <2>1 DEF UpdateResource, Write
    <2>. QED  BY <1>1, <2>2, QuietStepKeeps DEF Step
<1>2. CASE ~Local
    BY <1>2, ResourceWriteKeeps, SetWriteKeeps
       DEF Step, InvalidKind, SkipResource, GetResource, UpdateResourceRefused, CallFails
<1>. QED  BY <1>1, <1>2

LEMMA OutsideKeeps ==
    ASSUME IInv, NEW k \in Keys, OutsideWrite(k)
    PROVE  IInv'
<1>1. store[k] \in Objects /\ rev + 1 \in Nat /\ MaxData \in 0 .. MaxData
    BY KeysAssumption DEF IInv, TypeOK
<1>2. store[k].managed \in BOOLEAN /\ store[k].protected \in BOOLEAN
    BY <1>1 DEF Objects
<1>. DEFINE new(b) == [Absent EXCEPT !.rv = rev + 1, !.data = MaxData, !.crsType = b]
            relabelled == [store[k] EXCEPT !.rv = rev + 1, !.managed = ~store[k].managed]
            guarded == [store[k] EXCEPT !.rv = rev + 1, !.protected = ~store[k].protected]
<1>3. ASSUME NEW b \in BOOLEAN PROVE new(b) \in Objects /\ new(b).rv = rev + 1
    BY <1>1, AbsentType DEF Objects
<1>4. relabelled \in Objects /\ relabelled.rv = rev + 1
    BY <1>1, <1>2 DEF Objects
<1>5. guarded \in Objects /\ guarded.rv = rev + 1
    BY <1>1, <1>2 DEF Objects
<1>6. \/ Outside(k, Absent) \/ Outside(k, relabelled) \/ Outside(k, guarded)
      \/ \E b \in BOOLEAN : Outside(k, new(b))
    BY DEF OutsideWrite
<1>. HIDE DEF new, relabelled, guarded
<1>7. \E o \in Objects : (o = Absent \/ o.rv = rev + 1) /\ Outside(k, o)
    BY <1>3, <1>4, <1>5, <1>6, AbsentType
<1>. QED  BY <1>7, ObjectKeeps DEF Outside

LEMMA InitHolds == Init => IInv
<1>. SUFFICES ASSUME Init PROVE IInv
    OBVIOUS
<1>1. \A a \in Answers : Idle(a) \in Calls /\ CallOK(Idle(a), store)
    BY IdleOK
<1>2. "none" \in Answers
    BY DEF Answers
<1>3. calls \in [Callers -> Calls] /\ \A c \in Callers : CallOK(calls[c], store)
    BY <1>1, <1>2 DEF Init
<1>. DEFINE Old == [rv : {1}, managed : {FALSE}, protected : {FALSE}, data : {0}, crsType : BOOLEAN]
<1>4. ASSUME NEW o \in Old PROVE o \in Objects /\ o.rv = 1
    <2>1. 0 \in 0 .. MaxData
        BY KeysAssumption
    <2>2. PICK b \in BOOLEAN :
              o = [rv |-> 1, managed |-> FALSE, protected |-> FALSE, data |-> 0, crsType |-> b]
        OBVIOUS
    <2>. QED  BY <2>1, <2>2 DEF Objects
<1>5. store \in [Keys -> {Absent} \cup Old]
    BY DEF Init
<1>. HIDE DEF Old
<1>6. TypeOK
    BY <1>3, <1>4, <1>5, AbsentType DEF Init, TypeOK
<1>7. VersionsOK
    BY <1>4, <1>5, AbsentType DEF Init, VersionsOK, Exists
<1>. QED  BY <1>3, <1>6, <1>7 DEF IInv

LEMMA StepHolds == IInv /\ [Next]_vars => IInv'
<1>. SUFFICES ASSUME IInv, [Next]_vars PROVE IInv'
    OBVIOUS
<1>1. CASE UNCHANGED vars
    BY <1>1 DEF IInv, TypeOK, VersionsOK, Exists, CallOK, vars
<1>2. CASE Next
    BY <1>2, BeginKeeps, StepKeeps, OutsideKeeps DEF Next
<1>. QED  BY <1>1, <1>2

LEMMA Invariance == Spec => []IInv
BY InitHolds, StepHolds, PTL DEF Spec

\* Every reachable state has the type the model gives it: an object never has
\* contents, and a call never a position in its list, outside the bounds.
THEOREM TypeCorrect == Spec => []TypeOK
<1>1. IInv => TypeOK
    BY DEF IInv
<1>. QED  BY <1>1, Invariance, PTL

\* A call that changes an object does so in a step of its own loop.
LEMMA WriterSteps ==
    ASSUME IInv, [Next]_vars, NEW c \in Callers, NEW k \in Keys, Writes(c, k)
    PROVE  /\ ~Local /\ ~policy.readOnly
           /\ CreateResource(c) \/ UpdateResource(c) \/ CreateSet(c) \/ DeleteSet(c)
<1>1. store' # store /\ calls'[c] # calls[c]
    BY DEF Writes
<1>2. Next /\ ~Local
    BY <1>1 DEF vars, Local
<1>3. ASSUME NEW d \in Callers, Step(d) PROVE d = c
    <2>1. \E r : calls' = [calls EXCEPT ![d] = r]
        BY <1>3 DEF Step, InvalidKind, SkipResource, CreateResource, GetResource, UpdateResource,
                    UpdateResourceRefused, CreateSet, DeleteSet, CallFails, Answer, Write
    <2>. QED  BY <1>1, <2>1 DEF IInv, TypeOK
<1>4. ~\E j \in Keys : OutsideWrite(j)
    BY <1>1 DEF OutsideWrite, Outside
<1>5. Step(c)
    BY <1>1, <1>2, <1>3, <1>4, BeginKeeps DEF Next
<1>6. CreateResource(c) \/ UpdateResource(c) \/ CreateSet(c) \/ DeleteSet(c)
    BY <1>2, <1>5
       DEF Step, InvalidKind, SkipResource, GetResource, UpdateResourceRefused, CallFails
<1>7. calls[c].pc # "idle"
    BY <1>6 DEF CreateResource, UpdateResource, CreateSet, DeleteSet
<1>. QED  BY <1>2, <1>6, <1>7 DEF IInv, CallOK

\* On a read-only server the registry's omission of the tools is enough: no
\* call changes an object, although the client checks no policy here.
THEOREM RegistryIsEnough == Spec => ReadOnlyNeverWrites
<1>. DEFINE A == policy.readOnly => \A c \in Callers, k \in Keys : ~Writes(c, k)
<1>1. ASSUME IInv, [Next]_vars PROVE [A]_vars
    BY <1>1, WriterSteps
<1>. QED  BY <1>1, Invariance, PTL DEF Spec, ReadOnlyNeverWrites

\* For any list of resources: a ClusterResourceSet is created only by a call
\* that has itself written every resource of its list that came with data.
THEOREM SetsComeLast == Spec => SetComesLast
<1>. DEFINE B(c, s) == Writes(c, s) /\ calls[c].pc = "next"
                          => \A j \in DOMAIN calls[c].resources :
                                calls[c].resources[j].data # 0
                                   => calls[c].resources[j].key \in calls[c].wrote
            A == \A c \in Callers, s \in Sets : B(c, s)
<1>1. ASSUME IInv, [Next]_vars PROVE [A]_vars
    <2>. SUFFICES ASSUME NEW c \in Callers, NEW s \in Sets, Writes(c, s), calls[c].pc = "next",
                         NEW j \in DOMAIN calls[c].resources, calls[c].resources[j].data # 0
                  PROVE  calls[c].resources[j].key \in calls[c].wrote
        OBVIOUS
    <2>1. s \in Keys /\ s \notin Resources
        BY KeysAssumption DEF Keys
    <2>2. ~Local /\ (CreateResource(c) \/ UpdateResource(c) \/ CreateSet(c) \/ DeleteSet(c))
        BY <1>1, <2>1, WriterSteps
    <2>3. ~(CreateResource(c) \/ UpdateResource(c))
        BY <1>1, <2>1, <2>2, ResourceWriteKeeps DEF Writes
    <2>4. AllDone(c)
        BY <1>1, <2>2, <2>3, SetWriteKeeps
    <2>5. /\ calls[c] \in Calls /\ CallOK(calls[c], store)
          /\ calls[c].i \in Nat /\ Len(calls[c].resources) \in Nat
        BY <1>1, CurrentOK
    <2>6. j \in 1 .. Len(calls[c].resources)
        BY <2>5, ArgumentsAreSequences DEF Calls
    <2>7. j \in 1 .. calls[c].i - 1
        BY <2>4, <2>5, <2>6 DEF AllDone
    <2>. QED  BY <2>5, <2>7 DEF CallOK
<1>. QED  BY <1>1, Invariance, PTL DEF Spec, SetComesLast

\* An Update that the API server accepts carries the markers of the object it
\* replaces as they are at that moment, not as they were when it was read.
THEOREM UpdatesKeepMarkers == Spec => MarkersSurvive
<1>. DEFINE B(c, k) == Writes(c, k) /\ Exists(k)
                          => store'[k].managed = store[k].managed
                             /\ store'[k].protected = store[k].protected
            A == \A c \in Callers, k \in Resources : B(c, k)
<1>1. ASSUME IInv, [Next]_vars PROVE [A]_vars
    <2>. SUFFICES ASSUME NEW c \in Callers, NEW k \in Resources, Writes(c, k), Exists(k)
                  PROVE  store'[k].managed = store[k].managed
                         /\ store'[k].protected = store[k].protected
        OBVIOUS
    <2>1. k \in Keys /\ k \notin Sets
        BY KeysAssumption DEF Keys
    <2>2. ~Local /\ (CreateResource(c) \/ UpdateResource(c) \/ CreateSet(c) \/ DeleteSet(c))
        BY <1>1, <2>1, WriterSteps
    <2>3. ~(CreateSet(c) \/ DeleteSet(c))
        BY <1>1, <2>1, <2>2, SetWriteKeeps DEF Writes
    <2>. QED  BY <1>1, <2>1, <2>2, <2>3, ResourceWriteKeeps DEF Writes
<1>. QED  BY <1>1, Invariance, PTL DEF Spec, MarkersSurvive
=============================================================================
