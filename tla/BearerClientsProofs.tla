------------------------- MODULE BearerClientsProofs -------------------------
(***************************************************************************)
(* Proofs about BearerClients, for any users, sessions, tokens, requests   *)
(* in flight, cache limit and times to live.                               *)
(***************************************************************************)
EXTENDS BearerClients, FiniteSetTheorems, TLAPS

\* The store hands a session or an e-mail address only tokens of its own user.
StoreOK ==
    /\ \A s \in Sessions : tokens[s] \in Tokens => Owner[tokens[s]] = Owner[s]
    /\ \A u \in Users : tokens[u] \in Tokens => Owner[tokens[u]] = u

\* An entry e of token t presents t, and expires no later than t does and than
\* maxClientTTL after the request that built it began.
EntryOK(t, e) ==
    e # NoEntry =>
       /\ e.client.token = t
       /\ e.expires <= e.client.built + maxClientTTL
       /\ Exp[t] # 0 => e.expires <= Exp[t]

CacheOK == \A t \in Tokens : EntryOK(t, cache[t])

\* What a request has found out so far is its own user's.
RequestOK(q) ==
    /\ q.now <= clock
    /\ q.idToken \in Tokens => Owner[q.idToken] = q.user
    /\ q.pc # "idle" => q.answer = "none"
    /\ q.pc \in {"lookup", "build", "insert"} => q.idToken \in Tokens
    /\ q.pc = "insert" => q.client = [token |-> q.idToken, built |-> q.now]
    /\ mode = "caller" => q.answer # "static"
    /\ q.answer \in {"cached", "built"} =>
          q.client.token \in Tokens /\ Owner[q.client.token] = q.user
    /\ q.answer = "cached" =>
          /\ Exp[q.client.token] # 0 => q.now < Exp[q.client.token]
          /\ q.now < q.client.built + maxClientTTL

RequestsOK == \A r \in Requests : RequestOK(requests[r])

\* The inductive invariant.
IInv == TypeOK /\ StoreOK /\ CacheOK /\ RequestsOK /\ CacheBounded

\* The type of a request.
RequestRecs == [pc : PCs, user : Users \cup {"nobody"},
                idToken : Tokens \cup {NoToken}, now : Nat,
                client : Clients \cup {NoEntry.client}, answer : Answers]

LEMMA NoEntryIsNone ==
    ASSUME NEW e \in Entries
    PROVE  e # NoEntry
BY FactoryAssumption DEF Entries, NoEntry, Clients

LEMMA ExpiryBounds ==
    ASSUME NEW t \in Tokens, NEW now \in Nat
    PROVE  /\ clientExpiry(t, now) \in Nat
           /\ clientExpiry(t, now) <= now + maxClientTTL
           /\ Exp[t] # 0 => clientExpiry(t, now) <= Exp[t]
BY FactoryAssumption DEF clientExpiry

LEMMA storedIDTokenOwner ==
    ASSUME TypeOK, StoreOK, NEW s \in Sessions
    PROVE  /\ storedIDToken(s) \in Tokens \cup {NoToken}
           /\ storedIDToken(s) \in Tokens => Owner[storedIDToken(s)] = Owner[s]
BY FactoryAssumption DEF TypeOK, StoreOK, storedIDToken

\* Only one request changes, to one that is in order.
LEMMA RequestKeeps ==
    ASSUME IInv, Shared, NEW r \in Requests, NEW q \in RequestRecs,
           RequestOK(q), requests' = [requests EXCEPT ![r] = q]
    PROVE  IInv'
<1>1. TypeOK'
    BY DEF IInv, TypeOK, Shared, RequestRecs
<1>2. StoreOK' /\ CacheOK' /\ CacheBounded'
    BY DEF IInv, StoreOK, CacheOK, EntryOK, CacheBounded, Cached, Shared
<1>3. RequestsOK'
    BY DEF IInv, TypeOK, RequestsOK, RequestOK, Shared
<1>. QED  BY <1>1, <1>2, <1>3 DEF IInv

\* Only the token store changes, and stays in order.
LEMMA StoreKeeps ==
    ASSUME IInv, NEW x \in Sessions \cup Users, NEW v \in Records,
           v \in Tokens => x \in Sessions /\ Owner[v] = Owner[x],
           tokens' = [tokens EXCEPT ![x] = v],
           UNCHANGED <<mode, clock, cache, requests>>
    PROVE  IInv'
<1>1. TypeOK'
    BY DEF IInv, TypeOK
<1>2. StoreOK'
    BY FactoryAssumption DEF IInv, TypeOK, StoreOK
<1>3. CacheOK' /\ RequestsOK' /\ CacheBounded'
    BY DEF IInv, CacheOK, EntryOK, RequestsOK, RequestOK, CacheBounded, Cached
<1>. QED  BY <1>1, <1>2, <1>3 DEF IInv

LEMMA InitHolds == Init => IInv
<1>. SUFFICES ASSUME Init PROVE IInv
    OBVIOUS
<1>1. TypeOK
    BY DEF Init, TypeOK, NewRequest, PCs, Answers
<1>2. StoreOK /\ CacheOK
    BY FactoryAssumption DEF Init, StoreOK, CacheOK, EntryOK
<1>3. RequestsOK
    BY FactoryAssumption DEF Init, RequestsOK, RequestOK, NewRequest, NoEntry
<1>4. CacheBounded
    <2>1. Cached = {}
        BY DEF Init, Cached
    <2>. QED  BY <2>1, FS_EmptySet, FactoryAssumption DEF CacheBounded
<1>. QED  BY <1>1, <1>2, <1>3, <1>4 DEF IInv

LEMMA GoesKeeps ==
    ASSUME IInv, NEW r \in Requests, NEW u \in Users,
           NEW t \in Tokens \cup {NoToken}, t \in Tokens => Owner[t] = u,
           Goes(r, u, t)
    PROVE  IInv'
<1>. DEFINE q == [NewRequest EXCEPT !.pc = "client", !.user = u, !.idToken = t]
<1>1. q \in RequestRecs
    BY DEF RequestRecs, NewRequest, PCs, Answers
<1>2. RequestOK(q)
    BY FactoryAssumption DEF RequestOK, NewRequest, NoEntry, IInv, TypeOK
<1>. QED  BY <1>1, <1>2, RequestKeeps DEF Goes

LEMMA TurnedKeeps ==
    ASSUME IInv, NEW r \in Requests, NEW a \in {"unauthorized", "forbidden"},
           Turned(r, a)
    PROVE  IInv'
<1>. DEFINE q == [NewRequest EXCEPT !.answer = a]
<1>1. q \in RequestRecs
    BY DEF RequestRecs, NewRequest, PCs, Answers
<1>2. RequestOK(q)
    BY FactoryAssumption DEF RequestOK, NewRequest, NoEntry, IInv, TypeOK
<1>. QED  BY <1>1, <1>2, RequestKeeps DEF Turned

LEMMA ClientKeeps ==
    ASSUME IInv, NEW r \in Requests, Client(r)
    PROVE  IInv'
<1>. DEFINE q == requests[r]
<1>1. q \in RequestRecs /\ RequestOK(q) /\ clock \in Nat
    BY DEF IInv, TypeOK, RequestsOK, RequestRecs
<1>2. PICK p : /\ requests' = [requests EXCEPT ![r] = p]
               /\ \/ /\ mode = "static"
                     /\ p = [q EXCEPT !.pc = "idle", !.answer = "static"]
                  \/ p = [q EXCEPT !.pc = "idle", !.answer = "ErrNoCallerIdentity"]
                  \/ /\ q.idToken # NoToken
                     /\ p = [q EXCEPT !.pc = "lookup", !.now = clock]
    BY DEF Client, Answer, IInv, TypeOK
<1>3. p \in RequestRecs
    BY <1>1, <1>2 DEF RequestRecs, PCs, Answers
<1>4. q.pc = "client" /\ q.answer = "none"
    BY <1>1 DEF Client, RequestOK
<1>. HIDE DEF q
<1>5. RequestOK(p)
    <2>1. CASE mode = "static" /\ p = [q EXCEPT !.pc = "idle", !.answer = "static"]
        BY <1>1, <1>4, <2>1 DEF RequestOK, RequestRecs
    <2>2. CASE p = [q EXCEPT !.pc = "idle", !.answer = "ErrNoCallerIdentity"]
        BY <1>1, <1>4, <2>2 DEF RequestOK, RequestRecs
    <2>3. CASE q.idToken # NoToken /\ p = [q EXCEPT !.pc = "lookup", !.now = clock]
        BY <1>1, <1>4, <2>3 DEF RequestOK, RequestRecs
    <2>. QED  BY <1>2, <2>1, <2>2, <2>3
<1>. QED  BY <1>2, <1>3, <1>5, RequestKeeps DEF Client

LEMMA LookUpKeeps ==
    ASSUME IInv, NEW r \in Requests, LookUp(r)
    PROVE  IInv'
<1>. DEFINE q == requests[r]
            e == cache[q.idToken]
            hit == [q EXCEPT !.pc = "idle", !.answer = "cached", !.client = e.client]
            miss == [q EXCEPT !.pc = "build"]
<1>1. q \in RequestRecs /\ RequestOK(q) /\ q.pc = "lookup"
    BY DEF IInv, TypeOK, RequestsOK, RequestRecs, LookUp
<1>2. q.idToken \in Tokens /\ Owner[q.idToken] = q.user /\ q.answer = "none"
    BY <1>1 DEF RequestOK
<1>3. e \in Entries \cup {NoEntry} /\ EntryOK(q.idToken, e)
    BY <1>2 DEF IInv, TypeOK, CacheOK
<1>4. CASE Fresh(e, q.now)
    <2>1. requests' = [requests EXCEPT ![r] = hit]
        BY <1>4 DEF LookUp, IInv, TypeOK
    <2>. HIDE DEF q, e
    <2>2. hit \in RequestRecs
        BY <1>1, <1>3, <1>4 DEF RequestRecs, PCs, Answers, Entries, Fresh
    <2>3. /\ e.client.token = q.idToken
          /\ q.now < e.client.built + maxClientTTL
          /\ Exp[q.idToken] # 0 => q.now < Exp[q.idToken]
        BY <1>1, <1>2, <1>3, <1>4, FactoryAssumption
           DEF EntryOK, Fresh, Entries, Clients, RequestRecs
    <2>4. RequestOK(hit)
        BY <1>1, <1>2, <2>3 DEF RequestOK, RequestRecs
    <2>. QED  BY <2>1, <2>2, <2>4, RequestKeeps DEF LookUp
<1>5. CASE ~Fresh(e, q.now)
    <2>1. requests' = [requests EXCEPT ![r] = miss]
        BY <1>5 DEF LookUp, IInv, TypeOK
    <2>. HIDE DEF q, e
    <2>2. miss \in RequestRecs
        BY <1>1 DEF RequestRecs, PCs
    <2>3. RequestOK(miss)
        BY <1>1, <1>2 DEF RequestOK, RequestRecs
    <2>. QED  BY <2>1, <2>2, <2>3, RequestKeeps DEF LookUp
<1>. QED  BY <1>4, <1>5

LEMMA BuildKeeps ==
    ASSUME IInv, NEW r \in Requests, Build(r)
    PROVE  IInv'
<1>. DEFINE q == requests[r]
            done == [q EXCEPT !.pc = "insert",
                              !.client = [token |-> q.idToken, built |-> q.now]]
            failed == [q EXCEPT !.pc = "idle", !.answer = "error"]
<1>1. q \in RequestRecs /\ RequestOK(q) /\ q.pc = "build"
    BY DEF IInv, TypeOK, RequestsOK, RequestRecs, Build
<1>2. \/ requests' = [requests EXCEPT ![r] = done]
      \/ requests' = [requests EXCEPT ![r] = failed]
    BY DEF Build, Answer, IInv, TypeOK
<1>. HIDE DEF q
<1>3. done \in RequestRecs /\ RequestOK(done)
    <2>1. q.idToken \in Tokens /\ q.answer = "none"
        BY <1>1 DEF RequestOK
    <2>2. done \in RequestRecs
        BY <1>1, <2>1 DEF RequestRecs, PCs, Clients
    <2>. QED  BY <1>1, <2>1, <2>2 DEF RequestOK, RequestRecs
<1>4. failed \in RequestRecs /\ RequestOK(failed)
    BY <1>1 DEF RequestOK, RequestRecs, PCs, Answers
<1>. QED  BY <1>2, <1>3, <1>4, RequestKeeps DEF Build

\* The entry a request inserts is in order, and what it evicts had expired.
LEMMA InsertKeeps ==
    ASSUME IInv, NEW r \in Requests, Insert(r)
    PROVE  IInv'
<1>. DEFINE q == requests[r]
            out == Evicted(q.now)
            new == [client |-> q.client, expires |-> clientExpiry(q.idToken, q.now)]
            p == [q EXCEPT !.pc = "idle", !.answer = "built"]
<1>1. q \in RequestRecs /\ RequestOK(q) /\ q.pc = "insert"
    BY DEF IInv, TypeOK, RequestsOK, RequestRecs, Insert
<1>2. requests' = [requests EXCEPT ![r] = p] /\ UNCHANGED <<mode, clock, tokens>>
    BY DEF Insert, Answer, IInv, TypeOK
<1>3. cache' = [t \in Tokens |-> IF Room(out) /\ t = q.idToken THEN new
                                 ELSE IF t \in out THEN NoEntry ELSE cache[t]]
    BY DEF Insert
<1>. HIDE DEF q
<1>4. /\ q.idToken \in Tokens /\ Owner[q.idToken] = q.user /\ q.answer = "none"
      /\ q.client = [token |-> q.idToken, built |-> q.now] /\ q.now \in Nat
    BY <1>1 DEF RequestOK, RequestRecs
<1>5. new \in Entries /\ EntryOK(q.idToken, new)
    BY <1>4, ExpiryBounds DEF Entries, Clients, EntryOK
<1>6. p \in RequestRecs /\ RequestOK(p)
    <2>1. p \in RequestRecs
        BY <1>1 DEF RequestRecs, PCs, Answers
    <2>2. /\ p.pc = "idle" /\ p.answer = "built" /\ p.idToken = q.idToken
          /\ p.user = q.user /\ p.now = q.now /\ p.client = q.client
        BY <1>1 DEF RequestRecs
    <2>. QED  BY <1>1, <1>4, <2>1, <2>2 DEF RequestOK
<1>7. TypeOK'
    BY <1>2, <1>3, <1>5, <1>6 DEF IInv, TypeOK, RequestRecs
<1>8. StoreOK' /\ CacheOK'
    BY <1>2, <1>3, <1>5 DEF IInv, StoreOK, CacheOK, EntryOK
<1>9. RequestsOK'
    BY <1>2, <1>6 DEF IInv, TypeOK, RequestsOK, RequestOK
<1>10. CacheBounded'
    <2>1. Cached \subseteq Tokens /\ IsFiniteSet(Cached) /\ IsFiniteSet(Cached \ out)
        BY FactoryAssumption, FS_Subset DEF Cached
    <2>2. CASE Room(out)
        <3>1. Cached' \subseteq (Cached \ out) \cup {q.idToken}
            BY <1>3 DEF Cached
        <3>2. /\ IsFiniteSet((Cached \ out) \cup {q.idToken})
              /\ Cardinality((Cached \ out) \cup {q.idToken})
                    <= Cardinality(Cached \ out) + 1
            <4>. DEFINE S == Cached \ out
            <4>1. IsFiniteSet(S)
                BY <2>1
            <4>. HIDE DEF S
            <4>2. /\ IsFiniteSet(S \cup {q.idToken}) /\ Cardinality(S) \in Nat
                  /\ Cardinality(S \cup {q.idToken})
                        = IF q.idToken \in S THEN Cardinality(S) ELSE Cardinality(S) + 1
                BY <4>1, FS_AddElement, FS_CardinalityType
            <4>3. Cardinality(S \cup {q.idToken}) <= Cardinality(S) + 1
                BY <4>2
            <4>. QED  BY <4>2, <4>3 DEF S
        <3>3. Cardinality(Cached') <= Cardinality((Cached \ out) \cup {q.idToken})
            BY <3>1, <3>2, FS_Subset
        <3>4. Cardinality(Cached') \in Nat
            BY <3>1, <3>2, FS_Subset, FS_CardinalityType
        <3>5. Cardinality(Cached') <= Cardinality(Cached \ out) + 1
            BY <2>1, <3>2, <3>3, <3>4, FS_CardinalityType
        <3>. QED  BY <2>1, <2>2, <3>4, <3>5, FS_CardinalityType, FactoryAssumption
                  DEF Room, CacheBounded
    <2>3. CASE ~Room(out)
        <3>1. Cached' \subseteq Cached
            BY <1>3, <2>3 DEF Cached
        <3>. QED  BY <2>1, <3>1, FS_Subset, FS_CardinalityType, FactoryAssumption
                  DEF IInv, CacheBounded
    <2>. QED  BY <2>2, <2>3
<1>. QED  BY <1>7, <1>8, <1>9, <1>10 DEF IInv

LEMMA StepHolds == IInv /\ [Next]_vars => IInv'
<1>. SUFFICES ASSUME IInv, [Next]_vars PROVE IInv'
    OBVIOUS
<1>1. ASSUME NEW r \in Requests, NEW t \in Tokens, IdentitySSO(r, t) PROVE IInv'
    BY <1>1, GoesKeeps, FactoryAssumption DEF IdentitySSO
<1>2. ASSUME NEW r \in Requests, NEW s \in Sessions, IdentityStored(r, s) PROVE IInv'
    BY <1>2, GoesKeeps, storedIDTokenOwner, FactoryAssumption DEF IdentityStored, IInv
<1>3. ASSUME NEW r \in Requests, IdentityRefused(r) PROVE IInv'
    BY <1>3, TurnedKeeps DEF IdentityRefused
<1>4. ASSUME NEW r \in Requests, Client(r) \/ LookUp(r) \/ Build(r) \/ Insert(r)
      PROVE  IInv'
    BY <1>4, ClientKeeps, LookUpKeeps, BuildKeeps, InsertKeeps
<1>5. ASSUME NEW s \in Sessions, NEW t \in Tokens, Login(s, t) PROVE IInv'
    BY <1>5, StoreKeeps DEF Login, Records
<1>6. ASSUME NEW s \in Sessions, LoginWithoutIDToken(s) PROVE IInv'
    BY <1>6, StoreKeeps, FactoryAssumption DEF LoginWithoutIDToken, Records
<1>7. ASSUME NEW x \in Sessions \cup Users, Forget(x) PROVE IInv'
    BY <1>7, StoreKeeps, FactoryAssumption DEF Forget, Records
<1>8. CASE Tick
    <2>1. TypeOK'
        BY <1>8 DEF Tick, IInv, TypeOK
    <2>2. StoreOK' /\ CacheOK' /\ CacheBounded'
        BY <1>8 DEF Tick, IInv, StoreOK, CacheOK, EntryOK, CacheBounded, Cached
    <2>3. \A r \in Requests : requests[r].now \in Nat /\ clock \in Nat
        BY DEF IInv, TypeOK
    <2>4. RequestsOK'
        BY <1>8, <2>3 DEF Tick, IInv, RequestsOK, RequestOK
    <2>. QED  BY <2>1, <2>2, <2>4 DEF IInv
<1>9. CASE UNCHANGED vars
    BY <1>9 DEF vars, IInv, TypeOK, StoreOK, CacheOK, EntryOK, RequestsOK, RequestOK,
               CacheBounded, Cached
<1>. QED  BY <1>1, <1>2, <1>3, <1>4, <1>5, <1>6, <1>7, <1>8, <1>9 DEF Next

LEMMA Invariance == Spec => []IInv
BY InitHolds, StepHolds, PTL DEF Spec

\* Every variable keeps its type: the factory only ever stores clients it built,
\* and a request only ever holds a token of the store or of its own bearer.
THEOREM TypeCorrect == Spec => []TypeOK
<1>1. IInv => TypeOK
    BY DEF IInv
<1>. QED  BY <1>1, Invariance, PTL

\* However many requests build clients at the same time, ClientFor never lets
\* the cache grow past maxEntries.
THEOREM CacheIsBounded == Spec => []CacheBounded
<1>1. IInv => CacheBounded
    BY DEF IInv
<1>. QED  BY <1>1, Invariance, PTL

\* No request of --downstream-oauth is served with a client of another user or
\* with the server's own, whatever the shared cache and the token store hold.
THEOREM RequestsActAsCaller == Spec => []ActsAsCaller
<1>1. IInv => ActsAsCaller
    BY DEF IInv, RequestsOK, RequestOK, ActsAsCaller
<1>. QED  BY <1>1, Invariance, PTL

\* A client from the cache presents a token that had not expired when its
\* request began, and is younger than maxClientTTL.
THEOREM CachedClientsAreFresh == Spec => []CachedIsFresh
<1>1. IInv => CachedIsFresh
    BY DEF IInv, RequestsOK, RequestOK, CachedIsFresh
<1>. QED  BY <1>1, Invariance, PTL

\* evictExpiredLocked never costs anybody a usable client.
THEOREM EvictionIsHarmless == Spec => EvictsOnlyExpired
<1>. DEFINE A == \A t \in Cached : cache'[t] = NoEntry => cache[t].expires <= clock
<1>1. ASSUME IInv, [Next]_vars PROVE [A]_vars
    <2>. SUFFICES ASSUME NEW t \in Cached, cache'[t] = NoEntry, cache' # cache
                  PROVE  cache[t].expires <= clock
        BY DEF Cached
    <2>1. PICK r \in Requests : Insert(r)
        BY <1>1 DEF Next, IdentitySSO, IdentityStored, IdentityRefused, Goes, Turned,
                   Client, LookUp, Build, Login, LoginWithoutIDToken, Forget, Tick,
                   Shared, vars
    <2>. DEFINE q == requests[r]
    <2>2. /\ q \in RequestRecs /\ q.idToken \in Tokens /\ q.now <= clock
          /\ q.client = [token |-> q.idToken, built |-> q.now]
        BY <1>1, <2>1 DEF IInv, TypeOK, RequestRecs, RequestsOK, RequestOK, Insert
    <2>3. t \in Tokens /\ cache[t] # NoEntry /\ cache[t].expires \in Nat /\ clock \in Nat
        BY <1>1 DEF Cached, IInv, TypeOK, Entries
    <2>4. t \in Evicted(q.now)
        BY <2>1, <2>2, <2>3, FactoryAssumption DEF Insert, NoEntry
    <2>5. ~(q.now < cache[t].expires)
        BY <2>3, <2>4 DEF Evicted, Fresh
    <2>. QED  BY <2>2, <2>3, <2>5 DEF RequestRecs
<1>. QED  BY <1>1, Invariance, PTL DEF Spec, EvictsOnlyExpired
=============================================================================
