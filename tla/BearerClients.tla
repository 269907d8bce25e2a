--------------------------- MODULE BearerClients ---------------------------
(***************************************************************************)
(* Which client a tool call works with (pkg/capi/bearer.go, pkg/oauth/     *)
(* identity.go, pkg/mcp/handlers/types.go): the identity middleware finds  *)
(* the caller's ID token, and the factory keeps a bounded cache of one     *)
(* client per token, shared by concurrent requests.                        *)
(*                                                                         *)
(* The mutex makes the lookup and the insertion one step each; the clock   *)
(* is read before the first and used in both.  Digests of tokens do not    *)
(* collide: the cache is keyed by the token itself.                        *)
(***************************************************************************)
EXTENDS Integers, FiniteSets

CONSTANTS
    Users, Sessions, Tokens,
    NoToken,             \* no ID token
    Owner,               \* the user of each session (access token) and ID token
    WithEmail,           \* the users whose e-mail address is known
    Exp,                 \* the exp claim of each ID token, 0 when it has none
    Requests,            \* requests that may be served at the same time
    maxEntries,          \* the factory's cache limit
    defaultClientTTL, maxClientTTL,
    MaxTime              \* the clock stops here

\* The store holds both kinds of key: an access token is no e-mail address.
ASSUME FactoryAssumption ==
    /\ NoToken \notin Tokens
    /\ Tokens \cap {"absent", "noIDToken"} = {}
    /\ Sessions \cap Users = {}
    /\ Owner \in [Sessions \cup Tokens -> Users]
    /\ WithEmail \subseteq Users
    /\ Exp \in [Tokens -> Nat]
    /\ IsFiniteSet(Tokens)
    /\ maxEntries \in Nat
    /\ defaultClientTTL \in Nat /\ maxClientTTL \in Nat
    /\ defaultClientTTL <= maxClientTTL
    /\ MaxTime \in Nat

VARIABLES
    mode,     \* "static": one client for everyone; "caller": --downstream-oauth
    clock,
    tokens,   \* the OAuth token store: by access token, and by e-mail
    cache,    \* the factory's clients and when each entry expires
    requests

vars == <<mode, clock, tokens, cache, requests>>

\* A client of the factory authenticates with the token it was built for;
\* built is the time its request had read.  The static client is "static".
Clients == [token : Tokens, built : Nat]
NoEntry == [client |-> [token |-> NoToken, built |-> 0], expires |-> 0]
Entries == [client : Clients, expires : Nat]
Cached == {t \in Tokens : cache[t] # NoEntry}

\* What the token store answers: an error or no record, a record without an
\* id_token, or a record with one.
Records == Tokens \cup {"absent", "noIDToken"}

NewRequest == [pc |-> "idle", user |-> "nobody", idToken |-> NoToken, now |-> 0,
               client |-> NoEntry.client, answer |-> "none"]
Answers == {"none", "unauthorized", "forbidden", "ErrNoCallerIdentity", "error",
            "static", "cached", "built"}
PCs == {"idle", "client", "lookup", "build", "insert"}

\* Records by e-mail were left by older versions; sessions start anew.
Init ==
    /\ mode \in {"static", "caller"}
    /\ clock = 1
    /\ tokens \in [Sessions \cup Users -> Records]
    /\ \A s \in Sessions : tokens[s] = "absent"
    /\ \A u \in Users : tokens[u] \in Tokens => Owner[tokens[u]] = u
    /\ cache = [t \in Tokens |-> NoEntry]
    /\ requests = [r \in Requests |-> NewRequest]
-----------------------------------------------------------------------------
(* The middleware.                                                         *)

Answer(r, a) == requests' = [requests EXCEPT ![r].pc = "idle", ![r].answer = a]
Shared == UNCHANGED <<mode, clock, tokens, cache>>

\* ValidateToken let the request through, as user u with an ID token or an
\* access token as its bearer; identity puts the ID token into the context.
Goes(r, u, idToken) ==
    /\ requests[r].pc = "idle"
    /\ requests' = [requests EXCEPT ![r] =
                      [NewRequest EXCEPT !.pc = "client", !.user = u, !.idToken = idToken]]
    /\ Shared

Turned(r, a) ==
    /\ requests[r].pc = "idle"
    /\ requests' = [requests EXCEPT ![r] = [NewRequest EXCEPT !.answer = a]]
    /\ Shared

\* A forwarded ID token is the bearer.
IdentitySSO(r, t) == Goes(r, Owner[t], t)

\* The record of the access token, else that of the e-mail address.
storedIDToken(s) ==
    LET byEmail == tokens[s] = "absent" /\ Owner[s] \in WithEmail
        record == IF byEmail THEN tokens[Owner[s]] ELSE tokens[s]
    IN  IF record \in Tokens THEN record ELSE NoToken

\* No ID token does not stop the request here.
IdentityStored(r, s) == Goes(r, Owner[s], storedIDToken(s))

\* No user in the context, or a token of an external issuer.
IdentityRefused(r) == Turned(r, "unauthorized") \/ Turned(r, "forbidden")
-----------------------------------------------------------------------------
(* ServerContext.Client and BearerClientFactory.ClientFor.                 *)

\* Mutant of Client: without an ID token the server's own client does.
ClientOrStatic(r) ==
    /\ requests[r].pc = "client"
    /\ IF mode = "static" \/ requests[r].idToken = NoToken THEN Answer(r, "static")
       ELSE requests' = [requests EXCEPT ![r].pc = "lookup", ![r].now = clock]
    /\ Shared

\* The static client, or a closed door, or ClientFor, which reads the clock.
Client(r) ==
    /\ requests[r].pc = "client"
    /\ IF mode = "static" THEN Answer(r, "static")
       ELSE IF requests[r].idToken = NoToken THEN Answer(r, "ErrNoCallerIdentity")
       ELSE requests' = [requests EXCEPT ![r].pc = "lookup", ![r].now = clock]
    /\ Shared

\* Mutant of Fresh: an entry never expires.
FreshForever(e, now) == e # NoEntry

Fresh(e, now) == e # NoEntry /\ now < e.expires

\* The first critical section.
LookUp(r) ==
    /\ requests[r].pc = "lookup"
    /\ LET e == cache[requests[r].idToken]
       IN  IF Fresh(e, requests[r].now)
           THEN requests' = [requests EXCEPT ![r].pc = "idle", ![r].answer = "cached",
                                             ![r].client = e.client]
           ELSE requests' = [requests EXCEPT ![r].pc = "build"]
    /\ Shared

\* NewClientFromConfig may fail.
Build(r) ==
    /\ requests[r].pc = "build"
    /\ \/ requests' = [requests EXCEPT ![r].pc = "insert",
              ![r].client = [token |-> requests[r].idToken, built |-> requests[r].now]]
       \/ Answer(r, "error")
    /\ Shared

\* Mutant of clientExpiry: the time to live has the wrong sign.
clientExpiryInThePast(t, now) == now - maxClientTTL

\* The exp claim, capped; an opaque token has a short time of its own.
clientExpiry(t, now) ==
    IF Exp[t] = 0 THEN now + defaultClientTTL
    ELSE IF Exp[t] < now + maxClientTTL THEN Exp[t] ELSE now + maxClientTTL

\* Mutant of Evicted: a full cache is emptied.
EvictedAll(now) == IF Cardinality(Cached) >= maxEntries THEN Cached ELSE {}

\* A full cache first drops what has expired.
Evicted(now) ==
    IF Cardinality(Cached) >= maxEntries
    THEN {t \in Cached : ~Fresh(cache[t], now)}
    ELSE {}

\* Mutant of Room: off by one.
RoomForOneMore(out) == Cardinality(Cached \ out) <= maxEntries

Room(out) == Cardinality(Cached \ out) < maxEntries

\* The second critical section; the request has its client either way.
Insert(r) ==
    /\ requests[r].pc = "insert"
    /\ LET q == requests[r]
           out == Evicted(q.now)
       IN  cache' = [t \in Tokens |->
               IF Room(out) /\ t = q.idToken
               THEN [client |-> q.client, expires |-> clientExpiry(t, q.now)]
               ELSE IF t \in out THEN NoEntry ELSE cache[t]]
    /\ Answer(r, "built")
    /\ UNCHANGED <<mode, clock, tokens>>
-----------------------------------------------------------------------------
(* The OAuth library's token store, and time.                              *)

Login(s, t) ==
    /\ Owner[t] = Owner[s]
    /\ tokens' = [tokens EXCEPT ![s] = t]
    /\ UNCHANGED <<mode, clock, cache, requests>>

\* A login whose provider returned no id_token.
LoginWithoutIDToken(s) ==
    /\ tokens[s] # "noIDToken"
    /\ tokens' = [tokens EXCEPT ![s] = "noIDToken"]
    /\ UNCHANGED <<mode, clock, cache, requests>>

\* A record expires, is revoked, or cannot be read.
Forget(x) ==
    /\ tokens[x] # "absent"
    /\ tokens' = [tokens EXCEPT ![x] = "absent"]
    /\ UNCHANGED <<mode, clock, cache, requests>>

Tick ==
    /\ clock < MaxTime
    /\ clock' = clock + 1
    /\ UNCHANGED <<mode, tokens, cache, requests>>

Next ==
    \/ \E r \in Requests :
          \/ \E t \in Tokens : IdentitySSO(r, t)
          \/ \E s \in Sessions : IdentityStored(r, s)
          \/ IdentityRefused(r)
          \/ Client(r) \/ LookUp(r) \/ Build(r) \/ Insert(r)
    \/ \E s \in Sessions : (\E t \in Tokens : Login(s, t)) \/ LoginWithoutIDToken(s)
    \/ \E x \in Sessions \cup Users : Forget(x)
    \/ Tick

Spec == Init /\ [][Next]_vars
-----------------------------------------------------------------------------
\* The type invariant.
TypeOK ==
    /\ mode \in {"static", "caller"}
    /\ clock \in Nat
    /\ tokens \in [Sessions \cup Users -> Records]
    /\ cache \in [Tokens -> Entries \cup {NoEntry}]
    /\ requests \in [Requests -> [pc : PCs, user : Users \cup {"nobody"},
                                  idToken : Tokens \cup {NoToken}, now : Nat,
                                  client : Clients \cup {NoEntry.client}, answer : Answers]]

\* The limit holds however many requests build clients at the same time: the
\* size is tested again in the critical section that inserts.
CacheBounded == Cardinality(Cached) <= maxEntries

\* Acting as the caller: a request that got a client got one that presents an
\* ID token of its own user, never another user's from the shared cache or the
\* token store, and never the server's own; without a token it got none.
ActsAsCaller ==
    \A r \in Requests :
        LET q == requests[r] IN
        /\ mode = "caller" => q.answer # "static"
        /\ q.answer \in {"cached", "built"} =>
              q.client.token \in Tokens /\ Owner[q.client.token] = q.user

\* A client from the cache is never stale: when its request began, its token
\* had not expired and it was younger than maxClientTTL (counted from when the
\* request that built it began).
CachedIsFresh ==
    \A r \in Requests :
        LET q == requests[r] IN
        q.answer = "cached" =>
           /\ Exp[q.client.token] # 0 => q.now < Exp[q.client.token]
           /\ q.now < q.client.built + maxClientTTL

\* A full cache costs nobody a usable client: only what has expired by now
\* leaves it, although requests judge with the time they read when they began.
\* A request may still replace the entry of its own token.
EvictsOnlyExpired ==
    [][\A t \in Cached :
          cache'[t] = NoEntry => cache[t].expires <= clock]_vars
=============================================================================
