CONSTANTS
    alice = alice
    bob = bob
    session = session
    early = early
    late = late
    opaque = opaque
    NoToken = NoToken
    Users = {alice, bob}
    Sessions = {session}
    Tokens = {early, late, opaque}
    Owner <- MCOwner
    WithEmail = {alice, bob}
    Exp <- MCExp
    Requests = {r1, r2}
    maxEntries = 1
    defaultClientTTL = 1
    maxClientTTL = 2
    MaxTime = 4
SPECIFICATION Spec
SYMMETRY RequestSymmetry
INVARIANTS
    TypeOK
    CacheBounded
    ActsAsCaller
    CachedIsFresh
PROPERTIES
    EvictsOnlyExpired
