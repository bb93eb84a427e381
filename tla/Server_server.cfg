SPECIFICATION Spec
CONSTANTS
    r1 = r1 r2 = r2 p1 = p1 p2 = p2 i1 = i1 k1 = k1 k2 = k2
    q1 = q1 q2 = q2 w1 = w1 w2 = w2 w3 = w3
    Writers = {w1, w2, w3}
    MemoryLists = {l1}
    MemoryIssuers = {i1}
    MemoryLifetime = 1
    MemoryRetention = 1
    NoRow = NoRow
    Replicas = {r1, r2}
    Probes = {p1, p2}
    Requests = {q1, q2}
    Issuers = {i1}
    Keys = {k1, k2}
    UnusableKeys = {}
    Tokens <- MCTokens
    audiences = {"us"}
    leeway_secs = 1
    max_token_lifetime_secs = 2
    LastTime = 6
    CHECK_TIMEOUT = 2
    READINESS_CACHE_TTL = 2
    NoProbe = NoProbe
    NoKey = NoKey
    NoReplica = NoReplica
    Plans <- AllPlans
INVARIANTS ServesCompleteSchema ServesOnlyCoherent ReadyIsFresh AckedKeyStands
PROPERTIES StampsSurvive MemoryIsAtomic StartsUp Drains
