\* One process under either strategy, no key at first start, a restart at any step, two renewal tasks.
CONSTANTS
    Replicas = {"p1"}
    Renewals = {"renew1", "renew2"}
    Handlers = {"sign1", "sign2"}
    Home <- OneProcess
    Deployments <- BothStrategies
    KeyInBackend = FALSE
    CacheKeys = TRUE
    RenewAfter = 1
    MaxKeys = 3
    MaxCrashes = 1
    None = None
SPECIFICATION FairSpec
INVARIANTS
    ServedPairMatches
    StoredPairMatches
PROPERTIES
    NoDowngrade
    RenewalHappens
    StoreConverges
