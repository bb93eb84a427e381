\* Two requests at every backend; Vault grants leases of ten or twelve ticks, or without end.
CONSTANTS
    Tasks = {t1, t2}
    Leases = {0, 10, 12}
    MaxLease = 12
    FAILURE_COOLDOWN = 2
    MaxLatency = 1
    NoTask = NoTask
    Plans <- EveryPlan
    Values = {a, b}
    SecretsTTL = 2
    RECOVERY_ATTEMPTS = 2
    NoValue = NoValue
SPECIFICATION Spec
SYMMETRY StoreSymmetry
INVARIANTS LoadIsRecent AckMeansTaken SendsLiveToken
PROPERTY NoStampede
