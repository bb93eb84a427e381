\* Readiness checks with no latency at all, of which one is dropped during a renewal.
CONSTANTS
    Tasks = {t1, t2}
    Leases = {4, 8}
    MaxLease = 8
    FAILURE_COOLDOWN = 1
    MaxLatency = 0
    NoTask = NoTask
    Plans <- TokenPlans
    Values = {a}
    SecretsTTL = 0
    RECOVERY_ATTEMPTS = 1
    NoValue = NoValue
SPECIFICATION Spec
INVARIANT PassedMeansValid
