\* Every challenge handler alone, two processes where the provider merges.
CONSTANTS
    Replicas = {"p1", "p2"}
    Names = {"a", "b"}
    Deployments <- AllDeployments
    SharedAccount = TRUE
    CONFLICT_RETRIES = 1
    MaxOrders = 2
    MaxFaults = 2
    None = None
SPECIFICATION FairSpec
INVARIANTS ReadyIsAnswered NoResidue ClosestZoneWins
PROPERTIES MergesEdits RequestEnds
CHECK_DEADLOCK FALSE
