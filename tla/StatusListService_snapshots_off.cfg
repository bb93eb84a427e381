\* snapshot_retention_secs = 0: plain insert and guarded update; every handler ends,
\* so the system may stop.
CONSTANTS
    Requests = {r1, r2, r3}
    Lists = {l1}
    Issuers = {i1}
    TokenExps = {1}
    Retention = 0
    BatchSize = 1
    MaxTime = 1
    MaxSkew = 1
    None = None
SPECIFICATION FairSpec
PROPERTY EveryRequestEnds
CHECK_DEADLOCK FALSE
