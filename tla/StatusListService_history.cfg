\* Successive versions overlap in validity while the retention sweep runs.
CONSTANTS
    Requests = {r1, r2, r3}
    Lists = {l1}
    Issuers = {i1}
    TokenExps = {2}
    Retention = 1
    BatchSize = 1
    MaxTime = 4
    MaxSkew = 0
    None = None
SPECIFICATION Spec
SYMMETRY RequestSymmetry
INVARIANTS
    SnapshotPerVersion
    HistoricalAnswerIsCurrent
PROPERTIES
    HistorySettles
