\* Three requests of two issuers race on one list, clocks skewed by a second.
CONSTANTS
    Requests = {r1, r2, r3}
    Lists = {l1}
    Issuers = {i1, i2}
    TokenExps = {2}
    Retention = 1
    BatchSize = 1
    MaxTime = 1
    MaxSkew = 1
    None = None
SPECIFICATION Spec
SYMMETRY RequestSymmetry
INVARIANTS
    NoLostUpdate
    RejectedLeavesNoTrace
    ConflictHasWinner
    OwnerOnly
PROPERTY ImplementsRegister
