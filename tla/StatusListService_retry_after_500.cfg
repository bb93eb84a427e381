\* A 500 whose COMMIT took effect.
CONSTANTS
    Requests = {r1, r2}
    Lists = {l1}
    Issuers = {i1}
    TokenExps = {1}
    Retention = 1
    BatchSize = 1
    MaxTime = 1
    MaxSkew = 0
    None = None
SPECIFICATION Spec
INVARIANT InternalErrorMeansUnchanged
