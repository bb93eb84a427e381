\* Lists with entries of 1, 2, 9, 17 and 32 bits, requests with up to two entries.
CONSTANTS
    Indices <- MixedIndices
    Statuses <- MixedStatuses
    MaxIndex = 8
    MaxEntries = 2
SPECIFICATION Spec
INVARIANTS
    StatusesAreRight
    NeverCorrupt
