\* One reader moves between two replicas while two writers change the list within a second.
CONSTANTS
    Replicas = {p1, p2}
    Writers = {w1, w2}
    Clients = {c1}
    Contents = {a, b}
    ClockValues = {1}
    TTL = 1
    MaxLatency = 1
    None = None
SPECIFICATION FairSpec
INVARIANTS
    BoundedStaleness
    NotModifiedIsTrue
PROPERTY Convergence
