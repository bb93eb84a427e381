\* Both watchers, native and polling; three changes of the files, a failing reload.
CONSTANTS
    Targets = {"token_signing_key", "database"}
    Requests = {"q1", "q2"}
    Bodies = {1, 2, 3}
    MaxWrites = 3
    MaxFaults = 1
    Bad = 0
SPECIFICATION FairSpec
INVARIANTS
    ActiveMatches
    NoUseAfterClose
PROPERTIES
    Follows
    OldPoolsClose
CHECK_DEADLOCK FALSE
