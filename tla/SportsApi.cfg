\* The sync job and an admin's sync of one competition over two APIs.
CONSTANTS
    N = 2
    Calls = {"sync", "admin"}
    Kinds <- Callers
    Conditions = {"up", "down", "limited"}
    Threshold = 2
    Timeout = 1
    Lifetime = 1
    CacheFaults = TRUE
    Resetting = TRUE
SPECIFICATION FairSpec
INVARIANTS ClosedBelowThreshold
PROPERTIES NoNeedlessError FirstRecovers
