\* Two overlapping requests, of the kinds that meet; a behaviour ends with the clock.
CONSTANTS
    Requests = {"r1", "r2"}
    Jtis = 3
    Threshold = 2
    LockTime = 1
    AccessLife = 1
    RefreshLife = 2
    Grace = 2
    Slack = 1
    Mixes <- Everyday
    AdminStatuses = {"active", "banned"}
    MaxFails = 3
    MaxTime = 5
SPECIFICATION FairSpec
INVARIANTS LockedAtThreshold AccessRunsOut
PROPERTIES SpentTokensAreRefused RevokedTokensAreRefused DueDeletionsHappen
CHECK_DEADLOCK FALSE
