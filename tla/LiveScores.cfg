\* Two clients for one place, two updates, a Redis and a process that fail.
CONSTANTS
    Clients = {"c1", "c2"}
    MaxClients = 1
    MaxUpdates = 2
SPECIFICATION FairSpec
INVARIANTS OvershootIsBounded InOrderAndOnce SkipsAreBounded
PROPERTIES LeaversAreForgotten UpdatesKeepFlowing
