\* Two competitions, one game today and one tomorrow; two imports at a time.
CONSTANTS
    Comps = {"x", "y"}
    Games = {1, 2}
    Teams = {"a", "b"}
    Known = {"b"}
    Home <- MCHome
    Away <- MCAway
    Day <- MCDay
    Results <- MCResults
    Job = "job"
    Forced = {"forced"}
    Syncs = {"sync"}
    Creations = {"creation"}
    Mixes <- MCMixes
    JobDays = 2
    SyncDays = 2
    MaxActive = 2
    MaxRequests = 2
    MaxFaults = 1
    MaxTeams = 5
SPECIFICATION FairSpec
INVARIANTS TypeOK OneRowPerTeam WinnerPlays
PROPERTIES ResultsSettle
CHECK_DEADLOCK FALSE
