\* Any date, batches that name a game twice, removal, the lock and status jobs.
CONSTANTS
    Users = {"ann"}
    Games = {"early"}
    Teams = {"home", "away"}
    Requests = {"r1"}
    MaxPicks = 2
    Batches <- Repeating
    AnyDate = TRUE
    Forcing = FALSE
    Scheduled <- TwoDays
    Kickoff <- TwoDays
    Opening = 0
    Closing = 1
    DayLength = 2
    Grace = 1
    MaxTime = 2
    MaxCopies = 3
SPECIFICATION FairSpec
INVARIANTS TypeOK
PROPERTIES ChangesStopAtStart  PicksOfParticipantsOnly StartedPicksGetLocked
