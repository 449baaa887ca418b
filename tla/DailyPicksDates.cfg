\* A client that looks at another day than the UTC one.
CONSTANTS
    Users = {"ann"}
    Games = {"early", "late"}
    Teams = {"home", "away"}
    Requests = {"r1"}
    MaxPicks = 1
    Batches <- OncePerGame
    AnyDate = TRUE
    Forcing = FALSE
    Scheduled <- TwoDays
    Kickoff <- TwoDays
    Opening = 0
    Closing = 2
    DayLength = 2
    Grace = 1
    MaxTime = 3
    MaxCopies = 2
SPECIFICATION Spec
INVARIANTS OnePickPerGame
