\* Overlapping submissions of one user across the start of games and midnight.
CONSTANTS
    Users = {"ann"}
    Games = {"early", "late", "next"}
    Teams = {"home", "away"}
    Requests = {"r1", "r2"}
    MaxPicks = 2
    Batches <- FewBatches
    AnyDate = FALSE
    Forcing = TRUE
    Scheduled <- TwoDays
    Kickoff <- NotPlayed
    Opening = 9
    Closing = 2
    DayLength = 2
    Grace = 1
    MaxTime = 3
    MaxCopies = 2
SPECIFICATION Spec
INVARIANTS LimitPerDay OnePickPerGameAndDay
PROPERTIES StoredAsSubmitted
