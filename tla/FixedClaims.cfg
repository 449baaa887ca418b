\* Overlapping submissions of two users, or of one, over three teams.
CONSTANTS
    Users = {"ann", "bob"}
    Nobody = Nobody
    Teams = {"t1", "t2", "t3"}
    NoTeam = NoTeam
    Batches <- Crossing
    Requests = {"r1", "r2"}
    MaxTeams = 2
    Starts = {1, 2}
    MaxTime = 1
SPECIFICATION FairSpec
INVARIANTS TypeOK LimitHolds
PROPERTIES ImplementsClaims EverySubmissionEnds
