\* Jobs and two admins who correct and rescore, two at a time on one game, failing
\* scoring, every move of the API.
CONSTANTS
    Users = {"ann"}
    Nobody = Nobody
    Games = {1}
    Prediction <- OnePick
    ScoreJobs = {"score"}
    SyncJobs = {"sync"}
    Admins = {"admin1", "admin2"}
    Corrections = {"away", "tie"}
    Rescoring = TRUE
    FeedMoves <- Revised
    ScoringFaults = TRUE
    MaxActive = 2
    MaxAborts = 0
SPECIFICATION Spec
INVARIANTS TypeOK PointsAreCounted
PROPERTIES GradesStay
