\* Both jobs and an admin who corrects, two of them at a time, on two games of one
\* participant; the API revises its results.
CONSTANTS
    Users = {"ann"}
    Nobody = Nobody
    Games = {1, 2}
    Prediction <- TwoGames
    ScoreJobs = {"score"}
    SyncJobs = {"sync"}
    Admins = {"admin"}
    Corrections = {"tie"}
    Rescoring = FALSE
    FeedMoves <- TieThenHome
    ScoringFaults = FALSE
    MaxActive = 2
    MaxAborts = 0
SPECIFICATION HistorySpec
INVARIANTS StatsMatchPicks 
