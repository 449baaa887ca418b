\* Every decided game is graded: the two jobs over two games, crossing locks and
\* a lost transaction.
CONSTANTS
    Users = {"ann"}
    Nobody = Nobody
    Games = {1, 2}
    Prediction <- TwoGames
    ScoreJobs = {"score"}
    SyncJobs = {"sync"}
    Admins = {}
    Corrections = {}
    Rescoring = FALSE
    FeedMoves <- FinalOnce
    ScoringFaults = FALSE
    MaxActive = 2
    MaxAborts = 1
SPECIFICATION FairSpec
INVARIANTS MarkedGamesAreGraded
PROPERTIES PicksGetGraded
