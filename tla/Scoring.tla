------------------------------- MODULE Scoring -------------------------------
(***************************************************************************)
(* How a game's result reaches the picks and the leaderboard.              *)
(*                                                                         *)
(* Four kinds of database session change the same three tables:            *)
(*   - update_game_scores, the score job     (services/background_jobs.py) *)
(*   - sync_games_from_api, the sync job     (services/sync_service.py)    *)
(*   - POST /games/{id}/correct-score        (api/admin.py)                *)
(*   - POST /games/{id}/rescore              (api/admin.py)                *)
(* and each of them calls score_picks_for_game (services/score_service.py) *)
(* inside its own transaction.  They run concurrently (the event loop      *)
(* switches at every await; the jobs may also live in a process of their   *)
(* own) against PostgreSQL at READ COMMITTED.                              *)
(*                                                                         *)
(* A session is modelled as SQLAlchemy runs it: it loads rows into memory, *)
(* changes attributes there, and flushes the columns that changed just     *)
(* before its next query.  A flushed row is locked, and invisible to the   *)
(* others, until the session commits or rolls back.                        *)
(***************************************************************************)
EXTENDS Naturals, FiniteSets

CONSTANTS
    Users,         \* participants of the competition
    Nobody,        \* stands for "no game", "no user" (None in Python)
    Games,         \* its games, numbered in the order their picks were created
    Prediction,    \* [Pick rows -> Teams]: the picks, all made before the games
    ScoreJobs,     \* sessions that run update_game_scores
    SyncJobs,      \* sessions that run sync_games_from_api
    Admins,        \* sessions of global admins
    Corrections,   \* outcomes an admin may enter (a subset of Outcomes)
    Rescoring,     \* whether admins use the rescore endpoint
    FeedMoves,     \* pairs of reports: how the sports API may change its mind
    ScoringFaults, \* whether score_picks_for_game may raise by itself
    MaxActive,     \* bound: sessions that are open at the same time
    MaxAborts      \* bound: transactions lost to a database error or a crash

Teams == {"home", "away"}
Outcomes == Teams \cup {"tie"}
None == "none"

\* What the API says of a game: not over, or over with a winner, with equal
\* scores, or with a score missing.
Reports == Outcomes \cup {"live", "missing"}

Sessions == ScoreJobs \cup SyncJobs \cup Admins
Picks == DOMAIN Prediction                 \* a pick row is named <<user, game>>

ASSUME GamesAssumption == Games \subseteq Nat /\ IsFiniteSet(Games)
ASSUME UsersAssumption == IsFiniteSet(Users)
ASSUME NobodyAssumption == Nobody \notin Games /\ Nobody \notin Users
ASSUME PredictionAssumption ==
    /\ Prediction \in [Picks -> Teams]
    /\ Picks \subseteq Users \X Games
ASSUME SessionsAssumption ==
    /\ ScoreJobs \cap SyncJobs = {}
    /\ ScoreJobs \cap Admins = {}
    /\ SyncJobs \cap Admins = {}
ASSUME EnvironmentAssumption ==
    /\ Corrections \subseteq Outcomes
    /\ Rescoring \in BOOLEAN
    /\ FeedMoves \subseteq Reports \X Reports
    /\ ScoringFaults \in BOOLEAN
    /\ MaxActive \in Nat
    /\ MaxAborts \in Nat

PicksOf(u) == {p \in Picks : p[1] = u}
PicksOn(g) == {p \in Picks : p[2] = g}
UsersOn(g) == {u \in Users : <<u, g>> \in Picks}

(***************************************************************************)
(* Rows.  "open" stands for SCHEDULED and IN_PROGRESS, which every query   *)
(* here treats alike.  The void statuses are never reported by the three   *)
(* API clients.  is_correct is "null", "right" or "wrong".                 *)
(***************************************************************************)
GameRow == [status : {"open", "final"}, winner : Teams \cup {None},
            scored : BOOLEAN, corrections : Nat]
PickRow == [correct : {"null", "right", "wrong"}, points : {0, 1}]
StatsRow == [points : Nat, wins : Nat, losses : Nat, streak : Nat]

NewGame == [status |-> "open", winner |-> None, scored |-> FALSE, corrections |-> 0]
NewPick == [correct |-> "null", points |-> 0]
NoStats == [points |-> 0, wins |-> 0, losses |-> 0, streak |-> 0]

VARIABLES
    games,     \* committed games
    picks,     \* committed picks
    stats,     \* committed aggregate columns of the participants
    feed,      \* what the sports API answers now
    sess,      \* the sessions: ORM memory and uncommitted writes
    aborts     \* transactions lost so far (bounded by MaxAborts)

vars == <<games, picks, stats, feed, sess, aborts>>

(***************************************************************************)
(* A session.  For every row it holds the value it loaded or last flushed  *)
(* (Base), the value in memory (Mem) and the uncommitted version it wrote  *)
(* (Ver, meaningful for the locked rows).                                  *)
(***************************************************************************)
PCs == {"idle", "fetch", "loop", "select", "recalc", "store", "commit"}

Session ==
    [pc : PCs,
     todo : SUBSET Games,              \* games still to be processed
     report : [Games -> Reports],      \* the API's answer, as fetched
     cur : Games \cup {Nobody},          \* game being scored
     dirty : SUBSET Games,             \* game rows changed since the last flush
     gBase : [Games -> GameRow], gMem : [Games -> GameRow], gVer : [Games -> GameRow],
     pBase : [Picks -> PickRow], pMem : [Picks -> PickRow], pVer : [Picks -> PickRow],
     sVer : [Users -> StatsRow],
     lockedGames : SUBSET Games, lockedPicks : SUBSET Picks, lockedUsers : SUBSET Users,
     users : SUBSET Users,             \* participants still to be recalculated
     stat : StatsRow,                  \* aggregates computed, not yet written
     who : Users \cup {Nobody}]          \* ... and whose they are

Idle ==
    [pc |-> "idle", todo |-> {}, report |-> [g \in Games |-> "live"],
     cur |-> Nobody, dirty |-> {},
     gBase |-> [g \in Games |-> NewGame], gMem |-> [g \in Games |-> NewGame],
     gVer |-> [g \in Games |-> NewGame],
     pBase |-> [p \in Picks |-> NewPick], pMem |-> [p \in Picks |-> NewPick],
     pVer |-> [p \in Picks |-> NewPick],
     sVer |-> [u \in Users |-> NoStats],
     lockedGames |-> {}, lockedPicks |-> {}, lockedUsers |-> {},
     users |-> {}, stat |-> NoStats, who |-> Nobody]

Active == {s \in Sessions : sess[s].pc # "idle"}
MayOpen(s) == sess[s].pc = "idle" /\ Cardinality(Active) < MaxActive

TypeOK ==
    /\ games \in [Games -> GameRow]
    /\ picks \in [Picks -> PickRow]
    /\ stats \in [Users -> StatsRow]
    /\ feed \in [Games -> Reports]
    /\ sess \in [Sessions -> Session]
    /\ aborts \in Nat

Init ==
    /\ games = [g \in Games |-> NewGame]
    /\ picks = [p \in Picks |-> NewPick]
    /\ stats = [u \in Users |-> NoStats]
    /\ feed = [g \in Games |-> "live"]
    /\ sess = [s \in Sessions |-> Idle]
    /\ aborts = 0

-----------------------------------------------------------------------------
(* The unit of work: what a flush writes, what a query sees, row locks. *)

\* An UPDATE sets only the columns whose attribute changed in memory.
PickUpdate(row, base, mem) ==
    [correct |-> IF mem.correct = base.correct THEN row.correct ELSE mem.correct,
     points  |-> IF mem.points = base.points THEN row.points ELSE mem.points]

GameUpdate(row, base, mem) ==
    [status      |-> IF mem.status = base.status THEN row.status ELSE mem.status,
     winner      |-> IF mem.winner = base.winner THEN row.winner ELSE mem.winner,
     scored      |-> IF mem.scored = base.scored THEN row.scored ELSE mem.scored,
     corrections |-> IF mem.corrections = base.corrections
                     THEN row.corrections ELSE mem.corrections]

DirtyPicks(x) == {p \in Picks : x.pMem[p] # x.pBase[p]}

\* What session x sees of a row: its own version, or the committed one.
GameView(x, g) == IF g \in x.lockedGames THEN x.gVer[g] ELSE games[g]
PickView(x, p) == IF p \in x.lockedPicks THEN x.pVer[p] ELSE picks[p]

Others(s) == Sessions \ {s}
GameBlockers(s, G) == {t \in Others(s) : sess[t].lockedGames \cap G # {}}
PickBlockers(s, P) == {t \in Others(s) : sess[t].lockedPicks \cap P # {}}
UserBlockers(s, U) == {t \in Others(s) : sess[t].lockedUsers \cap U # {}}

\* Who holds the rows that the next flush of s has to update.
FlushBlockers(s) ==
    GameBlockers(s, sess[s].dirty) \cup PickBlockers(s, DirtyPicks(sess[s]))

\* Autoflush: the changed rows become s's own versions, locked until its end.
Flushed(x) ==
    [x EXCEPT
       !.gVer = [g \in Games |-> IF g \in x.dirty
                                 THEN GameUpdate(GameView(x, g), x.gBase[g], x.gMem[g])
                                 ELSE x.gVer[g]],
       !.gBase = [g \in Games |-> IF g \in x.dirty THEN x.gMem[g] ELSE x.gBase[g]],
       !.pVer = [p \in Picks |-> IF p \in DirtyPicks(x)
                                 THEN PickUpdate(PickView(x, p), x.pBase[p], x.pMem[p])
                                 ELSE x.pVer[p]],
       !.pBase = x.pMem,
       !.lockedGames = x.lockedGames \cup x.dirty,
       !.lockedPicks = x.lockedPicks \cup DirtyPicks(x),
       !.dirty = {}]

Loaded(x, g) == [x EXCEPT !.gBase[g] = GameView(x, g), !.gMem[g] = GameView(x, g)]

\* The session changes game g in memory and is done with its report.
Edited(x, g, row) ==
    [x EXCEPT !.gMem[g] = row, !.dirty = @ \cup {g}, !.todo = @ \ {g}]

\* The step of session s that leaves every committed row alone.
Step(s, x) ==
    /\ sess' = [sess EXCEPT ![s] = x]
    /\ UNCHANGED <<games, picks, stats, feed, aborts>>

-----------------------------------------------------------------------------
(* score_picks_for_game and recalculate_participant_stats *)

\* Mutants: a game without a winner makes its picks undecided again; the same,
\* forgetting the points.
GradedResetting(winner, p, row) ==
    IF winner = None THEN NewPick
    ELSE IF Prediction[p] = winner THEN [correct |-> "right", points |-> 1]
    ELSE [correct |-> "wrong", points |-> 0]

GradedKeepingPoints(winner, p, row) ==
    IF winner = None THEN [row EXCEPT !.correct = "null"]
    ELSE IF Prediction[p] = winner THEN [correct |-> "right", points |-> 1]
    ELSE [correct |-> "wrong", points |-> 0]

\* Mutant: only the correct picks are graded.
GradedWinners(winner, p, row) ==
    IF winner = None THEN [row EXCEPT !.points = 0]
    ELSE IF Prediction[p] = winner THEN [correct |-> "right", points |-> 1]
    ELSE row

\* One pick against the winner in memory.  Without a winner the points are
\* zeroed and is_correct is left as it was.
Graded(winner, p, row) ==
    IF winner = None THEN [row EXCEPT !.points = 0]
    ELSE IF Prediction[p] = winner THEN [correct |-> "right", points |-> 1]
    ELSE [correct |-> "wrong", points |-> 0]

\* The aggregate columns over the rows R of a user's scored picks.  The
\* streak counts the correct picks made after the last incorrect one.
Aggregate(P, R) ==
    LET right == {p \in P : R[p].correct = "right"}
        wrong == {p \in P : R[p].correct = "wrong"}
    IN [points |-> Cardinality({p \in P : R[p].points = 1}),
        wins   |-> Cardinality(right),
        losses |-> Cardinality(wrong),
        streak |-> Cardinality({p \in right : \A q \in wrong : q[2] < p[2]})]

\* Mutant: the aggregates are computed from the committed picks.
RecalculatedFromCommitted(x, u) ==
    Aggregate({p \in PicksOf(u) : picks[p].correct # "null"}, picks)

\* The query filters on the database's is_correct; a pick of the game being
\* scored is already in the session, which keeps its attributes from memory.
RecalculatedStats(x, u) ==
    Aggregate({p \in PicksOf(u) : PickView(x, p).correct # "null"},
              [p \in Picks |-> IF p[2] = x.cur THEN x.pMem[p] ELSE PickView(x, p)])

\* A job goes on with its next game.
NextGame(x) == [x EXCEPT !.cur = Nobody, !.pc = IF x.todo = {} THEN "commit" ELSE "loop"]

\* scoring_completed = True, in memory.
Marked(x) == Edited(x, x.cur, [x.gMem[x.cur] EXCEPT !.scored = TRUE])

\* The caller goes on after the scoring of its current game: the score job
\* marks the game, the admin handlers commit.
Scored(s, x) ==
    IF s \in ScoreJobs THEN NextGame(Marked(x))
    ELSE IF s \in SyncJobs THEN NextGame(x)
    ELSE [x EXCEPT !.pc = "commit"]

\* SELECT the picks of the game and grade them in memory.
SelectPicks(s) ==
    /\ sess[s].pc = "select"
    /\ FlushBlockers(s) = {}
    /\ LET x == Flushed(sess[s])
           loaded == [p \in Picks |-> IF p[2] = x.cur THEN PickView(x, p) ELSE x.pBase[p]]
           graded == [p \in Picks |-> IF p[2] = x.cur
                                      THEN Graded(x.gMem[x.cur].winner, p, loaded[p])
                                      ELSE x.pMem[p]]
       IN IF PicksOn(x.cur) = {}
          THEN Step(s, Scored(s, x))
          ELSE Step(s, [x EXCEPT !.pBase = loaded, !.pMem = graded,
                                 !.users = UsersOn(x.cur), !.pc = "recalc"])

\* Flush the graded picks, then read the scored picks of one participant.
SelectScoredPicks(s) ==
    /\ sess[s].pc = "recalc"
    /\ FlushBlockers(s) = {}
    /\ \E u \in sess[s].users :
         LET x == Flushed(sess[s])
         IN Step(s, [x EXCEPT !.stat = RecalculatedStats(x, u), !.who = u,
                              !.users = @ \ {u}, !.pc = "store"])

\* UPDATE that participant's aggregates.
UpdateParticipant(s) ==
    /\ sess[s].pc = "store"
    /\ UserBlockers(s, {sess[s].who}) = {}
    /\ LET x == [sess[s] EXCEPT !.sVer[sess[s].who] = sess[s].stat,
                                !.lockedUsers = @ \cup {sess[s].who},
                                !.stat = NoStats, !.who = Nobody]
       IN IF x.users = {}
          THEN Step(s, Scored(s, x))
          ELSE Step(s, [x EXCEPT !.pc = "recalc"])

-----------------------------------------------------------------------------
(* The jobs *)

\* update_game_scores picks up the games that are not over.
JobSelect(s) ==
    LET open == {g \in Games : games[g].status = "open"}
    IN /\ s \in ScoreJobs /\ MayOpen(s)
       /\ open # {}
       /\ Step(s, [Idle EXCEPT !.pc = "fetch", !.todo = open,
                     !.gBase = [g \in Games |-> IF g \in open THEN games[g] ELSE NewGame],
                     !.gMem  = [g \in Games |-> IF g \in open THEN games[g] ELSE NewGame]])

\* The API answers, about some of the games or (failing) about none.
Fetched(x, listed) ==
    [x EXCEPT !.todo = listed, !.pc = IF listed = {} THEN "commit" ELSE "loop",
              !.report = [g \in Games |-> IF g \in listed THEN feed[g] ELSE "live"]]

JobFetch(s, listed) ==
    /\ s \in ScoreJobs /\ sess[s].pc = "fetch"
    /\ listed \subseteq sess[s].todo
    /\ Step(s, Fetched(sess[s], listed))

StatusOf(report) == IF report = "live" THEN "open" ELSE "final"

\* Mutant: equal scores are stored as the winner.
JobWinnerOfDraw(old, report) == IF report = "live" THEN old ELSE report

\* winner_team_id as the score job sets it: final without a winner clears it.
JobWinner(old, report) ==
    IF report = "live" THEN old ELSE IF report \in Teams THEN report ELSE None

JobReport(row, report) ==
    [row EXCEPT !.status = StatusOf(report), !.winner = JobWinner(row.winner, report)]

\* Apply one report in memory; score the game if it is final and not marked.
JobApply(s) ==
    /\ s \in ScoreJobs /\ sess[s].pc = "loop"
    /\ \E g \in sess[s].todo :
         /\ \A h \in sess[s].todo : g <= h
         /\ LET r == sess[s].report[g]
                x == Edited(sess[s], g, JobReport(sess[s].gMem[g], r))
            IN IF r # "live" /\ ~x.gMem[g].scored
               THEN Step(s, [x EXCEPT !.cur = g, !.pc = "select"])
               ELSE Step(s, NextGame(x))

\* sync_games_from_api fetches the schedule before it reads any game.
SyncFetch(s, listed) ==
    /\ s \in SyncJobs /\ MayOpen(s)
    /\ listed # {}
    /\ Step(s, Fetched(Idle, listed))

\* winner_team_id as the sync job sets it: a missing score leaves the old one.
SyncWinner(old, report) ==
    IF report \in Teams THEN report ELSE IF report = "tie" THEN None ELSE old

SyncReport(row, report) ==
    [row EXCEPT !.status = StatusOf(report), !.winner = SyncWinner(row.winner, report)]

\* Mutant: scoring is left to somebody else.
BecomesFinalNever(row, report) == FALSE

\* The game was not final before this report.
BecomesFinal(row, report) == report # "live" /\ row.status = "open"

\* _sync_game_for_competition: read the game, apply the report, score the
\* game only if it was not final before.
SyncGame(s) ==
    /\ s \in SyncJobs /\ sess[s].pc = "loop"
    /\ FlushBlockers(s) = {}
    /\ \E g \in sess[s].todo :
         LET r == sess[s].report[g]
             old == Loaded(Flushed(sess[s]), g)
             x == Edited(old, g, SyncReport(old.gMem[g], r))
         IN IF BecomesFinal(old.gMem[g], r)
            THEN Step(s, [x EXCEPT !.cur = g, !.pc = "select"])
            ELSE Step(s, NextGame(x))

-----------------------------------------------------------------------------
(* The admin handlers *)

\* Only a final game, and only once.
Correctable(row) == row.status = "final" /\ row.corrections < 1

CorrectedRow(row, outcome) ==
    [row EXCEPT !.winner = IF outcome = "tie" THEN None ELSE outcome,
                !.corrections = row.corrections + 1]

\* correct_game_score: set the winner of the corrected score and rescore.
AdminCorrect(s, g, outcome) ==
    /\ s \in Admins /\ MayOpen(s)
    /\ Correctable(games[g])
    /\ LET x == Edited(Loaded(Idle, g), g, CorrectedRow(games[g], outcome))
       IN Step(s, [x EXCEPT !.cur = g, !.pc = "select"])

\* rescore_game: grade again by the stored winner; the game is not changed.
AdminRescore(s, g) ==
    /\ Rescoring
    /\ s \in Admins /\ MayOpen(s)
    /\ games[g].status = "final"
    /\ Step(s, [Loaded(Idle, g) EXCEPT !.cur = g, !.pc = "select"])

-----------------------------------------------------------------------------
(* The ends of a transaction *)

\* COMMIT: the last flush, then every version written becomes the row.
Commit(s) ==
    /\ sess[s].pc = "commit"
    /\ FlushBlockers(s) = {}
    /\ LET x == Flushed(sess[s])
       IN /\ games' = [g \in Games |-> GameView(x, g)]
          /\ picks' = [p \in Picks |-> PickView(x, p)]
          /\ stats' = [u \in Users |-> IF u \in x.lockedUsers THEN x.sVer[u] ELSE stats[u]]
    /\ sess' = [sess EXCEPT ![s] = Idle]
    /\ UNCHANGED <<feed, aborts>>

\* The sync job's way back from a scoring that raised.
Reverted(row) == [row EXCEPT !.status = "open", !.winner = None]

\* score_picks_for_game raises, after its first query.  The score job goes on
\* with the game final and unmarked, the sync job puts the game back in
\* progress, an admin request fails.  What was flushed and graded so far stays
\* in the session.
ScoringFails(s) ==
    /\ ScoringFaults
    /\ sess[s].pc \in {"select", "recalc", "store"}
    /\ sess[s].pc = "select" => FlushBlockers(s) = {}
    /\ LET x == IF sess[s].pc = "select" THEN Flushed(sess[s]) ELSE sess[s]
           y == NextGame([x EXCEPT !.users = {}, !.stat = NoStats, !.who = Nobody])
       IN \/ s \in ScoreJobs /\ Step(s, y)
          \/ s \in SyncJobs
             /\ Step(s, Edited(y, x.cur, Reverted(x.gMem[x.cur])))
          \/ s \in Admins /\ Step(s, Idle)

\* A database error, or the end of the process: everything is rolled back.
Abort(s) ==
    /\ sess[s].pc # "idle"
    /\ aborts < MaxAborts
    /\ aborts' = aborts + 1
    /\ sess' = [sess EXCEPT ![s] = Idle]
    /\ UNCHANGED <<games, picks, stats, feed>>

\* The sessions that hold a row which the next statement of s must update.
Blockers(s) ==
    CASE sess[s].pc = "store" -> UserBlockers(s, {sess[s].who})
      [] sess[s].pc \in {"select", "recalc", "commit"} -> FlushBlockers(s)
      [] sess[s].pc = "loop" /\ s \in SyncJobs -> FlushBlockers(s)
      [] OTHER -> {}

\* PostgreSQL breaks a cycle of waiting sessions by failing one of them.
DeadlockVictim(s) ==
    /\ \E C \in SUBSET Active : s \in C /\ \A t \in C : Blockers(t) \cap C # {}
    /\ Step(s, Idle)

\* The sports API changes what it says about a game.
FeedReport(g) ==
    \E r \in Reports :
      /\ <<feed[g], r>> \in FeedMoves
      /\ feed' = [feed EXCEPT ![g] = r]
      /\ UNCHANGED <<games, picks, stats, sess, aborts>>

-----------------------------------------------------------------------------
\* A session that is open goes on.
Work(s) ==
    \/ SelectPicks(s) \/ SelectScoredPicks(s) \/ UpdateParticipant(s)
    \/ \E listed \in SUBSET Games : JobFetch(s, listed)
    \/ JobApply(s) \/ SyncGame(s) \/ Commit(s)

Next ==
    \/ \E s \in Sessions :
         \/ Work(s)
         \/ JobSelect(s)
         \/ \E listed \in SUBSET Games : SyncFetch(s, listed)
         \/ \E g \in Games : AdminRescore(s, g)
         \/ \E g \in Games, outcome \in Corrections : AdminCorrect(s, g, outcome)
         \/ ScoringFails(s) \/ Abort(s) \/ DeadlockVictim(s)
    \/ \E g \in Games : FeedReport(g)

Spec == Init /\ [][Next]_vars

\* The scheduler starts both jobs again and again, the API does not fail for
\* ever, row locks are queued, and a deadlock is detected.
Fairness ==
    /\ \A s \in ScoreJobs : WF_vars(JobSelect(s))
    /\ \A s \in SyncJobs : WF_vars(SyncFetch(s, Games))
    /\ \A s \in ScoreJobs : SF_vars(JobFetch(s, sess[s].todo))
    /\ \A s \in Sessions : SF_vars(Work(s)) /\ WF_vars(DeadlockVictim(s))

FairSpec == Spec /\ Fairness

-----------------------------------------------------------------------------
(* Properties *)

\* A pick shows the grade that the stored winner of its game gives it.
AgreesWithWinner(p) ==
    /\ picks[p].correct = IF games[p[2]].winner = Prediction[p] THEN "right" ELSE "wrong"
    /\ picks[p].points = IF games[p[2]].winner = Prediction[p] THEN 1 ELSE 0

\* A game is marked scoring_completed only when each pick on it already
\* carries the grade its winner gives: the score job skips marked games.
MarkedGamesAreGraded ==
    \A p \in Picks :
      games[p[2]].scored /\ games[p[2]].winner # None => AgreesWithWinner(p)

\* A pick worth a point is a correct pick: is_correct and points_earned are
\* separate columns that two sessions can write separately.
PointsOnlyForCorrectPicks ==
    \A p \in Picks : picks[p].points = 1 => picks[p].correct = "right"

\* A pick worth a point has a grade, so that it is among the picks whose
\* points recalculate_participant_stats adds up.
PointsAreCounted ==
    \A p \in Picks : picks[p].points = 1 => picks[p].correct # "null"

\* No step takes the grade of a pick away: a participant's decided picks
\* never become undecided, whatever corrections and retries do.
GradesStay ==
    [][\A p \in Picks : picks[p].correct # "null" => picks'[p].correct # "null"]_vars

\* Once the API names the winner of a game, every pick on it is graded, unless
\* the jobs meet in a deadlock over and over.
DeadlocksEnd == <>[][\A s \in Sessions : ~DeadlockVictim(s)]_vars
PicksGetGraded ==
    DeadlocksEnd => \A p \in Picks : feed[p[2]] \in Teams ~> picks[p].correct # "null"

=============================================================================
