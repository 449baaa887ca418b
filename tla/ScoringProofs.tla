---------------------------- MODULE ScoringProofs ----------------------------
(***************************************************************************)
(* Theorems about Scoring, for every set of users, games, picks and        *)
(* sessions: type correctness; corrections, retries and races never take   *)
(* a grade away or leave a point without a grade; without the rescoring    *)
(* of an admin points are only for correct picks; the statistics of a      *)
(* participant agree with the picks from the last recalculation that met   *)
(* with no other one (ScoringHistory); and a game is marked as scored only *)
(* with its picks graded when the API names its result once.               *)
(***************************************************************************)
EXTENDS ScoringHistory, FiniteSetTheorems, TLAPS

HasGrade(row) == row.correct # "null"

(***************************************************************************)
(* The inductive invariant.  A session's memory never has a null where it  *)
(* loaded a grade (GradeKept); what it loaded as graded is still graded in *)
(* the database it sees (BaseSeen); its own version of a row it locked is  *)
(* graded whenever the committed row is (VersionKept).  The last one holds *)
(* only because nobody else can write a locked row (PickLocksExclusive).   *)
(***************************************************************************)
ProgramOK(x) ==
    /\ x.pc \in {"select", "recalc", "store"} => x.cur \in Games
    /\ x.pc = "store" => x.who \in Users

GradeKept(x) == \A p \in Picks : HasGrade(x.pBase[p]) => HasGrade(x.pMem[p])
PointsKept(x) == \A p \in Picks : x.pMem[p].points = 1 => HasGrade(x.pMem[p])
BaseSeen(x) == \A p \in Picks : HasGrade(x.pBase[p]) => HasGrade(PickView(x, p))
VersionKept(x) ==
    \A p \in x.lockedPicks :
      /\ HasGrade(picks[p]) => HasGrade(x.pVer[p])
      /\ x.pVer[p].points = 1 => HasGrade(x.pVer[p])

PicksOK(x) == GradeKept(x) /\ PointsKept(x) /\ BaseSeen(x) /\ VersionKept(x)

PickLocksExclusive ==
    \A s, t \in Sessions : s # t => sess[s].lockedPicks \cap sess[t].lockedPicks = {}

IInv ==
    /\ TypeOK
    /\ PickLocksExclusive
    /\ PointsAreCounted
    /\ \A s \in Sessions : ProgramOK(sess[s]) /\ PicksOK(sess[s])

-----------------------------------------------------------------------------
(* Facts about the operators *)

\* A pick row names one of the users and one of the games.
LEMMA PickRows == ASSUME NEW p \in Picks PROVE p[1] \in Users /\ p[2] \in Games
  BY PredictionAssumption

\* The aggregates of any finite set of picks are natural numbers.
LEMMA AggregateType ==
  ASSUME NEW P \in SUBSET Picks, NEW R
  PROVE  Aggregate(P, R) \in StatsRow
  <1>1. IsFiniteSet(Picks)
    BY FS_Product, FS_Subset, UsersAssumption, GamesAssumption, PredictionAssumption
  <1>2. \A Q : Q \subseteq P => Cardinality(Q) \in Nat
    BY <1>1, FS_Subset, FS_CardinalityType
  <1> DEFINE right == {p \in P : R[p].correct = "right"}
             wrong == {p \in P : R[p].correct = "wrong"}
             one == {p \in P : R[p].points = 1}
             run == {p \in right : \A q \in wrong : q[2] < p[2]}
  <1>3. Cardinality(right) \in Nat /\ Cardinality(wrong) \in Nat
        /\ Cardinality(one) \in Nat /\ Cardinality(run) \in Nat
    <2>1. right \subseteq P /\ wrong \subseteq P /\ one \subseteq P /\ run \subseteq P
      OBVIOUS
    <2> QED BY <2>1, <1>2
  <1> HIDE DEF right, wrong, one, run
  <1>4. [points |-> Cardinality(one), wins |-> Cardinality(right),
         losses |-> Cardinality(wrong), streak |-> Cardinality(run)] \in StatsRow
    BY <1>3 DEF StatsRow
  <1> QED BY <1>4 DEF Aggregate, right, wrong, one, run

\* An UPDATE of the changed columns keeps a row a row.
LEMMA UpdateType ==
  /\ \A row, base, mem \in PickRow : PickUpdate(row, base, mem) \in PickRow
  /\ \A row, base, mem \in GameRow : GameUpdate(row, base, mem) \in GameRow
  BY DEF PickUpdate, GameUpdate, PickRow, GameRow

\* Setting a column to a value of its type keeps a game a game.
LEMMA GameRowEdits ==
  \A row \in GameRow :
    /\ [row EXCEPT !.scored = TRUE] \in GameRow
    /\ \A st \in {"open", "final"} : [row EXCEPT !.status = st] \in GameRow
    /\ \A w \in Teams \cup {None} : [row EXCEPT !.winner = w] \in GameRow
    /\ \A n \in Nat : [row EXCEPT !.corrections = n] \in GameRow
  BY DEF GameRow

LEMMA ReportType ==
  \A row \in GameRow, r \in Reports :
    JobReport(row, r) \in GameRow /\ SyncReport(row, r) \in GameRow
  BY DEF GameRow, Reports, JobReport, SyncReport, StatusOf, JobWinner, SyncWinner

LEMMA AdminRowType ==
  \A row \in GameRow :
    /\ Reverted(row) \in GameRow
    /\ \A outcome \in Outcomes : CorrectedRow(row, outcome) \in GameRow
  <1>1. ASSUME NEW row \in GameRow, NEW w \in Teams \cup {None}, NEW n \in Nat
        PROVE  [row EXCEPT !.winner = w, !.corrections = n] \in GameRow
    BY DEF GameRow
  <1>2. ASSUME NEW row \in GameRow
        PROVE  Reverted(row) \in GameRow /\ row.corrections + 1 \in Nat
    <2>1. [row EXCEPT !.status = "open"] \in GameRow
      BY DEF GameRow
    <2>2. [[row EXCEPT !.status = "open"] EXCEPT !.winner = None] \in GameRow
      BY <2>1, GameRowEdits
    <2> QED BY <2>2 DEF Reverted, GameRow
  <1>3. ASSUME NEW outcome \in Outcomes
        PROVE  (IF outcome = "tie" THEN None ELSE outcome) \in Teams \cup {None}
    BY DEF Outcomes
  <1> QED BY <1>1, <1>2, <1>3 DEF CorrectedRow

LEMMA NewRows == NewGame \in GameRow /\ NewPick \in PickRow /\ NoStats \in StatsRow
  BY DEF NewGame, NewPick, NoStats, GameRow, PickRow, StatsRow, None

LEMMA IdleType == Idle \in Session
  BY NewRows DEF Idle, Session, PCs, Reports, Outcomes

\* Grading yields a row, never takes a grade away, and gives points with a grade.
LEMMA GradedRow ==
  ASSUME NEW winner, NEW p, NEW row \in PickRow
  PROVE  /\ Graded(winner, p, row) \in PickRow
         /\ HasGrade(row) => HasGrade(Graded(winner, p, row))
         /\ Graded(winner, p, row).points = 1 => HasGrade(Graded(winner, p, row))
  BY DEF Graded, PickRow, HasGrade

\* What a session sees is a row.
LEMMA ViewType ==
  ASSUME TypeOK, NEW x \in Session
  PROVE  /\ \A g \in Games : GameView(x, g) \in GameRow
         /\ \A p \in Picks : PickView(x, p) \in PickRow
  BY DEF TypeOK, Session, GameView, PickView

-----------------------------------------------------------------------------
(* The flush *)

LEMMA FlushedType ==
  ASSUME TypeOK, NEW x \in Session
  PROVE  Flushed(x) \in Session
  <1>1. \A g \in Games :
          /\ GameUpdate(GameView(x, g), x.gBase[g], x.gMem[g]) \in GameRow
          /\ x.gVer[g] \in GameRow /\ x.gMem[g] \in GameRow /\ x.gBase[g] \in GameRow
    BY ViewType, UpdateType DEF Session
  <1>2. \A p \in Picks :
          /\ PickUpdate(PickView(x, p), x.pBase[p], x.pMem[p]) \in PickRow
          /\ x.pVer[p] \in PickRow
    BY ViewType, UpdateType DEF Session
  <1>3. DirtyPicks(x) \subseteq Picks
    BY DEF DirtyPicks
  <1> QED BY <1>1, <1>2, <1>3 DEF Flushed, Session

\* What a flush leaves alone.
LEMMA FlushedKeeps ==
  ASSUME NEW x \in Session
  PROVE  /\ Flushed(x).pc = x.pc /\ Flushed(x).cur = x.cur /\ Flushed(x).who = x.who
         /\ Flushed(x).todo = x.todo /\ Flushed(x).users = x.users
         /\ Flushed(x).pMem = x.pMem /\ Flushed(x).pBase = x.pMem
         /\ Flushed(x).lockedPicks = x.lockedPicks \cup DirtyPicks(x)
  BY DEF Flushed, Session

\* A flush never takes a grade away from the row the session sees, writes
\* points with a grade only, and shows the session its own memory's grades.
LEMMA FlushedPicks ==
  ASSUME TypeOK, PointsAreCounted, NEW x \in Session, PicksOK(x)
  PROVE  /\ PicksOK(Flushed(x))
         /\ \A p \in Picks : HasGrade(PickView(x, p)) => HasGrade(PickView(Flushed(x), p))
         /\ \A p \in Picks : HasGrade(picks[p]) => HasGrade(PickView(Flushed(x), p))
         /\ \A p \in Picks : PickView(Flushed(x), p).points = 1
                               => HasGrade(PickView(Flushed(x), p))
  <1> DEFINE y == Flushed(x)
  <1>1. /\ y.pMem = x.pMem /\ y.pBase = x.pMem
        /\ y.lockedPicks = x.lockedPicks \cup DirtyPicks(x)
    BY FlushedKeeps
  <1>2. \A p \in Picks :
          y.pVer[p] = IF p \in DirtyPicks(x)
                      THEN PickUpdate(PickView(x, p), x.pBase[p], x.pMem[p]) ELSE x.pVer[p]
    BY DEF Flushed, Session
  <1>3. ASSUME NEW p \in Picks
        PROVE  /\ HasGrade(picks[p]) => HasGrade(PickView(x, p))
               /\ PickView(x, p).points = 1 => HasGrade(PickView(x, p))
    BY <1>3 DEF PicksOK, VersionKept, PickView, PointsAreCounted, HasGrade
  <1>4. ASSUME NEW p \in DirtyPicks(x)
        PROVE  /\ PickView(y, p) = PickUpdate(PickView(x, p), x.pBase[p], x.pMem[p])
               /\ y.pVer[p] = PickView(y, p)
    BY <1>1, <1>2 DEF PickView, DirtyPicks
  <1>5. ASSUME NEW p \in Picks, p \notin DirtyPicks(x)
        PROVE  /\ PickView(y, p) = PickView(x, p)
               /\ x.pMem[p] = x.pBase[p]
    BY <1>1, <1>2, <1>5 DEF PickView, DirtyPicks
  <1>6. ASSUME NEW p \in DirtyPicks(x)
        PROVE  /\ HasGrade(PickView(x, p)) => HasGrade(PickView(y, p))
               /\ HasGrade(x.pMem[p]) => HasGrade(PickView(y, p))
               /\ PickView(y, p).points = 1 => HasGrade(PickView(y, p))
    <2>1. p \in Picks
      BY DEF DirtyPicks
    <2>2. /\ HasGrade(x.pBase[p]) => HasGrade(x.pMem[p])
          /\ x.pMem[p].points = 1 => HasGrade(x.pMem[p])
          /\ HasGrade(x.pBase[p]) => HasGrade(PickView(x, p))
      BY <2>1 DEF PicksOK, GradeKept, PointsKept, BaseSeen
    <2> QED BY <1>3, <1>4, <2>1, <2>2 DEF PickUpdate, HasGrade
  <1>7. PicksOK(y)
    <2>1. GradeKept(y) /\ PointsKept(y)
      BY <1>1 DEF PicksOK, GradeKept, PointsKept
    <2>2. BaseSeen(y)
      BY <1>1, <1>5, <1>6 DEF PicksOK, BaseSeen
    <2>3. VersionKept(y)
      <3> SUFFICES ASSUME NEW p \in y.lockedPicks
                   PROVE  /\ HasGrade(picks[p]) => HasGrade(y.pVer[p])
                          /\ y.pVer[p].points = 1 => HasGrade(y.pVer[p])
        BY DEF VersionKept
      <3>1. CASE p \in DirtyPicks(x)
        BY <3>1, <1>3, <1>4, <1>6 DEF DirtyPicks
      <3>2. CASE p \notin DirtyPicks(x)
        <4>1. p \in x.lockedPicks /\ p \in Picks
          BY <3>2, <1>1 DEF Session
        <4>2. y.pVer[p] = x.pVer[p]
          BY <3>2, <4>1, <1>2
        <4> QED BY <4>1, <4>2 DEF PicksOK, VersionKept
      <3> QED BY <3>1, <3>2
    <2> QED BY <2>1, <2>2, <2>3 DEF PicksOK
  <1> QED BY <1>3, <1>5, <1>6, <1>7

-----------------------------------------------------------------------------
(* One step of one session *)

\* Rows that nobody else holds: those a session holds itself, and those of
\* a flush that need not wait.
LEMMA LocksFree ==
  ASSUME IInv, NEW s \in Sessions
  PROVE  /\ PickBlockers(s, sess[s].lockedPicks) = {}
         /\ FlushBlockers(s) = {} => PickBlockers(s, Flushed(sess[s]).lockedPicks) = {}
  <1>1. PickBlockers(s, sess[s].lockedPicks) = {}
    BY DEF IInv, PickLocksExclusive, PickBlockers, Others
  <1>2. Flushed(sess[s]).lockedPicks = sess[s].lockedPicks \cup DirtyPicks(sess[s])
    BY FlushedKeeps DEF IInv, TypeOK
  <1>3. FlushBlockers(s) = {} => PickBlockers(s, DirtyPicks(sess[s])) = {}
    BY DEF FlushBlockers
  <1> QED BY <1>1, <1>2, <1>3 DEF PickBlockers

\* A session whose picks in memory and whose versions are those of x.
LEMMA SamePicks ==
  ASSUME NEW x, NEW y, PicksOK(x),
         y.pBase = x.pBase, y.pMem = x.pMem, y.pVer = x.pVer, y.lockedPicks = x.lockedPicks
  PROVE  PicksOK(y)
  BY DEF PicksOK, GradeKept, PointsKept, BaseSeen, VersionKept, PickView

LEMMA IdleOK == ProgramOK(Idle) /\ PicksOK(Idle)
  BY DEF ProgramOK, PicksOK, GradeKept, PointsKept, BaseSeen, VersionKept, PickView,
         Idle, NewPick, HasGrade

\* A step that changes one session and no row.
LEMMA SessionStep ==
  ASSUME IInv, NEW s \in Sessions, NEW y \in Session, ProgramOK(y), PicksOK(y),
         PickBlockers(s, y.lockedPicks) = {},
         sess' = [sess EXCEPT ![s] = y],
         UNCHANGED <<games, picks, stats, feed>>,
         aborts' \in Nat
  PROVE  IInv'
  <1>1. TypeOK'
    BY DEF IInv, TypeOK
  <1>2. /\ sess'[s] = y
        /\ \A t \in Sessions : t # s => sess'[t] = sess[t]
    BY DEF IInv, TypeOK
  <1>3. PickLocksExclusive'
    <2>1. \A t \in Sessions : t # s => y.lockedPicks \cap sess[t].lockedPicks = {}
      BY DEF PickBlockers, Others
    <2> QED BY <1>2, <2>1 DEF IInv, PickLocksExclusive
  <1>4. PointsAreCounted'
    BY DEF IInv, PointsAreCounted
  <1>5. ASSUME NEW t \in Sessions
        PROVE  ProgramOK(sess[t])' /\ PicksOK(sess[t])'
    <2>1. ProgramOK(sess'[t]) /\ PicksOK(sess'[t])
      BY <1>2 DEF IInv
    <2> QED BY <2>1 DEF ProgramOK, PicksOK, GradeKept, PointsKept, BaseSeen, VersionKept,
                        PickView
  <1> QED BY <1>1, <1>3, <1>4, <1>5 DEF IInv

\* A game row changed in memory, as every caller of the scoring does it.
LEMMA EditedOK ==
  ASSUME NEW x \in Session, NEW g \in Games, NEW row \in GameRow
  PROVE  /\ Edited(x, g, row) \in Session
         /\ PicksOK(x) => PicksOK(Edited(x, g, row))
         /\ Edited(x, g, row).lockedPicks = x.lockedPicks
         /\ Edited(x, g, row).pc = x.pc
  <1>1. [x.gMem EXCEPT ![g] = row] \in [Games -> GameRow]
    BY DEF Session
  <1>2. Edited(x, g, row) \in Session
    BY <1>1 DEF Edited, Session
  <1>3. /\ Edited(x, g, row).pBase = x.pBase /\ Edited(x, g, row).pMem = x.pMem
        /\ Edited(x, g, row).pVer = x.pVer /\ Edited(x, g, row).pc = x.pc
        /\ Edited(x, g, row).lockedPicks = x.lockedPicks
    BY DEF Edited, Session
  <1> QED BY <1>2, <1>3, SamePicks

\* The continuation after a scored game.
LEMMA NextGameOK ==
  ASSUME NEW x \in Session
  PROVE  /\ NextGame(x) \in Session /\ ProgramOK(NextGame(x))
         /\ PicksOK(x) => PicksOK(NextGame(x))
         /\ NextGame(x).lockedPicks = x.lockedPicks
  <1>1. NextGame(x) \in Session
    BY DEF NextGame, Session, PCs
  <1>2. /\ NextGame(x).pc \in {"commit", "loop"}
        /\ NextGame(x).pBase = x.pBase /\ NextGame(x).pMem = x.pMem
        /\ NextGame(x).pVer = x.pVer /\ NextGame(x).lockedPicks = x.lockedPicks
    BY DEF NextGame, Session
  <1> QED BY <1>1, <1>2, SamePicks DEF ProgramOK

LEMMA ScoredOK ==
  ASSUME NEW s, NEW x \in Session, x.cur \in Games
  PROVE  /\ Scored(s, x) \in Session /\ ProgramOK(Scored(s, x))
         /\ PicksOK(x) => PicksOK(Scored(s, x))
         /\ Scored(s, x).lockedPicks = x.lockedPicks
  <1> DEFINE y == [x EXCEPT !.pc = "commit"]
  <1>1. /\ Marked(x) \in Session
        /\ PicksOK(x) => PicksOK(Marked(x))
        /\ Marked(x).lockedPicks = x.lockedPicks
    BY EditedOK, GameRowEdits DEF Marked, Session
  <1>2. /\ y \in Session /\ y.pc = "commit"
        /\ y.pBase = x.pBase /\ y.pMem = x.pMem
        /\ y.pVer = x.pVer /\ y.lockedPicks = x.lockedPicks
    BY DEF Session, PCs
  <1>3. PicksOK(x) => PicksOK(y)
    BY <1>2, SamePicks
  <1>4. ProgramOK(y)
    BY <1>2 DEF ProgramOK
  <1> HIDE DEF y
  <1> QED BY <1>1, <1>2, <1>3, <1>4, NextGameOK DEF Scored, y

-----------------------------------------------------------------------------
(* The actions *)

LEMMA SelectPicksOK ==
  ASSUME IInv, NEW s \in Sessions, SelectPicks(s)
  PROVE  IInv'
  <1> DEFINE x == Flushed(sess[s])
             loaded == [p \in Picks |-> IF p[2] = x.cur THEN PickView(x, p) ELSE x.pBase[p]]
             graded == [p \in Picks |-> IF p[2] = x.cur
                                        THEN Graded(x.gMem[x.cur].winner, p, loaded[p])
                                        ELSE x.pMem[p]]
             y == [x EXCEPT !.pBase = loaded, !.pMem = graded,
                            !.users = UsersOn(x.cur), !.pc = "recalc"]
  <1>1. /\ sess[s] \in Session /\ TypeOK /\ PointsAreCounted
        /\ ProgramOK(sess[s]) /\ PicksOK(sess[s])
    BY DEF IInv, TypeOK
  <1>2. x \in Session /\ PicksOK(x)
    BY <1>1, FlushedType, FlushedPicks
  <1>3. x.cur \in Games /\ PickBlockers(s, x.lockedPicks) = {}
    BY <1>1, FlushedKeeps, LocksFree DEF SelectPicks, ProgramOK
  <1>4. ASSUME NEW p \in Picks
        PROVE  loaded[p] \in PickRow /\ graded[p] \in PickRow
    BY <1>1, <1>2, ViewType, GradedRow DEF Session
  <1> HIDE DEF x
  <1>5. y \in Session
    <2>1. loaded \in [Picks -> PickRow] /\ graded \in [Picks -> PickRow]
      BY <1>4
    <2>2. UsersOn(x.cur) \subseteq Users
      BY DEF UsersOn
    <2> HIDE DEF loaded, graded
    <2> QED BY <1>2, <2>1, <2>2 DEF Session, PCs
  <1>6. /\ y.pBase = loaded /\ y.pMem = graded /\ y.pVer = x.pVer
        /\ y.lockedPicks = x.lockedPicks /\ y.pc = "recalc" /\ y.cur = x.cur
    <2> HIDE DEF loaded, graded
    <2> QED BY <1>2 DEF Session
  <1>7. PicksOK(y)
    <2>1. \A p \in Picks : PickView(y, p) = PickView(x, p)
      BY <1>6 DEF PickView
    <2>2. VersionKept(y)
      BY <1>2, <1>6 DEF PicksOK, VersionKept
    <2>3. ASSUME NEW p \in Picks
          PROVE  /\ HasGrade(loaded[p]) => HasGrade(graded[p])
                 /\ graded[p].points = 1 => HasGrade(graded[p])
                 /\ HasGrade(loaded[p]) => HasGrade(PickView(x, p))
      <3>1. CASE p[2] = x.cur
        <4>1. loaded[p] = PickView(x, p) /\ loaded[p] \in PickRow
          BY <3>1, <1>4
        <4>2. graded[p] = Graded(x.gMem[x.cur].winner, p, loaded[p])
          BY <3>1
        <4> HIDE DEF loaded, graded
        <4> QED BY <4>1, <4>2, GradedRow
      <3>2. CASE p[2] # x.cur
        BY <3>2, <1>2 DEF PicksOK, GradeKept, PointsKept, BaseSeen
      <3> QED BY <3>1, <3>2
    <2> HIDE DEF loaded, graded
    <2> QED BY <1>6, <2>1, <2>2, <2>3 DEF PicksOK, GradeKept, PointsKept, BaseSeen
  <1>8. ProgramOK(y)
    BY <1>6, <1>3 DEF ProgramOK
  <1>9. CASE Step(s, y)
    BY <1>1, <1>3, <1>5, <1>6, <1>7, <1>8, <1>9, SessionStep DEF Step, TypeOK
  <1>10. CASE Step(s, Scored(s, x))
    BY <1>1, <1>2, <1>3, <1>10, ScoredOK, SessionStep DEF Step, TypeOK
  <1> HIDE DEF y
  <1> QED BY <1>9, <1>10 DEF SelectPicks, x, y

LEMMA SelectScoredPicksOK ==
  ASSUME IInv, NEW s \in Sessions, SelectScoredPicks(s)
  PROVE  IInv'
  <1> DEFINE x == Flushed(sess[s])
  <1>1. /\ sess[s] \in Session /\ TypeOK /\ PointsAreCounted
        /\ ProgramOK(sess[s]) /\ PicksOK(sess[s])
    BY DEF IInv, TypeOK
  <1>2. x \in Session /\ PicksOK(x) /\ x.cur \in Games
        /\ x.users = sess[s].users /\ PickBlockers(s, x.lockedPicks) = {}
    BY <1>1, FlushedType, FlushedPicks, FlushedKeeps, LocksFree
       DEF SelectScoredPicks, ProgramOK
  <1> HIDE DEF x
  <1>3. PICK u \in sess[s].users :
          Step(s, [x EXCEPT !.stat = RecalculatedStats(x, u), !.who = u,
                            !.users = @ \ {u}, !.pc = "store"])
    BY DEF SelectScoredPicks, x
  <1>4. u \in Users /\ RecalculatedStats(x, u) \in StatsRow
    BY <1>1, AggregateType DEF Session, RecalculatedStats, PicksOf
  <1> DEFINE y == [x EXCEPT !.stat = RecalculatedStats(x, u), !.who = u,
                            !.users = @ \ {u}, !.pc = "store"]
  <1>5. /\ y \in Session /\ y.pBase = x.pBase /\ y.pMem = x.pMem /\ y.pVer = x.pVer
        /\ y.lockedPicks = x.lockedPicks /\ y.cur = x.cur /\ y.who = u
    BY <1>2, <1>4 DEF Session, PCs
  <1>6. ProgramOK(y) /\ PicksOK(y)
    BY <1>2, <1>4, <1>5, SamePicks DEF ProgramOK
  <1>7. Step(s, y)
    BY <1>3
  <1> HIDE DEF y
  <1> QED BY <1>1, <1>2, <1>5, <1>6, <1>7, SessionStep DEF Step, TypeOK

LEMMA UpdateParticipantOK ==
  ASSUME IInv, NEW s \in Sessions, UpdateParticipant(s)
  PROVE  IInv'
  <1> DEFINE x == [sess[s] EXCEPT !.sVer[sess[s].who] = sess[s].stat,
                                  !.lockedUsers = @ \cup {sess[s].who},
                                  !.stat = NoStats, !.who = Nobody]
             y == [x EXCEPT !.pc = "recalc"]
  <1>1. /\ sess[s] \in Session /\ TypeOK
        /\ sess[s].who \in Users /\ sess[s].cur \in Games /\ PicksOK(sess[s])
        /\ PickBlockers(s, sess[s].lockedPicks) = {}
    BY LocksFree DEF IInv, TypeOK, ProgramOK, UpdateParticipant
  <1>2. /\ x \in Session /\ x.cur = sess[s].cur /\ x.pBase = sess[s].pBase
        /\ x.pMem = sess[s].pMem /\ x.pVer = sess[s].pVer
        /\ x.lockedPicks = sess[s].lockedPicks
    <2>1. [sess[s].sVer EXCEPT ![sess[s].who] = sess[s].stat] \in [Users -> StatsRow]
      BY <1>1 DEF Session
    <2> QED BY <1>1, <2>1, NewRows DEF Session
  <1> HIDE DEF x
  <1>3. PicksOK(x)
    BY <1>1, <1>2, SamePicks
  <1>4. /\ y \in Session /\ y.cur = x.cur /\ y.pc = "recalc" /\ y.pBase = x.pBase
        /\ y.pMem = x.pMem /\ y.pVer = x.pVer /\ y.lockedPicks = x.lockedPicks
    BY <1>2 DEF Session, PCs
  <1>5. PicksOK(y) /\ ProgramOK(y)
    BY <1>1, <1>2, <1>3, <1>4, SamePicks DEF ProgramOK
  <1> HIDE DEF y
  <1>6. CASE Step(s, y)
    BY <1>1, <1>2, <1>4, <1>5, <1>6, SessionStep DEF Step, TypeOK
  <1>7. CASE Step(s, Scored(s, x))
    BY <1>1, <1>2, <1>3, <1>7, ScoredOK, SessionStep DEF Step, TypeOK
  <1> QED BY <1>6, <1>7 DEF UpdateParticipant, x, y

\* A session that turns to the scoring of game g.
LEMMA TurnToScoring ==
  ASSUME NEW x \in Session, NEW g \in Games, PicksOK(x)
  PROVE  LET y == [x EXCEPT !.cur = g, !.pc = "select"]
         IN y \in Session /\ ProgramOK(y) /\ PicksOK(y) /\ y.lockedPicks = x.lockedPicks
  <1> DEFINE y == [x EXCEPT !.cur = g, !.pc = "select"]
  <1>1. /\ y \in Session /\ y.cur = g /\ y.pc = "select" /\ y.pBase = x.pBase
        /\ y.pMem = x.pMem /\ y.pVer = x.pVer /\ y.lockedPicks = x.lockedPicks
    BY DEF Session, PCs
  <1> HIDE DEF y
  <1> QED BY <1>1, SamePicks DEF ProgramOK, y

LEMMA FetchedOK ==
  ASSUME TypeOK, NEW x \in Session, NEW listed \in SUBSET Games, PicksOK(x)
  PROVE  /\ Fetched(x, listed) \in Session /\ ProgramOK(Fetched(x, listed))
         /\ PicksOK(Fetched(x, listed)) /\ Fetched(x, listed).lockedPicks = x.lockedPicks
  <1>1. [g \in Games |-> IF g \in listed THEN feed[g] ELSE "live"] \in [Games -> Reports]
    BY DEF TypeOK, Reports
  <1>2. /\ Fetched(x, listed) \in Session /\ Fetched(x, listed).pc \in {"commit", "loop"}
        /\ Fetched(x, listed).pBase = x.pBase /\ Fetched(x, listed).pMem = x.pMem
        /\ Fetched(x, listed).pVer = x.pVer
        /\ Fetched(x, listed).lockedPicks = x.lockedPicks
    BY <1>1 DEF Fetched, Session, PCs
  <1> QED BY <1>2, SamePicks DEF ProgramOK

LEMMA FetchOK ==
  ASSUME IInv, NEW s \in Sessions, NEW listed \in SUBSET Games,
         JobFetch(s, listed) \/ SyncFetch(s, listed)
  PROVE  IInv'
  <1>1. sess[s] \in Session /\ TypeOK /\ PicksOK(sess[s])
        /\ PickBlockers(s, sess[s].lockedPicks) = {}
    BY LocksFree DEF IInv, TypeOK
  <1>2. PickBlockers(s, Idle.lockedPicks) = {}
    BY DEF PickBlockers, Idle
  <1>3. CASE Step(s, Fetched(sess[s], listed))
    BY <1>1, <1>3, FetchedOK, SessionStep DEF Step, TypeOK
  <1>4. CASE Step(s, Fetched(Idle, listed))
    BY <1>1, <1>2, <1>4, IdleType, IdleOK, FetchedOK, SessionStep DEF Step, TypeOK
  <1> QED BY <1>3, <1>4 DEF JobFetch, SyncFetch

LEMMA JobSelectOK ==
  ASSUME IInv, NEW s \in Sessions, JobSelect(s)
  PROVE  IInv'
  <1> DEFINE open == {g \in Games : games[g].status = "open"}
             rows == [g \in Games |-> IF g \in open THEN games[g] ELSE NewGame]
             y == [Idle EXCEPT !.pc = "fetch", !.todo = open, !.gBase = rows, !.gMem = rows]
  <1>1. rows \in [Games -> GameRow] /\ open \in SUBSET Games /\ aborts \in Nat
    BY NewRows DEF IInv, TypeOK
  <1> HIDE DEF open, rows
  <1>2. /\ y \in Session /\ y.pc = "fetch" /\ y.pBase = Idle.pBase /\ y.pMem = Idle.pMem
        /\ y.pVer = Idle.pVer /\ y.lockedPicks = Idle.lockedPicks
    BY <1>1, IdleType DEF Session, PCs
  <1>3. ProgramOK(y) /\ PicksOK(y)
    BY <1>2, IdleOK, SamePicks DEF ProgramOK
  <1>4. PickBlockers(s, y.lockedPicks) = {}
    BY <1>2 DEF PickBlockers, Idle
  <1>5. Step(s, y)
    BY DEF JobSelect, open, rows
  <1> HIDE DEF y
  <1> QED BY <1>1, <1>2, <1>3, <1>4, <1>5, SessionStep DEF Step

LEMMA JobApplyOK ==
  ASSUME IInv, NEW s \in Sessions, JobApply(s)
  PROVE  IInv'
  <1>1. sess[s] \in Session /\ TypeOK /\ PicksOK(sess[s])
        /\ PickBlockers(s, sess[s].lockedPicks) = {}
    BY LocksFree DEF IInv, TypeOK
  <1>2. PICK g \in sess[s].todo :
          LET x == Edited(sess[s], g, JobReport(sess[s].gMem[g], sess[s].report[g]))
          IN Step(s, [x EXCEPT !.cur = g, !.pc = "select"]) \/ Step(s, NextGame(x))
    BY DEF JobApply
  <1> DEFINE row == JobReport(sess[s].gMem[g], sess[s].report[g])
             x == Edited(sess[s], g, row)
             y == [x EXCEPT !.cur = g, !.pc = "select"]
  <1>3. g \in Games /\ row \in GameRow
    BY <1>1, ReportType DEF Session
  <1>4. Step(s, y) \/ Step(s, NextGame(x))
    BY <1>2
  <1> HIDE DEF row
  <1>5. x \in Session /\ PicksOK(x) /\ x.lockedPicks = sess[s].lockedPicks
    BY <1>1, <1>3, EditedOK
  <1> HIDE DEF x
  <1>6. y \in Session /\ ProgramOK(y) /\ PicksOK(y) /\ y.lockedPicks = x.lockedPicks
    BY <1>3, <1>5, TurnToScoring
  <1> HIDE DEF y
  <1>7. CASE Step(s, y)
    BY <1>1, <1>5, <1>6, <1>7, SessionStep DEF Step, TypeOK
  <1>8. CASE Step(s, NextGame(x))
    BY <1>1, <1>5, <1>8, NextGameOK, SessionStep DEF Step, TypeOK
  <1> QED BY <1>4, <1>7, <1>8

\* Reading a game into a session's memory.
LEMMA LoadedOK ==
  ASSUME TypeOK, NEW x \in Session, NEW g \in Games, PicksOK(x)
  PROVE  /\ Loaded(x, g) \in Session /\ PicksOK(Loaded(x, g))
         /\ Loaded(x, g).lockedPicks = x.lockedPicks /\ Loaded(x, g).gMem[g] \in GameRow
  <1>1. Loaded(x, g) \in Session
    BY ViewType DEF Loaded, Session
  <1>2. /\ Loaded(x, g).pBase = x.pBase /\ Loaded(x, g).pMem = x.pMem
        /\ Loaded(x, g).pVer = x.pVer /\ Loaded(x, g).lockedPicks = x.lockedPicks
    BY DEF Loaded, Session
  <1> QED BY <1>1, <1>2, SamePicks DEF Session

LEMMA SyncGameOK ==
  ASSUME IInv, NEW s \in Sessions, SyncGame(s)
  PROVE  IInv'
  <1> DEFINE f == Flushed(sess[s])
  <1>1. sess[s] \in Session /\ TypeOK /\ PicksOK(sess[s]) /\ PointsAreCounted
    BY DEF IInv, TypeOK
  <1>2. /\ f \in Session /\ PicksOK(f) /\ f.todo = sess[s].todo
        /\ PickBlockers(s, f.lockedPicks) = {}
    BY <1>1, FlushedType, FlushedPicks, FlushedKeeps, LocksFree DEF SyncGame
  <1>3. PICK g \in sess[s].todo :
          LET old == Loaded(f, g)
              x == Edited(old, g, SyncReport(old.gMem[g], sess[s].report[g]))
          IN Step(s, [x EXCEPT !.cur = g, !.pc = "select"]) \/ Step(s, NextGame(x))
    BY DEF SyncGame
  <1> HIDE DEF f
  <1> DEFINE old == Loaded(f, g)
             row == SyncReport(old.gMem[g], sess[s].report[g])
             x == Edited(old, g, row)
             y == [x EXCEPT !.cur = g, !.pc = "select"]
  <1>4. Step(s, y) \/ Step(s, NextGame(x))
    BY <1>3
  <1>5. g \in Games /\ old \in Session /\ PicksOK(old)
        /\ old.lockedPicks = f.lockedPicks /\ old.gMem[g] \in GameRow
    BY <1>1, <1>2, LoadedOK DEF Session
  <1> HIDE DEF old
  <1>6. row \in GameRow
    BY <1>1, <1>5, ReportType DEF Session
  <1> HIDE DEF row
  <1>7. x \in Session /\ PicksOK(x) /\ x.lockedPicks = f.lockedPicks
    BY <1>5, <1>6, EditedOK
  <1> HIDE DEF x
  <1>8. y \in Session /\ ProgramOK(y) /\ PicksOK(y) /\ y.lockedPicks = x.lockedPicks
    BY <1>5, <1>7, TurnToScoring
  <1> HIDE DEF y
  <1>9. CASE Step(s, y)
    BY <1>1, <1>2, <1>7, <1>8, <1>9, SessionStep DEF Step, TypeOK
  <1>10. CASE Step(s, NextGame(x))
    BY <1>1, <1>2, <1>7, <1>10, NextGameOK, SessionStep DEF Step, TypeOK
  <1> QED BY <1>4, <1>9, <1>10

LEMMA AdminOK ==
  ASSUME IInv, NEW s \in Sessions, NEW g \in Games,
         AdminRescore(s, g) \/ \E outcome \in Corrections : AdminCorrect(s, g, outcome)
  PROVE  IInv'
  <1>1. TypeOK /\ games[g] \in GameRow /\ PickBlockers(s, Idle.lockedPicks) = {}
    BY DEF IInv, TypeOK, PickBlockers, Idle
  <1>2. CASE AdminRescore(s, g)
    <2> DEFINE x == Loaded(Idle, g)
               y == [x EXCEPT !.cur = g, !.pc = "select"]
    <2>1. x \in Session /\ PicksOK(x) /\ x.lockedPicks = Idle.lockedPicks
      BY <1>1, IdleType, IdleOK, LoadedOK
    <2>2. Step(s, y)
      BY <1>2 DEF AdminRescore
    <2> HIDE DEF x
    <2>3. y \in Session /\ ProgramOK(y) /\ PicksOK(y) /\ y.lockedPicks = Idle.lockedPicks
      BY <2>1, TurnToScoring
    <2> HIDE DEF y
    <2> QED BY <1>1, <2>2, <2>3, SessionStep DEF Step, TypeOK
  <1>3. ASSUME NEW outcome \in Corrections, AdminCorrect(s, g, outcome)
        PROVE  IInv'
    <2> DEFINE row == CorrectedRow(games[g], outcome)
               x == Edited(Loaded(Idle, g), g, row)
               y == [x EXCEPT !.cur = g, !.pc = "select"]
               z == [x EXCEPT !.cur = g, !.pc = "select"]
    <2>1. row \in GameRow
      BY <1>1, AdminRowType, EnvironmentAssumption
    <2>2. Step(s, z)
      BY <1>3 DEF AdminCorrect
    <2> HIDE DEF row
    <2>3. x \in Session /\ PicksOK(x) /\ x.lockedPicks = Idle.lockedPicks
      BY <1>1, <2>1, IdleType, IdleOK, LoadedOK, EditedOK
    <2> HIDE DEF x
    <2>4. y \in Session /\ ProgramOK(y) /\ PicksOK(y) /\ y.lockedPicks = Idle.lockedPicks
      BY <2>3, TurnToScoring
    <2>5. /\ z \in Session /\ z.pc = y.pc /\ z.cur = y.cur /\ z.pBase = y.pBase
          /\ z.pMem = y.pMem /\ z.pVer = y.pVer /\ z.lockedPicks = y.lockedPicks
      BY <2>3 DEF Session, PCs
    <2>6. ProgramOK(z) /\ PicksOK(z)
      <3>1. z.pc = "select" /\ z.cur \in Games
        BY <2>3 DEF Session
      <3> HIDE DEF z, y
      <3> QED BY <2>4, <2>5, <3>1, SamePicks DEF ProgramOK
    <2> HIDE DEF y, z
    <2> QED BY <1>1, <2>2, <2>4, <2>5, <2>6, SessionStep DEF Step, TypeOK
  <1> QED BY <1>2, <1>3

\* A transaction that is rolled back leaves every row as it was.
LEMMA RollbackOK ==
  ASSUME IInv, NEW s \in Sessions, Abort(s) \/ DeadlockVictim(s)
  PROVE  IInv'
  <1>1. PickBlockers(s, Idle.lockedPicks) = {}
    BY DEF PickBlockers, Idle
  <1>2. aborts \in Nat /\ aborts + 1 \in Nat
    BY DEF IInv, TypeOK
  <1> QED BY <1>1, <1>2, IdleType, IdleOK, SessionStep DEF Abort, DeadlockVictim, Step

\* The session whose scoring raises, flushed if it has just read the picks.
LEMMA FailingSession ==
  ASSUME IInv, NEW s \in Sessions, ScoringFails(s),
         NEW x, x = IF sess[s].pc = "select" THEN Flushed(sess[s]) ELSE sess[s]
  PROVE  /\ x \in Session /\ PicksOK(x) /\ x.cur \in Games
         /\ PickBlockers(s, x.lockedPicks) = {}
         /\ x = sess[s] \/ (x = Flushed(sess[s]) /\ FlushBlockers(s) = {})
  <1>1. /\ sess[s] \in Session /\ TypeOK /\ PointsAreCounted
        /\ PicksOK(sess[s]) /\ sess[s].cur \in Games
        /\ sess[s].pc = "select" => FlushBlockers(s) = {}
    BY DEF IInv, TypeOK, ProgramOK, ScoringFails
  <1>2. /\ Flushed(sess[s]) \in Session /\ PicksOK(Flushed(sess[s]))
        /\ Flushed(sess[s]).cur = sess[s].cur
    BY <1>1, FlushedType, FlushedPicks, FlushedKeeps
  <1> QED BY <1>1, <1>2, LocksFree

LEMMA ScoringFailsOK ==
  ASSUME IInv, NEW s \in Sessions, ScoringFails(s)
  PROVE  IInv'
  <1> DEFINE x == IF sess[s].pc = "select" THEN Flushed(sess[s]) ELSE sess[s]
             w == [x EXCEPT !.users = {}, !.stat = NoStats, !.who = Nobody]
             y == NextGame(w)
             row == Reverted(x.gMem[x.cur])
  <1>1. TypeOK /\ x \in Session /\ PicksOK(x) /\ x.cur \in Games
        /\ PickBlockers(s, x.lockedPicks) = {} /\ PickBlockers(s, Idle.lockedPicks) = {}
    BY FailingSession DEF IInv, PickBlockers, Idle
  <1>2. Step(s, y) \/ Step(s, Edited(y, x.cur, row)) \/ Step(s, Idle)
    BY DEF ScoringFails
  <1>3. row \in GameRow
    BY <1>1, AdminRowType DEF Session
  <1> HIDE DEF x, row
  <1>4. /\ w \in Session /\ w.pBase = x.pBase /\ w.pMem = x.pMem /\ w.pVer = x.pVer
        /\ w.lockedPicks = x.lockedPicks
    BY <1>1, NewRows DEF Session
  <1>5. PicksOK(w)
    <2> HIDE DEF w
    <2> QED BY <1>1, <1>4, SamePicks
  <1> HIDE DEF w
  <1>6. /\ y \in Session /\ ProgramOK(y) /\ PicksOK(y) /\ y.lockedPicks = x.lockedPicks
        /\ y.pc \in {"commit", "loop"}
    BY <1>4, <1>5, NextGameOK DEF NextGame, Session
  <1> HIDE DEF y
  <1>7. CASE Step(s, y)
    BY <1>1, <1>6, <1>7, SessionStep DEF Step, TypeOK
  <1>8. CASE Step(s, Edited(y, x.cur, row))
    <2> DEFINE z == Edited(y, x.cur, row)
    <2>1. z \in Session /\ PicksOK(z) /\ z.lockedPicks = x.lockedPicks /\ z.pc = y.pc
      BY <1>1, <1>3, <1>6, EditedOK
    <2> HIDE DEF z
    <2>2. ProgramOK(z)
      BY <1>6, <2>1 DEF ProgramOK
    <2> QED BY <1>1, <1>8, <2>1, <2>2, SessionStep DEF Step, TypeOK, z
  <1>9. CASE Step(s, Idle)
    BY <1>1, <1>9, IdleType, IdleOK, SessionStep DEF Step, TypeOK
  <1> QED BY <1>2, <1>7, <1>8, <1>9

\* A commit publishes rows that keep every grade, and takes none from under
\* the other sessions: those it changes are locked by nobody else.
LEMMA CommitOK ==
  ASSUME IInv, NEW s \in Sessions, Commit(s)
  PROVE  IInv' /\ \A p \in Picks : HasGrade(picks[p]) => HasGrade(picks'[p])
  <1> DEFINE x == Flushed(sess[s])
  <1>1. TypeOK /\ PointsAreCounted /\ sess[s] \in Session /\ PicksOK(sess[s])
    BY DEF IInv, TypeOK
  <1>2. /\ x \in Session
        /\ PickBlockers(s, x.lockedPicks) = {}
        /\ \A p \in Picks : HasGrade(picks[p]) => HasGrade(PickView(x, p))
        /\ \A p \in Picks : PickView(x, p).points = 1 => HasGrade(PickView(x, p))
        /\ \A p \in Picks : PickView(x, p) \in PickRow
        /\ \A g \in Games : GameView(x, g) \in GameRow
    BY <1>1, FlushedType, FlushedPicks, LocksFree, ViewType DEF Commit
  <1>3. /\ games' = [g \in Games |-> GameView(x, g)]
        /\ picks' = [p \in Picks |-> PickView(x, p)]
        /\ stats' = [u \in Users |-> IF u \in x.lockedUsers THEN x.sVer[u] ELSE stats[u]]
        /\ sess' = [sess EXCEPT ![s] = Idle]
        /\ feed' = feed /\ aborts' = aborts
    BY DEF Commit, x, IInv, TypeOK
  <1> HIDE DEF x
  <1>4. \A p \in Picks : HasGrade(picks[p]) => HasGrade(picks'[p])
    BY <1>2, <1>3
  <1>5. TypeOK'
    <2>1. stats' \in [Users -> StatsRow]
      BY <1>2, <1>3 DEF IInv, TypeOK, Session
    <2> QED BY <1>2, <1>3, <2>1, IdleType DEF IInv, TypeOK
  <1>6. PointsAreCounted'
    BY <1>2, <1>3 DEF PointsAreCounted, HasGrade
  <1>7. /\ sess'[s] = Idle
        /\ \A t \in Sessions : t # s => sess'[t] = sess[t]
    BY <1>3 DEF IInv, TypeOK
  <1>8. PickLocksExclusive'
    BY <1>7 DEF IInv, PickLocksExclusive, Idle
  <1>9. ASSUME NEW t \in Sessions
        PROVE  ProgramOK(sess[t])' /\ PicksOK(sess[t])'
    <2>1. CASE t = s
      <3>1. PicksOK(sess[t])'
        BY <1>7, <2>1 DEF PicksOK, GradeKept, PointsKept, BaseSeen, VersionKept, PickView,
                          Idle, NewPick, HasGrade
      <3> QED BY <1>7, <2>1, <3>1, IdleOK DEF ProgramOK
    <2>2. CASE t # s
      <3>1. sess'[t] = sess[t] /\ ProgramOK(sess[t]) /\ PicksOK(sess[t])
            /\ sess[t].lockedPicks \subseteq Picks
        BY <1>7, <2>2 DEF IInv, TypeOK, Session
      <3>2. \A p \in sess[t].lockedPicks : picks'[p] = picks[p]
        <4>1. \A p \in sess[t].lockedPicks : p \in Picks /\ p \notin x.lockedPicks
          BY <1>2, <2>2, <3>1 DEF PickBlockers, Others
        <4> QED BY <1>3, <4>1 DEF PickView, IInv, TypeOK
      <3>3. BaseSeen(sess[t])'
        BY <1>4, <3>1 DEF PicksOK, BaseSeen, PickView
      <3>4. VersionKept(sess[t])'
        BY <3>1, <3>2 DEF PicksOK, VersionKept
      <3> QED BY <3>1, <3>3, <3>4 DEF ProgramOK, PicksOK, GradeKept, PointsKept
    <2> QED BY <2>1, <2>2
  <1> QED BY <1>4, <1>5, <1>6, <1>8, <1>9 DEF IInv

LEMMA FeedReportOK ==
  ASSUME IInv, NEW g \in Games, FeedReport(g)
  PROVE  IInv'
  <1>1. TypeOK'
    BY DEF FeedReport, IInv, TypeOK
  <1> QED BY <1>1 DEF FeedReport, IInv, PickLocksExclusive, PointsAreCounted, ProgramOK,
                      PicksOK, GradeKept, PointsKept, BaseSeen, VersionKept, PickView

-----------------------------------------------------------------------------
(* The theorems *)

LEMMA InitIInv == Init => IInv
  <1> SUFFICES ASSUME Init PROVE IInv
    OBVIOUS
  <1>1. TypeOK
    BY NewRows, IdleType DEF Init, TypeOK, Reports
  <1>2. PickLocksExclusive /\ PointsAreCounted
    BY DEF Init, PickLocksExclusive, PointsAreCounted, Idle, NewPick
  <1> QED BY <1>1, <1>2, IdleOK DEF Init, IInv

\* Every step keeps the invariant and every grade; only a commit touches one.
LEMMA NextIInv ==
  ASSUME IInv, [Next]_vars
  PROVE  IInv' /\ \A p \in Picks : HasGrade(picks[p]) => HasGrade(picks'[p])
  <1>1. ASSUME NEW s \in Sessions, Work(s)
        PROVE  IInv' /\ (picks' = picks \/ Commit(s))
    <2>1. CASE SelectPicks(s) \/ SelectScoredPicks(s) \/ UpdateParticipant(s)
      BY <2>1, SelectPicksOK, SelectScoredPicksOK, UpdateParticipantOK
         DEF SelectPicks, SelectScoredPicks, UpdateParticipant, Step
    <2>2. CASE \E listed \in SUBSET Games : JobFetch(s, listed)
      BY <2>2, FetchOK DEF JobFetch, Step
    <2>3. CASE JobApply(s) \/ SyncGame(s)
      BY <2>3, JobApplyOK, SyncGameOK DEF JobApply, SyncGame, Step
    <2>4. CASE Commit(s)
      BY <2>4, CommitOK
    <2> QED BY <1>1, <2>1, <2>2, <2>3, <2>4 DEF Work
  <1>2. ASSUME NEW s \in Sessions, JobSelect(s)
        PROVE  IInv' /\ picks' = picks
    BY <1>2, JobSelectOK DEF JobSelect, Step
  <1>3. ASSUME NEW s \in Sessions, NEW listed \in SUBSET Games, SyncFetch(s, listed)
        PROVE  IInv' /\ picks' = picks
    BY <1>3, FetchOK DEF SyncFetch, Step
  <1>4. ASSUME NEW s \in Sessions, NEW g \in Games,
               AdminRescore(s, g) \/ \E outcome \in Corrections : AdminCorrect(s, g, outcome)
        PROVE  IInv' /\ picks' = picks
    BY <1>4, AdminOK DEF AdminRescore, AdminCorrect, Step
  <1>5. ASSUME NEW s \in Sessions, ScoringFails(s)
        PROVE  IInv' /\ picks' = picks
    BY <1>5, ScoringFailsOK DEF ScoringFails, Step
  <1>6. ASSUME NEW s \in Sessions, Abort(s) \/ DeadlockVictim(s)
        PROVE  IInv' /\ picks' = picks
    BY <1>6, RollbackOK DEF Abort, DeadlockVictim, Step
  <1>7. ASSUME NEW g \in Games, FeedReport(g)
        PROVE  IInv' /\ picks' = picks
    BY <1>7, FeedReportOK DEF FeedReport
  <1>8. CASE UNCHANGED vars
    BY <1>8 DEF vars, IInv, TypeOK, PickLocksExclusive, PointsAreCounted, ProgramOK,
                PicksOK, GradeKept, PointsKept, BaseSeen, VersionKept, PickView
  <1>9. IInv' /\ (picks' = picks \/ \E s \in Sessions : Commit(s))
    BY <1>1, <1>2, <1>3, <1>4, <1>5, <1>6, <1>7, <1>8 DEF Next, vars
  <1> QED BY <1>9, CommitOK

THEOREM Invariance == Spec => []IInv
  BY InitIInv, NextIInv, PTL DEF Spec

\* Every variable keeps its type, whatever the constants are: no session
\* writes a value that the columns of games, picks and participants lack.
THEOREM TypeCorrect == Spec => []TypeOK
  BY Invariance, PTL DEF IInv

\* Whatever the jobs, the admins and the lost transactions do, a pick worth a
\* point has a grade: recalculate_participant_stats misses no point.
THEOREM PointsAlwaysCounted == Spec => []PointsAreCounted
  BY Invariance, PTL DEF IInv

\* No step of any session takes the grade of a pick away.
THEOREM GradesNeverLost == Spec => GradesStay
  <1>1. IInv /\ [Next]_vars =>
          [\A p \in Picks : picks[p].correct # "null" => picks'[p].correct # "null"]_vars
    BY NextIInv DEF HasGrade
  <1> QED BY <1>1, Invariance, PTL DEF Spec, GradesStay

-----------------------------------------------------------------------------
(* What a step makes of its session: the facts that the invariants below share *)

\* x and y agree on the picks and on everything written and locked.
SameData(x, y) ==
    /\ y.pBase = x.pBase /\ y.pMem = x.pMem /\ y.pVer = x.pVer
    /\ y.lockedPicks = x.lockedPicks
    /\ y.sVer = x.sVer /\ y.lockedUsers = x.lockedUsers
    /\ y.gVer = x.gVer /\ y.lockedGames = x.lockedGames

\* y is x with another row of game g in memory.
Edits(x, y, g, row) ==
    /\ SameData(x, y) /\ y.report = x.report
    /\ y.gMem = [x.gMem EXCEPT ![g] = row]
    /\ y.dirty = x.dirty \cup {g}

\* y is x with the same games in memory.
Keeps(x, y) ==
    SameData(x, y) /\ y.report = x.report /\ y.gMem = x.gMem /\ y.dirty = x.dirty

\* y is in the scoring of game g, or between two games.
Turned(y, g) == y.pc = "select" /\ y.cur = g
Outside(y) == y.pc \in {"commit", "loop"}

LEMMA FlushedShape ==
  ASSUME NEW x \in Session, NEW f, f = Flushed(x)
  PROVE  /\ f.pc = x.pc /\ f.cur = x.cur /\ f.who = x.who /\ f.stat = x.stat
         /\ f.todo = x.todo /\ f.users = x.users /\ f.report = x.report
         /\ f.gMem = x.gMem /\ f.pMem = x.pMem /\ f.pBase = x.pMem
         /\ f.sVer = x.sVer /\ f.lockedUsers = x.lockedUsers
         /\ f.dirty = {} /\ DirtyPicks(f) = {}
         /\ f.lockedGames = x.lockedGames \cup x.dirty
         /\ f.lockedPicks = x.lockedPicks \cup DirtyPicks(x)
         /\ \A g \in Games : f.gVer[g] = IF g \in x.dirty
                                         THEN GameUpdate(GameView(x, g), x.gBase[g], x.gMem[g])
                                         ELSE x.gVer[g]
         /\ \A p \in Picks : f.pVer[p] = IF p \in DirtyPicks(x)
                                         THEN PickUpdate(PickView(x, p), x.pBase[p], x.pMem[p])
                                         ELSE x.pVer[p]
  <1>1. /\ f.pc = x.pc /\ f.cur = x.cur /\ f.who = x.who /\ f.stat = x.stat
        /\ f.todo = x.todo /\ f.users = x.users /\ f.report = x.report
        /\ f.gMem = x.gMem /\ f.pMem = x.pMem /\ f.pBase = x.pMem
        /\ f.sVer = x.sVer /\ f.lockedUsers = x.lockedUsers
        /\ f.dirty = {}
        /\ f.lockedGames = x.lockedGames \cup x.dirty
        /\ f.lockedPicks = x.lockedPicks \cup DirtyPicks(x)
    BY DEF Flushed, Session
  <1>2. DirtyPicks(f) = {}
    BY <1>1 DEF DirtyPicks
  <1> QED BY <1>1, <1>2 DEF Flushed, Session

LEMMA EditedShape ==
  ASSUME NEW x \in Session, NEW g \in Games, NEW row, NEW y, y = Edited(x, g, row)
  PROVE  Edits(x, y, g, row) /\ y.pc = x.pc /\ y.cur = x.cur
  BY DEF Edited, Edits, SameData, Session

LEMMA TurnedShape ==
  ASSUME NEW x \in Session, NEW g \in Games, NEW y,
         y = [x EXCEPT !.cur = g, !.pc = "select"]
  PROVE  Keeps(x, y) /\ Turned(y, g) /\ y \in Session
  BY DEF Keeps, Turned, SameData, Session, PCs

LEMMA NextGameShape ==
  ASSUME NEW x \in Session, NEW y, y = NextGame(x)
  PROVE  Keeps(x, y) /\ Outside(y) /\ y \in Session
  <1>1. Keeps(x, y) /\ Outside(y)
    BY DEF NextGame, Keeps, Outside, SameData, Session
  <1> QED BY <1>1, NextGameOK

LEMMA EditsKeeps ==
  ASSUME NEW x, NEW y, NEW z, NEW g, NEW row, Edits(x, y, g, row), Keeps(y, z)
  PROVE  Edits(x, z, g, row)
  BY DEF Edits, Keeps, SameData

\* Scoring over, the score job marks the game.
LEMMA ScoredShape ==
  ASSUME NEW s, NEW x \in Session, x.cur \in Games, NEW y, y = Scored(s, x)
  PROVE  /\ y \in Session /\ Outside(y)
         /\ \/ Keeps(x, y)
            \/ Edits(x, y, x.cur, [x.gMem[x.cur] EXCEPT !.scored = TRUE])
  <1> DEFINE g == x.cur
             row == [x.gMem[g] EXCEPT !.scored = TRUE]
             m == Edited(x, g, row)
             z == [x EXCEPT !.pc = "commit"]
  <1>1. x.gMem[g] \in GameRow
    BY DEF Session
  <1>2. row \in GameRow
    BY <1>1, GameRowEdits
  <1>3. y = NextGame(m) \/ y = NextGame(x) \/ y = z
    BY DEF Scored, Marked
  <1> HIDE DEF g, row
  <1>4. Edits(x, m, g, row) /\ m \in Session
    BY <1>2, EditedShape, EditedOK DEF g
  <1>5. Keeps(x, z) /\ Outside(z) /\ z \in Session
    BY DEF Keeps, Outside, SameData, Session, PCs
  <1> HIDE DEF m, z
  <1>6. CASE y = NextGame(m)
    BY <1>4, <1>6, NextGameShape, EditsKeeps DEF g, row
  <1>7. CASE y = NextGame(x) \/ y = z
    BY <1>5, <1>7, NextGameShape
  <1> QED BY <1>3, <1>6, <1>7

\* The graded picks y has in memory, from what f sees of their rows.
Grades(f, y) ==
    /\ y.pVer = f.pVer /\ y.lockedPicks = f.lockedPicks
    /\ y.sVer = f.sVer /\ y.lockedUsers = f.lockedUsers
    /\ y.gVer = f.gVer /\ y.lockedGames = f.lockedGames
    /\ y.report = f.report /\ y.gMem = f.gMem /\ y.dirty = f.dirty
    /\ y.cur = f.cur /\ y.users = UsersOn(f.cur) /\ y.who = f.who /\ y.pc = "recalc"
    /\ \A p \in Picks :
         IF p[2] = f.cur
         THEN /\ y.pBase[p] = PickView(f, p)
              /\ y.pMem[p] = Graded(f.gMem[f.cur].winner, p, PickView(f, p))
         ELSE y.pBase[p] = f.pBase[p] /\ y.pMem[p] = f.pMem[p]

LEMMA SelectPicksShape ==
  ASSUME TypeOK, NEW s \in Sessions, SelectPicks(s), sess[s].cur \in Games,
         NEW f, f = Flushed(sess[s])
  PROVE  /\ sess[s].pc = "select" /\ f \in Session /\ FlushBlockers(s) = {}
         /\ \/ /\ PicksOn(f.cur) = {}
               /\ \E y \in Session : Step(s, y) /\ y = Scored(s, f)
            \/ \E y \in Session : Step(s, y) /\ Grades(f, y)
  <1> DEFINE loaded == [p \in Picks |-> IF p[2] = f.cur THEN PickView(f, p) ELSE f.pBase[p]]
             graded == [p \in Picks |-> IF p[2] = f.cur
                                        THEN Graded(f.gMem[f.cur].winner, p, loaded[p])
                                        ELSE f.pMem[p]]
             on == UsersOn(f.cur)
             y == [f EXCEPT !.pBase = loaded, !.pMem = graded, !.users = on, !.pc = "recalc"]
  <1>1. f \in Session /\ f.cur \in Games /\ sess[s].pc = "select" /\ FlushBlockers(s) = {}
    BY FlushedType, FlushedShape DEF TypeOK, SelectPicks
  <1>2. ASSUME NEW p \in Picks
        PROVE  loaded[p] \in PickRow /\ graded[p] \in PickRow
    BY <1>1, ViewType, GradedRow DEF Session
  <1>3. /\ loaded \in [Picks -> PickRow] /\ graded \in [Picks -> PickRow]
        /\ on \in SUBSET Users
    BY <1>2 DEF UsersOn
  <1>4. \A p \in Picks :
          IF p[2] = f.cur
          THEN /\ loaded[p] = PickView(f, p)
               /\ graded[p] = Graded(f.gMem[f.cur].winner, p, PickView(f, p))
          ELSE loaded[p] = f.pBase[p] /\ graded[p] = f.pMem[p]
    OBVIOUS
  <1>5. IF PicksOn(f.cur) = {} THEN Step(s, Scored(s, f)) ELSE Step(s, y)
    BY DEF SelectPicks
  <1> HIDE DEF loaded, graded
  <1>6. y \in Session /\ Grades(f, y)
    <2>1. on = UsersOn(f.cur)
      OBVIOUS
    <2> HIDE DEF on
    <2>2. /\ y \in Session /\ y.pBase = loaded /\ y.pMem = graded /\ y.users = on
          /\ y.pVer = f.pVer /\ y.lockedPicks = f.lockedPicks
          /\ y.sVer = f.sVer /\ y.lockedUsers = f.lockedUsers
          /\ y.gVer = f.gVer /\ y.lockedGames = f.lockedGames
          /\ y.report = f.report /\ y.gMem = f.gMem /\ y.dirty = f.dirty
          /\ y.cur = f.cur /\ y.who = f.who /\ y.pc = "recalc"
      BY <1>1, <1>3 DEF Session, PCs
    <2> HIDE DEF y
    <2> QED BY <1>4, <2>1, <2>2 DEF Grades
  <1> HIDE DEF y
  <1>7. Scored(s, f) \in Session
    BY <1>1, ScoredOK
  <1> QED BY <1>1, <1>5, <1>6, <1>7

LEMMA SelectScoredPicksShape ==
  ASSUME TypeOK, NEW s \in Sessions, SelectScoredPicks(s), NEW f, f = Flushed(sess[s])
  PROVE  /\ sess[s].pc = "recalc" /\ f \in Session /\ FlushBlockers(s) = {}
         /\ \E u \in sess[s].users, y \in Session :
              /\ Step(s, y) /\ Keeps(f, y)
              /\ y.pc = "store" /\ y.cur = f.cur /\ y.who = u
              /\ y.users = f.users \ {u} /\ y.stat = RecalculatedStats(f, u)
  <1>1. f \in Session /\ f.users = sess[s].users
    BY FlushedType, FlushedShape DEF TypeOK
  <1>2. PICK u \in sess[s].users :
          Step(s, [f EXCEPT !.stat = RecalculatedStats(f, u), !.who = u,
                            !.users = @ \ {u}, !.pc = "store"])
    BY DEF SelectScoredPicks
  <1> DEFINE st == RecalculatedStats(f, u)
             y == [f EXCEPT !.stat = st, !.who = u, !.users = @ \ {u}, !.pc = "store"]
  <1>3. u \in Users /\ st \in StatsRow
    BY <1>1, AggregateType DEF Session, RecalculatedStats, PicksOf
  <1>4. Step(s, y)
    BY <1>2
  <1>5. st = RecalculatedStats(f, u)
    OBVIOUS
  <1> HIDE DEF st
  <1>6. /\ y \in Session /\ Keeps(f, y)
        /\ y.pc = "store" /\ y.cur = f.cur /\ y.who = u
        /\ y.users = f.users \ {u} /\ y.stat = st
    BY <1>1, <1>3 DEF Session, PCs, Keeps, SameData
  <1> HIDE DEF y
  <1> QED BY <1>1, <1>4, <1>5, <1>6 DEF SelectScoredPicks

\* y has written the aggregates of x.who.
Stores(x, y) ==
    /\ y.pBase = x.pBase /\ y.pMem = x.pMem /\ y.pVer = x.pVer
    /\ y.lockedPicks = x.lockedPicks
    /\ y.gVer = x.gVer /\ y.lockedGames = x.lockedGames
    /\ y.report = x.report /\ y.gMem = x.gMem /\ y.dirty = x.dirty
    /\ y.cur = x.cur /\ y.users = x.users /\ y.who = Nobody
    /\ y.sVer = [x.sVer EXCEPT ![x.who] = x.stat]
    /\ y.lockedUsers = x.lockedUsers \cup {x.who}

LEMMA UpdateParticipantShape ==
  ASSUME TypeOK, NEW s \in Sessions, UpdateParticipant(s), sess[s].who \in Users,
         sess[s].cur \in Games
  PROVE  /\ sess[s].pc = "store"
         /\ \E z \in Session :
              /\ Stores(sess[s], z)
              /\ \/ z.users = {} /\ \E y \in Session : Step(s, y) /\ y = Scored(s, z)
                 \/ z.pc = "recalc" /\ Step(s, z)
  <1> DEFINE x == sess[s]
             sv == [x.sVer EXCEPT ![x.who] = x.stat]
             lu == x.lockedUsers \cup {x.who}
             z == [x EXCEPT !.sVer = sv, !.lockedUsers = lu, !.stat = NoStats, !.who = Nobody]
             y == [z EXCEPT !.pc = "recalc"]
  <1>1. x \in Session /\ x.who \in Users /\ x.cur \in Games
    BY DEF TypeOK
  <1>2. [x EXCEPT !.sVer[x.who] = x.stat,
                  !.lockedUsers = @ \cup {x.who},
                  !.stat = NoStats, !.who = Nobody] = z
    BY <1>1 DEF Session
  <1>3. IF z.users = {} THEN Step(s, Scored(s, z)) ELSE Step(s, y)
    BY <1>2 DEF UpdateParticipant
  <1>4. sv \in [Users -> StatsRow] /\ lu \in SUBSET Users
    BY <1>1 DEF Session
  <1>5. sv = [x.sVer EXCEPT ![x.who] = x.stat] /\ lu = x.lockedUsers \cup {x.who} /\ x = sess[s]
    OBVIOUS
  <1> HIDE DEF x, sv, lu
  <1>6. /\ z \in Session /\ z.sVer = sv /\ z.lockedUsers = lu
        /\ z.pBase = x.pBase /\ z.pMem = x.pMem /\ z.pVer = x.pVer
        /\ z.lockedPicks = x.lockedPicks
        /\ z.gVer = x.gVer /\ z.lockedGames = x.lockedGames
        /\ z.report = x.report /\ z.gMem = x.gMem /\ z.dirty = x.dirty
        /\ z.cur = x.cur /\ z.users = x.users /\ z.who = Nobody
    BY <1>1, <1>4, NewRows DEF Session
  <1>7. Stores(x, z)
    BY <1>5, <1>6 DEF Stores
  <1> HIDE DEF z
  <1>8. /\ y \in Session /\ Stores(x, y) /\ y.pc = "recalc"
    BY <1>6, <1>7 DEF Session, PCs, Stores
  <1> HIDE DEF y
  <1>9. Scored(s, z) \in Session
    BY <1>1, <1>6, ScoredOK
  <1> QED BY <1>3, <1>5, <1>6, <1>7, <1>8, <1>9 DEF UpdateParticipant

LEMMA JobApplyShape ==
  ASSUME TypeOK, NEW s \in Sessions, JobApply(s)
  PROVE  \E g \in Games, y \in Session :
           LET x == sess[s]
               r == x.report[g]
           IN /\ s \in ScoreJobs /\ x.pc = "loop"
              /\ Step(s, y) /\ Edits(x, y, g, JobReport(x.gMem[g], r))
              /\ Outside(y) \/ (Turned(y, g) /\ r # "live")
  <1> DEFINE x == sess[s]
  <1>1. x \in Session
    BY DEF TypeOK
  <1>2. PICK g \in x.todo :
          LET r == x.report[g]
              e == Edited(x, g, JobReport(x.gMem[g], r))
          IN IF r # "live" /\ ~e.gMem[g].scored
             THEN Step(s, [e EXCEPT !.cur = g, !.pc = "select"])
             ELSE Step(s, NextGame(e))
    BY DEF JobApply
  <1> DEFINE row == JobReport(x.gMem[g], x.report[g])
             e == Edited(x, g, row)
             z == [e EXCEPT !.cur = g, !.pc = "select"]
  <1>3. g \in Games /\ row \in GameRow
    BY <1>1, ReportType DEF Session
  <1>4. (x.report[g] # "live" /\ Step(s, z)) \/ Step(s, NextGame(e))
    BY <1>2
  <1>5. row = JobReport(x.gMem[g], x.report[g])
    OBVIOUS
  <1> HIDE DEF row
  <1>6. e \in Session /\ Edits(x, e, g, row)
    BY <1>1, <1>3, EditedOK, EditedShape
  <1> HIDE DEF e
  <1>7. z \in Session /\ Edits(x, z, g, row) /\ Turned(z, g)
    BY <1>3, <1>6, TurnedShape, EditsKeeps
  <1>8. NextGame(e) \in Session /\ Edits(x, NextGame(e), g, row) /\ Outside(NextGame(e))
    BY <1>6, NextGameShape, EditsKeeps
  <1> HIDE DEF z
  <1> QED BY <1>3, <1>4, <1>5, <1>7, <1>8 DEF JobApply

\* Reading a game and changing it in memory is one edit.
LEMMA LoadedEdited ==
  ASSUME NEW x \in Session, NEW g \in Games, NEW old, old = Loaded(x, g), NEW row, NEW y,
         Edits(old, y, g, row)
  PROVE  Edits(x, y, g, row) /\ old.gMem[g] = GameView(x, g)
  <1>1. /\ SameData(x, old) /\ old.report = x.report /\ old.dirty = x.dirty
        /\ old.gMem = [x.gMem EXCEPT ![g] = GameView(x, g)] /\ x.gMem \in [Games -> GameRow]
    BY DEF Loaded, Session, SameData
  <1>2. [old.gMem EXCEPT ![g] = row] = [x.gMem EXCEPT ![g] = row]
    BY <1>1
  <1> QED BY <1>1, <1>2 DEF Edits, SameData

LEMMA SyncGameShape ==
  ASSUME IInv, NEW s \in Sessions, SyncGame(s), NEW f, f = Flushed(sess[s])
  PROVE  /\ s \in SyncJobs /\ sess[s].pc = "loop"
         /\ f \in Session /\ FlushBlockers(s) = {}
         /\ \E g \in Games, y \in Session :
              LET r == f.report[g]
              IN /\ Step(s, y) /\ Edits(f, y, g, SyncReport(GameView(f, g), r))
                 /\ Outside(y) \/ (Turned(y, g) /\ r # "live")
  <1>1. sess[s] \in Session /\ TypeOK /\ PicksOK(sess[s]) /\ PointsAreCounted
    BY DEF IInv, TypeOK
  <1>2. /\ f \in Session /\ PicksOK(f) /\ f.todo = sess[s].todo /\ f.report = sess[s].report
    BY <1>1, FlushedType, FlushedPicks, FlushedShape
  <1>3. PICK g \in sess[s].todo :
          LET r == f.report[g]
              old == Loaded(f, g)
              e == Edited(old, g, SyncReport(old.gMem[g], r))
          IN \/ r # "live" /\ Step(s, [e EXCEPT !.cur = g, !.pc = "select"])
             \/ Step(s, NextGame(e))
    BY <1>2 DEF SyncGame, BecomesFinal
  <1> DEFINE old == Loaded(f, g)
             row == SyncReport(old.gMem[g], f.report[g])
             e == Edited(old, g, row)
             z == [e EXCEPT !.cur = g, !.pc = "select"]
  <1>4. (f.report[g] # "live" /\ Step(s, z)) \/ Step(s, NextGame(e))
    BY <1>3
  <1>5. g \in Games /\ old \in Session /\ old.gMem[g] \in GameRow
    BY <1>1, <1>2, LoadedOK DEF Session
  <1>6. row = SyncReport(old.gMem[g], f.report[g]) /\ old = Loaded(f, g)
    OBVIOUS
  <1> HIDE DEF old
  <1>7. row \in GameRow
    BY <1>2, <1>5, ReportType DEF Session
  <1> HIDE DEF row
  <1>8. e \in Session /\ Edits(old, e, g, row)
    BY <1>5, <1>7, EditedOK, EditedShape
  <1> HIDE DEF e
  <1>9. z \in Session /\ Edits(old, z, g, row) /\ Turned(z, g)
    BY <1>5, <1>8, TurnedShape, EditsKeeps
  <1>10. /\ NextGame(e) \in Session /\ Edits(old, NextGame(e), g, row)
         /\ Outside(NextGame(e))
    BY <1>5, <1>8, NextGameShape, EditsKeeps
  <1> HIDE DEF z
  <1>11. \E y \in Session :
           /\ Step(s, y) /\ Edits(old, y, g, row)
           /\ Outside(y) \/ (Turned(y, g) /\ f.report[g] # "live")
    BY <1>4, <1>9, <1>10
  <1>12. PICK y \in Session :
           /\ Step(s, y) /\ Edits(old, y, g, row)
           /\ Outside(y) \/ (Turned(y, g) /\ f.report[g] # "live")
    BY <1>11
  <1>13. Edits(f, y, g, row) /\ old.gMem[g] = GameView(f, g)
    BY <1>2, <1>5, <1>6, <1>12, LoadedEdited
  <1> QED BY <1>2, <1>5, <1>6, <1>12, <1>13 DEF SyncGame

LEMMA IdleShape ==
  /\ Idle \in Session /\ Idle.pc = "idle" /\ Idle.dirty = {} /\ DirtyPicks(Idle) = {}
  /\ Idle.lockedGames = {} /\ Idle.lockedPicks = {} /\ Idle.lockedUsers = {}
  /\ \A g \in Games : Idle.gMem[g] = NewGame /\ Idle.report[g] = "live"
  /\ \A p \in Picks : Idle.pBase[p] = NewPick /\ Idle.pMem[p] = NewPick
  BY IdleType DEF Idle, DirtyPicks

LEMMA AdminCorrectShape ==
  ASSUME TypeOK, NEW s \in Sessions, NEW g \in Games, NEW outcome \in Corrections,
         AdminCorrect(s, g, outcome)
  PROVE  /\ MayOpen(s)
         /\ \E y \in Session : /\ Step(s, y) /\ Turned(y, g)
                               /\ Edits(Idle, y, g, CorrectedRow(games[g], outcome))
  <1> DEFINE row == CorrectedRow(games[g], outcome)
             old == Loaded(Idle, g)
             e == Edited(old, g, row)
             y == [e EXCEPT !.cur = g, !.pc = "select"]
  <1>1. row \in GameRow
    BY AdminRowType, EnvironmentAssumption DEF TypeOK
  <1>2. Step(s, y)
    BY DEF AdminCorrect
  <1>3. row = CorrectedRow(games[g], outcome)
    OBVIOUS
  <1> HIDE DEF row
  <1>4. old \in Session /\ old = Loaded(Idle, g)
    BY IdleType, IdleOK, LoadedOK
  <1> HIDE DEF old
  <1>5. e \in Session /\ Edits(old, e, g, row)
    BY <1>1, <1>4, EditedOK, EditedShape
  <1> HIDE DEF e
  <1>6. y \in Session /\ Edits(old, y, g, row) /\ Turned(y, g)
    <2>1. y \in Session /\ Keeps(e, y) /\ Turned(y, g)
      BY <1>5, TurnedShape
    <2> HIDE DEF y
    <2> QED BY <1>5, <2>1, EditsKeeps
  <1> HIDE DEF y
  <1>7. Edits(Idle, y, g, row)
    BY <1>4, <1>6, IdleType, LoadedEdited
  <1> QED BY <1>2, <1>3, <1>6, <1>7 DEF AdminCorrect

LEMMA AdminRescoreShape ==
  ASSUME TypeOK, NEW s \in Sessions, NEW g \in Games, AdminRescore(s, g)
  PROVE  /\ MayOpen(s) /\ Rescoring
         /\ \E y \in Session : /\ Step(s, y) /\ Turned(y, g)
                               /\ SameData(Idle, y) /\ y.dirty = {}
                               /\ y.report = Idle.report
  <1> DEFINE old == Loaded(Idle, g)
             y == [old EXCEPT !.cur = g, !.pc = "select"]
  <1>1. Step(s, y)
    BY DEF AdminRescore
  <1>2. old \in Session /\ SameData(Idle, old) /\ old.dirty = {} /\ old.report = Idle.report
    BY IdleType, IdleOK, IdleShape, LoadedOK DEF Loaded, SameData, Session
  <1> HIDE DEF old
  <1>3. y \in Session /\ Keeps(old, y) /\ Turned(y, g)
    BY <1>2, TurnedShape
  <1> HIDE DEF y
  <1> QED BY <1>1, <1>2, <1>3 DEF Keeps, SameData, AdminRescore

LEMMA FetchedShape ==
  ASSUME TypeOK, NEW x \in Session, NEW listed \in SUBSET Games, NEW y, y = Fetched(x, listed),
         PicksOK(x)
  PROVE  /\ y \in Session /\ SameData(x, y) /\ y.gMem = x.gMem /\ y.dirty = x.dirty
         /\ Outside(y) /\ \A g \in Games : y.report[g] \in {"live", feed[g]}
  <1>1. y \in Session
    BY FetchedOK
  <1> QED BY <1>1 DEF Fetched, Session, SameData, Outside

LEMMA JobSelectShape ==
  ASSUME TypeOK, NEW s \in Sessions, JobSelect(s)
  PROVE  /\ MayOpen(s)
         /\ \E y \in Session : /\ Step(s, y) /\ y.pc = "fetch"
                               /\ SameData(Idle, y) /\ y.dirty = {}
                               /\ y.report = Idle.report
                               /\ \A g \in Games : y.gMem[g] \in {games[g], NewGame}
  <1> DEFINE open == {g \in Games : games[g].status = "open"}
             rows == [g \in Games |-> IF g \in open THEN games[g] ELSE NewGame]
             y == [Idle EXCEPT !.pc = "fetch", !.todo = open, !.gBase = rows, !.gMem = rows]
  <1>1. /\ rows \in [Games -> GameRow] /\ open \in SUBSET Games
        /\ \A g \in Games : rows[g] \in {games[g], NewGame}
    BY NewRows DEF TypeOK
  <1>2. Step(s, y)
    BY DEF JobSelect
  <1> HIDE DEF open, rows
  <1>3. /\ y \in Session /\ y.pc = "fetch" /\ SameData(Idle, y)
        /\ y.dirty = {} /\ y.report = Idle.report /\ y.gMem = rows
    BY <1>1, IdleShape DEF Session, PCs, SameData
  <1> HIDE DEF y
  <1> QED BY <1>1, <1>2, <1>3 DEF JobSelect

LEMMA ScoringFailsShape ==
  ASSUME IInv, NEW s \in Sessions, ScoringFails(s)
  PROVE  \E x, y \in Session :
           /\ x = sess[s] \/ (x = Flushed(sess[s]) /\ FlushBlockers(s) = {})
           /\ x.cur \in Games /\ Step(s, y)
           /\ \/ Outside(y) /\ Keeps(x, y)
              \/ Outside(y) /\ Edits(x, y, x.cur, Reverted(x.gMem[x.cur]))
              \/ y = Idle
  <1> DEFINE x == IF sess[s].pc = "select" THEN Flushed(sess[s]) ELSE sess[s]
             g == x.cur
             w == [x EXCEPT !.users = {}, !.stat = NoStats, !.who = Nobody]
             y == NextGame(w)
             row == Reverted(x.gMem[g])
             e == Edited(y, g, row)
  <1>1. /\ x \in Session /\ g \in Games
        /\ x = sess[s] \/ (x = Flushed(sess[s]) /\ FlushBlockers(s) = {})
    BY FailingSession
  <1>2. Step(s, y) \/ Step(s, e) \/ Step(s, Idle)
    BY DEF ScoringFails
  <1>3. row \in GameRow
    BY <1>1, AdminRowType DEF Session
  <1>4. g = x.cur /\ row = Reverted(x.gMem[x.cur])
    OBVIOUS
  <1> HIDE DEF x, g, row
  <1>5. w \in Session /\ Keeps(x, w)
    BY <1>1, NewRows DEF Session, Keeps, SameData
  <1> HIDE DEF w
  <1>6. y \in Session /\ Outside(y) /\ Keeps(w, y)
    BY <1>5, NextGameShape
  <1>7. Keeps(x, y)
    BY <1>5, <1>6 DEF Keeps, SameData
  <1> HIDE DEF y
  <1>8. e \in Session /\ Edits(y, e, g, row) /\ Outside(e)
    BY <1>1, <1>3, <1>6, EditedOK, EditedShape DEF Outside
  <1> HIDE DEF e
  <1>9. Edits(x, e, g, row)
    BY <1>7, <1>8 DEF Edits, Keeps, SameData
  <1> QED BY <1>1, <1>2, <1>4, <1>6, <1>7, <1>8, <1>9, IdleType

LEMMA CommitShape ==
  ASSUME TypeOK, NEW s \in Sessions, Commit(s), NEW f, f = Flushed(sess[s])
  PROVE  /\ f \in Session /\ FlushBlockers(s) = {} /\ sess[s].pc = "commit"
         /\ games' = [g \in Games |-> GameView(f, g)]
         /\ picks' = [p \in Picks |-> PickView(f, p)]
         /\ stats' = [u \in Users |-> IF u \in f.lockedUsers THEN f.sVer[u] ELSE stats[u]]
         /\ sess' = [sess EXCEPT ![s] = Idle] /\ feed' = feed
  <1>1. f \in Session
    BY FlushedType DEF TypeOK
  <1> QED BY <1>1 DEF Commit, TypeOK

-----------------------------------------------------------------------------
(***************************************************************************)
(* Points go to correct picks only, as long as nobody uses the rescore     *)
(* endpoint.  Every other session changes the row of the game before it    *)
(* reads the picks, so that the flush of that row locks the game: of the   *)
(* picks it is about to write, a session knows what is committed, and      *)
(* writes both columns of a pick or neither.                               *)
(***************************************************************************)
Fresh(x) == \A p \in DirtyPicks(x) : x.pBase[p] = PickView(x, p)
RightRow(row) == row.points = 1 => row.correct = "right"

RaceOK(x) ==
    /\ Fresh(x)
    /\ \A p \in DirtyPicks(x) : p[2] \in x.lockedGames /\ RightRow(x.pMem[p])
    /\ \A p \in x.lockedPicks : p[2] \in x.lockedGames /\ RightRow(x.pVer[p])

GameHeld(x) == x.pc = "select" => x.cur \in x.dirty \cup x.lockedGames

GameLocksExclusive ==
    \A s, t \in Sessions : s # t => sess[s].lockedGames \cap sess[t].lockedGames = {}

RaceInv ==
    /\ GameLocksExclusive
    /\ PointsOnlyForCorrectPicks
    /\ \A s \in Sessions : RaceOK(sess[s]) /\ GameHeld(sess[s])

\* What a session flushes is what it then sees, if it knew the rows.
\* Where a session loaded what it sees, a flush writes what it has in memory.
LEMMA FlushView ==
  ASSUME TypeOK, NEW x \in Session, NEW f, f = Flushed(x), NEW p \in Picks,
         p \in DirtyPicks(x) => x.pBase[p] = PickView(x, p)
  PROVE  PickView(f, p) = IF p \in DirtyPicks(x) THEN x.pMem[p] ELSE PickView(x, p)
  <1>1. /\ f.lockedPicks = x.lockedPicks \cup DirtyPicks(x)
        /\ f.pVer[p] = IF p \in DirtyPicks(x)
                       THEN PickUpdate(PickView(x, p), x.pBase[p], x.pMem[p]) ELSE x.pVer[p]
    BY FlushedShape
  <1>2. CASE p \in DirtyPicks(x)
    <2>1. x.pBase[p] = PickView(x, p) /\ x.pMem[p] \in PickRow
      BY <1>2 DEF Session
    <2> DEFINE base == x.pBase[p]
               mem == x.pMem[p]
    <2>2. f.pVer[p] = PickUpdate(base, base, mem) /\ mem \in PickRow
      BY <1>1, <1>2, <2>1
    <2> HIDE DEF base, mem
    <2>3. PickUpdate(base, base, mem) = mem
      BY <2>2 DEF PickUpdate, PickRow
    <2> QED BY <1>1, <1>2, <2>2, <2>3 DEF PickView, mem
  <1>3. CASE p \notin DirtyPicks(x)
    BY <1>1, <1>3 DEF PickView
  <1> QED BY <1>2, <1>3

LEMMA FreshFlush ==
  ASSUME TypeOK, NEW x \in Session, Fresh(x), NEW f, f = Flushed(x), NEW p \in Picks
  PROVE  PickView(f, p) = IF p \in DirtyPicks(x) THEN x.pMem[p] ELSE PickView(x, p)
  <1>1. p \in DirtyPicks(x) => x.pBase[p] = PickView(x, p)
    BY DEF Fresh
  <1> QED BY <1>1, FlushView

LEMMA RaceSame ==
  ASSUME NEW x, NEW y, RaceOK(x), y.pBase = x.pBase, y.pMem = x.pMem, y.pVer = x.pVer,
         y.lockedPicks = x.lockedPicks, y.lockedGames = x.lockedGames
  PROVE  RaceOK(y)
  <1>1. DirtyPicks(y) = DirtyPicks(x) /\ \A p \in Picks : PickView(y, p) = PickView(x, p)
    BY DEF DirtyPicks, PickView
  <1>2. DirtyPicks(x) \subseteq Picks
    BY DEF DirtyPicks
  <1> QED BY <1>1, <1>2 DEF RaceOK, Fresh

LEMMA RaceFlushed ==
  ASSUME TypeOK, NEW x \in Session, RaceOK(x), NEW f, f = Flushed(x)
  PROVE  RaceOK(f)
  <1>1. /\ DirtyPicks(f) = {} /\ x.lockedGames \subseteq f.lockedGames
        /\ f.lockedPicks = x.lockedPicks \cup DirtyPicks(x)
    BY FlushedShape
  <1>2. Fresh(f)
    BY <1>1 DEF Fresh
  <1>3. ASSUME NEW p \in f.lockedPicks
        PROVE  p[2] \in f.lockedGames /\ RightRow(f.pVer[p])
    <2>1. p \in Picks /\ p[2] \in f.lockedGames
      BY <1>1 DEF RaceOK, DirtyPicks, Session
    <2>2. f.pVer[p] = PickView(f, p)
      BY DEF PickView
    <2>3. CASE p \in DirtyPicks(x)
      BY <2>1, <2>2, <2>3, FreshFlush DEF RaceOK
    <2>4. CASE p \notin DirtyPicks(x)
      <3>1. p \in x.lockedPicks
        BY <1>1, <2>4
      <3>2. f.pVer[p] = x.pVer[p]
        BY <2>1, <2>4, FlushedShape
      <3> QED BY <2>1, <3>1, <3>2 DEF RaceOK
    <2> QED BY <2>3, <2>4
  <1> QED BY <1>1, <1>2, <1>3 DEF RaceOK

LEMMA IdleRace == RaceOK(Idle) /\ GameHeld(Idle)
  BY IdleShape DEF RaceOK, GameHeld, Fresh

\* A flush that need not wait locks games that nobody holds.
LEMMA GamesFree ==
  ASSUME IInv, RaceInv, NEW s \in Sessions
  PROVE  /\ GameBlockers(s, sess[s].lockedGames) = {}
         /\ GameBlockers(s, Idle.lockedGames) = {}
         /\ FlushBlockers(s) = {} => GameBlockers(s, Flushed(sess[s]).lockedGames) = {}
  <1>1. GameBlockers(s, sess[s].lockedGames) = {} /\ GameBlockers(s, Idle.lockedGames) = {}
    BY IdleShape DEF RaceInv, GameLocksExclusive, GameBlockers, Others
  <1>2. Flushed(sess[s]).lockedGames = sess[s].lockedGames \cup sess[s].dirty
    BY FlushedShape DEF IInv, TypeOK
  <1>3. FlushBlockers(s) = {} => GameBlockers(s, sess[s].dirty) = {}
    BY DEF FlushBlockers
  <1> QED BY <1>1, <1>2, <1>3 DEF GameBlockers

LEMMA RaceStep ==
  ASSUME IInv, RaceInv, NEW s \in Sessions, NEW y, RaceOK(y), GameHeld(y),
         GameBlockers(s, y.lockedGames) = {},
         sess' = [sess EXCEPT ![s] = y], picks' = picks
  PROVE  RaceInv'
  <1>1. sess'[s] = y /\ \A t \in Sessions : t # s => sess'[t] = sess[t]
    BY DEF IInv, TypeOK
  <1>2. GameLocksExclusive'
    <2>1. \A t \in Sessions : t # s => y.lockedGames \cap sess[t].lockedGames = {}
      BY DEF GameBlockers, Others
    <2> QED BY <1>1, <2>1 DEF RaceInv, GameLocksExclusive
  <1>3. PointsOnlyForCorrectPicks'
    BY DEF RaceInv, PointsOnlyForCorrectPicks
  <1>4. ASSUME NEW t \in Sessions
        PROVE  RaceOK(sess[t])' /\ GameHeld(sess[t])'
    <2>1. RaceOK(sess'[t]) /\ GameHeld(sess'[t])
      BY <1>1 DEF RaceInv
    <2> QED BY <2>1 DEF RaceOK, GameHeld, Fresh, PickView, DirtyPicks
  <1> QED BY <1>2, <1>3, <1>4 DEF RaceInv

\* The session of a step starts from x, whose games nobody else holds.
LEMMA RaceMoves ==
  ASSUME IInv, RaceInv, NEW s \in Sessions, NEW x, NEW y, RaceOK(x),
         GameBlockers(s, x.lockedGames) = {}, Step(s, y), SameData(x, y), GameHeld(y)
  PROVE  RaceInv'
  <1>1. RaceOK(y) /\ GameBlockers(s, y.lockedGames) = {}
    BY RaceSame DEF SameData
  <1> QED BY <1>1, RaceStep DEF Step

LEMMA RaceEdits ==
  ASSUME IInv, RaceInv, NEW s \in Sessions, NEW x, NEW y, NEW g, NEW row, RaceOK(x),
         GameBlockers(s, x.lockedGames) = {}, Step(s, y), Edits(x, y, g, row),
         Outside(y) \/ Turned(y, g)
  PROVE  RaceInv'
  <1>1. SameData(x, y) /\ GameHeld(y)
    BY DEF Edits, GameHeld, Outside, Turned
  <1> QED BY <1>1, RaceMoves

LEMMA RaceScored ==
  ASSUME IInv, RaceInv, NEW s \in Sessions, NEW x \in Session, x.cur \in Games, NEW y,
         RaceOK(x), GameBlockers(s, x.lockedGames) = {}, Step(s, y), y = Scored(s, x)
  PROVE  RaceInv'
  <1>1. SameData(x, y) /\ GameHeld(y)
    BY ScoredShape DEF Keeps, Edits, GameHeld, Outside
  <1> QED BY <1>1, RaceMoves

LEMMA RaceSelectPicks ==
  ASSUME IInv, RaceInv, NEW s \in Sessions, SelectPicks(s)
  PROVE  RaceInv'
  <1> DEFINE x == sess[s]
             f == Flushed(x)
  <1>1. x \in Session /\ TypeOK /\ x.cur \in Games /\ x.pc = "select"
    BY DEF IInv, TypeOK, ProgramOK, SelectPicks
  <1>2. /\ FlushBlockers(s) = {} /\ f \in Session
        /\ \/ \E y \in Session : Step(s, y) /\ y = Scored(s, f)
           \/ \E y \in Session : Step(s, y) /\ Grades(f, y)
    BY <1>1, SelectPicksShape
  <1>3. /\ RaceOK(f) /\ f.cur = x.cur /\ DirtyPicks(f) = {} /\ f.cur \in f.lockedGames
        /\ GameBlockers(s, f.lockedGames) = {}
    BY <1>1, <1>2, RaceFlushed, FlushedShape, GamesFree DEF RaceInv, GameHeld
  <1>4. ASSUME NEW y \in Session, Step(s, y), y = Scored(s, f)
        PROVE  RaceInv'
    BY <1>1, <1>2, <1>3, <1>4, RaceScored
  <1>5. ASSUME NEW y \in Session, Step(s, y), Grades(f, y)
        PROVE  RaceInv'
    <2> HIDE DEF f, x
    <2>1. \A p \in Picks : PickView(y, p) = PickView(f, p)
      BY <1>5 DEF Grades, PickView
    <2>2. ASSUME NEW p \in DirtyPicks(y)
          PROVE  /\ p \in Picks /\ p[2] = f.cur
                 /\ y.pBase[p] = PickView(f, p)
                 /\ y.pMem[p] = Graded(f.gMem[f.cur].winner, p, PickView(f, p))
      <3>1. p \in Picks /\ y.pMem[p] # y.pBase[p] /\ f.pMem[p] = f.pBase[p]
        BY <1>3 DEF DirtyPicks
      <3> QED BY <1>5, <3>1 DEF Grades
    <2>3. ASSUME NEW w, NEW p \in Picks
          PROVE  RightRow(Graded(w, p, PickView(f, p)))
      <3>1. PickView(f, p) \in PickRow
        BY <1>1, <1>2, ViewType
      <3> DEFINE row == PickView(f, p)
      <3> HIDE DEF row
      <3>2. row \in PickRow => RightRow(Graded(w, p, row))
        BY DEF RightRow, Graded, PickRow
      <3> QED BY <3>1, <3>2 DEF row
    <2>4. /\ y.lockedGames = f.lockedGames /\ y.lockedPicks = f.lockedPicks /\ y.pVer = f.pVer
          /\ y.pc = "recalc"
      BY <1>5 DEF Grades
    <2>5. RaceOK(y)
      <3>1. Fresh(y)
        BY <2>1, <2>2 DEF Fresh
      <3>2. \A p \in DirtyPicks(y) : p[2] \in y.lockedGames /\ RightRow(y.pMem[p])
        BY <1>3, <2>2, <2>3, <2>4
      <3>3. \A p \in y.lockedPicks : p[2] \in y.lockedGames /\ RightRow(y.pVer[p])
        BY <1>3, <2>4 DEF RaceOK
      <3> QED BY <3>1, <3>2, <3>3 DEF RaceOK
    <2>6. GameHeld(y)
      BY <2>4 DEF GameHeld
    <2> QED BY <1>3, <1>5, <2>4, <2>5, <2>6, RaceStep DEF Step
  <1> QED BY <1>2, <1>4, <1>5

LEMMA RaceScoring ==
  ASSUME IInv, RaceInv, NEW s \in Sessions, SelectScoredPicks(s) \/ UpdateParticipant(s)
  PROVE  RaceInv'
  <1> DEFINE x == sess[s]
             f == Flushed(x)
  <1>1. x \in Session /\ TypeOK /\ x.cur \in Games /\ RaceOK(x)
    BY DEF IInv, TypeOK, ProgramOK, SelectScoredPicks, UpdateParticipant, RaceInv
  <1>2. CASE SelectScoredPicks(s)
    <2>1. PICK y \in Session : Step(s, y) /\ Keeps(f, y) /\ y.pc = "store"
      BY <1>1, <1>2, SelectScoredPicksShape
    <2>2. RaceOK(f) /\ GameBlockers(s, f.lockedGames) = {}
      BY <1>1, <1>2, RaceFlushed, GamesFree DEF SelectScoredPicks
    <2>3. SameData(f, y) /\ GameHeld(y)
      BY <2>1 DEF Keeps, GameHeld
    <2> HIDE DEF f
    <2> QED BY <2>1, <2>2, <2>3, RaceMoves
  <1>3. CASE UpdateParticipant(s)
    <2>1. x.who \in Users
      BY <1>3 DEF UpdateParticipant, IInv, ProgramOK
    <2>2. PICK z \in Session :
            /\ Stores(x, z)
            /\ \/ \E y \in Session : Step(s, y) /\ y = Scored(s, z)
               \/ z.pc = "recalc" /\ Step(s, z)
      BY <1>1, <1>3, <2>1, UpdateParticipantShape
    <2>3. GameBlockers(s, x.lockedGames) = {}
      BY GamesFree
    <2> HIDE DEF x
    <2>4. RaceOK(z) /\ z.cur \in Games /\ z.lockedGames = x.lockedGames
      BY <1>1, <2>2, RaceSame DEF Stores
    <2>5. ASSUME NEW y \in Session, Step(s, y), y = Scored(s, z)
          PROVE  RaceInv'
      BY <2>3, <2>4, <2>5, RaceScored
    <2>6. CASE z.pc = "recalc" /\ Step(s, z)
      BY <2>3, <2>4, <2>6, RaceStep DEF Step, GameHeld
    <2> QED BY <2>2, <2>5, <2>6
  <1> QED BY <1>2, <1>3

LEMMA RaceJobs ==
  ASSUME IInv, RaceInv, NEW s \in Sessions,
         \/ JobApply(s) \/ SyncGame(s) \/ JobSelect(s)
         \/ \E listed \in SUBSET Games : JobFetch(s, listed) \/ SyncFetch(s, listed)
  PROVE  RaceInv'
  <1> DEFINE x == sess[s]
             f == Flushed(x)
  <1>1. x \in Session /\ TypeOK /\ RaceOK(x) /\ GameBlockers(s, x.lockedGames) = {}
    BY GamesFree DEF IInv, TypeOK, RaceInv
  <1>2. RaceOK(Idle) /\ GameBlockers(s, Idle.lockedGames) = {}
    BY IdleRace, GamesFree
  <1>3. CASE JobApply(s)
    <2>1. PICK g \in Games, y \in Session :
            /\ Step(s, y) /\ Edits(x, y, g, JobReport(x.gMem[g], x.report[g]))
            /\ Outside(y) \/ Turned(y, g)
      BY <1>1, <1>3, JobApplyShape
    <2> QED BY <1>1, <2>1, RaceEdits
  <1>4. CASE SyncGame(s)
    <2>1. FlushBlockers(s) = {} /\ RaceOK(f)
      BY <1>1, <1>4, RaceFlushed DEF SyncGame
    <2>2. GameBlockers(s, f.lockedGames) = {}
      BY <2>1, GamesFree
    <2>3. PICK g \in Games, y \in Session :
            /\ Step(s, y) /\ Edits(f, y, g, SyncReport(GameView(f, g), f.report[g]))
            /\ Outside(y) \/ Turned(y, g)
      BY <1>4, SyncGameShape
    <2> HIDE DEF f
    <2> QED BY <2>1, <2>2, <2>3, RaceEdits
  <1>5. CASE JobSelect(s)
    <2>1. PICK y \in Session : Step(s, y) /\ y.pc = "fetch" /\ SameData(Idle, y)
      BY <1>1, <1>5, JobSelectShape
    <2> QED BY <1>2, <2>1, RaceMoves DEF GameHeld
  <1>6. ASSUME NEW listed \in SUBSET Games, JobFetch(s, listed) \/ SyncFetch(s, listed)
        PROVE  RaceInv'
    <2>1. PicksOK(x) /\ PicksOK(Idle) /\ Idle \in Session
      BY IdleOK, IdleType DEF IInv
    <2>2. CASE Step(s, Fetched(x, listed))
      <3>1. SameData(x, Fetched(x, listed)) /\ Outside(Fetched(x, listed))
        BY <1>1, <2>1, FetchedShape
      <3> QED BY <1>1, <2>2, <3>1, RaceMoves DEF GameHeld, Outside
    <2>3. CASE Step(s, Fetched(Idle, listed))
      <3>1. SameData(Idle, Fetched(Idle, listed)) /\ Outside(Fetched(Idle, listed))
        BY <1>1, <2>1, FetchedShape
      <3> QED BY <1>2, <2>3, <3>1, RaceMoves DEF GameHeld, Outside
    <2> QED BY <1>6, <2>2, <2>3 DEF JobFetch, SyncFetch
  <1> QED BY <1>3, <1>4, <1>5, <1>6

LEMMA RaceOthers ==
  ASSUME IInv, RaceInv, ~Rescoring, NEW s \in Sessions,
         \/ \E g \in Games : AdminRescore(s, g)
         \/ \E g \in Games, outcome \in Corrections : AdminCorrect(s, g, outcome)
         \/ ScoringFails(s) \/ Abort(s) \/ DeadlockVictim(s)
  PROVE  RaceInv'
  <1> DEFINE x == sess[s]
  <1>1. x \in Session /\ TypeOK /\ RaceOK(x) /\ GameBlockers(s, x.lockedGames) = {}
    BY GamesFree DEF IInv, TypeOK, RaceInv
  <1>2. RaceOK(Idle) /\ GameBlockers(s, Idle.lockedGames) = {} /\ GameHeld(Idle)
    BY IdleRace, GamesFree
  <1>3. ASSUME NEW g \in Games, AdminRescore(s, g)
        PROVE  FALSE
    BY <1>3 DEF AdminRescore
  <1>4. ASSUME NEW g \in Games, NEW outcome \in Corrections, AdminCorrect(s, g, outcome)
        PROVE  RaceInv'
    <2>1. PICK y \in Session : /\ Step(s, y) /\ Turned(y, g)
                               /\ Edits(Idle, y, g, CorrectedRow(games[g], outcome))
      BY <1>1, <1>4, AdminCorrectShape
    <2> QED BY <1>2, <2>1, RaceEdits
  <1>5. CASE ScoringFails(s)
    <2>1. PICK z, y \in Session :
            /\ z = x \/ (z = Flushed(x) /\ FlushBlockers(s) = {})
            /\ Step(s, y)
            /\ \/ Outside(y) /\ Keeps(z, y)
               \/ Outside(y) /\ Edits(z, y, z.cur, Reverted(z.gMem[z.cur]))
               \/ y = Idle
      BY <1>5, ScoringFailsShape
    <2>2. RaceOK(z) /\ GameBlockers(s, z.lockedGames) = {}
      BY <1>1, <2>1, RaceFlushed, GamesFree
    <2>3. CASE y = Idle
      BY <1>2, <2>1, <2>3, RaceStep DEF Step
    <2>4. CASE y # Idle
      BY <2>1, <2>2, <2>4, RaceMoves DEF Outside, Keeps, Edits, GameHeld
    <2> QED BY <2>3, <2>4
  <1>6. CASE Abort(s) \/ DeadlockVictim(s)
    BY <1>2, <1>6, RaceStep DEF Abort, DeadlockVictim, Step
  <1> QED BY <1>3, <1>4, <1>5, <1>6

LEMMA RaceCommit ==
  ASSUME IInv, RaceInv, NEW s \in Sessions, Commit(s)
  PROVE  RaceInv'
  <1> DEFINE f == Flushed(sess[s])
  <1>1. sess[s] \in Session /\ TypeOK /\ RaceOK(sess[s])
    BY DEF IInv, TypeOK, RaceInv
  <1>2. /\ FlushBlockers(s) = {} /\ f \in Session /\ picks' = [p \in Picks |-> PickView(f, p)]
        /\ sess' = [sess EXCEPT ![s] = Idle]
    BY <1>1, CommitShape
  <1>3. RaceOK(f) /\ GameBlockers(s, f.lockedGames) = {}
    BY <1>1, <1>2, RaceFlushed, GamesFree
  <1> HIDE DEF f
  <1>4. sess'[s] = Idle /\ \A t \in Sessions : t # s => sess'[t] = sess[t]
    BY <1>2 DEF IInv, TypeOK
  <1>5. GameLocksExclusive'
    BY <1>4, IdleShape DEF RaceInv, GameLocksExclusive
  <1>6. PointsOnlyForCorrectPicks'
    <2>1. \A p \in Picks : RightRow(PickView(f, p))
      BY <1>3 DEF RaceInv, PointsOnlyForCorrectPicks, PickView, RaceOK, RightRow
    <2> QED BY <1>2, <2>1 DEF PointsOnlyForCorrectPicks, RightRow
  <1>7. ASSUME NEW t \in Sessions
        PROVE  RaceOK(sess[t])' /\ GameHeld(sess[t])'
    <2>1. CASE t = s
      BY <1>4, <2>1, IdleShape DEF RaceOK, GameHeld, Fresh, DirtyPicks
    <2>2. CASE t # s
      <3>1. sess'[t] = sess[t] /\ RaceOK(sess[t]) /\ GameHeld(sess[t])
        BY <1>4, <2>2 DEF RaceInv
      <3>2. ASSUME NEW p \in DirtyPicks(sess[t])
            PROVE  p \in Picks /\ picks'[p] = picks[p]
        <4>1. p \in Picks /\ p[2] \in sess[t].lockedGames
          BY <3>1 DEF RaceOK, DirtyPicks
        <4>2. p \notin f.lockedPicks
          BY <1>3, <2>2, <4>1 DEF GameBlockers, Others, RaceOK
        <4> QED BY <1>2, <4>1, <4>2 DEF PickView
      <3>3. Fresh(sess[t])'
        BY <3>1, <3>2 DEF RaceOK, Fresh, PickView, DirtyPicks
      <3> QED BY <3>1, <3>3 DEF RaceOK, GameHeld, DirtyPicks
    <2> QED BY <2>1, <2>2
  <1> QED BY <1>5, <1>6, <1>7 DEF RaceInv

\* Whatever sessions run at the same time and whatever fails, a pick worth a
\* point is a correct pick, unless admins use the rescore endpoint.
THEOREM PointsAlwaysForCorrectPicks ==
  ASSUME ~Rescoring
  PROVE  Spec => []PointsOnlyForCorrectPicks
  <1>1. Init => RaceInv
    BY IdleRace, IdleShape DEF Init, RaceInv, GameLocksExclusive, PointsOnlyForCorrectPicks,
                               NewPick
  <1>2. IInv /\ RaceInv /\ [Next]_vars => RaceInv'
    <2> SUFFICES ASSUME IInv, RaceInv, [Next]_vars PROVE RaceInv'
      OBVIOUS
    <2>1. ASSUME NEW s \in Sessions, Work(s) PROVE RaceInv'
      BY <2>1, RaceSelectPicks, RaceScoring, RaceJobs, RaceCommit DEF Work
    <2>2. CASE (\E g \in Games : FeedReport(g)) \/ UNCHANGED vars
      <3>1. picks' = picks /\ sess' = sess
        BY <2>2 DEF FeedReport, vars
      <3> QED BY <3>1 DEF RaceInv, GameLocksExclusive, PointsOnlyForCorrectPicks, RaceOK,
                          GameHeld, Fresh, PickView, DirtyPicks
    <2> QED BY <2>1, <2>2, RaceJobs, RaceOthers DEF Next
  <1> QED BY <1>1, <1>2, Invariance, PTL DEF RaceInv, Spec

-----------------------------------------------------------------------------
(***************************************************************************)
(* The aggregates are those of the picks, but for the participants whose   *)
(* last recalculation was disturbed.  Of a participant that it alone has   *)
(* visited a session knows everything: what it loaded of the picks it is   *)
(* about to write is what it sees of them (Known), what it computed and    *)
(* wrote of the aggregates is what it sees, or is about to write, of the   *)
(* picks (Sound) - and whatever was stored before is overwritten.          *)
(***************************************************************************)
Tally(R, u) == Aggregate({p \in PicksOf(u) : R[p].correct # "null"}, R)
Latest(x) == [p \in Picks |-> IF p \in DirtyPicks(x) THEN x.pMem[p] ELSE PickView(x, p)]

Known(x, u) ==
    \A p \in PicksOf(u) :
      p \in DirtyPicks(x) \/ (p[2] = x.cur /\ x.pc \in {"recalc", "store"})
        => x.pBase[p] = PickView(x, p)
Written(x, u) == u \in x.lockedUsers /\ x.sVer[u] = Tally(Latest(x), u)
Sound(x, u) ==
    /\ Known(x, u)
    /\ u \notin Unwritten(x) => Written(x, u)
    /\ x.pc = "store" /\ x.who = u => x.stat = Tally(Latest(x), u)

\* A session has work left on aggregates only in the middle of a scoring.
Turns(x) ==
    /\ x.pc \notin {"recalc", "store"} => x.users = {}
    /\ x.pc # "store" => x.who = Nobody

\* All that a session has written, or will, belongs to the participants in V.
Covers(V, x) ==
    /\ \A p \in Picks : p \in DirtyPicks(x) \/ p \in x.lockedPicks => p[1] \in V
    /\ x.lockedUsers \subseteq V /\ Unwritten(x) \subseteq V

Visitor(s) ==
    /\ Covers(visited[s], sess[s])
    /\ sess[s].pc = "idle" => visited[s] = {}
    /\ \A u \in visited[s] \ disturbed[s] :
         Sound(sess[s], u) /\ \A t \in Sessions : t # s => u \notin visited[t]

TurnsInv == \A s \in Sessions : Turns(sess[s])

VisitInv ==
    /\ \A s \in Sessions : Visitor(s)
    /\ \A u \in Users \ doubtful : stats[u] = Tally(picks, u)

\* The aggregates depend on the rows that they are about.
LEMMA AggregateSame ==
  ASSUME NEW P, NEW R, NEW S, \A p \in P : R[p] = S[p]
  PROVE  Aggregate(P, R) = Aggregate(P, S)
  <1>1. /\ {p \in P : R[p].correct = "right"} = {p \in P : S[p].correct = "right"}
        /\ {p \in P : R[p].correct = "wrong"} = {p \in P : S[p].correct = "wrong"}
        /\ {p \in P : R[p].points = 1} = {p \in P : S[p].points = 1}
    OBVIOUS
  <1> QED BY <1>1 DEF Aggregate

LEMMA TallySame ==
  ASSUME NEW u, NEW R, NEW S, \A p \in PicksOf(u) : R[p] = S[p]
  PROVE  Tally(R, u) = Tally(S, u)
  <1> DEFINE P == {p \in PicksOf(u) : R[p].correct # "null"}
             Q == {p \in PicksOf(u) : S[p].correct # "null"}
  <1>1. P = Q /\ \A p \in P : R[p] = S[p]
    OBVIOUS
  <1>2. Tally(R, u) = Aggregate(P, R) /\ Tally(S, u) = Aggregate(Q, S)
    BY DEF Tally
  <1> HIDE DEF P, Q
  <1> QED BY <1>1, <1>2, AggregateSame

\* y has the same work left on aggregates as x.
Leaves(x, y) == y.users = x.users /\ y.who = x.who

LEMMA TurnsKept ==
  ASSUME NEW x \in Session
  PROVE  /\ Leaves(x, Flushed(x))
         /\ \A g \in Games : Leaves(x, Loaded(x, g))
         /\ Leaves(x, NextGame(x)) /\ NextGame(x).pc \in {"commit", "loop"}
  BY DEF Leaves, Flushed, Loaded, NextGame, Session

LEMMA TurnsEdited ==
  ASSUME NEW x \in Session, NEW g \in Games, NEW row
  PROVE  Leaves(x, Edited(x, g, row))
  BY DEF Leaves, Edited, Session

LEMMA TurnsScored ==
  ASSUME NEW s, NEW x \in Session, x.cur \in Games
  PROVE  Leaves(x, Scored(s, x)) /\ Scored(s, x).pc \in {"commit", "loop"}
  <1> DEFINE m == Marked(x)
             y == [x EXCEPT !.pc = "commit"]
  <1>1. m \in Session /\ Leaves(x, m)
    BY EditedOK, GameRowEdits, TurnsEdited DEF Marked, Session
  <1>2. Leaves(x, y) /\ y.pc = "commit"
    BY DEF Leaves, Session
  <1>3. Scored(s, x) = NextGame(m) \/ Scored(s, x) = NextGame(x) \/ Scored(s, x) = y
    BY DEF Scored
  <1> HIDE DEF m, y
  <1> QED BY <1>1, <1>2, <1>3, TurnsKept DEF Leaves

LEMMA TurnsIdle == Turns(Idle) /\ Idle.users = {} /\ Idle.who = Nobody
  BY DEF Idle, Turns

LEMMA TurnsStep ==
  ASSUME IInv, TurnsInv, NEW s \in Sessions, NEW y, sess' = [sess EXCEPT ![s] = y], Turns(y)
  PROVE  TurnsInv'
  BY DEF IInv, TypeOK, TurnsInv, Turns

\* A session that is not in the middle of a scoring, and one that continues it.
LEMMA TurnsRest ==
  ASSUME IInv, TurnsInv, NEW s \in Sessions, NEW x, NEW y, Step(s, y), Leaves(x, y),
         x.users = {}, x.who = Nobody
  PROVE  TurnsInv'
  BY TurnsStep DEF Step, Turns, Leaves

LEMMA TurnsScoring ==
  ASSUME IInv, TurnsInv, NEW s \in Sessions,
         SelectPicks(s) \/ SelectScoredPicks(s) \/ UpdateParticipant(s) \/ ScoringFails(s)
  PROVE  TurnsInv'
  <1> DEFINE x == sess[s]
             f == Flushed(x)
  <1>1. x \in Session /\ f \in Session /\ Leaves(x, f) /\ TypeOK /\ Turns(x)
        /\ (x.pc \in {"select", "recalc", "store"} => x.cur \in Games)
        /\ (x.pc = "store" => x.who \in Users) /\ f.cur = x.cur
    BY FlushedType, FlushedShape, TurnsKept DEF IInv, TypeOK, ProgramOK, TurnsInv
  <1>2. CASE SelectPicks(s)
    <2> x.pc = "select" /\ x.cur \in Games
      BY <1>1, <1>2 DEF SelectPicks
    <2>1. /\ x.pc = "select" /\ f \in Session
          /\ \/ \E y \in Session : Step(s, y) /\ y = Scored(s, f)
             \/ \E y \in Session : Step(s, y) /\ Grades(f, y)
      BY <1>1, <1>2, SelectPicksShape
    <2>2. f.users = {} /\ f.who = Nobody /\ f.cur \in Games
      BY <1>1, <2>1 DEF Turns, Leaves
    <2> HIDE DEF f, x
    <2>3. ASSUME NEW y, Step(s, y), y = Scored(s, f) PROVE TurnsInv'
      BY <1>1, <2>2, <2>3, TurnsScored, TurnsRest
    <2>4. ASSUME NEW y, Step(s, y), Grades(f, y) PROVE TurnsInv'
      BY <2>2, <2>4, TurnsStep DEF Step, Turns, Grades
    <2> QED BY <2>1, <2>3, <2>4
  <1>3. CASE SelectScoredPicks(s)
    <2>1. \E y \in Session : Step(s, y) /\ y.pc = "store"
      BY <1>1, <1>3, SelectScoredPicksShape
    <2> QED BY <2>1, TurnsStep DEF Step, Turns
  <1>4. CASE UpdateParticipant(s)
    <2>1. x.pc = "store" /\ x = sess[s]
      BY <1>4 DEF UpdateParticipant
    <2>2. PICK z \in Session :
            /\ Stores(x, z)
            /\ \/ z.users = {} /\ \E y \in Session : Step(s, y) /\ y = Scored(s, z)
               \/ z.pc = "recalc" /\ Step(s, z)
      BY <1>1, <1>4, <2>1, UpdateParticipantShape
    <2>3. z.who = Nobody /\ z.cur \in Games
      BY <1>1, <2>1, <2>2 DEF Stores
    <2>4. ASSUME z.users = {}, NEW y, Step(s, y), y = Scored(s, z) PROVE TurnsInv'
      BY <2>3, <2>4, TurnsScored, TurnsRest
    <2>5. CASE z.pc = "recalc" /\ Step(s, z)
      BY <2>3, <2>5, TurnsStep DEF Step, Turns
    <2> QED BY <2>2, <2>4, <2>5
  <1>5. CASE ScoringFails(s)
    <2> DEFINE z == IF x.pc = "select" THEN f ELSE x
               w == [z EXCEPT !.users = {}, !.stat = NoStats, !.who = Nobody]
               y == NextGame(w)
    <2>1. Step(s, y) \/ Step(s, Edited(y, z.cur, Reverted(z.gMem[z.cur]))) \/ Step(s, Idle)
      BY <1>5 DEF ScoringFails
    <2>2. z \in Session /\ z.cur \in Games
      BY <1>1, <1>5 DEF ScoringFails
    <2> HIDE DEF z, f, x
    <2>3. w \in Session /\ w.users = {} /\ w.who = Nobody
      BY <2>2, NewRows DEF Session
    <2> HIDE DEF w
    <2>4. y \in Session /\ y.users = {} /\ y.who = Nobody
      BY <2>3, TurnsKept, NextGameOK DEF Leaves
    <2> HIDE DEF y
    <2> DEFINE row == Reverted(z.gMem[z.cur])
    <2>5. Leaves(y, Edited(y, z.cur, row)) /\ Leaves(y, y)
      BY <2>2, <2>4, TurnsEdited DEF Leaves
    <2> HIDE DEF row
    <2>6. ASSUME NEW q, Step(s, q), Leaves(y, q) PROVE TurnsInv'
      BY <2>4, <2>6, TurnsRest
    <2>7. CASE Step(s, Idle)
      BY <2>7, TurnsIdle, TurnsStep DEF Step
    <2> QED BY <2>1, <2>5, <2>6, <2>7 DEF row
  <1> QED BY <1>2, <1>3, <1>4, <1>5

\* A session between two games changes one of them and goes on.
LEMMA TurnsEdits ==
  ASSUME IInv, TurnsInv, NEW s \in Sessions, sess[s].pc = "loop", NEW z \in Session,
         Leaves(sess[s], z), NEW g \in Games, NEW row,
         \/ Step(s, [Edited(z, g, row) EXCEPT !.cur = g, !.pc = "select"])
         \/ Step(s, NextGame(Edited(z, g, row)))
  PROVE  TurnsInv'
  <1> DEFINE e == Edited(z, g, row)
             q == [e EXCEPT !.cur = g, !.pc = "select"]
  <1>1. Leaves(z, e) /\ (Step(s, q) \/ Step(s, NextGame(e)))
    BY TurnsEdited
  <1>2. Leaves(e, q) /\ Leaves(e, NextGame(e))
    BY DEF Leaves, NextGame, Edited, Session
  <1>3. e.users = {} /\ e.who = Nobody
    BY <1>1 DEF TurnsInv, Turns, Leaves
  <1> HIDE DEF e, q
  <1> QED BY <1>1, <1>2, <1>3, TurnsRest

LEMMA TurnsJobApply ==
  ASSUME IInv, TurnsInv, NEW s \in Sessions, JobApply(s)
  PROVE  TurnsInv'
  <1>1. PICK g \in sess[s].todo :
          LET row == JobReport(sess[s].gMem[g], sess[s].report[g]) IN
          \/ Step(s, [Edited(sess[s], g, row) EXCEPT !.cur = g, !.pc = "select"])
          \/ Step(s, NextGame(Edited(sess[s], g, row)))
    BY DEF JobApply
  <1>2. sess[s] \in Session /\ g \in Games /\ sess[s].pc = "loop"
    BY DEF JobApply, IInv, TypeOK, Session
  <1>3. Leaves(sess[s], sess[s])
    BY DEF Leaves
  <1> QED BY <1>1, <1>2, <1>3, TurnsEdits

LEMMA TurnsSyncGame ==
  ASSUME IInv, TurnsInv, NEW s \in Sessions, SyncGame(s)
  PROVE  TurnsInv'
  <1> DEFINE f == Flushed(sess[s])
  <1>1. /\ sess[s] \in Session /\ f \in Session /\ PicksOK(f) /\ Leaves(sess[s], f)
        /\ TypeOK /\ sess[s].pc = "loop"
    BY FlushedType, FlushedPicks, TurnsKept DEF IInv, TypeOK, SyncGame
  <1>2. PICK g \in sess[s].todo :
          LET old == Loaded(f, g)
              row == SyncReport(old.gMem[g], sess[s].report[g]) IN
          \/ Step(s, [Edited(old, g, row) EXCEPT !.cur = g, !.pc = "select"])
          \/ Step(s, NextGame(Edited(old, g, row)))
    BY DEF SyncGame
  <1>3. g \in Games
    BY <1>1 DEF Session
  <1>4. Loaded(f, g) \in Session /\ Leaves(sess[s], Loaded(f, g))
    BY <1>1, <1>3, LoadedOK, TurnsKept DEF Leaves
  <1> HIDE DEF f
  <1> QED BY <1>1, <1>2, <1>3, <1>4, TurnsEdits

LEMMA TurnsFetch ==
  ASSUME IInv, TurnsInv, NEW s \in Sessions,
         JobSelect(s) \/ \E listed \in SUBSET Games : JobFetch(s, listed) \/ SyncFetch(s, listed)
  PROVE  TurnsInv'
  <1> DEFINE x == sess[s]
  <1>1. x \in Session /\ Turns(x)
    BY DEF IInv, TypeOK, TurnsInv
  <1>2. CASE JobSelect(s)
    <2> DEFINE open == {g \in Games : games[g].status = "open"}
               rows == [g \in Games |-> IF g \in open THEN games[g] ELSE NewGame]
               y == [Idle EXCEPT !.pc = "fetch", !.todo = open, !.gBase = rows, !.gMem = rows]
    <2>1. Step(s, y)
      BY <1>2 DEF JobSelect
    <2> HIDE DEF open, rows
    <2>2. Leaves(Idle, y)
      BY IdleType DEF Leaves, Session
    <2> HIDE DEF y
    <2> QED BY <2>1, <2>2, TurnsIdle, TurnsRest
  <1>3. ASSUME NEW listed \in SUBSET Games, JobFetch(s, listed) \/ SyncFetch(s, listed)
        PROVE  TurnsInv'
    <2>1. Leaves(x, Fetched(x, listed)) /\ Leaves(Idle, Fetched(Idle, listed))
      BY <1>1, IdleType DEF Leaves, Fetched, Session
    <2>2. \/ x.pc = "fetch" /\ Step(s, Fetched(x, listed))
          \/ Step(s, Fetched(Idle, listed))
      BY <1>3 DEF JobFetch, SyncFetch
    <2>3. x.pc = "fetch" => x.users = {} /\ x.who = Nobody
      BY <1>1 DEF Turns
    <2> HIDE DEF x
    <2> QED BY <2>1, <2>2, <2>3, TurnsIdle, TurnsRest
  <1> QED BY <1>2, <1>3

LEMMA TurnsAdmin ==
  ASSUME IInv, TurnsInv, NEW s \in Sessions, NEW g \in Games,
         AdminRescore(s, g) \/ \E outcome \in Corrections : AdminCorrect(s, g, outcome)
  PROVE  TurnsInv'
  <1> DEFINE x == Loaded(Idle, g)
  <1>1. x \in Session
    BY IdleType, IdleOK, LoadedOK DEF IInv
  <1>2. x.users = {} /\ x.who = Nobody
    BY IdleType, TurnsKept, TurnsIdle DEF Leaves
  <1>3. CASE AdminRescore(s, g)
    <2> DEFINE y == [x EXCEPT !.cur = g, !.pc = "select"]
    <2>1. Step(s, y)
      BY <1>3 DEF AdminRescore
    <2> HIDE DEF x
    <2>2. Leaves(x, y)
      BY <1>1 DEF Leaves, Session
    <2> HIDE DEF y
    <2> QED BY <1>2, <2>1, <2>2, TurnsRest
  <1>4. ASSUME NEW outcome \in Corrections, AdminCorrect(s, g, outcome)
        PROVE  TurnsInv'
    <2> DEFINE row == CorrectedRow(games[g], outcome)
               e == Edited(x, g, row)
               y == [e EXCEPT !.cur = g, !.pc = "select"]
    <2>1. Step(s, y)
      BY <1>4 DEF AdminCorrect
    <2> HIDE DEF x, row
    <2>2. Leaves(x, y)
      BY <1>1 DEF Leaves, Edited, Session
    <2> HIDE DEF y
    <2> QED BY <1>2, <2>1, <2>2, TurnsRest
  <1> QED BY <1>3, <1>4

LEMMA NextTurns ==
  ASSUME IInv, TurnsInv, Next
  PROVE  TurnsInv'
  <1>1. CASE \E g \in Games : FeedReport(g)
    BY <1>1 DEF FeedReport, TurnsInv
  <1>2. ASSUME NEW s \in Sessions, Commit(s) \/ Abort(s) \/ DeadlockVictim(s) PROVE TurnsInv'
    BY <1>2, TurnsIdle, TurnsStep DEF Commit, Abort, DeadlockVictim, Step
  <1>3. ASSUME NEW s \in Sessions, Work(s) PROVE TurnsInv'
    BY <1>2, <1>3, TurnsScoring, TurnsFetch, TurnsJobApply, TurnsSyncGame DEF Work
  <1> QED BY <1>1, <1>2, <1>3, TurnsScoring, TurnsFetch, TurnsAdmin DEF Next

-----------------------------------------------------------------------------
(* What becomes of the visits *)

NoCommit == ~\E t \in Sessions : Commit(t)

\* A session that has been met by none, in its next state, is alone.
LEMMA VisitsApart ==
  ASSUME Remember, NEW s \in Sessions, NEW u \in visited'[s] \ disturbed'[s],
         NEW t \in Sessions, t # s
  PROVE  u \notin visited'[t]
  <1>1. visited'[s] = Visits(s) /\ disturbed'[s] = Disturbances(s)
    BY DEF Remember
  <1>2. sess'[s].pc # "idle"
    BY <1>1 DEF Visits
  <1>3. u \notin {v \in visited'[s] : Meets(s, v)}
    BY <1>1, <1>2 DEF Disturbances
  <1> QED BY <1>3 DEF Meets, Others

\* Another session's step leaves a session's visits as they are.
LEMMA VisitsKept ==
  ASSUME VisitInv, Remember, NEW t \in Sessions, sess'[t] = sess[t]
  PROVE  visited'[t] = visited[t] /\ disturbed[t] \cap visited[t] \subseteq disturbed'[t]
  <1>1. visited'[t] = Visits(t) /\ disturbed'[t] = Disturbances(t)
    BY DEF Remember
  <1>2. /\ sess[t].pc = "idle" => visited[t] = {}
        /\ sess[t].users \subseteq visited[t]
    BY DEF VisitInv, Visitor, Covers, Unwritten
  <1>3. visited'[t] = visited[t]
    BY <1>1, <1>2 DEF Visits
  <1> QED BY <1>1, <1>2, <1>3 DEF Disturbances

LEMMA SoundStays ==
  ASSUME NEW t \in Sessions, sess'[t] = sess[t], NEW u, Sound(sess[t], u),
         \A p \in PicksOf(u) : picks'[p] = picks[p]
  PROVE  Sound(sess[t], u)'
  <1>1. /\ DirtyPicks(sess[t])' = DirtyPicks(sess[t])
        /\ Unwritten(sess[t])' = Unwritten(sess[t])
    BY DEF DirtyPicks, Unwritten
  <1>2. \A p \in PicksOf(u) : PickView(sess[t], p)' = PickView(sess[t], p)
    BY DEF PickView
  <1>3. ASSUME NEW p \in PicksOf(u) PROVE Latest(sess[t])'[p] = Latest(sess[t])[p]
    BY <1>1, <1>2 DEF Latest, PicksOf
  <1>4. Tally(Latest(sess[t]), u)' = Tally(Latest(sess[t]), u)
    BY <1>3, TallySame
  <1>5. Known(sess[t], u)'
    BY <1>1, <1>2 DEF Sound, Known
  <1> QED BY <1>1, <1>4, <1>5 DEF Sound, Written

\* The step of session s that commits nothing.
LEMMA VisitStep ==
  ASSUME IInv, VisitInv, Remember, NoCommit, NEW s \in Sessions, NEW y,
         sess' = [sess EXCEPT ![s] = y], picks' = picks, stats' = stats,
         NEW V, V = (IF y.pc = "idle" THEN {} ELSE visited[s] \cup y.users), Covers(V, y),
         \A u \in V \ (disturbed[s] \cup GivenUp(s)) : Sound(y, u)
  PROVE  VisitInv'
  <1>1. /\ sess'[s] = y /\ picks' = picks /\ stats' = stats
        /\ \A t \in Sessions : t # s => sess'[t] = sess[t]
    BY DEF IInv, TypeOK
  <1>2. visited'[s] = V
    BY <1>1 DEF Remember, Visits
  <1>3. ASSUME NEW u \in visited'[s] \ disturbed'[s]
        PROVE  u \in V \ (disturbed[s] \cup GivenUp(s))
    <2>1. y.pc # "idle"
      BY <1>2, <1>3
    <2>2. disturbed'[s] = Disturbances(s)
      BY DEF Remember
    <2> QED BY <1>1, <1>2, <1>3, <2>1, <2>2 DEF Disturbances
  <1>4. Visitor(s)'
    <2>1. Covers(visited[s], sess[s])' /\ (sess'[s].pc = "idle" => visited'[s] = {})
      BY <1>1, <1>2 DEF Covers, DirtyPicks, Unwritten
    <2>2. ASSUME NEW u \in visited'[s] \ disturbed'[s]
          PROVE  Sound(sess[s], u)'
      <3>1. Sound(sess'[s], u)
        BY <1>1, <1>3, <2>2
      <3> QED BY <1>1, <3>1
              DEF Sound, Known, Written, Unwritten, Tally, Latest, PickView, DirtyPicks
    <2> QED BY <2>1, <2>2, VisitsApart DEF Visitor
  <1>5. ASSUME NEW t \in Sessions, t # s
        PROVE  Visitor(t)'
    <2>1. visited'[t] = visited[t] /\ disturbed[t] \cap visited[t] \subseteq disturbed'[t]
      BY <1>1, <1>5, VisitsKept
    <2>2. Covers(visited[t], sess[t])' /\ (sess'[t].pc = "idle" => visited'[t] = {})
      BY <1>1, <1>5, <2>1 DEF VisitInv, Visitor, Covers, DirtyPicks, Unwritten
    <2>3. ASSUME NEW u \in visited'[t] \ disturbed'[t]
          PROVE  Sound(sess[t], u)'
      BY <1>1, <1>5, <2>1, <2>3, SoundStays DEF VisitInv, Visitor
    <2> QED BY <2>2, <2>3, VisitsApart DEF Visitor
  <1>6. ASSUME NEW u \in Users \ doubtful'
        PROVE  stats'[u] = Tally(picks', u)
    <2>1. u \notin doubtful
      BY <1>6 DEF Remember, Doubtful, NoCommit
    <2> QED BY <1>1, <1>6, <2>1 DEF VisitInv
  <1>7. (\A u \in Users \ doubtful : stats[u] = Tally(picks, u))'
    BY <1>6 DEF Tally
  <1> QED BY <1>4, <1>5, <1>7 DEF VisitInv

\* A session's own versions and writes are what they were, and it has no work
\* left on aggregates.
LEMMA VisitMoves ==
  ASSUME IInv, VisitInv, Remember, NoCommit, TurnsInv', NEW s \in Sessions, NEW x, NEW y,
         Step(s, y), SameData(x, y), y.pc \notin {"idle", "recalc", "store"}, Covers(visited[s], x),
         \A u \in visited[s] \ (disturbed[s] \cup GivenUp(s)) : Known(x, u) /\ Written(x, u)
  PROVE  VisitInv'
  <1>1. sess'[s] = y
    BY DEF IInv, TypeOK, Step
  <1>2. y.users = {} /\ Unwritten(y) = {}
    <2>1. Turns(sess'[s])
      BY DEF TurnsInv, Turns
    <2> QED BY <1>1, <2>1 DEF Turns, Unwritten
  <1>3. /\ DirtyPicks(y) = DirtyPicks(x)
        /\ \A p \in Picks : PickView(y, p) = PickView(x, p)
    BY DEF SameData, DirtyPicks, PickView
  <1>4. Latest(y) = Latest(x)
    BY <1>3 DEF Latest, SameData
  <1>5. Covers(visited[s], y) /\ visited[s] = visited[s] \cup y.users
    BY <1>2, <1>3 DEF Covers, SameData
  <1>6. ASSUME NEW u \in visited[s] \ (disturbed[s] \cup GivenUp(s))
        PROVE  Sound(y, u)
    <2>1. Known(x, u) /\ Written(x, u)
      BY <1>6
    <2>2. Known(y, u)
      BY <1>3, <2>1 DEF Known, SameData, PicksOf
    <2>3. Written(y, u)
      BY <1>4, <2>1 DEF Written, SameData
    <2> QED BY <2>2, <2>3 DEF Sound
  <1> QED BY <1>5, <1>6, VisitStep DEF Step

\* A transaction that ends without a commit.
LEMMA VisitEnd ==
  ASSUME IInv, VisitInv, Remember, NoCommit, NEW s \in Sessions,
         sess' = [sess EXCEPT ![s] = Idle], picks' = picks, stats' = stats
  PROVE  VisitInv'
  <1>1. Unwritten(Idle) = {} /\ Idle.pc = "idle"
    BY TurnsIdle, IdleShape DEF Unwritten
  <1>2. Covers({}, Idle)
    BY <1>1, IdleShape DEF Covers
  <1> QED BY <1>1, <1>2, VisitStep

\* What a session is sure of outside of a scoring.
LEMMA VisitRest ==
  ASSUME VisitInv, TurnsInv, NEW s \in Sessions, sess[s].pc \notin {"recalc", "store"}
  PROVE  /\ Covers(visited[s], sess[s]) /\ Unwritten(sess[s]) = {}
         /\ \A u \in visited[s] \ disturbed[s] :
              Sound(sess[s], u) /\ Known(sess[s], u) /\ Written(sess[s], u)
  <1>1. Unwritten(sess[s]) = {}
    BY DEF TurnsInv, Turns, Unwritten
  <1> QED BY <1>1 DEF VisitInv, Visitor, Sound

\* A transaction that begins has visited nobody.
LEMMA VisitBegins ==
  ASSUME IInv, VisitInv, Remember, NoCommit, TurnsInv', NEW s \in Sessions, MayOpen(s), NEW y,
         Step(s, y), SameData(Idle, y), y.pc \notin {"idle", "recalc", "store"}
  PROVE  VisitInv'
  <1>1. visited[s] = {}
    BY DEF MayOpen, VisitInv, Visitor
  <1>2. Covers(visited[s], Idle)
    BY TurnsIdle, IdleShape DEF Covers, Unwritten
  <1> QED BY <1>1, <1>2, VisitMoves

\* A flush changes nothing of what the session is going to see of those it
\* knows.
LEMMA SoundFlushed ==
  ASSUME TypeOK, NEW x \in Session, NEW f, f = Flushed(x), NEW u, Sound(x, u)
  PROVE  Sound(f, u) /\ \A p \in PicksOf(u) : Latest(f)[p] = PickView(f, p)
  <1>1. /\ f.pMem = x.pMem /\ f.pBase = x.pMem /\ DirtyPicks(f) = {} /\ f.cur = x.cur
        /\ f.pc = x.pc /\ f.users = x.users /\ f.who = x.who /\ f.stat = x.stat
        /\ f.lockedUsers = x.lockedUsers /\ f.sVer = x.sVer
    BY FlushedShape
  <1>2. ASSUME NEW p \in PicksOf(u)
        PROVE  PickView(f, p) = (IF p \in DirtyPicks(x) THEN x.pMem[p] ELSE PickView(x, p))
    <2>1. p \in Picks /\ (p \in DirtyPicks(x) => x.pBase[p] = PickView(x, p))
      BY <1>2 DEF PicksOf, Sound, Known
    <2> QED BY <2>1, FlushView
  <1>3. \A p \in PicksOf(u) : Latest(f)[p] = PickView(f, p) /\ Latest(f)[p] = Latest(x)[p]
    BY <1>1, <1>2 DEF Latest, PicksOf
  <1>4. Tally(Latest(f), u) = Tally(Latest(x), u)
    BY <1>3, TallySame
  <1>5. Known(f, u)
    <2> SUFFICES ASSUME NEW p \in PicksOf(u), p[2] = x.cur, x.pc \in {"recalc", "store"}
                 PROVE  x.pMem[p] = PickView(f, p)
      BY <1>1 DEF Known
    <2>1. p \in Picks /\ x.pBase[p] = PickView(x, p)
      BY DEF Sound, Known, PicksOf
    <2> QED BY <1>2, <2>1 DEF DirtyPicks
  <1>6. Unwritten(f) = Unwritten(x)
    BY <1>1 DEF Unwritten
  <1> QED BY <1>1, <1>3, <1>4, <1>5, <1>6 DEF Sound, Written

LEMMA CoversFlushed ==
  ASSUME NEW x \in Session, NEW f, f = Flushed(x), NEW V, Covers(V, x)
  PROVE  Covers(V, f) /\ Unwritten(f) = Unwritten(x)
  <1>1. /\ f.lockedPicks = x.lockedPicks \cup DirtyPicks(x) /\ DirtyPicks(f) = {}
        /\ f.lockedUsers = x.lockedUsers /\ f.users = x.users /\ f.who = x.who
    BY FlushedShape
  <1> QED BY <1>1 DEF Covers, Unwritten

LEMMA VisitScored ==
  ASSUME IInv, VisitInv, Remember, NoCommit, TurnsInv', NEW s \in Sessions, NEW x \in Session,
         x.cur \in Games, NEW y, Step(s, y), y = Scored(s, x), Covers(visited[s], x),
         \A u \in visited[s] \ disturbed[s] : Known(x, u) /\ Written(x, u)
  PROVE  VisitInv'
  <1>1. SameData(x, y) /\ Outside(y)
    BY ScoredShape DEF Keeps, Edits
  <1> QED BY <1>1, VisitMoves DEF Outside

-----------------------------------------------------------------------------
(* The steps of a visit *)

LEMMA VisitSelectPicks ==
  ASSUME IInv, TurnsInv, VisitInv, Remember, NoCommit, TurnsInv', NEW s \in Sessions,
         SelectPicks(s)
  PROVE  VisitInv'
  <1> DEFINE x == sess[s]
             f == Flushed(x)
  <1>1. x \in Session /\ TypeOK /\ x.cur \in Games /\ x.pc = "select"
    BY DEF IInv, TypeOK, ProgramOK, SelectPicks
  <1>2. /\ f \in Session
        /\ \/ \E y \in Session : Step(s, y) /\ y = Scored(s, f)
           \/ \E y \in Session : Step(s, y) /\ Grades(f, y)
    BY <1>1, SelectPicksShape
  <1>3. /\ Covers(visited[s], x) /\ Unwritten(x) = {}
        /\ \A u \in visited[s] \ disturbed[s] : Sound(x, u)
    BY <1>1, VisitRest
  <1>4. /\ Covers(visited[s], f) /\ Unwritten(f) = {}
        /\ \A u \in visited[s] \ disturbed[s] : Sound(f, u)
    BY <1>1, <1>3, CoversFlushed, SoundFlushed
  <1>5. f.cur = x.cur /\ f.pMem = f.pBase
    BY <1>1, FlushedShape
  <1>6. \A u \in visited[s] \ disturbed[s] : Known(f, u) /\ Written(f, u)
    BY <1>4 DEF Sound
  <1>7. DirtyPicks(f) = {}
    BY <1>1, FlushedShape
  <1> HIDE DEF f, x
  <1>8. ASSUME NEW y \in Session, Step(s, y), y = Scored(s, f)
        PROVE  VisitInv'
    BY <1>1, <1>2, <1>4, <1>5, <1>6, <1>8, VisitScored
  <1>9. ASSUME NEW y \in Session, Step(s, y), Grades(f, y)
        PROVE  VisitInv'
    <2> DEFINE V == visited[s] \cup UsersOn(f.cur)
    <2>1. /\ \A p \in Picks : PickView(y, p) = PickView(f, p)
          /\ y.pc = "recalc" /\ y.cur = f.cur /\ y.users = UsersOn(f.cur)
          /\ y.lockedPicks = f.lockedPicks /\ y.lockedUsers = f.lockedUsers
          /\ y.sVer = f.sVer
      BY <1>9 DEF Grades, PickView
    <2>2. \A p \in Picks : p[2] # f.cur => p \notin DirtyPicks(y)
      BY <1>5, <1>9 DEF Grades, DirtyPicks
    <2>3. \A p \in Picks : p[2] = f.cur => p[1] \in UsersOn(f.cur)
      <3>1. ASSUME NEW p \in Picks, p[2] = f.cur PROVE p[1] \in UsersOn(f.cur)
        <4>1. p \in Users \X Games
          BY PredictionAssumption
        <4>2. p = <<p[1], f.cur>> /\ p[1] \in Users
          BY <3>1, <4>1
        <4> QED BY <4>2 DEF UsersOn
      <3> QED BY <3>1
    <2>4. Unwritten(y) = UsersOn(f.cur)
      <3>1. y.who = Nobody
        BY <1>4, <1>9 DEF Grades, Unwritten
      <3> QED BY <2>1, <3>1 DEF Unwritten
    <2>5. Covers(V, y)
      BY <1>4, <2>1, <2>2, <2>3, <2>4 DEF Covers
    <2>6. ASSUME NEW u \in V \ disturbed[s]
          PROVE  Sound(y, u)
      <3>1. Known(y, u)
        BY <1>9, <2>1, <2>2 DEF Known, Grades, PicksOf
      <3>2. ASSUME u \notin UsersOn(f.cur)
            PROVE  Written(y, u)
        <4>1. ASSUME NEW p \in PicksOf(u) PROVE Latest(y)[p] = Latest(f)[p]
          <5>1. p \in Picks /\ p[2] # f.cur
            BY <2>3, <3>2, <4>1 DEF PicksOf
          <5>2. p \notin DirtyPicks(y) /\ p \notin DirtyPicks(f)
            BY <1>7, <2>2, <5>1
          <5> QED BY <2>1, <5>1, <5>2 DEF Latest
        <4>2. Tally(Latest(y), u) = Tally(Latest(f), u)
          BY <4>1, TallySame
        <4>3. Written(f, u)
          BY <1>6, <2>6, <3>2
        <4> QED BY <2>1, <4>2, <4>3 DEF Written
      <3> QED BY <2>1, <2>4, <3>1, <3>2 DEF Sound
    <2> QED BY <1>9, <2>1, <2>5, <2>6, VisitStep DEF Step
  <1> QED BY <1>2, <1>8, <1>9

LEMMA VisitSelectScored ==
  ASSUME IInv, TurnsInv, VisitInv, Remember, NoCommit, NEW s \in Sessions,
         SelectScoredPicks(s)
  PROVE  VisitInv'
  <1> DEFINE x == sess[s]
             f == Flushed(x)
  <1>1. x \in Session /\ TypeOK /\ x.pc = "recalc"
    BY DEF IInv, TypeOK, SelectScoredPicks
  <1>2. f \in Session
    BY <1>1, FlushedType
  <1>3. PICK u \in x.users, y \in Session :
          /\ Step(s, y) /\ Keeps(f, y)
          /\ y.pc = "store" /\ y.cur = f.cur /\ y.who = u
          /\ y.users = f.users \ {u} /\ y.stat = RecalculatedStats(f, u)
    BY <1>1, SelectScoredPicksShape
  <1>4. /\ Covers(visited[s], f)
        /\ \A v \in visited[s] \ disturbed[s] :
             Sound(f, v) /\ \A p \in PicksOf(v) : Latest(f)[p] = PickView(f, p)
    BY <1>1, CoversFlushed, SoundFlushed DEF VisitInv, Visitor
  <1>5. /\ DirtyPicks(f) = {} /\ f.users = x.users /\ f.pc = "recalc"
        /\ f.who = Nobody /\ u # Nobody
    <2>1. x.who = Nobody /\ u \in Users
      BY <1>1 DEF TurnsInv, Turns, Session
    <2> QED BY <1>1, <2>1, FlushedShape, NobodyAssumption
  <1> HIDE DEF f, x
  <1>6. /\ DirtyPicks(y) = {} /\ \A p \in Picks : PickView(y, p) = PickView(f, p)
        /\ y.pBase = f.pBase /\ y.lockedPicks = f.lockedPicks
        /\ y.lockedUsers = f.lockedUsers /\ y.sVer = f.sVer
    BY <1>3, <1>5 DEF Keeps, SameData, DirtyPicks, PickView
  <1>7. Latest(y) = Latest(f)
    BY <1>5, <1>6 DEF Latest
  <1>8. Unwritten(y) = Unwritten(f)
    BY <1>3, <1>5 DEF Unwritten
  <1>9. Covers(visited[s], y) /\ visited[s] \cup y.users = visited[s]
    <2>1. Unwritten(f) \subseteq visited[s] /\ y.users \subseteq Unwritten(y)
      BY <1>4 DEF Covers, Unwritten
    <2> QED BY <1>4, <1>6, <1>8, <2>1 DEF Covers
  <1>10. ASSUME NEW v \in visited[s] \ disturbed[s]
         PROVE  Sound(y, v)
    <2>1. Sound(f, v) /\ \A p \in PicksOf(v) : Latest(f)[p] = PickView(f, p)
      BY <1>4, <1>10
    <2>2. Known(y, v)
      BY <1>3, <1>5, <1>6, <2>1 DEF Sound, Known, PicksOf
    <2>3. v \notin Unwritten(y) => Written(y, v)
      BY <1>6, <1>7, <1>8, <2>1 DEF Sound, Written
    <2>4. ASSUME v = u PROVE y.stat = Tally(Latest(y), v)
      <3> DEFINE P == {p \in PicksOf(u) : PickView(f, p).correct # "null"}
                 Q == {p \in PicksOf(u) : Latest(f)[p].correct # "null"}
                 R == [p \in Picks |-> IF p[2] = f.cur THEN f.pMem[p] ELSE PickView(f, p)]
                 S == Latest(f)
      <3>1. P = Q
        BY <2>1, <2>4
      <3>2. \A p \in PicksOf(u) : p[2] = f.cur => f.pMem[p] = PickView(f, p)
        BY <1>5, <2>1, <2>4 DEF Sound, Known, DirtyPicks, PicksOf
      <3>3. \A p \in P : R[p] = S[p]
        BY <2>1, <2>4, <3>2 DEF PicksOf
      <3>4. RecalculatedStats(f, u) = Aggregate(P, R) /\ Tally(S, u) = Aggregate(Q, S)
        BY DEF RecalculatedStats, Tally
      <3>5. y.stat = RecalculatedStats(f, u) /\ Latest(y) = S
        BY <1>3, <1>7
      <3> HIDE DEF P, Q, R, S
      <3> QED BY <2>4, <3>1, <3>3, <3>4, <3>5, AggregateSame
    <2> QED BY <1>3, <2>2, <2>3, <2>4 DEF Sound
  <1> QED BY <1>3, <1>9, <1>10, VisitStep DEF Step

LEMMA VisitUpdate ==
  ASSUME IInv, TurnsInv, VisitInv, Remember, NoCommit, TurnsInv', NEW s \in Sessions,
         UpdateParticipant(s)
  PROVE  VisitInv'
  <1> DEFINE x == sess[s]
  <1>1. /\ x \in Session /\ TypeOK /\ x.pc = "store" /\ x.who \in Users
        /\ x.cur \in Games /\ x = sess[s] /\ x.who # Nobody
    BY NobodyAssumption DEF IInv, TypeOK, ProgramOK, UpdateParticipant
  <1>2. PICK z \in Session :
          /\ Stores(x, z)
          /\ \/ z.users = {} /\ \E y \in Session : Step(s, y) /\ y = Scored(s, z)
             \/ z.pc = "recalc" /\ Step(s, z)
    BY <1>1, UpdateParticipantShape
  <1>3. Covers(visited[s], x) /\ \A u \in visited[s] \ disturbed[s] : Sound(x, u)
    BY DEF VisitInv, Visitor
  <1> HIDE DEF x
  <1>4. /\ DirtyPicks(z) = DirtyPicks(x) /\ \A p \in Picks : PickView(z, p) = PickView(x, p)
        /\ z.cur = x.cur /\ z.users = x.users /\ z.pMem = x.pMem /\ z.pBase = x.pBase
        /\ z.lockedPicks = x.lockedPicks /\ Unwritten(z) = x.users
    BY <1>2 DEF Stores, DirtyPicks, PickView, Unwritten
  <1>5. Latest(z) = Latest(x)
    BY <1>4 DEF Latest
  <1>6. Unwritten(x) = x.users \cup {x.who}
    BY <1>1 DEF Unwritten
  <1>7. Covers(visited[s], z)
    <2>1. z.lockedUsers = x.lockedUsers \cup {x.who}
      BY <1>2 DEF Stores
    <2> QED BY <1>3, <1>4, <1>6, <2>1 DEF Covers
  <1>8. ASSUME NEW u \in visited[s] \ disturbed[s]
        PROVE  Known(z, u) /\ (u \notin z.users => Written(z, u))
    <2>1. Sound(x, u)
      BY <1>3, <1>8
    <2>2. Known(z, u)
      BY <1>1, <1>4, <2>1 DEF Sound, Known, PicksOf
    <2>3. ASSUME u \notin z.users
          PROVE  Written(z, u)
      <3>1. x.sVer \in [Users -> StatsRow] /\ x.lockedUsers \subseteq Users
        BY <1>1 DEF Session
      <3>2. CASE u = x.who
        BY <1>1, <1>2, <1>5, <2>1, <3>1, <3>2 DEF Sound, Written, Stores
      <3>3. CASE u # x.who
        <4>1. Written(x, u)
          BY <1>4, <1>6, <2>1, <2>3, <3>3 DEF Sound
        <4> QED BY <1>2, <1>5, <3>1, <3>3, <4>1 DEF Written, Stores
      <3> QED BY <3>2, <3>3
    <2> QED BY <2>2, <2>3
  <1>9. ASSUME z.users = {}, NEW y \in Session, Step(s, y), y = Scored(s, z)
        PROVE  VisitInv'
    BY <1>1, <1>4, <1>7, <1>8, <1>9, VisitScored
  <1>10. CASE z.pc = "recalc" /\ Step(s, z)
    <2>1. visited[s] \cup z.users = visited[s]
      BY <1>4, <1>7 DEF Covers
    <2>2. \A u \in visited[s] \ disturbed[s] : Sound(z, u)
      BY <1>4, <1>8, <1>10 DEF Sound
    <2> QED BY <1>7, <1>10, <2>1, <2>2, VisitStep DEF Step
  <1> QED BY <1>2, <1>9, <1>10

LEMMA VisitJobs ==
  ASSUME IInv, TurnsInv, VisitInv, Remember, NoCommit, TurnsInv', NEW s \in Sessions,
         \/ JobApply(s) \/ SyncGame(s) \/ JobSelect(s)
         \/ \E listed \in SUBSET Games : JobFetch(s, listed) \/ SyncFetch(s, listed)
  PROVE  VisitInv'
  <1> DEFINE x == sess[s]
             f == Flushed(x)
  <1>1. x \in Session /\ TypeOK /\ PicksOK(x) /\ PicksOK(Idle) /\ Idle \in Session
    BY IdleOK, IdleType DEF IInv, TypeOK
  <1>2. ASSUME x.pc \in {"loop", "fetch"}
        PROVE  /\ Covers(visited[s], x) /\ Covers(visited[s], f)
               /\ \A u \in visited[s] \ disturbed[s] :
                    Known(x, u) /\ Written(x, u) /\ Known(f, u) /\ Written(f, u)
    <2>1. /\ Covers(visited[s], x) /\ Unwritten(x) = {}
          /\ \A u \in visited[s] \ disturbed[s] : Sound(x, u) /\ Known(x, u) /\ Written(x, u)
      BY <1>2, VisitRest
    <2>2. /\ Covers(visited[s], f) /\ Unwritten(f) = {}
          /\ \A u \in visited[s] \ disturbed[s] : Sound(f, u)
      BY <1>1, <2>1, CoversFlushed, SoundFlushed
    <2> HIDE DEF f, x
    <2> QED BY <2>1, <2>2 DEF Sound
  <1>3. CASE JobApply(s)
    <2>1. PICK g \in Games, y \in Session :
            /\ x.pc = "loop" /\ Step(s, y) /\ Edits(x, y, g, JobReport(x.gMem[g], x.report[g]))
            /\ Outside(y) \/ Turned(y, g)
      BY <1>1, <1>3, JobApplyShape
    <2> HIDE DEF f, x
    <2> QED BY <1>2, <2>1, VisitMoves DEF Edits, Outside, Turned
  <1>4. CASE SyncGame(s)
    <2>1. x.pc = "loop"
      BY <1>4 DEF SyncGame
    <2>2. PICK g \in Games, y \in Session :
            /\ Step(s, y) /\ Edits(f, y, g, SyncReport(GameView(f, g), f.report[g]))
            /\ Outside(y) \/ Turned(y, g)
      BY <1>4, SyncGameShape
    <2> HIDE DEF f, x
    <2> QED BY <1>2, <2>1, <2>2, VisitMoves DEF Edits, Outside, Turned
  <1>5. CASE JobSelect(s)
    <2>1. PICK y \in Session : MayOpen(s) /\ Step(s, y) /\ y.pc = "fetch" /\ SameData(Idle, y)
      BY <1>1, <1>5, JobSelectShape
    <2> QED BY <2>1, VisitBegins
  <1>6. ASSUME NEW listed \in SUBSET Games, JobFetch(s, listed) \/ SyncFetch(s, listed)
        PROVE  VisitInv'
    <2>1. CASE x.pc = "fetch" /\ Step(s, Fetched(x, listed))
      <3>1. SameData(x, Fetched(x, listed)) /\ Outside(Fetched(x, listed))
        BY <1>1, <2>1, FetchedShape
      <3> HIDE DEF f, x
      <3> QED BY <1>2, <2>1, <3>1, VisitMoves DEF Outside
    <2>2. CASE MayOpen(s) /\ Step(s, Fetched(Idle, listed))
      <3>1. SameData(Idle, Fetched(Idle, listed)) /\ Outside(Fetched(Idle, listed))
        BY <1>1, <2>2, FetchedShape
      <3> QED BY <2>2, <3>1, VisitBegins DEF Outside
    <2> QED BY <1>6, <2>1, <2>2 DEF JobFetch, SyncFetch
  <1> QED BY <1>3, <1>4, <1>5, <1>6

\* A scoring that raises leaves what it has written of the others.
LEMMA VisitFails ==
  ASSUME IInv, TurnsInv, VisitInv, Remember, NoCommit, TurnsInv', NEW s \in Sessions,
         ScoringFails(s)
  PROVE  VisitInv'
  <1> DEFINE x == sess[s]
  <1>1. x \in Session /\ TypeOK
    BY DEF IInv, TypeOK
  <1>2. PICK z, y \in Session :
          /\ z = x \/ z = Flushed(x)
          /\ Step(s, y)
          /\ \/ Outside(y) /\ Keeps(z, y)
             \/ Outside(y) /\ Edits(z, y, z.cur, Reverted(z.gMem[z.cur]))
             \/ y = Idle
    BY ScoringFailsShape
  <1>3. Covers(visited[s], z) /\ Unwritten(z) = Unwritten(x)
    BY <1>1, <1>2, CoversFlushed DEF VisitInv, Visitor
  <1>4. \A u \in visited[s] \ disturbed[s] : Sound(z, u)
    BY <1>1, <1>2, SoundFlushed DEF VisitInv, Visitor
  <1>5. GivenUp(s) = Unwritten(x)
    BY DEF GivenUp
  <1> HIDE DEF x
  <1>6. \A u \in visited[s] \ (disturbed[s] \cup GivenUp(s)) : Known(z, u) /\ Written(z, u)
    BY <1>3, <1>4, <1>5 DEF Sound
  <1>7. CASE y = Idle
    BY <1>2, <1>7, VisitEnd DEF Step
  <1>8. CASE y # Idle
    BY <1>2, <1>3, <1>6, <1>8, VisitMoves DEF Outside, Keeps, Edits
  <1> QED BY <1>7, <1>8

LEMMA VisitAdmin ==
  ASSUME IInv, VisitInv, Remember, NoCommit, TurnsInv', NEW s \in Sessions, NEW g \in Games,
         AdminRescore(s, g) \/ \E outcome \in Corrections : AdminCorrect(s, g, outcome)
  PROVE  VisitInv'
  <1>1. TypeOK
    BY DEF IInv
  <1>2. CASE AdminRescore(s, g)
    <2>1. PICK y \in Session : MayOpen(s) /\ Step(s, y) /\ Turned(y, g) /\ SameData(Idle, y)
      BY <1>1, <1>2, AdminRescoreShape
    <2> QED BY <2>1, VisitBegins DEF Turned
  <1>3. ASSUME NEW outcome \in Corrections, AdminCorrect(s, g, outcome)
        PROVE  VisitInv'
    <2>1. PICK y \in Session : /\ MayOpen(s) /\ Step(s, y) /\ Turned(y, g)
                               /\ Edits(Idle, y, g, CorrectedRow(games[g], outcome))
      BY <1>1, <1>3, AdminCorrectShape
    <2> QED BY <2>1, VisitBegins DEF Turned, Edits
  <1> QED BY <1>2, <1>3

\* What the API says concerns no session and no row.
LEMMA VisitFeed ==
  ASSUME IInv, VisitInv, Remember, NoCommit, UNCHANGED <<picks, stats, sess>>
  PROVE  VisitInv'
  <1>1. ASSUME NEW t \in Sessions
        PROVE  Visitor(t)'
    <2>1. visited'[t] = visited[t] /\ disturbed[t] \cap visited[t] \subseteq disturbed'[t]
      BY VisitsKept
    <2>2. Covers(visited[t], sess[t])' /\ (sess'[t].pc = "idle" => visited'[t] = {})
      BY <2>1 DEF VisitInv, Visitor, Covers, DirtyPicks, Unwritten
    <2>3. ASSUME NEW u \in visited'[t] \ disturbed'[t]
          PROVE  Sound(sess[t], u)'
      BY <2>1, <2>3, SoundStays DEF VisitInv, Visitor
    <2> QED BY <2>2, <2>3, VisitsApart DEF Visitor
  <1>2. ASSUME NEW u \in Users \ doubtful'
        PROVE  stats'[u] = Tally(picks', u)
    BY <1>2 DEF Remember, Doubtful, NoCommit, VisitInv
  <1>3. (\A u \in Users \ doubtful : stats[u] = Tally(picks, u))'
    BY <1>2 DEF Tally
  <1> QED BY <1>1, <1>3 DEF VisitInv

\* A commit that nobody disturbed leaves aggregates of the picks it leaves;
\* it changes nothing of those it has not visited.
LEMMA VisitCommit ==
  ASSUME IInv, TurnsInv, VisitInv, Remember, NEW s \in Sessions, Commit(s)
  PROVE  VisitInv'
  <1> DEFINE f == Flushed(sess[s])
  <1>1. sess[s] \in Session /\ TypeOK /\ sess[s].pc = "commit"
    BY DEF IInv, TypeOK, Commit
  <1>2. /\ picks' = [p \in Picks |-> PickView(f, p)]
        /\ stats' = [u \in Users |-> IF u \in f.lockedUsers THEN f.sVer[u] ELSE stats[u]]
        /\ sess' = [sess EXCEPT ![s] = Idle]
    BY <1>1, CommitShape
  <1>3. /\ sess'[s] = Idle /\ \A t \in Sessions : t # s => sess'[t] = sess[t]
        /\ Idle.pc = "idle"
    BY <1>2, IdleShape DEF IInv, TypeOK
  <1>4. \A t \in Sessions : Commit(t) => t = s
    BY <1>1, <1>3 DEF Commit, IInv, TypeOK
  <1>5. /\ Covers(visited[s], f) /\ Unwritten(f) = {}
        /\ \A u \in visited[s] \ disturbed[s] :
             Sound(f, u) /\ \A p \in PicksOf(u) : Latest(f)[p] = PickView(f, p)
    BY <1>1, VisitRest, CoversFlushed, SoundFlushed
  <1> HIDE DEF f
  <1>6. ASSUME NEW u, u \notin visited[s]
        PROVE  /\ \A p \in PicksOf(u) : picks'[p] = picks[p]
               /\ u \in Users => stats'[u] = stats[u]
    BY <1>2, <1>5, <1>6 DEF Covers, PicksOf, PickView
  <1>7. ASSUME NEW u \in Users \ doubtful'
        PROVE  stats'[u] = Tally(picks', u)
    <2>1. CASE u \in visited[s]
      <3>1. u \in visited[s] \ disturbed[s]
        BY <1>7, <2>1 DEF Remember, Doubtful
      <3>2. Written(f, u)
        BY <1>5, <3>1 DEF Sound
      <3>3. \A p \in PicksOf(u) : picks'[p] = Latest(f)[p]
        BY <1>2, <1>5, <3>1 DEF PicksOf
      <3>4. Tally(picks', u) = Tally(Latest(f), u)
        BY <3>3, TallySame
      <3> QED BY <1>2, <3>2, <3>4 DEF Written
    <2>2. CASE u \notin visited[s]
      <3>1. u \notin doubtful
        BY <1>4, <1>7, <2>2 DEF Remember, Doubtful
      <3>2. Tally(picks', u) = Tally(picks, u)
        BY <1>6, <2>2, TallySame
      <3> QED BY <1>6, <2>2, <3>1, <3>2 DEF VisitInv
    <2> QED BY <2>1, <2>2
  <1>8. ASSUME NEW t \in Sessions, t # s
        PROVE  Visitor(t)'
    <2>1. visited'[t] = visited[t] /\ disturbed[t] \cap visited[t] \subseteq disturbed'[t]
      BY <1>3, <1>8, VisitsKept
    <2>2. Covers(visited[t], sess[t])' /\ (sess'[t].pc = "idle" => visited'[t] = {})
      BY <1>3, <1>8, <2>1 DEF VisitInv, Visitor, Covers, DirtyPicks, Unwritten
    <2>3. ASSUME NEW u \in visited'[t] \ disturbed'[t]
          PROVE  Sound(sess[t], u)'
      <3>1. Sound(sess[t], u) /\ u \notin visited[s]
        BY <1>8, <2>1, <2>3 DEF VisitInv, Visitor
      <3> QED BY <1>3, <1>6, <1>8, <3>1, SoundStays
    <2> QED BY <2>2, <2>3, VisitsApart DEF Visitor
  <1>9. Visitor(s)'
    <2>1. visited'[s] = {}
      BY <1>3 DEF Remember, Visits
    <2>2. Covers({}, Idle)
      BY TurnsIdle, IdleShape DEF Covers, Unwritten
    <2>3. Covers(visited[s], sess[s])'
      BY <1>3, <2>1, <2>2 DEF Covers, DirtyPicks, Unwritten
    <2> QED BY <2>1, <2>3 DEF Visitor
  <1>10. (\A u \in Users \ doubtful : stats[u] = Tally(picks, u))'
    BY <1>7 DEF Tally
  <1> QED BY <1>8, <1>9, <1>10 DEF VisitInv

LEMMA NextVisit ==
  ASSUME IInv, TurnsInv, VisitInv, Next, Remember
  PROVE  VisitInv'
  <1>1. TurnsInv'
    BY NextTurns
  <1>2. CASE ~NoCommit
    BY <1>2, VisitCommit DEF NoCommit
  <1>3. CASE NoCommit
    <2>1. ASSUME NEW s \in Sessions, Work(s) PROVE VisitInv'
      BY <1>1, <1>3, <2>1, VisitSelectPicks, VisitSelectScored, VisitUpdate, VisitJobs
         DEF Work, NoCommit
    <2>2. ASSUME NEW s \in Sessions, Abort(s) \/ DeadlockVictim(s) PROVE VisitInv'
      <3>1. sess' = [sess EXCEPT ![s] = Idle] /\ picks' = picks /\ stats' = stats
        BY <2>2 DEF Abort, DeadlockVictim, Step
      <3> QED BY <1>3, <3>1, VisitEnd
    <2>3. ASSUME NEW g \in Games, FeedReport(g) PROVE VisitInv'
      BY <1>3, <2>3, VisitFeed DEF FeedReport
    <2> QED BY <1>1, <1>3, <2>1, <2>2, <2>3, VisitJobs, VisitFails, VisitAdmin DEF Next
  <1> QED BY <1>2, <1>3

LEMMA InitVisit == HistoryInit => TurnsInv /\ VisitInv
  <1> SUFFICES ASSUME HistoryInit PROVE TurnsInv /\ VisitInv
    OBVIOUS
  <1>1. \A s \in Sessions : sess[s] = Idle /\ visited[s] = {}
    BY DEF HistoryInit, Init
  <1>2. Covers({}, Idle)
    BY TurnsIdle, IdleShape DEF Covers, Unwritten
  <1>3. ASSUME NEW u \in Users PROVE stats[u] = Tally(picks, u)
    <2>1. {p \in PicksOf(u) : picks[p].correct # "null"} = {}
      BY DEF HistoryInit, Init, NewPick, PicksOf
    <2>2. Aggregate({}, picks) = NoStats
      <3>1. Cardinality({}) = 0
        BY FS_EmptySet
      <3>2. /\ {p \in {} : picks[p].correct = "right"} = {}
            /\ {p \in {} : picks[p].correct = "wrong"} = {}
            /\ {p \in {} : picks[p].points = 1} = {}
            /\ {p \in {} : \A q \in {} : q[2] < p[2]} = {}
        OBVIOUS
      <3> QED BY <3>1, <3>2 DEF Aggregate, NoStats
    <2> QED BY <2>1, <2>2 DEF Tally, HistoryInit, Init
  <1> QED BY <1>1, <1>2, <1>3, TurnsIdle DEF TurnsInv, VisitInv, Visitor

\* The points, wins, losses and streaks on the leaderboard are those of the
\* stored picks, under any interleaving of jobs, corrections, rescorings,
\* failing scorings and lost transactions, for every participant whose last
\* recalculation met with no other one and was not given up.
THEOREM StatsAlwaysMatchPicks == HistorySpec => []StatsMatchPicks
  <1>1. HistoryInit => IInv /\ TurnsInv /\ VisitInv
    BY InitIInv, InitVisit DEF HistoryInit
  <1>2. IInv /\ TurnsInv /\ VisitInv /\ [Next /\ Remember]_<<vars, history>>
          => IInv' /\ TurnsInv' /\ VisitInv'
    <2> SUFFICES ASSUME IInv, TurnsInv, VisitInv, [Next /\ Remember]_<<vars, history>>
                 PROVE  IInv' /\ TurnsInv' /\ VisitInv'
      OBVIOUS
    <2>1. CASE Next /\ Remember
      BY <2>1, NextIInv, NextTurns, NextVisit
    <2>2. CASE UNCHANGED <<vars, history>>
      <3>1. UNCHANGED vars /\ UNCHANGED history
        BY <2>2
      <3>2. IInv'
        BY <3>1, NextIInv
      <3>3. /\ sess' = sess /\ picks' = picks /\ stats' = stats
            /\ visited' = visited /\ disturbed' = disturbed /\ doubtful' = doubtful
        BY <3>1 DEF vars, history
      <3>4. TurnsInv'
        BY <3>3 DEF TurnsInv
      <3>5. ASSUME NEW s \in Sessions PROVE Visitor(s)'
        <4>1. \A u \in visited[s] \ disturbed[s] : Sound(sess[s], u)'
          BY <3>3, SoundStays DEF VisitInv, Visitor
        <4> QED BY <3>3, <4>1 DEF VisitInv, Visitor, Covers, DirtyPicks, Unwritten
      <3>6. (\A u \in Users \ doubtful : stats[u] = Tally(picks, u))'
        BY <3>3 DEF VisitInv, Tally
      <3> QED BY <3>2, <3>4, <3>5, <3>6 DEF VisitInv
    <2> QED BY <2>1, <2>2
  <1>3. VisitInv => StatsMatchPicks
    BY DEF VisitInv, StatsMatchPicks, Tally
  <1> QED BY <1>1, <1>2, <1>3, PTL DEF HistorySpec
-----------------------------------------------------------------------------
(***************************************************************************)
(* Marked games are graded, as long as the API names a result once and no  *)
(* admin corrects or rescores: then all sessions grade a pick alike, and   *)
(* its row, wherever a copy of it is kept, is new or has its final grade.  *)
(***************************************************************************)
Winner(g) == IF feed[g] \in Teams THEN feed[g] ELSE None
Final(p) == Graded(Winner(p[2]), p, NewPick)
Stage(p, row) == row \in {NewPick, Final(p)}

\* Session x sees game g graded.
Done(x, g) == feed[g] # "live" /\ \A p \in PicksOn(g) : PickView(x, p) = Final(p)

PickStages(x) ==
    /\ \A p \in Picks : /\ Stage(p, x.pBase[p]) /\ Stage(p, x.pMem[p])
                        /\ x.pBase[p] = Final(p) => /\ x.pMem[p] = Final(p)
                                                    /\ PickView(x, p) = Final(p)
    /\ \A p \in x.lockedPicks : /\ Stage(p, x.pVer[p])
                                /\ picks[p] = Final(p) => x.pVer[p] = Final(p)

RowOK(x, g, row) == row.winner \in {None, Winner(g)} /\ (row.scored => Done(x, g))
GameStages(x) ==
    /\ \A g \in Games : RowOK(x, g, x.gMem[g])
    /\ \A g \in x.lockedGames : RowOK(x, g, x.gVer[g])

\* What the session is about.
Reported(x) == \A g \in Games : x.report[g] # "live" => x.report[g] = feed[g]
Grading(x) ==
    /\ x.pc = "select" => feed[x.cur] # "live" /\ x.gMem[x.cur].winner = Winner(x.cur)
    /\ x.pc \in {"recalc", "store"} =>
         feed[x.cur] # "live" /\ \A p \in PicksOn(x.cur) : x.pMem[p] = Final(p)
    /\ x.pc = "store" => Done(x, x.cur)

MarkOK(x) == PickStages(x) /\ GameStages(x) /\ Reported(x) /\ Grading(x)

Stored ==
    /\ \A g \in Games : /\ feed[g] \in Outcomes \cup {"live"}
                        /\ games[g].winner \in {None, Winner(g)}
                        /\ games[g].scored => /\ feed[g] # "live"
                                              /\ \A p \in PicksOn(g) : picks[p] = Final(p)
    /\ \A p \in Picks : Stage(p, picks[p])

MarkInv == Stored /\ \A s \in Sessions : MarkOK(sess[s])

\* Whatever is graded by the final winner gets the final grade.
LEMMA GradedFinal ==
  ASSUME NEW p \in Picks, NEW row, Stage(p, row)
  PROVE  Graded(Winner(p[2]), p, row) = Final(p) /\ Final(p) \in PickRow
  <1> DEFINE w == Winner(p[2])
  <1>1. NewPick \in PickRow /\ Final(p) = Graded(w, p, NewPick) /\ row \in {NewPick, Final(p)}
    BY NewRows DEF Stage, Final
  <1>2. Final(p) \in PickRow
    BY <1>1, GradedRow
  <1>3. Final(p) = Graded(w, p, NewPick)
    BY <1>1
  <1> HIDE DEF w
  <1>4. CASE w = None
    <2>1. Graded(w, p, NewPick) = NewPick
      BY <1>4 DEF Graded, NewPick
    <2> QED BY <1>1, <2>1 DEF w
  <1>5. CASE w # None
    <2>1. Graded(w, p, row) = Graded(w, p, NewPick)
      BY <1>5 DEF Graded
    <2> QED BY <1>2, <1>3, <2>1 DEF w
  <1> QED BY <1>2, <1>4, <1>5

\* An UPDATE from a new pick to another row writes that row over either.
LEMMA UpdateFinal ==
  ASSUME NEW n, NEW m \in PickRow, NEW row \in {n, m}
  PROVE  PickUpdate(row, n, m) = m
  <1>1. PickUpdate(row, n, m) = [correct |-> m.correct, points |-> m.points]
    BY DEF PickUpdate
  <1> QED BY <1>1 DEF PickRow

LEMMA ViewStage ==
  ASSUME Stored, NEW x, PickStages(x), NEW p \in Picks
  PROVE  /\ Stage(p, PickView(x, p))
         /\ picks[p] = Final(p) => PickView(x, p) = Final(p)
  BY DEF Stored, PickStages, PickView

\* A row that x sees, its own or the committed one.
LEMMA ViewRow ==
  ASSUME Stored, NEW x, PickStages(x), GameStages(x), NEW g \in Games
  PROVE  RowOK(x, g, GameView(x, g)) /\ RowOK(x, g, games[g]) /\ RowOK(x, g, NewGame)
  <1>1. RowOK(x, g, games[g])
    BY ViewStage DEF Stored, RowOK, Done, PicksOn
  <1>2. RowOK(x, g, NewGame)
    BY DEF RowOK, NewGame
  <1> QED BY <1>1, <1>2 DEF GameView, GameStages

LEMMA MarkFlushed ==
  ASSUME TypeOK, Stored, NEW x \in Session, PickStages(x), GameStages(x),
         NEW f, f = Flushed(x)
  PROVE  /\ PickStages(f) /\ GameStages(f) /\ f.report = x.report
         /\ \A p \in Picks : /\ PickView(x, p) = Final(p) => PickView(f, p) = Final(p)
                             /\ x.pMem[p] = Final(p) => PickView(f, p) = Final(p)
  <1>1. /\ f.pMem = x.pMem /\ f.pBase = x.pMem /\ f.report = x.report /\ f.gMem = x.gMem
        /\ f.lockedGames = x.lockedGames \cup x.dirty
        /\ f.lockedPicks = x.lockedPicks \cup DirtyPicks(x)
    BY FlushedShape
  <1>2. ASSUME NEW p \in DirtyPicks(x)
        PROVE  p \in Picks /\ f.pVer[p] = Final(p) /\ PickView(f, p) = Final(p)
    <2>1. p \in Picks /\ x.pMem[p] # x.pBase[p]
      BY DEF DirtyPicks
    <2>2. x.pBase[p] = NewPick /\ x.pMem[p] = Final(p)
      BY <2>1 DEF PickStages, Stage
    <2>3. PickView(x, p) \in {NewPick, Final(p)} /\ Final(p) \in PickRow
      BY <2>1, ViewStage, GradedFinal DEF Stage
    <2>4. PickUpdate(PickView(x, p), x.pBase[p], x.pMem[p]) = Final(p)
      BY <2>2, <2>3, UpdateFinal
    <2>5. f.pVer[p] = Final(p)
      BY <2>1, <2>4, FlushedShape
    <2> QED BY <1>1, <2>1, <2>5 DEF PickView
  <1>3. ASSUME NEW p \in Picks, p \notin DirtyPicks(x)
        PROVE  /\ PickView(f, p) = PickView(x, p) /\ f.pVer[p] = x.pVer[p]
               /\ x.pMem[p] = x.pBase[p]
    <2>1. f.pVer[p] = x.pVer[p]
      BY <1>3, FlushedShape
    <2> QED BY <1>1, <1>3, <2>1 DEF PickView, DirtyPicks
  <1>4. ASSUME NEW p \in Picks
        PROVE  /\ PickView(x, p) = Final(p) => PickView(f, p) = Final(p)
               /\ x.pMem[p] = Final(p) => PickView(f, p) = Final(p)
    BY <1>2, <1>3 DEF PickStages
  <1>5. PickStages(f)
    <2>1. ASSUME NEW p \in Picks
          PROVE  /\ Stage(p, f.pBase[p]) /\ Stage(p, f.pMem[p])
                 /\ f.pBase[p] = Final(p) => f.pMem[p] = Final(p) /\ PickView(f, p) = Final(p)
      BY <1>1, <1>4 DEF PickStages
    <2>2. ASSUME NEW p \in f.lockedPicks
          PROVE  Stage(p, f.pVer[p]) /\ (picks[p] = Final(p) => f.pVer[p] = Final(p))
      <3>1. CASE p \in DirtyPicks(x)
        BY <1>2, <3>1 DEF Stage
      <3>2. CASE p \notin DirtyPicks(x)
        <4>1. p \in x.lockedPicks /\ p \in Picks
          BY <1>1, <3>2 DEF Session
        <4> QED BY <1>3, <3>2, <4>1 DEF PickStages
      <3> QED BY <3>1, <3>2
    <2> QED BY <2>1, <2>2 DEF PickStages
  <1>6. \A g \in Games : \A row : RowOK(x, g, row) => RowOK(f, g, row)
    BY <1>4 DEF RowOK, Done, PicksOn
  <1>7. GameStages(f)
    <2>1. \A g \in Games : RowOK(f, g, f.gMem[g])
      BY <1>1, <1>6 DEF GameStages
    <2>2. ASSUME NEW g \in f.lockedGames
          PROVE  RowOK(x, g, f.gVer[g])
      <3>1. g \in Games
        BY <1>1 DEF Session
      <3>2. CASE g \in x.dirty
        <4> DEFINE v == GameView(x, g)
                   b == x.gBase[g]
                   m == x.gMem[g]
        <4>1. f.gVer[g] = GameUpdate(v, b, m)
          BY <3>1, <3>2, FlushedShape
        <4>2. RowOK(x, g, v) /\ RowOK(x, g, m)
          BY <3>1, ViewRow DEF GameStages
        <4> HIDE DEF v, b, m
        <4>3. /\ GameUpdate(v, b, m).winner \in {v.winner, m.winner}
              /\ GameUpdate(v, b, m).scored \in {v.scored, m.scored}
          BY DEF GameUpdate
        <4> QED BY <4>1, <4>2, <4>3 DEF RowOK
      <3>3. CASE g \notin x.dirty
        <4>1. f.gVer[g] = x.gVer[g] /\ g \in x.lockedGames
          BY <1>1, <3>1, <3>3, FlushedShape
        <4> QED BY <4>1 DEF GameStages
      <3> QED BY <3>2, <3>3
    <2>3. \A g \in f.lockedGames : g \in Games
      BY <1>1 DEF Session
    <2> QED BY <1>6, <2>1, <2>2, <2>3 DEF GameStages
  <1> QED BY <1>1, <1>4, <1>5, <1>7

LEMMA PicksSame ==
  ASSUME NEW x, NEW y, y.pBase = x.pBase, y.pMem = x.pMem, y.pVer = x.pVer,
         y.lockedPicks = x.lockedPicks
  PROVE  /\ PickStages(x) => PickStages(y)
         /\ \A p \in Picks : PickView(y, p) = PickView(x, p)
         /\ \A g \in Games : Done(x, g) => Done(y, g)
         /\ \A g \in Games : \A row : RowOK(x, g, row) => RowOK(y, g, row)
  <1>1. \A p \in Picks : PickView(y, p) = PickView(x, p)
    BY DEF PickView
  <1>2. \A g \in Games : Done(x, g) => Done(y, g)
    BY <1>1 DEF Done, PicksOn
  <1>3. PickStages(x) => PickStages(y)
    BY <1>1 DEF PickStages
  <1> QED BY <1>1, <1>2, <1>3 DEF RowOK

LEMMA MarkStep ==
  ASSUME IInv, MarkInv, NEW s \in Sessions, NEW y, MarkOK(y), Step(s, y)
  PROVE  MarkInv'
  <1>1. /\ sess' = [sess EXCEPT ![s] = y]
        /\ games' = games /\ picks' = picks /\ feed' = feed
    BY DEF Step
  <1>2. \A t \in Sessions : MarkOK(sess'[t])
    BY <1>1 DEF MarkInv, IInv, TypeOK
  <1>3. Stored'
    BY <1>1 DEF MarkInv, Stored, Stage, Final, Winner
  <1>4. ASSUME NEW t \in Sessions
        PROVE  MarkOK(sess[t])'
    BY <1>1, <1>2 DEF MarkOK, PickStages, GameStages, Reported, Grading, RowOK, Done, PickView,
                      Stage, Final, Winner
  <1> QED BY <1>3, <1>4 DEF MarkInv

\* The session goes from x to y, another row of game g in memory.
LEMMA MarkEdits ==
  ASSUME IInv, MarkInv, NEW s \in Sessions, NEW x \in Session, NEW y, NEW g \in Games, NEW row,
         PickStages(x), GameStages(x), Reported(x),
         Edits(x, y, g, row), RowOK(x, g, row), Step(s, y),
         Outside(y) \/ (Turned(y, g) /\ feed[g] # "live" /\ row.winner = Winner(g))
  PROVE  MarkInv'
  <1>1. /\ PickStages(y) /\ Reported(y)
        /\ \A h \in Games : \A r : RowOK(x, h, r) => RowOK(y, h, r)
    BY PicksSame DEF Edits, SameData, Reported
  <1>2. /\ y.gVer = x.gVer /\ y.lockedGames = x.lockedGames /\ x.lockedGames \subseteq Games
        /\ y.gMem[g] = row /\ \A h \in Games : h # g => y.gMem[h] = x.gMem[h]
    BY DEF Edits, SameData, Session
  <1>3. GameStages(y)
    BY <1>1, <1>2 DEF GameStages
  <1>4. Grading(y)
    BY <1>2 DEF Grading, Outside, Turned
  <1> QED BY <1>1, <1>3, <1>4, MarkStep DEF MarkOK

\* ... or the same rows.
LEMMA MarkMoves ==
  ASSUME IInv, MarkInv, NEW s \in Sessions, NEW x \in Session, NEW y,
         PickStages(x), GameStages(x), Reported(y), SameData(x, y), y.gMem = x.gMem,
         Step(s, y), Outside(y)
  PROVE  MarkInv'
  <1>1. PickStages(y) /\ \A h \in Games : \A r : RowOK(x, h, r) => RowOK(y, h, r)
    BY PicksSame DEF SameData
  <1>2. GameStages(y)
    BY <1>1 DEF GameStages, SameData, Session
  <1>3. Grading(y)
    BY DEF Grading, Outside
  <1> QED BY <1>1, <1>2, <1>3, MarkStep DEF MarkOK

LEMMA MarkScored ==
  ASSUME IInv, MarkInv, NEW s \in Sessions, NEW x \in Session, x.cur \in Games, NEW y,
         PickStages(x), GameStages(x), Reported(x), Done(x, x.cur),
         Step(s, y), y = Scored(s, x)
  PROVE  MarkInv'
  <1> DEFINE row == [x.gMem[x.cur] EXCEPT !.scored = TRUE]
  <1>1. Outside(y) /\ (Keeps(x, y) \/ Edits(x, y, x.cur, row))
    BY ScoredShape
  <1>2. RowOK(x, x.cur, row)
    <2> DEFINE old == x.gMem[x.cur]
    <2>1. old \in GameRow /\ RowOK(x, x.cur, old)
      BY DEF Session, GameStages
    <2> HIDE DEF old
    <2>2. [old EXCEPT !.scored = TRUE].winner = old.winner
      BY <2>1 DEF GameRow
    <2> QED BY <2>1, <2>2 DEF RowOK, old
  <1> HIDE DEF row
  <1>3. CASE Keeps(x, y)
    BY <1>1, <1>3, MarkMoves DEF Keeps, Reported
  <1>4. CASE Edits(x, y, x.cur, row)
    BY <1>1, <1>2, <1>4, MarkEdits
  <1> QED BY <1>1, <1>3, <1>4

\* A session that has read nothing.
LEMMA IdleMark ==
  ASSUME Stored
  PROVE  MarkOK(Idle) /\ PickStages(Idle) /\ GameStages(Idle) /\ Reported(Idle)
  <1>1. /\ Idle.pc = "idle" /\ Idle.lockedGames = {} /\ Idle.lockedPicks = {}
        /\ \A g \in Games : Idle.gMem[g] = NewGame /\ Idle.report[g] = "live"
        /\ \A p \in Picks : Idle.pBase[p] = NewPick /\ Idle.pMem[p] = NewPick
    BY IdleShape
  <1> DEFINE x == Idle
  <1> HIDE DEF x
  <1>2. PickStages(Idle)
    BY <1>1 DEF PickStages, Stage, PickView, Stored
  <1>3. GameStages(Idle)
    BY <1>1 DEF GameStages, RowOK, NewGame
  <1>4. Reported(Idle) /\ Grading(Idle)
    BY <1>1 DEF Reported, Grading
  <1> QED BY <1>2, <1>3, <1>4 DEF MarkOK

LEMMA MarkSelectPicks ==
  ASSUME IInv, MarkInv, NEW s \in Sessions, SelectPicks(s)
  PROVE  MarkInv'
  <1> DEFINE x == sess[s]
             f == Flushed(x)
  <1>1. /\ x \in Session /\ TypeOK /\ x.cur \in Games /\ x.pc = "select"
        /\ Stored /\ MarkOK(x)
    BY DEF IInv, TypeOK, ProgramOK, SelectPicks, MarkInv
  <1>2. /\ f \in Session
        /\ \/ PicksOn(f.cur) = {} /\ \E y \in Session : Step(s, y) /\ y = Scored(s, f)
           \/ \E y \in Session : Step(s, y) /\ Grades(f, y)
    BY <1>1, SelectPicksShape
  <1>3. /\ PickStages(f) /\ GameStages(f) /\ f.report = x.report
        /\ f.cur = x.cur /\ f.gMem = x.gMem
    BY <1>1, MarkFlushed, FlushedShape DEF MarkOK
  <1>4. feed[f.cur] # "live" /\ f.gMem[f.cur].winner = Winner(f.cur) /\ Reported(f)
        /\ f.cur \in Games
    BY <1>1, <1>3 DEF MarkOK, Grading, Reported
  <1> HIDE DEF f
  <1>5. ASSUME PicksOn(f.cur) = {}, NEW y \in Session, Step(s, y), y = Scored(s, f)
        PROVE  MarkInv'
    <2>1. Done(f, f.cur)
      BY <1>4, <1>5 DEF Done
    <2> QED BY <1>2, <1>3, <1>4, <1>5, <2>1, MarkScored
  <1>6. ASSUME NEW y \in Session, Step(s, y), Grades(f, y)
        PROVE  MarkInv'
    <2>1. ASSUME NEW p \in Picks, p[2] = f.cur
          PROVE  y.pBase[p] = PickView(f, p) /\ y.pMem[p] = Final(p)
      <3>1. Stage(p, PickView(f, p))
        BY <1>1, <1>3, ViewStage
      <3> DEFINE row == PickView(f, p)
      <3>2. y.pBase[p] = row /\ y.pMem[p] = Graded(f.gMem[f.cur].winner, p, row)
        BY <1>6, <2>1 DEF Grades
      <3> HIDE DEF row
      <3>3. y.pMem[p] = Graded(Winner(p[2]), p, row)
        BY <1>4, <2>1, <3>2
      <3> QED BY <3>1, <3>2, <3>3, GradedFinal DEF row
    <2>2. \A p \in Picks : p[2] # f.cur => y.pBase[p] = f.pBase[p] /\ y.pMem[p] = f.pMem[p]
      BY <1>6 DEF Grades
    <2>3. /\ y.pVer = f.pVer /\ y.lockedPicks = f.lockedPicks /\ y.gVer = f.gVer
          /\ y.lockedGames = f.lockedGames /\ y.report = f.report /\ y.gMem = f.gMem
          /\ y.cur = f.cur /\ y.pc = "recalc"
      BY <1>6 DEF Grades
    <2>4. \A p \in Picks : PickView(y, p) = PickView(f, p)
      BY <2>3 DEF PickView
    <2>5. PickStages(y)
      <3>1. ASSUME NEW p \in Picks
            PROVE  /\ Stage(p, y.pBase[p]) /\ Stage(p, y.pMem[p])
                   /\ y.pBase[p] = Final(p) => y.pMem[p] = Final(p) /\ PickView(y, p) = Final(p)
        <4>1. CASE p[2] = f.cur
          <5>1. Stage(p, PickView(f, p)) /\ Stage(p, Final(p))
            BY <1>1, <1>3, ViewStage DEF Stage
          <5> QED BY <2>1, <2>4, <4>1, <5>1
        <4>2. CASE p[2] # f.cur
          BY <1>3, <2>2, <2>4, <4>2 DEF PickStages
        <4> QED BY <4>1, <4>2
      <3>2. \A p \in y.lockedPicks : /\ Stage(p, y.pVer[p])
                                     /\ picks[p] = Final(p) => y.pVer[p] = Final(p)
        BY <1>3, <2>3 DEF PickStages
      <3> QED BY <3>1, <3>2 DEF PickStages
    <2>6. GameStages(y)
      <3>1. \A g \in Games : \A row : RowOK(f, g, row) => RowOK(y, g, row)
        BY <2>4 DEF RowOK, Done, PicksOn
      <3> QED BY <1>2, <1>3, <2>3, <3>1 DEF GameStages, Session
    <2>7. Reported(y) /\ Grading(y)
      BY <1>4, <2>1, <2>3 DEF Reported, Grading, PicksOn
    <2> QED BY <1>6, <2>5, <2>6, <2>7, MarkStep DEF MarkOK
  <1> QED BY <1>2, <1>5, <1>6

LEMMA MarkSelectScored ==
  ASSUME IInv, MarkInv, NEW s \in Sessions, SelectScoredPicks(s)
  PROVE  MarkInv'
  <1> DEFINE x == sess[s]
             f == Flushed(x)
  <1>1. /\ x \in Session /\ TypeOK /\ x.cur \in Games /\ x.pc = "recalc"
        /\ Stored /\ MarkOK(x)
    BY DEF IInv, TypeOK, ProgramOK, SelectScoredPicks, MarkInv
  <1>2. /\ PickStages(f) /\ GameStages(f) /\ f.report = x.report
        /\ f.cur = x.cur /\ f.pMem = x.pMem
        /\ \A p \in Picks : x.pMem[p] = Final(p) => PickView(f, p) = Final(p)
    BY <1>1, MarkFlushed, FlushedShape DEF MarkOK
  <1>3. /\ feed[f.cur] # "live" /\ \A p \in PicksOn(f.cur) : f.pMem[p] = Final(p)
        /\ Done(f, f.cur) /\ Reported(f)
    BY <1>1, <1>2 DEF MarkOK, Grading, Done, PicksOn, Reported
  <1>4. PICK y \in Session : Step(s, y) /\ Keeps(f, y) /\ y.pc = "store" /\ y.cur = f.cur
    BY <1>1, SelectScoredPicksShape
  <1>5. f \in Session
    BY <1>1, FlushedType
  <1> HIDE DEF f
  <1>6. /\ y.pBase = f.pBase /\ y.pMem = f.pMem /\ y.pVer = f.pVer /\ y.gMem = f.gMem
        /\ y.lockedPicks = f.lockedPicks /\ y.gVer = f.gVer /\ y.lockedGames = f.lockedGames
        /\ y.report = f.report
    BY <1>4 DEF Keeps, SameData
  <1>7. /\ PickStages(y) /\ Done(y, f.cur)
        /\ \A g \in Games : \A row : RowOK(f, g, row) => RowOK(y, g, row)
    BY <1>1, <1>2, <1>3, <1>6, PicksSame
  <1>8. GameStages(y)
    BY <1>2, <1>5, <1>6, <1>7 DEF GameStages, Session
  <1>9. Reported(y) /\ Grading(y)
    BY <1>3, <1>4, <1>6, <1>7 DEF Reported, Grading
  <1> QED BY <1>4, <1>7, <1>8, <1>9, MarkStep DEF MarkOK

LEMMA MarkUpdate ==
  ASSUME IInv, MarkInv, NEW s \in Sessions, UpdateParticipant(s)
  PROVE  MarkInv'
  <1> DEFINE x == sess[s]
  <1>1. /\ x \in Session /\ TypeOK /\ x.cur \in Games /\ x.pc = "store" /\ x.who \in Users
        /\ Stored /\ MarkOK(x)
    BY DEF IInv, TypeOK, ProgramOK, UpdateParticipant, MarkInv
  <1>2. PICK z \in Session :
          /\ Stores(x, z)
          /\ \/ \E y \in Session : Step(s, y) /\ y = Scored(s, z)
             \/ z.pc = "recalc" /\ Step(s, z)
    BY <1>1, UpdateParticipantShape
  <1> HIDE DEF x
  <1>3. /\ z.pBase = x.pBase /\ z.pMem = x.pMem /\ z.pVer = x.pVer /\ z.gMem = x.gMem
        /\ z.lockedPicks = x.lockedPicks /\ z.gVer = x.gVer /\ z.lockedGames = x.lockedGames
        /\ z.report = x.report /\ z.cur = x.cur
    BY <1>2 DEF Stores
  <1>4. PickStages(x) /\ GameStages(x) /\ Reported(x) /\ Grading(x)
    BY <1>1 DEF MarkOK
  <1>5. /\ PickStages(z) /\ Done(z, z.cur)
        /\ \A g \in Games : \A row : RowOK(x, g, row) => RowOK(z, g, row)
    BY <1>1, <1>3, <1>4, PicksSame DEF Grading
  <1>6. GameStages(z) /\ Reported(z)
    BY <1>1, <1>3, <1>4, <1>5 DEF GameStages, Reported, Session
  <1>7. ASSUME NEW y \in Session, Step(s, y), y = Scored(s, z) PROVE MarkInv'
    BY <1>1, <1>3, <1>5, <1>6, <1>7, MarkScored
  <1>8. CASE z.pc = "recalc" /\ Step(s, z)
    <2>1. Grading(z)
      BY <1>1, <1>3, <1>4, <1>8 DEF Grading
    <2> QED BY <1>5, <1>6, <1>8, <2>1, MarkStep DEF MarkOK
  <1> QED BY <1>2, <1>7, <1>8

\* Both jobs store the winner that the API named.
LEMMA ReportedRow ==
  ASSUME Stored, NEW x, NEW g \in Games, NEW row \in GameRow, RowOK(x, g, row), NEW r,
         r # "live" => r = feed[g], NEW new,
         new = JobReport(row, r) \/ new = SyncReport(row, r)
  PROVE  /\ RowOK(x, g, new)
         /\ r # "live" => feed[g] # "live" /\ new.winner = Winner(g)
  <1>1. feed[g] \in Outcomes \cup {"live"}
    BY DEF Stored
  <1>2. /\ new.scored = row.scored
        /\ \/ new.winner = JobWinner(row.winner, r)
           \/ new.winner = SyncWinner(row.winner, r)
    BY DEF JobReport, SyncReport, GameRow
  <1>3. CASE r = "live"
    BY <1>2, <1>3 DEF RowOK, JobWinner, SyncWinner, Teams
  <1>4. CASE r # "live"
    <2>1. r \in Outcomes /\ r = feed[g]
      BY <1>1, <1>4
    <2>2. new.winner = Winner(g)
      BY <1>2, <1>4, <2>1 DEF JobWinner, SyncWinner, Winner, Outcomes
    <2> QED BY <1>2, <1>4, <2>1, <2>2 DEF RowOK
  <1> QED BY <1>3, <1>4

LEMMA MarkJobs ==
  ASSUME IInv, MarkInv, NEW s \in Sessions,
         \/ JobApply(s) \/ SyncGame(s) \/ JobSelect(s)
         \/ \E listed \in SUBSET Games : JobFetch(s, listed) \/ SyncFetch(s, listed)
  PROVE  MarkInv'
  <1> DEFINE x == sess[s]
             f == Flushed(x)
  <1>1. /\ x \in Session /\ TypeOK /\ Stored
        /\ PickStages(x) /\ GameStages(x) /\ Reported(x)
    BY DEF IInv, TypeOK, MarkInv, MarkOK
  <1>2. Idle \in Session /\ PickStages(Idle) /\ GameStages(Idle) /\ Reported(Idle)
    BY <1>1, IdleMark, IdleShape
  <1>3. CASE JobApply(s)
    <2>1. PICK g \in Games, y \in Session :
            /\ Step(s, y) /\ Edits(x, y, g, JobReport(x.gMem[g], x.report[g]))
            /\ Outside(y) \/ (Turned(y, g) /\ x.report[g] # "live")
      BY <1>1, <1>3, JobApplyShape
    <2> DEFINE old == x.gMem[g]
               r == x.report[g]
               row == JobReport(old, r)
    <2>2. old \in GameRow /\ RowOK(x, g, old) /\ (r # "live" => r = feed[g])
      BY <1>1 DEF Session, GameStages, Reported
    <2>3. RowOK(x, g, row) /\ (r # "live" => feed[g] # "live" /\ row.winner = Winner(g))
      <3> HIDE DEF old, r
      <3> QED BY <1>1, <2>2, ReportedRow
    <2>4. /\ Step(s, y) /\ Edits(x, y, g, row)
          /\ Outside(y) \/ (Turned(y, g) /\ r # "live")
      BY <2>1
    <2> HIDE DEF row, x, r
    <2> QED BY <1>1, <2>3, <2>4, MarkEdits
  <1>4. CASE SyncGame(s)
    <2>1. PickStages(f) /\ GameStages(f) /\ f.report = x.report /\ f \in Session
      BY <1>1, MarkFlushed, FlushedType
    <2>2. PICK g \in Games, y \in Session :
            /\ Step(s, y) /\ Edits(f, y, g, SyncReport(GameView(f, g), f.report[g]))
            /\ Outside(y) \/ (Turned(y, g) /\ f.report[g] # "live")
      BY <1>4, SyncGameShape
    <2>3. Reported(f)
      BY <1>1, <2>1 DEF Reported
    <2> HIDE DEF f
    <2> DEFINE old == GameView(f, g)
               r == f.report[g]
               row == SyncReport(old, r)
    <2>4. old \in GameRow /\ RowOK(f, g, old) /\ (r # "live" => r = feed[g])
      BY <1>1, <2>1, <2>3, ViewType, ViewRow DEF Reported
    <2>5. RowOK(f, g, row) /\ (r # "live" => feed[g] # "live" /\ row.winner = Winner(g))
      <3> HIDE DEF old, r
      <3> QED BY <1>1, <2>4, ReportedRow
    <2>6. /\ Step(s, y) /\ Edits(f, y, g, row)
          /\ Outside(y) \/ (Turned(y, g) /\ r # "live")
      BY <2>2
    <2> HIDE DEF row, r
    <2> QED BY <2>1, <2>3, <2>5, <2>6, MarkEdits
  <1>5. CASE JobSelect(s)
    <2>1. PICK y \in Session : /\ Step(s, y) /\ y.pc = "fetch"
                               /\ SameData(Idle, y) /\ y.report = Idle.report
                               /\ \A g \in Games : y.gMem[g] \in {games[g], NewGame}
      BY <1>1, <1>5, JobSelectShape
    <2>2. PickStages(y) /\ \A g \in Games : \A row : RowOK(Idle, g, row) => RowOK(y, g, row)
      BY <1>2, <2>1, PicksSame DEF SameData
    <2>3. \A g \in Games : RowOK(Idle, g, games[g]) /\ RowOK(Idle, g, NewGame)
      BY <1>1, <1>2, ViewRow
    <2>4. y.lockedGames = {}
      BY <2>1, IdleShape DEF SameData
    <2>5. GameStages(y)
      BY <2>1, <2>2, <2>3, <2>4 DEF GameStages
    <2>6. Reported(y) /\ Grading(y)
      BY <1>2, <2>1 DEF Reported, Grading
    <2> QED BY <2>1, <2>2, <2>5, <2>6, MarkStep DEF MarkOK
  <1>6. ASSUME NEW listed \in SUBSET Games, JobFetch(s, listed) \/ SyncFetch(s, listed)
        PROVE  MarkInv'
    <2>1. PicksOK(x) /\ PicksOK(Idle)
      BY IdleOK DEF IInv
    <2>2. ASSUME NEW w \in Session, PicksOK(w), PickStages(w), GameStages(w),
                 NEW y, y = Fetched(w, listed), Step(s, y)
          PROVE  MarkInv'
      <3>1. /\ SameData(w, y) /\ y.gMem = w.gMem /\ Outside(y)
            /\ \A g \in Games : y.report[g] \in {"live", feed[g]}
        BY <1>1, <2>2, FetchedShape
      <3>2. Reported(y)
        BY <3>1 DEF Reported
      <3> QED BY <2>2, <3>1, <3>2, MarkMoves
    <2> HIDE DEF x
    <2>3. Step(s, Fetched(x, listed)) \/ Step(s, Fetched(Idle, listed))
      BY <1>6 DEF JobFetch, SyncFetch, x
    <2> QED BY <1>1, <1>2, <2>1, <2>2, <2>3
  <1> QED BY <1>3, <1>4, <1>5, <1>6

LEMMA MarkOthers ==
  ASSUME IInv, MarkInv, ~Rescoring, Corrections = {}, NEW s \in Sessions,
         \/ \E g \in Games : AdminRescore(s, g)
         \/ \E g \in Games, outcome \in Corrections : AdminCorrect(s, g, outcome)
         \/ ScoringFails(s) \/ Abort(s) \/ DeadlockVictim(s)
  PROVE  MarkInv'
  <1> DEFINE x == sess[s]
  <1>1. /\ x \in Session /\ TypeOK /\ Stored
        /\ PickStages(x) /\ GameStages(x) /\ Reported(x)
    BY DEF IInv, TypeOK, MarkInv, MarkOK
  <1>2. MarkOK(Idle)
    BY <1>1, IdleMark
  <1>3. CASE ScoringFails(s)
    <2>1. PICK z, y \in Session :
            /\ z = x \/ z = Flushed(x)
            /\ z.cur \in Games /\ Step(s, y)
            /\ \/ Outside(y) /\ Keeps(z, y)
               \/ Outside(y) /\ Edits(z, y, z.cur, Reverted(z.gMem[z.cur]))
               \/ y = Idle
      BY <1>3, ScoringFailsShape
    <2>2. PickStages(z) /\ GameStages(z) /\ Reported(z)
      BY <1>1, <2>1, MarkFlushed DEF Reported
    <2> HIDE DEF x
    <2>3. CASE y = Idle
      BY <1>2, <2>1, <2>3, MarkStep
    <2>4. CASE Outside(y) /\ Keeps(z, y)
      BY <1>1, <2>1, <2>2, <2>4, MarkMoves DEF Keeps, Reported
    <2>5. CASE Outside(y) /\ Edits(z, y, z.cur, Reverted(z.gMem[z.cur]))
      <3> DEFINE old == z.gMem[z.cur]
                 row == Reverted(old)
      <3>1. old \in GameRow /\ RowOK(z, z.cur, old)
        BY <2>1, <2>2 DEF Session, GameStages
      <3>2. row.winner = None /\ row.scored = old.scored
        <4> HIDE DEF old
        <4> QED BY <3>1 DEF Reverted, GameRow
      <3>3. RowOK(z, z.cur, row) /\ Edits(z, y, z.cur, row)
        BY <2>5, <3>1, <3>2 DEF RowOK
      <3> HIDE DEF row
      <3> QED BY <1>1, <2>1, <2>2, <2>5, <3>3, MarkEdits
    <2> QED BY <2>1, <2>3, <2>4, <2>5
  <1>4. CASE Abort(s) \/ DeadlockVictim(s)
    <2>1. /\ sess' = [sess EXCEPT ![s] = Idle]
          /\ UNCHANGED <<games, picks, stats, feed>>
      BY <1>4 DEF Abort, DeadlockVictim, Step
    <2>2. \A t \in Sessions : MarkOK(sess'[t])
      BY <1>2, <2>1 DEF MarkInv, IInv, TypeOK
    <2>3. Stored'
      BY <1>1, <2>1 DEF Stored, Stage, Final, Winner
    <2>4. ASSUME NEW t \in Sessions PROVE MarkOK(sess[t])'
      BY <2>1, <2>2 DEF MarkOK, PickStages, GameStages, Reported, Grading, RowOK, Done,
                        PickView, Stage, Final, Winner
    <2> QED BY <2>3, <2>4 DEF MarkInv
  <1> QED BY <1>3, <1>4 DEF AdminRescore

\* A commit brings rows on, and none that another session has written.
LEMMA MarkCommit ==
  ASSUME IInv, MarkInv, NEW s \in Sessions, Commit(s)
  PROVE  MarkInv'
  <1> DEFINE x == sess[s]
             f == Flushed(x)
  <1>1. x \in Session /\ TypeOK /\ Stored /\ PickStages(x) /\ GameStages(x)
    BY DEF IInv, TypeOK, MarkInv, MarkOK
  <1>2. /\ f \in Session /\ FlushBlockers(s) = {}
        /\ games' = [g \in Games |-> GameView(f, g)]
        /\ picks' = [p \in Picks |-> PickView(f, p)]
        /\ sess' = [sess EXCEPT ![s] = Idle] /\ feed' = feed
    BY <1>1, CommitShape
  <1>3. PickStages(f) /\ GameStages(f) /\ PickBlockers(s, f.lockedPicks) = {}
    BY <1>1, <1>2, MarkFlushed, LocksFree
  <1> HIDE DEF f, x
  <1>4. /\ \A g : Winner(g)' = Winner(g)
        /\ \A p : Final(p)' = Final(p)
    BY <1>2 DEF Winner, Final
  <1>5. \A p \in Picks : /\ Stage(p, picks'[p])
                         /\ picks[p] = Final(p) => picks'[p] = Final(p)
    BY <1>1, <1>2, <1>3, ViewStage
  <1>6. \A g \in Games : RowOK(f, g, games'[g])
    BY <1>1, <1>2, <1>3, ViewRow
  <1>7. Stored'
    <2>1. ASSUME NEW g \in Games
          PROVE  /\ games'[g].winner \in {None, Winner(g)}
                 /\ games'[g].scored => /\ feed[g] # "live"
                                        /\ \A p \in PicksOn(g) : picks'[p] = Final(p)
      BY <1>2, <1>6 DEF RowOK, Done, PicksOn
    <2> QED BY <1>1, <1>2, <1>4, <1>5, <2>1 DEF Stored, Stage
  <1>8. sess'[s] = Idle /\ \A t \in Sessions : t # s => sess'[t] = sess[t]
    BY <1>2 DEF IInv, TypeOK
  <1>9. ASSUME NEW t \in Sessions
        PROVE  MarkOK(sess[t])'
    <2>1. CASE t = s
      <3> DEFINE i == sess'[s]
      <3>1. /\ i.pc = "idle" /\ i.lockedGames = {} /\ i.lockedPicks = {}
            /\ \A g \in Games : i.gMem[g] = NewGame /\ i.report[g] = "live"
            /\ \A p \in Picks : i.pBase[p] = NewPick /\ i.pMem[p] = NewPick
        BY <1>8, IdleShape
      <3> HIDE DEF i
      <3>2. PickStages(sess[s])'
        BY <1>4, <1>5, <3>1 DEF PickStages, Stage, PickView, i
      <3>3. GameStages(sess[s])'
        BY <3>1 DEF GameStages, RowOK, NewGame, i
      <3>4. Reported(sess[s])' /\ Grading(sess[s])'
        BY <3>1 DEF Reported, Grading, i
      <3> QED BY <2>1, <3>2, <3>3, <3>4 DEF MarkOK
    <2>2. CASE t # s
      <3> DEFINE y == sess[t]
      <3>1. sess'[t] = y /\ MarkOK(y) /\ y \in Session
        BY <1>8, <2>2 DEF MarkInv, IInv, TypeOK
      <3> HIDE DEF y
      <3>2. ASSUME NEW p \in y.lockedPicks PROVE p \in Picks /\ picks'[p] = picks[p]
        <4>1. p \in Picks /\ p \notin f.lockedPicks
          BY <1>3, <2>2, <3>1 DEF PickBlockers, Others, Session, y
        <4> QED BY <1>2, <4>1 DEF PickView
      <3>3. ASSUME NEW p \in Picks, PickView(y, p) = Final(p)
            PROVE  (IF p \in y.lockedPicks THEN y.pVer[p] ELSE picks'[p]) = Final(p)
        BY <1>5, <3>3 DEF PickView
      <3>4. PickStages(sess[t])'
        BY <1>4, <3>1, <3>2, <3>3 DEF MarkOK, PickStages, Stage, PickView
      <3>5. \A g \in Games : Done(y, g) => Done(sess[t], g)'
        BY <1>2, <1>4, <3>1, <3>3 DEF Done, PickView, PicksOn
      <3>6. GameStages(sess[t])'
        BY <1>4, <3>1, <3>5 DEF MarkOK, GameStages, RowOK, Session
      <3>7. Reported(sess[t])'
        BY <1>2, <3>1 DEF MarkOK, Reported
      <3>8. Grading(sess[t])'
        <4>1. y.pc \in {"select", "recalc", "store"} => y.cur \in Games
          BY <2>2 DEF IInv, ProgramOK, y
        <4> QED BY <1>2, <1>4, <3>1, <3>5, <4>1 DEF MarkOK, Grading
      <3> QED BY <3>4, <3>6, <3>7, <3>8 DEF MarkOK
    <2> QED BY <2>1, <2>2
  <1> QED BY <1>7, <1>9 DEF MarkInv

\* A new report is about a game that nobody has graded yet.
LEMMA MarkFeed ==
  ASSUME IInv, MarkInv, FeedMoves \subseteq {"live"} \X Outcomes,
         NEW g \in Games, FeedReport(g)
  PROVE  MarkInv'
  <1>1. PICK r \in Reports : <<feed[g], r>> \in FeedMoves /\ feed' = [feed EXCEPT ![g] = r]
    BY DEF FeedReport
  <1>2. feed[g] = "live" /\ r \in Outcomes /\ games' = games /\ picks' = picks /\ sess' = sess
    BY <1>1 DEF FeedReport
  <1>3. feed'[g] = r /\ \A h \in Games : h # g => feed'[h] = feed[h]
    BY <1>1 DEF IInv, TypeOK
  <1>4. r # "live" /\ Winner(g) = None
    BY <1>2 DEF Outcomes, Teams, Winner
  <1>5. \A h \in Games : h # g => Winner(h)' = Winner(h)
    BY <1>3 DEF Winner
  <1>6. ASSUME NEW p \in Picks
        PROVE  IF p[2] = g THEN Final(p) = NewPick ELSE Final(p)' = Final(p)
    <2>1. CASE p[2] = g
      <3>1. Graded(None, p, NewPick) = NewPick
        BY DEF Graded, NewPick
      <3> QED BY <1>4, <2>1, <3>1 DEF Final
    <2>2. CASE p[2] # g
      BY <1>5, <2>2, PickRows DEF Final
    <2> QED BY <2>1, <2>2
  <1>7. \A p \in Picks : \A row : /\ Stage(p, row) => Stage(p, row)'
                                  /\ Stage(p, row) /\ p[2] = g => row = NewPick
    BY <1>6 DEF Stage
  <1>8. Stored'
    <2>1. \A h \in Games : feed'[h] \in Outcomes \cup {"live"}
      BY <1>2, <1>3 DEF MarkInv, Stored
    <2>2. ASSUME NEW h \in Games
          PROVE  /\ games[h].winner \in {None, Winner(h)'}
                 /\ games[h].scored => /\ feed'[h] # "live"
                                       /\ \A p \in PicksOn(h) : picks[p] = Final(p)'
      <3>1. CASE h = g
        BY <1>2, <1>4, <3>1 DEF MarkInv, Stored
      <3>2. CASE h # g
        BY <1>3, <1>5, <1>6, <3>2 DEF MarkInv, Stored, PicksOn
      <3> QED BY <3>1, <3>2
    <2>3. \A p \in Picks : Stage(p, picks[p])'
      BY <1>2, <1>7 DEF MarkInv, Stored, Stage
    <2> QED BY <1>2, <2>1, <2>2, <2>3 DEF Stored
  <1>9. ASSUME NEW t \in Sessions
        PROVE  MarkOK(sess[t])'
    <2> DEFINE y == sess[t]
    <2>1. sess'[t] = y /\ MarkOK(y) /\ y \in Session /\ Stored
      BY <1>2 DEF MarkInv, IInv, TypeOK
    <2>2. y.pc \in {"select", "recalc", "store"} => y.cur \in Games
      BY DEF IInv, ProgramOK
    <2> HIDE DEF y
    <2>3. PickStages(y) /\ GameStages(y) /\ Reported(y) /\ Grading(y)
      BY <2>1 DEF MarkOK
    <2>4. \A p \in Picks : PickView(sess[t], p)' = PickView(y, p)
      BY <1>2, <2>1 DEF PickView
    <2>5. \A p \in Picks : Stage(p, PickView(y, p))
      BY <2>1, <2>3, ViewStage
    <2>6. PickStages(sess[t])'
      <3>1. ASSUME NEW p \in Picks
            PROVE  /\ y.pBase[p] \in {NewPick, Final(p)'} /\ y.pMem[p] \in {NewPick, Final(p)'}
                   /\ y.pBase[p] = Final(p)' => /\ y.pMem[p] = Final(p)'
                                                /\ PickView(y, p) = Final(p)'
        <4>1. /\ y.pBase[p] \in {NewPick, Final(p)} /\ y.pMem[p] \in {NewPick, Final(p)}
              /\ PickView(y, p) \in {NewPick, Final(p)}
              /\ y.pBase[p] = Final(p) => y.pMem[p] = Final(p) /\ PickView(y, p) = Final(p)
          BY <2>3, <2>5 DEF PickStages, Stage
        <4>2. CASE p[2] = g
          BY <1>6, <4>1, <4>2
        <4>3. CASE p[2] # g
          BY <1>6, <4>1, <4>3
        <4> QED BY <4>2, <4>3
      <3>2. ASSUME NEW p \in y.lockedPicks
            PROVE  /\ y.pVer[p] \in {NewPick, Final(p)'}
                   /\ picks[p] = Final(p)' => y.pVer[p] = Final(p)'
        <4>1. /\ p \in Picks /\ picks[p] \in {NewPick, Final(p)}
              /\ y.pVer[p] \in {NewPick, Final(p)}
              /\ picks[p] = Final(p) => y.pVer[p] = Final(p)
          BY <2>1, <2>3 DEF PickStages, Session, Stored, Stage
        <4>2. CASE p[2] = g
          BY <1>6, <4>1, <4>2
        <4>3. CASE p[2] # g
          BY <1>6, <4>1, <4>3
        <4> QED BY <4>2, <4>3
      <3> QED BY <1>2, <2>1, <2>4, <3>1, <3>2 DEF PickStages, Stage
    <2>7. \A h \in Games : Done(y, h) => h # g /\ Done(sess[t], h)'
      BY <1>2, <1>3, <1>6, <2>4 DEF Done, PicksOn
    <2>8. \A h \in Games : \A row : RowOK(y, h, row) => RowOK(sess[t], h, row)'
      BY <1>4, <1>5, <2>7 DEF RowOK
    <2>9. GameStages(sess[t])'
      BY <2>1, <2>3, <2>8 DEF GameStages, Session
    <2>10. Reported(sess[t])'
      BY <1>2, <1>3, <2>1, <2>3 DEF Reported
    <2>11. Grading(sess[t])'
      <3>1. y.pc \in {"select", "recalc", "store"} => y.cur # g
        BY <1>2, <2>3 DEF Grading
      <3> QED BY <1>3, <1>5, <1>6, <2>1, <2>2, <2>3, <2>7, <3>1 DEF Grading, PicksOn
    <2> QED BY <2>6, <2>9, <2>10, <2>11 DEF MarkOK
  <1> QED BY <1>8, <1>9 DEF MarkInv

\* When the API names the result of a game once, and no admin interferes, a
\* game is marked as scored only with every pick on it graded, however the two
\* jobs overlap, fail half-way and lose transactions.
THEOREM MarkedAlwaysGraded ==
  ASSUME ~Rescoring, Corrections = {}, FeedMoves \subseteq {"live"} \X Outcomes
  PROVE  Spec => []MarkedGamesAreGraded
  <1>1. Init => MarkInv
    <2> SUFFICES ASSUME Init PROVE MarkInv
      OBVIOUS
    <2>1. Stored
      BY DEF Init, Stored, Stage, NewGame
    <2> QED BY <2>1, IdleMark DEF Init, MarkInv
  <1>2. IInv /\ MarkInv /\ [Next]_vars => MarkInv'
    <2> SUFFICES ASSUME IInv, MarkInv, [Next]_vars PROVE MarkInv'
      OBVIOUS
    <2>1. ASSUME NEW s \in Sessions, Work(s) PROVE MarkInv'
      BY <2>1, MarkSelectPicks, MarkSelectScored, MarkUpdate, MarkJobs, MarkCommit DEF Work
    <2>2. CASE UNCHANGED vars
      BY <2>2 DEF vars, MarkInv, Stored, MarkOK, PickStages, GameStages, Reported, Grading,
                  RowOK, Done, PickView, Stage, Final, Winner
    <2>3. ASSUME NEW g \in Games, FeedReport(g) PROVE MarkInv'
      BY <2>3, MarkFeed
    <2> QED BY <2>1, <2>2, <2>3, MarkJobs, MarkOthers DEF Next
  <1>3. MarkInv => MarkedGamesAreGraded
    <2> SUFFICES ASSUME MarkInv, NEW p \in Picks, games[p[2]].scored, games[p[2]].winner # None
                 PROVE  AgreesWithWinner(p)
      BY DEF MarkedGamesAreGraded
    <2>1. p[2] \in Games /\ p \in PicksOn(p[2])
      BY PickRows DEF PicksOn
    <2>2. picks[p] = Final(p) /\ games[p[2]].winner = Winner(p[2])
      BY <2>1 DEF MarkInv, Stored
    <2> QED BY <2>2 DEF AgreesWithWinner, Final, Graded, NewPick
  <1> QED BY <1>1, <1>2, <1>3, Invariance, PTL DEF Spec
===============================================================================
