------------------------------ MODULE DailyPicks ------------------------------
(***************************************************************************)
(* Submitting, locking and freezing daily picks.                           *)
(*                                                                         *)
(* POST /picks/{competition}/daily (api/picks.py) replaces the picks a     *)
(* user made on a day by a batch.  Requests of one user are serialised by  *)
(* the participant row, taken FOR UPDATE; the lock job                     *)
(* (services/pick_service.py), the status job                              *)
(* (services/competition_service.py), the removal of a participant         *)
(* (api/admin.py) and the clock run in between.                            *)
(*                                                                         *)
(* A day is DayLength instants of UTC.  A pick belongs to the day it was   *)
(* created on: that is what both the replacement and the daily limit go    *)
(* by.                                                                     *)
(***************************************************************************)
EXTENDS Naturals, FiniteSets

CONSTANTS
    Users,       \* users who may take part
    Games,       \* games of the competition
    Teams,       \* winners that may be predicted
    Requests,    \* submissions the server can work on at the same time
    MaxPicks,    \* max_picks_per_day
    Batches,     \* what clients submit: sets of <<game, team>>
    AnyDate,     \* whether clients pass a date other than the current UTC day
    Scheduled,   \* [Games -> Nat]: scheduled_start_time, never updated
    Kickoff,     \* [Games -> Nat]: when the game is really played
    Forcing,     \* whether admins force the status of the competition
    Opening,     \* start_date of the competition
    Closing,     \* end_date of the competition
    DayLength,   \* instants per day
    Grace,       \* bound: instants a handler takes once it has the row lock
    MaxTime,     \* bound: last instant of the clock
    MaxCopies    \* bound: picks of one user on one game

ASSUME BatchesAssumption ==
    /\ Batches \subseteq SUBSET (Games \X Teams)
    /\ \A b \in Batches : IsFiniteSet(b)
ASSUME SomebodyAssumption == Users # {} /\ Batches # {}
ASSUME NumbersAssumption ==
    /\ {MaxPicks, Opening, Closing, MaxTime} \subseteq Nat
    /\ {DayLength, Grace, MaxCopies} \subseteq Nat \ {0}
ASSUME TimesAssumption ==
    /\ Scheduled \in [Games -> Nat]
    /\ Kickoff \in [Games -> Nat]
    /\ {AnyDate, Forcing} \subseteq BOOLEAN

Day(t) == t \div DayLength
Days == {Day(t) : t \in 0..MaxTime}

Statuses == {"upcoming", "active", "completed"}

\* A row of picks.  copy tells the rows of one user and game apart.
PickRow == [user : Users, game : Games, copy : 1..MaxCopies,
            team : Teams, day : Days, locked : BOOLEAN]
Key(p) == <<p.user, p.game, p.copy>>

VARIABLES
    clock,        \* UTC now
    picks,        \* the rows of picks
    participants, \* users with a participant row
    status,       \* of the competition
    played,       \* status of each game as the jobs stored it
    req,          \* the submissions in progress
    lockJob       \* the lock job: the games it has selected

vars == <<clock, picks, participants, status, played, req, lockJob>>

\* "waiting" for the participant row, then with the row lock.
Request ==
    [pc : {"idle", "waiting", "validate", "store"},
     user : Users, batch : Batches, day : Days,
     now : 0..MaxTime,           \* utcnow() of the handler
     existing : SUBSET PickRow]  \* existing_by_game

TypeOK ==
    /\ clock \in 0..MaxTime
    /\ picks \subseteq PickRow
    /\ \A p, q \in picks : Key(p) = Key(q) => p = q
    /\ participants \subseteq Users
    /\ status \in Statuses
    /\ played \in [Games -> {"scheduled", "in_progress", "final"}]
    /\ req \in [Requests -> Request]
    /\ \A r \in Requests : \A p, q \in req[r].existing : p.game = q.game => p = q
    /\ lockJob \subseteq Games

NoRequest ==
    [pc |-> "idle", user |-> CHOOSE u \in Users : TRUE,
     batch |-> CHOOSE b \in Batches : TRUE, day |-> 0, now |-> 0, existing |-> {}]

Init ==
    /\ clock = 0
    /\ picks = {}
    /\ participants = Users
    /\ status = "upcoming"
    /\ played = [g \in Games |-> "scheduled"]
    /\ req = [r \in Requests |-> NoRequest]
    /\ lockJob = {}

-----------------------------------------------------------------------------
(* create_daily_picks_batch *)

Holders(u) == {r \in Requests : req[r].pc \in {"validate", "store"} /\ req[r].user = u}

GamesOf(rows) == {p.game : p \in rows}
BatchGames(b) == {i[1] : i \in b}

\* Mutant: a game may be picked in the instant it starts.
OpenAtStart(now, g) == now <= Scheduled[g]

\* now < game.scheduled_start_time
Open(now, g) == now < Scheduled[g]

\* The request arrives, with the date its client looks at.
Arrive(r, u, b, d) ==
    /\ req[r].pc = "idle"
    /\ AnyDate \/ d = Day(clock)
    /\ req' = [req EXCEPT ![r] = [NoRequest EXCEPT !.pc = "waiting", !.user = u,
                                                   !.batch = b, !.day = d]]
    /\ UNCHANGED <<clock, picks, participants, status, played, lockJob>>

\* Mutant: the participant row is read without FOR UPDATE.
FreeAlways(u) == TRUE

\* SELECT ... FOR UPDATE of the participant goes through.
Free(u) == Holders(u) = {}

\* Without a date from the client, the day is that of the handler's clock.
Today(x) == IF AnyDate THEN x.day ELSE Day(clock)

\* The participant row is locked, or there is none and the request fails.
LockParticipant(r) ==
    LET x == req[r] IN
    /\ x.pc = "waiting"
    /\ IF x.user \notin participants
       THEN req' = [req EXCEPT ![r] = NoRequest]
       ELSE /\ Free(x.user)
            /\ req' = [req EXCEPT ![r].pc = "validate", ![r].now = clock, ![r].day = Today(x)]
    /\ UNCHANGED <<clock, picks, participants, status, played, lockJob>>

\* Mutant: every row of the window is kept.
ExistingAll(x) == {{p \in picks : p.user = x.user /\ p.day = x.day}}

\* existing_by_game keeps one row per game of the user's rows in the window.
ExistingByGame(x) ==
    LET window == {p \in picks : p.user = x.user /\ p.day = x.day}
    IN {E \in SUBSET window : /\ GamesOf(E) = GamesOf(window)
                              /\ \A p, q \in E : p.game = q.game => p = q}

\* Rows deleted because the batch left them out, and rows it may not touch.
Deselected(x) == {p \in x.existing : p.game \notin BatchGames(x.batch) /\ Open(x.now, p.game)}
LockedNotInBatch(x) ==
    {p \in x.existing : p.game \notin BatchGames(x.batch) /\ ~Open(x.now, p.game)}

\* Mutant: the limit forgets the started picks.
WithinLimitOfBatch(x) == Cardinality(x.batch) <= MaxPicks

WithinLimit(x) == Cardinality(LockedNotInBatch(x)) + Cardinality(x.batch) <= MaxPicks

\* No game of the batch has started, but for those already picked.
NothingNewStarted(x) ==
    \A g \in BatchGames(x.batch) : Open(x.now, g) \/ g \in GamesOf(x.existing)

\* Load the existing picks of the day, check the limit and every game.
Validate(r) ==
    /\ req[r].pc = "validate"
    /\ \E E \in ExistingByGame(req[r]) :
         LET x == [req[r] EXCEPT !.existing = E, !.pc = "store"]
         IN req' = [req EXCEPT ![r] = IF WithinLimit(x) /\ NothingNewStarted(x)
                                      THEN x ELSE NoRequest]
    /\ UNCHANGED <<clock, picks, participants, status, played, lockJob>>

\* Mutant: nothing is deleted.
DeletedNever(x) == {}

\* The items of the batch that are written, and the rows that are deleted.
Written(x) == {i \in x.batch : Open(x.now, i[1])}
Deleted(x) == Deselected(x)

\* A fresh row for every item without an existing one.
Inserted(x) == {i \in Written(x) : i[1] \notin GamesOf(x.existing)}
FreeCopies(u, g) == 1..MaxCopies \ {p.copy : p \in {q \in picks : q.user = u /\ q.game = g}}

\* An update of an existing row sets the prediction and nothing else.
Updated(x, last, p) ==
    IF Key(p) \in {Key(q) : q \in x.existing} /\ p.game \in DOMAIN last
    THEN [p EXCEPT !.team = last[p.game]] ELSE p

\* Deletes, updates and inserts reach the database and are committed;
\* created_at is the time of the insert.  last is the last item of the batch
\* for each game: a batch may name a game twice.
Store(r) ==
    LET x == req[r]
        kept == {p \in picks : Key(p) \notin {Key(q) : q \in Deleted(x)}}
    IN /\ x.pc = "store"
       /\ \E last \in [BatchGames(Written(x)) -> Teams], copy \in [Inserted(x) -> 1..MaxCopies] :
            /\ \A g \in DOMAIN last : <<g, last[g]>> \in x.batch
            /\ \A i \in Inserted(x) : copy[i] \in FreeCopies(x.user, i[1])
            /\ \A i, j \in Inserted(x) : i # j /\ i[1] = j[1] => copy[i] # copy[j]
            /\ picks' = {Updated(x, last, p) : p \in kept} \cup
                        {[user |-> x.user, game |-> i[1], copy |-> copy[i], team |-> i[2],
                          day |-> Day(clock), locked |-> FALSE] : i \in Inserted(x)}
       /\ req' = [req EXCEPT ![r] = NoRequest]
       /\ UNCHANGED <<clock, participants, status, played, lockJob>>

-----------------------------------------------------------------------------
(* Everybody else *)

\* Mutant: the games that the API says are being played.
StartedInProgress == {g \in Games : played[g] = "in_progress"}

\* The games whose start has passed and that are not over.
Started == {g \in Games : ~Open(clock, g) /\ played[g] # "final"}

\* lock_expired_picks selects the started games ...
LockSelect ==
    /\ lockJob = {}
    /\ lockJob' = Started
    /\ UNCHANGED <<clock, picks, participants, status, played, req>>

\* ... and one UPDATE of the unlocked picks on them, as committed by then.
LockUpdate ==
    /\ lockJob # {}
    /\ picks' = {IF p.game \in lockJob THEN [p EXCEPT !.locked = TRUE] ELSE p : p \in picks}
    /\ lockJob' = {}
    /\ UNCHANGED <<clock, participants, status, played, req>>

\* Mutant: the end date alone completes the competition.
CompletesByDate == Closing <= clock

\* The end date has passed and every game is over.
Completes == Closing <= clock /\ \A g \in Games : played[g] = "final"

\* update_competition_statuses: one run may take both steps.
StatusJob ==
    LET active == status = "active" \/ (status = "upcoming" /\ Opening <= clock)
    IN /\ active
       /\ status' = IF Completes THEN "completed" ELSE "active"
       /\ UNCHANGED <<clock, picks, participants, played, req, lockJob>>

\* A global admin sets the status by hand.
ForceStatus(s) ==
    /\ Forcing
    /\ status' = s
    /\ UNCHANGED <<clock, picks, participants, played, req, lockJob>>

\* DELETE .../participants/{user}: the row lock of a submission is waited for.
RemoveParticipant(u) ==
    /\ u \in participants
    /\ Free(u)
    /\ participants' = participants \ {u}
    /\ UNCHANGED <<clock, picks, status, played, req, lockJob>>

Join(u) ==
    /\ u \notin participants
    /\ participants' = participants \cup {u}
    /\ UNCHANGED <<clock, picks, status, played, req, lockJob>>

\* The score job stores that a game is being played, or is over.
GameMoves(g) ==
    /\ \/ played[g] = "scheduled" /\ Kickoff[g] <= clock
          /\ played' = [played EXCEPT ![g] = "in_progress"]
       \/ played[g] # "final" /\ Kickoff[g] + Grace <= clock
          /\ played' = [played EXCEPT ![g] = "final"]
    /\ UNCHANGED <<clock, picks, participants, status, req, lockJob>>

\* Time passes; a handler that holds the row is done within Grace.
Tick ==
    /\ clock < MaxTime
    /\ \A r \in Requests : req[r].pc \in {"validate", "store"} => clock < req[r].now + Grace
    /\ clock' = clock + 1
    /\ UNCHANGED <<picks, participants, status, played, req, lockJob>>

-----------------------------------------------------------------------------
Next ==
    \/ \E r \in Requests :
         \/ \E u \in Users, b \in Batches, d \in Days : Arrive(r, u, b, d)
         \/ LockParticipant(r) \/ Validate(r) \/ Store(r)
    \/ LockSelect \/ LockUpdate \/ StatusJob
    \/ \E s \in Statuses : ForceStatus(s)
    \/ \E u \in Users : RemoveParticipant(u) \/ Join(u)
    \/ \E g \in Games : GameMoves(g)
    \/ Tick

Spec == Init /\ [][Next]_vars

\* The scheduler runs the lock job every minute, and its UPDATE goes through.
FairSpec == Spec /\ WF_vars(LockSelect) /\ WF_vars(LockUpdate)

-----------------------------------------------------------------------------
(* Properties *)

PicksOf(u, d) == {p \in picks : p.user = u /\ p.day = d}
Choices(rows) == {<<p.user, p.game, p.copy, p.team>> : p \in rows}
Stored(r) == req[r].pc = "store" /\ req'[r].pc # "store"

\* Nobody has more picks made on one day than max_picks_per_day, however
\* submissions overlap each other, the start of games and midnight.
LimitPerDay == \A u \in Users, d \in Days : Cardinality(PicksOf(u, d)) <= MaxPicks

\* Of the picks made on one day no two are on the same game.
OnePickPerGameAndDay ==
    \A u \in Users, d \in Days : \A p, q \in PicksOf(u, d) : p.game = q.game => p = q

\* One pick per user and game.
OnePickPerGame == \A p, q \in picks : p.user = q.user /\ p.game = q.game => p = q

\* After a submission the user's picks of that day on games that were open
\* are the ones submitted: nothing of an earlier batch is left over.
StoredAsSubmitted ==
    [][\A r \in Requests : Stored(r) =>
         LET x == req[r]
             after == {p \in picks' : /\ p.user = x.user /\ p.day \in {x.day, Day(clock)}
                                      /\ Open(x.now, p.game)}
         IN {<<p.game, p.team>> : p \in after} = {i \in x.batch : Open(x.now, i[1])}]_vars

\* A pick is made, changed or withdrawn before its game starts, but for the
\* time a handler takes that was let in before the start.
ChangesStopAtStart ==
    [][\A c \in (Choices(picks) \ Choices(picks')) \cup (Choices(picks') \ Choices(picks)) :
         clock < Scheduled[c[2]] + Grace]_vars

\* Once the competition is completed no pick is made, changed or withdrawn.
FrozenWhenCompleted == [][status = "completed" => Choices(picks') = Choices(picks)]_vars

\* A submission is stored only for somebody who still takes part.
PicksOfParticipantsOnly == [][\A r \in Requests : Stored(r) => req[r].user \in participants]_vars

Unlocked(g) == \E p \in picks : p.game = g /\ ~p.locked

\* The picks on a started game get locked, unless the game is over before.
StartedPicksGetLocked ==
    \A g \in Games :
      (~Open(clock, g) /\ Unlocked(g)) ~> (~Unlocked(g) \/ played[g] = "final")

=============================================================================
