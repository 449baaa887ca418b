----------------------------- MODULE GameImport -----------------------------
(***************************************************************************)
(* How the games of a league get into its competitions                     *)
(* (services/sync_service.py and its callers): the sync job and the same   *)
(* job forced by an admin, for all competitions and a few days; the        *)
(* request of a competition's admin, for that competition and two weeks;   *)
(* and the import at the end of create_competition, which the request      *)
(* never commits.                                                          *)
(*                                                                         *)
(* An import loads the league's teams once, creates those it misses, and   *)
(* then looks up each game in each competition, to update or to create it. *)
(* Only games have a unique key (competition, external id); two teams may  *)
(* have the same external id. The sessions run at READ COMMITTED and flush *)
(* what they changed before their next query: the row and its key are then *)
(* held until the transaction ends. The picks are graded in Scoring; the   *)
(* season records of the teams and the odds are left out.                  *)
(***************************************************************************)
EXTENDS Integers, FiniteSets, Sequences, SequencesExt

CONSTANTS
    Comps, Games, Teams,  \* competitions of the league, games and teams of the API
    Known,                \* the teams that earlier imports have created
    Home, Away,           \* [Games -> Teams]
    Day,                  \* [Games -> Nat]: days from today, which does not pass
    Results,              \* pairs of a game and a team ("home", "away") that may win it
    Job, Forced,          \* the session of the sync job, those of forced runs,
    Syncs, Creations,     \* of the other requests, of create_competition
    Mixes,                \* bound: the imports that occur together, each time with
                          \* the competitions there are at the beginning
    JobDays, SyncDays,    \* how many days they ask for
    MaxActive,            \* bound on the imports in progress
    MaxRequests,          \* bound on the imports that somebody asks for
    MaxFaults,            \* bound on the failures of the API, the scoring, the database
    MaxTeams              \* bound on the rows of teams

Jobs == {Job} \cup Forced
Imports == Jobs \cup Syncs \cup Creations
Keys == Comps \X Games
Ids == 1..MaxTeams
None == 0

ASSUME LeagueAssumption ==
    /\ Games \subseteq Nat /\ Known \subseteq Teams /\ IsFiniteSet(Known)
    /\ Home \in [Games -> Teams] /\ Away \in [Games -> Teams]
    /\ \A g \in Games : Home[g] # Away[g]
    /\ Day \in [Games -> Nat] /\ Results \subseteq Games \X {"home", "away"}
ASSUME BoundsAssumption ==
    /\ JobDays \in Nat /\ SyncDays \in Nat
    /\ MaxRequests \in Nat
    /\ MaxActive \in Nat /\ MaxFaults \in Nat /\ MaxTeams \in Nat
    /\ IsFiniteSet(Imports) /\ Mixes \subseteq (SUBSET Imports) \X (SUBSET Comps)
ASSUME SessionsAssumption ==
    /\ Job \notin Forced \cup Syncs \cup Creations
    /\ Forced \cap Syncs = {} /\ Forced \cap Creations = {} /\ Syncs \cap Creations = {}

VARIABLES
    mix,        \* the imports of this behaviour
    feed,       \* what the API says of each game
    running,    \* the competitions there are, active or upcoming
    teams,      \* the committed rows of teams: the external id, per key
    games,      \* the committed rows of games
    imp,        \* the imports in progress
    requests,   \* imports asked for so far
    faults,     \* failures so far
    overlapped  \* history: two imports that commit were in progress together

vars == <<mix, feed, running, teams, games, imp, requests, faults, overlapped>>

Reports == {"unknown", "open", "home", "away"}
GameRow == [home : Ids, away : Ids, final : BOOLEAN, winner : Ids \cup {None}]
NoRow == [home |-> None, away |-> None, final |-> FALSE, winner |-> None]
NoTeam == "none"
ASSUME NoTeamAssumption == NoTeam \notin Teams

\* cache are the teams by external id; game and left, the game it is at and
\* the competitions still to be looked up for it; pending, the row changed
\* since the last flush; made and ver, its own rows.
Import ==
    [pc : {"idle", "fetch", "load", "teams", "look"},
     comps : SUBSET Comps, report : [Games -> Reports],
     cache : [Teams -> Ids \cup {None}], left : SUBSET Comps, todo : SUBSET Games,
     pending : SUBSET Keys, base : GameRow \cup {NoRow}, new : GameRow \cup {NoRow},
     made : SUBSET Ids, held : SUBSET Keys, ver : [Keys -> GameRow \cup {NoRow}]]

Idle == [pc |-> "idle", comps |-> {}, report |-> [g \in Games |-> "unknown"],
         cache |-> [t \in Teams |-> None], left |-> {}, todo |-> {},
         pending |-> {}, base |-> NoRow, new |-> NoRow,
         made |-> {}, held |-> {}, ver |-> [k \in Keys |-> NoRow]]

Init ==
    /\ feed = [g \in Games |-> "unknown"]
    /\ \E m \in Mixes : mix = m[1] /\ running = m[2]
    /\ LET known == SetToSeq(Known)
       IN teams = [i \in Ids |-> IF i <= Len(known) THEN known[i] ELSE NoTeam]
    /\ games = [k \in Keys |-> NoRow]
    /\ imp = [s \in Imports |-> Idle]
    /\ requests = 0 /\ faults = 0 /\ overlapped = FALSE

Active == {s \in Imports : imp[s].pc # "idle"}
Database == <<teams, games>>
Step(s, x) ==
    /\ imp' = [imp EXCEPT ![s] = x]
    /\ UNCHANGED <<mix, feed, running, Database, requests, faults, overlapped>>

-----------------------------------------------------------------------------
(* The sports API *)

\* It announces a game, and later its result.
FeedMoves(g) ==
    /\ \/ feed[g] = "unknown" /\ feed' = [feed EXCEPT ![g] = "open"]
       \/ feed[g] = "open" /\ \E r \in Results : r[1] = g /\ feed' = [feed EXCEPT ![g] = r[2]]
    /\ UNCHANGED <<mix, running, Database, imp, requests, faults, overlapped>>

Days(s) == IF s \in Jobs THEN JobDays ELSE SyncDays
Announced(n) == {g \in Games : feed[g] # "unknown" /\ Day[g] < n}

\* get_schedule raises when no provider has a game on that day.
Quiet(n) == \E d \in 0..(n - 1) : \A g \in Announced(n) : Day[g] # d

-----------------------------------------------------------------------------
(* How an import begins *)

Open(s, comps) ==
    /\ s \in mix /\ imp[s].pc = "idle" /\ Cardinality(Active) < MaxActive
    /\ requests' = requests + (IF s = Job THEN 0 ELSE 1) /\ requests' <= MaxRequests
    /\ imp' = [imp EXCEPT ![s] = [Idle EXCEPT !.pc = "fetch", !.comps = comps]]
    /\ overlapped' = (overlapped \/ (s \notin Creations /\ Active \ Creations # {}))
    /\ UNCHANGED <<mix, feed, Database, faults>>

JobStarts(s) == s \in Jobs /\ running # {} /\ Open(s, running) /\ UNCHANGED running
SyncStarts(s) ==
    s \in Syncs /\ UNCHANGED running /\ \E c \in running : Open(s, {c})

\* create_competition, after it has committed the competition.
CreationStarts(s) ==
    /\ s \in Creations
    /\ \E c \in Comps \ running : running' = running \cup {c} /\ Open(s, {c})

\* The end of a session: what is not committed is gone.
Closed(s) == Idle

\* An exception ends the import (the job skips the league, and then has
\* nothing, or nothing it can commit; the handlers roll back or go on).
Fetch(s) ==
    /\ imp[s].pc = "fetch"
    /\ IF Quiet(Days(s)) THEN Step(s, Closed(s))
       ELSE Step(s, [imp[s] EXCEPT !.pc = "load", !.todo = Announced(Days(s)),
                       !.report = [g \in Games |-> IF g \in Announced(Days(s)) THEN feed[g]
                                                   ELSE "unknown"]])

\* Mutant: the teams of another league are loaded.
RowsOfNobody(t) == {}
RowsOf(t) == {i \in Ids : teams[i] = t}

\* The teams by external id: of several rows with one, any.
LoadTeams(s) ==
    /\ imp[s].pc = "load"
    /\ \E cache \in [Teams -> Ids \cup {None}] :
         /\ \A t \in Teams : cache[t] \in IF RowsOf(t) = {} THEN {None} ELSE RowsOf(t)
         /\ Step(s, [imp[s] EXCEPT !.pc = "teams", !.cache = cache])

-----------------------------------------------------------------------------
(* The session *)

\* Who holds the row or the key that s has to write now.
Blockers(s) == {t \in Imports \ {s} : imp[s].pending \cap imp[t].held # {}}

Row(x, k) == IF k \in x.held THEN x.ver[k] ELSE games[k]

\* An INSERT of a key that is taken by now.
Violates(x) == \E k \in x.pending : x.base = NoRow /\ Row(x, k) # NoRow

\* An UPDATE writes the columns that changed.
Written(x, k) ==
    IF x.base = NoRow THEN x.new
    ELSE [Row(x, k) EXCEPT !.final = IF x.new.final = x.base.final THEN @ ELSE x.new.final,
                           !.winner = IF x.new.winner = x.base.winner THEN @ ELSE x.new.winner]

Flushed(x) ==
    [x EXCEPT !.ver = [k \in Keys |-> IF k \in x.pending THEN Written(x, k) ELSE @[k]],
              !.held = @ \cup x.pending, !.pending = {}, !.base = NoRow, !.new = NoRow]

\* A query of s, which flushes first.
Query(s, x) ==
    /\ Blockers(s) = {}
    /\ IF Violates(imp[s]) THEN Step(s, Closed(s)) ELSE Step(s, x)

Current(x) == CHOOSE g \in x.todo : \A h \in x.todo : g <= h

Fresh == {i \in Ids : teams[i] = NoTeam /\ \A t \in Imports : i \notin imp[t].made}
FreshAfter(taken) == CHOOSE i \in Fresh \ taken : \A j \in Fresh \ taken : i <= j

\* _find_or_create_team, for both teams of the next game.
FindTeams(s) ==
    /\ imp[s].pc = "teams" /\ imp[s].todo # {}
    /\ LET x == Flushed(imp[s])
           g == Current(x)
           missing == {t \in {Home[g], Away[g]} : x.cache[t] = None}
           first == FreshAfter({})
           ids == IF missing = {} THEN {}
                  ELSE IF Cardinality(missing) = 1 THEN {first} ELSE {first, FreshAfter({first})}
           id == [t \in missing |-> IF t = Home[g] \/ Cardinality(missing) = 1 THEN first
                                    ELSE FreshAfter({first})]
       IN /\ Cardinality(Fresh) >= Cardinality(missing)
          /\ Query(s, [x EXCEPT !.pc = "look", !.left = x.comps, !.made = @ \cup ids,
                         !.cache = [t \in Teams |-> IF t \in missing THEN id[t] ELSE @[t]]])

\* The winner by the teams of the import, which need not be those of the row.
Winner(x, g, old) ==
    IF x.report[g] = "home" THEN x.cache[Home[g]]
    ELSE IF x.report[g] = "away" THEN x.cache[Away[g]] ELSE old
Final(x, g) == x.report[g] \in {"home", "away"}

\* Mutant: the update forgets the winner.
UpdatedStatus(x, g, row) == [row EXCEPT !.final = Final(x, g)]
Updated(x, g, row) == [row EXCEPT !.final = Final(x, g), !.winner = Winner(x, g, @)]
\* Mutant: home and away in the order of the other sources.
CreatedSwapped(x, g) == [home |-> x.cache[Away[g]], away |-> x.cache[Home[g]],
                         final |-> Final(x, g), winner |-> None]
\* A game that is over when it is created has no winner until the next import.
Created(x, g) == [home |-> x.cache[Home[g]], away |-> x.cache[Away[g]],
                  final |-> Final(x, g), winner |-> None]

NextLookUp(x) ==
    IF x.left # {} THEN x
    ELSE [x EXCEPT !.pc = "teams", !.todo = @ \ {Current(x)}, !.report[Current(x)] = "unknown"]

\* _sync_game_for_competition: the game in one of the competitions, which
\* come in any order. updated_at is always set, so that the row is written
\* even when nothing else of it changes.
LookUp(s) ==
    /\ imp[s].pc = "look"
    /\ \E c \in imp[s].left :
         LET x == Flushed(imp[s])
             g == Current(x)
             old == Row(x, <<c, g>>)
             new == IF old = NoRow THEN Created(x, g) ELSE Updated(x, g, old)
         IN Query(s, NextLookUp([x EXCEPT !.pending = {<<c, g>>}, !.base = old, !.new = new,
                                          !.left = @ \ {c}]))

\* The picks of a game that became final cannot be scored. By then the query
\* for them has written the result; the game is in progress again in memory.
Reopened(row) == [row EXCEPT !.final = FALSE, !.winner = None]
ScoringFails(s) ==
    /\ imp[s].pending # {} /\ imp[s].base # NoRow
    /\ imp[s].new.final /\ ~imp[s].base.final
    /\ Blockers(s) = {}
    /\ faults < MaxFaults /\ faults' = faults + 1
    /\ imp' = [imp EXCEPT ![s] = [Flushed(@) EXCEPT !.pending = imp[s].pending,
                                    !.base = imp[s].new, !.new = Reopened(imp[s].new)]]
    /\ UNCHANGED <<mix, feed, running, Database, requests, overlapped>>

Done(s) == imp[s].pc = "teams" /\ imp[s].todo = {}

\* The last flush and the commit ...
Commit(s) ==
    /\ Done(s) /\ Blockers(s) = {} /\ s \notin Creations
    /\ imp' = [imp EXCEPT ![s] = Closed(s)]
    /\ LET x == Flushed(imp[s])
       IN IF Violates(imp[s]) THEN UNCHANGED Database
          ELSE /\ games' = [k \in Keys |-> IF k \in x.held THEN x.ver[k] ELSE games[k]]
               /\ teams' = [i \in Ids |-> IF i \in x.made
                                          THEN CHOOSE t \in Teams : x.cache[t] = i
                                          ELSE teams[i]]
    /\ UNCHANGED <<mix, feed, running, requests, faults, overlapped>>

\* ... which create_competition does not do: get_db closes the session, and
\* the games that it found are not there.
CreationEnds(s) ==
    /\ Done(s) /\ s \in Creations
    /\ imp' = [imp EXCEPT ![s] = Closed(s)]
    /\ UNCHANGED <<mix, feed, running, Database, requests, faults, overlapped>>

\* The API, the database or the process fails.
Fails(s) ==
    /\ imp[s].pc # "idle"
    /\ faults < MaxFaults /\ faults' = faults + 1
    /\ imp' = [imp EXCEPT ![s] = Closed(s)]
    /\ UNCHANGED <<mix, feed, running, Database, requests, overlapped>>

\* PostgreSQL ends one of several transactions that wait for each other.
DeadlockVictim(s) ==
    /\ \E C \in SUBSET Active : s \in C /\ \A t \in C : Blockers(t) \cap C # {}
    /\ Step(s, Closed(s))

-----------------------------------------------------------------------------
Proceeds(s) ==
    Fetch(s) \/ LoadTeams(s) \/ FindTeams(s) \/ LookUp(s) \/ Commit(s) \/ CreationEnds(s)

Next ==
    \/ \E g \in Games : FeedMoves(g)
    \/ \E s \in Imports : \/ JobStarts(s) \/ SyncStarts(s) \/ CreationStarts(s)
                          \/ Fetch(s) \/ LoadTeams(s) \/ FindTeams(s) \/ LookUp(s)
                          \/ Commit(s) \/ CreationEnds(s)
                          \/ ScoringFails(s) \/ Fails(s) \/ DeadlockVictim(s)

Spec == Init /\ [][Next]_vars

\* An import goes on unless it waits for a row, a deadlock is found, and the
\* scheduler runs the job again and again.
Fairness ==
    /\ \A s \in Imports : WF_vars(Proceeds(s) \/ DeadlockVictim(s))
    /\ WF_vars(JobStarts(Job))

FairSpec == Spec /\ Fairness

-----------------------------------------------------------------------------
(* Properties *)

\* The variables have their types, and a game's teams are there.
TypeOK ==
    /\ feed \in [Games -> Reports] /\ running \subseteq Comps
    /\ teams \in [Ids -> Teams \cup {NoTeam}]
    /\ games \in [Keys -> GameRow \cup {NoRow}]
    /\ \A k \in Keys : games[k] # NoRow =>
         teams[games[k].home] = Home[k[2]] /\ teams[games[k].away] = Away[k[2]]
    /\ imp \in [Imports -> Import]
    /\ requests \in 0..MaxRequests /\ faults \in 0..MaxFaults /\ overlapped \in BOOLEAN

\* No two rows for one team of the API, unless two imports that commit were
\* in progress together: the imports of create_competition do no harm.
OneRowPerTeam ==
    ~overlapped => \A i, j \in Ids : teams[i] = teams[j] /\ teams[i] # NoTeam => i = j

\* The winner of a game is one of its two rows of teams, under the same
\* condition; with two rows for a team, sync_service may store the other one.
WinnerPlays ==
    ~overlapped => \A k \in Keys : games[k].winner \in {None, games[k].home, games[k].away}

\* Once every day of the job's window has a game, all competitions get all of
\* the games and their results, whatever imports overlap or fail.
Name(i) == IF i = None THEN NoTeam ELSE teams[i]
Settled ==
    \A c \in running, g \in Announced(JobDays) :
      /\ games[<<c, g>>] # NoRow
      /\ feed[g] = "home" => games[<<c, g>>].final /\ Name(games[<<c, g>>].winner) = Home[g]
      /\ feed[g] = "away" => games[<<c, g>>].final /\ Name(games[<<c, g>>].winner) = Away[g]
EveryDayHasAGame == \A d \in 0..(JobDays - 1) : \E g \in Announced(JobDays) : Day[g] = d
ResultsSettle == <>EveryDayHasAGame => <>[]Settled
=============================================================================
