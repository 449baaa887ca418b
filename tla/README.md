# A formal model of the United Degenerates League

The United Degenerates League is a pick'em application: users join
competitions, predict the winners of real games (daily picks) or claim teams
for a whole season (fixed teams), and the server follows the games through
public sports APIs, grades the picks and keeps a leaderboard.

This directory holds TLA+ modules translated from the server's source, TLC
configurations that model-check them on small instances, and proofs that the
TLA+ proof system checks for every value of the constants. Paths below are
relative to `src/`; unless they start with `backend/`, `frontend/`, `docs/` or
name a top-level document they are relative to `src/backend/app/`.
`PROJECT.json` maps each definition to its lines.

* Part 1: the system and its components
* Part 2: the modules and how they correspond to the code
* Part 3: the runs: questions, bounds, fairness
* Part 4: the proofs
* Part 5: what is not modelled, and the plan

## 1. The system

### 1.1 Processes

* The API process: FastAPI on one asyncio event loop. Handlers interleave at
  every `await`. Each request gets an `AsyncSession` (`db/session.py`): one
  PostgreSQL transaction at READ COMMITTED, an identity map that returns the
  object already loaded, and autoflush: attributes changed in memory are sent
  as an UPDATE of the changed columns just before the next query.
* The background jobs (`services/background_jobs.py:298`): an APScheduler with
  five periodic jobs, each with `max_instances` of one: `update_game_scores`,
  `lock_expired_picks`, `update_competition_statuses`, `sync_games_from_api`
  and, once a day, `cleanup_pending_deletions`. They run in the API process or in a worker process of
  their own. Different jobs overlap each other and the handlers.
* PostgreSQL (rows, row locks, unique constraints, deadlock detection), Redis
  (cache, token blacklist, pub/sub of scores), three sports APIs, the browser.

### 1.2 Components

| Component | State | Operations | What makes it correct |
|---|---|---|---|
| Scoring (`services/score_service.py`, `background_jobs.py`, `sync_service.py`, `api/admin.py`) | status, winner, `scoring_completed` and correction count of a game; `is_correct`, `points_earned` of a pick; four aggregate columns of a participant | score job, sync job, score correction, rescore | every decided game is graded; grades are not lost; points and correctness of a pick agree; the leaderboard is the aggregate of the picks |
| Daily picks (`api/picks.py:28`, `services/pick_service.py`) | pick rows with creation time and lock | submission of a batch (replaces the day's picks), lock job | limit per day; one pick per game; nothing changes after the start; what was submitted is stored; picks get locked |
| Fixed selections (`api/picks.py:247`) | selection rows under a unique constraint | submission of a batch of teams | a team has one owner for good; all or nothing; the limit; selections get locked at the start |
| Life of a competition (`services/competition_service.py`, `api/competitions.py`, `api/admin.py:177`) | status, dates | status job, forced status, changed settings | upcoming, active, completed in this order; completion only after all games; picks freeze |
| Membership (`api/competitions.py:371`, `api/admin.py:392-669`, `api/invite.py`) | participants, join requests, invite links, list of competition admins | join, approve, reject, remove, add and remove admin, invite | one membership per user; capacity; a request is answered once; there is always an admin |
| Accounts and tokens (`api/auth.py`, `api/users.py`, `core/`, `services/token_blacklist.py`, `services/user_service.py`) | failed logins and lock-out time, blacklist, revocation time, deletion date | login, refresh, logout, change of password, deletion and its job | a spent refresh token is refused; revoked tokens stay revoked; who reached the threshold is locked for a time; access runs out with the account; due deletions happen |
| Circuit breaker and fail-over (`services/circuit_breaker.py`, `services/sports_api/`) | state, failure count and time per API and operation; cache | `async_call`, `reset`; three clients in order | open after the threshold, probes after the time-out; answers come from an API or the cache |
| Live push (`services/ws_manager.py`, `api/ws.py`) | list of connections, subscriber task, broadcasts in progress | connect, disconnect, broadcast, publish, subscribe | updates in order and once; how many clients a broadcast may skip; the bound on connections; leavers are forgotten; the subscription comes back |
| Token refresh queue of the client (`frontend/src/services/api.ts`, `authStore.ts`) | refresh in flight, queued requests | response interceptor | every queued request is answered; one refresh at a time |
| Leaderboards, bug reports, leagues, health, audit log | no state of their own, or single inserts | queries | |
| Game import (`services/sync_service.py`, `background_jobs.py:188`, `api/competitions.py:126`, `:788`, `api/admin.py:673`) | games and teams created from the API | sync job, forced sync, sync of one competition, creation | one row per game and per team; the winner plays; results settle |
| Sports API clients, start-up, schema, pages | | | I/O, wiring and rendering |

### 1.3 How they interact

* Shared rows. The four kinds of session that grade picks share games, picks
  and participants with each other and with the submission of picks. The
  participant row is the only explicit lock (`SELECT ... FOR UPDATE` in
  both submission handlers, `api/picks.py:61` and `:276`); all other
  serialisation comes from the row locks that UPDATEs take when they are
  flushed.
* Status and time. The submission handlers look at the clock and at
  `scheduled_start_time` or `start_date`, not at the status that the status
  job maintains. The jobs look at the status of games and competitions.
* The sports APIs feed the two jobs through the cache and the breakers; the
  score job publishes what changed through Redis to the live push.

### 1.4 What is hard

* Lost updates between sessions that read an aggregate or a counter, compute
  and write it (`score_service.py:64-97`, `admin.py:246`).
* Column-wise writes: two sessions that grade one pick write different columns
  of it (`score_service.py:28-38`).
* Checks before a wait: the fixed-teams handler compares the date before it
  waits for the participant row (`picks.py:270`), the daily handler after
  (`picks.py:82`).
* Two-statement look-up and insert under a unique constraint, with roll-back
  of a whole batch and deadlocks (`picks.py:316-375`).
* Windows over dates: a daily batch replaces the picks created on the date the
  client passes, and rows are created on the UTC day (`picks.py:87-113`).
* One-shot transitions: a game leaves the score job's selection once it is
  final, whether it was graded or not (`background_jobs.py:42`); selections
  are locked at one transition (`competition_service.py:34`).
* API answers that change: late scores, revised results, draws.
* Whole-second dates of tokens and of the revocation, against expiry in Redis
  and a memory that takes its place during an outage (`token_blacklist.py`).
* A list that changes while a broadcast walks over it, at every `await` of a
  send (`ws_manager.py:59`).
* Imports that overlap: a cache of teams that is loaded once, teams without a
  unique key, games with one, and transactions that hold both until their end
  (`sync_service.py`).

## 2. The modules

| Module | Role |
|---|---|
| `Scoring` | sessions that grade picks, at the grain of loads, flushes, row locks and commits |
| `MCScoring` | predictions and moves of the API for TLC |
| `ScoringHistory` | `Scoring` with history variables: whose recalculations have met |
| `MCScoringHistory` | the moves of the API for TLC when sessions overlap on two games |
| `ScoringProofs` | inductive invariants and theorems of `Scoring` and `ScoringHistory` |
| `DailyPicks` | submission of daily picks, lock job, status job, participants, on a clock |
| `MCDailyPicks` | batches and schedules for TLC |
| `DailyPicksProofs` | inductive invariants and theorems of `DailyPicks` |
| `ExclusiveClaims` | abstract specification: exclusive, all-or-nothing claims |
| `FixedSelections` | submission of fixed teams and the start of the competition; implements `ExclusiveClaims` |
| `MCFixedSelections` | batches for TLC |
| `FixedSelectionsProofs` | inductive invariant, refinement and limit as theorems |
| `SportsApi` | calls to the sports APIs: cache, fail-over, a breaker per client and operation |
| `MCSportsApi` | callers for TLC |
| `SportsApiProofs` | types, threshold, and that errors are not needless, as theorems |
| `Membership` | participants, join requests, invite links, admins and settings of a competition |
| `MCMembership` | the symmetry of requests for TLC |
| `MembershipProofs` | inductive invariant and theorems of `Membership` |
| `Accounts` | one account: login and lock-out, tokens, revocation, deletion, statuses |
| `MCAccounts` | which operations meet, for TLC |
| `AccountsProofs` | inductive invariant and theorems of `Accounts` |
| `LiveScores` | WebSocket clients, broadcasts, Redis channel, subscriber |
| `MCLiveScores` | its instance for TLC |
| `LiveScoresProofs` | inductive invariants and theorems of `LiveScores` |
| `GameImport` | the sessions that create and update teams and games |
| `MCGameImport` | a league of two teams and which imports meet, for TLC |
| `GameImportProofs` | inductive invariant and theorems of `GameImport` |

Definitions whose comment starts with "Mutant" are deliberate faults that take
the place of another definition when a property is tested for its strength;
no specification uses them.

### 2.1 Scoring

State: the committed rows (`games`, `picks`, `stats`), what the API answers
now (`feed`), and one record per session (`sess`). A session record is the
SQLAlchemy session: for each row the value loaded or last flushed (`gBase`,
`pBase`), the value in memory (`gMem`, `pMem`), the uncommitted version
(`gVer`, `pVer`, `sVer`) and the rows it has locked; `pc` says which statement
comes next.

| Code | Action |
|---|---|
| `update_game_scores`: select of the games, `background_jobs.py:31-64` | `JobSelect` |
| its API call per game, 66-75 | `JobFetch` |
| its update of the game, 77-112 | `JobApply` (`JobReport`, `JobWinner`, `Marked`) |
| `sync_games_from_api`: API call, 188-235 | `SyncFetch`: the answer is read before any game row is |
| `_sync_game_for_competition`, `sync_service.py:61-124` | `SyncGame` (`SyncReport`, `BecomesFinal`, `Reverted`) |
| `correct_game_score`, `admin.py:224-292` | `AdminCorrect` |
| `rescore_game`, `admin.py:300-326` | `AdminRescore`: reads the game, neither changes nor locks it |
| `score_picks_for_game`, `score_service.py:12-47` | `SelectPicks`: flush, query, grade in memory |
| `recalculate_participant_stats`: query, 51-80 | `SelectScoredPicks`: flush of the grades, query, aggregate |
| ... and its UPDATE, 82-97 | `UpdateParticipant` |
| commit, error, roll-back | `Commit`, `ScoringFails`, `Abort`, `DeadlockVictim` |

`Flushed` writes, for every row in memory that differs from its base, the
columns that differ onto the version now visible to the session; it waits
(`FlushBlockers`) for the rows another session has locked. `GameView` and
`PickView` are READ COMMITTED: own versions, else committed rows. A scoring that
raises (`ScoringFails`) has sent the changed game and waited for its row, since
its first query flushes; the sync job's way back (`Reverted`) is a second update
of that row, and writes the open status and the empty winner whatever was stored
before.

`ScoringHistory` adds three history variables, which change nothing in what
`Scoring` does (`Remember` only looks at its steps). `visited` has, per session,
the participants whose picks it has graded; `disturbed` those of them that
another open session has visited as well since then, or whose recalculation the
session gave up because its scoring raised; `doubtful` the participants whose
last committed visit was a disturbed one. `StatsMatchPicks` speaks of all the
others.

Abstractions. `open` stands for SCHEDULED and IN_PROGRESS, which every query
here treats alike; the void statuses are never produced by the three API
clients. A report is an outcome, `live`, or `missing` (final, without scores).
Scores themselves, the accuracy percentage (a function of wins and losses),
odds and the publication of scores are left out; the creation of games is in
`GameImport`.
A commit is atomic and releases the locks.

### 2.2 DailyPicks

State: the clock, the pick rows (user, game, copy, team, creation day, lock),
participants, the status of the competition, the status of the games, the
batches in progress (`req`) and the lock job's selection.

`Arrive` is the request up to the wait for the participant row;
`LockParticipant` takes the row lock, then reads the time and the window, as
`picks.py:61-97` does in this order; `Validate` queries the picks of the
window and runs every check; `Store` deletes, updates and inserts, commits and
releases the lock. The lock job selects (`LockSelect`) and updates
(`LockUpdate`) in two steps. `StatusJob`, `ForceStatus`, `Join`,
`RemoveParticipant` and `GameMoves` are the other writers. A row's `day` is
the UTC day of `created_at`. With `AnyDate` the client passes any date. A
batch may name a game twice (`BatchGames` and `GamesOf` keep the rows and the
games apart as the handler does). `copy` stands for the row's uuid.

Status and times: `Scheduled` is `scheduled_start_time`, which nothing updates
once a game is created; `Kickoff` is when the game really starts.

### 2.3 FixedSelections and ExclusiveClaims

`ExclusiveClaims` is the promise: `owner` maps each team to a user or nobody;
a request asks for a set of teams and is granted as a whole or refused; the
limit counts what the user has and asks for; an owner never changes.

`FixedSelections` is the handler statement by statement: `Submit` (the date is
checked), `LockParticipant` (waits for the row), `Count`, then per team
`Check` (look-up among committed rows) and `Insert` (sent by the autoflush of
the next look-up or by the commit; waits for another transaction's insert of
that team; a committed one is an IntegrityError and rolls back everything),
`Commit`; and `DeadlockVictim`, one of the requests that wait for each other's
inserts. `JobSelect` and `JobActivate` are the activation by the status job
with the UPDATE that locks the selections; `ChangeStart` is
`PATCH /competitions/{id}`. The refinement maps `owner` to itself and `asked`
to what each request still wants or has inserted (`Asked`).

Teams and golfers are treated alike by the code and by the model. A batch that
names a team twice is refused by the handler's own second look-up, so batches
are sets. Forced statuses are left out of this module.

### 2.4 SportsApi

State: the condition of each API (`api`), a breaker per operation and client
(`breaker`), one cache entry per operation (`cache`), the calls in progress
(`call`) and, as history, the clients that were fit to answer a call for as
long as it has taken (`well`).

A call suspends at the cache (`Request`, then `CacheHit` or `CacheMiss`), at
the API (`ApiAnswers`) and when it stores the answer (`Store`). What lies
between two awaits runs alone on the event loop, so one step does the
bookkeeping of the client that answered and enters the next client whose
breaker admits (`Try`). `Entered`, `OnSuccess`, `OnFailure` and `Restored` are
the breaker's operations. `failures` stops at the threshold and `age`, the time
since the last failure, at the time-out, beyond which neither makes a
difference. `Reply` is what the clients make of the API's condition: they
answer every error but a rate limit with an empty list, after the retries of
`_make_request`, so only a rate limit is a failure for the breaker.

One league and one day stand for all (their cache entries are apart; their
breakers are shared, as in the model). `get_game_details` and the synchronous
`call` have no caller. Redis may fail at each access (`CacheFaults`). The
breakers live in one process.

### 2.5 Membership

State: the row of one competition (`comp`: open or by approval, the limit of
participants, ended, the list of admins), the participant rows (`members`), the
join requests (`asks`), the invite links (`links`), how far `create_competition`
has come between its two commits (`created`) and the requests in progress
(`req`), each with the values it has read and not yet used. History: `how` of a
participant row is what made it, `came` is whom each link let join or ask,
`ever` who has been an admin and whether the competition was ever open.

| Code | Action |
|---|---|
| `create_competition`, `api/competitions.py:61-113` | `Init` is its first commit, `FinishCreation` the second, which may fail |
| `join_competition`, 371-497 | `Join`, `ReadRow`, `Count`, `CheckPending`, `UseLink`, `Joined` |
| `create_invite_link`, 500-549 | `CreateLink`, `ReadRow`, `WriteLink` |
| `update_competition`, 277-332 | `Settings`, `WriteCompetition` |
| `remove_participant`, `api/admin.py:392-434` | `Remove`, `ReadRow`, `WriteRemoval` |
| `add_competition_admin`, `remove_competition_admin`, 477-556 | `ChangeAdmins`, `WriteCompetition` |
| `approve_join_request`, `reject_join_request`, 583-669 | `Review`, `Authorize`, `WriteAnswer` |
| end and forced status | `SetStatus` |
| a lost connection, the end of the process | `Fails` |

Each query of a handler is a step of its own and sees what is committed then; a
commit is one step. SQLAlchemy writes the columns that differ from what was
read: so the list of admins is written as a whole from an earlier read
(`WriteCompetition`), and a join request answered twice keeps what the second
answer does not change (`Answer`). The UPDATE of `use_count` locks the row of
the link until the commit (`LinkIsFree`); no other row lock is ever waited for
here with a value in hand. `ReadRow` fails, as `scalar_one_or_none` does, when a
user has two rows. A row's `id` stands for its uuid.

Left out: deletion of the competition (there is nothing left to say of it),
settings other than `join_type` and `max_participants`, the read-only lists,
`resolve_invite_token` (read-only), the audit log, deletion of accounts.

### 2.6 Accounts

State: the clock in half seconds, the row of one user (`row`: status, date of
the deletion request, failed logins, end of the lock), when each refresh token
was issued (`iat`) and the last access token runs out (`access`), the blacklist
in Redis and the one in memory, the revocation (`revoked`), whether Redis
answers, what the cleanup job has selected (`doomed`) and the requests in
progress. Accounts share nothing, so one stands for all. History: `spent` is in
which state of Redis a token was given up, `lastRevoked` and `inactive` are when
tokens were last revoked and when the account last stopped being active.

| Code | Action |
|---|---|
| `register`, `login`, `api/auth.py:110-225` | `ArriveRegister`, `ArriveLogin`, `ArriveWrong`: the row is read; `Register`, `Login` (`ClearedLogins`), `WrongPassword` (`FailedLogin`): until the commit; `Issue`: the tokens, after it |
| `refresh_tokens`, 228-306 | `ArriveRefresh` (signature, blacklist, revocation), `Read`, `Refresh` |
| `logout`, 309-326 | `Logout` |
| `get_current_user`, `core/deps.py:25-78` | `ArriveUser`, `Read`, `Refused` |
| `change_password`, `api/users.py:61-81` | `ChangePassword`, `Revoke` |
| `request_account_deletion`, `cancel_account_deletion`, 86-126 | `RequestDeletion`, `Revoke`, `CancelDeletion` |
| `update_user_status`, `api/admin.py:60-114` | `ArriveStatus`, `SetStatus` (revokes), `CommitStatus` |
| `services/token_blacklist.py` | `BlacklistToken`, `IsBlacklisted`, `RevokeAll`, `IsRevoked` |
| `cleanup_pending_deletions`, `services/user_service.py` | `CleanupSelect`, `CleanupCommit` |

A handler's UPDATE names the columns that differ from what it has read, so a
stale read overwrites some columns and not others. `Relevant` forgets the
columns a handler does not look at. What a handler computes after its read, and
its commit, are one step: between the two it does not look at the database
again, so an earlier or later place of the step shows nothing new. A request is
answered within `Slack`. `Mixes` says which operations occur in a behaviour:
tokens with a failing Redis; revocation by a password; revocation by an admin;
lock-out; deletion; deletion and an admin's status.

Assumed: the server's clock is in UTC (`datetime.utcnow().timestamp()` is not
shifted); Redis keeps its keys through an outage; the process is not restarted,
which would empty its memory of tokens spent during an outage. Left out: the
profile (`PATCH /me`), roles, cookies and rate limits.

### 2.7 LiveScores

State: the WebSockets (`sock`), the list `conns` (`_connections`), a broadcast
in progress per task (`cast`: the update, the index the iteration has reached,
the sockets that failed), whether the job runs in a worker, Redis, the messages
on their way (`channel`), the subscriber task (`sub`). History: `inbox` per
client, `owed` and `removed` per broadcast, `crowd` and `paths`.

| Code | Action |
|---|---|
| `connect`, `services/ws_manager.py:37-44` | `Connect` (the check), `Accepted` (after the accept) |
| `scores_websocket`, `api/ws.py`, `disconnect` | `HandlerEnds` (`Unlisted`, `Without`) |
| `broadcast_score_update`, 51-71 | `Starting`, `Send` for one index, `Finish` (`Noted`) |
| `publish_score_update`, 76-93 | `Publish`, `PublishDirectly` |
| `_subscribe_loop`, 115-146 | `Subscribe`, `Receive`, `Retry` |
| `lifespan`, `main.py:80-114` | `Restart` |

`for ws in self._connections` keeps an index into the list, which connects and
disconnects change while `send_text` is awaited: `Send` takes the connection
that is under the index now. A failure of Redis while the job publishes may
come before or after the message went out. A send to a socket whose client has
left raises or not; a send to an open one succeeds. A client that leaves during
the accept is noticed at the first `receive_text`. What clients send is ignored
by the code. `Without` is the list without some sockets, in the same order; it is
written with the places of those that stay (`NthOf`), and not with `SelectSeq`,
because the prover knows nothing of `SelectSeq`. An `accept` that raises is left
out: its connection never enters the list.

### 2.8 GameImport

State: what the API says of each game (`feed`), the competitions there are, the
committed rows of teams and games, the imports in progress (`imp`: the
competitions, the answer of the API, the cache of teams, the row changed since
the last flush, the rows written and held). `overlapped` is history.

| Code | Action |
|---|---|
| `sync_games_from_api`, `background_jobs.py:188-295`; `force_sync_games`, `api/admin.py:678` | `JobStarts`, then as below with all competitions |
| `sync_competition_games`, `api/competitions.py:788-831` | `SyncStarts`, with one |
| `create_competition`, 62-129 | `CreationStarts`, with the new one; `CreationEnds`: the response, without a commit |
| `get_schedule` for each day, `sync_service.py:166-175` | `Fetch` (`Announced`, `Quiet`) |
| the query for the league's teams, 184-187 | `LoadTeams` |
| `_find_or_create_team`, 15-43 | `FindTeams` (`Fresh`) |
| `_sync_game_for_competition`, 61-144 | `LookUp` (`Created`, `Updated`, `Winner`), `ScoringFails` (`Reopened`) |
| commit, exception | `Commit`, `Fails`, `DeadlockVictim` |

`Flushed` sends what the session has changed, before its next query
(`Query`) or at the commit; a row or key that another transaction holds is
waited for (`Blockers`), and a key that is taken by then is an error that ends
the import (`Violates`). A game that exists is updated on every pass, even when
nothing in it is new, since `updated_at` is always set (`sync_service.py:96`): an
import holds the row of every game it has come by until it ends, and two that
come by them in opposite orders deadlock. When the scoring of a game raises, its
result has been sent by the query for its picks and a second update opens it
again (`ScoringFails`). `Closed` is the end of the session: `get_db` closes it,
and what is not committed is gone.

Left out: a second league (leagues share no row, and the job commits them
together); season records, odds and venue, and with them the row locks of
teams; the passing of days; teams without an external id; the grading of picks,
which is in `Scoring`. The order in which an import goes through its
competitions is any.

## 3. The runs

Every passing run is exhaustive for its constants. Bounds are constants of the
modules, named in their declarations.

| Run | Question | Instance |
|---|---|---|
| `scoring_overlap` | When jobs and a correction overlap on one participant and the API revises its results, are the leaderboard columns those of the stored picks unless the last recalculation met another one, and does a point belong to a correct pick? `StatsMatchPicks`, `PointsOnlyForCorrectPicks` | one user, two games, both jobs and an admin, two of them open at a time |
| `scoring_races` | Jobs and two admins who correct and rescore by a winner that may be old, two at a time, with a scoring that fails and every change of mind of the API: `TypeOK`, `PointsAreCounted`, `GradesStay` | one pick, four sessions, two open at a time |
| `scoring_live` | When the two jobs cross each other's row locks and a transaction is lost, is a game marked as scored really graded, and is every pick on a decided game graded in the end? `MarkedGamesAreGraded`, `PicksGetGraded` | two games picked by one user, the two jobs at once over both, crossing locks, one abort |
| `daily_replace` | Overlapping submissions of one user across kick-offs and midnight: `LimitPerDay`, `OnePickPerGameAndDay`, `StoredAsSubmitted` | two requests, three games, two days, two picks a day |
| `daily_freeze` | With any date and any batch, do picks stop changing at the start of the game and at completion, do only participants pick, does the lock job reach every pick? `TypeOK`, `ChangesStopAtStart`, `FrozenWhenCompleted`, `PicksOfParticipantsOnly`, `StartedPicksGetLocked` | one request, one game, up to three rows |
| `fixed_claims` | Does look-up and insert implement exclusive claims, does the limit hold, does every submission end? `TypeOK`, `LimitHolds`, `ImplementsClaims`, `EverySubmissionEnds` | two requests, two users, three teams, limit 2, crossing batches |
| `membership` | Are uses of a link counted under concurrency, does the creator keep both roles, does nobody get in but by a door that an admin opened, and by how much can the capacity be exceeded? `UsesAreCounted`, `CreatorStays`, `MembersWereLetIn`, `OvershootIsBounded` | two users, two requests at a time, five in all, capacities 1 and 2 |
| `sports_api` | Do overlapping calls over shared breakers end in an error only when they must, does a closed breaker keep below its threshold, and does the first API come back into use? `ClosedBelowThreshold`, `NoNeedlessError`, `FirstRecovers` | two callers, two clients that go down, are limited and recover, threshold 2, resets, cache faults |
| `accounts` | Is a locked-out account locked for a time, is a spent or revoked refresh token refused, does access run out when the account stops being active, do due deletions happen? `LockedAtThreshold`, `SpentTokensAreRefused`, `RevokedTokensAreRefused`, `AccessRunsOut`, `DueDeletionsHappen` | two overlapping requests, three refresh tokens, five half seconds, threshold 2, six mixes of operations |
| `live_scores` | In which order do clients get the updates, how many can a broadcast skip, how far can the capacity be exceeded, are leavers forgotten, do updates flow again after an outage? `InOrderAndOnce`, `SkipsAreBounded`, `OvershootIsBounded`, `LeaversAreForgotten`, `UpdatesKeepFlowing` | two clients for one place, two updates, a Redis that fails and a process that is restarted at any time |
| `game_import` | Do imports that overlap, fail, wait for each other or are never committed leave one row per team and winners that play, and do all competitions get the games and results? `TypeOK`, `OneRowPerTeam`, `WinnerPlays`, `ResultsSettle` | two games of two teams on two days, one team known before; the job with a request for one competition, with a forced run over two, and with a creation; one failure |

Why the bounds are enough: the hazards are between pairs of sessions, so two
open at a time show every one of them; two games are what it takes for one
participant's aggregate to be written from two places and for two jobs to cross row locks; one lost transaction at every point
covers a crash between any two statements. Two days and three games of different
times cover a start and a midnight before, between and after any two steps of
a submission; with two picks a day a batch can share the limit with the pick of
a game that has started, and a game picked twice is not a matter of the limit. Three teams allow a conflict on the first, the last or no team
of a batch, and a crossing pair. Two clients are the shortest chain with a
client to fail over to, two callers the fewest that see each other's breakers,
a threshold of two the lowest that counts; time-out and lifetime of one tick
let a breaker and a cache entry expire before, between and after any two steps.
Five requests of `membership`, at most two of them overlapping, are enough to
promote somebody, demote them while the list is being written, let a link be
made and used twice; two users are the creator and one who depends on being let
in; with capacities 1 and 2 the limit is met, and raised and lowered, in that
many requests. Six row ids are more than five requests and the creation insert.
The score job, alone on its breakers, is left to the proofs: with it the
instance is out of reach. Three refresh tokens are one that is given up, its
successor and one more; half seconds are what it takes to see a token before,
in and after its last second; the lives of one and two seconds, the lock, the
grace period and `Slack` are the shortest that can end in each other's course.
Two sockets for one place are a list that is full, exceeded and shifted; two
updates have an order. Two games let an import be overtaken between its first
and its last, and one team that is known makes imports share what they find and
race for what they create; five rows of teams are all that the failing and
overlapping imports can make. `GameImport` and `LiveScores` bound the number of
imports that are asked for and of updates, not the runs of the job nor the
restarts.

### Disagreements between the code and its documents

This run checks a property that a document or a comment states; TLC finds a
behaviour of the code that violates it.

| Run | What is stated | What happens |
|---|---|---|
| `daily_dates` | `models/pick.py:54`: "One pick per user per game per competition" | a pick made for another date than the UTC day is not found again and is made twice; the unique index was dropped by migration eeb5216a1f51 |

(Addendum is `United_Degenerates_League_Spec_Addendum_v2.md`.)

Other disagreements seen while the code was read and modelled, which no run
checks now.

Scoring and picks:
a game whose scoring raised in the score job stays FINAL and is never scored
again, where `background_jobs.py:115` says "the next sync cycle will retry
automatically" (the job selects SCHEDULED and IN_PROGRESS games only, line 42,
and the sync job scores a game only when it becomes final, `sync_service.py:112`;
this is why `scoring_live` has no scoring that fails);
two jobs that score two games of one participant at a time: the second writes
aggregates that miss the first's points (ARCHITECTURE.md:1647,
`score_service.py:83`; they stay wrong until the next scoring of that
participant, and are the exception in `StatsMatchPicks`, as are the participants
whose recalculation a raising scoring gave up after grades were sent);
two overlapping corrections both read count 0 and both correct the game
(Addendum:756, `admin.py:246`);
a fixed-teams submission let in before the start can commit after the status
job has locked the selections and is never locked (Addendum:146,
`picks.py:270`, `competition_service.py:34`);
a decided game corrected to a draw zeroes the points and keeps `is_correct`
(Addendum:89, `score_service.py:28`); a final result revised by the API
changes the winner without grading again (Addendum:107, `sync_service.py:112`);
a rescore, which does not lock the game, beside a correction can leave an
incorrect pick with a point (ARCHITECTURE.md:1637, `admin.py:313`; this is why
`scoring_overlap` has no rescore); with client dates the daily limit does not
hold either (Addendum:305); rescheduled games keep their first start time
(Addendum:97); after a forced completion, and before the start, daily picks are
accepted (Addendum:74, docs/architecture.md:117, `picks.py:52`; this is why
`daily_freeze` has no forced status); picks on a game that is over before the
lock job runs are never locked (Addendum:934, `pick_service.py:23`; the
exception in `StartedPicksGetLocked`).

Membership:
one user can have two participant rows, by two overlapping joins or by the
approval of a request after a direct join through an admin's link, and is then
an error for every query that expects one row (invite-links design, in
docs/superpowers/specs/2026-03-15-invite-links-design.md:102,
`competitions.py:404`, `admin.py:609`; the unique index was dropped by
migration eeb5216a1f51); overlapping joins exceed the capacity, by no more than
those in progress, and approvals do not look at it (same document, :22 and
:103, `competitions.py:415`; `OvershootIsBounded` says by how much); an admin
who was removed returns, or one who was added is lost, when two changes of the
list overlap (`admin.py:497`, `:540`); a request is rejected after it was
approved, since only the approval looks at the status (`admin.py:640`); requests
are approved after the competition is completed (`admin.py:605`).

The sports APIs and the import:
while the first API is down `get_live_scores` takes its empty list for a success
and caches it, and the next API is not asked (SPORTS_API_SETUP.md:11: "If one
API fails, the next one is tried automatically"; `espn_client.py:104`,
`sports_service.py:185`);
an outage never opens a breaker, since the clients hide it
(SPORTS_API_SETUP.md:10, ADR-002, `espn_client.py:69`); a half-open breaker lets
every call through, not one (ARCHITECTURE.md:1447, `circuit_breaker.py:42`), and
when a late success arrived while it was open a failed probe leaves it half-open
(ARCHITECTURE.md:1449, `circuit_breaker.py:106`); there is no fall-back to
expired cache entries (SPORTS_API_SETUP.md:13);
a day without games makes `get_schedule` raise, and the import of all days of
that league fails with it (`sports_service.py:110`, `sync_service.py:173`,
`background_jobs.py:228`; `ResultsSettle` starts when every day has a game);
the games that `create_competition` imports "so the creator sees today's games
right away" (`competitions.py:120`) are never committed and are gone with the
response; overlapping imports create a team twice, and a winner may then be
neither of the two rows of its game (`sync_service.py:30`, `:105`; the
condition of `OneRowPerTeam` and `WinnerPlays`); a game that is over when it is
first imported has no winner until the next import (`sync_service.py:125`).

Accounts:
two refreshes that overlap both rotate a token that is commented
"one-time use" (`auth.py:291`); overlapping failed logins are counted as one
(`auth.py:92`); a cancelled deletion is carried out, and a deleted account
becomes active again, when the cancellation and the cleanup job overlap
(`user_service.py:21`, `users.py:109`); a ban is overwritten by a cancellation
or a status that read the row before (`admin.py:112`); of two requests to delete
that overlap with a cancellation one can be lost; tokens issued in the second of
a revocation survive it (`token_blacklist.py:125`); a token given up in its last
second is still good for the rest of it (`token_blacklist.py:50`); and one given
up during an outage of Redis is good again after it, or the reverse
(`token_blacklist.py:71`; the conditions in `SpentTokensAreRefused`).

Live push:
a connection that leaves the list during a broadcast makes it skip
another one (`ws_manager.py:59`; `SkipsAreBounded` says how many); when the job
has sent an update itself while the subscriber was still sending another, the
two can cross or an update can arrive twice (`ws_manager.py:90`; the condition
in `InOrderAndOnce`); the capacity can be exceeded (`ws_manager.py:38`); without
Redis a job in a worker publishes to nobody.

### Fairness

* Scoring: the scheduler runs each job again and again (WF of `JobSelect`, and
  of `SyncFetch` for all games: the API answers eventually); an API call of the
  score job answers for all games again and again (SF of `JobFetch`); a
  session gets its turn whenever its locks are free (SF of `Work`, since
  PostgreSQL grants row locks in the order of arrival); deadlocks are detected
  (WF of `DeadlockVictim`). Admins and the API are not fair. `PicksGetGraded`
  assumes that deadlocks end (`DeadlocksEnd`): over two games the two jobs may
  meet in opposite orders in every cycle, and each can be the victim each time,
  which nothing in the code excludes.
* DailyPicks: the jobs run again and again, the clock and the handlers move
  on (`FairSpec`). Nothing forces users or admins.
* FixedSelections: SF of a request's statements and WF of the deadlock victim,
  as above, and WF of the status job. Without `DeadlockVictim` the crossing
  inserts wait for ever.
* SportsApi: time passes and APIs answer or time out (`_make_request` bounds its
  attempts), so a call in progress moves on (WF of `Work`, of `Time`); callers
  ask again and again (SF of `Ask`: the sync job is periodic). `FirstRecovers`
  assumes besides that the API stays up. Admins and APIs are not fair.
* Accounts: the scheduler runs the cleanup job every day and its transaction ends
  (WF of `CleanupSelect` and `CleanupCommit`). Users and admins are not fair.
* LiveScores: the event loop goes on with every task that can go on, sends and
  accepts end (WF of each). Redis, clients and the job are not fair;
  `UpdatesKeepFlowing` assumes that Redis stays up in the end.
* GameImport: an import goes on unless it waits for a row, deadlocks are found,
  and the job runs again and again (WF of each). The API and whoever asks for
  an import are not fair; failures are bounded by `MaxFaults`.

## 4. The proofs

Checked by TLAPS for every value of the constants that satisfies the named
assumptions (`GamesAssumption`, `SessionsAssumption`, ..., in the modules that
declare the constants; TLC evaluates them in every run).

### 4.1 ScoringProofs

* `TypeCorrect`: `Spec => []TypeOK`.
* `PointsAlwaysCounted`: `Spec => []PointsAreCounted`. However many jobs and
  admins (rescoring included) grade the same picks, no pick has a point
  without a grade.
* `GradesNeverLost`: `Spec => GradesStay`.

The argument. `PointsAreCounted` is not inductive: a session flushes only
the columns that changed since it loaded the row, onto whatever is visible
when it flushes. If a session that believed the grade to be stored could write
only the point, and the stored grade was still null, the property would break.
The invariant `IInv` says why that cannot be:

* `PickLocksExclusive`: a pick row is locked by at most one session, so
  that a version, once written, is built on the committed row;
* `PointsAreCounted` itself for committed rows;
* per session `PicksOK`: the row in memory has a grade if it has a point
  and if its base has one (`GradeKept`, `PointsKept`); a grade in the base is
  also visible in the database (`BaseSeen`: nobody takes grades away); an own
  version keeps the committed grade (`VersionKept`);
* per session `ProgramOK`: while a game is scored there is a game, while a
  participant is written there is a participant.

`SessionStep` reduces every action that changes one session to what it must
establish of that session; there is one lemma per action. `Commit` is where
the versions become the rows. `FlushedPicks` is the key lemma: whatever a
flush writes has a grade if it has a point, and keeps the visible grade.

* `StatsAlwaysMatchPicks`: `HistorySpec => []StatsMatchPicks`, with no
  hypothesis: any sessions overlap, fail and are lost. It leaves out the
  participants that `doubtful` names. A scoring that raises and a rescore beside
  the other sessions are in the theorem only: with them the instance of
  `scoring_overlap` is out of TLC's reach, or its other invariant fails.

Two theorems have hypotheses, because without them the code does not do it
(the disagreements of part 3); the runs are made under the same conditions.

* `PointsAlwaysForCorrectPicks`: `Spec => []PointsOnlyForCorrectPicks` if there
  is no rescore, which grades without locking the game. Any number of jobs and
  corrections may overlap, fail and lose transactions.
* `MarkedAlwaysGraded`: `Spec => []MarkedGamesAreGraded` if the API names a
  result once and no admin corrects or rescores. More is allowed than in
  `scoring_live`: any number of jobs, lost transactions and scorings that raise.

The arguments. `RaceInv`, for the points: the session that has a game's row
locked is the only one that grades its picks (`GameHeld`: a session that will
grade has changed or locked the row, and the flush before its query of the
picks locks what it changed), so a pick row that it is about to write is in the
database as it has loaded it (`Fresh`), and correctness and point are both
written or neither.
`VisitInv`, for the aggregates: only commits change picks and aggregates, and a
session that commits owns all that it writes (`Covers`: the participants of every
pick it has changed or locked are among those it visited). Of a participant that
no other session has visited meanwhile it knows everything: the picks it is about
to write are in the database as it has loaded them (`Known`), and the aggregates
it has computed or written are those of the picks as they will be after its
commit (`Sound`, `Written`). So an undisturbed commit puts a participant right
whatever was stored before, and a commit of others leaves that participant's
picks and aggregates alone. `TurnsInv` adds that recalculations are pending only
in the middle of a scoring. `MarkInv`, for the marks: every copy of a pick
row, in the database, in memory or in a version, is new or has the final grade
(`Stage`), since all sessions grade by the same winner; `Grading` then says how
far the scoring of the present game is, up to `Done`, when the game may be
marked.

### 4.2 FixedSelectionsProofs

* `Implements`: `Spec => ImplementsClaims`, the handlers, the status job and
  the admins implement exclusive claims, for any users, teams, batches and
  number of requests.
* `LimitAlwaysHolds`: `Spec => []LimitHolds`.
* `InsertsAreExclusive`: `Spec => []InsertsExclusive`.
* `TypeCorrect`: `Spec => []TypeOK`.

The argument. A commit grants the claim only if the teams are still free
and the count is still right, which the handler found out several statements
before. `IInv` carries those findings to the commit: `RequestOK` says that
the rows a request has inserted have no committed owner (an insert succeeds
only then, and whoever else wants the row waits for this transaction:
`InsertsExclusive`) and that what it counted is still what its user has
(`Within`), because no other request of that user is past the row lock
(`HoldersDiffer`). Steps other than `Submit`, failure and `Commit` leave the
abstract state alone. The limit follows from `Within` at the commit and the
cardinality of a disjoint union.

### 4.3 SportsApiProofs

* `ErrorsAreNeeded`: `Spec => NoNeedlessError`, for any number of clients and of
  overlapping calls.
* `ClosedIsBelowThreshold`: `Spec => []ClosedBelowThreshold`.
* `TypeCorrect`: `Spec => []TypeOK`.

The argument. Every operation of a breaker keeps it `Sound`, closed only below
the threshold. For the errors, `WellIsAhead` says what a call that waits for
client i knows of the others: no client before i has been up with a breaker
that was not open all along. It holds because a client is passed over only
when its breaker is open at that moment, and turned away from only when it had
no games (`TryLooksAhead`); other calls may change breakers at will, since
the history only ever shrinks. At the end of the loop there is no client left.

### 4.4 MembershipProofs

* `EverybodyWasLetIn`: `Spec => []MembersWereLetIn`.
* `CreatorKeepsRoles`: `Spec => []CreatorStays`.
* `NoUseIsLost`: `Spec => []UsesAreCounted`.
* `TypeCorrect`: `Spec => []TypeOK`.

All of them for any users, requests in progress, capacities and bounds. The
argument. A handler writes, some statements later, what it read or decided
earlier, so the invariant `Inv` says of every request in progress (`Good`) what
it has read: a list of admins to be written back has the creator and nobody who
was never an admin; a request that is past `Authorize` belongs to somebody who
has been an admin; one that enters does so because the competition was open or
its link is an admin's; the row to be removed is not the creator's. `Later`
lists what other requests can do to that knowledge: history, links and answers
only grow, so it stays true (`StaysGood`, `StaysLetIn`). `Papers` and `Sound`
are the same for the committed rows. For the counts `Alone` says that at most
one request has a new count of a link in hand, and `Good` that this count is
one more than the committed one.

* `OvershootAlwaysBounded`: `Spec => []OvershootIsBounded`, from
  `BoundsAssumption` (there are finitely many handlers).

Its invariant is `SeatsInv`. A join counts, and enters some steps later, when the
count may be wrong. But entering does not change the sum of those who have
joined and those who are let in (`Joiners`, `Entering`), and a request is let in
only when the joined are fewer than the seats, while those let in are never more
than the handlers: the sum stays below one of the `Capacities` plus the number
of handlers (or there is a capacity of 0, no limit).

### 4.5 AccountsProofs

* `SpentAlwaysRefused`: `Spec => SpentTokensAreRefused`.
* `RevokedAlwaysRefused`: `Spec => RevokedTokensAreRefused`.
* `AccessAlwaysRunsOut`: `Spec => []AccessRunsOut`.
* `AlwaysLockedAtThreshold`: `Spec => []LockedAtThreshold`.
* `TypeCorrect`: `Spec => []TypeOK`.

All of them for any number of overlapping requests and tokens, any threshold,
any lives of tokens, and Redis coming and going. The assumptions are
`LivesAssumption` and `KindsAssumption`; that a request is answered within
`Slack` is the guard of `Tick`. The argument. None of the four is inductive,
because handlers act on a row they read earlier and on entries that expire.
`IInv` adds `RequestOK`: a request that may still issue tokens (`MayIssue`) to an
account that is no longer active arrived before the account stopped being
active, so whatever it issues runs out in time; `AccessOK`: no access token
outlives one issued now, for the moment at which the account stops being
active; `SpentOK`: a token that was given up is on the list that was in use
then, with an entry that lasts until the half second before its expiry in spite
of the truncation in `Ttl`; `RevocationOK`: the last revocation is the one that
Redis has, for as long as a token from before it can live. `WriteOK`,
`IssueStep`, `BlacklistOK` and `RevokeStep` each treat one kind of step, and the
lemma of an operation cites the one it needs. `StartIsArrival` then says that
only an arriving refresh starts one, with a token that passed both checks.

### 4.6 DailyPicksProofs

* `TypeCorrect`: `Spec => []TypeOK`.
* `ChangesAlwaysStop`: `Spec => ChangesStopAtStart`.
* `AlwaysParticipants`: `Spec => PicksOfParticipantsOnly`.
* `AlwaysFrozen`: `Spec => FrozenWhenCompleted`, if no status is forced and games
  do not start before their scheduled time (`Orderly`).
* `AlwaysWithinLimit`, `AlwaysOnePick`, `AlwaysAsSubmitted`: `LimitPerDay`,
  `OnePickPerGameAndDay` and `StoredAsSubmitted`, if the client passes the
  current UTC day and no batch names a game twice (`ForToday`).

For any users, games, requests, batches, limits and schedules; besides the
assumptions on numbers there must be a user and a batch (`SomebodyAssumption`).
The hypotheses are those of the runs; without `ForToday` the code breaks all
three (`daily_dates`).

The argument. A request checks the picks of its day in one step and replaces
them in another. `DayInv` carries the checks over: whoever holds a participant's
row is the only one who writes that user's picks (`Holds` is exclusive per
user), so the keys of the picks it has loaded are still those in the database
(`SameKeys`; the lock job changes only their locks), and `WithinLimit` and
`NothingNewStarted` still hold (`Checked`). Midnight is the danger: a row gets
the day of the clock at the store, the window is the day of the request.
`Latest` says that they agree, since both come from the clock read after the row
lock, and that the user has no pick of a later day. `StoreShape` says what the
rows are after a store; the limit then is a matter of counting rows by their
games (`GameCount`, `KeyCount`). For `ChangesStopAtStart` and
`PicksOfParticipantsOnly` it is enough that the holder of a row is a participant
and done within `Grace` (`HeldOK`).

### 4.7 GameImportProofs

* `TypeCorrect`: `Spec => []TypeOK`.
* `AlwaysOneRowPerTeam`: `Spec => []OneRowPerTeam`.
* `WinnerAlwaysPlays`: `Spec => []WinnerPlays`.

For any competitions, games, teams and imports of the three kinds, failing and
deadlocking at any point, under `LeagueAssumption` and `NoTeamAssumption`. Both
properties are about a database in which no two imports that commit have
overlapped, and their proof needs what is true in spite of overlaps:
an import's cache names rows that are its teams' or will be when it commits
(`Named`, `CacheOK`), rows created by different imports are different, and the
rows of games it has written name the teams of their game (`RowOK`). `Alone` adds
what holds as long as nobody has overlapped: at most one import is going to
commit, it knows every row of teams, what it read of a game is still what it
sees, and no winner is a stranger. Imports of `create_competition`, which never
commit, may overlap with anything.

### 4.8 LiveScoresProofs

* `TypeCorrect`: `Spec => []TypeOK` (the sockets of the list are different).
* `OvershootAlwaysBounded`: `Spec => []OvershootIsBounded`.
* `SkipsAlwaysBounded`: `Spec => []SkipsAreBounded`.
* `AlwaysInOrderAndOnce`: `Spec => []InOrderAndOnce`.

For any finite set of clients, any capacity, and any number of updates, under
`BoundsAssumption`. The argument. `WithoutShape` is the lemma about the list: a
removal takes elements from their place or a later one to each place, none
twice, and leaves none out but those removed. It rests on `NthShape`, that the
members of a finite set of numbers have places, which is the equality of the
cardinalities of a set and of its ranks. `PassedByRemoval` counts with it: as
many clients are behind the index after a removal as before, or fewer, and those
that stay behind it have been there, so no more are moved behind it than were
taken from there. `SkipInv` is the sum of this over the iteration. `OrderInv` is
about one sender: what it sends now is newer than all that is known to the
clients ahead of the index and not older than what the others know (`InTime`);
what waits in the channel is newer than what the subscriber has sent
(`NothingMissed`). The capacity is a sum of list and accepted sockets that only
`Connect` increases.

### 4.9 Only model-checked

Every liveness property, as liveness under fairness is out of the prover's
reach: `PicksGetGraded`, `StartedPicksGetLocked`, `EverySubmissionEnds`,
`FirstRecovers`, `DueDeletionsHappen`, `LeaversAreForgotten`,
`UpdatesKeepFlowing`, `ResultsSettle`. All invariants and all action properties
that runs check are theorems, some under the hypotheses named above.

## 5. What is not modelled, and the plan

Not modelled for good: rendering and pages; HTTP and JSON parsing of the three
API clients; read-only queries (leaderboards, available selections, audit
log); bug reports, leagues and health checks (single inserts and reads);
configuration, migrations (except for the constraints they leave in force),
seed data and scripts.

The client's queue of requests during a token refresh
(`frontend/src/services/api.ts`) is a module of its own that was not written:
it shares no state with the server but the tokens, which `Accounts` has.

Planned compositions: `Scoring` with `DailyPicks` (picks that are stored while a
game is being graded), `Membership` with `DailyPicks` (participants removed and
joined again while they submit). The list of runs stays short: a module's
questions go into one run where one instance can answer them.

Planned proofs: the theorems under hypotheses where a weaker one would do
(`MarkedAlwaysGraded` with corrections of games that are already marked).
