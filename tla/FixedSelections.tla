--------------------------- MODULE FixedSelections ---------------------------
(***************************************************************************)
(* Claiming teams (or golfers: the code treats them alike) in a            *)
(* fixed-teams competition, and the start of that competition.             *)
(*                                                                         *)
(* POST /picks/{competition}/fixed-teams (api/picks.py) looks each team up *)
(* and then inserts it; the requests of one user are serialised by the     *)
(* participant row, those of different users only by the unique constraint *)
(* on (competition, team).  The status job                                 *)
(* (services/competition_service.py) locks the selections when it          *)
(* activates the competition; admins move its start date.                  *)
(*                                                                         *)
(* An INSERT is sent by the autoflush of the next look-up, or by the       *)
(* commit; it waits for another transaction's insert of the same team, and *)
(* fails when that one is committed.                                       *)
(***************************************************************************)
EXTENDS Naturals, FiniteSets

CONSTANTS
    Users,      \* participants
    Nobody,     \* stands for "no user"
    Teams,      \* what can be selected
    NoTeam,     \* stands for "no team" (None in Python)
    Requests,   \* submissions the server can work on at the same time
    MaxTeams,   \* max_teams_per_participant; 0 stands for no limit
    Batches,    \* what clients submit: sets of teams
    Starts,     \* dates an admin may give the competition
    MaxTime     \* bound: last instant of the clock

ASSUME UsersAssumption == Nobody \notin Users /\ Users # {}
ASSUME TeamsAssumption ==
    /\ NoTeam \notin Teams /\ IsFiniteSet(Teams)
    /\ Batches \subseteq SUBSET Teams
ASSUME NumbersAssumption ==
    /\ MaxTeams \in Nat /\ MaxTime \in Nat
    /\ Starts \subseteq Nat /\ Starts # {}

VARIABLES
    clock,   \* UTC now
    owner,   \* committed selections: [Teams -> Users \cup {Nobody}]
    locked,  \* the selections with is_locked
    start,   \* start_date of the competition
    status,  \* its status
    job,     \* the status job has found the competition due
    req      \* the submissions in progress

vars == <<clock, owner, locked, start, status, job, req>>

\* todo: items not looked at; team: the item that was looked up, and is to be
\* inserted; inserted: the rows of this transaction.  A batch that names a
\* team twice is refused when the second look-up finds the first insert.
Request ==
    [pc : {"idle", "waiting", "count", "check", "insert", "commit"},
     user : Users, todo : SUBSET Teams, team : Teams \cup {NoTeam},
     inserted : SUBSET Teams]

TypeOK ==
    /\ clock \in 0..MaxTime
    /\ owner \in [Teams -> Users \cup {Nobody}]
    /\ locked \subseteq {t \in Teams : owner[t] # Nobody}
    /\ start \in Starts
    /\ status \in {"upcoming", "active"}
    /\ job \in BOOLEAN
    /\ req \in [Requests -> Request]
    /\ \A r \in Requests : req[r].pc = "idle" => req[r].inserted = {}

NoRequest ==
    [pc |-> "idle", user |-> CHOOSE u \in Users : TRUE, todo |-> {},
     team |-> NoTeam, inserted |-> {}]

Init ==
    /\ clock = 0
    /\ owner = [t \in Teams |-> Nobody]
    /\ locked = {}
    /\ start \in Starts
    /\ status = "upcoming"
    /\ job = FALSE
    /\ req = [r \in Requests |-> NoRequest]

-----------------------------------------------------------------------------
(* create_fixed_team_selections_batch *)

TeamsOf(u) == {t \in Teams : owner[t] = u}
Taken(t) == owner[t] # Nobody

Holds(r) == req[r].pc \in {"count", "check", "insert", "commit"}

\* Mutant: nothing makes an insert wait for another one.
InsertingNever(r, t) == {}

\* The other requests that have inserted t and are not committed.
Inserting(r, t) == {q \in Requests \ {r} : t \in req[q].inserted}

\* Mutant: the participant row is read without FOR UPDATE.
FreeAlways(u) == TRUE

\* SELECT ... FOR UPDATE of the participant goes through.
Free(u) == \A r \in Requests : ~(Holds(r) /\ req[r].user = u)

Goes(r, x) ==
    /\ req' = [req EXCEPT ![r] = x]
    /\ UNCHANGED <<clock, owner, locked, start, status, job>>

\* Mutant: an error leaves the rows of the transaction in place.
FailedWithoutRollback(x) == [x EXCEPT !.pc = "idle", !.team = NoTeam, !.todo = {}]

\* An error: the session is rolled back.
Failed(x) == NoRequest

\* The phase is checked before the participant row is waited for.
Submit(r, u, batch) ==
    /\ req[r].pc = "idle"
    /\ clock < start
    /\ Goes(r, [NoRequest EXCEPT !.pc = "waiting", !.user = u, !.todo = batch])

LockParticipant(r) ==
    /\ req[r].pc = "waiting"
    /\ Free(req[r].user)
    /\ Goes(r, [req[r] EXCEPT !.pc = "count"])

WithinLimit(x) ==
    MaxTeams = 0 \/ Cardinality(TeamsOf(x.user)) + Cardinality(x.todo) <= MaxTeams

Continued(x) == [x EXCEPT !.pc = IF x.todo = {} THEN "commit" ELSE "check"]

Count(r) ==
    /\ req[r].pc = "count"
    /\ Goes(r, IF WithinLimit(req[r]) THEN Continued(req[r]) ELSE Failed(req[r]))

\* Look one team up among the committed rows.
Check(r) ==
    /\ req[r].pc = "check"
    /\ \E t \in req[r].todo :
         Goes(r, IF Taken(t) THEN Failed(req[r])
                 ELSE [req[r] EXCEPT !.pc = "insert", !.team = t, !.todo = @ \ {t}])

\* Mutant: a conflict skips the team and keeps the rest.
RefusedSkipping(x) == Continued([x EXCEPT !.team = NoTeam])

\* IntegrityError: nothing of the batch is kept.
Refused(x) == Failed(x)

\* The INSERT of that team, under the unique constraint on (competition, team).
Insert(r) ==
    LET x == req[r] IN
    /\ x.pc = "insert"
    /\ Inserting(r, x.team) = {}
    /\ Goes(r, IF Taken(x.team) THEN Refused(x)
               ELSE Continued([x EXCEPT !.team = NoTeam, !.inserted = @ \cup {x.team}]))

Commit(r) ==
    /\ req[r].pc = "commit"
    /\ owner' = [t \in Teams |-> IF t \in req[r].inserted THEN req[r].user ELSE owner[t]]
    /\ req' = [req EXCEPT ![r] = NoRequest]
    /\ UNCHANGED <<clock, locked, start, status, job>>

\* PostgreSQL fails one of the requests that wait for each other's inserts.
DeadlockVictim(r) ==
    /\ \E C \in SUBSET Requests :
         /\ r \in C
         /\ \A q \in C : req[q].pc = "insert" /\ Inserting(q, req[q].team) \cap C # {}
    /\ Goes(r, Failed(req[r]))

-----------------------------------------------------------------------------
(* The competition *)

\* update_competition_statuses finds the competition due ...
JobSelect ==
    /\ ~job
    /\ status = "upcoming" /\ start <= clock
    /\ job' = TRUE
    /\ UNCHANGED <<clock, owner, locked, start, status, req>>

\* ... activates it and locks the selections committed by then.
JobActivate ==
    /\ job
    /\ job' = FALSE
    /\ status' = "active"
    /\ locked' = {t \in Teams : Taken(t)}
    /\ UNCHANGED <<clock, owner, start, req>>

\* PATCH /competitions/{id} sets the date, whatever the status.
ChangeStart(d) ==
    /\ start' = d
    /\ UNCHANGED <<clock, owner, locked, status, job, req>>

Tick ==
    /\ clock < MaxTime
    /\ clock' = clock + 1
    /\ UNCHANGED <<owner, locked, start, status, job, req>>

-----------------------------------------------------------------------------
Work(r) == LockParticipant(r) \/ Count(r) \/ Check(r) \/ Insert(r) \/ Commit(r)

Next ==
    \/ \E r \in Requests :
         \/ \E u \in Users, batch \in Batches : Submit(r, u, batch)
         \/ Work(r) \/ DeadlockVictim(r)
    \/ JobSelect \/ JobActivate
    \/ \E d \in Starts : ChangeStart(d)
    \/ Tick

Spec == Init /\ [][Next]_vars

\* The event loop gives every handler its turn, row locks are granted in the
\* order they were asked for, deadlocks are detected, and the job runs.
Fairness ==
    /\ \A r \in Requests : SF_vars(Work(r)) /\ WF_vars(DeadlockVictim(r))
    /\ WF_vars(JobSelect) /\ WF_vars(JobActivate)

FairSpec == Spec /\ Fairness

-----------------------------------------------------------------------------
(* Properties *)

\* What a request has asked for, in whatever state of the handler.
Asked(x) ==
    IF x.pc = "idle" THEN [user |-> Nobody, teams |-> {}]
    ELSE [user |-> x.user,
          teams |-> x.todo \cup x.inserted \cup (IF x.team = NoTeam THEN {} ELSE {x.team})]

\* The committed selections behave as exclusive claims: a team is never taken
\* from its owner, a batch is granted as a whole or not at all, and no user
\* exceeds the limit, although look-up and insert are separate statements.
Claims == INSTANCE ExclusiveClaims WITH asked <- [r \in Requests |-> Asked(req[r])]
ImplementsClaims == Claims!Spec

\* No user has more teams than the competition allows.
LimitHolds ==
    MaxTeams # 0 => \A u \in Users : Cardinality(TeamsOf(u)) <= MaxTeams

\* Two requests never have the same team inserted.
InsertsExclusive ==
    \A q, r \in Requests : q # r => req[q].inserted \cap req[r].inserted = {}

\* Every submission is answered: crossing inserts do not block each other for
\* ever, and nobody waits for rows that a failed request left behind.
EverySubmissionEnds == \A r \in Requests : req[r].pc # "idle" ~> req[r].pc = "idle"
=============================================================================
