------------------------------- MODULE Accounts -------------------------------
(***************************************************************************)
(* The account of one user: registration, login and its lockout, refresh   *)
(* tokens, their blacklist and their revocation, the change of the         *)
(* password, the deletion with its grace period, and the statuses a global *)
(* admin sets (api/auth.py, api/users.py, api/admin.py,                    *)
(* services/token_blacklist.py, services/user_service.py).                 *)
(*                                                                         *)
(* Every handler reads the row of the user, then runs to its commit        *)
(* without looking again, and its UPDATE names the columns that differ     *)
(* from what it has read. Tokens are dated in whole seconds, the clock     *)
(* counts half seconds. Accounts share nothing, so one stands for all.     *)
(***************************************************************************)
EXTENDS Integers, FiniteSets

CONSTANTS
    Requests,      \* requests that can be in progress at the same time
    Jtis,          \* bound: the refresh tokens ever issued are 1..Jtis
    Threshold,     \* AUTH_LOCKOUT_ATTEMPTS
    LockTime,      \* AUTH_LOCKOUT_MINUTES, in half seconds
    AccessLife,    \* ACCESS_TOKEN_EXPIRE_MINUTES, in seconds
    RefreshLife,   \* REFRESH_TOKEN_EXPIRE_DAYS, in seconds
    Grace,         \* the 30 days before a deletion, in half seconds
    Slack,         \* a request takes no longer than this, in half seconds
    Mixes,         \* which kinds of requests, and failures of Redis, meet
    AdminStatuses, \* the statuses that admins set
    MaxFails,      \* bound on the failed logins counted
    MaxTime        \* bound on the clock

Statuses == {"active", "suspended", "banned", "pending", "deleted"}
UserOperations == {"password", "delete", "cancel"}
AllOperations == UserOperations \cup {"register", "login", "wrong", "refresh", "logout", "status"}
Events == {"outage"}
Tokens == 1..Jtis
Never == -1
Time == Int

ASSUME LivesAssumption ==
    /\ Jtis \in Nat /\ LockTime \in Nat /\ AccessLife \in Nat /\ RefreshLife \in Nat
    /\ Grace \in Nat /\ Slack \in Nat /\ MaxTime \in Nat /\ MaxFails \in Nat
    /\ Threshold \in Nat \ {0}
ASSUME KindsAssumption ==
    /\ Mixes \subseteq SUBSET (AllOperations \cup Events) /\ AdminStatuses \subseteq Statuses

VARIABLES
    mix,        \* the kinds of requests, and whether Redis fails, in this behaviour
    clock,      \* now, in half seconds
    row,        \* the row of the user
    access,     \* the last second in which some access token is valid
    iat,        \* per refresh token, the second it was issued in
    blacklist,  \* Redis: per token, when its blacklist entry expires
    memory,     \* the blacklist of the process, for when Redis is down
    revoked,    \* Redis: the second of the revocation, and when it expires
    redis,      \* whether Redis answers
    doomed,     \* whether the cleanup job has selected the user
    req,        \* the requests in progress
    spent,      \* history: per token, the blacklists in use when it was given up
    lastRevoked,\* history: the second of the last revocation stored
    inactive    \* history: when the account last stopped being active

store == <<blacklist, memory, revoked>>
history == <<spent, lastRevoked, inactive>>
vars == <<mix, clock, row, access, iat, store, redis, doomed, req, history>>

Row == [status : Statuses \cup {"none"}, asked : Time, fails : Nat, locked : Time,
        anonymous : BOOLEAN]

\* seen is the row as read, since the time of arrival.
Request == [pc : {"idle", "read", "act", "issue", "revoke", "commit"},
            op : AllOperations, token : Tokens \cup {0}, to : Statuses,
            since : Time, seen : Row]

NoRow == [status |-> "none", asked |-> Never, fails |-> 0, locked |-> Never,
          anonymous |-> FALSE]
NoRequest == [pc |-> "idle", op |-> "login", token |-> 0, to |-> "active",
              since |-> 0, seen |-> NoRow]

Init ==
    /\ mix \in Mixes
    /\ clock = 0 /\ row = NoRow /\ access = Never
    /\ iat = [j \in Tokens |-> Never]
    /\ blacklist = [j \in Tokens |-> Never] /\ memory = {}
    /\ revoked = [at |-> Never, until |-> Never]
    /\ redis = TRUE /\ doomed = FALSE
    /\ req = [r \in Requests |-> NoRequest]
    /\ spent = [j \in Tokens |-> {}] /\ lastRevoked = Never /\ inactive = Never

-----------------------------------------------------------------------------
(* Tokens *)

Second(t) == t \div 2
Issued(j) == iat[j] # Never
Expiry(j) == iat[j] + RefreshLife

\* jose accepts a token up to and including the second in "exp".
Valid(j) == Issued(j) /\ Second(clock) <= Expiry(j)

IsBlacklisted(j) == IF redis THEN clock < blacklist[j] ELSE j \in memory
IsRevoked(j) == redis /\ clock < revoked.until /\ iat[j] < revoked.at

\* Mutant: the life of an access token.
TtlOfAccess(j) == AccessLife
\* The remaining life in whole seconds.
Ttl(j) == (2 * Expiry(j) - clock) \div 2

\* The blacklist in use.
Used == IF redis THEN "redis" ELSE "memory"

\* blacklist_token: nothing for a token in its last second.
BlacklistToken(j) ==
    /\ spent' = [spent EXCEPT ![j] = @ \cup {Used}]
    /\ blacklist' = IF redis /\ Ttl(j) > 0 THEN [blacklist EXCEPT ![j] = clock + 2 * Ttl(j)]
                                           ELSE blacklist
    /\ memory' = IF ~redis /\ Ttl(j) > 0 THEN memory \cup {j} ELSE memory

\* Mutant: one second less.
RevocationLifeShort == 2 * RefreshLife - 2
\* How long a revocation is remembered: as long as a refresh token lives.
RevocationLife == 2 * RefreshLife

\* blacklist_all_user_tokens
RevokeAll ==
    IF redis
    THEN /\ revoked' = [at |-> Second(clock), until |-> clock + RevocationLife]
         /\ lastRevoked' = Second(clock)
    ELSE UNCHANGED <<revoked, lastRevoked>>

\* A new pair of tokens.
IssueTokens(j) ==
    /\ iat[j] = Never /\ \A i \in 1..(j - 1) : iat[i] # Never
    /\ iat' = [iat EXCEPT ![j] = Second(clock)]
    /\ access' = Second(clock) + AccessLife

-----------------------------------------------------------------------------
(* Requests *)

Goes(r, pc) == req' = [req EXCEPT ![r].pc = pc]
Ends(r) == req' = [req EXCEPT ![r] = NoRequest]
Begin(r, new) ==
    /\ req[r].pc = "idle" /\ new.op \in mix
    /\ req' = [req EXCEPT ![r] = new]
    /\ UNCHANGED <<mix, clock, row, access, iat, store, redis, doomed, history>>

Issuers == {r \in Requests : req[r].pc # "idle" /\ req[r].op \in {"register", "login", "refresh"}}
RoomForToken == Cardinality({j \in Tokens : Issued(j)}) + Cardinality(Issuers) < Jtis

\* The columns a handler uses.
Relevant(op) ==
    [row EXCEPT !.asked = IF op = "cancel" THEN @ ELSE Never,
                !.fails = IF op \in {"login", "wrong"} THEN @ ELSE 0,
                !.locked = IF op \in {"login", "wrong"} THEN @ ELSE Never]

\* A request that begins by reading the row.
Reading(op, to) ==
    [NoRequest EXCEPT !.pc = "act", !.op = op, !.to = to, !.since = clock, !.seen = Relevant(op)]

\* POST /register, and /login with the right or a wrong password.
ArriveRegister(r) == RoomForToken /\ row.status = "none" /\ Begin(r, Reading("register", "active"))
ArriveLogin(r) == RoomForToken /\ Begin(r, Reading("login", "active"))
ArriveWrong(r) == row.fails < MaxFails /\ Begin(r, Reading("wrong", "active"))

\* A global admin's PATCH /users/{user}/status.
ArriveStatus(r, to) == Begin(r, Reading("status", to))

\* A request whose token is checked before the user is queried.
Checked(op, j) == [NoRequest EXCEPT !.pc = "read", !.op = op, !.token = j, !.since = clock]

\* POST /refresh
ArriveRefresh(r, j) ==
    /\ RoomForToken
    /\ Valid(j) /\ ~IsBlacklisted(j) /\ ~IsRevoked(j)
    /\ Begin(r, Checked("refresh", j))

\* The handlers that need a valid access token.
ArriveUser(r, op) == Second(clock) <= access /\ Begin(r, Checked(op, 0))

\* Then the row is read ...
Read(r) ==
    /\ req[r].pc = "read"
    /\ req' = [req EXCEPT ![r].pc = "act", ![r].seen = Relevant(req[r].op)]
    /\ UNCHANGED <<mix, clock, row, access, iat, store, redis, doomed, history>>

\* ... and the handler goes on with it.
LockedOut(seen) == seen.fails >= Threshold /\ seen.locked # Never /\ seen.locked > clock
Found(seen) == seen.status # "none" /\ ~seen.anonymous
\* Mutant: an account that waits for its deletion can log in.
FoundActiveOrPending(seen) == Found(seen) /\ seen.status \in {"active", "pending"}
FoundActive(seen) == Found(seen) /\ seen.status = "active"

Allowed(x) ==
    \/ x.op = "register" /\ x.seen.status = "none" /\ row.status = "none"
    \/ x.op = "login" /\ FoundActive(x.seen) /\ ~LockedOut(x.seen)
    \/ x.op = "wrong" /\ Found(x.seen) /\ ~LockedOut(x.seen)
    \/ x.op = "refresh" /\ x.seen.status = "active"
    \/ x.op \in {"password", "delete"} /\ x.seen.status \in {"active", "pending"}
    \/ x.op = "cancel" /\ x.seen.status = "pending"
    \/ x.op = "status" /\ x.seen.status # "none"

Refused(r) ==
    /\ req[r].pc = "act" /\ ~Allowed(req[r])
    /\ Ends(r)
    /\ UNCHANGED <<mix, clock, row, access, iat, store, redis, doomed, history>>

Acts(r, op) == req[r].pc = "act" /\ req[r].op = op /\ Allowed(req[r])

\* Everybody who writes the row tells when the account stops being active.
Write(new) ==
    /\ row' = new
    /\ inactive' = IF row.status = "active" /\ new.status # "active" THEN clock ELSE inactive

Register(r) ==
    /\ Acts(r, "register")
    /\ Write([NoRow EXCEPT !.status = "active"])
    /\ Goes(r, "issue")
    /\ UNCHANGED <<mix, clock, access, iat, store, redis, doomed, spent, lastRevoked>>

\* Mutant: only the attempts after the last one allowed lock.
FailedLoginLate(seen) ==
    [row EXCEPT !.fails = seen.fails + 1,
                !.locked = IF seen.fails + 1 > Threshold THEN clock + LockTime ELSE @]
\* _record_failed_login
FailedLogin(seen) ==
    [row EXCEPT !.fails = seen.fails + 1,
                !.locked = IF seen.fails + 1 >= Threshold THEN clock + LockTime ELSE @]

WrongPassword(r) ==
    /\ Acts(r, "wrong")
    /\ Write(FailedLogin(req[r].seen))
    /\ Ends(r)
    /\ UNCHANGED <<mix, clock, access, iat, store, redis, doomed, spent, lastRevoked>>

\* _clear_failed_logins
ClearedLogins(seen) ==
    [row EXCEPT !.fails = IF seen.fails # 0 THEN 0 ELSE @,
                !.locked = IF seen.fails # 0 /\ seen.locked # Never THEN Never ELSE @]

Login(r) ==
    /\ Acts(r, "login")
    /\ Write(ClearedLogins(req[r].seen))
    /\ Goes(r, "issue")
    /\ UNCHANGED <<mix, clock, access, iat, store, redis, doomed, spent, lastRevoked>>

\* The tokens of register and login are made after the commit.
Issue(r) ==
    /\ req[r].pc = "issue"
    /\ \E j \in Tokens : IssueTokens(j)
    /\ Ends(r)
    /\ UNCHANGED <<mix, clock, row, store, redis, doomed, history>>

\* The refresh token is rotated, without another wait.
Refresh(r) ==
    /\ Acts(r, "refresh")
    /\ BlacklistToken(req[r].token)
    /\ \E j \in Tokens : IssueTokens(j)
    /\ Ends(r)
    /\ UNCHANGED <<mix, clock, row, revoked, redis, doomed, lastRevoked, inactive>>

Logout(j) ==
    /\ "logout" \in mix
    /\ Valid(j)
    /\ BlacklistToken(j)
    /\ UNCHANGED <<mix, clock, row, access, iat, revoked, redis, doomed, req, lastRevoked, inactive>>

\* Once the new password is committed, the tokens are revoked.
ChangePassword(r) ==
    /\ Acts(r, "password")
    /\ Goes(r, "revoke")
    /\ UNCHANGED <<mix, clock, row, access, iat, store, redis, doomed, history>>

RequestDeletion(r) ==
    /\ Acts(r, "delete")
    /\ Write([row EXCEPT !.status = IF req[r].seen.status # "pending" THEN "pending" ELSE @,
                         !.asked = clock])
    /\ Goes(r, "revoke")
    /\ UNCHANGED <<mix, clock, access, iat, store, redis, doomed, spent, lastRevoked>>

Revoke(r) ==
    /\ req[r].pc = "revoke"
    /\ RevokeAll
    /\ Ends(r)
    /\ UNCHANGED <<mix, clock, row, access, iat, blacklist, memory, redis, doomed, spent, inactive>>

CancelDeletion(r) ==
    /\ Acts(r, "cancel")
    /\ Write([row EXCEPT !.status = "active",
                         !.asked = IF req[r].seen.asked # Never THEN Never ELSE @])
    /\ Ends(r)
    /\ UNCHANGED <<mix, clock, access, iat, store, redis, doomed, spent, lastRevoked>>

\* update_user_status: here the revocation comes before the commit.
SetStatus(r) ==
    /\ Acts(r, "status")
    /\ IF req[r].to \in {"suspended", "banned"} THEN RevokeAll
                                                ELSE UNCHANGED <<revoked, lastRevoked>>
    /\ Goes(r, "commit")
    /\ UNCHANGED <<mix, clock, row, access, iat, blacklist, memory, redis, doomed, spent, inactive>>

CommitStatus(r) ==
    /\ req[r].pc = "commit"
    /\ Write([row EXCEPT !.status = IF req[r].to # req[r].seen.status THEN req[r].to ELSE @])
    /\ Ends(r)
    /\ UNCHANGED <<mix, clock, access, iat, store, redis, doomed, spent, lastRevoked>>

-----------------------------------------------------------------------------
(* The cleanup job and the environment *)

\* Mutant: the job looks for the deletions that become due right now.
DueNow == row.status = "pending" /\ row.asked + Grace = clock
\* The accounts whose grace period is over; no date is not a date in the past.
Due == row.status = "pending" /\ row.asked # Never /\ row.asked + Grace <= clock

CleanupSelect ==
    /\ ~doomed /\ Due
    /\ doomed' = TRUE
    /\ UNCHANGED <<mix, clock, row, access, iat, store, redis, req, history>>

CleanupCommit ==
    /\ doomed
    /\ Write([row EXCEPT !.status = "deleted", !.anonymous = TRUE])
    /\ doomed' = FALSE
    /\ UNCHANGED <<mix, clock, access, iat, store, redis, req, spent, lastRevoked>>

\* Redis goes away or comes back, with what it has stored.
RedisChanges ==
    /\ "outage" \in mix
    /\ redis' = ~redis
    /\ UNCHANGED <<mix, clock, row, access, iat, store, doomed, req, history>>

\* Time passes; a request is answered within Slack.
Tick ==
    /\ clock < MaxTime
    /\ \A r \in Requests : req[r].pc # "idle" => clock < req[r].since + Slack
    /\ clock' = clock + 1
    /\ UNCHANGED <<mix, row, access, iat, store, redis, doomed, req, history>>

-----------------------------------------------------------------------------
Arrive(r) ==
    \/ ArriveRegister(r) \/ ArriveLogin(r) \/ ArriveWrong(r)
    \/ \E j \in Tokens : ArriveRefresh(r, j)
    \/ \E op \in UserOperations : ArriveUser(r, op)
    \/ \E to \in AdminStatuses : ArriveStatus(r, to)

Handle(r) ==
    \/ Read(r) \/ Refused(r)
    \/ Register(r) \/ WrongPassword(r) \/ Login(r) \/ Issue(r) \/ Refresh(r)
    \/ ChangePassword(r) \/ RequestDeletion(r) \/ Revoke(r) \/ CancelDeletion(r)
    \/ SetStatus(r) \/ CommitStatus(r)

Next ==
    \/ \E r \in Requests : Arrive(r) \/ Handle(r)
    \/ \E j \in Tokens : Logout(j)
    \/ CleanupSelect \/ CleanupCommit \/ RedisChanges \/ Tick

Spec == Init /\ [][Next]_vars

\* The scheduler runs the cleanup job every day, and its transaction ends.
FairSpec == Spec /\ WF_vars(CleanupSelect) /\ WF_vars(CleanupCommit)

-----------------------------------------------------------------------------
(* Properties *)

\* All rows, stored keys, tokens and requests have their types.
TypeOK ==
    /\ mix \in Mixes /\ clock \in Nat /\ row \in Row /\ access \in Int
    /\ iat \in [Tokens -> Int]
    /\ blacklist \in [Tokens -> Int] /\ memory \subseteq Tokens
    /\ revoked \in [at : Int, until : Int]
    /\ redis \in BOOLEAN /\ doomed \in BOOLEAN
    /\ req \in [Requests -> Request]
    /\ spent \in [Tokens -> SUBSET {"redis", "memory"}] /\ lastRevoked \in Int /\ inactive \in Int

\* An account that reached the threshold of failed logins has the time until
\* which it is locked, although overlapping logins write the counter and the
\* time from stale reads (_record_failed_login, _clear_failed_logins).
LockedAtThreshold == row.fails >= Threshold => row.locked # Never

StartsRefresh(r) == req[r].pc = "idle" /\ req'[r].pc = "read" /\ req'[r].op = "refresh"

\* A refresh token that was rotated or logged out is refused afterwards, until
\* the last half second before its expiry, as long as Redis is then what it was.
SpentTokensAreRefused ==
    [][\A r \in Requests : StartsRefresh(r) =>
         LET j == req'[r].token
         IN Used \in spent[j] => clock >= 2 * Expiry(j) - 1]_vars

\* A refresh token from before the second of a revocation that Redis stored is
\* refused for the rest of its life, while Redis answers.
RevokedTokensAreRefused ==
    [][\A r \in Requests : StartsRefresh(r) /\ redis => iat[req'[r].token] >= lastRevoked]_vars

\* Somebody whose account is no longer active keeps access for the life of one
\* access token, plus the time of a request that was let in before.
AccessRunsOut ==
    row.status \notin {"none", "active"} => access <= Second(inactive + Slack) + AccessLife

\* A deletion whose grace period is over is carried out, cancelled or renewed.
GraceIsOver == row.status = "pending" /\ row.asked \in 0..(clock - Grace)
DueDeletionsHappen == GraceIsOver ~> ~GraceIsOver
=============================================================================
