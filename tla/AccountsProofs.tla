--------------------------- MODULE AccountsProofs ---------------------------
(***************************************************************************)
(* Theorems about Accounts, for any number of overlapping requests, any    *)
(* lives of tokens and any mixes of operations.                            *)
(***************************************************************************)
EXTENDS Accounts, TLAPS

-----------------------------------------------------------------------------
(* The inductive invariant *)

\* Beyond its last second, or in it.
NearlyOver(j) == clock >= 2 * Expiry(j) - 1

\* A token that was given up is on the list that was in use, until it expires.
SpentOK(j) ==
    /\ iat[j] # Never => iat[j] \in Nat
    /\ spent[j] # {} => Issued(j)
    /\ "redis" \in spent[j] => NearlyOver(j) \/ blacklist[j] >= 2 * Expiry(j) - 1
    /\ "memory" \in spent[j] => NearlyOver(j) \/ j \in memory

\* Redis remembers the last revocation as long as a token from before it lives.
RevocationOK ==
    lastRevoked # Never =>
      /\ lastRevoked \in Nat /\ revoked.at = lastRevoked
      /\ revoked.until >= 2 * lastRevoked + 2 * RefreshLife

\* A request that will issue tokens, or may, arrived before the account
\* stopped being active; and it is answered in time.
MayIssue(x) == x.pc = "issue" \/ (x.pc = "act" /\ x.seen.status = "active")
RequestOK(x) ==
    /\ x.pc \in {"read", "act"} /\ x.op = "refresh" => x.token \in Tokens /\ Issued(x.token)
    /\ x.pc # "idle" => x.since <= clock /\ clock <= x.since + Slack
    /\ x.seen.status # "none" => row.status # "none"
    /\ x.pc \in {"issue", "commit"} => row.status # "none"
    /\ MayIssue(x) /\ row.status # "active" => x.since <= inactive

AccessOK == access <= Second(clock) + AccessLife

IInv ==
    /\ TypeOK
    /\ LockedAtThreshold /\ AccessRunsOut /\ AccessOK /\ RevocationOK
    /\ doomed => row.status # "none"
    /\ \A j \in Tokens : SpentOK(j)
    /\ \A r \in Requests : RequestOK(req[r])

-----------------------------------------------------------------------------
(* Lemmas *)

LEMMA NoRequestOK ==
  /\ NoRequest \in Request /\ NoRow \in Row /\ RequestOK(NoRequest)
  /\ NoRequest.pc = "idle" /\ NoRequest.seen = NoRow
  BY DEF NoRequest, NoRow, Request, Row, RequestOK, MayIssue, AllOperations, UserOperations,
         Statuses, Tokens, Time, Never

LEMMA InitOK == Init => IInv
  <1> SUFFICES ASSUME Init PROVE IInv
    OBVIOUS
  <1>1. TypeOK
    <2>1. /\ mix \in Mixes /\ clock \in Nat /\ row \in Row /\ access \in Int
          /\ req \in [Requests -> Request]
      BY NoRequestOK DEF Init, Never
    <2>3. redis \in BOOLEAN /\ doomed \in BOOLEAN
      BY DEF Init
    <2>2. /\ iat \in [Tokens -> Int]
          /\ blacklist \in [Tokens -> Int] /\ memory \subseteq Tokens
          /\ revoked \in [at : Int, until : Int]
          /\ spent \in [Tokens -> SUBSET {"redis", "memory"}]
          /\ lastRevoked \in Int /\ inactive \in Int
      BY DEF Init, Never
    <2> QED BY <2>1, <2>2, <2>3 DEF TypeOK
  <1>2. \A r \in Requests : RequestOK(req[r])
    BY NoRequestOK DEF Init
  <1>3. \A j \in Tokens : SpentOK(j)
    BY DEF Init, SpentOK, Never
  <1>4. LockedAtThreshold /\ AccessRunsOut /\ AccessOK /\ RevocationOK
    BY LivesAssumption DEF Init, LockedAtThreshold, AccessRunsOut, AccessOK, RevocationOK,
       NoRow, Never, Second
  <1>5. doomed => row.status # "none"
    BY DEF Init
  <1> QED BY <1>1, <1>2, <1>3, <1>4, <1>5 DEF IInv

\* A step of one request that changes nothing else.
LEMMA RequestStep ==
  ASSUME IInv, NEW r \in Requests, NEW y \in Request, RequestOK(y),
         req' = [req EXCEPT ![r] = y],
         UNCHANGED <<mix, clock, row, access, iat, store, redis, doomed, history>>
  PROVE  IInv'
  <1>1. TypeOK'
    BY DEF IInv, TypeOK, store, history
  <1>2. \A s \in Requests : RequestOK(req[s])'
    <2> TAKE s \in Requests
    <2>1. req'[s] = IF s = r THEN y ELSE req[s]
      BY DEF IInv, TypeOK
    <2> QED BY <2>1 DEF IInv, RequestOK, MayIssue, Issued, history
  <1>3. \A j \in Tokens : SpentOK(j)'
    BY DEF IInv, SpentOK, NearlyOver, Issued, Expiry, store, history
  <1>4. (LockedAtThreshold /\ AccessRunsOut /\ AccessOK /\ RevocationOK)'
    BY DEF IInv, LockedAtThreshold, AccessRunsOut, AccessOK, RevocationOK, Second, store, history
  <1>5. (doomed => row.status # "none")'
    BY DEF IInv
  <1> QED BY <1>1, <1>2, <1>3, <1>4, <1>5 DEF IInv

LEMMA RelevantType ==
  ASSUME row \in Row, NEW op
  PROVE  Relevant(op) \in Row /\ Relevant(op).status = row.status
  <1>1. row.asked \in Int /\ row.fails \in Nat /\ row.locked \in Int /\ Never \in Int
    BY DEF Row, Time, Never
  <1>2. /\ (IF op = "cancel" THEN row.asked ELSE Never) \in Int
        /\ (IF op \in {"login", "wrong"} THEN row.fails ELSE 0) \in Nat
        /\ (IF op \in {"login", "wrong"} THEN row.locked ELSE Never) \in Int
    BY <1>1
  <1> QED BY <1>2 DEF Relevant, Row, Time

LEMMA ArriveOK ==
  ASSUME IInv, NEW r \in Requests, Arrive(r)
  PROVE  IInv'
  <1>0. row \in Row /\ Slack \in Nat /\ clock \in Nat
    BY LivesAssumption DEF IInv, TypeOK
  <1>1. ASSUME NEW op \in {"register", "login", "wrong", "status"}, NEW to \in Statuses,
               Begin(r, Reading(op, to))
        PROVE  IInv'
    <2> DEFINE y == Reading(op, to)
    <2>1. /\ y \in Request
          /\ y.pc = "act" /\ y.op = op /\ y.since = clock /\ y.seen = Relevant(op)
      <3>1. op \in AllOperations /\ Relevant(op) \in Row /\ clock \in Time
        BY <1>0, RelevantType DEF AllOperations, Time
      <3> DEFINE old == NoRequest
      <3>3. old \in Request
        BY NoRequestOK
      <3>4. y = [old EXCEPT !.pc = "act", !.op = op, !.to = to, !.since = clock, !.seen = Relevant(op)]
        BY DEF Reading
      <3> HIDE DEF y, old
      <3> QED BY <3>1, <3>3, <3>4 DEF Request
    <2>2. RequestOK(y)
      <3> HIDE DEF y
      <3> QED BY <1>0, <2>1, RelevantType DEF RequestOK, MayIssue
    <2>3. /\ req' = [req EXCEPT ![r] = y]
          /\ UNCHANGED <<mix, clock, row, access, iat, store, redis, doomed, history>>
      BY <1>1 DEF Begin
    <2> HIDE DEF y
    <2> QED BY <2>1, <2>2, <2>3, RequestStep
  <1>2. ASSUME NEW op \in UserOperations \cup {"refresh"}, NEW j \in Tokens \cup {0},
               op = "refresh" => j \in Tokens /\ Issued(j),
               Begin(r, Checked(op, j))
        PROVE  IInv'
    <2> DEFINE y == Checked(op, j)
    <2>1. /\ y \in Request
          /\ y.pc = "read" /\ y.op = op /\ y.token = j /\ y.since = clock /\ y.seen = NoRow
      <3>1. op \in AllOperations /\ clock \in Time
        BY <1>0 DEF AllOperations, Time
      <3> DEFINE old == NoRequest
      <3>3. old \in Request /\ old.seen = NoRow
        BY NoRequestOK
      <3>4. y = [old EXCEPT !.pc = "read", !.op = op, !.token = j, !.since = clock]
        BY DEF Checked
      <3> HIDE DEF y, old
      <3> QED BY <3>1, <3>3, <3>4 DEF Request
    <2>2. RequestOK(y)
      <3> HIDE DEF y
      <3> QED BY <1>0, <1>2, <2>1 DEF RequestOK, MayIssue, NoRow
    <2>3. /\ req' = [req EXCEPT ![r] = y]
          /\ UNCHANGED <<mix, clock, row, access, iat, store, redis, doomed, history>>
      BY <1>2 DEF Begin
    <2> HIDE DEF y
    <2> QED BY <2>1, <2>2, <2>3, RequestStep
  <1>3. "active" \in Statuses /\ AdminStatuses \subseteq Statuses
    BY KindsAssumption DEF Statuses
  <1>4. CASE ArriveRegister(r) \/ ArriveLogin(r) \/ ArriveWrong(r)
    BY <1>1, <1>3, <1>4 DEF ArriveRegister, ArriveLogin, ArriveWrong
  <1>5. CASE \E to \in AdminStatuses : ArriveStatus(r, to)
    BY <1>1, <1>3, <1>5 DEF ArriveStatus
  <1>6. CASE \E j \in Tokens : ArriveRefresh(r, j)
    BY <1>2, <1>6 DEF ArriveRefresh, Valid
  <1>7. CASE \E op \in UserOperations : ArriveUser(r, op)
    BY <1>2, <1>7 DEF ArriveUser, UserOperations
  <1> QED BY <1>4, <1>5, <1>6, <1>7 DEF Arrive

LEMMA ReadOK ==
  ASSUME IInv, NEW r \in Requests, Read(r)
  PROVE  IInv'
  <1> DEFINE y == [req[r] EXCEPT !.pc = "act", !.seen = Relevant(req[r].op)]
  <1>1. row \in Row /\ req[r] \in Request /\ RequestOK(req[r]) /\ Slack \in Nat
    BY LivesAssumption DEF IInv, TypeOK
  <1>2. /\ y \in Request
        /\ y.pc = "act" /\ y.op = req[r].op /\ y.token = req[r].token
        /\ y.since = req[r].since /\ y.seen = Relevant(req[r].op)
    BY <1>1, RelevantType DEF Request
  <1>3. RequestOK(y)
    <2> HIDE DEF y
    <2> QED BY <1>1, <1>2, RelevantType DEF Read, RequestOK, MayIssue
  <1>4. /\ req' = [req EXCEPT ![r] = y]
        /\ UNCHANGED <<mix, clock, row, access, iat, store, redis, doomed, history>>
    BY DEF Read
  <1> HIDE DEF y
  <1> QED BY <1>2, <1>3, <1>4, RequestStep

LEMMA RefusedOK ==
  ASSUME IInv, NEW r \in Requests, Refused(r)
  PROVE  IInv'
  BY NoRequestOK, RequestStep DEF Refused, Ends

LEMMA ChangePasswordOK ==
  ASSUME IInv, NEW r \in Requests, ChangePassword(r)
  PROVE  IInv'
  <1> DEFINE y == [req[r] EXCEPT !.pc = "revoke"]
  <1>1. req[r] \in Request /\ RequestOK(req[r])
    BY DEF IInv, TypeOK
  <1>2. /\ y \in Request
        /\ y.pc = "revoke" /\ y.since = req[r].since /\ y.seen = req[r].seen
    BY <1>1 DEF Request
  <1>3. RequestOK(y)
    <2> HIDE DEF y
    <2> QED BY <1>1, <1>2 DEF ChangePassword, Acts, RequestOK, MayIssue
  <1>4. /\ req' = [req EXCEPT ![r] = y]
        /\ UNCHANGED <<mix, clock, row, access, iat, store, redis, doomed, history>>
    BY DEF ChangePassword, Goes
  <1> HIDE DEF y
  <1> QED BY <1>2, <1>3, <1>4, RequestStep

-----------------------------------------------------------------------------
(* Steps that write the row, the tokens or their lists *)

\* How the requests may change in a step: the others stay, one moves on.
MovesOn ==
    /\ req' \in [Requests -> Request]
    /\ \A s \in Requests : req'[s] = req[s] \/ RequestOK(req[s])'

\* A request that is over.
LEMMA Over ==
  ASSUME TypeOK, NEW r \in Requests, Ends(r)
  PROVE  MovesOn
  <1>1. req' \in [Requests -> Request]
    BY NoRequestOK DEF TypeOK, Ends
  <1>2. \A s \in Requests : req'[s] = IF s = r THEN NoRequest ELSE req[s]
    BY DEF TypeOK, Ends
  <1>3. RequestOK(req[r])'
    BY <1>2 DEF NoRequest, NoRow, RequestOK, MayIssue
  <1> QED BY <1>1, <1>2, <1>3 DEF MovesOn

\* A step that writes the row.
LEMMA WriteOK ==
  ASSUME IInv, NEW new \in Row, Write(new), MovesOn,
         row.status # "none" \/ new.status = "active",
         new.status # "none",
         new.fails >= Threshold => new.locked # Never,
         doomed' \in BOOLEAN, doomed' => doomed,
         UNCHANGED <<mix, clock, access, iat, store, redis, spent, lastRevoked>>
  PROVE  IInv'
  <1>1. TypeOK'
    <2>1. inactive' \in Int
      BY DEF IInv, TypeOK, Write
    <2> QED BY <2>1 DEF IInv, TypeOK, Write, MovesOn, store
  <1>2. clock \in Nat /\ inactive \in Int /\ access \in Int /\ Slack \in Nat /\ AccessLife \in Nat
    BY LivesAssumption DEF IInv, TypeOK
  <1>3. ASSUME NEW s \in Requests, req'[s] = req[s]
        PROVE  RequestOK(req[s])'
    <2>1. req[s] \in Request /\ RequestOK(req[s])
      BY DEF IInv, TypeOK
    <2>2. req[s].since \in Int
      BY <2>1 DEF Request, Time
    <2>3. row'.status # "none" /\ row' = new
      BY DEF Write
    <2>4. MayIssue(req[s]) => row.status # "none"
      BY <2>1 DEF RequestOK, MayIssue
    <2>5. (MayIssue(req[s]) /\ row.status # "active" => req[s].since <= inactive)'
      BY <1>2, <1>3, <2>1, <2>2, <2>3, <2>4 DEF RequestOK, MayIssue, Write
    <2> QED BY <1>3, <2>1, <2>3, <2>5 DEF RequestOK, Issued
  <1>4. \A s \in Requests : RequestOK(req[s])'
    BY <1>3 DEF MovesOn
  <1>5. \A j \in Tokens : SpentOK(j)'
    BY DEF IInv, SpentOK, NearlyOver, Issued, Expiry, store
  <1>6. (LockedAtThreshold /\ AccessOK /\ RevocationOK)'
    BY DEF IInv, LockedAtThreshold, AccessOK, RevocationOK, Second, Write, store
  <1>7. AccessRunsOut'
    <2>1. CASE row.status = "active" /\ new.status # "active"
      BY <1>2, <2>1 DEF IInv, AccessOK, AccessRunsOut, Second, Write
    <2>2. CASE ~(row.status = "active" /\ new.status # "active")
      BY <1>2, <2>2 DEF IInv, AccessRunsOut, Second, Write
    <2> QED BY <2>1, <2>2
  <1>8. (doomed => row.status # "none")'
    BY DEF Write
  <1> QED BY <1>1, <1>4, <1>5, <1>6, <1>7, <1>8 DEF IInv

\* What a handler that acts has found out.
LEMMA ActsFacts ==
  ASSUME IInv, NEW r \in Requests, NEW op, Acts(r, op)
  PROVE  /\ req[r] \in Request /\ RequestOK(req[r]) /\ req[r].pc = "act" /\ req[r].op = op
         /\ req[r].seen \in Row /\ row \in Row
         /\ op \in {"login", "refresh"} => req[r].seen.status = "active"
         /\ op = "register" => row.status = "none"
         /\ op \in {"login", "wrong", "refresh", "password", "delete", "cancel", "status"}
              => req[r].seen.status # "none" /\ row.status # "none"
         /\ op = "cancel" => req[r].seen.status = "pending"
  <1>1. req[r] \in Request /\ RequestOK(req[r]) /\ row \in Row
    BY DEF IInv, TypeOK
  <1>2. req[r].seen \in Row
    BY <1>1 DEF Request
  <1>3. /\ op \in {"login", "refresh"} => req[r].seen.status = "active"
        /\ op = "register" => row.status = "none"
        /\ op \in {"login", "wrong", "refresh", "password", "delete", "cancel", "status"}
             => req[r].seen.status # "none"
        /\ op = "cancel" => req[r].seen.status = "pending"
    BY DEF Acts, Allowed, FoundActive, Found
  <1> QED BY <1>1, <1>2, <1>3 DEF Acts, RequestOK

\* The request that writes the row goes on.
LEMMA GoesOn ==
  ASSUME IInv, NEW r \in Requests, NEW pc \in {"issue", "revoke"},
         req[r].pc = "act", Goes(r, pc), UNCHANGED clock, row'.status # "none",
         pc = "issue" =>
            (row'.status # "active" => req[r].since <= inactive')
  PROVE  MovesOn
  <1> DEFINE y == [req[r] EXCEPT !.pc = pc]
  <1>1. req[r] \in Request /\ RequestOK(req[r])
    BY DEF IInv, TypeOK
  <1>2. /\ y \in Request
        /\ y.pc = pc /\ y.since = req[r].since /\ y.seen = req[r].seen
    BY <1>1 DEF Request
  <1>3. req' = [req EXCEPT ![r] = y]
    BY DEF Goes
  <1> HIDE DEF y
  <1>4. req'[r] = y /\ \A s \in Requests : s # r => req'[s] = req[s]
    BY <1>3 DEF IInv, TypeOK
  <1>5. RequestOK(req[r])'
    <2>1. req'[r].pc = pc /\ req'[r].since = req[r].since /\ req'[r].seen = req[r].seen
      BY <1>2, <1>4
    <2> QED BY <1>1, <2>1 DEF RequestOK, MayIssue
  <1>6. req' \in [Requests -> Request]
    BY <1>2, <1>3 DEF IInv, TypeOK
  <1> QED BY <1>4, <1>5, <1>6 DEF MovesOn

LEMMA RegisterOK ==
  ASSUME IInv, NEW r \in Requests, Register(r)
  PROVE  IInv'
  <1> DEFINE new == [NoRow EXCEPT !.status = "active"]
  <1>1. new \in Row /\ new.status = "active" /\ new.fails = 0
    <2>1. NoRow \in Row /\ NoRow.fails = 0
      BY NoRequestOK DEF NoRow
    <2> QED BY <2>1 DEF Row, Statuses
  <1>2. Write(new) /\ Goes(r, "issue") /\ Acts(r, "register")
    BY DEF Register
  <1> HIDE DEF new
  <1>3. row'.status = "active"
    BY <1>1, <1>2 DEF Write
  <1>4. MovesOn
    BY <1>2, <1>3, GoesOn DEF Acts, Register
  <1>5. UNCHANGED <<mix, clock, access, iat, store, redis, doomed, spent, lastRevoked>>
    BY DEF Register
  <1>6. (new.fails >= Threshold => new.locked # Never) /\ doomed' \in BOOLEAN
    BY <1>1, <1>5, LivesAssumption DEF IInv, TypeOK
  <1> QED BY <1>1, <1>2, <1>4, <1>5, <1>6, WriteOK

LEMMA WrongPasswordOK ==
  ASSUME IInv, NEW r \in Requests, WrongPassword(r)
  PROVE  IInv'
  <1> DEFINE new == FailedLogin(req[r].seen)
  <1>1. Write(new) /\ Ends(r) /\ Acts(r, "wrong")
    BY DEF WrongPassword
  <1>2. /\ row \in Row /\ req[r].seen \in Row /\ row.status # "none"
        /\ clock \in Nat /\ LockTime \in Nat /\ Threshold \in Nat
    BY <1>1, ActsFacts, LivesAssumption DEF IInv, TypeOK
  <1>3. /\ new \in Row /\ new.status = row.status
        /\ new.fails >= Threshold => new.locked # Never
    <2>1. req[r].seen.fails \in Nat /\ row.locked \in Int
      BY <1>2 DEF Row, Time
    <2>2. /\ req[r].seen.fails + 1 \in Nat
          /\ (IF req[r].seen.fails + 1 >= Threshold THEN clock + LockTime ELSE row.locked) \in Int
      BY <1>2, <2>1
    <2>3. clock + LockTime # Never
      BY <1>2 DEF Never
    <2> QED BY <1>2, <2>2, <2>3 DEF FailedLogin, Row, Time
  <1> HIDE DEF new
  <1>4. MovesOn
    BY <1>1, Over DEF IInv
  <1>5. UNCHANGED <<mix, clock, access, iat, store, redis, doomed, spent, lastRevoked>>
    BY DEF WrongPassword
  <1>6. doomed' \in BOOLEAN
    BY <1>5 DEF IInv, TypeOK
  <1> QED BY <1>1, <1>2, <1>3, <1>4, <1>5, <1>6, WriteOK

LEMMA LoginOK ==
  ASSUME IInv, NEW r \in Requests, Login(r)
  PROVE  IInv'
  <1> DEFINE new == ClearedLogins(req[r].seen)
  <1>1. Write(new) /\ Goes(r, "issue") /\ Acts(r, "login")
    BY DEF Login
  <1>2. /\ row \in Row /\ req[r].seen \in Row /\ row.status # "none"
        /\ req[r].seen.status = "active" /\ RequestOK(req[r]) /\ req[r].pc = "act"
        /\ Threshold \in Nat \ {0}
    BY <1>1, ActsFacts, LivesAssumption
  <1>3. /\ new \in Row /\ new.status = row.status
        /\ new.fails >= Threshold => new.locked # Never
    <2>1. row.fails \in Nat /\ row.locked \in Int /\ Never \in Int
      BY <1>2 DEF Row, Time, Never
    <2>2. new \in Row /\ new.status = row.status
      BY <1>2, <2>1 DEF ClearedLogins, Row, Time
    <2>3. CASE req[r].seen.fails # 0
      <3>1. new.fails = 0
        BY <1>2, <2>3 DEF ClearedLogins, Row
      <3> QED BY <1>2, <2>2, <3>1
    <2>4. CASE req[r].seen.fails = 0
      <3>1. new.fails = row.fails /\ new.locked = row.locked
        BY <1>2, <2>4 DEF ClearedLogins, Row
      <3> QED BY <2>2, <3>1 DEF IInv, LockedAtThreshold
    <2> QED BY <2>3, <2>4
  <1> HIDE DEF new
  <1>4. row' = new /\ inactive' = inactive
    BY <1>1, <1>3 DEF Write
  <1>5. UNCHANGED <<mix, clock, access, iat, store, redis, doomed, spent, lastRevoked>>
    BY DEF Login
  <1>6. row'.status # "none" /\ (row'.status # "active" => req[r].since <= inactive')
    BY <1>2, <1>3, <1>4 DEF RequestOK, MayIssue
  <1>7. MovesOn
    BY <1>1, <1>2, <1>5, <1>6, GoesOn
  <1>8. doomed' \in BOOLEAN
    BY <1>5 DEF IInv, TypeOK
  <1> QED BY <1>1, <1>2, <1>3, <1>5, <1>7, <1>8, WriteOK

LEMMA RequestDeletionOK ==
  ASSUME IInv, NEW r \in Requests, RequestDeletion(r)
  PROVE  IInv'
  <1> DEFINE new == [row EXCEPT
                       !.status = IF req[r].seen.status # "pending" THEN "pending" ELSE @,
                       !.asked = clock]
  <1>1. Write(new) /\ Goes(r, "revoke") /\ Acts(r, "delete")
    BY DEF RequestDeletion
  <1>2. row \in Row /\ row.status # "none" /\ req[r].pc = "act" /\ clock \in Time
    BY <1>1, ActsFacts DEF IInv, TypeOK, Time
  <1>3. /\ new \in Row /\ new.status # "none"
        /\ new.fails = row.fails /\ new.locked = row.locked
    BY <1>2 DEF Row, Statuses
  <1> HIDE DEF new
  <1>4. new.fails >= Threshold => new.locked # Never
    BY <1>3 DEF IInv, LockedAtThreshold
  <1>5. UNCHANGED <<mix, clock, access, iat, store, redis, doomed, spent, lastRevoked>>
    BY DEF RequestDeletion
  <1>6. MovesOn
    BY <1>1, <1>2, <1>3, <1>5, GoesOn DEF Write
  <1>7. doomed' \in BOOLEAN
    BY <1>5 DEF IInv, TypeOK
  <1> QED BY <1>1, <1>2, <1>3, <1>4, <1>5, <1>6, <1>7, WriteOK

LEMMA CancelDeletionOK ==
  ASSUME IInv, NEW r \in Requests, CancelDeletion(r)
  PROVE  IInv'
  <1> DEFINE new == [row EXCEPT !.status = "active",
                                !.asked = IF req[r].seen.asked # Never THEN Never ELSE @]
  <1>1. Write(new) /\ Ends(r) /\ Acts(r, "cancel")
    BY DEF CancelDeletion
  <1>2. row \in Row /\ row.asked \in Int /\ Never \in Int
    BY <1>1, ActsFacts DEF Row, Time, Never
  <1>3. /\ new \in Row /\ new.status = "active"
        /\ new.fails = row.fails /\ new.locked = row.locked
    BY <1>2 DEF Row, Statuses, Time
  <1> HIDE DEF new
  <1>4. new.fails >= Threshold => new.locked # Never
    BY <1>3 DEF IInv, LockedAtThreshold
  <1>5. UNCHANGED <<mix, clock, access, iat, store, redis, doomed, spent, lastRevoked>>
    BY DEF CancelDeletion
  <1>6. MovesOn /\ doomed' \in BOOLEAN
    BY <1>1, <1>5, Over DEF IInv, TypeOK
  <1> QED BY <1>1, <1>3, <1>4, <1>5, <1>6, WriteOK

LEMMA CommitStatusOK ==
  ASSUME IInv, NEW r \in Requests, CommitStatus(r)
  PROVE  IInv'
  <1> DEFINE new == [row EXCEPT
                       !.status = IF req[r].to # req[r].seen.status THEN req[r].to ELSE @]
  <1>1. Write(new) /\ Ends(r)
    BY DEF CommitStatus
  <1>2. row \in Row /\ req[r].to \in Statuses /\ row.status # "none"
    BY DEF IInv, TypeOK, Request, RequestOK, CommitStatus
  <1>3. /\ new \in Row /\ new.status # "none"
        /\ new.fails = row.fails /\ new.locked = row.locked
    BY <1>2 DEF Row, Statuses
  <1> HIDE DEF new
  <1>4. new.fails >= Threshold => new.locked # Never
    BY <1>3 DEF IInv, LockedAtThreshold
  <1>5. UNCHANGED <<mix, clock, access, iat, store, redis, doomed, spent, lastRevoked>>
    BY DEF CommitStatus
  <1>6. MovesOn /\ doomed' \in BOOLEAN
    BY <1>1, <1>5, Over DEF IInv, TypeOK
  <1> QED BY <1>1, <1>2, <1>3, <1>4, <1>5, <1>6, WriteOK

LEMMA CleanupCommitOK ==
  ASSUME IInv, CleanupCommit
  PROVE  IInv'
  <1> DEFINE new == [row EXCEPT !.status = "deleted", !.anonymous = TRUE]
  <1>1. Write(new) /\ doomed' = FALSE /\ req' = req
    BY DEF CleanupCommit
  <1>2. row \in Row /\ row.status # "none"
    BY DEF IInv, TypeOK, CleanupCommit
  <1>3. /\ new \in Row /\ new.status = "deleted"
        /\ new.fails = row.fails /\ new.locked = row.locked
    BY <1>2 DEF Row, Statuses
  <1> HIDE DEF new
  <1>4. new.fails >= Threshold => new.locked # Never
    BY <1>3 DEF IInv, LockedAtThreshold
  <1>5. UNCHANGED <<mix, clock, access, iat, store, redis, spent, lastRevoked>>
    BY DEF CleanupCommit
  <1>6. MovesOn
    BY <1>1 DEF IInv, TypeOK, MovesOn
  <1> QED BY <1>1, <1>2, <1>3, <1>4, <1>5, <1>6, WriteOK

-----------------------------------------------------------------------------
(* Tokens and revocations *)

\* A token is put on the list in use; others may be issued.
LEMMA BlacklistOK ==
  ASSUME IInv, NEW i \in Tokens, Issued(i), BlacklistToken(i), UNCHANGED <<clock, redis>>,
         \A j \in Tokens : iat'[j] = iat[j] \/ (~Issued(j) /\ iat'[j] \in Nat)
  PROVE  /\ \A j \in Tokens : SpentOK(j)'
         /\ spent' \in [Tokens -> SUBSET {"redis", "memory"}]
         /\ blacklist' \in [Tokens -> Int] /\ memory' \subseteq Tokens
  <1>1. /\ clock \in Nat /\ RefreshLife \in Nat /\ iat \in [Tokens -> Int]
        /\ blacklist \in [Tokens -> Int] /\ memory \subseteq Tokens
        /\ spent \in [Tokens -> SUBSET {"redis", "memory"}]
    BY LivesAssumption DEF IInv, TypeOK
  <1>2. /\ iat'[i] = iat[i] /\ iat[i] \in Nat /\ SpentOK(i)
    BY DEF IInv, SpentOK, Issued
  <1>3. Expiry(i) \in Int /\ Expiry(i)' = Expiry(i)
    BY <1>1, <1>2 DEF Expiry
  <1> DEFINE ttl == Ttl(i)
  <1>4. /\ ttl \in Int /\ clock + 2 * ttl >= 2 * Expiry(i) - 1
        /\ ttl <= 0 => clock >= 2 * Expiry(i) - 1
    BY <1>1, <1>3 DEF Ttl
  <1>5. /\ spent' = [spent EXCEPT ![i] = @ \cup {Used}]
        /\ blacklist' = IF redis /\ ttl > 0 THEN [blacklist EXCEPT ![i] = clock + 2 * ttl]
                                            ELSE blacklist
        /\ memory' = IF ~redis /\ ttl > 0 THEN memory \cup {i} ELSE memory
    BY DEF BlacklistToken
  <1> HIDE DEF ttl
  <1>6. Used \in {"redis", "memory"}
    BY DEF Used
  <1>7. /\ spent' \in [Tokens -> SUBSET {"redis", "memory"}]
        /\ spent'[i] = spent[i] \cup {Used}
        /\ \A j \in Tokens : j # i => spent'[j] = spent[j]
    BY <1>1, <1>5, <1>6
  <1>8. blacklist' \in [Tokens -> Int] /\ memory' \subseteq Tokens
    BY <1>1, <1>4, <1>5
  <1>9. \A j \in Tokens : SpentOK(j)'
    <2> TAKE j \in Tokens
    <2>1. CASE j = i
      <3>1. Issued(i)' /\ iat'[i] \in Nat
        BY <1>2 DEF Issued
      <3>2. CASE redis
        <4>1. Used = "redis"
          BY <3>2 DEF Used
        <4>2. NearlyOver(i)' \/ blacklist'[i] >= 2 * Expiry(i)' - 1
          BY <1>1, <1>3, <1>4, <1>5, <3>2 DEF NearlyOver
        <4>3. memory' = memory /\ ("memory" \in spent'[i] => "memory" \in spent[i])
          BY <1>5, <1>7, <3>2, <4>1
        <4>4. "memory" \in spent'[i] => NearlyOver(i)' \/ i \in memory'
          BY <1>2, <1>3, <4>3 DEF SpentOK, NearlyOver
        <4> QED BY <2>1, <3>1, <4>2, <4>4 DEF SpentOK
      <3>3. CASE ~redis
        <4>1. Used = "memory"
          BY <3>3 DEF Used
        <4>2. NearlyOver(i)' \/ i \in memory'
          BY <1>1, <1>3, <1>4, <1>5, <3>3 DEF NearlyOver
        <4>3. blacklist' = blacklist /\ ("redis" \in spent'[i] => "redis" \in spent[i])
          BY <1>5, <1>7, <3>3, <4>1
        <4>4. "redis" \in spent'[i] => NearlyOver(i)' \/ blacklist'[i] >= 2 * Expiry(i)' - 1
          BY <1>2, <1>3, <4>3 DEF SpentOK, NearlyOver
        <4> QED BY <2>1, <3>1, <4>2, <4>4 DEF SpentOK
      <3> QED BY <3>2, <3>3
    <2>2. CASE j # i
      <3>1. SpentOK(j) /\ spent'[j] = spent[j] /\ blacklist'[j] = blacklist[j]
        BY <1>1, <1>5, <1>7, <2>2 DEF IInv
      <3>2. j \in memory => j \in memory'
        BY <1>5
      <3>3. CASE iat'[j] = iat[j]
        BY <3>1, <3>2, <3>3 DEF SpentOK, Issued, NearlyOver, Expiry
      <3>4. CASE ~Issued(j) /\ iat'[j] \in Nat
        BY <3>1, <3>4 DEF SpentOK, Issued
      <3> QED BY <3>3, <3>4
    <2> QED BY <2>1, <2>2
  <1> QED BY <1>7, <1>8, <1>9

\* New tokens keep the others as they are.
LEMMA NewTokens ==
  ASSUME IInv, NEW i \in Tokens, IssueTokens(i)
  PROVE  /\ iat' \in [Tokens -> Int] /\ access' = Second(clock) + AccessLife
         /\ \A j \in Tokens : iat'[j] = iat[j] \/ (~Issued(j) /\ iat'[j] \in Nat)
  <1>1. clock \in Nat /\ iat \in [Tokens -> Int] /\ Second(clock) \in Nat
    BY DEF IInv, TypeOK, Second
  <1> QED BY <1>1 DEF IssueTokens, Issued

\* A request issues tokens to an account that was active when it arrived.
LEMMA IssueStep ==
  ASSUME IInv, NEW r \in Requests, MayIssue(req[r]), req[r].pc # "idle", Ends(r),
         NEW i \in Tokens, IssueTokens(i),
         \A j \in Tokens : SpentOK(j)',
         spent' \in [Tokens -> SUBSET {"redis", "memory"}],
         blacklist' \in [Tokens -> Int], memory' \subseteq Tokens,
         UNCHANGED <<mix, clock, row, revoked, redis, doomed, lastRevoked, inactive>>
  PROVE  IInv'
  <1>1. /\ iat' \in [Tokens -> Int] /\ access' = Second(clock) + AccessLife
        /\ \A j \in Tokens : iat'[j] = iat[j] \/ (~Issued(j) /\ iat'[j] \in Nat)
    BY NewTokens
  <1>2. /\ clock \in Nat /\ Slack \in Nat /\ AccessLife \in Nat /\ inactive \in Int
        /\ req[r] \in Request /\ RequestOK(req[r]) /\ req[r].since \in Int
    BY LivesAssumption DEF IInv, TypeOK, Request, Time
  <1>3. MovesOn
    BY Over DEF IInv
  <1>4. TypeOK'
    <2>1. access' \in Int
      BY <1>1, <1>2 DEF Second
    <2> QED BY <1>1, <1>3, <2>1 DEF IInv, TypeOK, MovesOn
  <1>5. AccessRunsOut'
    BY <1>1, <1>2 DEF RequestOK, AccessRunsOut, Second
  <1>6. (LockedAtThreshold /\ AccessOK /\ RevocationOK)'
    BY <1>1, <1>2 DEF IInv, LockedAtThreshold, AccessOK, RevocationOK, Second
  <1>7. \A s \in Requests : RequestOK(req[s])'
    <2>1. ASSUME NEW s \in Requests, req'[s] = req[s]
          PROVE  RequestOK(req[s])'
      <3>1. RequestOK(req[s])
        BY DEF IInv
      <3>2. \A j \in Tokens : Issued(j) => Issued(j)'
        BY <1>1 DEF Issued
      <3> QED BY <2>1, <3>1, <3>2 DEF RequestOK, MayIssue
    <2> QED BY <1>3, <2>1 DEF MovesOn
  <1>8. (doomed => row.status # "none")'
    BY DEF IInv
  <1> QED BY <1>4, <1>5, <1>6, <1>7, <1>8 DEF IInv

LEMMA IssueOK ==
  ASSUME IInv, NEW r \in Requests, Issue(r)
  PROVE  IInv'
  <1>1. PICK i \in Tokens : IssueTokens(i)
    BY DEF Issue
  <1>2. /\ MayIssue(req[r]) /\ req[r].pc # "idle" /\ Ends(r)
        /\ UNCHANGED <<mix, clock, row, store, redis, doomed, history>>
    BY DEF Issue, MayIssue
  <1>3. \A j \in Tokens : iat'[j] = iat[j] \/ (~Issued(j) /\ iat'[j] \in Nat)
    BY <1>1, NewTokens
  <1>4. \A j \in Tokens : SpentOK(j)'
    BY <1>2, <1>3 DEF IInv, SpentOK, NearlyOver, Expiry, Issued, store, history
  <1>5. /\ spent' \in [Tokens -> SUBSET {"redis", "memory"}]
        /\ blacklist' \in [Tokens -> Int] /\ memory' \subseteq Tokens
    BY <1>2 DEF IInv, TypeOK, store, history
  <1>6. UNCHANGED <<mix, clock, row, revoked, redis, doomed, lastRevoked, inactive>>
    BY <1>2 DEF store, history
  <1> QED BY <1>1, <1>2, <1>4, <1>5, <1>6, IssueStep

LEMMA RefreshOK ==
  ASSUME IInv, NEW r \in Requests, Refresh(r)
  PROVE  IInv'
  <1> DEFINE t == req[r].token
  <1>1. PICK i \in Tokens : IssueTokens(i)
    BY DEF Refresh
  <1>2. /\ Acts(r, "refresh") /\ BlacklistToken(t) /\ Ends(r)
        /\ UNCHANGED <<mix, clock, row, revoked, redis, doomed, lastRevoked, inactive>>
    BY DEF Refresh
  <1>3. /\ MayIssue(req[r]) /\ req[r].pc # "idle"
        /\ t \in Tokens /\ Issued(t)
    BY <1>2, ActsFacts DEF MayIssue, RequestOK
  <1> HIDE DEF t
  <1>4. \A j \in Tokens : iat'[j] = iat[j] \/ (~Issued(j) /\ iat'[j] \in Nat)
    BY <1>1, NewTokens
  <1>5. /\ \A j \in Tokens : SpentOK(j)'
        /\ spent' \in [Tokens -> SUBSET {"redis", "memory"}]
        /\ blacklist' \in [Tokens -> Int] /\ memory' \subseteq Tokens
    BY <1>2, <1>3, <1>4, BlacklistOK
  <1> QED BY <1>1, <1>2, <1>3, <1>5, IssueStep

\* The tokens of the user are revoked, or nothing happens, and a request moves on.
LEMMA RevokeStep ==
  ASSUME IInv, MovesOn, RevokeAll \/ UNCHANGED <<revoked, lastRevoked>>,
         UNCHANGED <<mix, clock, row, access, iat, blacklist, memory, redis, doomed, spent, inactive>>
  PROVE  IInv'
  <1>1. clock \in Nat /\ RefreshLife \in Nat
    BY LivesAssumption DEF IInv, TypeOK
  <1>2. RevocationOK' /\ revoked' \in [at : Int, until : Int] /\ lastRevoked' \in Int
    <2>1. CASE UNCHANGED <<revoked, lastRevoked>>
      BY <2>1 DEF IInv, TypeOK, RevocationOK
    <2>2. CASE RevokeAll /\ ~redis
      BY <2>2 DEF IInv, TypeOK, RevocationOK, RevokeAll
    <2>3. CASE RevokeAll /\ redis
      <3>1. /\ Second(clock) \in Nat /\ clock + RevocationLife \in Int
            /\ clock + RevocationLife >= 2 * Second(clock) + 2 * RefreshLife
        BY <1>1 DEF Second, RevocationLife
      <3> QED BY <2>3, <3>1 DEF RevokeAll, RevocationOK
    <2> QED BY <2>1, <2>2, <2>3
  <1>3. TypeOK'
    BY <1>2 DEF IInv, TypeOK, MovesOn
  <1>4. \A s \in Requests : RequestOK(req[s])'
    BY DEF IInv, MovesOn, RequestOK, MayIssue, Issued
  <1>5. \A j \in Tokens : SpentOK(j)'
    BY DEF IInv, SpentOK, NearlyOver, Issued, Expiry
  <1>6. (LockedAtThreshold /\ AccessRunsOut /\ AccessOK)'
    BY DEF IInv, LockedAtThreshold, AccessRunsOut, AccessOK, Second
  <1>7. (doomed => row.status # "none")'
    BY DEF IInv
  <1> QED BY <1>2, <1>3, <1>4, <1>5, <1>6, <1>7 DEF IInv

LEMMA RevokeOK ==
  ASSUME IInv, NEW r \in Requests, Revoke(r)
  PROVE  IInv'
  BY Over, RevokeStep DEF IInv, Revoke

LEMMA SetStatusOK ==
  ASSUME IInv, NEW r \in Requests, SetStatus(r)
  PROVE  IInv'
  <1> DEFINE y == [req[r] EXCEPT !.pc = "commit"]
  <1>1. /\ req[r] \in Request /\ RequestOK(req[r]) /\ req[r].pc = "act" /\ row.status # "none"
    BY ActsFacts DEF SetStatus
  <1>2. /\ y \in Request
        /\ y.pc = "commit" /\ y.since = req[r].since /\ y.seen = req[r].seen
    BY <1>1 DEF Request
  <1>3. /\ req' = [req EXCEPT ![r] = y]
        /\ RevokeAll \/ UNCHANGED <<revoked, lastRevoked>>
        /\ UNCHANGED <<mix, clock, row, access, iat, blacklist, memory, redis, doomed, spent, inactive>>
    BY DEF SetStatus, Goes
  <1> HIDE DEF y
  <1>4. req'[r] = y /\ \A s \in Requests : s # r => req'[s] = req[s]
    BY <1>3 DEF IInv, TypeOK
  <1>5. RequestOK(req[r])'
    <2>1. req'[r].pc = "commit" /\ req'[r].since = req[r].since /\ req'[r].seen = req[r].seen
      BY <1>2, <1>4
    <2> QED BY <1>1, <1>3, <2>1 DEF RequestOK, MayIssue
  <1>6. req' \in [Requests -> Request]
    BY <1>2, <1>3 DEF IInv, TypeOK
  <1>7. MovesOn
    BY <1>4, <1>5, <1>6 DEF MovesOn
  <1> QED BY <1>3, <1>7, RevokeStep

LEMMA LogoutOK ==
  ASSUME IInv, NEW i \in Tokens, Logout(i)
  PROVE  IInv'
  <1>1. /\ Issued(i) /\ BlacklistToken(i)
        /\ UNCHANGED <<mix, clock, row, access, iat, revoked, redis, doomed, req, lastRevoked, inactive>>
    BY DEF Logout, Valid
  <1>2. /\ \A j \in Tokens : SpentOK(j)'
        /\ spent' \in [Tokens -> SUBSET {"redis", "memory"}]
        /\ blacklist' \in [Tokens -> Int] /\ memory' \subseteq Tokens
    BY <1>1, BlacklistOK
  <1>3. TypeOK'
    BY <1>1, <1>2 DEF IInv, TypeOK
  <1>4. \A s \in Requests : RequestOK(req[s])'
    BY <1>1 DEF IInv, RequestOK, MayIssue, Issued
  <1>5. (LockedAtThreshold /\ AccessRunsOut /\ AccessOK /\ RevocationOK)'
    BY <1>1 DEF IInv, LockedAtThreshold, AccessRunsOut, AccessOK, RevocationOK, Second
  <1>6. (doomed => row.status # "none")'
    BY <1>1 DEF IInv
  <1> QED BY <1>2, <1>3, <1>4, <1>5, <1>6 DEF IInv

LEMMA SecondGrows ==
  ASSUME NEW t \in Nat, NEW u \in Nat, t <= u
  PROVE  Second(t) \in Nat /\ Second(u) \in Nat /\ Second(t) <= Second(u)
  BY DEF Second

\* The job selects the user, Redis goes away or comes back, time passes.
LEMMA EnvironmentOK ==
  ASSUME IInv, CleanupSelect \/ RedisChanges \/ Tick
  PROVE  IInv'
  <1>1. /\ clock \in Nat /\ Slack \in Nat /\ AccessLife \in Nat /\ RefreshLife \in Nat
        /\ inactive \in Int /\ access \in Int
    BY LivesAssumption DEF IInv, TypeOK
  <1>2. /\ clock' \in Nat /\ clock' >= clock
        /\ UNCHANGED <<mix, row, access, iat, blacklist, memory, revoked, req, spent, lastRevoked, inactive>>
    BY <1>1 DEF CleanupSelect, RedisChanges, Tick, store, history
  <1>3. redis' \in BOOLEAN /\ doomed' \in BOOLEAN
    BY DEF IInv, TypeOK, CleanupSelect, RedisChanges, Tick
  <1>4. TypeOK'
    BY <1>2, <1>3 DEF IInv, TypeOK
  <1>5. \A s \in Requests : RequestOK(req[s])'
    <2> TAKE s \in Requests
    <2>1. RequestOK(req[s]) /\ req[s].since \in Int
      BY DEF IInv, TypeOK, Request, Time
    <2>2. req[s].pc # "idle" => clock' <= req[s].since + Slack
      BY <1>1, <2>1 DEF CleanupSelect, RedisChanges, Tick, RequestOK
    <2> QED BY <1>1, <1>2, <2>1, <2>2 DEF RequestOK, MayIssue, Issued
  <1>6. \A j \in Tokens : SpentOK(j)'
    <2> TAKE j \in Tokens
    <2>1. SpentOK(j)
      BY DEF IInv
    <2>2. spent[j] # {} => iat[j] \in Nat
      BY <2>1 DEF SpentOK, Issued
    <2>3. spent[j] # {} /\ NearlyOver(j) => NearlyOver(j)'
      BY <1>1, <1>2, <2>2 DEF NearlyOver, Expiry
    <2> QED BY <1>2, <2>1, <2>3 DEF SpentOK, Issued, Expiry
  <1>7. (LockedAtThreshold /\ AccessRunsOut /\ AccessOK /\ RevocationOK)'
    <2>1. Second(clock) <= Second(clock)' /\ Second(clock) \in Nat /\ Second(clock)' \in Nat
      <3>1. Second(clock)' = Second(clock')
        BY DEF Second
      <3> QED BY <1>1, <1>2, <3>1, SecondGrows
    <2>2. AccessOK'
      BY <1>1, <1>2, <2>1 DEF IInv, AccessOK
    <2>3. (LockedAtThreshold /\ AccessRunsOut)'
      BY <1>2 DEF IInv, LockedAtThreshold, AccessRunsOut, Second
    <2>4. RevocationOK'
      BY <1>2 DEF IInv, RevocationOK
    <2> QED BY <2>2, <2>3, <2>4
  <1>8. (doomed => row.status # "none")'
    BY <1>2 DEF IInv, CleanupSelect, RedisChanges, Tick, Due
  <1> QED BY <1>4, <1>5, <1>6, <1>7, <1>8 DEF IInv

-----------------------------------------------------------------------------
(* The theorems *)

LEMMA StepOK == IInv /\ [Next]_vars => IInv'
  <1> SUFFICES ASSUME IInv, [Next]_vars PROVE IInv'
    OBVIOUS
  <1>1. ASSUME NEW r \in Requests, Arrive(r) PROVE IInv'
    BY <1>1, ArriveOK
  <1>2. ASSUME NEW r \in Requests, Handle(r) PROVE IInv'
    BY <1>2, ReadOK, RefusedOK, RegisterOK, WrongPasswordOK, LoginOK, IssueOK, RefreshOK,
       ChangePasswordOK, RequestDeletionOK, RevokeOK, CancelDeletionOK, SetStatusOK,
       CommitStatusOK DEF Handle
  <1>3. ASSUME NEW j \in Tokens, Logout(j) PROVE IInv'
    BY <1>3, LogoutOK
  <1>4. CASE CleanupCommit
    BY <1>4, CleanupCommitOK
  <1>5. CASE CleanupSelect \/ RedisChanges \/ Tick
    BY <1>5, EnvironmentOK
  <1>6. CASE UNCHANGED vars
    <2>1. UNCHANGED <<mix, clock, row, access, iat, blacklist, memory, revoked, redis, doomed, req,
                      spent, lastRevoked, inactive>>
      BY <1>6 DEF vars, store, history
    <2>2. MovesOn
      BY <2>1 DEF IInv, TypeOK, MovesOn
    <2> QED BY <2>1, <2>2, RevokeStep
  <1> QED BY <1>1, <1>2, <1>3, <1>4, <1>5, <1>6 DEF Next

\* The invariant above holds in every behaviour.
THEOREM Inductive == Spec => []IInv
  BY InitOK, StepOK, PTL DEF Spec

\* Rows, keys, tokens and requests keep their types in every interleaving.
THEOREM TypeCorrect == Spec => []TypeOK
  <1>1. IInv => TypeOK
    BY DEF IInv
  <1> QED BY <1>1, Inductive, PTL

\* The lockout has its time for any threshold and any number of overlapping
\* logins (_record_failed_login, _clear_failed_logins).
THEOREM AlwaysLockedAtThreshold == Spec => []LockedAtThreshold
  <1>1. IInv => LockedAtThreshold
    BY DEF IInv
  <1> QED BY <1>1, Inductive, PTL

\* Nobody keeps access longer than the life of an access token and of a request,
\* whatever logins and refreshes overlap with the end of the account.
THEOREM AccessAlwaysRunsOut == Spec => []AccessRunsOut
  <1>1. IInv => AccessRunsOut
    BY DEF IInv
  <1> QED BY <1>1, Inductive, PTL

\* Only an arriving refresh starts one, and it has looked at its token.
LEMMA StartIsArrival ==
  ASSUME IInv, [Next]_vars, NEW r \in Requests, StartsRefresh(r)
  PROVE  \E j \in Tokens : /\ Valid(j) /\ ~IsBlacklisted(j) /\ ~IsRevoked(j)
                           /\ req'[r].token = j
  <1>1. req \in [Requests -> Request] /\ NoRequest \in Request
    BY NoRequestOK DEF IInv, TypeOK
  <1>2. req'[r] # req[r]
    BY DEF StartsRefresh
  <1>3. ASSUME NEW s \in Requests, Arrive(s)
        PROVE  \E j \in Tokens : /\ Valid(j) /\ ~IsBlacklisted(j) /\ ~IsRevoked(j)
                                 /\ req'[r].token = j
    <2>1. ASSUME NEW x \in Request, Begin(s, x)
          PROVE  req'[r] = x
      BY <1>1, <1>2, <2>1 DEF Begin
    <2>2. ASSUME NEW op \in AllOperations, NEW to, Begin(s, Reading(op, to))
          PROVE  FALSE
      <3>1. Reading(op, to).pc = "act"
        BY <1>1 DEF Reading, Request
      <3>2. req'[r] = Reading(op, to)
        BY <1>1, <1>2, <2>2 DEF Begin
      <3> QED BY <3>1, <3>2 DEF StartsRefresh
    <2>3. ASSUME NEW op \in AllOperations, NEW j \in Tokens \cup {0}, Begin(s, Checked(op, j))
          PROVE  op = "refresh" /\ req'[r].token = j
      <3>1. Checked(op, j).op = op /\ Checked(op, j).token = j
        BY <1>1 DEF Checked, Request
      <3>2. req'[r] = Checked(op, j)
        BY <1>1, <1>2, <2>3 DEF Begin
      <3> QED BY <3>1, <3>2 DEF StartsRefresh
    <2>4. {"register", "login", "wrong", "status", "refresh"} \cup UserOperations \subseteq AllOperations
      BY DEF AllOperations
    <2>5. CASE ArriveRegister(s) \/ ArriveLogin(s) \/ ArriveWrong(s)
      BY <2>2, <2>4, <2>5 DEF ArriveRegister, ArriveLogin, ArriveWrong
    <2>6. CASE \E to \in AdminStatuses : ArriveStatus(s, to)
      BY <2>2, <2>4, <2>6 DEF ArriveStatus
    <2>7. CASE \E op \in UserOperations : ArriveUser(s, op)
      <3>1. "refresh" \notin UserOperations
        BY DEF UserOperations
      <3> QED BY <2>3, <2>4, <2>7, <3>1 DEF ArriveUser
    <2>8. CASE \E j \in Tokens : ArriveRefresh(s, j)
      BY <2>3, <2>4, <2>8 DEF ArriveRefresh
    <2> QED BY <1>3, <2>5, <2>6, <2>7, <2>8 DEF Arrive
  <1>4. ASSUME NEW s \in Requests, Handle(s)
        PROVE  FALSE
    <2>1. ~Read(s) /\ ~Refused(s) /\ ~WrongPassword(s) /\ ~Issue(s) /\ ~Refresh(s) /\ ~Revoke(s)
          /\ ~CancelDeletion(s) /\ ~CommitStatus(s)
      <3>1. ASSUME NEW x, req' = [req EXCEPT ![s] = x], s = r => x.pc # "read"
              PROVE  FALSE
        <4>1. s = r /\ req'[r] = x
          BY <1>1, <1>2, <3>1
        <4> QED BY <3>1, <4>1 DEF StartsRefresh
      <3>2. ~Read(s)
        <4>1. SUFFICES ASSUME Read(s) PROVE FALSE
          OBVIOUS
        <4>2. req'[r].pc = "act" \/ req'[r] = req[r]
          BY <1>1, <4>1 DEF Read, Request
        <4> QED BY <1>2, <4>2 DEF StartsRefresh
      <3>3. NoRequest.pc # "read"
        BY DEF NoRequest
      <3>4. ~Ends(s)
        BY <3>1, <3>3 DEF Ends
      <3> QED BY <3>2, <3>4 DEF Refused, WrongPassword, Issue, Refresh, Revoke, CancelDeletion,
                               CommitStatus
    <2>2. ASSUME NEW pc \in {"issue", "revoke", "commit"} PROVE ~Goes(s, pc)
      <3>1. SUFFICES ASSUME Goes(s, pc) PROVE FALSE
        OBVIOUS
      <3>2. req'[r].pc = pc \/ req'[r] = req[r]
        BY <1>1, <3>1 DEF Goes, Request
      <3> QED BY <1>2, <3>2 DEF StartsRefresh
    <2> QED BY <1>4, <2>1, <2>2 DEF Handle, Register, Login, ChangePassword, RequestDeletion, SetStatus
  <1>5. req' # req
    BY <1>2
  <1> QED BY <1>3, <1>4, <1>5 DEF Next, Logout, CleanupSelect, CleanupCommit, RedisChanges, Tick, vars

\* A spent token is refused until its last half second, for any lives of tokens.
THEOREM SpentAlwaysRefused == Spec => SpentTokensAreRefused
  <1>1. ASSUME IInv, [Next]_vars, NEW r \in Requests, StartsRefresh(r)
        PROVE  LET j == req'[r].token
               IN Used \in spent[j] => clock >= 2 * Expiry(j) - 1
    <2>1. PICK j \in Tokens : /\ Valid(j) /\ ~IsBlacklisted(j) /\ ~IsRevoked(j)
                              /\ req'[r].token = j
      BY <1>1, StartIsArrival
    <2>2. SpentOK(j) /\ clock \in Nat /\ RefreshLife \in Nat /\ blacklist[j] \in Int
      BY <1>1, LivesAssumption DEF IInv, TypeOK
    <2>3. Expiry(j) \in Int
      BY <2>1, <2>2 DEF Valid, Issued, SpentOK, Expiry
    <2>4. Used \in spent[j] => clock >= 2 * Expiry(j) - 1
      BY <2>1, <2>2, <2>3 DEF Used, IsBlacklisted, SpentOK, NearlyOver
    <2> QED BY <2>1, <2>4
  <1>2. IInv /\ [Next]_vars =>
          [\A r \in Requests : StartsRefresh(r) =>
             LET j == req'[r].token
             IN Used \in spent[j] => clock >= 2 * Expiry(j) - 1]_vars
    BY <1>1
  <1> QED BY <1>2, Inductive, PTL DEF Spec, SpentTokensAreRefused

\* A revocation that Redis stored outlives the tokens from before it.
THEOREM RevokedAlwaysRefused == Spec => RevokedTokensAreRefused
  <1>1. ASSUME IInv, [Next]_vars, NEW r \in Requests, StartsRefresh(r), redis
        PROVE  iat[req'[r].token] >= lastRevoked
    <2>1. PICK j \in Tokens : /\ Valid(j) /\ ~IsBlacklisted(j) /\ ~IsRevoked(j)
                              /\ req'[r].token = j
      BY <1>1, StartIsArrival
    <2>2. /\ RevocationOK /\ SpentOK(j) /\ clock \in Nat /\ RefreshLife \in Nat
          /\ revoked.until \in Int
      BY <1>1, LivesAssumption DEF IInv, TypeOK
    <2>3. iat[j] \in Nat /\ Second(clock) <= iat[j] + RefreshLife
      BY <2>1, <2>2 DEF Valid, Issued, SpentOK, Expiry
    <2>4. CASE lastRevoked = Never
      BY <2>1, <2>3, <2>4 DEF Never
    <2>5. CASE lastRevoked # Never
      <3>1. /\ lastRevoked \in Nat /\ revoked.at = lastRevoked
            /\ revoked.until >= 2 * lastRevoked + 2 * RefreshLife
        BY <2>2, <2>5 DEF RevocationOK
      <3>2. clock < revoked.until => ~(iat[j] < lastRevoked)
        BY <1>1, <2>1, <3>1 DEF IsRevoked
      <3> QED BY <2>1, <2>2, <2>3, <3>1, <3>2 DEF Second
    <2> QED BY <2>4, <2>5
  <1>2. IInv /\ [Next]_vars =>
          [\A r \in Requests : StartsRefresh(r) /\ redis => iat[req'[r].token] >= lastRevoked]_vars
    BY <1>1
  <1> QED BY <1>2, Inductive, PTL DEF Spec, RevokedTokensAreRefused
=============================================================================
