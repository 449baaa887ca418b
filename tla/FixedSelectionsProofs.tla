------------------------- MODULE FixedSelectionsProofs -------------------------
(***************************************************************************)
(* FixedSelections implements ExclusiveClaims, for any users, teams,       *)
(* batches and number of concurrent requests.                              *)
(*                                                                         *)
(* The promise is not inductive by itself: that a batch can be granted at  *)
(* the commit rests on what the handler found several statements earlier.  *)
(* RequestOK carries those findings: the rows a request inserted are rows  *)
(* nobody else owns (the unique constraint), and the count it took is      *)
(* still that of its user (the participant row lock).                      *)
(***************************************************************************)
EXTENDS FixedSelections, FiniteSetTheorems, TLAPS

Claimed(x) == Asked(x).teams

Within(x) ==
    MaxTeams = 0 \/ Cardinality(TeamsOf(x.user)) + Cardinality(Claimed(x)) <= MaxTeams

\* What a request has established at each point of the handler.
RequestOK(x) ==
    /\ x.pc \in {"idle", "waiting", "count"} => x.inserted = {}
    /\ (x.pc = "insert") = (x.team # NoTeam)
    /\ x.pc = "commit" => x.todo = {}
    /\ \A t \in x.inserted : owner[t] = Nobody
    /\ x.pc \in {"check", "insert", "commit"} => Within(x)

\* Requests that hold a participant row are of different users.
HoldersDiffer ==
    \A q, r \in Requests : q # r /\ Holds(q) /\ Holds(r) => req[q].user # req[r].user

IInv ==
    /\ TypeOK
    /\ InsertsExclusive
    /\ HoldersDiffer
    /\ \A r \in Requests : RequestOK(req[r])

-----------------------------------------------------------------------------
\* The empty slot is a request, and has established what it needs to.
LEMMA NoRequestOK ==
    /\ NoRequest \in Request /\ RequestOK(NoRequest)
    /\ NoRequest.pc = "idle" /\ NoRequest.inserted = {}
BY UsersAssumption, TeamsAssumption DEF NoRequest, Request, RequestOK

LEMMA InitOK == Init => IInv
<1> SUFFICES ASSUME Init PROVE IInv
  OBVIOUS
<1>1. \A r \in Requests : req[r] = NoRequest
  BY DEF Init
<1>2. TypeOK
  <2>1. 0 \in 0..MaxTime
    BY NumbersAssumption
  <2>2. QED
    BY <1>1, <2>1, NoRequestOK DEF Init, TypeOK
<1>3. InsertsExclusive /\ HoldersDiffer
  BY <1>1, NoRequestOK DEF InsertsExclusive, HoldersDiffer, Holds
<1>4. QED
  BY <1>1, <1>2, <1>3, NoRequestOK DEF IInv

\* Sets of teams are finite, so that their cardinalities are numbers.
LEMMA TeamSetsFinite ==
    ASSUME NEW T \in SUBSET Teams
    PROVE  IsFiniteSet(T) /\ Cardinality(T) \in Nat
BY FS_Subset, FS_CardinalityType, TeamsAssumption

-----------------------------------------------------------------------------
\* A handler step that changes one request and no row keeps the invariant,
\* when that request establishes what its new place in the handler needs.
LEMMA StepOfRequest ==
    ASSUME IInv, NEW r \in Requests, NEW x \in Request, Goes(r, x),
           RequestOK(x),
           x.pc = "idle" => x.inserted = {},
           \A q \in Requests \ {r} : req[q].inserted \cap x.inserted = {},
           x.pc \in {"count", "check", "insert", "commit"} =>
             \A q \in Requests \ {r} : Holds(q) => req[q].user # x.user
    PROVE  IInv'
<1>1. /\ req' = [req EXCEPT ![r] = x]
      /\ clock' = clock /\ owner' = owner /\ locked' = locked
      /\ start' = start /\ status' = status /\ job' = job
  BY DEF Goes
<1>2. req \in [Requests -> Request]
  BY DEF IInv, TypeOK
<1>3. \A q \in Requests : req'[q] = IF q = r THEN x ELSE req[q]
  BY <1>1, <1>2
<1>4. TypeOK'
  BY <1>1, <1>2, <1>3 DEF IInv, TypeOK
<1>5. InsertsExclusive'
  BY <1>3 DEF IInv, InsertsExclusive
<1>6. HoldersDiffer'
  BY <1>3 DEF IInv, HoldersDiffer, Holds
<1>7. ASSUME NEW q \in Requests PROVE RequestOK(req[q])'
  <2>1. CASE q = r
    <3>1. req'[q] = x /\ owner' = owner
      BY <1>1, <1>3, <2>1
    <3>2. QED
      BY <3>1 DEF RequestOK, Within, TeamsOf, Claimed, Asked
  <2>2. CASE q # r
    <3>1. req'[q] = req[q] /\ owner' = owner /\ RequestOK(req[q])
      BY <1>1, <1>3, <2>2 DEF IInv
    <3>2. QED
      BY <3>1 DEF RequestOK, Within, TeamsOf, Claimed, Asked
  <2>3. QED
    BY <2>1, <2>2
<1>8. QED
  BY <1>4, <1>5, <1>6, <1>7 DEF IInv

\* A failed request gives everything up.
LEMMA FailureOK ==
    ASSUME IInv, NEW r \in Requests, Goes(r, NoRequest)
    PROVE  IInv'
BY StepOfRequest, NoRequestOK DEF NoRequest

LEMMA SubmitOK ==
    ASSUME IInv, NEW r \in Requests, NEW u \in Users, NEW b \in Batches, Submit(r, u, b)
    PROVE  IInv'
<1> DEFINE x == [NoRequest EXCEPT !.pc = "waiting", !.user = u, !.todo = b]
<1>1. x \in Request /\ x.pc = "waiting" /\ x.inserted = {} /\ x.team = NoTeam
  BY NoRequestOK, TeamsAssumption DEF NoRequest, Request
<1>2. RequestOK(x)
  BY <1>1 DEF RequestOK
<1>3. Goes(r, x)
  BY DEF Submit
<1> HIDE DEF x
<1>4. QED
  BY <1>1, <1>2, <1>3, StepOfRequest

LEMMA LockParticipantOK ==
    ASSUME IInv, NEW r \in Requests, LockParticipant(r)
    PROVE  IInv'
<1> DEFINE x == [req[r] EXCEPT !.pc = "count"]
<1>1. req[r] \in Request /\ RequestOK(req[r]) /\ req[r].pc = "waiting"
  BY DEF IInv, TypeOK, LockParticipant
<1>2. x \in Request /\ x.pc = "count" /\ x.inserted = {} /\ x.team = NoTeam
      /\ x.user = req[r].user
  BY <1>1 DEF Request, RequestOK
<1>3. RequestOK(x)
  BY <1>2 DEF RequestOK
<1>4. \A q \in Requests \ {r} : Holds(q) => req[q].user # x.user
  BY <1>2 DEF LockParticipant, Free
<1>5. Goes(r, x)
  BY DEF LockParticipant
<1> HIDE DEF x
<1>6. QED
  BY <1>2, <1>3, <1>4, <1>5, StepOfRequest

\* A request that goes on with its next item keeps what it holds and claims.
LEMMA ContinuedOK ==
    ASSUME NEW x \in Request, x.pc # "idle", x.team = NoTeam, Within(x),
           \A t \in x.inserted : owner[t] = Nobody
    PROVE  /\ Continued(x) \in Request
           /\ Continued(x).pc \in {"check", "commit"}
           /\ Continued(x).user = x.user
           /\ Continued(x).inserted = x.inserted
           /\ RequestOK(Continued(x))
<1> DEFINE y == Continued(x)
<1>1. /\ y \in Request /\ y.pc \in {"check", "commit"} /\ y.user = x.user
      /\ y.inserted = x.inserted /\ y.todo = x.todo /\ y.team = NoTeam
      /\ y.pc = "commit" => y.todo = {}
  BY DEF Continued, Request
<1> HIDE DEF y
<1>2. Claimed(y) = Claimed(x)
  BY <1>1 DEF Claimed, Asked
<1>3. Within(y)
  BY <1>1, <1>2 DEF Within
<1>4. RequestOK(y)
  BY <1>1, <1>3 DEF RequestOK
<1>5. QED
  BY <1>1, <1>4 DEF y

\* What the invariant says of a request that holds its participant row.
LEMMA HolderFacts ==
    ASSUME IInv, NEW r \in Requests
    PROVE  /\ req[r] \in Request
           /\ RequestOK(req[r])
           /\ \A q \in Requests \ {r} : req[q].inserted \cap req[r].inserted = {}
           /\ Holds(r) => \A q \in Requests \ {r} : Holds(q) => req[q].user # req[r].user
BY DEF IInv, TypeOK, InsertsExclusive, HoldersDiffer

LEMMA CountOK ==
    ASSUME IInv, NEW r \in Requests, Count(r)
    PROVE  IInv'
<1> DEFINE x == req[r]
<1>1. x \in Request /\ x.pc = "count" /\ x.inserted = {} /\ x.team = NoTeam /\ Holds(r)
  BY HolderFacts DEF Count, Holds, RequestOK
<1>2. CASE ~WithinLimit(x)
  BY <1>2, FailureOK DEF Count, Failed
<1>3. CASE WithinLimit(x)
  <2>1. Claimed(x) = x.todo
    BY <1>1 DEF Claimed, Asked
  <2>2. Within(x)
    BY <1>3, <2>1 DEF Within, WithinLimit
  <2>3. Goes(r, Continued(x))
    BY <1>3 DEF Count
  <2> HIDE DEF x
  <2>4. /\ Continued(x) \in Request /\ RequestOK(Continued(x))
        /\ Continued(x).user = x.user /\ Continued(x).inserted = {}
        /\ Continued(x).pc # "idle"
    BY <1>1, <2>2, ContinuedOK
  <2>5. \A q \in Requests \ {r} : Holds(q) => req[q].user # x.user
    BY <1>1, HolderFacts DEF x
  <2>6. QED
    BY <2>3, <2>4, <2>5, StepOfRequest
<1>4. QED
  BY <1>2, <1>3

LEMMA CheckOK ==
    ASSUME IInv, NEW r \in Requests, Check(r)
    PROVE  IInv'
<1>1. req[r] \in Request /\ req[r].pc = "check" /\ Holds(r) /\ RequestOK(req[r])
  BY HolderFacts DEF Check, Holds
<1>2. PICK t \in req[r].todo :
        Goes(r, IF Taken(t) THEN Failed(req[r])
                ELSE [req[r] EXCEPT !.pc = "insert", !.team = t, !.todo = @ \ {t}])
  BY DEF Check
<1>3. CASE Taken(t)
  BY <1>2, <1>3, FailureOK DEF Failed
<1>4. CASE ~Taken(t)
  <2> DEFINE x == [req[r] EXCEPT !.pc = "insert", !.team = t, !.todo = @ \ {t}]
  <2>1. t \in Teams /\ t # NoTeam
    BY <1>1, TeamsAssumption DEF Request
  <2>2. /\ x \in Request /\ x.pc = "insert" /\ x.team = t /\ x.user = req[r].user
        /\ x.inserted = req[r].inserted /\ x.todo = req[r].todo \ {t}
    BY <1>1, <2>1 DEF Request
  <2>3. Goes(r, x)
    BY <1>2, <1>4
  <2> HIDE DEF x
  <2>4. Claimed(x) = Claimed(req[r])
    BY <1>1, <2>1, <2>2 DEF Claimed, Asked, RequestOK
  <2>5. RequestOK(x)
    BY <1>1, <2>1, <2>2, <2>4 DEF RequestOK, Within
  <2>6. QED
    BY <1>1, <2>2, <2>3, <2>5, HolderFacts, StepOfRequest
<1>5. QED
  BY <1>3, <1>4

LEMMA InsertOK ==
    ASSUME IInv, NEW r \in Requests, Insert(r)
    PROVE  IInv'
<1> DEFINE t == req[r].team
           x == [req[r] EXCEPT !.team = NoTeam, !.inserted = @ \cup {t}]
<1>1. /\ req[r] \in Request /\ req[r].pc = "insert" /\ Holds(r) /\ RequestOK(req[r])
      /\ Inserting(r, t) = {}
  BY HolderFacts DEF Insert, Holds
<1>2. t \in Teams /\ t # NoTeam
  BY <1>1 DEF Request, RequestOK
<1>3. CASE Taken(t)
  BY <1>3, FailureOK DEF Insert, Refused, Failed
<1>4. CASE ~Taken(t)
  <2>1. /\ x \in Request /\ x.pc = "insert" /\ x.team = NoTeam /\ x.user = req[r].user
        /\ x.inserted = req[r].inserted \cup {t} /\ x.todo = req[r].todo
    BY <1>1, <1>2 DEF Request
  <2>2. Goes(r, Continued(x))
    BY <1>4 DEF Insert
  <2> HIDE DEF x
  <2>3. Claimed(x) = Claimed(req[r])
    BY <1>1, <1>2, <2>1 DEF Claimed, Asked
  <2>4. Within(x) /\ \A s \in x.inserted : owner[s] = Nobody
    BY <1>1, <1>4, <2>1, <2>3 DEF RequestOK, Within, Taken
  <2>5. /\ Continued(x) \in Request /\ RequestOK(Continued(x))
        /\ Continued(x).user = req[r].user /\ Continued(x).pc # "idle"
        /\ Continued(x).inserted = req[r].inserted \cup {t}
    BY <2>1, <2>4, ContinuedOK
  <2>6. \A q \in Requests \ {r} : req[q].inserted \cap (req[r].inserted \cup {t}) = {}
    BY <1>1, HolderFacts DEF Inserting
  <2>7. QED
    BY <1>1, <2>2, <2>5, <2>6, HolderFacts, StepOfRequest
<1>5. QED
  BY <1>3, <1>4

\* A commit makes teams of nobody the teams of its user: whatever another
\* request has found of its rows and of its user's count remains true.
LEMMA CommitOK ==
    ASSUME IInv, NEW r \in Requests, Commit(r)
    PROVE  IInv'
<1> USE DEF Commit
<1>1. /\ req[r] \in Request /\ req[r].pc = "commit" /\ Holds(r) /\ RequestOK(req[r])
      /\ req \in [Requests -> Request] /\ owner \in [Teams -> Users \cup {Nobody}]
  BY HolderFacts DEF Holds, IInv, TypeOK
<1>2. \A q \in Requests : req'[q] = IF q = r THEN NoRequest ELSE req[q]
  BY <1>1
<1>3. \A t \in Teams : owner'[t] = IF t \in req[r].inserted THEN req[r].user ELSE owner[t]
  OBVIOUS
<1>4. /\ owner' \in [Teams -> Users \cup {Nobody}]
      /\ \A t \in Teams : owner[t] # Nobody => owner'[t] # Nobody
  BY <1>1, UsersAssumption DEF Request, RequestOK
<1>5. TypeOK'
  BY <1>1, <1>2, <1>4, NoRequestOK DEF IInv, TypeOK, NoRequest
<1>6. InsertsExclusive'
  BY <1>2 DEF IInv, InsertsExclusive, NoRequest
<1>7. HoldersDiffer'
  BY <1>2 DEF IInv, HoldersDiffer, Holds, NoRequest
<1>8. ASSUME NEW q \in Requests PROVE RequestOK(req[q])'
  <2>1. CASE q = r
    BY <2>1, <1>2, NoRequestOK DEF RequestOK, NoRequest
  <2>2. CASE q # r
    <3>1. req'[q] = req[q] /\ RequestOK(req[q]) /\ req[q] \in Request
      BY <1>2, <2>2, HolderFacts
    <3>2. \A t \in req[q].inserted : owner'[t] = Nobody
      BY <1>3, <2>2, <3>1, HolderFacts DEF RequestOK, Request
    <3>3. Holds(q) => TeamsOf(req[q].user)' = TeamsOf(req[q].user)
      <4>1. SUFFICES ASSUME Holds(q) PROVE TeamsOf(req[q].user)' = TeamsOf(req[q].user)
        OBVIOUS
      <4>2. req[q].user # req[r].user /\ req[q].user # Nobody
        BY <1>1, <2>2, <3>1, <4>1, HolderFacts, UsersAssumption DEF Request
      <4>3. \A t \in Teams : owner'[t] = req[q].user <=> owner[t] = req[q].user
        BY <1>1, <1>3, <4>2 DEF RequestOK
      <4>4. QED
        BY <3>1, <4>3 DEF TeamsOf
    <3>4. Claimed(req[q])' = Claimed(req[q])
      BY <3>1 DEF Claimed, Asked
    <3>5. req[q].pc \in {"check", "insert", "commit"} => Within(req[q])'
      BY <3>1, <3>3, <3>4 DEF RequestOK, Within, Holds
    <3>6. QED
      BY <3>1, <3>2, <3>5 DEF RequestOK
  <2>3. QED
    BY <2>1, <2>2
<1>9. QED
  BY <1>5, <1>6, <1>7, <1>8 DEF IInv

\* The status job, the admins and the clock change neither owners nor requests.
LEMMA OtherStepsOK ==
    ASSUME IInv, UNCHANGED <<owner, req>>,
           \/ JobSelect \/ JobActivate \/ Tick \/ UNCHANGED vars
           \/ \E d \in Starts : ChangeStart(d)
    PROVE  IInv'
<1>1. TypeOK'
  <2>1. /\ clock' \in 0..MaxTime /\ start' \in Starts /\ job' \in BOOLEAN
        /\ status' \in {"upcoming", "active"}
    <3>1. CASE Tick
      BY <3>1, NumbersAssumption DEF IInv, TypeOK, Tick
    <3>2. CASE ~Tick
      BY <3>2 DEF IInv, TypeOK, JobSelect, JobActivate, ChangeStart, vars
    <3>3. QED
      BY <3>1, <3>2
  <2>2. locked' \subseteq {t \in Teams : owner[t] # Nobody}
    BY DEF IInv, TypeOK, JobSelect, JobActivate, Tick, ChangeStart, vars, Taken
  <2>3. QED
    BY <2>1, <2>2 DEF IInv, TypeOK
<1>2. InsertsExclusive' /\ HoldersDiffer'
  BY DEF IInv, InsertsExclusive, HoldersDiffer, Holds
<1>3. \A r \in Requests : RequestOK(req[r])'
  BY DEF IInv, RequestOK, Within, TeamsOf, Claimed, Asked
<1>4. QED
  BY <1>1, <1>2, <1>3 DEF IInv

\* The invariant is inductive: one case per action.
LEMMA NextOK == IInv /\ [Next]_vars => IInv'
<1> SUFFICES ASSUME IInv, [Next]_vars PROVE IInv'
  OBVIOUS
<1>1. ASSUME NEW r \in Requests, NEW u \in Users, NEW b \in Batches, Submit(r, u, b)
      PROVE  IInv'
  BY <1>1, SubmitOK
<1>2. ASSUME NEW r \in Requests, Work(r) PROVE IInv'
  BY <1>2, LockParticipantOK, CountOK, CheckOK, InsertOK, CommitOK DEF Work
<1>3. ASSUME NEW r \in Requests, DeadlockVictim(r) PROVE IInv'
  BY <1>3, FailureOK DEF DeadlockVictim, Failed
<1>4. CASE JobSelect \/ JobActivate \/ Tick \/ UNCHANGED vars
  BY <1>4, OtherStepsOK DEF JobSelect, JobActivate, Tick, vars
<1>5. ASSUME NEW d \in Starts, ChangeStart(d) PROVE IInv'
  BY <1>5, OtherStepsOK DEF ChangeStart
<1>6. QED
  BY <1>1, <1>2, <1>3, <1>4, <1>5 DEF Next

\* In every reachable state the requests have established what they rely on.
THEOREM Invariance == Spec => []IInv
<1>1. Init => IInv
  BY InitOK
<1>2. IInv /\ [Next]_vars => IInv'
  BY NextOK
<1>3. QED
  BY <1>1, <1>2, PTL DEF Spec

\* Every reachable state is well-typed: TypeOK holds.
THEOREM TypeCorrect == Spec => []TypeOK
<1>1. IInv => TypeOK
  BY DEF IInv
<1>2. QED
  BY <1>1, Invariance, PTL

\* Two requests never have the same team inserted: the unique constraint.
THEOREM InsertsAreExclusive == Spec => []InsertsExclusive
<1>1. IInv => InsertsExclusive
  BY DEF IInv
<1>2. QED
  BY <1>1, Invariance, PTL

-----------------------------------------------------------------------------
\* Every step of a request is a step of its claim, or none: it is asked when
\* the request arrives, refused when the handler fails, granted by the commit.
LEMMA StepImplements ==
    ASSUME IInv, NEW r \in Requests, NEW x, Goes(r, x), Asked(x) = Asked(req[r])
    PROVE  UNCHANGED <<owner, [q \in Requests |-> Asked(req[q])]>>
<1>1. req \in [Requests -> Request] /\ owner' = owner /\ req' = [req EXCEPT ![r] = x]
  BY DEF IInv, TypeOK, Goes
<1>2. \A q \in Requests : Asked(req'[q]) = Asked(req[q])
  BY <1>1
<1>3. QED
  BY <1>1, <1>2 DEF Asked

LEMMA FailureImplements ==
    ASSUME IInv, NEW r \in Requests, Goes(r, NoRequest)
    PROVE  Claims!Refuse(r)
<1>1. req \in [Requests -> Request] /\ owner' = owner /\ req' = [req EXCEPT ![r] = NoRequest]
  BY DEF IInv, TypeOK, Goes
<1>2. Asked(NoRequest) = Claims!NoClaim
  BY DEF NoRequest, Asked, Claims!NoClaim
<1>3. [q \in Requests |-> Asked(req'[q])]
        = [[q \in Requests |-> Asked(req[q])] EXCEPT ![r] = Claims!NoClaim]
  BY <1>1, <1>2
<1>4. QED
  BY <1>1, <1>3 DEF Claims!Refuse, Asked

LEMMA CommitImplements ==
    ASSUME IInv, NEW r \in Requests, Commit(r)
    PROVE  Claims!Grant(r)
<1> DEFINE asked == [q \in Requests |-> Asked(req[q])]
           u == req[r].user
           T == req[r].inserted
<1>1. /\ req[r] \in Request /\ req[r].pc = "commit" /\ RequestOK(req[r])
      /\ req \in [Requests -> Request]
  BY HolderFacts DEF Commit, IInv, TypeOK
<1>2. asked[r] = [user |-> u, teams |-> T]
  BY <1>1 DEF Asked, RequestOK
<1>3. u # Nobody /\ asked[r].user = u /\ asked[r].teams = T
  BY <1>1, <1>2, UsersAssumption DEF Request
<1>4. asked[r] # Claims!NoClaim
  BY <1>3 DEF Claims!NoClaim
<1>5. \A t \in T : owner[t] = Nobody
  BY <1>1 DEF RequestOK
<1>6. Claims!Allowed(Cardinality({t \in Teams : owner[t] = u}) + Cardinality(T))
  BY <1>1, <1>2 DEF RequestOK, Within, Claimed, TeamsOf, Claims!Allowed
<1>7. owner' = [t \in Teams |-> IF t \in T THEN u ELSE owner[t]]
  BY DEF Commit
<1>8. [q \in Requests |-> Asked(req'[q])] = [asked EXCEPT ![r] = Claims!NoClaim]
  <2>1. Asked(NoRequest) = Claims!NoClaim
    BY DEF NoRequest, Asked, Claims!NoClaim
  <2>2. QED
    BY <1>1, <2>1 DEF Commit
<1>9. \A S : Claims!Cardinality(S) = Cardinality(S)
  BY DEF Claims!Cardinality, Cardinality
<1>10. Claims!Allowed(Claims!Cardinality({t \in Teams : owner[t] = u}) + Claims!Cardinality(T))
  BY <1>6, <1>9
<1>11. QED
  <2> HIDE DEF asked, u, T
  <2>1. /\ asked[r] # Claims!NoClaim
        /\ \A t \in asked[r].teams : owner[t] = Nobody
        /\ Claims!Allowed(Claims!Cardinality({t \in Teams : owner[t] = asked[r].user})
                            + Claims!Cardinality(asked[r].teams))
        /\ owner' = [t \in Teams |-> IF t \in asked[r].teams THEN asked[r].user ELSE owner[t]]
    BY <1>3, <1>4, <1>5, <1>7, <1>10
  <2>2. asked' = [asked EXCEPT ![r] = Claims!NoClaim]
    BY <1>8 DEF asked
  <2>3. QED
    BY <2>1, <2>2 DEF Claims!Grant, asked

\* The invariant makes every step a step of the claims.
LEMMA NextImplements == IInv /\ [Next]_vars => [Claims!Next]_<<owner, [r \in Requests |-> Asked(req[r])]>>
<1> SUFFICES ASSUME IInv, [Next]_vars
             PROVE  [Claims!Next]_<<owner, [r \in Requests |-> Asked(req[r])]>>
  OBVIOUS
<1>1. ASSUME NEW r \in Requests, NEW u \in Users, NEW b \in Batches, Submit(r, u, b)
      PROVE  Claims!Ask(r, u, b)
  <2> DEFINE x == [NoRequest EXCEPT !.pc = "waiting", !.user = u, !.todo = b]
  <2>1. /\ req \in [Requests -> Request] /\ owner' = owner /\ req' = [req EXCEPT ![r] = x]
        /\ Asked(req[r]) = Claims!NoClaim
    BY <1>1 DEF IInv, TypeOK, Submit, Goes, Asked, Claims!NoClaim
  <2>2. Asked(x) = [user |-> u, teams |-> b]
    BY DEF NoRequest, Asked
  <2>3. [q \in Requests |-> Asked(req'[q])]
          = [[q \in Requests |-> Asked(req[q])] EXCEPT ![r] = [user |-> u, teams |-> b]]
    <3> HIDE DEF x
    <3>1. QED
      BY <2>1, <2>2
  <2>4. QED
    BY <2>1, <2>3 DEF Claims!Ask, Asked
<1>2. ASSUME NEW r \in Requests, LockParticipant(r) \/ Count(r) \/ Check(r) \/ Insert(r)
      PROVE  Claims!Refuse(r) \/ UNCHANGED <<owner, [q \in Requests |-> Asked(req[q])]>>
  <2>1. req[r] \in Request /\ RequestOK(req[r])
    BY HolderFacts
  <2>2. CASE LockParticipant(r)
    <3>1. Asked([req[r] EXCEPT !.pc = "count"]) = Asked(req[r])
      BY <2>1, <2>2 DEF LockParticipant, Asked, Request
    <3>2. QED
      BY <2>2, <3>1, StepImplements DEF LockParticipant
  <2>3. CASE Count(r)
    <3>1. Asked(Continued(req[r])) = Asked(req[r])
      BY <2>1, <2>3 DEF Count, Continued, Asked, Request
    <3>2. QED
      BY <2>3, <3>1, StepImplements, FailureImplements DEF Count, Failed
  <2>4. CASE Check(r)
    <3>1. PICK t \in req[r].todo :
            Goes(r, IF Taken(t) THEN NoRequest
                    ELSE [req[r] EXCEPT !.pc = "insert", !.team = t, !.todo = @ \ {t}])
      BY <2>4 DEF Check, Failed
    <3>2. Asked([req[r] EXCEPT !.pc = "insert", !.team = t, !.todo = @ \ {t}]) = Asked(req[r])
      <4>1. t # NoTeam
        BY <2>1, TeamsAssumption DEF Request
      <4>2. QED
        BY <2>1, <2>4, <4>1 DEF Check, Asked, Request, RequestOK
    <3>3. QED
      BY <3>1, <3>2, StepImplements, FailureImplements
  <2>5. CASE Insert(r)
    <3> DEFINE x == [req[r] EXCEPT !.team = NoTeam, !.inserted = @ \cup {req[r].team}]
    <3>1. Asked(Continued(x)) = Asked(req[r])
      BY <2>1, <2>5 DEF Insert, Continued, Asked, Request, RequestOK
    <3>2. Goes(r, IF Taken(req[r].team) THEN NoRequest ELSE Continued(x))
      BY <2>5 DEF Insert, Refused, Failed
    <3> HIDE DEF x
    <3>3. QED
      BY <3>1, <3>2, StepImplements, FailureImplements
  <2>6. QED
    BY <1>2, <2>2, <2>3, <2>4, <2>5
<1>3. ASSUME NEW r \in Requests, Commit(r) PROVE Claims!Grant(r)
  BY <1>3, CommitImplements
<1>4. ASSUME NEW r \in Requests, DeadlockVictim(r) PROVE Claims!Refuse(r)
  BY <1>4, FailureImplements DEF DeadlockVictim, Failed
<1>5. CASE \/ JobSelect \/ JobActivate \/ Tick \/ UNCHANGED vars
           \/ \E d \in Starts : ChangeStart(d)
  <2>1. owner' = owner /\ req' = req
    BY <1>5 DEF JobSelect, JobActivate, Tick, ChangeStart, vars
  <2>2. QED
    BY <2>1 DEF Asked
<1>6. Batches \subseteq SUBSET Teams
  BY TeamsAssumption
<1>7. QED
  BY <1>1, <1>2, <1>3, <1>4, <1>5, <1>6 DEF Next, Work, Claims!Next

\* The handler implements exclusive claims: a team is never taken from its
\* owner, a batch is granted whole or not at all, and within the limit.
THEOREM Implements == Spec => ImplementsClaims
<1>1. Init => Claims!Init
  BY DEF Init, Claims!Init, Claims!NoClaim, Asked, NoRequest
<1>2. IInv /\ [Next]_vars => [Claims!Next]_<<owner, [r \in Requests |-> Asked(req[r])]>>
  BY NextImplements
<1>3. QED
  BY <1>1, <1>2, Invariance, PTL DEF Spec, ImplementsClaims, Claims!Spec

-----------------------------------------------------------------------------
\* A commit adds its batch to the teams of its user, within the limit.
LEMMA LimitStep == IInv /\ LimitHolds /\ [Next]_vars => LimitHolds'
<1> SUFFICES ASSUME IInv, LimitHolds, [Next]_vars, MaxTeams # 0, NEW u \in Users
             PROVE  Cardinality(TeamsOf(u)') <= MaxTeams
  BY DEF LimitHolds, TeamsOf
<1>1. Cardinality(TeamsOf(u)) <= MaxTeams
  BY DEF LimitHolds
<1>2. ASSUME NEW r \in Requests, Commit(r)
      PROVE  Cardinality(TeamsOf(u)') <= MaxTeams
  <2>1. /\ req[r] \in Request /\ req[r].pc = "commit" /\ RequestOK(req[r])
    BY <1>2, HolderFacts DEF Commit
  <2>2. Claimed(req[r]) = req[r].inserted
    BY <2>1 DEF Claimed, Asked, RequestOK
  <2>3. CASE u # req[r].user
    <3>1. TeamsOf(u)' = TeamsOf(u)
      BY <1>2, <2>1, <2>3, UsersAssumption DEF Commit, TeamsOf, RequestOK
    <3>2. QED
      BY <3>1, <1>1
  <2>4. CASE u = req[r].user
    <3>1. TeamsOf(u)' = TeamsOf(u) \cup req[r].inserted
      BY <1>2, <2>1, <2>4 DEF Commit, TeamsOf, Request
    <3>2. /\ IsFiniteSet(TeamsOf(u)) /\ IsFiniteSet(req[r].inserted)
          /\ Cardinality(TeamsOf(u)) \in Nat /\ Cardinality(req[r].inserted) \in Nat
          /\ Cardinality(TeamsOf(u) \cap req[r].inserted) \in Nat
      BY <2>1, TeamSetsFinite DEF TeamsOf, Request
    <3>3. Cardinality(TeamsOf(u) \cup req[r].inserted)
            = Cardinality(TeamsOf(u)) + Cardinality(req[r].inserted)
              - Cardinality(TeamsOf(u) \cap req[r].inserted)
      BY <3>2, FS_Union
    <3>4. Cardinality(TeamsOf(u)) + Cardinality(req[r].inserted) <= MaxTeams
      BY <2>1, <2>2, <2>4 DEF RequestOK, Within
    <3>5. QED
      BY <3>1, <3>2, <3>3, <3>4, NumbersAssumption
  <2>5. QED
    BY <2>3, <2>4
<1>3. CASE owner' = owner
  BY <1>1, <1>3 DEF TeamsOf
<1>4. owner' = owner \/ \E r \in Requests : Commit(r)
  BY DEF Next, Work, Submit, LockParticipant, Count, Check, Insert, DeadlockVictim, Goes,
         JobSelect, JobActivate, ChangeStart, Tick, vars
<1>5. QED
  BY <1>2, <1>3, <1>4

\* No user ever has more teams than the competition allows.
THEOREM LimitAlwaysHolds == Spec => []LimitHolds
<1>1. Init => LimitHolds
  <2> SUFFICES ASSUME Init, NEW u \in Users PROVE MaxTeams # 0 => Cardinality(TeamsOf(u)) <= MaxTeams
    BY DEF LimitHolds
  <2>1. TeamsOf(u) = {}
    BY UsersAssumption DEF Init, TeamsOf
  <2>2. QED
    BY <2>1, FS_EmptySet, NumbersAssumption
<1>2. IInv /\ LimitHolds /\ [Next]_vars => LimitHolds'
  BY LimitStep
<1>3. QED
  BY <1>1, <1>2, Invariance, PTL DEF Spec
=============================================================================
