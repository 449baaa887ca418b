--------------------------- MODULE DailyPicksProofs ---------------------------
(***************************************************************************)
(* Theorems about DailyPicks, for any users, games, requests, batches,     *)
(* limits and schedules.                                                   *)
(***************************************************************************)
EXTENDS DailyPicks, Integers, FiniteSetTheorems, TLAPS

-----------------------------------------------------------------------------
(* The inductive invariants *)

Holds(r) == req[r].pc \in {"validate", "store"}

\* Whoever has the row of a participant got it from a participant, and is
\* done within Grace.
HeldOK(r) ==
    /\ req[r].user \in participants
    /\ req[r].now <= clock /\ clock <= req[r].now + Grace

IInv ==
    /\ TypeOK
    /\ \A r \in Requests : Holds(r) => HeldOK(r)

\* Games are over only after their start, and then only the competition is.
OverOK ==
    /\ \A g \in Games : played[g] = "final" => Kickoff[g] + Grace <= clock
    /\ status = "completed" => \A g \in Games : played[g] = "final"

\* What a request that will store knows of the picks of its day: their keys
\* are still the ones it loaded, and its checks are still true.
SameKeys(rows, x) ==
    /\ \A p \in x.existing : p.user = x.user /\ p.day = x.day
    /\ \A q \in rows : q.user = x.user /\ q.day = x.day => \E p \in x.existing : Key(p) = Key(q)
    /\ \A p \in x.existing : \E q \in rows : Key(p) = Key(q) /\ q.day = x.day
Checked(rows, x) ==
    SameKeys(rows, x) /\ IsFiniteSet(x.existing) /\ WithinLimit(x) /\ NothingNewStarted(x)

\* The day of a request is that of its clock, and the user has no later pick.
Latest(rows, x) == x.day = Day(x.now) /\ \A p \in rows : p.user = x.user => p.day <= x.day

DayInv ==
    /\ IsFiniteSet(picks)
    /\ \A p \in picks : p.day <= Day(clock)
    /\ \A r, s \in Requests : Holds(r) /\ Holds(s) /\ req[r].user = req[s].user => r = s
    /\ \A r \in Requests : Holds(r) => Latest(picks, req[r])
    /\ \A r \in Requests : req[r].pc = "store" => Checked(picks, req[r])
    /\ OnePickPerGameAndDay /\ LimitPerDay

-----------------------------------------------------------------------------
(* Numbers and days *)

LEMMA Numbers ==
  /\ MaxPicks \in Nat /\ Opening \in Nat /\ Closing \in Nat /\ MaxTime \in Nat
  /\ DayLength \in Nat \ {0} /\ Grace \in Nat \ {0} /\ MaxCopies \in Nat \ {0}
  BY NumbersAssumption

LEMMA Division ==
  ASSUME NEW n \in Nat \ {0}, NEW t \in Nat
  PROVE  t \div n \in Nat /\ n * (t \div n) <= t /\ t < n * (t \div n) + n
  OBVIOUS

LEMMA Multiples ==
  ASSUME NEW n \in Nat \ {0}, NEW a \in Nat, NEW b \in Nat, a >= b + 1
  PROVE  n * a >= n * b + n
  OBVIOUS

\* Days are numbered in the order of time.
LEMMA DayGrows ==
  ASSUME NEW t \in Nat, NEW u \in Nat, t <= u
  PROVE  Day(t) \in Nat /\ Day(u) \in Nat /\ Day(t) <= Day(u)
  BY Numbers, Division, Multiples DEF Day

LEMMA DayType ==
  ASSUME NEW t \in 0..MaxTime
  PROVE  Day(t) \in Days /\ Day(t) \in Nat
  BY Numbers, DayGrows DEF Days

LEMMA DaysAreNumbers == Days \subseteq Nat
  BY DayType DEF Days

-----------------------------------------------------------------------------
(* Requests *)

LEMMA NoRequestOK ==
  NoRequest \in Request /\ NoRequest.pc = "idle" /\ NoRequest.existing = {}
  <1>1. (CHOOSE u \in Users : TRUE) \in Users /\ (CHOOSE b \in Batches : TRUE) \in Batches
    BY SomebodyAssumption
  <1>2. 0 \in Days /\ 0 \in 0..MaxTime
    <2>1. Day(0) = 0 /\ 0 \in 0..MaxTime
      BY Numbers DEF Day
    <2> QED BY <2>1, DayType
  <1> QED BY <1>1, <1>2 DEF NoRequest, Request

\* The types of what a batch names.
LEMMA BatchType ==
  ASSUME NEW b \in Batches
  PROVE  /\ IsFiniteSet(b)
         /\ \A i \in b : i[1] \in Games /\ i[2] \in Teams /\ i = <<i[1], i[2]>>
  BY BatchesAssumption

\* One request changes, the others stay.
LEMMA OneRequest ==
  ASSUME TypeOK, NEW r \in Requests, NEW y \in Request, req' = [req EXCEPT ![r] = y]
  PROVE  /\ req' \in [Requests -> Request] /\ req'[r] = y
         /\ \A s \in Requests : s # r => req'[s] = req[s]
  BY DEF TypeOK

\* The database and the others stay; the request goes on to y.
LEMMA RequestStep ==
  ASSUME IInv, NEW r \in Requests, NEW y \in Request,
         \A p, q \in y.existing : p.game = q.game => p = q,
         y.pc \in {"validate", "store"} =>
            y.user \in participants /\ y.now <= clock /\ clock <= y.now + Grace,
         req' = [req EXCEPT ![r] = y],
         UNCHANGED <<clock, picks, participants, status, played, lockJob>>
  PROVE  IInv'
  <1>1. /\ req' \in [Requests -> Request] /\ req'[r] = y
        /\ \A s \in Requests : s # r => req'[s] = req[s]
    BY OneRequest DEF IInv
  <1>2. (\A s \in Requests : \A p, q \in req[s].existing : p.game = q.game => p = q)'
    BY <1>1 DEF IInv, TypeOK
  <1>3. TypeOK'
    BY <1>1, <1>2 DEF IInv, TypeOK
  <1>4. (\A s \in Requests : Holds(s) => HeldOK(s))'
    BY <1>1 DEF IInv, Holds, HeldOK
  <1> QED BY <1>3, <1>4 DEF IInv

LEMMA ArriveOK ==
  ASSUME IInv, NEW r \in Requests, NEW u \in Users, NEW b \in Batches, NEW d \in Days,
         Arrive(r, u, b, d)
  PROVE  IInv'
  <1> DEFINE y == [NoRequest EXCEPT !.pc = "waiting", !.user = u, !.batch = b, !.day = d]
  <1>1. y \in Request /\ y.pc = "waiting" /\ y.existing = {}
    <2> DEFINE old == NoRequest
    <2>1. old \in Request /\ old.existing = {}
      BY NoRequestOK
    <2>2. y = [old EXCEPT !.pc = "waiting", !.user = u, !.batch = b, !.day = d]
      OBVIOUS
    <2> HIDE DEF y, old
    <2> QED BY <2>1, <2>2 DEF Request
  <1>2. req' = [req EXCEPT ![r] = y]
    BY DEF Arrive
  <1> HIDE DEF y
  <1> QED BY <1>1, <1>2, RequestStep DEF Arrive

\* How a request looks that got the lock.
LEMMA Locked ==
  ASSUME TypeOK, NEW r \in Requests, LockParticipant(r), req[r].user \in participants
  PROVE  \E y \in Request :
           /\ y.pc = "validate" /\ y.user = req[r].user /\ y.now = clock
           /\ y.day = Today(req[r]) /\ y.existing = req[r].existing
           /\ req' = [req EXCEPT ![r] = y]
  <1> DEFINE y == [req[r] EXCEPT !.pc = "validate", !.now = clock, !.day = Today(req[r])]
  <1>1. req[r] \in Request /\ clock \in 0..MaxTime
    BY DEF TypeOK
  <1>2. Today(req[r]) \in Days
    BY <1>1, DayType DEF Today, Request
  <1>3. /\ y \in Request
        /\ y.pc = "validate" /\ y.user = req[r].user /\ y.now = clock
        /\ y.day = Today(req[r]) /\ y.existing = req[r].existing
    BY <1>1, <1>2 DEF Request
  <1>4. req' = [req EXCEPT ![r] = y]
    BY DEF LockParticipant
  <1> QED BY <1>3, <1>4

LEMMA LockParticipantOK ==
  ASSUME IInv, NEW r \in Requests, LockParticipant(r)
  PROVE  IInv'
  <1>1. CASE req[r].user \notin participants
    <2>1. req' = [req EXCEPT ![r] = NoRequest]
      BY <1>1 DEF LockParticipant
    <2> QED BY <2>1, NoRequestOK, RequestStep DEF LockParticipant
  <1>2. CASE req[r].user \in participants
    <2>1. PICK y \in Request :
           /\ y.pc = "validate" /\ y.user = req[r].user /\ y.now = clock
           /\ y.day = Today(req[r]) /\ y.existing = req[r].existing
           /\ req' = [req EXCEPT ![r] = y]
      BY <1>2, Locked DEF IInv
    <2>2. \A p, q \in y.existing : p.game = q.game => p = q
      BY <2>1 DEF IInv, TypeOK
    <2>3. y.user \in participants /\ y.now <= clock /\ clock <= y.now + Grace
      BY <1>2, <2>1, Numbers DEF IInv, TypeOK
    <2> QED BY <2>1, <2>2, <2>3, RequestStep DEF LockParticipant
  <1> QED BY <1>1, <1>2

\* A request that passed its checks, with what it loaded.
LEMMA Validated ==
  ASSUME TypeOK, NEW r \in Requests, Validate(r)
  PROVE  \/ req' = [req EXCEPT ![r] = NoRequest]
         \/ \E E \in ExistingByGame(req[r]) : \E x \in Request :
              /\ x.pc = "store" /\ x.existing = E /\ x.user = req[r].user /\ x.batch = req[r].batch
              /\ x.day = req[r].day /\ x.now = req[r].now
              /\ WithinLimit(x) /\ NothingNewStarted(x)
              /\ req' = [req EXCEPT ![r] = x]
  <1>1. PICK E \in ExistingByGame(req[r]) :
         LET x == [req[r] EXCEPT !.existing = E, !.pc = "store"]
         IN req' = [req EXCEPT ![r] = IF WithinLimit(x) /\ NothingNewStarted(x)
                                      THEN x ELSE NoRequest]
    BY DEF Validate
  <1> DEFINE x == [req[r] EXCEPT !.existing = E, !.pc = "store"]
  <1>2. E \subseteq PickRow
    BY DEF ExistingByGame, TypeOK
  <1>3. /\ x \in Request /\ x.pc = "store" /\ x.existing = E
        /\ x.user = req[r].user /\ x.batch = req[r].batch
        /\ x.day = req[r].day /\ x.now = req[r].now
    BY <1>2 DEF TypeOK, Request
  <1>4. req' = [req EXCEPT ![r] = IF WithinLimit(x) /\ NothingNewStarted(x) THEN x ELSE NoRequest]
    BY <1>1
  <1> HIDE DEF x
  <1> QED BY <1>3, <1>4

LEMMA ValidateOK ==
  ASSUME IInv, NEW r \in Requests, Validate(r)
  PROVE  IInv'
  <1>1. CASE req' = [req EXCEPT ![r] = NoRequest]
    BY <1>1, NoRequestOK, RequestStep DEF Validate
  <1>2. ASSUME NEW E \in ExistingByGame(req[r]), NEW x \in Request,
               x.existing = E, x.user = req[r].user, x.now = req[r].now,
               req' = [req EXCEPT ![r] = x]
        PROVE  IInv'
    <2>1. \A p, q \in x.existing : p.game = q.game => p = q
      BY <1>2 DEF ExistingByGame
    <2>2. x.user \in participants /\ x.now <= clock /\ clock <= x.now + Grace
      BY <1>2 DEF IInv, Holds, HeldOK, Validate
    <2> QED BY <1>2, <2>1, <2>2, RequestStep DEF Validate
  <1> QED BY <1>1, <1>2, Validated DEF IInv

-----------------------------------------------------------------------------
(* What a submission does to the rows *)

\* q is p with, perhaps, another team.
SameRow(p, q) ==
    /\ q.user = p.user /\ q.game = p.game /\ q.copy = p.copy
    /\ q.day = p.day /\ q.locked = p.locked

Kept(x, p) == Key(p) \notin {Key(q) : q \in Deleted(x)}

\* A row after the submission: one that was kept, with the team of the batch
\* if it had been loaded and its game was written; or a new one.
FromKept(x, p, q) ==
    /\ Kept(x, p) /\ SameRow(p, q)
    /\ IF Key(p) \in {Key(e) : e \in x.existing} /\ p.game \in BatchGames(Written(x))
       THEN <<p.game, q.team>> \in x.batch ELSE q.team = p.team
FromItem(x, i, q) ==
    /\ q.user = x.user /\ q.game = i[1] /\ q.team = i[2]
    /\ q.day = Day(clock) /\ q.locked = FALSE
    /\ \A p \in picks : p.user = x.user /\ p.game = i[1] => p.copy # q.copy

LEMMA KeyFields ==
  ASSUME NEW p, NEW q
  PROVE  Key(p) = Key(q) <=> p.user = q.user /\ p.game = q.game /\ p.copy = q.copy
  BY DEF Key

LEMMA StoreShape ==
  ASSUME TypeOK, NEW r \in Requests, Store(r), NEW x, x = req[r]
  PROVE  /\ x \in Request /\ x.pc = "store" /\ x.existing \subseteq PickRow
         /\ req' = [req EXCEPT ![r] = NoRequest]
         /\ UNCHANGED <<clock, participants, status, played, lockJob>>
         /\ picks' \subseteq PickRow
         /\ \A p, q \in picks' : Key(p) = Key(q) => p = q
         /\ \A q \in picks' : \/ \E p \in picks : FromKept(x, p, q)
                              \/ \E i \in Inserted(x) : FromItem(x, i, q)
         /\ \A p \in picks : Kept(x, p) => \E q \in picks' : FromKept(x, p, q)
         /\ \A i \in Inserted(x) : \E q \in picks' : FromItem(x, i, q)
         /\ \A i \in Inserted(x) : \A p, q \in picks' :
              FromItem(x, i, p) /\ FromItem(x, i, q) => p = q
         /\ IsFiniteSet(picks) => IsFiniteSet(picks')
  <1> DEFINE kept == {p \in picks : Key(p) \notin {Key(q) : q \in Deleted(x)}}
  <1>0. /\ x \in Request /\ x.pc = "store" /\ x.existing \subseteq PickRow /\ x.batch \in Batches
        /\ picks \subseteq PickRow /\ x.user \in Users /\ Day(clock) \in Days
        /\ req' = [req EXCEPT ![r] = NoRequest]
        /\ UNCHANGED <<clock, participants, status, played, lockJob>>
    BY DayType DEF TypeOK, Request, Store
  <1>1. PICK last \in [BatchGames(Written(x)) -> Teams], copy \in [Inserted(x) -> 1..MaxCopies] :
            /\ \A g \in DOMAIN last : <<g, last[g]>> \in x.batch
            /\ \A i \in Inserted(x) : copy[i] \in FreeCopies(x.user, i[1])
            /\ \A i, j \in Inserted(x) : i # j /\ i[1] = j[1] => copy[i] # copy[j]
            /\ picks' = {Updated(x, last, p) : p \in kept} \cup
                        {[user |-> x.user, game |-> i[1], copy |-> copy[i], team |-> i[2],
                          day |-> Day(clock), locked |-> FALSE] : i \in Inserted(x)}
    BY DEF Store
  <1> DEFINE new(i) == [user |-> x.user, game |-> i[1], copy |-> copy[i], team |-> i[2],
                        day |-> Day(clock), locked |-> FALSE]
  <1>2. picks' = {Updated(x, last, p) : p \in kept} \cup {new(i) : i \in Inserted(x)}
    BY <1>1
  <1>3. Inserted(x) \subseteq x.batch /\ \A i \in Inserted(x) : i[1] \in Games /\ i[2] \in Teams
    BY <1>0, BatchType DEF Inserted, Written
  <1>4. \A i, j \in Inserted(x) : i[1] = j[1] /\ i[2] = j[2] => i = j
    <2> TAKE i, j \in Inserted(x)
    <2>1. i = <<i[1], i[2]>> /\ j = <<j[1], j[2]>>
      BY <1>0, <1>3, BatchType
    <2> QED BY <2>1
  <1>5. \A i \in Inserted(x) : new(i) \in PickRow /\ FromItem(x, i, new(i))
    <2> TAKE i \in Inserted(x)
    <2>1. new(i) \in PickRow
      BY <1>0, <1>1, <1>3 DEF PickRow
    <2>2. copy[i] \in FreeCopies(x.user, i[1])
      BY <1>1
    <2>3. \A p \in picks : p.user = x.user /\ p.game = i[1] => p.copy # copy[i]
      BY <2>2 DEF FreeCopies
    <2> QED BY <2>1, <2>3 DEF FromItem
  <1>6. \A p \in kept : Updated(x, last, p) \in PickRow /\ FromKept(x, p, Updated(x, last, p))
    <2> TAKE p \in kept
    <2>1. p \in PickRow /\ Kept(x, p)
      BY <1>0 DEF Kept
    <2>2. DOMAIN last = BatchGames(Written(x))
      BY <1>1
    <2>3. CASE Key(p) \in {Key(q) : q \in x.existing} /\ p.game \in DOMAIN last
      <3>1. Updated(x, last, p) = [p EXCEPT !.team = last[p.game]]
        BY <2>3 DEF Updated
      <3>2. last[p.game] \in Teams /\ <<p.game, last[p.game]>> \in x.batch
        BY <1>1, <2>3
      <3> QED BY <2>1, <2>2, <2>3, <3>1, <3>2 DEF PickRow, FromKept, SameRow
    <2>4. CASE ~(Key(p) \in {Key(q) : q \in x.existing} /\ p.game \in DOMAIN last)
      <3>1. Updated(x, last, p) = p
        BY <2>4 DEF Updated
      <3> QED BY <2>1, <2>2, <2>4, <3>1 DEF FromKept, SameRow
    <2> QED BY <2>3, <2>4
  <1>7. \A p \in kept : \A q \in kept : Key(Updated(x, last, p)) = Key(Updated(x, last, q)) => p = q
    <2> SUFFICES ASSUME NEW p \in kept, NEW q \in kept,
                        Key(Updated(x, last, p)) = Key(Updated(x, last, q))
                 PROVE  p = q
      OBVIOUS
    <2> DEFINE a == Updated(x, last, p)
               b == Updated(x, last, q)
    <2>1. SameRow(p, a) /\ SameRow(q, b) /\ Key(a) = Key(b) /\ p \in picks /\ q \in picks
      BY <1>6 DEF FromKept
    <2> HIDE DEF a, b, kept
    <2>2. Key(p) = Key(q)
      BY <2>1, KeyFields DEF SameRow
    <2> QED BY <2>1, <2>2 DEF TypeOK
  <1>8. \A i, j \in Inserted(x) : Key(new(i)) = Key(new(j)) => i = j
    <2> SUFFICES ASSUME NEW i \in Inserted(x), NEW j \in Inserted(x), Key(new(i)) = Key(new(j))
                 PROVE  i = j
      OBVIOUS
    <2>1. i[1] = j[1] /\ copy[i] = copy[j]
      BY KeyFields
    <2> QED BY <1>1, <2>1
  <1>9. \A p \in kept, i \in Inserted(x) : Key(Updated(x, last, p)) # Key(new(i))
    <2> SUFFICES ASSUME NEW p \in kept, NEW i \in Inserted(x),
                        Key(Updated(x, last, p)) = Key(new(i))
                 PROVE  FALSE
      OBVIOUS
    <2> DEFINE a == Updated(x, last, p)
               b == new(i)
    <2>1. SameRow(p, a) /\ FromItem(x, i, b) /\ Key(a) = Key(b) /\ p \in picks
      BY <1>5, <1>6 DEF FromKept
    <2> HIDE DEF a, b, kept, new
    <2> QED BY <2>1, KeyFields DEF SameRow, FromItem
  <1>10. IsFiniteSet(picks) => IsFiniteSet(picks')
    <2> SUFFICES ASSUME IsFiniteSet(picks) PROVE IsFiniteSet(picks')
      OBVIOUS
    <2>1. IsFiniteSet(kept) /\ IsFiniteSet(Inserted(x))
      BY <1>0, <1>3, BatchType, FS_Subset
    <2> DEFINE f == [p \in kept |-> Updated(x, last, p)]
               h == [i \in Inserted(x) |-> new(i)]
               A == {Updated(x, last, p) : p \in kept}
               B == {new(i) : i \in Inserted(x)}
    <2>2. f \in Surjection(kept, A) /\ h \in Surjection(Inserted(x), B)
      BY DEF Surjection
    <2> HIDE DEF f, h, A, B
    <2>3. IsFiniteSet(A) /\ IsFiniteSet(B)
      BY <2>1, <2>2, FS_Surjection
    <2>4. IsFiniteSet(A \cup B)
      BY <2>3, FS_Union
    <2> QED BY <1>2, <2>4 DEF A, B
  <1> HIDE DEF new
  <1>11. picks' \subseteq PickRow
    BY <1>2, <1>5, <1>6
  <1>12. \A p, q \in picks' : Key(p) = Key(q) => p = q
    BY <1>2, <1>7, <1>8, <1>9
  <1>13. \A q \in picks' : \/ \E p \in picks : FromKept(x, p, q)
                           \/ \E i \in Inserted(x) : FromItem(x, i, q)
    BY <1>2, <1>5, <1>6
  <1>14. \A p \in picks : Kept(x, p) => \E q \in picks' : FromKept(x, p, q)
    BY <1>2, <1>6 DEF Kept
  <1>15. \A i \in Inserted(x) : \E q \in picks' : FromItem(x, i, q)
    BY <1>2, <1>5
  <1>16. \A i \in Inserted(x) : \A q \in picks' : FromItem(x, i, q) => q = new(i)
    <2> SUFFICES ASSUME NEW i \in Inserted(x), NEW q \in picks', FromItem(x, i, q)
                 PROVE  q = new(i)
      OBVIOUS
    <2>1. ASSUME NEW p \in kept, q = Updated(x, last, p) PROVE FALSE
      BY <1>6, <2>1 DEF FromKept, SameRow, FromItem
    <2>2. ASSUME NEW j \in Inserted(x), q = new(j) PROVE j = i
      BY <1>4, <1>5, <2>2 DEF FromItem
    <2> QED BY <1>2, <2>1, <2>2
  <1> QED BY <1>0, <1>10, <1>11, <1>12, <1>13, <1>14, <1>15, <1>16

LEMMA StoreOK ==
  ASSUME IInv, NEW r \in Requests, Store(r)
  PROVE  IInv'
  <1>1. /\ req' = [req EXCEPT ![r] = NoRequest]
        /\ UNCHANGED <<clock, participants, status, played, lockJob>>
        /\ picks' \subseteq PickRow
        /\ \A p, q \in picks' : Key(p) = Key(q) => p = q
    BY StoreShape DEF IInv
  <1>2. /\ req' \in [Requests -> Request] /\ req'[r] = NoRequest
        /\ \A s \in Requests : s # r => req'[s] = req[s]
    BY <1>1, NoRequestOK, OneRequest DEF IInv
  <1>3. (\A s \in Requests : \A p, q \in req[s].existing : p.game = q.game => p = q)'
    BY <1>2, NoRequestOK DEF IInv, TypeOK
  <1>4. TypeOK'
    BY <1>1, <1>2, <1>3 DEF IInv, TypeOK, Key
  <1>5. (\A s \in Requests : Holds(s) => HeldOK(s))'
    BY <1>1, <1>2, NoRequestOK DEF IInv, Holds, HeldOK
  <1> QED BY <1>4, <1>5 DEF IInv

\* The lock job changes nothing but the mark.
Marked(p, q) ==
    /\ q.user = p.user /\ q.game = p.game /\ q.copy = p.copy
    /\ q.day = p.day /\ q.team = p.team
LEMMA LockShape ==
  ASSUME TypeOK, LockUpdate
  PROVE  /\ picks' \subseteq PickRow
         /\ \A p, q \in picks' : Key(p) = Key(q) => p = q
         /\ \A q \in picks' : \E p \in picks : Marked(p, q)
         /\ \A p \in picks : \E q \in picks' : Marked(p, q)
         /\ IsFiniteSet(picks) => IsFiniteSet(picks')
  <1> DEFINE f == [p \in picks |-> IF p.game \in lockJob THEN [p EXCEPT !.locked = TRUE] ELSE p]
  <1>1. picks' = {f[p] : p \in picks}
    BY DEF LockUpdate
  <1>2. \A p \in picks : f[p] \in PickRow /\ Marked(p, f[p])
    <2> TAKE p \in picks
    <2>1. p \in PickRow
      BY DEF TypeOK
    <2> QED BY <2>1 DEF PickRow, Marked
  <1>3. f \in Surjection(picks, picks')
    BY <1>1 DEF Surjection
  <1> HIDE DEF f
  <1>4. \A p, q \in picks : Key(f[p]) = Key(f[q]) => p = q
    BY <1>2, KeyFields DEF TypeOK, Marked
  <1>5. IsFiniteSet(picks) => IsFiniteSet(picks')
    BY <1>3, FS_Surjection
  <1> QED BY <1>1, <1>2, <1>4, <1>5

LEMMA LockUpdateOK ==
  ASSUME IInv, LockUpdate
  PROVE  IInv'
  <1>1. /\ picks' \subseteq PickRow
        /\ \A p, q \in picks' : Key(p) = Key(q) => p = q
    BY LockShape DEF IInv
  <1>2. lockJob' = {} /\ UNCHANGED <<clock, participants, status, played, req>>
    BY DEF LockUpdate
  <1>3. TypeOK'
    BY <1>1, <1>2 DEF IInv, TypeOK, Key
  <1> QED BY <1>2, <1>3 DEF IInv, Holds, HeldOK

\* Steps that change neither the picks nor the requests, but for the clock.
LEMMA OthersOK ==
  ASSUME IInv,
         \/ LockSelect \/ StatusJob \/ \E s \in Statuses : ForceStatus(s)
         \/ \E u \in Users : RemoveParticipant(u) \/ Join(u)
         \/ \E g \in Games : GameMoves(g)
         \/ UNCHANGED vars
  PROVE  IInv'
  <1>1. UNCHANGED <<clock, picks, req>>
    BY DEF LockSelect, StatusJob, ForceStatus, RemoveParticipant, Join, GameMoves, vars
  <1>2. /\ participants' \subseteq Users /\ status' \in Statuses
        /\ played' \in [Games -> {"scheduled", "in_progress", "final"}] /\ lockJob' \subseteq Games
    <2>1. /\ participants \subseteq Users /\ status \in Statuses
          /\ played \in [Games -> {"scheduled", "in_progress", "final"}] /\ lockJob \subseteq Games
      BY DEF IInv, TypeOK
    <2>2. CASE LockSelect
      BY <2>1, <2>2 DEF LockSelect, Started
    <2>3. CASE StatusJob
      BY <2>1, <2>3 DEF StatusJob, Statuses
    <2>4. CASE \E s \in Statuses : ForceStatus(s)
      BY <2>1, <2>4 DEF ForceStatus
    <2>5. CASE \E u \in Users : RemoveParticipant(u) \/ Join(u)
      BY <2>1, <2>5 DEF RemoveParticipant, Join
    <2>6. CASE \E g \in Games : GameMoves(g)
      BY <2>1, <2>6 DEF GameMoves
    <2>7. CASE UNCHANGED vars
      BY <2>1, <2>7 DEF vars
    <2> QED BY <2>2, <2>3, <2>4, <2>5, <2>6, <2>7
  <1>3. TypeOK'
    BY <1>1, <1>2 DEF IInv, TypeOK
  <1>4. ASSUME NEW r \in Requests, Holds(r) PROVE HeldOK(r)'
    <2>1. HeldOK(r) /\ r \in Holders(req[r].user)
      BY <1>4 DEF IInv, Holds, Holders
    <2>2. req[r].user \in participants'
      BY <2>1 DEF HeldOK, LockSelect, StatusJob, ForceStatus, RemoveParticipant, Join, GameMoves,
                  vars, Free
    <2> QED BY <1>1, <2>1, <2>2 DEF HeldOK
  <1>5. (\A r \in Requests : Holds(r) => HeldOK(r))'
    BY <1>1, <1>4 DEF Holds
  <1> QED BY <1>3, <1>5 DEF IInv

LEMMA TickOK ==
  ASSUME IInv, Tick
  PROVE  IInv'
  <1>1. clock \in 0..MaxTime /\ clock' = clock + 1 /\ clock' \in 0..MaxTime
    BY Numbers DEF IInv, TypeOK, Tick
  <1>2. UNCHANGED <<picks, participants, status, played, req, lockJob>>
    BY DEF Tick
  <1>3. TypeOK'
    BY <1>1, <1>2 DEF IInv, TypeOK
  <1>4. ASSUME NEW r \in Requests, Holds(r) PROVE HeldOK(r)'
    <2>1. HeldOK(r) /\ clock < req[r].now + Grace /\ req[r].now \in Nat
      BY <1>4, Numbers DEF IInv, Holds, Tick, TypeOK, Request
    <2> QED BY <1>1, <1>2, <2>1, Numbers DEF HeldOK
  <1>5. (\A r \in Requests : Holds(r) => HeldOK(r))'
    BY <1>2, <1>4 DEF Holds
  <1> QED BY <1>3, <1>5 DEF IInv

LEMMA InitOK == Init => IInv
  <1> SUFFICES ASSUME Init PROVE IInv
    OBVIOUS
  <1>1. \A r \in Requests : req[r] = NoRequest
    BY DEF Init
  <1>2. \A r \in Requests : \A p, q \in req[r].existing : p.game = q.game => p = q
    BY <1>1, NoRequestOK
  <1>3. TypeOK
    BY <1>2, NoRequestOK, Numbers DEF Init, TypeOK, Statuses
  <1> QED BY <1>1, <1>3, NoRequestOK DEF IInv, Holds

LEMMA StepOK == IInv /\ [Next]_vars => IInv'
  <1> SUFFICES ASSUME IInv, [Next]_vars PROVE IInv'
    OBVIOUS
  <1>1. ASSUME NEW r \in Requests, NEW u \in Users, NEW b \in Batches, NEW d \in Days,
               Arrive(r, u, b, d)
        PROVE  IInv'
    BY <1>1, ArriveOK
  <1>2. ASSUME NEW r \in Requests, LockParticipant(r) \/ Validate(r) \/ Store(r)
        PROVE  IInv'
    BY <1>2, LockParticipantOK, ValidateOK, StoreOK
  <1>3. CASE LockUpdate
    BY <1>3, LockUpdateOK
  <1>4. CASE Tick
    BY <1>4, TickOK
  <1> QED BY <1>1, <1>2, <1>3, <1>4, OthersOK DEF Next

\* The first invariant holds in every behaviour.
THEOREM Inductive == Spec => []IInv
  BY InitOK, StepOK, PTL DEF Spec

\* The rows, the requests and the rest have their types, and no two rows the
\* same key, whatever submissions, jobs and admins do (api/picks.py).
THEOREM TypeCorrect == Spec => []TypeOK
  <1>1. IInv => TypeOK
    BY DEF IInv
  <1> QED BY <1>1, Inductive, PTL

-----------------------------------------------------------------------------
(* Who may change what, and when *)

\* Only Store takes a request away from "store".
LEMMA StoredByStore ==
  ASSUME IInv, [Next]_vars, NEW r \in Requests, Stored(r)
  PROVE  Store(r)
  <1>1. req' # req /\ req[r] \in Request /\ req \in [Requests -> Request]
    BY DEF Stored, IInv, TypeOK
  <1>2. ASSUME NEW s \in Requests, NEW u, NEW b, NEW d, Arrive(s, u, b, d) PROVE FALSE
    <2>1. s # r
      BY <1>2 DEF Arrive, Stored
    <2> QED BY <1>1, <1>2, <2>1 DEF Arrive, Stored
  <1>3. ASSUME NEW s \in Requests, LockParticipant(s) PROVE FALSE
    <2>1. s # r
      BY <1>3 DEF LockParticipant, Stored
    <2> QED BY <1>1, <1>3, <2>1 DEF LockParticipant, Stored
  <1>4. ASSUME NEW s \in Requests, Validate(s) PROVE FALSE
    <2>1. s # r
      BY <1>4 DEF Validate, Stored
    <2>2. PICK y : req' = [req EXCEPT ![s] = y]
      BY <1>4, Validated DEF IInv
    <2> QED BY <1>1, <2>1, <2>2 DEF Stored
  <1>5. ASSUME NEW s \in Requests, Store(s) PROVE s = r
    BY <1>1, <1>5 DEF Store, Stored
  <1> QED BY <1>1, <1>2, <1>3, <1>4, <1>5
    DEF Next, vars, LockSelect, LockUpdate, StatusJob, ForceStatus, RemoveParticipant, Join,
        GameMoves, Tick

\* The steps that change a choice are submissions.
LEMMA ChoicesChange ==
  ASSUME IInv, [Next]_vars, Choices(picks') # Choices(picks)
  PROVE  \E r \in Requests : Store(r)
  <1>1. CASE LockUpdate
    <2>1. /\ \A q \in picks' : \E p \in picks : Marked(p, q)
          /\ \A p \in picks : \E q \in picks' : Marked(p, q)
      BY <1>1, LockShape DEF IInv
    <2>2. \A c \in Choices(picks') : c \in Choices(picks)
      BY <2>1 DEF Choices, Marked
    <2>3. \A c \in Choices(picks) : c \in Choices(picks')
      BY <2>1 DEF Choices, Marked
    <2> QED BY <2>2, <2>3
  <1>2. CASE UNCHANGED picks
    BY <1>2
  <1> QED BY <1>1, <1>2
    DEF Next, vars, Arrive, LockParticipant, Validate, LockSelect, StatusJob, ForceStatus,
        RemoveParticipant, Join, GameMoves, Tick

\* A submission changes only choices on games that were open when it began.
LEMMA ChangesAreOpen ==
  ASSUME IInv, NEW r \in Requests, Store(r),
         NEW c \in (Choices(picks) \ Choices(picks')) \cup (Choices(picks') \ Choices(picks))
  PROVE  Open(req[r].now, c[2])
  <1> DEFINE x == req[r]
  <1>1. /\ \A q \in picks' : \/ \E p \in picks : FromKept(x, p, q)
                             \/ \E i \in Inserted(x) : FromItem(x, i, q)
        /\ \A p \in picks : Kept(x, p) => \E q \in picks' : FromKept(x, p, q)
    BY StoreShape DEF IInv
  <1> HIDE DEF x
  <1>2. ASSUME NEW g \in BatchGames(Written(x)) PROVE Open(x.now, g)
    BY DEF BatchGames, Written
  <1>3. ASSUME NEW p \in picks, NEW q \in picks', FromKept(x, p, q), p.team # q.team
        PROVE  Open(x.now, p.game)
    BY <1>2, <1>3 DEF FromKept
  <1>4. CASE c \in Choices(picks) \ Choices(picks')
    <2>1. PICK p \in picks : c = <<p.user, p.game, p.copy, p.team>>
      BY <1>4 DEF Choices
    <2>2. CASE Kept(x, p)
      <3>1. PICK q \in picks' : FromKept(x, p, q)
        BY <1>1, <2>2
      <3>2. <<q.user, q.game, q.copy, q.team>> \in Choices(picks')
        BY DEF Choices
      <3>3. p.team # q.team
        BY <1>4, <2>1, <3>1, <3>2 DEF FromKept, SameRow
      <3> QED BY <1>3, <2>1, <3>1, <3>3 DEF x
    <2>3. CASE ~Kept(x, p)
      <3>1. PICK e \in Deleted(x) : Key(p) = Key(e)
        BY <2>3 DEF Kept
      <3>2. Open(x.now, e.game) /\ e.game = p.game
        BY <3>1, KeyFields DEF Deleted, Deselected
      <3> QED BY <2>1, <3>2 DEF x
    <2> QED BY <2>2, <2>3
  <1>5. CASE c \in Choices(picks') \ Choices(picks)
    <2>1. PICK q \in picks' : c = <<q.user, q.game, q.copy, q.team>>
      BY <1>5 DEF Choices
    <2>2. CASE \E p \in picks : FromKept(x, p, q)
      <3>1. PICK p \in picks : FromKept(x, p, q)
        BY <2>2
      <3>2. <<p.user, p.game, p.copy, p.team>> \in Choices(picks)
        BY DEF Choices
      <3>3. p.team # q.team /\ p.game = q.game
        BY <1>5, <2>1, <3>1, <3>2 DEF FromKept, SameRow
      <3> QED BY <1>3, <2>1, <3>1, <3>3 DEF x
    <2>3. CASE \E i \in Inserted(x) : FromItem(x, i, q)
      BY <2>1, <2>3 DEF Inserted, Written, FromItem, x
    <2> QED BY <1>1, <2>2, <2>3
  <1> QED BY <1>4, <1>5

\* For any schedule, batches and overlap, a choice is only changed before its
\* game starts, give or take the time of a handler (the check of the start time
\* in create_daily_picks_batch).
THEOREM ChangesAlwaysStop == Spec => ChangesStopAtStart
  <1>1. ASSUME IInv, [Next]_vars,
               NEW c \in (Choices(picks) \ Choices(picks')) \cup (Choices(picks') \ Choices(picks))
        PROVE  clock < Scheduled[c[2]] + Grace
    <2>1. PICK r \in Requests : Store(r)
      BY <1>1, ChoicesChange
    <2>2. Open(req[r].now, c[2])
      BY <1>1, <2>1, ChangesAreOpen
    <2>3. /\ HeldOK(r) /\ req[r].now \in Nat /\ clock \in Nat
      BY <1>1, <2>1, Numbers DEF IInv, Holds, Store, TypeOK, Request
    <2>4. c[2] \in Games /\ Scheduled[c[2]] \in Nat
      <3>1. picks \subseteq PickRow /\ picks' \subseteq PickRow
        BY <1>1, <2>1, StoreShape DEF IInv, TypeOK
      <3>2. c[2] \in Games
        BY <3>1 DEF Choices, PickRow
      <3> QED BY <3>2, TimesAssumption
    <2> QED BY <2>2, <2>3, <2>4, Numbers DEF Open, HeldOK
  <1>2. IInv /\ [Next]_vars =>
          [\A c \in (Choices(picks) \ Choices(picks')) \cup (Choices(picks') \ Choices(picks)) :
             clock < Scheduled[c[2]] + Grace]_vars
    BY <1>1
  <1> QED BY <1>2, Inductive, PTL DEF Spec, ChangesStopAtStart

\* Nobody who was removed has a submission stored, however long it waited: the
\* row lock is held from the look-up to the commit (remove_participant).
THEOREM AlwaysParticipants == Spec => PicksOfParticipantsOnly
  <1>1. ASSUME IInv, [Next]_vars, NEW r \in Requests, Stored(r)
        PROVE  req[r].user \in participants
    BY <1>1 DEF Stored, IInv, Holds, HeldOK
  <1>2. IInv /\ [Next]_vars =>
          [\A r \in Requests : Stored(r) => req[r].user \in participants]_vars
    BY <1>1
  <1> QED BY <1>2, Inductive, PTL DEF Spec, PicksOfParticipantsOnly

\* Admins leave the status alone, and no game is played before its start.
Orderly == ~Forcing /\ \A g \in Games : Scheduled[g] <= Kickoff[g]

LEMMA OverStep ==
  ASSUME ~Forcing, IInv, OverOK, [Next]_vars
  PROVE  OverOK'
  <1>1. clock \in Nat /\ clock' \in Nat /\ clock <= clock'
    <2>1. clock \in Nat
      BY Numbers DEF IInv, TypeOK
    <2>2. clock' = clock \/ clock' = clock + 1
      BY DEF Next, vars, Arrive, LockParticipant, Validate, Store, LockSelect, LockUpdate,
             StatusJob, ForceStatus, RemoveParticipant, Join, GameMoves, Tick
    <2> QED BY <2>1, <2>2
  <1>2. \A g \in Games : Kickoff[g] \in Nat
    BY TimesAssumption
  <1>3. CASE \E g \in Games : GameMoves(g)
    <2>1. PICK g \in Games : GameMoves(g)
      BY <1>3
    <2>2. \A h \in Games : played'[h] = "final" /\ played[h] # "final" =>
            Kickoff[h] + Grace <= clock
      BY <2>1 DEF GameMoves, IInv, TypeOK
    <2>3. \A h \in Games : played[h] = "final" => played'[h] = "final"
      BY <2>1 DEF GameMoves, IInv, TypeOK
    <2>4. clock' = clock /\ status' = status
      BY <2>1 DEF GameMoves
    <2> QED BY <2>2, <2>3, <2>4 DEF OverOK
  <1>4. CASE StatusJob
    BY <1>4 DEF StatusJob, Completes, OverOK
  <1>5. CASE UNCHANGED <<played, status>>
    BY <1>1, <1>2, <1>5, Numbers DEF OverOK
  <1> QED BY <1>3, <1>4, <1>5
    DEF Next, vars, Arrive, LockParticipant, Validate, Store, LockSelect, LockUpdate, ForceStatus,
        RemoveParticipant, Join, Tick

\* The competition is completed when all games are over, and a handler that
\* was let in before the start of a game is done by the time the game is over
\* (update_competition_statuses, create_daily_picks_batch).
THEOREM AlwaysFrozen ==
  ASSUME Orderly
  PROVE  Spec => FrozenWhenCompleted
  <1>1. Init => OverOK
    BY DEF Init, OverOK
  <1>2. IInv /\ OverOK /\ [Next]_vars => OverOK'
    BY OverStep DEF Orderly
  <1>3. ASSUME IInv, OverOK, [Next]_vars, status = "completed"
        PROVE  Choices(picks') = Choices(picks)
    <2>1. SUFFICES ASSUME Choices(picks') # Choices(picks) PROVE FALSE
      OBVIOUS
    <2>2. PICK r \in Requests : Store(r)
      BY <1>3, <2>1, ChoicesChange
    <2>3. PICK c \in (Choices(picks) \ Choices(picks'))
                     \cup (Choices(picks') \ Choices(picks)) : TRUE
      BY <2>1
    <2>4. Open(req[r].now, c[2])
      BY <1>3, <2>2, ChangesAreOpen
    <2>5. /\ HeldOK(r) /\ req[r].now \in Nat /\ clock \in Nat
      BY <1>3, <2>2, Numbers DEF IInv, Holds, Store, TypeOK, Request
    <2>6. c[2] \in Games
      <3>1. picks \subseteq PickRow /\ picks' \subseteq PickRow
        BY <1>3, <2>2, StoreShape DEF IInv, TypeOK
      <3> QED BY <3>1 DEF Choices, PickRow
    <2>7. Kickoff[c[2]] + Grace <= clock /\ Scheduled[c[2]] <= Kickoff[c[2]]
      BY <1>3, <2>6 DEF OverOK, Orderly
    <2>8. Scheduled[c[2]] \in Nat /\ Kickoff[c[2]] \in Nat
      BY <2>6, TimesAssumption
    <2> QED BY <2>4, <2>5, <2>7, <2>8, Numbers DEF Open, HeldOK
  <1>4. IInv /\ OverOK /\ [Next]_vars =>
          [status = "completed" => Choices(picks') = Choices(picks)]_vars
    BY <1>3
  <1> QED BY <1>1, <1>2, <1>4, Inductive, PTL DEF Spec, FrozenWhenCompleted

-----------------------------------------------------------------------------
(* Counting rows *)

\* Rows on different games are at most as many as the games.
LEMMA GameCount ==
  ASSUME NEW S, \A p, q \in S : p.game = q.game => p = q,
         NEW T, IsFiniteSet(T), \A p \in S : p.game \in T
  PROVE  IsFiniteSet(S) /\ Cardinality(S) <= Cardinality(T)
  <1> DEFINE f == [p \in S |-> p.game]
  <1>1. f \in Injection(S, T)
    BY DEF Injection, IsInjective
  <1> HIDE DEF f
  <1> QED BY <1>1, FS_Injection

\* Rows with different keys are at most as many as the rows with those keys.
LEMMA KeyCount ==
  ASSUME NEW S, \A p, q \in S : Key(p) = Key(q) => p = q,
         NEW T, IsFiniteSet(T), \A p \in S : \E q \in T : Key(q) = Key(p)
  PROVE  IsFiniteSet(S) /\ Cardinality(S) <= Cardinality(T)
  <1> DEFINE f == [p \in S |-> CHOOSE q \in T : Key(q) = Key(p)]
  <1>1. \A p \in S : f[p] \in T /\ Key(f[p]) = Key(p)
    OBVIOUS
  <1>2. f \in [S -> T]
    BY <1>1
  <1> HIDE DEF f
  <1>3. f \in Injection(S, T)
    BY <1>1, <1>2 DEF Injection, IsInjective
  <1> QED BY <1>3, FS_Injection

\* The rows have at least as many members as games; so has a batch.
LEMMA GamesCount ==
  ASSUME NEW S, IsFiniteSet(S)
  PROVE  /\ IsFiniteSet(GamesOf(S)) /\ Cardinality(GamesOf(S)) <= Cardinality(S)
         /\ IsFiniteSet(BatchGames(S)) /\ Cardinality(BatchGames(S)) <= Cardinality(S)
  <1> DEFINE f == [p \in S |-> p.game]
             h == [i \in S |-> i[1]]
  <1>1. f \in Surjection(S, GamesOf(S)) /\ h \in Surjection(S, BatchGames(S))
    BY DEF Surjection, GamesOf, BatchGames
  <1> HIDE DEF f, h
  <1> QED BY <1>1, FS_Surjection

LEMMA UnionCount ==
  ASSUME NEW S, IsFiniteSet(S), NEW T, IsFiniteSet(T)
  PROVE  IsFiniteSet(S \cup T) /\ Cardinality(S \cup T) <= Cardinality(S) + Cardinality(T)
  <1>1. Cardinality(S) \in Nat /\ Cardinality(T) \in Nat
    BY FS_CardinalityType
  <1>2. IsFiniteSet(S \cap T) /\ Cardinality(S \cap T) \in Nat
    BY FS_Subset, FS_CardinalityType
  <1>3. /\ IsFiniteSet(S \cup T)
        /\ Cardinality(S \cup T) = Cardinality(S) + Cardinality(T) - Cardinality(S \cap T)
    BY FS_Union
  <1> QED BY <1>1, <1>2, <1>3

-----------------------------------------------------------------------------
(* Days and keys *)

\* Submissions are for the current day, and a batch names no game twice.
\* Without the one or the other the code makes picks twice and goes over the
\* limit: a pick of another day, or the second one on a game, is not found.
ForToday == ~AnyDate /\ \A b \in Batches : \A i, j \in b : i[1] = j[1] => i = j

\* The rows of a user have the same keys and days before and after.
SameDays(rows, after, u) ==
    /\ \A q \in after : q.user = u => \E p \in rows : Key(p) = Key(q) /\ p.day = q.day
    /\ \A p \in rows : p.user = u => \E q \in after : Key(p) = Key(q) /\ p.day = q.day

LEMMA KeysStay ==
  ASSUME NEW rows, NEW after, NEW x, SameDays(rows, after, x.user)
  PROVE  /\ SameKeys(rows, x) => SameKeys(after, x)
         /\ Latest(rows, x) => Latest(after, x)
  <1>1. ASSUME Latest(rows, x) PROVE Latest(after, x)
    BY <1>1, KeyFields DEF Latest, SameDays
  <1>2. ASSUME SameKeys(rows, x) PROVE SameKeys(after, x)
    <2>1. ASSUME NEW q \in after, q.user = x.user, q.day = x.day
          PROVE  \E p \in x.existing : Key(p) = Key(q)
      <3>1. PICK p \in rows : Key(p) = Key(q) /\ p.day = q.day
        BY <2>1 DEF SameDays
      <3>2. p.user = x.user /\ p.day = x.day
        BY <2>1, <3>1, KeyFields
      <3> QED BY <1>2, <3>1, <3>2 DEF SameKeys
    <2>2. ASSUME NEW e \in x.existing
          PROVE  \E q \in after : Key(e) = Key(q) /\ q.day = x.day
      <3>1. PICK p \in rows : Key(e) = Key(p) /\ p.day = x.day
        BY <1>2 DEF SameKeys
      <3>2. p.user = x.user
        BY <1>2, <3>1, KeyFields DEF SameKeys
      <3>3. PICK q \in after : Key(p) = Key(q) /\ p.day = q.day
        BY <3>2 DEF SameDays
      <3> QED BY <3>1, <3>3
    <2> QED BY <1>2, <2>1, <2>2 DEF SameKeys
  <1> QED BY <1>1, <1>2

\* The picks stay; the request goes on to y.
LEMMA RequestDay ==
  ASSUME IInv, DayInv, NEW r \in Requests, NEW y \in Request,
         y.pc \in {"validate", "store"} =>
           /\ Latest(picks, y)
           /\ \A s \in Requests : s # r /\ Holds(s) => req[s].user # y.user,
         y.pc = "store" => Checked(picks, y),
         req' = [req EXCEPT ![r] = y],
         UNCHANGED <<clock, picks>>
  PROVE  DayInv'
  <1>1. /\ req'[r] = y
        /\ \A s \in Requests : s # r => req'[s] = req[s]
    BY OneRequest DEF IInv
  <1>2. (\A s, t \in Requests : Holds(s) /\ Holds(t) /\ req[s].user = req[t].user => s = t)'
    BY <1>1 DEF DayInv, Holds
  <1>3. \A s \in Requests : req'[s].pc \in {"validate", "store"} => Latest(picks', req'[s])
    BY <1>1 DEF DayInv, Holds
  <1>4. \A s \in Requests : req'[s].pc = "store" => Checked(picks', req'[s])
    BY <1>1 DEF DayInv
  <1>5. (OnePickPerGameAndDay /\ LimitPerDay)'
    BY DEF DayInv, OnePickPerGameAndDay, LimitPerDay, PicksOf
  <1>6. IsFiniteSet(picks') /\ \A p \in picks' : p.day <= Day(clock')
    BY DEF DayInv
  <1> QED BY <1>2, <1>3, <1>4, <1>5, <1>6 DEF DayInv, Holds

LEMMA ArriveDay ==
  ASSUME IInv, DayInv, NEW r \in Requests, NEW u \in Users, NEW b \in Batches, NEW d \in Days,
         Arrive(r, u, b, d)
  PROVE  DayInv'
  <1> DEFINE y == [NoRequest EXCEPT !.pc = "waiting", !.user = u, !.batch = b, !.day = d]
  <1>1. y \in Request /\ y.pc = "waiting"
    <2> DEFINE old == NoRequest
    <2>1. old \in Request
      BY NoRequestOK
    <2>2. y = [old EXCEPT !.pc = "waiting", !.user = u, !.batch = b, !.day = d]
      OBVIOUS
    <2> HIDE DEF y, old
    <2> QED BY <2>1, <2>2 DEF Request
  <1>2. req' = [req EXCEPT ![r] = y]
    BY DEF Arrive
  <1> HIDE DEF y
  <1> QED BY <1>1, <1>2, RequestDay DEF Arrive

\* The day of the request is the current one, and nobody else has the row.
LEMMA LockParticipantDay ==
  ASSUME ~AnyDate, IInv, DayInv, NEW r \in Requests, LockParticipant(r)
  PROVE  DayInv'
  <1>1. CASE req[r].user \notin participants
    <2>1. req' = [req EXCEPT ![r] = NoRequest]
      BY <1>1 DEF LockParticipant
    <2> QED BY <2>1, NoRequestOK, RequestDay DEF LockParticipant
  <1>2. CASE req[r].user \in participants
    <2>1. PICK y \in Request :
           /\ y.pc = "validate" /\ y.user = req[r].user /\ y.now = clock
           /\ y.day = Today(req[r]) /\ y.existing = req[r].existing
           /\ req' = [req EXCEPT ![r] = y]
      BY <1>2, Locked DEF IInv
    <2>2. Latest(picks, y)
      BY <2>1 DEF Today, Latest, DayInv
    <2>3. \A s \in Requests : s # r /\ Holds(s) => req[s].user # y.user
      BY <1>2, <2>1 DEF LockParticipant, Free, Holders, Holds
    <2> QED BY <2>1, <2>2, <2>3, RequestDay DEF LockParticipant
  <1> QED BY <1>1, <1>2

\* As no two picks of the day are on one game, all of them are loaded.
LEMMA ValidateDay ==
  ASSUME IInv, DayInv, NEW r \in Requests, Validate(r)
  PROVE  DayInv'
  <1>1. CASE req' = [req EXCEPT ![r] = NoRequest]
    BY <1>1, NoRequestOK, RequestDay DEF Validate
  <1>2. ASSUME NEW E \in ExistingByGame(req[r]), NEW x \in Request,
               x.existing = E, x.user = req[r].user, x.day = req[r].day, x.now = req[r].now,
               WithinLimit(x), NothingNewStarted(x),
               req' = [req EXCEPT ![r] = x]
        PROVE  DayInv'
    <2>1. Holds(r)
      BY DEF Holds, Validate
    <2>2. Latest(picks, x)
      BY <1>2, <2>1 DEF DayInv, Latest
    <2>3. \A s \in Requests : s # r /\ Holds(s) => req[s].user # x.user
      BY <1>2, <2>1 DEF DayInv
    <2> DEFINE window == {p \in picks : p.user = x.user /\ p.day = x.day}
    <2>4. E \subseteq window /\ GamesOf(E) = GamesOf(window)
      BY <1>2 DEF ExistingByGame
    <2>5. \A p, q \in window : p.game = q.game => p = q
      BY DEF DayInv, OnePickPerGameAndDay, PicksOf, IInv, TypeOK, PickRow
    <2>6. ASSUME NEW q \in window PROVE q \in E
      <3>1. q.game \in GamesOf(window)
        BY DEF GamesOf
      <3>2. PICK p \in E : p.game = q.game
        BY <2>4, <3>1 DEF GamesOf
      <3> QED BY <2>4, <2>5, <3>2
    <2>7. SameKeys(picks, x)
      BY <1>2, <2>4, <2>6 DEF SameKeys
    <2>8. IsFiniteSet(x.existing)
      BY <1>2, <2>4, FS_Subset DEF DayInv
    <2> QED BY <1>2, <2>2, <2>3, <2>7, <2>8, RequestDay DEF Validate, Checked
  <1> QED BY <1>1, <1>2, Validated DEF IInv

-----------------------------------------------------------------------------
(* A submission and the picks of the day *)

\* What the submission that stores knows when it does.
LEMMA StoreKnows ==
  ASSUME IInv, DayInv, NEW r \in Requests, Store(r), NEW x, x = req[r]
  PROVE  /\ Latest(picks, x) /\ Checked(picks, x)
         /\ x.day \in Nat /\ x.day <= Day(clock) /\ Day(clock) \in Days /\ Day(clock) \in Nat
         /\ \A p \in picks : p.user = x.user /\ p.day = Day(clock) =>
              p.day = x.day /\ \E e \in x.existing : Key(e) = Key(p)
  <1>1. Holds(r) /\ x.pc = "store" /\ x \in Request
    BY DEF Holds, Store, IInv, TypeOK
  <1>2. Latest(picks, x) /\ Checked(picks, x)
    BY <1>1 DEF DayInv
  <1>3. clock \in 0..MaxTime /\ clock \in Nat /\ x.now \in Nat /\ x.now <= clock
    BY <1>1, Numbers DEF IInv, HeldOK, TypeOK, Request
  <1>4. Day(x.now) \in Nat /\ Day(clock) \in Nat /\ Day(x.now) <= Day(clock) /\ Day(clock) \in Days
    BY <1>3, DayGrows, DayType
  <1>5. x.day = Day(x.now)
    BY <1>2 DEF Latest
  <1>6. ASSUME NEW p \in picks, p.user = x.user, p.day = Day(clock)
        PROVE  p.day = x.day /\ \E e \in x.existing : Key(e) = Key(p)
    <2>1. p.day <= x.day
      BY <1>2, <1>6 DEF Latest
    <2>2. p.day = x.day
      BY <1>4, <1>5, <1>6, <2>1
    <2> QED BY <1>2, <1>6, <2>2 DEF Checked, SameKeys
  <1> QED BY <1>2, <1>4, <1>5, <1>6

LEMMA StoreOnePick ==
  ASSUME ForToday, IInv, DayInv, NEW r \in Requests, Store(r)
  PROVE  OnePickPerGameAndDay'
  <1> DEFINE x == req[r]
  <1>1. /\ x \in Request /\ picks \subseteq PickRow
        /\ \A p, q \in picks' : Key(p) = Key(q) => p = q
        /\ \A q \in picks' : \/ \E p \in picks : FromKept(x, p, q)
                             \/ \E i \in Inserted(x) : FromItem(x, i, q)
        /\ \A i \in Inserted(x) : \A p, q \in picks' :
             FromItem(x, i, p) /\ FromItem(x, i, q) => p = q
    BY StoreShape DEF IInv, TypeOK
  <1>2. \A p \in picks : p.user = x.user /\ p.day = Day(clock) =>
              p.day = x.day /\ \E e \in x.existing : Key(e) = Key(p)
    BY StoreKnows
  <1> HIDE DEF x
  <1>3. ASSUME NEW p, NEW q, NEW a \in picks, FromKept(x, a, p),
               NEW i \in Inserted(x), FromItem(x, i, q),
               p.user = q.user, p.day = q.day, p.game = q.game
        PROVE  FALSE
    <2>1. a.user = x.user /\ a.day = Day(clock) /\ a.game = i[1]
      BY <1>3 DEF FromKept, SameRow, FromItem
    <2>2. PICK e \in x.existing : Key(e) = Key(a)
      BY <1>2, <2>1
    <2>3. i[1] \in GamesOf(x.existing)
      BY <2>1, <2>2, KeyFields DEF GamesOf
    <2> QED BY <2>3 DEF Inserted
  <1>4. ASSUME NEW p \in picks', NEW q \in picks', p.user = q.user, p.day = q.day, p.game = q.game
        PROVE  p = q
    <2>1. ASSUME NEW a \in picks, FromKept(x, a, p), NEW b \in picks, FromKept(x, b, q)
          PROVE  p = q
      <3>1. a.user = b.user /\ a.day = b.day /\ a.game = b.game
        BY <1>4, <2>1 DEF FromKept, SameRow
      <3>2. a = b
        BY <1>1, <3>1 DEF DayInv, OnePickPerGameAndDay, PicksOf, PickRow
      <3>3. Key(p) = Key(q)
        BY <2>1, <3>2, KeyFields DEF FromKept, SameRow
      <3> QED BY <1>1, <3>3
    <2>2. ASSUME NEW i \in Inserted(x), FromItem(x, i, p), NEW j \in Inserted(x), FromItem(x, j, q)
          PROVE  p = q
      <3>1. i[1] = j[1]
        BY <1>4, <2>2 DEF FromItem
      <3>2. i = j
        BY <1>1, <3>1 DEF ForToday, Inserted, Written, Request
      <3> QED BY <1>1, <2>2, <3>2
    <2> QED BY <1>1, <1>3, <1>4, <2>1, <2>2
  <1> QED BY <1>4 DEF OnePickPerGameAndDay, PicksOf

\* The picks of the day after the submission are on games of the batch, or
\* are those the batch may not touch: the limit counts both.
LEMMA StoreLimit ==
  ASSUME ForToday, IInv, DayInv, NEW r \in Requests, Store(r)
  PROVE  LimitPerDay'
  <1> DEFINE x == req[r]
             S(u, d) == {p \in picks' : p.user = u /\ p.day = d}
  <1>1. /\ x \in Request /\ picks \subseteq PickRow /\ IsFiniteSet(picks)
        /\ \A p, q \in picks' : Key(p) = Key(q) => p = q
        /\ \A q \in picks' : \/ \E p \in picks : FromKept(x, p, q)
                             \/ \E i \in Inserted(x) : FromItem(x, i, q)
    BY StoreShape DEF IInv, TypeOK, DayInv
  <1>2. \A p \in picks : p.user = x.user /\ p.day = Day(clock) =>
              p.day = x.day /\ \E e \in x.existing : Key(e) = Key(p)
    BY StoreKnows
  <1>3. Checked(picks, x)
    BY StoreKnows
  <1>4. \A u \in Users, d \in Days : \A p, q \in S(u, d) : p.game = q.game => p = q
    BY StoreOnePick DEF OnePickPerGameAndDay, PicksOf
  <1>5. x.batch \in Batches
    BY <1>1 DEF Request
  <1> HIDE DEF x
  <1>6. ASSUME NEW u \in Users, NEW d \in Days, u # x.user \/ d # Day(clock)
        PROVE  Cardinality(S(u, d)) <= MaxPicks
    <2>1. \A q \in S(u, d) : \E p \in PicksOf(u, d) : Key(p) = Key(q)
      <3> TAKE q \in S(u, d)
      <3>1. ~ \E i \in Inserted(x) : FromItem(x, i, q)
        BY <1>6 DEF FromItem
      <3>2. PICK p \in picks : FromKept(x, p, q)
        BY <1>1, <3>1
      <3> QED BY <3>2, KeyFields DEF FromKept, SameRow, PicksOf
    <2>2. IsFiniteSet(PicksOf(u, d)) /\ Cardinality(PicksOf(u, d)) \in Nat
      BY <1>1, FS_Subset, FS_CardinalityType DEF PicksOf
    <2>3. \A p, q \in S(u, d) : Key(p) = Key(q) => p = q
      BY <1>1
    <2> DEFINE A == S(u, d)
    <2> HIDE DEF A
    <2>4. IsFiniteSet(A) /\ Cardinality(A) <= Cardinality(PicksOf(u, d))
      BY <2>1, <2>2, <2>3, KeyCount DEF A
    <2>5. Cardinality(A) \in Nat /\ Cardinality(PicksOf(u, d)) <= MaxPicks
      BY <2>4, FS_CardinalityType DEF DayInv, LimitPerDay
    <2> QED BY <2>2, <2>4, <2>5, Numbers DEF A
  <1>7. ASSUME NEW u \in Users, NEW d \in Days, u = x.user, d = Day(clock)
        PROVE  Cardinality(S(u, d)) <= MaxPicks
    <2> DEFINE L == LockedNotInBatch(x)
               T == GamesOf(L) \cup BatchGames(x.batch)
               A == S(u, d)
    <2>1. IsFiniteSet(L) /\ IsFiniteSet(x.batch)
      BY <1>3, <1>5, BatchType, FS_Subset DEF Checked, LockedNotInBatch
    <2>2. \A q \in A : q.game \in T
      <3> TAKE q \in A
      <3>1. CASE \E i \in Inserted(x) : FromItem(x, i, q)
        BY <3>1 DEF FromItem, Inserted, Written, BatchGames
      <3>2. CASE \E p \in picks : FromKept(x, p, q)
        <4>1. PICK p \in picks : FromKept(x, p, q)
          BY <3>2
        <4>2. PICK e \in x.existing : Key(e) = Key(p)
          BY <1>2, <1>7, <4>1 DEF FromKept, SameRow
        <4>3. e \notin Deleted(x)
          BY <4>1, <4>2 DEF FromKept, Kept
        <4>4. e \in L \/ e.game \in BatchGames(x.batch)
          BY <4>3 DEF Deleted, Deselected, LockedNotInBatch
        <4>5. e.game = q.game
          BY <4>1, <4>2, KeyFields DEF FromKept, SameRow
        <4> QED BY <4>4, <4>5 DEF GamesOf
      <3> QED BY <1>1, <3>1, <3>2
    <2>3. \A p, q \in A : p.game = q.game => p = q
      BY <1>4
    <2>4. /\ IsFiniteSet(GamesOf(L)) /\ Cardinality(GamesOf(L)) <= Cardinality(L)
          /\ IsFiniteSet(BatchGames(x.batch))
          /\ Cardinality(BatchGames(x.batch)) <= Cardinality(x.batch)
      BY <2>1, GamesCount
    <2>5. /\ IsFiniteSet(T)
          /\ Cardinality(T) <= Cardinality(GamesOf(L)) + Cardinality(BatchGames(x.batch))
      BY <2>4, UnionCount
    <2>6. Cardinality(L) + Cardinality(x.batch) <= MaxPicks
      BY <1>3 DEF Checked, WithinLimit
    <2> HIDE DEF A, T, L
    <2>7. IsFiniteSet(A) /\ Cardinality(A) <= Cardinality(T)
      BY <2>2, <2>3, <2>5, GameCount
    <2>8. /\ Cardinality(A) \in Nat /\ Cardinality(T) \in Nat
          /\ Cardinality(L) \in Nat /\ Cardinality(x.batch) \in Nat
          /\ Cardinality(GamesOf(L)) \in Nat /\ Cardinality(BatchGames(x.batch)) \in Nat
      BY <2>1, <2>4, <2>5, <2>7, FS_CardinalityType
    <2>9. Cardinality(A) <= MaxPicks
      BY <2>4, <2>5, <2>6, <2>7, <2>8, Numbers
    <2> QED BY <2>9 DEF A
  <1> QED BY <1>6, <1>7 DEF LimitPerDay, PicksOf

\* To everybody else a submission changes nothing.
LEMMA StoreOthers ==
  ASSUME IInv, DayInv, NEW r \in Requests, Store(r), NEW u, u # req[r].user
  PROVE  SameDays(picks, picks', u)
  <1> DEFINE x == req[r]
  <1>1. /\ \A q \in picks' : \/ \E p \in picks : FromKept(x, p, q)
                             \/ \E i \in Inserted(x) : FromItem(x, i, q)
        /\ \A p \in picks : Kept(x, p) => \E q \in picks' : FromKept(x, p, q)
    BY StoreShape DEF IInv
  <1>2. SameKeys(picks, x)
    BY StoreKnows DEF Checked
  <1>3. u # x.user
    OBVIOUS
  <1> HIDE DEF x
  <1>4. ASSUME NEW q \in picks', q.user = u
        PROVE  \E p \in picks : Key(p) = Key(q) /\ p.day = q.day
    <2>1. ~ \E i \in Inserted(x) : FromItem(x, i, q)
      BY <1>3, <1>4 DEF FromItem
    <2>2. PICK p \in picks : FromKept(x, p, q)
      BY <1>1, <2>1
    <2> QED BY <2>2, KeyFields DEF FromKept, SameRow
  <1>5. ASSUME NEW p \in picks, p.user = u
        PROVE  \E q \in picks' : Key(p) = Key(q) /\ p.day = q.day
    <2>1. ASSUME NEW e \in Deleted(x) PROVE Key(e) # Key(p)
      BY <1>2, <1>3, <1>5, KeyFields DEF Deleted, Deselected, SameKeys
    <2>2. Kept(x, p)
      BY <2>1 DEF Kept
    <2>3. PICK q \in picks' : FromKept(x, p, q)
      BY <1>1, <2>2
    <2> QED BY <2>3, KeyFields DEF FromKept, SameRow
  <1> QED BY <1>4, <1>5 DEF SameDays

LEMMA StoreDay ==
  ASSUME ForToday, IInv, DayInv, NEW r \in Requests, Store(r)
  PROVE  DayInv'
  <1> DEFINE x == req[r]
  <1>1. /\ req' = [req EXCEPT ![r] = NoRequest] /\ clock' = clock
        /\ \A q \in picks' : \/ \E p \in picks : FromKept(x, p, q)
                             \/ \E i \in Inserted(x) : FromItem(x, i, q)
        /\ IsFiniteSet(picks')
    BY StoreShape DEF IInv, DayInv
  <1>2. /\ req'[r].pc = "idle"
        /\ \A s \in Requests : s # r => req'[s] = req[s]
    BY <1>1, NoRequestOK, OneRequest DEF IInv
  <1>3. Holds(r) /\ Day(clock) \in Nat
    BY StoreKnows DEF Holds, Store
  <1>4. \A p \in picks' : p.day <= Day(clock')
    <2>1. \A p \in picks : p.day <= Day(clock)
      BY DEF DayInv
    <2> HIDE DEF x
    <2>2. ASSUME NEW q \in picks' PROVE q.day <= Day(clock)
      <3>1. CASE \E i \in Inserted(x) : FromItem(x, i, q)
        BY <1>3, <3>1 DEF FromItem
      <3>2. CASE \E p \in picks : FromKept(x, p, q)
        BY <2>1, <3>2 DEF FromKept, SameRow
      <3> QED BY <1>1, <3>1, <3>2
    <2> QED BY <1>1, <2>2
  <1>5. (\A s, t \in Requests : Holds(s) /\ Holds(t) /\ req[s].user = req[t].user => s = t)'
    BY <1>2 DEF DayInv, Holds
  <1>6. ASSUME NEW s \in Requests, req'[s].pc \in {"validate", "store"}
        PROVE  Latest(picks', req'[s]) /\ (req'[s].pc = "store" => Checked(picks', req'[s]))
    <2>1. s # r /\ req'[s] = req[s] /\ Holds(s)
      BY <1>2, <1>6 DEF Holds
    <2>2. req[s].user # req[r].user
      BY <1>3, <2>1 DEF DayInv
    <2> DEFINE y == req[s]
    <2>3. SameDays(picks, picks', y.user)
      BY <2>2, StoreOthers
    <2>4. Latest(picks, y) /\ (y.pc = "store" => Checked(picks, y))
      BY <2>1 DEF DayInv
    <2> HIDE DEF y
    <2>5. Latest(picks', y) /\ (y.pc = "store" => Checked(picks', y))
      BY <2>3, <2>4, KeysStay DEF Checked
    <2> QED BY <2>1, <2>5 DEF y
  <1>7. OnePickPerGameAndDay' /\ LimitPerDay'
    BY StoreOnePick, StoreLimit
  <1> QED BY <1>1, <1>4, <1>5, <1>6, <1>7 DEF DayInv, Holds

-----------------------------------------------------------------------------
(* Everybody else and the picks of the day *)

LEMMA LockUpdateDay ==
  ASSUME IInv, DayInv, LockUpdate
  PROVE  DayInv'
  <1> DEFINE S(u, d) == {p \in picks' : p.user = u /\ p.day = d}
  <1>1. /\ \A p, q \in picks' : Key(p) = Key(q) => p = q
        /\ \A q \in picks' : \E p \in picks : Marked(p, q)
        /\ \A p \in picks : \E q \in picks' : Marked(p, q)
        /\ IsFiniteSet(picks') /\ IsFiniteSet(picks) /\ picks \subseteq PickRow
    BY LockShape DEF IInv, DayInv, TypeOK
  <1>2. req' = req /\ clock' = clock
    BY DEF LockUpdate
  <1>3. \A u : SameDays(picks, picks', u)
    BY <1>1, KeyFields DEF SameDays, Marked
  <1>4. ASSUME NEW r \in Requests, Holds(r)
        PROVE  Latest(picks', req[r]) /\ (req[r].pc = "store" => Checked(picks', req[r]))
    BY <1>3, <1>4, KeysStay DEF DayInv, Checked
  <1>5. ASSUME NEW p \in picks', NEW q \in picks', p.user = q.user, p.day = q.day, p.game = q.game
        PROVE  p = q
    <2>1. PICK a \in picks, b \in picks : Marked(a, p) /\ Marked(b, q)
      BY <1>1
    <2>2. a.user = b.user /\ a.day = b.day /\ a.game = b.game
      BY <1>5, <2>1 DEF Marked
    <2>3. a = b
      BY <1>1, <2>2 DEF DayInv, OnePickPerGameAndDay, PicksOf, PickRow
    <2>4. Key(p) = Key(q)
      BY <2>1, <2>3, KeyFields DEF Marked
    <2> QED BY <1>1, <2>4
  <1>6. ASSUME NEW u \in Users, NEW d \in Days PROVE Cardinality(S(u, d)) <= MaxPicks
    <2>1. \A q \in S(u, d) : \E p \in PicksOf(u, d) : Key(p) = Key(q)
      BY <1>1, KeyFields DEF Marked, PicksOf
    <2>2. IsFiniteSet(PicksOf(u, d)) /\ Cardinality(PicksOf(u, d)) \in Nat
      BY <1>1, FS_Subset, FS_CardinalityType DEF PicksOf
    <2>3. \A p, q \in S(u, d) : Key(p) = Key(q) => p = q
      BY <1>1
    <2> DEFINE A == S(u, d)
    <2> HIDE DEF A
    <2>4. IsFiniteSet(A) /\ Cardinality(A) <= Cardinality(PicksOf(u, d))
      BY <2>1, <2>2, <2>3, KeyCount DEF A
    <2>5. Cardinality(A) \in Nat /\ Cardinality(PicksOf(u, d)) <= MaxPicks
      BY <2>4, FS_CardinalityType DEF DayInv, LimitPerDay
    <2> QED BY <2>2, <2>4, <2>5, Numbers DEF A
  <1>7. \A p \in picks' : p.day <= Day(clock')
    <2>1. \A p \in picks : p.day <= Day(clock)
      BY DEF DayInv
    <2> QED BY <1>1, <1>2, <2>1 DEF Marked
  <1>8. OnePickPerGameAndDay' /\ LimitPerDay'
    BY <1>5, <1>6 DEF OnePickPerGameAndDay, LimitPerDay, PicksOf
  <1>9. (\A r, s \in Requests : Holds(r) /\ Holds(s) /\ req[r].user = req[s].user => r = s)'
    BY <1>2 DEF DayInv, Holds
  <1> QED BY <1>1, <1>2, <1>4, <1>7, <1>8, <1>9 DEF DayInv, Holds

\* Steps that change neither the picks nor the requests.
LEMMA OthersDay ==
  ASSUME IInv, DayInv, UNCHANGED <<picks, req>>, clock' = clock \/ (Tick /\ clock' = clock + 1)
  PROVE  DayInv'
  <1>1. \A p \in picks : p.day <= Day(clock')
    <2>1. clock \in Nat /\ clock' \in Nat /\ clock <= clock' /\ picks \subseteq PickRow
      BY Numbers DEF IInv, TypeOK
    <2>2. Day(clock) \in Nat /\ Day(clock') \in Nat /\ Day(clock) <= Day(clock')
      BY <2>1, DayGrows
    <2>3. \A p \in picks : p.day \in Nat /\ p.day <= Day(clock)
      BY <2>1, DaysAreNumbers DEF DayInv, PickRow
    <2> QED BY <2>2, <2>3
  <1>2. (OnePickPerGameAndDay /\ LimitPerDay)'
    BY DEF DayInv, OnePickPerGameAndDay, LimitPerDay, PicksOf
  <1>3. (\A r, s \in Requests : Holds(r) /\ Holds(s) /\ req[r].user = req[s].user => r = s)'
    BY DEF DayInv, Holds
  <1> QED BY <1>1, <1>2, <1>3 DEF DayInv, Holds

LEMMA DayInit == Init => DayInv
  <1> SUFFICES ASSUME Init PROVE DayInv
    OBVIOUS
  <1>1. picks = {} /\ \A r \in Requests : req[r] = NoRequest
    BY DEF Init
  <1>2. \A u, d : PicksOf(u, d) = {}
    BY <1>1 DEF PicksOf
  <1>3. LimitPerDay /\ OnePickPerGameAndDay
    BY <1>2, FS_EmptySet, Numbers DEF LimitPerDay, OnePickPerGameAndDay
  <1>4. \A r \in Requests : ~Holds(r) /\ req[r].pc # "store"
    BY <1>1, NoRequestOK DEF Holds
  <1> QED BY <1>1, <1>3, <1>4, FS_EmptySet DEF DayInv

LEMMA DayStep ==
  ASSUME ForToday, IInv, DayInv, [Next]_vars
  PROVE  DayInv'
  <1>1. ASSUME NEW r \in Requests, NEW u \in Users, NEW b \in Batches, NEW d \in Days,
               Arrive(r, u, b, d)
        PROVE  DayInv'
    BY <1>1, ArriveDay
  <1>2. ASSUME NEW r \in Requests, LockParticipant(r) \/ Validate(r) \/ Store(r)
        PROVE  DayInv'
    BY <1>2, LockParticipantDay, ValidateDay, StoreDay DEF ForToday
  <1>3. CASE LockUpdate
    BY <1>3, LockUpdateDay
  <1>4. CASE \/ LockSelect \/ StatusJob \/ Tick \/ \E s \in Statuses : ForceStatus(s)
             \/ \E u \in Users : RemoveParticipant(u) \/ Join(u)
             \/ \E g \in Games : GameMoves(g)
             \/ UNCHANGED vars
    <2>1. UNCHANGED <<picks, req>> /\ (clock' = clock \/ (Tick /\ clock' = clock + 1))
      BY <1>4 DEF LockSelect, StatusJob, Tick, ForceStatus, RemoveParticipant, Join, GameMoves, vars
    <2> QED BY <2>1, OthersDay
  <1> QED BY <1>1, <1>2, <1>3, <1>4 DEF Next

\* The second invariant, with the first, holds in every behaviour.
LEMMA DayInductive ==
  ASSUME ForToday
  PROVE  Spec => [](IInv /\ DayInv)
  <1>1. Init => IInv /\ DayInv
    BY InitOK, DayInit
  <1>2. IInv /\ DayInv /\ [Next]_vars => (IInv /\ DayInv)'
    BY StepOK, DayStep
  <1> QED BY <1>1, <1>2, PTL DEF Spec

\* Nobody has more picks made on one day than max_picks_per_day, for any
\* number of users, submissions and games, however they overlap each other,
\* the start of games and midnight (create_daily_picks_batch).
THEOREM AlwaysWithinLimit ==
  ASSUME ForToday
  PROVE  Spec => []LimitPerDay
  <1>1. DayInv => LimitPerDay
    BY DEF DayInv
  <1> QED BY <1>1, DayInductive, PTL

\* Of the picks made on one day no two of a user are on the same game: what
\* existing_by_game, which keeps one row per game, relies on.
THEOREM AlwaysOnePick ==
  ASSUME ForToday
  PROVE  Spec => []OnePickPerGameAndDay
  <1>1. DayInv => OnePickPerGameAndDay
    BY DEF DayInv
  <1> QED BY <1>1, DayInductive, PTL

\* What the user has after a submission on the games that were open.
LEMMA SubmittedRows ==
  ASSUME ForToday, IInv, DayInv, NEW r \in Requests, Store(r), NEW x, x = req[r]
  PROVE  LET after == {p \in picks' : /\ p.user = x.user /\ p.day \in {x.day, Day(clock)}
                                      /\ Open(x.now, p.game)}
         IN  {<<p.game, p.team>> : p \in after} = {i \in x.batch : Open(x.now, i[1])}
  <1> DEFINE after == {p \in picks' : /\ p.user = x.user /\ p.day \in {x.day, Day(clock)}
                                      /\ Open(x.now, p.game)}
  <1>1. /\ x \in Request /\ picks \subseteq PickRow
        /\ \A q \in picks' : \/ \E p \in picks : FromKept(x, p, q)
                             \/ \E i \in Inserted(x) : FromItem(x, i, q)
        /\ \A p \in picks : Kept(x, p) => \E q \in picks' : FromKept(x, p, q)
        /\ \A i \in Inserted(x) : \E q \in picks' : FromItem(x, i, q)
    BY StoreShape DEF IInv, TypeOK
  <1>2. /\ SameKeys(picks, x)
        /\ \A p \in picks : p.user = x.user /\ p.day = Day(clock) =>
              p.day = x.day /\ \E e \in x.existing : Key(e) = Key(p)
    BY StoreKnows DEF Checked
  <1>3. x.batch \in Batches /\ \A i, j \in x.batch : i[1] = j[1] => i = j
    BY <1>1 DEF Request, ForToday
  <1>4. \A i \in x.batch : i = <<i[1], i[2]>>
    BY <1>3, BatchType
  <1>5. ASSUME NEW q \in after PROVE <<q.game, q.team>> \in x.batch
    <2>1. CASE \E i \in Inserted(x) : FromItem(x, i, q)
      BY <1>4, <2>1 DEF FromItem, Inserted, Written
    <2>2. CASE \E p \in picks : FromKept(x, p, q)
      <3>1. PICK p \in picks : FromKept(x, p, q)
        BY <2>2
      <3>2. p.user = x.user /\ p.day \in {x.day, Day(clock)} /\ Open(x.now, p.game)
        BY <3>1 DEF FromKept, SameRow
      <3>3. PICK e \in x.existing : Key(e) = Key(p)
        BY <1>2, <3>2 DEF SameKeys
      <3>4. e \notin Deleted(x) /\ e.game = p.game
        BY <3>1, <3>3, KeyFields DEF FromKept, Kept
      <3>5. p.game \in BatchGames(x.batch)
        BY <3>2, <3>4 DEF Deleted, Deselected
      <3>6. p.game \in BatchGames(Written(x))
        BY <3>2, <3>5 DEF BatchGames, Written
      <3>7. <<p.game, q.team>> \in x.batch
        BY <3>1, <3>3, <3>6 DEF FromKept
      <3> QED BY <3>1, <3>7 DEF FromKept, SameRow
    <2> QED BY <1>1, <2>1, <2>2
  <1>6. ASSUME NEW i \in x.batch, Open(x.now, i[1])
        PROVE  \E q \in after : <<q.game, q.team>> = i
    <2>1. i \in Written(x) /\ i[1] \in BatchGames(Written(x)) /\ i[1] \in BatchGames(x.batch)
      BY <1>6 DEF Written, BatchGames
    <2>2. CASE i \in Inserted(x)
      <3>1. PICK q \in picks' : FromItem(x, i, q)
        BY <1>1, <2>2
      <3> QED BY <1>4, <1>6, <3>1 DEF FromItem
    <2>3. CASE i \notin Inserted(x)
      <3>1. PICK e \in x.existing : e.game = i[1]
        BY <2>1, <2>3 DEF Inserted, GamesOf
      <3>2. PICK p \in picks : Key(e) = Key(p) /\ p.day = x.day
        BY <1>2 DEF SameKeys
      <3>3. p.game = i[1] /\ p.user = x.user
        BY <1>2, <3>1, <3>2, KeyFields DEF SameKeys
      <3>4. \A d \in Deleted(x) : Key(d) # Key(p)
        BY <2>1, <3>3, KeyFields DEF Deleted, Deselected
      <3>5. Kept(x, p)
        BY <3>4 DEF Kept
      <3>6. PICK q \in picks' : FromKept(x, p, q)
        BY <1>1, <3>5
      <3>7. <<p.game, q.team>> \in x.batch
        BY <2>1, <3>2, <3>3, <3>6 DEF FromKept
      <3>8. <<q.game, q.team>> = i
        BY <1>3, <1>4, <3>3, <3>6, <3>7 DEF FromKept, SameRow
      <3>9. q \in after
        BY <1>6, <3>2, <3>3, <3>6 DEF FromKept, SameRow
      <3> QED BY <3>8, <3>9
    <2> QED BY <2>2, <2>3
  <1> QED BY <1>5, <1>6

\* After a submission the picks of the day on games that were open are the
\* batch: nothing of an earlier one is left over and nothing is missing,
\* whatever ran between its reads and its commit (create_daily_picks_batch).
THEOREM AlwaysAsSubmitted ==
  ASSUME ForToday
  PROVE  Spec => StoredAsSubmitted
  <1> DEFINE A == \A r \in Requests : Stored(r) =>
                    LET x == req[r]
                        after == {p \in picks' : /\ p.user = x.user /\ p.day \in {x.day, Day(clock)}
                                                 /\ Open(x.now, p.game)}
                    IN {<<p.game, p.team>> : p \in after} = {i \in x.batch : Open(x.now, i[1])}
  <1>1. IInv /\ DayInv /\ [Next]_vars => [A]_vars
    BY StoredByStore, SubmittedRows
  <1>2. StoredAsSubmitted <=> [][A]_vars
    BY PTL DEF StoredAsSubmitted
  <1> HIDE DEF A
  <1> QED BY <1>1, <1>2, DayInductive, PTL DEF Spec
===============================================================================
