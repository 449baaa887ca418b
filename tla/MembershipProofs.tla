-------------------------- MODULE MembershipProofs --------------------------
(***************************************************************************)
(* Proofs about Membership, for any users, admins, capacities and number   *)
(* of requests in progress: its types, that no use of a link is lost, that *)
(* the creator keeps both roles, that every participant was let in, and by *)
(* how many those who joined can exceed the capacity.                      *)
(***************************************************************************)
EXTENDS Membership, FiniteSetTheorems, TLAPS

Came == [times : Nat, who : SUBSET Users]
Ever == [admins : SUBSET Users, open : BOOLEAN]
Trusted(ev) == ev.admins \cup GlobalAdmins

\* What a request remembers agrees with the join requests, the links and the
\* histories, given as arguments.
Good(x, qs, ls, ca, ev) ==
    /\ x \in Request
    /\ x.ask \in 0..Len(qs) /\ x.link \in 0..Len(ls)
    /\ x.seen.admins \subseteq ev.admins /\ (x.seen.open => ev.open)
    /\ x.pc = "competition" => x.op \in {"approve", "reject"}
    /\ x.pc = "write" /\ x.op \in {"promote", "demote"} => Creator \in x.seen.admins
    /\ x.pc = "write" /\ x.op = "demote" => x.whom # Creator
    /\ \A m \in x.rows : m.user # Creator
    /\ x.pc = "enter" => ev.open \/ (x.link # 0 /\ ls[x.link].admin)
    /\ x.pc # "idle" /\ x.op \in {"approve", "reject"} =>
         x.ask # 0 /\ (x.was.status # "pending" => qs[x.ask].status # "pending")
    /\ x.pc = "write" /\ x.op \in {"approve", "reject"} => x.user \in Trusted(ev)
    /\ x.uses # 0 => /\ x.pc \in {"enter", "apply"} /\ x.link # 0
                     /\ x.uses = ca[x.link].times + 1

\* An answered join request was answered by an admin, an admin's link was made
\* by one, and counts and histories agree.
Papers(qs, ls, ca, ev) ==
    /\ qs \in Seq(Ask) /\ ls \in Seq(Link) /\ ca \in Seq(Came) /\ Len(ca) = Len(ls)
    /\ ev \in Ever
    /\ \A a \in 1..Len(qs) : qs[a].status # "pending" => qs[a].reviewer \in Trusted(ev)
    /\ \A l \in 1..Len(ls) : ls[l].admin => ls[l].maker \in Trusted(ev)
    /\ \A l \in 1..Len(ls) : ls[l].used = ca[l].times

\* How m became a participant.
LetIn(m, qs, ls, ca, ev) ==
    /\ m.how = "created" => m.user = Creator
    /\ m.how = "joined" =>
         \/ ev.open
         \/ \E l \in 1..Len(ls) : /\ ls[l].admin /\ ls[l].maker \in Trusted(ev)
                                  /\ m.user \in ca[l].who
    /\ m.how = "approved" =>
         \E a \in 1..Len(qs) : /\ qs[a].user = m.user /\ qs[a].status # "pending"
                               /\ qs[a].reviewer \in Trusted(ev)

\* The row of the competition, and the participants.
Sound(c, ms, cr, qs, ls, ca, ev) ==
    /\ c \in Competition /\ Creator \in c.admins
    /\ c.admins \subseteq ev.admins /\ (c.open => ev.open)
    /\ ms \subseteq Row
    /\ cr \in {"half", "done", "failed"}
    /\ cr = "done" => \E m \in ms : m.user = Creator
    /\ \A m \in ms : LetIn(m, qs, ls, ca, ev)

\* A link is in use by one request at a time.
Alone(rq) == \A q, r \in Handlers :
                q # r /\ rq[q].uses # 0 /\ rq[r].uses # 0 => rq[q].link # rq[r].link

\* The inductive invariant.
Inv ==
    /\ Papers(asks, links, came, ever)
    /\ Sound(comp, members, created, asks, links, came, ever)
    /\ req \in [Handlers -> Request]
    /\ \A q \in Handlers : Good(req[q], asks, links, came, ever)
    /\ Alone(req)
    /\ sent \in 0..MaxRequests

\* What only grows from one commit to the next.
Later(qs, ls, ca, ev, qs2, ls2, ca2, ev2) ==
    /\ Len(qs) <= Len(qs2)
    /\ \A a \in 1..Len(qs) : /\ qs2[a].user = qs[a].user
                             /\ qs[a].status # "pending" => qs2[a].status # "pending"
    /\ Len(ls) <= Len(ls2)
    /\ \A l \in 1..Len(ls) : /\ ls2[l].admin = ls[l].admin /\ ls2[l].maker = ls[l].maker
                             /\ ca[l].who \subseteq ca2[l].who
    /\ ev.admins \subseteq ev2.admins /\ (ev.open => ev2.open)

LEMMA StaysGood ==
    ASSUME NEW x, NEW qs, NEW ls, NEW ca, NEW ev, NEW qs2, NEW ls2, NEW ca2, NEW ev2,
           Papers(qs, ls, ca, ev), Papers(qs2, ls2, ca2, ev2),
           Later(qs, ls, ca, ev, qs2, ls2, ca2, ev2),
           Good(x, qs, ls, ca, ev),
           x.uses # 0 => ca2[x.link].times = ca[x.link].times
    PROVE  Good(x, qs2, ls2, ca2, ev2)
<1>1. Len(qs) \in Nat /\ Len(qs2) \in Nat /\ Len(ls) \in Nat /\ Len(ls2) \in Nat
  BY DEF Papers
<1>2. x \in Request /\ x.ask \in 0..Len(qs) /\ x.link \in 0..Len(ls)
      /\ x.ask \in Nat /\ x.link \in Nat
  BY <1>1 DEF Good
<1>3. x.ask \in 0..Len(qs2) /\ x.link \in 0..Len(ls2)
  BY <1>1, <1>2 DEF Later
<1>4. /\ x.ask # 0 => x.ask \in 1..Len(qs)
      /\ x.link # 0 => x.link \in 1..Len(ls)
  BY <1>1, <1>2
<1> QED
  BY <1>2, <1>3, <1>4 DEF Good, Later, Trusted

LEMMA StaysLetIn ==
    ASSUME NEW m \in Row, NEW qs, NEW ls, NEW ca, NEW ev, NEW qs2, NEW ls2, NEW ca2, NEW ev2,
           Papers(qs, ls, ca, ev), Papers(qs2, ls2, ca2, ev2),
           Later(qs, ls, ca, ev, qs2, ls2, ca2, ev2),
           LetIn(m, qs, ls, ca, ev)
    PROVE  LetIn(m, qs2, ls2, ca2, ev2)
<1>1. /\ \A a \in 1..Len(qs) : a \in 1..Len(qs2)
      /\ \A l \in 1..Len(ls) : l \in 1..Len(ls2)
  BY DEF Papers, Later
<1>2. m.how \in {"created", "joined", "approved"}
  BY DEF Row
<1>3. CASE m.how = "created"
  BY <1>3 DEF LetIn
<1>4. CASE m.how = "joined"
  <2>1. CASE ev.open
    BY <1>4, <2>1 DEF LetIn, Later
  <2>2. CASE ~ev.open
    <3>1. PICK l \in 1..Len(ls) : ls[l].admin /\ m.user \in ca[l].who
      BY <1>4, <2>2 DEF LetIn
    <3>2. l \in 1..Len(ls2) /\ ls2[l].admin /\ m.user \in ca2[l].who
      BY <1>1, <3>1 DEF Later
    <3>3. ls2[l].maker \in Trusted(ev2)
      BY <3>2 DEF Papers
    <3> QED
      BY <1>4, <3>2, <3>3 DEF LetIn
  <2> QED
    BY <2>1, <2>2
<1>5. CASE m.how = "approved"
  <2>1. PICK a \in 1..Len(qs) : qs[a].user = m.user /\ qs[a].status # "pending"
    BY <1>5 DEF LetIn
  <2>2. a \in 1..Len(qs2) /\ qs2[a].user = m.user /\ qs2[a].status # "pending"
    BY <1>1, <2>1 DEF Later
  <2>3. qs2[a].reviewer \in Trusted(ev2)
    BY <2>2 DEF Papers
  <2> QED
    BY <1>5, <2>2, <2>3 DEF LetIn
<1> QED
  BY <1>2, <1>3, <1>4, <1>5

LEMMA LaterReflexive ==
    ASSUME NEW qs, NEW ls, NEW ca, NEW ev, Papers(qs, ls, ca, ev)
    PROVE  Later(qs, ls, ca, ev, qs, ls, ca, ev)
  BY DEF Later, Papers

LEMMA NoRequestIsGood ==
    ASSUME NEW qs, NEW ls, NEW ca, NEW ev, Papers(qs, ls, ca, ev)
    PROVE  NoRequest \in Request /\ Good(NoRequest, qs, ls, ca, ev) /\ NoRequest.uses = 0
<1>1. NoRequest \in Request
  BY PeopleAssumption DEF NoRequest, Nothing, Request, Seen, Ask, Operations
<1>2. Len(qs) \in Nat /\ Len(ls) \in Nat
  BY DEF Papers
<1> QED
  BY <1>1, <1>2 DEF Good, NoRequest, Nothing

LEMMA Appended ==
    ASSUME NEW S, NEW s \in Seq(S), NEW e \in S, NEW t, t = Append(s, e)
    PROVE  /\ Len(s) \in Nat /\ t \in Seq(S) /\ Len(t) = Len(s) + 1
           /\ \A i \in 1..Len(s) : t[i] = s[i]
           /\ t[Len(s) + 1] = e
  OBVIOUS

\* A request goes on, and nothing is written.
LEMMA RequestStep ==
    ASSUME Inv, NEW r \in Handlers, NEW y, Good(y, asks, links, came, ever),
           y.uses # 0 => \A q \in Handlers : q # r /\ req[q].uses # 0 => req[q].link # y.link,
           req' = [req EXCEPT ![r] = y], UNCHANGED Data, sent' \in 0..MaxRequests
    PROVE  Inv'
<1>1. /\ asks' = asks /\ links' = links /\ came' = came /\ ever' = ever
      /\ comp' = comp /\ members' = members /\ created' = created
  BY DEF Data
<1>2. /\ req \in [Handlers -> Request] /\ Alone(req)
      /\ \A q \in Handlers : Good(req[q], asks, links, came, ever)
  BY DEF Inv
<1>3. y \in Request
  BY DEF Good
<1>4. req' \in [Handlers -> Request] /\ req'[r] = y /\ \A q \in Handlers : q # r => req'[q] = req[q]
  BY <1>2, <1>3
<1>5. Alone(req')
  BY <1>2, <1>4 DEF Alone
<1>6. \A q \in Handlers : Good(req'[q], asks, links, came, ever)
  BY <1>2, <1>4
<1> QED
  BY <1>1, <1>4, <1>5, <1>6 DEF Inv

\* A request ends, having written something or not.
LEMMA CommitStep ==
    ASSUME Inv, NEW r \in Handlers, Ends(r), sent' = sent,
           Papers(asks', links', came', ever'),
           Later(asks, links, came, ever, asks', links', came', ever'),
           Sound(comp', members', created', asks', links', came', ever'),
           \A q \in Handlers : q # r /\ req[q].uses # 0 =>
                                 came'[req[q].link].times = came[req[q].link].times
    PROVE  Inv'
<1>1. /\ req \in [Handlers -> Request] /\ Alone(req) /\ sent \in 0..MaxRequests
      /\ Papers(asks, links, came, ever)
      /\ \A q \in Handlers : Good(req[q], asks, links, came, ever)
  BY DEF Inv
<1>2. NoRequest \in Request /\ Good(NoRequest, asks', links', came', ever') /\ NoRequest.uses = 0
  BY NoRequestIsGood
<1>3. /\ req' \in [Handlers -> Request] /\ req'[r] = NoRequest
      /\ \A q \in Handlers : q # r => req'[q] = req[q]
  BY <1>1, <1>2 DEF Ends
<1>4. Alone(req')
  BY <1>1, <1>2, <1>3 DEF Alone
<1>5. ASSUME NEW q \in Handlers, q # r
      PROVE  Good(req[q], asks', links', came', ever')
  BY <1>1, <1>5, StaysGood
<1>6. \A q \in Handlers : Good(req'[q], asks', links', came', ever')
  BY <1>2, <1>3, <1>5
<1> QED
  BY <1>1, <1>3, <1>4, <1>6 DEF Inv

\* A request that ends without a commit.
LEMMA RefusalStep ==
    ASSUME Inv, NEW r \in Handlers, Ends(r), UNCHANGED <<Data, sent>>
    PROVE  Inv'
<1>1. Good(NoRequest, asks, links, came, ever) /\ NoRequest.uses = 0
  BY NoRequestIsGood DEF Inv
<1>2. sent' \in 0..MaxRequests /\ UNCHANGED Data
  BY DEF Inv
<1> QED
  BY <1>1, <1>2, RequestStep DEF Ends

\* New rows leave the invariant of the rest alone.
LEMMA InsertedIsSound ==
    ASSUME NEW c, NEW cr, NEW cr2 \in {"half", "done", "failed"},
           NEW qs, NEW ls, NEW ca, NEW ev,
           NEW u \in Users, NEW how \in {"created", "joined", "approved"},
           Sound(c, members, cr, qs, ls, ca, ev),
           Inserts(u, how),
           cr2 = "done" => cr = "done" \/ u = Creator,
           \A m \in Row : m.user = u /\ m.how = how => LetIn(m, qs, ls, ca, ev)
    PROVE  Sound(c, members', cr2, qs, ls, ca, ev)
<1>1. PICK i \in NewIds(u) : NewRow(u, how) = [user |-> u, how |-> how, id |-> i]
  BY DEF Inserts, NewRow
<1>2. i \in RowIds
  BY DEF NewIds
<1> DEFINE n == NewRow(u, how)
<1>3. n \in Row /\ n.user = u /\ n.how = how
  BY <1>1, <1>2 DEF Row
<1>4. members' = members \cup {n}
  BY DEF Inserts
<1> HIDE DEF n
<1>5. LetIn(n, qs, ls, ca, ev)
  BY <1>3
<1> QED
  BY <1>3, <1>4, <1>5 DEF Sound

\* The first look-ups.
LEMMA ArriveStep ==
    ASSUME Inv, NEW r \in Handlers, Arrive(r)
    PROVE  Inv'
<1>1. /\ Papers(asks, links, came, ever) /\ sent \in 0..MaxRequests
      /\ comp \in Competition /\ Creator \in comp.admins
      /\ comp.admins \subseteq ever.admins /\ (comp.open => ever.open)
      /\ NoRequest \in Request /\ Good(NoRequest, asks, links, came, ever)
  BY NoRequestIsGood DEF Inv, Sound
<1>2. /\ Len(asks) \in Nat /\ Len(links) \in Nat
      /\ \A a \in 1..Len(asks) : asks[a] \in Ask
  BY <1>1 DEF Papers
<1>3. NoRequest.ask = 0 /\ NoRequest.rows = {} /\ NoRequest.uses = 0
  BY DEF NoRequest
<1>a. ASSUME NEW y, Begin(r, y), UNCHANGED Data, Good(y, asks, links, came, ever), y.uses = 0
      PROVE  Inv'
  <2>1. sent' \in 0..MaxRequests /\ req' = [req EXCEPT ![r] = y]
    BY <1>1, <1>a, BoundsAssumption DEF Begin
  <2> QED
    BY <1>a, <2>1, RequestStep
<1>4. ASSUME NEW u \in Users, NEW l \in 0..Len(links), Join(r, u, l)
      PROVE  Inv'
  <2> DEFINE seen == [open |-> comp.open, seats |-> comp.seats, admins |-> {}]
             y == [NoRequest EXCEPT !.pc = "row", !.op = "join", !.user = u, !.link = l,
                                    !.seen = seen]
  <2>1. l \in Nat /\ comp.open \in BOOLEAN /\ comp.seats \in Nat
    BY <1>1, <1>2 DEF Competition
  <2>2. seen \in Seen /\ seen.admins = {} /\ seen.open = comp.open
    BY <2>1 DEF Seen
  <2>3. Begin(r, y) /\ UNCHANGED Data
    BY <1>4 DEF Join
  <2> HIDE DEF seen
  <2>4. y \in Request
    BY <1>1, <2>1, <2>2 DEF Request, Operations
  <2>5. /\ y.pc = "row" /\ y.op = "join" /\ y.link = l /\ y.ask = 0 /\ y.rows = {}
        /\ y.uses = 0 /\ y.seen = seen
    BY <1>1, <1>3 DEF Request
  <2> HIDE DEF y
  <2>6. Good(y, asks, links, came, ever)
    BY <1>1, <1>2, <2>2, <2>4, <2>5 DEF Good
  <2> QED
    BY <1>a, <2>3, <2>5, <2>6
<1>5. ASSUME NEW u \in Users, CreateLink(r, u)
      PROVE  Inv'
  <2> DEFINE y == [NoRequest EXCEPT !.pc = "row", !.op = "link", !.user = u,
                     !.seen = [open |-> FALSE, seats |-> 0, admins |-> comp.admins]]
  <2>1. y \in Request
    BY <1>1 DEF Request, Seen, Competition, Operations
  <2>2. Good(y, asks, links, came, ever) /\ y.uses = 0
    BY <1>1, <1>2, <2>1 DEF Good, Request, NoRequest
  <2>3. Begin(r, y) /\ UNCHANGED Data
    BY <1>5 DEF CreateLink
  <2> QED
    BY <1>a, <2>2, <2>3
<1>6. ASSUME NEW u \in Users, NEW w \in Users, Remove(r, u, w)
      PROVE  Inv'
  <2> DEFINE y == [NoRequest EXCEPT !.pc = "row", !.op = "remove", !.whom = w]
  <2>1. y \in Request
    BY <1>1 DEF Request, Operations
  <2>2. Good(y, asks, links, came, ever) /\ y.uses = 0
    BY <1>1, <1>2, <2>1 DEF Good, Request, NoRequest
  <2>3. Begin(r, y) /\ UNCHANGED Data
    BY <1>6 DEF Remove
  <2> QED
    BY <1>a, <2>2, <2>3
<1>7. ASSUME NEW op \in {"promote", "demote"}, NEW u \in Users, NEW w \in Users,
             ChangeAdmins(r, op, u, w)
      PROVE  Inv'
  <2> DEFINE y == [NoRequest EXCEPT !.pc = "write", !.op = op, !.whom = w,
                     !.seen = [open |-> FALSE, seats |-> 0, admins |-> comp.admins]]
  <2>1. y \in Request
    BY <1>1 DEF Request, Seen, Competition, Operations
  <2>2. op = "demote" => w # Creator
    BY <1>7 DEF ChangeAdmins, Demotable
  <2>3. Good(y, asks, links, came, ever) /\ y.uses = 0
    BY <1>1, <1>2, <2>1, <2>2 DEF Good, Request, NoRequest
  <2>4. Begin(r, y) /\ UNCHANGED Data
    BY <1>7 DEF ChangeAdmins
  <2> QED
    BY <1>a, <2>3, <2>4
<1>8. ASSUME NEW u \in Users, NEW wish \in [open : BOOLEAN, seats : Capacities],
             Settings(r, u, wish)
      PROVE  Inv'
  <2> DEFINE y == [NoRequest EXCEPT !.pc = "write", !.op = "settings", !.wish = wish,
                     !.seen = [open |-> comp.open, seats |-> comp.seats, admins |-> {}]]
  <2>1. y \in Request
    BY <1>1, BoundsAssumption DEF Request, Seen, Competition, Operations
  <2>2. Good(y, asks, links, came, ever) /\ y.uses = 0
    BY <1>1, <1>2, <2>1 DEF Good, Request, NoRequest
  <2>3. Begin(r, y) /\ UNCHANGED Data
    BY <1>8 DEF Settings
  <2> HIDE DEF y
  <2> QED
    BY <1>a, <2>2, <2>3
<1>9. ASSUME NEW op \in {"approve", "reject"}, NEW u \in Users, NEW a \in 1..Len(asks),
             Review(r, op, u, a)
      PROVE  Inv'
  <2> DEFINE y == [NoRequest EXCEPT !.pc = "competition", !.op = op, !.user = u, !.ask = a,
                                    !.was = asks[a]]
  <2>4. a \in Nat /\ asks[a] \in Ask
    BY <1>2
  <2>1. y \in Request
    BY <1>1, <2>4 DEF Request, Operations
  <2>2. Good(y, asks, links, came, ever) /\ y.uses = 0
    BY <1>1, <1>2, <1>9, <2>1 DEF Good, Request, NoRequest
  <2>3. Begin(r, y) /\ UNCHANGED Data
    BY <1>9 DEF Review
  <2> QED
    BY <1>a, <2>2, <2>3
<1> QED
  BY <1>4, <1>5, <1>6, <1>7, <1>8, <1>9 DEF Arrive

\* A request that has not begun to write goes on to pc.
LEMMA GoesStep ==
    ASSUME Inv, NEW r \in Handlers, req[r].pc \notin {"idle", "enter", "apply"},
           NEW pc \in {"count", "pending", "enter", "apply", "write"}, Goes(r, pc),
           UNCHANGED <<Data, sent>>,
           pc = "enter" => ever.open \/ (req[r].link # 0 /\ links[req[r].link].admin),
           pc = "write" => /\ req[r].op \notin {"promote", "demote"}
                           /\ req[r].op \in {"approve", "reject"} =>
                                req[r].user \in Trusted(ever)
    PROVE  Inv'
<1> DEFINE x == req[r]
           y == [x EXCEPT !.pc = pc]
<1>1. Good(x, asks, links, came, ever) /\ x \in Request
  BY DEF Inv
<1>2. y \in Request /\ y.pc = pc
  BY <1>1 DEF Request
<1>3. /\ y.op = x.op /\ y.user = x.user /\ y.whom = x.whom /\ y.ask = x.ask
      /\ y.link = x.link /\ y.seen = x.seen /\ y.was = x.was /\ y.rows = x.rows
      /\ y.uses = 0
  BY <1>1 DEF Request, Good
<1>4. req' = [req EXCEPT ![r] = y] /\ sent' \in 0..MaxRequests /\ UNCHANGED Data
  BY DEF Goes, Inv
<1> HIDE DEF y
<1>5. Good(y, asks, links, came, ever)
  BY <1>1, <1>2, <1>3 DEF Good
<1> QED
  BY <1>3, <1>4, <1>5, RequestStep

LEMMA AuthorizeStep ==
    ASSUME Inv, NEW r \in Handlers, Authorize(r)
    PROVE  Inv'
<1>1. /\ Good(req[r], asks, links, came, ever) /\ req[r].pc = "competition"
      /\ comp.admins \subseteq ever.admins /\ UNCHANGED <<Data, sent>>
  BY DEF Inv, Sound, Authorize
<1>2. CASE MayReview(req[r])
  <2>1. req[r].user \in Trusted(ever) /\ req[r].op \in {"approve", "reject"}
    BY <1>1, <1>2 DEF MayReview, IsAdmin, Trusted, Good
  <2>2. Goes(r, "write")
    BY <1>2 DEF Authorize
  <2> QED
    BY <1>1, <2>1, <2>2, GoesStep
<1>3. CASE ~MayReview(req[r])
  BY <1>1, <1>3, RefusalStep DEF Authorize
<1> QED
  BY <1>2, <1>3

LEMMA ReadRowStep ==
    ASSUME Inv, NEW r \in Handlers, ReadRow(r)
    PROVE  Inv'
<1> DEFINE x == req[r]
           u == IF x.op = "remove" THEN x.whom ELSE x.user
<1>1. /\ Good(x, asks, links, came, ever) /\ x \in Request /\ x.pc = "row"
      /\ UNCHANGED <<Data, sent>> /\ members \subseteq Row /\ sent \in 0..MaxRequests
  BY DEF Inv, Sound, ReadRow
<1>2. CASE x.op = "join" /\ Goes(r, "count")
  BY <1>1, <1>2, GoesStep
<1>3. CASE x.op = "link" /\ Goes(r, "write")
  BY <1>1, <1>3, GoesStep
<1>4. CASE /\ x.op = "remove" /\ u # Creator
           /\ req' = [req EXCEPT ![r] = [x EXCEPT !.pc = "write", !.rows = RowsOf(u)]]
  <2> DEFINE y == [x EXCEPT !.pc = "write", !.rows = RowsOf(u)]
  <2>1. RowsOf(u) \in SUBSET Row /\ \A m \in RowsOf(u) : m.user # Creator
    BY <1>1, <1>4 DEF RowsOf
  <2>2. /\ y.pc = "write" /\ y.rows = RowsOf(u) /\ y.op = "remove" /\ y.ask = x.ask
        /\ y.link = x.link /\ y.seen = x.seen /\ y.uses = 0
    BY <1>1, <1>4 DEF Request, Good
  <2>3. y \in Request
    BY <1>1, <2>1 DEF Request
  <2>4. req' = [req EXCEPT ![r] = y] /\ UNCHANGED Data /\ sent' \in 0..MaxRequests
    BY <1>1, <1>4
  <2> HIDE DEF y
  <2>5. Good(y, asks, links, came, ever)
    BY <1>1, <2>1, <2>2, <2>3 DEF Good
  <2> QED
    BY <2>2, <2>4, <2>5, RequestStep
<1>5. CASE Ends(r)
  BY <1>1, <1>5, RefusalStep
<1>6. \/ x.op = "join" /\ Goes(r, "count")
      \/ x.op = "link" /\ Goes(r, "write")
      \/ /\ x.op = "remove" /\ u # Creator
         /\ req' = [req EXCEPT ![r] = [x EXCEPT !.pc = "write", !.rows = RowsOf(u)]]
      \/ Ends(r)
  BY Zenon DEF ReadRow
<1> QED
  BY <1>2, <1>3, <1>4, <1>5, <1>6

LEMMA CountStep ==
    ASSUME Inv, NEW r \in Handlers, Count(r)
    PROVE  Inv'
<1> DEFINE x == req[r]
           pc == IF Direct(x) THEN "enter" ELSE "pending"
           y == [x EXCEPT !.pc = pc, !.seen = Nothing]
<1>1. /\ Good(x, asks, links, came, ever) /\ x \in Request /\ x.pc = "count"
      /\ UNCHANGED <<Data, sent>> /\ sent \in 0..MaxRequests
  BY DEF Inv, Count
<1>2. CASE Full(x)
  BY <1>1, <1>2, RefusalStep DEF Count
<1>3. CASE ~Full(x)
  <2>1. /\ pc \in {"enter", "pending"}
        /\ pc = "enter" => ever.open \/ (x.link # 0 /\ links[x.link].admin)
    BY <1>1 DEF Direct, Good
  <2>2. Nothing \in Seen /\ Nothing.admins = {} /\ Nothing.open = FALSE
    BY DEF Nothing, Seen
  <2> HIDE DEF pc
  <2>3. y \in Request
    BY <1>1, <2>1, <2>2 DEF Request
  <2>4. /\ y.pc = pc /\ y.seen = Nothing /\ y.op = x.op /\ y.ask = x.ask /\ y.link = x.link
        /\ y.was = x.was /\ y.rows = x.rows /\ y.uses = 0
    BY <1>1 DEF Request, Good
  <2>5. req' = [req EXCEPT ![r] = y] /\ UNCHANGED Data /\ sent' \in 0..MaxRequests
    BY <1>1, <1>3 DEF Count, pc
  <2> HIDE DEF y
  <2>6. Good(y, asks, links, came, ever)
    BY <1>1, <2>1, <2>2, <2>3, <2>4 DEF Good
  <2> QED
    BY <2>4, <2>5, <2>6, RequestStep
<1> QED
  BY <1>2, <1>3

LEMMA CheckPendingStep ==
    ASSUME Inv, NEW r \in Handlers, CheckPending(r)
    PROVE  Inv'
<1>1. req[r].pc = "pending" /\ UNCHANGED <<Data, sent>>
  BY DEF CheckPending
<1>2. CASE Pending(req[r].user) = {}
  BY <1>1, <1>2, GoesStep DEF CheckPending
<1>3. CASE Pending(req[r].user) # {}
  BY <1>1, <1>3, RefusalStep DEF CheckPending
<1> QED
  BY <1>2, <1>3

LEMMA UseLinkStep ==
    ASSUME Inv, NEW r \in Handlers, UseLink(r)
    PROVE  Inv'
<1> DEFINE x == req[r]
           y == [x EXCEPT !.uses = NewCount(x.link)]
<1>1. /\ Good(x, asks, links, came, ever) /\ x \in Request /\ sent \in 0..MaxRequests
      /\ Papers(asks, links, came, ever)
  BY DEF Inv
<1>2. /\ x.pc \in {"enter", "apply"} /\ x.link # 0 /\ LinkIsFree(x.link)
      /\ req' = [req EXCEPT ![r] = y] /\ UNCHANGED <<Data, sent>>
  BY DEF UseLink
<1>3. x.link \in 1..Len(links)
  BY <1>1, <1>2 DEF Good, Papers
<1>4. links[x.link].used \in Nat /\ links[x.link].used = came[x.link].times
  <2>1. links[x.link] \in Link
    BY <1>1, <1>3 DEF Papers
  <2>2. links[x.link].used = came[x.link].times
    BY <1>1, <1>3 DEF Papers
  <2> QED
    BY <2>1, <2>2 DEF Link
<1>5. NewCount(x.link) \in Nat /\ NewCount(x.link) = came[x.link].times + 1
  BY <1>4 DEF NewCount
<1>6. y \in Request
  BY <1>1, <1>5 DEF Request
<1>7. /\ y.pc = x.pc /\ y.op = x.op /\ y.user = x.user /\ y.whom = x.whom /\ y.ask = x.ask
      /\ y.link = x.link /\ y.seen = x.seen /\ y.was = x.was /\ y.rows = x.rows
      /\ y.uses = NewCount(x.link)
  BY <1>1 DEF Request
<1>8. req' = [req EXCEPT ![r] = y] /\ UNCHANGED Data /\ sent' \in 0..MaxRequests
  BY <1>1, <1>2
<1> HIDE DEF y
<1>9. Good(y, asks, links, came, ever)
  BY <1>1, <1>2, <1>5, <1>6, <1>7 DEF Good
<1>10. \A q \in Handlers : q # r /\ req[q].uses # 0 => req[q].link # y.link
  BY <1>2, <1>7 DEF LinkIsFree
<1> QED
  BY <1>8, <1>9, <1>10, RequestStep

LEMMA SoundLater ==
    ASSUME NEW c, NEW ms, NEW cr,
           NEW qs, NEW ls, NEW ca, NEW ev, NEW qs2, NEW ls2, NEW ca2, NEW ev2,
           Papers(qs, ls, ca, ev), Papers(qs2, ls2, ca2, ev2),
           Later(qs, ls, ca, ev, qs2, ls2, ca2, ev2),
           Sound(c, ms, cr, qs, ls, ca, ev)
    PROVE  Sound(c, ms, cr, qs2, ls2, ca2, ev2)
<1>1. \A m \in ms : m \in Row /\ LetIn(m, qs, ls, ca, ev)
  BY DEF Sound
<1>2. \A m \in ms : LetIn(m, qs2, ls2, ca2, ev2)
  BY <1>1, StaysLetIn
<1>3. /\ c \in Competition /\ Creator \in c.admins /\ ms \subseteq Row
      /\ cr \in {"half", "done", "failed"}
      /\ cr = "done" => \E m \in ms : m.user = Creator
  BY DEF Sound
<1>4. c.admins \subseteq ev2.admins /\ (c.open => ev2.open)
  BY DEF Sound, Later
<1> QED
  BY <1>2, <1>3, <1>4 DEF Sound

\* The join requests after one more, and after an answer.
LEMMA AskedPapers ==
    ASSUME NEW ls, NEW ca, NEW ev, NEW u \in Users, Papers(asks, ls, ca, ev),
           asks' = Append(asks, [user |-> u, status |-> "pending", reviewer |-> u])
    PROVE  Papers(asks', ls, ca, ev) /\ Later(asks, ls, ca, ev, asks', ls, ca, ev)
<1> DEFINE e == [user |-> u, status |-> "pending", reviewer |-> u]
<1>1. e \in Ask /\ e.status = "pending"
  BY DEF Ask
<1> HIDE DEF e
<1>2. asks' = Append(asks, e)
  BY DEF e
<1>3. /\ asks \in Seq(Ask) /\ Len(asks) \in Nat /\ asks' \in Seq(Ask)
      /\ Len(asks') = Len(asks) + 1 /\ asks'[Len(asks) + 1] = e
      /\ \A a \in 1..Len(asks) : asks'[a] = asks[a]
  BY <1>1, <1>2, Appended DEF Papers
<1>4. \A a \in 1..Len(asks') : asks'[a].status # "pending" => asks'[a].reviewer \in Trusted(ev)
  <2> SUFFICES ASSUME NEW a \in 1..Len(asks'), asks'[a].status # "pending"
               PROVE  asks'[a].reviewer \in Trusted(ev)
    OBVIOUS
  <2>1. a \in 1..Len(asks) \/ a = Len(asks) + 1
    BY <1>3
  <2> QED
    BY <1>1, <1>3, <2>1 DEF Papers
<1> QED
  BY <1>3, <1>4 DEF Papers, Later

\* A link, used once more.
LEMMA UsedPapers ==
    ASSUME NEW qs, NEW ev, Papers(qs, links, came, ev),
           NEW l \in 1..Len(links), NEW e \in Link, NEW h \in Came,
           e.admin = links[l].admin, e.maker = links[l].maker, e.used = h.times,
           came[l].who \subseteq h.who,
           links' \in Seq(Link), Len(links') = Len(links), links'[l] = e,
           \A k \in 1..Len(links) : k # l => links'[k] = links[k],
           came' \in Seq(Came), Len(came') = Len(came), came'[l] = h,
           \A k \in 1..Len(came) : k # l => came'[k] = came[k]
    PROVE  /\ Papers(qs, links', came', ev)
           /\ Later(qs, links, came, ev, qs, links', came', ev)
<1>1. links \in Seq(Link) /\ came \in Seq(Came) /\ Len(came) = Len(links)
  BY DEF Papers
<1>2. \A k \in 1..Len(links) : /\ links'[k].admin = links[k].admin
                               /\ links'[k].maker = links[k].maker
                               /\ came[k].who \subseteq came'[k].who
                               /\ links'[k].used = came'[k].times
  BY <1>1 DEF Papers
<1>3. Papers(qs, links', came', ev)
  BY <1>1, <1>2 DEF Papers
<1>4. Later(qs, links, came, ev, qs, links', came', ev)
  BY <1>1, <1>2 DEF Papers, Later
<1> QED
  BY <1>3, <1>4

LEMMA JoinedStep ==
    ASSUME Inv, NEW r \in Handlers, Joined(r)
    PROVE  Inv'
<1> DEFINE x == req[r]
<1>1. /\ Good(x, asks, links, came, ever) /\ x \in Request
      /\ Papers(asks, links, came, ever)
      /\ Sound(comp, members, created, asks, links, came, ever)
      /\ Alone(req) /\ \A q \in Handlers : Good(req[q], asks, links, came, ever)
  BY DEF Inv
<1>2. /\ x.pc \in {"enter", "apply"} /\ (x.link # 0 => x.uses # 0) /\ Ends(r)
      /\ comp' = comp /\ created' = created /\ sent' = sent /\ ever' = ever
  BY DEF Joined
<1>3. /\ Papers(asks, links', came', ever)
      /\ Later(asks, links, came, ever, asks, links', came', ever)
      /\ x.link # 0 => x.user \in came'[x.link].who
      /\ \A q \in Handlers : q # r /\ req[q].uses # 0 =>
                               came'[req[q].link].times = came[req[q].link].times
  <2>1. CASE x.link = 0
    <3>1. links' = links /\ came' = came
      BY <2>1 DEF Joined
    <3> QED
      BY <1>1, <2>1, <3>1, LaterReflexive
  <2>2. CASE x.link # 0
    <3> DEFINE l == x.link
               e == [links[l] EXCEPT !.used = x.uses]
               h == [times |-> came[l].times + 1, who |-> came[l].who \cup {x.user}]
    <3>1. /\ l \in 1..Len(links) /\ x.uses \in Nat /\ x.uses = came[l].times + 1
          /\ x.user \in Users /\ x.uses # 0
      BY <1>1, <1>2, <2>2 DEF Good, Papers, Request
    <3>2. links[l] \in Link /\ came[l] \in Came
      BY <1>1, <3>1 DEF Papers
    <3>3. /\ e \in Link /\ e.admin = links[l].admin /\ e.maker = links[l].maker
          /\ e.used = x.uses
      BY <3>1, <3>2 DEF Link
    <3>4. h \in Came /\ h.times = x.uses /\ came[l].who \subseteq h.who /\ x.user \in h.who
      BY <3>1, <3>2 DEF Came
    <3>5. links' = [links EXCEPT ![l] = e] /\ came' = [came EXCEPT ![l] = h]
      BY <2>2 DEF Joined
    <3> HIDE DEF e, h
    <3>6. links \in Seq(Link) /\ came \in Seq(Came) /\ Len(came) = Len(links)
      BY <1>1 DEF Papers
    <3>7. /\ links' \in Seq(Link) /\ Len(links') = Len(links) /\ links'[l] = e
          /\ \A k \in 1..Len(links) : k # l => links'[k] = links[k]
      BY <3>1, <3>3, <3>5, <3>6
    <3>8. /\ came' \in Seq(Came) /\ Len(came') = Len(came) /\ came'[l] = h
          /\ \A k \in 1..Len(came) : k # l => came'[k] = came[k]
      BY <3>1, <3>4, <3>5, <3>6
    <3>9. /\ Papers(asks, links', came', ever)
          /\ Later(asks, links, came, ever, asks, links', came', ever)
      BY <1>1, <3>1, <3>3, <3>4, <3>7, <3>8, UsedPapers
    <3>10. ASSUME NEW q \in Handlers, q # r, req[q].uses # 0
          PROVE  came'[req[q].link].times = came[req[q].link].times
      <4>1. req[q].link \in 1..Len(links)
        BY <1>1, <3>10 DEF Good, Papers
      <4>2. req[q].link # l
        BY <1>1, <3>1, <3>10 DEF Alone
      <4> QED
        BY <3>6, <3>8, <4>1, <4>2
    <3> QED
      BY <3>4, <3>8, <3>9, <3>10
  <2> QED
    BY <2>1, <2>2
<1>4. Sound(comp, members, created, asks, links', came', ever)
  BY <1>1, <1>3, SoundLater
<1>5. x.user \in Users
  BY <1>1 DEF Request
<1>6. CASE x.pc = "enter"
  <2>1. asks' = asks /\ Inserts(x.user, "joined")
    BY <1>6 DEF Joined
  <2>2. ever.open \/ (x.link \in 1..Len(links) /\ x.link # 0 /\ links[x.link].admin)
    BY <1>1, <1>6 DEF Good, Papers
  <2>3. ever.open \/ \E l \in 1..Len(links') : /\ links'[l].admin
                                              /\ links'[l].maker \in Trusted(ever)
                                              /\ x.user \in came'[l].who
    <3>1. CASE ever.open
      BY <3>1
    <3>2. CASE ~ever.open
      <4>1. x.link \in 1..Len(links') /\ links'[x.link].admin /\ x.user \in came'[x.link].who
        BY <1>3, <2>2, <3>2 DEF Later, Papers
      <4> QED
        BY <1>3, <4>1 DEF Papers
    <3> QED
      BY <3>1, <3>2
  <2>4. \A m \in Row : m.user = x.user /\ m.how = "joined" =>
                         LetIn(m, asks, links', came', ever)
    BY <2>3 DEF LetIn
  <2>5. created \in {"half", "done", "failed"}
    BY <1>1 DEF Sound
  <2>6. Sound(comp, members', created, asks, links', came', ever)
    BY <1>4, <1>5, <2>1, <2>4, <2>5, InsertedIsSound
  <2> QED
    BY <1>2, <1>3, <2>1, <2>6, CommitStep
<1>7. CASE x.pc = "apply"
  <2>1. /\ asks' = Append(asks, [user |-> x.user, status |-> "pending", reviewer |-> x.user])
        /\ members' = members
    BY <1>7 DEF Joined
  <2>2. /\ Papers(asks', links', came', ever)
        /\ Later(asks, links', came', ever, asks', links', came', ever)
    BY <1>3, <1>5, <2>1, AskedPapers
  <2>3. Sound(comp, members, created, asks', links', came', ever)
    BY <1>3, <1>4, <2>2, SoundLater
  <2>4. Later(asks, links, came, ever, asks', links', came', ever)
    BY <1>3, <2>2 DEF Later
  <2> QED
    BY <1>2, <1>3, <2>1, <2>2, <2>3, <2>4, CommitStep
<1> QED
  BY <1>2, <1>6, <1>7

LEMMA WriteLinkStep ==
    ASSUME Inv, NEW r \in Handlers, WriteLink(r)
    PROVE  Inv'
<1> DEFINE x == req[r]
           e == [maker |-> x.user, admin |-> IsAdmin(x.user, x.seen), used |-> 0]
           h == [times |-> 0, who |-> {}]
<1>1. /\ Good(x, asks, links, came, ever) /\ x \in Request
      /\ Papers(asks, links, came, ever)
      /\ Sound(comp, members, created, asks, links, came, ever)
      /\ \A q \in Handlers : Good(req[q], asks, links, came, ever)
  BY DEF Inv
<1>2. /\ links' = Append(links, e) /\ came' = Append(came, h) /\ Ends(r)
      /\ comp' = comp /\ members' = members /\ asks' = asks /\ created' = created
      /\ sent' = sent /\ ever' = ever
  BY DEF WriteLink
<1>3. e \in Link /\ e.used = 0 /\ e.maker = x.user /\ e.admin = IsAdmin(x.user, x.seen)
  BY <1>1 DEF Link, Request, IsAdmin
<1>4. h \in Came /\ h.times = 0
  BY DEF Came
<1>5. e.admin => e.maker \in Trusted(ever)
  BY <1>1, <1>3 DEF Good, IsAdmin, Trusted
<1> HIDE DEF e, h
<1>6. /\ Len(links) \in Nat /\ links' \in Seq(Link) /\ Len(links') = Len(links) + 1
      /\ links'[Len(links) + 1] = e /\ \A l \in 1..Len(links) : links'[l] = links[l]
  BY <1>1, <1>2, <1>3, Appended DEF Papers
<1>7. /\ came' \in Seq(Came) /\ Len(came') = Len(links) + 1
      /\ came'[Len(links) + 1] = h /\ \A l \in 1..Len(links) : came'[l] = came[l]
  BY <1>1, <1>2, <1>4, Appended DEF Papers
<1>8. Papers(asks, links', came', ever)
  <2>1. \A l \in 1..Len(links') : l \in 1..Len(links) \/ l = Len(links) + 1
    BY <1>6
  <2> QED
    BY <1>1, <1>3, <1>4, <1>5, <1>6, <1>7, <2>1 DEF Papers
<1>9. Later(asks, links, came, ever, asks, links', came', ever)
  BY <1>1, <1>6, <1>7 DEF Papers, Later
<1>10. \A q \in Handlers : req[q].uses # 0 =>
                             came'[req[q].link].times = came[req[q].link].times
  BY <1>1, <1>7 DEF Good, Papers
<1>11. Sound(comp, members, created, asks, links', came', ever)
  BY <1>1, <1>8, <1>9, SoundLater
<1> QED
  BY <1>2, <1>8, <1>9, <1>10, <1>11, CommitStep

LEMMA WriteRemovalStep ==
    ASSUME Inv, NEW r \in Handlers, WriteRemoval(r)
    PROVE  Inv'
<1>1. /\ Good(req[r], asks, links, came, ever) /\ Papers(asks, links, came, ever)
      /\ Sound(comp, members, created, asks, links, came, ever)
  BY DEF Inv
<1>2. /\ members' = members \ req[r].rows /\ Ends(r)
      /\ comp' = comp /\ asks' = asks /\ links' = links /\ created' = created
      /\ sent' = sent /\ came' = came /\ ever' = ever
  BY DEF WriteRemoval
<1>3. created = "done" => \E m \in members' : m.user = Creator
  BY <1>1, <1>2 DEF Sound, Good
<1>4. Sound(comp, members', created, asks, links, came, ever)
  BY <1>1, <1>2, <1>3 DEF Sound
<1> QED
  BY <1>1, <1>2, <1>4, LaterReflexive, CommitStep

LEMMA WriteAnswerStep ==
    ASSUME Inv, NEW r \in Handlers, WriteAnswer(r)
    PROVE  Inv'
<1> DEFINE x == req[r]
           new == IF x.op = "approve" THEN "approved" ELSE "rejected"
           e == [user |-> asks[x.ask].user,
                 status |-> IF new = x.was.status THEN asks[x.ask].status ELSE new,
                 reviewer |-> IF x.was.status # "pending" /\ x.user = x.was.reviewer
                              THEN asks[x.ask].reviewer ELSE x.user]
<1>1. /\ Good(x, asks, links, came, ever) /\ x \in Request
      /\ Papers(asks, links, came, ever)
      /\ Sound(comp, members, created, asks, links, came, ever)
  BY DEF Inv
<1>2. /\ x.pc = "write" /\ x.op \in {"approve", "reject"} /\ Ends(r)
      /\ asks' = [asks EXCEPT ![x.ask] = e]
      /\ IF x.op = "approve" THEN Inserts(asks[x.ask].user, "approved") ELSE members' = members
      /\ comp' = comp /\ links' = links /\ created' = created
      /\ sent' = sent /\ came' = came /\ ever' = ever
  BY DEF WriteAnswer, Answer
<1>3. /\ x.user \in Trusted(ever) /\ x.user \in Users
      /\ x.was.status # "pending" => asks[x.ask].status # "pending"
      /\ x.ask \in 1..Len(asks)
  BY <1>1, <1>2 DEF Good, Papers, Request
<1>4. asks[x.ask] \in Ask /\ asks \in Seq(Ask)
  BY <1>1, <1>3 DEF Papers
<1>5. new \in {"approved", "rejected"}
  OBVIOUS
<1>6. asks[x.ask].status # "pending" => asks[x.ask].reviewer \in Trusted(ever)
  BY <1>1, <1>3 DEF Papers
<1> HIDE DEF new
<1>7. /\ e \in Ask /\ e.user = asks[x.ask].user /\ e.status # "pending"
      /\ e.reviewer \in Trusted(ever) /\ e.user \in Users
  BY <1>3, <1>4, <1>5, <1>6 DEF Ask
<1> HIDE DEF e
<1>8. /\ asks' \in Seq(Ask) /\ Len(asks') = Len(asks) /\ asks'[x.ask] = e
      /\ \A a \in 1..Len(asks) : a # x.ask => asks'[a] = asks[a]
  BY <1>2, <1>3, <1>4, <1>7
<1>9. Papers(asks', links, came, ever)
  BY <1>1, <1>3, <1>7, <1>8 DEF Papers
<1>10. Later(asks, links, came, ever, asks', links, came, ever)
  BY <1>1, <1>7, <1>8 DEF Papers, Later
<1>11. Sound(comp, members, created, asks', links, came, ever)
  BY <1>1, <1>9, <1>10, SoundLater
<1>12. Sound(comp, members', created, asks', links, came, ever)
  <2>1. CASE x.op = "approve"
    <3>1. Inserts(e.user, "approved")
      BY <1>2, <1>7, <2>1
    <3>2. \A m \in Row : m.user = e.user /\ m.how = "approved" =>
                           LetIn(m, asks', links, came, ever)
      BY <1>3, <1>7, <1>8 DEF LetIn
    <3>3. created \in {"half", "done", "failed"}
      BY <1>1 DEF Sound
    <3> QED
      BY <1>7, <1>11, <3>1, <3>2, <3>3, InsertedIsSound
  <2>2. CASE x.op # "approve"
    BY <1>2, <1>11, <2>2
  <2> QED
    BY <2>1, <2>2
<1> QED
  BY <1>2, <1>9, <1>10, <1>12, CommitStep

LEMMA WriteCompetitionStep ==
    ASSUME Inv, NEW r \in Handlers, WriteCompetition(r)
    PROVE  Inv'
<1> DEFINE x == req[r]
           admins == IF x.op = "promote" THEN x.seen.admins \cup {x.whom}
                     ELSE IF x.op = "demote" THEN x.seen.admins \ {x.whom} ELSE comp.admins
           open == IF x.op = "settings" /\ x.wish.open # x.seen.open THEN x.wish.open ELSE comp.open
           seats == IF x.op = "settings" /\ x.wish.seats # x.seen.seats
                    THEN x.wish.seats ELSE comp.seats
           c == [open |-> open, seats |-> seats, ended |-> comp.ended, admins |-> admins]
           ev == [admins |-> ever.admins \cup admins, open |-> ever.open \/ open]
<1>1. /\ Good(x, asks, links, came, ever) /\ x \in Request
      /\ Papers(asks, links, came, ever)
      /\ Sound(comp, members, created, asks, links, came, ever)
  BY DEF Inv
<1>2. /\ x.pc = "write" /\ x.op \in {"promote", "demote", "settings"} /\ Ends(r)
      /\ comp' = c /\ ever' = ev
      /\ members' = members /\ asks' = asks /\ links' = links /\ created' = created
      /\ sent' = sent /\ came' = came
  BY DEF WriteCompetition
<1>3. /\ comp \in Competition /\ ever \in Ever /\ Creator \in comp.admins
      /\ x.seen \in Seen /\ x.whom \in Users
      /\ x.wish.open \in BOOLEAN /\ x.wish.seats \in Nat
  BY <1>1 DEF Sound, Papers, Request
<1>4. /\ admins \subseteq Users /\ Creator \in admins
      /\ open \in BOOLEAN /\ seats \in Nat /\ comp.ended \in BOOLEAN
  <2>1. Creator \in admins
    BY <1>1, <1>2, <1>3 DEF Good
  <2>2. admins \subseteq Users /\ open \in BOOLEAN
    BY <1>3 DEF Competition, Seen
  <2>3. seats \in Nat /\ comp.ended \in BOOLEAN
    BY <1>3 DEF Competition, Seen
  <2> QED
    BY <2>1, <2>2, <2>3
<1> HIDE DEF admins, open, seats
<1>5. /\ c \in Competition /\ c.admins = admins /\ c.open = open
      /\ ev \in Ever /\ ev.admins = ever.admins \cup admins /\ ev.open = (ever.open \/ open)
  BY <1>3, <1>4 DEF Competition, Ever
<1> HIDE DEF c, ev
<1>6. Trusted(ever) \subseteq Trusted(ev)
  BY <1>5 DEF Trusted
<1>7. Papers(asks, links, came, ev)
  BY <1>1, <1>5, <1>6 DEF Papers
<1>8. Later(asks, links, came, ever, asks, links, came, ev)
  <2>1. Later(asks, links, came, ever, asks, links, came, ever)
    BY <1>1, LaterReflexive
  <2>2. ever.admins \subseteq ev.admins /\ (ever.open => ev.open)
    BY <1>5
  <2> QED
    BY <2>1, <2>2 DEF Later
<1>9. Sound(comp, members, created, asks, links, came, ev)
  BY <1>1, <1>7, <1>8, SoundLater
<1>10. Sound(c, members, created, asks, links, came, ev)
  BY <1>4, <1>5, <1>9 DEF Sound
<1> QED
  BY <1>2, <1>7, <1>8, <1>10, CommitStep

LEMMA FinishCreationStep ==
    ASSUME Inv, FinishCreation
    PROVE  Inv'
<1>1. /\ Papers(asks, links, came, ever) /\ created = "half"
      /\ Sound(comp, members, created, asks, links, came, ever)
  BY DEF Inv, FinishCreation
<1>2. /\ comp' = comp /\ asks' = asks /\ links' = links /\ req' = req /\ sent' = sent
      /\ came' = came /\ ever' = ever
  BY DEF FinishCreation
<1>3. CASE created' = "done" /\ Inserts(Creator, "created")
  <2>1. \A m \in Row : m.user = Creator /\ m.how = "created" =>
                         LetIn(m, asks, links, came, ever)
    BY DEF LetIn
  <2>2. Sound(comp, members', created', asks, links, came, ever)
    BY <1>1, <1>3, <2>1, PeopleAssumption, InsertedIsSound
  <2> QED
    BY <1>2, <2>2 DEF Inv
<1>4. CASE created' = "failed" /\ members' = members
  <2>1. Sound(comp, members', created', asks, links, came, ever)
    BY <1>1, <1>4 DEF Sound
  <2> QED
    BY <1>2, <2>1 DEF Inv
<1> QED
  BY <1>3, <1>4 DEF FinishCreation

LEMMA SetStatusStep ==
    ASSUME Inv, SetStatus
    PROVE  Inv'
<1>1. Sound(comp, members, created, asks, links, came, ever) /\ comp \in Competition
  BY DEF Inv, Sound
<1>2. /\ members' = members /\ asks' = asks /\ links' = links /\ created' = created
      /\ req' = req /\ sent' = sent /\ came' = came /\ ever' = ever
  BY DEF SetStatus
<1>3. PICK to \in BOOLEAN : comp' = [comp EXCEPT !.ended = to]
  BY DEF SetStatus
<1>4. comp' \in Competition /\ comp'.admins = comp.admins /\ comp'.open = comp.open
  BY <1>1, <1>3 DEF Competition
<1>5. Sound(comp', members, created, asks, links, came, ever)
  BY <1>1, <1>4 DEF Sound
<1> QED
  BY <1>2, <1>5 DEF Inv

LEMMA InitInv == Init => Inv
<1> SUFFICES ASSUME Init PROVE Inv
  OBVIOUS
<1>1. /\ comp \in Competition /\ comp.admins = {Creator} /\ members = {}
      /\ asks = <<>> /\ links = <<>> /\ came = <<>> /\ created = "half" /\ sent = 0
      /\ req = [r \in Handlers |-> NoRequest]
      /\ ever = [admins |-> {Creator}, open |-> comp.open]
  BY PeopleAssumption, BoundsAssumption DEF Init, Competition
<1>2. ever \in Ever /\ ever.admins = {Creator} /\ ever.open = comp.open
  BY <1>1, PeopleAssumption DEF Ever, Competition
<1>3. Papers(asks, links, came, ever)
  BY <1>1, <1>2 DEF Papers
<1>4. Sound(comp, members, created, asks, links, came, ever)
  BY <1>1, <1>2 DEF Sound
<1>5. NoRequest \in Request /\ Good(NoRequest, asks, links, came, ever) /\ NoRequest.uses = 0
  BY <1>3, NoRequestIsGood
<1>6. /\ req \in [Handlers -> Request] /\ Alone(req)
      /\ \A q \in Handlers : Good(req[q], asks, links, came, ever)
  BY <1>1, <1>5 DEF Alone
<1>7. sent \in 0..MaxRequests
  BY <1>1, BoundsAssumption
<1> QED
  BY <1>3, <1>4, <1>6, <1>7 DEF Inv

LEMMA NextInv == Inv /\ [Next]_vars => Inv'
<1> SUFFICES ASSUME Inv, [Next]_vars PROVE Inv'
  OBVIOUS
<1>1. ASSUME NEW r \in Handlers, Arrive(r) PROVE Inv'
  BY <1>1, ArriveStep
<1>2. ASSUME NEW r \in Handlers, Authorize(r) \/ ReadRow(r) \/ Count(r) PROVE Inv'
  BY <1>2, AuthorizeStep, ReadRowStep, CountStep
<1>3. ASSUME NEW r \in Handlers, CheckPending(r) \/ UseLink(r) \/ Joined(r) PROVE Inv'
  BY <1>3, CheckPendingStep, UseLinkStep, JoinedStep
<1>4. ASSUME NEW r \in Handlers,
             WriteLink(r) \/ WriteRemoval(r) \/ WriteAnswer(r) \/ WriteCompetition(r)
      PROVE  Inv'
  BY <1>4, WriteLinkStep, WriteRemovalStep, WriteAnswerStep, WriteCompetitionStep
<1>5. ASSUME NEW r \in Handlers, Fails(r) PROVE Inv'
  BY <1>5, RefusalStep DEF Fails
<1>6. CASE FinishCreation
  BY <1>6, FinishCreationStep
<1>7. CASE SetStatus
  BY <1>7, SetStatusStep
<1>8. CASE UNCHANGED vars
  BY <1>8 DEF vars, Inv
<1> QED
  BY <1>1, <1>2, <1>3, <1>4, <1>5, <1>6, <1>7, <1>8 DEF Next

LEMMA Invariance == Spec => []Inv
<1>1. Init => Inv
  BY InitInv
<1>2. Inv /\ [Next]_vars => Inv'
  BY NextInv
<1> QED
  BY <1>1, <1>2, PTL DEF Spec

\* The types of the rows and of the requests in progress, whatever the number
\* of users, links and requests.
THEOREM TypeCorrect == Spec => []TypeOK
<1>1. Inv => TypeOK
  BY DEF Inv, TypeOK, Papers, Sound, Good, Came, Ever
<1> QED
  BY <1>1, Invariance, PTL

\* No use of a link is lost, however many join through it at once: the count
\* in the row of the link is the number of those that it let join or ask.
THEOREM NoUseIsLost == Spec => []UsesAreCounted
<1>1. Inv => UsesAreCounted
  BY DEF Inv, UsesAreCounted, Papers
<1> QED
  BY <1>1, Invariance, PTL

\* The creator stays an admin, although the list of admins is written back
\* from an earlier read, and cannot be removed from the participants.
THEOREM CreatorKeepsRoles == Spec => []CreatorStays
<1>1. Inv => CreatorStays
  BY DEF Inv, CreatorStays, Sound, RowsOf
<1> QED
  BY <1>1, Invariance, PTL

\* Whoever participates came in by one of the ways the handlers provide.
THEOREM EverybodyWasLetIn == Spec => []MembersWereLetIn
<1>1. Inv => MembersWereLetIn
  BY DEF Inv, MembersWereLetIn, Sound, LetIn, Trusted
<1> QED
  BY <1>1, Invariance, PTL

-----------------------------------------------------------------------------
(* How far joins can go over the capacity *)

Joiners(ms) == {m \in ms : m.how = "joined"}
Entering(rq) == {r \in Handlers : rq[r].pc = "enter"}

\* A limit that a request compares, or will write, is one of the capacities.
SeatsKnown(x) ==
    /\ x.pc = "count" \/ (x.pc = "row" /\ x.op = "join") => x.seen.seats \in Capacities
    /\ x.pc = "write" /\ x.op = "settings" => x.wish.seats \in Capacities

\* Those who joined and those who were let in exceed one of the capacities by
\* less than the number of requests in progress.
SeatsInv ==
    /\ comp.seats \in Capacities /\ IsFiniteSet(members)
    /\ \A r \in Handlers : SeatsKnown(req[r])
    /\ \/ 0 \in Capacities
       \/ \E s \in Capacities : Cardinality(Joiners(members)) + Cardinality(Entering(req))
                                  < s + Cardinality(Handlers)

LEMMA Finite ==
    ASSUME NEW ms, IsFiniteSet(ms), NEW rq
    PROVE  /\ IsFiniteSet(Joiners(ms)) /\ Cardinality(Joiners(ms)) \in Nat
           /\ Cardinality(Joiners(ms)) <= Cardinality(ms) /\ Cardinality(ms) \in Nat
           /\ IsFiniteSet(Entering(rq)) /\ Cardinality(Entering(rq)) \in Nat
           /\ Cardinality(Entering(rq)) <= Cardinality(Handlers) /\ Cardinality(Handlers) \in Nat
<1>1. /\ IsFiniteSet(Joiners(ms)) /\ IsFiniteSet(Entering(rq))
      /\ Cardinality(Joiners(ms)) <= Cardinality(ms)
      /\ Cardinality(Entering(rq)) <= Cardinality(Handlers)
  BY BoundsAssumption, FS_Subset DEF Joiners, Entering
<1> QED
  BY <1>1, BoundsAssumption, FS_CardinalityType

\* Nobody joins, and nobody is let in: request r goes on to y.
LEMMA SeatsStep ==
    ASSUME Inv, SeatsInv, NEW r \in Handlers, NEW y, req' = [req EXCEPT ![r] = y],
           SeatsKnown(y), y.pc = "enter" => req[r].pc = "enter",
           comp'.seats \in Capacities, IsFiniteSet(members'),
           Joiners(members') \subseteq Joiners(members)
    PROVE  SeatsInv'
<1>1. req'[r] = y /\ \A q \in Handlers : q # r => req'[q] = req[q]
  BY DEF Inv
<1>2. \A q \in Handlers : SeatsKnown(req'[q])
  BY <1>1 DEF SeatsInv
<1>3. Entering(req') \subseteq Entering(req)
  BY <1>1 DEF Entering
<1> DEFINE J == Joiners(members)
           E == Entering(req)
           J2 == Joiners(members')
           E2 == Entering(req')
<1>4. /\ IsFiniteSet(J) /\ IsFiniteSet(E) /\ Cardinality(J) \in Nat /\ Cardinality(E) \in Nat
      /\ Cardinality(J2) \in Nat /\ Cardinality(E2) \in Nat /\ Cardinality(Handlers) \in Nat
  BY Finite DEF SeatsInv
<1> HIDE DEF J, E, J2, E2
<1>5. Cardinality(J2) <= Cardinality(J) /\ Cardinality(E2) <= Cardinality(E)
  <2>1. J2 \in SUBSET J /\ E2 \in SUBSET E
    BY <1>3 DEF J, E, J2, E2
  <2> QED
    BY <1>4, <2>1, FS_Subset
<1>6. Capacities \subseteq Nat
  BY BoundsAssumption
<1>7. \/ 0 \in Capacities
      \/ \E s \in Capacities : Cardinality(J2) + Cardinality(E2) < s + Cardinality(Handlers)
  <2>1. CASE 0 \in Capacities
    BY <2>1
  <2>2. CASE 0 \notin Capacities
    <3>1. PICK s \in Capacities : Cardinality(J) + Cardinality(E) < s + Cardinality(Handlers)
      BY <2>2 DEF SeatsInv, J, E
    <3>2. Cardinality(J2) + Cardinality(E2) < s + Cardinality(Handlers)
      BY <1>4, <1>5, <1>6, <3>1
    <3> QED
      BY <3>2
  <2> QED
    BY <2>1, <2>2
<1> QED
  BY <1>2, <1>7 DEF SeatsInv, J2, E2

LEMMA EndsSeats ==
    ASSUME Inv, SeatsInv, NEW r \in Handlers, Ends(r),
           comp'.seats \in Capacities, IsFiniteSet(members'),
           Joiners(members') \subseteq Joiners(members)
    PROVE  SeatsInv'
<1> DEFINE y == NoRequest
<1>1. SeatsKnown(y) /\ y.pc = "idle" /\ req' = [req EXCEPT ![r] = y]
  BY DEF SeatsKnown, NoRequest, Ends
<1> HIDE DEF y
<1> QED
  BY <1>1, SeatsStep

\* The steps that write no row and let nobody in.
LEMMA LooksSeats ==
    ASSUME Inv, SeatsInv, NEW r \in Handlers,
           Arrive(r) \/ Authorize(r) \/ ReadRow(r) \/ CheckPending(r) \/ UseLink(r) \/ Fails(r)
    PROVE  SeatsInv'
<1>1. comp' = comp /\ members' = members
  BY DEF Arrive, Join, CreateLink, Remove, ChangeAdmins, Review, Settings, Authorize, ReadRow,
         CheckPending, UseLink, Fails, Data
<1>2. /\ comp'.seats \in Capacities /\ IsFiniteSet(members')
      /\ Joiners(members') \subseteq Joiners(members)
  BY <1>1 DEF SeatsInv
<1>3. req[r] \in Request /\ NoRequest \in Request
  BY NoRequestIsGood DEF Inv
<1>4. SUFFICES \/ Ends(r)
               \/ \E y : /\ req' = [req EXCEPT ![r] = y] /\ SeatsKnown(y)
                         /\ y.pc = "enter" => req[r].pc = "enter"
  BY <1>2, EndsSeats, SeatsStep
<1>5. CASE Arrive(r)
  <2> DEFINE old == NoRequest
  <2>1. ASSUME NEW x, Begin(r, x), x.pc # "enter", SeatsKnown(x)
        PROVE  \E y : /\ req' = [req EXCEPT ![r] = y] /\ SeatsKnown(y)
                      /\ y.pc = "enter" => req[r].pc = "enter"
    BY <2>1 DEF Begin
  <2>2. ASSUME NEW u \in Users, NEW l \in 0..Len(links), Join(r, u, l)
        PROVE  \E x : Begin(r, x) /\ x.pc # "enter" /\ SeatsKnown(x)
    <3> DEFINE seen == [open |-> comp.open, seats |-> comp.seats, admins |-> {}]
               x == [old EXCEPT !.pc = "row", !.op = "join", !.user = u, !.link = l, !.seen = seen]
    <3>1. Begin(r, x)
      BY <2>2 DEF Join
    <3>2. seen.seats \in Capacities
      BY DEF SeatsInv
    <3> HIDE DEF old, seen
    <3>3. x.pc = "row" /\ x.seen = seen
      BY <1>3 DEF Request, old
    <3> HIDE DEF x
    <3> QED
      BY <3>1, <3>2, <3>3 DEF SeatsKnown
  <2>3. ASSUME NEW u \in Users, CreateLink(r, u)
        PROVE  \E x : Begin(r, x) /\ x.pc # "enter" /\ SeatsKnown(x)
    <3> DEFINE seen == [open |-> FALSE, seats |-> 0, admins |-> comp.admins]
               x == [old EXCEPT !.pc = "row", !.op = "link", !.user = u, !.seen = seen]
    <3>1. Begin(r, x)
      BY <2>3 DEF CreateLink
    <3> HIDE DEF old, seen
    <3>2. x.pc = "row" /\ x.op = "link"
      BY <1>3 DEF Request, old
    <3> HIDE DEF x
    <3> QED
      BY <3>1, <3>2 DEF SeatsKnown
  <2>4. ASSUME NEW u \in Users, NEW w \in Users, Remove(r, u, w)
        PROVE  \E x : Begin(r, x) /\ x.pc # "enter" /\ SeatsKnown(x)
    <3> DEFINE x == [old EXCEPT !.pc = "row", !.op = "remove", !.whom = w]
    <3>1. Begin(r, x)
      BY <2>4 DEF Remove
    <3> HIDE DEF old
    <3>2. x.pc = "row" /\ x.op = "remove"
      BY <1>3 DEF Request, old
    <3> HIDE DEF x
    <3> QED
      BY <3>1, <3>2 DEF SeatsKnown
  <2>5. ASSUME NEW op \in {"promote", "demote"}, NEW u \in Users, NEW w \in Users,
               ChangeAdmins(r, op, u, w)
        PROVE  \E x : Begin(r, x) /\ x.pc # "enter" /\ SeatsKnown(x)
    <3> DEFINE seen == [open |-> FALSE, seats |-> 0, admins |-> comp.admins]
               x == [old EXCEPT !.pc = "write", !.op = op, !.whom = w, !.seen = seen]
    <3>1. Begin(r, x)
      BY <2>5 DEF ChangeAdmins
    <3> HIDE DEF old, seen
    <3>2. x.pc = "write" /\ x.op \in {"promote", "demote"}
      BY <1>3 DEF Request, old
    <3> HIDE DEF x
    <3> QED
      BY <3>1, <3>2 DEF SeatsKnown
  <2>6. ASSUME NEW op \in {"approve", "reject"}, NEW u \in Users, NEW a \in 1..Len(asks),
               Review(r, op, u, a)
        PROVE  \E x : Begin(r, x) /\ x.pc # "enter" /\ SeatsKnown(x)
    <3> DEFINE was == asks[a]
               x == [old EXCEPT !.pc = "competition", !.op = op, !.user = u, !.ask = a,
                                !.was = was]
    <3>1. Begin(r, x)
      BY <2>6 DEF Review
    <3> HIDE DEF old, was
    <3>2. x.pc = "competition"
      BY <1>3 DEF Request, old
    <3> HIDE DEF x
    <3> QED
      BY <3>1, <3>2 DEF SeatsKnown
  <2>7. ASSUME NEW u \in Users, NEW wish \in [open : BOOLEAN, seats : Capacities],
               Settings(r, u, wish)
        PROVE  \E x : Begin(r, x) /\ x.pc # "enter" /\ SeatsKnown(x)
    <3> DEFINE seen == [open |-> comp.open, seats |-> comp.seats, admins |-> {}]
               x == [old EXCEPT !.pc = "write", !.op = "settings", !.wish = wish, !.seen = seen]
    <3>1. Begin(r, x)
      BY <2>7 DEF Settings
    <3> HIDE DEF old, seen
    <3>2. x.pc = "write" /\ x.wish = wish /\ wish.seats \in Capacities
      BY <1>3 DEF Request, old
    <3> HIDE DEF x
    <3> QED
      BY <3>1, <3>2 DEF SeatsKnown
  <2>8. \E x : Begin(r, x) /\ x.pc # "enter" /\ SeatsKnown(x)
    BY <1>5, <2>2, <2>3, <2>4, <2>5, <2>6, <2>7 DEF Arrive
  <2> QED
    BY <2>1, <2>8
<1> DEFINE old == req[r]
<1>6. /\ old \in Request /\ SeatsKnown(old)
      /\ old.pc = "competition" => old.op \in {"approve", "reject"}
  BY <1>3 DEF SeatsInv, Inv, Good
<1>7. CASE Authorize(r)
  <2> DEFINE x == [old EXCEPT !.pc = "write"]
  <2>1. Ends(r) \/ req' = [req EXCEPT ![r] = x]
    BY <1>7 DEF Authorize, Goes
  <2>2. old.pc = "competition"
    BY <1>7 DEF Authorize
  <2> HIDE DEF old
  <2>3. x.pc = "write" /\ x.op \in {"approve", "reject"}
    BY <1>6, <2>2 DEF Request
  <2> HIDE DEF x
  <2> QED
    BY <2>1, <2>3 DEF SeatsKnown
<1>8. CASE ReadRow(r)
  <2>1. old.pc = "row"
    BY <1>8 DEF ReadRow
  <2>2. CASE old.op = "join" /\ Goes(r, "count")
    <3> DEFINE x == [old EXCEPT !.pc = "count"]
    <3>1. req' = [req EXCEPT ![r] = x]
      BY <2>2 DEF Goes
    <3> HIDE DEF old
    <3>2. x.pc = "count" /\ x.seen = old.seen /\ old.seen.seats \in Capacities
      BY <1>6, <2>1, <2>2 DEF Request, SeatsKnown
    <3> HIDE DEF x
    <3> QED
      BY <3>1, <3>2 DEF SeatsKnown
  <2>3. CASE old.op = "link" /\ Goes(r, "write")
    <3> DEFINE x == [old EXCEPT !.pc = "write"]
    <3>1. req' = [req EXCEPT ![r] = x]
      BY <2>3 DEF Goes
    <3> HIDE DEF old
    <3>2. x.pc = "write" /\ x.op = "link"
      BY <1>6, <2>3 DEF Request
    <3> HIDE DEF x
    <3> QED
      BY <3>1, <3>2 DEF SeatsKnown
  <2>4. ASSUME NEW R, old.op = "remove",
               req' = [req EXCEPT ![r] = [old EXCEPT !.pc = "write", !.rows = R]]
        PROVE  \E y : /\ req' = [req EXCEPT ![r] = y] /\ SeatsKnown(y)
                      /\ y.pc = "enter" => req[r].pc = "enter"
    <3> DEFINE x == [old EXCEPT !.pc = "write", !.rows = R]
    <3>1. req' = [req EXCEPT ![r] = x]
      BY <2>4
    <3> HIDE DEF old
    <3>2. x.pc = "write" /\ x.op = "remove"
      BY <1>6, <2>4 DEF Request
    <3> HIDE DEF x
    <3> QED
      BY <3>1, <3>2 DEF SeatsKnown
  <2> QED
    BY <1>8, <2>2, <2>3, <2>4 DEF ReadRow
<1>9. CASE CheckPending(r)
  <2> DEFINE x == [old EXCEPT !.pc = "apply"]
  <2>1. Ends(r) \/ req' = [req EXCEPT ![r] = x]
    BY <1>9 DEF CheckPending, Goes
  <2> HIDE DEF old
  <2>2. x.pc = "apply"
    BY <1>6 DEF Request
  <2> HIDE DEF x
  <2> QED
    BY <2>1, <2>2 DEF SeatsKnown
<1>10. CASE UseLink(r)
  <2> DEFINE n == NewCount(old.link)
             x == [old EXCEPT !.uses = n]
  <2>1. req' = [req EXCEPT ![r] = x] /\ old.pc \in {"enter", "apply"}
    BY <1>10 DEF UseLink
  <2>2. x.pc = old.pc
    <3> HIDE DEF old, n
    <3> QED
      BY <1>6 DEF Request
  <2> HIDE DEF x
  <2> QED
    BY <2>1, <2>2 DEF SeatsKnown
<1>11. CASE Fails(r)
  BY <1>11 DEF Fails
<1> QED
  BY <1>5, <1>7, <1>8, <1>9, <1>10, <1>11

\* The seats are counted: members are fewer than the limit that was read.
LEMMA CountSeats ==
    ASSUME Inv, SeatsInv, NEW r \in Handlers, Count(r)
    PROVE  SeatsInv'
<1> DEFINE old == req[r]
<1>1. comp' = comp /\ members' = members
  BY DEF Count, Data
<1>2. /\ comp'.seats \in Capacities /\ IsFiniteSet(members')
      /\ Joiners(members') \subseteq Joiners(members)
  BY <1>1 DEF SeatsInv
<1>3. old \in Request /\ old.pc = "count" /\ old.seen.seats \in Capacities
  BY DEF SeatsInv, SeatsKnown, Count, Inv
<1>4. CASE Full(old)
  BY <1>2, <1>4, EndsSeats DEF Count
<1>5. CASE ~Full(old)
  <2> DEFINE to == IF Direct(old) THEN "enter" ELSE "pending"
             x == [old EXCEPT !.pc = to, !.seen = Nothing]
  <2>1. req' = [req EXCEPT ![r] = x]
    BY <1>5 DEF Count
  <2>2. x.pc \in {"enter", "pending"}
    <3>1. to \in {"enter", "pending"}
      OBVIOUS
    <3> HIDE DEF old, to
    <3> QED
      BY <1>3, <3>1 DEF Request
  <2> HIDE DEF x
  <2>3. SeatsKnown(x)
    BY <2>2 DEF SeatsKnown
  <2>4. req'[r] = x /\ \A q \in Handlers : q # r => req'[q] = req[q]
    BY <2>1 DEF Inv
  <2>5. \A q \in Handlers : SeatsKnown(req'[q])
    BY <2>3, <2>4 DEF SeatsInv
  <2>6. \/ 0 \in Capacities
        \/ \E s \in Capacities : Cardinality(Joiners(members)) + Cardinality(Entering(req'))
                                   < s + Cardinality(Handlers)
    <3> DEFINE s == old.seen.seats
               M == Cardinality(members)
               J == Cardinality(Joiners(members))
               E == Cardinality(Entering(req'))
               H == Cardinality(Handlers)
    <3>1. J \in Nat /\ E \in Nat /\ H \in Nat /\ M \in Nat /\ J <= M /\ E <= H
      BY Finite DEF SeatsInv
    <3>2. s \in Nat /\ s \in Capacities
      BY <1>3, BoundsAssumption
    <3>3. ~(s > 0 /\ M >= s)
      BY <1>5 DEF Full
    <3> HIDE DEF s, M, J, E, H
    <3>4. s = 0 \/ J + E < s + H
      BY <3>1, <3>2, <3>3
    <3> QED
      BY <3>2, <3>4 DEF s, J, E, H
  <2> QED
    BY <1>1, <1>2, <2>5, <2>6 DEF SeatsInv
<1> QED
  BY <1>4, <1>5

\* Somebody who was let in joins: of the two numbers one goes up, one down.
LEMMA JoinedSeats ==
    ASSUME Inv, SeatsInv, NEW r \in Handlers, Joined(r)
    PROVE  SeatsInv'
<1>1. comp'.seats \in Capacities /\ Ends(r)
  BY DEF Joined, SeatsInv
<1>2. CASE req[r].pc = "apply"
  <2>1. members' = members
    BY <1>2 DEF Joined
  <2> QED
    BY <1>1, <2>1, EndsSeats DEF SeatsInv
<1>3. CASE req[r].pc = "enter"
  <2> DEFINE m == NewRow(req[r].user, "joined")
             y == NoRequest
  <2>1. members' = members \cup {m}
    BY <1>3 DEF Joined, Inserts
  <2>2. req' = [req EXCEPT ![r] = y] /\ y.pc # "enter" /\ SeatsKnown(y)
    BY <1>1 DEF Ends, NoRequest, SeatsKnown
  <2> HIDE DEF m, y
  <2>3. req'[r] = y /\ \A q \in Handlers : q # r => req'[q] = req[q]
    BY <2>2 DEF Inv
  <2>4. \A q \in Handlers : SeatsKnown(req'[q])
    BY <2>2, <2>3 DEF SeatsInv
  <2> DEFINE J == Joiners(members)
             E == Entering(req)
             J2 == Joiners(members')
             E2 == Entering(req')
  <2>5. E2 = E \ {r} /\ r \in E
    BY <1>3, <2>2, <2>3 DEF Entering
  <2>6. J2 \subseteq J \cup {m}
    BY <2>1 DEF Joiners
  <2>7. /\ IsFiniteSet(J) /\ IsFiniteSet(E) /\ Cardinality(J) \in Nat /\ Cardinality(E) \in Nat
        /\ Cardinality(Handlers) \in Nat
    BY Finite DEF SeatsInv
  <2>8. IsFiniteSet(members')
    BY <2>1, FS_AddElement DEF SeatsInv
  <2>9. Cardinality(J2) \in Nat /\ Cardinality(E2) \in Nat
    BY <2>8, Finite
  <2> HIDE DEF J, E, J2, E2
  <2>10. Cardinality(E2) = Cardinality(E) - 1
    BY <2>5, <2>7, FS_RemoveElement
  <2>11. Cardinality(J2) <= Cardinality(J) + 1
    <3>1. /\ IsFiniteSet(J \cup {m})
          /\ Cardinality(J \cup {m}) \in {Cardinality(J), Cardinality(J) + 1}
      BY <2>7, FS_AddElement
    <3>2. Cardinality(J2) <= Cardinality(J \cup {m})
      BY <2>6, <3>1, FS_Subset
    <3> QED
      BY <2>7, <2>9, <3>1, <3>2
  <2>12. \/ 0 \in Capacities
         \/ \E s \in Capacities : Cardinality(J2) + Cardinality(E2) < s + Cardinality(Handlers)
    <3>1. CASE 0 \in Capacities
      BY <3>1
    <3>2. CASE 0 \notin Capacities
      <4>1. PICK s \in Capacities : Cardinality(J) + Cardinality(E) < s + Cardinality(Handlers)
        BY <3>2 DEF SeatsInv, J, E
      <4>2. s \in Nat
        BY BoundsAssumption
      <4>3. Cardinality(J2) + Cardinality(E2) < s + Cardinality(Handlers)
        BY <2>7, <2>9, <2>10, <2>11, <4>1, <4>2
      <4> QED
        BY <4>3
    <3> QED
      BY <3>1, <3>2
  <2> QED
    BY <1>1, <2>4, <2>8, <2>12 DEF SeatsInv, J2, E2
<1> QED
  BY <1>2, <1>3 DEF Joined

\* The other commits: no row says that its user joined.
LEMMA WritesSeats ==
    ASSUME Inv, SeatsInv, NEW r \in Handlers,
           WriteLink(r) \/ WriteRemoval(r) \/ WriteAnswer(r) \/ WriteCompetition(r)
    PROVE  SeatsInv'
<1>1. Ends(r)
  BY DEF WriteLink, WriteRemoval, WriteAnswer, WriteCompetition
<1>2. IsFiniteSet(members) /\ comp.seats \in Capacities
  BY DEF SeatsInv
<1>3. CASE WriteLink(r)
  <2>1. members' = members /\ comp' = comp
    BY <1>3 DEF WriteLink
  <2> QED
    BY <1>1, <1>2, <2>1, EndsSeats
<1>4. CASE WriteRemoval(r)
  <2>1. members' \subseteq members /\ comp' = comp
    BY <1>4 DEF WriteRemoval
  <2>2. IsFiniteSet(members')
    BY <1>2, <2>1, FS_Subset
  <2>3. Joiners(members') \subseteq Joiners(members)
    BY <2>1 DEF Joiners
  <2> QED
    BY <1>1, <1>2, <2>1, <2>2, <2>3, EndsSeats
<1>5. CASE WriteAnswer(r)
  <2> DEFINE m == NewRow(asks[req[r].ask].user, "approved")
  <2>1. comp' = comp /\ (members' = members \/ members' = members \cup {m})
    BY <1>5 DEF WriteAnswer, Inserts
  <2>2. m.how # "joined"
    BY DEF NewRow
  <2> HIDE DEF m
  <2>3. IsFiniteSet(members')
    BY <1>2, <2>1, FS_AddElement
  <2>4. Joiners(members') \subseteq Joiners(members)
    BY <2>1, <2>2 DEF Joiners
  <2> QED
    BY <1>1, <1>2, <2>1, <2>3, <2>4, EndsSeats
<1>6. CASE WriteCompetition(r)
  <2>1. members' = members
    BY <1>6 DEF WriteCompetition
  <2>2. comp'.seats = comp.seats \/ (req[r].op = "settings" /\ comp'.seats = req[r].wish.seats)
    BY <1>6 DEF WriteCompetition
  <2>3. comp'.seats \in Capacities
    BY <1>2, <1>6, <2>2 DEF WriteCompetition, SeatsInv, SeatsKnown
  <2> QED
    BY <1>1, <1>2, <2>1, <2>3, EndsSeats
<1> QED
  BY <1>3, <1>4, <1>5, <1>6

\* The steps that are no request's.
LEMMA OthersSeats ==
    ASSUME Inv, SeatsInv, FinishCreation \/ SetStatus \/ UNCHANGED vars
    PROVE  SeatsInv'
<1> DEFINE m == NewRow(Creator, "created")
<1>1. req' = req /\ comp'.seats = comp.seats
  BY DEF FinishCreation, SetStatus, vars, Inv, Sound, Competition
<1>2. members' = members \/ members' = members \cup {m}
  BY DEF FinishCreation, Inserts, SetStatus, vars
<1>3. m.how # "joined"
  BY DEF NewRow
<1> HIDE DEF m
<1>4. IsFiniteSet(members')
  BY <1>2, FS_AddElement DEF SeatsInv
<1>5. Joiners(members') = Joiners(members)
  BY <1>2, <1>3 DEF Joiners
<1> QED
  BY <1>1, <1>4, <1>5 DEF SeatsInv

LEMMA InitSeats == Init => SeatsInv
<1> SUFFICES ASSUME Init PROVE SeatsInv
  OBVIOUS
<1>1. comp.seats \in Capacities /\ members = {} /\ req = [r \in Handlers |-> NoRequest]
  BY DEF Init
<1>2. IsFiniteSet(members)
  BY <1>1, FS_EmptySet
<1>3. \A r \in Handlers : SeatsKnown(req[r])
  BY <1>1 DEF SeatsKnown, NoRequest
<1>4. Joiners(members) = {} /\ Entering(req) = {}
  BY <1>1 DEF Joiners, Entering, NoRequest
<1>5. Cardinality({}) = 0 /\ Cardinality(Handlers) \in Nat
  BY FS_EmptySet, FS_CardinalityType, BoundsAssumption
<1>6. comp.seats \in Nat
  BY <1>1, BoundsAssumption
<1>7. comp.seats = 0 \/ 0 + 0 < comp.seats + Cardinality(Handlers)
  BY <1>5, <1>6
<1> QED
  BY <1>1, <1>2, <1>3, <1>4, <1>5, <1>7 DEF SeatsInv

\* However many join at once, those who joined exceed the largest limit there
\* has been by fewer than the requests that can be in progress.
THEOREM OvershootAlwaysBounded == Spec => []OvershootIsBounded
<1>1. Init => Inv /\ SeatsInv
  BY InitInv, InitSeats
<1>2. (Inv /\ SeatsInv) /\ [Next]_vars => (Inv /\ SeatsInv)'
  <2> SUFFICES ASSUME Inv, SeatsInv, [Next]_vars PROVE SeatsInv'
    BY NextInv
  <2> QED
    BY LooksSeats, CountSeats, JoinedSeats, WritesSeats, OthersSeats DEF Next
<1>3. SeatsInv => OvershootIsBounded
  <2> SUFFICES ASSUME SeatsInv PROVE OvershootIsBounded
    OBVIOUS
  <2> DEFINE J == Cardinality(Joiners(members))
             E == Cardinality(Entering(req))
             H == Cardinality(Handlers)
  <2>1. J \in Nat /\ E \in Nat /\ H \in Nat
    BY Finite DEF SeatsInv
  <2>2. 0 \in Capacities \/ \E s \in Capacities : J + E < s + H
    BY DEF SeatsInv
  <2>3. J = Cardinality({m \in members : m.how = "joined"})
    BY DEF Joiners
  <2> HIDE DEF J, E
  <2>4. \E s \in Capacities : s = 0 \/ J < s + H
    BY <2>1, <2>2, BoundsAssumption
  <2> QED
    BY <2>3, <2>4 DEF OvershootIsBounded
<1> QED
  BY <1>1, <1>2, <1>3, PTL DEF Spec
===============================================================================
