------------------------------ MODULE Membership ------------------------------
(***************************************************************************)
(* Who takes part in a competition and who runs it: joining, join          *)
(* requests, invite links, removal, the list of admins and the settings    *)
(* (api/competitions.py, api/admin.py).                                    *)
(*                                                                         *)
(* One competition. A handler reads row by row, each time what is          *)
(* committed, and writes when it commits. No unique index keeps a user     *)
(* from having two rows, and the only row lock anybody waits for is that   *)
(* of an invite link.                                                      *)
(***************************************************************************)
EXTENDS Integers, FiniteSets, Sequences

CONSTANTS
    Users,
    Creator,       \* who created the competition
    GlobalAdmins,  \* the users with that role
    Handlers,      \* requests that can be in progress at the same time
    Capacities,    \* values of max_participants, 0 for no limit
    RowIds,        \* bound: the keys that the rows of one user can have
    MaxRequests    \* bound on the requests ever made

Operations == {"join", "link", "remove", "promote", "demote", "approve", "reject",
               "settings"}

ASSUME PeopleAssumption ==
    /\ Creator \in Users /\ GlobalAdmins \subseteq Users
ASSUME BoundsAssumption ==
    /\ MaxRequests \in Nat
    /\ Capacities \subseteq Nat /\ Capacities # {}
    /\ IsFiniteSet(Handlers)

VARIABLES
    comp,       \* the row of the competition
    members,    \* the participant rows
    asks,       \* the join requests
    links,      \* the invite links
    created,    \* how far create_competition has come
    req,        \* the requests in progress
    sent,       \* how many requests there have been
    came,       \* history: per link, how often, and whom, it let join or ask
    ever        \* history: who has been an admin, and if the door was ever open

vars == <<comp, members, asks, links, created, req, sent, came, ever>>

Seen == [open : BOOLEAN, seats : Nat, admins : SUBSET Users]
Competition == [open : BOOLEAN, seats : Nat, ended : BOOLEAN, admins : SUBSET Users]
\* how is history: what made the row.
Row == [user : Users, id : RowIds, how : {"created", "joined", "approved"}]
Ask == [user : Users, status : {"pending", "approved", "rejected"}, reviewer : Users]
Link == [maker : Users, admin : BOOLEAN, used : Nat]

\* A request: the user who sends it, what it is about, and what it has read:
\* the competition, a participant row, and the new count of its link.
Request ==
    [pc : {"idle", "competition", "row", "count", "pending", "enter", "apply", "write"},
     op : Operations, user : Users, whom : Users, ask : Nat, link : Nat,
     wish : [open : BOOLEAN, seats : Nat], seen : Seen, was : Ask,
     rows : SUBSET Row, uses : Nat]

Nothing == [open |-> FALSE, seats |-> 0, admins |-> {}]

NoRequest ==
    [pc |-> "idle", op |-> "join", user |-> Creator, whom |-> Creator, ask |-> 0,
     link |-> 0, wish |-> [open |-> FALSE, seats |-> 0],
     seen |-> Nothing,
     was |-> [user |-> Creator, status |-> "pending", reviewer |-> Creator],
     rows |-> {}, uses |-> 0]

TypeOK ==
    /\ comp \in Competition
    /\ members \subseteq Row
    /\ asks \in Seq(Ask)
    /\ links \in Seq(Link)
    /\ created \in {"half", "done", "failed"}
    /\ sent \in 0..MaxRequests
    /\ req \in [Handlers -> Request]
    /\ \A r \in Handlers : /\ req[r].ask \in 0..Len(asks)
                           /\ req[r].link \in 0..Len(links)
    /\ came \in Seq([times : Nat, who : SUBSET Users]) /\ Len(came) = Len(links)
    /\ ever \in [admins : SUBSET Users, open : BOOLEAN]

\* The first commit of create_competition.
Init ==
    /\ comp \in [open : BOOLEAN, seats : Capacities, ended : {FALSE}, admins : {{Creator}}]
    /\ members = {}
    /\ asks = <<>> /\ links = <<>> /\ came = <<>>
    /\ created = "half" /\ sent = 0
    /\ req = [r \in Handlers |-> NoRequest]
    /\ ever = [admins |-> {Creator}, open |-> comp.open]

-----------------------------------------------------------------------------
(* What a handler looks up *)

RowsOf(u) == {m \in members : m.user = u}
IsAdmin(u, row) == u \in row.admins \cup GlobalAdmins
Pending(u) == {a \in 1..Len(asks) : asks[a].user = u /\ asks[a].status = "pending"}

\* A row with a new uuid. The ids tell the rows of one user apart; one that
\* none of them has and nobody remembers is new.
NewIds(u) ==
    RowIds \ {m.id : m \in {n \in members \cup UNION {req[q].rows : q \in Handlers} : n.user = u}}
NewRow(u, how) == [user |-> u, how |-> how, id |-> CHOOSE i \in NewIds(u) : TRUE]
Inserts(u, how) ==
    /\ NewIds(u) # {}
    /\ members' = members \cup {NewRow(u, how)}

Goes(r, pc) == req' = [req EXCEPT ![r].pc = pc]
Ends(r) == req' = [req EXCEPT ![r] = NoRequest]

Begin(r, x) ==
    /\ req[r].pc = "idle"
    /\ sent < MaxRequests /\ sent' = sent + 1
    /\ req' = [req EXCEPT ![r] = x]
Data == <<comp, members, asks, links, created, came, ever>>

-----------------------------------------------------------------------------
(* The requests, from their first look-up on; one that is refused by it leaves *)
(* nothing behind.                                                             *)

Join(r, u, l) ==
    /\ ~comp.ended
    /\ Begin(r, [NoRequest EXCEPT !.pc = "row", !.op = "join", !.user = u, !.link = l,
                   !.seen = [open |-> comp.open, seats |-> comp.seats, admins |-> {}]])
    /\ UNCHANGED Data

CreateLink(r, u) ==
    /\ Begin(r, [NoRequest EXCEPT !.pc = "row", !.op = "link", !.user = u,
                   !.seen = [open |-> FALSE, seats |-> 0, admins |-> comp.admins]])
    /\ UNCHANGED Data

Remove(r, u, w) ==
    /\ IsAdmin(u, comp)
    /\ Begin(r, [NoRequest EXCEPT !.pc = "row", !.op = "remove", !.whom = w])
    /\ UNCHANGED Data

\* Mutant: the creator can be taken off the list.
DemotableAll(w) == w \in comp.admins

Demotable(w) == w # Creator /\ w \in comp.admins

\* add_competition_admin and remove_competition_admin
ChangeAdmins(r, op, u, w) ==
    /\ IsAdmin(u, comp)
    /\ \/ op = "promote" /\ w \notin comp.admins
       \/ op = "demote" /\ Demotable(w)
    /\ Begin(r, [NoRequest EXCEPT !.pc = "write", !.op = op, !.whom = w,
                   !.seen = [open |-> FALSE, seats |-> 0, admins |-> comp.admins]])
    /\ UNCHANGED Data

Settings(r, u, wish) ==
    /\ IsAdmin(u, comp)
    /\ wish # [open |-> comp.open, seats |-> comp.seats]
    /\ Begin(r, [NoRequest EXCEPT !.pc = "write", !.op = "settings", !.wish = wish,
                   !.seen = [open |-> comp.open, seats |-> comp.seats, admins |-> {}]])
    /\ UNCHANGED Data

\* approve_join_request and reject_join_request: only the former looks at the
\* status of the request.
Review(r, op, u, a) ==
    /\ \/ op = "approve" /\ asks[a].status = "pending"
       \/ op = "reject"
    /\ Begin(r, [NoRequest EXCEPT !.pc = "competition", !.op = op, !.user = u, !.ask = a,
                                  !.was = asks[a]])
    /\ UNCHANGED Data

\* Mutant: anybody may answer a join request.
MayReviewAnybody(x) == TRUE

MayReview(x) == IsAdmin(x.user, comp)

\* ... and then at the list of admins.
Authorize(r) ==
    /\ req[r].pc = "competition"
    /\ IF MayReview(req[r]) THEN Goes(r, "write") ELSE Ends(r)
    /\ UNCHANGED <<Data, sent>>

\* scalar_one_or_none raises if there are two rows.
ReadRow(r) ==
    LET x == req[r]
        u == IF x.op = "remove" THEN x.whom ELSE x.user
    IN /\ x.pc = "row"
       /\ \/ /\ x.op = "join" /\ RowsOf(u) = {}
             /\ Goes(r, "count")
          \/ /\ x.op = "link" /\ Cardinality(RowsOf(u)) = 1
             /\ Goes(r, "write")
          \/ /\ x.op = "remove" /\ Cardinality(RowsOf(u)) = 1
             /\ u # Creator
             /\ req' = [req EXCEPT ![r] = [x EXCEPT !.pc = "write", !.rows = RowsOf(u)]]
          \/ /\ IF x.op = "join" THEN RowsOf(u) # {}
                ELSE Cardinality(RowsOf(u)) # 1 \/ (x.op = "remove" /\ u = Creator)
             /\ Ends(r)
       /\ UNCHANGED <<Data, sent>>

\* Mutant: the seats are not counted.
FullNever(x) == FALSE

Full(x) == x.seen.seats > 0 /\ Cardinality(members) >= x.seen.seats

\* The competition is open, or the link was made by an admin.
Direct(x) == x.seen.open \/ (x.link # 0 /\ links[x.link].admin)

Count(r) ==
    LET x == req[r] IN
    /\ x.pc = "count"
    /\ IF Full(x) THEN Ends(r)
       ELSE req' = [req EXCEPT ![r] =
              [x EXCEPT !.pc = IF Direct(x) THEN "enter" ELSE "pending",
                        !.seen = Nothing]]
    /\ UNCHANGED <<Data, sent>>

CheckPending(r) ==
    /\ req[r].pc = "pending"
    /\ IF Pending(req[r].user) = {} THEN Goes(r, "apply") ELSE Ends(r)
    /\ UNCHANGED <<Data, sent>>

\* Mutant: the count is read and written without a lock on the row.
LinkIsFreeAlways(l) == TRUE

LinkIsFree(l) == \A q \in Handlers : req[q].link = l => req[q].uses = 0

\* Mutant: a use is taken off.
NewCountDown(l) == links[l].used - 1

NewCount(l) == links[l].used + 1

\* UPDATE invite_links SET use_count = use_count + 1, which locks the row.
UseLink(r) ==
    LET x == req[r] IN
    /\ x.pc \in {"enter", "apply"}
    /\ x.link # 0 /\ x.uses = 0 /\ LinkIsFree(x.link)
    /\ req' = [req EXCEPT ![r] = [x EXCEPT !.uses = NewCount(x.link)]]
    /\ UNCHANGED <<Data, sent>>

Joined(r) ==
    LET x == req[r] IN
    /\ x.pc \in {"enter", "apply"}
    /\ x.link # 0 => x.uses # 0
    /\ IF x.pc = "enter"
       THEN Inserts(x.user, "joined") /\ UNCHANGED asks
       ELSE /\ asks' = Append(asks, [user |-> x.user, status |-> "pending",
                                     reviewer |-> x.user])
            /\ UNCHANGED members
    /\ IF x.link = 0 THEN UNCHANGED <<links, came>>
       ELSE /\ links' = [links EXCEPT ![x.link] =
                           [links[x.link] EXCEPT !.used = x.uses]]
            /\ came' = [came EXCEPT ![x.link] =
                          [times |-> came[x.link].times + 1,
                           who |-> came[x.link].who \cup {x.user}]]
    /\ Ends(r)
    /\ UNCHANGED <<comp, created, sent, ever>>

WriteLink(r) ==
    LET x == req[r] IN
    /\ x.pc = "write" /\ x.op = "link"
    /\ links' = Append(links, [maker |-> x.user, admin |-> IsAdmin(x.user, x.seen), used |-> 0])
    /\ came' = Append(came, [times |-> 0, who |-> {}])
    /\ Ends(r)
    /\ UNCHANGED <<comp, members, asks, created, sent, ever>>

WriteRemoval(r) ==
    /\ req[r].pc = "write" /\ req[r].op = "remove"
    /\ members' = members \ req[r].rows
    /\ Ends(r)
    /\ UNCHANGED <<comp, asks, links, created, sent, came, ever>>

\* A column is written if it differs from what was read.
Answer(x) ==
    LET new == IF x.op = "approve" THEN "approved" ELSE "rejected" IN
    asks' = [asks EXCEPT ![x.ask] =
               [user |-> asks[x.ask].user,
                status |-> IF new = x.was.status THEN asks[x.ask].status ELSE new,
                reviewer |-> IF x.was.status # "pending" /\ x.user = x.was.reviewer
                             THEN asks[x.ask].reviewer ELSE x.user]]

WriteAnswer(r) ==
    LET x == req[r] IN
    /\ x.pc = "write" /\ x.op \in {"approve", "reject"}
    /\ Answer(x)
    /\ IF x.op = "approve"
       THEN Inserts(asks[x.ask].user, "approved")
       ELSE UNCHANGED members
    /\ Ends(r)
    /\ UNCHANGED <<comp, links, created, sent, came, ever>>

\* The whole list is written, from the one that was read; of the settings only
\* those that differ from the ones that were read.
WriteCompetition(r) ==
    LET x == req[r]
        admins == IF x.op = "promote" THEN x.seen.admins \cup {x.whom}
                  ELSE IF x.op = "demote" THEN x.seen.admins \ {x.whom} ELSE comp.admins
        open == IF x.op = "settings" /\ x.wish.open # x.seen.open THEN x.wish.open ELSE comp.open
        seats == IF x.op = "settings" /\ x.wish.seats # x.seen.seats
                 THEN x.wish.seats ELSE comp.seats
    IN /\ x.pc = "write" /\ x.op \in {"promote", "demote", "settings"}
       /\ comp' = [open |-> open, seats |-> seats, ended |-> comp.ended, admins |-> admins]
       /\ ever' = [admins |-> ever.admins \cup admins, open |-> ever.open \/ open]
       /\ Ends(r)
       /\ UNCHANGED <<members, asks, links, created, sent, came>>

\* The connection is lost, or the process dies: nothing was committed.
Fails(r) ==
    /\ req[r].pc # "idle"
    /\ Ends(r)
    /\ UNCHANGED <<Data, sent>>

\* The second commit of create_competition, which may not come.
FinishCreation ==
    /\ created = "half"
    /\ \/ /\ created' = "done"
          /\ Inserts(Creator, "created")
       \/ created' = "failed" /\ UNCHANGED members
    /\ UNCHANGED <<comp, asks, links, req, sent, came, ever>>

\* The status job ends the competition; a global admin ends or revives it.
SetStatus ==
    /\ \E to \in BOOLEAN : comp' = [comp EXCEPT !.ended = to]
    /\ UNCHANGED <<members, asks, links, created, req, sent, came, ever>>

Arrive(r) ==
    \E u \in Users :
      \/ \E l \in 0..Len(links) : Join(r, u, l)
      \/ CreateLink(r, u)
      \/ \E w \in Users : Remove(r, u, w)
      \/ \E op \in {"promote", "demote"}, w \in Users : ChangeAdmins(r, op, u, w)
      \/ \E op \in {"approve", "reject"}, a \in 1..Len(asks) : Review(r, op, u, a)
      \/ \E wish \in [open : BOOLEAN, seats : Capacities] : Settings(r, u, wish)

Next ==
    \/ \E r \in Handlers :
         \/ Arrive(r)
         \/ Authorize(r) \/ ReadRow(r)
         \/ Count(r) \/ CheckPending(r) \/ UseLink(r) \/ Joined(r)
         \/ WriteLink(r) \/ WriteRemoval(r) \/ WriteAnswer(r) \/ WriteCompetition(r)
         \/ Fails(r)
    \/ FinishCreation
    \/ SetStatus

Spec == Init /\ [][Next]_vars

-----------------------------------------------------------------------------
(* Properties *)

\* Every join and every request through a link is counted once, however many
\* come at the same time.
UsesAreCounted == \A l \in 1..Len(links) : links[l].used = came[l].times

\* The creator stays an admin and, once a participant, stays one, however the
\* changes of the list of admins overwrite each other.
CreatorStays ==
    /\ Creator \in comp.admins
    /\ created = "done" => RowsOf(Creator) # {}

\* Whoever participates created the competition, or joined after the door had
\* been open or through the link of somebody who had been an admin, or asked and
\* was answered by one.
MembersWereLetIn ==
    LET trusted == ever.admins \cup GlobalAdmins IN
    \A m \in members :
      /\ m.how = "created" => m.user = Creator
      /\ m.how = "joined" =>
           \/ ever.open
           \/ \E l \in 1..Len(links) : /\ links[l].admin /\ links[l].maker \in trusted
                                       /\ m.user \in came[l].who
      /\ m.how = "approved" =>
           \E a \in 1..Len(asks) : /\ asks[a].user = m.user /\ asks[a].status # "pending"
                                  /\ asks[a].reviewer \in trusted

\* Joins at the same time count before either is in: that many may exceed the
\* capacity, and no more. (Approvals and the creator's own row do not count.)
OvershootIsBounded ==
    \E s \in Capacities :
      s = 0 \/ Cardinality({m \in members : m.how = "joined"}) < s + Cardinality(Handlers)
=============================================================================
