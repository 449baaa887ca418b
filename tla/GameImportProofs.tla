-------------------------- MODULE GameImportProofs --------------------------
(***************************************************************************)
(* Theorems about GameImport, for any competitions, games, teams and       *)
(* imports.                                                                *)
(***************************************************************************)
EXTENDS GameImport, FiniteSetTheorems, TLAPS

-----------------------------------------------------------------------------
(* The inductive invariant *)

\* What the definitions of GameImport say of rows T of teams and G of games:
\* so an import can be compared with the rows before and after a step.
RowIn(G, x, k) == IF k \in x.held THEN x.ver[k] ELSE G[k]

\* Row i is that of team t, or will be when x commits.
Named(T, x, i, t) == T[i] = t \/ (i \in x.made /\ x.cache[t] = i)

\* The teams an import knows and has created.
CacheOK(T, x) ==
    /\ \A t \in Teams : x.cache[t] # None => Named(T, x, x.cache[t], t)
    /\ \A t, u \in Teams : x.cache[t] = x.cache[u] /\ x.cache[t] # None => t = u
    /\ \A i \in x.made : T[i] = NoTeam /\ \E t \in Teams : x.cache[t] = i

\* A row of games written by x names the teams of its game.
RowOK(T, x, k, row) ==
    /\ row \in GameRow
    /\ Named(T, x, row.home, Home[k[2]]) /\ Named(T, x, row.away, Away[k[2]])

\* The rows an import has changed, and the game it is at.
WorkOK(T, G, x) ==
    /\ \A k \in x.held : RowOK(T, x, k, x.ver[k])
    /\ \A k \in x.pending : RowOK(T, x, k, x.new) /\ (x.base # NoRow => RowIn(G, x, k) # NoRow)
    /\ x.pc \notin {"teams", "look"} => x.made = {} /\ x.held = {} /\ x.pending = {}
    /\ x.pc = "look" =>
         /\ x.todo # {}
         /\ x.cache[Home[Current(x)]] # None /\ x.cache[Away[Current(x)]] # None

ImportOK(T, G, x) == CacheOK(T, x) /\ WorkOK(T, G, x)

Plays(row) == row.winner \in {None, row.home, row.away}

\* An import that nobody disturbs knows every row of teams and the rows of
\* games it changes, and its winners play.
AloneOK(T, G, x) ==
    /\ x.pc \in {"teams", "look"} => \A i \in Ids : T[i] # NoTeam => x.cache[T[i]] = i
    /\ \A k \in x.held : Plays(x.ver[k])
    /\ \A k \in x.pending :
         /\ Plays(x.new)
         /\ x.base # NoRow => /\ x.base = RowIn(G, x, k)
                              /\ x.new.home = x.base.home /\ x.new.away = x.base.away

Committing == {s \in Imports \ Creations : imp[s].pc # "idle"}
Alone ==
    /\ \A s, t \in Committing : s = t
    /\ \A s \in Imports \ Creations : AloneOK(teams, games, imp[s])
    /\ \A i, j \in Ids : teams[i] = teams[j] /\ teams[i] # NoTeam => i = j
    /\ \A k \in Keys : Plays(games[k])

IInv ==
    /\ TypeOK
    /\ \A s \in Imports : ImportOK(teams, games, imp[s])
    /\ \A s, t \in Imports : s # t => imp[s].made \cap imp[t].made = {}
    /\ ~overlapped => Alone

-----------------------------------------------------------------------------
(* Numbers, rows and sessions *)

LEMMA Minimum ==
  ASSUME NEW S \in SUBSET Nat, S # {}
  PROVE  \E m \in S : \A n \in S : m <= n
  <1>1. IsWellFoundedOn(OpToRel(<, Nat), Nat)
    BY NatLessThanWellFounded, Zenon
  <1>2. PICK m \in S : \A n \in S : ~ (<<n, m>> \in OpToRel(<, Nat))
    BY <1>1, WFMin, Zenon
  <1>3. \A n \in S : ~(n < m)
    BY <1>2 DEF OpToRel
  <1> QED BY <1>3

\* The game an import is at is one that it still has to do.
LEMMA CurrentOK ==
  ASSUME NEW x \in Import, x.todo # {}
  PROVE  Current(x) \in x.todo /\ Current(x) \in Games
  <1>1. x.todo \subseteq Games /\ x.todo \in SUBSET Nat
    BY LeagueAssumption DEF Import
  <1>2. \E g \in x.todo : \A h \in x.todo : g <= h
    BY <1>1, Minimum
  <1> QED BY <1>1, <1>2 DEF Current

LEMMA IdsType == Ids \subseteq Nat /\ None \notin Ids /\ IsFiniteSet(Ids)
  <1>1. 1 \in Int /\ MaxTeams \in Int
    BY BoundsAssumption
  <1> QED BY <1>1, FS_Interval DEF Ids, None

LEMMA RowTypes ==
  /\ NoRow \notin GameRow
  /\ \A row \in GameRow : row.home \in Ids /\ row.away \in Ids /\ row.winner \in Ids \cup {None}
  BY IdsType DEF NoRow, GameRow

\* An import that has done nothing, or is over, fits any rows.
LEMMA IdleOK ==
  /\ Idle \in Import /\ Idle.pc = "idle" /\ Idle.made = {}
  /\ \A T, G : ImportOK(T, G, Idle) /\ AloneOK(T, G, Idle)
  <1>1. Idle \in Import
    BY DEF Idle, Import, Reports
  <1>2. /\ Idle.pc = "idle" /\ Idle.made = {} /\ Idle.held = {} /\ Idle.pending = {}
        /\ \A t \in Teams : Idle.cache[t] = None
    BY DEF Idle
  <1> QED BY <1>1, <1>2 DEF ImportOK, CacheOK, WorkOK, AloneOK

LEMMA HomeAway ==
  ASSUME NEW g \in Games
  PROVE  Home[g] \in Teams /\ Away[g] \in Teams /\ Home[g] # Away[g]
  BY LeagueAssumption

LEMMA KeyGame ==
  ASSUME NEW k \in Keys
  PROVE  k[2] \in Games
  BY DEF Keys

-----------------------------------------------------------------------------
(* A flush *)

LEMMA FlushedFields ==
  ASSUME NEW x \in Import
  PROVE  /\ Flushed(x).pc = x.pc /\ Flushed(x).comps = x.comps /\ Flushed(x).report = x.report
         /\ Flushed(x).cache = x.cache /\ Flushed(x).left = x.left /\ Flushed(x).todo = x.todo
         /\ Flushed(x).made = x.made /\ Flushed(x).held = x.held \cup x.pending
         /\ Flushed(x).pending = {} /\ Flushed(x).base = NoRow /\ Flushed(x).new = NoRow
         /\ Flushed(x).ver = [k \in Keys |-> IF k \in x.pending THEN Written(x, k) ELSE x.ver[k]]
         /\ DOMAIN Flushed(x) = DOMAIN x
  BY DEF Import, Flushed

LEMMA RowOfIn ==
  ASSUME NEW x, NEW k
  PROVE  Row(x, k) = RowIn(games, x, k)
  BY DEF Row, RowIn

\* The types of the rows an import sees.
LEMMA SeenType ==
  ASSUME TypeOK, NEW x \in Import, WorkOK(teams, games, x), NEW k \in Keys
  PROVE  /\ Row(x, k) \in GameRow \cup {NoRow}
         /\ Row(x, k) # NoRow =>
              /\ Named(teams, x, Row(x, k).home, Home[k[2]])
              /\ Named(teams, x, Row(x, k).away, Away[k[2]])
  BY DEF TypeOK, WorkOK, RowOK, Row, Named, Import

\* The row written for a pending key names the teams of the game.
LEMMA WrittenOK ==
  ASSUME TypeOK, NEW x \in Import, ImportOK(teams, games, x), NEW k \in x.pending
  PROVE  /\ RowOK(teams, x, k, Written(x, k))
         /\ AloneOK(teams, games, x) /\ Plays(games[k]) => Plays(Written(x, k))
  <1>1. /\ k \in Keys /\ x.base \in GameRow \cup {NoRow}
        /\ RowOK(teams, x, k, x.new) /\ (x.base # NoRow => Row(x, k) # NoRow)
    BY RowOfIn DEF ImportOK, WorkOK, Import
  <1>2. CASE x.base = NoRow
    BY <1>1, <1>2 DEF Written, AloneOK
  <1>3. CASE x.base # NoRow
    <2>1. Row(x, k) \in GameRow /\ x.base \in GameRow /\ x.new \in GameRow
      BY <1>1, <1>3, SeenType DEF ImportOK, RowOK
    <2> DEFINE row == Written(x, k)
               old == Row(x, k)
               a == IF x.new.final = x.base.final THEN old.final ELSE x.new.final
               b == IF x.new.winner = x.base.winner THEN old.winner ELSE x.new.winner
    <2>2. row = [old EXCEPT !.final = a, !.winner = b]
      BY <1>3 DEF Written
    <2>3. /\ Named(teams, x, old.home, Home[k[2]]) /\ Named(teams, x, old.away, Away[k[2]])
          /\ old \in GameRow
      BY <1>1, <1>3, <2>1, SeenType DEF ImportOK
    <2>4. /\ row \in GameRow /\ row.home = old.home /\ row.away = old.away
          /\ row.winner \in {old.winner, x.new.winner}
      <3>1. a \in BOOLEAN /\ b \in Ids \cup {None} /\ b \in {old.winner, x.new.winner}
        BY <2>1 DEF GameRow
      <3> HIDE DEF row, a, b, old
      <3> QED BY <2>2, <2>3, <3>1 DEF GameRow
    <2> HIDE DEF row, old, a, b
    <2>5. RowOK(teams, x, k, row)
      BY <2>3, <2>4 DEF RowOK
    <2>6. ASSUME AloneOK(teams, games, x), Plays(games[k]) PROVE Plays(row)
      <3>1. /\ Plays(x.new) /\ x.base = old
            /\ x.new.home = x.base.home /\ x.new.away = x.base.away
        BY <1>3, <2>6, RowOfIn DEF AloneOK, old
      <3>2. Plays(old)
        BY <2>6 DEF AloneOK, old, Row
      <3> QED BY <2>4, <3>1, <3>2 DEF Plays
    <2> QED BY <2>5, <2>6 DEF row
  <1> QED BY <1>2, <1>3

LEMMA FlushOK ==
  ASSUME TypeOK, NEW x \in Import, ImportOK(teams, games, x)
  PROVE  /\ Flushed(x) \in Import /\ ImportOK(teams, games, Flushed(x))
         /\ AloneOK(teams, games, x) /\ (\A k \in Keys : Plays(games[k]))
              => AloneOK(teams, games, Flushed(x))
  <1> DEFINE y == Flushed(x)
  <1>1. /\ y.pc = x.pc /\ y.comps = x.comps /\ y.report = x.report
        /\ y.cache = x.cache /\ y.left = x.left /\ y.todo = x.todo
        /\ y.made = x.made /\ y.held = x.held \cup x.pending
        /\ y.pending = {} /\ y.base = NoRow /\ y.new = NoRow
        /\ y.ver = [k \in Keys |-> IF k \in x.pending THEN Written(x, k) ELSE x.ver[k]]
    BY FlushedFields
  <1>2. /\ x.pending \subseteq Keys /\ x.held \subseteq Keys
        /\ x.ver \in [Keys -> GameRow \cup {NoRow}]
    BY DEF Import
  <1>3. \A k \in x.pending : Written(x, k) \in GameRow
    BY WrittenOK DEF RowOK
  <1>4. y \in Import
    <2>1. [k \in Keys |-> IF k \in x.pending THEN Written(x, k) ELSE x.ver[k]]
            \in [Keys -> GameRow \cup {NoRow}]
      BY <1>2, <1>3
    <2> DEFINE v == [k \in Keys |-> IF k \in x.pending THEN Written(x, k) ELSE x.ver[k]]
    <2>2. y = [x EXCEPT !.ver = v, !.held = x.held \cup x.pending, !.pending = {},
                        !.base = NoRow, !.new = NoRow]
      BY DEF Flushed, Import
    <2> HIDE DEF v, y
    <2>3. v \in [Keys -> GameRow \cup {NoRow}]
      BY <2>1 DEF v
    <2> QED BY <1>2, <2>2, <2>3 DEF Import
  <1>5. Current(y) = Current(x)
    BY <1>1 DEF Current
  <1> HIDE DEF y
  <1>6. \A i, t : Named(teams, y, i, t) <=> Named(teams, x, i, t)
    BY <1>1 DEF Named
  <1>7. CacheOK(teams, y)
    BY <1>1, <1>6 DEF ImportOK, CacheOK
  <1>8. \A k \in y.held : RowOK(teams, y, k, y.ver[k])
    <2> TAKE k \in y.held
    <2>1. RowOK(teams, x, k, y.ver[k])
      BY <1>1, <1>2, WrittenOK DEF ImportOK, WorkOK
    <2> QED BY <1>6, <2>1 DEF RowOK
  <1>9. WorkOK(teams, games, y)
    BY <1>1, <1>5, <1>8 DEF ImportOK, WorkOK
  <1>10. ASSUME AloneOK(teams, games, x), \A k \in Keys : Plays(games[k])
         PROVE  AloneOK(teams, games, y)
    <2>1. \A k \in y.held : Plays(y.ver[k])
      BY <1>1, <1>2, <1>10, WrittenOK DEF AloneOK
    <2> QED BY <1>1, <1>10, <2>1 DEF AloneOK
  <1> QED BY <1>4, <1>7, <1>9, <1>10 DEF ImportOK, y

-----------------------------------------------------------------------------
(* Steps of one import *)

\* The rows stay; import s goes on to y, with fresh rows of teams at most.
LEMMA ImportStep ==
  ASSUME IInv, NEW s \in Imports, NEW y \in Import, ImportOK(teams, games, y),
         y.made \ imp[s].made \subseteq Fresh,
         imp' = [imp EXCEPT ![s] = y],
         UNCHANGED <<teams, games>>, overlapped' \in BOOLEAN, overlapped => overlapped',
         ~overlapped' /\ s \notin Creations => AloneOK(teams, games, y),
         ~overlapped' /\ s \notin Creations /\ y.pc # "idle" => \A t \in Committing : t = s,
         feed' \in [Games -> Reports], running' \subseteq Comps,
         requests' \in 0..MaxRequests, faults' \in 0..MaxFaults
  PROVE  IInv'
  <1>1. /\ imp' \in [Imports -> Import] /\ imp'[s] = y
        /\ \A t \in Imports : t # s => imp'[t] = imp[t]
    BY DEF IInv, TypeOK
  <1>2. TypeOK'
    BY <1>1 DEF IInv, TypeOK
  <1>3. \A t \in Imports : ImportOK(teams', games', imp'[t])
    BY <1>1 DEF IInv
  <1>4. \A t, u \in Imports : t # u => imp'[t].made \cap imp'[u].made = {}
    <2>1. ASSUME NEW t \in Imports, t # s PROVE y.made \cap imp[t].made = {}
      <3>1. imp[s].made \cap imp[t].made = {}
        BY <2>1 DEF IInv
      <3> QED BY <3>1 DEF Fresh
    <2> QED BY <1>1, <2>1 DEF IInv
  <1>5. ASSUME ~overlapped' PROVE Alone'
    <2>1. Alone /\ ~overlapped
      BY <1>5 DEF IInv, TypeOK
    <2>2. \A t \in Imports \ Creations : AloneOK(teams', games', imp'[t])
      BY <1>1, <1>5, <2>1 DEF Alone
    <2>3. \A t, u \in Committing' : t = u
      BY <1>1, <1>5, <2>1 DEF Alone, Committing
    <2> QED BY <2>1, <2>2, <2>3 DEF Alone
  <1> QED BY <1>2, <1>3, <1>4, <1>5 DEF IInv

\* The same, when import s was in progress and nothing else changes.
LEMMA GoesOn ==
  ASSUME IInv, NEW s \in Imports, NEW y \in Import, ImportOK(teams, games, y),
         y.made \ imp[s].made \subseteq Fresh, imp[s].pc # "idle",
         ~overlapped /\ s \notin Creations => AloneOK(teams, games, y),
         imp' = [imp EXCEPT ![s] = y],
         faults' \in 0..MaxFaults,
         UNCHANGED <<feed, running, teams, games, requests, overlapped>>
  PROVE  IInv'
  <1>1. TypeOK
    BY DEF IInv
  <1>2. ~overlapped /\ s \notin Creations => \A t \in Committing : t = s
    <2>1. s \notin Creations => s \in Committing
      BY DEF Committing
    <2> QED BY <2>1 DEF IInv, Alone
  <1>3. /\ overlapped' \in BOOLEAN /\ feed' \in [Games -> Reports] /\ running' \subseteq Comps
        /\ requests' \in 0..MaxRequests
    BY <1>1 DEF TypeOK
  <1> QED BY <1>2, <1>3, ImportStep

\* The same, when the session is closed without a commit.
LEMMA ClosedOK ==
  ASSUME IInv, NEW s \in Imports, imp[s].pc # "idle",
         imp' = [imp EXCEPT ![s] = Closed(s)], faults' \in 0..MaxFaults,
         UNCHANGED <<feed, running, teams, games, requests, overlapped>>
  PROVE  IInv'
  <1> DEFINE y == Idle
  <1>1. y \in Import /\ y.made = {} /\ ImportOK(teams, games, y) /\ AloneOK(teams, games, y)
    BY IdleOK
  <1>2. imp' = [imp EXCEPT ![s] = y]
    BY DEF Closed
  <1> HIDE DEF y
  <1> QED BY <1>1, <1>2, GoesOn

LEMMA OpenOK ==
  ASSUME IInv, NEW s \in Imports, NEW comps \in SUBSET Comps, Open(s, comps),
         running' \subseteq Comps
  PROVE  IInv'
  <1> DEFINE old == Idle
             y == [old EXCEPT !.pc = "fetch", !.comps = comps]
  <1>1. old \in Import /\ old.made = {} /\ ImportOK(teams, games, old) /\ old.pc = "idle"
    BY IdleOK
  <1>2. imp' = [imp EXCEPT ![s] = y] /\ UNCHANGED <<feed, teams, games, faults>>
    BY DEF Open, Database
  <1> HIDE DEF old
  <1>3. /\ y \in Import /\ y.pc = "fetch" /\ y.made = {} /\ y.cache = old.cache
        /\ y.held = old.held /\ y.pending = old.pending
    BY <1>1 DEF Import
  <1> HIDE DEF y
  <1>4. old.held = {} /\ old.pending = {}
    BY <1>1 DEF ImportOK, WorkOK
  <1>5. ImportOK(teams, games, y) /\ AloneOK(teams, games, y)
    BY <1>1, <1>3, <1>4 DEF ImportOK, CacheOK, WorkOK, AloneOK, Named
  <1>6. requests' \in 0..MaxRequests
    BY BoundsAssumption DEF Open, IInv, TypeOK
  <1>7. overlapped' = (overlapped \/ (s \notin Creations /\ Active \ Creations # {}))
    BY DEF Open
  <1>8. overlapped' \in BOOLEAN /\ (overlapped => overlapped')
    BY <1>7 DEF IInv, TypeOK
  <1>9. ~overlapped' /\ s \notin Creations => \A t \in Committing : t = s
    BY <1>7 DEF Committing, Active
  <1>10. feed' \in [Games -> Reports] /\ faults' \in 0..MaxFaults
    BY <1>2 DEF IInv, TypeOK
  <1> QED BY <1>2, <1>3, <1>5, <1>6, <1>8, <1>9, <1>10, ImportStep

LEMMA StartsOK ==
  ASSUME IInv, NEW s \in Imports, JobStarts(s) \/ SyncStarts(s) \/ CreationStarts(s)
  PROVE  IInv'
  <1>1. running \subseteq Comps
    BY DEF IInv, TypeOK
  <1>2. CASE JobStarts(s)
    BY <1>1, <1>2, OpenOK DEF JobStarts
  <1>3. CASE SyncStarts(s)
    <2>1. PICK c \in running : Open(s, {c})
      BY <1>3 DEF SyncStarts
    <2>2. {c} \in SUBSET Comps /\ running' \subseteq Comps
      BY <1>1, <1>3 DEF SyncStarts
    <2> QED BY <2>1, <2>2, OpenOK
  <1>4. CASE CreationStarts(s)
    <2>1. PICK c \in Comps \ running : running' = running \cup {c} /\ Open(s, {c})
      BY <1>4 DEF CreationStarts
    <2>2. {c} \in SUBSET Comps /\ running' \subseteq Comps
      BY <1>1, <2>1
    <2> QED BY <2>1, <2>2, OpenOK
  <1> QED BY <1>2, <1>3, <1>4

LEMMA FetchOK ==
  ASSUME IInv, NEW s \in Imports, Fetch(s)
  PROVE  IInv'
  <1>1. /\ imp[s] \in Import /\ imp[s].pc = "fetch" /\ faults \in 0..MaxFaults
        /\ ImportOK(teams, games, imp[s])
    BY DEF Fetch, IInv, TypeOK
  <1>2. CASE Quiet(Days(s))
    BY <1>1, <1>2, ClosedOK DEF Fetch, Step, Database
  <1>3. CASE ~Quiet(Days(s))
    <2> DEFINE x == imp[s]
               A == Announced(Days(s))
               rep == [g \in Games |-> IF g \in Announced(Days(s)) THEN feed[g] ELSE "unknown"]
               y == [x EXCEPT !.pc = "load", !.todo = A, !.report = rep]
    <2>1. A \in SUBSET Games /\ rep \in [Games -> Reports]
      BY DEF Announced, IInv, TypeOK, Reports
    <2>2. /\ imp' = [imp EXCEPT ![s] = y]
          /\ UNCHANGED <<feed, running, teams, games, requests, faults, overlapped>>
      BY <1>3 DEF Fetch, Step, Database
    <2>3. x.made = {} /\ x.held = {} /\ x.pending = {} /\ CacheOK(teams, x) /\ x \in Import
      BY <1>1 DEF ImportOK, WorkOK
    <2> HIDE DEF x, A, rep
    <2>4. /\ y \in Import /\ y.pc = "load" /\ y.made = {} /\ y.held = {} /\ y.pending = {}
          /\ y.cache = x.cache
      BY <2>1, <2>3 DEF Import
    <2> HIDE DEF y
    <2>5. ImportOK(teams, games, y) /\ AloneOK(teams, games, y)
      BY <2>3, <2>4 DEF ImportOK, CacheOK, WorkOK, AloneOK, Named
    <2> QED BY <1>1, <2>2, <2>4, <2>5, GoesOn
  <1> QED BY <1>2, <1>3

\* The teams loaded are rows of theirs; with one row per team they are all.
LEMMA LoadTeamsOK ==
  ASSUME IInv, NEW s \in Imports, LoadTeams(s)
  PROVE  IInv'
  <1> DEFINE x == imp[s]
  <1>1. PICK cache \in [Teams -> Ids \cup {None}] :
         /\ \A t \in Teams : cache[t] \in IF RowsOf(t) = {} THEN {None} ELSE RowsOf(t)
         /\ Step(s, [x EXCEPT !.pc = "teams", !.cache = cache])
    BY DEF LoadTeams
  <1> DEFINE y == [x EXCEPT !.pc = "teams", !.cache = cache]
  <1>2. /\ imp' = [imp EXCEPT ![s] = y]
        /\ UNCHANGED <<feed, running, teams, games, requests, faults, overlapped>>
    BY <1>1 DEF Step, Database
  <1>3. /\ x \in Import /\ x.pc = "load" /\ x.made = {} /\ x.held = {} /\ x.pending = {}
        /\ faults \in 0..MaxFaults
    BY DEF IInv, TypeOK, LoadTeams, ImportOK, WorkOK
  <1> HIDE DEF x
  <1>4. /\ y \in Import /\ y.pc = "teams" /\ y.made = {} /\ y.held = {} /\ y.pending = {}
        /\ y.cache = cache
    BY <1>3 DEF Import
  <1> HIDE DEF y
  <1>5. \A t \in Teams : cache[t] # None => cache[t] \in Ids /\ teams[cache[t]] = t
    BY <1>1 DEF RowsOf
  <1>6. ImportOK(teams, games, y)
    BY <1>4, <1>5 DEF ImportOK, CacheOK, WorkOK, Named
  <1>7. ASSUME Alone PROVE AloneOK(teams, games, y)
    <2>1. ASSUME NEW i \in Ids, teams[i] # NoTeam PROVE cache[teams[i]] = i
      <3>1. teams[i] \in Teams /\ i \in RowsOf(teams[i])
        BY <2>1 DEF IInv, TypeOK, RowsOf
      <3>2. cache[teams[i]] \in RowsOf(teams[i])
        BY <1>1, <3>1
      <3> QED BY <1>7, <2>1, <3>2 DEF Alone, RowsOf
    <2> QED BY <1>4, <2>1 DEF AloneOK
  <1> QED BY <1>2, <1>3, <1>4, <1>6, <1>7, GoesOn DEF x, IInv

-----------------------------------------------------------------------------
(* Teams that are missing *)

LEMMA FreshOK ==
  ASSUME NEW taken, Fresh \ taken # {}
  PROVE  FreshAfter(taken) \in Fresh \ taken
  <1>1. Fresh \ taken \in SUBSET Nat
    BY IdsType DEF Fresh
  <1>2. \E i \in Fresh \ taken : \A j \in Fresh \ taken : i <= j
    BY <1>1, Minimum
  <1> QED BY <1>2 DEF FreshAfter

LEMMA FreshTwo ==
  ASSUME Cardinality(Fresh) >= 2
  PROVE  Fresh # {} /\ Fresh \ {FreshAfter({})} # {}
  <1>1. IsFiniteSet(Fresh)
    BY IdsType, FS_Subset DEF Fresh
  <1>2. Cardinality({}) = 0 /\ Cardinality({FreshAfter({})}) = 1
    BY FS_EmptySet, FS_Singleton
  <1>3. ASSUME Fresh \subseteq {FreshAfter({})} PROVE FALSE
    <2>1. /\ IsFiniteSet({FreshAfter({})}) /\ Fresh \in SUBSET {FreshAfter({})}
      BY <1>3, FS_Singleton
    <2>2. Cardinality(Fresh) <= 1
      BY <1>2, <2>1, FS_Subset
    <2>3. Cardinality(Fresh) \in Nat
      BY <1>1, FS_CardinalityType
    <2> QED BY <2>2, <2>3
  <1> QED BY <1>3

\* What FindTeams does: the missing teams get fresh rows of their own.
LEMMA FoundTeams ==
  ASSUME TypeOK, NEW s \in Imports, FindTeams(s)
  PROVE  LET x == Flushed(imp[s])
             missing == {t \in {Home[Current(x)], Away[Current(x)]} : x.cache[t] = None}
         IN \E id \in [missing -> Fresh] : \E ids \in SUBSET Fresh :
              /\ \A t, u \in missing : id[t] = id[u] => t = u
              /\ ids = {id[t] : t \in missing}
              /\ Query(s, [x EXCEPT !.pc = "look", !.left = x.comps, !.made = @ \cup ids,
                             !.cache = [t \in Teams |-> IF t \in missing THEN id[t] ELSE @[t]]])
  <1> DEFINE x == Flushed(imp[s])
             g == Current(x)
             missing == {t \in {Home[g], Away[g]} : x.cache[t] = None}
             first == FreshAfter({})
             ids == IF missing = {} THEN {}
                    ELSE IF Cardinality(missing) = 1 THEN {first} ELSE {first, FreshAfter({first})}
             id == [t \in missing |-> IF t = Home[g] \/ Cardinality(missing) = 1 THEN first
                                      ELSE FreshAfter({first})]
  <1>1. /\ Cardinality(Fresh) >= Cardinality(missing)
        /\ Query(s, [x EXCEPT !.pc = "look", !.left = x.comps, !.made = @ \cup ids,
                       !.cache = [t \in Teams |-> IF t \in missing THEN id[t] ELSE @[t]]])
    BY DEF FindTeams
  <1>2. Home[g] # Away[g]
    <2>1. imp[s] \in Import /\ x.todo = imp[s].todo /\ imp[s].todo # {}
      BY FlushedFields DEF TypeOK, FindTeams
    <2>2. g = Current(imp[s])
      BY <2>1 DEF Current
    <2> QED BY <2>1, <2>2, CurrentOK, HomeAway
  <1> HIDE DEF x, g
  <1>3. /\ id \in [missing -> Fresh] /\ ids \in SUBSET Fresh
        /\ \A t, u \in missing : id[t] = id[u] => t = u
        /\ ids = {id[t] : t \in missing}
    <2>1. CASE missing = {}
      BY <2>1
    <2>2. ASSUME NEW t, missing = {t}
          PROVE  /\ id \in [missing -> Fresh] /\ ids \in SUBSET Fresh
                 /\ \A u, v \in missing : id[u] = id[v] => u = v
                 /\ ids = {id[u] : u \in missing}
      <3>1. Cardinality(missing) = 1
        BY <2>2, FS_Singleton
      <3>2. Fresh # {}
        BY <1>1, <3>1, FS_EmptySet
      <3>3. first \in Fresh
        BY <3>2, FreshOK
      <3> QED BY <2>2, <3>1, <3>3
    <2>3. CASE missing = {Home[g], Away[g]}
      <3>1. Cardinality(missing) = 2
        <4>1. {Home[g]} \cup {Away[g]} = missing
          BY <2>3
        <4>2. IsFiniteSet({Home[g]}) /\ Cardinality({Home[g]}) = 1
          BY FS_Singleton
        <4> QED BY <1>2, <4>1, <4>2, FS_AddElement
      <3>2. Fresh # {} /\ Fresh \ {first} # {}
        BY <1>1, <3>1, FreshTwo
      <3>3. first \in Fresh /\ FreshAfter({first}) \in Fresh \ {first}
        BY <3>2, FreshOK
      <3> DEFINE second == FreshAfter({first})
                 both == [t \in missing |-> IF t = Home[g] THEN first ELSE second]
      <3>4. id = both /\ ids = {first, second}
        <4>1. missing # {} /\ Cardinality(missing) # 1
          BY <2>3, <3>1
        <4>2. ids = {first, second}
          BY <4>1
        <4>3. \A t \in missing : id[t] = both[t]
          BY <4>1
        <4> QED BY <4>2, <4>3
      <3> HIDE DEF id, ids, missing
      <3>5. first \in Fresh /\ second \in Fresh /\ first # second
        BY <3>3
      <3> HIDE DEF first, second
      <3>6. both[Home[g]] = first /\ both[Away[g]] = second /\ both \in [missing -> Fresh]
        BY <1>2, <2>3, <3>5
      <3> HIDE DEF both
      <3> QED BY <1>2, <2>3, <3>4, <3>5, <3>6
    <2>4. \/ missing = {} \/ missing = {Home[g]} \/ missing = {Away[g]}
          \/ missing = {Home[g], Away[g]}
      OBVIOUS
    <2> QED BY <2>1, <2>2, <2>3, <2>4
  <1> HIDE DEF id, ids, missing
  <1> QED BY <1>1, <1>3 DEF missing, g, x

\* A flush and then the next state of the import: both are fine.
LEMMA QueryOK ==
  ASSUME IInv, NEW s \in Imports, imp[s].pc # "idle", NEW y \in Import, Query(s, y),
         ImportOK(teams, games, y), y.made \ imp[s].made \subseteq Fresh,
         ~overlapped /\ s \notin Creations => AloneOK(teams, games, y)
  PROVE  IInv'
  <1>1. faults \in 0..MaxFaults
    BY DEF IInv, TypeOK
  <1>2. CASE Violates(imp[s])
    BY <1>1, <1>2, ClosedOK DEF Query, Step, Database
  <1>3. CASE ~Violates(imp[s])
    BY <1>1, <1>3, GoesOn DEF Query, Step, Database
  <1> QED BY <1>2, <1>3

\* What the flush leaves.
LEMMA Flushes ==
  ASSUME IInv, NEW s \in Imports
  PROVE  /\ imp[s] \in Import /\ Flushed(imp[s]) \in Import
         /\ ImportOK(teams, games, Flushed(imp[s]))
         /\ Flushed(imp[s]).made = imp[s].made /\ Flushed(imp[s]).pc = imp[s].pc
         /\ Flushed(imp[s]).pending = {} /\ Flushed(imp[s]).base = NoRow
         /\ Flushed(imp[s]).todo = imp[s].todo /\ Flushed(imp[s]).cache = imp[s].cache
         /\ Flushed(imp[s]).left = imp[s].left
         /\ ~overlapped => \A k \in Keys : Plays(games[k])
         /\ ~overlapped /\ s \notin Creations => AloneOK(teams, games, Flushed(imp[s]))
  <1>1. imp[s] \in Import /\ TypeOK /\ ImportOK(teams, games, imp[s])
    BY DEF IInv, TypeOK
  <1>2. ~overlapped => \A k \in Keys : Plays(games[k])
    BY DEF IInv, Alone
  <1>3. ~overlapped /\ s \notin Creations => AloneOK(teams, games, imp[s])
    BY DEF IInv, Alone
  <1> QED BY <1>1, <1>2, <1>3, FlushOK, FlushedFields

LEMMA FindTeamsOK ==
  ASSUME IInv, NEW s \in Imports, FindTeams(s)
  PROVE  IInv'
  <1> DEFINE x == Flushed(imp[s])
             g == Current(x)
             missing == {t \in {Home[g], Away[g]} : x.cache[t] = None}
  <1>1. /\ x \in Import /\ ImportOK(teams, games, x) /\ x.made = imp[s].made
        /\ x.todo # {} /\ imp[s].pc = "teams" /\ x.pc = "teams" /\ x.pending = {}
        /\ ~overlapped /\ s \notin Creations => AloneOK(teams, games, x)
    BY Flushes DEF FindTeams
  <1>2. PICK id \in [missing -> Fresh], ids \in SUBSET Fresh :
              /\ \A t, u \in missing : id[t] = id[u] => t = u
              /\ ids = {id[t] : t \in missing}
              /\ Query(s, [x EXCEPT !.pc = "look", !.left = x.comps, !.made = @ \cup ids,
                             !.cache = [t \in Teams |-> IF t \in missing THEN id[t] ELSE @[t]]])
    BY FoundTeams DEF IInv
  <1> DEFINE cache == [t \in Teams |-> IF t \in missing THEN id[t] ELSE x.cache[t]]
             made == x.made \cup ids
             y == [x EXCEPT !.pc = "look", !.left = x.comps, !.made = made, !.cache = cache]
  <1>3. Query(s, y)
    BY <1>2
  <1>4. g \in Games /\ Home[g] \in Teams /\ Away[g] \in Teams
    BY <1>1, CurrentOK, HomeAway
  <1>5. missing \subseteq Teams /\ \A t \in missing : x.cache[t] = None
    BY <1>4
  <1>6. \A i \in Fresh : i \in Ids /\ i # None /\ teams[i] = NoTeam /\ i \notin x.made
    BY <1>1, IdsType DEF Fresh
  <1>7. \A t \in Teams : t # NoTeam
    BY NoTeamAssumption
  <1>8. x.cache \in [Teams -> Ids \cup {None}] /\ x.made \subseteq Ids
    BY <1>1 DEF Import
  <1>9. cache \in [Teams -> Ids \cup {None}] /\ made \in SUBSET Ids
    BY <1>2, <1>6, <1>8
  <1> HIDE DEF x, g, missing
  <1>10. \A t \in Teams : cache[t] = IF t \in missing THEN id[t] ELSE x.cache[t]
    OBVIOUS
  <1> HIDE DEF cache
  <1>11. /\ y \in Import /\ y.pc = "look" /\ y.made = made /\ y.cache = cache /\ y.todo = x.todo
         /\ y.held = x.held /\ y.ver = x.ver /\ y.pending = x.pending /\ y.base = x.base
         /\ y.new = x.new
    <2> HIDE DEF made
    <2> QED BY <1>1, <1>9 DEF Import
  <1> HIDE DEF y
  <1>12. \A i \in Ids, t \in Teams : Named(teams, x, i, t) => Named(teams, y, i, t)
    BY <1>5, <1>10, <1>11, IdsType DEF Named
  <1>13. CacheOK(teams, y)
    <2>1. CacheOK(teams, x)
      BY <1>1 DEF ImportOK
    <2>2. ASSUME NEW t \in Teams, cache[t] # None PROVE Named(teams, y, cache[t], t)
      <3>1. CASE t \in missing
        BY <1>2, <1>10, <1>11, <3>1 DEF Named
      <3>2. CASE t \notin missing
        BY <1>8, <1>10, <1>12, <2>1, <2>2, <3>2 DEF CacheOK
      <3> QED BY <3>1, <3>2
    <2>3. ASSUME NEW t \in missing, NEW u \in Teams \ missing, id[t] = x.cache[u] PROVE FALSE
      <3>1. id[t] \in Fresh /\ id[t] # None /\ teams[id[t]] = NoTeam /\ id[t] \notin x.made
        BY <1>2, <1>6
      <3>2. Named(teams, x, id[t], u)
        BY <2>1, <2>3, <3>1 DEF CacheOK
      <3> QED BY <1>7, <3>1, <3>2 DEF Named
    <2>4. ASSUME NEW t \in Teams, NEW u \in Teams, cache[t] = cache[u], cache[t] # None
          PROVE  t = u
      <3>1. CASE t \in missing /\ u \in missing
        BY <1>2, <1>10, <2>4, <3>1
      <3>2. CASE t \notin missing /\ u \notin missing
        BY <1>10, <2>1, <2>4, <3>2 DEF CacheOK
      <3> QED BY <1>10, <2>3, <2>4, <3>1, <3>2
    <2>5. ASSUME NEW i \in made PROVE teams[i] = NoTeam /\ \E t \in Teams : cache[t] = i
      <3>1. CASE i \in ids
        BY <1>2, <1>5, <1>6, <1>10, <3>1
      <3>2. CASE i \in x.made
        <4>1. teams[i] = NoTeam /\ \E t \in Teams : x.cache[t] = i
          BY <2>1, <3>2 DEF CacheOK
        <4> QED BY <1>5, <1>8, <1>10, <3>2, <4>1, IdsType
      <3> QED BY <3>1, <3>2
    <2> QED BY <1>11, <2>2, <2>4, <2>5 DEF CacheOK
  <1>14. WorkOK(teams, games, y)
    <2>1. \A k \in y.held : RowOK(teams, y, k, y.ver[k])
      <3> TAKE k \in y.held
      <3>1. RowOK(teams, x, k, x.ver[k]) /\ k \in Keys
        BY <1>1, <1>11 DEF ImportOK, WorkOK, Import
      <3>2. x.ver[k].home \in Ids /\ x.ver[k].away \in Ids
        BY <3>1, RowTypes DEF RowOK
      <3>3. Home[k[2]] \in Teams /\ Away[k[2]] \in Teams
        BY <3>1, KeyGame, HomeAway
      <3> QED BY <1>11, <1>12, <3>1, <3>2, <3>3 DEF RowOK
    <2>2. Current(y) = g
      BY <1>11 DEF Current, g
    <2>3. cache[Home[g]] # None /\ cache[Away[g]] # None
      BY <1>2, <1>4, <1>6, <1>10 DEF missing
    <2> QED BY <1>1, <1>11, <2>1, <2>2, <2>3 DEF WorkOK
  <1>15. ASSUME AloneOK(teams, games, x) PROVE AloneOK(teams, games, y)
    <2>1. ASSUME NEW i \in Ids, teams[i] # NoTeam PROVE cache[teams[i]] = i
      <3>1. teams[i] \in Teams
        BY <2>1 DEF IInv, TypeOK
      <3>2. x.cache[teams[i]] = i
        BY <1>1, <1>15, <2>1 DEF AloneOK
      <3> QED BY <1>5, <1>10, <3>1, <3>2, IdsType
    <2> QED BY <1>1, <1>11, <1>15, <2>1 DEF AloneOK
  <1> QED BY <1>1, <1>2, <1>3, <1>11, <1>13, <1>14, <1>15, QueryOK DEF ImportOK

-----------------------------------------------------------------------------
(* Rows of games *)

\* A row of the game that x is at, made or updated by x.
NewRow(x, g, old) == IF old = NoRow THEN Created(x, g) ELSE Updated(x, g, old)

LEMMA NewRowOK ==
  ASSUME IInv, NEW x \in Import, ImportOK(teams, games, x), x.pc = "look",
         NEW c \in Comps, NEW g, g = Current(x), NEW k, k = <<c, g>>, NEW old, old = Row(x, k)
  PROVE  /\ k \in Keys /\ old \in GameRow \cup {NoRow}
         /\ RowOK(teams, x, k, NewRow(x, g, old))
         /\ old # NoRow => /\ NewRow(x, g, old).home = old.home
                           /\ NewRow(x, g, old).away = old.away
         /\ AloneOK(teams, games, x) /\ Plays(games[k]) => Plays(NewRow(x, g, old))
  <1>1. /\ x.todo # {} /\ x.cache[Home[g]] # None /\ x.cache[Away[g]] # None
        /\ CacheOK(teams, x)
    BY DEF ImportOK, WorkOK
  <1>2. g \in Games /\ Home[g] \in Teams /\ Away[g] \in Teams
    BY <1>1, CurrentOK, HomeAway
  <1>3. k \in Keys /\ k[2] = g
    BY <1>2 DEF Keys
  <1>4. /\ old \in GameRow \cup {NoRow}
        /\ old # NoRow => Named(teams, x, old.home, Home[g]) /\ Named(teams, x, old.away, Away[g])
    BY <1>3, SeenType DEF IInv, ImportOK
  <1> DEFINE h == x.cache[Home[g]]
             a == x.cache[Away[g]]
  <1>5. h \in Ids /\ a \in Ids
    BY <1>1, <1>2 DEF Import
  <1>6. Named(teams, x, h, Home[g]) /\ Named(teams, x, a, Away[g])
    BY <1>1, <1>2 DEF CacheOK
  <1>7. CASE old = NoRow
    <2> DEFINE row == Created(x, g)
    <2>1. row = [home |-> h, away |-> a, final |-> Final(x, g), winner |-> None]
      BY DEF Created
    <2>2. Final(x, g) \in BOOLEAN
      BY DEF Final
    <2>3. row \in GameRow /\ row.home = h /\ row.away = a /\ row.winner = None
      BY <1>5, <2>1, <2>2 DEF GameRow
    <2>4. NewRow(x, g, old) = row
      BY <1>7 DEF NewRow
    <2> HIDE DEF row, h, a
    <2> QED BY <1>3, <1>4, <1>6, <1>7, <2>3, <2>4 DEF RowOK, Plays
  <1>8. CASE old # NoRow
    <2> DEFINE row == Updated(x, g, old)
               w == Winner(x, g, old.winner)
               f == Final(x, g)
    <2>1. old \in GameRow /\ row = [old EXCEPT !.final = f, !.winner = w]
      BY <1>4, <1>8 DEF Updated
    <2>2. w \in {h, a, old.winner} /\ f \in BOOLEAN
      BY DEF Winner, Final
    <2>3. NewRow(x, g, old) = row
      BY <1>8 DEF NewRow
    <2> HIDE DEF row, w, f, h, a
    <2>4. row \in GameRow /\ row.home = old.home /\ row.away = old.away /\ row.winner = w
      BY <1>5, <2>1, <2>2 DEF GameRow
    <2>5. RowOK(teams, x, k, row)
      BY <1>3, <1>4, <1>8, <2>4 DEF RowOK
    <2>6. ASSUME AloneOK(teams, games, x), Plays(games[k]) PROVE Plays(row)
      <3>1. \A i \in Ids : teams[i] # NoTeam => x.cache[teams[i]] = i
        BY <2>6 DEF AloneOK
      <3>2. Home[g] # NoTeam /\ Away[g] # NoTeam
        BY <1>2, NoTeamAssumption
      <3>3. old.home = h /\ old.away = a
        <4>1. old.home \in Ids /\ old.away \in Ids
          BY <2>1, RowTypes
        <4> QED BY <1>4, <1>8, <3>1, <3>2, <4>1 DEF Named, h, a
      <3>4. Plays(old)
        BY <2>6 DEF AloneOK, Row
      <3> QED BY <2>2, <2>4, <3>3, <3>4 DEF Plays
    <2> QED BY <1>3, <1>4, <1>8, <2>3, <2>4, <2>5, <2>6
  <1> QED BY <1>7, <1>8

\* On to the next competition, or to the next game.
LEMMA NextLookUpOK ==
  ASSUME NEW z \in Import, z.todo # {}
  PROVE  /\ NextLookUp(z) \in Import /\ NextLookUp(z).made = z.made /\ NextLookUp(z).cache = z.cache
         /\ NextLookUp(z).held = z.held /\ NextLookUp(z).ver = z.ver
         /\ NextLookUp(z).pending = z.pending /\ NextLookUp(z).base = z.base
         /\ NextLookUp(z).new = z.new
         /\ NextLookUp(z) = z \/ NextLookUp(z).pc = "teams"
  <1>1. CASE z.left # {}
    BY <1>1 DEF NextLookUp
  <1>2. CASE z.left = {}
    <2> DEFINE g == Current(z)
               todo == z.todo \ {g}
               rep == [z.report EXCEPT ![g] = "unknown"]
               y == [z EXCEPT !.pc = "teams", !.todo = todo, !.report = rep]
    <2>1. NextLookUp(z) = y
      BY <1>2 DEF NextLookUp, Import
    <2>2. todo \in SUBSET Games /\ rep \in [Games -> Reports]
      BY DEF Import, Reports
    <2> HIDE DEF todo, rep
    <2>3. /\ y \in Import /\ y.pc = "teams" /\ y.made = z.made /\ y.cache = z.cache
          /\ y.held = z.held /\ y.ver = z.ver /\ y.pending = z.pending /\ y.base = z.base
          /\ y.new = z.new
      BY <2>2 DEF Import
    <2> QED BY <2>1, <2>3
  <1> QED BY <1>1, <1>2

LEMMA LookUpOK ==
  ASSUME IInv, NEW s \in Imports, LookUp(s)
  PROVE  IInv'
  <1> DEFINE x == Flushed(imp[s])
             g == Current(x)
  <1>1. /\ x \in Import /\ ImportOK(teams, games, x) /\ x.made = imp[s].made
        /\ imp[s].pc = "look" /\ x.pc = "look" /\ x.pending = {} /\ x.left = imp[s].left
        /\ x.left \subseteq Comps /\ x.base = NoRow
        /\ ~overlapped => \A k \in Keys : Plays(games[k])
        /\ ~overlapped /\ s \notin Creations => AloneOK(teams, games, x)
    BY Flushes DEF LookUp, Import
  <1>2. PICK c \in x.left :
         LET old == Row(x, <<c, g>>)
             new == IF old = NoRow THEN Created(x, g) ELSE Updated(x, g, old)
         IN Query(s, NextLookUp([x EXCEPT !.pending = {<<c, g>>}, !.base = old, !.new = new,
                                          !.left = @ \ {c}]))
    BY <1>1 DEF LookUp
  <1> DEFINE k == <<c, g>>
             old == Row(x, k)
             new == NewRow(x, g, old)
             left == x.left \ {c}
             z == [x EXCEPT !.pending = {k}, !.base = old, !.new = new, !.left = left]
             y == NextLookUp(z)
  <1>3. Query(s, y)
    BY <1>2 DEF NewRow
  <1>4. /\ c \in Comps /\ k \in Keys /\ old \in GameRow \cup {NoRow}
        /\ RowOK(teams, x, k, new)
        /\ old # NoRow => new.home = old.home /\ new.away = old.away
        /\ AloneOK(teams, games, x) /\ Plays(games[k]) => Plays(new)
    BY <1>1, NewRowOK
  <1>5. old = RowIn(games, x, k)
    BY RowOfIn
  <1>6. left \in SUBSET Comps
    BY <1>1
  <1> HIDE DEF x, k, old, new, left
  <1>7. /\ z \in Import /\ z.pc = "look" /\ z.made = x.made /\ z.cache = x.cache
        /\ z.todo = x.todo /\ z.held = x.held /\ z.ver = x.ver
        /\ z.pending = {k} /\ z.base = old /\ z.new = new
    <2>1. new \in GameRow
      BY <1>4 DEF RowOK
    <2> QED BY <1>1, <1>4, <1>6, <2>1 DEF Import
  <1> HIDE DEF z
  <1>8. \A i, t : Named(teams, z, i, t) <=> Named(teams, x, i, t)
    BY <1>7 DEF Named
  <1>9. \A q : RowIn(games, z, q) = RowIn(games, x, q)
    BY <1>7 DEF RowIn
  <1>10. Current(z) = g
    BY <1>7 DEF Current
  <1>11. ImportOK(teams, games, z)
    <2>1. \A q, row : RowOK(teams, x, q, row) => RowOK(teams, z, q, row)
      BY <1>8 DEF RowOK
    <2>2. CacheOK(teams, z)
      BY <1>1, <1>7, <1>8 DEF ImportOK, CacheOK
    <2>3. \A q \in z.held : RowOK(teams, z, q, z.ver[q])
      BY <1>1, <1>7, <2>1 DEF ImportOK, WorkOK
    <2>4. \A q \in z.pending : RowOK(teams, z, q, z.new)
                                 /\ (z.base # NoRow => RowIn(games, z, q) # NoRow)
      BY <1>4, <1>5, <1>7, <1>9, <2>1
    <2> QED BY <1>1, <1>7, <1>10, <2>2, <2>3, <2>4 DEF ImportOK, WorkOK
  <1>12. ASSUME AloneOK(teams, games, x), Plays(games[k]) PROVE AloneOK(teams, games, z)
    BY <1>1, <1>4, <1>5, <1>7, <1>9, <1>12 DEF AloneOK
  <1>13. z.todo # {}
    BY <1>7, <1>11 DEF ImportOK, WorkOK
  <1>14. /\ y \in Import /\ y.made = z.made /\ y.cache = z.cache
         /\ y.held = z.held /\ y.ver = z.ver /\ y.pending = z.pending /\ y.base = z.base
         /\ y.new = z.new
         /\ y = z \/ y.pc = "teams"
    BY <1>7, <1>13, NextLookUpOK
  <1> HIDE DEF y
  <1>15. ImportOK(teams, games, y)
    <2>1. CASE y = z
      BY <1>11, <2>1
    <2>2. CASE y.pc = "teams"
      BY <1>11, <1>14, <2>2 DEF ImportOK, CacheOK, WorkOK, Named, RowOK, RowIn
    <2> QED BY <1>14, <2>1, <2>2
  <1>16. ASSUME AloneOK(teams, games, z) PROVE AloneOK(teams, games, y)
    BY <1>7, <1>14, <1>16 DEF AloneOK, RowIn
  <1> QED BY <1>1, <1>3, <1>4, <1>7, <1>12, <1>14, <1>15, <1>16, QueryOK

LEMMA ScoringFailsOK ==
  ASSUME IInv, NEW s \in Imports, ScoringFails(s)
  PROVE  IInv'
  <1> DEFINE x == imp[s]
             z == Flushed(x)
             row == Reopened(x.new)
             y == [z EXCEPT !.pending = x.pending, !.base = x.new, !.new = row]
  <1>1. /\ x \in Import /\ ImportOK(teams, games, x) /\ x.pending # {} /\ x.base # NoRow
        /\ ~overlapped /\ s \notin Creations =>
             AloneOK(teams, games, x) /\ \A k \in Keys : Plays(games[k])
    BY DEF IInv, TypeOK, Alone, ScoringFails
  <1>2. /\ faults' \in 0..MaxFaults
        /\ UNCHANGED <<feed, running, teams, games, requests, overlapped>>
    BY BoundsAssumption DEF ScoringFails, IInv, TypeOK, Database
  <1>3. imp' = [imp EXCEPT ![s] = y]
    BY DEF ScoringFails, IInv, TypeOK
  <1>4. /\ z \in Import /\ ImportOK(teams, games, z)
        /\ ~overlapped /\ s \notin Creations => AloneOK(teams, games, z)
    BY <1>1, FlushOK DEF IInv
  <1>5. /\ z.pc = x.pc /\ z.made = x.made /\ z.cache = x.cache /\ z.todo = x.todo
        /\ z.held = x.held \cup x.pending
        /\ z.ver = [k \in Keys |-> IF k \in x.pending THEN Written(x, k) ELSE x.ver[k]]
    BY <1>1, FlushedFields
  <1>6. x.new \in GameRow /\ x.pc \notin {"idle", "fetch", "load"} /\ x.pending \subseteq Keys
    BY <1>1 DEF ImportOK, WorkOK, RowOK, Import
  <1>7. row \in GameRow /\ row.home = x.new.home /\ row.away = x.new.away /\ row.winner = None
    BY <1>6 DEF GameRow, Reopened
  \* The flush has written the row that is in memory, if nobody interferes.
  <1>8. ASSUME AloneOK(teams, games, x), NEW k \in x.pending PROVE Written(x, k) = x.new
    <2>1. /\ x.base = Row(x, k) /\ x.base \in GameRow
          /\ x.new.home = x.base.home /\ x.new.away = x.base.away
      BY <1>1, <1>8, RowOfIn DEF AloneOK, Import
    <2>2. Written(x, k) = [x.base EXCEPT !.final = x.new.final, !.winner = x.new.winner]
      BY <1>1, <2>1 DEF Written, GameRow
    <2> QED BY <1>6, <2>1, <2>2 DEF GameRow
  <1>9. \A k \in x.pending : z.ver[k] = Written(x, k) /\ Written(x, k) \in GameRow
    BY <1>1, <1>5, <1>6, WrittenOK DEF RowOK, IInv
  <1> HIDE DEF x, z, row
  <1>10. /\ y \in Import /\ y.pc = z.pc /\ y.made = z.made /\ y.cache = z.cache
         /\ y.todo = z.todo /\ y.held = z.held /\ y.ver = z.ver
         /\ y.pending = x.pending /\ y.base = x.new /\ y.new = row
    BY <1>4, <1>6, <1>7 DEF Import
  <1> HIDE DEF y
  <1>11. Current(y) = Current(z)
    BY <1>10 DEF Current
  <1>12. \A i, t : Named(teams, y, i, t) <=> Named(teams, x, i, t)
    BY <1>5, <1>10 DEF Named
  <1>13. \A k \in x.pending : RowOK(teams, y, k, row) /\ RowIn(games, y, k) # NoRow
    <2> TAKE k \in x.pending
    <2>1. RowOK(teams, x, k, x.new)
      BY <1>1 DEF ImportOK, WorkOK
    <2>2. RowOK(teams, y, k, row)
      BY <1>7, <1>12, <2>1 DEF RowOK
    <2>3. RowIn(games, y, k) = Written(x, k)
      BY <1>5, <1>9, <1>10 DEF RowIn
    <2> QED BY <1>9, <2>2, <2>3, RowTypes
  <1>14. ImportOK(teams, games, y)
    BY <1>4, <1>5, <1>6, <1>10, <1>11, <1>13 DEF ImportOK, CacheOK, WorkOK, Named, RowOK
  <1>15. ASSUME AloneOK(teams, games, x), AloneOK(teams, games, z)
         PROVE  AloneOK(teams, games, y)
    <2>1. \A k \in x.pending : RowIn(games, y, k) = x.new
      BY <1>5, <1>8, <1>9, <1>10, <1>15 DEF RowIn
    <2> QED BY <1>7, <1>10, <1>15, <2>1 DEF AloneOK, Plays
  <1>16. y.made \ x.made \subseteq Fresh
    BY <1>5, <1>10
  <1> QED BY <1>1, <1>2, <1>3, <1>4, <1>5, <1>6, <1>10, <1>14, <1>15, <1>16, GoesOn DEF x

-----------------------------------------------------------------------------
(* The commit *)

\* Rows of teams after x has committed.
Becomes(x, after) ==
    \A i \in Ids : IF i \in x.made THEN after[i] \in Teams /\ x.cache[after[i]] = i
                   ELSE after[i] = teams[i]

LEMMA NamedBecomes ==
  ASSUME TypeOK, NEW x, CacheOK(teams, x), NEW after, Becomes(x, after),
         NEW i \in Ids, NEW t \in Teams
  PROVE  /\ teams[i] = t => after[i] = t
         /\ Named(teams, x, i, t) => after[i] = t
  <1>1. \A j \in x.made : teams[j] = NoTeam
    BY DEF CacheOK
  <1>2. teams[i] = t => after[i] = t
    BY <1>1, NoTeamAssumption DEF Becomes
  <1>3. ASSUME i \in x.made, x.cache[t] = i PROVE after[i] = t
    <2>1. after[i] \in Teams /\ x.cache[after[i]] = i /\ i # None
      BY <1>3, IdsType DEF Becomes
    <2> QED BY <1>3, <2>1 DEF CacheOK
  <1> QED BY <1>2, <1>3 DEF Named

LEMMA CommitOK ==
  ASSUME IInv, NEW s \in Imports, Commit(s)
  PROVE  IInv'
  <1>1. CASE Violates(imp[s])
    <2>1. faults' \in 0..MaxFaults /\ imp[s].pc # "idle"
      BY DEF Commit, Done, IInv, TypeOK
    <2> QED BY <1>1, <2>1, ClosedOK DEF Commit, Database
  <1>2. CASE ~Violates(imp[s])
    <2> DEFINE x == Flushed(imp[s])
    <2>1. /\ x \in Import /\ ImportOK(teams, games, x) /\ x.made = imp[s].made
          /\ imp[s].pc = "teams" /\ x.pc = "teams" /\ s \notin Creations
          /\ ~overlapped => AloneOK(teams, games, x)
      BY Flushes DEF Commit, Done
    <2>2. /\ games' = [k \in Keys |-> IF k \in x.held THEN x.ver[k] ELSE games[k]]
          /\ teams' = [i \in Ids |-> IF i \in x.made
                                     THEN CHOOSE t \in Teams : x.cache[t] = i ELSE teams[i]]
          /\ imp' = [imp EXCEPT ![s] = Idle]
          /\ UNCHANGED <<mix, feed, running, requests, faults, overlapped>>
      BY <1>2 DEF Commit, Closed
    <2>3. TypeOK /\ imp \in [Imports -> Import] /\ teams \in [Ids -> Teams \cup {NoTeam}]
          /\ games \in [Keys -> GameRow \cup {NoRow}]
      BY DEF IInv, TypeOK
    <2> HIDE DEF x
    <2>4. imp'[s] = Idle /\ \A t \in Imports : t # s => imp'[t] = imp[t]
      BY <2>2, <2>3
    <2>5. CacheOK(teams, x) /\ WorkOK(teams, games, x) /\ x.held \subseteq Keys
      BY <2>1 DEF ImportOK, Import
    <2>6. Becomes(x, teams')
      <3>1. ASSUME NEW i \in Ids, i \in x.made PROVE teams'[i] \in Teams /\ x.cache[teams'[i]] = i
        <4>1. \E t \in Teams : x.cache[t] = i
          BY <2>5, <3>1 DEF CacheOK
        <4> QED BY <2>2, <3>1, <4>1
      <3> QED BY <2>2, <3>1 DEF Becomes
    <2>7. teams' \in [Ids -> Teams \cup {NoTeam}]
      <3>1. \A i \in Ids : teams'[i] \in Teams \cup {NoTeam}
        BY <2>3, <2>6 DEF Becomes
      <3> QED BY <2>2, <3>1
    <2>8. \A i \in Ids, t \in Teams : /\ teams[i] = t => teams'[i] = t
                                      /\ Named(teams, x, i, t) => teams'[i] = t
      BY <2>3, <2>5, <2>6, NamedBecomes
    <2>9. \A k \in x.held : RowOK(teams, x, k, x.ver[k])
      BY <2>5 DEF WorkOK
    <2>10. \A k \in Keys : games'[k] = IF k \in x.held THEN x.ver[k] ELSE games[k]
      BY <2>2
    <2>11. games' \in [Keys -> GameRow \cup {NoRow}]
      <3>1. \A k \in Keys : games'[k] \in GameRow \cup {NoRow}
        BY <2>3, <2>9, <2>10 DEF RowOK
      <3> QED BY <2>2, <3>1
    <2>12. \A k \in Keys : games[k] # NoRow => games'[k] # NoRow
      BY <2>9, <2>10, RowTypes DEF RowOK
    <2>13. ASSUME NEW k \in Keys, games'[k] # NoRow
           PROVE  teams'[games'[k].home] = Home[k[2]] /\ teams'[games'[k].away] = Away[k[2]]
      <3>1. Home[k[2]] \in Teams /\ Away[k[2]] \in Teams
        BY KeyGame, HomeAway
      <3>2. games'[k] \in GameRow /\ games'[k].home \in Ids /\ games'[k].away \in Ids
        BY <2>11, <2>13, RowTypes
      <3>3. CASE k \in x.held
        BY <2>8, <2>9, <2>10, <3>1, <3>2, <3>3 DEF RowOK
      <3>4. CASE k \notin x.held
        BY <2>3, <2>8, <2>10, <2>13, <3>1, <3>2, <3>4 DEF TypeOK
      <3> QED BY <3>3, <3>4
    <2>14. imp' \in [Imports -> Import]
      BY <2>2, <2>3, IdleOK
    <2>15. TypeOK'
      BY <2>2, <2>3, <2>7, <2>11, <2>13, <2>14 DEF TypeOK
    <2>16. ASSUME NEW t \in Imports, t # s PROVE ImportOK(teams', games', imp[t])
      <3> DEFINE w == imp[t]
      <3>1. w \in Import /\ CacheOK(teams, w) /\ WorkOK(teams, games, w) /\ w.made \cap x.made = {}
        BY <2>1, <2>3, <2>16 DEF IInv, ImportOK
      <3> HIDE DEF w
      <3>2. \A i \in Ids, u \in Teams : Named(teams, w, i, u) => Named(teams', w, i, u)
        BY <2>8 DEF Named
      <3>3. CacheOK(teams', w)
        <4>1. \A i \in w.made : teams'[i] = NoTeam
          BY <2>6, <3>1 DEF Becomes, CacheOK, Import
        <4>2. \A u \in Teams : w.cache[u] # None => w.cache[u] \in Ids
          BY <3>1 DEF Import
        <4> QED BY <3>1, <3>2, <4>1, <4>2 DEF CacheOK
      <3>4. \A k \in Keys : \A row : RowOK(teams, w, k, row) => RowOK(teams', w, k, row)
        BY <3>2, RowTypes, KeyGame, HomeAway DEF RowOK
      <3>5. \A k \in Keys : RowIn(games, w, k) # NoRow => RowIn(games', w, k) # NoRow
        BY <2>12 DEF RowIn
      <3>6. w.held \subseteq Keys /\ w.pending \subseteq Keys
        BY <3>1 DEF Import
      <3>7. WorkOK(teams', games', w)
        BY <3>1, <3>4, <3>5, <3>6 DEF WorkOK
      <3> QED BY <3>3, <3>7 DEF ImportOK, w
    <2>17. \A t \in Imports : ImportOK(teams', games', imp'[t])
      BY <2>4, <2>16, IdleOK
    <2>18. \A t, u \in Imports : t # u => imp'[t].made \cap imp'[u].made = {}
      BY <2>4, IdleOK DEF IInv
    <2>19. ASSUME ~overlapped' PROVE Alone'
      <3>1. Alone /\ AloneOK(teams, games, x)
        BY <2>1, <2>2, <2>19 DEF IInv
      <3>2. s \in Committing
        BY <2>1 DEF Committing
      <3>3. \A t, u \in Committing' : t = u
        BY <2>4, <3>1, IdleOK DEF Alone, Committing
      <3>4. ASSUME NEW t \in Imports \ Creations PROVE AloneOK(teams', games', imp'[t])
        <4>1. CASE t = s
          BY <2>4, <4>1, IdleOK
        <4>2. CASE t # s
          <5>1. imp[t].pc = "idle"
            BY <3>1, <3>2, <4>2 DEF Alone, Committing
          <5>2. imp[t].held = {} /\ imp[t].pending = {}
            BY <5>1 DEF IInv, ImportOK, WorkOK
          <5> QED BY <2>4, <4>2, <5>1, <5>2 DEF AloneOK
        <4> QED BY <4>1, <4>2
      <3>5. ASSUME NEW i \in Ids, teams'[i] # NoTeam PROVE x.cache[teams'[i]] = i
        BY <2>1, <2>6, <3>1, <3>5 DEF Becomes, AloneOK
      <3>6. \A i, j \in Ids : teams'[i] = teams'[j] /\ teams'[i] # NoTeam => i = j
        BY <3>5
      <3>7. \A k \in Keys : Plays(games'[k])
        BY <2>10, <3>1 DEF Alone, AloneOK
      <3> QED BY <3>3, <3>4, <3>6, <3>7 DEF Alone
    <2> QED BY <2>15, <2>17, <2>18, <2>19 DEF IInv
  <1> QED BY <1>1, <1>2

LEMMA OtherEnds ==
  ASSUME IInv, NEW s \in Imports, CreationEnds(s) \/ Fails(s) \/ DeadlockVictim(s)
  PROVE  IInv'
  <1>1. faults \in 0..MaxFaults
    BY DEF IInv, TypeOK
  <1>2. CASE CreationEnds(s)
    BY <1>1, <1>2, ClosedOK DEF CreationEnds, Done, Database
  <1>3. CASE Fails(s)
    <2>1. faults' \in 0..MaxFaults
      BY <1>1, <1>3, BoundsAssumption DEF Fails
    <2> QED BY <1>3, <2>1, ClosedOK DEF Fails, Database
  <1>4. CASE DeadlockVictim(s)
    <2>1. imp[s].pc # "idle"
      BY <1>4 DEF DeadlockVictim, Active
    <2> QED BY <1>1, <1>4, <2>1, ClosedOK DEF DeadlockVictim, Step, Database
  <1> QED BY <1>2, <1>3, <1>4

LEMMA FeedOK ==
  ASSUME IInv, NEW g \in Games, FeedMoves(g)
  PROVE  IInv'
  <1>1. feed' \in [Games -> Reports]
    <2>1. feed \in [Games -> Reports]
      BY DEF IInv, TypeOK
    <2>2. \A r \in Results : r[2] \in Reports
      BY LeagueAssumption DEF Reports
    <2> QED BY <2>1, <2>2 DEF FeedMoves, Reports
  <1>2. UNCHANGED <<running, teams, games, imp, requests, faults, overlapped>>
    BY DEF FeedMoves, Database
  <1>3. TypeOK'
    BY <1>1, <1>2 DEF IInv, TypeOK
  <1>4. Alone => Alone'
    BY <1>2 DEF Alone, Committing
  <1> QED BY <1>2, <1>3, <1>4 DEF IInv

\* The teams known at the beginning have one row each.
LEMMA InitOK == Init => IInv
  <1> SUFFICES ASSUME Init PROVE IInv
    OBVIOUS
  <1> DEFINE known == SetToSeq(Known)
             n == Cardinality(Known)
  <1>1. n \in Nat /\ \E f \in [1..n -> Known] : IsInjective(f)
    BY LeagueAssumption, FS_CardinalityType DEF ExistsBijection, Bijection, Injection
  <1>2. known \in [1..n -> Known] /\ IsInjective(known)
    BY <1>1 DEF SetToSeq
  <1> HIDE DEF n
  <1>3. known \in Seq(Known) /\ Len(known) = n
    BY <1>1, <1>2
  <1>4. teams = [i \in Ids |-> IF i <= n THEN known[i] ELSE NoTeam]
    BY <1>3 DEF Init
  <1>5. \A i \in Ids : i \in Nat /\ i >= 1
    BY BoundsAssumption DEF Ids
  <1> HIDE DEF known
  <1>6. \A i \in Ids : i <= n => i \in 1..n /\ known[i] \in Teams
    BY <1>1, <1>2, <1>5, LeagueAssumption
  <1>7. teams \in [Ids -> Teams \cup {NoTeam}]
    BY <1>4, <1>6
  <1>8. \A i, j \in Ids : teams[i] = teams[j] /\ teams[i] # NoTeam => i = j
    BY <1>2, <1>4, <1>6, NoTeamAssumption DEF IsInjective
  <1>9. /\ \A s \in Imports : imp[s] = Idle
        /\ \A k \in Keys : games[k] = NoRow
        /\ games = [k \in Keys |-> NoRow] /\ imp = [s \in Imports |-> Idle]
        /\ feed = [g \in Games |-> "unknown"] /\ requests = 0 /\ faults = 0 /\ overlapped = FALSE
    BY DEF Init
  <1>10. running \subseteq Comps
    BY BoundsAssumption DEF Init
  <1>11. TypeOK
    <2>1. feed \in [Games -> Reports]
      BY <1>9 DEF Reports
    <2>2. games \in [Keys -> GameRow \cup {NoRow}] /\ \A k \in Keys : games[k] = NoRow
      BY <1>9
    <2>3. imp \in [Imports -> Import]
      BY <1>9, IdleOK
    <2>4. requests \in 0..MaxRequests /\ faults \in 0..MaxFaults
      BY <1>9, BoundsAssumption
    <2>5. overlapped \in BOOLEAN
      BY <1>9
    <2> QED BY <1>7, <1>10, <2>1, <2>2, <2>3, <2>4, <2>5 DEF TypeOK
  <1>12. Alone
    <2>1. Committing = {}
      BY <1>9, IdleOK DEF Committing
    <2>2. \A k \in Keys : Plays(games[k])
      BY <1>9 DEF Plays, NoRow
    <2>3. \A s \in Imports \ Creations : AloneOK(teams, games, imp[s])
      BY <1>9, IdleOK
    <2> QED BY <1>8, <2>1, <2>2, <2>3 DEF Alone
  <1> QED BY <1>9, <1>11, <1>12, IdleOK DEF IInv

LEMMA StepOK == IInv /\ [Next]_vars => IInv'
  <1> SUFFICES ASSUME IInv, [Next]_vars PROVE IInv'
    OBVIOUS
  <1>1. ASSUME NEW g \in Games, FeedMoves(g) PROVE IInv'
    BY <1>1, FeedOK
  <1>2. ASSUME NEW s \in Imports,
               \/ JobStarts(s) \/ SyncStarts(s) \/ CreationStarts(s)
               \/ Fetch(s) \/ LoadTeams(s) \/ FindTeams(s) \/ LookUp(s)
               \/ Commit(s) \/ CreationEnds(s)
               \/ ScoringFails(s) \/ Fails(s) \/ DeadlockVictim(s)
        PROVE  IInv'
    BY <1>2, StartsOK, FetchOK, LoadTeamsOK, FindTeamsOK, LookUpOK, CommitOK, ScoringFailsOK,
       OtherEnds
  <1>3. CASE UNCHANGED vars
    <2>1. UNCHANGED <<feed, running, teams, games, imp, requests, faults, overlapped>>
      BY <1>3 DEF vars, Database
    <2>2. TypeOK'
      BY <2>1 DEF IInv, TypeOK
    <2>3. Alone => Alone'
      BY <2>1 DEF Alone, Committing
    <2> QED BY <2>1, <2>2, <2>3 DEF IInv
  <1> QED BY <1>1, <1>2, <1>3 DEF Next

\* The invariant holds in every behaviour.
THEOREM Inductive == Spec => []IInv
  BY InitOK, StepOK, PTL DEF Spec

\* The variables keep their types, and every row of games names the rows of
\* its teams, whatever imports overlap, fail, are rolled back or end as the
\* victims of deadlocks (services/sync_service.py).
THEOREM TypeCorrect == Spec => []TypeOK
  <1>1. IInv => TypeOK
    BY DEF IInv
  <1> QED BY <1>1, Inductive, PTL

\* Unless two imports that commit were in progress together, a team of the API
\* has one row: no import creates a team that an earlier one has created
\* (_find_or_create_team).
THEOREM AlwaysOneRowPerTeam == Spec => []OneRowPerTeam
  <1>1. IInv => OneRowPerTeam
    BY DEF IInv, Alone, OneRowPerTeam
  <1> QED BY <1>1, Inductive, PTL

\* Under the same condition the winner of a game is one of the two rows of
\* teams it is between, though it comes from the teams an import has loaded and
\* not from the row (_sync_game_for_competition).
THEOREM WinnerAlwaysPlays == Spec => []WinnerPlays
  <1>1. IInv => WinnerPlays
    BY DEF IInv, Alone, WinnerPlays, Plays
  <1> QED BY <1>1, Inductive, PTL
===============================================================================
