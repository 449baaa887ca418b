--------------------------- MODULE ScoringHistory ---------------------------
(***************************************************************************)
(* Scoring with a memory of which sessions have got in each other's way.   *)
(*                                                                         *)
(* recalculate_participant_stats (services/score_service.py) reads all     *)
(* picks of a participant and overwrites the aggregates, without a lock    *)
(* between the two.  Two sessions that do so for one participant may       *)
(* overwrite each other, and a scoring that raises leaves the aggregates   *)
(* as they were.  Three history variables say to whom that has happened;   *)
(* they change nothing in what Scoring does.                               *)
(***************************************************************************)
EXTENDS Scoring

VARIABLES
    visited,    \* per session, the participants whose picks it has graded
    disturbed,  \* of these, the ones that another session has visited as well
                \* since, or whose aggregates it has given up
    doubtful    \* participants whose last committed visit was a disturbed one

history == <<visited, disturbed, doubtful>>

\* The participants whose aggregates a session has still to write.
Unwritten(x) == x.users \cup ({x.who} \ {Nobody})

HistoryInit ==
    /\ Init
    /\ visited = [s \in Sessions |-> {}]
    /\ disturbed = [s \in Sessions |-> {}]
    /\ doubtful = {}

\* A visit begins when the picks of a game are selected and ends with the
\* session.
Visits(s) == IF sess'[s].pc = "idle" THEN {} ELSE visited[s] \cup sess'[s].users
Meets(s, u) == \E t \in Others(s) : u \in visited'[t]
GivenUp(s) == IF ScoringFails(s) THEN Unwritten(sess[s]) ELSE {}
Disturbances(s) ==
    IF sess'[s].pc = "idle" THEN {}
    ELSE disturbed[s] \cup GivenUp(s) \cup {u \in visited'[s] : Meets(s, u)}

\* A committed visit settles what there is to think of a participant.
Doubtful(u) ==
    IF \E s \in Sessions : u \in visited[s] /\ Commit(s)
    THEN \E s \in Sessions : u \in disturbed[s] /\ Commit(s)
    ELSE u \in doubtful

Remember ==
    /\ visited' = [s \in Sessions |-> Visits(s)]
    /\ disturbed' = [s \in Sessions |-> Disturbances(s)]
    /\ doubtful' = {u \in Users : Doubtful(u)}

HistorySpec == HistoryInit /\ [][Next /\ Remember]_<<vars, history>>

-----------------------------------------------------------------------------
(* Properties *)

\* At any time a participant's points, wins, losses and streak are those of
\* the picks stored for them, but for those whose last recalculation met with
\* another one of theirs or was given up: the next one that is left alone puts
\* them right, whatever was stored before (recalculate_participant_stats).
StatsMatchPicks ==
    \A u \in Users \ doubtful :
      stats[u] = Aggregate({p \in PicksOf(u) : picks[p].correct # "null"}, picks)

=============================================================================
