----------------------------- MODULE MCScoring -----------------------------
(* Small instances of Scoring for TLC. *)
EXTENDS Scoring, TLC

\* One user with a pick on each of two games.
TwoGames == [p \in {<<"ann", 1>>, <<"ann", 2>>} |-> "home"]
OnePick  == [p \in {<<"ann", 1>>} |-> "home"]

\* The API names a result once and keeps to it.
FinalOnce == {"live"} \X Outcomes
\* It may report the end of a game before the scores.
LateScores == FinalOnce \cup {<<"live", "missing">>} \cup ({"missing"} \X Outcomes)
\* It may revise a result.
Revised == LateScores \cup (Outcomes \X Outcomes)
=============================================================================
