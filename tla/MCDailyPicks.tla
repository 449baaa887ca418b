----------------------------- MODULE MCDailyPicks -----------------------------
(* Small instances of DailyPicks. *)
EXTENDS DailyPicks

\* Batches with one item per game, and batches that may name a game twice.
OncePerGame == {b \in SUBSET (Games \X Teams) : \A i, j \in b : i[1] = j[1] => i = j}
Repeating == {b \in SUBSET (Games \X Teams) : Cardinality(b) <= 2}

\* Batches of one or two of three games, and for one of them either winner.
FewBatches == {{<<"early", "home">>}, {<<"late", "away">>},
               {<<"late", "home">>, <<"next", "home">>}, {<<"early", "home">>, <<"next", "home">>}}

\* The first game of the day, a game on the next day.
TwoDays == [g \in Games |-> IF g = "early" THEN 1 ELSE 3]

\* Games that are never played.
NotPlayed == [g \in Games |-> MaxTime + 1]
=============================================================================
