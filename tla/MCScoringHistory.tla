-------------------------- MODULE MCScoringHistory --------------------------
(* Small instances of ScoringHistory for TLC. *)
EXTENDS ScoringHistory, MCScoring

\* First it is a draw; then the home team has won.
TieThenHome == {<<"live", "tie">>, <<"tie", "home">>}
=============================================================================
