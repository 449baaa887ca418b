---------------------------- MODULE MCLiveScores ----------------------------
(* Small instances of LiveScores. *)
EXTENDS LiveScores
=============================================================================
