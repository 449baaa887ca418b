----------------------------- MODULE MCSportsApi -----------------------------
(* Small instances of SportsApi. *)
EXTENDS SportsApi

\* The score job asks for live scores, the sync job and the admins for the
\* schedule.
Callers == [c \in Calls |-> IF c = "score" THEN {"live"} ELSE {"schedule"}]
=============================================================================
