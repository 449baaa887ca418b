-------------------------- MODULE MCFixedSelections --------------------------
(* Small instances of FixedSelections. *)
EXTENDS FixedSelections

AnyBatch == SUBSET Teams

\* Two teams in either order of insertion, one of them with a third, the third.
Crossing == {{"t1", "t2"}, {"t2", "t3"}, {"t3"}}
=============================================================================
