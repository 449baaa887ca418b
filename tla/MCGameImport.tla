---------------------------- MODULE MCGameImport ----------------------------
(* Small instances of GameImport. *)
EXTENDS GameImport

\* One team plays the other today and tomorrow.
MCHome == [g \in Games |-> IF g = 1 THEN "a" ELSE "b"]
MCAway == [g \in Games |-> IF g = 1 THEN "b" ELSE "a"]
MCDay == [g \in Games |-> g - 1]
MCMixes == {<<{"job", "sync"}, {"x"}>>, <<{"job", "forced"}, {"x", "y"}>>,
            <<{"job", "creation"}, {"x"}>>}
MCResults == {<<1, "home">>}
=============================================================================
