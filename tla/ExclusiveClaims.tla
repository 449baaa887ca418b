---------------------------- MODULE ExclusiveClaims ----------------------------
(***************************************************************************)
(* What a fixed-teams competition promises: a team belongs to at most one  *)
(* user, who keeps it; a user who asks for several teams gets all of them  *)
(* or none; and nobody gets more teams than the competition allows.        *)
(***************************************************************************)
EXTENDS Naturals, FiniteSets

CONSTANTS Users, Teams, Requests, MaxTeams, Nobody

VARIABLES
    owner,    \* [Teams -> Users \cup {Nobody}]
    asked     \* [Requests -> the claim that is waiting for its answer]

NoClaim == [user |-> Nobody, teams |-> {}]

\* Zero stands for "no limit".
Allowed(n) == MaxTeams = 0 \/ n <= MaxTeams

Init ==
    /\ owner = [t \in Teams |-> Nobody]
    /\ asked = [r \in Requests |-> NoClaim]

Ask(r, u, T) ==
    /\ asked[r] = NoClaim
    /\ asked' = [asked EXCEPT ![r] = [user |-> u, teams |-> T]]
    /\ UNCHANGED owner

Grant(r) ==
    LET u == asked[r].user
        T == asked[r].teams
    IN /\ asked[r] # NoClaim
       /\ \A t \in T : owner[t] = Nobody
       /\ Allowed(Cardinality({t \in Teams : owner[t] = u}) + Cardinality(T))
       /\ owner' = [t \in Teams |-> IF t \in T THEN u ELSE owner[t]]
       /\ asked' = [asked EXCEPT ![r] = NoClaim]

Refuse(r) ==
    /\ asked' = [asked EXCEPT ![r] = NoClaim]
    /\ UNCHANGED owner

Next ==
    \E r \in Requests :
      \/ \E u \in Users, T \in SUBSET Teams : Ask(r, u, T)
      \/ Grant(r) \/ Refuse(r)

Spec == Init /\ [][Next]_<<owner, asked>>
=============================================================================
