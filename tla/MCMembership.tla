---------------------------- MODULE MCMembership ----------------------------
(* Small instances of Membership. *)
EXTENDS Membership, TLC

CONSTANTS h1, h2

HandlerSymmetry == Permutations({h1, h2})
=============================================================================
