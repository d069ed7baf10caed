----------------------------- MODULE MCGroupRace -----------------------------
(* Three users and two requests at a time, without a bound on their number. *)
EXTENDS GroupMembership, TLC

Symmetry == Permutations(Users) \union Permutations(Requests)
=============================================================================
