---------------------------- MODULE MCRelationship ----------------------------
(***************************************************************************)
(* Relationship for TLC: u1 and u2 meet in both roles, u1 also asks u3.      *)
(***************************************************************************)
EXTENDS Relationship, TLC

CONSTANTS u1, u2, u3

MCMeetings == {<<u1, u2>>, <<u2, u1>>, <<u1, u3>>}

Symmetry == Permutations(Requests)
=============================================================================
