---------------------------- MODULE MCUserListing ----------------------------
(***************************************************************************)
(* UserListing for TLC: interchangeable users.                             *)
(***************************************************************************)
EXTENDS UserListing, TLC

CONSTANTS u1, u2, u3, u4

MCUsers == {u1, u2, u3, u4}
Symmetry == Permutations(MCUsers)
=============================================================================
