------------------------------ MODULE MCTokens ------------------------------
(***************************************************************************)
(* Tokens for TLC: an access token lives for one second, a refresh token   *)
(* for two; the seconds have two ticks.                                    *)
(***************************************************************************)
EXTENDS Tokens, TLC

CONSTANTS u1, u2, r1, r2, r3

MCUsers == {u1, u2}
MCSuperusers == {u1}
MCRequests == {r1, r2, r3}
Symmetry == Permutations(MCRequests)
=============================================================================
