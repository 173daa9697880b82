--------------------------- MODULE MCRateLimiter ---------------------------
(***************************************************************************)
(* RateLimiter for TLC: two requests of different workers have the same    *)
(* address, so that they may meet in one member of a sorted set.           *)
(***************************************************************************)
EXTENDS RateLimiter, TLC

CONSTANTS r1, r2, r3, c1, c2

MCRequests == {r1, r2, r3}
MCClients == {c1, c2}
TwoAddresses(r) == IF r = r3 THEN r3 ELSE r1

Symmetry == Permutations({r1, r2}) \cup Permutations(MCClients)
=============================================================================
