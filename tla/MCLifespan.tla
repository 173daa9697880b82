----------------------------- MODULE MCLifespan -----------------------------
(***************************************************************************)
(* Lifespan for TLC: two requests and three background tasks.              *)
(***************************************************************************)
EXTENDS Lifespan

CONSTANTS r1, r2, j1, j2, j3

MCRequests == {r1, r2}
MCJobs == {j1, j2, j3}
MCOneStubborn == {j1}
=============================================================================
