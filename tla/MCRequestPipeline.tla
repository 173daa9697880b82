------------------------- MODULE MCRequestPipeline -------------------------
(***************************************************************************)
(* RequestPipeline for TLC: a request for each plan that is not a part of  *)
(* another one, and one from a host that is not allowed.                   *)
(***************************************************************************)
EXTENDS RequestPipeline, TLC

CONSTANTS r1, r2

MCRequests == {r1, r2}
MCSessions == MCRequests \X {"user", "read"}
MCUnits == MCRequests \X {"write"}
MCProbes == MCRequests \X {"probe"}
MCTasks == MCSessions \cup MCUnits \cup MCProbes

MCAsks == [host : {"trusted"}, endpoint : {"register", "login", "update", "ready", "ping"}]
            \cup [host : {"other"}, endpoint : {"update"}]
=============================================================================
