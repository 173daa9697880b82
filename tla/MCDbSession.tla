---------------------------- MODULE MCDbSession ----------------------------
(***************************************************************************)
(* DbSession for TLC: as many units of work as permits, so that all may    *)
(* leak, a session that waits behind them, and a readiness probe.          *)
(***************************************************************************)
EXTENDS DbSession, TLC

CONSTANTS u1, u2, s1, h1

MCUnits == {u1, u2}
MCSessions == {s1}
MCProbes == {h1}
MCTasks == MCUnits \cup MCSessions \cup MCProbes
=============================================================================
