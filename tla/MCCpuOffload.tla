--------------------------- MODULE MCCpuOffload ---------------------------
(***************************************************************************)
(* CpuOffload for TLC: calls, more than twice the threads of the pool.     *)
(***************************************************************************)
EXTENDS CpuOffload

CONSTANTS c1, c2, c3, c4

MCTasks == {c1, c2, c3, c4}
=============================================================================
