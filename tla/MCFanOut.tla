------------------------------ MODULE MCFanOut ------------------------------
(***************************************************************************)
(* FanOut for TLC: a gather over three calls, one of which may be tried    *)
(* again, beside one call of the rest of the worker.                       *)
(***************************************************************************)
EXTENDS FanOut

CONSTANTS i1, i2, i3, d1

MCItems == {i1, i2, i3}
MCTasks == MCItems \cup {d1}
MCIdempotent == {i1}
=============================================================================
