------------------------------- MODULE MCGate -------------------------------
(* The TLC instance of the gate: three goroutines, and limits 0 (unlimited), *)
(* 1 and 2, so that callers wait, overtake each other, and hold more slots   *)
(* than a lowered limit allows.                                              *)
EXTENDS Gate

CONSTANTS c1, c2, c3

MCCallers == {c1, c2, c3}
MCLimits == {0, 1, 2}
=============================================================================
