------------------------- MODULE MCTrapCorrelation -------------------------
(* Finite instances of TrapCorrelation. *)
EXTENDS TrapCorrelation

CONSTANTS a1, a2, r1, w1

TwoAlarms == {a1, a2}
OneRecovery == {r1}
OneWriter == {w1}
=============================================================================
