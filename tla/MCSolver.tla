------------------------------ MODULE MCSolver ------------------------------
(* Four points: one outside the variable bounds, which is clipped to bad,  *)
(* an infeasible one; a feasible one; and an infeasible one whose          *)
(* objective is below the bound that counts as unbounded.                  *)
EXTENDS Solver

CONSTANTS out, bad, good, low

MCPoints == {out, bad, good, low}
MCClip == [p \in MCPoints |-> IF p = out THEN bad ELSE p]
=============================================================================
