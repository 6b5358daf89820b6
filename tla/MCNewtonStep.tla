----------------------------- MODULE MCNewtonStep -----------------------------
(* The problems of MCCauchy, with any working set; a convex, an indefinite *)
(* and no Hessian.                                                         *)
EXTENDS MCCauchy, NewtonStep

MCHess(a, b, c) == (<<0, 0>> :> a) @@ (<<0, 1>> :> b) @@ (<<1, 0>> :> b) @@ (<<1, 1>> :> c)
MCNsHessians == {MCHess(2, 0, 2), MCHess(0, 2, -2), MCHess(0, 0, 0)}
MCNsErrors == {MCPoint(0, 0), MCPoint(2, 0), MCPoint(-1, 3)}
MCNsRadii == {1, 3, 8}
=============================================================================
