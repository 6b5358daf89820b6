----------------------------- MODULE MCFunctionStack -----------------------------
(* Three variables, two constraints, two residuals.                        *)
EXTENDS FunctionStack

Vec3(a, b, c) == [j \in FnVars |-> CASE j = 0 -> a [] j = 1 -> b [] j = 2 -> c]
MCFnPoints == {Vec3(1, 0, -1), Vec3(1, 2, 1)}
MCFnScalings == {[vars |-> Vec3(1, -1, 2), cons |-> [i \in FnCons |-> 1 - 2 * i], obj |-> -1]}
MCFnFixedSets == {{}, {0, 2}}
MCFnBounds == {0, 1}
=============================================================================
