------------------------------ MODULE FunctionStack ------------------------------
(***************************************************************************)
(* The functions of a problem and their wrappers.  A user function, which  *)
(* is regular, a least-squares function (lsq.c) or dynamic (dyn.c), may be *)
(* wrapped to scale it (scale.c, problem_scaling.c) and to fix variables   *)
(* (preprocessor/fixed_var_func.c); the problem (problem.c) adds linear    *)
(* constraints.  Points, directions and multipliers are passed down, and   *)
(* values are passed up, changed at every layer; residuals and dynamic     *)
(* values are cached at every layer.                                       *)
(*                                                                         *)
(* Numbers are multiples of 1 / One; scaling exponents are so small that   *)
(* every shift is exact.  Errors of the user function end an operation.    *)
(***************************************************************************)
EXTENDS SparseVec, FiniteSets

CONSTANTS
  FnPoints,     \* points of the user, functions from FnVars to integers
  FnScalings,   \* scalings [vars, cons, obj] of exponents
  FnFixedSets,  \* sets of fixed variables
  FnBounds,     \* error bounds of dynamic functions
  FnMaxOps      \* bound on the number of operations

ASSUME FnAssumption == FnBounds \subseteq Nat

VARIABLES
  fnStage,      \* "new", "ready" or "failed"
  fnType,       \* "regular", "lsq" or "dynamic"
  fnLayers,     \* the wrappers, the innermost first
  fnScaling,    \* exponents of SleqpScaling
  fnFixed,      \* the fixed variables
  fnLinear,     \* whether the problem has linear constraints
  fnOrigin,     \* the point the fixed values are taken from
  fnPoint,      \* the point the user function is at
  fnX,          \* the point last set at the problem, "none" after an error
  fnPrimal,     \* the copy of it in the problem
  fnCache,      \* per level: the cached residuals or values, or "none"
  fnBound,      \* the error bound
  fnLast,       \* the result of the last operation
  fnOps         \* operations so far

fnVars == <<fnStage, fnType, fnLayers, fnScaling, fnFixed, fnLinear, fnOrigin, fnPoint,
            fnX, fnPrimal, fnCache, fnBound, fnLast, fnOps>>

One == 256
FnVars == 0 .. 2
FnCons == 0 .. 1
FnResiduals == 0 .. 1
FnNone == <<>>

Ldexp(x, e) == IF e >= 0 THEN x * 2 ^ e ELSE x \div 2 ^ (-e)
SumOver(S, f(_)) == FoldLeft(LAMBDA s, i : s + f(i), 0, SetToSeq(S))
Times(a, b) == (a * b) \div One
-----------------------------------------------------------------------------
(* The user's function: any numbers will do that depend on the point.      *)

UserObj(p) == One * (3 + p[0] + 2 * p[1] * p[2])
UserGrad(p) == [j \in FnVars |-> One * (1 + 2 * j + p[j])]
UserCons(p) == [i \in FnCons |-> One * (i - 1 + p[i])]
UserJac(p) == [ij \in FnCons \X FnVars |-> One * (2 * ij[1] - ij[2] + p[ij[2]])]
UserHess(p, d, duals) ==
  [j \in FnVars |->
     SumOver(FnVars, LAMBDA k :
       Times(d[k], One * (1 + j * k + p[j] * p[k])
                     + SumOver(FnCons, LAMBDA i : duals[i] * (i + j + k))))]
UserResiduals(p) == [r \in FnResiduals |-> One * (2 * r - 1 + p[r + 1])]
UserForward(p, d) ==
  [r \in FnResiduals |-> SumOver(FnVars, LAMBDA j : d[j] * (1 + r - j + p[j]))]
UserAdjoint(p, d) ==
  [j \in FnVars |-> SumOver(FnResiduals, LAMBDA r : d[r] * (1 + r - j + p[j]))]
LmFactor == 2 * One
LinearRow == [j \in FnVars |-> 1 + j]
-----------------------------------------------------------------------------
(* scale.c: scaling exponents are subtracted, unscaling exponents added.   *)

ScalePoint(s, x) == [j \in DOMAIN x |-> Ldexp(x[j], -s.vars[j])]
UnscalePoint(s, x) == [j \in DOMAIN x |-> Ldexp(x[j], s.vars[j])]
ScaleGrad(s, g) == [j \in DOMAIN g |-> Ldexp(g[j], s.vars[j] - s.obj)]
UnscaleGrad(s, g) == [j \in DOMAIN g |-> Ldexp(g[j], s.obj - s.vars[j])]
ScaleObj(s, f, lsq) == Ldexp(f, IF lsq THEN -2 * s.obj ELSE -s.obj)
UnscaleObj(s, f, lsq) == Ldexp(f, IF lsq THEN 2 * s.obj ELSE s.obj)
ScaleCons(s, c) == [i \in DOMAIN c |-> Ldexp(c[i], -s.cons[i])]
UnscaleCons(s, c) == [i \in DOMAIN c |-> Ldexp(c[i], s.cons[i])]
ScaleJac(s, m) == [ij \in DOMAIN m |-> Ldexp(m[ij], s.vars[ij[2]] - s.cons[ij[1]])]
UnscaleJac(s, m) == [ij \in DOMAIN m |-> Ldexp(m[ij], s.cons[ij[1]] - s.vars[ij[2]])]
ScaleConsDuals(s, y) == [i \in DOMAIN y |-> Ldexp(y[i], s.cons[i] - s.obj)]

\* Mutant: the scale of the objective is left out
UnscaleConsDualsNoObj(s, y) == [i \in DOMAIN y |-> Ldexp(y[i], -s.cons[i])]

UnscaleConsDuals(s, y) == [i \in DOMAIN y |-> Ldexp(y[i], s.obj - s.cons[i])]
ScaleResiduals(s, r) == [i \in DOMAIN r |-> Ldexp(r[i], -s.obj)]

ScaleIterate(s, it, lsq) ==
  [x |-> ScalePoint(s, it.x), obj |-> ScaleObj(s, it.obj, lsq), grad |-> ScaleGrad(s, it.grad),
   cons |-> ScaleCons(s, it.cons), jac |-> ScaleJac(s, it.jac),
   consDuals |-> ScaleConsDuals(s, it.consDuals), varDuals |-> ScaleGrad(s, it.varDuals)]
UnscaleIterate(s, it, lsq) ==
  [x |-> UnscalePoint(s, it.x), obj |-> UnscaleObj(s, it.obj, lsq),
   grad |-> UnscaleGrad(s, it.grad), cons |-> UnscaleCons(s, it.cons),
   jac |-> UnscaleJac(s, it.jac), consDuals |-> UnscaleConsDuals(s, it.consDuals),
   varDuals |-> UnscaleGrad(s, it.varDuals)]

\* Weights from data: the exponent frexp gives for 1 / max, less one, which
\* brings the largest entry into (1/2, 1] when it is added.
MaxWeight == 30
WeightOf(max) ==
  IF max = 0 THEN 0
  ELSE CHOOSE w \in -MaxWeight .. MaxWeight : One < Ldexp(2 * max, w) /\ Ldexp(2 * max, w) <= 2 * One
Largest(S) == FoldLeft(LAMBDA a, b : Greater(a, b), 0, SetToSeq(S))

\* sleqp_obj_scaling_from_grad
ObjWeight(g) == WeightOf(Largest({Magnitude(g[j]) : j \in DOMAIN g}))

RowMax(m, vars, i) == Largest({Ldexp(Magnitude(m[<<i, j>>]), vars[j]) : j \in FnVars})
ColMax(m, cons, j) == Largest({Ldexp(Magnitude(m[<<i, j>>]), cons[i]) : i \in FnCons})
RowWeights(m, vars) == [i \in FnCons |-> WeightOf(RowMax(m, vars, i))]
ColWeights(m, cons) == [j \in FnVars |-> WeightOf(ColMax(m, cons, j))]

\* max_matrix_ratio: the quotients of the largest and smallest entries of
\* the lines, compared without dividing
RatiosOf(m, lines(_), S) ==
  {[max |-> Largest(lines(k)),
    min |-> CHOOSE v \in lines(k) \ {0} : \A u \in lines(k) \ {0} : v <= u] :
     k \in {l \in S : lines(l) \ {0} # {}}}
SmallerRatio(a, b) == a.max * b.min < b.max * a.min
VarsFirst(m) ==
  LET cols(j) == {Magnitude(m[<<i, j>>]) : i \in FnCons}
      rows(i) == {Magnitude(m[<<i, j>>]) : j \in FnVars}
  IN \E b \in RatiosOf(m, rows, FnCons) : \A a \in RatiosOf(m, cols, FnVars) : SmallerRatio(a, b)

\* sleqp_scaling_from_cons_jac: the side with the smaller ratio goes first
WeightsFromJac(m) ==
  LET zeroVars == [j \in FnVars |-> 0]
      zeroCons == [i \in FnCons |-> 0]
      vars == ColWeights(m, zeroCons)
      cons == RowWeights(m, zeroVars)
  IN IF VarsFirst(m)
     THEN [vars |-> vars, cons |-> RowWeights(m, vars)]
     ELSE [vars |-> ColWeights(m, cons), cons |-> cons]

ComputedScaling(p) ==
  [vars |-> WeightsFromJac(UserJac(p)).vars, cons |-> WeightsFromJac(UserJac(p)).cons,
   obj |-> ObjWeight(UserGrad(p))]
-----------------------------------------------------------------------------
(* The layers                                                              *)

Scaled == \E l \in DOMAIN fnLayers : fnLayers[l] = "scaled"
Fixing == \E l \in DOMAIN fnLayers : fnLayers[l] = "fixed"
FixedIndices == Ascending(fnFixed, Cardinality(FnVars))
FreeIndices == Ascending(FnVars \ fnFixed, Cardinality(FnVars))

\* values of fixed variables, in the space of the function that is wrapped
FixedEntriesOf ==
  LET origin == [j \in FnVars |-> One * fnOrigin[j]]
      values == IF Scaled THEN ScalePoint(fnScaling, origin) ELSE origin
  IN [k \in DOMAIN FixedIndices |-> Entry(FixedIndices[k], values[FixedIndices[k]])]

SparseOf(x) == SetFromRaw(CreateVec(0, 0), x, Cardinality(DOMAIN x))
FullVec == CreateVec(Cardinality(FnVars), 0)
FreeVec == CreateVec(Len(FreeIndices), 0)
MergeFixed(x) == ToRaw(MergeEntries(SparseOf(x), FullVec, FixedEntriesOf))
ZeroFixed(d) == ToRaw(AddZeroEntries(SparseOf(d), FullVec, FixedIndices))
RemoveFixed(v) == ToRaw(RemoveEntries(SparseOf(v), FreeVec, FixedIndices))
RemoveFixedCols(m) ==
  [ij \in FnCons \X (0 .. Len(FreeIndices) - 1) |-> m[<<ij[1], FreeIndices[ij[2] + 1]>>]]

\* the wrapper that fixes variables is the outer one of two
Down(scaled(_), fixed(_), x) ==
  LET inner == IF Fixing THEN fixed(x) ELSE x IN IF Scaled THEN scaled(inner) ELSE inner
Up(scaled(_), fixed(_), x) ==
  LET inner == IF Scaled THEN scaled(x) ELSE x IN IF Fixing THEN fixed(inner) ELSE inner
Same(v) == v

PointDown(x) == Down(LAMBDA v : UnscalePoint(fnScaling, v), MergeFixed, x)
DirectionDown(d) == Down(LAMBDA v : UnscalePoint(fnScaling, v), ZeroFixed, d)
DualsDown(y) == Down(LAMBDA v : UnscaleConsDuals(fnScaling, v), Same, y)
AdjointDown(d) == Down(LAMBDA v : ScaleResiduals(fnScaling, v), Same, d)
GradUp(g) == Up(LAMBDA v : ScaleGrad(fnScaling, v), RemoveFixed, g)
AdjointUp(g) == Up(LAMBDA v : UnscalePoint(fnScaling, v), RemoveFixed, g)
ResidualsUp(r) == Up(LAMBDA v : ScaleResiduals(fnScaling, v), Same, r)
JacUp(m) == Up(LAMBDA v : ScaleJac(fnScaling, v), RemoveFixedCols, m)
ConsUp(c) == Up(LAMBDA v : ScaleCons(fnScaling, v), Same, c)
ObjUp(f) == Up(LAMBDA v : ScaleObj(fnScaling, v, FALSE), Same, f)

Levels == 0 .. Len(fnLayers)
TopLevel == Len(fnLayers)
LayerResiduals(l, r) == IF fnLayers[l] = "scaled" THEN ScaleResiduals(fnScaling, r) ELSE r
LayerValues(l, v) ==
  IF fnLayers[l] = "scaled"
  THEN [obj |-> ScaleObj(fnScaling, v.obj, FALSE), cons |-> ScaleCons(fnScaling, v.cons), error |-> v.error]
  ELSE v

\* Values of a level: from its cache, or from the level below.
CachedAt(bottom, layer(_, _)) ==
  LET at[l \in Levels] ==
        IF fnCache[l] # FnNone THEN fnCache[l]
        ELSE IF l = 0 THEN bottom ELSE layer(l, at[l - 1])
  IN at
ResidualsAt == CachedAt(UserResiduals(fnPoint), LayerResiduals)

\* Dynamic values are approximations within the error bound they are
\* computed under.
DynamicValues(error) ==
  [obj |-> UserObj(fnPoint) + One * fnBound,
   cons |-> [i \in FnCons |-> UserCons(fnPoint)[i] - One * fnBound], error |-> error]
ValuesAt(error) == CachedAt(DynamicValues(error), LayerValues)

\* a computation fills the caches it passes through on the way down
FilledCaches(at) ==
  [l \in Levels |-> IF \E m \in l .. TopLevel : fnCache[m] # FnNone THEN fnCache[l] ELSE at[l]]
-----------------------------------------------------------------------------
(* Operations of the problem                                               *)

FnInit ==
  /\ fnStage = "new"
  /\ fnType = "regular" /\ fnLayers = <<>>
  /\ fnScaling = [vars |-> [j \in FnVars |-> 0], cons |-> [i \in FnCons |-> 0], obj |-> 0]
  /\ fnFixed = {} /\ fnLinear = FALSE
  /\ fnOrigin = [j \in FnVars |-> 0]
  /\ fnPoint = FnNone /\ fnX = FnNone /\ fnPrimal = FnNone
  /\ fnCache = [l \in {0} |-> FnNone]
  /\ fnBound = 0 /\ fnLast = FnNone /\ fnOps = 0

WithScaling(layers) == Append(layers, "scaled")
WithFixed(layers) == Append(layers, "fixed")

\* Wrappers are created, the scaling one with weights that are given or
\* computed.  It takes the number of all constraints for that of the
\* function, so that a problem with linear constraints cannot be scaled.
FnCreate ==
  /\ fnStage = "new"
  /\ fnType' \in {"regular", "lsq", "dynamic"}
  /\ fnLayers' \in {<<>>, WithScaling(<<>>), WithFixed(<<>>), WithFixed(WithScaling(<<>>))}
  /\ fnOrigin' \in FnPoints
  /\ fnScaling' \in FnScalings \cup {ComputedScaling(fnOrigin')}
  /\ fnFixed' \in FnFixedSets
  /\ (fnFixed' # {}) <=> \E l \in DOMAIN fnLayers' : fnLayers'[l] = "fixed"
  /\ fnLinear' \in BOOLEAN
  /\ fnStage' = IF fnLinear' /\ \E l \in DOMAIN fnLayers' : fnLayers'[l] = "scaled"
                THEN "failed" ELSE "ready"
  /\ fnCache' = [l \in 0 .. Len(fnLayers') |-> FnNone]
  /\ fnBound' \in FnBounds
  /\ UNCHANGED <<fnPoint, fnX, fnPrimal, fnLast, fnOps>>

Operate == fnStage = "ready" /\ fnOps < FnMaxOps /\ fnOps' = fnOps + 1
FnFrame == UNCHANGED <<fnStage, fnType, fnLayers, fnScaling, fnFixed, fnLinear, fnOrigin>>

\* points of the problem: those of the user with the fixed values
TopPoints ==
  {LET p == [j \in FnVars |-> One * q[j]]
       scaled == IF Scaled THEN ScalePoint(fnScaling, p) ELSE p
   IN RemoveFixed(scaled) : q \in {r \in FnPoints : \A j \in fnFixed : r[j] = fnOrigin[j]}}

\* Mutant: least-squares functions keep the residuals of the last point
ResetCachesDynamic(succeeds) ==
  [l \in Levels |-> IF fnType = "dynamic" THEN FnNone ELSE fnCache[l]]

\* Dynamic functions drop their values before they pass on the new point,
\* least-squares functions drop their residuals after that succeeded.
ResetCaches(succeeds) ==
  [l \in Levels |-> IF fnType = "dynamic" \/ succeeds THEN FnNone ELSE fnCache[l]]

FnSetValue ==
  /\ Operate
  /\ \E x \in TopPoints :
       \/ /\ fnPoint' = [j \in FnVars |-> PointDown(x)[j] \div One]
          /\ fnX' = x
          /\ fnPrimal' = IF fnLinear THEN x ELSE fnPrimal
          /\ fnCache' = ResetCaches(TRUE)
       \/ /\ UNCHANGED <<fnPoint, fnPrimal>>
          /\ fnX' = FnNone
          /\ fnCache' = ResetCaches(FALSE)
  /\ fnLast' = FnNone
  /\ FnFrame /\ UNCHANGED fnBound

\* sleqp_dyn_func_set_error_bound, passed on as it is by every layer
FnSetErrorBound ==
  /\ Operate /\ fnType = "dynamic"
  /\ fnBound' \in FnBounds
  /\ fnCache' = [l \in Levels |-> FnNone]
  /\ fnLast' = FnNone
  /\ FnFrame /\ UNCHANGED <<fnPoint, fnX, fnPrimal>>

HalfNormSq(r) == SumOver(DOMAIN r, LAMBDA i : Times(r[i], r[i])) \div 2
Adjoint(d) == AdjointUp(UserAdjoint(fnPoint, AdjointDown(d)))
Forward(d) == ResidualsUp(UserForward(fnPoint, DirectionDown(d)))

WeightedSum(free, x) == SumOver(DOMAIN x, LAMBDA a : LinearRow[free[a + 1]] * x[a])
LinearVal(x) == WeightedSum(FreeIndices, x)
StackedCons(c) == IF fnLinear THEN [i \in 0 .. 2 |-> IF i = 2 THEN LinearVal(fnPrimal) ELSE c[i]] ELSE c
StackedJac(m) ==
  IF fnLinear
  THEN [ij \in (0 .. 2) \X DOMAIN fnX |->
          IF ij[1] = 2 THEN One * LinearRow[FreeIndices[ij[2] + 1]] ELSE m[ij]]
  ELSE m

\* sleqp_problem_eval
FnEval ==
  /\ Operate /\ fnX # FnNone
  /\ \E error \in {fnBound, fnBound + 1} :
       LET fresh == \A l \in Levels : fnCache[l] = FnNone
           values == ValuesAt(error)[TopLevel]
           jac == StackedJac(JacUp(UserJac(fnPoint)))
       IN \/ /\ fnType = "regular"
             /\ fnLast' = [op |-> "eval", obj |-> ObjUp(UserObj(fnPoint)),
                           grad |-> GradUp(UserGrad(fnPoint)),
                           cons |-> StackedCons(ConsUp(UserCons(fnPoint))), jac |-> jac]
             /\ UNCHANGED <<fnCache, fnX>>
          \/ /\ fnType = "lsq"
             /\ fnLast' = [op |-> "eval", obj |-> HalfNormSq(ResidualsAt[TopLevel]),
                           grad |-> Adjoint(ResidualsAt[TopLevel]),
                           cons |-> StackedCons(ConsUp(UserCons(fnPoint))), jac |-> jac]
             /\ fnCache' = FilledCaches(ResidualsAt)
             /\ UNCHANGED fnX
          \/ /\ fnType = "dynamic" /\ (fresh => error <= fnBound)
             /\ fnLast' = [op |-> "eval", obj |-> values.obj, grad |-> GradUp(UserGrad(fnPoint)),
                           cons |-> StackedCons(values.cons), jac |-> jac]
             /\ fnCache' = FilledCaches(ValuesAt(error))
             /\ UNCHANGED fnX
          \/ /\ fnType = "dynamic" /\ fresh /\ error > fnBound
             /\ fnX' = FnNone /\ fnLast' = FnNone
             /\ UNCHANGED fnCache
  /\ FnFrame /\ UNCHANGED <<fnPoint, fnPrimal, fnBound>>

UnitVec(a) == [b \in DOMAIN fnX |-> IF a = b THEN One ELSE 0]

\* sleqp_problem_hess_prod: multipliers of linear constraints are dropped
FnHessProd ==
  /\ Operate /\ fnX # FnNone
  /\ \E a \in DOMAIN fnX, duals \in {[i \in FnCons |-> One * (1 - k * i)] : k \in {0, 2}} :
       LET d == UnitVec(a)
           lsq == Adjoint(Forward(d))
       IN fnLast' = [op |-> "hess", dir |-> d, duals |-> duals,
            product |->
              IF fnType = "lsq"
              THEN [b \in DOMAIN d |-> lsq[b] + Times(LmFactor, d[b])]
              ELSE GradUp(UserHess(fnPoint, DirectionDown(d), DualsDown(duals)))]
  /\ FnFrame /\ UNCHANGED <<fnPoint, fnX, fnPrimal, fnCache, fnBound>>

FnNext == FnCreate \/ FnSetValue \/ FnSetErrorBound \/ FnEval \/ FnHessProd

FnSpec == FnInit /\ [][FnNext]_fnVars
-----------------------------------------------------------------------------
(* Properties                                                              *)

InnerProduct(u, v) == SumOver(DOMAIN u, LAMBDA i : Times(u[i], v[i]))
ObjShift == IF ~Scaled THEN 0 ELSE IF fnType = "lsq" THEN -2 * fnScaling.obj ELSE -fnScaling.obj
ConsShift(i) == IF Scaled THEN -fnScaling.cons[i] ELSE 0

\* the direction of the user that a direction of the problem means: the
\* difference of the points
Displacement(d) ==
  LET moved == PointDown([a \in DOMAIN d |-> fnX[a] + d[a]])
      here == PointDown(fnX)
  IN [j \in FnVars |-> moved[j] - here[j]]

UserLsqObj == HalfNormSq(UserResiduals(fnPoint))
UserLsqGrad == UserAdjoint(fnPoint, UserResiduals(fnPoint))

\* What the problem evaluates are the user's values at the point that was
\* set last (for dynamic functions, under the bound set last), scaled by one
\* factor per function; gradients and Jacobians are the derivatives of these
\* values with respect to the variables that are not fixed.  The factors are
\* those of scale.c, the inverses of the documented ones: 2^-lambda for the
\* objective and A^-1 for the constraints (see EvaluatesAsDocumented).
EvaluationAgrees ==
  LET e == fnLast
      exact == IF fnType = "dynamic" THEN fnBound ELSE 0
      obj == IF fnType = "lsq" THEN UserLsqObj ELSE UserObj(fnPoint) + One * exact
      grad == IF fnType = "lsq" THEN UserLsqGrad ELSE UserGrad(fnPoint)
  IN fnLast # FnNone /\ fnLast.op = "eval" =>
       /\ [j \in FnVars |-> One * fnPoint[j]] = PointDown(fnX)
       /\ e.obj = Ldexp(obj, ObjShift)
       /\ \A i \in FnCons :
            e.cons[i] = Ldexp(UserCons(fnPoint)[i] - One * exact, ConsShift(i))
       /\ \A a \in DOMAIN fnX :
            LET D == Displacement(UnitVec(a)) IN
            /\ e.grad[a] = Ldexp(InnerProduct(grad, D), ObjShift)
            /\ \A i \in FnCons :
                 e.jac[<<i, a>>] =
                   Ldexp(InnerProduct([j \in FnVars |-> UserJac(fnPoint)[<<i, j>>]], D), ConsShift(i))
       /\ fnLinear => e.cons[2] = LinearVal(fnX)

\* Hessian products are those of the user's Lagrangian, with multipliers
\* that weigh constraints against the objective as those of the problem do.
HessianAgrees ==
  fnLast # FnNone /\ fnLast.op = "hess" =>
    \A a \in DOMAIN fnX :
      LET D == Displacement(fnLast.dir)
          E == Displacement(UnitVec(a))
          duals == [i \in FnCons |-> Ldexp(fnLast.duals[i], ConsShift(i) - ObjShift)]
      IN fnLast.product[a] =
           IF fnType = "lsq"
           THEN Ldexp(InnerProduct(UserForward(fnPoint, D), UserForward(fnPoint, E)), ObjShift)
                  + (IF fnLast.dir[a] = 0 THEN 0 ELSE LmFactor)
           ELSE Ldexp(InnerProduct(UserHess(fnPoint, D, duals), E), ObjShift)

\* Scaling an iterate and unscaling it changes nothing, and a scaled iterate
\* is stationary for the scaled functions where the iterate itself is.
IterateRestored ==
  fnStage = "ready" /\ fnPoint # FnNone =>
    LET lsq == fnType = "lsq"
        it == [x |-> [j \in FnVars |-> One * fnPoint[j]], obj |-> UserObj(fnPoint),
               grad |-> UserGrad(fnPoint), cons |-> UserCons(fnPoint), jac |-> UserJac(fnPoint),
               consDuals |-> [i \in FnCons |-> One * (1 + i)],
               varDuals |-> [j \in FnVars |-> One * (j - 1)]]
        scaled == ScaleIterate(fnScaling, it, lsq)
        residual(z, j) == z.grad[j] + z.varDuals[j]
                           + SumOver(FnCons, LAMBDA i : Times(z.jac[<<i, j>>], z.consDuals[i]))
    IN /\ UnscaleIterate(fnScaling, scaled, lsq) = it
       /\ \A j \in FnVars :
            residual(scaled, j) = Ldexp(residual(it, j), fnScaling.vars[j] - fnScaling.obj)

\* The Jacobian of the documented transformation, J' = A J B, and the weights
\* with which scale.c, which subtracts those of constraints, computes it.
DocumentedJac(s, m) == [ij \in DOMAIN m |-> Ldexp(m[ij], s.cons[ij[1]] + s.vars[ij[2]])]
Mirrored(s) == [s EXCEPT !.cons = [i \in FnCons |-> -s.cons[i]], !.obj = -s.obj]

\* Weights computed from a Jacobian are meant for the transformation as it is
\* documented: there they leave no entry above one and some entry of each
\* line of the second side above one half.  scale.c does that with the
\* weights of the constraints negated, not with the weights as computed.
WeightsEquilibrate ==
  fnStage = "ready" /\ fnLayers = <<"scaled">> /\ fnOps = 0 =>
    \A p \in FnPoints :
      LET m == UserJac(p)
          w == ComputedScaling(p)
          scaled == DocumentedJac(w, m)
          entry(i, j) == Magnitude(scaled[<<i, j>>])
      IN /\ ScaleJac(Mirrored(w), m) = scaled
         /\ ScaleJac(w, m) # scaled
         /\ \A i \in FnCons, j \in FnVars : entry(i, j) <= One
         /\ IF VarsFirst(m)
            THEN \A i \in FnCons : (\E j \in FnVars : m[<<i, j>>] # 0)
                                    => \E j \in FnVars : 2 * entry(i, j) > One
            ELSE \A j \in FnVars : (\E i \in FnCons : m[<<i, j>>] # 0)
                                    => \E i \in FnCons : 2 * entry(i, j) > One

\* A scaled problem evaluates f' = 2^lambda f and c' = A c, and least-squares
\* objectives with residuals scaled by 2^lambda, as pub_scale.h documents.
\* It does not hold: scale.c divides by these factors.
EvaluatesAsDocumented ==
  Scaled /\ fnLast # FnNone /\ fnLast.op = "eval" /\ fnType # "dynamic" =>
    /\ fnLast.obj = IF fnType = "lsq" THEN Ldexp(UserLsqObj, 2 * fnScaling.obj)
                    ELSE Ldexp(UserObj(fnPoint), fnScaling.obj)
    /\ \A i \in FnCons : fnLast.cons[i] = Ldexp(UserCons(fnPoint)[i], fnScaling.cons[i])

\* What a level passes up for the point and the bound that were set last,
\* if nothing below is cached
ScaledUpTo(l) == \E k \in 1 .. l : fnLayers[k] = "scaled"
FreshResiduals(l) ==
  IF ScaledUpTo(l) THEN ScaleResiduals(fnScaling, UserResiduals(fnPoint)) ELSE UserResiduals(fnPoint)
FreshValues(l, error) ==
  LET v == DynamicValues(error)
  IN IF ScaledUpTo(l)
     THEN [obj |-> ScaleObj(fnScaling, v.obj, FALSE), cons |-> ScaleCons(fnScaling, v.cons), error |-> v.error]
     ELSE v

\* Least-squares functions cache residuals of the point that was set last,
\* dynamic functions values of that point within the bound that was set
\* last, at all levels or at none.
CachesFresh ==
  /\ fnType = "lsq" => \A l \in Levels : fnCache[l] # FnNone => fnCache[l] = FreshResiduals(l)
  /\ fnType = "dynamic" =>
       \/ \A l \in Levels : fnCache[l] = FnNone
       \/ \E error \in 0 .. fnBound : \A l \in Levels : fnCache[l] = FreshValues(l, error)

\* What was evaluated is what a function without caches evaluates at the
\* point and under the bound that were set last.
EvaluatesFresh ==
  /\ fnX # FnNone => fnPoint = [j \in FnVars |-> PointDown(fnX)[j] \div One]
  /\ fnLast # FnNone /\ fnLast.op = "eval" =>
       /\ fnType = "lsq" =>
            /\ fnLast.obj = HalfNormSq(FreshResiduals(TopLevel))
            /\ fnLast.grad = Adjoint(FreshResiduals(TopLevel))
       /\ fnType = "dynamic" =>
            /\ fnLast.obj = FreshValues(TopLevel, fnBound).obj
            /\ fnLast.cons = StackedCons(FreshValues(TopLevel, fnBound).cons)

\* Caches that are dropped at different levels and at different times never
\* show an earlier point or bound.
FunctionsFresh == CachesFresh /\ EvaluatesFresh

\* The wrapped functions are the user's functions in other coordinates.
FunctionsSound == EvaluationAgrees /\ HessianAgrees /\ IterateRestored /\ WeightsEquilibrate
=============================================================================
