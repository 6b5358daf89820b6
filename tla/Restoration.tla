----------------------------- MODULE Restoration -----------------------------
(***************************************************************************)
(* The problem of the restoration phase (restoration.c over lsq.c) and the *)
(* switches between the phases (solver/phase.c): for constraints           *)
(* l <= c(x) <= u, find x and s with l <= s <= u that minimize half the    *)
(* squared norm of the residual c(x) - s.  Its function moves the user's   *)
(* function and caches constraint values and Jacobian, the least-squares   *)
(* function around it caches the residual.                                 *)
(*                                                                         *)
(* The user's constraints are quadratic; vectors and matrices are sparse,  *)
(* numbers are integers, and objectives are doubled.                       *)
(***************************************************************************)
EXTENDS SparseMat

CONSTANTS
  RtProblems,   \* bounds of variables and rows, coefficients, squares, how the user stores values
  RtPoints,     \* values of variables and of slacks
  RtMaxOps

ASSUME RtAssumption == RtMaxOps \in Nat

VARIABLES
  rtProblem,
  rtPhase,      \* "created", "optimization", "restoration"
  rtUser,       \* the point the user's function is set to
  rtIterate,    \* of the optimization phase: primal, cons_val, cons_jac
  rtRest,       \* restoration problem and function, once created
  rtPrimal,     \* the point the restoration function is set to
  rtEntries,    \* switches to restoration
  rtSet,        \* the point was set since the last one
  rtLast, rtOps

rtVars == <<rtProblem, rtPhase, rtUser, rtIterate, rtRest, rtPrimal, rtEntries, rtSet, rtLast, rtOps>>

RtNone == [none |-> TRUE]
RtVars == rtProblem.varLb.dim
RtCons == rtProblem.consLb.dim
RtDim == RtVars + RtCons
RtVarIndices == 0 .. RtVars - 1
RtConsIndices == 0 .. RtCons - 1
-----------------------------------------------------------------------------
(* The user's function                                                     *)

RtSum(S, f) == SumFunctionOnSet(f, S)
RtConsValue(x, i) ==
  RtSum(RtVarIndices, [j \in RtVarIndices |-> rtProblem.coeff[i][j] * x[j]]) + rtProblem.square[i] * x[0] * x[0]
RtPartial(x, i, j) == rtProblem.coeff[i][j] + (IF j = 0 THEN 2 * rtProblem.square[i] * x[0] ELSE 0)

\* a user may store zeros, and either announces the number of entries or
\* makes room for them
RtStored(entries) == SelectSeq(entries, LAMBDA e : rtProblem.storesZeros \/ e.v # 0)
RtUserCons(target) ==
  LET entries == RtStored([k \in 1 .. RtCons |-> Entry(k - 1, RtConsValue(rtUser, k - 1))])
  IN PushAll(IF rtProblem.announces THEN Clear(target) ELSE Reserve(Clear(target), RtCons), entries)
RtUserJac(target) ==
  LET column(j) == RtStored([k \in 1 .. RtCons |-> [r |-> k - 1, v |-> RtPartial(rtUser, k - 1, j)]])
      start == IF rtProblem.announces THEN MatClear(target) ELSE MatReserve(MatClear(target), RtCons * RtVars)
  IN FoldLeft(LAMBDA t, j : MatPushEntries(MatPushCol(t, j), j, column(j)), start, ColumnsOf(target))
-----------------------------------------------------------------------------
(* The restoration problem                                                 *)

EmptyData ==
  [varPrimal |-> CreateVec(RtVars, 0), consPrimal |-> CreateVec(RtCons, 0),
   varForward |-> CreateVec(RtVars, 0), consForward |-> CreateVec(RtCons, 0),
   forwardProduct |-> CreateVec(RtCons, 0), adjointProduct |-> CreateVec(RtVars, 0),
   consVal |-> CreateVec(RtCons, 0), consJac |-> CreateMat(RtCons, RtVars, 0),
   hasConsVal |-> FALSE, hasConsJac |-> FALSE]

\* sleqp_restoration_problem_create: rows become bounds of the slacks
RestorationProblem ==
  [lb |-> Concat(rtProblem.varLb, rtProblem.consLb, CreateVec(RtDim, 0)),
   ub |-> Concat(rtProblem.varUb, rtProblem.consUb, CreateVec(RtDim, 0)),
   data |-> EmptyData,
   residual |-> CreateVec(RtCons, 0), hasResidual |-> FALSE, forward |-> CreateVec(RtCons, 0)]

\* split_primal
VarPart(x, target) ==
  PushAll(Reserve(Clear(target), Lesser(NnzOf(x), target.dim)), SelectSeq(x.nz, LAMBDA e : e.i < RtVars))
ConsPart(x, target) ==
  LET entries == SelectSeq(x.nz, LAMBDA e : e.i >= RtVars)
  IN PushAll(Reserve(Clear(target), Lesser(NnzOf(x), target.dim)),
             [k \in DOMAIN entries |-> Entry(entries[k].i - RtVars, entries[k].v)])

\* Mutant: values are clipped only where the constraint has an entry
TransformedWhereStored(primal, consVal, result) ==
  LET joint == Joint(consVal, rtProblem.consLb, rtProblem.consUb)
      clipped == [k \in DOMAIN joint |->
                    Entry(RtVars + joint[k].i, IF joint[k].x = 0 THEN 0
                                               ELSE Greater(Lesser(joint[k].x, joint[k].z), joint[k].y))]
      room == Lesser(RtCons, NnzOf(rtProblem.consLb) + NnzOf(rtProblem.consUb) + NnzOf(consVal))
  IN PushAll(Reserve(Clear(result), NnzOf(primal) + room),
             primal.nz \o SelectSeq(clipped, LAMBDA e : e.v # 0))

\* sleqp_restoration_problem_transform: slacks are the values, clipped
Transformed(primal, consVal, result) ==
  LET joint == Joint(consVal, rtProblem.consLb, rtProblem.consUb)
      clipped == [k \in DOMAIN joint |->
                    Entry(RtVars + joint[k].i, Greater(Lesser(joint[k].x, joint[k].z), joint[k].y))]
      room == Lesser(RtCons, NnzOf(rtProblem.consLb) + NnzOf(rtProblem.consUb) + NnzOf(consVal))
  IN PushAll(Reserve(Clear(result), NnzOf(primal) + room),
             primal.nz \o SelectSeq(clipped, LAMBDA e : e.v # 0))

\* sleqp_restoration_problem_restore: ends at the first slack
Restored(primal, result) ==
  LET slack == SelectInSeq(primal.nz, LAMBDA e : e.i >= RtVars)
  IN PushAll(Reserve(Clear(result), RtVars),
             IF slack = 0 THEN primal.nz ELSE SubSeq(primal.nz, 1, slack - 1))
-----------------------------------------------------------------------------
(* The restoration function, and the least-squares function around it      *)

WithConsVal(data) ==
  IF data.hasConsVal THEN data ELSE [data EXCEPT !.consVal = RtUserCons(data.consVal), !.hasConsVal = TRUE]
WithConsJac(data) ==
  IF data.hasConsJac THEN data ELSE [data EXCEPT !.consJac = RtUserJac(data.consJac), !.hasConsJac = TRUE]

\* compute_lsq_residual over restoration_lsq_residuals
WithResidual(rest) ==
  LET data == WithConsVal(rest.data)
  IN IF rest.hasResidual THEN rest
     ELSE [rest EXCEPT !.data = data, !.hasResidual = TRUE,
             !.residual = AddScaled(data.consVal, data.consPrimal, 1, -1, rest.residual)]

\* restoration_lsq_jac_forward: function data, and the product in a target
ForwardData(data, direction) ==
  LET filled == [WithConsJac(data) EXCEPT !.varForward = VarPart(direction, data.varForward),
                                          !.consForward = ConsPart(direction, data.consForward)]
  IN [filled EXCEPT !.forwardProduct =
        SetFromRaw(filled.forwardProduct, MatMultVec(filled.consJac, filled.varForward), RtCons)]
ForwardProduct(data, target) ==
  AddScaled(data.forwardProduct, data.consForward, 1, -1, Clear(target))

ConcatAdjoint(product, direction, target) ==
  PushAll(Reserve(Clear(target), Lesser(NnzOf(product) + NnzOf(direction), target.dim)),
          product.nz \o [k \in DOMAIN direction.nz |-> Entry(direction.nz[k].i + product.dim, -direction.nz[k].v)])

\* restoration_lsq_jac_adjoint
AdjointData(data, direction) ==
  LET filled == WithConsJac(data)
  IN [filled EXCEPT !.adjointProduct = MatMultVecTrans(filled.consJac, direction, data.adjointProduct)]
AdjointProduct(data, direction) == ConcatAdjoint(data.adjointProduct, direction, CreateVec(RtDim, 0))

\* sleqp_restoration_func_init: values are those of the iterate.  The
\* residual that the least-squares function may hold is kept.
FuncInit(data, primal, iterate) ==
  [data EXCEPT !.varPrimal = VarPart(primal, data.varPrimal), !.consPrimal = ConsPart(primal, data.consPrimal),
     !.consVal = CopyVec(iterate.consVal, data.consVal), !.hasConsVal = TRUE,
     !.consJac = MatCopy(iterate.consJac, data.consJac), !.hasConsJac = TRUE]

\* restoration_func_set, up to the call of the user's function
FuncSet(data, primal) ==
  [data EXCEPT !.varPrimal = VarPart(primal, data.varPrimal), !.consPrimal = ConsPart(primal, data.consPrimal),
     !.hasConsVal = FALSE, !.hasConsJac = FALSE]

\* restoration_func_nonzeros: rooms for what the user announces
Nonzeros(rest) ==
  IF ~rtProblem.announces THEN rest
  ELSE [rest EXCEPT !.residual = Reserve(rest.residual, RtCons),
                    !.data.consVal = Reserve(rest.data.consVal, RtCons),
                    !.data.consJac = MatReserve(rest.data.consJac, RtCons * RtVars)]

\* lsq_func_obj_val, lsq_func_obj_grad; twice the objective
Evaluated(rest) ==
  LET valued == WithResidual(rest)
  IN [valued EXCEPT !.data = AdjointData(valued.data, valued.residual)]
EvaluationOf(rest, op) ==
  [op |-> op, obj2 |-> NormSq(rest.residual), grad |-> AdjointProduct(rest.data, rest.residual)]
-----------------------------------------------------------------------------
(* Operations                                                              *)

RtInit ==
  /\ rtProblem \in RtProblems
  /\ rtPhase = "created" /\ rtUser = RtNone /\ rtIterate = RtNone
  /\ rtRest = RtNone /\ rtPrimal = RtNone
  /\ rtEntries = 0 /\ rtSet = FALSE /\ rtLast = RtNone /\ rtOps = 0

RtOperate == rtOps < RtMaxOps /\ rtOps' = rtOps + 1 /\ UNCHANGED rtProblem
RtDense(x) == ToRaw(x)
RtVec(values, dim) == SetFromRaw(CreateVec(dim, 0), values, dim)
RtBoxed(x, lb, ub) == IsBoxed(x, lb, ub)

\* The optimization phase arrives at an iterate, with its values.
RtOptimize ==
  /\ rtPhase \in {"created", "optimization"} /\ RtOperate
  /\ \E p \in RtPoints :
       LET x == [j \in RtVarIndices |-> p[j]] IN
       /\ RtBoxed(RtVec(x, RtVars), rtProblem.varLb, rtProblem.varUb)
       /\ rtUser' = x
       /\ rtIterate' =
            [primal |-> RtVec(x, RtVars),
             consVal |-> RtVec([i \in RtConsIndices |-> RtConsValue(x, i)], RtCons),
             consJac |-> FoldLeft(LAMBDA t, j :
                           MatPushVec(MatPushCol(t, j), j, RtVec([i \in RtConsIndices |-> RtPartial(x, i, j)], RtCons)),
                           CreateMat(RtCons, RtVars, RtCons * RtVars), [j \in 1 .. RtVars |-> j - 1])]
  /\ rtPhase' = "optimization" /\ rtLast' = RtNone
  /\ UNCHANGED <<rtRest, rtPrimal, rtEntries, rtSet>>

\* sleqp_solver_toggle_phase: create_restoration_solver,
\* create_restoration_primal, fill_restoration_iterate
RtEnter ==
  /\ rtPhase = "optimization" /\ RtOperate
  /\ rtPrimal' = Transformed(rtIterate.primal, rtIterate.consVal, CreateVec(RtDim, 0))
  /\ LET created == IF rtRest = RtNone THEN RestorationProblem ELSE rtRest
         rest == Evaluated([created EXCEPT !.data = FuncInit(created.data, rtPrimal', rtIterate)])
     IN rtRest' = rest /\ rtLast' = EvaluationOf(rest, "enter")
  /\ rtPhase' = "restoration" /\ rtEntries' = rtEntries + 1 /\ rtSet' = FALSE
  /\ UNCHANGED <<rtUser, rtIterate>>

\* A trial point is set, and its room reserved (sleqp_set_and_evaluate);
\* the user may refuse it.
RtSetValue ==
  /\ rtPhase = "restoration" /\ RtOperate
  /\ \E p \in RtPoints, reject \in BOOLEAN :
       LET primal == RtVec([j \in 0 .. RtDim - 1 |-> p[j]], RtDim)
           rest == [rtRest EXCEPT !.data = FuncSet(rtRest.data, primal), !.hasResidual = FALSE]
       IN /\ RtBoxed(primal, rtRest.lb, rtRest.ub)
          /\ rtRest' = IF reject THEN rest ELSE Nonzeros(rest)
          /\ rtPrimal' = IF reject THEN RtNone ELSE primal
          /\ rtUser' = IF reject THEN RtNone ELSE [j \in RtVarIndices |-> p[j]]
  /\ rtSet' = TRUE /\ rtLast' = RtNone
  /\ UNCHANGED <<rtPhase, rtIterate, rtEntries>>

AtPoint == rtPhase = "restoration" /\ rtPrimal # RtNone /\ RtOperate
RtFrame == UNCHANGED <<rtPhase, rtUser, rtIterate, rtPrimal, rtEntries, rtSet>>

RtEval ==
  /\ AtPoint
  /\ rtRest' = Evaluated(rtRest)
  /\ rtLast' = EvaluationOf(rtRest', "eval")
  /\ RtFrame

RtDirections == {RtVec([k \in 0 .. RtDim - 1 |-> IF k = j THEN 1 ELSE IF k = RtVars THEN 2 ELSE 0], RtDim) : j \in RtVarIndices}

\* lsq_func_hess_product, without a Levenberg-Marquardt term
RtHessProd ==
  /\ AtPoint
  /\ \E d \in RtDirections :
       LET data == ForwardData(rtRest.data, d)
           forward == ForwardProduct(data, Clear(rtRest.forward))
           adjoint == AdjointData(data, forward)
       IN /\ rtRest' = [rtRest EXCEPT !.data = adjoint, !.forward = forward]
          /\ rtLast' = [op |-> "hess", dir |-> d, forward |-> forward, product |-> AdjointProduct(adjoint, forward)]
  /\ RtFrame

\* on_restoration_solver_accepted_iterate
RtAccepted ==
  /\ AtPoint
  /\ rtRest' = [rtRest EXCEPT !.data = WithConsVal(rtRest.data)]
  /\ rtLast' = [op |-> "accepted",
                feasible |-> RtBoxed(rtRest'.data.consVal, rtProblem.consLb, rtProblem.consUb)]
  /\ RtFrame

\* sleqp_solver_toggle_phase: create_primal, fill_optimization_iterate
RtLeave ==
  /\ AtPoint
  /\ LET data == WithConsJac(WithConsVal(rtRest.data))
     IN /\ rtRest' = [rtRest EXCEPT !.data = data]
        /\ rtIterate' = [primal |-> Restored(rtPrimal, rtIterate.primal),
                         consVal |-> CopyVec(data.consVal, rtIterate.consVal),
                         consJac |-> MatCopy(data.consJac, rtIterate.consJac)]
  /\ rtPhase' = "optimization" /\ rtLast' = RtNone
  /\ UNCHANGED <<rtUser, rtPrimal, rtEntries, rtSet>>

RtNext == RtOptimize \/ RtEnter \/ RtSetValue \/ RtEval \/ RtHessProd \/ RtAccepted \/ RtLeave

RtSpec == RtInit /\ [][RtNext]_rtVars
-----------------------------------------------------------------------------
(* Properties                                                              *)

RtResidualAt(x, s, i) == RtConsValue(x, i) - s[i]
RtSquares(f) == RtSum(RtConsIndices, [i \in RtConsIndices |-> f[i] * f[i]])
RtJacTimes(x, d) == [i \in RtConsIndices |-> RtSum(RtVarIndices, [j \in RtVarIndices |-> RtPartial(x, i, j) * d[j]]) - d[RtVars + i]]
RtTransTimes(x, e) ==
  [k \in 0 .. RtDim - 1 |->
     IF k < RtVars THEN RtSum(RtConsIndices, [i \in RtConsIndices |-> RtPartial(x, i, k) * e[i]]) ELSE -e[k - RtVars]]

\* Distance of the constraint values from their bounds, per row
RtDistance(x) ==
  LET lb == RtDense(rtProblem.consLb)
      ub == RtDense(rtProblem.consUb)
  IN [i \in RtConsIndices |-> Greater(0, Greater(lb[i] - RtConsValue(x, i), RtConsValue(x, i) - ub[i]))]

\* Restoration begins within all bounds, with the distance of the
\* constraints from their bounds as residual, so that its objective is zero
\* only at feasible points.  (Entered again, it may begin with the residual
\* of the last time, which another run shows.)
EntersAtDistance ==
  rtPhase = "restoration" /\ ~rtSet =>
    /\ RtBoxed(rtPrimal, rtRest.lb, rtRest.ub)
    /\ Restored(rtPrimal, CreateVec(RtVars, 0)).nz = rtIterate.primal.nz
    /\ rtEntries = 1 /\ rtLast # RtNone /\ rtLast.op \in {"enter", "eval"} => rtLast.obj2 = RtSquares(RtDistance(rtUser))

\* Objective, gradient and products are those of the residual at the point
\* that was set last, whatever was cached in between.
EvaluatesAtPoint ==
  rtLast # RtNone /\ (rtSet \/ rtEntries = 1) =>
    LET values == RtDense(rtPrimal)
        s == [i \in RtConsIndices |-> values[RtVars + i]]
        residual == [i \in RtConsIndices |-> RtResidualAt(rtUser, s, i)]
    IN /\ rtLast.op \in {"enter", "eval"} =>
            /\ rtLast.obj2 = RtSquares(residual)
            /\ RtDense(rtLast.grad) = RtTransTimes(rtUser, residual)
       /\ rtLast.op = "hess" =>
            LET forward == RtJacTimes(rtUser, RtDense(rtLast.dir)) IN
            /\ RtDense(rtLast.forward) = forward
            /\ RtDense(rtLast.product) = RtTransTimes(rtUser, forward)
       /\ rtLast.op = "accepted" => (rtLast.feasible <=> RtSquares(RtDistance(rtUser)) = 0)

\* The iterate of the optimization phase holds the values of its point,
\* also if it comes out of restoration.
LeavesWithValues ==
  rtPhase = "optimization" =>
    /\ RtDense(rtIterate.primal) = rtUser
    /\ RtDense(rtIterate.consVal) = [i \in RtConsIndices |-> RtConsValue(rtUser, i)]
    /\ \A i \in RtConsIndices, j \in RtVarIndices : MatValueAt(rtIterate.consJac, i, j) = RtPartial(rtUser, i, j)

\* All vectors and matrices are sorted and have room for their entries.
RoomSuffices ==
  rtRest # RtNone =>
    /\ \A x \in {rtRest.lb, rtRest.ub, rtRest.residual, rtRest.forward, rtRest.data.varPrimal, rtRest.data.consPrimal,
                 rtRest.data.varForward, rtRest.data.consForward, rtRest.data.forwardProduct,
                 rtRest.data.adjointProduct, rtRest.data.consVal} : ValidVec(x)
    /\ MatValid(rtRest.data.consJac)
    /\ rtPrimal # RtNone => ValidVec(rtPrimal)
    /\ rtLast # RtNone /\ "grad" \in DOMAIN rtLast => ValidVec(rtLast.grad)
    /\ rtLast # RtNone /\ "product" \in DOMAIN rtLast => ValidVec(rtLast.product)

RestorationSound == EntersAtDistance /\ EvaluatesAtPoint /\ LeavesWithValues /\ RoomSuffices
=============================================================================
