---------------------------- MODULE Preprocessor ----------------------------
(***************************************************************************)
(* The preprocessor (src/main/preprocessor): linear rows that say nothing  *)
(* or only bound one variable are taken out, variables with one possible   *)
(* value are fixed, bounds that others imply are dropped; the solver works *)
(* on the reduced problem, and its iterate is carried back: primal values, *)
(* working set and multipliers of what was removed are reconstructed.      *)
(*                                                                         *)
(* A problem has variables 0 .. n-1 and linear rows 0 .. m-1 below one     *)
(* optional general constraint.  Values are integers, infinite from        *)
(* Infinity / 2 on as in cmp.c; coefficients are -1, 0 or 1, so that the   *)
(* divisions of the source are exact.  (A coefficient smaller than a half  *)
(* would turn an infinite lower bound into a large finite activity, which  *)
(* compute_linear_bounds does not test for: not modelled.)  An assertion   *)
(* of the source that fails ends the run in the stage "aborted", an error  *)
(* it returns in the stage "error".                                        *)
(***************************************************************************)
EXTENDS SparseVec, FiniteSets, FiniteSetsExt

CONSTANTS
  Problems,      \* the problems that are preprocessed
  Infinity,      \* sleqp_infinity
  Grid,          \* values a variable may take in an iterate
  Multipliers    \* values of multipliers and gradients

IsFinite(v) == -Infinity < 2 * v /\ 2 * v < Infinity

ASSUME ProblemAssumption ==
  \A p \in Problems :
    /\ IsFiniteSet(DOMAIN p.varLb) /\ DOMAIN p.varLb = 0 .. Cardinality(DOMAIN p.varLb) - 1
    /\ IsFiniteSet(DOMAIN p.rows) /\ DOMAIN p.rows = 0 .. Cardinality(DOMAIN p.rows) - 1
    /\ \A j \in DOMAIN p.varLb : p.varLb[j] \in Int /\ p.varUb[j] \in Int /\ p.varLb[j] <= p.varUb[j]
    /\ \A i \in DOMAIN p.rows, j \in DOMAIN p.varLb :
         /\ p.rows[i].coeffs[j] \in {-1, 0, 1}
         /\ p.rows[i].lb <= p.rows[i].ub

ASSUME GridAssumption == Grid \subseteq Int

VARIABLES
  problem,       \* the original problem
  stage,         \* how far creation and restoration have come
  state,         \* SleqpPreprocessingState with the flag infeasible
  transformed,   \* the reduced problem and the maps back
  iterate,       \* the iterate of the solver on the reduced problem
  restored       \* the iterate of the original problem

vars == <<problem, stage, state, transformed, iterate, restored>>

Null == [none |-> TRUE]

Vars(p) == DOMAIN p.varLb
Rows(p) == DOMAIN p.rows
Coeff(p, i, j) == p.rows[i].coeffs[j]
Entries(p, i) == {j \in Vars(p) : Coeff(p, i, j) # 0}

-----------------------------------------------------------------------------
(* SleqpPreprocessingState and the operations that change it.              *)

NewState(p) ==
  [varStates  |-> [j \in Vars(p) |-> [state |-> "unchanged", value |-> 0]],
   consStates |-> [i \in Rows(p) |-> "unchanged"],
   varReq     |-> [j \in Vars(p) |-> {}],      \* redundant bounds
   consReq    |-> [i \in Rows(p) |-> {}],
   converted  |-> <<>>,
   forcing    |-> <<>>,
   numFixed   |-> 0,
   numRedundant |-> 0,
   infeasible |-> FALSE,
   asserts    |-> TRUE]                        \* no assertion has failed

FixToBounds(p, st) ==
  LET fixed == {j \in Vars(p) : p.varLb[j] = p.varUb[j]}
  IN [st EXCEPT
        !.varStates = [j \in Vars(p) |->
                         IF j \in fixed
                         THEN [state |-> "bound_fixed", value |-> p.varLb[j]]
                         ELSE st.varStates[j]],
        !.numFixed = Cardinality(fixed)]

RemoveRow(st, i) ==
  [st EXCEPT !.consStates = [@ EXCEPT ![i] = "redundant"],
             !.consReq = [@ EXCEPT ![i] = {"lower", "upper"}],
             !.numRedundant = st.numRedundant + 1]

ConvertRow(st, entry) ==
  [st EXCEPT !.converted = Append(st.converted, entry),
             !.consStates = [@ EXCEPT ![entry.row] = "converted"],
             !.asserts = /\ st.asserts
                         /\ st.varStates[entry.var].state = "unchanged"]


NewlyFixed(st, fixed) == Cardinality({j \in fixed : st.varStates[j].state = "unchanged"})

\* A row that only holds with all of its variables at bounds fixes them;
\* a variable that is fixed already is not counted again.
AddForcing(p, st, i, side) ==
  LET fixed == Entries(p, i)
      value(j) == IF (Coeff(p, i, j) > 0) # (side = "lower")
                  THEN p.varLb[j] ELSE p.varUb[j]
  IN IF fixed = {} THEN RemoveRow(st, i)
     ELSE [RemoveRow(st, i) EXCEPT
             !.forcing = Append(st.forcing, [row |-> i, side |-> side,
                                             vars |-> Ascending(fixed, Cardinality(Vars(p)))]),
             !.numFixed = st.numFixed + NewlyFixed(st, fixed),
             !.varStates = [j \in Vars(p) |->
                 IF j \in fixed
                 THEN [state |-> "forcing_fixed", value |-> value(j)]
                 ELSE st.varStates[j]],
             !.asserts = st.asserts /\ \A j \in fixed : IsFinite(value(j))]

Unchanged(st, i) == st.consStates[i] = "unchanged"
NumRemoved(st) == st.numRedundant + Len(st.converted)
-----------------------------------------------------------------------------
(* sleqp_preprocessor_create: the analysis of the linear rows.             *)

\* convert_linear_constraint_to_bound: a row with one entry becomes a bound
\* if it improves one, otherwise it is redundant.
ConvertToBound(p, st, i) ==
  LET j  == CHOOSE v \in Vars(p) : Entries(p, i) = {v}
      f  == Coeff(p, i, j)
      lb == IF f < 0 THEN -p.rows[i].ub ELSE p.rows[i].lb
      ub == IF f < 0 THEN -p.rows[i].lb ELSE p.rows[i].ub
      sides == {s \in {"lower", "upper"} :
                  \/ s = "lower" /\ IsFinite(lb) /\ lb > p.varLb[j]
                  \/ s = "upper" /\ IsFinite(ub) /\ ub < p.varUb[j]}
  IN IF sides = {} THEN RemoveRow(st, i)
     ELSE ConvertRow(st, [row |-> i, var |-> j, factor |-> f,
                          lb |-> lb, ub |-> ub, sides |-> sides])

SimplifyRow(p, st, i) ==
  LET r == p.rows[i]
      count == Cardinality(Entries(p, i))
  IN CASE ~IsFinite(r.lb) /\ ~IsFinite(r.ub) -> RemoveRow(st, i)
       [] (IsFinite(r.lb) \/ IsFinite(r.ub)) /\ count = 0 ->
            IF r.lb > 0 \/ r.ub < 0
            THEN [st EXCEPT !.infeasible = TRUE]
            ELSE RemoveRow(st, i)
       [] (IsFinite(r.lb) \/ IsFinite(r.ub)) /\ count = 1 -> ConvertToBound(p, st, i)
       [] OTHER -> st

\* Mutant: the minimum takes the lower bounds whatever the coefficients
LinearMinPositive(p, i) ==
  IF \E j \in Entries(p, i) : ~IsFinite(p.varLb[j])
  THEN -Infinity
  ELSE MapThenSumSet(LAMBDA j : Coeff(p, i, j) * p.varLb[j], Entries(p, i))

\* compute_linear_bounds: what a row can be, given the original bounds.
\* For a negative coefficient the source tests the upper bound only.
LinearMin(p, i) ==
  IF \E j \in Entries(p, i) :
       ~IsFinite(IF Coeff(p, i, j) > 0 THEN p.varLb[j] ELSE p.varUb[j])
  THEN -Infinity
  ELSE MapThenSumSet(LAMBDA j : Coeff(p, i, j) *
                       (IF Coeff(p, i, j) > 0 THEN p.varLb[j] ELSE p.varUb[j]),
                     Entries(p, i))

LinearMax(p, i) ==
  IF \E j \in Entries(p, i) :
       \/ ~IsFinite(p.varUb[j])
       \/ Coeff(p, i, j) < 0 /\ ~IsFinite(p.varLb[j])
  THEN Infinity
  ELSE MapThenSumSet(LAMBDA j : Coeff(p, i, j) *
                       (IF Coeff(p, i, j) > 0 THEN p.varUb[j] ELSE p.varLb[j]),
                     Entries(p, i))

RemoveImplied(p, st, i) ==
  IF /\ Unchanged(st, i)
     /\ IsFinite(LinearMin(p, i)) /\ IsFinite(LinearMax(p, i))
     /\ p.rows[i].lb < LinearMin(p, i)
     /\ p.rows[i].ub > LinearMax(p, i)
  THEN RemoveRow(st, i) ELSE st

\* check_for_constraint_infeasibility, first loop
CheckRow(p, st, i) ==
  LET r == p.rows[i]
      lowerSlack == LinearMax(p, i) - r.lb
      upperSlack == r.ub - LinearMin(p, i)
      missed(s) == [s EXCEPT !.infeasible = TRUE]
      afterLower == IF IsFinite(r.lb) /\ lowerSlack < 0 THEN missed(st) ELSE st
  IN CASE ~Unchanged(st, i) -> st
       [] Unchanged(st, i) /\ IsFinite(r.lb) /\ lowerSlack = 0 ->
            AddForcing(p, st, i, "lower")
       [] OTHER ->
            IF IsFinite(r.ub) /\ upperSlack < 0 THEN missed(afterLower)
            ELSE IF IsFinite(r.ub) /\ upperSlack = 0
            THEN AddForcing(p, afterLower, i, "upper")
            ELSE afterLower

\* second loop: sides of a row that the bounds of the variables imply
RelaxRow(p, st, i) ==
  IF ~Unchanged(st, i) THEN st
  ELSE [st EXCEPT !.consReq = [@ EXCEPT ![i] =
          {s \in {"lower", "upper"} :
             \/ s = "lower" /\ LinearMin(p, i) > p.rows[i].lb /\ IsFinite(p.rows[i].lb)
             \/ s = "upper" /\ LinearMax(p, i) < p.rows[i].ub /\ IsFinite(p.rows[i].ub)}]]

\* compute_variable_bounds: what the rows imply for a variable.  All rows
\* count, also those that were removed.
UpperRoom(p, j, i) == Coeff(p, i, j) * (p.rows[i].ub - LinearMin(p, i)) + p.varLb[j]
LowerRoom(p, j, i) == Coeff(p, i, j) * (p.rows[i].lb - LinearMax(p, i)) + p.varUb[j]

FromUpper(p, j) == {i \in Rows(p) : /\ IsFinite(p.rows[i].ub)
                                    /\ IsFinite(LinearMin(p, i))
                                    /\ IsFinite(p.varLb[j])}
FromLower(p, j) == {i \in Rows(p) : /\ IsFinite(p.rows[i].lb)
                                    /\ IsFinite(LinearMax(p, i))
                                    /\ IsFinite(p.varUb[j])}

VarMin(p, j) ==
  Max({p.varLb[j]} \cup {UpperRoom(p, j, i) : i \in {k \in FromUpper(p, j) : Coeff(p, k, j) < 0}}
                   \cup {LowerRoom(p, j, i) : i \in {k \in FromLower(p, j) : Coeff(p, k, j) > 0}})
VarMax(p, j) ==
  Min({p.varUb[j]} \cup {UpperRoom(p, j, i) : i \in {k \in FromUpper(p, j) : Coeff(p, k, j) > 0}}
                   \cup {LowerRoom(p, j, i) : i \in {k \in FromLower(p, j) : Coeff(p, k, j) < 0}})

\* check_for_variable_infeasibility
RelaxVars(p, st) ==
  LET kept == {j \in Vars(p) : st.varStates[j].state = "unchanged"}
  IN [st EXCEPT
        !.infeasible = st.infeasible \/ \E j \in kept : VarMax(p, j) < VarMin(p, j),
        !.varReq = [j \in Vars(p) |->
          {s \in {"lower", "upper"} :
             /\ j \in kept
             /\ \/ s = "lower" /\ VarMin(p, j) > p.varLb[j] /\ IsFinite(p.varLb[j])
                \/ s = "upper" /\ VarMax(p, j) < p.varUb[j] /\ IsFinite(p.varUb[j])}]]

\* the loops over the linear rows, in this order
VisitRow(loop, p, st, i) ==
  CASE loop = "simplify" -> SimplifyRow(p, st, i)
    [] loop = "implied" -> RemoveImplied(p, st, i)
    [] loop = "check" -> CheckRow(p, st, i)
    [] loop = "relax" -> RelaxRow(p, st, i)

OverRows(loop, p, st) ==
  LET after[k \in 0 .. Cardinality(Rows(p))] ==
        IF k = 0 THEN st ELSE VisitRow(loop, p, after[k - 1], k - 1)
  IN after[Cardinality(Rows(p))]

Analyse(p) ==
  RelaxVars(p, OverRows("relax", p, OverRows("check", p, OverRows("implied", p,
                 OverRows("simplify", p, FixToBounds(p, NewState(p)))))))
-----------------------------------------------------------------------------
(* The transformation: sleqp_preprocessing_state_flush, create_maps and    *)
(* sleqp_transformation_create_transformed_problem.                        *)

FixedVars(st) == {j \in DOMAIN st.varStates : st.varStates[j].state # "unchanged"}
RemovedRows(st) == {i \in DOMAIN st.consStates : st.consStates[i] # "unchanged"}
NumRemovedVarBounds(st) ==
  Cardinality({j \in DOMAIN st.varReq : st.varReq[j] # {}})

\* replace_redundant_bound: a bound is dropped if it is the only redundant
\* one; if both are, the code keeps both.
Relaxed(bound, requirement, side, value) ==
  IF requirement = {side} THEN value ELSE bound

\* The room that replace_redundant_bound reserves in the sparse target is
\* the number of removed bounds of variables, also for the bounds of rows.
ReserveSuffices(bounds, requirements, side, removed) ==
  LET stored == {i \in DOMAIN bounds : bounds[i] # 0}
      pushed == stored \cup {i \in DOMAIN bounds : requirements[i] = {side}}
  IN Cardinality(pushed) <=
       Lesser(Cardinality(DOMAIN bounds), Cardinality(stored) + removed)

\* create_transformed_var_lb, create_transformed_var_ub
TransformedLb(p, st, j) ==
  FoldLeft(LAMBDA b, c : IF c.var = j THEN Greater(b, c.lb) ELSE b,
           Relaxed(p.varLb[j], st.varReq[j], "lower", -Infinity), st.converted)
TransformedUb(p, st, j) ==
  FoldLeft(LAMBDA b, c : IF c.var = j THEN Lesser(b, c.ub) ELSE b,
           Relaxed(p.varUb[j], st.varReq[j], "upper", Infinity), st.converted)

FixedPart(p, st, i) ==
  MapThenSumSet(LAMBDA j : Coeff(p, i, j) * st.varStates[j].value, FixedVars(st))

\* transform_linear_constraints: fixed variables move into the bounds, which
\* are relaxed only if some bound of a variable was removed.
Transform(p, st) ==
  LET varMap  == Ascending(Vars(p) \ FixedVars(st), Cardinality(Vars(p)))
      consMap == Ascending(Rows(p) \ RemovedRows(st), Cardinality(Rows(p)))
      requirement(i) == IF NumRemovedVarBounds(st) > 0 THEN st.consReq[i] ELSE {}
      lb(i) == Relaxed(p.rows[i].lb - FixedPart(p, st, i), requirement(i), "lower", -Infinity)
      ub(i) == Relaxed(p.rows[i].ub - FixedPart(p, st, i), requirement(i), "upper", Infinity)
  IN [varMap |-> varMap, consMap |-> consMap,
      varLb |-> [k \in 1 .. Len(varMap) |-> TransformedLb(p, st, varMap[k])],
      varUb |-> [k \in 1 .. Len(varMap) |-> TransformedUb(p, st, varMap[k])],
      rowLb |-> [k \in 1 .. Len(consMap) |-> lb(consMap[k])],
      rowUb |-> [k \in 1 .. Len(consMap) |-> ub(consMap[k])]]

TransformAsserts(p, st) ==
  LET shifted(side) == [i \in Rows(p) |-> p.rows[i][side] - FixedPart(p, st, i)]
      removed == NumRemovedVarBounds(st)
  IN /\ st.asserts
     /\ removed > 0 => /\ ReserveSuffices(shifted("lb"), st.consReq, "lower", removed)
                       /\ ReserveSuffices(shifted("ub"), st.consReq, "upper", removed)

\* sleqp_problem_create: check_bounds raises an illegal argument
BoundsConsistent(t) ==
  /\ \A k \in DOMAIN t.varLb : t.varLb[k] <= t.varUb[k]
  /\ \A k \in DOMAIN t.rowLb : t.rowLb[k] <= t.rowUb[k]
-----------------------------------------------------------------------------
(* The restoration: sleqp_restoration_restore_iterate and what it calls.   *)

NumGeneral(p) == Len(p.general)
ConsOf(p) == 0 .. NumGeneral(p) + Cardinality(Rows(p)) - 1
ConsCoeff(p, c, j) == IF c < NumGeneral(p) THEN p.general[c + 1][j]
                      ELSE Coeff(p, c - NumGeneral(p), j)
Inactive == "inactive"

FixedEntries(p, st) ==
  LET indices == Ascending(FixedVars(st), Cardinality(Vars(p)))
  IN [k \in DOMAIN indices |-> Entry(indices[k], st.varStates[indices[k]].value)]

\* restore_primal, sleqp_transformation_convert_primal
RestorePrimal(p, st, x) ==
  MergeEntries(x, CreateVec(Cardinality(Vars(p)), 0), FixedEntries(p, st))
ConvertPrimal(p, st, x) ==
  RemoveEntries(x, CreateVec(Cardinality(Vars(p) \ FixedVars(st)), 0),
                Ascending(FixedVars(st), Cardinality(Vars(p))))

NumBefore(S, i) == Cardinality({k \in S : k < i})

\* prepare_working_set: states are read at the index less what was removed
PrepareWorkingSet(p, st, it) ==
  LET g == NumGeneral(p)
  IN [varState |-> [j \in Vars(p) |->
                      IF j \in FixedVars(st) THEN Inactive
                      ELSE it.varState[j - NumBefore(FixedVars(st), j)]],
      consState |-> [c \in ConsOf(p) |->
                      IF c < g THEN it.consState[c]
                      ELSE IF c - g \in RemovedRows(st) THEN Inactive
                      ELSE it.consState[c - NumBefore(RemovedRows(st), c - g)]]]

\* Mutant: multipliers of the linear rows are not shifted by the general ones
PrepareDualsNoOffset(p, t, it) ==
  [varDual |-> [j \in Vars(p) |->
      IF \E k \in DOMAIN t.varMap : t.varMap[k] = j
      THEN it.varDual[(CHOOSE k \in DOMAIN t.varMap : t.varMap[k] = j) - 1] ELSE 0],
   consDual |-> [c \in ConsOf(p) |->
      IF c < NumGeneral(p) THEN it.consDual[c]
      ELSE IF \E k \in DOMAIN t.consMap : t.consMap[k] = c - NumGeneral(p)
      THEN it.consDual[(CHOOSE k \in DOMAIN t.consMap :
                          t.consMap[k] = c - NumGeneral(p)) - 1]
      ELSE 0]]

\* prepare_duals: multipliers are written through var_map, linear_cons_map
PrepareDuals(p, t, it) ==
  [varDual |-> [j \in Vars(p) |->
      IF \E k \in DOMAIN t.varMap : t.varMap[k] = j
      THEN it.varDual[(CHOOSE k \in DOMAIN t.varMap : t.varMap[k] = j) - 1] ELSE 0],
   consDual |-> [c \in ConsOf(p) |->
      IF c < NumGeneral(p) THEN it.consDual[c]
      ELSE IF \E k \in DOMAIN t.consMap : t.consMap[k] = c - NumGeneral(p)
      THEN it.consDual[NumGeneral(p) + (CHOOSE k \in DOMAIN t.consMap :
                                           t.consMap[k] = c - NumGeneral(p)) - 1]
      ELSE 0]]

\* sleqp_iterate_stationarity_residuals with the multipliers stored so far
Residual(p, grad, r, j) ==
  grad[j] + r.varDual[j]
    + MapThenSumSet(LAMBDA c : ConsCoeff(p, c, j) * r.consDual[c], ConsOf(p))

\* correct_fixed_variables: those fixed by their own bounds
CorrectFixed(st, r) ==
  LET fixed == {j \in DOMAIN r.varState : st.varStates[j].state = "bound_fixed"}
  IN [r EXCEPT
        !.varState = [j \in DOMAIN r.varState |->
                        IF j \in fixed THEN "both" ELSE r.varState[j]],
        !.varDual  = [j \in DOMAIN r.varState |->
                        IF j \in fixed THEN -r.residuals[j] ELSE r.varDual[j]],
        !.residuals = [j \in DOMAIN r.varState |->
                        IF j \in fixed THEN 0 ELSE r.residuals[j]]]

\* correct_converted_bound: the multiplier of a bound goes to the row that
\* the bound came from, and the variable leaves the working set.
CorrectConverted(p, r, b) ==
  LET j == b.var
      c == NumGeneral(p) + b.row
      side == CASE r.varState[j] = "both" /\ r.varDual[j] >= 0 -> "upper"
                [] r.varState[j] = "both" /\ r.varDual[j] < 0  -> "lower"
                [] OTHER -> r.varState[j]
      consSide == IF b.factor > 0 THEN side ELSE IF side = "lower" THEN "upper" ELSE "lower"
  IN IF side = Inactive \/ side \notin b.sides THEN r
     ELSE [r EXCEPT !.consState[c] = consSide,
                    !.consDual[c]  = r.varDual[j] * b.factor,
                    !.varDual[j]   = 0,
                    !.varState[j]  = Inactive]

\* desired_var_state_in_forcing_constraint
DesiredState(p, f, j) ==
  IF (Coeff(p, f.row, j) > 0) = (f.side = "lower") THEN "upper" ELSE "lower"

\* correct_forcing_constraint.  If a multiplier has the wrong sign, the row
\* takes the largest of them and the variable it comes from stays inactive.
\* max_index is not initialised: it is `garbage` if all of them are zero.
CorrectForcing(p, r, f, garbage) ==
  LET c == NumGeneral(p) + f.row
      target(j) == -r.residuals[j]
      wrong == {k \in DOMAIN f.vars :
                  (DesiredState(p, f, f.vars[k]) = "upper") # (target(f.vars[k]) >= 0)}
      dual(k) == target(f.vars[k]) * Coeff(p, f.row, f.vars[k])
      size(k) == IF dual(k) < 0 THEN -dual(k) ELSE dual(k)
      top == {k \in wrong : size(k) > 0 /\ \A l \in wrong : size(l) <= size(k)}
      maxIndex == IF top = {} THEN garbage ELSE Min(top)
      maxDual  == IF top = {} THEN 0 ELSE dual(Min(top))
      members == {f.vars[k] : k \in DOMAIN f.vars}
      active == IF wrong = {} THEN members
                ELSE {f.vars[k] : k \in DOMAIN f.vars \ {maxIndex}}
      value(j) == IF wrong = {} THEN target(j)
                  ELSE -(r.residuals[j] + Coeff(p, f.row, j) * maxDual)
  IN [varState |-> [j \in DOMAIN r.varState |->
                      IF j \in active THEN DesiredState(p, f, j) ELSE r.varState[j]],
      varDual  |-> [j \in DOMAIN r.varState |->
                      IF j \in active THEN value(j) ELSE r.varDual[j]],
      consState |-> [r.consState EXCEPT ![c] = IF wrong = {} THEN @ ELSE f.side],
      consDual  |-> [r.consDual EXCEPT ![c] = IF wrong = {} THEN @ ELSE maxDual],
      residuals |-> [j \in DOMAIN r.varState |->
                      IF j \in members THEN 0 ELSE r.residuals[j]],
      asserts |-> /\ r.asserts
                  /\ wrong = {} => \A j \in members : r.varDual[j] = 0
                  /\ wrong # {} => IF f.side = "upper" THEN maxDual >= 0 ELSE maxDual <= 0]

\* what `garbage` may be: an index of a variable in the row, or none of them
Garbage(p, st) == [DOMAIN st.forcing -> 0 .. Cardinality(Vars(p))]

RestoreSteps(p, st, t, it, garbage) ==
  LET prepared == PrepareWorkingSet(p, st, it)
      duals == PrepareDuals(p, t, it)
      r0 == [varState |-> prepared.varState, consState |-> prepared.consState,
             varDual |-> duals.varDual, consDual |-> duals.consDual,
             residuals |-> [j \in Vars(p) |-> Residual(p, it.grad, duals, j)],
             asserts |-> TRUE]
      r1 == CorrectFixed(st, r0)
      r2 == FoldLeft(LAMBDA r, b : CorrectConverted(p, r, b), r1, st.converted)
  IN FoldLeft(LAMBDA r, k : CorrectForcing(p, r, st.forcing[k], garbage[k]), r2,
              [k \in DOMAIN st.forcing |-> k])

Supports(states, dual) ==
  \A i \in DOMAIN dual :
    /\ states[i] = "lower"  => dual[i] <= 0
    /\ states[i] = "upper"  => dual[i] >= 0
    /\ states[i] = Inactive => dual[i] = 0

\* the assertions at the end of sleqp_restoration_restore_iterate
RestoreAsserts(p, it, r) ==
  /\ r.asserts
  /\ Cardinality({j \in Vars(p) : r.varState[j] # Inactive})
       + Cardinality({c \in ConsOf(p) : r.consState[c] # Inactive}) <= Cardinality(Vars(p))
  /\ Supports(it.consState, it.consDual) => Supports(r.consState, r.consDual)
  /\ Supports(it.varState, it.varDual) => Supports(r.varState, r.varDual)
-----------------------------------------------------------------------------
(* The points and multipliers a solver may return for the reduced problem. *)

RowValue(p, i, x) == MapThenSumSet(LAMBDA j : Coeff(p, i, j) * x[j], Vars(p))
FeasiblePoint(p, x) ==
  /\ \A j \in Vars(p) : p.varLb[j] <= x[j] /\ x[j] <= p.varUb[j]
  /\ \A i \in Rows(p) : p.rows[i].lb <= RowValue(p, i, x) /\ RowValue(p, i, x) <= p.rows[i].ub
Points(p) == [Vars(p) -> Grid]

FixedAgree(st, x) == \A j \in FixedVars(st) : x[j] = st.varStates[j].value
FeasibleReduced(p, t, x) ==
  /\ \A k \in DOMAIN t.varMap : t.varLb[k] <= x[t.varMap[k]] /\ x[t.varMap[k]] <= t.varUb[k]
  /\ \A k \in DOMAIN t.consMap :
       LET value == MapThenSumSet(LAMBDA l : Coeff(p, t.consMap[k], t.varMap[l]) * x[t.varMap[l]],
                                  DOMAIN t.varMap)
       IN t.rowLb[k] <= value /\ value <= t.rowUb[k]

\* states a value between two bounds may have, and multipliers it supports
StatesAt(v, lb, ub) ==
  {Inactive} \cup {s \in {"lower"} : v = lb /\ lb # ub}
             \cup {s \in {"upper"} : v = ub /\ lb # ub}
             \cup {s \in {"both"} : v = lb /\ lb = ub}
DualsIn(s) == {d \in Multipliers : Supports([i \in {0} |-> s], [i \in {0} |-> d])}

\* states of the working set and multipliers the solver may return at x
DualsAt(p, st, t, x) ==
  LET g == NumGeneral(p)
      n == Len(t.varMap)
      m == Len(t.consMap)
      value(c) == MapThenSumSet(LAMBDA j : Coeff(p, t.consMap[c - g + 1], j) * x[j], Vars(p))
                    - FixedPart(p, st, t.consMap[c - g + 1])
      supported ==
        UNION {{[varState |-> vs, consState |-> cs, varDual |-> vd, consDual |-> cd] :
                  vd \in {f \in [0 .. n - 1 -> Multipliers] : Supports(vs, f)},
                  cd \in {f \in [0 .. g + m - 1 -> Multipliers] : Supports(cs, f)}} :
          vs \in {f \in [0 .. n - 1 -> {Inactive, "lower", "upper", "both"}] :
                   \A k \in 0 .. n - 1 :
                     f[k] \in StatesAt(x[t.varMap[k + 1]], t.varLb[k + 1], t.varUb[k + 1])},
          cs \in {f \in [0 .. g + m - 1 -> {Inactive, "lower", "upper", "both"}] :
                   \A c \in 0 .. g + m - 1 :
                     f[c] \in IF c < g THEN {Inactive, "upper"}
                              ELSE StatesAt(value(c), t.rowLb[c - g + 1], t.rowUb[c - g + 1])}}
      fits(d) == Cardinality({k \in 0 .. n - 1 : d.varState[k] # Inactive})
                   + Cardinality({c \in 0 .. g + m - 1 : d.consState[c] # Inactive}) <= n
  IN {d \in supported : fits(d)}

\* the gradient that makes multipliers stationary for the kept variables
GradientFor(p, st, t, d, free) ==
  LET g == NumGeneral(p)
      position(j) == CHOOSE k \in DOMAIN t.varMap : t.varMap[k] = j
      pull(j) ==
        d.varDual[position(j) - 1]
          + MapThenSumSet(LAMBDA c : d.consDual[c] *
              (IF c < g THEN p.general[c + 1][j] ELSE Coeff(p, t.consMap[c - g + 1], j)),
              0 .. g + Len(t.consMap) - 1)
  IN [j \in Vars(p) |-> IF j \in FixedVars(st) THEN free[j] ELSE -pull(j)]

\* An iterate at x: the solver works on the sparse reduced point.
SolverIterate(p, st, x, d, grad) ==
  [varState |-> d.varState, consState |-> d.consState, varDual |-> d.varDual, consDual |-> d.consDual,
   primal |-> ConvertPrimal(p, st, SetFromRaw(CreateVec(0, 0), x, Cardinality(Vars(p)))),
   grad |-> grad]

IteratesAt(p, st, t, x) ==
  {SolverIterate(p, st, x, d, GradientFor(p, st, t, d, free)) :
     d \in DualsAt(p, st, t, x), free \in [FixedVars(st) -> Multipliers]}
-----------------------------------------------------------------------------
Init ==
  /\ problem \in Problems
  /\ stage = "new"
  /\ state = Null /\ transformed = Null /\ iterate = Null /\ restored = Null

\* sleqp_preprocessor_create
Create ==
  /\ stage = "new"
  /\ LET st == Analyse(problem)
         t == Transform(problem, st)
     IN /\ state' = st
        /\ transformed' = t
        /\ stage' = CASE ~TransformAsserts(problem, st) -> "aborted"
                      [] TransformAsserts(problem, st) /\ ~BoundsConsistent(t) -> "error"
                      [] OTHER -> "created"
  /\ UNCHANGED <<problem, iterate, restored>>

\* the solver returns a stationary point of the reduced problem
Solve ==
  /\ stage = "created" /\ ~state.infeasible
  /\ \E x \in {y \in Points(problem) : FixedAgree(state, y)
                                       /\ FeasibleReduced(problem, transformed, y)} :
       iterate' \in IteratesAt(problem, state, transformed, x)
  /\ stage' = "solved"
  /\ UNCHANGED <<problem, state, transformed, restored>>

\* sleqp_preprocessor_restore_iterate
Restore ==
  /\ stage = "solved"
  /\ \E garbage \in Garbage(problem, state) :
       LET r == RestoreSteps(problem, state, transformed, iterate, garbage)
       IN /\ restored' = [varState |-> r.varState, consState |-> r.consState,
                          varDual |-> r.varDual, consDual |-> r.consDual,
                          residuals |-> [j \in Vars(problem) |-> Residual(problem, iterate.grad, r, j)],
                          primal |-> RestorePrimal(problem, state, iterate.primal)]
          /\ stage' = IF RestoreAsserts(problem, iterate, r) THEN "restored" ELSE "aborted"
  /\ UNCHANGED <<problem, state, transformed, iterate>>

Next == Create \/ Solve \/ Restore

Spec == Init /\ [][Next]_vars
-----------------------------------------------------------------------------
(* Properties                                                              *)

Analysed == stage \in {"created", "solved", "restored"}
Feasible(p) == {x \in Points(p) : FeasiblePoint(p, x)}

\* Rows are recorded once: as the source of one bound, or as one forcing row.
RecordedOnce(list, marks, mark) ==
  /\ \A k \in DOMAIN list : list[k].row \in DOMAIN marks /\ marks[list[k].row] = mark
  /\ \A k, l \in DOMAIN list : list[k].row = list[l].row => k = l

\* The counters of fixed variables and removed rows, by which the index
\* lists are allocated and the dimensions of the reduced problem chosen,
\* are the numbers of variables and rows that are marked, although several
\* rows may fix the same variable (assertions of preprocessing_state.c).
CountsMatch ==
  Analysed => /\ state.numFixed = Cardinality(FixedVars(state))
              /\ NumRemoved(state) = Cardinality(RemovedRows(state))

\* What the restoration corrects multipliers by: every removed row is
\* recorded at most once, and never both as a bound and as a forcing row.
RemovalsRecorded ==
  Analysed => /\ RecordedOnce(state.converted, state.consStates, "converted")
              /\ RecordedOnce(state.forcing, state.consStates, "redundant")

\* The k-th variable or row of the reduced problem is the one whose state is
\* read there by what was removed before it, so that states of the working
\* set and multipliers, which are written by the maps, are restored to the
\* same variables and rows (prepare_working_set and prepare_duals).
MapsAgree ==
  Analysed =>
    /\ \A k \in DOMAIN transformed.varMap :
         transformed.varMap[k] - NumBefore(FixedVars(state), transformed.varMap[k]) = k - 1
    /\ \A k \in DOMAIN transformed.consMap :
         transformed.consMap[k] - NumBefore(RemovedRows(state), transformed.consMap[k]) = k - 1

\* The primal values that come back are those of the solver, a point of the
\* reduced problem, and fixed variables at one of their bounds, in a valid
\* vector; reducing them again gives the solver's values.
PointRestored ==
  stage = "restored" =>
    LET x == ToRaw(restored.primal) IN
    /\ ValidVec(restored.primal)
    /\ FixedAgree(state, x) /\ FeasibleReduced(problem, transformed, x)
    /\ \A j \in FixedVars(state) : x[j] \in {problem.varLb[j], problem.varUb[j]}
    /\ ToRaw(ConvertPrimal(problem, state, restored.primal)) = ToRaw(iterate.primal)

\* The preprocessor keeps its books: what it counts, records and maps are
\* the variables and rows it removed, and primal values survive the way
\* to the reduced problem and back.
ReductionConsistent == CountsMatch /\ RemovalsRecorded /\ MapsAgree /\ PointRestored

\* If the problem has a feasible point, the reduced problem together with
\* the fixed values describes the same points: every reduction is sound, in
\* particular bounds that imply each other are not both dropped.
FeasibleSetKept ==
  stage = "created" /\ Feasible(problem) # {} =>
    \A x \in Points(problem) :
      FeasiblePoint(problem, x) <=>
        FixedAgree(state, x) /\ FeasibleReduced(problem, transformed, x)

\* A problem that is reported infeasible, or refused because the reduced
\* bounds contradict each other, has no feasible point.
InfeasibleMeansEmpty ==
  stage = "error" \/ (Analysed /\ state.infeasible) => Feasible(problem) = {}

\* A problem and its reduced problem have the same feasible points, and
\* none if it is infeasible.
ReducedIsEquivalent == FeasibleSetKept /\ InfeasibleMeansEmpty

\* The primal values that come back are a feasible point of a problem that
\* has one, and reducing them again gives the entries of the solver's.
RestoredPrimal ==
  stage = "restored" /\ Feasible(problem) # {} =>
    /\ FeasiblePoint(problem, ToRaw(restored.primal))
    /\ ConvertPrimal(problem, state, restored.primal).nz = iterate.primal.nz

\* What the corrections do not handle.  Two forcing rows share a variable:
\* the second one corrects a multiplier that the first has set.
SharedByForcing ==
  \E k, l \in DOMAIN state.forcing :
    k # l /\ Entries(problem, state.forcing[k].row)
               \cap Entries(problem, state.forcing[l].row) # {}

\* The sign test takes a zero multiplier for a wrong sign where a lower
\* bound is wanted; if it is the only one, max_index is never assigned.
ZeroTakenForWrong ==
  \E k \in DOMAIN state.forcing : \E j \in Entries(problem, state.forcing[k].row) :
    /\ DesiredState(problem, state.forcing[k], j) = "lower"
    /\ Residual(problem, iterate.grad, PrepareDuals(problem, transformed, iterate), j) = 0

\* Two rows became the same bound of a variable: the first of them gets the
\* multiplier, whichever is the tighter one.
SharedBound ==
  \E k, l \in DOMAIN state.converted :
    /\ k # l /\ state.converted[k].var = state.converted[l].var
    /\ state.converted[k].sides \cap state.converted[l].sides # {}

MultipliersUnknown == SharedByForcing \/ ZeroTakenForWrong

\* A row with one entry says that a variable has another value than its
\* equal bounds.
ContradictsFixed ==
  \E i \in Rows(problem), j \in Vars(problem) :
    /\ Entries(problem, i) = {j} /\ problem.varLb[j] = problem.varUb[j]
    /\ \/ RowValue(problem, i, problem.varLb) < problem.rows[i].lb
       \/ RowValue(problem, i, problem.varLb) > problem.rows[i].ub

\* The assertions fail in three cases only, and always in the first one: a
\* row contradicts a fixed variable (the problem is infeasible, but is not
\* reported as such), two forcing rows share a variable, or a multiplier of
\* a forcing row is zero where the sign test takes that for a wrong sign.
AbortsOnlyThen ==
  /\ stage # "new" /\ ContradictsFixed => stage = "aborted"
  /\ stage = "aborted" => ContradictsFixed \/ (iterate # Null /\ MultipliersUnknown)

\* Unless an assertion may fail, the restored multipliers are stationary for
\* the original problem, have the signs of their states, and are carried by
\* bounds and by rows the restored point is at; only where two rows became
\* the same bound the multiplier may be left at a row it is not at.
RestoredOptimal ==
  iterate # Null /\ stage # "solved" /\ ~MultipliersUnknown =>
    LET x == ToRaw(restored.primal) IN
    /\ \A j \in Vars(problem) : restored.residuals[j] = 0
    /\ Supports(restored.varState, restored.varDual)
    /\ Supports(restored.consState, restored.consDual)
    /\ \A j \in Vars(problem) :
         /\ restored.varDual[j] < 0 => x[j] = problem.varLb[j]
         /\ restored.varDual[j] > 0 => x[j] = problem.varUb[j]
    /\ ~SharedBound => \A i \in Rows(problem) :
         /\ restored.consDual[NumGeneral(problem) + i] < 0
              => RowValue(problem, i, x) = problem.rows[i].lb
         /\ restored.consDual[NumGeneral(problem) + i] > 0
              => RowValue(problem, i, x) = problem.rows[i].ub

\* A solution of the reduced problem becomes one of the original problem:
\* feasible, stationary and complementary, unless the restoration aborts,
\* and that only when it does not know what the multipliers are.
RestoredSolves == RestoredPrimal /\ AbortsOnlyThen /\ RestoredOptimal


\* No assertion fails for a problem that has a feasible point: the restored
\* working set is valid and supports the multipliers.  The assertions at the
\* end of sleqp_restoration_restore_iterate say so; it does not hold.
NeverAborts == Feasible(problem) # {} => stage # "aborted"
=============================================================================
