-------------------------------- MODULE Cauchy --------------------------------
(***************************************************************************)
(* The linear programs behind a Cauchy step (cauchy/), and what is read    *)
(* from their solutions: the step, the working set, estimates of the       *)
(* multipliers (dual_estimation/) and with them the residuals that decide  *)
(* on optimality (iterate.c), and the working set that is left after       *)
(* polishing (polish.c).  The linear program of problems with constraints  *)
(* has a lower and an upper slack for every row; its solution can be       *)
(* followed by one of a reduced program without slacks.  Problems without  *)
(* constraints are solved directly.                                        *)
(*                                                                         *)
(* Numbers are integers; data are even so that bases of two rows with      *)
(* coefficients -1, 0 and 1 have integer solutions.  Columns are named     *)
(* <<"d", j>>, <<"lower", i>>, <<"upper", i>>, and <<"row", i>> for the    *)
(* activity of row i.                                                      *)
(***************************************************************************)
EXTENDS SparseMat, LinearSystems, FiniteSets, FiniteSetsExt, TLC

CONSTANTS
  ClNumVars,
  ClIterates,   \* records [jac, varLb, varUb, consLb, consUb, x, obj, grad, consVal]:
                \* a problem and the values at an iterate of it
  ClInfinity,
  ClRadii,
  ClPenalties,
  ClMaxOps      \* bound on the number of solves

ASSUME ClAssumption == ClNumVars \in Nat \ {0} /\ ClMaxOps \in Nat

VARIABLES
  clKind,       \* which implementation
  clResolves,   \* LP_RESOLVES
  clIterate, clRadius, clPenalty,
  clConsBounds, \* cons_lb, cons_ub
  clCoeffs,     \* coefficients of the default interface
  clAnswer,     \* the solution the default interface holds
  clReduced,    \* the one of the reduced interface
  clUsesReduced,
  clDirty,      \* dirty_components
  clArrays,     \* var_stats and cons_stats, primal_values, vars_dual and cons_dual
  clStage,      \* "new", "set", "tried" and "solved" (for feasibility, and for
                \* the default objective), "read", "estimated", "polished"
  clStep, clSet, clDuals,
  clOps

clVars == <<clKind, clResolves, clIterate, clRadius, clPenalty, clConsBounds, clCoeffs, clAnswer, clReduced,
            clUsesReduced, clDirty, clArrays, clStage, clStep, clSet, clDuals, clOps>>

ClVarIndices == 0 .. ClNumVars - 1
ClRows(it) == 0 .. it.jac.rows - 1
SortedIndices(S) == SetToSortSeq(S, <)
Unbounded(value) == value >= ClInfinity \/ value <= -ClInfinity
-----------------------------------------------------------------------------
(* The linear program                                                      *)

\* create_var_bounds, create_cons_bounds
StepLower(it, radius, j) ==
  IF Unbounded(it.varLb[j]) THEN -radius ELSE Greater(it.varLb[j] - it.x[j], -radius)
StepUpper(it, radius, j) ==
  IF Unbounded(it.varUb[j]) THEN radius ELSE Lesser(it.varUb[j] - it.x[j], radius)
RowBounds(it) ==
  [lb |-> [i \in ClRows(it) |-> IF Unbounded(it.consLb[i]) THEN -ClInfinity ELSE it.consLb[i] - it.consVal[i]],
   ub |-> [i \in ClRows(it) |-> IF Unbounded(it.consUb[i]) THEN ClInfinity ELSE it.consUb[i] - it.consVal[i]]]

\* append_identities, remove_identities: columns for slacks are appended to
\* the iterate's Jacobian itself, and removed after it was passed on
AppendIdentities(jac) ==
  LET m == jac.rows
      n == jac.cols
      start == MatResize(MatReserve(jac, MatNnz(jac) + 2 * m), m, n + 2 * m)
  IN FoldLeft(LAMBDA t, k : MatPush(MatPushCol(t, n + k), k % m, n + k, IF k < m THEN 1 ELSE -1),
              start, [k \in 1 .. 2 * m |-> k - 1])
RemoveIdentities(jac) == MatResize(jac, jac.rows, jac.cols - 2 * jac.rows)

\* a program over the steps d, and over slacks if it has them
Program(it, radius, bounds, coeffs, slacks, objective) ==
  LET m == it.jac.rows
      index(k) == CASE k[1] = "d" -> k[2]
                    [] k[1] = "lower" -> ClNumVars + k[2]
                    [] k[1] = "upper" -> ClNumVars + m + k[2]
      structural == {<<"d", j>> : j \in ClVarIndices}
                    \cup (IF slacks THEN {"lower", "upper"} \X ClRows(it) ELSE {})
      columns == structural \cup {<<"row", i>> : i \in ClRows(it)}
  IN [columns |-> columns, rows |-> ClRows(it),
      entry |-> [k \in columns |-> [i \in ClRows(it) |->
                   IF k[1] = "row" THEN (IF k[2] = i THEN -1 ELSE 0) ELSE coeffs[<<i, index(k)>>]]],
      obj |-> [k \in columns |-> IF k[1] = "row" THEN 0 ELSE objective[k]],
      lo |-> [k \in columns |-> CASE k[1] = "d" -> StepLower(it, radius, k[2])
                                  [] k[1] = "row" -> bounds.lb[k[2]]
                                  [] OTHER -> 0],
      up |-> [k \in columns |-> CASE k[1] = "d" -> StepUpper(it, radius, k[2])
                                  [] k[1] = "row" -> bounds.ub[k[2]]
                                  [] OTHER -> ClInfinity]]

\* create_default_objective: slacks cost the penalty, steps their gradient,
\* or nothing if feasibility is the objective
Objective(it, type, penalty) ==
  [k \in ({"d"} \X ClVarIndices) \cup ({"lower", "upper"} \X ClRows(it)) |->
     CASE k[1] = "d" -> IF type = "feas" THEN 0 ELSE it.grad[k[2]]
       [] OTHER -> penalty]
-----------------------------------------------------------------------------
(* The solver of linear programs: any optimal basis.  Columns with equal   *)
(* bounds never enter a basis: they offer no step to a simplex method.     *)

Quotient(s, k) == IF s.den < 0 THEN (-s.num[k]) \div (-s.den) ELSE s.num[k] \div s.den

BasisMatrix(lp, basis) ==
  LET order == SetToSeq(basis)
  IN [rc \in lp.rows \X (0 .. Len(order) - 1) |-> lp.entry[order[rc[2] + 1]][rc[1]]]

\* the status a column outside of the basis may have at reduced cost c
NonBasic(lp, k, c) ==
  IF lp.lo[k] = -ClInfinity /\ lp.up[k] = ClInfinity THEN {s \in {"zero"} : c = 0}
  ELSE {s \in {"lower"} : lp.lo[k] # -ClInfinity /\ (c >= 0 \/ lp.lo[k] = lp.up[k])}
       \cup {s \in {"upper"} : lp.up[k] # ClInfinity /\ (c <= 0 \/ lp.lo[k] = lp.up[k])}

\* the solutions of a basis with the duals y: one for every choice of the
\* bounds its other columns are at
AnswersWith(lp, basis, order, a, det, y) ==
  LET cost == [k \in lp.columns |-> lp.obj[k] - SumFor(lp.rows, LAMBDA i : y[i] * lp.entry[k][i])]
      stats == FoldSet(LAMBDA k, done : {s @@ (k :> t) : s \in done, t \in NonBasic(lp, k, cost[k])},
                       {[k \in basis |-> "basic"]}, lp.columns \ basis)
      at(s, k) == CASE s[k] = "lower" -> lp.lo[k] [] s[k] = "upper" -> lp.up[k] [] OTHER -> 0
      basic(s) == CramerSolve(a, Len(order), det, [i \in lp.rows |->
                    -SumFor(lp.columns \ basis, LAMBDA k : lp.entry[k][i] * at(s, k))])
      place(k) == CHOOSE p \in DOMAIN order : order[p] = k
      answer(s, x) == [stats |-> s, cost |-> cost, y |-> y,
                       primal |-> [k \in lp.columns |-> IF k \in basis THEN Quotient(x, place(k) - 1) ELSE at(s, k)]]
  IN {answer(s, basic(s)) : s \in stats}

DualsOf(lp, order, a, det) ==
  CramerSolve([rc \in DOMAIN a |-> a[<<rc[2], rc[1]>>]], Len(order), det,
              [k \in lp.rows |-> lp.obj[order[k + 1]]])

OptimalWith(lp, basis, order, a, det) ==
  LET y(dual) == [i \in lp.rows |-> Quotient(dual, i)]
  IN {answer \in AnswersWith(lp, basis, order, a, det, y(DualsOf(lp, order, a, det))) :
        \A k \in basis : lp.lo[k] <= answer.primal[k] /\ answer.primal[k] <= lp.up[k]}

OptimalFor(lp, basis, det) ==
  IF det = 0 THEN {} ELSE OptimalWith(lp, basis, SetToSeq(basis), BasisMatrix(lp, basis), det)

LpAnswers(lp) ==
  UNION {OptimalFor(lp, B, Determinant(BasisMatrix(lp, B), Cardinality(B))) : B \in kSubset(Cardinality(lp.rows), {k \in lp.columns : lp.lo[k] # lp.up[k] \/ k[1] # "d"})}

LpObjective(lp, answer) == SumFor(lp.columns, LAMBDA k : lp.obj[k] * answer.primal[k])
-----------------------------------------------------------------------------
(* Statuses and working sets                                               *)

\* create_and_set_slack_basis: a row that a step of length zero violates is
\* kept at its bound by a slack
SlackBasis(it, bounds) ==
  LET violated(i) == IF bounds.lb[i] > 0 THEN {<<"lower", i>>}
                     ELSE IF bounds.ub[i] < 0 THEN {<<"upper", i>>} ELSE {<<"row", i>>}
  IN UNION {violated(i) : i \in ClRows(it)}

ZeroSlackStats(stats, i) == stats[<<"lower", i>>] = "lower" /\ stats[<<"upper", i>>] = "lower"

\* cauchy_cons_state
ConsState(it, stats, i) ==
  CASE stats[<<"row", i>>] \in {"basic", "zero"} \/ ~ZeroSlackStats(stats, i) -> "inactive"
    [] it.consLb[i] = it.consUb[i] -> "both"
    [] OTHER -> stats[<<"row", i>>]

\* Mutant: the trust region counts as a bound
VarStateAtRadius(it, radius, stats, j) ==
  CASE it.varLb[j] = it.varUb[j] -> "both"
    [] stats[<<"d", j>>] \in {"lower", "upper"} -> stats[<<"d", j>>]
    [] OTHER -> "inactive"

\* cauchy_working_set_add_vars: a variable at the trust region is not active
VarState(it, radius, stats, j) ==
  CASE it.varLb[j] = it.varUb[j] -> "both"
    [] stats[<<"d", j>>] = "lower" /\ it.x[j] - it.varLb[j] < radius -> "lower"
    [] stats[<<"d", j>>] = "upper" /\ it.varUb[j] - it.x[j] < radius -> "upper"
    [] OTHER -> "inactive"

\* the statuses of the reduced program leave out the slacks, whose values
\* are those fetched last
ReducedConsState(arrays, i) ==
  IF arrays.stats[<<"row", i>>] \in {"basic", "zero"} \/ arrays.primal[<<"lower", i>>] # 0
     \/ arrays.primal[<<"upper", i>>] # 0
  THEN "inactive" ELSE arrays.stats[<<"row", i>>]

WorkingSetFor(it, radius, arrays, reduced) ==
  [vars |-> [j \in ClVarIndices |-> VarState(it, radius, arrays.stats, j)],
   cons |-> [i \in ClRows(it) |-> IF reduced THEN ReducedConsState(arrays, i) ELSE ConsState(it, arrays.stats, i)]]

\* members in the order of their rows
Members(ws) ==
  LET active(S, name) == [k \in 1 .. Cardinality(S) |-> <<name, SortedIndices(S)[k]>>]
  IN active({j \in DOMAIN ws.vars : ws.vars[j] # "inactive"}, "var")
     \o active({i \in DOMAIN ws.cons : ws.cons[i] # "inactive"}, "con")
StateOf(ws, member) == IF member[1] = "var" THEN ws.vars[member[2]] ELSE ws.cons[member[2]]
MemberRow(it, member) ==
  [j \in ClVarIndices |-> IF member[1] = "con" THEN MatValueAt(it.jac, member[2], j)
                          ELSE IF member[2] = j THEN 1 ELSE 0]
MemberRows(it, ws) == [k \in 0 .. Len(Members(ws)) - 1 |-> MemberRow(it, Members(ws)[k + 1])]
Gram(rows) == [rc \in (DOMAIN rows) \X (DOMAIN rows) |-> Scalar(rows[rc[1]], rows[rc[2]])]

EmptySet(it) == [vars |-> [j \in ClVarIndices |-> "inactive"], cons |-> [i \in ClRows(it) |-> "inactive"]]

\* cauchy_fetch_components: only components that are dirty are read
Fetched(arrays, dirty, components, answer) ==
  [stats |-> IF "stats" \in dirty \cap components THEN answer.stats @@ arrays.stats ELSE arrays.stats,
   primal |-> IF "primal" \in dirty \cap components THEN answer.primal @@ arrays.primal ELSE arrays.primal,
   y |-> IF "dual" \in dirty \cap components THEN answer.y ELSE arrays.y]
AllComponents == {"stats", "primal", "dual"}

\* needs_reduced_resolve: a row is tight with a multiplier, but not active
NeedsResolve(it, arrays) ==
  LET inactive == {i \in ClRows(it) : ConsState(it, arrays.stats, i) = "inactive"}
  IN /\ \A i \in inactive : arrays.primal[<<"lower", i>>] = 0 /\ arrays.primal[<<"upper", i>>] = 0
     /\ \E i \in inactive : arrays.y[i] # 0

\* switch_to_reduced_problem shifts the rows by their slacks, and leaves
\* them shifted
Shifted(bounds, primal) ==
  LET by(i) == primal[<<"lower", i>>] - primal[<<"upper", i>>]
  IN [lb |-> [i \in DOMAIN bounds.lb |-> IF bounds.lb[i] = -ClInfinity THEN -ClInfinity ELSE bounds.lb[i] + by(i)],
      ub |-> [i \in DOMAIN bounds.ub |-> IF bounds.ub[i] = ClInfinity THEN ClInfinity ELSE bounds.ub[i] + by(i)]]
-----------------------------------------------------------------------------
(* Problems without constraints                                            *)

\* box_constrained_cauchy_solve and unconstrained_cauchy_solve: one pass over
\* the variables.  Unconstrained problems have room for the radius anywhere.
BoxStep(it, radius, j) ==
  IF -it.grad[j] >= 0
  THEN IF clKind = "unconstrained" \/ radius < it.varUb[j] - it.x[j] THEN radius ELSE it.varUb[j] - it.x[j]
  ELSE IF clKind = "unconstrained" \/ it.varLb[j] - it.x[j] < -radius THEN -radius ELSE it.varLb[j] - it.x[j]
BoxState(it, radius, j) ==
  LET fixed == it.varLb[j] = it.varUb[j] /\ ~Unbounded(it.varLb[j])
      side == IF -it.grad[j] >= 0 THEN "upper" ELSE "lower"
      inactive == IF -it.grad[j] >= 0 THEN radius < it.varUb[j] - it.x[j] ELSE it.varLb[j] - it.x[j] < -radius
  IN CASE clKind = "unconstrained" \/ inactive -> "inactive" [] fixed -> "both" [] OTHER -> side
\* the multiplier of every active variable is pushed, a zero as well
BoxDuals(it, states) ==
  LET active == SortedIndices({j \in ClVarIndices : states[j] # "inactive"})
  IN [k \in DOMAIN active |-> Entry(active[k], -it.grad[active[k]])]
-----------------------------------------------------------------------------
(* Multipliers: sparse vectors over variables and rows with a common       *)
(* denominator                                                             *)

NoDuals == [vars |-> <<>>, cons |-> <<>>, den |-> 1]

\* trim_duals_to_working_set
Trimmed(entries, states) ==
  SelectSeq(entries, LAMBDA e : /\ states[e.i] # "inactive"
                                /\ states[e.i] = "upper" => e.v >= 0
                                /\ states[e.i] = "lower" => e.v <= 0)

\* standard_cauchy_estimate_duals reads the default interface, also if the
\* reduced one gave the working set; its signs are reversed
LpDuals(it, ws) ==
  IF clKind # "standard"
  THEN [NoDuals EXCEPT !.vars = clAnswer.duals]
  ELSE [vars |-> Trimmed(NonZeros([j \in ClVarIndices |-> -clAnswer.cost[<<"d", j>>]], ClNumVars), ws.vars),
        cons |-> Trimmed(NonZeros([i \in ClRows(it) |-> -clAnswer.y[i]], it.jac.rows), ws.cons), den |-> 1]

\* sleqp_aug_jac_solve_lsq for the negative gradient, with the rows of the
\* members
LsqWith(rows, gram, grad) ==
  CramerSolve(gram, Cardinality(DOMAIN rows), Determinant(gram, Cardinality(DOMAIN rows)),
              [k \in DOMAIN rows |-> -Scalar(rows[k], grad)])
LsqSolution(rows, grad) == LsqWith(rows, Gram(rows), grad)

\* estimate_duals_internal: the solution is split; multipliers of the wrong
\* sign are clipped
LsqEntries(members, solution, name) ==
  LET of == SelectSeq([k \in DOMAIN members |-> [m |-> members[k], v |-> solution.num[k - 1]]],
                      LAMBDA e : e.v # 0 /\ e.m[1] = name)
  IN [k \in DOMAIN of |-> Entry(of[k].m[2], of[k].v)]
LsqValues(members, solution) ==
  [vars |-> LsqEntries(members, solution, "var"), cons |-> LsqEntries(members, solution, "con"),
   den |-> solution.den]
KeptEntries(states, e) == (states[e.i] = "upper" => e.v > 0) /\ (states[e.i] = "lower" => e.v < 0)
Clipped(entries, states) == SelectSeq(entries, LAMBDA e : KeptEntries(states, e))
LsqDuals(values, ws) ==
  [vars |-> Clipped(values.vars, ws.vars), cons |-> Clipped(values.cons, ws.cons), den |-> values.den]

\* merge: least-squares values first
Merge(lsq, lp, scale) ==
  LET missing == SelectSeq(lp, LAMBDA e : \A k \in DOMAIN lsq : lsq[k].i # e.i)
      scaled == [k \in DOMAIN missing |-> Entry(missing[k].i, scale * missing[k].v)]
  IN SetToSortSeq({lsq[k] : k \in DOMAIN lsq} \cup {scaled[k] : k \in DOMAIN scaled},
                  LAMBDA e, f : e.i < f.i)

\* estimate_duals of the mixed estimation: vectors with clipped entries are
\* completed by the linear program's
CopyOrMerge(values, lsq, lp, scale) == IF Len(values) > Len(lsq) THEN Merge(lsq, lp, scale) ELSE lsq
MixedDuals(values, lsq, lp) ==
  [vars |-> CopyOrMerge(values.vars, lsq.vars, lp.vars, lsq.den),
   cons |-> CopyOrMerge(values.cons, lsq.cons, lp.cons, lsq.den), den |-> lsq.den]

DualsBy(type, values, lsq, lp) ==
  CASE type = "lp" -> lp [] type = "lsq" -> lsq [] type = "mixed" -> MixedDuals(values, lsq, lp)
DualAt(entries, i) == SumFor({k \in DOMAIN entries : entries[k].i = i}, LAMBDA k : entries[k].v)
-----------------------------------------------------------------------------
(* Residuals of an iterate                                                 *)

LargestOf(S) == Max({0} \cup S)
AbsOf(v) == IF v < 0 THEN -v ELSE v

\* sleqp_max_violation
MaxViolation(it) ==
  LargestOf({it.consVal[i] - it.consUb[i] : i \in ClRows(it)} \cup {it.consLb[i] - it.consVal[i] : i \in ClRows(it)})
\* slack_residuum
SlackResiduum(entries, values, lb, ub) ==
  LargestOf({AbsOf(IF entries[k].v >= 0 THEN Greater(ub[entries[k].i] - values[entries[k].i], 0) * entries[k].v
                 ELSE Greater(values[entries[k].i] - lb[entries[k].i], 0) * entries[k].v) : k \in DOMAIN entries})
SlacknessResiduum(it, duals) ==
  Greater(SlackResiduum(duals.cons, it.consVal, it.consLb, it.consUb),
          SlackResiduum(duals.vars, it.x, it.varLb, it.varUb))
\* write_stationarity_residuals_to_cache
StationarityAt(it, duals, j) ==
  duals.den * it.grad[j] + DualAt(duals.vars, j)
  + SumFor(ClRows(it), LAMBDA i : MatValueAt(it.jac, i, j) * DualAt(duals.cons, i))
StationarityResiduum(it, duals) == LargestOf({AbsOf(StationarityAt(it, duals, j)) : j \in ClVarIndices})

\* sleqp_iterate_is_optimal, with tolerances below every nonzero residual
IsOptimal(it, duals) ==
  MaxViolation(it) = 0 /\ StationarityResiduum(it, duals) = 0 /\ SlacknessResiduum(it, duals) = 0
-----------------------------------------------------------------------------
(* Polishing                                                               *)

\* polish_zero_dual_range
PolishZeroDual(states, entries) ==
  [i \in DOMAIN states |-> IF \E k \in DOMAIN entries : entries[k].i = i THEN states[i] ELSE "inactive"]

\* polish_inactive_range
PolishInactive(states, entries, values, lb, ub) ==
  [i \in DOMAIN states |->
     IF (\E k \in DOMAIN entries : entries[k].i = i) \/ values[i] \in {lb[i], ub[i]}
     THEN states[i] ELSE "inactive"]

Polished(type, it, ws, duals) ==
  CASE type = "none" -> ws
    [] type = "zero_dual" -> [vars |-> PolishZeroDual(ws.vars, duals.vars),
                              cons |-> PolishZeroDual(ws.cons, duals.cons)]
    [] type = "inactive" -> [vars |-> PolishInactive(ws.vars, duals.vars, it.x, it.varLb, it.varUb),
                             cons |-> PolishInactive(ws.cons, duals.cons, it.consVal, it.consLb, it.consUb)]
-----------------------------------------------------------------------------
NoAnswerYet == [stats |-> <<>>, primal |-> <<>>, y |-> <<>>]

ClInit ==
  /\ clKind \in {"standard", "box", "unconstrained"}
  /\ clResolves \in {r \in BOOLEAN : r => clKind = "standard"}
  /\ clIterate \in {it \in ClIterates :
       /\ (clKind = "standard") = (it.jac.rows > 0)
       /\ clKind = "unconstrained" => \A j \in ClVarIndices : Unbounded(it.varLb[j]) /\ Unbounded(it.varUb[j])}
  /\ clRadius = 0 /\ clPenalty = 0
  /\ clConsBounds = RowBounds(clIterate) /\ clCoeffs = <<>>
  /\ clAnswer = NoAnswerYet /\ clReduced = NoAnswerYet /\ clArrays = NoAnswerYet
  /\ clUsesReduced = FALSE /\ clDirty = {}
  /\ clStage = "new" /\ clStep = <<>> /\ clSet = EmptySet(clIterate) /\ clDuals = NoDuals
  /\ clOps = 0

\* sleqp_cauchy_set_iterate.  The iterate's Jacobian is extended and shrunk;
\* linear constraints keep their coefficients, which does not matter here.
ClSetIterate ==
  /\ clStage = "new"
  /\ \E radius \in ClRadii : clRadius' = radius
  /\ LET extended == AppendIdentities(clIterate.jac)
     IN IF clKind = "standard"
        THEN /\ clCoeffs' = MatDense(extended)
             /\ clIterate' = [clIterate EXCEPT !.jac = RemoveIdentities(extended)]
        ELSE UNCHANGED <<clCoeffs, clIterate>>
  /\ clConsBounds' = RowBounds(clIterate)
  /\ clStage' = "set"
  /\ UNCHANGED <<clKind, clResolves, clPenalty, clAnswer, clReduced, clUsesReduced, clDirty, clArrays,
                 clStep, clSet, clDuals, clOps>>

\* The parametric search changes the radius only: the rows keep the bounds
\* they have.
ClSetRadius ==
  /\ clStage = "read"
  /\ clRadius' \in ClRadii \ {clRadius}
  /\ clStage' = "set"
  /\ UNCHANGED <<clKind, clResolves, clIterate, clPenalty, clConsBounds, clCoeffs, clAnswer, clReduced,
                 clUsesReduced, clDirty, clArrays, clStep, clSet, clDuals, clOps>>

FullProgram(type, penalty) ==
  Program(clIterate, clRadius, clConsBounds, clCoeffs, TRUE, Objective(clIterate, type, penalty))

ClSolving(type) ==
  /\ clOps < ClMaxOps /\ clOps' = clOps + 1
  /\ clStage \in {"set", "tried", "solved"}
  /\ clStage' = IF type = "feas" THEN "tried" ELSE "solved"
  /\ UNCHANGED <<clKind, clResolves, clIterate, clRadius, clCoeffs, clStep, clSet, clDuals>>

\* standard_cauchy_solve, without a reduced program: read what the check for
\* it needed.
ClSolve(type) ==
  /\ clKind = "standard"
  /\ ClSolving(type)
  /\ \E penalty \in ClPenalties :
       /\ penalty >= clPenalty
       /\ clPenalty' = penalty
       /\ \E answer \in LpAnswers(FullProgram(type, penalty)) :
            LET checked == clResolves /\ type = "default"
                arrays == Fetched(clArrays, AllComponents, AllComponents, answer)
            IN /\ checked => ~NeedsResolve(clIterate, arrays)
               /\ clAnswer' = answer
               /\ clArrays' = IF checked THEN arrays ELSE clArrays
               /\ clDirty' = IF checked THEN {} ELSE AllComponents
  /\ clUsesReduced' = FALSE
  /\ UNCHANGED <<clConsBounds, clReduced>>

\* With resolves, the rows are shifted and a program without slacks is
\* solved.
ClSolveTwice ==
  /\ clKind = "standard" /\ clResolves
  /\ ClSolving("default")
  /\ \E penalty \in ClPenalties :
       /\ penalty >= clPenalty
       /\ clPenalty' = penalty
       /\ \E answer \in LpAnswers(FullProgram("default", penalty)) :
            LET arrays == Fetched(clArrays, AllComponents, AllComponents, answer)
                bounds == Shifted(clConsBounds, arrays.primal)
                reduced == Program(clIterate, clRadius, bounds, MatDense(clIterate.jac), FALSE,
                                   Objective(clIterate, "default", penalty))
            IN /\ NeedsResolve(clIterate, arrays)
               /\ clAnswer' = answer /\ clArrays' = arrays
               /\ clConsBounds' = bounds
               /\ clReduced' \in LpAnswers(reduced)
  /\ clUsesReduced' = TRUE
  /\ clDirty' = AllComponents

\* box and unconstrained problems: the objective type does not matter
ClSolveBox ==
  /\ clKind # "standard"
  /\ ClSolving("default")
  /\ LET states == [j \in ClVarIndices |-> BoxState(clIterate, clRadius, j)]
     IN clAnswer' = [step |-> [j \in ClVarIndices |-> BoxStep(clIterate, clRadius, j)],
                     states |-> states, duals |-> BoxDuals(clIterate, states)]
  /\ UNCHANGED <<clPenalty, clConsBounds, clReduced, clUsesReduced, clDirty, clArrays>>

\* sleqp_cauchy_violation reads the default interface's solution over
\* primal_values
ClViolation ==
  /\ clKind = "standard" /\ clStage \in {"tried", "solved"}
  /\ clArrays' = [clArrays EXCEPT !.primal = clAnswer.primal @@ clArrays.primal]
  /\ clArrays' # clArrays
  /\ UNCHANGED <<clKind, clResolves, clIterate, clRadius, clPenalty, clConsBounds, clCoeffs, clAnswer, clReduced,
                 clUsesReduced, clDirty, clStage, clStep, clSet, clDuals, clOps>>

\* compute_cauchy_direction reads the step, and then the working set
ClRead ==
  /\ clStage = "solved" /\ clStage' = "read"
  /\ LET answer == IF clUsesReduced THEN clReduced ELSE clAnswer
         forStep == Fetched(clArrays, clDirty, {"primal"}, answer)
         forSet == Fetched(forStep, clDirty, {"stats"}, answer)
     IN IF clKind = "standard"
        THEN /\ clStep' = [j \in ClVarIndices |-> forStep.primal[<<"d", j>>]]
             /\ clArrays' = forSet
             /\ clDirty' = clDirty \ {"stats", "primal"}
             /\ clSet' = WorkingSetFor(clIterate, clRadius, forSet, clUsesReduced)
        ELSE /\ clStep' = clAnswer.step
             /\ clSet' = [clSet EXCEPT !.vars = clAnswer.states]
             /\ UNCHANGED <<clArrays, clDirty>>
  /\ UNCHANGED <<clKind, clResolves, clIterate, clRadius, clPenalty, clConsBounds, clCoeffs, clAnswer, clReduced,
                 clUsesReduced, clDuals, clOps>>

\* sleqp_estimate_duals
ClEstimate ==
  /\ clStage = "read" /\ clStage' = "estimated"
  /\ LET values == LsqValues(Members(clSet), LsqSolution(MemberRows(clIterate, clSet), clIterate.grad))
     IN \E type \in {"lp", "lsq", "mixed"} :
          clDuals' = DualsBy(type, values, LsqDuals(values, clSet), LpDuals(clIterate, clSet))
  /\ UNCHANGED <<clKind, clResolves, clIterate, clRadius, clPenalty, clConsBounds, clCoeffs, clAnswer, clReduced,
                 clUsesReduced, clDirty, clArrays, clStep, clSet, clOps>>

\* sleqp_polishing_polish
ClPolish ==
  /\ clStage = "estimated" /\ clStage' = "polished"
  /\ \E type \in {"none", "zero_dual", "inactive"} : clSet' = Polished(type, clIterate, clSet, clDuals)
  /\ UNCHANGED <<clKind, clResolves, clIterate, clRadius, clPenalty, clConsBounds, clCoeffs, clAnswer, clReduced,
                 clUsesReduced, clDirty, clArrays, clStep, clDuals, clOps>>

ClNext == ClSetIterate \/ ClSetRadius \/ ClSolve("default") \/ ClSolve("feas") \/ ClSolveTwice \/ ClSolveBox
          \/ ClViolation \/ ClRead \/ ClEstimate \/ ClPolish

ClSpec == ClInit /\ [][ClNext]_clVars
-----------------------------------------------------------------------------
(* Properties                                                              *)

RowAt(it, i, d) == it.consVal[i] + SumFor(ClVarIndices, LAMBDA j : MatValueAt(it.jac, i, j) * d[j])
\* sleqp_merit_linear, for the program's objective
LinearMeritOf(it, gradient, penalty, d) ==
  SumFor(ClVarIndices, LAMBDA j : gradient[j] * d[j])
  + penalty * SumFor(ClRows(it), LAMBDA i : Greater(RowAt(it, i, d) - it.consUb[i], 0)
                                            + Greater(it.consLb[i] - RowAt(it, i, d), 0))
StepGrid(it, radius) ==
  {d \in [ClVarIndices -> {-radius, -2, 0, 2, radius}] :
     \A j \in ClVarIndices : StepLower(it, radius, j) <= d[j] /\ d[j] <= StepUpper(it, radius, j)}

Gradient(it) == [j \in ClVarIndices |-> it.grad[j]]

\* the step is within the radius and the bounds and no step on the grid has
\* a smaller linear merit
StepIsBest(gradient) ==
  /\ \A j \in ClVarIndices : StepLower(clIterate, clRadius, j) <= clStep[j] /\ clStep[j] <= StepUpper(clIterate, clRadius, j)
  /\ \A d \in StepGrid(clIterate, clRadius) :
       LinearMeritOf(clIterate, gradient, clPenalty, clStep) <= LinearMeritOf(clIterate, gradient, clPenalty, d)

BoundOf(member) ==
  LET it == clIterate
      state == StateOf(clSet, member)
  IN IF member[1] = "var" THEN IF state = "lower" THEN it.varLb[member[2]] ELSE it.varUb[member[2]]
     ELSE IF state = "lower" THEN it.consLb[member[2]] ELSE it.consUb[member[2]]
ValueAfter(member) ==
  IF member[1] = "var" THEN clIterate.x[member[2]] + clStep[member[2]] ELSE RowAt(clIterate, member[2], clStep)

\* standard_cauchy_obj_val reads the default interface also after a resolve;
\* the others add up the terms of the step
ClObjVal ==
  clIterate.obj + IF clKind = "standard" THEN LpObjective(FullProgram("default", clPenalty), clAnswer)
                  ELSE SumFor(ClVarIndices, LAMBDA j : clIterate.grad[j] * BoxStep(clIterate, clRadius, j))
\* sleqp_cauchy_compute_criticality_bound, before the division by the radius
ClReduction ==
  LET merit == clIterate.obj + clPenalty * SumFor(ClRows(clIterate), LAMBDA i :
                 Greater(clIterate.consVal[i] - clIterate.consUb[i], 0) + Greater(clIterate.consLb[i] - clIterate.consVal[i], 0))
  IN merit - ClObjVal

\* the reduction is that of the linear merit along the step: not negative
\* (the debug assertion in compute_cauchy_direction)
ReductionFits ==
  LET zero == [j \in ClVarIndices |-> 0]
      g == Gradient(clIterate)
  IN /\ ClReduction >= 0
     /\ ClReduction = LinearMeritOf(clIterate, g, clPenalty, zero) - LinearMeritOf(clIterate, g, clPenalty, clStep)

\* the step ends on the bounds of all members (the debug assertion
\* in_working_set), and their rows are linearly independent, which every
\* augmented system needs
SetFitsStep ==
  /\ \A k \in DOMAIN Members(clSet) : ValueAfter(Members(clSet)[k]) = BoundOf(Members(clSet)[k])
  /\ Determinant(Gram(MemberRows(clIterate, clSet)), Len(Members(clSet))) # 0

\* signs of multipliers fit the states, and indices ascend
DualsFit(entries, states) ==
  /\ \A k \in DOMAIN entries :
       /\ states[entries[k].i] # "inactive"
       /\ states[entries[k].i] = "upper" => entries[k].v >= 0
       /\ states[entries[k].i] = "lower" => entries[k].v <= 0
  /\ \A k \in DOMAIN entries : k > 1 => entries[k - 1].i < entries[k].i

\* no step improves the linear merit of a feasible iterate, and no
\* multiplier is as large as the penalty
Stationary ==
  LET zero == [j \in ClVarIndices |-> 0]
      g == Gradient(clIterate)
  IN /\ MaxViolation(clIterate) = 0
     /\ LinearMeritOf(clIterate, g, clPenalty, clStep) = LinearMeritOf(clIterate, g, clPenalty, zero)
     /\ clKind = "standard" => \A i \in ClRows(clIterate) : AbsOf(clAnswer.y[i]) < clPenalty

\* The coefficients that were passed on are the Jacobian and two identities,
\* the first basis is one, and the Jacobian is what it was.
CoefficientsFit ==
  LET m == clIterate.jac.rows IN
  /\ MatValid(clIterate.jac)
  /\ clCoeffs # <<>> =>
       \A i \in ClRows(clIterate) :
         /\ \A j \in ClVarIndices : clCoeffs[<<i, j>>] = MatValueAt(clIterate.jac, i, j)
         /\ \A k \in 0 .. 2 * m - 1 :
              clCoeffs[<<i, ClNumVars + k>>] = IF k = i THEN 1 ELSE IF k = m + i THEN -1 ELSE 0
         /\ LET lp == Program(clIterate, clRadius, clConsBounds, clCoeffs, TRUE, Objective(clIterate, "feas", 1))
            IN Determinant(BasisMatrix(lp, SlackBasis(clIterate, clConsBounds)), m) # 0

\* Whatever was solved before, with whatever answers: the step is the best
\* one for the linear merit, whose reduction is the one reported, the
\* working set fits it, multipliers fit the
\* working set before and after polishing, a stationary point is recognised
\* as optimal, and at an optimal one no step is better.
CauchySound ==
  /\ CoefficientsFit
  /\ clStage = "read" => StepIsBest(Gradient(clIterate)) /\ ReductionFits /\ SetFitsStep
  /\ clStage \in {"estimated", "polished"} =>
       /\ DualsFit(clDuals.vars, clSet.vars) /\ DualsFit(clDuals.cons, clSet.cons)
       /\ Stationary => IsOptimal(clIterate, clDuals)
       /\ IsOptimal(clIterate, clDuals) =>
            LET zero == [j \in ClVarIndices |-> 0]
                enough == LargestOf({AbsOf(clDuals.cons[k].v) : k \in DOMAIN clDuals.cons})
            IN \A d \in StepGrid(clIterate, clRadius) :
                 LinearMeritOf(clIterate, [j \in ClVarIndices |-> clDuals.den * clIterate.grad[j]], enough, zero)
                 <= LinearMeritOf(clIterate, [j \in ClVarIndices |-> clDuals.den * clIterate.grad[j]], enough, d)
=============================================================================
