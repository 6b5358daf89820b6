------------------------------ MODULE NewtonStep ------------------------------
(***************************************************************************)
(* Steps for a given working set: the initial step onto the linearized     *)
(* bounds of its members (working_step.c), the Newton step, which adds the *)
(* solution of a trust region problem in their null space (newton.c), and  *)
(* the second-order correction of a trial step (soc.c).                    *)
(*                                                                         *)
(* Vectors are records of numerators and a common denominator.  Square     *)
(* roots are avoided by comparing squares; the factor that shortens an     *)
(* initial step is rounded down to a multiple of 1 / NsGrain.              *)
(***************************************************************************)
EXTENDS Cauchy

CONSTANTS
  NsRadii,      \* trust radii of Newton steps
  NsGrain,
  NsHessians,   \* of the Lagrangian: functions on pairs of indices
  NsErrors,     \* differences of constraint values from their linearization
  NsPenalty,
  NsReach       \* largest component of a step in the null space

ASSUME NsAssumption == NsGrain \in Nat \ {0} /\ NsReach \in Nat

VARIABLES
  nsIterate, nsSet,  \* an iterate and a working set with independent rows
  nsStage,           \* "new", "initial", "newton", "corrected"
  nsRadius,
  nsInitial,         \* working step: direction, in_working_set, reduced radius (squared), multipliers
  nsHessian,
  nsNewton,          \* the trust region step, and the sum of both
  nsTrial,           \* a trial step and the constraint values there
  nsCorrection       \* the correction and the length taken along it

nsVars == <<nsIterate, nsSet, nsStage, nsRadius, nsInitial, nsHessian, nsNewton, nsTrial, nsCorrection>>

NsRows == ClRows(nsIterate)
VarSum(f(_)) == SumFor(ClVarIndices, f)
RowTimes(i, d) == VarSum(LAMBDA j : MatValueAt(nsIterate.jac, i, j) * d[j])
Square(v) == v * v
NormSq2(d) == VarSum(LAMBDA j : Square(d[j]))
Multiple(f, d) == [j \in ClVarIndices |-> f * d[j]]

\* every working set the iterate's bounds allow
StatesFor(lb, ub, fixed) ==
  IF lb = ub THEN fixed
  ELSE {"inactive"} \cup {s \in {"lower"} : ~Unbounded(lb)} \cup {s \in {"upper"} : ~Unbounded(ub)}
IndependentSets(it) ==
  {ws \in {[vars |-> v, cons |-> c] :
             v \in {f \in [ClVarIndices -> {"inactive", "lower", "upper", "both"}] :
                      \A j \in ClVarIndices : f[j] \in StatesFor(it.varLb[j], it.varUb[j], {"both"})},
             c \in {f \in [ClRows(it) -> {"inactive", "lower", "upper", "both"}] :
                      \A i \in ClRows(it) :
                        f[i] \in StatesFor(it.consLb[i], it.consUb[i], {"inactive", "lower", "upper", "both"})}} :
     Determinant(Gram(MemberRows(it, ws)), Len(Members(ws))) # 0}
-----------------------------------------------------------------------------
(* The initial step                                                        *)

\* how far a member is from its bound, at the given values
Gap(member, x, values) ==
  LET it == nsIterate
      i == member[2]
      upper == StateOf(nsSet, member) = "upper"
  IN IF member[1] = "var" THEN (IF upper THEN it.varUb[i] ELSE it.varLb[i]) - x[i]
     ELSE (IF upper THEN it.consUb[i] ELSE it.consLb[i]) - values[i]

\* compute_initial_rhs
InitialRhs == [k \in 0 .. Len(Members(nsSet)) - 1 |-> Gap(Members(nsSet)[k + 1], nsIterate.x, nsIterate.consVal)]

\* sleqp_aug_jac_solve_min_norm
RowsCombined(rows, solution) ==
  [num |-> [j \in ClVarIndices |-> SumFor(DOMAIN rows, LAMBDA k : rows[k][j] * solution.num[k])],
   den |-> solution.den]
MinNormWith(rows, gram, rhs) ==
  RowsCombined(rows, CramerSolve(gram, Cardinality(DOMAIN rows), Determinant(gram, Cardinality(DOMAIN rows)), rhs))
MinNormFor(rows, rhs) == MinNormWith(rows, Gram(rows), rhs)
MinNorm(rhs) == MinNormFor(MemberRows(nsIterate, nsSet), rhs)

\* the part of a direction that fits 4/5 of the trust region (norm_ratio)
Fits(d, part, radius) == 25 * Square(part) * NormSq2(d.num) <= 16 * Square(radius * d.den * NsGrain)
Shrunk(d, radius) ==
  LET part == Max({p \in 0 .. NsGrain : Fits(d, p, radius)})
  IN [num |-> Multiple(part, d.num), den |-> NsGrain * d.den]

\* sleqp_violated_cons_multipliers, for rows outside of the working set
Multiplier(i, d) ==
  LET value == d.den * nsIterate.consVal[i] + RowTimes(i, d.num)
  IN CASE nsSet.cons[i] # "inactive" -> 0
       [] value > d.den * nsIterate.consUb[i] -> 1
       [] value < d.den * nsIterate.consLb[i] -> -1
       [] OTHER -> 0

\* Mutant: the initial step does not use up any of the radius
InitialStepFullRadius(d, radius) ==
  LET fits == Fits(d, NsGrain, radius)
      step == IF fits THEN d ELSE Shrunk(d, radius)
  IN [step |-> step, inSet |-> fits, radiusSq |-> [num |-> Square(radius), den |-> 1],
      multipliers |-> [i \in NsRows |-> Multiplier(i, step)]]

\* compute_initial_step
InitialStep(d, radius) ==
  LET fits == Fits(d, NsGrain, radius)
      step == IF fits THEN d ELSE Shrunk(d, radius)
  IN [step |-> step, inSet |-> fits,
      radiusSq |-> IF fits THEN [num |-> Square(radius * d.den) - NormSq2(d.num), den |-> Square(d.den)]
                   ELSE [num |-> 9 * Square(radius), den |-> 25],
      multipliers |-> [i \in NsRows |-> Multiplier(i, step)]]

-----------------------------------------------------------------------------
(* The Newton step                                                         *)

HessTimes(hess, d) == [j \in ClVarIndices |-> VarSum(LAMBDA k : hess[<<j, k>>] * d[k])]

\* compute_gradient, over the denominator of the initial step
ModelGradient(hess, initial) ==
  LET product == HessTimes(hess, initial.step.num)
      penalized(j) == nsIterate.grad[j]
        + NsPenalty * SumFor(NsRows, LAMBDA i : MatValueAt(nsIterate.jac, i, j) * initial.multipliers[i])
  IN [j \in ClVarIndices |-> product[j] + initial.step.den * penalized(j)]

\* the trust region problem's objective, over twice the denominator
ModelAt(hess, initial, t) ==
  2 * Scalar(ModelGradient(hess, initial), t) + initial.step.den * Scalar(HessTimes(hess, t), t)

NullSteps ==
  LET rows == MemberRows(nsIterate, nsSet)
  IN {t \in [ClVarIndices -> -NsReach .. NsReach] : \A k \in DOMAIN rows : Scalar(rows[k], t) = 0}

\* sleqp_tr_solver_solve: a best step of the grid in the null space
TrustRegionSteps(hess, initial) ==
  LET within == {t \in NullSteps : initial.radiusSq.den * NormSq2(t) <= initial.radiusSq.num}
      best == Min({ModelAt(hess, initial, t) : t \in within})
  IN {t \in within : ModelAt(hess, initial, t) = best}
-----------------------------------------------------------------------------
(* The second-order correction                                             *)

\* add_variable_entries, add_constraint_entries: values at the trial point
CorrectionRhs(trial) ==
  LET x == [j \in ClVarIndices |-> nsIterate.x[j] + trial.step[j]]
      members == Members(nsSet)
  IN [k \in 0 .. Len(members) - 1 |-> Gap(members[k + 1], x, trial.values)]
\* sleqp_soc_compute_correction, with the iterate's Jacobian
Correction(trial) == MinNorm(CorrectionRhs(trial))

\* sleqp_max_step_length: a bound that is reached already does not limit
\* the step
LengthsTo(bound, x, d) ==
  {[num |-> d.den * AbsOf(bound[j] - x[j]), den |-> AbsOf(d.num[j])] :
     j \in {k \in ClVarIndices : ~Unbounded(bound[k]) /\ (bound[k] - x[k]) * d.num[k] > 0}}
MaxLength(x, d) ==
  LET lengths == {[num |-> 1, den |-> 1]} \cup LengthsTo(nsIterate.varLb, x, d) \cup LengthsTo(nsIterate.varUb, x, d)
  IN CHOOSE l \in lengths : \A m \in lengths : l.num * m.den <= m.num * l.den
-----------------------------------------------------------------------------
NothingYet == [num |-> <<>>, den |-> 1]

NsInit ==
  /\ nsIterate \in ClIterates
  /\ nsSet \in IndependentSets(nsIterate)
  /\ nsStage = "new" /\ nsRadius = 0
  /\ nsInitial = <<>> /\ nsHessian = <<>> /\ nsNewton = <<>> /\ nsTrial = <<>> /\ nsCorrection = NothingYet

\* sleqp_working_step_set_iterate
NsSetIterate ==
  /\ nsStage = "new" /\ nsStage' = "initial"
  /\ nsRadius' \in NsRadii
  /\ nsInitial' = InitialStep(MinNorm(InitialRhs), nsRadius')
  /\ UNCHANGED <<nsIterate, nsSet, nsHessian, nsNewton, nsTrial, nsCorrection>>

\* newton_solver_compute_direction; without any radius left, the code returns
\* the initial step, which is the only step the trust region then has
NsComputeDirection ==
  /\ nsStage = "initial" /\ nsStage' = "newton"
  /\ nsHessian' \in NsHessians
  /\ LET initial == nsInitial.step
     IN \E t \in TrustRegionSteps(nsHessian', nsInitial) :
          nsNewton' = [tr |-> t, sum |-> [j \in ClVarIndices |-> initial.num[j] + initial.den * t[j]]]
  /\ UNCHANGED <<nsIterate, nsSet, nsRadius, nsInitial, nsTrial, nsCorrection>>

\* sleqp_soc_compute_step, after a trial step within the bounds
NsCorrect ==
  /\ nsStage = "new" /\ nsStage' = "corrected"
  /\ \E step \in StepGrid(nsIterate, 2), e \in NsErrors :
       nsTrial' = [step |-> step, values |-> [i \in NsRows |-> nsIterate.consVal[i] + RowTimes(i, step) + e[i]]]
  /\ LET d == Correction(nsTrial')
         x == [j \in ClVarIndices |-> nsIterate.x[j] + nsTrial'.step[j]]
     IN nsCorrection' = [d |-> d, length |-> MaxLength(x, d)]
  /\ UNCHANGED <<nsIterate, nsSet, nsRadius, nsInitial, nsHessian, nsNewton>>

NsNext == NsSetIterate \/ NsComputeDirection \/ NsCorrect
-----------------------------------------------------------------------------
(* Properties                                                              *)

\* all members are on their bounds after a step of numerators num
EndsOnBounds(num, den, x, values) ==
  LET members == Members(nsSet)
      rows == MemberRows(nsIterate, nsSet)
  IN \A k \in DOMAIN rows : den * Gap(members[k + 1], x, values) = Scalar(rows[k], num)

\* sleqp_merit_quadratic, over twice the squared denominator
MeritAt(num, den, hess) ==
  LET value(i) == den * nsIterate.consVal[i] + RowTimes(i, num)
      violation == SumFor(NsRows, LAMBDA i : Greater(value(i) - den * nsIterate.consUb[i], 0)
                                             + Greater(den * nsIterate.consLb[i] - value(i), 0))
  IN 2 * den * VarSum(LAMBDA j : nsIterate.grad[j] * num[j]) + 2 * den * NsPenalty * violation
     + Scalar(HessTimes(hess, num), num)

\* A Newton step stays in the trust region although it has two parts; its
\* parts are orthogonal; it ends on the bounds of all members unless the
\* initial step had to be shortened; and the model the second part minimizes
\* is the change of the quadratic merit function as long as no further row
\* becomes or ceases to be violated, and never more than it.
NewtonSound ==
  nsStage = "newton" =>
    LET den == nsInitial.step.den
        start == nsInitial.step.num
        change(t) == MeritAt([j \in ClVarIndices |-> start[j] + den * t[j]], den, nsHessian)
                     - MeritAt(start, den, nsHessian)
        model(t) == den * ModelAt(nsHessian, nsInitial, t)
        moved(t) == [num |-> [j \in ClVarIndices |-> start[j] + den * t[j]], den |-> den]
    IN /\ NormSq2(nsNewton.sum) <= Square(nsRadius * den)
       /\ Scalar(start, nsNewton.tr) = 0
       /\ nsInitial.inSet => EndsOnBounds(nsNewton.sum, den, nsIterate.x, nsIterate.consVal)
       /\ \A t \in NullSteps :
            /\ model(t) <= change(t)
            /\ (\A i \in NsRows : Multiplier(i, moved(t)) = nsInitial.multipliers[i]) => model(t) = change(t)
       /\ model(nsNewton.tr) <= 0

\* A correction of full length puts all members on their bounds, by the
\* linearization at the iterate; a shorter one ends on the bound of some
\* variable; and no variable that was strictly between its bounds leaves
\* them.
CorrectionSound ==
  nsStage = "corrected" =>
    LET d == nsCorrection.d
        l == nsCorrection.length
        x == [j \in ClVarIndices |-> nsIterate.x[j] + nsTrial.step[j]]
        den == d.den * l.den
        at(j) == den * x[j] + l.num * d.num[j]
        within(j) == den * nsIterate.varLb[j] <= at(j) /\ at(j) <= den * nsIterate.varUb[j]
    IN /\ l.num = l.den => EndsOnBounds(d.num, d.den, x, nsTrial.values)
       /\ l.num # l.den => \E j \in ClVarIndices : at(j) \in {den * nsIterate.varLb[j], den * nsIterate.varUb[j]}
       /\ \A j \in ClVarIndices : nsIterate.varLb[j] < x[j] /\ x[j] < nsIterate.varUb[j] => within(j)

\* steps for a working set do what the trial point computation needs of them
StepsSound == NewtonSound /\ CorrectionSound
=============================================================================
