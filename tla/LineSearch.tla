------------------------------ MODULE LineSearch ------------------------------
(***************************************************************************)
(* The line searches (linesearch.c): backtracking along the Cauchy         *)
(* direction, and the approximate and exact searches between the Cauchy    *)
(* and the Newton direction.  They update the products of a direction with *)
(* the gradient, the Jacobian and the Hessian instead of computing them    *)
(* again, and report the value of the quadratic merit function with it.    *)
(*                                                                         *)
(* There is one variable, at the point zero.  Lengths and linear values    *)
(* are multiples of 1 / LsUnit, quadratic ones of 1 / (2 LsUnit^2); the    *)
(* instances are such that all quotients and halvings are exact.           *)
(***************************************************************************)
EXTENDS Integers, Sequences, SequencesExt, FiniteSets, Loops

CONSTANTS
  LsInstances,  \* records [kind, obj, grad, hess, rows, penalty, radius, lb, ub, cauchy, newton]
  LsUnit

\* The first length of the Cauchy search: the step to the trust region, if the
\* direction leaves it
FirstLength(d) ==
  LET norm == IF d.cauchy < 0 THEN -d.cauchy ELSE d.cauchy
  IN IF d.radius < norm THEN (LsUnit * d.radius) \div norm ELSE LsUnit

\* Lengths that halve exactly until they are one: one is their only odd divisor.
Dyadic == {a \in 1 .. LsUnit : \A m, q \in 1 .. a : a = m * q => m = 1 \/ m % 2 = 0}

ASSUME LsAssumption ==
  /\ LsUnit \in Nat \ {0}
  /\ \A d \in LsInstances :
       /\ d.kind \in {"cauchy", "approximate", "exact"} /\ d.penalty \in Nat /\ d.radius \in Nat
       /\ {d.obj, d.grad, d.hess, d.lb, d.ub, d.cauchy, d.newton} \subseteq Int
       /\ d.rows \in Seq([jac : Int, val : Int, lb : Int, ub : Int])
       /\ d.kind = "cauchy" => FirstLength(d) \in Dyadic

VARIABLES
  lsStage,   \* "searching" or "done"
  lsData,    \* the instance
  lsAlpha,   \* the step length (delta, alpha)
  lsObjDot,  \* the products along the Cauchy direction, shortened with it
  lsJac,
  lsHessDot,
  lsBreaks,  \* the breakpoints left to visit
  lsOffset,  \* the piece of the merit function at the last breakpoint
  lsSlope,
  lsLast,
  lsBest,    \* [value, alpha] of the exact search
  lsResult,  \* the direction returned
  lsMerit    \* the merit value returned

lsVars == <<lsStage, lsData, lsAlpha, lsObjDot, lsJac, lsHessDot, lsBreaks, lsOffset,
            lsSlope, lsLast, lsBest, lsResult, lsMerit>>

LsRows == DOMAIN lsData.rows
Positive(x) == IF x > 0 THEN x ELSE 0
TotalOver(S, f(_)) == FoldLeft(LAMBDA s, i : s + f(i), 0, SetToSeq(S))
Divided(a, b) == IF b < 0 THEN (-a) \div (-b) ELSE a \div b
\* the settings cauchy_eta and linesearch_eta are 1 / EtaInverse; a length at
\* most ZeroLength counts as zero
EtaInverse == 10
ZeroLength == 1
-----------------------------------------------------------------------------
(* Directions [primal, obj, jac, hess] and the merit functions             *)

\* sleqp_direction_reset
DirectionOf(step) ==
  [primal |-> step, obj |-> lsData.grad * step, hess |-> lsData.hess * step,
   jac |-> [i \in LsRows |-> lsData.rows[i].jac * step]]
ScaledBy(factor, d) ==
  [primal |-> factor * d.primal, obj |-> factor * d.obj, hess |-> factor * d.hess,
   jac |-> [i \in LsRows |-> factor * d.jac[i]]]
\* sleqp_direction_add_scaled
Combined(d, e, alpha) ==
  LET a == ScaledBy(LsUnit - alpha, d)
      b == ScaledBy(alpha, e)
  IN [primal |-> a.primal + b.primal, obj |-> a.obj + b.obj, hess |-> a.hess + b.hess,
      jac |-> [i \in LsRows |-> a.jac[i] + b.jac[i]]]

\* sleqp_total_violation at the constraint values moved along jac
RowViolation(row, change) ==
  LET value == LsUnit * row.val + change
  IN Positive(value - LsUnit * row.ub) + Positive(LsUnit * row.lb - value)
Violation(jac) == SumTo(Len(lsData.rows), [i \in LsRows |-> RowViolation(lsData.rows[i], jac[i])])

\* sleqp_merit_linear, sleqp_merit_quadratic
LinearMerit(objDot, jac) == LsUnit * lsData.obj + objDot + lsData.penalty * Violation(jac)
QuadraticMerit(d) == 2 * LsUnit * LinearMerit(d.obj, d.jac) + d.primal * d.hess

Cauchy == DirectionOf(lsData.cauchy)
Newton == DirectionOf(lsData.newton)
CauchyMerit == QuadraticMerit(ScaledBy(LsUnit, Cauchy))
-----------------------------------------------------------------------------
(* sleqp_linesearch_cauchy_step                                            *)

InitialDelta == FirstLength(lsData)

CauchyDecreases ==
  2 * LsUnit * (EtaInverse - 1)
      * (lsData.penalty * (Violation([i \in LsRows |-> 0]) - Violation(lsJac)) - lsObjDot)
    >= EtaInverse * lsHessDot

CauchyInit ==
  /\ lsData.kind = "cauchy"
  /\ lsAlpha = InitialDelta
  /\ lsObjDot = Cauchy.obj * InitialDelta
  /\ lsJac = [i \in LsRows |-> Cauchy.jac[i] * InitialDelta]
  /\ lsHessDot = Cauchy.primal * Cauchy.hess * InitialDelta * InitialDelta

CauchyAccept ==
  /\ lsStage = "searching" /\ lsData.kind = "cauchy" /\ CauchyDecreases
  /\ lsStage' = "done"
  /\ lsMerit' = 2 * LsUnit * LinearMerit(lsObjDot, lsJac) + lsHessDot
  /\ lsResult' = [primal |-> lsAlpha * Cauchy.primal, obj |-> lsObjDot, jac |-> lsJac,
                  hess |-> lsAlpha * Cauchy.hess]
  /\ UNCHANGED <<lsData, lsAlpha, lsObjDot, lsJac, lsHessDot, lsBreaks, lsOffset, lsSlope,
                 lsLast, lsBest>>

\* Mutant: the quadratic term is shortened as the linear ones are
ShortenedLinearly(hessDot) == hessDot \div 2

Shortened(hessDot) == hessDot \div 4

\* The step is halved; when it becomes zero the direction is zero, and the
\* value of the last length that was tried is returned with it.
CauchyShorten ==
  /\ lsStage = "searching" /\ lsData.kind = "cauchy" /\ ~CauchyDecreases
  /\ LET delta == lsAlpha \div 2 IN
       IF delta <= ZeroLength
       THEN /\ lsStage' = "done" /\ lsAlpha' = 0
            /\ lsMerit' = 2 * LsUnit * LinearMerit(lsObjDot, lsJac) + lsHessDot
            /\ lsResult' = ScaledBy(0, Cauchy)
       ELSE lsAlpha' = delta /\ UNCHANGED <<lsStage, lsMerit, lsResult>>
  /\ lsObjDot' = lsObjDot \div 2
  /\ lsJac' = [i \in LsRows |-> lsJac[i] \div 2]
  /\ lsHessDot' = Shortened(lsHessDot)
  /\ UNCHANGED <<lsData, lsBreaks, lsOffset, lsSlope, lsLast, lsBest>>
-----------------------------------------------------------------------------
(* sleqp_linesearch_trial_step                                             *)

\* sleqp_max_step_length from the Cauchy point along the way to the Newton
\* point: a bound that is reached already does not limit the step.
StepLimits ==
  LET d == lsData.newton - lsData.cauchy
      up == lsData.ub - lsData.cauchy
      down == lsData.lb - lsData.cauchy
  IN {LsUnit}
       \cup (IF (d > 0 /\ up > 0) \/ (d < 0 /\ up < 0) THEN {Divided(LsUnit * up, d)} ELSE {})
       \cup (IF (d < 0 /\ down < 0) \/ (d > 0 /\ down > 0) THEN {Divided(LsUnit * down, d)} ELSE {})
MaxStepLength == CHOOSE l \in StepLimits : \A m \in StepLimits : l <= m

\* sleqp_violated_cons_multipliers at the Cauchy point
ViolatedMultiplier(i) ==
  LET row == lsData.rows[i]
      value == row.val + Cauchy.jac[i]
  IN IF value > row.ub THEN 1 ELSE IF value < row.lb THEN -1 ELSE 0

\* the derivative of the quadratic merit function, by the code's account,
\* which leaves the penalty parameter out
SlopeProduct ==
  LET along(d) == d.obj + TotalOver(LsRows, LAMBDA i : ViolatedMultiplier(i) * d.jac[i])
                        + lsData.cauchy * d.hess
  IN along(Newton) - along(Cauchy)

TrialMerit(alpha) ==
  2 * LsUnit * LinearMerit((LsUnit - alpha) * Cauchy.obj + alpha * Newton.obj,
                           [i \in LsRows |-> (LsUnit - alpha) * Cauchy.jac[i] + alpha * Newton.jac[i]])
    + (LsUnit - alpha) * (LsUnit - alpha) * Cauchy.primal * Cauchy.hess
    + 2 * alpha * (LsUnit - alpha) * Cauchy.primal * Newton.hess
    + alpha * alpha * Newton.primal * Newton.hess

TrialDecreases ==
  EtaInverse * (TrialMerit(lsAlpha) - CauchyMerit) <= 2 * LsUnit * lsAlpha * SlopeProduct

TrialAccept ==
  /\ lsStage = "searching" /\ lsData.kind = "approximate"
  /\ lsAlpha > ZeroLength /\ TrialDecreases
  /\ lsStage' = "done"
  /\ lsMerit' = TrialMerit(lsAlpha)
  /\ lsResult' = Combined(Cauchy, Newton, lsAlpha)
  /\ UNCHANGED <<lsData, lsAlpha, lsObjDot, lsJac, lsHessDot, lsBreaks, lsOffset, lsSlope,
                 lsLast, lsBest>>

TrialShorten ==
  /\ lsStage = "searching" /\ lsData.kind = "approximate"
  /\ lsAlpha > ZeroLength /\ ~TrialDecreases
  /\ lsAlpha' = lsAlpha \div 2
  /\ UNCHANGED <<lsStage, lsData, lsObjDot, lsJac, lsHessDot, lsBreaks, lsOffset, lsSlope,
                 lsLast, lsBest, lsResult, lsMerit>>

TrialCutoff ==
  /\ lsStage = "searching" /\ lsData.kind = "approximate" /\ lsAlpha <= ZeroLength
  /\ lsStage' = "done" /\ lsAlpha' = 0
  /\ lsMerit' = CauchyMerit
  /\ lsResult' = ScaledBy(LsUnit, Cauchy)
  /\ UNCHANGED <<lsData, lsObjDot, lsJac, lsHessDot, lsBreaks, lsOffset, lsSlope, lsLast, lsBest>>
-----------------------------------------------------------------------------
(* sleqp_linesearch_trial_step_exact                                       *)

\* Distances above the upper bounds and their slopes, and those below the
\* lower bounds, at the Cauchy point
Sides ==
  {[dist |-> [i \in LsRows |-> lsData.rows[i].val + Cauchy.jac[i] - lsData.rows[i].ub],
    slope |-> [i \in LsRows |-> Newton.jac[i] - Cauchy.jac[i]]],
   [dist |-> [i \in LsRows |-> lsData.rows[i].lb - lsData.rows[i].val - Cauchy.jac[i]],
    slope |-> [i \in LsRows |-> Cauchy.jac[i] - Newton.jac[i]]]}

\* collect_breakpoints goes through two sparse vectors side by side and stops
\* at the end of either, so that later entries of the other are lost.
VisitedRows(side) ==
  {i \in LsRows : /\ side.dist[i] # 0 \/ side.slope[i] # 0
                  /\ \E k \in LsRows : k >= i /\ side.dist[k] # 0
                  /\ \E k \in LsRows : k >= i /\ side.slope[k] # 0}

SideViolation(side) == TotalOver(VisitedRows(side), LAMBDA i : Positive(side.dist[i]))
SideSlope(side) ==
  TotalOver({i \in VisitedRows(side) : side.dist[i] >= 0}, LAMBDA i : side.slope[i])

\* points in [0, 1] where a row gets or ceases to be violated
SideBreaks(side) ==
  LET crossing == {i \in VisitedRows(side) :
                     /\ side.slope[i] # 0
                     /\ (side.dist[i] >= 0) <=> (side.slope[i] < 0)}
      point(i) == Divided(-LsUnit * side.dist[i], side.slope[i])
  IN [k \in 1 .. Cardinality({i \in crossing : point(i) <= LsUnit}) |->
        LET i == SetToSeq({j \in crossing : point(j) <= LsUnit})[k]
        IN [point |-> point(i),
            change |-> IF side.slope[i] < 0 THEN -side.slope[i] ELSE side.slope[i]]]

AllBreaks ==
  SortSeq(FoldLeft(LAMBDA s, side : s \o SideBreaks(side), <<>>, SetToSeq(Sides))
            \o <<[point |-> LsUnit, change |-> 0]>>,
          LAMBDA a, b : a.point < b.point)

SideTotal(f(_)) == TotalOver(Sides, f)
Curvature == (lsData.newton - lsData.cauchy) * (Newton.hess - Cauchy.hess)

ExactInit ==
  /\ lsData.kind = "exact"
  /\ lsOffset = 2 * LsUnit * LsUnit * (lsData.obj + Cauchy.obj + lsData.penalty * SideTotal(SideViolation))
                  + LsUnit * LsUnit * Cauchy.primal * Cauchy.hess
  /\ lsSlope = Newton.obj - Cauchy.obj + (lsData.newton - lsData.cauchy) * Cauchy.hess
                 + lsData.penalty * SideTotal(SideSlope)
  /\ lsBreaks = AllBreaks
  /\ lsBest = [value |-> lsOffset, alpha |-> 0]

PieceAt(alpha) ==
  lsOffset + 2 * LsUnit * lsSlope * (alpha - lsLast) + alpha * alpha * Curvature

\* The stationary point of the piece and its end are candidates.
ExactCandidates ==
  LET stationary == Divided(-LsUnit * lsSlope, Curvature)
      end == Head(lsBreaks).point
  IN (IF Curvature # 0
      THEN SelectSeq(<<stationary>>, LAMBDA a : lsLast <= a /\ a <= end) ELSE <<>>)
     \o <<end>>

Improved(best, alpha) ==
  IF PieceAt(alpha) < best.value THEN [value |-> PieceAt(alpha), alpha |-> alpha] ELSE best

ExactPiece ==
  /\ lsStage = "searching" /\ lsData.kind = "exact" /\ lsBreaks # <<>>
  /\ lsBest' = FoldLeft(Improved, lsBest, ExactCandidates)
  /\ lsOffset' = lsOffset + 2 * LsUnit * (Head(lsBreaks).point - lsLast) * lsSlope
  /\ lsSlope' = lsSlope + lsData.penalty * Head(lsBreaks).change
  /\ lsLast' = Head(lsBreaks).point
  /\ lsBreaks' = Tail(lsBreaks)
  /\ UNCHANGED <<lsStage, lsData, lsAlpha, lsObjDot, lsJac, lsHessDot, lsResult, lsMerit>>

ExactReturn ==
  /\ lsStage = "searching" /\ lsData.kind = "exact" /\ lsBreaks = <<>>
  /\ lsStage' = "done" /\ lsAlpha' = lsBest.alpha
  /\ lsMerit' = lsBest.value
  /\ lsResult' = Combined(Cauchy, Newton, lsBest.alpha)
  /\ UNCHANGED <<lsData, lsObjDot, lsJac, lsHessDot, lsBreaks, lsOffset, lsSlope, lsLast, lsBest>>
-----------------------------------------------------------------------------
LsInit ==
  /\ lsStage = "searching"
  /\ lsData \in LsInstances
  /\ CauchyInit \/ /\ lsData.kind # "cauchy"
                   /\ lsAlpha = IF lsData.kind = "approximate" THEN MaxStepLength ELSE 0
                   /\ lsObjDot = 0 /\ lsJac = [i \in LsRows |-> 0] /\ lsHessDot = 0
  /\ ExactInit \/ /\ lsData.kind # "exact"
                  /\ lsOffset = 0 /\ lsSlope = 0 /\ lsBreaks = <<>>
                  /\ lsBest = [value |-> 0, alpha |-> 0]
  /\ lsLast = 0
  /\ lsResult = ScaledBy(0, Cauchy) /\ lsMerit = 0

LsNext == CauchyAccept \/ CauchyShorten \/ TrialAccept \/ TrialShorten \/ TrialCutoff
          \/ ExactPiece \/ ExactReturn

LsSpec == LsInit /\ [][LsNext]_lsVars
-----------------------------------------------------------------------------
(* Properties                                                              *)

NothingSkipped ==
  \A side \in Sides : \A i \in LsRows \ VisitedRows(side) :
    side.dist[i] <= 0 /\ (side.slope[i] > 0 => side.dist[i] + side.slope[i] <= 0)

\* At the end of a search the products that were updated are those of the
\* direction, and the merit value is that of the direction: the model
\* reduction the step is judged by later.
ResultAgrees ==
  /\ lsResult = DirectionOf(lsResult.primal)
  /\ (lsData.kind = "cauchy" => lsAlpha # 0) /\ (lsData.kind = "exact" => NothingSkipped)
       => lsMerit = QuadraticMerit(lsResult)

\* The Cauchy step stays in the trust region and gains the promised part of
\* the linear decrease.
CauchyStepSound ==
  lsData.kind = "cauchy" /\ lsAlpha # 0 =>
    LET start == LsUnit * lsData.obj + lsData.penalty * Violation([i \in LsRows |-> 0])
    IN /\ lsResult.primal \in -LsUnit * lsData.radius .. LsUnit * lsData.radius
       /\ EtaInverse * (2 * LsUnit * start - lsMerit)
            >= 2 * LsUnit * (start - LinearMerit(lsResult.obj, lsResult.jac))

\* The approximate search does not leave bounds the Cauchy point is within.
TrialStepSound ==
  lsData.kind = "approximate" /\ lsData.cauchy \in lsData.lb + 1 .. lsData.ub - 1 =>
    lsResult.primal \in LsUnit * lsData.lb .. LsUnit * lsData.ub

\* The exact search returns the least value on the way to the Newton point.
ExactStepSound ==
  lsData.kind = "exact" /\ NothingSkipped => \A alpha \in 0 .. LsUnit : lsMerit <= TrialMerit(alpha)

LineSearchSound ==
  lsStage = "done" => ResultAgrees /\ CauchyStepSound /\ TrialStepSound /\ ExactStepSound

\* linesearch.c asserts in debug builds that the value the exact search
\* returns is that of the direction.
ExactMeritIsActual ==
  lsStage = "done" /\ lsData.kind = "exact" => lsMerit = QuadraticMerit(lsResult)
=============================================================================
