------------------------------- MODULE Steihaug -------------------------------
(***************************************************************************)
(* The projected conjugate gradients of tr/steihaug_solver.c: minimize the *)
(* quadratic model g^T p + p^T B p / 2 over the null space of the working  *)
(* set's rows within the trust radius, with Steihaug's exits to the        *)
(* boundary.                                                               *)
(*                                                                         *)
(* Numbers are fractions.  A point on the boundary is irrational: it is    *)
(* kept as the line it is on and which of the two intersections it is; the *)
(* comparisons the code makes of square roots are made of their squares.   *)
(* Tolerances are smaller than any nonzero number of the instances.        *)
(***************************************************************************)
EXTENDS Integers, FiniteSets, FiniteSetsExt

CONSTANTS
  StInstances,   \* dimension, Hessian, gradient, projection to the null space, radius, maxIter
  StMaxSolves

ASSUME StAssumption == StMaxSolves \in Nat

VARIABLES
  stIn,          \* the instance that is solved
  stStage,       \* "idle", "loop", "done"
  stIteration,
  stZ, stR, stG, stD, stBd,   \* buffers of the solver
  stRg,          \* r_dot_g
  stNormSq,      \* z_curr_nrm_sq
  stRayleigh,    \* min_rayleigh, max_rayleigh
  stAnswer,      \* newton_step, and how it was found
  stDual,        \* tr_dual
  stSolves

stVars == <<stIn, stStage, stIteration, stZ, stR, stG, stD, stBd, stRg, stNormSq, stRayleigh, stAnswer, stDual, stSolves>>
-----------------------------------------------------------------------------
(* Fractions, in lowest terms with a positive denominator                  *)

Gcd[a \in Nat, b \in Nat] == IF b = 0 THEN a ELSE Gcd[b, a % b]
Fraction(n, d) ==
  LET common == IF n < 0 THEN Gcd[-n, d] ELSE Gcd[n, d]
  IN [n |-> n \div common, d |-> d \div common]
Whole(v) == [n |-> v, d |-> 1]
Nil == Whole(0)
Plus(a, b) == LET c == Gcd[a.d, b.d] IN Fraction(a.n * (b.d \div c) + b.n * (a.d \div c), a.d * (b.d \div c))
Mul(a, b) ==
  LET left == Fraction(a.n, b.d)
      right == Fraction(b.n, a.d)
  IN [n |-> left.n * right.n, d |-> left.d * right.d]
Over(a, b) == Mul(a, IF b.n < 0 THEN Fraction(-b.d, -b.n) ELSE Fraction(b.d, b.n))
Negated(a) == [a EXCEPT !.n = -@]
Minus(a, b) == Plus(a, Negated(b))
Below(a, b) == Minus(a, b).n < 0

StIndices == 0 .. stIn.dim - 1
ZeroStep == [j \in StIndices |-> Nil]
Product(u, v) == FoldSet(LAMBDA j, s : Plus(s, Mul(u[j], v[j])), Nil, StIndices)
Combination(u, v, factor) == [j \in StIndices |-> Plus(u[j], Mul(factor, v[j]))]
Through(matrix, u) == [j \in StIndices |-> Product([k \in StIndices |-> matrix[<<j, k>>]], u)]
HessProd(d) == Through(stIn.hess, d)
Project(r) == Through(stIn.projection, r)
Opposite(u) == [j \in StIndices |-> Negated(u[j])]
RadiusSq == Whole(stIn.radius * stIn.radius)
-----------------------------------------------------------------------------
(* The boundary: z + tau d of norm radius has tau = centre -+ sqrt(spread) *)

Centre(z, d) == Over(Negated(Product(z, d)), Product(d, d))
Spread(z, d, normSq) == Minus(Mul(Centre(z, d), Centre(z, d)), Over(Minus(normSq, RadiusSq), Product(d, d)))
Boundary(end, z, d, normSq) ==
  [kind |-> end, from |-> z, along |-> d, centre |-> Centre(z, d), spread |-> Spread(z, d, normSq)]

\* the model along d is slope tau + curvature tau^2 / 2; its value at the
\* smaller intersection minus that at the larger one is this times a
\* negative number
Tilt(slope, curvature, centre) == Plus(slope, Mul(centre, curvature))

\* a + b sqrt(w), and slope tau + curvature tau^2 for tau = centre -+ sqrt(spread)
Surd(a, b, w) == [a |-> a, b |-> b, w |-> w]
OppositeSurd(x) == [x EXCEPT !.a = Negated(@), !.b = Negated(@)]
SurdNegative(x) ==
  LET ratioSq == Mul(Over(x.a, x.b), Over(x.a, x.b))
  IN \/ Below(x.a, Nil) /\ (~Below(Nil, x.b) \/ Below(x.w, ratioSq))
     \/ ~Below(x.a, Nil) /\ Below(x.b, Nil) /\ Below(ratioSq, x.w)
AlongAt(end, slope, curvature, constant, centre, spread) ==
  LET root == Plus(slope, Mul(Whole(2), Mul(curvature, centre)))
  IN Surd(Plus(constant, Plus(Mul(slope, centre), Mul(curvature, Plus(Mul(centre, centre), spread)))),
          IF end = "min" THEN Negated(root) ELSE root, spread)

\* steihaug_tr_dual: p^T B p + g^T p; the multiplier is its negative over
\* the squared radius, or zero
CombinedProduct(b) ==
  LET gradient == Combination(stIn.grad, HessProd(b.from), Whole(1))
  IN AlongAt(b.kind, Plus(Product(b.along, gradient), Product(b.from, HessProd(b.along))),
             Product(b.along, HessProd(b.along)), Product(b.from, gradient), b.centre, b.spread)
TrDual(b) ==
  LET comb == CombinedProduct(b)
  IN IF SurdNegative(comb) THEN [comb EXCEPT !.a = Over(Negated(@), RadiusSq), !.b = Over(Negated(@), RadiusSq)]
     ELSE Surd(Nil, Nil, Nil)
-----------------------------------------------------------------------------
(* The iteration                                                           *)

NoLimit == -1    \* SLEQP_NONE
StNothing == [kind |-> "none"]

StInit ==
  /\ stIn \in StInstances /\ stStage = "idle" /\ stIteration = 0
  /\ stZ = ZeroStep /\ stR = ZeroStep /\ stG = ZeroStep /\ stD = ZeroStep /\ stBd = ZeroStep
  /\ stRg = Nil /\ stNormSq = Nil /\ stRayleigh = <<Nil, Nil>>
  /\ stAnswer = StNothing /\ stDual = StNothing /\ stSolves = 0

\* The part before the loop; buffers are those of the solve before.
StBegin ==
  /\ stStage = "idle" /\ stSolves < StMaxSolves
  /\ stZ' = ZeroStep
  /\ stR' = stIn.grad
  /\ stG' = Project(stR')
  /\ stD' = Opposite(stG')
  /\ stRg' = Product(stR', stG')
  /\ stNormSq' = Nil /\ stIteration' = 0 /\ stRayleigh' = <<Whole(1), Whole(1)>> /\ stDual' = StNothing
  /\ stAnswer' = [kind |-> "zero", step |-> ZeroStep]
  /\ stStage' = IF stD' = ZeroStep THEN "done" ELSE "loop"
  /\ stSolves' = stSolves + 1
  /\ UNCHANGED <<stIn, stBd>>

StFinish == stStage' = "done" /\ UNCHANGED <<stIn, stZ, stR, stG, stD, stRg, stNormSq, stIteration, stSolves>>

\* Limits are tested first: the step stays the zero step of the beginning.
\* For time the caller gets an error instead.
StLimit ==
  /\ stStage = "loop"
  /\ \/ stIn.maxIter # NoLimit /\ stIteration >= stIn.maxIter /\ UNCHANGED stAnswer
     \/ stAnswer' = [stAnswer EXCEPT !.kind = "time"]
  /\ StFinish /\ UNCHANGED <<stBd, stRayleigh, stDual>>

InLoop == stStage = "loop" /\ (stIn.maxIter # NoLimit => stIteration < stIn.maxIter)

StConverged ==
  /\ InLoop /\ stRg = Nil
  /\ stAnswer' = [kind |-> "interior", step |-> stZ]
  /\ StFinish /\ UNCHANGED <<stBd, stRayleigh, stDual>>

\* steihaug_collect_rayleigh
Collected(d, product) ==
  LET quotient == Over(Product(d, product), Product(d, d))
  IN IF Product(d, d) = Nil THEN stRayleigh
     ELSE <<IF Below(quotient, stRayleigh[1]) THEN quotient ELSE stRayleigh[1],
            IF Below(stRayleigh[2], quotient) THEN quotient ELSE stRayleigh[2]>>

Multiply ==
  /\ InLoop /\ stRg # Nil
  /\ stBd' = HessProd(stD)
  /\ stRayleigh' = Collected(stD, stBd')

\* the intersection with the smaller model value, the larger one if equal
BetterEnd(z, d, bd) ==
  IF Below(Nil, Tilt(Plus(Product(stIn.grad, d), Product(z, bd)), Product(d, bd), Centre(z, d))) THEN "min" ELSE "max"

StNegativeCurvature ==
  /\ Multiply /\ ~Below(Nil, Product(stD, stBd'))
  /\ stAnswer' = Boundary(BetterEnd(stZ, stD, stBd'), stZ, stD, stNormSq)
  /\ StFinish /\ UNCHANGED stDual

StepLength == Over(stRg, Product(stD, stBd'))
NextZ == Combination(stZ, stD, StepLength)

\* sleqp_tr_compute_bdry_sol takes the larger intersection, and computes
\* the norm of z anew.  (The product with the answer that steihaug_tr_dual
\* leaves in Bd is overwritten before it is read.)
StBoundary ==
  /\ Multiply /\ Below(Nil, Product(stD, stBd'))
  /\ ~Below(Product(NextZ, NextZ), RadiusSq)
  /\ stAnswer' = Boundary("max", stZ, stD, Product(stZ, stZ))
  /\ stDual' = TrDual(stAnswer')
  /\ StFinish

\* Mutant: the next direction is combined with the ratio of the last one
NextDirectionLate(g, d, beta) == Combination(Opposite(g), d, Whole(1))
NextDirection(g, d, beta) == Combination(Opposite(g), d, beta)

StStep ==
  /\ Multiply /\ Below(Nil, Product(stD, stBd'))
  /\ Below(Product(NextZ, NextZ), RadiusSq)
  /\ stZ' = NextZ
  /\ stNormSq' = Product(NextZ, NextZ)
  /\ stR' = Combination(stR, stBd', StepLength)
  /\ stG' = Project(stR')
  /\ stRg' = Product(stR', stG')
  /\ stD' = NextDirection(stG', stD, Over(stRg', stRg))
  /\ stIteration' = stIteration + 1
  /\ UNCHANGED <<stIn, stStage, stAnswer, stDual, stSolves>>

\* The caller takes the step, and comes back with another model.
StTake ==
  /\ stStage = "done" /\ stSolves < StMaxSolves
  /\ \E in \in StInstances : in.dim = stIn.dim /\ in.maxIter = stIn.maxIter /\ stIn' = in
  /\ stStage' = "idle"
  /\ UNCHANGED <<stIteration, stZ, stR, stG, stD, stBd, stRg, stNormSq, stRayleigh, stAnswer, stDual, stSolves>>

StNext == StBegin \/ StLimit \/ StConverged \/ StNegativeCurvature \/ StBoundary \/ StStep \/ StTake

StSpec == StInit /\ [][StNext]_stVars
-----------------------------------------------------------------------------
(* Properties                                                              *)

\* twice the model value of a rational step
DoubledModel(p) == Plus(Product(p, HessProd(p)), Mul(Whole(2), Product(stIn.grad, p)))

\* While it runs, the residual is the model's gradient, everything lies in
\* the null space, directions descend and are conjugate, and the iterate
\* is strictly inside, after at most as many steps as dimensions
\* (check_projection, check_residuals, check_trust_radius).
LoopConsistent ==
  stStage = "loop" =>
    /\ stR = Combination(stIn.grad, HessProd(stZ), Whole(1))
    /\ stG = Project(stR) /\ stZ = Project(stZ) /\ stD = Project(stD)
    /\ stRg = Product(stR, stG) /\ Product(stR, stD) = Negated(stRg)
    /\ stNormSq = Product(stZ, stZ) /\ Below(stNormSq, RadiusSq)
    /\ stIteration > 0 => Product(stD, stBd) = Nil /\ Product(stD, HessProd(stZ)) = Nil
    /\ stIteration <= stIn.dim

\* minimum of twice the model along steepest descent, within the region
CauchyModel ==
  LET g == Project(stIn.grad)
      gg == Product(g, g)
      curvature == Product(g, HessProd(g))
  IN Negated(Over(Mul(gg, gg), curvature))

\* An interior answer is inside the region and stationary in the null
\* space; its model value, and that of the point where an answer on the
\* boundary leaves the path, is no worse than that of the Cauchy point.
InteriorAnswer ==
  stAnswer.kind = "interior" =>
    /\ Below(Product(stAnswer.step, stAnswer.step), RadiusSq)
    /\ Project(Combination(stIn.grad, HessProd(stAnswer.step), Whole(1))) = ZeroStep
    /\ ~Below(CauchyModel, DoubledModel(stAnswer.step))

\* change of the model from the path to an intersection with the boundary
ChangeTo(end, b) ==
  AlongAt(end, Plus(Product(stIn.grad, b.along), Product(b.from, HessProd(b.along))),
          Over(Product(b.along, HessProd(b.along)), Whole(2)), Nil, b.centre, b.spread)
OnBoundary(b) ==
  LET at == AlongAt(b.kind, Mul(Whole(2), Product(b.from, b.along)), Product(b.along, b.along),
                    Product(b.from, b.from), b.centre, b.spread)
  IN at.a = RadiusSq /\ at.b = Nil

\* An answer on the boundary exists (no root of a negative number) and is
\* on it, lowers the model, and is the better of both intersections; the
\* model does not increase there along the answer itself, so that its
\* multiplier has the right sign.
BoundaryAnswer ==
  stAnswer.kind \in {"min", "max"} =>
    /\ ~Below(stAnswer.spread, Nil)
    /\ OnBoundary(stAnswer)
    /\ SurdNegative(ChangeTo(stAnswer.kind, stAnswer))
    /\ stDual = StNothing =>
         LET here == ChangeTo(stAnswer.kind, stAnswer)
             other == ChangeTo(IF stAnswer.kind = "min" THEN "max" ELSE "min", stAnswer)
         IN ~SurdNegative(Surd(Minus(other.a, here.a), Minus(other.b, here.b), here.w))
    /\ stIteration > 0 => ~Below(CauchyModel, DoubledModel(stAnswer.from))
    /\ stDual # StNothing => ~SurdNegative(OppositeSurd(CombinedProduct(stAnswer)))

\* Curvatures of the directions that were tried are within the bounds that
\* are reported.
RayleighBounds ==
  stIteration > 0 /\ stStage = "loop" =>
    LET g == Project(stIn.grad)
        first == Over(Product(g, HessProd(g)), Product(g, g))
    IN ~Below(first, stRayleigh[1]) /\ ~Below(stRayleigh[2], first)

SteihaugSound == LoopConsistent /\ (stStage = "done" => InteriorAnswer /\ BoundaryAnswer) /\ RayleighBounds
=============================================================================
