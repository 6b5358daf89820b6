----------------------------- MODULE TrialPoint -----------------------------
(***************************************************************************)
(* How one iteration of SleqpProblemSolver computes its trial point: the   *)
(* SleqpTrialPointSolver and the objects it keeps, the linear program of   *)
(* the Cauchy step (SleqpCauchy), the factorized augmented Jacobian, the   *)
(* EQP solver, the estimated multipliers, the line search, the parametric  *)
(* search over LP radii and the penalty parameter.  Problems have general  *)
(* constraints.                                                            *)
(*                                                                         *)
(* Every one of these objects caches what it derived from others, and the  *)
(* code recomputes, rereads or reuses it.  Values are therefore replaced   *)
(* by stamps: a record of the inputs a value was computed from.  An        *)
(* iterate is the number of its version; it changes when a step is         *)
(* accepted and when a dynamic function reevaluates it in place.  The      *)
(* radii of an iteration are its number, its LP radius being multiplied by *)
(* a power of a fixed factor; a penalty parameter is its rank.  What the   *)
(* LP solver, the function and the numerical tests answer is free.         *)
(***************************************************************************)
EXTENDS Integers

CONSTANTS
  Configurations,  \* the settings, see AllConfigurations
  LpSets,            \* working sets an LP solution may have
  MaxIncreases,    \* max_increases of penalty.c
  MaxResolves,     \* max_num_resolves of parametric.c
  NumResetSteps,   \* num_reset_steps of iteration.c
  MaxResets,       \* max_num_global_resets of iteration.c
  MaxRounds,       \* bound on the number of iterations
  MaxRefinements   \* bound on the reevaluations of one iteration

AllConfigurations ==
  [parametric : BOOLEAN,  \* SLEQP_SETTINGS_ENUM_PARAMETRIC_CAUCHY is not DISABLED
   model : {"linear", "quadratic", "newton"}, \* USE_QUADRATIC_MODEL, PERFORM_NEWTON_STEP
   duals : {"lsq", "lp", "mixed"},            \* SLEQP_SETTINGS_ENUM_DUAL_ESTIMATION_TYPE
   resolves : BOOLEAN,    \* SLEQP_SETTINGS_BOOL_LP_RESOLVES
   linear : BOOLEAN,      \* the problem has no nonlinear constraints
   dynamic : BOOLEAN]     \* the function is of type SLEQP_FUNC_TYPE_DYNAMIC

ASSUME ConfigurationAssumption == Configurations \subseteq AllConfigurations
ASSUME BoundAssumption ==
  /\ MaxIncreases \in Nat \ {0} /\ MaxResolves \in Nat \ {0}
  /\ NumResetSteps \in Nat /\ MaxResets \in Nat
  /\ MaxRounds \in Nat /\ MaxRefinements \in Nat
ASSUME SetsAssumption == LpSets # {}

VARIABLES
  settings,      \* never changes
  tpPc,
  \* the problem solver
  round,         \* the number of the iteration
  version,       \* the version of the current iterate
  residuum,      \* feas_res: the version it is of and whether it is within feas_tol
  outerPenalty, feasibleSteps, resets,
  \* the trial point solver
  penalty, merit, weights, allowReset, performedReset,
  cauchyMerit,   \* cauchy_merit_value, the model value of the Cauchy step
  exponent,      \* of the factor of lp_trust_radius
  lp,            \* cauchy_data and its default LP interface
  lpStep, lpSet, cauchy,
  lastDirection, \* last_direction of the parametric solver
  aug, eqp, multipliers, search,
  tries,         \* loop counter of sleqp_update_penalty and of the parametric search
  refinements,   \* reevaluations in this iteration
  model,         \* the model value of the trial point
  \* history, read by properties only
  lowered        \* how often the penalty parameter was reset

roundVars == <<round, version, residuum, outerPenalty, feasibleSteps, resets>>
penaltyVars == <<penalty, merit, weights, allowReset, performedReset, lowered>>
lpVars == <<lp, lpStep, lpSet>>
stepVars == <<cauchy, cauchyMerit, lastDirection, exponent>>
newtonVars == <<aug, eqp, multipliers, search>>
tpVars == <<settings, tpPc, roundVars, penaltyVars, lpVars, stepVars, newtonVars,
          tries, refinements, model>>

Never == 0   \* a round, version or penalty of a value never computed

\* A solution of the LP: its inputs, and whether it is that of the reduced problem.
Solutions == [round : Nat, version : Nat, exponent : Int, penalty : Nat,
              objective : {"merit", "feasibility"}, reduced : BOOLEAN]
NoSolution == [round |-> Never, version |-> Never, exponent |-> 0, penalty |-> Never,
               objective |-> "merit", reduced |-> FALSE]
Components == {"stats", "primal"}

\* A working set: its value and the LP solution it was read from.
LpWorkingSets == [from : Solutions, set : LpSets]

Factors == [set : LpSets, version : Nat]
Multipliers == [lpSet : LpWorkingSets, version : Nat, penalty : Nat, lp : Solutions]
EqpInputs == [round : Nat, version : Nat, penalty : Nat, lpSet : LpWorkingSets, factor : Factors]
SearchInputs == [round : Nat, version : Nat, penalty : Nat]
Merits == [version : Nat, penalty : Nat]

\* A direction: its step and the steps its products with the gradient and
\* the Jacobian, and with the Hessian, were computed for.
Directions == [step : Solutions, linear : Solutions, hess : Solutions, multipliers : Multipliers]

AnySet == CHOOSE s \in LpSets : TRUE
NoWorkingSet == [from |-> NoSolution, set |-> AnySet]
NoFactor == [set |-> AnySet, version |-> Never]
EqpInit == [round |-> Never, version |-> Never, penalty |-> Never, lpSet |-> NoWorkingSet,
            factor |-> NoFactor]
NoMultipliers == [lpSet |-> NoWorkingSet, version |-> Never, penalty |-> Never, lp |-> NoSolution]
NoDirection == [step |-> NoSolution, linear |-> NoSolution, hess |-> NoSolution,
                multipliers |-> NoMultipliers]
-----------------------------------------------------------------------------
(* The linear program.  Bounds and coefficients of the default interface   *)
(* are those of a version and a radius; a solution is fetched lazily into  *)
(* buffers, component by component, from the interface solved last.        *)

\* Mutant: the buffers are not marked as dirty
SolvedCleanBuffers(l, p, objective) ==
  [l EXCEPT !.solution = [round |-> l.round, version |-> l.version, exponent |-> l.exponent,
                          penalty |-> p, objective |-> objective, reduced |-> FALSE],
            !.useReduced = FALSE]

\* sleqp_cauchy_solve: the default interface is solved and all buffers are dirty
Solved(l, p, objective) ==
  [l EXCEPT !.solution = [round |-> l.round, version |-> l.version, exponent |-> l.exponent,
                          penalty |-> p, objective |-> objective, reduced |-> FALSE],
            !.useReduced = FALSE, !.dirty = Components]

Active(l) == [l.solution EXCEPT !.reduced = l.useReduced]

Fetched(l, components) ==
  [l EXCEPT !.stats = IF "stats" \in components \cap l.dirty THEN Active(l) ELSE @,
            !.primal = IF "primal" \in components \cap l.dirty THEN Active(l) ELSE @,
            !.dirty = @ \ components]

\* with the default objective the solution is fetched to see if the reduced
\* problem has to be solved, which makes its solution the active one
SolvedDefault(l, p, reduce) ==
  LET s == Solved(l, p, "merit")
      f == IF settings.resolves THEN Fetched(s, Components) ELSE s
  IN  IF reduce THEN [f EXCEPT !.useReduced = TRUE, !.dirty = Components] ELSE f

\* the violation overwrites the primal buffer with the default interface's
\* solution, whichever interface is active
Violated(l) == [l EXCEPT !.primal = l.solution]

AtRadius(l, e) == [l EXCEPT !.exponent = e]
AtIterate(l) == [l EXCEPT !.round = round, !.version = version, !.exponent = exponent]

Reductions == IF settings.resolves THEN BOOLEAN ELSE {FALSE}

\* the new value of the working set, read from the basis in the buffers
ReadWorkingSet(l, set) == [from |-> l.stats, set |-> set]
-----------------------------------------------------------------------------
(* What is computed from a working set.                                    *)

\* Mutant: linear constraints keep their factorization
RefactoredNever(w) ==
  IF settings.linear /\ aug.version # Never THEN aug ELSE [set |-> w.set, version |-> version]

\* for linear constraints the factorization of an equal working set is reused
Refactored(w) ==
  IF settings.linear /\ aug.version # Never /\ aug.set = w.set
    THEN aug
    ELSE [set |-> w.set, version |-> version]

EqpAt(w, factor) ==
  [round |-> round, version |-> version, penalty |-> penalty, lpSet |-> w, factor |-> factor]

SearchAt == [round |-> round, version |-> version, penalty |-> penalty]

\* the estimates of the constraint duals come from a least-squares problem in
\* the factorized matrix, from the default LP interface, or merge both
DualSources == CASE settings.duals = "lsq" -> {NoSolution}
                 [] settings.duals = "lp" -> {lp.solution}
                 [] settings.duals = "mixed" -> {NoSolution, lp.solution}

\* sleqp_direction_reset
DirectionOf(step) ==
  [step |-> step, linear |-> step, hess |-> step, multipliers |-> multipliers]

MeritAt(v, p) == [version |-> v, penalty |-> p]
WeightsAt(p) == IF settings.dynamic THEN p ELSE Never
-----------------------------------------------------------------------------
TpInit ==
  /\ settings \in Configurations
  /\ tpPc = "prepare"
  /\ round = 0 /\ version = 1
  /\ residuum = [version |-> Never, small |-> FALSE]
  /\ outerPenalty = 1 /\ feasibleSteps = 0 /\ resets = 0
  /\ penalty = Never /\ merit = MeritAt(Never, Never) /\ weights = Never
  /\ allowReset = FALSE /\ performedReset = FALSE
  /\ exponent = 0
  /\ lp = [round |-> Never, version |-> Never, exponent |-> 0, solution |-> NoSolution,
           useReduced |-> FALSE, dirty |-> {}, stats |-> NoSolution, primal |-> NoSolution]
  /\ lpStep = NoSolution /\ lpSet = NoWorkingSet
  /\ cauchy = NoDirection /\ lastDirection = NoDirection
  /\ aug = NoFactor /\ eqp = EqpInit /\ multipliers = NoMultipliers
  /\ search = [round |-> Never, version |-> Never, penalty |-> Never]
  /\ tries = 0 /\ refinements = 0
  /\ cauchyMerit = MeritAt(Never, Never) /\ model = MeritAt(Never, Never)
  /\ lowered = 0

\* prepare_iteration: the residua, the count of feasible iterations and the
\* parameters handed to the trial point solver
Prepare ==
  /\ tpPc = "prepare" /\ round < MaxRounds
  /\ round' = round + 1
  /\ \E small \in BOOLEAN :
       /\ residuum.version = version => small = residuum.small
       /\ residuum' = [version |-> version, small |-> small]
       /\ feasibleSteps' = IF small THEN feasibleSteps + 1 ELSE feasibleSteps
  /\ penalty' = outerPenalty
  /\ weights' = IF outerPenalty # penalty THEN WeightsAt(outerPenalty) ELSE weights
  /\ merit' = MeritAt(version, outerPenalty)
  /\ allowReset' = (feasibleSteps' >= NumResetSteps /\ resets < MaxResets)
  /\ performedReset' = FALSE
  /\ exponent' = 0 /\ refinements' = 0
  /\ tpPc' = "linear"
  /\ UNCHANGED <<settings, version, outerPenalty, resets, lpVars, cauchy, cauchyMerit,
                 lastDirection, newtonVars, tries, model, lowered>>

-----------------------------------------------------------------------------
(* compute_cauchy_direction                                                *)

\* the LP at the iterate, its step and its working set
SolveLinear ==
  /\ tpPc = "linear"
  /\ \E reduce \in Reductions, set \in LpSets :
       LET l == Fetched(SolvedDefault(AtIterate(lp), penalty, reduce), Components)
       IN  /\ lp' = l
           /\ lpStep' = l.primal
           /\ lpSet' = ReadWorkingSet(l, set)
  /\ tries' = 0
  /\ tpPc' = "penalty"
  /\ UNCHANGED <<settings, roundVars, penaltyVars, stepVars, newtonVars, refinements, model>>

\* a feasible iterate, or a linearization that is feasible already
KeepPenalty ==
  /\ tpPc = "penalty"
  /\ lp' = IF residuum.small THEN lp ELSE Violated(lp)
  /\ tpPc' = "factorize"
  /\ UNCHANGED <<settings, roundVars, penaltyVars, lpStep, lpSet, stepVars, newtonVars,
                 tries, refinements, model>>

\* the penalty parameter is far above the duals of the iterate
ResetPenalty ==
  /\ tpPc = "penalty" /\ residuum.small /\ allowReset
  /\ penalty' \in 1 .. (penalty - 1)
  /\ performedReset' = TRUE
  /\ lowered' = lowered + 1
  /\ tpPc' = "reread"
  /\ UNCHANGED <<settings, roundVars, merit, weights, allowReset, lpVars, stepVars, newtonVars,
                 tries, refinements, model>>

\* otherwise the least violation of the linearization is computed
SolveFeasibility ==
  /\ tpPc = "penalty" /\ ~residuum.small
  /\ lp' = Violated(Solved(Violated(lp), penalty, "feasibility"))
  /\ tpPc' = "feasibility"
  /\ UNCHANGED <<settings, roundVars, penaltyVars, lpStep, lpSet, stepVars, newtonVars,
                 tries, refinements, model>>

\* the linearization cannot become more feasible
NoProgress ==
  /\ tpPc = "feasibility"
  /\ tpPc' = "factorize"
  /\ UNCHANGED <<settings, roundVars, penaltyVars, lpVars, stepVars, newtonVars,
                 tries, refinements, model>>

\* Mutant: one increase too many
IncreasePenaltyOnceMore ==
  /\ tpPc \in {"feasibility", "increase"}
  /\ penalty' = penalty + 1
  /\ lp' = Violated(Solved(lp, penalty', "merit"))
  /\ tries' = tries + 1
  /\ \/ tpPc' = "reread"
     \/ tpPc' = "increase" /\ tries' <= MaxIncreases
  /\ UNCHANGED <<settings, roundVars, merit, weights, allowReset, performedReset, lowered,
                 lpStep, lpSet, stepVars, newtonVars, refinements, model>>

\* one increase; the loop ends when it suffices and after MaxIncreases of them
IncreasePenalty ==
  /\ tpPc \in {"feasibility", "increase"}
  /\ penalty' = penalty + 1
  /\ lp' = Violated(Solved(lp, penalty', "merit"))
  /\ tries' = tries + 1
  /\ \/ tpPc' = "reread"
     \/ tpPc' = "increase" /\ tries' < MaxIncreases
  /\ UNCHANGED <<settings, roundVars, merit, weights, allowReset, performedReset, lowered,
                 lpStep, lpSet, stepVars, newtonVars, refinements, model>>

\* Mutant: the merit value is not taken again
RereadKeepsMerit ==
  /\ tpPc = "reread"
  /\ \E set \in LpSets :
       LET l == Fetched(lp, Components)
       IN  /\ lp' = l
           /\ lpStep' = l.primal
           /\ lpSet' = ReadWorkingSet(l, set)
  /\ weights' = WeightsAt(penalty)
  /\ tpPc' = "factorize"
  /\ UNCHANGED <<settings, roundVars, penalty, merit, allowReset, performedReset, lowered,
                 stepVars, newtonVars, tries, refinements, model>>

\* the penalty parameter has changed: the weights of the constraints, step,
\* working set and merit value are taken again
Reread ==
  /\ tpPc = "reread"
  /\ \E set \in LpSets :
       LET l == Fetched(lp, Components)
       IN  /\ lp' = l
           /\ lpStep' = l.primal
           /\ lpSet' = ReadWorkingSet(l, set)
  /\ weights' = WeightsAt(penalty)
  /\ merit' = MeritAt(version, penalty)
  /\ tpPc' = "factorize"
  /\ UNCHANGED <<settings, roundVars, penalty, allowReset, performedReset, lowered,
                 stepVars, newtonVars, tries, refinements, model>>

-----------------------------------------------------------------------------
(* sleqp_trial_point_solver_compute_cauchy_step                            *)

\* the augmented Jacobian, the EQP solver and the multipliers of the working set
Factorize ==
  /\ tpPc = "factorize"
  /\ aug' = Refactored(lpSet)
  /\ eqp' = EqpAt(lpSet, aug')
  /\ \E source \in DualSources :
       multipliers' = [lpSet |-> lpSet, version |-> version, penalty |-> penalty, lp |-> source]
  /\ tpPc' = IF settings.parametric THEN "search" ELSE "cauchy"
  /\ UNCHANGED <<settings, roundVars, penaltyVars, lpVars, stepVars, search,
                 tries, refinements, model>>

\* Mutant: the products with the gradient and the Jacobian are not computed
ScaleStepKeepsProducts ==
  /\ tpPc = "cauchy"
  /\ cauchy' = [cauchy EXCEPT !.step = lpStep, !.hess = lpStep, !.multipliers = multipliers]
  /\ search' = IF settings.model = "linear" THEN search ELSE SearchAt
  /\ cauchyMerit' = IF settings.model = "linear" THEN cauchyMerit ELSE MeritAt(version, penalty)
  /\ tpPc' = "model"
  /\ UNCHANGED <<settings, roundVars, penaltyVars, lpVars, lastDirection, exponent,
                 aug, eqp, multipliers, tries, refinements, model>>

\* compute_cauchy_step_simple: the LP step, scaled by the line search unless
\* the model is linear; scaling the direction scales its products
ScaleStep ==
  /\ tpPc = "cauchy"
  /\ cauchy' = DirectionOf(lpStep)
  /\ search' = IF settings.model = "linear" THEN search ELSE SearchAt
  /\ cauchyMerit' = IF settings.model = "linear" THEN cauchyMerit ELSE MeritAt(version, penalty)
  /\ tpPc' = "model"
  /\ UNCHANGED <<settings, roundVars, penaltyVars, lpVars, lastDirection, exponent,
                 aug, eqp, multipliers, tries, refinements, model>>

\* sleqp_parametric_solver_solve: with a sufficient decrease at the LP radius
\* larger ones are tried, otherwise smaller ones
BeginSearch ==
  /\ tpPc = "search"
  /\ cauchy' = DirectionOf(lpStep) /\ cauchyMerit' = MeritAt(version, penalty)
  /\ \/ /\ tpPc' = "forward"
        /\ exponent' = exponent + 1
        /\ lastDirection' = cauchy'
     \/ /\ tpPc' = "backward"
        /\ exponent' = exponent - 1
        /\ UNCHANGED lastDirection
  /\ tries' = 0
  /\ UNCHANGED <<settings, roundVars, penaltyVars, lpVars, newtonVars, refinements, model>>

\* search_forward takes the step and its Hessian product from the new solution
ForwardDirection(l) ==
  [cauchy EXCEPT !.step = l.primal, !.hess = l.primal, !.multipliers = multipliers]

\* the merit value decreases: a larger radius is tried, if there are tries left
SearchForward ==
  /\ tpPc = "forward"
  /\ \E reduce \in Reductions :
       lp' = Fetched(SolvedDefault(AtRadius(lp, exponent), penalty, reduce), {"primal"})
  /\ cauchy' = ForwardDirection(lp') /\ cauchyMerit' = MeritAt(version, penalty)
  /\ lastDirection' = cauchy'
  /\ exponent' = exponent + 1
  /\ tries' = tries + 1
  /\ tpPc' = IF tries' < MaxResolves THEN "forward" ELSE "assemble"
  /\ UNCHANGED <<settings, roundVars, penaltyVars, lpStep, lpSet, newtonVars, refinements, model>>

\* it does not: back to the last radius, whose LP is solved again
EndForward ==
  /\ tpPc = "forward"
  /\ \E reduce1, reduce2 \in Reductions :
       LET l == Fetched(SolvedDefault(AtRadius(lp, exponent), penalty, reduce1), {"primal"})
       IN  lp' = SolvedDefault(AtRadius(l, exponent - 1), penalty, reduce2)
  /\ cauchy' = lastDirection
  /\ exponent' = exponent - 1
  /\ tpPc' = "assemble"
  /\ UNCHANGED <<settings, roundVars, penaltyVars, lpStep, lpSet, cauchyMerit, lastDirection,
                 newtonVars, tries, refinements, model>>

\* Mutant: an insufficient decrease neither counts nor changes the radius
SearchBackwardStuck ==
  /\ tpPc = "backward"
  /\ \E reduce \in Reductions :
       lp' = Fetched(SolvedDefault(AtRadius(lp, exponent), penalty, reduce), {"primal"})
  /\ cauchy' = DirectionOf(lp'.primal) /\ cauchyMerit' = MeritAt(version, penalty)
  /\ tpPc' \in {"backward", "assemble"}
  /\ UNCHANGED <<settings, roundVars, penaltyVars, lpStep, lpSet, lastDirection, newtonVars,
                 exponent, tries, refinements, model>>

\* search_backtracking: the radius shrinks until the decrease is sufficient
SearchBackward ==
  /\ tpPc = "backward"
  /\ \E reduce \in Reductions :
       lp' = Fetched(SolvedDefault(AtRadius(lp, exponent), penalty, reduce), {"primal"})
  /\ cauchy' = DirectionOf(lp'.primal) /\ cauchyMerit' = MeritAt(version, penalty)
  /\ \/ tpPc' = "assemble" /\ UNCHANGED <<exponent, tries>>
     \/ /\ exponent' = exponent - 1
        /\ tries' = tries + 1
        /\ tpPc' = IF tries' < MaxResolves THEN "backward" ELSE "exhausted"
  /\ UNCHANGED <<settings, roundVars, penaltyVars, lpStep, lpSet, lastDirection, newtonVars,
                 refinements, model>>

\* no radius was small enough: the line search scales the direction, before
\* it is set to this iterate, and the merit value is of the one it was set to
ScaleExhausted ==
  /\ tpPc = "exhausted" /\ search.version # Never
  /\ cauchyMerit' = MeritAt(search.version, search.penalty)
  /\ tpPc' = "assemble"
  /\ UNCHANGED <<settings, roundVars, penaltyVars, lpVars, cauchy, lastDirection, exponent,
                 newtonVars, tries, refinements, model>>

\* a line search that was never set to an iterate dereferences a null pointer
ScaleUnset ==
  /\ tpPc = "exhausted" /\ search.version = Never
  /\ tpPc' = "crashed"
  /\ UNCHANGED <<settings, roundVars, penaltyVars, lpVars, stepVars, newtonVars,
                 tries, refinements, model>>

\* Mutant: the EQP solver keeps the working set from before the search
AssembleKeepsEqp ==
  /\ tpPc = "assemble"
  /\ lp' = Fetched(lp, {"stats"})
  /\ \E set \in LpSets : lpSet' = ReadWorkingSet(lp', set)
  /\ aug' = IF lpSet'.set = lpSet.set THEN aug ELSE Refactored(lpSet')
  /\ search' = SearchAt
  /\ tpPc' = "model"
  /\ UNCHANGED <<settings, roundVars, penaltyVars, lpStep, stepVars, eqp, multipliers,
                 tries, refinements, model>>

\* compute_cauchy_step_parametric, after the search
Assemble ==
  /\ tpPc = "assemble"
  /\ lp' = Fetched(lp, {"stats"})
  /\ \E set \in LpSets : lpSet' = ReadWorkingSet(lp', set)
  /\ aug' = IF lpSet'.set = lpSet.set THEN aug ELSE Refactored(lpSet')
  /\ search' = SearchAt
  /\ eqp' = EqpAt(lpSet', aug')
  /\ tpPc' = "model"
  /\ UNCHANGED <<settings, roundVars, penaltyVars, lpStep, stepVars, multipliers,
                 tries, refinements, model>>

-----------------------------------------------------------------------------
(* The trial point and its model value                                     *)

\* the Cauchy step itself, whose merit value is taken again, or a point on the
\* line to the Newton step; at its Cauchy end the merit value is not
ComputeTrialPoint ==
  /\ tpPc = "model"
  /\ IF settings.model = "newton"
       THEN model' \in {MeritAt(search.version, search.penalty), cauchyMerit}
       ELSE model' = MeritAt(version, penalty)
  /\ tpPc' = IF settings.dynamic THEN "accuracy" ELSE "decide"
  /\ UNCHANGED <<settings, roundVars, penaltyVars, lpVars, stepVars, newtonVars,
                 tries, refinements>>

\* solver_refine_step, when the function is accurate enough
Accurate ==
  /\ tpPc = "accuracy"
  /\ tpPc' = "decide"
  /\ UNCHANGED <<settings, roundVars, penaltyVars, lpVars, stepVars, newtonVars,
                 tries, refinements, model>>

\* The line search keeps a pointer to its iterate, not a copy: it sees the
\* changes that are made in place.
InPlace == [search EXCEPT !.version = IF @ = version THEN version + 1 ELSE @]

\* and when it is not: the iterate is evaluated again and all is computed anew
Refine ==
  /\ tpPc = "accuracy" /\ refinements < MaxRefinements
  /\ version' = version + 1
  /\ refinements' = refinements + 1
  /\ merit' = MeritAt(version', penalty)
  /\ search' = InPlace
  /\ tpPc' = "linear"
  /\ UNCHANGED <<settings, round, residuum, outerPenalty, feasibleSteps, resets, penalty,
                 weights, allowReset, performedReset, lowered, lpVars, stepVars,
                 aug, eqp, multipliers, tries, model>>

\* the solver stops at a locally infeasible iterate; it may be started again,
\* at the end of a restoration phase, from another one
StopAtInfeasible ==
  /\ tpPc = "decide" /\ ~residuum.small
  /\ version' = version + 1
  /\ search' = InPlace
  /\ tpPc' = "prepare"
  /\ UNCHANGED <<settings, round, residuum, outerPenalty, feasibleSteps, resets, penaltyVars,
                 lpVars, stepVars, aug, eqp, multipliers, tries, refinements, model>>

\* Mutant: a reset does not count
CountResetForgets ==
  /\ tpPc = "decide"
  /\ feasibleSteps' = IF performedReset THEN 0 ELSE feasibleSteps
  /\ tpPc' = "step"
  /\ UNCHANGED <<settings, round, version, residuum, outerPenalty, resets, penaltyVars, lpVars,
                 stepVars, newtonVars, tries, refinements, model>>

\* update_penalty_stats
CountReset ==
  /\ tpPc = "decide"
  /\ feasibleSteps' = IF performedReset THEN 0 ELSE feasibleSteps
  /\ resets' = IF performedReset THEN resets + 1 ELSE resets
  /\ tpPc' = "step"
  /\ UNCHANGED <<settings, round, version, residuum, outerPenalty, penaltyVars, lpVars,
                 stepVars, newtonVars, tries, refinements, model>>

\* a rejected step may be corrected with the augmented Jacobian at hand
Correct ==
  /\ tpPc = "step"
  /\ tpPc' = "corrected"
  /\ UNCHANGED <<settings, roundVars, penaltyVars, lpVars, stepVars, newtonVars,
                 tries, refinements, model>>

\* the end of perform_iteration: the penalty parameter is taken over
Finish(v) ==
  /\ tpPc \in {"step", "corrected"}
  /\ version' = v
  /\ outerPenalty' = penalty
  /\ tpPc' = "prepare"
  /\ UNCHANGED <<settings, round, residuum, feasibleSteps, resets, penaltyVars, lpVars,
                 stepVars, newtonVars, tries, refinements, model>>

Accept == Finish(version + 1)
RejectTrial == Finish(version)

Finished ==
  /\ tpPc = "crashed" \/ (tpPc = "prepare" /\ round = MaxRounds)
  /\ UNCHANGED tpVars

-----------------------------------------------------------------------------
Compute ==
  \/ SolveLinear \/ KeepPenalty \/ ResetPenalty \/ SolveFeasibility \/ NoProgress
  \/ IncreasePenalty \/ Reread \/ Factorize \/ ScaleStep \/ BeginSearch \/ SearchForward
  \/ EndForward \/ SearchBackward \/ ScaleExhausted \/ ScaleUnset \/ Assemble \/ ComputeTrialPoint
  \/ Accurate \/ Refine

TpNext == \/ Prepare \/ Compute \/ StopAtInfeasible \/ CountReset \/ Correct \/ Accept
          \/ RejectTrial
        \/ Finished

TpSpec == TpInit /\ [][TpNext]_tpVars /\ WF_tpVars(Compute)
-----------------------------------------------------------------------------
(* Properties                                                              *)

PCs == {"prepare", "linear", "penalty", "feasibility", "increase", "reread", "factorize",
        "cauchy", "search", "forward", "backward", "exhausted", "assemble",
        "model", "accuracy", "decide", "step", "corrected", "crashed"}

\* Every variable has the type its comment gives it.
TpTypeOK ==
  /\ settings \in Configurations /\ tpPc \in PCs
  /\ round \in Nat /\ version \in Nat \ {0}
  /\ residuum \in [version : Nat, small : BOOLEAN]
  /\ outerPenalty \in Nat \ {0} /\ feasibleSteps \in Nat /\ resets \in Nat
  /\ penalty \in Nat /\ weights \in Nat /\ lowered \in Nat
  /\ merit \in Merits /\ model \in Merits /\ cauchyMerit \in Merits
  /\ allowReset \in BOOLEAN /\ performedReset \in BOOLEAN /\ exponent \in Int
  /\ lp \in [round : Nat, version : Nat, exponent : Int, solution : Solutions,
             useReduced : BOOLEAN, dirty : SUBSET Components,
             stats : Solutions, primal : Solutions]
  /\ lpStep \in Solutions /\ lpSet \in LpWorkingSets
  /\ cauchy \in Directions /\ lastDirection \in Directions
  /\ aug \in Factors /\ eqp \in EqpInputs /\ multipliers \in Multipliers
  /\ search \in SearchInputs
  /\ tries \in Nat /\ refinements \in 0 .. MaxRefinements
  /\ tpPc = "increase" => tries < MaxIncreases
  /\ tpPc \in {"forward", "backward"} => tries < MaxResolves

\* The trial point has been computed or is about to be computed from the
\* Cauchy direction.
Late == {"model", "accuracy", "decide", "step", "corrected"}

\* the radius and the iterate of a solution are the current ones
OfIterate(s) == s.round = round /\ s.version = version

\* the same LP, solved for a penalty parameter that was reset since or not
SameLP(s, t) ==
  /\ s.round = t.round /\ s.version = t.version /\ s.exponent = t.exponent
  /\ s.objective = t.objective
  /\ performedReset \/ s.penalty = t.penalty

\* The Cauchy step and the working set come from the same LP solution, that of
\* the current iterate, radius and penalty parameter (unless that was just
\* reset), and never from the LP that only minimizes the violation
\* (compute_cauchy_direction, compute_cauchy_step_parametric).
StepFromLP ==
  tpPc \in Late =>
    /\ OfIterate(cauchy.step)
    /\ cauchy.step.objective = "merit"
    /\ performedReset \/ cauchy.step.penalty = penalty
    /\ IF settings.parametric THEN SameLP(lpSet.from, cauchy.step) ELSE lpSet.from = cauchy.step

\* The factorization in use, that of the Newton step and of a second-order
\* correction, is that of the iterate's working set and Jacobian, also where
\* one of an earlier iterate is reused (aug_jac_set_iterate).
FactorizationFits ==
  tpPc \in Late =>
    /\ aug.set = lpSet.set
    /\ settings.linear \/ aug.version = version

\* The Newton step and the line search towards it are computed for the current
\* iterate, radius, penalty parameter and working set; the multipliers are
\* those of the iterate, and those of its working set unless the parametric
\* search has changed it; LP duals belong to the LP of the working set or to
\* the one that could not make it more feasible (estimate_dual_values).
NewtonInputsFit ==
  tpPc = "model" =>
    /\ eqp = EqpAt(lpSet, aug)
    /\ settings.model = "newton" => search = SearchAt
    /\ multipliers.version = version /\ multipliers.penalty = penalty
    /\ settings.parametric \/ multipliers.lpSet = lpSet
    /\ multipliers.lp # NoSolution =>
         /\ OfIterate(multipliers.lp)
         /\ \/ multipliers.lp.objective = "feasibility"
            \/ multipliers.lp.penalty = penalty
            \/ performedReset

\* The parametric search has tried every radius: it reduced the last one, too.
Exhausted == settings.parametric /\ lp.exponent > exponent

\* The merit value compared with the model is that of the iterate at the
\* penalty parameter of the model, also after a change of the parameter and
\* after a reevaluation, and so are the weights a dynamic function is given;
\* compute_cauchy_direction asserts it when it begins.  The model value fits
\* them unless the parametric search was exhausted: then a trial point at the
\* Cauchy end of the line to the Newton step has a model value of the iterate
\* and penalty parameter of the line search before this one, possibly of an
\* earlier iterate (search_backtracking, compute_trial_point_newton).
MeritCurrent ==
  /\ tpPc \in {"linear", "cauchy", "search", "assemble"} \cup Late => merit = MeritAt(version, penalty)
  /\ tpPc \in {"linear"} \cup Late => weights = WeightsAt(penalty)
  /\ tpPc \in Late \ {"model"} =>
       \/ model = MeritAt(version, penalty)
       \/ /\ Exhausted /\ settings.model = "newton"
          /\ model = cauchyMerit /\ model.version \in 1 .. version /\ model.penalty # Never

\* All products of the Cauchy direction are those of its step, with the current
\* derivatives and multipliers: the assertions on direction_valid in
\* compute_trial_point_newton and compute_trial_point_deterministic.
CauchyDirectionValid == tpPc \in Late => cauchy = DirectionOf(cauchy.step)

\* It holds where the parametric search is not used.
DirectionsAgree == settings.parametric \/ CauchyDirectionValid

\* Every reset of the penalty parameter happens at a feasible iterate after
\* NumResetSteps feasible iterations and is counted, so that there are at most
\* MaxResets (unless a dynamic function has one iteration computed again).
ResetsCounted ==
  tpPc = "prepare" /\ ~settings.dynamic =>
    /\ lowered = resets
    /\ resets <= MaxResets
    /\ resets * NumResetSteps <= round

\* The computation of a trial point ends: the loops over penalty parameters and
\* radii do, and so does the refinement of a function that gets accurate.  Where
\* the parametric search is exhausted before there was a line search, in the
\* first iteration, the program ends instead.
TrialPointComputed == tpPc = "linear" ~> tpPc = "decide" \/ (tpPc = "crashed" /\ round = 1)
=============================================================================
