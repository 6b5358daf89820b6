-------------------------- MODULE TrialPointProofs --------------------------
(***************************************************************************)
(* Proofs about TrialPoint for every set of configurations, every set of   *)
(* working sets and all bounds on loops, resets, iterations and            *)
(* reevaluations.                                                          *)
(*                                                                         *)
(* The properties speak of the places where the trial point is computed.   *)
(* What is used there was cached many steps before, so the inductive       *)
(* invariant IInv says for every place which of the cached values are      *)
(* current: what the linear program was last solved for and whether its    *)
(* buffers can still be read, which step and working set were taken from   *)
(* it, what the factorization, the EQP solver and the multipliers were     *)
(* computed from, what the merit value is of, and how far the accounts of  *)
(* the resets of the penalty parameter have come.  Each part has a lemma   *)
(* <Part>Step with one case per action that disturbs it.                   *)
(***************************************************************************)
EXTENDS TrialPoint, TLAPS

\* the linear program with its interfaces and buffers
Programs ==
  [round : Nat, version : Nat, exponent : Int, solution : Solutions,
   useReduced : BOOLEAN, dirty : SUBSET Components, stats : Solutions, primal : Solutions]

\* a buffer that is filled before it is read, or holds the active solution
Readable(l, component, value) == component \in l.dirty \/ value = Active(l)
BothReadable(l) == Readable(l, "stats", l.stats) /\ Readable(l, "primal", l.primal)

\* the solution of the LP of the merit function at the current parameters
Trusted(s) == OfIterate(s) /\ s.objective = "merit" /\ (performedReset \/ s.penalty = penalty)

SolutionAt(l, p, objective) ==
  [round |-> l.round, version |-> l.version, exponent |-> l.exponent,
   penalty |-> p, objective |-> objective, reduced |-> FALSE]

\* LP duals that may serve as multipliers
Usable(s) ==
  s # NoSolution => /\ OfIterate(s)
                    /\ s.objective = "feasibility" \/ s.penalty = penalty \/ performedReset
-----------------------------------------------------------------------------
(* Constants used as "nothing yet" have the types of the values.           *)
LEMMA NothingTyped ==
  /\ NoSolution \in Solutions /\ NoWorkingSet \in LpWorkingSets /\ NoFactor \in Factors
  /\ EqpInit \in EqpInputs /\ NoMultipliers \in Multipliers /\ NoDirection \in Directions
<1>1. NoSolution \in Solutions
  BY DEF NoSolution, Solutions, Never
<1>2. AnySet \in LpSets
  BY SetsAssumption DEF AnySet
<1>3. NoWorkingSet \in LpWorkingSets
  BY <1>1, <1>2 DEF NoWorkingSet, LpWorkingSets
<1>4. NoFactor \in Factors
  BY <1>2 DEF NoFactor, Factors, Never
<1>5. EqpInit \in EqpInputs
  BY <1>3, <1>4 DEF EqpInit, EqpInputs, Never
<1>6. NoMultipliers \in Multipliers
  BY <1>1, <1>3 DEF NoMultipliers, Multipliers, Never
<1>7. NoDirection \in Directions
  BY <1>1, <1>6 DEF NoDirection, Directions
<1> QED
  BY <1>1, <1>3, <1>4, <1>5, <1>6, <1>7

(* Fields of the records.                                                  *)
LEMMA Fields ==
  /\ \A l \in Programs :
       /\ l.round \in Nat /\ l.version \in Nat /\ l.exponent \in Int /\ l.solution \in Solutions
       /\ l.useReduced \in BOOLEAN /\ l.dirty \subseteq Components
       /\ l.stats \in Solutions /\ l.primal \in Solutions
  /\ \A s \in Solutions :
       /\ s.round \in Nat /\ s.version \in Nat /\ s.exponent \in Int /\ s.penalty \in Nat
       /\ s.objective \in {"merit", "feasibility"} /\ s.reduced \in BOOLEAN
  /\ \A w \in LpWorkingSets : w.from \in Solutions /\ w.set \in LpSets
  /\ \A d \in Directions : d.step \in Solutions /\ d.linear \in Solutions
BY DEF Programs, Solutions, LpWorkingSets, Directions

(* The solution that is read is the solution of the default interface up   *)
(* to the mark of the reduced problem.                                     *)
LEMMA ActiveSolution ==
  ASSUME NEW l \in Programs
  PROVE  /\ Active(l) \in Solutions
         /\ Active(l).round = l.solution.round /\ Active(l).version = l.solution.version
         /\ Active(l).exponent = l.solution.exponent /\ Active(l).penalty = l.solution.penalty
         /\ Active(l).objective = l.solution.objective
BY Fields DEF Active, Solutions

(* Solving the default interface.                                          *)
LEMMA SolvedProgram ==
  ASSUME NEW l \in Programs, NEW p \in Nat, NEW objective \in {"merit", "feasibility"}
  PROVE  LET s == Solved(l, p, objective)
         IN  /\ s \in Programs
             /\ s.round = l.round /\ s.version = l.version /\ s.exponent = l.exponent
             /\ s.solution = SolutionAt(l, p, objective)
             /\ s.dirty = Components
<1>1. SolutionAt(l, p, objective) \in Solutions
  BY Fields DEF SolutionAt, Solutions
<1> QED
  BY <1>1 DEF Solved, Programs, SolutionAt

(* Reading the buffers.                                                    *)
LEMMA FetchedProgram ==
  ASSUME NEW l \in Programs, NEW components \in SUBSET Components
  PROVE  LET f == Fetched(l, components)
         IN  /\ f \in Programs
             /\ f.round = l.round /\ f.version = l.version /\ f.exponent = l.exponent
             /\ f.solution = l.solution /\ Active(f) = Active(l)
             /\ Readable(l, "stats", l.stats) => Readable(f, "stats", f.stats)
             /\ Readable(l, "primal", l.primal) => Readable(f, "primal", f.primal)
             /\ "stats" \in components /\ Readable(l, "stats", l.stats) => f.stats = Active(l)
             /\ "primal" \in components /\ Readable(l, "primal", l.primal) => f.primal = Active(l)
<1> DEFINE stats == IF "stats" \in components \cap l.dirty THEN Active(l) ELSE l.stats
           primal == IF "primal" \in components \cap l.dirty THEN Active(l) ELSE l.primal
           f == Fetched(l, components)
<1>1. stats \in Solutions /\ primal \in Solutions
  BY Fields, ActiveSolution
<1>2. f = [l EXCEPT !.stats = stats, !.primal = primal, !.dirty = l.dirty \ components]
  BY DEF Fetched, Programs
<1>3. f \in Programs
  BY <1>1, <1>2 DEF Programs
<1>4. /\ f.round = l.round /\ f.version = l.version /\ f.exponent = l.exponent
      /\ f.solution = l.solution /\ f.useReduced = l.useReduced
      /\ f.stats = stats /\ f.primal = primal /\ f.dirty = l.dirty \ components
  BY <1>2 DEF Programs
<1>5. Active(f) = Active(l)
  BY <1>4 DEF Active
<1> QED
  BY <1>3, <1>4, <1>5 DEF Readable

(* Solving the LP of the merit function, with or without the reduced       *)
(* problem, leaves buffers that can be read.                               *)
LEMMA SolvedDefaultProgram ==
  ASSUME NEW l \in Programs, NEW p \in Nat, NEW reduce \in BOOLEAN
  PROVE  LET s == SolvedDefault(l, p, reduce)
         IN  /\ s \in Programs
             /\ s.round = l.round /\ s.version = l.version /\ s.exponent = l.exponent
             /\ s.solution = SolutionAt(l, p, "merit")
             /\ BothReadable(s)
<1> DEFINE s == Solved(l, p, "merit")
           f == IF settings.resolves THEN Fetched(s, Components) ELSE s
           d == SolvedDefault(l, p, reduce)
<1>1. /\ s \in Programs
      /\ s.round = l.round /\ s.version = l.version /\ s.exponent = l.exponent
      /\ s.solution = SolutionAt(l, p, "merit")
      /\ BothReadable(s)
  BY SolvedProgram DEF Readable, BothReadable, Components
<1> HIDE DEF s
<1>2. /\ f \in Programs
      /\ f.round = l.round /\ f.version = l.version /\ f.exponent = l.exponent
      /\ f.solution = SolutionAt(l, p, "merit")
      /\ BothReadable(f)
  BY <1>1, FetchedProgram DEF BothReadable
<1> HIDE DEF f
<1>3. d = IF reduce THEN [f EXCEPT !.useReduced = TRUE, !.dirty = Components] ELSE f
  BY DEF SolvedDefault, f, s
<1>4. CASE reduce
  BY <1>2, <1>3, <1>4 DEF Programs, Readable, BothReadable, Components
<1>5. CASE ~reduce
  BY <1>2, <1>3, <1>5
<1> QED
  BY <1>4, <1>5

(* The violation of a step is computed in the primal buffer.               *)
LEMMA ViolatedProgram ==
  ASSUME NEW l \in Programs
  PROVE  LET v == Violated(l)
         IN  /\ v \in Programs
             /\ v.round = l.round /\ v.version = l.version /\ v.exponent = l.exponent
             /\ v.solution = l.solution /\ v.dirty = l.dirty
BY Fields DEF Violated, Programs

(* The bounds and coefficients of an iterate and of a radius.              *)
LEMMA PlacedProgram ==
  ASSUME NEW l \in Programs
  PROVE  /\ \A e \in Int :
              LET a == AtRadius(l, e)
              IN  /\ a \in Programs /\ a.round = l.round /\ a.version = l.version
                  /\ a.exponent = e
         /\ round \in Nat /\ version \in Nat /\ exponent \in Int =>
              LET a == AtIterate(l)
              IN  /\ a \in Programs /\ a.round = round /\ a.version = version
                  /\ a.exponent = exponent
BY DEF AtRadius, AtIterate, Programs
-----------------------------------------------------------------------------
(* The inductive invariant                                                 *)

ScalarTypes ==
  /\ settings \in Configurations /\ tpPc \in PCs
  /\ round \in Nat /\ version \in Nat \ {0}
  /\ residuum \in [version : Nat, small : BOOLEAN]
  /\ outerPenalty \in Nat \ {0} /\ feasibleSteps \in Nat /\ resets \in Nat
  /\ penalty \in Nat /\ weights \in Nat /\ lowered \in Nat
  /\ merit \in Merits /\ model \in Merits /\ cauchyMerit \in Merits
  /\ allowReset \in BOOLEAN /\ performedReset \in BOOLEAN /\ exponent \in Int

LoopTypes ==
  /\ tries \in Nat /\ refinements \in 0 .. MaxRefinements
  /\ tpPc = "increase" => tries < MaxIncreases
  /\ tpPc \in {"forward", "backward"} => tries < MaxResolves

CacheTypes ==
  /\ lp \in Programs /\ lpStep \in Solutions /\ lpSet \in LpWorkingSets
  /\ cauchy \in Directions /\ lastDirection \in Directions
  /\ aug \in Factors /\ eqp \in EqpInputs /\ multipliers \in Multipliers
  /\ search \in SearchInputs

Searching == {"search", "forward", "backward", "exhausted", "assemble"}
Factored == {"cauchy"} \cup Searching \cup Late

(* What the places say of the settings.                                    *)
Places ==
  /\ tpPc # "prepare" => penalty # Never
  /\ tpPc \in Searching => settings.parametric
  /\ tpPc = "cauchy" => ~settings.parametric
  /\ tpPc = "accuracy" => settings.dynamic

(* The merit value and the weights are current except while the penalty    *)
(* parameter changes; the model value is once it is computed, or that of   *)
(* the Cauchy step.                                                        *)
Measures ==
  /\ tpPc \notin {"prepare", "increase", "reread"} =>
       merit = MeritAt(version, penalty) /\ weights = WeightsAt(penalty)
  /\ tpPc = "prepare" => penalty = Never \/ weights = WeightsAt(penalty)
  /\ tpPc \in Late \ {"model"} =>
       \/ model = MeritAt(version, penalty)
       \/ settings.model = "newton" /\ model = cauchyMerit

(* The line search was set to an iterate and a penalty parameter, or never. *)
SearchPlaced ==
  /\ search.version <= version
  /\ search.version # Never => search.penalty # Never

(* The model value of the Cauchy step is current unless the parametric     *)
(* search is exhausted.                                                    *)
CauchyValue ==
  /\ tpPc = "forward" => cauchyMerit = MeritAt(version, penalty)
  /\ tpPc = "exhausted" => Exhausted
  /\ tpPc = "assemble" \/ (tpPc \in Late /\ settings.model = "newton") =>
       \/ cauchyMerit = MeritAt(version, penalty)
       \/ Exhausted /\ cauchyMerit.version \in 1 .. version /\ cauchyMerit.penalty # Never

Factorization ==
  tpPc \in Factored => aug.set = lpSet.set /\ (settings.linear \/ aug.version = version)

(* The LP is that of the iterate, its solution that of the merit function  *)
(* or, after an attempt in vain, that of the least violation.              *)
Program ==
  /\ tpPc \in {"penalty", "feasibility", "increase", "reread", "factorize", "cauchy"} \cup Searching =>
       lp.round = round /\ lp.version = version
  /\ tpPc \in {"penalty", "feasibility", "increase", "reread", "factorize", "cauchy", "search"} =>
       lp.exponent = exponent /\ OfIterate(lp.solution)
  /\ tpPc \in {"penalty", "reread"} =>
       Trusted(lp.solution) /\ lp.solution.exponent = exponent /\ BothReadable(lp)
  /\ tpPc = "feasibility" => lp.solution.objective = "feasibility"
  /\ tpPc = "factorize" => Usable(lp.solution)

(* Step and working set of the LP.                                         *)
Linear ==
  tpPc \in {"penalty", "feasibility", "factorize", "cauchy", "search"} =>
    lpSet.from = lpStep /\ Trusted(lpStep) /\ lpStep.exponent = exponent

(* Step and buffers of the parametric search: the step kept is that of the *)
(* radius before, and what will be read is of the radius of the step.      *)
Parametric ==
  /\ tpPc = "forward" => Trusted(lastDirection.step) /\ lastDirection.step.exponent = exponent - 1
  /\ tpPc \in {"exhausted", "assemble"} =>
       /\ Trusted(cauchy.step) /\ SameLP(Active(lp), cauchy.step)
       /\ Readable(lp, "stats", lp.stats)

(* The EQP solver and the multipliers.                                     *)
Newton ==
  /\ tpPc \in {"cauchy"} \cup Searching => eqp = EqpAt(lpSet, aug) /\ multipliers.lpSet = lpSet
  /\ tpPc \in {"cauchy", "model"} \cup Searching =>
       /\ multipliers.version = version /\ multipliers.penalty = penalty
       /\ Usable(multipliers.lp)

(* A reset is allowed after NumResetSteps feasible iterations, performed   *)
(* at a feasible one and booked at the end of the iteration.               *)
Accounts ==
  /\ resets <= MaxResets /\ feasibleSteps + resets * NumResetSteps <= round
  /\ tpPc \notin {"prepare", "step", "corrected"} =>
       /\ allowReset => feasibleSteps >= NumResetSteps /\ resets < MaxResets
       /\ performedReset => allowReset /\ residuum.small

Booked ==
  ~settings.dynamic =>
    /\ lowered = IF performedReset /\ tpPc \notin {"prepare", "step", "corrected"}
                 THEN resets + 1 ELSE resets
    /\ tpPc \in {"linear", "penalty"} => ~performedReset

Typed == ScalarTypes /\ LoopTypes /\ CacheTypes

IInv ==
  /\ Typed /\ Places /\ Measures /\ SearchPlaced /\ CauchyValue /\ Factorization
  /\ Program /\ Linear /\ Parametric /\ Newton
  /\ StepFromLP /\ NewtonInputsFit /\ DirectionsAgree /\ Accounts /\ Booked
-----------------------------------------------------------------------------
(* The parts of the type invariant together.                               *)
LEMMA TypedIsTypeOK == Typed => TpTypeOK
BY DEF Typed, ScalarTypes, LoopTypes, CacheTypes, TpTypeOK, Programs

(* The LP solved at the iterate, its step and its working set.             *)
LEMMA SolveLinearEffect ==
  ASSUME Typed, SolveLinear
  PROVE  /\ lp' \in Programs
         /\ lp'.round = round /\ lp'.version = version /\ lp'.exponent = exponent
         /\ lp'.solution.round = round /\ lp'.solution.version = version
         /\ lp'.solution.exponent = exponent /\ lp'.solution.penalty = penalty
         /\ lp'.solution.objective = "merit" /\ BothReadable(lp')
         /\ lpStep' = Active(lp') /\ lpSet' \in LpWorkingSets /\ lpSet'.from = Active(lp')
<1>1. PICK reduce \in Reductions, set \in LpSets :
        LET l == Fetched(SolvedDefault(AtIterate(lp), penalty, reduce), Components)
        IN  /\ lp' = l
            /\ lpStep' = l.primal
            /\ lpSet' = ReadWorkingSet(l, set)
  BY DEF SolveLinear
<1> DEFINE a == AtIterate(lp)
           s == SolvedDefault(a, penalty, reduce)
<1>2. a \in Programs /\ a.round = round /\ a.version = version /\ a.exponent = exponent
  BY PlacedProgram DEF Typed, CacheTypes, ScalarTypes
<1>3. reduce \in BOOLEAN /\ penalty \in Nat
  BY DEF Reductions, Typed, ScalarTypes
<1> HIDE DEF a
<1>4. s \in Programs /\ s.round = round /\ s.version = version /\ s.exponent = exponent
      /\ s.solution = SolutionAt(a, penalty, "merit") /\ BothReadable(s)
  BY <1>2, <1>3, SolvedDefaultProgram
<1>5. lp' = Fetched(s, Components) /\ lpStep' = lp'.primal /\ lpSet' = ReadWorkingSet(lp', set)
  BY <1>1 DEF a
<1> HIDE DEF s
<1>6. /\ lp' \in Programs
      /\ lp'.round = round /\ lp'.version = version /\ lp'.exponent = exponent
      /\ lp'.solution = s.solution /\ BothReadable(lp')
      /\ lp'.primal = Active(lp') /\ lp'.stats = Active(lp')
  BY <1>4, <1>5, FetchedProgram DEF BothReadable, Components
<1>7. lpSet' \in LpWorkingSets /\ lpSet'.from = Active(lp')
  BY <1>5, <1>6, Fields DEF ReadWorkingSet, LpWorkingSets
<1> QED
  BY <1>2, <1>4, <1>5, <1>6, <1>7 DEF SolutionAt

(* The violation of the LP step, when the penalty parameter is kept.       *)
LEMMA KeepPenaltyEffect ==
  ASSUME Typed, KeepPenalty
  PROVE  /\ lp' \in Programs
         /\ lp'.round = lp.round /\ lp'.version = lp.version /\ lp'.exponent = lp.exponent
         /\ lp'.solution = lp.solution
BY ViolatedProgram DEF KeepPenalty, Typed, CacheTypes

(* The LP of the least violation.                                          *)
LEMMA SolveFeasibilityEffect ==
  ASSUME Typed, SolveFeasibility
  PROVE  /\ lp' \in Programs
         /\ lp'.round = lp.round /\ lp'.version = lp.version /\ lp'.exponent = lp.exponent
         /\ lp'.solution.round = lp.round /\ lp'.solution.version = lp.version
         /\ lp'.solution.objective = "feasibility"
<1> DEFINE v == Violated(lp)
           s == Solved(v, penalty, "feasibility")
<1>1. v \in Programs /\ v.round = lp.round /\ v.version = lp.version /\ v.exponent = lp.exponent
  BY ViolatedProgram DEF Typed, CacheTypes
<1>2. penalty \in Nat
  BY DEF Typed, ScalarTypes
<1> HIDE DEF v
<1>3. s \in Programs /\ s.round = v.round /\ s.version = v.version /\ s.exponent = v.exponent
      /\ s.solution = SolutionAt(v, penalty, "feasibility")
  BY <1>1, <1>2, SolvedProgram
<1>4. lp' = Violated(s)
  BY DEF SolveFeasibility, s, v
<1> HIDE DEF s
<1> QED
  BY <1>1, <1>3, <1>4, ViolatedProgram DEF SolutionAt

(* The LP at an increased penalty parameter.                               *)
LEMMA IncreasePenaltyEffect ==
  ASSUME Typed, IncreasePenalty
  PROVE  /\ lp' \in Programs /\ penalty' = penalty + 1
         /\ lp'.round = lp.round /\ lp'.version = lp.version /\ lp'.exponent = lp.exponent
         /\ lp'.solution.round = lp.round /\ lp'.solution.version = lp.version
         /\ lp'.solution.exponent = lp.exponent /\ lp'.solution.penalty = penalty'
         /\ lp'.solution.objective = "merit" /\ BothReadable(lp')
<1> DEFINE s == Solved(lp, penalty', "merit")
<1>1. penalty' = penalty + 1 /\ penalty' \in Nat /\ lp \in Programs
  BY DEF IncreasePenalty, Typed, ScalarTypes, CacheTypes
<1>2. s \in Programs /\ s.round = lp.round /\ s.version = lp.version /\ s.exponent = lp.exponent
      /\ s.solution = SolutionAt(lp, penalty', "merit") /\ s.dirty = Components
  BY <1>1, SolvedProgram
<1>3. lp' = Violated(s)
  BY DEF IncreasePenalty
<1> HIDE DEF s
<1>4. /\ lp' \in Programs /\ lp'.solution = s.solution /\ lp'.dirty = Components
      /\ lp'.round = s.round /\ lp'.version = s.version /\ lp'.exponent = s.exponent
  BY <1>2, <1>3, ViolatedProgram
<1>5. BothReadable(lp')
  BY <1>4 DEF BothReadable, Readable, Components
<1> QED
  BY <1>1, <1>2, <1>4, <1>5 DEF SolutionAt

(* Step and working set taken again.                                       *)
LEMMA RereadEffect ==
  ASSUME Typed, Reread
  PROVE  /\ lp' \in Programs
         /\ lp'.round = lp.round /\ lp'.version = lp.version /\ lp'.exponent = lp.exponent
         /\ lp'.solution = lp.solution /\ lpStep' \in Solutions /\ lpSet' \in LpWorkingSets
         /\ BothReadable(lp) => lpStep' = Active(lp) /\ lpSet'.from = Active(lp)
<1>1. PICK set \in LpSets : /\ lp' = Fetched(lp, Components) /\ lpStep' = lp'.primal
                          /\ lpSet' = ReadWorkingSet(lp', set)
  BY DEF Reread
<1>2. /\ lp' \in Programs /\ lp'.solution = lp.solution
      /\ lp'.round = lp.round /\ lp'.version = lp.version /\ lp'.exponent = lp.exponent
      /\ BothReadable(lp) => lp'.primal = Active(lp) /\ lp'.stats = Active(lp)
  BY <1>1, FetchedProgram DEF BothReadable, Components, Typed, CacheTypes
<1>3. lpSet' \in LpWorkingSets /\ lpSet'.from = lp'.stats
  BY <1>1, <1>2, Fields DEF ReadWorkingSet, LpWorkingSets
<1> QED
  BY <1>1, <1>2, <1>3, Fields

(* Factorization, EQP solver and multipliers of the working set.           *)
LEMMA RefactoredFits ==
  ASSUME Typed, NEW w \in LpWorkingSets
  PROVE  LET f == Refactored(w)
         IN  /\ f \in Factors /\ f.set = w.set
             /\ settings.linear \/ f.version = version
BY Fields DEF Refactored, Typed, CacheTypes, ScalarTypes, Factors

(* Multipliers of constraints come from the LP solved last or not from one.*)
LEMMA DualSourcesOf ==
  ASSUME Typed, NEW source \in DualSources
  PROVE  source = NoSolution \/ source = lp.solution
<1>1. settings.duals \in {"lsq", "lp", "mixed"}
  BY ConfigurationAssumption DEF Typed, ScalarTypes, AllConfigurations
<1> QED
  BY <1>1 DEF DualSources

(* A solution at one radius of the parametric search.                      *)
LEMMA RadiusSolved ==
  ASSUME Typed, NEW l \in Programs, NEW e \in Int, NEW reduce \in Reductions
  PROVE  LET s == SolvedDefault(AtRadius(l, e), penalty, reduce)
         IN  /\ s \in Programs /\ s.round = l.round /\ s.version = l.version /\ s.exponent = e
             /\ s.solution.round = l.round /\ s.solution.version = l.version
             /\ s.solution.exponent = e /\ s.solution.penalty = penalty
             /\ s.solution.objective = "merit" /\ BothReadable(s)
<1> DEFINE a == AtRadius(l, e)
<1>1. a \in Programs /\ a.round = l.round /\ a.version = l.version /\ a.exponent = e
  BY PlacedProgram
<1>2. penalty \in Nat /\ reduce \in BOOLEAN
  BY DEF Typed, ScalarTypes, Reductions
<1> HIDE DEF a
<1>3. LET s == SolvedDefault(a, penalty, reduce)
      IN  /\ s \in Programs /\ s.round = l.round /\ s.version = l.version /\ s.exponent = e
          /\ s.solution = SolutionAt(a, penalty, "merit") /\ BothReadable(s)
  BY <1>1, <1>2, SolvedDefaultProgram
<1> QED
  BY <1>1, <1>3 DEF SolutionAt, a

(* The same, with the step read.                                           *)
LEMMA RadiusFetched ==
  ASSUME Typed, NEW l \in Programs, NEW e \in Int, NEW reduce \in Reductions
  PROVE  LET f == Fetched(SolvedDefault(AtRadius(l, e), penalty, reduce), {"primal"})
         IN  /\ f \in Programs /\ f.round = l.round /\ f.version = l.version /\ f.exponent = e
             /\ f.solution.round = l.round /\ f.solution.version = l.version
             /\ f.solution.exponent = e /\ f.solution.penalty = penalty
             /\ f.solution.objective = "merit" /\ BothReadable(f) /\ f.primal = Active(f)
<1> DEFINE s == SolvedDefault(AtRadius(l, e), penalty, reduce)
<1>1. /\ s \in Programs /\ s.round = l.round /\ s.version = l.version /\ s.exponent = e
      /\ s.solution.round = l.round /\ s.solution.version = l.version
      /\ s.solution.exponent = e /\ s.solution.penalty = penalty
      /\ s.solution.objective = "merit" /\ BothReadable(s)
  BY RadiusSolved
<1>2. {"primal"} \in SUBSET Components
  BY DEF Components
<1> HIDE DEF s
<1>3. LET f == Fetched(s, {"primal"})
      IN  /\ f \in Programs /\ f.round = l.round /\ f.version = l.version /\ f.exponent = e
          /\ f.solution = s.solution /\ BothReadable(f) /\ f.primal = Active(f)
  BY <1>1, <1>2, FetchedProgram DEF BothReadable
<1> QED
  BY <1>1, <1>3 DEF s

(* The first LP of the search is at the next radius, further ones at the   *)
(* radius the search has come to.                                          *)
LEMMA SearchForwardEffect ==
  ASSUME Typed, SearchForward
  PROVE  /\ lp' \in Programs /\ lp'.round = lp.round /\ lp'.version = lp.version
         /\ lp'.solution.round = lp.round /\ lp'.solution.version = lp.version
         /\ lp'.solution.exponent = exponent /\ lp'.solution.penalty = penalty
         /\ lp'.solution.objective = "merit" /\ BothReadable(lp')
         /\ cauchy' \in Directions /\ cauchy'.step = Active(lp') /\ lastDirection' = cauchy'
<1>1. PICK reduce \in Reductions :
        lp' = Fetched(SolvedDefault(AtRadius(lp, exponent), penalty, reduce), {"primal"})
  BY DEF SearchForward
<1>2. /\ lp' \in Programs /\ lp'.round = lp.round /\ lp'.version = lp.version
      /\ lp'.solution.round = lp.round /\ lp'.solution.version = lp.version
      /\ lp'.solution.exponent = exponent /\ lp'.solution.penalty = penalty
      /\ lp'.solution.objective = "merit" /\ BothReadable(lp') /\ lp'.primal = Active(lp')
  BY <1>1, RadiusFetched DEF Typed, CacheTypes, ScalarTypes
<1>3. cauchy' = ForwardDirection(lp') /\ lastDirection' = cauchy'
  BY DEF SearchForward
<1>4. cauchy' \in Directions /\ cauchy'.step = lp'.primal
  BY <1>2, <1>3, Fields DEF ForwardDirection, Directions, Typed, CacheTypes
<1> QED
  BY <1>2, <1>3, <1>4

(* When it ends, the LP at the radius before is solved again.              *)
LEMMA EndForwardEffect ==
  ASSUME Typed, EndForward
  PROVE  /\ lp' \in Programs /\ lp'.round = lp.round /\ lp'.version = lp.version
         /\ lp'.solution.round = lp.round /\ lp'.solution.version = lp.version
         /\ lp'.solution.exponent = exponent - 1 /\ lp'.solution.penalty = penalty
         /\ lp'.solution.objective = "merit" /\ BothReadable(lp')
<1>1. PICK reduce1 \in Reductions, reduce2 \in Reductions :
        LET l == Fetched(SolvedDefault(AtRadius(lp, exponent), penalty, reduce1), {"primal"})
        IN  lp' = SolvedDefault(AtRadius(l, exponent - 1), penalty, reduce2)
  BY DEF EndForward
<1> DEFINE l == Fetched(SolvedDefault(AtRadius(lp, exponent), penalty, reduce1), {"primal"})
<1>2. exponent \in Int /\ exponent - 1 \in Int /\ lp \in Programs
  BY DEF Typed, CacheTypes, ScalarTypes
<1>3. l \in Programs /\ l.round = lp.round /\ l.version = lp.version
  BY <1>2, RadiusFetched
<1>4. lp' = SolvedDefault(AtRadius(l, exponent - 1), penalty, reduce2)
  BY <1>1
<1> HIDE DEF l
<1> QED
  BY <1>2, <1>3, <1>4, RadiusSolved

(* Backwards, step and LP are of the radius the search has come to.        *)
LEMMA SearchBackwardEffect ==
  ASSUME Typed, SearchBackward
  PROVE  /\ lp' \in Programs /\ lp'.round = lp.round /\ lp'.version = lp.version
         /\ lp'.exponent = exponent
         /\ lp'.solution.round = lp.round /\ lp'.solution.version = lp.version
         /\ lp'.solution.exponent = exponent /\ lp'.solution.penalty = penalty
         /\ lp'.solution.objective = "merit" /\ BothReadable(lp')
         /\ cauchy' \in Directions /\ cauchy'.step = Active(lp')
<1>1. PICK reduce \in Reductions :
        lp' = Fetched(SolvedDefault(AtRadius(lp, exponent), penalty, reduce), {"primal"})
  BY DEF SearchBackward
<1>2. /\ lp' \in Programs /\ lp'.round = lp.round /\ lp'.version = lp.version
      /\ lp'.exponent = exponent
      /\ lp'.solution.round = lp.round /\ lp'.solution.version = lp.version
      /\ lp'.solution.exponent = exponent /\ lp'.solution.penalty = penalty
      /\ lp'.solution.objective = "merit" /\ BothReadable(lp') /\ lp'.primal = Active(lp')
  BY <1>1, RadiusFetched DEF Typed, CacheTypes, ScalarTypes
<1>3. cauchy' = DirectionOf(lp'.primal)
  BY DEF SearchBackward
<1>4. cauchy' \in Directions /\ cauchy'.step = lp'.primal
  BY <1>2, <1>3, Fields DEF DirectionOf, Directions, Typed, CacheTypes
<1> QED
  BY <1>2, <1>4

(* The working set of the radius found.                                    *)
LEMMA AssembleEffect ==
  ASSUME Typed, Assemble
  PROVE  /\ lp' \in Programs /\ lp'.exponent = lp.exponent
         /\ lpSet' \in LpWorkingSets /\ aug' \in Factors
         /\ Readable(lp, "stats", lp.stats) => lpSet'.from = Active(lp)
         /\ aug' = IF lpSet'.set = lpSet.set THEN aug ELSE Refactored(lpSet')
<1>1. PICK set \in LpSets : lpSet' = ReadWorkingSet(lp', set)
  BY DEF Assemble
<1>2. lp' = Fetched(lp, {"stats"}) /\ lp \in Programs /\ {"stats"} \in SUBSET Components
  BY DEF Assemble, Typed, CacheTypes, Components
<1>3. /\ lp' \in Programs /\ lp'.exponent = lp.exponent
      /\ Readable(lp, "stats", lp.stats) => lp'.stats = Active(lp)
  BY <1>2, FetchedProgram
<1>4. lpSet' \in LpWorkingSets /\ lpSet'.from = lp'.stats
  BY <1>1, <1>3, Fields DEF ReadWorkingSet, LpWorkingSets
<1>5. aug' = IF lpSet'.set = lpSet.set THEN aug ELSE Refactored(lpSet')
  BY DEF Assemble
<1>6. aug' \in Factors
  BY <1>4, <1>5, RefactoredFits DEF Typed, CacheTypes
<1> QED
  BY <1>3, <1>4, <1>5, <1>6
-----------------------------------------------------------------------------
(* One step of the loops: the actions one by one.                          *)

(* Numbers, flags and places.                                              *)
LEMMA ScalarTypesStep ==
  ASSUME Typed, Places, [TpNext]_tpVars
  PROVE  ScalarTypes'
<1> USE DEF Typed, ScalarTypes, CacheTypes, SearchInputs, Merits, MeritAt, WeightsAt, PCs,
Never,
    tpVars, roundVars, penaltyVars, lpVars, stepVars, newtonVars
<1>1. CASE Prepare
  <2>1. PICK small \in BOOLEAN :
          /\ residuum' = [version |-> version, small |-> small]
          /\ feasibleSteps' = IF small THEN feasibleSteps + 1 ELSE feasibleSteps
    BY <1>1 DEF Prepare
  <2>2. allowReset' \in BOOLEAN
    BY <1>1, Zenon DEF Prepare
  <2>3. /\ penalty' = outerPenalty /\ merit' = MeritAt(version, outerPenalty)
        /\ weights' = WeightsAt(outerPenalty) \/ weights' = weights
        /\ round' = round + 1 /\ tpPc' = "linear" /\ exponent' = 0 /\ performedReset' = FALSE
        /\ UNCHANGED <<settings, version, outerPenalty, resets, lowered, model, cauchyMerit>>
    BY <1>1, Zenon DEF Prepare
  <2>4. residuum' \in [version : Nat, small : BOOLEAN]
    BY <2>1
  <2>5. feasibleSteps' \in Nat
    BY <2>1
  <2>6. merit' \in Merits /\ model' \in Merits /\ cauchyMerit' \in Merits
    BY <2>3
  <2>7. weights' \in Nat
    BY <2>3
  <2>8. settings' \in Configurations /\ tpPc' \in PCs
    BY <2>3
  <2>9. /\ round' \in Nat /\ version' \in Nat \ {0}
    /\ outerPenalty' \in Nat \ {0} /\ resets' \in Nat
    /\ penalty' \in Nat /\ lowered' \in Nat
    /\ exponent' \in Int
    BY <2>3
  <2> QED
    BY <2>2, <2>3, <2>4, <2>5, <2>6, <2>7, <2>8, <2>9
<1>2. CASE SolveLinear \/ KeepPenalty \/ SolveFeasibility \/ NoProgress
  BY <1>2 DEF SolveLinear, KeepPenalty, SolveFeasibility, NoProgress
<1>3. CASE ResetPenalty
  BY <1>3 DEF ResetPenalty
<1>4. CASE IncreasePenalty \/ Reread
  BY <1>4 DEF IncreasePenalty, Reread
<1>5. CASE \/ Factorize \/ ScaleStep \/ BeginSearch \/ SearchForward \/ EndForward
           \/ SearchBackward \/ ScaleExhausted \/ ScaleUnset \/ Assemble
  BY <1>5 DEF Factorize, ScaleStep, BeginSearch, SearchForward, EndForward, SearchBackward,
    ScaleExhausted, ScaleUnset, Assemble
<1>6. CASE ComputeTrialPoint \/ Accurate \/ Refine
  <2>1. CASE ComputeTrialPoint
    <3>1. model' \in {MeritAt(search.version, search.penalty), cauchyMerit, MeritAt(version, penalty)}
      BY <2>1 DEF ComputeTrialPoint
    <3>2. model' \in Merits
      BY <3>1
    <3> QED
      BY <2>1, <3>2 DEF ComputeTrialPoint
  <2> QED
    BY <1>6, <2>1 DEF Accurate, Refine
<1>7. CASE StopAtInfeasible \/ CountReset \/ Correct \/ Finished
  BY <1>7 DEF StopAtInfeasible, CountReset, Correct, Finished
<1>8. CASE Accept \/ RejectTrial
  <2>1. penalty \in Nat \ {0}
    BY <1>8 DEF Accept, RejectTrial, Finish, Places
  <2> QED
    BY <1>8, <2>1 DEF Accept, RejectTrial, Finish
<1>9. CASE UNCHANGED tpVars
  BY <1>9
<1> QED
  BY <1>1, <1>2, <1>3, <1>4, <1>5, <1>6, <1>7, <1>8, <1>9 DEF TpNext, Compute

(* Loop counters.                                                          *)
LEMMA LoopTypesStep ==
  ASSUME Typed, [TpNext]_tpVars
  PROVE  LoopTypes'
<1> USE DEF Typed, LoopTypes, ScalarTypes, tpVars, roundVars, penaltyVars, lpVars, stepVars,
    newtonVars
<1>1. CASE \/ SolveLinear \/ IncreasePenalty \/ BeginSearch \/ SearchForward
           \/ SearchBackward
  BY <1>1, BoundAssumption DEF SolveLinear, IncreasePenalty, BeginSearch, SearchForward,
    SearchBackward
<1>2. CASE Prepare \/ Refine
  BY <1>2, BoundAssumption DEF Prepare, Refine
<1>3. CASE \/ KeepPenalty \/ ResetPenalty \/ SolveFeasibility \/ NoProgress \/ Reread
           \/ Factorize \/ ScaleStep \/ EndForward \/ ScaleExhausted \/ ScaleUnset \/ Assemble
           \/ ComputeTrialPoint \/ Accurate \/ StopAtInfeasible \/ CountReset \/ Correct \/ Accept
           \/ RejectTrial \/ Finished
  BY <1>3 DEF KeepPenalty, ResetPenalty, SolveFeasibility, NoProgress, Reread, Factorize,
    ScaleStep, EndForward, ScaleExhausted, ScaleUnset, Assemble, ComputeTrialPoint,
    Accurate, StopAtInfeasible,
    CountReset, Correct, Accept, RejectTrial, Finished, Finish
<1>4. CASE UNCHANGED tpVars
  BY <1>4
<1> QED
  BY <1>1, <1>2, <1>3, <1>4 DEF TpNext, Compute

(* Cached values.                                                          *)
LEMMA CacheTypesStep ==
  ASSUME Typed, [TpNext]_tpVars
  PROVE  CacheTypes'
<1> USE DEF Typed, CacheTypes, tpVars, roundVars, penaltyVars, lpVars, stepVars, newtonVars
<1>1. CASE SolveLinear
  BY <1>1, SolveLinearEffect, ActiveSolution DEF SolveLinear
<1>2. CASE KeepPenalty
  BY <1>2, KeepPenaltyEffect DEF KeepPenalty
<1>3. CASE SolveFeasibility
  BY <1>3, SolveFeasibilityEffect DEF SolveFeasibility
<1>4. CASE IncreasePenalty
  BY <1>4, IncreasePenaltyEffect DEF IncreasePenalty
<1>5. CASE Reread
  BY <1>5, RereadEffect DEF Reread
<1>6. CASE Factorize
  <2>1. aug' \in Factors /\ aug' = Refactored(lpSet) /\ eqp' = EqpAt(lpSet, aug')
    BY <1>6, RefactoredFits DEF Factorize
  <2>2. eqp' \in EqpInputs
    BY <2>1 DEF EqpAt, EqpInputs, ScalarTypes
  <2>3. PICK source \in DualSources :
          multipliers' = [lpSet |-> lpSet, version |-> version, penalty |-> penalty, lp |-> source]
    BY <1>6 DEF Factorize
  <2>4. source \in Solutions
    BY <2>3, NothingTyped, Fields, DualSourcesOf
  <2>5. multipliers' \in Multipliers
    BY <2>3, <2>4 DEF Multipliers, ScalarTypes
  <2> QED
    BY <1>6, <2>1, <2>2, <2>5 DEF Factorize
<1>7. CASE ScaleStep \/ BeginSearch
  <2>1. DirectionOf(lpStep) \in Directions /\ SearchAt \in SearchInputs
    BY DEF DirectionOf, Directions, SearchAt, SearchInputs, ScalarTypes
  <2> QED
    BY <1>7, <2>1 DEF ScaleStep, BeginSearch
<1>8. CASE SearchForward
  BY <1>8, SearchForwardEffect DEF SearchForward
<1>9. CASE EndForward
  BY <1>9, EndForwardEffect DEF EndForward
<1>10. CASE SearchBackward
  BY <1>10, SearchBackwardEffect DEF SearchBackward
<1>11. CASE Assemble
  <2>1. lp' \in Programs /\ lpSet' \in LpWorkingSets /\ aug' \in Factors
    BY <1>11, AssembleEffect
  <2>2. EqpAt(lpSet', aug') \in EqpInputs /\ SearchAt \in SearchInputs
    BY <2>1 DEF EqpAt, EqpInputs, SearchAt, SearchInputs, ScalarTypes
  <2> QED
    BY <1>11, <2>1, <2>2 DEF Assemble
<1>12. CASE \/ Prepare \/ ResetPenalty \/ NoProgress \/ ScaleExhausted \/ ScaleUnset
            \/ ComputeTrialPoint \/ Accurate \/ CountReset \/ Correct \/ Accept \/ RejectTrial
            \/ Finished
  BY <1>12 DEF Prepare, ResetPenalty, NoProgress, ScaleExhausted, ScaleUnset,
      ComputeTrialPoint,
    Accurate, CountReset, Correct, Accept, RejectTrial, Finished, Finish
<1>13. CASE Refine \/ StopAtInfeasible
  <2>1. InPlace \in SearchInputs
    BY DEF InPlace, SearchInputs, ScalarTypes
  <2> QED
    BY <1>13, <2>1 DEF Refine, StopAtInfeasible
<1>14. CASE UNCHANGED tpVars
  BY <1>14
<1> QED
  BY <1>1, <1>2, <1>3, <1>4, <1>5, <1>6, <1>7, <1>8, <1>9, <1>10, <1>11, <1>12, <1>13, <1>14
    DEF TpNext, Compute

(* The penalty parameter is set when an iteration begins and never to      *)
(* zero; the parametric search is entered with the parametric solver only. *)
LEMMA PlacesStep ==
  ASSUME Typed, Places, [TpNext]_tpVars
  PROVE  Places'
<1> USE DEF Typed, ScalarTypes, Places, Late, Searching, Never, tpVars, roundVars,
penaltyVars,
    lpVars, stepVars, newtonVars
<1>1. CASE IncreasePenalty \/ ResetPenalty
  BY <1>1 DEF IncreasePenalty, ResetPenalty
<1>2. CASE \/ Prepare \/ SolveLinear \/ KeepPenalty \/ SolveFeasibility \/ NoProgress
           \/ Reread \/ Factorize \/ ScaleStep \/ BeginSearch \/ SearchForward \/ EndForward
           \/ SearchBackward \/ ScaleExhausted \/ ScaleUnset \/ Assemble \/ ComputeTrialPoint \/ Accurate
           \/ Refine \/ StopAtInfeasible \/ CountReset \/ Correct \/ Accept \/ RejectTrial
           \/ Finished
  BY <1>2 DEF Prepare, SolveLinear, KeepPenalty, SolveFeasibility, NoProgress, Reread,
    Factorize, ScaleStep, BeginSearch, SearchForward, EndForward, SearchBackward,
    ScaleExhausted, ScaleUnset, Assemble, ComputeTrialPoint, Accurate, Refine,
    StopAtInfeasible, CountReset,
    Correct, Accept, RejectTrial, Finished, Finish
<1>3. CASE UNCHANGED tpVars
  BY <1>3
<1> QED
  BY <1>1, <1>2, <1>3 DEF TpNext, Compute

(* Merit value, weights and model value: a changed penalty parameter leads *)
(* through Reread, and an iteration that begins hands on the parameter of  *)
(* the last one.                                                           *)
LEMMA MeasuresStep ==
  ASSUME Typed, Places, Measures, NewtonInputsFit, [TpNext]_tpVars
  PROVE  Measures'
<1> USE DEF Typed, ScalarTypes, Places, Measures, Late, MeritAt, WeightsAt, Never, tpVars,
    roundVars, penaltyVars, lpVars, stepVars, newtonVars
<1>1. CASE Prepare
  BY <1>1 DEF Prepare
<1>2. CASE Reread
  BY <1>2 DEF Reread
<1>3. CASE ComputeTrialPoint
  <2>1. \/ model' = MeritAt(version, penalty)
        \/ settings.model = "newton" /\ model' \in {MeritAt(search.version, search.penalty), cauchyMerit}
    BY <1>3 DEF ComputeTrialPoint
  <2> QED
    BY <1>3, <2>1 DEF ComputeTrialPoint, NewtonInputsFit, SearchAt
<1>4. CASE Refine
  BY <1>4 DEF Refine
<1>5. CASE \/ SolveLinear \/ KeepPenalty \/ ResetPenalty \/ SolveFeasibility \/ NoProgress
           \/ IncreasePenalty \/ Factorize \/ ScaleStep \/ BeginSearch \/ SearchForward
           \/ EndForward \/ SearchBackward \/ ScaleExhausted \/ ScaleUnset \/ Assemble \/ Accurate
           \/ StopAtInfeasible \/ CountReset \/ Correct \/ Accept \/ RejectTrial \/ Finished
  BY <1>5 DEF SolveLinear, KeepPenalty, ResetPenalty, SolveFeasibility, NoProgress,
    IncreasePenalty, Factorize, ScaleStep, BeginSearch, SearchForward, EndForward,
    SearchBackward, ScaleExhausted, ScaleUnset, Assemble, Accurate, StopAtInfeasible,
    CountReset, Correct,
    Accept, RejectTrial, Finished, Finish
<1>6. CASE UNCHANGED tpVars
  BY <1>6
<1> QED
  BY <1>1, <1>2, <1>3, <1>4, <1>5, <1>6 DEF TpNext, Compute

(* What the line search was set to.                                        *)
LEMMA SearchPlacedStep ==
  ASSUME Typed, Places, SearchPlaced, [TpNext]_tpVars
  PROVE  SearchPlaced'
<1> USE DEF Typed, ScalarTypes, CacheTypes, SearchInputs, SearchPlaced, SearchAt, Never,
tpVars,
    roundVars, penaltyVars, lpVars, stepVars, newtonVars
<1>1. CASE ScaleStep
  BY <1>1 DEF ScaleStep, Places
<1>2. CASE Assemble
  BY <1>2 DEF Assemble, Places
<1>3. CASE Refine \/ StopAtInfeasible
  BY <1>3 DEF Refine, StopAtInfeasible, InPlace
<1>4. CASE \/ Prepare \/ SolveLinear \/ KeepPenalty \/ ResetPenalty \/ SolveFeasibility
           \/ NoProgress \/ IncreasePenalty \/ Reread \/ Factorize \/ BeginSearch
           \/ SearchForward \/ EndForward \/ SearchBackward \/ ScaleExhausted \/ ScaleUnset
           \/ ComputeTrialPoint \/ Accurate \/ CountReset \/ Correct \/ Accept \/ RejectTrial
           \/ Finished
  BY <1>4 DEF Prepare, SolveLinear, KeepPenalty, ResetPenalty, SolveFeasibility, NoProgress,
    IncreasePenalty, Reread, Factorize, BeginSearch, SearchForward, EndForward,
    SearchBackward, ScaleExhausted, ScaleUnset, ComputeTrialPoint, Accurate, CountReset,
    Correct,
    Accept, RejectTrial, Finished, Finish
<1>5. CASE UNCHANGED tpVars
  BY <1>5
<1> QED
  BY <1>1, <1>2, <1>3, <1>4, <1>5 DEF TpNext, Compute

(* The model value of the Cauchy step: the search that gives up has reduced *)
(* the radius once more than it has solved the LP.                          *)
LEMMA CauchyValueStep ==
  ASSUME Typed, Places, SearchPlaced, CauchyValue, [TpNext]_tpVars
  PROVE  CauchyValue'
<1> USE DEF Typed, ScalarTypes, CauchyValue, Exhausted, Late, MeritAt, tpVars, roundVars,
    penaltyVars, lpVars, stepVars, newtonVars
<1>1. CASE ScaleStep
  BY <1>1 DEF ScaleStep
<1>2. CASE BeginSearch \/ SearchForward
  BY <1>2 DEF BeginSearch, SearchForward
<1>3. CASE EndForward
  BY <1>3 DEF EndForward
<1>4. CASE SearchBackward
  <2>1. lp'.exponent = exponent /\ cauchyMerit' = MeritAt(version, penalty)
    BY <1>4, SearchBackwardEffect DEF SearchBackward
  <2>2. settings.parametric
    BY <1>4 DEF SearchBackward, Places, Searching
  <2> QED
    BY <1>4, <2>1, <2>2 DEF SearchBackward
<1>5. CASE ScaleExhausted
  <2>1. Exhausted /\ cauchyMerit' = MeritAt(search.version, search.penalty)
    BY <1>5 DEF ScaleExhausted
  <2>2. search.version \in 1 .. version /\ search.penalty # Never
    BY <1>5 DEF ScaleExhausted, SearchPlaced, CacheTypes, SearchInputs, Never
  <2> QED
    BY <1>5, <2>1, <2>2 DEF ScaleExhausted
<1>6. CASE Assemble
  BY <1>6, AssembleEffect DEF Assemble
<1>7. CASE \/ Prepare \/ SolveLinear \/ KeepPenalty \/ ResetPenalty \/ SolveFeasibility
           \/ NoProgress \/ IncreasePenalty \/ Reread \/ Factorize \/ ScaleUnset
           \/ ComputeTrialPoint \/ Accurate \/ Refine \/ StopAtInfeasible \/ CountReset \/ Correct
           \/ Accept \/ RejectTrial \/ Finished
  BY <1>7 DEF Prepare, SolveLinear, KeepPenalty, ResetPenalty, SolveFeasibility, NoProgress,
    IncreasePenalty, Reread, Factorize, ScaleUnset, ComputeTrialPoint, Accurate, Refine,
    StopAtInfeasible, CountReset, Correct, Accept, RejectTrial, Finished, Finish
<1>8. CASE UNCHANGED tpVars
  BY <1>8
<1> QED
  BY <1>1, <1>2, <1>3, <1>4, <1>5, <1>6, <1>7, <1>8 DEF TpNext, Compute

(* The factorization: that of the working set when the Cauchy step is      *)
(* computed, and again when the search ends with another one.              *)
LEMMA FactorizationStep ==
  ASSUME Typed, Factorization, [TpNext]_tpVars
  PROVE  Factorization'
<1> USE DEF Typed, ScalarTypes, Factorization, Factored, Searching, Late, tpVars, roundVars,
    penaltyVars, lpVars, stepVars, newtonVars
<1>1. CASE Factorize
  BY <1>1, RefactoredFits DEF Factorize, CacheTypes
<1>2. CASE Assemble
  BY <1>2, AssembleEffect, RefactoredFits DEF Assemble
<1>3. CASE Refine
  BY <1>3 DEF Refine
<1>4. CASE \/ Prepare \/ SolveLinear \/ KeepPenalty \/ ResetPenalty \/ SolveFeasibility
           \/ NoProgress \/ IncreasePenalty \/ Reread \/ ScaleStep \/ BeginSearch
           \/ SearchForward \/ EndForward \/ SearchBackward \/ ScaleExhausted \/ ScaleUnset
           \/ ComputeTrialPoint \/ Accurate \/ StopAtInfeasible \/ CountReset \/ Correct \/ Accept
           \/ RejectTrial \/ Finished
  BY <1>4 DEF Prepare, SolveLinear, KeepPenalty, ResetPenalty, SolveFeasibility, NoProgress,
    IncreasePenalty, Reread, ScaleStep, BeginSearch, SearchForward, EndForward,
    SearchBackward, ScaleExhausted, ScaleUnset, ComputeTrialPoint, Accurate,
    StopAtInfeasible, CountReset,
    Correct, Accept, RejectTrial, Finished, Finish
<1>5. CASE UNCHANGED tpVars
  BY <1>5
<1> QED
  BY <1>1, <1>2, <1>3, <1>4, <1>5 DEF TpNext, Compute

(* The linear program and its solution.                                    *)
LEMMA ProgramStep ==
  ASSUME Typed, Places, Program, [TpNext]_tpVars
  PROVE  Program'
<1> USE DEF Typed, ScalarTypes, Program, Searching, OfIterate, Trusted, Usable, tpVars,
    roundVars, penaltyVars, lpVars, stepVars, newtonVars
<1>1. CASE SolveLinear
  BY <1>1, SolveLinearEffect DEF SolveLinear
<1>2. CASE KeepPenalty
  BY <1>2, KeepPenaltyEffect DEF KeepPenalty
<1>3. CASE SolveFeasibility
  BY <1>3, SolveFeasibilityEffect DEF SolveFeasibility
<1>4. CASE IncreasePenalty
  BY <1>4, IncreasePenaltyEffect DEF IncreasePenalty
<1>5. CASE Reread
  BY <1>5, RereadEffect DEF Reread
<1>6. CASE SearchForward
  BY <1>6, SearchForwardEffect DEF SearchForward
<1>7. CASE EndForward
  BY <1>7, EndForwardEffect DEF EndForward
<1>8. CASE SearchBackward
  BY <1>8, SearchBackwardEffect DEF SearchBackward
<1>9. CASE ResetPenalty
  BY <1>9 DEF ResetPenalty
<1>10. CASE NoProgress
  BY <1>10 DEF NoProgress
<1>11. CASE Refine \/ Assemble
  BY <1>11 DEF Refine, Assemble
<1>12. CASE \/ Prepare \/ Factorize \/ ScaleStep \/ BeginSearch \/ ScaleExhausted \/ ScaleUnset
            \/ ComputeTrialPoint \/ Accurate \/ StopAtInfeasible \/ CountReset \/ Correct \/ Accept
            \/ RejectTrial \/ Finished
  BY <1>12 DEF Prepare, Factorize, ScaleStep, BeginSearch, ScaleExhausted, ScaleUnset,
      ComputeTrialPoint,
    Accurate, StopAtInfeasible, CountReset, Correct, Accept, RejectTrial, Finished, Finish
<1>13. CASE UNCHANGED tpVars
  BY <1>13
<1> QED
  BY <1>1, <1>2, <1>3, <1>4, <1>5, <1>6, <1>7, <1>8, <1>9, <1>10, <1>11, <1>12, <1>13 DEF
    TpNext, Compute

(* The step and the working set of the LP.                                 *)
LEMMA LinearStep ==
  ASSUME Typed, Program, Linear, [TpNext]_tpVars
  PROVE  Linear'
<1> USE DEF Typed, ScalarTypes, CacheTypes, Linear, OfIterate, Trusted, tpVars, roundVars,
    penaltyVars, lpVars, stepVars, newtonVars
<1>1. CASE SolveLinear
  BY <1>1, SolveLinearEffect, ActiveSolution DEF SolveLinear
<1>2. CASE IncreasePenalty
  BY <1>2 DEF IncreasePenalty
<1>3. CASE Reread
  BY <1>3, RereadEffect, ActiveSolution DEF Reread, Program
<1>4. CASE \/ Prepare \/ KeepPenalty \/ ResetPenalty \/ SolveFeasibility \/ NoProgress
           \/ Factorize \/ ScaleStep \/ BeginSearch \/ SearchForward \/ EndForward
           \/ SearchBackward \/ ScaleExhausted \/ ScaleUnset \/ Assemble \/ ComputeTrialPoint \/ Accurate
           \/ Refine \/ StopAtInfeasible \/ CountReset \/ Correct \/ Accept \/ RejectTrial
           \/ Finished
  BY <1>4 DEF Prepare, KeepPenalty, ResetPenalty, SolveFeasibility, NoProgress, Factorize,
    ScaleStep, BeginSearch, SearchForward, EndForward, SearchBackward, ScaleExhausted,
    ScaleUnset,
    Assemble, ComputeTrialPoint, Accurate, Refine, StopAtInfeasible, CountReset, Correct,
    Accept,
    RejectTrial, Finished, Finish
<1>5. CASE UNCHANGED tpVars
  BY <1>5
<1> QED
  BY <1>1, <1>2, <1>3, <1>4, <1>5 DEF TpNext, Compute

(* The step of the radius before, and the step and the buffers the search  *)
(* ends with.                                                              *)
LEMMA ParametricStep ==
  ASSUME Typed, Program, Linear, Parametric, [TpNext]_tpVars
  PROVE  Parametric'
<1> USE DEF Typed, ScalarTypes, CacheTypes, Parametric, Searching, OfIterate, Trusted,
SameLP,
    BothReadable, tpVars, roundVars, penaltyVars, lpVars, stepVars, newtonVars
<1>1. CASE BeginSearch
  BY <1>1 DEF BeginSearch, DirectionOf, Linear
<1>2. CASE SearchForward
  BY <1>2, SearchForwardEffect, ActiveSolution DEF SearchForward, Program
<1>3. CASE EndForward
  BY <1>3, EndForwardEffect, ActiveSolution DEF EndForward, Program
<1>4. CASE SearchBackward
  BY <1>4, SearchBackwardEffect, ActiveSolution DEF SearchBackward, Program
<1>5. CASE \/ Prepare \/ SolveLinear \/ KeepPenalty \/ ResetPenalty \/ SolveFeasibility
           \/ NoProgress \/ IncreasePenalty \/ Reread \/ Factorize \/ ScaleStep
           \/ ScaleExhausted \/ ScaleUnset \/ Assemble \/ ComputeTrialPoint \/ Accurate \/ Refine
           \/ StopAtInfeasible \/ CountReset \/ Correct \/ Accept \/ RejectTrial \/ Finished
  BY <1>5 DEF Prepare, SolveLinear, KeepPenalty, ResetPenalty, SolveFeasibility, NoProgress,
    IncreasePenalty, Reread, Factorize, ScaleStep, ScaleExhausted, ScaleUnset, Assemble,
    ComputeTrialPoint,
    Accurate, Refine, StopAtInfeasible, CountReset, Correct, Accept, RejectTrial,
    Finished, Finish
<1>6. CASE UNCHANGED tpVars
  BY <1>6
<1> QED
  BY <1>1, <1>2, <1>3, <1>4, <1>5, <1>6 DEF TpNext, Compute

(* The EQP solver and the multipliers.                                     *)
LEMMA NewtonPartStep ==
  ASSUME Typed, Places, Program, Newton, [TpNext]_tpVars
  PROVE  Newton'
<1> USE DEF Typed, ScalarTypes, Newton, Searching, OfIterate, Usable, EqpAt, tpVars,
roundVars,
    penaltyVars, lpVars, stepVars, newtonVars
<1>1. CASE Factorize
  <2>1. PICK source \in DualSources :
          multipliers' = [lpSet |-> lpSet, version |-> version, penalty |-> penalty, lp |-> source]
    BY <1>1 DEF Factorize
  <2>2. source = NoSolution \/ source = lp.solution
    BY <2>1, DualSourcesOf
  <2>3. Usable(source)
    BY <1>1, <2>2 DEF Factorize, Program
  <2> QED
    BY <1>1, <2>1, <2>3 DEF Factorize
<1>2. CASE Assemble
  BY <1>2 DEF Assemble
<1>3. CASE \/ Prepare \/ SolveLinear \/ KeepPenalty \/ ResetPenalty \/ SolveFeasibility
           \/ NoProgress \/ IncreasePenalty \/ Reread \/ ScaleStep \/ BeginSearch
           \/ SearchForward \/ EndForward \/ SearchBackward \/ ScaleExhausted \/ ScaleUnset
           \/ ComputeTrialPoint \/ Accurate \/ Refine \/ StopAtInfeasible \/ CountReset \/ Correct
           \/ Accept \/ RejectTrial \/ Finished
  BY <1>3 DEF Prepare, SolveLinear, KeepPenalty, ResetPenalty, SolveFeasibility, NoProgress,
    IncreasePenalty, Reread, ScaleStep, BeginSearch, SearchForward, EndForward,
    SearchBackward, ScaleExhausted, ScaleUnset, ComputeTrialPoint, Accurate, Refine,
    StopAtInfeasible,
    CountReset, Correct, Accept, RejectTrial, Finished, Finish
<1>4. CASE UNCHANGED tpVars
  BY <1>4
<1> QED
  BY <1>1, <1>2, <1>3, <1>4 DEF TpNext, Compute

(* Step and working set of the trial point.                                *)
LEMMA StepFromLPStep ==
  ASSUME Typed, Places, Linear, Parametric, StepFromLP, [TpNext]_tpVars
  PROVE  StepFromLP'
<1> USE DEF Typed, ScalarTypes, StepFromLP, Searching, Late, OfIterate, Trusted, SameLP,
tpVars,
    roundVars, penaltyVars, lpVars, stepVars, newtonVars
<1>1. CASE ScaleStep
  BY <1>1 DEF ScaleStep, DirectionOf, Linear, Places
<1>2. CASE Assemble
  BY <1>2, AssembleEffect DEF Assemble, Parametric, Places
<1>3. CASE \/ Prepare \/ SolveLinear \/ KeepPenalty \/ ResetPenalty \/ SolveFeasibility
           \/ NoProgress \/ IncreasePenalty \/ Reread \/ Factorize \/ BeginSearch
           \/ SearchForward \/ EndForward \/ SearchBackward \/ ScaleExhausted \/ ScaleUnset
           \/ ComputeTrialPoint \/ Accurate \/ Refine \/ StopAtInfeasible \/ CountReset \/ Correct
           \/ Accept \/ RejectTrial \/ Finished
  BY <1>3 DEF Prepare, SolveLinear, KeepPenalty, ResetPenalty, SolveFeasibility, NoProgress,
    IncreasePenalty, Reread, Factorize, BeginSearch, SearchForward, EndForward,
    SearchBackward, ScaleExhausted, ScaleUnset, ComputeTrialPoint, Accurate, Refine,
    StopAtInfeasible,
    CountReset, Correct, Accept, RejectTrial, Finished, Finish
<1>4. CASE UNCHANGED tpVars
  BY <1>4
<1> QED
  BY <1>1, <1>2, <1>3, <1>4 DEF TpNext, Compute

(* The inputs of the Newton step.                                          *)
LEMMA NewtonInputsFitStep ==
  ASSUME Typed, Places, Newton, NewtonInputsFit, [TpNext]_tpVars
  PROVE  NewtonInputsFit'
<1> USE DEF Typed, ScalarTypes, NewtonInputsFit, SearchAt, Searching, OfIterate, Usable,
    EqpAt, tpVars, roundVars, penaltyVars, lpVars, stepVars, newtonVars
<1>1. CASE ScaleStep
  BY <1>1 DEF ScaleStep, Newton
<1>2. CASE Assemble
  BY <1>2 DEF Assemble, Newton, Places
<1>3. CASE \/ Prepare \/ SolveLinear \/ KeepPenalty \/ ResetPenalty \/ SolveFeasibility
           \/ NoProgress \/ IncreasePenalty \/ Reread \/ Factorize \/ BeginSearch
           \/ SearchForward \/ EndForward \/ SearchBackward \/ ScaleExhausted \/ ScaleUnset
           \/ ComputeTrialPoint \/ Accurate \/ Refine \/ StopAtInfeasible \/ CountReset \/ Correct
           \/ Accept \/ RejectTrial \/ Finished
  BY <1>3 DEF Prepare, SolveLinear, KeepPenalty, ResetPenalty, SolveFeasibility, NoProgress,
    IncreasePenalty, Reread, Factorize, BeginSearch, SearchForward, EndForward,
    SearchBackward, ScaleExhausted, ScaleUnset, ComputeTrialPoint, Accurate, Refine,
    StopAtInfeasible,
    CountReset, Correct, Accept, RejectTrial, Finished, Finish
<1>4. CASE UNCHANGED tpVars
  BY <1>4
<1> QED
  BY <1>1, <1>2, <1>3, <1>4 DEF TpNext, Compute

(* The Cauchy direction without the parametric search.                     *)
LEMMA DirectionsAgreeStep ==
  ASSUME Typed, Places, DirectionsAgree, [TpNext]_tpVars
  PROVE  DirectionsAgree'
<1> USE DEF Typed, ScalarTypes, DirectionsAgree, CauchyDirectionValid, DirectionOf,
    Searching, Late, tpVars, roundVars, penaltyVars, lpVars, stepVars, newtonVars
<1>1. CASE ScaleStep
  BY <1>1 DEF ScaleStep
<1>2. CASE Assemble
  BY <1>2 DEF Assemble, Places
<1>3. CASE \/ Prepare \/ SolveLinear \/ KeepPenalty \/ ResetPenalty \/ SolveFeasibility
           \/ NoProgress \/ IncreasePenalty \/ Reread \/ Factorize \/ BeginSearch
           \/ SearchForward \/ EndForward \/ SearchBackward \/ ScaleExhausted \/ ScaleUnset
           \/ ComputeTrialPoint \/ Accurate \/ Refine \/ StopAtInfeasible \/ CountReset \/ Correct
           \/ Accept \/ RejectTrial \/ Finished
  BY <1>3 DEF Prepare, SolveLinear, KeepPenalty, ResetPenalty, SolveFeasibility, NoProgress,
    IncreasePenalty, Reread, Factorize, BeginSearch, SearchForward, EndForward,
    SearchBackward, ScaleExhausted, ScaleUnset, ComputeTrialPoint, Accurate, Refine,
    StopAtInfeasible,
    CountReset, Correct, Accept, RejectTrial, Finished, Finish
<1>4. CASE UNCHANGED tpVars
  BY <1>4
<1> QED
  BY <1>1, <1>2, <1>3, <1>4 DEF TpNext, Compute

(* The product is linear in the number of resets.                          *)
LEMMA OneMoreReset ==
  /\ resets \in Nat => resets * NumResetSteps \in Nat
  /\ resets \in Nat => (resets + 1) * NumResetSteps = resets * NumResetSteps + NumResetSteps
  /\ NumResetSteps \in Nat /\ MaxResets \in Nat
BY BoundAssumption

(* The accounts of the resets.                                             *)
LEMMA AccountsStep ==
  ASSUME Typed, Accounts, [TpNext]_tpVars
  PROVE  Accounts'
<1> USE DEF Typed, ScalarTypes, Accounts, tpVars, roundVars, penaltyVars, lpVars, stepVars,
    newtonVars
<1>1. CASE Prepare
  <2>1. PICK small \in BOOLEAN :
          feasibleSteps' = IF small THEN feasibleSteps + 1 ELSE feasibleSteps
    BY <1>1 DEF Prepare
  <2>2. /\ round' = round + 1 /\ resets' = resets /\ performedReset' = FALSE
        /\ allowReset' => feasibleSteps' >= NumResetSteps /\ resets < MaxResets
    BY <1>1, Zenon DEF Prepare
  <2> QED
    BY <2>1, <2>2, OneMoreReset
<1>2. CASE ResetPenalty
  BY <1>2 DEF ResetPenalty
<1>3. CASE CountReset
  BY <1>3, OneMoreReset DEF CountReset
<1>4. CASE \/ SolveLinear \/ KeepPenalty \/ SolveFeasibility \/ NoProgress
           \/ IncreasePenalty \/ Reread \/ Factorize \/ ScaleStep \/ BeginSearch
           \/ SearchForward \/ EndForward \/ SearchBackward \/ ScaleExhausted \/ ScaleUnset \/ Assemble
           \/ ComputeTrialPoint \/ Accurate \/ Refine \/ StopAtInfeasible \/ Correct \/ Accept
           \/ RejectTrial \/ Finished
  BY <1>4 DEF SolveLinear, KeepPenalty, SolveFeasibility, NoProgress, IncreasePenalty,
    Reread, Factorize, ScaleStep, BeginSearch, SearchForward, EndForward, SearchBackward,
    ScaleExhausted, ScaleUnset, Assemble, ComputeTrialPoint, Accurate, Refine,
    StopAtInfeasible, Correct,
    Accept, RejectTrial, Finished, Finish
<1>5. CASE UNCHANGED tpVars
  BY <1>5
<1> QED
  BY <1>1, <1>2, <1>3, <1>4, <1>5 DEF TpNext, Compute

(* Outside a reevaluation every reset is booked once.                      *)
LEMMA BookedStep ==
  ASSUME Typed, Places, Accounts, Booked, [TpNext]_tpVars
  PROVE  Booked'
<1> USE DEF Typed, ScalarTypes, Places, Accounts, Booked, Late, tpVars, roundVars,
    penaltyVars, lpVars, stepVars, newtonVars
<1>1. CASE Prepare
  BY <1>1 DEF Prepare
<1>2. CASE ResetPenalty
  BY <1>2 DEF ResetPenalty
<1>3. CASE StopAtInfeasible
  BY <1>3 DEF StopAtInfeasible
<1>4. CASE CountReset
  BY <1>4 DEF CountReset
<1>5. CASE Refine
  BY <1>5 DEF Refine
<1>6. CASE \/ SolveLinear \/ KeepPenalty \/ SolveFeasibility \/ NoProgress
           \/ IncreasePenalty \/ Reread \/ Factorize \/ ScaleStep \/ BeginSearch
           \/ SearchForward \/ EndForward \/ SearchBackward \/ ScaleExhausted \/ ScaleUnset \/ Assemble
           \/ ComputeTrialPoint \/ Accurate \/ Correct \/ Accept \/ RejectTrial \/ Finished
  BY <1>6 DEF SolveLinear, KeepPenalty, SolveFeasibility, NoProgress, IncreasePenalty,
    Reread, Factorize, ScaleStep, BeginSearch, SearchForward, EndForward, SearchBackward,
    ScaleExhausted, ScaleUnset, Assemble, ComputeTrialPoint, Accurate, Correct, Accept,
    RejectTrial, Finished,
    Finish
<1>7. CASE UNCHANGED tpVars
  BY <1>7
<1> QED
  BY <1>1, <1>2, <1>3, <1>4, <1>5, <1>6, <1>7 DEF TpNext, Compute

-----------------------------------------------------------------------------
(* The initial states, where nothing has been computed.                    *)
LEMMA InitIInv == TpInit => IInv
<1> SUFFICES ASSUME TpInit PROVE IInv
  OBVIOUS
<1>1. Typed
  <2>1. ScalarTypes
    <3>1. residuum \in [version : Nat, small : BOOLEAN]
      BY DEF TpInit, Never
    <3>2. merit \in Merits /\ model \in Merits /\ cauchyMerit \in Merits
      BY DEF TpInit, Merits, MeritAt, Never
    <3>3. settings \in Configurations /\ tpPc \in PCs
      BY DEF TpInit, PCs
    <3>4. /\ round = 0 /\ version = 1 /\ outerPenalty = 1 /\ feasibleSteps = 0 /\ resets = 0
          /\ penalty = 0 /\ weights = 0 /\ lowered = 0 /\ exponent = 0
      BY DEF TpInit, Never
    <3>5. allowReset \in BOOLEAN /\ performedReset \in BOOLEAN
      BY DEF TpInit
    <3> QED
      BY <3>1, <3>2, <3>3, <3>4, <3>5 DEF ScalarTypes
  <2>2. LoopTypes
    BY BoundAssumption DEF TpInit, LoopTypes
  <2>3. lp \in Programs
    BY NothingTyped DEF TpInit, Programs, Never
  <2>4. search \in SearchInputs
    BY DEF TpInit, SearchInputs, Never
  <2> QED
    BY <2>1, <2>2, <2>3, <2>4, NothingTyped DEF TpInit, Typed, CacheTypes
<1>2. Places /\ Measures /\ SearchPlaced /\ CauchyValue /\ Factorization
  BY DEF TpInit, Places, Measures, SearchPlaced, CauchyValue, Factorization, Factored,
      Searching,
    Late, Never
<1>3. Program /\ Linear /\ Parametric /\ Newton
  BY DEF TpInit, Program, Linear, Parametric, Newton, Searching
<1>4. StepFromLP /\ NewtonInputsFit /\ DirectionsAgree
  BY DEF TpInit, StepFromLP, NewtonInputsFit, DirectionsAgree, CauchyDirectionValid, Late
<1>5. Accounts /\ Booked
  BY OneMoreReset DEF TpInit, Accounts, Booked
<1> QED
  BY <1>1, <1>2, <1>3, <1>4, <1>5 DEF IInv

(* Every step keeps the invariant.                                         *)
LEMMA NextIInv == IInv /\ [TpNext]_tpVars => IInv'
<1> SUFFICES ASSUME IInv, [TpNext]_tpVars PROVE IInv'
  OBVIOUS
<1> USE DEF IInv
<1>1. Typed'
  BY ScalarTypesStep, LoopTypesStep, CacheTypesStep DEF Typed
<1>2. Places' /\ Measures' /\ SearchPlaced' /\ CauchyValue' /\ Factorization'
  BY PlacesStep, MeasuresStep, SearchPlacedStep, CauchyValueStep, FactorizationStep
<1>3. Program' /\ Linear' /\ Parametric' /\ Newton'
  BY ProgramStep, LinearStep, ParametricStep, NewtonPartStep
<1>4. StepFromLP' /\ NewtonInputsFit' /\ DirectionsAgree'
  BY StepFromLPStep, NewtonInputsFitStep, DirectionsAgreeStep
<1>5. Accounts' /\ Booked'
  BY AccountsStep, BookedStep
<1> QED
  BY <1>1, <1>2, <1>3, <1>4, <1>5

(* The inductive invariant holds in every reachable state.                 *)
THEOREM Invariance == TpSpec => []IInv
BY InitIInv, NextIInv, PTL DEF TpSpec
-----------------------------------------------------------------------------
(* Every variable has the type its comment gives it, the loop counters     *)
(* within their bounds included.                                           *)
THEOREM Types == TpSpec => []TpTypeOK
<1>1. IInv => TpTypeOK
  BY TypedIsTypeOK DEF IInv
<1> QED
  BY <1>1, Invariance, PTL

(* The Cauchy step and the working set used for the trial point come from  *)
(* the same LP solution, that of the merit function at the current         *)
(* iterate, radius and penalty parameter.                                  *)
THEOREM StepsComeFromLP == TpSpec => []StepFromLP
<1>1. IInv => StepFromLP
  BY DEF IInv
<1> QED
  BY <1>1, Invariance, PTL

(* The factorization of the trial point is that of its working set and,    *)
(* unless all constraints are linear, of the iterate's Jacobian.           *)
THEOREM FactorizationsFit == TpSpec => []FactorizationFits
<1>1. IInv => FactorizationFits
  BY DEF IInv, Factorization, FactorizationFits, Factored
<1> QED
  BY <1>1, Invariance, PTL

(* Newton step and line search get the current iterate, radius, penalty    *)
(* parameter and working set, and the multipliers are the iterate's.       *)
THEOREM NewtonInputsAreCurrent == TpSpec => []NewtonInputsFit
<1>1. IInv => NewtonInputsFit
  BY DEF IInv
<1> QED
  BY <1>1, Invariance, PTL

(* Merit value, weights and model value are of the same iterate and        *)
(* penalty parameter when they are compared, but for the model value of    *)
(* the Cauchy step after an exhausted parametric search, which is of an    *)
(* iterate and penalty parameter the line search was set to before.        *)
THEOREM MeritIsCurrent == TpSpec => []MeritCurrent
<1>1. IInv => MeritCurrent
  <2> SUFFICES ASSUME IInv PROVE MeritCurrent
    OBVIOUS
  <2>1. /\ tpPc \in {"linear", "cauchy", "search", "assemble"} \cup Late => merit = MeritAt(version, penalty)
        /\ tpPc \in {"linear"} \cup Late => weights = WeightsAt(penalty)
    BY DEF IInv, Measures, Late
  <2>2. ASSUME tpPc \in Late \ {"model"}, model # MeritAt(version, penalty)
        PROVE  /\ Exhausted /\ settings.model = "newton"
               /\ model = cauchyMerit /\ model.version \in 1 .. version /\ model.penalty # Never
    BY <2>2 DEF IInv, Measures, CauchyValue
  <2> QED
    BY <2>1, <2>2 DEF MeritCurrent
<1> QED
  BY <1>1, Invariance, PTL

(* Without the parametric search all products of the Cauchy direction are  *)
(* those of its step and of the current multipliers.                       *)
THEOREM DirectionsStayValid == TpSpec => []DirectionsAgree
<1>1. IInv => DirectionsAgree
  BY DEF IInv
<1> QED
  BY <1>1, Invariance, PTL

(* Resets of the penalty parameter are counted, at most MaxResets, and     *)
(* each after NumResetSteps feasible iterations of its own.                *)
THEOREM ResetsAreCounted == TpSpec => []ResetsCounted
<1>1. IInv => ResetsCounted
  <2> SUFFICES ASSUME IInv, tpPc = "prepare", ~settings.dynamic PROVE ResetsCounted
    BY DEF ResetsCounted
  <2>1. resets \in Nat /\ round \in Nat /\ feasibleSteps \in Nat
    BY DEF IInv, Typed, ScalarTypes
  <2> QED
    BY <2>1, OneMoreReset DEF IInv, Accounts, Booked, ResetsCounted
<1> QED
  BY <1>1, Invariance, PTL
=============================================================================
