------------------------------ MODULE StepRules ------------------------------
(***************************************************************************)
(* The step rules (src/main/step): a trial step is accepted if the exact   *)
(* reduction of the merit is a fraction of the one the model predicts,     *)
(* compared with the current iterate or with an earlier one.  The windowed *)
(* rule keeps merits and model reductions in a ring buffer, the minimum-   *)
(* step rule keeps a reference iterate with sums of model reductions.      *)
(*                                                                         *)
(* An iterate is an objective f and a violation v; its merit is            *)
(* f + penalty * v.  The problem solver compares merits of the penalty the *)
(* iteration began with, while the model value comes from the trial point  *)
(* solver, which may have increased the penalty in between (iteration.c).  *)
(* Rules are never reset: sleqp_step_rule_reset has no caller.             *)
(***************************************************************************)
EXTENDS Integers, Sequences, SequencesExt

CONSTANTS
  SrWindow,      \* size of the window
  SrStepCount,   \* steps after which the reference is renewed
  SrPoints,      \* pairs [f, v] of iterates and of model values
  SrPenalties,   \* penalty parameters, which only increase
  SrAccepted,    \* accepted_reduction, a pair <<numerator, denominator>>
  SrMaxSteps     \* bound on the number of accepted steps

ASSUME SrAssumption ==
  /\ SrWindow \in Nat /\ SrStepCount \in Nat /\ SrMaxSteps \in Nat
  /\ SrPoints \subseteq [f : Int, v : Int] /\ SrPenalties \subseteq Int
  /\ SrAccepted \in Nat \X (Nat \ {0})

VARIABLES
  srRule,        \* "none" before creation
  srWindow,      \* StepRule of step_rule_window.c
  srMin,         \* StepRule of step_rule_minstep.c
  srIterate,     \* the current iterate
  srPenalty,     \* penalty parameter of the problem solver
  srShown,       \* every accepted step: merit before it, model reduction
  srTop,         \* the largest merit of an iterate so far
  srLast         \* the last judgement

srVars == <<srRule, srWindow, srMin, srIterate, srPenalty, srShown, srTop, srLast>>

Merit(z, penalty) == z.f + penalty * z.v
-----------------------------------------------------------------------------
(* Ratios as the source computes them: a quotient by zero is infinite or,  *)
(* for 0 / 0, not a number, which no comparison holds for.                 *)

NotANumber(r) == r.n = 0 /\ r.d = 0
RatioOf(n, d) == [n |-> n, d |-> d]
AtLeastAccepted(r) ==
  CASE r.d > 0 -> r.n * SrAccepted[2] >= SrAccepted[1] * r.d
    [] r.d < 0 -> r.n * SrAccepted[2] <= SrAccepted[1] * r.d
    [] r.d = 0 -> r.n > 0

\* SLEQP_MAX(a, b) is b unless a > b
EitherAccepted(a, b) == ~NotANumber(b) /\ (AtLeastAccepted(a) \/ AtLeastAccepted(b))

CurrentRatio(exact, model) == IF exact = model THEN RatioOf(1, 1) ELSE RatioOf(exact, model)

\* sleqp_reduction_ratio takes a small number off both reductions, so that
\* the sign of the quotient is turned round where the model predicts none
DirectAccepts(exact, model) ==
  CASE exact = model -> TRUE
    [] exact # model /\ model = 0 -> exact < 0
    [] OTHER -> AtLeastAccepted(RatioOf(exact, model))
-----------------------------------------------------------------------------
(* step_rule_window.c                                                      *)

NewWindow == [len |-> 0, curr |-> -1,
              merits |-> [j \in 0 .. SrWindow - 1 |-> 0],
              reductions |-> [j \in 0 .. SrWindow - 1 |-> 0]]

DataIndex(i) == i % SrWindow
DataBegin(w) == w.curr - w.len + 1
RingIndices(w) == [k \in 1 .. w.len |-> DataBegin(w) + k - 1]

\* the first of the largest merits
IsRefIndex(w, ref) ==
  \A i \in DataBegin(w) .. w.curr :
    IF i < ref THEN w.merits[DataIndex(i)] < w.merits[DataIndex(ref)]
               ELSE w.merits[DataIndex(i)] <= w.merits[DataIndex(ref)]
RefIndex(w) == CHOOSE ref \in DataBegin(w) .. w.curr : IsRefIndex(w, ref)

HistoricRatio(w, iterateMerit, trialMerit, model) ==
  LET current == RatioOf(iterateMerit - trialMerit, model)
      ref == RefIndex(w)
      sum == FoldLeft(LAMBDA s, i : IF i >= ref THEN s + w.reductions[DataIndex(i)] ELSE s,
                      0, RingIndices(w))
  IN IF w.len = 0 \/ w.merits[DataIndex(ref)] < trialMerit
     THEN current
     ELSE RatioOf(w.merits[DataIndex(ref)] - trialMerit, sum + model)

\* Mutant: the length is not limited, so the window begins too early
AddAcceptedLong(w, merit, model) ==
  IF SrWindow = 0 THEN w
  ELSE [w EXCEPT !.merits[DataIndex(w.curr + 1)] = merit,
                 !.reductions[DataIndex(w.curr + 1)] = model,
                 !.len = w.len + 1,
                 !.curr = w.curr + 1]

AddAccepted(w, merit, model) ==
  IF SrWindow = 0 THEN w
  ELSE [w EXCEPT !.merits[DataIndex(w.curr + 1)] = merit,
                 !.reductions[DataIndex(w.curr + 1)] = model,
                 !.len = IF w.len < SrWindow THEN w.len + 1 ELSE w.len,
                 !.curr = w.curr + 1]
-----------------------------------------------------------------------------
(* step_rule_minstep.c                                                     *)

NewMin == [init |-> FALSE, min |-> 0, ref |-> 0, max |-> 0, sumRef |-> 0, sumMax |-> 0, count |-> 0]

InitMin(s, merit) ==
  IF s.init THEN s
  ELSE [init |-> TRUE, min |-> merit, ref |-> merit, max |-> merit,
        sumRef |-> 0, sumMax |-> 0, count |-> 0]

MinRatio(s, trialMerit, model) == RatioOf(s.ref - trialMerit, s.sumRef + model)

\* An accepted step: the merit that is compared with the minimum and the
\* maximum is that of the iterate the step starts from.
AcceptMin(s, iterateMerit, model) ==
  LET summed == [s EXCEPT !.sumRef = s.sumRef + model, !.sumMax = s.sumMax + model]
      lower  == IF iterateMerit < s.min
                THEN [summed EXCEPT !.min = iterateMerit, !.max = iterateMerit,
                                    !.sumRef = 0, !.sumMax = 0, !.count = 0]
                ELSE [summed EXCEPT !.count = s.count + 1]
      higher == IF iterateMerit > lower.max
                THEN [lower EXCEPT !.max = iterateMerit, !.sumMax = 0]
                ELSE lower
  IN IF higher.count = SrStepCount
     THEN [higher EXCEPT !.ref = higher.max, !.sumRef = higher.sumMax]
     ELSE higher
-----------------------------------------------------------------------------
NoJudgement == [accepted |-> FALSE, trial |-> 0, reduction |-> 0]

SrInit ==
  /\ srRule = "none"
  /\ srWindow = NewWindow /\ srMin = NewMin
  /\ srIterate = [f |-> 0, v |-> 0]
  /\ srPenalty = 1
  /\ srShown = <<>>
  /\ srTop = 0
  /\ srLast = NoJudgement

\* sleqp_step_rule_create_default
SrCreate ==
  /\ srRule = "none"
  /\ srRule' \in {"direct", "window", "minstep"}
  /\ srIterate' \in SrPoints
  /\ srTop' = Merit(srIterate', srPenalty)
  /\ UNCHANGED <<srWindow, srMin, srPenalty, srShown, srLast>>

Accepts(iterateMerit, trialMerit, model) ==
  LET exact == iterateMerit - trialMerit
  IN CASE srRule = "direct" -> DirectAccepts(exact, model)
       [] srRule = "window" ->
            EitherAccepted(CurrentRatio(exact, model),
                           HistoricRatio(srWindow, iterateMerit, trialMerit, model))
       [] srRule = "minstep" ->
            EitherAccepted(CurrentRatio(exact, model),
                           MinRatio(InitMin(srMin, iterateMerit), trialMerit, model))

\* One iteration: the trial point solver may increase the penalty, and its
\* step reduces the model of the merit for that penalty; the step rule sees
\* exact merits for the old one.
SrIterate ==
  /\ srRule # "none" /\ Len(srShown) < SrMaxSteps
  /\ \E trial, modelPoint \in SrPoints, penalty \in {p \in SrPenalties : p >= srPenalty} :
       LET iterateMerit == Merit(srIterate, srPenalty)
           trialMerit   == Merit(trial, srPenalty)
           modelMerit   == Merit(modelPoint, penalty)
           model        == iterateMerit - modelMerit
           accepted     == Accepts(iterateMerit, trialMerit, model)
       IN /\ modelMerit <= Merit(srIterate, penalty)
          /\ srWindow' = IF accepted /\ srRule = "window"
                         THEN AddAccepted(srWindow, iterateMerit, model) ELSE srWindow
          /\ srMin' = IF srRule # "minstep" THEN srMin
                      ELSE IF accepted
                      THEN AcceptMin(InitMin(srMin, iterateMerit), iterateMerit, model)
                      ELSE InitMin(srMin, iterateMerit)
          /\ srShown' = IF accepted
                        THEN Append(srShown, [merit |-> iterateMerit, reduction |-> model])
                        ELSE srShown
          /\ srTop' = IF iterateMerit > srTop THEN iterateMerit ELSE srTop
          /\ srLast' = [accepted |-> accepted, trial |-> trialMerit, reduction |-> model]
          /\ srIterate' = IF accepted THEN trial ELSE srIterate
          /\ srPenalty' = penalty
  /\ UNCHANGED srRule

SrNext == SrCreate \/ SrIterate

SrSpec == SrInit /\ [][SrNext]_srVars
-----------------------------------------------------------------------------
(* Properties                                                              *)

\* The ring buffer holds, in order, the last accepted steps: what is read
\* at the index of an iteration is what was stored in that iteration.
WindowIsRecent ==
  srRule = "window" =>
    LET w == srWindow
        recent == SubSeq(srShown, Len(srShown) - w.len + 1, Len(srShown))
    IN /\ w.len = IF Len(srShown) < SrWindow THEN Len(srShown) ELSE SrWindow
       /\ \A k \in 1 .. w.len :
            /\ w.merits[DataIndex(RingIndices(w)[k])] = recent[k].merit
            /\ w.reductions[DataIndex(RingIndices(w)[k])] = recent[k].reduction

\* No rule leaves the level set: as long as models predicted reductions, a
\* step that is accepted ends at a merit no larger than the largest merit of
\* an iterate so far, whatever iterates and penalties the rule still
\* remembers, and also if the penalty changes in the iteration.
LevelSetKept ==
  /\ srLast.accepted
  /\ \A k \in DOMAIN srShown : srShown[k].reduction >= 0
  /\ srRule = "direct" => srLast.reduction > 0
  => srLast.trial <= srTop

\* Nonmonotone rules remember what they should and stay in the level set.
StepRulesSound == WindowIsRecent /\ LevelSetKept
=============================================================================
