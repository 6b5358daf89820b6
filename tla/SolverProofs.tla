---------------------------- MODULE SolverProofs ----------------------------
(***************************************************************************)
(* Proofs about Solver for every set of points, every projection, every    *)
(* verdict of the tests and every setting.                                 *)
(*                                                                         *)
(* The inductive invariant IInv says, for every place of the two nested    *)
(* loops, where the user's function is, what the iterates consist of and   *)
(* what the flags and statuses of the phases promise.  Its parts need each *)
(* other: the iterate is coherent because it was completed with the        *)
(* function at it, and the function is at it because the trial iterate     *)
(* that the step rule accepted was the last one that was evaluated.  Each  *)
(* part has a lemma <Part>Step with one case per action, and the cases     *)
(* that are longer than a line are lemmas <Action><Part> before it.        *)
(***************************************************************************)
EXTENDS Solver, TLAPS

USE DEF Opt, Rest

ScalarTypes ==
  /\ pc \in {"idle", "loop", "head", "returned", "trial", "soc", "update",
             "accepted", "performed", "leave", "failed"}
  /\ phase \in Phases /\ status \in Statuses
  /\ primal \in Points /\ enabled \in BOOLEAN
  /\ accepting \in BOOLEAN /\ reason \in Reasons
  /\ outerUp \in BOOLEAN /\ innerUp \in BOOLEAN
  /\ restored \in {"none", "aborted", "checked"}

HistoryTypes ==
  /\ solves \in 0 .. MaxSolves
  /\ asked \in {"nobody"} \cup Aborts /\ since \in 0 .. MaxSince

InnerTypes ==
  /\ state \in [Phases -> InnerStates]
  /\ abortNext \in [Phases -> BOOLEAN] /\ abortOnInfeasible \in [Phases -> BOOLEAN]
  /\ iteration \in [Phases -> Nat]
  /\ dead \in [Phases -> BOOLEAN] /\ feasRes \in [Phases -> Stamps]

PointTypes ==
  /\ iterate \in [Phases -> Iterates] /\ trial \in [Phases -> Iterates]
  /\ func \in Stamps /\ rest \in RestValues

CounterTypes ==
  /\ iterations \in Nat
  /\ remaining \in IF MaxIterations = Unlimited THEN {Unlimited} ELSE Nat
  /\ elapsed \in [Phases -> Nat]

(* Where the budget of iterations stands at each place of the loops.       *)
Budget ==
  MaxIterations # Unlimited =>
    /\ iterations + remaining = MaxIterations
    /\ pc \in {"head", "returned", "accepted", "performed"} => elapsed[phase] <= remaining
    /\ pc \in {"trial", "soc", "update"} => elapsed[phase] < remaining

Counted == CounterTypes /\ Budget
Typed == ScalarTypes /\ HistoryTypes /\ InnerTypes /\ PointTypes
-----------------------------------------------------------------------------
(* The parts of the type invariant together.                               *)
LEMMA TypedIsTypeOK == Typed /\ Counted => TypeOK
BY DEF Typed, Counted, ScalarTypes, HistoryTypes, InnerTypes, PointTypes, CounterTypes, TypeOK

(* What the assumptions on the points say of stamps.                       *)
LEMMA PointFacts ==
  /\ \A p \in Points : Clip[p] \in Points
  /\ None \in Stamps /\ Points \subseteq Stamps
  /\ Boxed \subseteq Points
  /\ \A p \in Stamps : FullAt(p) \in Iterates
  /\ NoRestValues \in RestValues
  /\ Phases = {Opt, Rest} /\ Opt # Rest
BY PointAssumption DEF Stamps, Boxed, FullAt, Iterates, NoRestValues, RestValues, Phases

(* Fields of the records of stamps. *)
LEMMA StampFields ==
  /\ \A t \in Iterates : /\ t.primal \in Stamps /\ t.obj \in Stamps /\ t.grad \in Stamps
                         /\ t.cons \in Stamps /\ t.jac \in Stamps
  /\ \A r \in RestValues : r.cons \in Stamps /\ r.jac \in Stamps /\ r.residual \in Stamps
BY DEF Iterates, RestValues

(* Setting the function moves it to the point and leaves no restoration    *)
(* value of another point.                                                 *)
LEMMA SettingFunction ==
  ASSUME PointTypes, NEW p \in Stamps,
         SetFunc(p) \/ SetAndEvalValues(p) \/ SetAndEvalAll(p)
  PROVE  /\ func' = p /\ func' \in Stamps /\ rest' \in RestValues
         /\ phase = Rest => rest'.cons \in {None, p} /\ rest'.jac \in {None, p}
<1>1. CASE SetFunc(p)
  BY <1>1, PointFacts DEF SetFunc, PointTypes, NoRestValues
<1>2. CASE SetAndEvalValues(p)
  <2>1. [NoRestValues EXCEPT !.cons = p, !.residual = p] \in RestValues
    BY PointFacts DEF RestValues, NoRestValues
  <2> QED
    BY <1>2, <2>1 DEF SetAndEvalValues, PointTypes, NoRestValues
<1>3. CASE SetAndEvalAll(p)
  BY <1>3 DEF SetAndEvalAll, PointTypes, RestValues
<1> QED
  BY <1>1, <1>2, <1>3

(* A request from the user's code keeps the history's types.               *)
LEMMA UserCodeTypes ==
  ASSUME HistoryTypes, abortNext \in [Phases -> BOOLEAN], NEW source, UserCode(source)
  PROVE  /\ asked' \in {"nobody"} \cup Aborts /\ since' \in 0 .. MaxSince
         /\ abortNext' \in [Phases -> BOOLEAN]
<1>1. CASE UNCHANGED <<abortNext, asked, since>>
  BY <1>1 DEF HistoryTypes
<1>2. CASE ~UNCHANGED <<abortNext, asked, since>>
  <2>1. /\ source \in Aborts /\ asked' = source /\ since' = 0
        /\ abortNext' = [abortNext EXCEPT ![Opt] = TRUE]
    BY <1>2 DEF UserCode
  <2>2. abortNext' \in [Phases -> BOOLEAN]
    BY <2>1
  <2> QED
    BY <2>1, <2>2 DEF MaxSince
<1> QED
  BY <1>1, <1>2

(* A cached stamp is a stamp.                                              *)
LEMMA CachedType ==
  ASSUME PointTypes, NEW stamp \in Stamps
  PROVE  Cached(stamp) \in Stamps
BY DEF PointTypes, Cached

(* The way into restoration keeps the types.                               *)
LEMMA ToRestorationTypes ==
  ASSUME PointTypes, primal \in Points, ToRestoration
  PROVE  /\ iterate' \in [Phases -> Iterates] /\ rest' \in RestValues /\ func' \in Stamps
         /\ primal' \in Points /\ phase' \in Phases /\ restored' = "none"
<1> DEFINE residual == IF rest.residual # None THEN rest.residual ELSE iterate[Opt].cons
           t == [iterate[Rest] EXCEPT !.primal = iterate[Opt].primal,
                                      !.obj = residual, !.grad = residual]
<1>1. iterate[Opt] \in Iterates /\ iterate[Rest] \in Iterates
  BY PointFacts DEF PointTypes
<1>2. residual \in Stamps
  BY <1>1, StampFields DEF PointTypes
<1>3. t \in Iterates
  BY <1>1, <1>2, StampFields DEF Iterates
<1>4. iterate' = [iterate EXCEPT ![Rest] = t]
  BY DEF ToRestoration, PointTypes
<1>5. iterate' \in [Phases -> Iterates]
  BY <1>3, <1>4 DEF PointTypes
<1>6. rest' \in RestValues
  BY <1>1, <1>2, StampFields DEF ToRestoration, RestValues
<1> QED
  BY <1>5, <1>6, PointFacts DEF ToRestoration, PointTypes

(* The way out of restoration keeps the types.                             *)
LEMMA ToOptimizationTypes ==
  ASSUME PointTypes, iterate[Rest].primal \in Points, ToOptimization
  PROVE  /\ iterate' \in [Phases -> Iterates] /\ rest' \in RestValues /\ func' \in Stamps
         /\ primal' \in Points /\ phase' \in Phases
<1>1. iterate[Rest] \in Iterates /\ rest \in RestValues /\ func \in Stamps
  BY PointFacts DEF PointTypes
<1>2. Cached(rest.cons) \in Stamps /\ Cached(rest.jac) \in Stamps
  BY <1>1, StampFields, CachedType
<1>3. iterate' \in [Phases -> Iterates]
  BY <1>1, <1>2, StampFields DEF ToOptimization, PointTypes, Iterates
<1>4. rest' \in RestValues
  BY <1>1, <1>2 DEF ToOptimization, RestValues
<1> QED
  BY <1>1, <1>3, <1>4, PointFacts DEF ToOptimization


(* Points are never missing where they are needed. *)
Placed ==
  /\ pc = "idle" => phase = Opt
  /\ pc \notin {"idle", "failed"} => iterate[phase].primal \in Points
  /\ pc \in {"trial", "soc", "update", "accepted"} => trial[phase].primal \in Points

(* Where the user's function is.                                           *)
AtIterate ==
  /\ pc \in {"loop", "head", "trial", "performed"} => func = Current.primal
  /\ pc = "accepted" => func = trial[phase].primal
  /\ pc = "returned" /\ state[phase] # "abort_time" => func = Current.primal

(* What the step rule accepted is what was evaluated last.                 *)
Announced ==
  /\ pc \in {"soc", "update"} => reason = "trying"
  /\ pc = "update" /\ accepting => func = trial[phase].primal

(* The iterate of the optimization phase, and the trial iterate once it is *)
(* complete.                                                               *)
Coherent ==
  /\ pc \notin {"idle", "failed"} /\ (pc = "leave" => phase = Opt) =>
       iterate[Opt] = FullAt(iterate[Opt].primal)
  /\ pc = "soc" => ~accepting
  /\ pc = "update" /\ accepting => trial[phase].obj = trial[phase].primal
  /\ pc = "accepted" => trial[phase] = FullAt(trial[phase].primal)

(* The caches of the restoration function.                                 *)
CachesAtFunc ==
  phase = Rest => rest.cons \in {None, func} /\ rest.jac \in {None, func}

(* What a status says about the feasibility of the iterate.                *)
Verdicts ==
  /\ pc = "returned" /\ phase = Opt /\ state[Opt] = "optimal" =>
       iterate[Opt].primal \in Feasible
  /\ pc = "returned" /\ phase = Opt /\ state[Opt] = "locally_infeasible" =>
       iterate[Opt].primal \notin Feasible
  /\ pc = "loop" /\ phase = Rest => iterate[Opt].primal \notin Feasible
  /\ pc \in {"leave", "idle"} /\ status = "optimal" =>
       phase = Opt /\ iterate[Opt].primal \in Feasible

(* The abort flag of the restoration solver is its callback's: no          *)
(* iteration begins after it is set.                                       *)
RestorationAborts ==
  /\ phase = Rest /\ pc \in {"trial", "soc", "update", "accepted"} => ~abortNext[Rest]
  /\ phase = Rest /\ pc \in {"head", "performed"} /\ abortNext[Rest] =>
       iterate[Rest].primal \in Feasible
  /\ phase = Rest /\ pc = "returned" /\ state[Rest] = "abort_manual" =>
       iterate[Rest].primal \in Feasible

(* RestoredFeasible, for the places at which the loop looks at it.         *)
Restorations ==
  pc = "loop" /\ phase = Opt /\ restored # "none" /\ enabled =>
    iterate[Opt].primal \in Feasible

(* The places within an iteration.                                         *)
Inside == {"head", "trial", "soc", "update", "accepted", "performed"}

(* An abort flag or status of the optimization phase goes back to a        *)
(* request.                                                                *)
Requested ==
  /\ phase = Opt /\ pc \in Inside /\ abortNext[Opt] => asked # "nobody"
  /\ phase = Opt /\ pc = "returned" /\ state[Opt] = "abort_manual" => asked # "nobody"
  /\ pc \in {"leave", "idle"} /\ status = "abort_manual" => asked # "nobody"

(* The statuses of a phase that was aborted.                               *)
Aborting == {"abort_iter", "abort_time", "abort_deadpoint", "abort_manual"}

(* After an abort from a callback only the way out is left.                *)
Stopping ==
  asked = "callback" =>
    /\ since = 0
    /\ \/ pc \in {"performed", "head"} /\ phase = Opt /\ abortNext[Opt]
       \/ pc = "returned" /\ phase = Opt /\ state[Opt] \in Aborting
       \/ pc \in {"leave", "idle", "failed"}

(* Unless time is up, the loop is left with the function at the iterate.   *)
Left ==
  status # "abort_time" =>
    /\ pc = "leave" => func = Current.primal
    /\ pc = "idle" /\ solves > 0 => iterate[Opt] = FullAt(iterate[Opt].primal)

(* The inductive invariant.                                                *)
Inv == Typed /\ Counted /\ Placed

IInv ==
  /\ Inv /\ AtIterate /\ Announced /\ Coherent /\ CachesAtFunc /\ Verdicts
  /\ RestorationAborts /\ Restorations /\ Requested /\ Stopping /\ Left
-----------------------------------------------------------------------------
(* Evaluating a trial point. *)
LEMMA EvaluateTypes ==
  ASSUME PointTypes, phase \in Phases, NEW p \in Points, NEW reject \in BOOLEAN,
         Evaluate(p, reject)
  PROVE  /\ trial' \in [Phases -> Iterates] /\ func' \in Stamps /\ rest' \in RestValues
         /\ trial'[phase].primal = p /\ reason' = "trying" /\ reason' \in Reasons
         /\ ~reject => trial'[phase].obj = p
         /\ func' = p
         /\ phase = Rest => rest'.cons \in {None, p} /\ rest'.jac \in {None, p}
<1> DEFINE t == trial[phase]
<1>1. t \in Iterates /\ p \in Stamps
  BY PointFacts DEF PointTypes
<1>2. /\ [t EXCEPT !.primal = p] \in Iterates
      /\ [t EXCEPT !.primal = p, !.obj = p, !.cons = p] \in Iterates
  BY <1>1 DEF Iterates
<1>3. /\ [t EXCEPT !.primal = p].primal = p
      /\ [t EXCEPT !.primal = p, !.obj = p, !.cons = p].primal = p
      /\ [t EXCEPT !.primal = p, !.obj = p, !.cons = p].obj = p
  BY <1>1 DEF Iterates
<1>4. CASE reject
  <2>1. trial' = [trial EXCEPT ![phase] = [t EXCEPT !.primal = p]] /\ SetFunc(p)
    BY <1>4 DEF Evaluate, PointTypes
  <2> QED
    BY <1>1, <1>2, <1>3, <2>1, SettingFunction DEF Evaluate, PointTypes, Reasons
<1>5. CASE ~reject
  <2>1. /\ trial' = [trial EXCEPT ![phase] = [t EXCEPT !.primal = p, !.obj = p, !.cons = p]]
        /\ SetAndEvalValues(p)
    BY <1>5 DEF Evaluate
  <2> QED
    BY <1>1, <1>2, <1>3, <2>1, SettingFunction DEF Evaluate, PointTypes, Reasons
<1> QED
  BY <1>4, <1>5
-----------------------------------------------------------------------------
(* A solve sets the scalars to legal values.                               *)
LEMMA SolveScalars ==
  ASSUME IInv, Solve
  PROVE  ScalarTypes'
<1>1. outerUp' \in BOOLEAN
  BY Zenon DEF Solve, IInv, Inv, Typed, ScalarTypes
<1> QED
  BY <1>1, SettingAssumption DEF Solve, IInv, Inv, Typed, ScalarTypes, Reasons

(* So do the clocks.                                                       *)
LEMMA TimePassesScalars ==
  ASSUME IInv, TimePasses
  PROVE  ScalarTypes'
<1>1. outerUp' = TRUE /\ innerUp' \in BOOLEAN
  BY Zenon DEF TimePasses
<1> QED
  BY <1>1 DEF TimePasses, IInv, Inv, Typed, ScalarTypes, outerVars

(* In every step: every flag, status and place has its type.               *)
LEMMA ScalarTypesStep ==
  ASSUME IInv, Next
  PROVE  ScalarTypes'
<1> USE PointFacts DEF IInv, Inv, Typed, Placed, ScalarTypes, outerVars,
        innerVars, pointVars, Statuses, InnerStates, Reasons, Phases
<1>1. CASE Solve  BY <1>1, SolveScalars
<1>2. CASE SolveFails  BY <1>2 DEF SolveFails
<1>3. CASE TimePasses  BY <1>3, TimePassesScalars
<1>4. CASE LoopLimit  BY <1>4 DEF LoopLimit
<1>5. CASE StartInner  BY <1>5 DEF StartInner
<1>6. CASE Propagate  BY <1>6 DEF Propagate
<1>7. CASE Conclude  BY <1>7 DEF Conclude
<1>8. CASE EnterRestoration  BY <1>8 DEF EnterRestoration, ToRestoration
<1>9. CASE LeaveRestorationAborted  BY <1>9 DEF LeaveRestorationAborted, ToOptimization
<1>10. CASE LeaveRestorationChecked  BY <1>10 DEF LeaveRestorationChecked, StaysEnabled
<1>11. CASE Leave  BY <1>11 DEF Leave, ToOptimization
<1>12. CASE HeadLimit  BY <1>12 DEF HeadLimit, Return
<1>13. CASE StopUnbounded  BY <1>13 DEF StopUnbounded, Proceed, Begin, Conclusion, Return
<1>14. CASE StopOptimal  BY <1>14 DEF StopOptimal, Proceed, Begin, Conclusion, Return
<1>15. CASE StopInfeasible
  BY <1>15 DEF StopInfeasible, Proceed, Begin, Conclusion, Return
<1>16. CASE ComputeTrial  BY <1>16 DEF ComputeTrial, Proceed, Begin
<1>17. CASE TimeOut  BY <1>17 DEF TimeOut, Return
<1>18. CASE EvaluationFails  BY <1>18 DEF EvaluationFails, Return
<1>19. CASE EvaluateTrial  BY <1>19 DEF EvaluateTrial, Evaluate
<1>20. CASE EvaluateSoc  BY <1>20 DEF EvaluateSoc, Evaluate
<1>21. CASE DropSoc  BY <1>21 DEF DropSoc
<1>22. CASE Update  BY <1>22 DEF Update, Reject
<1>23. CASE AcceptIterate  BY <1>23 DEF AcceptIterate, Swap
<1>24. CASE AcceptRestoration  BY <1>24 DEF AcceptRestoration, Swap
<1>25. CASE Perform  BY <1>25 DEF Perform, Return
<1>26. CASE UpdateFails  BY <1>26 DEF UpdateFails, Return, Reject, SetFunc
<1> QED
  BY <1>1, <1>2, <1>3, <1>4, <1>5, <1>6, <1>7, <1>8, <1>9, <1>10, <1>11,
    <1>12, <1>13, <1>14, <1>15, <1>16, <1>17, <1>18, <1>19, <1>20, <1>21,
    <1>22, <1>23, <1>24, <1>25, <1>26
  DEF Next, Outer, Inner

-----------------------------------------------------------------------------
(* In every step: the history variables have their types.                  *)
LEMMA HistoryTypesStep ==
  ASSUME IInv, Next
  PROVE  HistoryTypes'
<1> USE SettingAssumption, UserCodeTypes DEF IInv, Inv, Typed, HistoryTypes,
        InnerTypes, outerVars, innerVars, pointVars, MaxSince
<1>1. CASE Solve  BY <1>1 DEF Solve
<1>2. CASE SolveFails  BY <1>2 DEF SolveFails
<1>3. CASE TimePasses  BY <1>3 DEF TimePasses
<1>4. CASE LoopLimit  BY <1>4 DEF LoopLimit
<1>5. CASE StartInner  BY <1>5 DEF StartInner
<1>6. CASE Propagate  BY <1>6 DEF Propagate
<1>7. CASE Conclude  BY <1>7 DEF Conclude
<1>8. CASE EnterRestoration  BY <1>8 DEF EnterRestoration
<1>9. CASE LeaveRestorationAborted  BY <1>9 DEF LeaveRestorationAborted
<1>10. CASE LeaveRestorationChecked  BY <1>10 DEF LeaveRestorationChecked
<1>11. CASE Leave  BY <1>11 DEF Leave
<1>12. CASE HeadLimit  BY <1>12 DEF HeadLimit, Return
<1>13. CASE StopUnbounded  BY <1>13 DEF StopUnbounded, Proceed, Begin, Conclusion, Return
<1>14. CASE StopOptimal  BY <1>14 DEF StopOptimal, Proceed, Begin, Conclusion, Return
<1>15. CASE StopInfeasible
  BY <1>15 DEF StopInfeasible, Proceed, Begin, Conclusion, Return
<1>16. CASE ComputeTrial  BY <1>16 DEF ComputeTrial, Proceed, Begin
<1>17. CASE TimeOut  BY <1>17 DEF TimeOut, Return
<1>18. CASE EvaluationFails  BY <1>18 DEF EvaluationFails, Return
<1>19. CASE EvaluateTrial  BY <1>19 DEF EvaluateTrial
<1>20. CASE EvaluateSoc  BY <1>20 DEF EvaluateSoc
<1>21. CASE DropSoc  BY <1>21 DEF DropSoc
<1>22. CASE Update  BY <1>22 DEF Update
<1>23. CASE AcceptIterate  BY <1>23 DEF AcceptIterate, Swap
<1>24. CASE AcceptRestoration  BY <1>24 DEF AcceptRestoration, Swap
<1>25. CASE Perform  BY <1>25 DEF Perform, Return
<1>26. CASE UpdateFails  BY <1>26 DEF UpdateFails, Return, Reject, SetFunc
<1> QED
  BY <1>1, <1>2, <1>3, <1>4, <1>5, <1>6, <1>7, <1>8, <1>9, <1>10, <1>11,
    <1>12, <1>13, <1>14, <1>15, <1>16, <1>17, <1>18, <1>19, <1>20, <1>21,
    <1>22, <1>23, <1>24, <1>25, <1>26
  DEF Next, Outer, Inner

-----------------------------------------------------------------------------
(* In every step: the state of the problem solvers has its type.           *)
LEMMA InnerTypesStep ==
  ASSUME IInv, Next
  PROVE  InnerTypes'
<1> USE PointFacts, StampFields, UserCodeTypes DEF IInv, Inv, Typed, Placed,
        Counted, CounterTypes, ScalarTypes, HistoryTypes, InnerTypes,
        PointTypes, Statuses, InnerStates, Current, outerVars,
        innerVars, pointVars
<1>1. CASE Solve  BY <1>1 DEF Solve
<1>2. CASE SolveFails  BY <1>2 DEF SolveFails
<1>3. CASE TimePasses  BY <1>3 DEF TimePasses
<1>4. CASE LoopLimit  BY <1>4 DEF LoopLimit
<1>5. CASE StartInner  BY <1>5 DEF StartInner
<1>6. CASE Propagate  BY <1>6 DEF Propagate
<1>7. CASE Conclude  BY <1>7 DEF Conclude
<1>8. CASE EnterRestoration  BY <1>8 DEF EnterRestoration
<1>9. CASE LeaveRestorationAborted  BY <1>9 DEF LeaveRestorationAborted
<1>10. CASE LeaveRestorationChecked  BY <1>10 DEF LeaveRestorationChecked
<1>11. CASE Leave  BY <1>11 DEF Leave
<1>12. CASE HeadLimit  BY <1>12 DEF HeadLimit, Return
<1>13. CASE StopUnbounded  BY <1>13 DEF StopUnbounded, Proceed, Begin, Conclusion, Return
<1>14. CASE StopOptimal  BY <1>14 DEF StopOptimal, Proceed, Begin, Conclusion, Return
<1>15. CASE StopInfeasible
  BY <1>15 DEF StopInfeasible, Proceed, Begin, Conclusion, Return
<1>16. CASE ComputeTrial  BY <1>16 DEF ComputeTrial, Proceed, Begin
<1>17. CASE TimeOut  BY <1>17 DEF TimeOut, Return
<1>18. CASE EvaluationFails  BY <1>18 DEF EvaluationFails, Return
<1>19. CASE EvaluateTrial  BY <1>19 DEF EvaluateTrial
<1>20. CASE EvaluateSoc  BY <1>20 DEF EvaluateSoc
<1>21. CASE DropSoc  BY <1>21 DEF DropSoc
<1>22. CASE Update  BY <1>22 DEF Update
<1>23. CASE AcceptIterate  BY <1>23 DEF AcceptIterate, Swap
<1>24. CASE AcceptRestoration  BY <1>24 DEF AcceptRestoration, Swap
<1>25. CASE Perform  BY <1>25 DEF Perform, Return
<1>26. CASE UpdateFails  BY <1>26 DEF UpdateFails, Return, Reject, SetFunc
<1> QED
  BY <1>1, <1>2, <1>3, <1>4, <1>5, <1>6, <1>7, <1>8, <1>9, <1>10, <1>11,
    <1>12, <1>13, <1>14, <1>15, <1>16, <1>17, <1>18, <1>19, <1>20, <1>21,
    <1>22, <1>23, <1>24, <1>25, <1>26
  DEF Next, Outer, Inner

-----------------------------------------------------------------------------
(* A successful restoration hands over an iterate.                         *)
LEMMA LeaveCheckedPoints ==
  ASSUME IInv, LeaveRestorationChecked
  PROVE  PointTypes'
<1>1. iterate[Rest].primal \in Points /\ rest \in RestValues /\ func \in Stamps
  BY DEF IInv, Inv, Typed, PointTypes, Placed, LeaveRestorationChecked
<1>2. Cached(rest.cons) \in Stamps /\ Cached(rest.jac) \in Stamps
  BY <1>1, StampFields DEF Cached
<1>3. FullAt(iterate[Rest].primal) \in Iterates
  BY <1>1, PointFacts
<1> QED
  BY <1>1, <1>2, <1>3, PointFacts DEF LeaveRestorationChecked, IInv, Inv, Typed, PointTypes,
       RestValues

(* The stationarity test of the violation leaves a stamp.                  *)
LEMMA StopInfeasiblePoints ==
  ASSUME IInv, StopInfeasible
  PROVE  PointTypes'
<1>1. trial' = [trial EXCEPT ![Opt].primal = Current.primal] /\ phase = Opt
  BY DEF StopInfeasible
<1>2. [trial[Opt] EXCEPT !.primal = Current.primal] \in Iterates
  BY <1>1, PointFacts, StampFields DEF IInv, Inv, Typed, PointTypes, Iterates, Current
<1> QED
  BY <1>1, <1>2 DEF StopInfeasible, Begin, IInv, Inv, Typed, PointTypes

(* A trial point is one of the points in the bounds.                       *)
LEMMA ComputeTrialPoints ==
  ASSUME IInv, ComputeTrial
  PROVE  PointTypes'
<1>1. PICK p \in Boxed : trial' = [trial EXCEPT ![phase].primal = p]
  BY DEF ComputeTrial
<1>2. [trial[phase] EXCEPT !.primal = p] \in Iterates
  BY <1>1, PointFacts, StampFields DEF IInv, Inv, Typed, PointTypes, ScalarTypes, Iterates
<1> QED
  BY <1>1, <1>2 DEF ComputeTrial, Begin, IInv, Inv, Typed, PointTypes

(* Dropping the correction leaves the trial point of the step.             *)
LEMMA DropSocPoints ==
  ASSUME IInv, DropSoc
  PROVE  PointTypes'
<1>1. PICK p \in Boxed : trial' = [trial EXCEPT ![phase].primal = p]
  BY DEF DropSoc
<1>2. [trial[phase] EXCEPT !.primal = p] \in Iterates
  BY <1>1, PointFacts, StampFields DEF IInv, Inv, Typed, PointTypes, ScalarTypes, Iterates
<1> QED
  BY <1>1, <1>2 DEF DropSoc, IInv, Inv, Typed, PointTypes

(* Accepting completes the trial iterate at the function's point.          *)
LEMMA UpdatePoints ==
  ASSUME IInv, Update
  PROVE  PointTypes' /\ Placed'
<1> DEFINE t == trial[phase]
<1>1. t \in Iterates /\ t.primal \in Points /\ Current \in Iterates /\ Current.primal \in Points
  BY DEF Update, IInv, Inv, Typed, PointTypes, ScalarTypes, Placed, Current
<1>2. CASE accepting
  <2>1. SetAndEvalAll(t.primal) /\ trial' = [trial EXCEPT ![phase] = Complete(t, func')] /\ pc' = "accepted"
    BY <1>2 DEF Update
  <2>2. func' \in Stamps /\ rest' \in RestValues
    BY <1>1, <2>1, SettingFunction, PointFacts DEF IInv, Inv, Typed
  <2>3. Complete(t, func') \in Iterates /\ Complete(t, func').primal = t.primal
    BY <1>1, <2>2 DEF Complete, Iterates
  <2>4. trial' \in [Phases -> Iterates] /\ trial'[phase].primal = t.primal
    BY <2>1, <2>3 DEF IInv, Inv, Typed, PointTypes, ScalarTypes
  <2> QED
    BY <1>1, <2>1, <2>2, <2>4 DEF Update, IInv, Inv, Typed, PointTypes, Placed, outerVars,
       Current
<1>3. CASE ~accepting
  <2>1. SetFunc(Current.primal) /\ UNCHANGED trial /\ pc' = "performed"
    BY <1>3 DEF Update, Reject
  <2>2. func' \in Stamps /\ rest' \in RestValues
    BY <1>1, <2>1, SettingFunction, PointFacts DEF IInv, Inv, Typed
  <2> QED
    BY <1>1, <2>1, <2>2 DEF Update, IInv, Inv, Typed, PointTypes, Placed, outerVars, Current
<1> QED
  BY <1>2, <1>3

(* In every step: iterates, function and caches are made of stamps.        *)
LEMMA PointTypesStep ==
  ASSUME IInv, Next
  PROVE  PointTypes'
<1> USE PointFacts, StampFields, SettingFunction, ToRestorationTypes,
        ToOptimizationTypes, EvaluateTypes DEF IInv, Inv, Typed,
        ScalarTypes, PointTypes, Placed, Current, outerVars,
        innerVars, pointVars
<1>1. CASE Solve  BY <1>1 DEF Solve
<1>2. CASE SolveFails  BY <1>2 DEF SolveFails
<1>3. CASE TimePasses  BY <1>3 DEF TimePasses
<1>4. CASE LoopLimit  BY <1>4 DEF LoopLimit
<1>5. CASE StartInner  BY <1>5 DEF StartInner
<1>6. CASE Propagate  BY <1>6 DEF Propagate
<1>7. CASE Conclude  BY <1>7 DEF Conclude
<1>8. CASE EnterRestoration  BY <1>8 DEF EnterRestoration
<1>9. CASE LeaveRestorationAborted  BY <1>9 DEF LeaveRestorationAborted
<1>10. CASE LeaveRestorationChecked  BY <1>10, LeaveCheckedPoints
<1>11. CASE Leave  BY <1>11 DEF Leave
<1>12. CASE HeadLimit  BY <1>12 DEF HeadLimit, Return
<1>13. CASE StopUnbounded  BY <1>13 DEF StopUnbounded, Proceed, Begin, Conclusion, Return
<1>14. CASE StopOptimal  BY <1>14 DEF StopOptimal, Proceed, Begin, Conclusion, Return
<1>15. CASE StopInfeasible  BY <1>15, StopInfeasiblePoints
<1>16. CASE ComputeTrial  BY <1>16, ComputeTrialPoints
<1>17. CASE TimeOut  BY <1>17 DEF TimeOut, Return
<1>18. CASE EvaluationFails  BY <1>18 DEF EvaluationFails, Return
<1>19. CASE EvaluateTrial  BY <1>19 DEF EvaluateTrial
<1>20. CASE EvaluateSoc  BY <1>20 DEF EvaluateSoc
<1>21. CASE DropSoc  BY <1>21, DropSocPoints
<1>22. CASE Update  BY <1>22, UpdatePoints
<1>23. CASE AcceptIterate  BY <1>23 DEF AcceptIterate, Swap
<1>24. CASE AcceptRestoration  BY <1>24 DEF AcceptRestoration, Swap
<1>25. CASE Perform  BY <1>25 DEF Perform, Return
<1>26. CASE UpdateFails  BY <1>26 DEF UpdateFails, Return, Reject, SetFunc
<1> QED
  BY <1>1, <1>2, <1>3, <1>4, <1>5, <1>6, <1>7, <1>8, <1>9, <1>10, <1>11,
    <1>12, <1>13, <1>14, <1>15, <1>16, <1>17, <1>18, <1>19, <1>20, <1>21,
    <1>22, <1>23, <1>24, <1>25, <1>26
  DEF Next, Outer, Inner

-----------------------------------------------------------------------------
(* In every step: iterations are counted and the budget is kept.           *)
LEMMA CountedStep ==
  ASSUME IInv, Next
  PROVE  Counted'
<1> USE PointFacts, SettingAssumption DEF IInv, Inv, Typed, Counted,
        CounterTypes, Budget, ScalarTypes, outerVars, innerVars,
        Unlimited, Phases, OutOfIterations
<1>1. CASE Solve  BY <1>1 DEF Solve
<1>2. CASE SolveFails  BY <1>2 DEF SolveFails
<1>3. CASE TimePasses  BY <1>3 DEF TimePasses
<1>4. CASE LoopLimit  BY <1>4 DEF LoopLimit
<1>5. CASE StartInner  BY <1>5 DEF StartInner
<1>6. CASE Propagate  BY <1>6 DEF Propagate, AccountIterations
<1>7. CASE Conclude  BY <1>7 DEF Conclude, AccountIterations
<1>8. CASE EnterRestoration
  BY <1>8 DEF EnterRestoration, AccountIterations, ToRestoration
<1>9. CASE LeaveRestorationAborted
  BY <1>9 DEF LeaveRestorationAborted, AccountIterations, ToOptimization
<1>10. CASE LeaveRestorationChecked
  BY <1>10 DEF LeaveRestorationChecked, AccountIterations
<1>11. CASE Leave  BY <1>11 DEF Leave, ToOptimization
<1>12. CASE HeadLimit  BY <1>12 DEF HeadLimit, Return
<1>13. CASE StopUnbounded  BY <1>13 DEF StopUnbounded, Proceed, Begin, Conclusion, Return
<1>14. CASE StopOptimal  BY <1>14 DEF StopOptimal, Proceed, Begin, Conclusion, Return
<1>15. CASE StopInfeasible
  BY <1>15 DEF StopInfeasible, Proceed, Begin, Conclusion, Return
<1>16. CASE ComputeTrial  BY <1>16 DEF ComputeTrial, Proceed, Begin
<1>17. CASE TimeOut  BY <1>17 DEF TimeOut, Return
<1>18. CASE EvaluationFails  BY <1>18 DEF EvaluationFails, Return
<1>19. CASE EvaluateTrial  BY <1>19 DEF EvaluateTrial
<1>20. CASE EvaluateSoc  BY <1>20 DEF EvaluateSoc
<1>21. CASE DropSoc  BY <1>21 DEF DropSoc
<1>22. CASE Update  BY <1>22 DEF Update
<1>23. CASE AcceptIterate  BY <1>23 DEF AcceptIterate, Swap
<1>24. CASE AcceptRestoration  BY <1>24 DEF AcceptRestoration, Swap
<1>25. CASE Perform  BY <1>25 DEF Perform, Return
<1>26. CASE UpdateFails  BY <1>26 DEF UpdateFails, Return, Reject, SetFunc
<1> QED
  BY <1>1, <1>2, <1>3, <1>4, <1>5, <1>6, <1>7, <1>8, <1>9, <1>10, <1>11,
    <1>12, <1>13, <1>14, <1>15, <1>16, <1>17, <1>18, <1>19, <1>20, <1>21,
    <1>22, <1>23, <1>24, <1>25, <1>26
  DEF Next, Outer, Inner

-----------------------------------------------------------------------------
(* A solve starts at a point.                                              *)
LEMMA SolvePlaced ==
  ASSUME IInv, Solve
  PROVE  Placed'
<1>1. iterate'[Opt] = FullAt(Clip[primal])
  BY PointFacts DEF Solve, IInv, Inv, Typed, PointTypes
<1>2. iterate'[Opt].primal \in Points
  BY <1>1, PointFacts DEF FullAt, IInv, Inv, Typed, ScalarTypes
<1> QED
  BY <1>2 DEF Solve, IInv, Inv, Placed

(* Restoration starts at the point of the iterate.                         *)
LEMMA EnterRestorationPlaced ==
  ASSUME IInv, EnterRestoration
  PROVE  Placed'
<1>1. iterate[Opt].primal \in Points
  BY DEF IInv, Inv, Placed, EnterRestoration
<1>2. CASE ToRestoration
  <2>1. iterate'[Rest].primal = iterate[Opt].primal
    BY <1>2, PointFacts DEF ToRestoration, IInv, Inv, Typed, PointTypes, Iterates
  <2> QED
    BY <1>1, <1>2, <2>1 DEF EnterRestoration, ToRestoration, Placed
<1>3. CASE UNCHANGED <<phase, primal, iterate, func, rest, restored>>
  BY <1>1, <1>3 DEF EnterRestoration, Placed
<1> QED
  BY <1>2, <1>3 DEF EnterRestoration

(* It ends at one.                                                         *)
LEMMA LeaveCheckedPlaced ==
  ASSUME IInv, LeaveRestorationChecked
  PROVE  Placed'
<1>1. iterate'[Opt] = FullAt(iterate[Rest].primal) /\ phase' = Opt /\ pc' = "loop"
  BY PointFacts DEF LeaveRestorationChecked, IInv, Inv, Typed, PointTypes
<1> QED
  BY <1>1 DEF LeaveRestorationChecked, IInv, Inv, Placed, FullAt

(* The trial iterate keeps its point without the correction.               *)
LEMMA DropSocPlaced ==
  ASSUME IInv, DropSoc
  PROVE  Placed'
<1>1. PICK p \in Boxed : trial' = [trial EXCEPT ![phase].primal = p]
  BY DEF DropSoc
<1>2. [trial[phase] EXCEPT !.primal = p].primal = p
  BY <1>1, PointFacts, StampFields DEF IInv, Inv, Typed, PointTypes, ScalarTypes, Iterates
<1>3. trial'[phase].primal = p
  BY <1>1, <1>2 DEF IInv, Inv, Typed, PointTypes, ScalarTypes
<1> QED
  BY <1>3, PointFacts DEF DropSoc, IInv, Inv, Placed, outerVars

(* In every step: iterates and trial iterates are at points.               *)
LEMMA PlacedStep ==
  ASSUME IInv, Next
  PROVE  Placed'
<1> USE PointFacts, StampFields, PointAssumption, EvaluateTypes DEF IInv, Inv,
        Typed, Placed, ScalarTypes, PointTypes, Current, outerVars,
        innerVars, pointVars
<1>1. CASE Solve  BY <1>1, SolvePlaced
<1>2. CASE SolveFails  BY <1>2 DEF SolveFails
<1>3. CASE TimePasses  BY <1>3 DEF TimePasses
<1>4. CASE LoopLimit  BY <1>4 DEF LoopLimit
<1>5. CASE StartInner  BY <1>5 DEF StartInner
<1>6. CASE Propagate  BY <1>6 DEF Propagate
<1>7. CASE Conclude  BY <1>7 DEF Conclude
<1>8. CASE EnterRestoration  BY <1>8, EnterRestorationPlaced
<1>9. CASE LeaveRestorationAborted  BY <1>9 DEF LeaveRestorationAborted, ToOptimization
<1>10. CASE LeaveRestorationChecked  BY <1>10, LeaveCheckedPlaced
<1>11. CASE Leave  BY <1>11 DEF Leave, ToOptimization
<1>12. CASE HeadLimit  BY <1>12 DEF HeadLimit, Return
<1>13. CASE StopUnbounded  BY <1>13 DEF StopUnbounded, Proceed, Begin, Conclusion, Return
<1>14. CASE StopOptimal  BY <1>14 DEF StopOptimal, Proceed, Begin, Conclusion, Return
<1>15. CASE StopInfeasible
  BY <1>15 DEF StopInfeasible, Proceed, Begin, Conclusion, Return
<1>16. CASE ComputeTrial  BY <1>16 DEF ComputeTrial, Proceed, Begin
<1>17. CASE TimeOut  BY <1>17 DEF TimeOut, Return
<1>18. CASE EvaluationFails  BY <1>18 DEF EvaluationFails, Return
<1>19. CASE EvaluateTrial  BY <1>19 DEF EvaluateTrial
<1>20. CASE EvaluateSoc  BY <1>20 DEF EvaluateSoc
<1>21. CASE DropSoc  BY <1>21, DropSocPlaced
<1>22. CASE Update  BY <1>22, UpdatePoints
<1>23. CASE AcceptIterate  BY <1>23 DEF AcceptIterate, Swap
<1>24. CASE AcceptRestoration  BY <1>24 DEF AcceptRestoration, Swap
<1>25. CASE Perform  BY <1>25 DEF Perform, Return
<1>26. CASE UpdateFails  BY <1>26 DEF UpdateFails, Return, Reject, SetFunc
<1> QED
  BY <1>1, <1>2, <1>3, <1>4, <1>5, <1>6, <1>7, <1>8, <1>9, <1>10, <1>11,
    <1>12, <1>13, <1>14, <1>15, <1>16, <1>17, <1>18, <1>19, <1>20, <1>21,
    <1>22, <1>23, <1>24, <1>25, <1>26
  DEF Next, Outer, Inner

-----------------------------------------------------------------------------
(* A solve starts with the function at its iterate.                        *)
LEMMA SolveAtIterate ==
  ASSUME IInv, Solve
  PROVE  AtIterate'
<1>1. iterate'[Opt] = FullAt(Clip[primal])
  BY PointFacts DEF Solve, IInv, Inv, Typed, PointTypes
<1>2. func' = Clip[primal] /\ phase' = Opt /\ pc' = "loop"
  BY DEF Solve, SetAndEvalAll, IInv, Inv, Placed
<1> QED
  BY <1>1, <1>2 DEF AtIterate, Current, FullAt

(* Restoration starts with the function where it was.                      *)
LEMMA EnterRestorationAtIterate ==
  ASSUME IInv, EnterRestoration
  PROVE  AtIterate'
<1>1. func = iterate[Opt].primal /\ phase = Opt /\ pc' = "loop"
  BY DEF IInv, AtIterate, Current, EnterRestoration
<1>2. CASE ToRestoration
  <2>1. iterate'[Rest].primal = iterate[Opt].primal
    BY <1>2, PointFacts DEF ToRestoration, IInv, Inv, Typed, PointTypes, Iterates
  <2> QED
    BY <1>1, <1>2, <2>1 DEF ToRestoration, AtIterate, Current
<1>3. CASE UNCHANGED <<phase, primal, iterate, func, rest, restored>>
  BY <1>1, <1>3 DEF AtIterate, Current
<1> QED
  BY <1>2, <1>3 DEF EnterRestoration

(* The optimization goes on at the restored point.                         *)
LEMMA LeaveCheckedAtIterate ==
  ASSUME IInv, LeaveRestorationChecked
  PROVE  AtIterate'
<1>1. iterate'[Opt] = FullAt(iterate[Rest].primal) /\ phase' = Opt /\ pc' = "loop"
  BY PointFacts DEF LeaveRestorationChecked, IInv, Inv, Typed, PointTypes
<1> QED
  BY <1>1 DEF LeaveRestorationChecked, AtIterate, Current, FullAt

(* The end of an iteration has the function at the accepted or at the old  *)
(* iterate.                                                                *)
LEMMA UpdateAtIterate ==
  ASSUME IInv, Update
  PROVE  AtIterate'
<1> DEFINE t == trial[phase]
<1>1. t \in Iterates /\ phase \in Phases
  BY DEF IInv, Inv, Typed, PointTypes, ScalarTypes
<1>2. CASE accepting
  <2>1. /\ func' = t.primal /\ trial' = [trial EXCEPT ![phase] = Complete(t, func')]
        /\ pc' = "accepted" /\ UNCHANGED <<phase, iterate>>
    BY <1>2 DEF Update, SetAndEvalAll, outerVars
  <2>2. trial'[phase] = Complete(t, t.primal)
    BY <1>1, <2>1 DEF IInv, Inv, Typed, PointTypes
  <2>3. trial'[phase].primal = t.primal
    BY <1>1, <2>2 DEF Complete, Iterates
  <2> QED
    BY <2>1, <2>3 DEF AtIterate
<1>3. CASE ~accepting
  <2>1. func' = Current.primal /\ pc' = "performed" /\ UNCHANGED <<phase, iterate>>
    BY <1>3 DEF Update, Reject, SetFunc, outerVars
  <2> QED
    BY <2>1 DEF AtIterate, Current
<1> QED
  BY <1>2, <1>3

(* In every step: the function is at the iterate or at the trial iterate.  *)
LEMMA AtIterateStep ==
  ASSUME IInv, Next
  PROVE  AtIterate'
<1> USE PointFacts, StampFields DEF IInv, Inv, Typed, Placed, ScalarTypes,
        InnerTypes, PointTypes, Current, Phases, outerVars, innerVars,
        pointVars, AtIterate, Iterates
<1>1. CASE Solve  BY <1>1, SolveAtIterate
<1>2. CASE SolveFails  BY <1>2 DEF SolveFails, SetFunc
<1>3. CASE TimePasses  BY <1>3 DEF TimePasses
<1>4. CASE LoopLimit  BY <1>4 DEF LoopLimit
<1>5. CASE StartInner  BY <1>5 DEF StartInner
<1>6. CASE Propagate  BY <1>6 DEF Propagate
<1>7. CASE Conclude  BY <1>7 DEF Conclude
<1>8. CASE EnterRestoration  BY <1>8, EnterRestorationAtIterate
<1>9. CASE LeaveRestorationAborted  BY <1>9 DEF LeaveRestorationAborted, ToOptimization
<1>10. CASE LeaveRestorationChecked  BY <1>10, LeaveCheckedAtIterate
<1>11. CASE Leave  BY <1>11 DEF Leave, ToOptimization, UserCode
<1>12. CASE HeadLimit  BY <1>12 DEF HeadLimit, Return
<1>13. CASE StopUnbounded  BY <1>13 DEF StopUnbounded, Proceed, Begin, Conclusion, Return
<1>14. CASE StopOptimal
  BY <1>14 DEF StopOptimal, Proceed, Begin, Conclusion, Return, ResidualOk
<1>15. CASE StopInfeasible
  BY <1>15 DEF StopInfeasible, Proceed, Begin, Conclusion, Return, ResidualOk
<1>16. CASE ComputeTrial  BY <1>16 DEF ComputeTrial, Proceed, Begin
<1>17. CASE TimeOut  BY <1>17 DEF TimeOut, Return
<1>18. CASE EvaluationFails  BY <1>18 DEF EvaluationFails, Return, SetFunc
<1>19. CASE EvaluateTrial
  BY <1>19 DEF EvaluateTrial, Evaluate, SetFunc, SetAndEvalValues, UserCode
<1>20. CASE EvaluateSoc
  BY <1>20 DEF EvaluateSoc, Evaluate, SetFunc, SetAndEvalValues, UserCode
<1>21. CASE DropSoc  BY <1>21 DEF DropSoc
<1>22. CASE Update  BY <1>22, UpdateAtIterate
<1>23. CASE AcceptIterate  BY <1>23 DEF AcceptIterate, Swap, UserCode
<1>24. CASE AcceptRestoration  BY <1>24 DEF AcceptRestoration, Swap
<1>25. CASE Perform  BY <1>25 DEF Perform, Return, UserCode
<1>26. CASE UpdateFails  BY <1>26 DEF UpdateFails, Return, Reject, SetFunc
<1> QED
  BY <1>1, <1>2, <1>3, <1>4, <1>5, <1>6, <1>7, <1>8, <1>9, <1>10, <1>11,
    <1>12, <1>13, <1>14, <1>15, <1>16, <1>17, <1>18, <1>19, <1>20, <1>21,
    <1>22, <1>23, <1>24, <1>25, <1>26
  DEF Next, Outer, Inner

-----------------------------------------------------------------------------
(* An evaluated trial point is announced as tried.                         *)
LEMMA EvaluateTrialAnnounced ==
  ASSUME IInv, EvaluateTrial
  PROVE  Announced'
<1> DEFINE p == trial[phase].primal
<1>1. PICK reject \in BOOLEAN : Evaluate(p, reject)
  BY DEF EvaluateTrial
<1>2. trial'[phase].primal = p /\ func' = p /\ reason' = "trying"
  BY <1>1, EvaluateTypes DEF EvaluateTrial, IInv, Inv, Typed, ScalarTypes, Placed
<1> QED
  BY <1>2 DEF EvaluateTrial, Announced, outerVars

(* So is an evaluated correction.                                          *)
LEMMA EvaluateSocAnnounced ==
  ASSUME IInv, EvaluateSoc
  PROVE  Announced'
<1>1. PICK p \in Boxed, reject \in BOOLEAN : Evaluate(p, reject)
  BY DEF EvaluateSoc
<1>2. trial'[phase].primal = p /\ func' = p /\ reason' = "trying"
  BY <1>1, EvaluateTypes, PointFacts DEF IInv, Inv, Typed, ScalarTypes
<1> QED
  BY <1>2 DEF EvaluateSoc, Announced, outerVars

(* In every step: a step is accepted at the point tried last.              *)
LEMMA AnnouncedStep ==
  ASSUME IInv, Next
  PROVE  Announced'
<1> USE PointFacts, StampFields DEF IInv, Inv, Typed, Placed, ScalarTypes,
        InnerTypes, PointTypes, Current, Phases, outerVars, innerVars,
        pointVars, Announced, Coherent
<1>1. CASE Solve  BY <1>1 DEF Solve, SetAndEvalAll
<1>2. CASE SolveFails  BY <1>2 DEF SolveFails, SetFunc
<1>3. CASE TimePasses  BY <1>3 DEF TimePasses
<1>4. CASE LoopLimit  BY <1>4 DEF LoopLimit
<1>5. CASE StartInner  BY <1>5 DEF StartInner
<1>6. CASE Propagate  BY <1>6 DEF Propagate
<1>7. CASE Conclude  BY <1>7 DEF Conclude
<1>8. CASE EnterRestoration  BY <1>8 DEF EnterRestoration, ToRestoration
<1>9. CASE LeaveRestorationAborted  BY <1>9 DEF LeaveRestorationAborted, ToOptimization
<1>10. CASE LeaveRestorationChecked
  BY <1>10 DEF LeaveRestorationChecked, StaysEnabled, UserCode
<1>11. CASE Leave  BY <1>11 DEF Leave, ToOptimization, UserCode
<1>12. CASE HeadLimit  BY <1>12 DEF HeadLimit, Return
<1>13. CASE StopUnbounded  BY <1>13 DEF StopUnbounded, Proceed, Begin, Conclusion, Return
<1>14. CASE StopOptimal
  BY <1>14 DEF StopOptimal, Proceed, Begin, Conclusion, Return, ResidualOk
<1>15. CASE StopInfeasible
  BY <1>15 DEF StopInfeasible, Proceed, Begin, Conclusion, Return, ResidualOk
<1>16. CASE ComputeTrial  BY <1>16 DEF ComputeTrial, Proceed, Begin
<1>17. CASE TimeOut  BY <1>17 DEF TimeOut, Return
<1>18. CASE EvaluationFails  BY <1>18 DEF EvaluationFails, Return, SetFunc
<1>19. CASE EvaluateTrial  BY <1>19, EvaluateTrialAnnounced
<1>20. CASE EvaluateSoc  BY <1>20, EvaluateSocAnnounced
<1>21. CASE DropSoc  BY <1>21 DEF DropSoc
<1>22. CASE Update
  BY <1>22 DEF Update, Reject, SetFunc, SetAndEvalAll, Complete, UserCode
<1>23. CASE AcceptIterate  BY <1>23 DEF AcceptIterate, Swap, UserCode
<1>24. CASE AcceptRestoration  BY <1>24 DEF AcceptRestoration, Swap
<1>25. CASE Perform  BY <1>25 DEF Perform, Return, UserCode
<1>26. CASE UpdateFails  BY <1>26 DEF UpdateFails, Return, Reject, SetFunc
<1> QED
  BY <1>1, <1>2, <1>3, <1>4, <1>5, <1>6, <1>7, <1>8, <1>9, <1>10, <1>11,
    <1>12, <1>13, <1>14, <1>15, <1>16, <1>17, <1>18, <1>19, <1>20, <1>21,
    <1>22, <1>23, <1>24, <1>25, <1>26
  DEF Next, Outer, Inner

-----------------------------------------------------------------------------
(* An accepted trial point has its own objective value.                    *)
LEMMA EvaluateTrialCoherent ==
  ASSUME IInv, EvaluateTrial
  PROVE  Coherent'
<1> DEFINE p == trial[phase].primal
<1>1. p \in Points
  BY DEF EvaluateTrial, IInv, Inv, Placed
<1>2. PICK reject, accept \in BOOLEAN :
        (accept => ~reject) /\ Evaluate(p, reject) /\ accepting' = accept
        /\ pc' = IF ~accept /\ PerformSoc /\ phase = Opt THEN "soc" ELSE "update"
  BY DEF EvaluateTrial
<1>3. /\ trial'[phase].primal = p /\ (~reject => trial'[phase].obj = p) /\ func' = p
      /\ phase = Rest => rest'.cons \in {None, p} /\ rest'.jac \in {None, p}
  BY <1>1, <1>2, EvaluateTypes DEF IInv, Inv, Typed, ScalarTypes
<1> QED
  BY <1>2, <1>3 DEF EvaluateTrial, IInv, Coherent, outerVars

(* So has an accepted correction.                                          *)
LEMMA EvaluateSocCoherent ==
  ASSUME IInv, EvaluateSoc
  PROVE  Coherent'
<1>1. PICK p \in Boxed, reject, accept \in BOOLEAN :
        (accept => ~reject) /\ Evaluate(p, reject) /\ accepting' = accept
  BY DEF EvaluateSoc
<1>2. p \in Points
  BY <1>1, PointFacts
<1>3. /\ trial'[phase].primal = p /\ (~reject => trial'[phase].obj = p) /\ func' = p
      /\ phase = Rest => rest'.cons \in {None, p} /\ rest'.jac \in {None, p}
  BY <1>1, <1>2, EvaluateTypes DEF IInv, Inv, Typed, ScalarTypes
<1> QED
  BY <1>1, <1>3 DEF EvaluateSoc, IInv, Coherent, outerVars

(* The accepted iterate is complete at its own point.                      *)
LEMMA UpdateCoherent ==
  ASSUME IInv, Update
  PROVE  Coherent'
<1> DEFINE t == trial[phase]
<1>1. t \in Iterates /\ phase \in Phases
  BY DEF IInv, Inv, Typed, PointTypes, ScalarTypes
<1>2. CASE accepting
  <2>1. /\ func' = t.primal /\ trial' = [trial EXCEPT ![phase] = Complete(t, func')]
        /\ pc' = "accepted" /\ UNCHANGED <<phase, iterate>>
    BY <1>2 DEF Update, SetAndEvalAll, outerVars
  <2>2. trial'[phase] = Complete(t, t.primal)
    BY <1>1, <2>1 DEF IInv, Inv, Typed, PointTypes
  <2>3. t.obj = t.primal
    BY <1>2 DEF Update, IInv, Coherent
  <2>4. Complete(t, t.primal) = FullAt(t.primal)
    <3> DEFINE u == Complete(t, t.primal)
    <3>1. /\ u.primal = t.primal /\ u.obj = t.primal /\ u.grad = t.primal
          /\ u.cons = t.primal /\ u.jac = t.primal
      BY <1>1, <2>3 DEF Complete, Iterates
    <3>2. u \in Iterates
      BY <1>1, StampFields DEF Complete, Iterates
    <3> HIDE DEF u
    <3>3. u = [primal |-> u.primal, obj |-> u.obj, grad |-> u.grad, cons |-> u.cons, jac |-> u.jac]
      BY <3>2 DEF Iterates
    <3>4. u = FullAt(t.primal)
      BY <3>1, <3>3 DEF FullAt
    <3> QED
      BY <3>4 DEF u
  <2>5. FullAt(t.primal).primal = t.primal
    BY DEF FullAt
  <2>6. iterate[Opt] = FullAt(iterate[Opt].primal)
    BY DEF Update, IInv, Coherent
  <2> QED
    BY <2>1, <2>2, <2>4, <2>5, <2>6 DEF Coherent
<1>3. CASE ~accepting
  <2>1. func' = Current.primal /\ pc' = "performed" /\ UNCHANGED <<phase, iterate>>
    BY <1>3 DEF Update, Reject, SetFunc, outerVars
  <2> QED
    BY <2>1 DEF IInv, Coherent, Update
<1> QED
  BY <1>2, <1>3

(* In every step: the parts of an iterate are those of its point.          *)
LEMMA CoherentStep ==
  ASSUME IInv, Next
  PROVE  Coherent'
<1> USE PointFacts, StampFields DEF IInv, Inv, Typed, Placed, ScalarTypes,
        InnerTypes, PointTypes, Current, Phases, outerVars, innerVars,
        pointVars, Coherent, AtIterate, CachesAtFunc, FullAt, Cached
<1>1. CASE Solve  BY <1>1 DEF Solve, SetAndEvalAll
<1>2. CASE SolveFails  BY <1>2 DEF SolveFails, SetFunc
<1>3. CASE TimePasses  BY <1>3 DEF TimePasses
<1>4. CASE LoopLimit  BY <1>4 DEF LoopLimit
<1>5. CASE StartInner  BY <1>5 DEF StartInner
<1>6. CASE Propagate  BY <1>6 DEF Propagate
<1>7. CASE Conclude  BY <1>7 DEF Conclude
<1>8. CASE EnterRestoration  BY <1>8 DEF EnterRestoration, ToRestoration
<1>9. CASE LeaveRestorationAborted  BY <1>9 DEF LeaveRestorationAborted, ToOptimization
<1>10. CASE LeaveRestorationChecked
  BY <1>10 DEF LeaveRestorationChecked, StaysEnabled, UserCode
<1>11. CASE Leave  BY <1>11 DEF Leave, ToOptimization, UserCode
<1>12. CASE HeadLimit  BY <1>12 DEF HeadLimit, Return
<1>13. CASE StopUnbounded  BY <1>13 DEF StopUnbounded, Proceed, Begin, Conclusion, Return
<1>14. CASE StopOptimal
  BY <1>14 DEF StopOptimal, Proceed, Begin, Conclusion, Return, ResidualOk
<1>15. CASE StopInfeasible
  BY <1>15 DEF StopInfeasible, Proceed, Begin, Conclusion, Return, ResidualOk
<1>16. CASE ComputeTrial  BY <1>16 DEF ComputeTrial, Proceed, Begin
<1>17. CASE TimeOut  BY <1>17 DEF TimeOut, Return
<1>18. CASE EvaluationFails  BY <1>18 DEF EvaluationFails, Return, SetFunc
<1>19. CASE EvaluateTrial  BY <1>19, EvaluateTrialCoherent
<1>20. CASE EvaluateSoc  BY <1>20, EvaluateSocCoherent
<1>21. CASE DropSoc  BY <1>21 DEF DropSoc
<1>22. CASE Update  BY <1>22, UpdateCoherent
<1>23. CASE AcceptIterate  BY <1>23 DEF AcceptIterate, Swap, UserCode
<1>24. CASE AcceptRestoration  BY <1>24 DEF AcceptRestoration, Swap
<1>25. CASE Perform  BY <1>25 DEF Perform, Return, UserCode
<1>26. CASE UpdateFails  BY <1>26 DEF UpdateFails, Return, Reject, SetFunc
<1> QED
  BY <1>1, <1>2, <1>3, <1>4, <1>5, <1>6, <1>7, <1>8, <1>9, <1>10, <1>11,
    <1>12, <1>13, <1>14, <1>15, <1>16, <1>17, <1>18, <1>19, <1>20, <1>21,
    <1>22, <1>23, <1>24, <1>25, <1>26
  DEF Next, Outer, Inner

-----------------------------------------------------------------------------
(* The restoration function caches at the trial point only.                *)
LEMMA EvaluateTrialCaches ==
  ASSUME IInv, EvaluateTrial
  PROVE  CachesAtFunc'
<1> DEFINE p == trial[phase].primal
<1>1. p \in Points
  BY DEF EvaluateTrial, IInv, Inv, Placed
<1>2. PICK reject, accept \in BOOLEAN :
        (accept => ~reject) /\ Evaluate(p, reject) /\ accepting' = accept
        /\ pc' = IF ~accept /\ PerformSoc /\ phase = Opt THEN "soc" ELSE "update"
  BY DEF EvaluateTrial
<1>3. /\ trial'[phase].primal = p /\ (~reject => trial'[phase].obj = p) /\ func' = p
      /\ phase = Rest => rest'.cons \in {None, p} /\ rest'.jac \in {None, p}
  BY <1>1, <1>2, EvaluateTypes DEF IInv, Inv, Typed, ScalarTypes
<1> QED
  BY <1>2, <1>3 DEF EvaluateTrial, IInv, CachesAtFunc, outerVars

(* Or at the correction.                                                   *)
LEMMA EvaluateSocCaches ==
  ASSUME IInv, EvaluateSoc
  PROVE  CachesAtFunc'
<1>1. PICK p \in Boxed, reject, accept \in BOOLEAN :
        (accept => ~reject) /\ Evaluate(p, reject) /\ accepting' = accept
  BY DEF EvaluateSoc
<1>2. p \in Points
  BY <1>1, PointFacts
<1>3. /\ trial'[phase].primal = p /\ (~reject => trial'[phase].obj = p) /\ func' = p
      /\ phase = Rest => rest'.cons \in {None, p} /\ rest'.jac \in {None, p}
  BY <1>1, <1>2, EvaluateTypes DEF IInv, Inv, Typed, ScalarTypes
<1> QED
  BY <1>1, <1>3 DEF EvaluateSoc, IInv, CachesAtFunc, outerVars

(* In every step: the caches of the restoration function belong to its     *)
(* point.                                                                  *)
LEMMA CachesAtFuncStep ==
  ASSUME IInv, Next
  PROVE  CachesAtFunc'
<1> USE PointFacts, StampFields DEF IInv, Inv, Typed, Placed, ScalarTypes,
        InnerTypes, PointTypes, Current, Phases, outerVars, innerVars,
        pointVars, Coherent, CachesAtFunc, AtIterate, FullAt,
        NoRestValues, RestValues
<1>1. CASE Solve  BY <1>1 DEF Solve, SetAndEvalAll
<1>2. CASE SolveFails  BY <1>2 DEF SolveFails, SetFunc
<1>3. CASE TimePasses  BY <1>3 DEF TimePasses
<1>4. CASE LoopLimit  BY <1>4 DEF LoopLimit
<1>5. CASE StartInner  BY <1>5 DEF StartInner
<1>6. CASE Propagate  BY <1>6 DEF Propagate
<1>7. CASE Conclude  BY <1>7 DEF Conclude
<1>8. CASE EnterRestoration  BY <1>8 DEF EnterRestoration, ToRestoration
<1>9. CASE LeaveRestorationAborted  BY <1>9 DEF LeaveRestorationAborted, ToOptimization
<1>10. CASE LeaveRestorationChecked
  BY <1>10 DEF LeaveRestorationChecked, StaysEnabled, UserCode
<1>11. CASE Leave  BY <1>11 DEF Leave, ToOptimization, UserCode
<1>12. CASE HeadLimit  BY <1>12 DEF HeadLimit, Return
<1>13. CASE StopUnbounded  BY <1>13 DEF StopUnbounded, Proceed, Begin, Conclusion, Return
<1>14. CASE StopOptimal
  BY <1>14 DEF StopOptimal, Proceed, Begin, Conclusion, Return, ResidualOk
<1>15. CASE StopInfeasible
  BY <1>15 DEF StopInfeasible, Proceed, Begin, Conclusion, Return, ResidualOk
<1>16. CASE ComputeTrial  BY <1>16 DEF ComputeTrial, Proceed, Begin
<1>17. CASE TimeOut  BY <1>17 DEF TimeOut, Return
<1>18. CASE EvaluationFails  BY <1>18 DEF EvaluationFails, Return, SetFunc
<1>19. CASE EvaluateTrial  BY <1>19, EvaluateTrialCaches
<1>20. CASE EvaluateSoc  BY <1>20, EvaluateSocCaches
<1>21. CASE DropSoc  BY <1>21 DEF DropSoc
<1>22. CASE Update
  BY <1>22 DEF Update, Reject, SetFunc, SetAndEvalAll, Complete, UserCode
<1>23. CASE AcceptIterate  BY <1>23 DEF AcceptIterate, Swap, UserCode
<1>24. CASE AcceptRestoration  BY <1>24 DEF AcceptRestoration, Swap
<1>25. CASE Perform  BY <1>25 DEF Perform, Return, UserCode
<1>26. CASE UpdateFails  BY <1>26 DEF UpdateFails, Return, Reject, SetFunc
<1> QED
  BY <1>1, <1>2, <1>3, <1>4, <1>5, <1>6, <1>7, <1>8, <1>9, <1>10, <1>11,
    <1>12, <1>13, <1>14, <1>15, <1>16, <1>17, <1>18, <1>19, <1>20, <1>21,
    <1>22, <1>23, <1>24, <1>25, <1>26
  DEF Next, Outer, Inner

-----------------------------------------------------------------------------
(* In every step: verdicts on feasibility are about the iterate.           *)
LEMMA VerdictsStep ==
  ASSUME IInv, Next
  PROVE  Verdicts'
<1> USE PointFacts, StampFields, PointAssumption DEF IInv, Inv, Typed, Placed,
        ScalarTypes, InnerTypes, PointTypes, Current, Phases,
        outerVars, innerVars, pointVars, Coherent, Verdicts, FullAt
<1>1. CASE Solve  BY <1>1 DEF Solve, SetAndEvalAll
<1>2. CASE SolveFails  BY <1>2 DEF SolveFails, SetFunc
<1>3. CASE TimePasses  BY <1>3 DEF TimePasses
<1>4. CASE LoopLimit  BY <1>4 DEF LoopLimit
<1>5. CASE StartInner  BY <1>5 DEF StartInner
<1>6. CASE Propagate  BY <1>6 DEF Propagate
<1>7. CASE Conclude  BY <1>7 DEF Conclude
<1>8. CASE EnterRestoration  BY <1>8 DEF EnterRestoration, ToRestoration
<1>9. CASE LeaveRestorationAborted  BY <1>9 DEF LeaveRestorationAborted, ToOptimization
<1>10. CASE LeaveRestorationChecked
  BY <1>10 DEF LeaveRestorationChecked, StaysEnabled, UserCode
<1>11. CASE Leave  BY <1>11 DEF Leave, ToOptimization, UserCode
<1>12. CASE HeadLimit  BY <1>12 DEF HeadLimit, Return
<1>13. CASE StopUnbounded  BY <1>13 DEF StopUnbounded, Proceed, Begin, Conclusion, Return
<1>14. CASE StopOptimal
  BY <1>14 DEF StopOptimal, Proceed, Begin, Conclusion, Return, ResidualOk
<1>15. CASE StopInfeasible
  BY <1>15 DEF StopInfeasible, Proceed, Begin, Conclusion, Return, ResidualOk
<1>16. CASE ComputeTrial  BY <1>16 DEF ComputeTrial, Proceed, Begin
<1>17. CASE TimeOut  BY <1>17 DEF TimeOut, Return
<1>18. CASE EvaluationFails  BY <1>18 DEF EvaluationFails, Return, SetFunc
<1>19. CASE EvaluateTrial
  BY <1>19 DEF EvaluateTrial, Evaluate, SetFunc, SetAndEvalValues, UserCode
<1>20. CASE EvaluateSoc
  BY <1>20 DEF EvaluateSoc, Evaluate, SetFunc, SetAndEvalValues, UserCode
<1>21. CASE DropSoc  BY <1>21 DEF DropSoc
<1>22. CASE Update
  BY <1>22 DEF Update, Reject, SetFunc, SetAndEvalAll, Complete, UserCode
<1>23. CASE AcceptIterate  BY <1>23 DEF AcceptIterate, Swap, UserCode
<1>24. CASE AcceptRestoration  BY <1>24 DEF AcceptRestoration, Swap
<1>25. CASE Perform  BY <1>25 DEF Perform, Return, UserCode
<1>26. CASE UpdateFails  BY <1>26 DEF UpdateFails, Return, Reject, SetFunc
<1> QED
  BY <1>1, <1>2, <1>3, <1>4, <1>5, <1>6, <1>7, <1>8, <1>9, <1>10, <1>11,
    <1>12, <1>13, <1>14, <1>15, <1>16, <1>17, <1>18, <1>19, <1>20, <1>21,
    <1>22, <1>23, <1>24, <1>25, <1>26
  DEF Next, Outer, Inner

-----------------------------------------------------------------------------
(* In every step: the restoration phase stops itself only where feasible.  *)
LEMMA RestorationAbortsStep ==
  ASSUME IInv, Next
  PROVE  RestorationAborts'
<1> USE PointFacts, StampFields DEF IInv, Inv, Typed, Placed, ScalarTypes,
        InnerTypes, PointTypes, Current, Phases, outerVars, innerVars,
        pointVars, RestorationAborts, CachesAtFunc, AtIterate, Cached
<1>1. CASE Solve  BY <1>1 DEF Solve, SetAndEvalAll
<1>2. CASE SolveFails  BY <1>2 DEF SolveFails, SetFunc
<1>3. CASE TimePasses  BY <1>3 DEF TimePasses
<1>4. CASE LoopLimit  BY <1>4 DEF LoopLimit
<1>5. CASE StartInner  BY <1>5 DEF StartInner
<1>6. CASE Propagate  BY <1>6 DEF Propagate
<1>7. CASE Conclude  BY <1>7 DEF Conclude
<1>8. CASE EnterRestoration  BY <1>8 DEF EnterRestoration, ToRestoration
<1>9. CASE LeaveRestorationAborted  BY <1>9 DEF LeaveRestorationAborted, ToOptimization
<1>10. CASE LeaveRestorationChecked
  BY <1>10 DEF LeaveRestorationChecked, StaysEnabled, UserCode
<1>11. CASE Leave  BY <1>11 DEF Leave, ToOptimization, UserCode
<1>12. CASE HeadLimit  BY <1>12 DEF HeadLimit, Return
<1>13. CASE StopUnbounded  BY <1>13 DEF StopUnbounded, Proceed, Begin, Conclusion, Return
<1>14. CASE StopOptimal
  BY <1>14 DEF StopOptimal, Proceed, Begin, Conclusion, Return, ResidualOk
<1>15. CASE StopInfeasible
  BY <1>15 DEF StopInfeasible, Proceed, Begin, Conclusion, Return, ResidualOk
<1>16. CASE ComputeTrial  BY <1>16 DEF ComputeTrial, Proceed, Begin
<1>17. CASE TimeOut  BY <1>17 DEF TimeOut, Return
<1>18. CASE EvaluationFails  BY <1>18 DEF EvaluationFails, Return, SetFunc
<1>19. CASE EvaluateTrial
  BY <1>19 DEF EvaluateTrial, Evaluate, SetFunc, SetAndEvalValues, UserCode
<1>20. CASE EvaluateSoc
  BY <1>20 DEF EvaluateSoc, Evaluate, SetFunc, SetAndEvalValues, UserCode
<1>21. CASE DropSoc  BY <1>21 DEF DropSoc
<1>22. CASE Update
  BY <1>22 DEF Update, Reject, SetFunc, SetAndEvalAll, Complete, UserCode
<1>23. CASE AcceptIterate  BY <1>23 DEF AcceptIterate, Swap, UserCode
<1>24. CASE AcceptRestoration  BY <1>24 DEF AcceptRestoration, Swap
<1>25. CASE Perform  BY <1>25 DEF Perform, Return, UserCode
<1>26. CASE UpdateFails  BY <1>26 DEF UpdateFails, Return, Reject, SetFunc
<1> QED
  BY <1>1, <1>2, <1>3, <1>4, <1>5, <1>6, <1>7, <1>8, <1>9, <1>10, <1>11,
    <1>12, <1>13, <1>14, <1>15, <1>16, <1>17, <1>18, <1>19, <1>20, <1>21,
    <1>22, <1>23, <1>24, <1>25, <1>26
  DEF Next, Outer, Inner

-----------------------------------------------------------------------------
(* In every step: restoration stays enabled only after success.            *)
LEMMA RestorationsStep ==
  ASSUME IInv, Next
  PROVE  Restorations'
<1> USE PointFacts, StampFields DEF IInv, Inv, Typed, Placed, ScalarTypes,
        InnerTypes, PointTypes, Current, Phases, outerVars, innerVars,
        pointVars, Restorations, RestorationAborts, Coherent,
        AtIterate, FullAt
<1>1. CASE Solve  BY <1>1 DEF Solve, SetAndEvalAll
<1>2. CASE SolveFails  BY <1>2 DEF SolveFails, SetFunc
<1>3. CASE TimePasses  BY <1>3 DEF TimePasses
<1>4. CASE LoopLimit  BY <1>4 DEF LoopLimit
<1>5. CASE StartInner  BY <1>5 DEF StartInner
<1>6. CASE Propagate  BY <1>6 DEF Propagate
<1>7. CASE Conclude  BY <1>7 DEF Conclude
<1>8. CASE EnterRestoration  BY <1>8 DEF EnterRestoration, ToRestoration
<1>9. CASE LeaveRestorationAborted  BY <1>9 DEF LeaveRestorationAborted, ToOptimization
<1>10. CASE LeaveRestorationChecked
  BY <1>10 DEF LeaveRestorationChecked, StaysEnabled, UserCode
<1>11. CASE Leave  BY <1>11 DEF Leave, ToOptimization, UserCode
<1>12. CASE HeadLimit  BY <1>12 DEF HeadLimit, Return
<1>13. CASE StopUnbounded  BY <1>13 DEF StopUnbounded, Proceed, Begin, Conclusion, Return
<1>14. CASE StopOptimal
  BY <1>14 DEF StopOptimal, Proceed, Begin, Conclusion, Return, ResidualOk
<1>15. CASE StopInfeasible
  BY <1>15 DEF StopInfeasible, Proceed, Begin, Conclusion, Return, ResidualOk
<1>16. CASE ComputeTrial  BY <1>16 DEF ComputeTrial, Proceed, Begin
<1>17. CASE TimeOut  BY <1>17 DEF TimeOut, Return
<1>18. CASE EvaluationFails  BY <1>18 DEF EvaluationFails, Return, SetFunc
<1>19. CASE EvaluateTrial
  BY <1>19 DEF EvaluateTrial, Evaluate, SetFunc, SetAndEvalValues, UserCode
<1>20. CASE EvaluateSoc
  BY <1>20 DEF EvaluateSoc, Evaluate, SetFunc, SetAndEvalValues, UserCode
<1>21. CASE DropSoc  BY <1>21 DEF DropSoc
<1>22. CASE Update
  BY <1>22 DEF Update, Reject, SetFunc, SetAndEvalAll, Complete, UserCode
<1>23. CASE AcceptIterate  BY <1>23 DEF AcceptIterate, Swap, UserCode
<1>24. CASE AcceptRestoration  BY <1>24 DEF AcceptRestoration, Swap
<1>25. CASE Perform  BY <1>25 DEF Perform, Return, UserCode
<1>26. CASE UpdateFails  BY <1>26 DEF UpdateFails, Return, Reject, SetFunc
<1> QED
  BY <1>1, <1>2, <1>3, <1>4, <1>5, <1>6, <1>7, <1>8, <1>9, <1>10, <1>11,
    <1>12, <1>13, <1>14, <1>15, <1>16, <1>17, <1>18, <1>19, <1>20, <1>21,
    <1>22, <1>23, <1>24, <1>25, <1>26
  DEF Next, Outer, Inner

-----------------------------------------------------------------------------
(* In every step: a manual abort was requested.                            *)
LEMMA RequestedStep ==
  ASSUME IInv, Next
  PROVE  Requested'
<1> USE PointFacts DEF IInv, Inv, Typed, Placed, ScalarTypes, InnerTypes,
        PointTypes, Current, Phases, outerVars, innerVars, pointVars,
        Requested, HistoryTypes, Inside
<1>1. CASE Solve  BY <1>1 DEF Solve, SetAndEvalAll
<1>2. CASE SolveFails  BY <1>2 DEF SolveFails, SetFunc
<1>3. CASE TimePasses  BY <1>3 DEF TimePasses
<1>4. CASE LoopLimit  BY <1>4 DEF LoopLimit
<1>5. CASE StartInner  BY <1>5 DEF StartInner
<1>6. CASE Propagate  BY <1>6 DEF Propagate
<1>7. CASE Conclude  BY <1>7 DEF Conclude
<1>8. CASE EnterRestoration  BY <1>8 DEF EnterRestoration, ToRestoration
<1>9. CASE LeaveRestorationAborted  BY <1>9 DEF LeaveRestorationAborted, ToOptimization
<1>10. CASE LeaveRestorationChecked
  BY <1>10 DEF LeaveRestorationChecked, StaysEnabled, UserCode
<1>11. CASE Leave  BY <1>11 DEF Leave, ToOptimization, UserCode
<1>12. CASE HeadLimit  BY <1>12 DEF HeadLimit, Return
<1>13. CASE StopUnbounded  BY <1>13 DEF StopUnbounded, Proceed, Begin, Conclusion, Return
<1>14. CASE StopOptimal
  BY <1>14 DEF StopOptimal, Proceed, Begin, Conclusion, Return, ResidualOk
<1>15. CASE StopInfeasible
  BY <1>15 DEF StopInfeasible, Proceed, Begin, Conclusion, Return, ResidualOk
<1>16. CASE ComputeTrial  BY <1>16 DEF ComputeTrial, Proceed, Begin
<1>17. CASE TimeOut  BY <1>17 DEF TimeOut, Return
<1>18. CASE EvaluationFails  BY <1>18 DEF EvaluationFails, Return, SetFunc
<1>19. CASE EvaluateTrial
  BY <1>19 DEF EvaluateTrial, Evaluate, SetFunc, SetAndEvalValues, UserCode
<1>20. CASE EvaluateSoc
  BY <1>20 DEF EvaluateSoc, Evaluate, SetFunc, SetAndEvalValues, UserCode
<1>21. CASE DropSoc  BY <1>21 DEF DropSoc
<1>22. CASE Update
  BY <1>22 DEF Update, Reject, SetFunc, SetAndEvalAll, Complete, UserCode
<1>23. CASE AcceptIterate  BY <1>23 DEF AcceptIterate, Swap, UserCode
<1>24. CASE AcceptRestoration  BY <1>24 DEF AcceptRestoration, Swap
<1>25. CASE Perform  BY <1>25 DEF Perform, Return, UserCode
<1>26. CASE UpdateFails  BY <1>26 DEF UpdateFails, Return, Reject, SetFunc
<1> QED
  BY <1>1, <1>2, <1>3, <1>4, <1>5, <1>6, <1>7, <1>8, <1>9, <1>10, <1>11,
    <1>12, <1>13, <1>14, <1>15, <1>16, <1>17, <1>18, <1>19, <1>20, <1>21,
    <1>22, <1>23, <1>24, <1>25, <1>26
  DEF Next, Outer, Inner

-----------------------------------------------------------------------------
(* In every step: what is returned before time is up is coherent.          *)
LEMMA LeftStep ==
  ASSUME IInv, Next
  PROVE  Left'
<1> USE PointFacts, StampFields, PointAssumption DEF IInv, Inv, Typed, Placed,
        ScalarTypes, InnerTypes, PointTypes, Current, Phases,
        outerVars, innerVars, pointVars, Left, AtIterate, Coherent,
        CachesAtFunc, HistoryTypes, Cached, FullAt
<1>1. CASE Solve  BY <1>1 DEF Solve, SetAndEvalAll
<1>2. CASE SolveFails  BY <1>2 DEF SolveFails, SetFunc
<1>3. CASE TimePasses  BY <1>3 DEF TimePasses
<1>4. CASE LoopLimit  BY <1>4 DEF LoopLimit
<1>5. CASE StartInner  BY <1>5 DEF StartInner
<1>6. CASE Propagate  BY <1>6 DEF Propagate
<1>7. CASE Conclude  BY <1>7 DEF Conclude
<1>8. CASE EnterRestoration  BY <1>8 DEF EnterRestoration, ToRestoration
<1>9. CASE LeaveRestorationAborted  BY <1>9 DEF LeaveRestorationAborted, ToOptimization
<1>10. CASE LeaveRestorationChecked
  BY <1>10 DEF LeaveRestorationChecked, StaysEnabled, UserCode
<1>11. CASE Leave  BY <1>11 DEF Leave, ToOptimization, UserCode
<1>12. CASE HeadLimit  BY <1>12 DEF HeadLimit, Return
<1>13. CASE StopUnbounded  BY <1>13 DEF StopUnbounded, Proceed, Begin, Conclusion, Return
<1>14. CASE StopOptimal
  BY <1>14 DEF StopOptimal, Proceed, Begin, Conclusion, Return, ResidualOk
<1>15. CASE StopInfeasible
  BY <1>15 DEF StopInfeasible, Proceed, Begin, Conclusion, Return, ResidualOk
<1>16. CASE ComputeTrial  BY <1>16 DEF ComputeTrial, Proceed, Begin
<1>17. CASE TimeOut  BY <1>17 DEF TimeOut, Return
<1>18. CASE EvaluationFails  BY <1>18 DEF EvaluationFails, Return, SetFunc
<1>19. CASE EvaluateTrial
  BY <1>19 DEF EvaluateTrial, Evaluate, SetFunc, SetAndEvalValues, UserCode
<1>20. CASE EvaluateSoc
  BY <1>20 DEF EvaluateSoc, Evaluate, SetFunc, SetAndEvalValues, UserCode
<1>21. CASE DropSoc  BY <1>21 DEF DropSoc
<1>22. CASE Update
  BY <1>22 DEF Update, Reject, SetFunc, SetAndEvalAll, Complete, UserCode
<1>23. CASE AcceptIterate  BY <1>23 DEF AcceptIterate, Swap, UserCode
<1>24. CASE AcceptRestoration  BY <1>24 DEF AcceptRestoration, Swap
<1>25. CASE Perform  BY <1>25 DEF Perform, Return, UserCode
<1>26. CASE UpdateFails  BY <1>26 DEF UpdateFails, Return, Reject, SetFunc
<1> QED
  BY <1>1, <1>2, <1>3, <1>4, <1>5, <1>6, <1>7, <1>8, <1>9, <1>10, <1>11,
    <1>12, <1>13, <1>14, <1>15, <1>16, <1>17, <1>18, <1>19, <1>20, <1>21,
    <1>22, <1>23, <1>24, <1>25, <1>26
  DEF Next, Outer, Inner

-----------------------------------------------------------------------------
(* In every step: an abort from a callback is on its way to the end.       *)
LEMMA StoppingStep ==
  ASSUME IInv, Next
  PROVE  Stopping'
<1> USE PointFacts DEF IInv, Inv, Typed, Placed, ScalarTypes, InnerTypes,
        PointTypes, Current, Phases, outerVars, innerVars, pointVars,
        Stopping, Inside, Aborting, HistoryTypes
<1>1. CASE Solve  BY <1>1 DEF Solve, SetAndEvalAll
<1>2. CASE SolveFails  BY <1>2 DEF SolveFails, SetFunc
<1>3. CASE TimePasses  BY <1>3 DEF TimePasses
<1>4. CASE LoopLimit  BY <1>4 DEF LoopLimit
<1>5. CASE StartInner  BY <1>5 DEF StartInner
<1>6. CASE Propagate  BY <1>6 DEF Propagate
<1>7. CASE Conclude  BY <1>7 DEF Conclude
<1>8. CASE EnterRestoration  BY <1>8 DEF EnterRestoration, ToRestoration
<1>9. CASE LeaveRestorationAborted  BY <1>9 DEF LeaveRestorationAborted, ToOptimization
<1>10. CASE LeaveRestorationChecked
  BY <1>10 DEF LeaveRestorationChecked, StaysEnabled, UserCode
<1>11. CASE Leave  BY <1>11 DEF Leave, ToOptimization, UserCode
<1>12. CASE HeadLimit  BY <1>12 DEF HeadLimit, Return
<1>13. CASE StopUnbounded  BY <1>13 DEF StopUnbounded, Proceed, Begin, Conclusion, Return
<1>14. CASE StopOptimal
  BY <1>14 DEF StopOptimal, Proceed, Begin, Conclusion, Return, ResidualOk
<1>15. CASE StopInfeasible
  BY <1>15 DEF StopInfeasible, Proceed, Begin, Conclusion, Return, ResidualOk
<1>16. CASE ComputeTrial  BY <1>16 DEF ComputeTrial, Proceed, Begin
<1>17. CASE TimeOut  BY <1>17 DEF TimeOut, Return
<1>18. CASE EvaluationFails  BY <1>18 DEF EvaluationFails, Return, SetFunc
<1>19. CASE EvaluateTrial
  BY <1>19 DEF EvaluateTrial, Evaluate, SetFunc, SetAndEvalValues, UserCode
<1>20. CASE EvaluateSoc
  BY <1>20 DEF EvaluateSoc, Evaluate, SetFunc, SetAndEvalValues, UserCode
<1>21. CASE DropSoc  BY <1>21 DEF DropSoc
<1>22. CASE Update
  BY <1>22 DEF Update, Reject, SetFunc, SetAndEvalAll, Complete, UserCode
<1>23. CASE AcceptIterate  BY <1>23 DEF AcceptIterate, Swap, UserCode
<1>24. CASE AcceptRestoration  BY <1>24 DEF AcceptRestoration, Swap
<1>25. CASE Perform  BY <1>25 DEF Perform, Return, UserCode
<1>26. CASE UpdateFails  BY <1>26 DEF UpdateFails, Return, Reject, SetFunc
<1> QED
  BY <1>1, <1>2, <1>3, <1>4, <1>5, <1>6, <1>7, <1>8, <1>9, <1>10, <1>11,
    <1>12, <1>13, <1>14, <1>15, <1>16, <1>17, <1>18, <1>19, <1>20, <1>21,
    <1>22, <1>23, <1>24, <1>25, <1>26
  DEF Next, Outer, Inner

-----------------------------------------------------------------------------
(* The solver is created in a state that satisfies the invariant.          *)
LEMMA InitIInv == Init => IInv
<1> SUFFICES ASSUME Init PROVE IInv
  OBVIOUS
<1>1. FullAt(None) \in Iterates
  BY PointFacts
<1>2. iterate \in [Phases -> Iterates] /\ trial \in [Phases -> Iterates]
  BY <1>1 DEF Init
<1>3. Typed
  <2>1. ScalarTypes
    BY PointAssumption, SettingAssumption DEF Init, ScalarTypes, Phases, Statuses, Reasons
  <2>2. HistoryTypes
    BY SettingAssumption DEF Init, HistoryTypes, MaxSince
  <2>3. InnerTypes
    BY PointFacts DEF Init, InnerTypes, InnerStates
  <2>4. PointTypes
    BY <1>2, PointFacts DEF Init, PointTypes
  <2> QED
    BY <2>1, <2>2, <2>3, <2>4 DEF Typed
<1>4. Counted
  BY SettingAssumption DEF Init, Counted, CounterTypes, Budget, Unlimited
<1>5. Placed
  BY DEF Init, Placed
<1> QED
  BY <1>3, <1>4, <1>5
  DEF Init, IInv, Inv, AtIterate, Announced, Coherent, CachesAtFunc, Verdicts,
       RestorationAborts,
      Restorations, Requested, Stopping, Inside, Left

(* Every step, and every stutter, keeps the invariant.                     *)
LEMMA NextIInv == IInv /\ [Next]_vars => IInv'
<1> SUFFICES ASSUME IInv, [Next]_vars PROVE IInv'
  OBVIOUS
<1>1. CASE Next
  BY <1>1, ScalarTypesStep, HistoryTypesStep, InnerTypesStep, PointTypesStep, CountedStep,
     PlacedStep, AtIterateStep, AnnouncedStep, CoherentStep, CachesAtFuncStep, VerdictsStep,
     RestorationAbortsStep, RestorationsStep, RequestedStep, StoppingStep, LeftStep
  DEF IInv, Inv, Typed
<1>2. CASE UNCHANGED vars
  BY <1>2 DEF vars, outerVars, innerVars, pointVars, IInv, Inv, Typed, Counted, Placed,
    ScalarTypes, HistoryTypes, InnerTypes, PointTypes, CounterTypes, Budget, AtIterate, Announced,
    Coherent, CachesAtFunc, Verdicts, RestorationAborts, Restorations, Requested, Stopping, Left,
    Current
<1> QED
  BY <1>1, <1>2

(* The invariant holds in every state of every run of the solver.          *)
THEOREM Invariance == Spec => []IInv
BY InitIInv, NextIInv, PTL DEF Spec

(* Every variable keeps its type: see TypeOK.                              *)
THEOREM TypeCorrect == Spec => []TypeOK
<1>1. IInv => TypeOK
  BY TypedIsTypeOK DEF IInv, Inv
<1> QED
  BY <1>1, Invariance, PTL

(* The phases of a solve share one budget of iterations, whatever is       *)
(* aborted, rejected or runs out of time.                                  *)
THEOREM BudgetHolds == Spec => []BudgetKept
<1>1. IInv => BudgetKept
  BY SettingAssumption
  DEF IInv, Inv, Typed, ScalarTypes, Counted, CounterTypes, Budget, BudgetKept, Unlimited
<1> QED
  BY <1>1, Invariance, PTL

(* An iteration starts with the user's function at the current iterate.    *)
THEOREM FuncAtIterateHolds == Spec => []FuncAtIterate
<1>1. IInv => FuncAtIterate
  BY DEF IInv, AtIterate, FuncAtIterate
<1> QED
  BY <1>1, Invariance, PTL

(* The iterate the solver works on and the one it returns, unless its time *)
(* is up, consist of values at one point.                                  *)
THEOREM IterateCoherentHolds == Spec => []IterateCoherent
<1>1. IInv => IterateCoherent
  BY DEF IInv, Coherent, Left, IterateCoherent
<1> QED
  BY <1>1, Invariance, PTL

(* Only the point that was tried last is announced as accepted.            *)
THEOREM AcceptedWasTriedHolds == Spec => AcceptedWasTried
<1>1. IInv /\ Next /\ reason' = "accepted" /\ pc = "update" => func' = func /\ reason = "trying"
  <2> SUFFICES ASSUME IInv, Next, reason' = "accepted", pc = "update"
               PROVE  func' = func /\ reason = "trying"
    OBVIOUS
  <2>1. reason = "trying" /\ (accepting => func = trial[phase].primal)
    BY DEF IInv, Announced
  <2>2. CASE Update
    BY <2>1, <2>2 DEF Update, Reject, SetAndEvalAll
  <2>3. CASE TimePasses
    BY <2>1, <2>3 DEF TimePasses
  <2>4. CASE UpdateFails
    BY <2>1, <2>4 DEF UpdateFails, Reject, SetFunc
  <2> QED
    BY <2>2, <2>3, <2>4
    DEF Next, Outer, Inner, Solve, SolveFails, LoopLimit, StartInner, Propagate, Conclude,
        EnterRestoration, LeaveRestorationAborted, LeaveRestorationChecked, Leave, HeadLimit,
        StopUnbounded, StopOptimal, StopInfeasible, ComputeTrial, Proceed, TimeOut,
        EvaluationFails, EvaluateTrial, EvaluateSoc, DropSoc, AcceptIterate,
        AcceptRestoration, Perform
<1> QED
  BY <1>1, Invariance, PTL DEF Spec, AcceptedWasTried

(* A reported optimum satisfies the constraints of the problem.            *)
THEOREM OptimalIsFeasibleHolds == Spec => []OptimalIsFeasible
<1>1. IInv => OptimalIsFeasible
  BY DEF IInv, Verdicts, OptimalIsFeasible
<1> QED
  BY <1>1, Invariance, PTL

(* Restoration is entered from infeasible iterates only.                   *)
THEOREM RestorationNeededHolds == Spec => []RestorationNeeded
<1>1. IInv => RestorationNeeded
  BY DEF IInv, Verdicts, RestorationNeeded
<1> QED
  BY <1>1, Invariance, PTL

(* Restoration that may be entered again has succeeded before.             *)
THEOREM RestoredFeasibleHolds == Spec => []RestoredFeasible
<1>1. IInv => RestoredFeasible
  BY DEF IInv, Restorations, RestoredFeasible
<1> QED
  BY <1>1, Invariance, PTL

(* ABORT_MANUAL is reported only after a request.                          *)
THEOREM ManualIsRequestedHolds == Spec => []ManualIsRequested
<1>1. IInv => ManualIsRequested
  BY DEF IInv, Requested, ManualIsRequested
<1> QED
  BY <1>1, Invariance, PTL

(* No iteration begins after an abort from a callback.                     *)
THEOREM CallbackAbortStopsHolds == Spec => []CallbackAbortStops
<1>1. IInv => CallbackAbortStops
  BY DEF IInv, Stopping, CallbackAbortStops
<1> QED
  BY <1>1, Invariance, PTL
=============================================================================
