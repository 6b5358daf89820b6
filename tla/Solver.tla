------------------------------- MODULE Solver -------------------------------
(***************************************************************************)
(* The control of SleqpSolver: the outer loop of sleqp_solver_solve, which *)
(* alternates between an optimization and a feasibility restoration phase, *)
(* and the two SleqpProblemSolver objects it drives, one per phase.        *)
(*                                                                         *)
(* Numbers are abstracted to where they were computed.  The space of       *)
(* variables is the set Points; an iterate is a record of stamps, the      *)
(* points at which its objective, gradient, constraint values and Jacobian *)
(* were evaluated.  A restoration iterate (x, s) is represented by x, its  *)
(* slack part being of no consequence here.  Which steps are computed and  *)
(* accepted is nondeterministic; what the code does with them is not.      *)
(*                                                                         *)
(* The user supplies the function, which may reject a trial point, fail or *)
(* call sleqp_solver_abort during an evaluation, and the callbacks, which  *)
(* may call sleqp_solver_abort.  Assertions are those of a release build.  *)
(***************************************************************************)
EXTENDS Integers

CONSTANTS
  Points,           \* the primal points
  None,             \* no point: a value that has not been computed
  Clip,             \* the projection of a point on the variable bounds
  Feasible,         \* points whose violation is within feas_tol
  Low,              \* points with an objective of at most obj_lower
  RestLow,          \* points with half their squared violation of at most obj_lower
  Start,            \* the initial solution
  MaxIterations,    \* max_num_iterations of every solve, or Unlimited
  TimeLimits,       \* may a solve run into its time limit?
  EnableRestoration,\* SLEQP_SETTINGS_BOOL_ENABLE_RESTORATION_PHASE
  PerformSoc,       \* SLEQP_SETTINGS_BOOL_PERFORM_SOC
  Aborts,           \* from where sleqp_solver_abort is called
  FuncErrors,       \* may the user's function return an error?
  MaxSolves         \* bound on the number of calls of sleqp_solver_solve

Unlimited == -1
MaxSince == 2       \* bound on the history variable since
Boxed == {Clip[p] : p \in Points}

ASSUME PointAssumption ==
  /\ None \notin Points
  /\ Clip \in [Points -> Points]
  /\ \A p \in Points : Clip[Clip[p]] = Clip[p]
  /\ Feasible \subseteq Points /\ Low \subseteq Points /\ RestLow \subseteq Points
  /\ Start \in Points
ASSUME SettingAssumption ==
  /\ MaxIterations \in Nat \cup {Unlimited} /\ MaxSolves \in Nat
  /\ TimeLimits \in BOOLEAN /\ EnableRestoration \in BOOLEAN
  /\ PerformSoc \in BOOLEAN /\ FuncErrors \in BOOLEAN
  /\ Aborts \subseteq {"callback", "function"}

VARIABLES
  pc,           \* where the single thread of control is
  \* SleqpSolver
  phase, status, iterations, primal,
  remaining, enabled,      \* locals of run_solving_loop
  \* SleqpProblemSolver, one per phase
  state,        \* its status
  abortNext, abortOnInfeasible, elapsed, iteration,
  dead,         \* a trust radius is at or below the dead point bound
  feasRes,      \* the point feas_res was computed at, None for its initial zero
  iterate, trial,
  accepting,    \* step_accepted of perform_iteration
  \* the functions
  func,         \* the point the user's function was last set to
  rest,         \* cached values of the restoration function
  reason,       \* the reason given to the user's function at that point
  \* the clocks: has the time limit of the solver and of the inner solver passed?
  outerUp, innerUp,
  \* history, read by properties only
  solves,       \* calls of sleqp_solver_solve so far
  asked,        \* who called sleqp_solver_abort during the current solve
  since,        \* iterations begun after that call
  restored      \* how the last restoration phase ended

outerVars == <<phase, status, iterations, primal, remaining, enabled>>
innerVars == <<state, abortNext, abortOnInfeasible, elapsed, iteration, dead, feasRes>>
pointVars == <<iterate, trial, func, rest>>
vars == <<pc, outerVars, innerVars, pointVars, accepting, reason, outerUp, innerUp,
          solves, asked, since, restored>>

Opt == "optimization"
Rest == "restoration"
Phases == {Opt, Rest}
Stamps == Points \cup {None}
Reasons == {"none", "init", "trying", "accepted", "rejected"}

Iterates == [primal : Stamps, obj : Stamps, grad : Stamps, cons : Stamps, jac : Stamps]
RestValues == [cons : Stamps, jac : Stamps, residual : Stamps]

InnerStates == {"unknown", "running", "optimal", "unbounded", "locally_infeasible",
                "abort_time", "abort_iter", "abort_manual", "abort_deadpoint"}
Statuses == {"unknown", "optimal", "unbounded",
             "abort_time", "abort_iter", "abort_manual", "abort_deadpoint"}

FullAt(p) == [primal |-> p, obj |-> p, grad |-> p, cons |-> p, jac |-> p]
NoRestValues == [cons |-> None, jac |-> None, residual |-> None]

Current == iterate[phase]
-----------------------------------------------------------------------------
(* Evaluation.  In the restoration phase the function of the problem is    *)
(* the restoration function, which passes the point on to the user's and   *)
(* caches constraint values, Jacobian and (in lsq.c) the residual.         *)

SetFunc(p) ==
  /\ func' = p
  /\ rest' = IF phase = Rest THEN NoRestValues ELSE rest

\* set, then objective and constraint values
SetAndEvalValues(p) ==
  /\ func' = p
  /\ rest' = IF phase = Rest THEN [NoRestValues EXCEPT !.cons = p, !.residual = p] ELSE rest

\* set, then everything
SetAndEvalAll(p) ==
  /\ func' = p
  /\ rest' = IF phase = Rest THEN [cons |-> p, jac |-> p, residual |-> p] ELSE rest

\* A call of the user's code from source: it may ask the solver to abort.
\* sleqp_solver_abort only reaches the solver of the optimization phase.
UserCode(source) ==
  \/ UNCHANGED <<abortNext, asked, since>>
  \/ /\ source \in Aborts /\ asked = "nobody"
     /\ abortNext' = [abortNext EXCEPT ![Opt] = TRUE]
     /\ asked' = source
     /\ since' = 0

-----------------------------------------------------------------------------
Init ==
  /\ pc = "idle"
  /\ phase = Opt /\ status = "unknown" /\ iterations = 0 /\ primal = Start
  /\ remaining = MaxIterations /\ enabled = EnableRestoration
  /\ state = [ph \in Phases |-> "unknown"]
  /\ abortNext = [ph \in Phases |-> FALSE]
  /\ abortOnInfeasible = [ph \in Phases |-> FALSE]
  /\ elapsed = [ph \in Phases |-> 0]
  /\ iteration = [ph \in Phases |-> 0]
  /\ dead = [ph \in Phases |-> FALSE]
  /\ feasRes = [ph \in Phases |-> None]
  /\ iterate = [ph \in Phases |-> FullAt(None)]
  /\ trial = [ph \in Phases |-> FullAt(None)]
  /\ accepting = FALSE /\ reason = "none"
  /\ func = None /\ rest = NoRestValues
  /\ outerUp = FALSE /\ innerUp = FALSE
  /\ solves = 0 /\ asked = "nobody" /\ since = 0 /\ restored = "none"

\* sleqp_solver_solve up to the loop: clip the initial primal and evaluate
Solve ==
  /\ pc = "idle" /\ solves < MaxSolves
  /\ solves' = solves + 1
  /\ iterations' = 0
  /\ remaining' = MaxIterations
  /\ enabled' = EnableRestoration
  /\ iterate' = [iterate EXCEPT ![Opt] = FullAt(Clip[primal])]
  /\ SetAndEvalAll(Clip[primal]) /\ reason' = "init"
  /\ restored' = "none"
  /\ pc' = "loop"
  /\ \E late \in {FALSE, outerUp} : outerUp' = late
  /\ \/ /\ asked' = "nobody" /\ since' = 0
        /\ UNCHANGED abortNext
     \/ /\ "function" \in Aborts
        /\ abortNext' = [abortNext EXCEPT ![Opt] = TRUE]
        /\ asked' = "function" /\ since' = 0
  /\ UNCHANGED <<phase, status, primal, state, abortOnInfeasible, elapsed, iteration,
                 dead, feasRes, trial, accepting, innerUp>>

\* The function rejects the initial point or fails there
SolveFails ==
  /\ pc = "idle" /\ solves < MaxSolves
  /\ FuncErrors
  /\ SetFunc(Clip[primal]) /\ reason' = "init"
  /\ pc' = "failed"
  /\ UNCHANGED <<outerVars, innerVars, iterate, trial, accepting, outerUp, innerUp,
                 solves, asked, since, restored>>

\* Time passes; the inner clock only runs during iterations and was started
\* later with what was left of the outer one
TimePasses ==
  /\ TimeLimits
  /\ pc \notin {"idle", "failed"} /\ ~innerUp
  /\ \/ ~outerUp /\ innerUp' = FALSE
     \/ pc \in {"trial", "soc", "update", "accepted", "performed"} /\ innerUp' = TRUE
  /\ outerUp' = TRUE
  /\ UNCHANGED <<pc, outerVars, innerVars, pointVars, accepting, reason,
                 solves, asked, since, restored>>
-----------------------------------------------------------------------------
(* run_solving_loop *)

\* The limits at the top of the loop
LoopLimit ==
  /\ pc = "loop"
  /\ \/ outerUp /\ status' = "abort_time"
     \/ ~outerUp /\ remaining = 0 /\ status' = "abort_iter"
  /\ pc' = "leave"
  /\ UNCHANGED <<phase, iterations, primal, remaining, enabled, innerVars, pointVars,
                 accepting, reason, outerUp, innerUp, solves, asked, since, restored>>

\* sleqp_problem_solver_solve is called: its counters and flags are reset
StartInner ==
  /\ pc = "loop" /\ ~outerUp /\ remaining # 0
  /\ iteration' = [iteration EXCEPT ![phase] = iterations]
  /\ state' = [state EXCEPT ![phase] = "running"]
  /\ abortOnInfeasible' = [abortOnInfeasible EXCEPT ![phase] = enabled]
  /\ abortNext' = [abortNext EXCEPT ![phase] = FALSE]
  /\ elapsed' = [elapsed EXCEPT ![phase] = 0]
  /\ innerUp' = FALSE
  /\ pc' = "head"
  /\ UNCHANGED <<outerVars, dead, feasRes, pointVars, accepting, reason, outerUp,
                 solves, asked, since, restored>>

\* Values of the user's problem as the restoration function sees them: cached
\* from the last evaluation or computed at the point the function is set to
Cached(stamp) == IF stamp # None THEN stamp ELSE func

\* fill_restoration_iterate: the caches are loaded from the optimization
\* iterate, but a residual that is there stays
ToRestoration ==
  LET residual == IF rest.residual # None THEN rest.residual ELSE iterate[Opt].cons
  IN /\ rest' = [cons |-> iterate[Opt].cons, jac |-> iterate[Opt].jac,
                 residual |-> residual]
     /\ iterate' = [iterate EXCEPT ![Rest] =
                      [@ EXCEPT !.primal = iterate[Opt].primal,
                                !.obj = residual, !.grad = residual]]
     /\ phase' = Rest
     /\ restored' = "none"
     /\ UNCHANGED <<primal, func>>

\* fill_optimization_iterate: objective and gradient are evaluated where the
\* user's function happens to be
ToOptimization ==
  /\ primal' = iterate[Rest].primal
  /\ iterate' = [iterate EXCEPT ![Opt] =
                   [primal |-> iterate[Rest].primal, obj |-> func, grad |-> func,
                    cons |-> Cached(rest.cons), jac |-> Cached(rest.jac)]]
  /\ rest' = [rest EXCEPT !.cons = Cached(rest.cons), !.jac = Cached(rest.jac)]
  /\ phase' = Opt
  /\ UNCHANGED func

\* Mutant: iterations of the restoration phase are not deducted
AccountOnlyOptimization ==
  /\ iterations' = iterations + elapsed[phase]
  /\ remaining' = IF MaxIterations = Unlimited \/ phase = Rest THEN remaining
                  ELSE remaining - elapsed[phase]

\* The inner solver returned: its iterations are accounted for
AccountIterations ==
  /\ iterations' = iterations + elapsed[phase]
  /\ remaining' = IF MaxIterations = Unlimited THEN remaining
                  ELSE remaining - elapsed[phase]

\* Abort codes other than a manual abort end the loop in either phase
Propagate ==
  /\ pc = "returned"
  /\ state[phase] \in {"abort_iter", "abort_time", "abort_deadpoint"}
  /\ AccountIterations
  /\ status' = state[phase]
  /\ pc' = "leave"
  /\ UNCHANGED <<phase, primal, enabled, innerVars, pointVars, accepting, reason,
                 outerUp, innerUp, solves, asked, since, restored>>

\* Mutant: the status of either phase is taken for that of the solver
ConcludeAnyPhase ==
  /\ pc = "returned"
  /\ state[phase] \in {"optimal", "abort_manual", "unbounded"}
  /\ AccountIterations
  /\ status' = state[phase]
  /\ pc' = "leave"
  /\ UNCHANGED <<phase, primal, enabled, innerVars, pointVars, accepting, reason,
                 outerUp, innerUp, solves, asked, since, restored>>

Conclude ==
  /\ pc = "returned" /\ phase = Opt
  /\ state[Opt] \in {"optimal", "abort_manual", "unbounded"}
  /\ AccountIterations
  /\ status' = state[Opt]
  /\ pc' = "leave"
  /\ UNCHANGED <<phase, primal, enabled, innerVars, pointVars, accepting, reason,
                 outerUp, innerUp, solves, asked, since, restored>>

EnterRestoration ==
  /\ pc = "returned" /\ phase = Opt
  /\ state[Opt] = "locally_infeasible"
  /\ AccountIterations
  /\ IF enabled THEN ToRestoration
     ELSE UNCHANGED <<phase, primal, iterate, func, rest, restored>>
  /\ pc' = "loop"
  /\ UNCHANGED <<status, enabled, innerVars, trial, accepting, reason, outerUp, innerUp,
                 solves, asked, since>>

\* A manual abort of the restoration is taken to mean that it succeeded
LeaveRestorationAborted ==
  /\ pc = "returned" /\ phase = Rest
  /\ state[Rest] = "abort_manual"
  /\ AccountIterations
  /\ ToOptimization
  /\ restored' = "aborted"
  /\ pc' = "loop"
  /\ UNCHANGED <<status, enabled, innerVars, trial, accepting, reason, outerUp, innerUp,
                 solves, asked, since>>

\* Mutant: a failed restoration may be tried again
AlwaysRetried(p, rejected) == enabled

\* The restoration phase stays enabled only if it led to a feasible point
StaysEnabled(p, rejected) == enabled /\ ~rejected /\ p \in Feasible

\* Otherwise check_feasibility evaluates the restored iterate.  A rejection
\* by the user counts as infeasible, but the values are evaluated all the same
LeaveRestorationChecked ==
  /\ pc = "returned" /\ phase = Rest
  /\ state[Rest] \in {"optimal", "unbounded", "locally_infeasible"}
  /\ AccountIterations
  /\ primal' = iterate[Rest].primal
  /\ iterate' = [iterate EXCEPT ![Opt] = FullAt(iterate[Rest].primal)]
  /\ func' = iterate[Rest].primal /\ reason' = "trying"
  /\ rest' = [rest EXCEPT !.cons = Cached(rest.cons), !.jac = Cached(rest.jac)]
  /\ phase' = Opt
  /\ \E rejected \in BOOLEAN : enabled' = StaysEnabled(iterate[Rest].primal, rejected)
  /\ restored' = "checked"
  /\ pc' = "loop"
  /\ UserCode("function")
  /\ UNCHANGED <<status, state, abortOnInfeasible, elapsed, iteration, dead, feasRes,
                 trial, accepting, outerUp, innerUp, solves>>

\* The end of run_solving_loop and of sleqp_solver_solve.  Restoring,
\* polishing and the FINISHED callbacks leave this state alone; an abort
\* requested there is stored.
Leave ==
  /\ pc = "leave"
  /\ IF phase = Rest THEN ToOptimization
     ELSE UNCHANGED <<phase, primal, iterate, func, rest>>
  /\ pc' = "idle"
  /\ UserCode("callback")
  /\ UNCHANGED <<status, iterations, remaining, enabled, state, abortOnInfeasible,
                 elapsed, iteration, dead, feasRes, trial, accepting, reason,
                 outerUp, innerUp, solves, restored>>
-----------------------------------------------------------------------------
(* sleqp_problem_solver_solve *)

Return(s) ==
  /\ state' = [state EXCEPT ![phase] = s]
  /\ pc' = "returned"

OutOfIterations == remaining # Unlimited /\ elapsed[phase] >= remaining

HeadLimit ==
  /\ pc = "head"
  /\ \/ innerUp /\ Return("abort_time")
     \/ ~innerUp /\ OutOfIterations /\ Return("abort_iter")
     \/ ~innerUp /\ ~OutOfIterations /\ abortNext[phase] /\ Return("abort_manual")
  /\ UNCHANGED <<outerVars, abortNext, abortOnInfeasible, elapsed, iteration, dead, feasRes,
                 pointVars, accepting, reason, outerUp, innerUp, solves, asked, since, restored>>

\* Mutant: a requested abort is not looked at
ProceedAborted == pc = "head" /\ ~innerUp /\ ~OutOfIterations

Proceed == pc = "head" /\ ~innerUp /\ ~OutOfIterations /\ ~abortNext[phase]

\* feas_res is zero until the first iteration; the restoration problem has no
\* constraints
ResidualOk(stamp) == phase = Rest \/ stamp = None \/ stamp \in Feasible

ObjLow == IF phase = Opt THEN Current.obj \in Low ELSE Current.obj \in RestLow

Unbounded == ObjLow /\ ResidualOk(feasRes[phase])

\* After perform_iteration has set a status, without a step: time and dead
\* point take precedence over it
Conclusion(s) ==
  IF innerUp THEN Return("abort_time")
  ELSE IF dead[phase] THEN Return("abort_deadpoint")
  ELSE Return(s)

Begin ==
  /\ since' = IF asked = "nobody" \/ since = MaxSince THEN since ELSE since + 1
  /\ UNCHANGED <<outerVars, abortNext, abortOnInfeasible, elapsed, iteration, dead,
                 iterate, func, rest, accepting, reason, outerUp, innerUp, solves, asked, restored>>

\* Unboundedness is looked for first, with the residual of the last iterate
\* that was prepared
StopUnbounded ==
  /\ Proceed /\ Unbounded
  /\ Conclusion("unbounded")
  /\ Begin
  /\ UNCHANGED <<feasRes, trial>>

StopOptimal ==
  /\ Proceed /\ ~Unbounded
  /\ feasRes' = [feasRes EXCEPT ![phase] = Current.cons]
  /\ ResidualOk(Current.cons)
  /\ Conclusion("optimal")
  /\ Begin
  /\ UNCHANGED trial

\* Mutant: the residual is not brought up to date
StopInfeasibleStale ==
  /\ Proceed /\ ~Unbounded
  /\ UNCHANGED feasRes
  /\ phase = Opt /\ (feasRes[Opt] = None \/ feasRes[Opt] \notin Feasible)
  /\ abortOnInfeasible[Opt]
  /\ trial' = [trial EXCEPT ![Opt].primal = Current.primal]
  /\ Conclusion("locally_infeasible")
  /\ Begin

\* The linear program finds no way to a smaller violation: the step is zero
StopInfeasible ==
  /\ Proceed /\ ~Unbounded
  /\ feasRes' = [feasRes EXCEPT ![phase] = Current.cons]
  /\ phase = Opt /\ ~ResidualOk(Current.cons)
  /\ abortOnInfeasible[Opt]
  /\ trial' = [trial EXCEPT ![Opt].primal = Current.primal]
  /\ Conclusion("locally_infeasible")
  /\ Begin

\* A trial point is computed
ComputeTrial ==
  /\ Proceed /\ ~Unbounded
  /\ feasRes' = [feasRes EXCEPT ![phase] = Current.cons]
  /\ \E p \in Boxed : trial' = [trial EXCEPT ![phase].primal = p]
  /\ pc' = "trial"
  /\ UNCHANGED state
  /\ Begin

\* ... unless a linear program or trust region solver runs out of time: no
\* iteration is counted.  The same happens to an error that the user's
\* function returns once time is up, with the function left where it was.
TimeOut ==
  /\ pc \in {"trial", "soc"} /\ innerUp
  /\ Return("abort_time")
  /\ UNCHANGED <<outerVars, abortNext, abortOnInfeasible, elapsed, iteration, dead, feasRes,
                 pointVars, accepting, reason, outerUp, innerUp, solves, asked, since, restored>>

EvaluationFails ==
  /\ FuncErrors /\ pc \in {"trial", "soc"}
  /\ SetFunc(trial[phase].primal) /\ reason' = "trying"
  /\ IF innerUp THEN Return("abort_time") ELSE pc' = "failed" /\ UNCHANGED state
  /\ UNCHANGED <<outerVars, abortNext, abortOnInfeasible, elapsed, iteration, dead, feasRes,
                 iterate, trial, accepting, outerUp, innerUp, solves, asked, since, restored>>

\* evaluate_at_trial_iterate: values at p unless the user rejects it
Evaluate(p, reject) ==
  /\ reason' = "trying"
  /\ IF reject
     THEN /\ SetFunc(p)
          /\ trial' = [trial EXCEPT ![phase].primal = p]
     ELSE /\ SetAndEvalValues(p)
          /\ trial' = [trial EXCEPT ![phase] = [@ EXCEPT !.primal = p, !.obj = p, !.cons = p]]

\* The trial point is evaluated and put to the step rule; if it is not
\* accepted, a second-order correction may follow
EvaluateTrial ==
  /\ pc = "trial"
  /\ \E reject, accept \in BOOLEAN :
       /\ accept => ~reject
       /\ Evaluate(trial[phase].primal, reject)
       /\ accepting' = accept
       /\ pc' = IF ~accept /\ PerformSoc /\ phase = Opt THEN "soc" ELSE "update"
  /\ UserCode("function")
  /\ UNCHANGED <<outerVars, state, abortOnInfeasible, elapsed, iteration, dead, feasRes,
                 iterate, outerUp, innerUp, solves, restored>>

\* A correction that is too long is dropped before it is evaluated
EvaluateSoc ==
  /\ pc = "soc"
  /\ \E p \in Boxed, reject, accept \in BOOLEAN :
       /\ accept => ~reject
       /\ Evaluate(p, reject)
       /\ accepting' = accept
  /\ pc' = "update"
  /\ UserCode("function")
  /\ UNCHANGED <<outerVars, state, abortOnInfeasible, elapsed, iteration, dead, feasRes,
                 iterate, outerUp, innerUp, solves, restored>>

\* Mutant: a dropped correction counts as accepted
DropSocAccepts ==
  /\ pc = "soc"
  /\ \E p \in Boxed : trial' = [trial EXCEPT ![phase].primal = p]
  /\ pc' = "update" /\ accepting' = TRUE
  /\ UNCHANGED <<outerVars, innerVars, iterate, func, rest, reason,
                 outerUp, innerUp, solves, asked, since, restored>>

DropSoc ==
  /\ pc = "soc"
  /\ \E p \in Boxed : trial' = [trial EXCEPT ![phase].primal = p]
  /\ pc' = "update"
  /\ UNCHANGED <<outerVars, innerVars, iterate, func, rest, accepting, reason,
                 outerUp, innerUp, solves, asked, since, restored>>

\* Mutant: the gradient of the previous iterate is kept
CompleteNoGradient(t, p) == [t EXCEPT !.cons = p, !.jac = p]

\* accept_step: derivatives and constraint values at the accepted point, the
\* objective is that of the trial evaluation
Complete(t, p) == [t EXCEPT !.grad = p, !.cons = p, !.jac = p]

\* Mutant: the function stays at the rejected point
RejectStays == UNCHANGED <<func, rest>> /\ reason' = "rejected"

\* reject_step: the function goes back to the iterate
Reject == SetFunc(Current.primal) /\ reason' = "rejected"

\* Count the iteration, update the trust radii (a rejected step never
\* enlarges them), then tell the function and complete the trial iterate
Update ==
  /\ pc = "update"
  /\ elapsed' = [elapsed EXCEPT ![phase] = @ + 1]
  /\ iteration' = [iteration EXCEPT ![phase] = @ + 1]
  /\ \E d \in BOOLEAN :
       /\ dead[phase] /\ ~accepting => d
       /\ dead' = [dead EXCEPT ![phase] = d]
  /\ IF accepting
     THEN /\ SetAndEvalAll(trial[phase].primal)
          /\ reason' = "accepted"
          /\ trial' = [trial EXCEPT ![phase] = Complete(@, func')]
          /\ pc' = "accepted"
     ELSE /\ Reject
          /\ pc' = "performed"
          /\ UNCHANGED trial
  /\ UserCode("function")
  /\ UNCHANGED <<outerVars, state, abortOnInfeasible, feasRes, iterate, accepting,
                 outerUp, innerUp, solves, restored>>

\* ... unless the function fails when it is told or evaluated: the iteration is
\* counted, but the iterates are not swapped, and the function may be left at a
\* point that was accepted and never becomes the iterate
UpdateFails ==
  /\ FuncErrors /\ pc = "update"
  /\ elapsed' = [elapsed EXCEPT ![phase] = @ + 1]
  /\ iteration' = [iteration EXCEPT ![phase] = @ + 1]
  /\ \E d \in BOOLEAN :
       /\ dead[phase] /\ ~accepting => d
       /\ dead' = [dead EXCEPT ![phase] = d]
  /\ IF accepting THEN SetFunc(trial[phase].primal) /\ reason' = "accepted" ELSE Reject
  /\ IF innerUp THEN Return("abort_time") ELSE pc' = "failed" /\ UNCHANGED state
  /\ UNCHANGED <<outerVars, abortNext, abortOnInfeasible, feasRes, iterate, trial, accepting,
                 outerUp, innerUp, solves, asked, since, restored>>

Swap ==
  /\ iterate' = [iterate EXCEPT ![phase] = trial[phase]]
  /\ trial' = [trial EXCEPT ![phase] = iterate[phase]]

\* The ACCEPTED_ITERATE callbacks, then the iterates are swapped.  Those of
\* the user hang on the solver of the optimization phase; the one of the
\* restoration solver stops it once the constraints are satisfied.
AcceptIterate ==
  /\ pc = "accepted" /\ phase = Opt
  /\ UserCode("callback")
  /\ Swap
  /\ pc' = "performed"
  /\ UNCHANGED <<outerVars, state, abortOnInfeasible, elapsed, iteration, dead, feasRes,
                 func, rest, accepting, reason, outerUp, innerUp, solves, restored>>

AcceptRestoration ==
  /\ pc = "accepted" /\ phase = Rest
  /\ abortNext' = IF Cached(rest.cons) \in Feasible
                  THEN [abortNext EXCEPT ![Rest] = TRUE] ELSE abortNext
  /\ Swap
  /\ pc' = "performed"
  /\ UNCHANGED <<outerVars, state, abortOnInfeasible, elapsed, iteration, dead, feasRes,
                 func, rest, accepting, reason, outerUp, innerUp,
                 solves, asked, since, restored>>

\* The PERFORMED_ITERATION callbacks and the checks after perform_iteration
Perform ==
  /\ pc = "performed"
  /\ IF phase = Opt THEN UserCode("callback") ELSE UNCHANGED <<abortNext, asked, since>>
  /\ IF innerUp THEN Return("abort_time")
     ELSE IF dead[phase] THEN Return("abort_deadpoint")
     ELSE pc' = "head" /\ UNCHANGED state
  /\ accepting' = FALSE
  /\ UNCHANGED <<outerVars, abortOnInfeasible, elapsed, iteration, dead, feasRes,
                 pointVars, reason, outerUp, innerUp, solves, restored>>
-----------------------------------------------------------------------------
Outer == LoopLimit \/ StartInner \/ Propagate \/ Conclude \/ EnterRestoration
         \/ LeaveRestorationAborted \/ LeaveRestorationChecked \/ Leave

Inner == HeadLimit \/ StopUnbounded \/ StopOptimal \/ StopInfeasible \/ ComputeTrial
         \/ TimeOut \/ EvaluationFails \/ EvaluateTrial \/ EvaluateSoc \/ DropSoc
         \/ Update \/ UpdateFails \/ AcceptIterate \/ AcceptRestoration \/ Perform

Next == Solve \/ SolveFails \/ TimePasses \/ Outer \/ Inner

(* The thread of control keeps running until sleqp_solver_solve returns;   *)
(* nobody has to call it, and no clock has to run out.                     *)
Spec == Init /\ [][Next]_vars /\ WF_vars(Outer \/ Inner)
-----------------------------------------------------------------------------
TypeOK ==
  /\ pc \in {"idle", "loop", "head", "returned", "trial", "soc", "update",
             "accepted", "performed", "leave", "failed"}
  /\ phase \in Phases /\ status \in Statuses
  /\ iterations \in Nat
  /\ remaining \in IF MaxIterations = Unlimited THEN {Unlimited} ELSE Nat
  /\ primal \in Points /\ enabled \in BOOLEAN
  /\ state \in [Phases -> InnerStates]
  /\ abortNext \in [Phases -> BOOLEAN] /\ abortOnInfeasible \in [Phases -> BOOLEAN]
  /\ elapsed \in [Phases -> Nat] /\ iteration \in [Phases -> Nat]
  /\ dead \in [Phases -> BOOLEAN] /\ feasRes \in [Phases -> Stamps]
  /\ iterate \in [Phases -> Iterates] /\ trial \in [Phases -> Iterates]
  /\ accepting \in BOOLEAN /\ func \in Stamps /\ rest \in RestValues
  /\ reason \in Reasons
  /\ outerUp \in BOOLEAN /\ innerUp \in BOOLEAN
  /\ solves \in 0 .. MaxSolves /\ asked \in {"nobody"} \cup Aborts /\ since \in 0 .. MaxSince
  /\ restored \in {"none", "aborted", "checked"}

(* Whenever the optimization phase looks at its iterate, and when          *)
(* sleqp_solver_solve returns it, objective, gradient, constraint values   *)
(* and Jacobian are those of its primal point, whichever sequence of       *)
(* accepted, rejected and corrected steps and of phases led there.  (After *)
(* a time limit that an evaluation ran into, the function is left at a     *)
(* trial point, where a restored iterate gets its objective from.)         *)
IterateCoherent ==
  /\ pc \in {"idle", "head"} /\ phase = Opt /\ solves > 0
  /\ pc = "idle" => status # "abort_time"
  => iterate[Opt] = FullAt(iterate[Opt].primal)

(* An iteration starts with the user's function at the current iterate:    *)
(* its Hessian products and, after a phase switch, its objective are taken *)
(* wherever the function was last set.                                     *)
FuncAtIterate == pc = "head" => func = Current.primal

(* The function is told that a point is accepted only if that point was    *)
(* the last one it tried.                                                  *)
AcceptedWasTried ==
  [][reason' = "accepted" /\ pc = "update" => func' = func /\ reason = "trying"]_vars

(* A reported optimum is feasible for the problem itself, not just optimal *)
(* for the restoration problem.                                            *)
OptimalIsFeasible ==
  pc = "idle" /\ status = "optimal" => iterate[Opt].primal \in Feasible

(* The iterations of all phases of a solve share one budget.               *)
BudgetKept ==
  MaxIterations # Unlimited =>
    /\ iterations + remaining = MaxIterations /\ remaining >= 0
    /\ pc \notin {"idle", "loop", "leave", "failed"} =>
         elapsed[phase] <= remaining

(* Back in the optimization phase with restoration still enabled, the      *)
(* iterate is feasible: the comment in run_solving_loop says that a manual *)
(* abort comes from the callback that found it so.                         *)
RestoredFeasible ==
  pc = "loop" /\ phase = Opt /\ restored # "none" /\ enabled =>
    iterate[Opt].primal \in Feasible

(* ABORT_MANUAL is reported only if sleqp_solver_abort was called: the     *)
(* abort by which the restoration phase ends does not leak out.            *)
ManualIsRequested ==
  pc = "idle" /\ status = "abort_manual" /\ solves > 0 => asked # "nobody"

(* After a callback called sleqp_solver_abort no further iteration begins. *)
CallbackAbortStops == asked = "callback" => since = 0

(* The solver changes to restoration only from an infeasible iterate.      *)
RestorationNeeded ==
  pc = "loop" /\ phase = Rest => iterate[Opt].primal \notin Feasible

(* A solve with an iteration limit returns, however often it changes       *)
(* between the phases without performing an iteration.                     *)
SolveTerminates == pc = "loop" ~> pc \in {"idle", "failed"}
-----------------------------------------------------------------------------
(* What comments, log messages and documentation say and the code does not *)
(* do; each is refuted by a run.                                           *)

(* phase.c: the restoration iterate and function are initialized from the  *)
(* full optimization iterate.                                              *)
RestorationInitialized ==
  phase = Rest /\ pc = "loop" =>
    iterate[Rest].obj = iterate[Rest].primal /\ iterate[Rest].grad = iterate[Rest].primal

(* check_for_unboundedness reports only if the iterate is feasible.        *)
UnboundedIsFeasible ==
  pc = "idle" /\ status = "unbounded" => iterate[Opt].primal \in Feasible

(* sleqp_solver_abort stops the solver after the next iteration.           *)
AbortStops == since <= 1

(* A solve starts from the current solution.                               *)
SolveContinues ==
  [][pc = "idle" /\ pc' = "loop" /\ solves > 0 =>
       iterate'[Opt].primal = iterate[Opt].primal]_vars
=============================================================================
