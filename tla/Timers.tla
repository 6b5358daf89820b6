-------------------------------- MODULE Timers --------------------------------
(***************************************************************************)
(* The timers of timer.c that nested stages of a solve start and stop, and *)
(* the time limits that are derived from them on the way down: from the    *)
(* solver to a problem solver, its trial points, the linear programs and   *)
(* the trust region problem.  An error, or a time limit, on the way up     *)
(* returns past some of the stops.                                         *)
(*                                                                         *)
(* The clock is the time that running timers show.  The LP solvers are     *)
(* external: they return with an error once their limit is used up.        *)
(* Both phases are one problem solver.  Of timers no limit is taken from   *)
(* only whether they run is kept, and those of functions, factorizations   *)
(* and the line search, which are only shown, are left out.                *)
(***************************************************************************)
EXTENDS Integers, FiniteSets

CONSTANTS
  TmLimits,         \* time limits of a solve, NoTime for none
  TmGrain,          \* the longest piece of work between two tests for time
  TmLpTimes,        \* times a linear program takes
  TmMaxLPs,         \* linear programs of an iteration
  TmMaxCg,          \* steps of the conjugate gradients
  TmMaxIterations,
  TmMaxSolves

NoTime == -1    \* SLEQP_NONE

ASSUME TmAssumption ==
  /\ TmLimits \subseteq Nat \cup {NoTime} /\ TmLpTimes \subseteq Nat
  /\ {TmGrain, TmMaxLPs, TmMaxCg, TmMaxIterations, TmMaxSolves} \subseteq Nat

VARIABLES
  tmTimers,       \* the timers by name
  tmStage,        \* where the solve is
  tmStatus,       \* return code on the way up: "okay", "time", "error"
  tmLimit,        \* time_limit of the solve, of the problem solver, of the
  tmInner,        \*   trial points, of the linear programs, and of the
  tmTrial,        \*   trust region problem; remaining_time of
  tmLp,           \*   compute_trial_point_newton
  tmTr,
  tmRest,
  tmResult,       \* status of the last solve
  tmLPs, tmIterations, tmSolves,
  tmTrouble,      \* whether an earlier solve was left by an error, or by a time limit within an iteration
  tmTwice,        \* timers that were started while they ran
  tmUncounted,    \* time of reduced programs since the trial point was begun
  tmOnTop,        \* time of reduced programs and refinements of the iteration
  tmBorrowed      \* what the timer of the conjugate gradients showed before they began

tmVars == <<tmTimers, tmStage, tmStatus, tmLimit, tmInner, tmTrial, tmLp, tmTr, tmRest, tmResult, tmLPs, tmIterations,
            tmSolves, tmTrouble, tmTwice, tmUncounted, tmOnTop, tmBorrowed>>

TimerNames == {"solver", "inner", "trial", "lp", "reduced", "eqp", "newton", "tr", "cg"}
-----------------------------------------------------------------------------
(* timer.c; a timer that is stopped shows no current run                   *)

\* whose total, and whose last run, limits are taken from
TotalRead == {"solver", "inner", "trial"}
LastRead == {"lp", "cg"}

FreshTimer == [running |-> FALSE, current |-> 0, last |-> 0, total |-> 0]
StartTimers(names, ts) == [n \in TimerNames |-> IF n \in names THEN [ts[n] EXCEPT !.running = TRUE, !.current = 0] ELSE ts[n]]
StopTimer(n, t) ==
  [running |-> FALSE, current |-> 0, last |-> IF n \in LastRead THEN t.current ELSE 0,
   total |-> IF n \in TotalRead THEN t.total + t.current ELSE 0]
StopTimers(names, ts) == [n \in TimerNames |-> IF n \in names THEN StopTimer(n, ts[n]) ELSE ts[n]]
Elapsed(t) == t.last + t.current
TotalTime(t) == t.total + t.current
RemainingOf(elapsed, limit) ==
  CASE limit = NoTime -> NoTime
    [] limit # NoTime /\ elapsed < limit -> limit - elapsed
    [] OTHER -> 0
Remaining(t, limit) == RemainingOf(TotalTime(t), limit)
Exhausted(t, limit) == limit # NoTime /\ Remaining(t, limit) <= 0

RunningTimers(ts) == {n \in TimerNames : ts[n].running}

\* all running timers show d more; in a solve without a limit the clock
\* stands still
After(d, ts) ==
  [n \in TimerNames |-> IF ts[n].running /\ n \in TotalRead \cup LastRead /\ tmLimit # NoTime THEN [ts[n] EXCEPT !.current = @ + d] ELSE ts[n]]

Starting(names) == tmTwice' = tmTwice \cup (names \cap RunningTimers(tmTimers))
-----------------------------------------------------------------------------
TmInit ==
  /\ tmTimers = [n \in TimerNames |-> FreshTimer]
  /\ tmStage = "idle" /\ tmStatus = "okay" /\ tmResult = "unknown"
  /\ tmLimit = NoTime /\ tmInner = NoTime /\ tmTrial = NoTime /\ tmLp = NoTime /\ tmTr = NoTime /\ tmRest = NoTime
  /\ tmLPs = 0 /\ tmIterations = 0 /\ tmSolves = 0
  /\ tmTrouble = "none" /\ tmTwice = {} /\ tmUncounted = 0 /\ tmOnTop = 0 /\ tmBorrowed = 0

limitVars == <<tmLimit, tmInner, tmTrial, tmLp, tmTr, tmRest>>
countVars == <<tmLPs, tmIterations, tmSolves, tmTrouble, tmUncounted, tmOnTop, tmBorrowed>>

TmSolve ==
  /\ tmStage = "idle" /\ tmSolves < TmMaxSolves
  /\ \E limit \in TmLimits : tmLimit' = limit
  /\ Starting({"solver"}) /\ tmTimers' = StartTimers({"solver"}, tmTimers)
  /\ tmStage' = "outer" /\ tmStatus' = "okay" /\ tmResult' = "running"
  /\ tmSolves' = tmSolves + 1 /\ tmIterations' = 0
  /\ tmTrouble' = CASE tmTrouble = "error" \/ tmStatus = "error" \/ tmResult = "error" -> "error"
                    [] tmTrouble = "time" \/ tmStatus = "time" -> "time"
                    [] OTHER -> "none"
  /\ tmUncounted' = 0 /\ tmOnTop' = 0 /\ tmBorrowed' = 0
  /\ UNCHANGED <<tmInner, tmTrial, tmLp, tmTr, tmRest, tmLPs>>

\* run_solving_loop: stop, or hand what remains to a problem solver; time
\* passes between the test and the reading of what remains
TmOuterLimit ==
  /\ tmStage = "outer" /\ Exhausted(tmTimers["solver"], tmLimit)
  /\ tmResult' = "time" /\ tmStage' = "finish"
  /\ UNCHANGED <<tmTimers, tmStatus, limitVars, countVars, tmTwice>>

TmEnter ==
  /\ tmStage = "outer" /\ ~Exhausted(tmTimers["solver"], tmLimit)
  /\ \E d \in 0 .. TmGrain : tmInner' = Remaining(After(d, tmTimers)["solver"], tmLimit)
  /\ tmTimers' = [After(TmGrain, tmTimers) EXCEPT !["inner"] = FreshTimer]
  /\ tmStage' = "head"
  /\ UNCHANGED <<tmStatus, tmLimit, tmTrial, tmLp, tmTr, tmRest, tmResult, countVars, tmTwice>>

\* The derivative check, a change of phase, restoring the iterate or
\* polishing fails.
TmFail ==
  /\ tmStage \in {"outer", "finish"}
  /\ tmStage' = "idle" /\ tmResult' = "error"
  /\ UNCHANGED <<tmTimers, tmStatus, limitVars, countVars, tmTwice>>

\* sleqp_problem_solver_solve: time is up, or it was the last iteration
TmHeadLimit ==
  /\ tmStage = "head" /\ Exhausted(tmTimers["inner"], tmInner)
  /\ tmResult' = "time" /\ tmStage' = "finish"
  /\ UNCHANGED <<tmTimers, tmStatus, limitVars, countVars, tmTwice>>

TmIterationLimit ==
  /\ tmStage = "head" /\ ~Exhausted(tmTimers["inner"], tmInner) /\ tmIterations = TmMaxIterations
  /\ tmResult' = "iterations" /\ tmStage' = "finish"
  /\ UNCHANGED <<tmTimers, tmStatus, limitVars, countVars, tmTwice>>

Iterates ==
  /\ tmStage = "head" /\ ~Exhausted(tmTimers["inner"], tmInner) /\ tmIterations < TmMaxIterations
  /\ Starting({"inner"})
  /\ tmIterations' = tmIterations + 1 /\ tmUncounted' = 0 /\ tmOnTop' = 0 /\ tmBorrowed' = 0

\* The problem is unbounded: nothing is prepared.
TmUnbounded ==
  /\ Iterates
  /\ tmTimers' = StartTimers({"inner"}, tmTimers) /\ tmStage' = "unwind"
  /\ UNCHANGED <<tmStatus, limitVars, tmResult, tmLPs, tmSolves, tmTrouble>>

Rewound(ts) == [ts EXCEPT !["trial"] = FreshTimer]

\* The trial point solver gets what remains, and its timer starts anew; the
\* iterate may be optimal, or preparing it may fail.
TmPrepare ==
  /\ Iterates
  /\ \E d \in 0 .. TmGrain :
       LET started == After(d, StartTimers({"inner"}, tmTimers))
       IN /\ tmTrial' = Remaining(started["inner"], tmInner)
          /\ tmTimers' = Rewound(started)
  /\ tmStage' \in {"compute", "unwind"}
  /\ tmStatus' \in {"okay", "error"} /\ (tmStage' = "compute" => tmStatus' = "okay")
  /\ UNCHANGED <<tmLimit, tmInner, tmLp, tmTr, tmRest, tmResult, tmLPs, tmSolves, tmTrouble>>

\* compute_trial_point_newton keeps what remains before the Cauchy step
BeginTrialPoint ==
  /\ tmRest' = Remaining(tmTimers'["trial"], tmTrial)
  /\ tmLp' = Remaining(tmTimers'["trial"], tmTrial)
  /\ tmStage' = "lp"

TmCompute ==
  /\ tmStage = "compute"
  /\ Starting({"trial"}) /\ tmTimers' = StartTimers({"trial"}, tmTimers)
  /\ BeginTrialPoint /\ tmLPs' = 0
  /\ UNCHANGED <<tmStatus, tmLimit, tmInner, tmTrial, tmTr, tmResult, tmIterations, tmSolves, tmTrouble, tmUncounted, tmOnTop, tmBorrowed>>

\* A dynamic function is evaluated again, and the trial point computed anew.
TmRefine ==
  /\ tmStage = "measure" /\ tmLPs < TmMaxLPs
  /\ tmTimers' = After(TmGrain, tmTimers)
  /\ BeginTrialPoint /\ tmUncounted' = 0
  /\ tmOnTop' = tmOnTop + tmTimers'["trial"].current - tmTimers["trial"].current
  /\ UNCHANGED <<tmStatus, tmLimit, tmInner, tmTrial, tmTr, tmResult, tmLPs, tmIterations, tmSolves, tmTrouble, tmBorrowed, tmTwice>>
-----------------------------------------------------------------------------
(* Linear programs                                                         *)

Unwind(status) == tmStage' = "unwind" /\ tmStatus' = status

\* sleqp_lpi_solve: the timer is stopped whatever the answer
SolveLP(name, d, next) ==
  /\ Starting({name})
  /\ IF tmLp # NoTime /\ d > tmLp
     THEN tmTimers' = StopTimers({name}, After(tmLp, StartTimers({name}, tmTimers))) /\ Unwind("time")
     ELSE /\ tmTimers' = StopTimers({name}, After(d, StartTimers({name}, tmTimers)))
          /\ (tmStage' \in next /\ UNCHANGED tmStatus) \/ Unwind("error")

\* Mutant: every linear program gets the whole time
LpTimeLeftWhole(ts) == tmLp
LpTimeLeft(ts) == RemainingOf(Elapsed(ts["lp"]), tmLp)

\* standard_cauchy_solve, again for each penalty parameter or radius
TmSolveDefault ==
  /\ tmStage = "lp" /\ tmLPs < TmMaxLPs
  /\ tmLPs' = tmLPs + 1
  /\ \E d \in TmLpTimes : SolveLP("lp", d, {"lp", "reduced", "eqp"})
  /\ tmLp' = IF tmStage' = "unwind" THEN tmLp ELSE LpTimeLeft(tmTimers')
  /\ UNCHANGED <<tmLimit, tmInner, tmTrial, tmTr, tmRest, tmResult, tmIterations, tmSolves, tmTrouble, tmUncounted, tmOnTop, tmBorrowed>>

\* switch_to_reduced_problem
TmSolveReduced ==
  /\ tmStage = "reduced"
  /\ \E d \in TmLpTimes : SolveLP("reduced", d, {"lp", "eqp"})
  /\ tmUncounted' = tmUncounted + tmTimers'["trial"].current - tmTimers["trial"].current
  /\ tmOnTop' = tmOnTop + tmTimers'["trial"].current - tmTimers["trial"].current
  /\ UNCHANGED <<limitVars, tmResult, tmLPs, tmIterations, tmSolves, tmTrouble, tmBorrowed>>
-----------------------------------------------------------------------------
(* The Newton step                                                         *)

\* No radius is left, or the trust region problem is solved.
TmSkipEqp ==
  /\ tmStage = "eqp"
  /\ Starting({"eqp"}) /\ tmTimers' = StopTimers({"eqp"}, StartTimers({"eqp"}, tmTimers))
  /\ tmTr' = tmRest /\ tmStage' = "measure"
  /\ UNCHANGED <<tmStatus, tmLimit, tmInner, tmTrial, tmLp, tmRest, tmResult, countVars>>

TmStartEqp ==
  /\ tmStage = "eqp"
  /\ Starting({"eqp", "newton", "tr", "cg"})
  /\ tmTimers' = StartTimers({"eqp", "newton", "tr", "cg"}, tmTimers)
  /\ tmTr' = tmRest /\ tmStage' = "cg" /\ tmBorrowed' = tmTimers["cg"].last
  /\ UNCHANGED <<tmStatus, tmLimit, tmInner, tmTrial, tmLp, tmRest, tmResult, tmLPs, tmIterations, tmSolves, tmTrouble, tmUncounted, tmOnTop>>

\* The timer of the conjugate gradients counts its last run as well.
CgExhausted == tmTr # NoTime /\ Elapsed(tmTimers["cg"]) >= tmTr

\* The error passes the timers of the trust region and the Newton solver;
\* sleqp_eqp_solver_compute_direction keeps it until its own is stopped.
TmCgLimit ==
  /\ tmStage = "cg" /\ CgExhausted
  /\ tmTimers' = StopTimers({"cg", "eqp"}, tmTimers)
  /\ Unwind("time")
  /\ UNCHANGED <<limitVars, tmResult, countVars, tmTwice>>

TmCgStep ==
  /\ tmStage = "cg" /\ ~CgExhausted
  /\ tmTimers' = After(TmGrain, tmTimers)
  /\ tmTimers'["cg"].current <= TmMaxCg * TmGrain
  /\ UNCHANGED <<tmStage, tmStatus, limitVars, tmResult, countVars, tmTwice>>

TmCgDone ==
  /\ tmStage = "cg" /\ ~CgExhausted
  /\ tmTimers' = StopTimers({"cg", "tr", "newton", "eqp"}, tmTimers)
  /\ tmStage' = "measure"
  /\ UNCHANGED <<tmStatus, limitVars, tmResult, countVars, tmTwice>>

\* A Hessian product fails.
TmCgFail ==
  /\ tmStage = "cg" /\ ~CgExhausted
  /\ tmTimers' = StopTimers({"eqp"}, tmTimers)
  /\ Unwind("error")
  /\ UNCHANGED <<limitVars, tmResult, countVars, tmTwice>>
-----------------------------------------------------------------------------
(* The way up                                                              *)

\* The line search ends the trial point; the functions are evaluated.
TmMeasure ==
  /\ tmStage = "measure"
  /\ tmTimers' = After(TmGrain, StopTimers({"trial"}, tmTimers))
  /\ \/ Unwind("okay") \/ Unwind("error")
     \/ tmStage' = "correct" /\ UNCHANGED tmStatus
  /\ UNCHANGED <<limitVars, tmResult, countVars, tmTwice>>

\* sleqp_trial_point_solver_compute_trial_point_soc, without a limit
TmCorrect ==
  /\ tmStage = "correct"
  /\ Starting({"trial"})
  /\ LET ran == After(TmGrain, StartTimers({"trial"}, tmTimers))
     IN \/ tmTimers' = StopTimers({"trial"}, ran) /\ Unwind("okay")
        \/ tmTimers' = ran /\ Unwind("error")
  /\ UNCHANGED <<limitVars, tmResult, countVars>>

\* The time limits of this iteration are given anew in the next one.
LeaveIteration ==
  /\ tmStage = "unwind"
  /\ tmTimers' = StopTimers({"inner"}, tmTimers)
  /\ tmTrial' = NoTime /\ tmLp' = NoTime /\ tmTr' = NoTime /\ tmRest' = NoTime /\ tmLPs' = 0
  /\ UNCHANGED <<tmStatus, tmLimit, tmInner, tmIterations, tmSolves, tmTrouble, tmUncounted, tmOnTop, tmBorrowed, tmTwice>>

InTime == tmStatus # "time" /\ ~Exhausted(tmTimers'["inner"], tmInner)

\* After an iteration: time first, whatever the iteration returned.
TmTimeUp ==
  /\ LeaveIteration
  /\ ~InTime
  /\ tmResult' = "time" /\ tmStage' = "finish"

\* optimal, another iteration, or the other phase
TmContinue ==
  /\ LeaveIteration
  /\ InTime /\ tmStatus = "okay"
  /\ \/ tmStage' \in {"head", "outer"} /\ UNCHANGED tmResult
     \/ tmStage' = "finish" /\ tmResult' = "optimal"

\* sleqp_solver_solve returns past the stop of its timer.
TmError ==
  /\ LeaveIteration
  /\ InTime /\ tmStatus = "error"
  /\ tmStage' = "idle" /\ tmResult' = "error"

\* restoring the iterate, polishing and callbacks
TmFinish ==
  /\ tmStage = "finish"
  /\ tmTimers' = StopTimers({"solver"}, After(TmGrain, tmTimers))
  /\ tmStage' = "idle"
  /\ UNCHANGED <<tmStatus, limitVars, tmResult, countVars, tmTwice>>

TmNext ==
  \/ TmSolve \/ TmOuterLimit \/ TmFail \/ TmEnter \/ TmHeadLimit \/ TmIterationLimit \/ TmUnbounded
  \/ TmPrepare \/ TmCompute \/ TmRefine
  \/ TmSolveDefault \/ TmSolveReduced \/ TmSkipEqp \/ TmStartEqp \/ TmCgLimit \/ TmCgStep \/ TmCgDone \/ TmCgFail
  \/ TmMeasure \/ TmCorrect \/ TmTimeUp \/ TmContinue \/ TmError \/ TmFinish

TmSpec == TmInit /\ [][TmNext]_tmVars
-----------------------------------------------------------------------------
(* Properties                                                              *)

Nested ==
  CASE tmStage = "idle" -> {}
    [] tmStage \in {"outer", "head", "finish"} -> {"solver"}
    [] tmStage \in {"compute", "correct", "unwind"} -> {"solver", "inner"}
    [] tmStage \in {"lp", "reduced", "eqp", "measure"} -> {"solver", "inner", "trial"}
    [] tmStage = "cg" -> {"solver", "inner", "trial", "eqp", "newton", "tr", "cg"}
Strays == RunningTimers(tmTimers) \ Nested

\* The timers of a stage run, and no others, and none is started while it
\* runs, until an iteration returns an error or a time limit past their
\* stops, or a solve fails.  What such an end leaves running is never a timer
\* of the linear programs or of the problem solver, that of the solver only
\* after an error, and that of the trial points only until it is reset before
\* its next use, so that no limit is taken from it.  The others are started
\* again while they run: see NeverStartedTwice.
TimersNest ==
  /\ Nested \subseteq RunningTimers(tmTimers)
  /\ tmTrouble = "none" /\ tmStatus = "okay" /\ tmResult # "error" => Strays = {}
  /\ tmTrouble = "none" => tmTwice = {}
  /\ Strays \subseteq {"trial", "newton", "tr", "cg", "solver"}
  /\ "solver" \in Strays => tmResult = "error"
  /\ "trial" \in Strays => tmStage \in {"idle", "outer", "head", "unwind", "finish"}
  /\ tmTwice \subseteq {"newton", "tr", "cg", "solver"}

\* The linear programs of a trial point are given what remains of its time,
\* all but what reduced programs took, and so is the trust region problem
\* what remained when it began.
LimitsHandedDown ==
  tmStage \in {"lp", "reduced", "eqp"} /\ tmTrial # NoTime =>
    /\ tmLp = RemainingOf(TotalTime(tmTimers["trial"]) - tmUncounted, tmTrial)
    /\ tmRest >= tmLp /\ tmTrial >= tmRest
    /\ tmTrial > 0 => tmTrial + TotalTime(tmTimers["inner"]) = tmInner + TotalTime(tmTimers["trial"])

OfThisSolve == tmTimers["solver"].current
OfEarlierSolves == tmTimers["solver"].total

\* A solve ends by its time limit only if it has used the limit, less what
\* earlier solves took: their time counts although limit and elapsed time
\* are documented for one call, because the timer is never reset.  The
\* previous run of the conjugate gradients may be missing as well, which
\* their test counts again.
TimeIsUp ==
  tmStage = "finish" /\ tmResult = "time" =>
    /\ tmLimit # NoTime
    /\ OfThisSolve + tmBorrowed >= tmLimit - OfEarlierSolves

\* No solve that begins within its limit takes more than twice that long:
\* linear programs and the trust region problem are given the same time;
\* reduced programs, refinements of dynamic functions and the pieces of work
\* between the tests come on top.
LimitObserved ==
  tmLimit # NoTime /\ tmStage # "idle" /\ tmTimers["solver"].total <= tmLimit =>
    TotalTime(tmTimers["solver"]) <= 2 * tmLimit + tmOnTop + 4 * TmGrain

TimersSound == TimersNest /\ LimitsHandedDown /\ TimeIsUp /\ LimitObserved

\* sleqp_timer_start asserts that the timer does not run.  A time limit that
\* passes the stops of the Newton step refutes that as soon as the solver is
\* used again, although nothing has failed.
NeverStartedTwice == tmTrouble # "error" => tmTwice = {}
=============================================================================
