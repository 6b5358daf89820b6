------------------------------- MODULE MCCore -------------------------------
(* The solver, its working sets and its trial points side by side: a       *)
(* behaviour chooses one scenario and runs it, the rest stays in its       *)
(* initial state.  The solver has two of them: one solve with time limits, *)
(* aborts and failing evaluations (the constants of the run), and two      *)
(* solves without any, over three of the points, without bounds on the     *)
(* objective of the restoration phase.                                     *)
EXTENDS MCSolver, WorkingSet, MCTrialPoint

VARIABLE scenario

Scenarios == {"limits", "repeated", "workingset", "trialpoint"}

coreVars == <<scenario, vars, wsVars, tpVars>>

MCRepeatedPoints == MCPoints \ {low}
MCRepeatedClip == [p \in MCRepeatedPoints |-> MCClip[p]]

Repeated == INSTANCE Solver WITH
  Points <- MCRepeatedPoints, Clip <- MCRepeatedClip, Low <- {good}, RestLow <- {},
  TimeLimits <- FALSE, Aborts <- {}, FuncErrors <- FALSE, MaxSolves <- 2

SomeSettings == CHOOSE s \in Configurations : TRUE

MCInit ==
  /\ scenario \in Scenarios
  /\ IF scenario = "repeated" THEN Repeated!Init ELSE Init
  /\ WsInit
  /\ TpInit
  /\ scenario # "trialpoint" => settings = SomeSettings

MCNext ==
  \/ scenario = "limits" /\ Next /\ UNCHANGED <<scenario, wsVars, tpVars>>
  \/ scenario = "repeated" /\ Repeated!Next /\ UNCHANGED <<scenario, wsVars, tpVars>>
  \/ scenario = "workingset" /\ WsNext /\ UNCHANGED <<scenario, vars, tpVars>>
  \/ scenario = "trialpoint" /\ TpNext /\ UNCHANGED <<scenario, vars, wsVars>>

\* what is fair in the specification of the scenario
MCFair ==
  \/ scenario = "limits" /\ (Outer \/ Inner) /\ UNCHANGED <<scenario, wsVars, tpVars>>
  \/ scenario = "repeated" /\ (Repeated!Outer \/ Repeated!Inner)
     /\ UNCHANGED <<scenario, wsVars, tpVars>>
  \/ scenario = "trialpoint" /\ Compute /\ UNCHANGED <<scenario, vars, wsVars>>

MCSpec == MCInit /\ [][MCNext]_coreVars /\ WF_coreVars(MCFair)

\* fresh memory holds an index that could be one
MCGarbage == {0}
=============================================================================
