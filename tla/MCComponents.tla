---------------------------- MODULE MCComponents ----------------------------
(* The components that keep state of their own, side by side: a behaviour  *)
(* chooses one of them and runs it, the others stay in their initial       *)
(* states.                                                                 *)
EXTENDS MCPreprocessor, SparseOps, StepRules, Callbacks, MCFunctionStack, QuasiNewton, MCLineSearch, MCAugJac,
        MCNewtonStep, MCRestoration, MCDerivCheck, MCSteihaug, Timers

VARIABLE active

Components == {"preprocessor", "sparse", "steprules", "callbacks", "functions", "quasinewton",
               "linesearch", "augjac", "cauchy", "newtonstep", "restoration", "derivcheck",
               "steihaug", "timers"}

allVars == <<active, vars, spVars, srVars, cbVars, fnVars, qnVars, lsVars, ajVars, clVars, nsVars, rtVars, dcVars,
             stVars, tmVars>>

SomeProblem == CHOOSE p \in MCProblems : TRUE
SomeIterate == CHOOSE it \in MCClIterates : it.jac.rows > 0
SomeInstance == CHOOSE d \in MCLsInstances : TRUE
SomeRows == CHOOSE p \in MCRtProblems : TRUE
SomeModel == CHOOSE in \in MCStInstances : TRUE

MCInit ==
  /\ active \in Components
  /\ AjInit /\ (active # "augjac" => ajKind = "standard" /\ ~ajLower /\ ajFixed = TRUE)
  /\ clIterate \in (IF active = "cauchy" THEN MCClIterates ELSE {SomeIterate}) /\ ClInit
  /\ (active # "cauchy" => ~clResolves)
  /\ nsIterate \in (IF active = "newtonstep" THEN MCClIterates ELSE {SomeIterate})
  /\ nsSet \in (IF active = "newtonstep" THEN IndependentSets(nsIterate) ELSE {EmptySet(nsIterate)}) /\ NsInit
  /\ problem \in (IF active = "preprocessor" THEN MCProblems ELSE {SomeProblem}) /\ Init
  /\ SpInit /\ SrInit /\ CbInit /\ FnInit /\ TmInit
  /\ QnInit /\ (active # "quasinewton" => qnKind = "bfgs" /\ qnSource = <<>> /\ qnFixed = {})
  /\ lsData \in (IF active = "linesearch" THEN MCLsInstances ELSE {SomeInstance}) /\ LsInit
  /\ rtProblem \in (IF active = "restoration" THEN MCRtProblems ELSE {SomeRows}) /\ RtInit
  /\ dcMistakes \in (IF active = "derivcheck" THEN MCDcMistakes ELSE {{}}) /\ DcInit
  /\ stIn \in (IF active = "steihaug" THEN MCStInstances ELSE {SomeModel}) /\ StInit

\* Components other than c stay as they are.
Others(c) ==
  /\ UNCHANGED active
  /\ c # "preprocessor" => UNCHANGED vars
  /\ c # "sparse" => UNCHANGED spVars
  /\ c # "steprules" => UNCHANGED srVars
  /\ c # "callbacks" => UNCHANGED cbVars
  /\ c # "functions" => UNCHANGED fnVars
  /\ c # "quasinewton" => UNCHANGED qnVars
  /\ c # "linesearch" => UNCHANGED lsVars
  /\ c # "augjac" => UNCHANGED ajVars
  /\ c # "cauchy" => UNCHANGED clVars
  /\ c # "newtonstep" => UNCHANGED nsVars
  /\ c # "restoration" => UNCHANGED rtVars
  /\ c # "derivcheck" => UNCHANGED dcVars
  /\ c # "steihaug" => UNCHANGED stVars
  /\ c # "timers" => UNCHANGED tmVars

MCNext ==
  \/ active = "preprocessor" /\ Next /\ Others("preprocessor")
  \/ active = "sparse" /\ SpNext /\ Others("sparse")
  \/ active = "steprules" /\ SrNext /\ Others("steprules")
  \/ active = "callbacks" /\ CbNextStep /\ Others("callbacks")
  \/ active = "functions" /\ FnNext /\ Others("functions")
  \/ active = "quasinewton" /\ QnNext /\ Others("quasinewton")
  \/ active = "linesearch" /\ LsNext /\ Others("linesearch")
  \/ active = "augjac" /\ AjNext /\ Others("augjac")
  \/ active = "cauchy" /\ ClNext /\ Others("cauchy")
  \/ active = "newtonstep" /\ NsNext /\ Others("newtonstep")
  \/ active = "restoration" /\ RtNext /\ Others("restoration")
  \/ active = "derivcheck" /\ DcNext /\ Others("derivcheck")
  \/ active = "steihaug" /\ StNext /\ Others("steihaug")
  \/ active = "timers" /\ TmNext /\ Others("timers")

MCSpec == MCInit /\ [][MCNext]_allVars

\* Wrapped functions are the user's in other coordinates in the behaviours
\* of problem.c and the functions below it.
FunctionsChecked == active = "functions" => FunctionsSound

MCSpValues == {0, 2}
MCSrPoints == {[f |-> 0, v |-> 0], [f |-> 1, v |-> 0], [f |-> 0, v |-> 1], [f |-> 2, v |-> 0]}
MCSrPenalties == {1, 3}
MCSrAccepted == <<1, 10>>
MCCbKeys == {"f", "g"}
MCTmLimits == {NoTime, 3}
MCQnFixedSets == {{}, {1}, {0, 2}}
=============================================================================
