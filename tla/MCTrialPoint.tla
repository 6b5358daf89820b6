---------------------------- MODULE MCTrialPoint ----------------------------
EXTENDS TrialPoint

Plain == [parametric |-> FALSE, model |-> "newton", duals |-> "mixed", resolves |-> TRUE,
          linear |-> FALSE, dynamic |-> FALSE]

\* linear constraints, the working set of the LP as it is, a linear model
Simple == [parametric |-> FALSE, model |-> "linear", duals |-> "lsq", resolves |-> FALSE,
           linear |-> TRUE, dynamic |-> FALSE]

Dynamic == [parametric |-> FALSE, model |-> "quadratic", duals |-> "lp", resolves |-> FALSE,
            linear |-> FALSE, dynamic |-> TRUE]

Parametric == [parametric |-> TRUE, model |-> "newton", duals |-> "lsq", resolves |-> TRUE,
               linear |-> FALSE, dynamic |-> FALSE]

ParametricOnly == {Parametric}

MCConfigurations == {Plain, Simple, Dynamic, Parametric}
=============================================================================
