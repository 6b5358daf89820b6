------------------------------ MODULE ActiveSet ------------------------------
(***************************************************************************)
(* What the working sets of the solver promise to their users: each is a   *)
(* finite sequence of distinct active elements, those of Leading (the      *)
(* variables) before the others (the constraints), each element active at  *)
(* the bound it was added with, and nothing else active.  There are no row *)
(* maps, counters or stale array cells at this level.                      *)
(***************************************************************************)
EXTENDS Sequences

CONSTANTS
  Sets,       \* the working sets
  Elements,   \* variables and constraints
  Leading     \* the variables

VARIABLES
  state,      \* the activity of each element of each set
  order       \* the active elements of each set, in row order

vars == <<state, order>>

Inactive == "inactive"
ActiveStates == {"lower", "upper", "both"}

Empty == [e \in Elements |-> Inactive]

Init ==
  /\ state = [n \in Sets |-> Empty]
  /\ order = [n \in Sets |-> <<>>]

Clear(n) ==
  /\ state' = [state EXCEPT ![n] = Empty]
  /\ order' = [order EXCEPT ![n] = <<>>]

\* A leading element can only be added while there is no other one
Activate(n, e, s) ==
  /\ state[n][e] = Inactive
  /\ e \in Leading => \A f \in Elements \ Leading : state[n][f] = Inactive
  /\ state' = [state EXCEPT ![n][e] = s]
  /\ order' = [order EXCEPT ![n] = Append(@, e)]

Assign(n, m) ==
  /\ state' = [state EXCEPT ![m] = state[n]]
  /\ order' = [order EXCEPT ![m] = order[n]]

Next ==
  \E n \in Sets :
    \/ Clear(n)
    \/ \E e \in Elements, s \in ActiveStates : Activate(n, e, s)
    \/ \E m \in Sets : Assign(n, m)

Spec == Init /\ [][Next]_vars
=============================================================================
