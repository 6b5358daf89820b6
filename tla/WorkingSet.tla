----------------------------- MODULE WorkingSet -----------------------------
(***************************************************************************)
(* The working set of an active-set iteration (src/main/working_set.c):    *)
(* which variables and constraints are treated as active, at which bound,  *)
(* and in which row of the linear systems each of them appears.  Variables *)
(* take the leading rows, constraints follow.  The structure is kept       *)
(* redundantly: a state and a row per variable and per constraint, two     *)
(* counters, and the array content that maps a row back to its owner.      *)
(*                                                                         *)
(* The solver holds several working sets of one problem (those of the two  *)
(* iterates, of the polishing step, of the parametric solver, and the copy *)
(* that tells an augmented Jacobian whether to factorize again); Sets      *)
(* names them.  Indices start at 0 as in the source.                       *)
(***************************************************************************)
EXTENDS Integers, FiniteSets

CONSTANTS
  NumVars,    \* sleqp_problem_num_vars
  NumCons,    \* sleqp_problem_num_cons
  Sets,       \* the working sets of the problem that the solver holds
  Garbage     \* integers that freshly allocated memory may hold

ASSUME DimensionAssumption == NumVars \in Nat /\ NumCons \in Nat
ASSUME GarbageAssumption == Garbage \subseteq Int /\ Garbage # {}

VARIABLES
  ws,         \* the structures, one record per element of Sets
  retcode     \* what the last operation returned

wsVars == <<ws, retcode>>

Vars == 0 .. NumVars - 1
Cons == 0 .. NumCons - 1
MaxSetSize == NumVars + NumCons
Rows == 0 .. MaxSetSize - 1

NoRow == -1
Inactive == "inactive"
ActiveStates == {"lower", "upper", "both"}
States == ActiveStates \cup {Inactive}

WorkingSets ==
  [varStates  : [Vars -> States],
   consStates : [Cons -> States],
   varIndices  : [Vars -> Int],
   consIndices : [Cons -> Int],
   numActiveVars : 0 .. NumVars,
   numActiveCons : 0 .. NumCons,
   content : [Rows -> Int]]

Size(w) == w.numActiveVars + w.numActiveCons

ActiveVars(w) == {j \in Vars : w.varStates[j] # Inactive}
ActiveCons(w) == {i \in Cons : w.consStates[i] # Inactive}
-----------------------------------------------------------------------------
(* The operations, as functions of the structure.                          *)

\* Mutant: the rows of the constraints are forgotten
ResetOfKeepsRows(w) ==
  [w EXCEPT !.varStates  = [j \in Vars |-> Inactive],
            !.varIndices = [j \in Vars |-> NoRow],
            !.consStates = [i \in Cons |-> Inactive],
            !.numActiveVars = 0,
            !.numActiveCons = 0]

\* content is left alone: the rows beyond the size keep what they held
ResetOf(w) ==
  [w EXCEPT !.varStates  = [j \in Vars |-> Inactive],
            !.varIndices = [j \in Vars |-> NoRow],
            !.consStates  = [i \in Cons |-> Inactive],
            !.consIndices = [i \in Cons |-> NoRow],
            !.numActiveVars = 0,
            !.numActiveCons = 0]

AddVarTo(w, j, s) ==
  [w EXCEPT !.varStates  = [w.varStates EXCEPT ![j] = s],
            !.varIndices = [w.varIndices EXCEPT ![j] = w.numActiveVars],
            !.numActiveVars = w.numActiveVars + 1,
            !.content = [w.content EXCEPT ![Size(w)] = j]]

\* Mutant: the offset of the constraints in content is missing
AddConsToNoOffset(w, i, s) ==
  [w EXCEPT !.consStates  = [w.consStates EXCEPT ![i] = s],
            !.consIndices = [w.consIndices EXCEPT ![i] = Size(w)],
            !.numActiveCons = w.numActiveCons + 1,
            !.content = [w.content EXCEPT ![Size(w)] = i]]

AddConsTo(w, i, s) ==
  [w EXCEPT !.consStates  = [w.consStates EXCEPT ![i] = s],
            !.consIndices = [w.consIndices EXCEPT ![i] = Size(w)],
            !.numActiveCons = w.numActiveCons + 1,
            !.content = [w.content EXCEPT ![Size(w)] = NumVars + i]]

\* Equality compares the rows only, never the states
Eq(v, w) == v.varIndices = w.varIndices /\ v.consIndices = w.consIndices

\* supports_range: signs of the stored dual values against the active states
Supports(states, dual) ==
  \A i \in DOMAIN dual :
    CASE states[i] = "both"   -> TRUE
      [] states[i] = "lower"  -> dual[i] <= 0
      [] states[i] = "upper"  -> dual[i] >= 0
      [] states[i] = Inactive -> dual[i] = 0
-----------------------------------------------------------------------------
WsInit ==
  /\ ws \in [Sets -> {ResetOf([varStates  |-> [j \in Vars |-> Inactive],
                               consStates |-> [i \in Cons |-> Inactive],
                               varIndices  |-> [j \in Vars |-> NoRow],
                               consIndices |-> [i \in Cons |-> NoRow],
                               numActiveVars |-> 0,
                               numActiveCons |-> 0,
                               content |-> c]) : c \in [Rows -> Garbage]}]
  /\ retcode = "okay"

Reset(n) ==
  /\ ws' = [ws EXCEPT ![n] = ResetOf(ws[n])]
  /\ retcode' = "okay"

\* Mutant: an active variable is added again
AddVarTwice(n, j, s) ==
  /\ ws[n].numActiveCons = 0
  /\ ws' = [ws EXCEPT ![n] = AddVarTo(ws[n], j, s)]
  /\ retcode' = "okay"

\* Mutant: variables may follow constraints
AddVarAnytime(n, j, s) ==
  /\ ws[n].varStates[j] = Inactive
  /\ ws' = [ws EXCEPT ![n] = AddVarTo(ws[n], j, s)]
  /\ retcode' = "okay"

\* The assertions of the source are the contract with the callers, so they
\* are guards here; adding a variable after a constraint is an error return.
AddVar(n, j, s) ==
  /\ ws[n].varStates[j] = Inactive
  /\ ws[n].numActiveCons = 0
  /\ ws' = [ws EXCEPT ![n] = AddVarTo(ws[n], j, s)]
  /\ retcode' = "okay"

AddVarTooLate(n) ==
  /\ ws[n].numActiveCons # 0
  /\ retcode' = "internal_error"
  /\ UNCHANGED ws

AddCons(n, i, s) ==
  /\ ws[n].consStates[i] = Inactive
  /\ ws' = [ws EXCEPT ![n] = AddConsTo(ws[n], i, s)]
  /\ retcode' = "okay"

\* Mutant: content is not copied
CopyNoContent(source, target) ==
  /\ ws' = [ws EXCEPT ![target] = [ws[source] EXCEPT !.content = ws[target].content]]
  /\ retcode' = "okay"

\* Copies every field, content with its stale tail included
Copy(source, target) ==
  /\ ws' = [ws EXCEPT ![target] = ws[source]]
  /\ retcode' = "okay"

WsNext ==
  \E n \in Sets :
    \/ Reset(n)
    \/ \E j \in Vars, s \in ActiveStates : AddVar(n, j, s)
    \/ AddVarTooLate(n)
    \/ \E i \in Cons, s \in ActiveStates : AddCons(n, i, s)
    \/ \E m \in Sets \ {n} : Copy(n, m)

WsSpec == WsInit /\ [][WsNext]_wsVars
-----------------------------------------------------------------------------
(* The checks of sleqp_working_set_valid, one operator per block.  Its     *)
(* assertion size <= NumVars is not among them: it is a promise of whoever *)
(* fills the set, and no operation of this module establishes it.          *)

CountsMatch(w) ==
  /\ Cardinality(ActiveVars(w)) = w.numActiveVars
  /\ Cardinality(ActiveCons(w)) = w.numActiveCons

VarRowsLead(w) ==
  /\ Cardinality({j \in Vars : w.varIndices[j] # NoRow}) = w.numActiveVars
  /\ \A j \in Vars : w.varIndices[j] # NoRow =>
       /\ w.varIndices[j] < w.numActiveVars
       /\ \A k \in Vars : (j = k) <=> (w.varIndices[j] = w.varIndices[k])

ConsRowsUnique(w) ==
  /\ Cardinality({i \in Cons : w.consIndices[i] # NoRow}) = w.numActiveCons
  /\ \A i \in Cons : w.consIndices[i] # NoRow =>
       /\ w.consIndices[i] < Size(w)
       /\ \A k \in Cons : (i = k) <=> (w.consIndices[i] = w.consIndices[k])

ContentActive(w) ==
  \A k \in 0 .. Size(w) - 1 :
    /\ w.content[k] \in Rows
    /\ IF w.content[k] < NumVars
       THEN w.varStates[w.content[k]] # Inactive
       ELSE w.consStates[w.content[k] - NumVars] # Inactive
    /\ \A l \in 0 .. Size(w) - 1 : (l = k) <=> (w.content[l] = w.content[k])

WsTypeOK ==
  /\ ws \in [Sets -> WorkingSets]
  /\ retcode \in {"okay", "internal_error"}

(* After every operation sleqp_working_set_valid holds of every working    *)
(* set: counters, states, rows and content agree, and no row is used       *)
(* twice.                                                                  *)
Valid ==
  \A n \in Sets :
    /\ CountsMatch(ws[n])
    /\ VarRowsLead(ws[n])
    /\ ConsRowsUnique(ws[n])
    /\ ContentActive(ws[n])

(* The row maps and content are inverse to each other and the states agree *)
(* with them: the fact that soc.c, working_step.c and the augmented        *)
(* Jacobians rely on when they go from a row to its owner and back.  The   *)
(* function sleqp_working_set_valid does not look at it.                   *)
RowsInverse(w) ==
  /\ Size(w) <= MaxSetSize
  /\ \A j \in Vars :
       \/ w.varStates[j] = Inactive /\ w.varIndices[j] = NoRow
       \/ /\ w.varStates[j] # Inactive
          /\ w.varIndices[j] \in 0 .. w.numActiveVars - 1
          /\ w.content[w.varIndices[j]] = j
  /\ \A i \in Cons :
       \/ w.consStates[i] = Inactive /\ w.consIndices[i] = NoRow
       \/ /\ w.consStates[i] # Inactive
          /\ w.consIndices[i] \in w.numActiveVars .. Size(w) - 1
          /\ w.content[w.consIndices[i]] = NumVars + i
  /\ \A k \in 0 .. w.numActiveVars - 1 :
       w.content[k] \in Vars /\ w.varIndices[w.content[k]] = k
  /\ \A k \in w.numActiveVars .. Size(w) - 1 :
       /\ w.content[k] - NumVars \in Cons
       /\ w.consIndices[w.content[k] - NumVars] = k

RowMapsAgree == \A n \in Sets : RowsInverse(ws[n])

(* Two working sets that sleqp_working_set_eq calls equal have the same    *)
(* rows, whatever was copied, reset or left over in the tails of their     *)
(* content arrays: what allows an augmented Jacobian to keep its           *)
(* factorization.                                                          *)
EqSound ==
  \A m, n \in Sets : Eq(ws[m], ws[n]) =>
    /\ ws[m].numActiveVars = ws[n].numActiveVars
    /\ Size(ws[m]) = Size(ws[n])
    /\ \A k \in 0 .. Size(ws[m]) - 1 : ws[m].content[k] = ws[n].content[k]
-----------------------------------------------------------------------------
(* What a working set promises: a set of active elements with their bounds *)
(* and an order on them, variables first (module ActiveSet).               *)

activeState ==
  [n \in Sets |-> [e \in Rows |-> IF e < NumVars
                                  THEN ws[n].varStates[e]
                                  ELSE ws[n].consStates[e - NumVars]]]
rowOrder ==
  [n \in Sets |-> [r \in 1 .. Size(ws[n]) |-> ws[n].content[r - 1]]]

Abstract == INSTANCE ActiveSet WITH
  Elements <- Rows, Leading <- Vars, state <- activeState, order <- rowOrder

(* Every operation acts on the ordered set of active elements as the       *)
(* abstract module ActiveSet says.                                         *)
ImplementsActiveSet == Abstract!Spec
=============================================================================
