------------------------------ MODULE DerivCheck ------------------------------
(***************************************************************************)
(* The derivative check (deriv_check.c): the user's function is moved along*)
(* one variable after the other, its values and derivatives there are      *)
(* compared with those of the iterate, and it is moved back.  The user may *)
(* refuse a point, and any call of the user's may fail.                    *)
(*                                                                         *)
(* Objective and constraints are quadratic, so that differences of first   *)
(* derivatives are exact; perturbations are integers, and quotients are    *)
(* compared as multiples of their denominator.  The user may report wrong  *)
(* derivatives.                                                            *)
(***************************************************************************)
EXTENDS Integers, FiniteSetsExt, Functions

CONSTANTS
  DcNumVars, DcNumCons,
  DcLinear, DcHess,   \* coefficients and Hessians, by row
  DcPoints, DcDuals,  \* of the iterates
  DcFlagSets,         \* what is checked
  DcMistakes,         \* sets of wrong derivatives: a place and what is added there
  DcPerturbation,     \* deriv_perturbation
  DcTolInverse,       \* 1 / deriv_tol
  DcMaxChecks

ASSUME DcAssumption ==
  /\ DcNumVars \in Nat \ {0} /\ DcNumCons \in Nat /\ DcMaxChecks \in Nat
  /\ DcPerturbation \in Nat \ {0} /\ DcTolInverse \in Nat \ {0}

VARIABLES
  dcMistakes,
  dcStage,      \* "idle", "move", "products", "eval", "check", "restore"
  dcUser,       \* the point the user's function is set to
  dcIterate, dcFlags,
  dcColumn, dcShift,   \* the variable that is moved, and by how much
  dcCheck,      \* check_iterate
  dcProducts,   \* hessian_prod_func, hessian_cons_prods, hessian_prod
  dcValid,      \* valid_deriv
  dcResult,
  dcRejected,   \* columns of this check that the user refused
  dcChecks

dcVars == <<dcMistakes, dcStage, dcUser, dcIterate, dcFlags, dcColumn, dcShift, dcCheck, dcProducts,
            dcValid, dcResult, dcRejected, dcChecks>>

DcNone == [none |-> TRUE]
DcIndices == 0 .. DcNumVars - 1
DcCons == 0 .. DcNumCons - 1
DcObj == -1      \* the row of the objective
DcAbs(v) == IF v < 0 THEN -v ELSE v
-----------------------------------------------------------------------------
(* The user's function                                                     *)

\* what the user adds to a derivative of first or second order
Mistake(order, row, j, k) ==
  IF \E m \in dcMistakes : m.at = <<order, row, j, k>>
  THEN (CHOOSE m \in dcMistakes : m.at = <<order, row, j, k>>).by ELSE 0

TrueHessTimes(row, x) == [k \in DcIndices |-> SumFunction([j \in DcIndices |-> DcHess[row][<<j, k>>] * x[j]])]
UserValue(row, x) ==
  SumFunction([j \in DcIndices |-> DcLinear[row][j] * x[j]])
    + SumFunction([j \in DcIndices |-> x[j] * TrueHessTimes(row, x)[j]]) \div 2
UserFirst(row, x) ==
  [j \in DcIndices |-> DcLinear[row][j] + TrueHessTimes(row, x)[j] + Mistake(1, row, j, j)]
UserSecond(row, j) == [k \in DcIndices |-> DcHess[row][<<j, k>>] + Mistake(2, row, j, k)]

\* product of a unit vector with the Hessian of the Lagrangian
UserProduct(j, duals) ==
  [k \in DcIndices |-> UserSecond(DcObj, j)[k] + SumFunction([i \in DcCons |-> duals[i] * UserSecond(i, j)[k]])]

ZeroDuals == [i \in DcCons |-> 0]
UnitDual(i) == [ZeroDuals EXCEPT ![i] = 1]

IterateAt(x, duals) ==
  [x |-> x, duals |-> duals, obj |-> UserValue(DcObj, x), grad |-> UserFirst(DcObj, x),
   cons |-> [i \in DcCons |-> UserValue(i, x)], jac |-> [i \in DcCons |-> UserFirst(i, x)]]
-----------------------------------------------------------------------------
(* One column                                                              *)

Flagged(flags) == dcFlags \cap flags # {}

\* get_perturbation
Perturbation(j) == Max({DcAbs(dcIterate.x[j]), 1}) * DcPerturbation

\* Mutant: the objective's products are computed for its own check only
HessianProductsStale ==
  LET func == IF Flagged({"second_obj"}) THEN UserProduct(dcColumn, ZeroDuals) ELSE dcProducts.func
  IN [func |-> func,
      cons |-> IF ~Flagged({"second_cons"}) THEN dcProducts.cons
               ELSE [i \in DcCons |-> [k \in DcIndices |-> UserProduct(dcColumn, UnitDual(i))[k] - func[k]]],
      all  |-> IF Flagged({"second_simple"}) THEN UserProduct(dcColumn, dcIterate.duals) ELSE dcProducts.all]

\* compute_hessian_products; those that no flag asks for are kept
HessianProducts ==
  LET func == IF Flagged({"second_cons", "second_obj"}) THEN UserProduct(dcColumn, ZeroDuals) ELSE dcProducts.func
  IN [func |-> func,
      cons |-> IF ~Flagged({"second_cons"}) THEN dcProducts.cons
               ELSE [i \in DcCons |-> [k \in DcIndices |-> UserProduct(dcColumn, UnitDual(i))[k] - func[k]]],
      all  |-> IF Flagged({"second_simple"}) THEN UserProduct(dcColumn, dcIterate.duals) ELSE dcProducts.all]

\* eval_at_check_iterate
Evaluation ==
  LET at == IterateAt(dcUser, ZeroDuals)
  IN [dcCheck EXCEPT
        !.obj  = IF Flagged({"first_obj"}) THEN at.obj ELSE @,
        !.cons = IF Flagged({"first_cons"}) THEN at.cons ELSE @,
        !.grad = IF Flagged({"second_obj", "second_simple"}) THEN at.grad ELSE @,
        !.jac  = IF Flagged({"second_cons", "second_simple"}) THEN at.jac ELSE @]

\* sleqp_is_eq of a derivative and a difference over the perturbation
IsDerivative(shift, expected, difference) ==
  DcTolInverse * DcAbs(shift * expected - difference)
    <= Max({DcAbs(shift * expected), DcAbs(difference), shift})

FirstObjAgrees(j, shift, check) == IsDerivative(shift, dcIterate.grad[j], check.obj - dcIterate.obj)
FirstConsAgrees(j, shift, check) ==
  \A i \in DcCons : IsDerivative(shift, dcIterate.jac[i][j], check.cons[i] - dcIterate.cons[i])
SecondObjAgrees(shift, check, func) ==
  \A k \in DcIndices : IsDerivative(shift, func[k], check.grad[k] - dcIterate.grad[k])
SecondConsAgrees(shift, check, cons) ==
  \A i \in DcCons, k \in DcIndices : IsDerivative(shift, cons[i][k], check.jac[i][k] - dcIterate.jac[i][k])

\* compute_combined_cons_grad, with the multipliers of the iterate
CombinedGrad(it, k) == it.grad[k] + SumFunction([i \in DcCons |-> dcIterate.duals[i] * it.jac[i][k]])
SecondSimpleAgrees(shift, check, all) ==
  \A k \in DcIndices : IsDerivative(shift, all[k], CombinedGrad(check, k) - CombinedGrad(dcIterate, k))

\* check_deriv: a failed comparison is recorded, and the check goes on
Agrees(j, shift, check, products) ==
  /\ Flagged({"first_obj"}) => FirstObjAgrees(j, shift, check)
  /\ Flagged({"first_cons"}) => FirstConsAgrees(j, shift, check)
  /\ Flagged({"second_obj"}) => SecondObjAgrees(shift, check, products.func)
  /\ Flagged({"second_cons"}) => SecondConsAgrees(shift, check, products.cons)
  /\ Flagged({"second_simple"}) => SecondSimpleAgrees(shift, check, products.all)
-----------------------------------------------------------------------------
(* The check                                                               *)

DcInit ==
  /\ dcMistakes \in DcMistakes
  /\ dcStage = "idle" /\ dcUser = DcNone
  /\ dcIterate = DcNone /\ dcFlags = {} /\ dcColumn = 0 /\ dcShift = 0
  /\ dcCheck = [x |-> DcNone, obj |-> 0, grad |-> [j \in DcIndices |-> 0], cons |-> ZeroDuals,
                jac |-> [i \in DcCons |-> [j \in DcIndices |-> 0]], duals |-> ZeroDuals]
  /\ dcProducts = [func |-> [k \in DcIndices |-> 0], cons |-> [i \in DcCons |-> [k \in DcIndices |-> 0]],
                   all |-> [k \in DcIndices |-> 0]]
  /\ dcValid = TRUE /\ dcResult = "none" /\ dcRejected = {} /\ dcChecks = 0

\* A solve begins: the iterate is evaluated, and sleqp_deriv_check_perform
\* called.
DcPerform ==
  /\ dcStage = "idle" /\ dcChecks < DcMaxChecks
  /\ \E x \in DcPoints, duals \in DcDuals, flags \in DcFlagSets :
       /\ dcIterate' = IterateAt(x, duals)
       /\ dcUser' = x
       /\ dcFlags' = flags
       /\ dcStage' = IF flags = {} THEN "idle" ELSE "move"
       /\ dcResult' = IF flags = {} THEN "okay" ELSE "none"
       /\ dcValid' = IF flags = {} THEN dcValid ELSE TRUE
  /\ dcColumn' = 0 /\ dcRejected' = {} /\ dcChecks' = dcChecks + 1
  /\ UNCHANGED <<dcMistakes, dcShift, dcCheck, dcProducts>>

DcFrame == UNCHANGED <<dcMistakes, dcIterate, dcFlags, dcChecks>>

\* create_check_iterate, set_check_iterate
DcMove ==
  /\ dcStage = "move"
  /\ dcShift' = Perturbation(dcColumn)
  /\ dcCheck' = [dcCheck EXCEPT !.x = [dcIterate.x EXCEPT ![dcColumn] = @ + dcShift']]
  /\ \/ dcUser' = dcCheck'.x /\ dcStage' = "products" /\ UNCHANGED dcRejected
     \/ dcUser' = DcNone /\ dcStage' = "restore" /\ dcRejected' = dcRejected \cup {dcColumn}
  /\ DcFrame /\ UNCHANGED <<dcColumn, dcProducts, dcValid, dcResult>>

DcComputeProducts ==
  /\ dcStage = "products" /\ dcStage' = "eval"
  /\ dcProducts' = HessianProducts
  /\ DcFrame /\ UNCHANGED <<dcUser, dcColumn, dcShift, dcCheck, dcValid, dcResult, dcRejected>>

DcEvaluate ==
  /\ dcStage = "eval" /\ dcStage' = "check"
  /\ dcCheck' = Evaluation
  /\ DcFrame /\ UNCHANGED <<dcUser, dcColumn, dcShift, dcProducts, dcValid, dcResult, dcRejected>>

DcCompare ==
  /\ dcStage = "check" /\ dcStage' = "restore"
  /\ dcValid' = (dcValid /\ Agrees(dcColumn, dcShift, dcCheck, dcProducts))
  /\ DcFrame /\ UNCHANGED <<dcUser, dcColumn, dcShift, dcCheck, dcProducts, dcResult, dcRejected>>

\* restore_iterate, and the next column or the end
DcRestore ==
  /\ dcStage = "restore"
  /\ dcUser' = dcIterate.x
  /\ IF dcColumn + 1 < DcNumVars
     THEN dcColumn' = dcColumn + 1 /\ dcStage' = "move" /\ UNCHANGED dcResult
     ELSE dcStage' = "idle" /\ dcResult' = (IF dcValid THEN "okay" ELSE "invalid") /\ UNCHANGED dcColumn
  /\ DcFrame /\ UNCHANGED <<dcShift, dcCheck, dcProducts, dcValid, dcRejected>>

\* A call of the user's fails, or the iterate itself is refused: the error
\* is passed on, and nothing put back.  What the failing call left in the
\* buffers is overwritten before it is read.
DcFail ==
  /\ dcStage \in {"move", "products", "eval", "restore"}
  /\ dcStage' = "idle" /\ dcResult' = "error"
  /\ dcUser' = IF dcStage \in {"move", "restore"} THEN DcNone ELSE dcUser
  /\ DcFrame /\ UNCHANGED <<dcColumn, dcShift, dcCheck, dcProducts, dcValid, dcRejected>>

DcNext == DcPerform \/ DcMove \/ DcComputeProducts \/ DcEvaluate \/ DcCompare \/ DcRestore \/ DcFail

DcSpec == DcInit /\ [][DcNext]_dcVars
-----------------------------------------------------------------------------
(* Properties                                                              *)

\* The comparisons of a column with everything computed for it, from the
\* iterate and the user's function only
ColumnAgrees(j) ==
  LET shift == Perturbation(j)
      moved == IterateAt([dcIterate.x EXCEPT ![j] = @ + shift], ZeroDuals)
      func  == UserProduct(j, ZeroDuals)
      cons  == [i \in DcCons |-> [k \in DcIndices |-> UserProduct(j, UnitDual(i))[k] - func[k]]]
  IN Agrees(j, shift, moved, [func |-> func, cons |-> cons, all |-> UserProduct(j, dcIterate.duals)])

\* The verdict is that of the comparisons of all columns that the user did
\* not refuse; what earlier columns, flags and checks left in the buffers
\* decides nothing.
VerdictIsFresh ==
  dcResult \in {"okay", "invalid"} =>
    (dcResult = "okay" <=> \A j \in DcIndices \ dcRejected : ColumnAgrees(j))

\* which check finds a mistake: a product with the unit vector of j is
\* compared while j is moved, and the simple check weighs rows by multipliers
Compared(m) ==
  LET order == m.at[1] row == m.at[2] IN
  \/ order = 1 /\ row = DcObj /\ Flagged({"first_obj"})
  \/ order = 1 /\ row # DcObj /\ Flagged({"first_cons"})
  \/ order = 2 /\ row = DcObj /\ Flagged({"second_obj", "second_simple"})
  \/ order = 2 /\ row # DcObj /\ Flagged({"second_cons"})
  \/ order = 2 /\ row # DcObj /\ Flagged({"second_simple"}) /\ dcIterate.duals[row] # 0
MistakesOf(j) == {m \in dcMistakes : m.at[3] = j /\ Compared(m)}

\* A check that ends finds a wrong derivative exactly if one of its
\* comparisons is about it, in a column the user did not refuse.
VerdictIsRight ==
  dcResult \in {"okay", "invalid"} =>
    (dcResult = "invalid" <=> \E j \in DcIndices \ dcRejected : MistakesOf(j) # {})

\* A check that ends without an error leaves the function at the iterate,
\* where the solver goes on with it.
FuncIsBack == dcResult \in {"okay", "invalid"} => dcUser = dcIterate.x

\* The derivative check judges what the user reports, and only that.
DerivCheckSound == VerdictIsFresh /\ VerdictIsRight /\ FuncIsBack
=============================================================================
