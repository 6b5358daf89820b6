---------------------------- MODULE FunctionProofs ----------------------------
(***************************************************************************)
(* What is proved of the functions of a problem: of the derivative check   *)
(* of DerivCheck.tla, for any function, mistakes, points, flags and        *)
(* tolerance, of the caches of FunctionStack.tla, for any points,          *)
(* scalings, fixed variables and bounds, and of the linear systems made    *)
(* from their Jacobians in AugJac.tla, for any Jacobians and working sets. *)
(*                                                                         *)
(* The derivative check: its verdict is that of the comparisons of the     *)
(* columns the user did not refuse, as if each were made on its own, and   *)
(* the function is back at the iterate.  The walk keeps buffers for        *)
(* products and for the moved iterate, and writes only what the flags of a *)
(* check ask for.  The invariant says that what a comparison reads was     *)
(* written for its column.  Whether differences are close enough to        *)
(* derivatives to show a mistake, and only a mistake, is a question about  *)
(* the function; that is a hypothesis here.                                *)
(*                                                                         *)
(* The function stack: every layer caches, least-squares and dynamic       *)
(* functions drop their caches at different times, and an evaluation fills *)
(* those it passes through.  The invariant says that a cache that is not   *)
(* empty holds what the layer would compute afresh; what is read through   *)
(* the caches is a recursion over the layers, of which there are at most   *)
(* two, so that it can be unfolded.                                        *)
(*                                                                         *)
(* The augmented Jacobians: systems are reused, and failures leave parts   *)
(* of the state behind.  The invariant says that the matrices are those of *)
(* the Jacobian and the working set given last, and that a factorization   *)
(* that is not broken is one of these matrices.  What the matrices contain *)
(* is computed by folds over columns, which is left to TLC.                *)
(***************************************************************************)
EXTENDS DerivCheck, FunctionStack, AugJac, TLAPS

-----------------------------------------------------------------------------
(* DerivCheck                                                              *)

CheckFields == {"x", "obj", "grad", "cons", "jac", "duals"}
Comparing == {"eval", "check"}
AtColumn == {"move", "products"} \cup Comparing

\* Per column: how far it is moved, what is evaluated there, the products,
\* and whether its comparisons succeed
ColumnShift == [j \in DcIndices |-> Perturbation(j)]
ColumnPoint == [j \in DcIndices |-> [dcIterate.x EXCEPT ![j] = @ + Perturbation(j)]]
ColumnCheck ==
  [j \in DcIndices |-> IterateAt([dcIterate.x EXCEPT ![j] = @ + Perturbation(j)], ZeroDuals)]
ColumnProducts ==
  [j \in DcIndices |->
     LET func == UserProduct(j, ZeroDuals)
     IN [func |-> func,
         cons |-> [i \in DcCons |-> [k \in DcIndices |-> UserProduct(j, UnitDual(i))[k] - func[k]]],
         all |-> UserProduct(j, dcIterate.duals)]]
GoodColumns == {j \in DcIndices : Agrees(j, ColumnShift[j], ColumnCheck[j], ColumnProducts[j])}

\* Where the walk is
Walk ==
  /\ dcStage \in {"idle", "restore"} \cup AtColumn
  /\ dcValid \in BOOLEAN /\ dcRejected \subseteq DcIndices
  /\ dcStage # "idle" => dcColumn \in DcIndices /\ dcResult = "none"
  /\ dcStage \in AtColumn => \A j \in dcRejected : j < dcColumn
  /\ dcStage = "restore" => \A j \in dcRejected : j <= dcColumn
  /\ dcResult \in {"none", "okay", "invalid", "error"}

\* The function is at the point of the column.
Moved ==
  /\ DOMAIN dcCheck = CheckFields
  /\ dcStage \in {"products"} \cup Comparing =>
       dcShift = ColumnShift[dcColumn] /\ dcUser = ColumnPoint[dcColumn]

\* What is going to be compared belongs to the column.
ProductsFresh ==
  dcStage \in Comparing =>
    /\ "second_obj" \in dcFlags => dcProducts.func = ColumnProducts[dcColumn].func
    /\ "second_cons" \in dcFlags => dcProducts.cons = ColumnProducts[dcColumn].cons
    /\ "second_simple" \in dcFlags => dcProducts.all = ColumnProducts[dcColumn].all
EvaluationFresh ==
  dcStage = "check" =>
    /\ "first_obj" \in dcFlags => dcCheck.obj = ColumnCheck[dcColumn].obj
    /\ "first_cons" \in dcFlags => dcCheck.cons = ColumnCheck[dcColumn].cons
    /\ "second_obj" \in dcFlags \/ "second_simple" \in dcFlags => dcCheck.grad = ColumnCheck[dcColumn].grad
    /\ "second_cons" \in dcFlags \/ "second_simple" \in dcFlags => dcCheck.jac = ColumnCheck[dcColumn].jac

\* Columns that were judged or refused
PassedColumns == {j \in DcIndices : j < dcColumn \/ (dcStage = "restore" /\ j = dcColumn)}
Judged == dcStage # "idle" => (dcValid <=> PassedColumns \ dcRejected \subseteq GoodColumns)
Verdict == dcResult \in {"okay", "invalid"} => (dcResult = "okay" <=> DcIndices \ dcRejected \subseteq GoodColumns)

DcIInv == Walk /\ Moved /\ ProductsFresh /\ EvaluationFresh /\ Judged /\ Verdict /\ FuncIsBack
-----------------------------------------------------------------------------
(* What is compared                                                        *)

LEMMA Indices == \A j \in DcIndices : j \in Int /\ 0 <= j /\ j < DcNumVars
BY DcAssumption DEF DcIndices

LEMMA GoodColumnsAgree == GoodColumns = {j \in DcIndices : ColumnAgrees(j)}
BY DEF GoodColumns, ColumnAgrees, ColumnShift, ColumnCheck, ColumnProducts

\* A comparison reads what its flags had computed, and nothing else.
LEMMA AgreesOnlyReads ==
  ASSUME NEW j, NEW shift, NEW check, NEW products, NEW check2, NEW products2,
         "first_obj" \in dcFlags => check.obj = check2.obj,
         "first_cons" \in dcFlags => check.cons = check2.cons,
         "second_obj" \in dcFlags \/ "second_simple" \in dcFlags => check.grad = check2.grad,
         "second_cons" \in dcFlags \/ "second_simple" \in dcFlags => check.jac = check2.jac,
         "second_obj" \in dcFlags => products.func = products2.func,
         "second_cons" \in dcFlags => products.cons = products2.cons,
         "second_simple" \in dcFlags => products.all = products2.all
  PROVE  Agrees(j, shift, check, products) <=> Agrees(j, shift, check2, products2)
<1>1. \A f : Flagged({f}) <=> f \in dcFlags
  BY DEF Flagged
<1>2. "first_obj" \in dcFlags => (FirstObjAgrees(j, shift, check) <=> FirstObjAgrees(j, shift, check2))
  BY DEF FirstObjAgrees
<1>3. "first_cons" \in dcFlags => (FirstConsAgrees(j, shift, check) <=> FirstConsAgrees(j, shift, check2))
  BY DEF FirstConsAgrees
<1>4. "second_obj" \in dcFlags =>
        (SecondObjAgrees(shift, check, products.func) <=> SecondObjAgrees(shift, check2, products2.func))
  BY DEF SecondObjAgrees
<1>5. "second_cons" \in dcFlags =>
        (SecondConsAgrees(shift, check, products.cons) <=> SecondConsAgrees(shift, check2, products2.cons))
  BY DEF SecondConsAgrees
<1>6. "second_simple" \in dcFlags =>
        (SecondSimpleAgrees(shift, check, products.all) <=> SecondSimpleAgrees(shift, check2, products2.all))
  <2>1. SUFFICES ASSUME "second_simple" \in dcFlags
                 PROVE  SecondSimpleAgrees(shift, check, products.all) <=> SecondSimpleAgrees(shift, check2, products2.all)
    OBVIOUS
  <2>2. \A k : CombinedGrad(check, k) = CombinedGrad(check2, k)
    BY <2>1 DEF CombinedGrad
  <2>3. QED
    BY <2>1, <2>2 DEF SecondSimpleAgrees
<1>7. QED
  BY <1>1, <1>2, <1>3, <1>4, <1>5, <1>6 DEF Agrees

\* As long as iterate, flags and the user's mistakes are the same, so is
\* what the columns are judged by.
LEMMA SameColumns ==
  ASSUME UNCHANGED <<dcMistakes, dcIterate, dcFlags>>
  PROVE  /\ ColumnShift' = ColumnShift /\ ColumnPoint' = ColumnPoint
         /\ ColumnCheck' = ColumnCheck /\ ColumnProducts' = ColumnProducts
         /\ GoodColumns' = GoodColumns
<1>1. ColumnShift' = ColumnShift /\ ColumnPoint' = ColumnPoint
  BY DEF ColumnShift, ColumnPoint, Perturbation
<1>2. ColumnCheck' = ColumnCheck
  BY DEF ColumnCheck, Perturbation, IterateAt, UserFirst, Mistake
<1>3. ColumnProducts' = ColumnProducts
  BY DEF ColumnProducts, UserProduct, UserSecond, Mistake
<1>4. GoodColumns' = GoodColumns
  BY <1>1, <1>2, <1>3 DEF GoodColumns, Agrees, Flagged, FirstObjAgrees, FirstConsAgrees, SecondObjAgrees,
       SecondConsAgrees, SecondSimpleAgrees, CombinedGrad
<1>5. QED
  BY <1>1, <1>2, <1>3, <1>4
-----------------------------------------------------------------------------
(* The steps of the check                                                  *)

LEMMA InitInvariant ==
  ASSUME DcInit
  PROVE  DcIInv
<1>1. /\ dcStage = "idle" /\ dcResult = "none" /\ dcValid = TRUE /\ dcRejected = {}
      /\ DOMAIN dcCheck = CheckFields
  BY DEF DcInit, CheckFields
<1>2. QED
  BY <1>1 DEF DcIInv, Walk, Moved, ProductsFresh, EvaluationFresh, Judged, Verdict, FuncIsBack, Comparing, AtColumn

\* Without flags nothing is compared.
LEMMA PerformStep ==
  ASSUME DcIInv, DcPerform
  PROVE  DcIInv'
<1>1. PICK x \in DcPoints, duals \in DcDuals, flags \in DcFlagSets :
        /\ dcIterate' = IterateAt(x, duals) /\ dcUser' = x /\ dcFlags' = flags
        /\ dcStage' = IF flags = {} THEN "idle" ELSE "move"
        /\ dcResult' = IF flags = {} THEN "okay" ELSE "none"
        /\ dcValid' = IF flags = {} THEN dcValid ELSE TRUE
  BY DEF DcPerform
<1>2. dcColumn' = 0 /\ dcRejected' = {} /\ dcCheck' = dcCheck
  BY DEF DcPerform
<1>3. dcIterate'.x = x
  BY <1>1 DEF IterateAt
<1>4. 0 \in DcIndices
  BY DcAssumption DEF DcIndices
<1>5. Walk'
  BY <1>1, <1>2, <1>4 DEF DcIInv, Walk, AtColumn, Comparing
<1>6. Moved' /\ ProductsFresh' /\ EvaluationFresh'
  BY <1>1, <1>2 DEF DcIInv, Moved, ProductsFresh, EvaluationFresh, Comparing
<1>7. Judged'
  <2>1. dcStage' # "restore" /\ (dcStage' # "idle" => dcValid' = TRUE)
    BY <1>1
  <2>2. PassedColumns' = {}
    BY <1>2, <2>1, Indices DEF PassedColumns
  <2>3. QED
    BY <2>1, <2>2 DEF Judged
<1>8. Verdict'
  <2>1. SUFFICES ASSUME flags = {} PROVE Verdict'
    BY <1>1 DEF Verdict
  <2>2. GoodColumns' = DcIndices
    BY <1>1, <2>1 DEF GoodColumns, Agrees, Flagged
  <2>3. QED
    BY <1>1, <2>1, <2>2 DEF Verdict
<1>9. FuncIsBack'
  BY <1>1, <1>3 DEF FuncIsBack
<1>10. QED
  BY <1>5, <1>6, <1>7, <1>8, <1>9 DEF DcIInv

LEMMA MoveStep ==
  ASSUME DcIInv, DcMove
  PROVE  DcIInv'
<1>1. /\ dcStage = "move" /\ dcShift' = Perturbation(dcColumn)
      /\ dcCheck' = [dcCheck EXCEPT !.x = [dcIterate.x EXCEPT ![dcColumn] = @ + dcShift']]
      /\ \/ dcUser' = dcCheck'.x /\ dcStage' = "products" /\ dcRejected' = dcRejected
         \/ dcUser' = DcNone /\ dcStage' = "restore" /\ dcRejected' = dcRejected \cup {dcColumn}
      /\ UNCHANGED <<dcMistakes, dcIterate, dcFlags>>
      /\ dcColumn' = dcColumn /\ dcValid' = dcValid /\ dcResult' = dcResult
  BY DEF DcMove, DcFrame
<1>2. /\ ColumnShift' = ColumnShift /\ ColumnPoint' = ColumnPoint /\ GoodColumns' = GoodColumns
  BY <1>1, SameColumns
<1>3. /\ dcColumn \in DcIndices /\ dcResult = "none" /\ dcValid \in BOOLEAN /\ dcRejected \subseteq DcIndices
      /\ \A j \in dcRejected : j < dcColumn
      /\ DOMAIN dcCheck = CheckFields /\ (dcValid <=> PassedColumns \ dcRejected \subseteq GoodColumns)
  BY <1>1 DEF DcIInv, Walk, Moved, Judged, AtColumn
<1>4. dcShift' = ColumnShift[dcColumn] /\ DOMAIN dcCheck' = CheckFields /\ dcCheck'.x = ColumnPoint[dcColumn]
  BY <1>1, <1>3 DEF ColumnShift, ColumnPoint, CheckFields
<1>5. dcStage' \in {"products", "restore"}
  BY <1>1
<1>6. Walk'
  BY <1>1, <1>3, Indices DEF Walk, AtColumn, Comparing
<1>7. Moved'
  BY <1>1, <1>2, <1>4 DEF Moved, Comparing
<1>8. ProductsFresh' /\ EvaluationFresh' /\ Verdict' /\ FuncIsBack'
  BY <1>1, <1>3, <1>5 DEF ProductsFresh, EvaluationFresh, Verdict, FuncIsBack, Comparing
<1>9. PassedColumns' \ dcRejected' = PassedColumns \ dcRejected
  BY <1>1, <1>3, Indices DEF PassedColumns
<1>10. Judged'
  BY <1>1, <1>2, <1>3, <1>9 DEF Judged
<1>11. QED
  BY <1>6, <1>7, <1>8, <1>10 DEF DcIInv

LEMMA ProductsStep ==
  ASSUME DcIInv, DcComputeProducts
  PROVE  DcIInv'
<1>1. /\ dcStage = "products" /\ dcStage' = "eval" /\ dcProducts' = HessianProducts
      /\ UNCHANGED <<dcMistakes, dcIterate, dcFlags>> /\ dcUser' = dcUser /\ dcShift' = dcShift
      /\ dcColumn' = dcColumn /\ dcCheck' = dcCheck /\ dcValid' = dcValid /\ dcResult' = dcResult /\ dcRejected' = dcRejected
  BY DEF DcComputeProducts, DcFrame
<1>2. /\ ColumnShift' = ColumnShift /\ ColumnPoint' = ColumnPoint /\ ColumnProducts' = ColumnProducts
      /\ GoodColumns' = GoodColumns
  BY <1>1, SameColumns
<1>3. dcColumn \in DcIndices /\ dcResult = "none"
  BY <1>1 DEF DcIInv, Walk
<1>4. Walk'
  BY <1>1 DEF DcIInv, Walk, AtColumn, Comparing
<1>5. Moved'
  BY <1>1, <1>2 DEF DcIInv, Moved, Comparing
<1>6. ProductsFresh'
  <2> DEFINE func == UserProduct(dcColumn, ZeroDuals)
             cons == [i \in DcCons |-> [k \in DcIndices |-> UserProduct(dcColumn, UnitDual(i))[k] - func[k]]]
             all == UserProduct(dcColumn, dcIterate.duals)
  <2>1. ColumnProducts[dcColumn] = [func |-> func, cons |-> cons, all |-> all]
    BY <1>3 DEF ColumnProducts
  <2>2. /\ "second_obj" \in dcFlags => HessianProducts.func = func
        /\ "second_cons" \in dcFlags => HessianProducts.cons = cons
        /\ "second_simple" \in dcFlags => HessianProducts.all = all
    BY DEF HessianProducts, Flagged
  <2> HIDE DEF func, cons, all
  <2>3. QED
    BY <1>1, <1>2, <2>1, <2>2 DEF ProductsFresh
<1>7. EvaluationFresh' /\ Verdict' /\ FuncIsBack'
  BY <1>1, <1>3 DEF EvaluationFresh, Verdict, FuncIsBack
<1>8. Judged'
  <2>1. PassedColumns' = PassedColumns
    BY <1>1 DEF PassedColumns
  <2>2. QED
    BY <1>1, <1>2, <2>1 DEF DcIInv, Judged
<1>9. QED
  BY <1>4, <1>5, <1>6, <1>7, <1>8 DEF DcIInv

LEMMA EvaluateStep ==
  ASSUME DcIInv, DcEvaluate
  PROVE  DcIInv'
<1>1. /\ dcStage = "eval" /\ dcStage' = "check" /\ dcCheck' = Evaluation
      /\ UNCHANGED <<dcMistakes, dcIterate, dcFlags>> /\ dcUser' = dcUser /\ dcShift' = dcShift
      /\ dcColumn' = dcColumn /\ dcProducts' = dcProducts /\ dcValid' = dcValid /\ dcResult' = dcResult
      /\ dcRejected' = dcRejected
  BY DEF DcEvaluate, DcFrame
<1>2. /\ ColumnShift' = ColumnShift /\ ColumnPoint' = ColumnPoint /\ ColumnCheck' = ColumnCheck
      /\ ColumnProducts' = ColumnProducts /\ GoodColumns' = GoodColumns
  BY <1>1, SameColumns
<1>3. dcColumn \in DcIndices /\ dcResult = "none" /\ DOMAIN dcCheck = CheckFields /\ dcUser = ColumnPoint[dcColumn]
  BY <1>1 DEF DcIInv, Walk, Moved, Comparing
<1> DEFINE at == IterateAt(dcUser, ZeroDuals)
<1>4. ColumnCheck[dcColumn] = at
  BY <1>3 DEF ColumnCheck, ColumnPoint
<1> HIDE DEF at
<1>5. /\ DOMAIN Evaluation = CheckFields
      /\ "first_obj" \in dcFlags => Evaluation.obj = at.obj
      /\ "first_cons" \in dcFlags => Evaluation.cons = at.cons
      /\ "second_obj" \in dcFlags \/ "second_simple" \in dcFlags => Evaluation.grad = at.grad
      /\ "second_cons" \in dcFlags \/ "second_simple" \in dcFlags => Evaluation.jac = at.jac
  BY <1>3 DEF Evaluation, Flagged, CheckFields, at
<1>6. Walk'
  BY <1>1 DEF DcIInv, Walk, AtColumn, Comparing
<1>7. Moved'
  BY <1>1, <1>2, <1>5 DEF DcIInv, Moved, Comparing
<1>8. ProductsFresh'
  BY <1>1, <1>2 DEF DcIInv, ProductsFresh, Comparing
<1>9. EvaluationFresh'
  BY <1>1, <1>2, <1>4, <1>5 DEF EvaluationFresh
<1>10. Verdict' /\ FuncIsBack'
  BY <1>1, <1>3 DEF Verdict, FuncIsBack
<1>11. Judged'
  <2>1. PassedColumns' = PassedColumns
    BY <1>1 DEF PassedColumns
  <2>2. QED
    BY <1>1, <1>2, <2>1 DEF DcIInv, Judged
<1>12. QED
  BY <1>6, <1>7, <1>8, <1>9, <1>10, <1>11 DEF DcIInv

\* The comparisons are those of the column on its own.
LEMMA CompareStep ==
  ASSUME DcIInv, DcCompare
  PROVE  DcIInv'
<1>1. /\ dcStage = "check" /\ dcStage' = "restore"
      /\ dcValid' = (dcValid /\ Agrees(dcColumn, dcShift, dcCheck, dcProducts))
      /\ UNCHANGED <<dcMistakes, dcIterate, dcFlags>> /\ dcCheck' = dcCheck
      /\ dcColumn' = dcColumn /\ dcResult' = dcResult /\ dcRejected' = dcRejected
  BY DEF DcCompare, DcFrame
<1>2. GoodColumns' = GoodColumns
  BY <1>1, SameColumns
<1>3. /\ dcColumn \in DcIndices /\ dcResult = "none" /\ dcValid \in BOOLEAN
      /\ \A j \in dcRejected : j < dcColumn
      /\ dcShift = ColumnShift[dcColumn]
  BY <1>1 DEF DcIInv, Walk, Moved, Comparing, AtColumn
<1>4. Agrees(dcColumn, dcShift, dcCheck, dcProducts) <=> dcColumn \in GoodColumns
  <2>1. Agrees(dcColumn, dcShift, dcCheck, dcProducts)
          <=> Agrees(dcColumn, dcShift, ColumnCheck[dcColumn], ColumnProducts[dcColumn])
    BY <1>1, AgreesOnlyReads DEF DcIInv, ProductsFresh, EvaluationFresh, Comparing
  <2>2. QED
    BY <1>3, <2>1 DEF GoodColumns
<1>5. PassedColumns' = PassedColumns \cup {dcColumn} /\ dcColumn \notin dcRejected
  BY <1>1, <1>3, Indices DEF PassedColumns
<1>6. dcValid <=> PassedColumns \ dcRejected \subseteq GoodColumns
  BY <1>1 DEF DcIInv, Judged
<1>7. dcValid' <=> PassedColumns' \ dcRejected' \subseteq GoodColumns'
  BY <1>1, <1>2, <1>4, <1>5, <1>6
<1>8. dcValid' \in BOOLEAN
  BY <1>1, <1>3, <1>4
<1>9. Walk'
  <2>1. \A j \in dcRejected : j <= dcColumn
    BY <1>3, Indices DEF DcIInv, Walk
  <2>2. QED
    BY <1>1, <1>3, <1>8, <2>1 DEF DcIInv, Walk, AtColumn, Comparing
<1>10. Moved' /\ ProductsFresh' /\ EvaluationFresh' /\ Verdict' /\ FuncIsBack'
  BY <1>1, <1>3 DEF DcIInv, Moved, ProductsFresh, EvaluationFresh, Verdict, FuncIsBack, Comparing
<1>11. QED
  BY <1>7, <1>9, <1>10 DEF DcIInv, Judged

LEMMA RestoreStep ==
  ASSUME DcIInv, DcRestore
  PROVE  DcIInv'
<1>1. /\ dcStage = "restore" /\ dcUser' = dcIterate.x
      /\ UNCHANGED <<dcMistakes, dcIterate, dcFlags>>
      /\ dcCheck' = dcCheck /\ dcValid' = dcValid /\ dcRejected' = dcRejected
  BY DEF DcRestore, DcFrame
<1>2. \/ /\ dcColumn + 1 < DcNumVars
         /\ dcColumn' = dcColumn + 1 /\ dcStage' = "move" /\ dcResult' = dcResult
      \/ /\ ~(dcColumn + 1 < DcNumVars)
         /\ dcStage' = "idle" /\ dcResult' = (IF dcValid THEN "okay" ELSE "invalid") /\ dcColumn' = dcColumn
  BY DEF DcRestore
<1>3. GoodColumns' = GoodColumns
  BY <1>1, SameColumns
<1>4. /\ dcColumn \in DcIndices /\ dcResult = "none" /\ dcValid \in BOOLEAN /\ dcRejected \subseteq DcIndices
      /\ \A j \in dcRejected : j <= dcColumn
      /\ dcValid <=> PassedColumns \ dcRejected \subseteq GoodColumns
  BY <1>1 DEF DcIInv, Walk, Judged
<1>5. Moved' /\ ProductsFresh' /\ EvaluationFresh' /\ FuncIsBack'
  BY <1>1, <1>2 DEF DcIInv, Moved, ProductsFresh, EvaluationFresh, FuncIsBack, Comparing
<1>6. CASE dcColumn + 1 < DcNumVars
  <2>1. dcColumn' = dcColumn + 1 /\ dcStage' = "move" /\ dcResult' = "none"
    BY <1>2, <1>4, <1>6
  <2>2. dcColumn' \in DcIndices /\ \A j \in dcRejected' : j < dcColumn'
    BY <1>1, <1>4, <1>6, <2>1, DcAssumption DEF DcIndices
  <2>3. Walk'
    BY <1>1, <1>4, <2>1, <2>2 DEF Walk, AtColumn
  <2>4. PassedColumns' = PassedColumns
    BY <1>1, <1>4, <2>1, Indices DEF PassedColumns
  <2>5. Judged' /\ Verdict'
    BY <1>1, <1>3, <1>4, <2>1, <2>4 DEF Judged, Verdict
  <2>6. QED
    BY <1>5, <2>3, <2>5 DEF DcIInv
<1>7. CASE ~(dcColumn + 1 < DcNumVars)
  <2>1. dcStage' = "idle" /\ dcResult' = (IF dcValid THEN "okay" ELSE "invalid")
    BY <1>2, <1>7
  <2>2. Walk'
    BY <1>1, <1>4, <2>1 DEF Walk, AtColumn, Comparing
  <2>3. PassedColumns = DcIndices
    BY <1>1, <1>4, <1>7, Indices, DcAssumption DEF PassedColumns
  <2>4. Judged' /\ Verdict'
    BY <1>1, <1>3, <1>4, <2>1, <2>3 DEF Judged, Verdict
  <2>5. QED
    BY <1>5, <2>2, <2>4 DEF DcIInv
<1>8. QED
  BY <1>6, <1>7

LEMMA FailStep ==
  ASSUME DcIInv, DcFail
  PROVE  DcIInv'
<1>1. /\ dcStage' = "idle" /\ dcResult' = "error"
      /\ dcCheck' = dcCheck /\ dcValid' = dcValid /\ dcRejected' = dcRejected
  BY DEF DcFail, DcFrame
<1>2. QED
  BY <1>1 DEF DcIInv, Walk, Moved, ProductsFresh, EvaluationFresh, Judged, Verdict, FuncIsBack, Comparing, AtColumn

LEMMA StutterStep ==
  ASSUME DcIInv, UNCHANGED dcVars
  PROVE  DcIInv'
<1>1. UNCHANGED <<dcMistakes, dcIterate, dcFlags>>
  BY DEF dcVars
<1>2. /\ ColumnShift' = ColumnShift /\ ColumnPoint' = ColumnPoint /\ ColumnCheck' = ColumnCheck
      /\ ColumnProducts' = ColumnProducts /\ GoodColumns' = GoodColumns
  BY <1>1, SameColumns
<1>3. PassedColumns' = PassedColumns
  BY DEF dcVars, PassedColumns
<1>4. QED
  BY <1>2, <1>3 DEF dcVars, DcIInv, Walk, Moved, ProductsFresh, EvaluationFresh, Judged, Verdict, FuncIsBack

\* What a comparison reads was written for its column, at every step.
THEOREM DerivCheckInvariance == DcSpec => []DcIInv
<1>1. DcInit => DcIInv
  BY InitInvariant
<1>2. DcIInv /\ [DcNext]_dcVars => DcIInv'
  BY PerformStep, MoveStep, ProductsStep, EvaluateStep, CompareStep, RestoreStep, FailStep, StutterStep DEF DcNext
<1>3. QED
  BY <1>1, <1>2, PTL DEF DcSpec

\* The verdict is that of comparisons made column by column with nothing
\* kept in between, and the function is back at the iterate.
THEOREM VerdictIsFreshHolds == DcSpec => [](VerdictIsFresh /\ FuncIsBack)
<1>1. DcIInv => VerdictIsFresh /\ FuncIsBack
  BY GoodColumnsAgree DEF DcIInv, Verdict, VerdictIsFresh
<1>2. QED
  BY <1>1, DerivCheckInvariance, PTL

\* Differences show the mistakes of a column, and nothing else: a property
\* of the function, the point and the tolerance.
Telling == \A j \in DcIndices : ColumnAgrees(j) <=> MistakesOf(j) = {}

\* Where differences can tell, the check finds exactly the mistakes its
\* flags are about, in columns the user did not refuse.
THEOREM DerivCheckSoundHolds == DcSpec => [](Telling => DerivCheckSound)
<1>1. VerdictIsFresh /\ FuncIsBack /\ DcIInv => (Telling => DerivCheckSound)
  <2>1. SUFFICES ASSUME VerdictIsFresh, FuncIsBack, DcIInv, Telling PROVE VerdictIsRight
    BY DEF DerivCheckSound
  <2>2. QED
    BY <2>1 DEF VerdictIsFresh, VerdictIsRight, Telling, DcIInv, Walk
<1>2. QED
  BY <1>1, DerivCheckInvariance, VerdictIsFreshHolds, PTL
-----------------------------------------------------------------------------
(* FunctionStack                                                           *)

\* The layers are a wrapper that scales, below one that fixes variables, or
\* parts of that; before they are created nothing is cached or evaluated.
Layered ==
  /\ fnType \in {"regular", "lsq", "dynamic"}
  /\ fnLayers \in {<<>>, <<"scaled">>, <<"fixed">>, <<"scaled", "fixed">>}
  /\ fnBound \in Nat
  /\ fnStage = "new" => fnX = FnNone /\ fnLast = FnNone

\* The inductive invariant of the function stack
FnIInv == Layered /\ FunctionsFresh

-----------------------------------------------------------------------------
(* Levels                                                                  *)

LEMMA LevelFacts ==
  ASSUME Layered
  PROVE  /\ TopLevel \in 0 .. 2 /\ Levels = 0 .. TopLevel /\ ~ScaledUpTo(0)
         /\ \A l \in 1 .. TopLevel :
              /\ l - 1 \in Levels /\ l \in Levels
              /\ ScaledUpTo(l) <=> (ScaledUpTo(l - 1) \/ fnLayers[l] = "scaled")
              /\ fnLayers[l] = "scaled" => ~ScaledUpTo(l - 1)
<1>1. CASE fnLayers = <<>>
  BY <1>1 DEF TopLevel, Levels, ScaledUpTo
<1>2. CASE fnLayers = <<"scaled">>
  BY <1>2 DEF TopLevel, Levels, ScaledUpTo
<1>3. CASE fnLayers = <<"fixed">>
  BY <1>3 DEF TopLevel, Levels, ScaledUpTo
<1>4. CASE fnLayers = <<"scaled", "fixed">>
  <2>1. TopLevel = 2 /\ Levels = 0 .. 2 /\ fnLayers[1] = "scaled" /\ fnLayers[2] = "fixed"
    BY <1>4 DEF TopLevel, Levels
  <2>2. ScaledUpTo(1) /\ ScaledUpTo(2) /\ ~ScaledUpTo(0)
    BY <2>1 DEF ScaledUpTo
  <2>3. \A l \in 1 .. 2 : l = 1 \/ l = 2
    OBVIOUS
  <2>4. QED
    BY <2>1, <2>2, <2>3
<1>5. QED
  BY <1>1, <1>2, <1>3, <1>4 DEF Layered

\* Each layer turns the fresh residuals or values of the level below into
\* its own.
LEMMA FreshFromBelow ==
  ASSUME Layered, NEW l \in 1 .. TopLevel, NEW error
  PROVE  /\ LayerResiduals(l, FreshResiduals(l - 1)) = FreshResiduals(l)
         /\ LayerValues(l, FreshValues(l - 1, error)) = FreshValues(l, error)
<1>1. /\ ScaledUpTo(l) <=> (ScaledUpTo(l - 1) \/ fnLayers[l] = "scaled")
      /\ fnLayers[l] = "scaled" => ~ScaledUpTo(l - 1)
  BY LevelFacts
<1>2. LayerResiduals(l, FreshResiduals(l - 1)) = FreshResiduals(l)
  BY <1>1 DEF LayerResiduals, FreshResiduals
<1>3. CASE fnLayers[l] = "scaled"
  BY <1>1, <1>2, <1>3 DEF LayerValues, FreshValues
<1>4. CASE fnLayers[l] # "scaled"
  BY <1>1, <1>2, <1>4 DEF LayerValues, FreshValues
<1>5. QED
  BY <1>3, <1>4

LEMMA FreshAtBottom ==
  ASSUME Layered, NEW error
  PROVE  FreshResiduals(0) = UserResiduals(fnPoint) /\ FreshValues(0, error) = DynamicValues(error)
BY LevelFacts DEF FreshResiduals, FreshValues

\* Fresh residuals and values are not mistaken for empty caches.
LEMMA FreshIsSomething ==
  ASSUME NEW l, NEW error
  PROVE  FreshResiduals(l) # FnNone /\ FreshValues(l, error) # FnNone
<1>1. DOMAIN FnNone = {}
  BY DEF FnNone
<1>2. 0 \in DOMAIN UserResiduals(fnPoint) /\ DOMAIN UserResiduals(fnPoint) = FnResiduals
  BY DEF UserResiduals, FnResiduals
<1>3. 0 \in DOMAIN FreshResiduals(l)
  BY <1>2 DEF FreshResiduals, ScaleResiduals
<1>4. "obj" \in DOMAIN FreshValues(l, error)
  BY DEF FreshValues, DynamicValues
<1>5. QED
  BY <1>1, <1>3, <1>4
-----------------------------------------------------------------------------
(* What is read through the caches                                         *)

\* What is read through fresh caches is fresh, at every level.
LEMMA ResidualsAtFresh ==
  ASSUME Layered, \A l \in Levels : fnCache[l] # FnNone => fnCache[l] = FreshResiduals(l)
  PROVE  \A l \in Levels : ResidualsAt[l] = FreshResiduals(l)
<1> DEFINE Read(at) ==
      [l \in Levels |-> IF fnCache[l] # FnNone THEN fnCache[l]
                        ELSE IF l = 0 THEN UserResiduals(fnPoint) ELSE LayerResiduals(l, at[l - 1])]
           fresh == [l \in Levels |-> FreshResiduals(l)]
<1>1. ResidualsAt = CHOOSE at : at = Read(at)
  BY DEF ResidualsAt, CachedAt
<1>2. fresh = Read(fresh)
  <2>1. ASSUME NEW l \in Levels PROVE fresh[l] = Read(fresh)[l]
    <3>1. l = 0 \/ (l \in 1 .. TopLevel /\ l - 1 \in Levels)
      BY <2>1, LevelFacts
    <3>2. l # 0 => LayerResiduals(l, fresh[l - 1]) = FreshResiduals(l)
      BY <3>1, FreshFromBelow
    <3>3. QED
      BY <3>1, <3>2, FreshAtBottom
  <2>2. QED
    BY <2>1
<1>3. ResidualsAt = Read(ResidualsAt)
  <2> HIDE DEF Read, fresh
  <2>1. \E at : at = Read(at)
    BY <1>2
  <2>2. QED
    BY <1>1, <2>1
<1>4. \A l \in Levels : ResidualsAt[l] =
        IF fnCache[l] # FnNone THEN fnCache[l]
        ELSE IF l = 0 THEN UserResiduals(fnPoint) ELSE LayerResiduals(l, ResidualsAt[l - 1])
  <2> DEFINE at == ResidualsAt
  <2>1. at = Read(at)
    BY <1>3
  <2> HIDE DEF at
  <2>2. \A l \in Levels : at[l] = Read(at)[l]
    BY <2>1
  <2>3. QED
    BY <2>2 DEF at
<1> HIDE DEF Read
<1>5. 0 \in Levels => ResidualsAt[0] = FreshResiduals(0)
  BY <1>4, FreshAtBottom
<1>6. ASSUME NEW l \in 1 .. TopLevel, ResidualsAt[l - 1] = FreshResiduals(l - 1)
      PROVE  ResidualsAt[l] = FreshResiduals(l)
  <2>1. l \in Levels /\ l # 0
    BY LevelFacts
  <2>2. LayerResiduals(l, ResidualsAt[l - 1]) = FreshResiduals(l)
    BY <1>6, FreshFromBelow
  <2>3. QED
    BY <1>4, <2>1, <2>2
<1>7. 1 \in Levels => ResidualsAt[1] = FreshResiduals(1)
  BY <1>5, <1>6, LevelFacts
<1>8. 2 \in Levels => ResidualsAt[2] = FreshResiduals(2)
  BY <1>6, <1>7, LevelFacts
<1>9. \A l \in Levels : l \in {0, 1, 2}
  BY LevelFacts
<1>10. QED
  BY <1>5, <1>7, <1>8, <1>9

LEMMA ValuesAtFresh ==
  ASSUME Layered, NEW error, \A l \in Levels : fnCache[l] # FnNone => fnCache[l] = FreshValues(l, error)
  PROVE  \A l \in Levels : ValuesAt(error)[l] = FreshValues(l, error)
<1> DEFINE Read(at) ==
      [l \in Levels |-> IF fnCache[l] # FnNone THEN fnCache[l]
                        ELSE IF l = 0 THEN DynamicValues(error) ELSE LayerValues(l, at[l - 1])]
           fresh == [l \in Levels |-> FreshValues(l, error)]
<1>1. ValuesAt(error) = CHOOSE at : at = Read(at)
  BY DEF ValuesAt, CachedAt
<1>2. fresh = Read(fresh)
  <2>1. ASSUME NEW l \in Levels PROVE fresh[l] = Read(fresh)[l]
    <3>1. l = 0 \/ (l \in 1 .. TopLevel /\ l - 1 \in Levels)
      BY <2>1, LevelFacts
    <3>2. l # 0 => LayerValues(l, fresh[l - 1]) = FreshValues(l, error)
      BY <3>1, FreshFromBelow
    <3>3. QED
      BY <3>1, <3>2, FreshAtBottom
  <2>2. QED
    BY <2>1
<1>3. ValuesAt(error) = Read(ValuesAt(error))
  <2> HIDE DEF Read, fresh
  <2>1. \E at : at = Read(at)
    BY <1>2
  <2>2. QED
    BY <1>1, <2>1
<1>4. \A l \in Levels : ValuesAt(error)[l] =
        IF fnCache[l] # FnNone THEN fnCache[l]
        ELSE IF l = 0 THEN DynamicValues(error) ELSE LayerValues(l, ValuesAt(error)[l - 1])
  <2> DEFINE at == ValuesAt(error)
  <2>1. at = Read(at)
    BY <1>3
  <2> HIDE DEF at
  <2>2. \A l \in Levels : at[l] = Read(at)[l]
    BY <2>1
  <2>3. QED
    BY <2>2 DEF at
<1> HIDE DEF Read
<1>5. 0 \in Levels => ValuesAt(error)[0] = FreshValues(0, error)
  BY <1>4, FreshAtBottom
<1>6. ASSUME NEW l \in 1 .. TopLevel, ValuesAt(error)[l - 1] = FreshValues(l - 1, error)
      PROVE  ValuesAt(error)[l] = FreshValues(l, error)
  <2>1. l \in Levels /\ l # 0
    BY LevelFacts
  <2>2. LayerValues(l, ValuesAt(error)[l - 1]) = FreshValues(l, error)
    BY <1>6, FreshFromBelow
  <2>3. QED
    BY <1>4, <2>1, <2>2
<1>7. 1 \in Levels => ValuesAt(error)[1] = FreshValues(1, error)
  BY <1>5, <1>6, LevelFacts
<1>8. 2 \in Levels => ValuesAt(error)[2] = FreshValues(2, error)
  BY <1>6, <1>7, LevelFacts
<1>9. \A l \in Levels : l \in {0, 1, 2}
  BY LevelFacts
<1>10. QED
  BY <1>5, <1>7, <1>8, <1>9

\* Where every level is cached, the caches are what is read.
LEMMA ValuesAtCached ==
  ASSUME NEW error, \A l \in Levels : fnCache[l] # FnNone
  PROVE  \A l \in Levels : ValuesAt(error)[l] = fnCache[l]
<1> DEFINE Read(at) ==
      [l \in Levels |-> IF fnCache[l] # FnNone THEN fnCache[l]
                        ELSE IF l = 0 THEN DynamicValues(error) ELSE LayerValues(l, at[l - 1])]
           cached == [l \in Levels |-> fnCache[l]]
<1>1. ValuesAt(error) = CHOOSE at : at = Read(at)
  BY DEF ValuesAt, CachedAt
<1>2. \A at : Read(at) = cached
  OBVIOUS
<1> HIDE DEF Read, cached
<1>3. \E at : at = Read(at)
  BY <1>2
<1>4. ValuesAt(error) = cached
  BY <1>1, <1>2, <1>3
<1>5. QED
  BY <1>4 DEF cached

\* The bound that is passed to the user changes the estimate only.
LEMMA FreshWithinBound ==
  ASSUME NEW l, NEW error, NEW other
  PROVE  /\ FreshValues(l, error).obj = FreshValues(l, other).obj
         /\ FreshValues(l, error).cons = FreshValues(l, other).cons
BY DEF FreshValues, DynamicValues
-----------------------------------------------------------------------------
(* What operations leave alone                                             *)

LEMMA FrameKeeps ==
  ASSUME FnFrame
  PROVE  /\ TopLevel' = TopLevel /\ Levels' = Levels
         /\ \A x : PointDown(x)' = PointDown(x)
<1>1. TopLevel' = TopLevel /\ Levels' = Levels
  BY DEF FnFrame, TopLevel, Levels
<1>2. \A x : PointDown(x)' = PointDown(x)
  BY DEF FnFrame, PointDown, Down, MergeFixed, FixedEntriesOf, FixedIndices, Scaled, Fixing
<1>3. QED
  BY <1>1, <1>2

LEMMA PointKeeps ==
  ASSUME FnFrame, UNCHANGED fnPoint
  PROVE  /\ \A l : FreshResiduals(l)' = FreshResiduals(l)
         /\ \A d : Adjoint(d)' = Adjoint(d)
         /\ UNCHANGED fnPrimal => \A c : StackedCons(c)' = StackedCons(c)
         /\ UNCHANGED fnBound => \A l, error : FreshValues(l, error)' = FreshValues(l, error)
<1>1. \A l : FreshResiduals(l)' = FreshResiduals(l)
  BY DEF FnFrame, FreshResiduals, ScaledUpTo
<1>2. \A d : Adjoint(d)' = Adjoint(d)
  BY DEF FnFrame, Adjoint, AdjointUp, AdjointDown, Up, Down, Same, RemoveFixed, FreeVec, FixedIndices,
         FreeIndices, Scaled, Fixing
<1>3. ASSUME UNCHANGED fnPrimal, NEW c PROVE StackedCons(c)' = StackedCons(c)
  BY <1>3 DEF FnFrame, StackedCons, LinearVal, FreeIndices
<1>4. ASSUME UNCHANGED fnBound, NEW l, NEW error PROVE FreshValues(l, error)' = FreshValues(l, error)
  <2>1. ScaledUpTo(l)' <=> ScaledUpTo(l)
    BY DEF FnFrame, ScaledUpTo
  <2>2. DynamicValues(error)' = DynamicValues(error)
    BY <1>4 DEF DynamicValues
  <2>3. fnScaling' = fnScaling
    BY DEF FnFrame
  <2>4. QED
    BY <2>1, <2>2, <2>3 DEF FreshValues
<1>5. QED
  BY <1>1, <1>2, <1>3, <1>4

LEMMA FrameLayered ==
  ASSUME Layered, Operate, FnFrame, fnBound' \in Nat
  PROVE  Layered'
BY DEF Layered, Operate, FnFrame
-----------------------------------------------------------------------------
(* The invariant                                                           *)

LEMMA InitFnIInv == FnInit => FnIInv
<1> SUFFICES ASSUME FnInit PROVE FnIInv
  OBVIOUS
<1>1. Layered
  BY DEF FnInit, Layered
<1>2. FunctionsFresh
  BY DEF FnInit, FunctionsFresh, CachesFresh, EvaluatesFresh
<1>3. QED
  BY <1>1, <1>2 DEF FnIInv

LEMMA CreateFnIInv == FnIInv /\ FnCreate => FnIInv'
<1> SUFFICES ASSUME FnIInv, FnCreate PROVE FnIInv'
  OBVIOUS
<1>1. fnX' = FnNone /\ fnLast' = FnNone
  BY DEF FnIInv, Layered, FnCreate
<1>2. fnLayers' \in {<<>>, <<"scaled">>, <<"fixed">>, <<"scaled", "fixed">>}
  BY DEF FnCreate, WithScaling, WithFixed
<1>3. Layered'
  BY <1>1, <1>2, FnAssumption DEF FnCreate, Layered
<1>4. \A l \in Levels' : fnCache'[l] = FnNone
  BY DEF FnCreate, Levels
<1>5. CachesFresh' /\ EvaluatesFresh'
  BY <1>1, <1>4, <1>3 DEF CachesFresh, EvaluatesFresh, Layered
<1>6. QED
  BY <1>3, <1>5 DEF FnIInv, FunctionsFresh

LEMMA SetValueFnIInv == FnIInv /\ FnSetValue => FnIInv'
<1> SUFFICES ASSUME FnIInv, FnSetValue PROVE FnIInv'
  OBVIOUS
<1>1. /\ Operate /\ FnFrame /\ fnBound' = fnBound /\ fnLast' = FnNone
      /\ fnType' = fnType /\ Levels' = Levels /\ \A x : PointDown(x)' = PointDown(x)
  BY FrameKeeps DEF FnSetValue, FnFrame
<1>2. Layered'
  BY <1>1, FrameLayered DEF FnIInv, Layered
<1>3. PICK x \in TopPoints :
        \/ /\ fnPoint' = [j \in FnVars |-> PointDown(x)[j] \div One] /\ fnX' = x
           /\ fnCache' = ResetCaches(TRUE)
        \/ fnPoint' = fnPoint /\ fnX' = FnNone /\ fnCache' = ResetCaches(FALSE)
  BY DEF FnSetValue
<1>4. fnType = "dynamic" => \A l \in Levels : fnCache'[l] = FnNone
  BY <1>3 DEF ResetCaches
<1>5. CASE fnX' = x /\ fnPoint' = [j \in FnVars |-> PointDown(x)[j] \div One] /\ fnCache' = ResetCaches(TRUE)
  <2>1. \A l \in Levels : fnCache'[l] = FnNone
    BY <1>5 DEF ResetCaches
  <2>2. CachesFresh'
    BY <1>1, <2>1 DEF CachesFresh
  <2>3. EvaluatesFresh'
    BY <1>1, <1>5 DEF EvaluatesFresh
  <2>4. QED
    BY <1>2, <2>2, <2>3 DEF FnIInv, FunctionsFresh
<1>6. CASE fnPoint' = fnPoint /\ fnX' = FnNone /\ fnCache' = ResetCaches(FALSE)
  <2>1. \A l \in Levels : fnCache'[l] # FnNone => fnCache'[l] = fnCache[l]
    BY <1>6 DEF ResetCaches
  <2>2. CachesFresh'
    BY <1>1, <1>4, <1>6, <2>1, PointKeeps DEF CachesFresh, FnIInv, FunctionsFresh
  <2>3. EvaluatesFresh'
    BY <1>1, <1>6 DEF EvaluatesFresh
  <2>4. QED
    BY <1>2, <2>2, <2>3 DEF FnIInv, FunctionsFresh
<1>7. QED
  BY <1>3, <1>5, <1>6

LEMMA SetErrorBoundFnIInv == FnIInv /\ FnSetErrorBound => FnIInv'
<1> SUFFICES ASSUME FnIInv, FnSetErrorBound PROVE FnIInv'
  OBVIOUS
<1>1. /\ Operate /\ FnFrame /\ fnBound' \in Nat /\ fnLast' = FnNone /\ fnX' = fnX /\ fnPoint' = fnPoint
      /\ Levels' = Levels /\ \A x : PointDown(x)' = PointDown(x)
      /\ \A l \in Levels : fnCache'[l] = FnNone
  BY FrameKeeps, FnAssumption DEF FnSetErrorBound
<1>2. Layered'
  BY <1>1, FrameLayered DEF FnIInv
<1>3. CachesFresh'
  BY <1>1 DEF CachesFresh
<1>4. EvaluatesFresh'
  BY <1>1 DEF EvaluatesFresh, FnIInv, FunctionsFresh
<1>5. QED
  BY <1>2, <1>3, <1>4 DEF FnIInv, FunctionsFresh

LEMMA EvalFnIInv == FnIInv /\ FnEval => FnIInv'
<1> SUFFICES ASSUME FnIInv, FnEval PROVE FnIInv'
  OBVIOUS
<1>1. /\ Operate /\ FnFrame /\ fnPoint' = fnPoint /\ fnPrimal' = fnPrimal /\ fnBound' = fnBound
      /\ fnType' = fnType /\ fnType \in {"regular", "lsq", "dynamic"} /\ fnBound \in Nat
  BY DEF FnEval, FnFrame, FnIInv, Layered
<1>2. Layered /\ Layered'
  BY <1>1, FrameLayered DEF FnIInv
<1>3. /\ TopLevel' = TopLevel /\ Levels' = Levels /\ TopLevel \in Levels /\ TopLevel \in 0 .. 2
      /\ \A x : PointDown(x)' = PointDown(x)
      /\ \A l : FreshResiduals(l)' = FreshResiduals(l)
      /\ \A d : Adjoint(d)' = Adjoint(d)
      /\ \A c : StackedCons(c)' = StackedCons(c)
      /\ \A l, error : FreshValues(l, error)' = FreshValues(l, error)
  <2>1. TopLevel \in 0 .. 2 /\ Levels = 0 .. TopLevel
    BY <1>2, LevelFacts
  <2>2. TopLevel \in Levels
    BY <2>1
  <2>3. QED
    BY <1>1, <2>1, <2>2, FrameKeeps, PointKeeps
<1>4. CachesFresh /\ EvaluatesFresh
  BY DEF FnIInv, FunctionsFresh
<1>5. fnX' \in {fnX, FnNone}
  BY DEF FnEval
<1>6. CASE fnType = "regular"
  <2>1. CachesFresh'
    BY <1>1, <1>6 DEF CachesFresh
  <2>2. EvaluatesFresh'
    BY <1>1, <1>3, <1>4, <1>5, <1>6 DEF EvaluatesFresh
  <2>3. QED
    BY <1>2, <2>1, <2>2 DEF FnIInv, FunctionsFresh
<1>7. CASE fnType = "lsq"
  <2>1. /\ fnCache' = FilledCaches(ResidualsAt)
        /\ fnLast'.obj = HalfNormSq(ResidualsAt[TopLevel]) /\ fnLast'.grad = Adjoint(ResidualsAt[TopLevel])
    BY <1>7 DEF FnEval
  <2>2. \A l \in Levels : ResidualsAt[l] = FreshResiduals(l)
    BY <1>2, <1>4, <1>7, ResidualsAtFresh DEF CachesFresh
  <2>3. \A l \in Levels : fnCache'[l] \in {fnCache[l], ResidualsAt[l]}
    BY <2>1 DEF FilledCaches
  <2>4. CachesFresh'
    BY <1>1, <1>3, <1>4, <1>7, <2>2, <2>3 DEF CachesFresh
  <2>5. EvaluatesFresh'
    BY <1>1, <1>3, <1>4, <1>5, <1>7, <2>1, <2>2 DEF EvaluatesFresh
  <2>6. QED
    BY <1>2, <2>4, <2>5 DEF FnIInv, FunctionsFresh
<1>8. CASE fnType = "dynamic"
  <2>1. PICK error \in {fnBound, fnBound + 1} :
          LET fresh == \A l \in Levels : fnCache[l] = FnNone
              values == ValuesAt(error)[TopLevel]
          IN \/ /\ fresh => error <= fnBound
                /\ fnLast'.obj = values.obj /\ fnLast'.cons = StackedCons(values.cons)
                /\ fnCache' = FilledCaches(ValuesAt(error))
             \/ fresh /\ fnLast' = FnNone /\ fnCache' = fnCache
    BY <1>8 DEF FnEval
  <2>2. CASE fnLast' = FnNone /\ fnCache' = fnCache
    <3>1. CachesFresh'
      BY <1>1, <1>3, <1>4, <1>8, <2>2 DEF CachesFresh
    <3>2. EvaluatesFresh'
      BY <1>1, <1>3, <1>4, <1>5, <2>2 DEF EvaluatesFresh
    <3>3. QED
      BY <1>2, <3>1, <3>2 DEF FnIInv, FunctionsFresh
  <2>3. ASSUME NEW known \in 0 .. fnBound,
               \A l \in Levels : ValuesAt(error)[l] = FreshValues(l, known) /\ fnCache'[l] = FreshValues(l, known),
               fnLast'.obj = ValuesAt(error)[TopLevel].obj,
               fnLast'.cons = StackedCons(ValuesAt(error)[TopLevel].cons)
        PROVE  FnIInv'
    <3>1. CachesFresh'
      BY <1>1, <1>3, <1>8, <2>3 DEF CachesFresh
    <3>2. /\ fnLast'.obj = FreshValues(TopLevel, fnBound).obj
          /\ fnLast'.cons = StackedCons(FreshValues(TopLevel, fnBound).cons)
      BY <1>3, <2>3, FreshWithinBound
    <3>3. EvaluatesFresh'
      BY <1>1, <1>3, <1>4, <1>5, <1>8, <3>2 DEF EvaluatesFresh
    <3>4. QED
      BY <1>2, <3>1, <3>3 DEF FnIInv, FunctionsFresh
  <2>4. CASE /\ \A l \in Levels : fnCache[l] = FnNone
             /\ error <= fnBound
             /\ fnLast'.obj = ValuesAt(error)[TopLevel].obj
             /\ fnLast'.cons = StackedCons(ValuesAt(error)[TopLevel].cons)
             /\ fnCache' = FilledCaches(ValuesAt(error))
    <3>1. error \in 0 .. fnBound
      BY <1>1, <2>1, <2>4
    <3>2. \A l \in Levels : ValuesAt(error)[l] = FreshValues(l, error)
      BY <1>2, <2>4, ValuesAtFresh
    <3>3. \A l \in Levels : \A m \in l .. TopLevel : m \in Levels
      BY <1>2, LevelFacts
    <3>4. \A l \in Levels : fnCache'[l] = ValuesAt(error)[l]
      BY <2>4, <3>3 DEF FilledCaches
    <3>5. QED
      BY <2>3, <2>4, <3>1, <3>2, <3>4
  <2>5. CASE /\ ~\A l \in Levels : fnCache[l] = FnNone
             /\ fnLast'.obj = ValuesAt(error)[TopLevel].obj
             /\ fnLast'.cons = StackedCons(ValuesAt(error)[TopLevel].cons)
             /\ fnCache' = FilledCaches(ValuesAt(error))
    <3>1. PICK known \in 0 .. fnBound : \A l \in Levels : fnCache[l] = FreshValues(l, known)
      BY <1>4, <1>8, <2>5 DEF CachesFresh
    <3>2. \A l \in Levels : fnCache[l] # FnNone
      BY <3>1, FreshIsSomething
    <3>3. \A l \in Levels : ValuesAt(error)[l] = FreshValues(l, known)
      BY <3>1, <3>2, ValuesAtCached
    <3>4. \A l \in Levels : l \in l .. TopLevel
      BY <1>2, LevelFacts
    <3>5. \A l \in Levels : fnCache'[l] = fnCache[l]
      BY <2>5, <3>2, <3>4 DEF FilledCaches
    <3>6. QED
      BY <2>3, <2>5, <3>1, <3>3, <3>5
  <2>6. QED
    BY <2>1, <2>2, <2>4, <2>5
<1>9. QED
  BY <1>1, <1>6, <1>7, <1>8

LEMMA HessProdFnIInv == FnIInv /\ FnHessProd => FnIInv'
<1> SUFFICES ASSUME FnIInv, FnHessProd PROVE FnIInv'
  OBVIOUS
<1>1. /\ Operate /\ FnFrame /\ fnPoint' = fnPoint /\ fnPrimal' = fnPrimal /\ fnBound' = fnBound
      /\ fnType' = fnType /\ fnX' = fnX /\ fnCache' = fnCache /\ fnLast'.op = "hess" /\ fnBound \in Nat
  BY DEF FnHessProd, FnFrame, FnIInv, Layered
<1>2. Layered'
  BY <1>1, FrameLayered DEF FnIInv
<1>3. CachesFresh'
  BY <1>1, FrameKeeps, PointKeeps DEF CachesFresh, FnIInv, FunctionsFresh
<1>4. EvaluatesFresh'
  BY <1>1, FrameKeeps DEF EvaluatesFresh, FnIInv, FunctionsFresh
<1>5. QED
  BY <1>2, <1>3, <1>4 DEF FnIInv, FunctionsFresh

LEMMA StutterFnIInv == FnIInv /\ UNCHANGED fnVars => FnIInv'
<1> SUFFICES ASSUME FnIInv, UNCHANGED fnVars PROVE FnIInv'
  OBVIOUS
<1>1. FnFrame /\ UNCHANGED <<fnPoint, fnX, fnPrimal, fnCache, fnBound, fnLast, fnType, fnStage, fnLayers>>
  BY DEF fnVars, FnFrame
<1>2. Layered'
  BY <1>1 DEF Layered, FnIInv
<1>3. CachesFresh'
  BY <1>1, FrameKeeps, PointKeeps DEF CachesFresh, FnIInv, FunctionsFresh
<1>4. EvaluatesFresh'
  BY <1>1, FrameKeeps, PointKeeps DEF EvaluatesFresh, FnIInv, FunctionsFresh
<1>5. QED
  BY <1>2, <1>3, <1>4 DEF FnIInv, FunctionsFresh

\* Caches of every level hold values of the point and bound that were set
\* last, under any sequence of points, refusals, bounds and evaluations
\* (lsq_func_set_value, dyn_func_set_value, dyn_func_eval).
THEOREM FunctionInvariance == FnSpec => []FnIInv
<1>1. FnIInv /\ [FnNext]_fnVars => FnIInv'
  BY CreateFnIInv, SetValueFnIInv, SetErrorBoundFnIInv, EvalFnIInv, HessProdFnIInv, StutterFnIInv DEF FnNext
<1>2. QED
  BY <1>1, InitFnIInv, PTL DEF FnSpec

\* What is evaluated through any layers is what functions without caches
\* would evaluate at the point, and under the bound, that were set last, for
\* any points, scalings, fixed variables and bounds (sleqp_problem_eval).
THEOREM FunctionsFreshHolds == FnSpec => []FunctionsFresh
<1>1. FnIInv => FunctionsFresh
  BY DEF FnIInv
<1>2. QED
  BY <1>1, FunctionInvariance, PTL
-----------------------------------------------------------------------------
(* Augmented Jacobians                                                     *)

Trivial == ajKind \in {"unconstrained", "box"}

\* The matrices are those of the iterate, filled into whatever buffers there
\* were before.
StandardSystem ==
  ajSet = ajIterate.ws /\ \E m : ajMatrix = FillStandard(m, ajIterate.jac, ajIterate.ws, ajLower)
ReducedSystem ==
  /\ ajSet = ajIterate.ws /\ ajRows = RowsOf(ajIterate.jac, ajIterate.ws)
  /\ \E m : ajMatrix = FillReduced(m, ajRows, SetSize(ajIterate.ws), ajLower)
DirectSystem ==
  /\ \E m : ajWorking = WorkingJac(m, ajIterate.jac, ajIterate.ws)
  /\ \E m : ajMatrix = MatTrans(ajWorking, m)
Filled ==
  /\ ajKind = "standard" => StandardSystem
  /\ ajKind = "reduced" => ReducedSystem
  /\ ajKind = "direct" => DirectSystem

Solves(fact, dense, size) ==
  fact = [size |-> size, dense |-> dense, det |-> Determinant(dense, size)] /\ Determinant(dense, size) # 0
Factorized ==
  /\ ajKind \in {"standard", "reduced"} => Solves(ajFact, Completed(ajMatrix, ajLower), ajMatrix.rows)
  /\ ajKind = "direct" => Solves(ajFact, NormalMatrix(ajMatrix), ajMatrix.cols)

\* The failed factorization of the working set at hand is taken up again:
\* constraints are linear and an earlier factorization had succeeded.
TakenUpAgain ==
  ajKind \in {"standard", "reduced"} /\ ajFixed /\ ajHas /\ ajSet = ajIterate.ws

\* The matrices behind an answer are those of the iterate given last, although
\* systems are reused, working sets are copied before the factorization is
\* tried, and failures leave has_factorization as it was.  Whether their
\* factorization succeeded is another matter: it did, and the answer is what
\* it computes, unless that of the same working set is taken up again after a
\* failure.  Then, and only then, the answer is worth nothing.
AnsweredFromCurrent ==
  ajLast # NoAnswer =>
    /\ Filled
    /\ \/ Trivial \/ Factorized
       \/ ajLast.answer = Undetermined /\ TakenUpAgain

AjIInv ==
  /\ ajOps \in Nat
  /\ ajHas \/ ajReady \/ ajFact # Broken \/ ajLast # NoAnswer => ajOps > 0
  /\ ajOps > 0 => Filled
  /\ ajFact # Broken => Factorized
  /\ ajReady => Trivial \/ Factorized \/ (BrokenReused /\ TakenUpAgain)
  /\ ajLast # NoAnswer => ajReady /\ (BrokenReused => ajLast.answer = Undetermined)
  /\ ajIterate = [jac |-> ajIterate.jac, ws |-> ajIterate.ws]
  /\ ajKind \in {"unconstrained", "box", "standard", "reduced", "direct"}

LEMMA AjInitHolds == AjInit => AjIInv
BY DEF AjInit, AjIInv

LEMMA FactorizeGives ==
  ASSUME NEW dense, NEW size, Factorize(dense, size)
  PROVE  ajReady' \/ ajFact' # Broken => Solves(ajFact', dense, size)
BY DEF Factorize, Solves

LEMMA Given ==
  ASSUME AjIInv, NEW it \in AjIterates, AjGiven(it)
  PROVE  /\ ajOps' \in Nat /\ ajOps' > 0 /\ ajIterate' = it /\ ajLast' = NoAnswer
         /\ it = [jac |-> it.jac, ws |-> it.ws]
         /\ ajFixed /\ ajOps > 0 => it.jac = ajIterate.jac
BY DEF AjIInv, AjGiven, AjOperate, AjIterates

LEMMA TrivialKeeps == AjIInv /\ SetIterateTrivial => AjIInv'
<1> SUFFICES ASSUME AjIInv, SetIterateTrivial PROVE AjIInv'
  OBVIOUS
<1>1. PICK it \in AjIterates : AjGiven(it)
  BY DEF SetIterateTrivial
<1>2. ajKind' = ajKind /\ ajKind \in {"unconstrained", "box"}
  BY DEF SetIterateTrivial
<1>3. Filled' /\ Factorized'
  BY <1>2 DEF Filled, Factorized
<1>4. QED
  BY <1>1, <1>2, <1>3, Given DEF AjIInv

\* The working set is the copied one and the Jacobian of linear constraints
\* the same, so that the iterate has not changed.
LEMMA ReusedKeeps == AjIInv /\ SetIterateReused => AjIInv'
<1> SUFFICES ASSUME AjIInv, SetIterateReused PROVE AjIInv'
  OBVIOUS
<1>1. PICK it \in AjIterates : Reusable(it.ws) /\ AjGiven(it)
  BY DEF SetIterateReused
<1>2. /\ ajKind' = ajKind /\ ajKind \in {"standard", "reduced"}
      /\ UNCHANGED <<ajLower, ajFixed, ajSet, ajHas, ajRows, ajWorking, ajMatrix, ajFact>>
  BY DEF SetIterateReused
<1>3. ajOps > 0 /\ Filled /\ ajFixed /\ it.ws = ajSet
  BY <1>1 DEF Reusable, AjIInv
<1>4. it.ws = ajIterate.ws /\ it.jac = ajIterate.jac
  BY <1>1, <1>2, <1>3, Given DEF Filled, StandardSystem, ReducedSystem
<1>5. ajIterate' = ajIterate
  BY <1>1, <1>4, Given DEF AjIInv
<1>6. Filled'
  BY <1>2, <1>3, <1>5 DEF Filled, StandardSystem, ReducedSystem
<1>7. ajFact' # Broken => Factorized'
  BY <1>2 DEF AjIInv, Factorized
<1>8. ajFact' = Broken => (BrokenReused /\ TakenUpAgain)'
  BY <1>1, <1>2, <1>3, <1>5, <1>4 DEF BrokenReused, TakenUpAgain, Reusable
<1>9. QED
  BY <1>1, <1>2, <1>6, <1>7, <1>8, Given DEF AjIInv

LEMMA StandardKeeps == AjIInv /\ SetIterateStandard => AjIInv'
<1> SUFFICES ASSUME AjIInv, SetIterateStandard PROVE AjIInv'
  OBVIOUS
<1>1. PICK it \in AjIterates :
        /\ AjGiven(it) /\ ajSet' = it.ws
        /\ ajMatrix' = FillStandard(ajMatrix, it.jac, it.ws, ajLower)
  BY DEF SetIterateStandard
<1>2. /\ ajKind' = ajKind /\ ajKind = "standard" /\ ajLower' = ajLower
      /\ Factorize(Completed(ajMatrix', ajLower), ajMatrix'.rows)
  BY DEF SetIterateStandard
<1>3. Filled'
  BY <1>1, <1>2, Given DEF Filled, StandardSystem
<1>4. ajReady' \/ ajFact' # Broken => Factorized'
  BY <1>2, FactorizeGives DEF Factorized
<1>5. QED
  BY <1>1, <1>2, <1>3, <1>4, Given DEF AjIInv

LEMMA ReducedKeeps == AjIInv /\ SetIterateReduced => AjIInv'
<1> SUFFICES ASSUME AjIInv, SetIterateReduced PROVE AjIInv'
  OBVIOUS
<1>1. PICK it \in AjIterates :
        /\ AjGiven(it) /\ ajSet' = it.ws /\ ajRows' = RowsOf(it.jac, it.ws)
        /\ ajMatrix' = FillReduced(ajMatrix, ajRows', SetSize(it.ws), ajLower)
  BY DEF SetIterateReduced
<1>2. /\ ajKind' = ajKind /\ ajKind = "reduced" /\ ajLower' = ajLower
      /\ Factorize(Completed(ajMatrix', ajLower), ajMatrix'.rows)
  BY DEF SetIterateReduced
<1>3. Filled'
  BY <1>1, <1>2, Given DEF Filled, ReducedSystem
<1>4. ajReady' \/ ajFact' # Broken => Factorized'
  BY <1>2, FactorizeGives DEF Factorized
<1>5. QED
  BY <1>1, <1>2, <1>3, <1>4, Given DEF AjIInv

LEMMA DirectKeeps == AjIInv /\ SetIterateDirect => AjIInv'
<1> SUFFICES ASSUME AjIInv, SetIterateDirect PROVE AjIInv'
  OBVIOUS
<1>1. PICK it \in AjIterates :
        /\ AjGiven(it)
        /\ ajWorking' = WorkingJac(ajWorking, it.jac, it.ws)
        /\ ajMatrix' = MatTrans(ajWorking', ajMatrix)
  BY DEF SetIterateDirect
<1>2. /\ ajKind' = ajKind /\ ajKind = "direct"
      /\ Factorize(NormalMatrix(ajMatrix'), ajMatrix'.cols)
  BY DEF SetIterateDirect
<1>3. Filled'
  BY <1>1, <1>2, Given DEF Filled, DirectSystem
<1>4. ajReady' \/ ajFact' # Broken => Factorized'
  BY <1>2, FactorizeGives DEF Factorized
<1>5. QED
  BY <1>1, <1>2, <1>3, <1>4, Given DEF AjIInv

LEMMA AskKeeps ==
  ASSUME AjIInv, Askable, NEW op, NEW rhs, NEW answer, AjAsk(op, rhs, answer)
  PROVE  AjIInv'
<1>1. /\ ajOps' = ajOps + 1 /\ ajOps > 0
      /\ UNCHANGED <<ajKind, ajLower, ajFixed, ajIterate, ajReady, ajSet, ajHas, ajRows, ajWorking, ajMatrix, ajFact>>
  BY DEF AjAsk, AjOperate, Askable, AjIInv
<1>2. /\ Filled' = Filled /\ Factorized' = Factorized /\ Trivial' = Trivial
      /\ BrokenReused' = BrokenReused /\ TakenUpAgain' = TakenUpAgain
  BY <1>1 DEF Filled, StandardSystem, ReducedSystem, DirectSystem, Factorized, Trivial,
    BrokenReused, TakenUpAgain
<1>3. BrokenReused => ajLast'.answer = Undetermined
  BY DEF AjAsk
<1>4. ajReady
  BY DEF Askable
<1>5. QED
  BY <1>1, <1>2, <1>3, <1>4 DEF AjIInv

LEMMA AjStutters == AjIInv /\ UNCHANGED ajVars => AjIInv'
<1> SUFFICES ASSUME AjIInv, UNCHANGED ajVars PROVE AjIInv'
  OBVIOUS
<1>1. UNCHANGED <<ajKind, ajLower, ajFixed, ajIterate, ajReady, ajSet, ajHas, ajRows, ajWorking, ajMatrix, ajFact, ajLast, ajOps>>
  BY DEF ajVars
<1>2. /\ Filled' = Filled /\ Factorized' = Factorized /\ Trivial' = Trivial
      /\ BrokenReused' = BrokenReused /\ TakenUpAgain' = TakenUpAgain
  BY <1>1 DEF Filled, StandardSystem, ReducedSystem, DirectSystem, Factorized, Trivial,
    BrokenReused, TakenUpAgain
<1>3. QED
  BY <1>1, <1>2 DEF AjIInv

\* The inductive invariant of the augmented Jacobians.
THEOREM AugJacInvariance == AjSpec => []AjIInv
<1>1. AjIInv /\ [AjNext]_ajVars => AjIInv'
  <2> SUFFICES ASSUME AjIInv, [AjNext]_ajVars PROVE AjIInv'
    OBVIOUS
  <2>1. CASE SetIterateTrivial \/ SetIterateReused \/ SetIterateStandard \/ SetIterateReduced \/ SetIterateDirect
    BY <2>1, TrivialKeeps, ReusedKeeps, StandardKeeps, ReducedKeeps, DirectKeeps
  <2>2. CASE SolveMinNorm
    <3>1. Askable /\ \E op, rhs, answer : AjAsk(op, rhs, answer)
      BY <2>2 DEF SolveMinNorm
    <3>2. QED
      BY <3>1, AskKeeps
  <2>3. CASE SolveLsq
    <3>1. Askable /\ \E op, rhs, answer : AjAsk(op, rhs, answer)
      BY <2>3 DEF SolveLsq
    <3>2. QED
      BY <3>1, AskKeeps
  <2>4. CASE ProjectNullspace
    <3>1. Askable /\ \E op, rhs, answer : AjAsk(op, rhs, answer)
      BY <2>4 DEF ProjectNullspace
    <3>2. QED
      BY <3>1, AskKeeps
  <2>5. CASE UNCHANGED ajVars
    BY <2>5, AjStutters
  <2>6. QED
    BY <2>1, <2>2, <2>3, <2>4, <2>5 DEF AjNext
<1>2. QED
  BY <1>1, AjInitHolds, PTL DEF AjSpec

\* Whatever was set, reused or failed before, an answer comes from the
\* matrices of the Jacobian and the working set given last, and from their
\* factorization, unless a factorization that failed is taken up again.
THEOREM AnsweredFromCurrentHolds == AjSpec => []AnsweredFromCurrent
<1>1. AjIInv => AnsweredFromCurrent
  BY DEF AjIInv, AnsweredFromCurrent
<1>2. QED
  BY <1>1, AugJacInvariance, PTL
=============================================================================
