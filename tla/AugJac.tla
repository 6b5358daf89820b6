-------------------------------- MODULE AugJac --------------------------------
(***************************************************************************)
(* The augmented Jacobians (aug_jac/): for an iterate and its working set  *)
(* they answer minimum-norm, least-squares and projection questions about  *)
(* the rows A_W of the working set.  The standard one factorizes           *)
(* [I A_W^T; A_W 0], the reduced one A_W A_W^T (the lower triangle, if the *)
(* factorization wants that), the direct one A_W^T itself; problems with   *)
(* bounds only or without any need no factorization.  The first two keep   *)
(* the factorization while the Jacobian cannot change and the working set  *)
(* does not.                                                               *)
(*                                                                         *)
(* Numbers are integers, solutions have a common denominator.              *)
(***************************************************************************)
EXTENDS SparseMat, LinearSystems, FiniteSets, FiniteSetsExt

CONSTANTS
  AjNumVars,
  AjJacobians,   \* sparse matrices with AjNumVars columns
  AjWorkingSets, \* sequences of working set members: j for variable j and
                 \* AjNumVars + i for constraint i, in ascending order
  AjRhs,         \* right-hand sides, functions on 0 .. AjNumVars - 1
  AjMaxOps       \* bound on the number of operations

ASSUME AjAssumption == AjNumVars \in Nat \ {0} /\ AjMaxOps \in Nat

VARIABLES
  ajKind,     \* the implementation, and whether its factorization takes lower triangles
  ajLower,
  ajFixed,    \* whether the problem has linear constraints only
  ajIterate,  \* the Jacobian and working set given last
  ajReady,    \* whether set_iterate succeeded for it
  ajSet,      \* the copied working set
  ajHas,      \* has_factorization
  ajRows,     \* the rows A_W of the reduced system
  ajWorking,  \* working_jac of the direct system
  ajMatrix,   \* the matrix of the system
  ajFact,     \* what is factorized: a dense matrix, or "broken"
  ajLast,     \* the last question and its answer
  ajOps

ajVars == <<ajKind, ajLower, ajFixed, ajIterate, ajReady, ajSet, ajHas, ajRows, ajWorking,
            ajMatrix, ajFact, ajLast, ajOps>>

AjVarIndices == 0 .. AjNumVars - 1
Broken == [size |-> -1]
NoAnswer == [op |-> "none"]
Undetermined == [den |-> 0]  \* whatever a factorization that failed makes of a question
-----------------------------------------------------------------------------
(* Working sets: active variables first, then active constraints           *)

SetSize(ws) == Len(ws)
ActiveVarsOf(ws) == {k \in DOMAIN ws : ws[k] < AjNumVars}
NumActiveVars(ws) == Cardinality(ActiveVarsOf(ws))
\* sleqp_working_set_var_index, sleqp_working_set_cons_index: -1 if inactive
IndexOf(ws, member) == SelectInSeq(ws, LAMBDA c : c = member) - 1
VarIndex(ws, j) == IndexOf(ws, j)
ConsIndex(ws, i) == IndexOf(ws, AjNumVars + i)
-----------------------------------------------------------------------------
(* Linear algebra behind the factorizations                                *)

\* sleqp_fact_solve and sleqp_fact_solution of a factorization that
\* succeeded, by Cramer's rule
FactSolve(fact, rhs) == CramerSolve(fact.dense, fact.size, fact.det, rhs)

\* a factorization that takes the lower triangle completes it
Completed(m, lower) ==
  LET d == MatDense(m)
  IN IF lower THEN [rc \in DOMAIN d |-> IF rc[1] >= rc[2] THEN d[rc] ELSE d[<<rc[2], rc[1]>>]] ELSE d
-----------------------------------------------------------------------------
(* standard_aug_jac.c                                                      *)

StandardRoom(jac, ws, lower) ==
  LET active == MatNnz(jac) + NumActiveVars(ws)
  IN AjNumVars + (IF lower THEN active ELSE 2 * active)

\* one column: the identity, the variable if it is active, and the entries
\* of active constraints
StandardColumn(jac, ws, c) ==
  LET active == SelectSeq(MatColumn(jac, c), LAMBDA e : ConsIndex(ws, e.r) # -1)
  IN <<[r |-> c, v |-> 1]>>
     \o (IF VarIndex(ws, c) # -1 THEN <<[r |-> AjNumVars + VarIndex(ws, c), v |-> 1]>> ELSE <<>>)
     \o [k \in DOMAIN active |-> [r |-> AjNumVars + ConsIndex(ws, active[k].r), v |-> active[k].v]]

\* add_upper: entries below the identity are counted by rows, and copied to
\* the columns behind it
AddUpper(m) ==
  LET below(t) == FlattenSeq([k \in 1 .. AjNumVars |->
                    LET column == SelectSeq(MatColumn(m, k - 1), LAMBDA e : e.r = t)
                    IN [l \in DOMAIN column |-> [r |-> k - 1, v |-> column[l].v]]])
  IN FoldLeft(LAMBDA t, c : MatPushEntries(MatPushCol(t, c), c, below(c)), m,
              [k \in 1 .. m.cols - AjNumVars |-> AjNumVars + k - 1])

FillStandard(buffer, jac, ws, lower) ==
  LET size == AjNumVars + SetSize(ws)
      start == MatResize(MatClear(MatReserve(buffer, StandardRoom(jac, ws, lower))), size, size)
      filled == FoldLeft(LAMBDA t, c : MatPushEntries(MatPushCol(t, c), c, StandardColumn(jac, ws, c)),
                         start, [k \in 1 .. AjNumVars |-> k - 1])
  IN IF lower
     THEN FoldLeft(LAMBDA t, c : MatPushCol(t, c), filled,
                   [k \in 1 .. SetSize(ws) |-> AjNumVars + k - 1])
     ELSE AddUpper(filled)

\* the right-hand side with zeros in front, or behind
ZerosBefore(b, size) ==
  [k \in 0 .. AjNumVars + size - 1 |-> IF k < AjNumVars THEN 0 ELSE b[k - AjNumVars]]
ZerosBehind(r, size) == [k \in 0 .. AjNumVars + size - 1 |-> IF k < AjNumVars THEN r[k] ELSE 0]
Slice(solution, first, last) ==
  [num |-> [k \in 0 .. last - first - 1 |-> solution.num[first + k]], den |-> solution.den]

StandardMinNorm(b, size) == Slice(FactSolve(ajFact, ZerosBefore(b, size)), 0, AjNumVars)
StandardLsq(r, size) == Slice(FactSolve(ajFact, ZerosBehind(r, size)), AjNumVars, AjNumVars + size)
StandardProject(r, size) == Slice(FactSolve(ajFact, ZerosBehind(r, size)), 0, AjNumVars)
-----------------------------------------------------------------------------
(* reduced_aug_jac.c                                                       *)

\* compute_row_counts_and_nnz, update_row_counts and fill_system: rows of
\* active variables, then those of constraints, filled column by column
RowsOf(jac, ws) ==
  LET entries(i) == FlattenSeq([k \in 1 .. AjNumVars |->
                      LET column == SelectSeq(MatColumn(jac, k - 1), LAMBDA e : e.r = i)
                      IN [l \in DOMAIN column |-> Entry(k - 1, column[l].v)]])
  IN [r \in 0 .. SetSize(ws) - 1 |->
        IF ws[r + 1] < AjNumVars THEN <<Entry(ws[r + 1], 1)>> ELSE entries(ws[r + 1] - AjNumVars)]

RowAsVec(row) == [dim |-> AjNumVars, nnzMax |-> Len(row), nz |-> row]
\* compute_inner_product
InnerRows(rows, r, c) == Dot(RowAsVec(rows[r]), RowAsVec(rows[c]))

\* reserve_more_and_push
PushGrowing(m, r, c, v) ==
  LET nnz == MatNnz(m)
  IN MatPush(IF nnz = m.nnzMax THEN MatReserve(m, Lesser(m.rows * m.cols, 2 * nnz + 1)) ELSE m, r, c, v)

\* compute_matrix_lower, compute_matrix_general: products that are zero are
\* stored as well
FillReduced(buffer, rows, size, lower) ==
  LET start == MatResize(MatClear(buffer), size, size)
      first(c) == IF lower THEN c ELSE 0
      fill(t, c) == FoldLeft(LAMBDA m, r : PushGrowing(m, r, c, InnerRows(rows, r, c)), MatPushCol(t, c),
                             [k \in 1 .. size - first(c) |-> first(c) + k - 1])
  IN FoldLeft(fill, start, [k \in 1 .. size |-> k - 1])

\* compute_product, compute_trans_product
RowsTimes(rows, r) ==
  [k \in DOMAIN rows |-> SumFor(DOMAIN rows[k], LAMBDA l : rows[k][l].v * r[rows[k][l].i])]
TransTimes(rows, y) ==
  [j \in AjVarIndices |-> SumFor(DOMAIN rows, LAMBDA k : ValueAt(RowAsVec(rows[k]), j) * y[k])]

ReducedMinNorm(b) ==
  LET y == FactSolve(ajFact, b) IN [num |-> TransTimes(ajRows, y.num), den |-> y.den]
ReducedLsq(r) == FactSolve(ajFact, RowsTimes(ajRows, r))
ReducedProject(r) ==
  LET y == FactSolve(ajFact, RowsTimes(ajRows, r))
      t == TransTimes(ajRows, y.num)
  IN [num |-> [j \in AjVarIndices |-> y.den * r[j] - t[j]], den |-> y.den]
-----------------------------------------------------------------------------
(* direct_aug_jac.c                                                        *)

\* update_dims and compute_working_jac.  Entries are moved up from the last
\* column on, to make room for the rows of active variables; the loop ends
\* with the first active variable, so that the entries of columns before it
\* keep the rows they had.
WorkingJac(buffer, jac, ws) ==
  LET numVars == NumActiveVars(ws)
      removed == SelectSeq([k \in 1 .. jac.rows |-> k - 1], LAMBDA i : ConsIndex(ws, i) = -1)
      kept == MatRemoveRows(jac, MatResize(buffer, jac.rows - Len(removed), AjNumVars), removed)
      moved(c) == IF c < ws[1] THEN MatColumn(kept, c)
                  ELSE (IF VarIndex(ws, c) # -1 THEN <<[r |-> VarIndex(ws, c), v |-> 1]>> ELSE <<>>)
                       \o [k \in DOMAIN MatColumn(kept, c) |->
                             [r |-> MatColumn(kept, c)[k].r + numVars, v |-> MatColumn(kept, c)[k].v]]
      sized == MatResize(MatReserve(kept, MatNnz(kept) + numVars), SetSize(ws), AjNumVars)
  IN IF numVars = 0 THEN kept
     ELSE FoldLeft(LAMBDA t, c : MatPushEntries(MatPushCol(t, c), c, moved(c)), MatClear(sized),
                   [k \in 1 .. AjNumVars |-> k - 1])

\* the QR factorization of a matrix with full column rank: solutions by the
\* normal equations
ColumnsAsRows(m) ==
  [c \in 0 .. m.cols - 1 |->
     [k \in DOMAIN MatColumn(m, c) |-> Entry(MatColumn(m, c)[k].r, MatColumn(m, c)[k].v)]]
NormalMatrix(m) ==
  [rc \in (0 .. m.cols - 1) \X (0 .. m.cols - 1) |-> InnerRows(ColumnsAsRows(m), rc[1], rc[2])]
DirectMinNorm(b) ==
  LET y == FactSolve(ajFact, b) IN [num |-> TransTimes(ColumnsAsRows(ajMatrix), y.num), den |-> y.den]
DirectLsq(r) == FactSolve(ajFact, RowsTimes(ColumnsAsRows(ajMatrix), r))
DirectProject(r) ==
  LET y == DirectLsq(r)
      t == TransTimes(ColumnsAsRows(ajMatrix), y.num)
  IN [num |-> [j \in AjVarIndices |-> y.den * r[j] - t[j]], den |-> y.den]
-----------------------------------------------------------------------------
(* box_constrained_aug_jac.c, unconstrained_aug_jac.c                      *)

BoxMinNorm(b, ws) ==
  [num |-> [j \in AjVarIndices |-> IF VarIndex(ws, j) # -1 THEN b[VarIndex(ws, j)] ELSE 0], den |-> 1]
BoxLsq(r, ws) == [num |-> [k \in 0 .. SetSize(ws) - 1 |-> r[ws[k + 1]]], den |-> 1]
BoxProject(r, ws) ==
  [num |-> [j \in AjVarIndices |-> IF VarIndex(ws, j) = -1 THEN r[j] ELSE 0], den |-> 1]

UnconstrainedMinNorm == [num |-> [j \in AjVarIndices |-> 0], den |-> 1]
UnconstrainedProject(r) == [num |-> r, den |-> 1]
-----------------------------------------------------------------------------
AjInit ==
  /\ ajKind \in {"unconstrained", "box", "standard", "reduced", "direct"}
  /\ ajLower \in {l \in BOOLEAN : l => ajKind \in {"standard", "reduced"}}
  /\ ajFixed \in BOOLEAN
  /\ ajIterate = [jac |-> CreateMat(0, AjNumVars, 0), ws |-> <<>>]
  /\ ajReady = FALSE /\ ajHas = FALSE
  /\ ajSet = <<>> /\ ajRows = <<>>
  /\ ajWorking = CreateMat(0, 0, 0) /\ ajMatrix = CreateMat(0, 0, 0)
  /\ ajFact = Broken
  /\ ajLast = NoAnswer /\ ajOps = 0

AjOperate == ajOps < AjMaxOps /\ ajOps' = ajOps + 1

\* Working sets of problems without constraints have no constraints; the
\* Jacobian of linear constraints does not change.
AjIterates ==
  {it \in [jac : AjJacobians, ws : AjWorkingSets] :
     /\ ajKind = "unconstrained" => it.ws = <<>>
     /\ ajKind = "box" => Cardinality(ActiveVarsOf(it.ws)) = Len(it.ws)
     /\ ajFixed /\ ajOps > 0 => it.jac = ajIterate.jac}

AjGiven(it) == AjOperate /\ ajIterate' = it /\ ajLast' = NoAnswer

\* Mutant: the working set alone decides
ReusableAlways(ws) == ajHas /\ ws = ajSet

Reusable(ws) == ajFixed /\ ajHas /\ ws = ajSet

\* sleqp_fact_set_matrix, sleqp_qr_set_matrix: an error, for singular
\* matrices or for reasons of its own, leaves no usable factorization.
Factorize(dense, size) ==
  LET det == Determinant(dense, size) IN
  \/ det # 0 /\ ajReady' = TRUE /\ ajFact' = [size |-> size, dense |-> dense, det |-> det]
  \/ ajReady' = FALSE /\ ajFact' = Broken

SetIterateTrivial ==
  /\ ajKind \in {"unconstrained", "box"}
  /\ \E it \in AjIterates : AjGiven(it)
  /\ ajReady' = TRUE
  /\ UNCHANGED <<ajKind, ajLower, ajFixed, ajSet, ajHas, ajRows, ajWorking, ajMatrix, ajFact>>

\* Linear constraints and the same working set: nothing is done, whatever
\* became of the factorization of this working set.
SetIterateReused ==
  /\ ajKind \in {"standard", "reduced"}
  /\ \E it \in AjIterates : Reusable(it.ws) /\ AjGiven(it)
  /\ ajReady' = TRUE
  /\ UNCHANGED <<ajKind, ajLower, ajFixed, ajSet, ajHas, ajRows, ajWorking, ajMatrix, ajFact>>

\* The working set is copied before the matrix is factorized, and only a
\* success changes has_factorization.
SetIterateStandard ==
  /\ ajKind = "standard"
  /\ \E it \in AjIterates :
       /\ ~Reusable(it.ws) /\ AjGiven(it)
       /\ ajSet' = it.ws
       /\ ajMatrix' = FillStandard(ajMatrix, it.jac, it.ws, ajLower)
  /\ Factorize(Completed(ajMatrix', ajLower), ajMatrix'.rows)
  /\ ajHas' = (ajHas \/ ajReady')
  /\ UNCHANGED <<ajKind, ajLower, ajFixed, ajRows, ajWorking>>

SetIterateReduced ==
  /\ ajKind = "reduced"
  /\ \E it \in AjIterates :
       /\ ~Reusable(it.ws) /\ AjGiven(it)
       /\ ajSet' = it.ws
       /\ ajRows' = RowsOf(it.jac, it.ws)
       /\ ajMatrix' = FillReduced(ajMatrix, ajRows', SetSize(it.ws), ajLower)
  /\ Factorize(Completed(ajMatrix', ajLower), ajMatrix'.rows)
  /\ ajHas' = (ajHas \/ ajReady')
  /\ UNCHANGED <<ajKind, ajLower, ajFixed, ajWorking>>

SetIterateDirect ==
  /\ ajKind = "direct"
  /\ \E it \in AjIterates :
       /\ AjGiven(it)
       /\ ajWorking' = WorkingJac(ajWorking, it.jac, it.ws)
       /\ ajMatrix' = MatTrans(ajWorking', ajMatrix)
  /\ Factorize(NormalMatrix(ajMatrix'), ajMatrix'.cols)
  /\ UNCHANGED <<ajKind, ajLower, ajFixed, ajSet, ajHas, ajRows>>

\* The factorization that set_iterate took up again had failed.
BrokenReused == ajKind \in {"standard", "reduced", "direct"} /\ ajFact = Broken

\* Questions are asked about an iterate that was set without an error.  No
\* factorization is checked: one that failed is asked like any other.
AjAsk(op, rhs, answer) ==
  /\ AjOperate
  /\ ajLast' = [op |-> op, rhs |-> rhs, answer |-> IF BrokenReused THEN Undetermined ELSE answer]
  /\ UNCHANGED <<ajKind, ajLower, ajFixed, ajIterate, ajReady, ajSet, ajHas, ajRows, ajWorking,
                 ajMatrix, ajFact>>
Askable == ajReady /\ ajLast = NoAnswer

SolveMinNorm ==
  /\ Askable
  /\ \E v \in AjRhs :
       LET ws == ajIterate.ws
           b == [k \in 0 .. SetSize(ws) - 1 |-> v[k]]
       IN AjAsk("min_norm", b,
            CASE ajKind = "standard" -> StandardMinNorm(b, SetSize(ws))
              [] ajKind = "reduced" -> ReducedMinNorm(b)
              [] ajKind = "direct" -> DirectMinNorm(b)
              [] ajKind = "box" -> BoxMinNorm(b, ws)
              [] ajKind = "unconstrained" -> UnconstrainedMinNorm)

SolveLsq ==
  /\ Askable
  /\ \E r \in AjRhs :
       LET ws == ajIterate.ws IN
       AjAsk("lsq", r,
            CASE ajKind = "standard" -> StandardLsq(r, SetSize(ws))
              [] ajKind = "reduced" -> ReducedLsq(r)
              [] ajKind = "direct" -> DirectLsq(r)
              [] OTHER -> BoxLsq(r, ws))

ProjectNullspace ==
  /\ Askable
  /\ \E r \in AjRhs :
       LET ws == ajIterate.ws IN
       AjAsk("project", r,
            CASE ajKind = "standard" -> StandardProject(r, SetSize(ws))
              [] ajKind = "reduced" -> ReducedProject(r)
              [] ajKind = "direct" -> DirectProject(r)
              [] ajKind = "box" -> BoxProject(r, ws)
              [] ajKind = "unconstrained" -> UnconstrainedProject(r))

AjNext == SetIterateTrivial \/ SetIterateReused \/ SetIterateStandard \/ SetIterateReduced
          \/ SetIterateDirect \/ SolveMinNorm \/ SolveLsq \/ ProjectNullspace

AjSpec == AjInit /\ [][AjNext]_ajVars
-----------------------------------------------------------------------------
(* Properties                                                              *)

\* A_W, from the iterate alone
ActiveRow(r) ==
  LET member == ajIterate.ws[r + 1]
  IN [j \in AjVarIndices |->
        IF member < AjNumVars THEN (IF member = j THEN 1 ELSE 0)
        ELSE MatDense(ajIterate.jac)[<<member - AjNumVars, j>>]]
ActiveRows == 0 .. SetSize(ajIterate.ws) - 1
NullGrid == {v \in [AjVarIndices -> -2 .. 2] : \A r \in ActiveRows : Scalar(ActiveRow(r), v) = 0}

\* What aug_jac.h promises: the solution of A_W x = b with minimum norm, the
\* x that minimizes |y - x^T A_W|, and the nearest x with A_W x = 0.
AnsweredAsDocumented ==
  ajLast # NoAnswer => ajLast.answer # Undetermined /\
    LET x == ajLast.answer.num
        d == ajLast.answer.den
        residual(j) == d * ajLast.rhs[j] - SumFor(ActiveRows, LAMBDA r : ActiveRow(r)[j] * x[r])
    IN CASE ajLast.op = "min_norm" ->
              /\ \A r \in ActiveRows : Scalar(ActiveRow(r), x) = d * ajLast.rhs[r]
              /\ \A v \in NullGrid : Scalar(v, x) = 0
         [] ajLast.op = "lsq" ->
              \A r \in ActiveRows : Scalar(ActiveRow(r), [j \in AjVarIndices |-> residual(j)]) = 0
         [] ajLast.op = "project" ->
              /\ \A r \in ActiveRows : Scalar(ActiveRow(r), x) = 0
              /\ \A v \in NullGrid : Scalar(v, [j \in AjVarIndices |-> d * ajLast.rhs[j] - x[j]]) = 0

\* columns before the first active variable have no entries of active
\* constraints that the direct system would leave where they are
NothingLeftUnmoved ==
  LET ws == ajIterate.ws IN
  NumActiveVars(ws) > 0 =>
    \A c \in 0 .. ws[1] - 1 : \A k \in DOMAIN MatColumn(ajIterate.jac, c) :
      ConsIndex(ws, MatColumn(ajIterate.jac, c)[k].r) = -1

\* Whatever was set before, the answers are those for the iterate that was
\* set last, and the matrices stay within their room.  Two things break that:
\* the rows the direct system leaves unmoved, and a factorization that failed
\* and is nevertheless taken up again.  The latter takes a problem with
\* linear constraints, an earlier factorization that succeeded, and a second
\* set_iterate for the working set whose factorization failed; every other
\* failure is an error or is forgotten with the next working set.
AugJacSound ==
  /\ BrokenReused /\ ajReady => ajKind # "direct" /\ ajFixed /\ ajHas /\ ajSet = ajIterate.ws
  /\ ~BrokenReused /\ (ajKind = "direct" => NothingLeftUnmoved) => AnsweredAsDocumented
  /\ MatNnz(ajMatrix) <= ajMatrix.nnzMax /\ MatNnz(ajWorking) <= ajWorking.nnzMax
  /\ ajKind # "direct" => MatValid(ajMatrix)
=============================================================================
