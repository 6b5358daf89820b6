----------------------------- MODULE SparseOps ------------------------------
(***************************************************************************)
(* Sequences of operations on one sparse vector and one sparse matrix,     *)
(* each kept beside a dense copy of what it should hold.  The result of an *)
(* operation replaces its first operand, so that capacities, explicit      *)
(* zeros and stale column pointers left by one operation meet the next.    *)
(***************************************************************************)
EXTENDS SparseMat, FiniteSets

CONSTANTS
  SpDim,        \* dimension of fresh vectors, and of both sides of matrices
  SpMaxDim,     \* bound on dimensions
  SpValues,     \* values that are pushed; zero may be one of them
  SpMaxValue,   \* bound on the values of results
  SpMaxOps      \* bound on the number of operations

ASSUME SpAssumption == SpDim \in Nat /\ SpMaxDim \in Nat /\ SpValues \subseteq Int

VARIABLES
  spVec, spDense,      \* the vector and what it should hold
  spMat, spMatDense,   \* the matrix and what it should hold
  spCol,               \* the column that is being filled, -1 before
  spOps                \* operations performed

spVars == <<spVec, spDense, spMat, spMatDense, spCol, spOps>>

ZeroDense(dim) == [i \in 0 .. dim - 1 |-> 0]
ZeroMatDense(rows, cols) == [rc \in (0 .. rows - 1) \X (0 .. cols - 1) |-> 0]

\* every valid vector of a dimension without explicit zeros, as an operand
Operands(dim) ==
  {SetFromRaw(CreateVec(0, 0), f, dim) : f \in [0 .. dim - 1 -> SpValues]}
EmptyTarget(dim) == CreateVec(dim, 0)
IndexLists(n) == {Picked(IndicesBelow(n), K) : K \in SUBSET (1 .. n)}

\* the indices that are not in a list
Kept(n, list) == Picked(IndicesBelow(n), {k \in 1 .. n : \A l \in DOMAIN list : list[l] # k - 1})

SpInit ==
  /\ spVec = CreateVec(SpDim, 0) /\ spDense = ZeroDense(SpDim)
  /\ spMat = CreateMat(SpDim, SpDim, 0) /\ spMatDense = ZeroMatDense(SpDim, SpDim)
  /\ spCol = -1
  /\ spOps = 0
-----------------------------------------------------------------------------
Bounded(x) == x.dim <= SpMaxDim /\ InfNorm(x) <= SpMaxValue

VecBecomes(x, dense) ==
  /\ Bounded(x)
  /\ spVec' = x /\ spDense' = dense
  /\ spOps' = spOps + 1
  /\ UNCHANGED <<spMat, spMatDense, spCol>>

MayOperate == spOps < SpMaxOps

\* entries are pushed in ascending order, into room that was reserved
PushEntry ==
  /\ spCol = -1 /\ MayOperate
  /\ \E i \in 0 .. spVec.dim - 1, v \in SpValues :
       /\ spVec.nz # <<>> => i > Last(spVec.nz).i
       /\ VecBecomes(Push(Reserve(spVec, NnzOf(spVec) + 1), i, v), [spDense EXCEPT ![i] = v])

ResizeVec ==
  /\ spCol = -1 /\ MayOperate
  /\ \E dim \in 0 .. SpMaxDim :
       VecBecomes(Resize(spVec, dim),
                  [i \in 0 .. dim - 1 |-> IF i < spVec.dim THEN spDense[i] ELSE 0])

ScaleOrFill ==
  /\ spCol = -1 /\ MayOperate
  /\ \E v \in SpValues \cup {0} :
       \/ VecBecomes(Scale(spVec, v), [i \in DOMAIN spDense |-> v * spDense[i]])
       \/ VecBecomes(Fill(spVec, v), [i \in DOMAIN spDense |-> v])

AddToVec ==
  /\ spCol = -1 /\ MayOperate
  /\ \E y \in Operands(spVec.dim), b \in {-1, 1} :
       VecBecomes(AddScaled(spVec, y, 1, b, EmptyTarget(0)),
                  [i \in DOMAIN spDense |-> spDense[i] + b * ValueAt(y, i)])

ConcatVec ==
  /\ spCol = -1 /\ MayOperate
  /\ \E y \in Operands(1) :
       VecBecomes(Concat(spVec, y, EmptyTarget(0)),
                  [i \in 0 .. spVec.dim |-> IF i < spVec.dim THEN spDense[i]
                                            ELSE ValueAt(y, i - spVec.dim)])

ClipVec ==
  /\ spCol = -1 /\ MayOperate
  /\ \E lb, ub \in Operands(spVec.dim) :
       /\ IsBoxed(lb, lb, ub)
       /\ VecBecomes(Clip(spVec, lb, ub, EmptyTarget(spVec.dim)),
                     [i \in DOMAIN spDense |->
                        Greater(Lesser(spDense[i], ValueAt(ub, i)), ValueAt(lb, i))])

RemoveFromVec ==
  /\ spCol = -1 /\ MayOperate
  /\ \E list \in IndexLists(spVec.dim) :
       VecBecomes(RemoveEntries(spVec, EmptyTarget(spVec.dim - Len(list)), list),
                  [i \in 0 .. spVec.dim - Len(list) - 1 |-> spDense[Kept(spVec.dim, list)[i + 1]]])

\* the two ways the preprocessor puts indices back
InsertIntoVec ==
  /\ spCol = -1 /\ MayOperate
  /\ \E dim \in spVec.dim .. SpMaxDim : \E list \in IndexLists(dim) : \E v \in SpValues :
       LET position(i) == CHOOSE k \in 0 .. spVec.dim - 1 :
                            Kept(dim, list)[k + 1] = i
           inserted(value) == [i \in 0 .. dim - 1 |->
                         IF \E k \in DOMAIN list : list[k] = i THEN value
                         ELSE spDense[position(i)]]
       IN /\ dim = spVec.dim + Len(list)
          /\ \/ VecBecomes(MergeEntries(spVec, EmptyTarget(dim),
                                        [k \in DOMAIN list |-> Entry(list[k], v)]), inserted(v))
             \/ VecBecomes(AddZeroEntries(spVec, EmptyTarget(dim), list), inserted(0))

VecOps == PushEntry \/ ResizeVec \/ ScaleOrFill \/ AddToVec \/ ConcatVec \/ ClipVec
            \/ RemoveFromVec \/ InsertIntoVec
-----------------------------------------------------------------------------
MatBecomes(m, dense, col) ==
  /\ m.rows <= SpMaxDim + 1 /\ m.cols <= SpMaxDim
  /\ spMat' = m /\ spMatDense' = dense /\ spCol' = col
  /\ UNCHANGED <<spVec, spDense>>

\* columns are opened one after the other and filled from above
OpenColumn ==
  /\ spOps = 0 /\ spCol < spMat.cols - 1
  /\ MatBecomes(MatPushCol(spMat, spCol + 1), spMatDense, spCol + 1)
  /\ UNCHANGED spOps

PushIntoColumn ==
  /\ spOps = 0 /\ spCol >= 0
  /\ \E r \in 0 .. spMat.rows - 1, v \in SpValues :
       LET column == MatColumn(spMat, spCol) IN
       /\ column # <<>> => r > Last(column).r
       /\ MatBecomes(MatPush(MatReserve(spMat, MatNnz(spMat) + 1), r, spCol, v),
                     [spMatDense EXCEPT ![<<r, spCol>>] = v], spCol)
  /\ UNCHANGED spOps

PushVecIntoColumn ==
  /\ spOps = 0 /\ spCol >= 0 /\ MatColumn(spMat, spCol) = <<>>
  /\ \E x \in Operands(spMat.rows) :
       MatBecomes(MatPushVec(MatReserve(spMat, MatNnz(spMat) + NnzOf(x)), spCol, x),
                  [rc \in DOMAIN spMatDense |->
                     IF rc[2] = spCol THEN ValueAt(x, rc[1]) ELSE spMatDense[rc]], spCol)
  /\ UNCHANGED spOps

PopColumn ==
  /\ spOps = 0 /\ spCol >= 0
  /\ MatBecomes(MatPopCol(spMat, spCol),
                [rc \in DOMAIN spMatDense |-> IF rc[2] = spCol THEN 0 ELSE spMatDense[rc]],
                spCol)
  /\ UNCHANGED spOps

Filled == spCol = spMat.cols - 1 /\ spCol >= 0 /\ MayOperate
MatOpDone == spOps' = spOps + 1

\* rows are only added: entries of rows that go would stay behind
ResizeMat ==
  /\ Filled
  /\ \E rows \in spMat.rows .. SpMaxDim, cols \in 1 .. SpMaxDim :
       MatBecomes(MatResize(spMat, rows, cols),
                  [rc \in (0 .. rows - 1) \X (0 .. cols - 1) |->
                     IF rc \in DOMAIN spMatDense THEN spMatDense[rc] ELSE 0], cols - 1)
  /\ MatOpDone

ScaleMat ==
  /\ Filled
  /\ \E v \in {-1, 0} :
       MatBecomes(MatScale(spMat, v), [rc \in DOMAIN spMatDense |-> v * spMatDense[rc]], spCol)
  /\ MatOpDone

StackMat ==
  /\ Filled
  /\ MatBecomes(MatVstack(spMat, spMat, CreateMat(0, 0, 0)),
                [rc \in (0 .. 2 * spMat.rows - 1) \X (0 .. spMat.cols - 1) |->
                   spMatDense[<<rc[1] % spMat.rows, rc[2]>>]], spCol)
  /\ MatOpDone

TransposeMat ==
  /\ Filled
  /\ MatBecomes(MatTrans(spMat, CreateMat(0, 0, 0)),
                [rc \in (0 .. spMat.cols - 1) \X (0 .. spMat.rows - 1) |->
                   spMatDense[<<rc[2], rc[1]>>]], spMat.rows - 1)
  /\ MatOpDone

RemoveFromMat ==
  /\ Filled
  /\ \E rows \in IndexLists(spMat.rows), cols \in IndexLists(spMat.cols) :
       LET r == spMat.rows - Len(rows)
           c == spMat.cols - Len(cols)
       IN /\ c > 0
          /\ MatBecomes(MatRemoveEntries(spMat, CreateMat(r, c, 0), cols, rows),
                [rc \in (0 .. r - 1) \X (0 .. c - 1) |->
                   spMatDense[<<Kept(spMat.rows, rows)[rc[1] + 1],
                                Kept(spMat.cols, cols)[rc[2] + 1]>>]], c - 1)
  /\ MatOpDone

CopyMat ==
  /\ Filled
  /\ MatBecomes(MatCopy(spMat, CreateMat(spMat.rows, spMat.cols, 0)), spMatDense, spCol)
  /\ MatOpDone

MatOps == OpenColumn \/ PushIntoColumn \/ PushVecIntoColumn \/ PopColumn \/ ResizeMat
            \/ ScaleMat \/ StackMat \/ TransposeMat \/ RemoveFromMat \/ CopyMat

SpNext == VecOps \/ MatOps

SpSpec == SpInit /\ [][SpNext]_spVars
-----------------------------------------------------------------------------
(* Properties                                                              *)

DenseSum(f(_), n) == SumTo(n, [k \in 1 .. n |-> f(k - 1)])

\* After any sequence of operations a vector is valid, has room for its
\* entries, and holds the values of its dense copy; products, comparisons
\* and norms computed by the merge loops are those of the dense values.
VecAgrees ==
  /\ ValidVec(spVec)
  /\ ToRaw(spVec) = spDense
  /\ OneNorm(spVec) = DenseSum(LAMBDA i : IF spDense[i] < 0 THEN -spDense[i] ELSE spDense[i], spVec.dim)
  /\ NormSq(spVec) = DenseSum(LAMBDA i : spDense[i] * spDense[i], spVec.dim)
  /\ \A y \in Operands(spVec.dim) :
       /\ Dot(spVec, y) = DenseSum(LAMBDA i : spDense[i] * ValueAt(y, i), spVec.dim)
       /\ EqVec(spVec, y) <=> ToRaw(y) = spDense
       /\ CopyVec(spVec, y) = [spVec EXCEPT !.nnzMax = Greater(y.nnzMax, NnzOf(spVec))]

\* A matrix whose columns are filled is valid and holds the values of its
\* dense copy; both products with a vector and a column agree with it, it
\* compares equal to itself, and nothing is above the diagonal of one that is
\* found to be lower triangular.
MatAgrees ==
  Filled =>
    /\ MatValid(spMat)
    /\ MatDense(spMat) = spMatDense
    /\ \A x \in Operands(spMat.cols) :
         MatMultVec(spMat, x) =
           [r \in 0 .. spMat.rows - 1 |->
              DenseSum(LAMBDA c : spMatDense[<<r, c>>] * ValueAt(x, c), spMat.cols)]
    /\ \A x \in Operands(spMat.rows) :
         LET y == MatMultVecTrans(spMat, x, EmptyTarget(spMat.cols)) IN
         /\ ValidVec(y)
         /\ ToRaw(y) = [c \in 0 .. spMat.cols - 1 |->
                DenseSum(LAMBDA r : spMatDense[<<r, c>>] * ValueAt(x, r), spMat.rows)]
    /\ \A c \in 0 .. spMat.cols - 1 :
         ToRaw(MatCol(spMat, c, EmptyTarget(spMat.rows))) =
           [r \in 0 .. spMat.rows - 1 |-> spMatDense[<<r, c>>]]
    /\ MatEq(spMat, spMat)
    /\ MatIsLower(spMat) => \A rc \in DOMAIN spMatDense : rc[1] < rc[2] => spMatDense[rc] = 0
=============================================================================
