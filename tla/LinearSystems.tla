---------------------------- MODULE LinearSystems ----------------------------
(***************************************************************************)
(* What the factorizations and linear program solvers behind the program's *)
(* interfaces compute: solutions of small dense systems.                   *)
(***************************************************************************)
LOCAL INSTANCE Integers
LOCAL INSTANCE Sequences
LOCAL INSTANCE FiniteSets
LOCAL INSTANCE FiniteSetsExt
LOCAL INSTANCE SequencesExt
LOCAL INSTANCE TLC

SumFor(S, f(_)) == FoldSet(LAMBDA i, s : s + f(i), 0, S)
Scalar(u, v) == SumFor(DOMAIN u, LAMBDA k : u[k] * v[k])

\* the determinant, expanded along the rows; minors of the last k rows are
\* kept by their columns
Determinant(a, size) ==
  LET cols == 0 .. size - 1
      sign(S, c) == IF Cardinality({d \in S : d < c}) % 2 = 0 THEN 1 ELSE -1
      minors(previous, k) ==
        FoldSet(LAMBDA S, done :
                  done @@ (S :> SumFor(S, LAMBDA c : sign(S, c) * a[<<size - k, c>>] * previous[S \ {c}])),
                <<>>, kSubset(k, cols))
  IN FoldLeft(minors, {} :> 1, [k \in 1 .. size |-> k])[cols]

\* Cramer's rule: numerators and their common denominator
CramerSolve(dense, size, det, rhs) ==
  LET replaced(k) == [rc \in DOMAIN dense |-> IF rc[2] = k THEN rhs[rc[1]] ELSE dense[rc]]
  IN [num |-> [k \in 0 .. size - 1 |-> Determinant(replaced(k), size)], den |-> det]
=============================================================================
