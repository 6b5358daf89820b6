------------------------------- MODULE MCAugJac -------------------------------
(* Three variables, two constraints.                                       *)
EXTENDS AugJac

MCMat(cols) == FoldLeft(LAMBDA t, c : MatPushEntries(MatPushCol(t, c - 1), c - 1, cols[c]),
                        CreateMat(2, 3, 6), <<1, 2, 3>>)
Row0(v) == <<[r |-> 0, v |-> v]>>
Row1(v) == <<[r |-> 1, v |-> v]>>
MCAjJacobians == {MCMat(<<Row0(1), Row0(1) \o Row1(1), Row1(2)>>), MCMat(<<Row1(1), Row0(2), Row0(-1) \o Row1(1)>>)}
MCAjWorkingSets == {<<>>, <<1, 3>>, <<3, 4>>, <<0, 1, 4>>}
MCAjRhs == {[j \in 0 .. 2 |-> 2 - 3 * j]}
=============================================================================
