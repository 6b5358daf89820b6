------------------------------ MODULE MCSteihaug ------------------------------
(* Two variables, and three of which a row keeps two degrees of freedom;   *)
(* Hessians with positive, zero and negative curvature.                    *)
EXTENDS Steihaug, Sequences

MCStVec(u) == [j \in 0 .. Len(u) - 1 |-> Whole(u[j + 1])]
MCStMatrix(rows) == [jk \in (0 .. Len(rows) - 1) \X (0 .. Len(rows) - 1) |-> Whole(rows[jk[1] + 1][jk[2] + 1])]
MCStIdentity(n) == [jk \in (0 .. n - 1) \X (0 .. n - 1) |-> IF jk[1] = jk[2] THEN Whole(1) ELSE Nil]
\* null space of the row (1, 1, 0)
MCStAcross ==
  [jk \in (0 .. 2) \X (0 .. 2) |->
     CASE jk = <<2, 2>> -> Whole(1) [] jk[1] = 2 \/ jk[2] = 2 -> Nil
       [] jk[1] = jk[2] -> Fraction(1, 2) [] OTHER -> Fraction(-1, 2)]

MCStInstances ==
  {[dim |-> 2, hess |-> MCStMatrix(h), grad |-> MCStVec(g), projection |-> MCStIdentity(2), radius |-> r, maxIter |-> m] :
     h \in {<<<<2, 0>>, <<0, 1>>>>, <<<<2, 1>>, <<1, 1>>>>, <<<<1, 2>>, <<2, 1>>>>, <<<<1, 0>>, <<0, 0>>>>, <<<<-1, 0>>, <<0, 2>>>>, <<<<2, 1>>, <<1, 0>>>>},
     g \in {<<0, 0>>, <<1, 1>>, <<-2, 1>>}, r \in {1, 3}, m \in {NoLimit, 1}}
  \cup
  {[dim |-> 3, hess |-> MCStMatrix(h), grad |-> MCStVec(g), projection |-> MCStAcross, radius |-> r, maxIter |-> NoLimit] :
     h \in {<<<<2, 0, 1>>, <<0, 1, 0>>, <<1, 0, 3>>>>, <<<<1, 1, 0>>, <<1, -2, 0>>, <<0, 0, 1>>>>},
     g \in {<<1, 1, 0>>, <<2, 0, 1>>, <<0, -1, 1>>}, r \in {1, 2}}
=============================================================================
