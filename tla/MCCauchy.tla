------------------------------- MODULE MCCauchy -------------------------------
(* Two variables, with two rows, bounds only, or none.                     *)
EXTENDS Cauchy

ClInf == 1000
MCClEntry(r, v) == [r |-> r, v |-> v]
MCClJac(m, first, second) ==
  MatPushEntries(MatPushCol(MatPushEntries(MatPushCol(CreateMat(m, 2, 4), 0), 0, first), 1), 1, second)
MCPoint(a, b) == (0 :> a) @@ (1 :> b)

\* x_0 + x_1 <= 2 and x_0 - x_1 = 0;  x_0 <= 2 and x_0 + x_1 >= 0
MCSum == [jac |-> MCClJac(2, <<MCClEntry(0, 1), MCClEntry(1, 1)>>, <<MCClEntry(0, 1), MCClEntry(1, -1)>>),
          lb |-> MCPoint(-ClInf, 0), ub |-> MCPoint(2, 0)]
MCTight == [jac |-> MCClJac(2, <<MCClEntry(0, 1), MCClEntry(1, 1)>>, <<MCClEntry(1, 1)>>),
            lb |-> MCPoint(-ClInf, 0), ub |-> MCPoint(2, ClInf)]
MCNone == [jac |-> CreateMat(0, 2, 0), lb |-> <<>>, ub |-> <<>>]

MCClWith(rows, bounds, x, grad) ==
  [jac |-> rows.jac, varLb |-> bounds.lb, varUb |-> bounds.ub, consLb |-> rows.lb, consUb |-> rows.ub,
   x |-> x, obj |-> 0, grad |-> grad,
   consVal |-> [i \in 0 .. rows.jac.rows - 1 |-> SumFor(0 .. 1, LAMBDA j : MatValueAt(rows.jac, i, j) * x[j])]]

MCBoxed == [lb |-> MCPoint(0, 0), ub |-> MCPoint(4, ClInf)]
MCFixed == [lb |-> MCPoint(2, -2), ub |-> MCPoint(2, 2)]
MCCorner == [lb |-> MCPoint(0, 0), ub |-> MCPoint(2, 4)]
MCFree == [lb |-> MCPoint(-ClInf, -ClInf), ub |-> MCPoint(ClInf, ClInf)]

MCClIterates ==
  {MCClWith(MCTight, MCCorner, MCPoint(2, 0), MCPoint(-6, 0))}
  \cup {MCClWith(MCSum, MCFixed, MCPoint(2, 0), MCPoint(-2, 2))}
  \cup {MCClWith(MCNone, b, MCPoint(2, 0), g) : b \in {MCBoxed, MCFixed, MCFree},
                                               g \in {MCPoint(-2, 2), MCPoint(0, 0), MCPoint(2, 0)}}
  \cup {MCClWith(MCNone, MCBoxed, MCPoint(2, 2), MCPoint(-2, 2))}
MCClRadii == {2, 6}
MCClPenalties == {4, 12}
=============================================================================
