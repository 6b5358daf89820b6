--------------------------- MODULE MCPreprocessor ---------------------------
(* Problems of two variables and two rows over a few bounds; those whose   *)
(* first row is a difference have a general constraint in front of it.     *)
EXTENDS Preprocessor

Inf == 1000

Box(lb, ub) == [lb |-> lb, ub |-> ub]
Boxes == {Box(0, 1), Box(0, 0), Box(-1, Inf), Box(-Inf, 1)}

Row(c, lb, ub) == [coeffs |-> [j \in 0 .. 1 |-> c[j + 1]], lb |-> lb, ub |-> ub]

\* vacuous, implied, forcing, contradictory, and rows that imply bounds
FullRows == {Row(<<1, 1>>, -Inf, 0), Row(<<1, 1>>, -1, 2), Row(<<1, 1>>, 1, 1),
             Row(<<1, -1>>, -Inf, Inf), Row(<<1, -1>>, 1, Inf), Row(<<-1, -1>>, 0, 1)}
\* rows of one or no entry
ShortRows == {Row(<<-1, 0>>, -1, 0), Row(<<0, 1>>, 0, 0), Row(<<0, 1>>, 1, Inf),
              Row(<<0, 1>>, -1, 2), Row(<<1, 0>>, -Inf, 0), Row(<<0, 0>>, 0, 1),
              Row(<<0, 0>>, 1, Inf)}

\* rows that become bounds of the same variable
BoundRows == {Row(<<0, 1>>, 0, Inf), Row(<<0, 1>>, 1, Inf), Row(<<0, -1>>, -1, 1)}

MCRows == (FullRows \X (FullRows \cup ShortRows)) \cup (BoundRows \X BoundRows)

MCProblems ==
  {[varLb |-> [j \in 0 .. 1 |-> b[j + 1].lb],
    varUb |-> [j \in 0 .. 1 |-> b[j + 1].ub],
    rows |-> [i \in 0 .. 1 |-> r[i + 1]],
    general |-> IF r[1].coeffs[1] = -1 THEN <<[j \in 0 .. 1 |-> 1]>> ELSE <<>>] :
     b \in (Boxes \X {Box(-1, Inf)}) \cup {<<Box(0, 1), Box(0, 1)>>}, r \in MCRows}

MCGrid == -2 .. 2
MCMultipliers == {-1, 0, 1}
=============================================================================
