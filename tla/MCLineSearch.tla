---------------------------- MODULE MCLineSearch ----------------------------
(* Directions of the lengths one, two and four, two rows.                  *)
EXTENDS LineSearch

LsRow(jac, val, lb, ub) == [jac |-> jac, val |-> val, lb |-> lb, ub |-> ub]
MCLsRows ==
  {<<LsRow(1, 1, 0, 0), LsRow(0, 2, -1, 1)>>, <<LsRow(0, 2, -1, 1), LsRow(1, 1, 0, 0)>>,
   <<LsRow(1, -1, 0, 2), LsRow(-1, 0, -1, 0)>>, <<LsRow(2, 1, -2, 0), LsRow(1, -2, -1, 3)>>}

MCLsInstances ==
  {d \in [kind : {"cauchy", "approximate", "exact"}, obj : {1}, grad : {-2, 1}, hess : {-1, 0, 2},
          rows : MCLsRows, penalty : {1, 3}, radius : {1, 2}, lb : {-1}, ub : {2},
          cauchy : {-1, 1, 2}, newton : {-1, 0, 3}] :
     /\ d.kind = "cauchy" => d.newton = 0
     /\ d.kind # "cauchy" => d.radius = 2 /\ d.newton - d.cauchy \in {-4, -2, -1, 1, 2, 4}}
=============================================================================
