---------------------------- MODULE MCRestoration ----------------------------
(* Two variables, two rows: one bounded from below away from zero, one on  *)
(* both sides or an equation.                                              *)
EXTENDS Restoration

RtInf == 100
MCRtVec(a, b) == SetFromRaw(CreateVec(2, 0), (0 :> a) @@ (1 :> b), 2)
MCRtRows(a, b, c, d) == (0 :> ((0 :> a) @@ (1 :> b))) @@ (1 :> ((0 :> c) @@ (1 :> d)))

MCRtProblems ==
  {[varLb |-> MCRtVec(-2, 0), varUb |-> MCRtVec(2, RtInf),
    consLb |-> MCRtVec(1, b[1]), consUb |-> MCRtVec(RtInf, b[2]),
    coeff |-> MCRtRows(0, 2, 1, 0), square |-> (0 :> -1) @@ (1 :> 0),
    storesZeros |-> b[3], announces |-> b[3]] :
     b \in {<<0, 0, TRUE>>, <<-1, 1, FALSE>>}}

MCRtPoints == {[j \in 0 .. 3 |-> p[j + 1]] : p \in {<<0, 0, 1, 0>>, <<2, 1, 3, 0>>, <<-1, 0, 1, 0>>}}
=============================================================================
