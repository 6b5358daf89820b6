----------------------------- MODULE MCDerivCheck -----------------------------
(* Two variables, two rows.  First derivatives are large against the       *)
(* curvature, so that first differences are within the tolerance.          *)
EXTENDS DerivCheck

MCDcPair(a, b) == [j \in DcIndices |-> IF j = 0 THEN a ELSE b]
MCDcHess(a, b, c) == [jk \in DcIndices \X DcIndices |-> CASE jk = <<0, 0>> -> a [] jk = <<1, 1>> -> c [] OTHER -> b]
MCDcLinear == [row \in {DcObj} \cup DcCons |-> CASE row = DcObj -> MCDcPair(40, -50) [] row = 0 -> MCDcPair(60, 0) [] row = 1 -> MCDcPair(0, 30)]
MCDcHessians == [row \in {DcObj} \cup DcCons |-> CASE row = DcObj -> MCDcHess(2, 1, 0) [] row = 0 -> MCDcHess(-2, 0, 0) [] row = 1 -> MCDcHess(0, 0, 4)]

MCDcPoints == {MCDcPair(0, 1), MCDcPair(-2, 0)}
MCDcDuals == {[i \in DcCons |-> IF i = 0 THEN 0 ELSE 3]}
MCDcFlagSets == {{}, {"first_obj", "first_cons"}, {"second_simple"}, {"second_cons"},
                 {"first_obj", "first_cons", "second_simple", "second_obj", "second_cons"}}
MCDcMistakes == {{}} \cup {{[at |-> at, by |-> 30]} :
  at \in {<<1, DcObj, 0, 0>>, <<1, 1, 1, 1>>, <<2, DcObj, 1, 0>>, <<2, 0, 0, 1>>, <<2, 1, 1, 1>>}}
=============================================================================
