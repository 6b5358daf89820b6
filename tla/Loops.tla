-------------------------------- MODULE Loops --------------------------------
(***************************************************************************)
(* Loops over sequences, as recursive functions of the number of rounds.   *)
(***************************************************************************)
EXTENDS Integers, Sequences

\* the sum of the first n values of f
SumTo(n, f) ==
  LET sum[k \in 0 .. n] == IF k = 0 THEN 0 ELSE sum[k - 1] + f[k] IN sum[n]

\* what a loop over a sequence pushes if it passes over all positions but K
Picked(s, K) ==
  LET pushed[k \in 0 .. Len(s)] ==
        IF k = 0 THEN <<>> ELSE IF k \in K THEN Append(pushed[k - 1], s[k]) ELSE pushed[k - 1]
  IN pushed[Len(s)]
=============================================================================
