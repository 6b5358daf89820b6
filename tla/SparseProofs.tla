----------------------------- MODULE SparseProofs -----------------------------
(***************************************************************************)
(* Sparse vectors: after any operations of SparseOps.tla, with operands of *)
(* any dimension and values, a vector is valid, its entries fit the room   *)
(* that was reserved before they were pushed, and it holds what a dense    *)
(* vector would.                                                           *)
(***************************************************************************)
EXTENDS SparseOps, FiniteSetTheorems, WellFoundedInduction, TLAPS

-----------------------------------------------------------------------------
(* Induction and recursion                                                 *)

LEMMA LeastNumber ==
  ASSUME NEW S \in SUBSET Nat, S # {}
  PROVE  \E n \in S : \A m \in S : n <= m
<1> DEFINE R == OpToRel(<, Nat)
<1>1. IsWellFoundedOn(R, Nat)
  BY NatLessThanWellFounded
<1>2. \A x, y \in Nat : x < y => <<x, y>> \in R
  BY DEF OpToRel
<1> HIDE DEF R
<1>3. PICK x \in S : \A y \in S : ~ (<<y, x>> \in R)
  BY <1>1, WFMin
<1>4. ASSUME NEW y \in S PROVE x <= y
  <2>1. x \in Nat /\ y \in Nat /\ ~(y < x)
    BY <1>2, <1>3
  <2>2. QED
    BY <2>1
<1>5. QED
  BY <1>3, <1>4

\* Induction, for a property given as a set
LEMMA Induction ==
  ASSUME NEW S, 0 \in S, \A n \in S \cap Nat : n + 1 \in S
  PROVE  \A n \in Nat : n \in S
<1> SUFFICES ASSUME Nat \ S # {} PROVE FALSE
  OBVIOUS
<1>1. PICK n \in Nat \ S : \A m \in Nat \ S : n <= m
  BY LeastNumber
<1>2. n - 1 \in Nat
  BY <1>1
<1>3. QED
  BY <1>1, <1>2

\* A function may be defined by recursion if the rank of the argument falls.
Falling(D, V, Final, rank, next, base, step) ==
  /\ Final \subseteq D /\ rank \in [D -> Nat] /\ next \in [D \ Final -> D]
  /\ base \in [Final -> V] /\ step \in [(D \ Final) \X V -> V]
  /\ \A c \in D \ Final : rank[next[c]] < rank[c]
Recursive(g, D, V, Final, next, base, step) ==
  /\ g \in [D -> V]
  /\ \A c \in D : g[c] = IF c \in Final THEN base[c] ELSE step[<<c, g[next[c]]>>]

LEMMA Recursion ==
  ASSUME NEW D, NEW V, NEW Final, NEW rank, NEW next, NEW base, NEW step,
         Falling(D, V, Final, rank, next, base, step)
  PROVE  \E g : Recursive(g, D, V, Final, next, base, step)
<1>0. /\ Final \subseteq D /\ rank \in [D -> Nat] /\ next \in [D \ Final -> D]
      /\ base \in [Final -> V] /\ step \in [(D \ Final) \X V -> V]
      /\ \A c \in D \ Final : rank[next[c]] < rank[c]
  BY DEF Falling
<1> USE <1>0
<1> DEFINE Ranked(n) == {c \in D : rank[c] < n}
           Works(g, n) == \A c \in Ranked(n) :
                            g[c] = IF c \in Final THEN base[c] ELSE step[<<c, g[next[c]]>>]
           Agree(n) == \A m \in Nat : \A g \in [Ranked(n) -> V], h \in [Ranked(m) -> V] :
                         n <= m /\ Works(g, n) /\ Works(h, m) => \A c \in Ranked(n) : g[c] = h[c]
           Upto == {n \in Nat : \E g \in [Ranked(n) -> V] : Works(g, n)}
           Unique == {n \in Nat : Agree(n)}
<1>1. 0 \in Unique /\ 0 \in Upto
  <2>1. Ranked(0) = {}
    OBVIOUS
  <2>2. [c \in {} |-> {}] \in [Ranked(0) -> V]
    BY <2>1
  <2>3. QED
    BY <2>1, <2>2
<1>2. ASSUME NEW n \in Nat, Agree(n) PROVE Agree(n + 1)
  <2> SUFFICES ASSUME NEW m \in Nat, NEW g \in [Ranked(n + 1) -> V], NEW h \in [Ranked(m) -> V],
                      n + 1 <= m, Works(g, n + 1), Works(h, m), NEW c \in Ranked(n + 1)
               PROVE  g[c] = h[c]
    <3> HIDE DEF Works, Ranked
    <3>1. QED
      OBVIOUS
  <2> DEFINE f == [d \in Ranked(n) |-> g[d]]
  <2>1. Ranked(n) \subseteq Ranked(n + 1) /\ Ranked(n + 1) \subseteq Ranked(m)
    OBVIOUS
  <2>2. f \in [Ranked(n) -> V]
    BY <2>1
  <2>3. \A d \in Ranked(n) : d \notin Final => next[d] \in Ranked(n)
    OBVIOUS
  <2>4. Works(f, n)
    BY <2>1, <2>3
  <2>5. \A d \in Ranked(n) : g[d] = h[d]
    <3>1. n <= m
      OBVIOUS
    <3>2. \A d \in Ranked(n) : f[d] = h[d]
      <4> HIDE DEF Works, Ranked, f
      <4>1. QED
        BY <2>2, <2>4, <1>2, <3>1
    <3>3. QED
      BY <3>2
  <2>6. c \notin Final => next[c] \in Ranked(n)
    OBVIOUS
  <2>7. QED
    BY <2>1, <2>5, <2>6
<1>3. \A n \in Nat : n \in Unique
  <2>1. \A n \in Unique \cap Nat : n + 1 \in Unique
    <3> HIDE DEF Agree
    <3>1. QED
      BY <1>2
  <2> HIDE DEF Unique
  <2>2. QED
    BY <1>1, <2>1, Induction
<1>4. ASSUME NEW n \in Upto \cap Nat PROVE n + 1 \in Upto
  <2>1. PICK g \in [Ranked(n) -> V] : Works(g, n)
    BY <1>4
  <2> DEFINE h == [c \in Ranked(n + 1) |-> IF c \in Final THEN base[c] ELSE step[<<c, g[next[c]]>>]]
  <2>2. \A c \in Ranked(n + 1) : c \notin Final => next[c] \in Ranked(n) /\ g[next[c]] \in V
    OBVIOUS
  <2>3. h \in [Ranked(n + 1) -> V]
    BY <2>2
  <2>4. \A c \in Ranked(n) : h[c] = g[c]
    BY <2>1
  <2>5. Works(h, n + 1)
    BY <2>2, <2>4
  <2>6. QED
    BY <2>3, <2>5, n + 1 \in Nat
<1>5. \A n \in Nat : \E g \in [Ranked(n) -> V] : Works(g, n)
  <2> HIDE DEF Upto
  <2>1. \A n \in Nat : n \in Upto
    BY <1>1, <1>4, Induction
  <2>2. QED
    BY <2>1 DEF Upto
<1> DEFINE Solution(n) == CHOOSE g \in [Ranked(n) -> V] : Works(g, n)
           whole == [c \in D |-> Solution(rank[c] + 1)[c]]
<1>6. \A n \in Nat : Solution(n) \in [Ranked(n) -> V] /\ Works(Solution(n), n)
  <2> HIDE DEF Works, Ranked
  <2>1. QED
    BY <1>5
<1>7. \A c \in D : rank[c] + 1 \in Nat /\ c \in Ranked(rank[c] + 1)
  OBVIOUS
<1>8. whole \in [D -> V]
  <2> HIDE DEF Ranked, Works, Solution
  <2>1. QED
    BY <1>6, <1>7
<1>12. ASSUME NEW n \in Nat, NEW m \in Nat, n <= m, NEW c \in Ranked(n)
       PROVE  Solution(n)[c] = Solution(m)[c]
  <2> HIDE DEF Ranked, Works, Solution
  <2>1. Agree(n)
    BY <1>3
  <2>2. QED
    BY <2>1, <1>6, <1>12
<1>9. ASSUME NEW c \in D, c \notin Final PROVE whole[next[c]] = Solution(rank[c] + 1)[next[c]]
  <2>1. next[c] \in D /\ rank[next[c]] + 1 \in Nat /\ rank[c] + 1 \in Nat
        /\ rank[next[c]] + 1 <= rank[c] + 1 /\ next[c] \in Ranked(rank[next[c]] + 1)
    BY <1>9
  <2>2. whole[next[c]] = Solution(rank[next[c]] + 1)[next[c]]
    BY <2>1
  <2> HIDE DEF Ranked, Works, Solution, whole
  <2>3. Solution(rank[next[c]] + 1)[next[c]] = Solution(rank[c] + 1)[next[c]]
    BY <2>1, <1>12
  <2>4. QED
    BY <2>2, <2>3
<1>10. ASSUME NEW c \in D
       PROVE  whole[c] = IF c \in Final THEN base[c] ELSE step[<<c, whole[next[c]]>>]
  <2> DEFINE s == Solution(rank[c] + 1)
  <2>1. s[c] = IF c \in Final THEN base[c] ELSE step[<<c, s[next[c]]>>]
    <3> HIDE DEF Ranked, Solution
    <3>1. QED
      BY <1>6, <1>7
  <2>2. whole[c] = s[c]
    OBVIOUS
  <2> HIDE DEF whole, s
  <2>3. c \notin Final => whole[next[c]] = s[next[c]]
    BY <1>9 DEF s
  <2>4. QED
    BY <2>1, <2>2, <2>3
<1>11. QED
  <2> HIDE DEF whole
  <2>1. QED
    BY <1>8, <1>10 DEF Recursive
-----------------------------------------------------------------------------
(* Loops                                                                   *)

LEMMA PickedSteps ==
  ASSUME NEW X, NEW s \in Seq(X), NEW K
  PROVE  \E g \in [0 .. Len(s) -> Seq(X)] :
           /\ g[0] = <<>> /\ Picked(s, K) = g[Len(s)]
           /\ \A k \in 1 .. Len(s) : g[k] = IF k \in K THEN Append(g[k - 1], s[k]) ELSE g[k - 1]
<1> DEFINE n == Len(s)
           D == 0 .. n
           Next(g) == [k \in 0 .. Len(s) |->
                         IF k = 0 THEN <<>> ELSE IF k \in K THEN Append(g[k - 1], s[k]) ELSE g[k - 1]]
           pushed == CHOOSE g : g = Next(g)
           rank == [k \in D |-> k]
           next == [k \in D \ {0} |-> k - 1]
           base == [k \in {0} |-> <<>>]
           step == [p \in (D \ {0}) \X Seq(X) |-> IF p[1] \in K THEN Append(p[2], s[p[1]]) ELSE p[2]]
<1>1. n \in Nat /\ \A k \in D \ {0} : k \in 1 .. n /\ s[k] \in X
  OBVIOUS
<1>2. rank \in [D -> Nat] /\ next \in [D \ {0} -> D] /\ {0} \subseteq D
      /\ \A k \in D \ {0} : rank[next[k]] < rank[k]
  BY <1>1
<1>3. base \in [{0} -> Seq(X)]
  OBVIOUS
<1>4. step \in [(D \ {0}) \X Seq(X) -> Seq(X)]
  BY <1>1
<1>5. \E g : Recursive(g, D, Seq(X), {0}, next, base, step)
  <2> HIDE DEF D, rank, next, base, step
  <2>1. Falling(D, Seq(X), {0}, rank, next, base, step)
    BY <1>2, <1>3, <1>4 DEF Falling
  <2>2. QED
    BY <2>1, Recursion
<1>6. PICK g \in [D -> Seq(X)] : \A k \in D :
        g[k] = IF k \in {0} THEN base[k] ELSE step[<<k, g[next[k]]>>]
  BY <1>5 DEF Recursive
<1>7. ASSUME NEW k \in D
      PROVE  g[k] = IF k = 0 THEN <<>> ELSE IF k \in K THEN Append(g[k - 1], s[k]) ELSE g[k - 1]
  <2>1. CASE k = 0
    BY <1>6, <2>1
  <2>2. CASE k # 0
    <3>1. next[k] = k - 1 /\ k - 1 \in D /\ g[k - 1] \in Seq(X)
      BY <2>2, <1>1
    <3>2. g[k] = step[<<k, g[k - 1]>>]
      BY <1>6, <2>2, <3>1
    <3>3. QED
      BY <2>2, <3>1, <3>2
  <2>3. QED
    BY <2>1, <2>2
<1>8. g = Next(g)
  BY <1>7
<1>9. pushed = Next(pushed)
  <2> HIDE DEF Next
  <2>1. QED
    BY <1>8
<1>10. Picked(s, K) = pushed[Len(s)]
  BY DEF Picked
<1> DEFINE P == {k \in Nat : k <= n => pushed[k] = g[k]}
<1>11. \A k \in D : pushed[k] = IF k = 0 THEN <<>> ELSE IF k \in K THEN Append(pushed[k - 1], s[k]) ELSE pushed[k - 1]
  <2> HIDE DEF pushed
  <2>1. \A k \in D : pushed[k] = Next(pushed)[k]
    BY <1>9
  <2>2. QED
    BY <2>1
<1> HIDE DEF pushed, Next
<1>12. 0 \in P
  BY <1>1, <1>7, <1>11
<1>13. ASSUME NEW k \in P \cap Nat PROVE k + 1 \in P
  <2> SUFFICES ASSUME k + 1 <= n PROVE pushed[k + 1] = g[k + 1]
    BY k \in Nat /\ k + 1 \in Nat
  <2>1. k \in Nat /\ k + 1 \in D /\ k + 1 # 0 /\ (k + 1) - 1 = k /\ pushed[k] = g[k]
    BY <1>1
  <2> HIDE DEF D, P
  <2>2. QED
    BY <2>1, <1>7, <1>11
<1>14. pushed[n] = g[n]
  <2> HIDE DEF P
  <2>1. n \in P
    BY <1>1, <1>12, <1>13, Induction
  <2>2. QED
    BY <2>1, <1>1 DEF P
<1>15. \A k \in 1 .. Len(s) : g[k] = IF k \in K THEN Append(g[k - 1], s[k]) ELSE g[k - 1]
  <2> HIDE DEF rank, next, base, step, P
  <2>1. \A k \in 1 .. Len(s) : k \in D /\ k # 0
    BY <1>1
  <2>2. QED
    BY <2>1, <1>7
<1>16. g[0] = <<>>
  BY <1>1, <1>7
<1>17. g \in [0 .. Len(s) -> Seq(X)]
  BY <1>6
<1> HIDE DEF D
<1>18. QED
  BY <1>10, <1>14, <1>15, <1>16, <1>17

\* f says where the elements of p are among the first k of s, in their order
Picks(p, s, K, k, f) ==
  /\ Len(p) <= k /\ f \in [1 .. Len(p) -> 1 .. k]
  /\ \A j \in 1 .. Len(p) : f[j] \in K /\ p[j] = s[f[j]]
  /\ \A i, j \in 1 .. Len(p) : i < j => f[i] < f[j]
  /\ \A l \in K \cap (1 .. k) : \E j \in 1 .. Len(p) : f[j] = l

LEMMA PickNext ==
  ASSUME NEW X, NEW s \in Seq(X), NEW K, NEW k \in Nat, k + 1 \in 1 .. Len(s), k + 1 \in K,
         NEW p \in Seq(X), NEW f, Picks(p, s, K, k, f)
  PROVE  Picks(Append(p, s[k + 1]), s, K, k + 1,
               [j \in 1 .. Len(p) + 1 |-> IF j = Len(p) + 1 THEN k + 1 ELSE f[j]])
<1> DEFINE n == Len(p)
           q == Append(p, s[k + 1])
           h == [j \in 1 .. n + 1 |-> IF j = n + 1 THEN k + 1 ELSE f[j]]
<1>1. n \in Nat /\ s[k + 1] \in X
  OBVIOUS
<1>2. Len(q) = n + 1 /\ q[n + 1] = s[k + 1] /\ \A j \in 1 .. n : q[j] = p[j]
  BY <1>1
<1> HIDE DEF q, n
<1>3. /\ n <= k /\ f \in [1 .. n -> 1 .. k]
      /\ \A j \in 1 .. n : f[j] \in K /\ p[j] = s[f[j]]
      /\ \A i, j \in 1 .. n : i < j => f[i] < f[j]
      /\ \A l \in K \cap (1 .. k) : \E j \in 1 .. n : f[j] = l
  BY DEF Picks, n
<1>4. h \in [1 .. n + 1 -> 1 .. k + 1]
  BY <1>1, <1>3
<1>5. h[n + 1] = k + 1 /\ \A j \in 1 .. n : h[j] = f[j] /\ f[j] \in 1 .. k
  BY <1>1, <1>3
<1> HIDE DEF h
<1>6. \A j \in 1 .. n + 1 : h[j] \in K /\ q[j] = s[h[j]]
  <2> TAKE j \in 1 .. n + 1
  <2>1. j = n + 1 \/ j \in 1 .. n
    BY <1>1
  <2>2. QED
    BY <2>1, <1>2, <1>3, <1>5
<1>7. \A i, j \in 1 .. n + 1 : i < j => h[i] < h[j]
  <2> TAKE i, j \in 1 .. n + 1
  <2>1. CASE j = n + 1
    BY <2>1, <1>1, <1>5
  <2>2. CASE j # n + 1
    <3>1. j \in 1 .. n
      BY <2>2, <1>1
    <3>2. i < j => i \in 1 .. n
      BY <3>1, <1>1
    <3>3. QED
      BY <3>1, <3>2, <1>3, <1>5
  <2>3. QED
    BY <2>1, <2>2
<1>8. \A l \in K \cap (1 .. k + 1) : \E j \in 1 .. n + 1 : h[j] = l
  <2> TAKE l \in K \cap (1 .. k + 1)
  <2>1. CASE l = k + 1
    BY <2>1, <1>1, <1>5
  <2>2. CASE l # k + 1
    <3>1. PICK j \in 1 .. n : f[j] = l
      BY <2>2, <1>3
    <3>2. j \in 1 .. n + 1 /\ h[j] = l
      BY <3>1, <1>1, <1>5
    <3>3. QED
      BY <3>2
  <2>3. QED
    BY <2>1, <2>2
<1>9. Picks(q, s, K, k + 1, h)
  BY <1>1, <1>2, <1>3, <1>4, <1>6, <1>7, <1>8 DEF Picks
<1>10. QED
  BY <1>9 DEF q, h, n

\* What is pushed are the elements at the positions that are not passed
\* over, in their order.
LEMMA PickedElements ==
  ASSUME NEW X, NEW s \in Seq(X), NEW K
  PROVE  Picked(s, K) \in Seq(X) /\ \E f : Picks(Picked(s, K), s, K, Len(s), f)
<1>1. PICK g \in [0 .. Len(s) -> Seq(X)] :
           /\ g[0] = <<>> /\ Picked(s, K) = g[Len(s)]
           /\ \A k \in 1 .. Len(s) : g[k] = IF k \in K THEN Append(g[k - 1], s[k]) ELSE g[k - 1]
  BY PickedSteps
<1> DEFINE P == {k \in Nat : k <= Len(s) => \E f : Picks(g[k], s, K, k, f)}
<1>2. Len(s) \in Nat
  OBVIOUS
<1>3. 0 \in P
  <2>1. Len(g[0]) = 0
    BY <1>1
  <2>2. Picks(g[0], s, K, 0, [j \in 1 .. 0 |-> j])
    BY <2>1 DEF Picks
  <2>3. QED
    BY <2>2
<1>4. ASSUME NEW k \in P \cap Nat PROVE k + 1 \in P
  <2> SUFFICES ASSUME k + 1 <= Len(s) PROVE \E f : Picks(g[k + 1], s, K, k + 1, f)
    OBVIOUS
  <2>1. k \in Nat /\ k \in 0 .. Len(s) /\ k + 1 \in 1 .. Len(s) /\ (k + 1) - 1 = k /\ k <= Len(s)
    BY <1>2
  <2>2. PICK f : Picks(g[k], s, K, k, f)
    BY <2>1
  <2> HIDE DEF P
  <2>3. g[k + 1] = IF k + 1 \in K THEN Append(g[k], s[k + 1]) ELSE g[k]
    BY <1>1, <2>1
  <2>4. g[k] \in Seq(X)
    BY <1>1, <2>1
  <2>5. CASE k + 1 \in K
    <3>1. \E h : Picks(Append(g[k], s[k + 1]), s, K, k + 1, h)
      BY <2>1, <2>2, <2>4, <2>5, PickNext
    <3>2. QED
      BY <2>3, <2>5, <3>1
  <2>6. CASE k + 1 \notin K
    <3>1. g[k + 1] = g[k]
      BY <2>3, <2>6
    <3>2. K \cap (1 .. k + 1) = K \cap (1 .. k) /\ 1 .. k \subseteq 1 .. k + 1
      BY <2>1, <2>6
    <3>3. Picks(g[k + 1], s, K, k + 1, f)
      BY <2>2, <3>1, <3>2 DEF Picks
    <3>4. QED
      BY <3>3
  <2>7. QED
    BY <2>5, <2>6
<1>5. Len(s) \in P
  <2> HIDE DEF P
  <2>1. QED
    BY <1>2, <1>3, <1>4, Induction
<1>6. QED
  BY <1>1, <1>2, <1>5
-----------------------------------------------------------------------------
(* Sorted entries                                                          *)

VecEntries == [i : Int, v : Int]
Sorted(q) == \A j, k \in DOMAIN q : j < k => q[j].i < q[k].i

\* The entries q are in ascending order and within the dimension, and have
\* the values of d; where there is none, d is zero.
Holds(q, dim, d) ==
  /\ q \in Seq(VecEntries) /\ Sorted(q)
  /\ \A k \in DOMAIN q : q[k].i \in 0 .. dim - 1 /\ q[k].v = d[q[k].i]
  /\ \A i \in 0 .. dim - 1 : d[i] # 0 => \E k \in DOMAIN q : q[k].i = i

Vectors == [dim : Nat, nnzMax : Nat, nz : Seq(VecEntries)]
DenseVectors(dim) == [0 .. dim - 1 -> Int]

\* Neighbours in order are enough.
LEMMA NeighboursSort ==
  ASSUME NEW q \in Seq(VecEntries), \A k \in 1 .. Len(q) - 1 : q[k].i < q[k + 1].i
  PROVE  Sorted(q)
<1>1. Len(q) \in Nat /\ DOMAIN q = 1 .. Len(q)
  OBVIOUS
<1>2. ASSUME NEW k \in 1 .. Len(q) PROVE q[k].i \in Int
  <2>1. q[k] \in VecEntries
    BY <1>1
  <2>2. QED
    BY <2>1 DEF VecEntries
<1> DEFINE P == {k \in Nat : k <= Len(q) => \A j \in 1 .. k - 1 : q[j].i < q[k].i}
<1>3. 0 \in P
  OBVIOUS
<1>4. ASSUME NEW k \in P \cap Nat PROVE k + 1 \in P
  <2> SUFFICES ASSUME k + 1 <= Len(q), NEW j \in 1 .. k PROVE q[j].i < q[k + 1].i
    BY k \in Nat /\ k + 1 \in Nat /\ (k + 1) - 1 = k
  <2>1. k \in Nat /\ k \in 1 .. Len(q) - 1 /\ k \in 1 .. Len(q) /\ k + 1 \in 1 .. Len(q) /\ j \in 1 .. Len(q)
    BY <1>1
  <2>2. q[k].i < q[k + 1].i
    BY <2>1
  <2>3. j # k => q[j].i < q[k].i
    BY <2>1
  <2>4. q[j].i \in Int /\ q[k].i \in Int /\ q[k + 1].i \in Int
    BY <2>1, <1>2
  <2>5. QED
    BY <2>2, <2>3, <2>4
<1>5. \A k \in 1 .. Len(q) : k \in P
  <2> HIDE DEF P
  <2>1. QED
    BY <1>1, <1>3, <1>4, Induction
<1>6. QED
  <2> SUFFICES ASSUME NEW j \in DOMAIN q, NEW k \in DOMAIN q, j < k PROVE q[j].i < q[k].i
    BY DEF Sorted
  <2>1. k \in P /\ k \in Nat /\ k <= Len(q) /\ j \in 1 .. k - 1
    BY <1>1, <1>5
  <2>2. QED
    BY <2>1

LEMMA ValidIsSorted ==
  ASSUME NEW x \in Vectors
  PROVE  ValidVec(x) <=> /\ Len(x.nz) <= x.nnzMax /\ Sorted(x.nz)
                         /\ \A k \in DOMAIN x.nz : x.nz[k].i \in 0 .. x.dim - 1
<1>1. x.nz \in Seq(VecEntries) /\ Len(x.nz) \in Nat /\ DOMAIN x.nz = 1 .. Len(x.nz)
  BY DEF Vectors
<1>2. (\A k \in 1 .. Len(x.nz) - 1 : x.nz[k].i < x.nz[k + 1].i) => Sorted(x.nz)
  BY <1>1, NeighboursSort
<1>3. Sorted(x.nz) => \A k \in 1 .. Len(x.nz) - 1 : x.nz[k].i < x.nz[k + 1].i
  BY <1>1 DEF Sorted
<1>4. QED
  BY <1>2, <1>3 DEF ValidVec, NnzOf

\* No index occurs twice.
LEMMA SortedOnce ==
  ASSUME NEW q \in Seq(VecEntries), Sorted(q), NEW j \in DOMAIN q, NEW k \in DOMAIN q, q[j].i = q[k].i
  PROVE  j = k
<1>1. j \in Int /\ k \in Int /\ q[j] \in VecEntries /\ q[j].i \in Int
  <2>1. j \in Int /\ k \in Int /\ q[j] \in VecEntries
    OBVIOUS
  <2>2. QED
    BY <2>1 DEF VecEntries
<1>2. ~(j < k) /\ ~(k < j)
  BY <1>1 DEF Sorted
<1>3. QED
  BY <1>1, <1>2

\* sleqp_vec_to_raw and sleqp_vec_at read the values.
LEMMA HoldsValues ==
  ASSUME NEW x, NEW dim \in Nat, x.dim = dim, NEW d \in DenseVectors(dim), Holds(x.nz, dim, d)
  PROVE  ToRaw(x) = d /\ \A i \in 0 .. dim - 1 : ValueAt(x, i) = d[i]
<1> DEFINE q == x.nz
           Where(i) == {k \in 1 .. Len(q) : q[k].i = i}
<1>1. q \in Seq(VecEntries) /\ Sorted(q) /\ DOMAIN q = 1 .. Len(q)
  BY DEF Holds
<1>2. ASSUME NEW i \in 0 .. dim - 1, NEW k \in DOMAIN q, q[k].i = i
      PROVE  Where(i) = {k} /\ q[k].v = d[i] /\ k # 0
  <2>1. \A j \in Where(i) : j = k
    BY <1>1, <1>2, SortedOnce
  <2>2. k \in Where(i) /\ k # 0
    BY <1>1, <1>2
  <2>3. q[k].v = d[i]
    BY <1>2 DEF Holds
  <2>4. QED
    BY <2>1, <2>2, <2>3
<1>3. ASSUME NEW i \in 0 .. dim - 1, \A k \in DOMAIN q : q[k].i # i
      PROVE  Where(i) = {} /\ d[i] = 0
  BY <1>1, <1>3 DEF Holds
<1>4. \A k \in Nat : Max({k}) = k /\ Min({k}) = k
  BY DEF Max, Min
<1> HIDE DEF Where
<1>5. ASSUME NEW i \in 0 .. dim - 1
      PROVE  (LET last == SelectLastInSeq(x.nz, LAMBDA e : e.i = i) IN IF last = 0 THEN 0 ELSE x.nz[last].v) = d[i]
  <2>1. SelectLastInSeq(x.nz, LAMBDA e : e.i = i) = IF Where(i) # {} THEN Max(Where(i)) ELSE 0
    BY DEF SelectLastInSeq, Where
  <2>2. CASE \E k \in DOMAIN q : q[k].i = i
    <3>1. PICK k \in DOMAIN q : q[k].i = i
      BY <2>2
    <3>2. k \in Nat /\ Max({k}) = k
      BY <1>1, <1>4
    <3>3. Where(i) = {k} /\ q[k].v = d[i] /\ k # 0
      BY <3>1, <1>2
    <3>4. SelectLastInSeq(x.nz, LAMBDA e : e.i = i) = k
      BY <2>1, <3>2, <3>3
    <3>5. QED
      BY <3>3, <3>4
  <2>3. CASE ~\E k \in DOMAIN q : q[k].i = i
    BY <2>1, <2>3, <1>3
  <2>4. QED
    BY <2>2, <2>3
<1>6. ToRaw(x) = [i \in 0 .. dim - 1 |-> d[i]]
  BY <1>5 DEF ToRaw
<1>7. ASSUME NEW i \in 0 .. dim - 1 PROVE ValueAt(x, i) = d[i]
  <2>1. SelectInSeq(x.nz, LAMBDA e : e.i = i) = IF Where(i) # {} THEN Min(Where(i)) ELSE 0
    BY DEF SelectInSeq, Where
  <2>2. CASE \E k \in DOMAIN q : q[k].i = i
    <3>1. PICK k \in DOMAIN q : q[k].i = i
      BY <2>2
    <3>2. k \in Nat /\ Min({k}) = k
      <4>1. k \in Nat
        BY <1>1
      <4>2. QED
        BY <4>1, <1>4
    <3>3. Where(i) = {k} /\ q[k].v = d[i]
      BY <3>1, <1>2
    <3>4. SelectInSeq(x.nz, LAMBDA e : e.i = i) = k
      BY <2>1, <3>2, <3>3
    <3>5. QED
      BY <2>2, <3>3, <3>4 DEF ValueAt, HasEntry
  <2>3. CASE ~\E k \in DOMAIN q : q[k].i = i
    BY <2>3, <1>3 DEF ValueAt, HasEntry
  <2>4. QED
    BY <2>2, <2>3
<1>8. QED
  BY <1>6, <1>7 DEF DenseVectors

\* Passing over zeros changes no value.
LEMMA NonZeroHolds ==
  ASSUME NEW q, NEW dim \in Nat, NEW d, Holds(q, dim, d)
  PROVE  /\ Holds(NonZero(q), dim, d) /\ Len(NonZero(q)) <= Len(q)
         /\ \A k \in DOMAIN NonZero(q) : NonZero(q)[k].v # 0
<1> DEFINE K == {k \in DOMAIN q : q[k].v # 0}
           p == NonZero(q)
<1>1. q \in Seq(VecEntries) /\ DOMAIN q = 1 .. Len(q) /\ Len(q) \in Nat
  BY DEF Holds
<1>2. p = Picked(q, K)
  BY DEF NonZero
<1> HIDE DEF p
<1>3. p \in Seq(VecEntries) /\ \E f : Picks(p, q, K, Len(q), f)
  <2> HIDE DEF K
  <2>1. QED
    BY <1>1, <1>2, PickedElements
<1>4. PICK f : Picks(p, q, K, Len(q), f)
  BY <1>3
<1>5. /\ DOMAIN p = 1 .. Len(p) /\ Len(p) \in Nat /\ f \in [1 .. Len(p) -> 1 .. Len(q)]
      /\ \A j \in 1 .. Len(p) : f[j] \in K /\ p[j] = q[f[j]]
      /\ \A i, j \in 1 .. Len(p) : i < j => f[i] < f[j]
      /\ \A l \in K \cap (1 .. Len(q)) : \E j \in 1 .. Len(p) : f[j] = l
  BY <1>3, <1>4 DEF Picks
<1>6. Sorted(p)
  <2> SUFFICES ASSUME NEW j \in 1 .. Len(p), NEW k \in 1 .. Len(p), j < k PROVE p[j].i < p[k].i
    BY <1>5 DEF Sorted
  <2>1. f[j] < f[k] /\ f[j] \in DOMAIN q /\ f[k] \in DOMAIN q /\ p[j] = q[f[j]] /\ p[k] = q[f[k]]
    BY <1>1, <1>5
  <2>2. QED
    BY <2>1 DEF Holds, Sorted
<1>7. \A k \in DOMAIN p : p[k].i \in 0 .. dim - 1 /\ p[k].v = d[p[k].i] /\ p[k].v # 0
  BY <1>1, <1>5 DEF Holds
<1>8. ASSUME NEW i \in 0 .. dim - 1, d[i] # 0 PROVE \E k \in DOMAIN p : p[k].i = i
  <2>1. PICK l \in DOMAIN q : q[l].i = i
    BY <1>8 DEF Holds
  <2>2. q[l].v = d[i]
    BY <2>1 DEF Holds
  <2>3. l \in K \cap (1 .. Len(q))
    BY <1>1, <1>8, <2>2
  <2>4. PICK j \in 1 .. Len(p) : f[j] = l
    BY <2>3, <1>5
  <2>5. p[j] = q[l] /\ j \in DOMAIN p
    BY <2>4, <1>5
  <2>6. QED
    BY <2>1, <2>5
<1>9. Len(p) <= Len(q)
  BY <1>4 DEF Picks
<1>10. QED
  BY <1>3, <1>6, <1>7, <1>8, <1>9 DEF Holds, p
-----------------------------------------------------------------------------
(* Traversing vectors together                                             *)

Ordered(x, dim) ==
  /\ x \in Vectors /\ x.dim = dim /\ Sorted(x.nz)
  /\ \A k \in DOMAIN x.nz : x.nz[k].i \in 0 .. dim - 1

\* what is left of the entries q at cursor a: v at index i, or zero
Sees(q, a, i, v) ==
  \/ \E p \in DOMAIN q : p >= a /\ q[p].i = i /\ q[p].v = v
  \/ v = 0 /\ \A p \in DOMAIN q : p >= a => q[p].i # i
Ahead(q, a, i) == \E p \in DOMAIN q : p >= a /\ q[p].i = i

\* One cursor: what was to be seen at the index is seen, and the rest after
LEMMA CursorStep ==
  ASSUME NEW dim \in Nat, NEW x, Ordered(x, dim), NEW a \in 1 .. Len(x.nz) + 1,
         NEW i \in Int, i <= IndexAt(x, a)
  PROVE  /\ Advance(x, a, i) \in 1 .. Len(x.nz) + 1 /\ Advance(x, a, i) >= a
         /\ Advance(x, a, i) = IF At(x, a, i) THEN a + 1 ELSE a
         /\ Sees(x.nz, a, i, ValueOr0(x, a, i)) /\ ValueOr0(x, a, i) \in Int
         /\ \A j \in Int : \A v : j > i /\ Sees(x.nz, Advance(x, a, i), j, v) => Sees(x.nz, a, j, v)
         /\ \A p \in DOMAIN x.nz : p >= Advance(x, a, i) => x.nz[p].i > i
         /\ \A p \in DOMAIN x.nz : p >= a => p >= Advance(x, a, i) \/ x.nz[p].i = i
<1> DEFINE q == x.nz
           b == Advance(x, a, i)
<1>1. q \in Seq(VecEntries) /\ Len(q) \in Nat /\ DOMAIN q = 1 .. Len(q) /\ NnzOf(x) = Len(q)
  BY DEF Ordered, Vectors, NnzOf
<1>2. ASSUME NEW p \in DOMAIN q PROVE q[p].i \in Int /\ q[p].v \in Int /\ p \in Int
  <2>1. q[p] \in VecEntries /\ p \in Int
    BY <1>1
  <2>2. QED
    BY <2>1 DEF VecEntries
<1>3. \A j, k \in DOMAIN q : j < k => q[j].i < q[k].i
  BY DEF Ordered, Sorted
<1>4. a \in 1 .. Len(q) + 1 /\ (At(x, a, i) <=> a <= Len(q) /\ q[a].i = i)
      /\ (a <= Len(q) => i <= q[a].i)
  BY <1>1 DEF At, IndexAt
<1>5. b = IF At(x, a, i) THEN a + 1 ELSE a
  BY DEF Advance
<1>6. ValueOr0(x, a, i) = IF At(x, a, i) THEN q[a].v ELSE 0
  BY DEF ValueOr0
<1> HIDE DEF b, q
<1>7. b \in 1 .. Len(q) + 1 /\ b >= a /\ ValueOr0(x, a, i) \in Int
  BY <1>1, <1>2, <1>4, <1>5, <1>6
<1>8. \A p \in DOMAIN q : p >= b => q[p].i > i
  <2> SUFFICES ASSUME NEW p \in DOMAIN q, p >= b PROVE q[p].i > i
    OBVIOUS
  <2>1. p \in Int /\ a \in DOMAIN q /\ q[p].i \in Int /\ q[a].i \in Int /\ p >= a /\ i <= q[a].i
    BY <1>1, <1>2, <1>4, <1>7
  <2>2. p # a => q[a].i < q[p].i
    BY <2>1, <1>3
  <2>3. p = a => q[a].i # i
    BY <1>1, <1>4, <1>5, <2>1
  <2>4. QED
    BY <2>1, <2>2, <2>3
<1>9. \A p \in DOMAIN q : p >= a => p >= b \/ q[p].i = i
  BY <1>1, <1>2, <1>4, <1>5
<1>10. Sees(q, a, i, ValueOr0(x, a, i))
  <2>1. CASE At(x, a, i)
    <3>1. a \in DOMAIN q /\ a >= a /\ q[a].i = i /\ q[a].v = ValueOr0(x, a, i)
      BY <2>1, <1>1, <1>4, <1>6
    <3>2. QED
      BY <3>1 DEF Sees
  <2>2. CASE ~At(x, a, i)
    <3>1. \A p \in DOMAIN q : p >= a => q[p].i # i
      BY <2>2, <1>2, <1>5, <1>8
    <3>2. QED
      BY <2>2, <3>1, <1>6 DEF Sees
  <2>3. QED
    BY <2>1, <2>2
<1>11. ASSUME NEW j \in Int, NEW v, j > i, Sees(q, b, j, v) PROVE Sees(q, a, j, v)
  <2>1. \A p \in DOMAIN q : p >= b => p >= a
    BY <1>2, <1>7
  <2>2. \A p \in DOMAIN q : p >= a /\ q[p].i = j => p >= b
    BY <1>9, <1>11
  <2>3. QED
    BY <1>11, <2>1, <2>2 DEF Sees
<1>12. QED
  BY <1>5, <1>7, <1>8, <1>9, <1>10, <1>11 DEF b, q

JointEntries == [i : Int, x : Int, y : Int, z : Int]

\* J is what the cursors c still come upon
Joins(J, x, y, z, c) ==
  /\ J \in Seq(JointEntries) /\ Sorted(J)
  /\ \A k \in DOMAIN J :
       /\ Sees(x.nz, c[1], J[k].i, J[k].x) /\ Sees(y.nz, c[2], J[k].i, J[k].y)
       /\ Sees(z.nz, c[3], J[k].i, J[k].z)
       /\ Ahead(x.nz, c[1], J[k].i) \/ Ahead(y.nz, c[2], J[k].i) \/ Ahead(z.nz, c[3], J[k].i)
  /\ \A i \in Int : Ahead(x.nz, c[1], i) \/ Ahead(y.nz, c[2], i) \/ Ahead(z.nz, c[3], i) =>
       \E k \in DOMAIN J : J[k].i = i

CursorsOf(x, y, z) == (1 .. NnzOf(x) + 1) \X (1 .. NnzOf(y) + 1) \X (1 .. NnzOf(z) + 1)
AllPast(x, y, z, c) == c[1] > NnzOf(x) /\ c[2] > NnzOf(y) /\ c[3] > NnzOf(z)
Least(x, y, z, c) == Lesser(IndexAt(x, c[1]), Lesser(IndexAt(y, c[2]), IndexAt(z, c[3])))
Seen(x, y, z, c) ==
  [i |-> Least(x, y, z, c), x |-> ValueOr0(x, c[1], Least(x, y, z, c)),
   y |-> ValueOr0(y, c[2], Least(x, y, z, c)), z |-> ValueOr0(z, c[3], Least(x, y, z, c))]
Advanced(x, y, z, c) ==
  <<Advance(x, c[1], Least(x, y, z, c)), Advance(y, c[2], Least(x, y, z, c)), Advance(z, c[3], Least(x, y, z, c))>>
AllOrdered(x, y, z, dim) == Ordered(x, dim) /\ Ordered(y, dim) /\ Ordered(z, dim)
LeftOver(x, y, z, c) == (NnzOf(x) - c[1]) + (NnzOf(y) - c[2]) + (NnzOf(z) - c[3]) + 3

LEMMA LeastIndex ==
  ASSUME NEW dim \in Nat, NEW x, NEW y, NEW z, AllOrdered(x, y, z, dim), NEW c \in CursorsOf(x, y, z)
  PROVE  /\ Least(x, y, z, c) \in Int
         /\ Least(x, y, z, c) <= IndexAt(x, c[1]) /\ Least(x, y, z, c) <= IndexAt(y, c[2])
         /\ Least(x, y, z, c) <= IndexAt(z, c[3])
         /\ ~AllPast(x, y, z, c) => \/ At(x, c[1], Least(x, y, z, c)) \/ At(y, c[2], Least(x, y, z, c))
                                    \/ At(z, c[3], Least(x, y, z, c))
<1>1. ASSUME NEW q, Ordered(q, dim), NEW a \in 1 .. NnzOf(q) + 1
      PROVE  /\ IndexAt(q, a) \in Int /\ NnzOf(q) \in Nat
             /\ IndexAt(q, a) <= dim => At(q, a, IndexAt(q, a))
             /\ a <= NnzOf(q) => IndexAt(q, a) <= dim - 1
  <2>1. NnzOf(q) \in Nat /\ q.dim = dim
    BY <1>1 DEF Ordered, Vectors, NnzOf
  <2>2. CASE a <= NnzOf(q)
    <3>1. a \in DOMAIN q.nz
      BY <2>1, <2>2, <1>1 DEF Ordered, Vectors, NnzOf
    <3>2. q.nz[a].i \in 0 .. dim - 1
      BY <3>1, <1>1 DEF Ordered
    <3>3. QED
      BY <2>1, <2>2, <3>2 DEF IndexAt, At
  <2>3. CASE ~(a <= NnzOf(q))
    BY <2>1, <2>3 DEF IndexAt
  <2>4. QED
    BY <2>2, <2>3
<1>2. /\ c[1] \in 1 .. NnzOf(x) + 1 /\ c[2] \in 1 .. NnzOf(y) + 1 /\ c[3] \in 1 .. NnzOf(z) + 1
      /\ Ordered(x, dim) /\ Ordered(y, dim) /\ Ordered(z, dim)
  BY DEF CursorsOf, AllOrdered
<1> DEFINE p == IndexAt(x, c[1])
           q == IndexAt(y, c[2])
           r == IndexAt(z, c[3])
           l == Least(x, y, z, c)
<1>3. p \in Int /\ q \in Int /\ r \in Int /\ NnzOf(x) \in Nat /\ NnzOf(y) \in Nat /\ NnzOf(z) \in Nat
  BY <1>1, <1>2
<1>4. /\ p <= dim => At(x, c[1], p)
      /\ q <= dim => At(y, c[2], q)
      /\ r <= dim => At(z, c[3], r)
  BY <1>1, <1>2
<1>5. /\ c[1] <= NnzOf(x) => p <= dim - 1
      /\ c[2] <= NnzOf(y) => q <= dim - 1
      /\ c[3] <= NnzOf(z) => r <= dim - 1
  BY <1>1, <1>2
<1>6. l = Lesser(p, Lesser(q, r))
  BY DEF Least
<1>7. c[1] \in Int /\ c[2] \in Int /\ c[3] \in Int
  BY <1>2
<1> HIDE DEF p, q, r, l
<1>8. l \in Int /\ l <= p /\ l <= q /\ l <= r /\ (l = p \/ l = q \/ l = r)
  BY <1>3, <1>6 DEF Lesser
<1>9. ~AllPast(x, y, z, c) => l <= dim
  BY <1>3, <1>5, <1>7, <1>8 DEF AllPast
<1>10. l <= dim => At(x, c[1], l) \/ At(y, c[2], l) \/ At(z, c[3], l)
  BY <1>4, <1>8
<1>11. QED
  BY <1>8, <1>9, <1>10 DEF p, q, r, l

LEMMA CursorsAdvance ==
  ASSUME NEW dim \in Nat, NEW x, NEW y, NEW z, AllOrdered(x, y, z, dim), NEW c \in CursorsOf(x, y, z),
         ~AllPast(x, y, z, c)
  PROVE  /\ Advanced(x, y, z, c) \in CursorsOf(x, y, z) /\ Seen(x, y, z, c) \in JointEntries
         /\ LeftOver(x, y, z, c) \in Nat
         /\ LeftOver(x, y, z, Advanced(x, y, z, c)) < LeftOver(x, y, z, c)
<1> DEFINE l == Least(x, y, z, c)
           d == Advanced(x, y, z, c)
<1>1. /\ c[1] \in 1 .. Len(x.nz) + 1 /\ c[2] \in 1 .. Len(y.nz) + 1 /\ c[3] \in 1 .. Len(z.nz) + 1
      /\ Ordered(x, dim) /\ Ordered(y, dim) /\ Ordered(z, dim)
  BY DEF CursorsOf, AllOrdered, NnzOf
<1>2. l \in Int /\ l <= IndexAt(x, c[1]) /\ l <= IndexAt(y, c[2]) /\ l <= IndexAt(z, c[3])
      /\ (At(x, c[1], l) \/ At(y, c[2], l) \/ At(z, c[3], l))
  BY LeastIndex
<1>3. d[1] = Advance(x, c[1], l) /\ d[2] = Advance(y, c[2], l) /\ d[3] = Advance(z, c[3], l)
      /\ d = <<d[1], d[2], d[3]>>
  BY DEF Advanced
<1> HIDE DEF l, d
<1>0. ASSUME NEW v, Ordered(v, dim), NEW a \in 1 .. Len(v.nz) + 1, l <= IndexAt(v, a)
      PROVE  /\ Advance(v, a, l) \in 1 .. Len(v.nz) + 1
             /\ Advance(v, a, l) = (IF At(v, a, l) THEN a + 1 ELSE a) /\ ValueOr0(v, a, l) \in Int
  BY <1>2, <1>0, CursorStep
<1>4. d[1] \in 1 .. Len(x.nz) + 1 /\ d[1] = (IF At(x, c[1], l) THEN c[1] + 1 ELSE c[1])
      /\ ValueOr0(x, c[1], l) \in Int
  BY <1>1, <1>2, <1>3, <1>0
<1>5. d[2] \in 1 .. Len(y.nz) + 1 /\ d[2] = (IF At(y, c[2], l) THEN c[2] + 1 ELSE c[2])
      /\ ValueOr0(y, c[2], l) \in Int
  BY <1>1, <1>2, <1>3, <1>0
<1>6. d[3] \in 1 .. Len(z.nz) + 1 /\ d[3] = (IF At(z, c[3], l) THEN c[3] + 1 ELSE c[3])
      /\ ValueOr0(z, c[3], l) \in Int
  BY <1>1, <1>2, <1>3, <1>0
<1>7. Len(x.nz) \in Nat /\ Len(y.nz) \in Nat /\ Len(z.nz) \in Nat
  <2>1. ASSUME NEW v, Ordered(v, dim) PROVE Len(v.nz) \in Nat
    BY <2>1 DEF Ordered, Vectors
  <2>2. QED
    BY <1>1, <2>1
<1>8. LeftOver(x, y, z, c) \in Nat /\ LeftOver(x, y, z, d) < LeftOver(x, y, z, c)
  <2>1. c[1] \in Int /\ c[2] \in Int /\ c[3] \in Int
    BY <1>1
  <2>2. /\ d[1] = c[1] \/ d[1] = c[1] + 1
        /\ d[2] = c[2] \/ d[2] = c[2] + 1
        /\ d[3] = c[3] \/ d[3] = c[3] + 1
    BY <1>4, <1>5, <1>6
  <2>3. d[1] = c[1] + 1 \/ d[2] = c[2] + 1 \/ d[3] = c[3] + 1
    BY <1>2, <1>4, <1>5, <1>6
  <2> DEFINE a1 == NnzOf(x) - c[1]
             a2 == NnzOf(y) - c[2]
             a3 == NnzOf(z) - c[3]
             b1 == NnzOf(x) - d[1]
             b2 == NnzOf(y) - d[2]
             b3 == NnzOf(z) - d[3]
  <2>4. /\ a1 \in Int /\ a2 \in Int /\ a3 \in Int /\ a1 + 1 \in Nat /\ a2 + 1 \in Nat /\ a3 + 1 \in Nat
    <3>1. c[1] <= Len(x.nz) + 1 /\ c[2] <= Len(y.nz) + 1 /\ c[3] <= Len(z.nz) + 1
      BY <1>1, <1>7
    <3>2. \A n \in Nat, k \in Int : k <= n + 1 => n - k \in Int /\ (n - k) + 1 \in Nat
      OBVIOUS
    <3> HIDE DEF a1, a2, a3
    <3>3. a1 = Len(x.nz) - c[1] /\ a2 = Len(y.nz) - c[2] /\ a3 = Len(z.nz) - c[3]
      BY DEF NnzOf, a1, a2, a3
    <3>4. a1 \in Int /\ a1 + 1 \in Nat
      BY <2>1, <3>1, <3>2, <3>3, <1>7
    <3>5. a2 \in Int /\ a2 + 1 \in Nat
      BY <2>1, <3>1, <3>2, <3>3, <1>7
    <3>6. a3 \in Int /\ a3 + 1 \in Nat
      BY <2>1, <3>1, <3>2, <3>3, <1>7
    <3>7. QED
      BY <3>4, <3>5, <3>6
  <2>5. /\ b1 = a1 \/ b1 = a1 - 1
        /\ b2 = a2 \/ b2 = a2 - 1
        /\ b3 = a3 \/ b3 = a3 - 1
        /\ b1 = a1 - 1 \/ b2 = a2 - 1 \/ b3 = a3 - 1
    <3>1. \A n, k \in Int : n - (k + 1) = (n - k) - 1
      OBVIOUS
    <3>2. NnzOf(x) \in Int /\ NnzOf(y) \in Int /\ NnzOf(z) \in Int
      BY <1>7 DEF NnzOf
    <3>3. /\ d[1] = c[1] => b1 = a1
          /\ d[2] = c[2] => b2 = a2
          /\ d[3] = c[3] => b3 = a3
      OBVIOUS
    <3>4. d[1] = c[1] + 1 => b1 = a1 - 1
      BY <2>1, <3>1, <3>2
    <3>5. d[2] = c[2] + 1 => b2 = a2 - 1
      BY <2>1, <3>1, <3>2
    <3>6. d[3] = c[3] + 1 => b3 = a3 - 1
      BY <2>1, <3>1, <3>2
    <3>7. QED
      BY <2>2, <2>3, <3>3, <3>4, <3>5, <3>6, Zenon
  <2>6. LeftOver(x, y, z, c) = a1 + a2 + a3 + 3 /\ LeftOver(x, y, z, d) = b1 + b2 + b3 + 3
    BY DEF LeftOver
  <2> HIDE DEF a1, a2, a3, b1, b2, b3
  <2>7. QED
    BY <2>4, <2>5, <2>6
<1>9. d \in CursorsOf(x, y, z)
  BY <1>3, <1>4, <1>5, <1>6 DEF CursorsOf, NnzOf
<1>10. Seen(x, y, z, c) \in JointEntries
  BY <1>2, <1>4, <1>5, <1>6 DEF Seen, JointEntries, l
<1>11. QED
  BY <1>8, <1>9, <1>10 DEF d

\* One round of the traversal comes first, what the next cursors come upon after it.
LEMMA JoinsNext ==
  ASSUME NEW dim \in Nat, NEW x, NEW y, NEW z, AllOrdered(x, y, z, dim), NEW c \in CursorsOf(x, y, z),
         ~AllPast(x, y, z, c), NEW J, Joins(J, x, y, z, Advanced(x, y, z, c))
  PROVE  Joins(<<Seen(x, y, z, c)>> \o J, x, y, z, c)
<1> DEFINE l == Least(x, y, z, c)
           d == Advanced(x, y, z, c)
           s == Seen(x, y, z, c)
           L == <<s>> \o J
<1>1. /\ c[1] \in 1 .. Len(x.nz) + 1 /\ c[2] \in 1 .. Len(y.nz) + 1 /\ c[3] \in 1 .. Len(z.nz) + 1
      /\ Ordered(x, dim) /\ Ordered(y, dim) /\ Ordered(z, dim)
  BY DEF CursorsOf, AllOrdered, NnzOf
<1>2. l \in Int /\ l <= IndexAt(x, c[1]) /\ l <= IndexAt(y, c[2]) /\ l <= IndexAt(z, c[3])
      /\ (At(x, c[1], l) \/ At(y, c[2], l) \/ At(z, c[3], l))
  BY LeastIndex
<1>3. d[1] = Advance(x, c[1], l) /\ d[2] = Advance(y, c[2], l) /\ d[3] = Advance(z, c[3], l)
  BY DEF Advanced
<1>4. s \in JointEntries /\ s.i = l /\ s.x = ValueOr0(x, c[1], l) /\ s.y = ValueOr0(y, c[2], l)
      /\ s.z = ValueOr0(z, c[3], l)
  BY CursorsAdvance DEF Seen
<1>5. J \in Seq(JointEntries)
  BY DEF Joins
<1>6. L \in Seq(JointEntries) /\ Len(L) = Len(J) + 1 /\ Len(J) \in Nat /\ L[1] = s
      /\ \A k \in 1 .. Len(J) : L[k + 1] = J[k]
  BY <1>4, <1>5
<1>7. /\ \A k \in DOMAIN J :
           /\ Sees(x.nz, d[1], J[k].i, J[k].x) /\ Sees(y.nz, d[2], J[k].i, J[k].y)
           /\ Sees(z.nz, d[3], J[k].i, J[k].z)
           /\ Ahead(x.nz, d[1], J[k].i) \/ Ahead(y.nz, d[2], J[k].i) \/ Ahead(z.nz, d[3], J[k].i)
      /\ \A i \in Int : Ahead(x.nz, d[1], i) \/ Ahead(y.nz, d[2], i) \/ Ahead(z.nz, d[3], i) =>
           \E k \in DOMAIN J : J[k].i = i
      /\ Sorted(J)
  BY DEF Joins
<1>8. \A k \in 1 .. Len(J) : J[k] \in JointEntries /\ J[k].i \in Int
  <2> TAKE k \in 1 .. Len(J)
  <2>1. J[k] \in JointEntries
    BY <1>5
  <2>2. QED
    BY <2>1 DEF JointEntries
<1> HIDE DEF l, d, s, L
\* what each cursor contributes
<1>9. ASSUME NEW v, Ordered(v, dim), NEW a \in 1 .. Len(v.nz) + 1, l <= IndexAt(v, a)
      PROVE  /\ Sees(v.nz, a, l, ValueOr0(v, a, l))
             /\ At(v, a, l) => Ahead(v.nz, a, l)
             /\ \A i \in Int : Ahead(v.nz, Advance(v, a, l), i) => i > l /\ Ahead(v.nz, a, i)
             /\ \A i \in Int : \A u : i > l /\ Sees(v.nz, Advance(v, a, l), i, u) => Sees(v.nz, a, i, u)
             /\ \A i \in Int : Ahead(v.nz, a, i) => i = l \/ Ahead(v.nz, Advance(v, a, l), i)
  <2> DEFINE b == Advance(v, a, l)
  <2>1. /\ b \in 1 .. Len(v.nz) + 1 /\ b >= a
        /\ b = (IF At(v, a, l) THEN a + 1 ELSE a)
        /\ Sees(v.nz, a, l, ValueOr0(v, a, l))
        /\ \A j \in Int : \A u : j > l /\ Sees(v.nz, b, j, u) => Sees(v.nz, a, j, u)
        /\ \A p \in DOMAIN v.nz : p >= b => v.nz[p].i > l
        /\ \A p \in DOMAIN v.nz : p >= a => p >= b \/ v.nz[p].i = l
    BY <1>2, <1>9, CursorStep
  <2> HIDE DEF b
  <2>2. DOMAIN v.nz = 1 .. Len(v.nz) /\ Len(v.nz) \in Nat
    BY <1>9 DEF Ordered, Vectors
  <2>3. \A p \in DOMAIN v.nz : p >= b => p >= a
    BY <2>1, <2>2
  <2>4. At(v, a, l) => a \in DOMAIN v.nz /\ a >= a /\ v.nz[a].i = l
    BY <2>2 DEF At, NnzOf
  <2>5. At(v, a, l) => Ahead(v.nz, a, l)
    BY <2>4 DEF Ahead
  <2>6. \A i \in Int : Ahead(v.nz, b, i) => i > l /\ Ahead(v.nz, a, i)
    BY <2>1, <2>3 DEF Ahead
  <2>7. \A i \in Int : Ahead(v.nz, a, i) => i = l \/ Ahead(v.nz, b, i)
    BY <2>1 DEF Ahead
  <2>8. QED
    BY <2>1, <2>5, <2>6, <2>7 DEF b
<1>10. Sorted(L)
  <2>1. \A k \in 1 .. Len(J) : J[k].i > l
    <3> TAKE k \in 1 .. Len(J)
    <3>1. J[k].i \in Int /\ (Ahead(x.nz, d[1], J[k].i) \/ Ahead(y.nz, d[2], J[k].i) \/ Ahead(z.nz, d[3], J[k].i))
      BY <1>5, <1>7, <1>8
    <3>2. QED
      BY <3>1, <1>1, <1>2, <1>3, <1>9
  <2> SUFFICES ASSUME NEW j \in 1 .. Len(J) + 1, NEW k \in 1 .. Len(J) + 1, j < k
               PROVE  L[j].i < L[k].i
    BY <1>6 DEF Sorted
  <2>2. k - 1 \in 1 .. Len(J) /\ L[k] = J[k - 1]
    <3>1. k - 1 \in 1 .. Len(J) /\ (k - 1) + 1 = k
      BY <1>6
    <3>2. QED
      BY <3>1, <1>6
  <2>3. CASE j = 1
    BY <2>1, <2>2, <2>3, <1>2, <1>4, <1>6, <1>8
  <2>4. CASE j # 1
    <3>1. j - 1 \in 1 .. Len(J) /\ (j - 1) + 1 = j /\ j - 1 < k - 1
      BY <1>6, <2>2, <2>4
    <3>2. L[j] = J[j - 1]
      BY <3>1, <1>6
    <3>3. J[j - 1].i < J[k - 1].i
      <4>1. Sorted(J) /\ DOMAIN J = 1 .. Len(J)
        BY <1>5, <1>7
      <4>2. j - 1 \in DOMAIN J /\ k - 1 \in DOMAIN J
        BY <4>1, <3>1, <2>2
      <4>3. QED
        BY <4>1, <4>2, <3>1 DEF Sorted
    <3>4. QED
      BY <3>2, <3>3, <2>2
  <2>5. QED
    BY <2>3, <2>4
<1>11. ASSUME NEW k \in DOMAIN L
       PROVE  /\ Sees(x.nz, c[1], L[k].i, L[k].x) /\ Sees(y.nz, c[2], L[k].i, L[k].y)
              /\ Sees(z.nz, c[3], L[k].i, L[k].z)
              /\ Ahead(x.nz, c[1], L[k].i) \/ Ahead(y.nz, c[2], L[k].i) \/ Ahead(z.nz, c[3], L[k].i)
  <2>1. CASE k = 1
    <3>1. Sees(x.nz, c[1], l, s.x) /\ Sees(y.nz, c[2], l, s.y) /\ Sees(z.nz, c[3], l, s.z)
      BY <1>1, <1>2, <1>4, <1>9
    <3>2. Ahead(x.nz, c[1], l) \/ Ahead(y.nz, c[2], l) \/ Ahead(z.nz, c[3], l)
      BY <1>1, <1>2, <1>9
    <3>3. QED
      BY <2>1, <3>1, <3>2, <1>4, <1>6
  <2>2. CASE k # 1
    <3>1. k - 1 \in 1 .. Len(J) /\ (k - 1) + 1 = k
      BY <1>6, <2>2
    <3>2. L[k] = J[k - 1] /\ k - 1 \in DOMAIN J /\ J[k - 1].i \in Int
      BY <3>1, <1>5, <1>6, <1>8
    <3> DEFINE e == J[k - 1]
    <3>3. /\ Sees(x.nz, d[1], e.i, e.x) /\ Sees(y.nz, d[2], e.i, e.y) /\ Sees(z.nz, d[3], e.i, e.z)
          /\ Ahead(x.nz, d[1], e.i) \/ Ahead(y.nz, d[2], e.i) \/ Ahead(z.nz, d[3], e.i)
          /\ e.i \in Int /\ L[k] = e
      BY <3>2, <1>7
    <3> HIDE DEF e
    <3>4. e.i > l /\ (Ahead(x.nz, c[1], e.i) \/ Ahead(y.nz, c[2], e.i) \/ Ahead(z.nz, c[3], e.i))
      BY <3>3, <1>1, <1>2, <1>3, <1>9
    <3>5. Sees(x.nz, c[1], e.i, e.x)
      <4>1. \A i \in Int : \A u : i > l /\ Sees(x.nz, Advance(x, c[1], l), i, u) => Sees(x.nz, c[1], i, u)
        BY <1>1, <1>2, <1>9
      <4>2. QED
        BY <4>1, <3>3, <3>4, <1>3
    <3>6. Sees(y.nz, c[2], e.i, e.y)
      <4>1. \A i \in Int : \A u : i > l /\ Sees(y.nz, Advance(y, c[2], l), i, u) => Sees(y.nz, c[2], i, u)
        BY <1>1, <1>2, <1>9
      <4>2. QED
        BY <4>1, <3>3, <3>4, <1>3
    <3>7. Sees(z.nz, c[3], e.i, e.z)
      <4>1. \A i \in Int : \A u : i > l /\ Sees(z.nz, Advance(z, c[3], l), i, u) => Sees(z.nz, c[3], i, u)
        BY <1>1, <1>2, <1>9
      <4>2. QED
        BY <4>1, <3>3, <3>4, <1>3
    <3>8. QED
      BY <3>3, <3>4, <3>5, <3>6, <3>7
  <2>3. QED
    BY <2>1, <2>2
<1>12. ASSUME NEW i \in Int, Ahead(x.nz, c[1], i) \/ Ahead(y.nz, c[2], i) \/ Ahead(z.nz, c[3], i)
       PROVE  \E k \in DOMAIN L : L[k].i = i
  <2>1. CASE i = l
    BY <2>1, <1>4, <1>6
  <2>2. CASE i # l
    <3>1. Ahead(x.nz, d[1], i) \/ Ahead(y.nz, d[2], i) \/ Ahead(z.nz, d[3], i)
      <4>1. ASSUME Ahead(x.nz, c[1], i) PROVE Ahead(x.nz, d[1], i)
        BY <4>1, <2>2, <1>1, <1>2, <1>3, <1>9
      <4>2. ASSUME Ahead(y.nz, c[2], i) PROVE Ahead(y.nz, d[2], i)
        BY <4>2, <2>2, <1>1, <1>2, <1>3, <1>9
      <4>3. ASSUME Ahead(z.nz, c[3], i) PROVE Ahead(z.nz, d[3], i)
        BY <4>3, <2>2, <1>1, <1>2, <1>3, <1>9
      <4>4. QED
        BY <4>1, <4>2, <4>3, <1>12
    <3>2. PICK k \in DOMAIN J : J[k].i = i
      BY <3>1, <1>7
    <3>3. k + 1 \in DOMAIN L /\ L[k + 1] = J[k]
      BY <3>2, <1>5, <1>6
    <3>4. QED
      BY <3>2, <3>3
  <2>3. QED
    BY <2>1, <2>2
<1>13. Joins(L, x, y, z, c)
  BY <1>6, <1>10, <1>11, <1>12 DEF Joins
<1>14. QED
  BY <1>13 DEF L, s

LEMMA JointSteps ==
  ASSUME NEW dim \in Nat, NEW x, NEW y, NEW z, AllOrdered(x, y, z, dim)
  PROVE  \E g : /\ Joint(x, y, z) = g[<<1, 1, 1>>]
                /\ \A c \in CursorsOf(x, y, z) :
                     g[c] = IF AllPast(x, y, z, c) THEN <<>>
                            ELSE <<Seen(x, y, z, c)>> \o g[Advanced(x, y, z, c)]
<1> DEFINE D == CursorsOf(x, y, z)
           V == Seq(JointEntries)
           Final == {c \in D : AllPast(x, y, z, c)}
           rank == [c \in D |-> IF c \in Final THEN 0 ELSE LeftOver(x, y, z, c)]
           next == [c \in D \ Final |-> Advanced(x, y, z, c)]
           base == [c \in Final |-> <<>>]
           step == [p \in (D \ Final) \X V |-> <<Seen(x, y, z, p[1])>> \o p[2]]
           Next(g) ==
             [c \in (1 .. NnzOf(x) + 1) \X (1 .. NnzOf(y) + 1) \X (1 .. NnzOf(z) + 1) |->
                LET i == Lesser(IndexAt(x, c[1]), Lesser(IndexAt(y, c[2]), IndexAt(z, c[3])))
                IN IF c[1] > NnzOf(x) /\ c[2] > NnzOf(y) /\ c[3] > NnzOf(z)
                   THEN <<>>
                   ELSE <<[i |-> i, x |-> ValueOr0(x, c[1], i), y |-> ValueOr0(y, c[2], i),
                                    z |-> ValueOr0(z, c[3], i)]>>
                        \o g[<<Advance(x, c[1], i), Advance(y, c[2], i), Advance(z, c[3], i)>>]]
           from == CHOOSE g : g = Next(g)
<1>1. \A c \in D \ Final : /\ Advanced(x, y, z, c) \in D /\ Seen(x, y, z, c) \in JointEntries
                           /\ LeftOver(x, y, z, c) \in Nat
                           /\ LeftOver(x, y, z, Advanced(x, y, z, c)) < LeftOver(x, y, z, c)
  <2> TAKE c \in D \ Final
  <2>1. c \in CursorsOf(x, y, z) /\ ~AllPast(x, y, z, c)
    OBVIOUS
  <2>2. QED
    BY <2>1, CursorsAdvance
<1>2. \A c \in Final : LeftOver(x, y, z, c) \in Int /\ LeftOver(x, y, z, c) >= 0
  <2> TAKE c \in Final
  <2>1. NnzOf(x) \in Nat /\ NnzOf(y) \in Nat /\ NnzOf(z) \in Nat
    BY DEF AllOrdered, Ordered, Vectors, NnzOf
  <2>2. c[1] = NnzOf(x) + 1 /\ c[2] = NnzOf(y) + 1 /\ c[3] = NnzOf(z) + 1
    BY <2>1 DEF CursorsOf, AllPast
  <2>3. LeftOver(x, y, z, c) = 0
    BY <2>1, <2>2 DEF LeftOver
  <2>4. QED
    BY <2>3
<1> HIDE DEF D
<1>3. Falling(D, V, Final, rank, next, base, step)
  <2>1. Final \subseteq D
    OBVIOUS
  <2>2. rank \in [D -> Nat]
    BY <1>1
  <2>3. next \in [D \ Final -> D]
    BY <1>1
  <2>4. base \in [Final -> V]
    OBVIOUS
  <2>5. step \in [(D \ Final) \X V -> V]
    <3> SUFFICES ASSUME NEW c \in D \ Final, NEW J \in V PROVE <<Seen(x, y, z, c)>> \o J \in V
      OBVIOUS
    <3>1. <<Seen(x, y, z, c)>> \in V
      BY <1>1
    <3>2. QED
      BY <3>1
  <2>6. \A c \in D \ Final : rank[next[c]] < rank[c]
    <3> TAKE c \in D \ Final
    <3>1. next[c] \in D /\ next[c] = Advanced(x, y, z, c) /\ rank[c] = LeftOver(x, y, z, c)
      BY <1>1
    <3>2. next[c] \notin Final => rank[next[c]] = LeftOver(x, y, z, next[c])
      BY <3>1
    <3>3. next[c] \in Final => rank[next[c]] = 0 /\ LeftOver(x, y, z, next[c]) \in Int /\ LeftOver(x, y, z, next[c]) >= 0
      BY <3>1, <1>2
    <3> HIDE DEF rank, next
    <3>4. LeftOver(x, y, z, next[c]) < LeftOver(x, y, z, c) /\ LeftOver(x, y, z, c) \in Nat
      BY <1>1, <3>1
    <3>5. QED
      BY <3>1, <3>2, <3>3, <3>4
  <2> HIDE DEF rank, next, base, step, Final, V
  <2>7. QED
    BY <2>1, <2>2, <2>3, <2>4, <2>5, <2>6 DEF Falling
<1>4. PICK g : Recursive(g, D, V, Final, next, base, step)
  <2> HIDE DEF rank, next, base, step, Final, V
  <2>1. QED
    BY <1>3, Recursion
<1>5. g \in [D -> V] /\ \A c \in D : g[c] = IF AllPast(x, y, z, c) THEN <<>>
                        ELSE <<Seen(x, y, z, c)>> \o g[Advanced(x, y, z, c)]
  <2>1. g \in [D -> V] /\ \A c \in D : g[c] = IF c \in Final THEN base[c] ELSE step[<<c, g[next[c]]>>]
    <3> HIDE DEF rank, next, base, step, Final, V
    <3>1. QED
      BY <1>4 DEF Recursive
  <2>2. ASSUME NEW c \in D PROVE g[c] = IF AllPast(x, y, z, c) THEN <<>>
                        ELSE <<Seen(x, y, z, c)>> \o g[Advanced(x, y, z, c)]
    <3>1. CASE c \in Final
      BY <2>1, <3>1
    <3>2. CASE c \notin Final
      <4>1. next[c] = Advanced(x, y, z, c) /\ next[c] \in D
        BY <1>1, <3>2
      <4>2. g[next[c]] \in V
        BY <4>1, <2>1
      <4>3. step[<<c, g[next[c]]>>] = <<Seen(x, y, z, c)>> \o g[next[c]]
        BY <3>2, <4>2
      <4>4. QED
        BY <2>1, <3>2, <4>1, <4>3
    <3>3. QED
      BY <3>1, <3>2
  <2>3. QED
    BY <2>1, <2>2
<1>6. \A h : Next(h) = [c \in D |-> IF AllPast(x, y, z, c) THEN <<>>
                        ELSE <<Seen(x, y, z, c)>> \o h[Advanced(x, y, z, c)]]
  BY DEF D, CursorsOf, AllPast, Seen, Advanced, Least
<1> HIDE DEF Next, V
<1>7. g = Next(g)
  BY <1>5, <1>6
<1>8. from = Next(from)
  BY <1>7
<1>9. Joint(x, y, z) = from[<<1, 1, 1>>]
  BY DEF Joint, Next
<1> HIDE DEF from
<1>10. \A c \in D : from[c] = IF AllPast(x, y, z, c) THEN <<>>
                        ELSE <<Seen(x, y, z, c)>> \o from[Advanced(x, y, z, c)]
  BY <1>6, <1>8
<1>11. QED
  BY <1>9, <1>10 DEF D

\* The traversal comes upon each index once, in ascending order, with the
\* values that the vectors have there.
LEMMA JointJoins ==
  ASSUME NEW dim \in Nat, NEW x, NEW y, NEW z, AllOrdered(x, y, z, dim)
  PROVE  Joins(Joint(x, y, z), x, y, z, <<1, 1, 1>>)
<1>1. PICK g : /\ Joint(x, y, z) = g[<<1, 1, 1>>]
               /\ \A c \in CursorsOf(x, y, z) :
                     g[c] = IF AllPast(x, y, z, c) THEN <<>>
                            ELSE <<Seen(x, y, z, c)>> \o g[Advanced(x, y, z, c)]
  BY JointSteps
<1>2. /\ NnzOf(x) \in Nat /\ NnzOf(y) \in Nat /\ NnzOf(z) \in Nat
      /\ DOMAIN x.nz = 1 .. NnzOf(x) /\ DOMAIN y.nz = 1 .. NnzOf(y) /\ DOMAIN z.nz = 1 .. NnzOf(z)
  BY DEF AllOrdered, Ordered, Vectors, NnzOf
<1> DEFINE P == {n \in Nat : \A c \in CursorsOf(x, y, z) :
                   AllPast(x, y, z, c) \/ LeftOver(x, y, z, c) < n => Joins(g[c], x, y, z, c)}
<1>3. ASSUME NEW c \in CursorsOf(x, y, z), AllPast(x, y, z, c) PROVE Joins(g[c], x, y, z, c)
  <2>1. g[c] = <<>>
    BY <1>1, <1>3
  <2>2. /\ \A p \in DOMAIN x.nz : ~(p >= c[1])
        /\ \A p \in DOMAIN y.nz : ~(p >= c[2])
        /\ \A p \in DOMAIN z.nz : ~(p >= c[3])
    BY <1>2, <1>3 DEF AllPast, CursorsOf
  <2>3. \A i \in Int : ~Ahead(x.nz, c[1], i) /\ ~Ahead(y.nz, c[2], i) /\ ~Ahead(z.nz, c[3], i)
    BY <2>2 DEF Ahead
  <2>4. <<>> \in Seq(JointEntries) /\ Sorted(<<>>) /\ DOMAIN <<>> = {}
    BY DEF Sorted
  <2>5. QED
    BY <2>1, <2>3, <2>4 DEF Joins
<1>4. 0 \in P
  <2> SUFFICES ASSUME NEW c \in CursorsOf(x, y, z), ~AllPast(x, y, z, c), LeftOver(x, y, z, c) < 0
               PROVE  FALSE
    BY <1>3
  <2>1. LeftOver(x, y, z, c) \in Nat
    BY CursorsAdvance
  <2>2. QED
    BY <2>1
<1>5. ASSUME NEW n \in P \cap Nat PROVE n + 1 \in P
  <2> SUFFICES ASSUME NEW c \in CursorsOf(x, y, z), ~AllPast(x, y, z, c), LeftOver(x, y, z, c) < n + 1
               PROVE  Joins(g[c], x, y, z, c)
    BY <1>3
  <2>1. /\ Advanced(x, y, z, c) \in CursorsOf(x, y, z)
        /\ LeftOver(x, y, z, c) \in Nat
        /\ LeftOver(x, y, z, Advanced(x, y, z, c)) < LeftOver(x, y, z, c)
    BY CursorsAdvance
  <2>2. Joins(g[Advanced(x, y, z, c)], x, y, z, Advanced(x, y, z, c))
    <3>1. ~AllPast(x, y, z, Advanced(x, y, z, c)) => LeftOver(x, y, z, Advanced(x, y, z, c)) \in Nat
      BY <2>1, CursorsAdvance
    <3>2. AllPast(x, y, z, Advanced(x, y, z, c)) \/ LeftOver(x, y, z, Advanced(x, y, z, c)) < n
      BY <2>1, <3>1
    <3>3. QED
      BY <2>1, <3>2
  <2>3. g[c] = <<Seen(x, y, z, c)>> \o g[Advanced(x, y, z, c)]
    BY <1>1
  <2> HIDE DEF P
  <2>4. QED
    BY <2>2, <2>3, JoinsNext
<1>6. <<1, 1, 1>> \in CursorsOf(x, y, z)
  BY <1>2 DEF CursorsOf
<1>7. Joins(g[<<1, 1, 1>>], x, y, z, <<1, 1, 1>>)
  <2> HIDE DEF P
  <2>1. \A n \in Nat : n \in P
    BY <1>4, <1>5, Induction
  <2>2. ~AllPast(x, y, z, <<1, 1, 1>>) => LeftOver(x, y, z, <<1, 1, 1>>) \in Nat
    BY <1>6, CursorsAdvance
  <2>3. CASE AllPast(x, y, z, <<1, 1, 1>>)
    BY <1>3, <1>6, <2>3
  <2>4. CASE ~AllPast(x, y, z, <<1, 1, 1>>)
    <3>1. LeftOver(x, y, z, <<1, 1, 1>>) + 1 \in P /\ LeftOver(x, y, z, <<1, 1, 1>>) < LeftOver(x, y, z, <<1, 1, 1>>) + 1
      BY <2>1, <2>2, <2>4
    <3>2. QED
      BY <3>1, <1>6 DEF P
  <2>5. QED
    BY <2>3, <2>4
<1>8. QED
  BY <1>1, <1>7
-----------------------------------------------------------------------------
(* Vectors that are right                                                  *)

\* x has room for its entries and holds d.
Right(x, dim, d) ==
  /\ x \in Vectors /\ x.dim = dim /\ d \in DenseVectors(dim) /\ Holds(x.nz, dim, d)
  /\ Len(x.nz) <= x.nnzMax

LEMMA RightIsOrdered ==
  ASSUME NEW dim \in Nat, NEW x, NEW d, Right(x, dim, d)
  PROVE  Ordered(x, dim) /\ ValidVec(x) /\ ToRaw(x) = d /\ \A i \in 0 .. dim - 1 : ValueAt(x, i) = d[i]
<1>1. Ordered(x, dim)
  BY DEF Right, Ordered, Holds
<1>2. ValidVec(x)
  <2>1. x \in Vectors
    BY DEF Right
  <2>2. Len(x.nz) <= x.nnzMax /\ Sorted(x.nz) /\ \A k \in DOMAIN x.nz : x.nz[k].i \in 0 .. x.dim - 1
    BY DEF Right, Holds
  <2>3. QED
    BY <2>1, <2>2, ValidIsSorted
<1>3. ToRaw(x) = d /\ \A i \in 0 .. dim - 1 : ValueAt(x, i) = d[i]
  BY HoldsValues DEF Right
<1>4. QED
  BY <1>1, <1>2, <1>3

\* The room that is pushed into decides whether a result is right.
LEMMA PushedIsRight ==
  ASSUME NEW dim \in Nat, NEW d \in DenseVectors(dim), NEW q, Holds(q, dim, d), NEW room \in Nat, Len(q) <= room
  PROVE  Right([dim |-> dim, nnzMax |-> room, nz |-> q], dim, d)
  BY DEF Right, Vectors, Holds

LEMMA ClearedAndResized ==
  ASSUME NEW x \in Vectors, NEW n \in Nat
  PROVE  /\ Clear(x) = [dim |-> x.dim, nnzMax |-> x.nnzMax, nz |-> <<>>]
         /\ Resize(Clear(x), n) = [dim |-> n, nnzMax |-> x.nnzMax, nz |-> <<>>]
<1>1. x = [dim |-> x.dim, nnzMax |-> x.nnzMax, nz |-> x.nz]
  BY DEF Vectors
<1>2. Clear(x) = [dim |-> x.dim, nnzMax |-> x.nnzMax, nz |-> <<>>]
  BY <1>1 DEF Clear
<1>3. Clear(x).nz = <<>> /\ Clear(x).nnzMax = x.nnzMax
  BY <1>2
<1>4. SubSeq(<<>>, 1, 0) = <<>> /\ Len(<<>>) = 0 /\ 1 .. 0 = {}
  OBVIOUS
<1> DEFINE Found == {k \in 1 .. Len(Clear(x).nz) : Clear(x).nz[k].i < n}
           last == IF Found # {} THEN Max(Found) ELSE 0
           left == IF n < Clear(x).dim THEN SubSeq(Clear(x).nz, 1, last) ELSE Clear(x).nz
<1>5. Found = {}
  BY <1>3, <1>4
<1>6. Resize(Clear(x), n) = [dim |-> n, nnzMax |-> Clear(x).nnzMax, nz |-> left]
  BY DEF Resize, SelectLastInSeq
<1> HIDE DEF Found
<1>7. last = 0
  BY <1>5
<1> HIDE DEF last
<1>8. left = <<>>
  BY <1>3, <1>4, <1>7
<1> HIDE DEF left
<1>9. QED
  BY <1>2, <1>3, <1>6, <1>8

\* Reserving does not give room away.
LEMMA RoomIsMade ==
  ASSUME NEW x \in Vectors, NEW dim \in Nat, NEW n \in Nat
  PROVE  /\ Reserve(Resize(Clear(x), dim), n) = [dim |-> dim, nnzMax |-> Greater(x.nnzMax, n), nz |-> <<>>]
         /\ Reserve(Clear(x), n) = [dim |-> x.dim, nnzMax |-> Greater(x.nnzMax, n), nz |-> <<>>]
         /\ Greater(x.nnzMax, n) \in Nat /\ n <= Greater(x.nnzMax, n)
<1>1. /\ Clear(x) = [dim |-> x.dim, nnzMax |-> x.nnzMax, nz |-> <<>>]
      /\ Resize(Clear(x), dim) = [dim |-> dim, nnzMax |-> x.nnzMax, nz |-> <<>>]
  BY ClearedAndResized
<1>2. x.nnzMax \in Nat
  BY DEF Vectors
<1>3. Greater(x.nnzMax, n) \in Nat /\ n <= Greater(x.nnzMax, n)
  BY <1>2 DEF Greater
<1>4. \A a, b : Reserve([dim |-> a, nnzMax |-> b, nz |-> <<>>], n) = [dim |-> a, nnzMax |-> Greater(b, n), nz |-> <<>>]
  BY DEF Reserve
<1>5. QED
  BY <1>1, <1>3, <1>4

LEMMA PushAllOnNothing ==
  ASSUME NEW dim, NEW room, NEW q \in Seq(VecEntries)
  PROVE  PushAll([dim |-> dim, nnzMax |-> room, nz |-> <<>>], q) = [dim |-> dim, nnzMax |-> room, nz |-> q]
<1>1. <<>> \o q = q
  OBVIOUS
<1>2. QED
  BY <1>1 DEF PushAll

\* An array with its zeros
LEMMA DenseEntriesHold ==
  ASSUME NEW dim \in Nat, NEW d \in DenseVectors(dim)
  PROVE  Holds([k \in 1 .. dim |-> Entry(k - 1, d[k - 1])], dim, d)
<1> DEFINE q == [k \in 1 .. dim |-> Entry(k - 1, d[k - 1])]
<1>1. \A k \in 1 .. dim : k - 1 \in 0 .. dim - 1 /\ d[k - 1] \in Int
  BY DEF DenseVectors
<1>2. q \in Seq(VecEntries) /\ DOMAIN q = 1 .. dim
  BY <1>1 DEF VecEntries, Entry
<1>3. \A k \in 1 .. dim : q[k].i = k - 1 /\ q[k].v = d[k - 1]
  BY DEF Entry
<1> HIDE DEF q
<1>4. Sorted(q)
  BY <1>2, <1>3 DEF Sorted
<1>5. \A k \in DOMAIN q : q[k].i \in 0 .. dim - 1 /\ q[k].v = d[q[k].i]
  BY <1>1, <1>2, <1>3
<1>6. \A i \in 0 .. dim - 1 : i + 1 \in DOMAIN q /\ q[i + 1].i = i
  BY <1>2, <1>3
<1>7. Holds(q, dim, d)
  BY <1>2, <1>4, <1>5, <1>6 DEF Holds
<1>8. QED
  BY <1>7 DEF q

\* sleqp_vec_set_from_raw
LEMMA SetFromRawIsRight ==
  ASSUME NEW dim \in Nat, NEW d \in DenseVectors(dim), NEW x \in Vectors
  PROVE  Right(SetFromRaw(x, d, dim), dim, d)
<1> DEFINE q == NonZeros(d, dim)
<1>1. Holds(q, dim, d) /\ q \in Seq(VecEntries) /\ Len(q) \in Nat
  <2>1. Holds(q, dim, d)
    BY DenseEntriesHold, NonZeroHolds DEF NonZeros
  <2>2. QED
    BY <2>1 DEF Holds
<1> HIDE DEF q
<1>2. Reserve(Resize(Clear(x), dim), Len(q)) = [dim |-> dim, nnzMax |-> Greater(x.nnzMax, Len(q)), nz |-> <<>>]
  BY ClearedAndResized DEF Reserve
<1>3. Greater(x.nnzMax, Len(q)) \in Nat /\ Len(q) <= Greater(x.nnzMax, Len(q))
  BY <1>1 DEF Greater, Vectors
<1>4. SetFromRaw(x, d, dim) = [dim |-> dim, nnzMax |-> Greater(x.nnzMax, Len(q)), nz |-> q]
  BY <1>1, <1>2, PushAllOnNothing DEF SetFromRaw, q
<1>5. QED
  BY <1>1, <1>3, <1>4, PushedIsRight

LEMMA OperandsAreRight ==
  ASSUME NEW dim \in Nat, SpValues \subseteq Int, NEW y \in Operands(dim)
  PROVE  \E d \in DenseVectors(dim) : Right(y, dim, d)
<1>1. PICK f \in [0 .. dim - 1 -> SpValues] : y = SetFromRaw(CreateVec(0, 0), f, dim)
  BY DEF Operands
<1>2. f \in DenseVectors(dim)
  BY DEF DenseVectors
<1>3. CreateVec(0, 0) \in Vectors
  BY DEF CreateVec, Vectors
<1>4. QED
  BY <1>1, <1>2, <1>3, SetFromRawIsRight

LEMMA NothingIsRight ==
  ASSUME NEW dim \in Nat
  PROVE  Right(CreateVec(dim, 0), dim, [i \in 0 .. dim - 1 |-> 0])
  BY DEF CreateVec, Right, Vectors, DenseVectors, Holds, Sorted

\* The joint entries have the values that the vectors hold.
JointHolds(J, dim, dx, dy, dz) ==
  /\ J \in Seq(JointEntries) /\ Sorted(J)
  /\ \A k \in DOMAIN J : /\ J[k].i \in 0 .. dim - 1 /\ J[k].x = dx[J[k].i] /\ J[k].y = dy[J[k].i]
                         /\ J[k].z = dz[J[k].i]
  /\ \A i \in 0 .. dim - 1 : dx[i] # 0 \/ dy[i] # 0 \/ dz[i] # 0 => \E k \in DOMAIN J : J[k].i = i

LEMMA JointHoldsValues ==
  ASSUME NEW dim \in Nat, NEW x, NEW y, NEW z, NEW dx, NEW dy, NEW dz,
         Right(x, dim, dx), Right(y, dim, dy), Right(z, dim, dz)
  PROVE  /\ JointHolds(Joint(x, y, z), dim, dx, dy, dz)
         /\ \A k \in DOMAIN Joint(x, y, z) : LET i == Joint(x, y, z)[k].i IN
              (\E p \in DOMAIN x.nz : x.nz[p].i = i) \/ (\E p \in DOMAIN y.nz : y.nz[p].i = i)
                \/ (\E p \in DOMAIN z.nz : z.nz[p].i = i)
<1> DEFINE J == Joint(x, y, z)
<1>1. AllOrdered(x, y, z, dim)
  BY RightIsOrdered DEF AllOrdered
<1>2. Joins(J, x, y, z, <<1, 1, 1>>)
  BY <1>1, JointJoins
<1> HIDE DEF J
<1>3. /\ J \in Seq(JointEntries) /\ Sorted(J)
      /\ \A k \in DOMAIN J :
           /\ Sees(x.nz, 1, J[k].i, J[k].x) /\ Sees(y.nz, 1, J[k].i, J[k].y) /\ Sees(z.nz, 1, J[k].i, J[k].z)
           /\ Ahead(x.nz, 1, J[k].i) \/ Ahead(y.nz, 1, J[k].i) \/ Ahead(z.nz, 1, J[k].i)
      /\ \A i \in Int : Ahead(x.nz, 1, i) \/ Ahead(y.nz, 1, i) \/ Ahead(z.nz, 1, i) =>
           \E k \in DOMAIN J : J[k].i = i
  BY <1>2 DEF Joins
<1>4. ASSUME NEW v, NEW d, Right(v, dim, d)
      PROVE  /\ \A i, u : i \in 0 .. dim - 1 /\ Sees(v.nz, 1, i, u) => u = d[i]
             /\ \A i : Ahead(v.nz, 1, i) => i \in 0 .. dim - 1 /\ \E p \in DOMAIN v.nz : v.nz[p].i = i
             /\ \A i \in 0 .. dim - 1 : d[i] # 0 => Ahead(v.nz, 1, i)
  <2>1. /\ v.nz \in Seq(VecEntries)
        /\ \A k \in DOMAIN v.nz : v.nz[k].i \in 0 .. dim - 1 /\ v.nz[k].v = d[v.nz[k].i]
        /\ \A i \in 0 .. dim - 1 : d[i] # 0 => \E k \in DOMAIN v.nz : v.nz[k].i = i
    BY <1>4 DEF Right, Holds
  <2>2. \A p \in DOMAIN v.nz : p >= 1
    BY <2>1
  <2>3. \A i, u : i \in 0 .. dim - 1 /\ Sees(v.nz, 1, i, u) => u = d[i]
    BY <2>1, <2>2 DEF Sees
  <2>4. \A i : Ahead(v.nz, 1, i) => i \in 0 .. dim - 1 /\ \E p \in DOMAIN v.nz : v.nz[p].i = i
    BY <2>1 DEF Ahead
  <2>5. \A i \in 0 .. dim - 1 : d[i] # 0 => Ahead(v.nz, 1, i)
    BY <2>1, <2>2 DEF Ahead
  <2>6. QED
    BY <2>3, <2>4, <2>5
<1>5. /\ \A i, u : i \in 0 .. dim - 1 /\ Sees(x.nz, 1, i, u) => u = dx[i]
      /\ \A i : Ahead(x.nz, 1, i) => i \in 0 .. dim - 1 /\ \E p \in DOMAIN x.nz : x.nz[p].i = i
      /\ \A i \in 0 .. dim - 1 : dx[i] # 0 => Ahead(x.nz, 1, i)
  BY <1>4
<1>6. /\ \A i, u : i \in 0 .. dim - 1 /\ Sees(y.nz, 1, i, u) => u = dy[i]
      /\ \A i : Ahead(y.nz, 1, i) => i \in 0 .. dim - 1 /\ \E p \in DOMAIN y.nz : y.nz[p].i = i
      /\ \A i \in 0 .. dim - 1 : dy[i] # 0 => Ahead(y.nz, 1, i)
  BY <1>4
<1>7. /\ \A i, u : i \in 0 .. dim - 1 /\ Sees(z.nz, 1, i, u) => u = dz[i]
      /\ \A i : Ahead(z.nz, 1, i) => i \in 0 .. dim - 1 /\ \E p \in DOMAIN z.nz : z.nz[p].i = i
      /\ \A i \in 0 .. dim - 1 : dz[i] # 0 => Ahead(z.nz, 1, i)
  BY <1>4
<1>8. ASSUME NEW k \in DOMAIN J
      PROVE  /\ J[k].i \in 0 .. dim - 1 /\ J[k].x = dx[J[k].i] /\ J[k].y = dy[J[k].i] /\ J[k].z = dz[J[k].i]
             /\ (\E p \in DOMAIN x.nz : x.nz[p].i = J[k].i) \/ (\E p \in DOMAIN y.nz : y.nz[p].i = J[k].i)
                  \/ (\E p \in DOMAIN z.nz : z.nz[p].i = J[k].i)
  <2>1. J[k].i \in 0 .. dim - 1
    BY <1>3, <1>5, <1>6, <1>7
  <2>2. J[k].x = dx[J[k].i]
    BY <2>1, <1>3, <1>5, <1>6, <1>7
  <2>3. J[k].y = dy[J[k].i]
    BY <2>1, <1>3, <1>5, <1>6, <1>7
  <2>4. J[k].z = dz[J[k].i]
    BY <2>1, <1>3, <1>5, <1>6, <1>7
  <2>5. (\E p \in DOMAIN x.nz : x.nz[p].i = J[k].i) \/ (\E p \in DOMAIN y.nz : y.nz[p].i = J[k].i)
                  \/ (\E p \in DOMAIN z.nz : z.nz[p].i = J[k].i)
    BY <1>3, <1>5, <1>6, <1>7
  <2>6. QED
    BY <2>1, <2>2, <2>3, <2>4, <2>5
<1>9. ASSUME NEW i \in 0 .. dim - 1, dx[i] # 0 \/ dy[i] # 0 \/ dz[i] # 0
      PROVE  \E k \in DOMAIN J : J[k].i = i
  <2>1. Ahead(x.nz, 1, i) \/ Ahead(y.nz, 1, i) \/ Ahead(z.nz, 1, i)
    BY <1>9, <1>5, <1>6, <1>7
  <2>2. QED
    BY <2>1, <1>3
<1>10. JointHolds(J, dim, dx, dy, dz)
  BY <1>3, <1>8, <1>9 DEF JointHolds
<1>11. QED
  BY <1>8, <1>10 DEF J

\* Entries at the same indices, with the values f
WithValues(q, f) == [k \in DOMAIN q |-> Entry(q[k].i, f[k])]
Computes(q, f, dim, e) == e \in DenseVectors(dim) /\ \A k \in DOMAIN q : f[k] = e[q[k].i]

\* What the body of the loop computes from the values at an index, kept if
\* it is not zero
LEMMA ComputedHolds ==
  ASSUME NEW dim \in Nat, NEW J, NEW dx, NEW dy, NEW dz, JointHolds(J, dim, dx, dy, dz),
         NEW d, NEW f, Computes(J, f, dim, d),
         \A i \in 0 .. dim - 1 : dx[i] = 0 /\ dy[i] = 0 /\ dz[i] = 0 => d[i] = 0
  PROVE  /\ Holds(NonZero(WithValues(J, f)), dim, d)
         /\ \A k \in DOMAIN NonZero(WithValues(J, f)) :
              /\ NonZero(WithValues(J, f))[k].v # 0
              /\ \E l \in DOMAIN J : J[l].i = NonZero(WithValues(J, f))[k].i
<1> USE DEF Computes
<1> DEFINE p == WithValues(J, f)
           q == NonZero(p)
<1>1. /\ J \in Seq(JointEntries) /\ Sorted(J) /\ DOMAIN J = 1 .. Len(J) /\ Len(J) \in Nat
      /\ \A k \in DOMAIN J : J[k].i \in 0 .. dim - 1
      /\ \A i \in 0 .. dim - 1 : dx[i] # 0 \/ dy[i] # 0 \/ dz[i] # 0 => \E k \in DOMAIN J : J[k].i = i
  BY DEF JointHolds
<1>2. DOMAIN p = DOMAIN J /\ \A k \in DOMAIN J : p[k].i = J[k].i /\ p[k].v = d[J[k].i]
  BY DEF Entry, WithValues
<1>3. p \in Seq(VecEntries)
  <2>1. \A k \in 1 .. Len(J) : Entry(J[k].i, f[k]) \in VecEntries
    BY <1>1 DEF VecEntries, Entry, DenseVectors
  <2>2. p = [k \in 1 .. Len(J) |-> Entry(J[k].i, f[k])]
    BY <1>1 DEF WithValues
  <2>3. QED
    BY <1>1, <2>1, <2>2
<1> HIDE DEF p
<1>4. Sorted(p)
  BY <1>1, <1>2 DEF Sorted
<1>5. \A i \in 0 .. dim - 1 : d[i] # 0 => \E k \in DOMAIN p : p[k].i = i
  <2> SUFFICES ASSUME NEW i \in 0 .. dim - 1, d[i] # 0 PROVE \E k \in DOMAIN p : p[k].i = i
    OBVIOUS
  <2>1. dx[i] # 0 \/ dy[i] # 0 \/ dz[i] # 0
    OBVIOUS
  <2>2. PICK k \in DOMAIN J : J[k].i = i
    BY <2>1, <1>1
  <2>3. QED
    BY <2>2, <1>2
<1>6. Holds(p, dim, d)
  BY <1>1, <1>2, <1>3, <1>4, <1>5 DEF Holds
<1>7. Holds(q, dim, d) /\ \A k \in DOMAIN q : q[k].v # 0
  BY <1>6, NonZeroHolds
<1>8. ASSUME NEW k \in DOMAIN q PROVE \E l \in DOMAIN J : J[l].i = q[k].i
  <2>1. q[k].i \in 0 .. dim - 1 /\ q[k].v = d[q[k].i] /\ q[k].v # 0
    BY <1>7, <1>8 DEF Holds
  <2>2. PICK l \in DOMAIN p : p[l].i = q[k].i
    BY <2>1, <1>5
  <2>3. QED
    BY <2>2, <1>2
<1>9. QED
  BY <1>7, <1>8 DEF p

\* There are no more entries than indices.
LEMMA AtMost ==
  ASSUME NEW n \in Nat, NEW m \in Nat, NEW f \in [1 .. n -> 1 .. m],
         \A i, j \in 1 .. n : f[i] = f[j] => i = j
  PROVE  n <= m
<1>1. IsFiniteSet(1 .. m) /\ Cardinality(1 .. m) = m
  <2>1. 1 \in Int /\ m \in Int
    OBVIOUS
  <2>2. IsFiniteSet(1 .. m) /\ Cardinality(1 .. m) = IF 1 > m THEN 0 ELSE m - 1 + 1
    BY ONLY <2>1, FS_Interval
  <2>3. (IF 1 > m THEN 0 ELSE m - 1 + 1) = m
    OBVIOUS
  <2>4. QED
    BY <2>2, <2>3
<1>2. IsFiniteSet(1 .. n) /\ Cardinality(1 .. n) = n
  <2>1. 1 \in Int /\ n \in Int
    OBVIOUS
  <2>2. IsFiniteSet(1 .. n) /\ Cardinality(1 .. n) = IF 1 > n THEN 0 ELSE n - 1 + 1
    BY ONLY <2>1, FS_Interval
  <2>3. (IF 1 > n THEN 0 ELSE n - 1 + 1) = n
    OBVIOUS
  <2>4. QED
    BY <2>2, <2>3
<1>3. f \in Injection(1 .. n, 1 .. m)
  BY DEF Injection, IsInjective
<1>4. Cardinality(1 .. n) <= Cardinality(1 .. m)
  BY <1>1, <1>2, <1>3, FS_Injection
<1>5. QED
  BY <1>1, <1>2, <1>4

LEMMA EntriesFit ==
  ASSUME NEW dim \in Nat, NEW d, NEW q, Holds(q, dim, d)
  PROVE  Len(q) <= dim
<1> DEFINE f == [k \in 1 .. Len(q) |-> q[k].i + 1]
<1>1. q \in Seq(VecEntries) /\ Sorted(q) /\ DOMAIN q = 1 .. Len(q) /\ Len(q) \in Nat
      /\ \A k \in 1 .. Len(q) : q[k].i \in 0 .. dim - 1
  BY DEF Holds
<1>2. f \in [1 .. Len(q) -> 1 .. dim]
  BY <1>1
<1>3. ASSUME NEW i \in 1 .. Len(q), NEW j \in 1 .. Len(q), f[i] = f[j] PROVE i = j
  <2>1. q[i].i = q[j].i
    BY <1>1, <1>3
  <2>2. QED
    BY <2>1, <1>1, SortedOnce
<1> HIDE DEF f
<1>4. QED
  BY <1>1, <1>2, <1>3, AtMost

LEMMA UnionFits ==
  ASSUME NEW q \in Seq(VecEntries), Sorted(q), NEW a \in Seq(VecEntries), NEW b \in Seq(VecEntries),
         \A k \in DOMAIN q : (\E p \in DOMAIN a : a[p].i = q[k].i) \/ (\E p \in DOMAIN b : b[p].i = q[k].i)
  PROVE  Len(q) <= Len(a) + Len(b)
<1>1. /\ DOMAIN q = 1 .. Len(q) /\ DOMAIN a = 1 .. Len(a) /\ DOMAIN b = 1 .. Len(b)
      /\ Len(q) \in Nat /\ Len(a) \in Nat /\ Len(b) \in Nat
  OBVIOUS
<1> DEFINE Place(k, m) == \/ m \in DOMAIN a /\ a[m].i = q[k].i
                          \/ m - Len(a) \in DOMAIN b /\ b[m - Len(a)].i = q[k].i
           f == [k \in 1 .. Len(q) |-> CHOOSE m \in 1 .. Len(a) + Len(b) : Place(k, m)]
<1>2. ASSUME NEW k \in 1 .. Len(q) PROVE \E m \in 1 .. Len(a) + Len(b) : Place(k, m)
  <2>1. CASE \E p \in DOMAIN a : a[p].i = q[k].i
    <3>1. PICK p \in DOMAIN a : a[p].i = q[k].i
      BY <2>1
    <3>2. p \in 1 .. Len(a) + Len(b) /\ Place(k, p)
      BY <3>1, <1>1
    <3>3. QED
      BY <3>2
  <2>2. CASE \E p \in DOMAIN b : b[p].i = q[k].i
    <3>1. PICK p \in DOMAIN b : b[p].i = q[k].i
      BY <2>2
    <3>2. p + Len(a) \in 1 .. Len(a) + Len(b) /\ (p + Len(a)) - Len(a) = p
      BY <3>1, <1>1
    <3>3. Place(k, p + Len(a))
      BY <3>1, <3>2
    <3>4. QED
      BY <3>2, <3>3
  <2>3. QED
    BY <2>1, <2>2, <1>1
<1>3. f \in [1 .. Len(q) -> 1 .. Len(a) + Len(b)] /\ \A k \in 1 .. Len(q) : Place(k, f[k])
  <2> HIDE DEF Place
  <2>1. QED
    BY <1>2
<1> HIDE DEF f
<1>4. ASSUME NEW i \in 1 .. Len(q), NEW j \in 1 .. Len(q), f[i] = f[j] PROVE i = j
  <2>1. q[i].i = q[j].i
    BY <1>1, <1>3, <1>4
  <2>2. QED
    BY <2>1, <1>1, SortedOnce
<1>5. Len(a) + Len(b) \in Nat
  BY <1>1
<1>6. QED
  BY <1>1, <1>3, <1>4, <1>5, AtMost
-----------------------------------------------------------------------------
(* The operations                                                          *)

\* sleqp_vec_push into room that was reserved for one entry more
LEMMA PushIsRight ==
  ASSUME NEW dim \in Nat, NEW x, NEW d, Right(x, dim, d), NEW i \in 0 .. dim - 1, NEW v \in Int,
         x.nz # <<>> => i > Last(x.nz).i
  PROVE  Right(Push(Reserve(x, NnzOf(x) + 1), i, v), dim, [d EXCEPT ![i] = v])
<1> DEFINE q == x.nz
           r == Append(q, Entry(i, v))
           e == [d EXCEPT ![i] = v]
<1>1. /\ x \in Vectors /\ x.dim = dim /\ q \in Seq(VecEntries) /\ Sorted(q) /\ DOMAIN q = 1 .. Len(q)
      /\ \A k \in DOMAIN q : q[k].i \in 0 .. dim - 1 /\ q[k].v = d[q[k].i]
      /\ \A j \in 0 .. dim - 1 : d[j] # 0 => \E k \in DOMAIN q : q[k].i = j
      /\ Len(q) \in Nat /\ d \in [0 .. dim - 1 -> Int]
  BY DEF Right, Holds, DenseVectors
<1>0. Len(q) \in Nat
  BY <1>1
<1>2. \A k \in DOMAIN q : q[k].i < i
  <2> TAKE k \in DOMAIN q
  <2>1. Len(q) \in DOMAIN q /\ i > q[Len(q)].i
    BY <1>1 DEF Last
  <2>2. k = Len(q) \/ k < Len(q)
    BY <1>1
  <2>3. k < Len(q) => q[k].i < q[Len(q)].i
    BY <1>1, <2>1 DEF Sorted
  <2>4. q[k].i \in Int /\ q[Len(q)].i \in Int
    <3>1. \A l \in DOMAIN q : q[l].i \in 0 .. dim - 1
      BY <1>1
    <3>2. QED
      BY <2>1, <3>1
  <2>5. QED
    BY <2>1, <2>2, <2>3, <2>4
<1>3. Entry(i, v) \in VecEntries /\ Entry(i, v).i = i /\ Entry(i, v).v = v
  BY DEF Entry, VecEntries
<1>4. /\ r \in Seq(VecEntries) /\ Len(r) = Len(q) + 1 /\ DOMAIN r = 1 .. Len(q) + 1
      /\ r[Len(q) + 1] = Entry(i, v) /\ \A k \in 1 .. Len(q) : r[k] = q[k]
  BY <1>1, <1>3
<1>5. e \in DenseVectors(dim) /\ e[i] = v /\ \A j \in 0 .. dim - 1 : j # i => e[j] = d[j]
  BY <1>1 DEF DenseVectors
<1> HIDE DEF r, e
<1>6. Sorted(r)
  <2> SUFFICES ASSUME NEW j \in DOMAIN r, NEW k \in DOMAIN r, j < k PROVE r[j].i < r[k].i
    BY DEF Sorted
  <2>1. j \in 1 .. Len(q) /\ r[j] = q[j]
    <3>1. j \in 1 .. Len(q) + 1 /\ k \in 1 .. Len(q) + 1
      BY <1>4
    <3>2. j \in 1 .. Len(q)
      BY <3>1, <1>0
    <3>3. QED
      BY <3>2, <1>4
  <2>2. CASE k = Len(q) + 1
    BY <2>1, <2>2, <1>1, <1>2, <1>3, <1>4
  <2>3. CASE k # Len(q) + 1
    <3>1. k \in 1 .. Len(q) + 1
      BY <1>4
    <3>2. k \in 1 .. Len(q)
      BY <2>3, <3>1, <1>0
    <3>3. r[k] = q[k] /\ q[j].i < q[k].i
      BY <2>1, <3>2, <1>1, <1>4 DEF Sorted
    <3>4. QED
      BY <2>1, <3>3
  <2>4. QED
    BY <2>2, <2>3
<1>7. ASSUME NEW k \in DOMAIN r PROVE r[k].i \in 0 .. dim - 1 /\ r[k].v = e[r[k].i]
  <2>1. CASE k = Len(q) + 1
    BY <2>1, <1>3, <1>4, <1>5
  <2>2. CASE k # Len(q) + 1
    <3>1. k \in DOMAIN q /\ r[k] = q[k] /\ q[k].i # i
      <4>1. k \in 1 .. Len(q) + 1
        BY <1>4
      <4>2. k \in 1 .. Len(q)
        BY <4>1, <2>2, <1>0
      <4>3. k \in DOMAIN q /\ r[k] = q[k]
        BY <4>2, <1>1, <1>4
      <4>4. q[k].i \in 0 .. dim - 1 /\ q[k].i < i
        BY <4>3, <1>1, <1>2
      <4>5. QED
        BY <4>3, <4>4
    <3>2. QED
      BY <3>1, <1>1, <1>5
  <2>3. QED
    BY <2>1, <2>2
<1>8. ASSUME NEW j \in 0 .. dim - 1, e[j] # 0 PROVE \E k \in DOMAIN r : r[k].i = j
  <2>1. CASE j = i
    <3>1. Len(q) + 1 \in DOMAIN r /\ r[Len(q) + 1].i = i
      BY <1>0, <1>3, <1>4
    <3>2. QED
      BY <2>1, <3>1
  <2>2. CASE j # i
    <3>1. PICK k \in DOMAIN q : q[k].i = j
      BY <2>2, <1>1, <1>5, <1>8
    <3>2. k \in DOMAIN r /\ r[k] = q[k]
      BY <3>1, <1>1, <1>4
    <3>3. QED
      BY <3>1, <3>2
  <2>3. QED
    BY <2>1, <2>2
<1>9. Holds(r, dim, e)
  BY <1>4, <1>6, <1>7, <1>8 DEF Holds
<1>10. x.nnzMax \in Nat /\ x = [dim |-> dim, nnzMax |-> x.nnzMax, nz |-> q]
  BY <1>1 DEF Vectors
<1>11. Push(Reserve(x, NnzOf(x) + 1), i, v) = [dim |-> dim, nnzMax |-> Greater(x.nnzMax, Len(q) + 1), nz |-> r]
  <2>1. Reserve(x, NnzOf(x) + 1) = [dim |-> dim, nnzMax |-> Greater(x.nnzMax, Len(q) + 1), nz |-> q]
    BY <1>10 DEF Reserve, NnzOf
  <2> DEFINE y == Reserve(x, NnzOf(x) + 1)
  <2>2. Push(y, i, v) = [y EXCEPT !.nz = Append(y.nz, Entry(i, v))] /\ y.nz = q
    BY <2>1 DEF Push
  <2> HIDE DEF y
  <2>3. Push(y, i, v) = [y EXCEPT !.nz = r]
    BY <2>2 DEF r
  <2>4. y = [dim |-> dim, nnzMax |-> Greater(x.nnzMax, Len(q) + 1), nz |-> q]
    BY <2>1 DEF y
  <2>5. Push(y, i, v) = [dim |-> dim, nnzMax |-> Greater(x.nnzMax, Len(q) + 1), nz |-> r]
    BY <2>3, <2>4
  <2>6. QED
    BY <2>5 DEF y
<1>12. Greater(x.nnzMax, Len(q) + 1) \in Nat /\ Len(r) <= Greater(x.nnzMax, Len(q) + 1)
  BY <1>1, <1>4, <1>10 DEF Greater
<1>13. QED
  BY <1>5, <1>9, <1>11, <1>12, PushedIsRight DEF e

LEMMA MaxOf ==
  ASSUME NEW n \in Nat, NEW S \in SUBSET (1 .. n), S # {}
  PROVE  Max(S) \in S /\ \A m \in S : m <= Max(S)
<1> DEFINE T == {n - m : m \in S}
<1>1. T \in SUBSET Nat /\ T # {}
  <2>1. \A m \in S : n - m \in Nat
    OBVIOUS
  <2>2. QED
    BY <2>1
<1>2. PICK t \in T : \A u \in T : t <= u
  BY <1>1, LeastNumber
<1>3. PICK l \in S : t = n - l
  BY <1>2
<1>4. \A m \in S : l >= m
  <2> TAKE m \in S
  <2>1. n - l <= n - m /\ l \in Int /\ m \in Int
    <3>1. n - m \in T
      OBVIOUS
    <3>2. t <= n - m
      BY <3>1, <1>2
    <3>3. QED
      BY <3>2, <1>3
  <2>2. QED
    BY <2>1
<1>5. Max(S) = CHOOSE a \in S : \A b \in S : a >= b
  BY DEF Max
<1>6. Max(S) \in S /\ \A m \in S : Max(S) >= m
  BY <1>3, <1>4, <1>5
<1>7. QED
  BY <1>6

\* the entries below an index
LEMMA LastBelow ==
  ASSUME NEW q \in Seq(VecEntries), Sorted(q), NEW n \in Int
  PROVE  LET last == SelectLastInSeq(q, LAMBDA e : e.i < n)
         IN /\ last \in 0 .. Len(q)
            /\ \A k \in DOMAIN q : q[k].i < n <=> k <= last
<1> DEFINE Found == {k \in 1 .. Len(q) : q[k].i < n}
           last == IF Found # {} THEN Max(Found) ELSE 0
<1>1. DOMAIN q = 1 .. Len(q) /\ Len(q) \in Nat
  OBVIOUS
<1>2. Found # {} => last \in Found /\ \A m \in Found : m <= last
  <2>1. Found \in SUBSET (1 .. Len(q))
    OBVIOUS
  <2> HIDE DEF Found
  <2>2. QED
    BY <1>1, <2>1, MaxOf
<1>3. last \in 0 .. Len(q)
  <2>1. Found # {} => last \in 1 .. Len(q)
    BY <1>2
  <2>2. Found = {} => last = 0
    OBVIOUS
  <2> HIDE DEF last, Found
  <2>3. QED
    BY <2>1, <2>2, <1>1
<1>4. ASSUME NEW k \in DOMAIN q PROVE q[k].i < n <=> k <= last
  <2>1. q[k].i < n => k <= last
    <3>1. q[k].i < n => k \in Found
      BY <1>1
    <3> HIDE DEF Found
    <3>2. QED
      BY <1>2, <3>1
  <2>2. ASSUME k <= last PROVE q[k].i < n
    <3>1. Found # {}
      BY <2>2, <1>1
    <3>2. last \in 1 .. Len(q) /\ q[last].i < n
      BY <3>1, <1>2
    <3> HIDE DEF last
    <3>3. k = last \/ q[k].i < q[last].i
      BY <2>2, <3>2, <1>1 DEF Sorted
    <3>4. q[k].i \in Int /\ q[last].i \in Int
      <4>1. q[k] \in VecEntries /\ q[last] \in VecEntries
        BY <3>2, <1>1
      <4>2. QED
        BY <4>1 DEF VecEntries
    <3>5. QED
      BY <3>2, <3>3, <3>4
  <2>3. QED
    BY <2>1, <2>2
<1>5. SelectLastInSeq(q, LAMBDA e : e.i < n) = last
  BY DEF SelectLastInSeq
<1> HIDE DEF last
<1>6. QED
  BY <1>3, <1>4, <1>5

\* The first entries hold the first values.
LEMMA PrefixHolds ==
  ASSUME NEW dim \in Nat, NEW q, NEW d, Holds(q, dim, d), NEW n \in Nat, NEW last \in 0 .. Len(q),
         \A k \in DOMAIN q : q[k].i < n <=> k <= last
  PROVE  Holds(SubSeq(q, 1, last), n, [i \in 0 .. n - 1 |-> IF i < dim THEN d[i] ELSE 0])
<1> DEFINE r == SubSeq(q, 1, last)
           e == [i \in 0 .. n - 1 |-> IF i < dim THEN d[i] ELSE 0]
<1>1. /\ q \in Seq(VecEntries) /\ Sorted(q) /\ DOMAIN q = 1 .. Len(q) /\ Len(q) \in Nat
      /\ \A k \in DOMAIN q : q[k].i \in 0 .. dim - 1 /\ q[k].v = d[q[k].i]
      /\ \A j \in 0 .. dim - 1 : d[j] # 0 => \E k \in DOMAIN q : q[k].i = j
  BY DEF Holds
<1>2. r \in Seq(VecEntries) /\ DOMAIN r = 1 .. last /\ \A k \in 1 .. last : r[k] = q[k] /\ k \in DOMAIN q
  BY <1>1
<1> HIDE DEF r
<1>3. Sorted(r)
  BY <1>1, <1>2 DEF Sorted
<1>4. ASSUME NEW k \in DOMAIN r PROVE r[k].i \in 0 .. n - 1 /\ r[k].v = e[r[k].i]
  <2>1. r[k] = q[k] /\ k \in DOMAIN q /\ k <= last
    BY <1>1, <1>2
  <2>2. q[k].i \in 0 .. dim - 1 /\ q[k].i < n /\ q[k].v = d[q[k].i]
    BY <2>1, <1>1
  <2>3. QED
    BY <2>1, <2>2
<1>5. ASSUME NEW j \in 0 .. n - 1, e[j] # 0 PROVE \E k \in DOMAIN r : r[k].i = j
  <2>1. j \in 0 .. dim - 1 /\ d[j] # 0
    BY <1>5
  <2>2. PICK k \in DOMAIN q : q[k].i = j
    BY <2>1, <1>1
  <2>3. k \in DOMAIN r /\ r[k] = q[k]
    BY <2>2, <1>1, <1>2
  <2>4. QED
    BY <2>2, <2>3
<1> HIDE DEF e
<1>6. Holds(r, n, e)
  BY <1>2, <1>3, <1>4, <1>5 DEF Holds
<1>7. QED
  BY <1>6 DEF r, e

\* sleqp_vec_resize
LEMMA ResizeIsRight ==
  ASSUME NEW dim \in Nat, NEW x, NEW d, Right(x, dim, d), NEW n \in Nat
  PROVE  Right(Resize(x, n), n, [i \in 0 .. n - 1 |-> IF i < dim THEN d[i] ELSE 0])
<1> DEFINE last == SelectLastInSeq(x.nz, LAMBDA e : e.i < n)
           left == IF n < x.dim THEN SubSeq(x.nz, 1, last) ELSE x.nz
           e == [i \in 0 .. n - 1 |-> IF i < dim THEN d[i] ELSE 0]
<1>1. /\ x \in Vectors /\ x.dim = dim /\ Holds(x.nz, dim, d) /\ x.nz \in Seq(VecEntries) /\ Sorted(x.nz)
      /\ Len(x.nz) <= x.nnzMax /\ x.nnzMax \in Nat /\ Len(x.nz) \in Nat /\ DOMAIN x.nz = 1 .. Len(x.nz)
      /\ \A k \in DOMAIN x.nz : x.nz[k].i \in 0 .. dim - 1
      /\ d \in [0 .. dim - 1 -> Int]
      /\ x = [dim |-> x.dim, nnzMax |-> x.nnzMax, nz |-> x.nz]
  BY DEF Right, Holds, Vectors, DenseVectors
<1>2. last \in 0 .. Len(x.nz) /\ \A k \in DOMAIN x.nz : x.nz[k].i < n <=> k <= last
  <2>1. x.nz \in Seq(VecEntries) /\ Sorted(x.nz) /\ n \in Int
    BY <1>1
  <2>2. QED
    BY <2>1, LastBelow
<1>3. Resize(x, n) = [dim |-> n, nnzMax |-> x.nnzMax, nz |-> left]
  BY DEF Resize
<1> HIDE DEF last
<1>5. e \in DenseVectors(n)
  BY <1>1 DEF DenseVectors
<1>6. Holds(left, n, e) /\ Len(left) <= Len(x.nz)
  <2>1. CASE n < dim
    <3>1. left = SubSeq(x.nz, 1, last) /\ Len(left) = last
      BY <2>1, <1>1, <1>2
    <3>2. Holds(SubSeq(x.nz, 1, last), n, e)
      BY <1>1, <1>2, PrefixHolds
    <3>3. Len(left) <= Len(x.nz)
      BY <3>1, <1>2
    <3>4. QED
      BY <3>1, <3>2, <3>3
  <2>2. CASE ~(n < dim)
    <3>1. left = x.nz
      BY <2>2, <1>1
    <3>2. \A k \in DOMAIN x.nz : x.nz[k].i < n <=> k <= Len(x.nz)
      BY <2>2, <1>1
    <3>6. Len(x.nz) \in 0 .. Len(x.nz) /\ Holds(x.nz, dim, d)
      BY <1>1
    <3>3. Holds(SubSeq(x.nz, 1, Len(x.nz)), n, e)
      BY <3>2, <3>6, PrefixHolds
    <3>4. SubSeq(x.nz, 1, Len(x.nz)) = x.nz
      BY <1>1
    <3> HIDE DEF left
    <3>5. Len(left) <= Len(x.nz)
      <4>1. Len(x.nz) <= Len(x.nz)
        BY <1>1
      <4>2. QED
        BY <3>1, <4>1
    <3>7. Holds(left, n, e)
      BY <3>1, <3>3, <3>4
    <3>8. QED
      BY <3>5, <3>7
  <2>3. QED
    BY <2>1, <2>2
<1> HIDE DEF left, e
<1>7. Len(left) \in Nat
  BY <1>6 DEF Holds
<1>8. Len(left) <= x.nnzMax
  BY <1>1, <1>6, <1>7
<1>9. Right([dim |-> n, nnzMax |-> x.nnzMax, nz |-> left], n, e)
  BY <1>1, <1>5, <1>6, <1>8, PushedIsRight
<1>10. QED
  BY <1>3, <1>9 DEF e

\* Values that are computed one by one
LEMMA ValuesChange ==
  ASSUME NEW dim \in Nat, NEW q, NEW d, Holds(q, dim, d), NEW e, NEW f, Computes(q, f, dim, e),
         \A i \in 0 .. dim - 1 : d[i] = 0 => e[i] = 0
  PROVE  Holds(WithValues(q, f), dim, e) /\ Len(WithValues(q, f)) = Len(q)
<1> USE DEF Computes
<1> DEFINE r == WithValues(q, f)
<1>1. /\ q \in Seq(VecEntries) /\ Sorted(q) /\ DOMAIN q = 1 .. Len(q) /\ Len(q) \in Nat
      /\ \A k \in DOMAIN q : q[k].i \in 0 .. dim - 1
      /\ \A j \in 0 .. dim - 1 : d[j] # 0 => \E k \in DOMAIN q : q[k].i = j
  BY DEF Holds
<1>2. DOMAIN r = DOMAIN q /\ \A k \in DOMAIN q : r[k].i = q[k].i /\ r[k].v = e[q[k].i]
  BY DEF Entry, WithValues
<1>3. r \in Seq(VecEntries) /\ Len(r) = Len(q)
  <2>1. \A k \in 1 .. Len(q) : Entry(q[k].i, f[k]) \in VecEntries
    <3> TAKE k \in 1 .. Len(q)
    <3>1. q[k].i \in 0 .. dim - 1 /\ f[k] = e[q[k].i]
      BY <1>1
    <3>2. e[q[k].i] \in Int
      BY <3>1 DEF DenseVectors
    <3>3. QED
      BY <3>1, <3>2 DEF VecEntries, Entry
  <2>2. r = [k \in 1 .. Len(q) |-> Entry(q[k].i, f[k])]
    BY <1>1 DEF WithValues
  <2>3. QED
    BY <1>1, <2>1, <2>2
<1> HIDE DEF r
<1>4. Sorted(r)
  BY <1>1, <1>2 DEF Sorted
<1>5. \A i \in 0 .. dim - 1 : e[i] # 0 => \E k \in DOMAIN r : r[k].i = i
  BY <1>1, <1>2
<1>6. Holds(r, dim, e)
  BY <1>1, <1>2, <1>3, <1>4, <1>5 DEF Holds
<1>7. QED
  BY <1>3, <1>6 DEF r

\* sleqp_vec_scale
LEMMA ScaleIsRight ==
  ASSUME NEW dim \in Nat, NEW x, NEW d, Right(x, dim, d), NEW v \in Int
  PROVE  Right(Scale(x, v), dim, [i \in DOMAIN d |-> v * d[i]])
<1> DEFINE e == [i \in DOMAIN d |-> v * d[i]]
           r == [k \in DOMAIN x.nz |-> Entry(x.nz[k].i, v * x.nz[k].v)]
<1>1. /\ x \in Vectors /\ x.dim = dim /\ Holds(x.nz, dim, d) /\ x.nz \in Seq(VecEntries)
      /\ Len(x.nz) <= x.nnzMax /\ x.nnzMax \in Nat /\ Len(x.nz) \in Nat
      /\ \A k \in DOMAIN x.nz : x.nz[k].i \in 0 .. dim - 1 /\ x.nz[k].v = d[x.nz[k].i]
      /\ d \in [0 .. dim - 1 -> Int]
      /\ x = [dim |-> dim, nnzMax |-> x.nnzMax, nz |-> x.nz]
  BY DEF Right, Holds, Vectors, DenseVectors
<1>2. v * 0 = 0 /\ \A a \in Int : v * a \in Int /\ 0 * a = 0
  OBVIOUS
<1>3. DOMAIN d = 0 .. dim - 1
  BY <1>1
<1>4. e \in DenseVectors(dim)
  BY <1>1, <1>2, <1>3 DEF DenseVectors
<1>5. CASE v = 0
  <2>1. Scale(x, v) = [dim |-> dim, nnzMax |-> x.nnzMax, nz |-> <<>>]
    BY <1>1, <1>5 DEF Scale, Clear
  <2>2. \A i \in 0 .. dim - 1 : e[i] = 0
    BY <1>1, <1>2, <1>3, <1>5
  <2> HIDE DEF e
  <2>3. Holds(<<>>, dim, e) /\ Len(<<>>) <= x.nnzMax
    BY <2>2, <1>1 DEF Holds, Sorted
  <2>4. Right([dim |-> dim, nnzMax |-> x.nnzMax, nz |-> <<>>], dim, e)
    BY <2>3, <1>1, <1>4, PushedIsRight
  <2>5. QED
    BY <2>1, <2>4 DEF e
<1>6. CASE v # 0
  <2> DEFINE f == [k \in DOMAIN x.nz |-> v * x.nz[k].v]
  <2>1. Scale(x, v) = [dim |-> dim, nnzMax |-> x.nnzMax, nz |-> r]
    <3>1. Scale(x, v) = [x EXCEPT !.nz = r]
      BY <1>6 DEF Scale
    <3> HIDE DEF r
    <3>2. QED
      BY <3>1, <1>1
  <2>2. r = WithValues(x.nz, f)
    BY DEF WithValues
  <2>3. Computes(x.nz, f, dim, e)
    <3>1. \A k \in DOMAIN x.nz : f[k] = e[x.nz[k].i]
      BY <1>1, <1>3
    <3>2. QED
      BY <3>1, <1>4 DEF Computes
  <2>4. \A i \in 0 .. dim - 1 : d[i] = 0 => e[i] = 0
    BY <1>2, <1>3
  <2> HIDE DEF e, f, r
  <2>5. Holds(r, dim, e) /\ Len(r) = Len(x.nz)
    <3>1. Holds(x.nz, dim, d)
      BY <1>1
    <3>2. QED
      BY <2>2, <2>3, <2>4, <3>1, ValuesChange
  <2>6. Len(r) <= x.nnzMax
    BY <2>5, <1>1
  <2>7. Right([dim |-> dim, nnzMax |-> x.nnzMax, nz |-> r], dim, e)
    BY <2>5, <2>6, <1>1, <1>4, PushedIsRight
  <2>8. QED
    BY <2>1, <2>7 DEF e
<1>7. QED
  BY <1>5, <1>6

\* sleqp_vec_fill
LEMMA FillIsRight ==
  ASSUME NEW dim \in Nat, NEW x, NEW d, Right(x, dim, d), NEW v \in Int
  PROVE  Right(Fill(x, v), dim, [i \in DOMAIN d |-> v])
<1> DEFINE e == [i \in DOMAIN d |-> v]
<1>1. /\ x \in Vectors /\ x.dim = dim /\ x.nnzMax \in Nat /\ d \in [0 .. dim - 1 -> Int]
      /\ x = [dim |-> dim, nnzMax |-> x.nnzMax, nz |-> x.nz]
  BY DEF Right, Vectors, DenseVectors
<1>2. e \in DenseVectors(dim) /\ \A i \in 0 .. dim - 1 : e[i] = v
  BY <1>1 DEF DenseVectors
<1>3. CASE v = 0
  <2>1. Fill(x, v) = [dim |-> dim, nnzMax |-> x.nnzMax, nz |-> <<>>]
    BY <1>1, <1>3 DEF Fill, Clear
  <2> HIDE DEF e
  <2>2. Holds(<<>>, dim, e) /\ Len(<<>>) <= x.nnzMax
    BY <1>1, <1>2, <1>3 DEF Holds, Sorted
  <2>3. Right([dim |-> dim, nnzMax |-> x.nnzMax, nz |-> <<>>], dim, e)
    BY <2>2, <1>1, <1>2, PushedIsRight
  <2>4. QED
    BY <2>1, <2>3 DEF e
<1>4. CASE v # 0
  <2> DEFINE r == [k \in 1 .. dim |-> Entry(k - 1, e[k - 1])]
  <2>1. r = [k \in 1 .. x.dim |-> Entry(k - 1, v)]
    BY <1>1, <1>2
  <2>2. Len(r) = dim
    OBVIOUS
  <2>3. Fill(x, v) = [dim |-> dim, nnzMax |-> Greater(x.nnzMax, dim), nz |-> r]
    <3>1. Fill(x, v) = [Reserve(x, dim) EXCEPT !.nz = r]
      BY <2>1, <1>1, <1>4 DEF Fill
    <3> HIDE DEF r
    <3>2. Reserve(x, dim) = [dim |-> dim, nnzMax |-> Greater(x.nnzMax, dim), nz |-> x.nz]
      BY <1>1 DEF Reserve
    <3>3. QED
      BY <3>1, <3>2
  <2>4. Greater(x.nnzMax, dim) \in Nat /\ dim <= Greater(x.nnzMax, dim)
    BY <1>1 DEF Greater
  <2>5. Holds(r, dim, e)
    BY <1>2, DenseEntriesHold
  <2> HIDE DEF e, r
  <2>6. Right([dim |-> dim, nnzMax |-> Greater(x.nnzMax, dim), nz |-> r], dim, e)
    BY <2>2, <2>4, <2>5, <1>2, PushedIsRight
  <2>7. QED
    BY <2>3, <2>6 DEF e
<1>5. QED
  BY <1>3, <1>4

\* sleqp_vec_add_scaled: there is room for the entries of both vectors.
LEMMA AddScaledIsRight ==
  ASSUME NEW dim \in Nat, NEW x, NEW d, Right(x, dim, d), NEW y, NEW dy, Right(y, dim, dy),
         NEW a \in Int, NEW b \in Int, NEW result \in Vectors
  PROVE  Right(AddScaled(x, y, a, b, result), dim, [i \in 0 .. dim - 1 |-> a * d[i] + b * dy[i]])
<1> DEFINE e == [i \in 0 .. dim - 1 |-> a * d[i] + b * dy[i]]
           z == CreateVec(dim, 0)
           dz == [i \in 0 .. dim - 1 |-> 0]
           J == Joint2(x, y)
           f == [k \in DOMAIN J |-> a * J[k].x + b * J[k].y]
           q == NonZero(WithValues(J, f))
<1>1. /\ x.dim = dim /\ x.nz \in Seq(VecEntries) /\ y.nz \in Seq(VecEntries) /\ Len(x.nz) \in Nat /\ Len(y.nz) \in Nat
      /\ d \in [0 .. dim - 1 -> Int] /\ dy \in [0 .. dim - 1 -> Int]
  BY DEF Right, Holds, DenseVectors
<1>2. /\ JointHolds(J, dim, d, dy, dz)
      /\ \A k \in DOMAIN J : (\E p \in DOMAIN x.nz : x.nz[p].i = J[k].i)
                               \/ (\E p \in DOMAIN y.nz : y.nz[p].i = J[k].i)
  <2>1. J = Joint(x, y, z)
    BY <1>1 DEF Joint2
  <2>2. Right(z, dim, dz) /\ z.nz = <<>>
    BY NothingIsRight DEF CreateVec
  <2>3. DOMAIN z.nz = {}
    BY <2>2
  <2> HIDE DEF J, z, dz
  <2>4. QED
    BY <2>1, <2>2, <2>3, JointHoldsValues
<1>3. e \in DenseVectors(dim)
  BY <1>1 DEF DenseVectors
<1>4. Computes(J, f, dim, e)
  <2>1. \A k \in DOMAIN J : f[k] = e[J[k].i]
    BY <1>2 DEF JointHolds
  <2>2. QED
    BY <2>1, <1>3 DEF Computes
<1>5. \A i \in 0 .. dim - 1 : d[i] = 0 /\ dy[i] = 0 /\ dz[i] = 0 => e[i] = 0
  <2>1. a * 0 + b * 0 = 0
    OBVIOUS
  <2>2. QED
    BY <2>1
<1>6. AddScaled(x, y, a, b, result) = PushAll(Reserve(Resize(Clear(result), dim), Len(x.nz) + Len(y.nz)), q)
  <2>1. WithValues(J, f) = [k \in DOMAIN J |-> Entry(J[k].i, a * J[k].x + b * J[k].y)]
    BY DEF WithValues
  <2>2. QED
    BY <2>1, <1>1 DEF AddScaled, NnzOf
<1> HIDE DEF e, J, f, dz
<1>7. Holds(q, dim, e) /\ \A k \in DOMAIN q : q[k].v # 0 /\ \E l \in DOMAIN J : J[l].i = q[k].i
  BY <1>2, <1>4, <1>5, ComputedHolds
<1> HIDE DEF q
<1>8. q \in Seq(VecEntries) /\ Sorted(q) /\ Len(q) \in Nat
  BY <1>7 DEF Holds
<1>9. Len(q) <= Len(x.nz) + Len(y.nz)
  <2>1. \A k \in DOMAIN q : (\E p \in DOMAIN x.nz : x.nz[p].i = q[k].i) \/ (\E p \in DOMAIN y.nz : y.nz[p].i = q[k].i)
    BY <1>2, <1>7
  <2>2. QED
    BY <2>1, <1>1, <1>8, UnionFits
<1> DEFINE n == Len(x.nz) + Len(y.nz)
           room == Greater(result.nnzMax, n)
<1>10. n \in Nat /\ Len(q) <= n
  <2>1. \A k, l \in Nat : k + l \in Nat
    OBVIOUS
  <2>2. QED
    BY <2>1, <1>1, <1>9
<1>11. /\ Reserve(Resize(Clear(result), dim), n) = [dim |-> dim, nnzMax |-> room, nz |-> <<>>]
       /\ room \in Nat /\ Len(q) <= room
  <2> HIDE DEF n
  <2>1. /\ Reserve(Resize(Clear(result), dim), n) = [dim |-> dim, nnzMax |-> room, nz |-> <<>>]
        /\ room \in Nat /\ n <= room
    BY <1>10, RoomIsMade
  <2> HIDE DEF room
  <2>2. Len(q) <= room
    BY <2>1, <1>8, <1>10
  <2>3. QED
    BY <2>1, <2>2
<1> HIDE DEF room
<1>12. AddScaled(x, y, a, b, result) = [dim |-> dim, nnzMax |-> room, nz |-> q]
  <2>1. PushAll([dim |-> dim, nnzMax |-> room, nz |-> <<>>], q) = [dim |-> dim, nnzMax |-> room, nz |-> q]
    BY <1>8, PushAllOnNothing
  <2>2. QED
    BY <1>6, <1>11, <2>1
<1>13. Right([dim |-> dim, nnzMax |-> room, nz |-> q], dim, e)
  BY <1>3, <1>7, <1>11, PushedIsRight
<1>14. QED
  BY <1>12, <1>13 DEF e

\* sleqp_vec_concat
LEMMA ConcatIsRight ==
  ASSUME NEW dim \in Nat, NEW x, NEW d, Right(x, dim, d),
         NEW dimy \in Nat, NEW y, NEW dy, Right(y, dimy, dy), NEW result \in Vectors
  PROVE  Right(Concat(x, y, result), dim + dimy,
               [i \in 0 .. dim + dimy - 1 |-> IF i < dim THEN d[i] ELSE dy[i - dim]])
<1> DEFINE a == x.nz
           b == y.nz
           c == [k \in DOMAIN b |-> Entry(b[k].i + dim, b[k].v)]
           q == a \o c
           e == [i \in 0 .. dim + dimy - 1 |-> IF i < dim THEN d[i] ELSE dy[i - dim]]
           n == Len(a) + Len(b)
           room == Greater(result.nnzMax, n)
<1>1. /\ a \in Seq(VecEntries) /\ Sorted(a) /\ DOMAIN a = 1 .. Len(a) /\ Len(a) \in Nat /\ x.dim = dim
      /\ \A k \in DOMAIN a : a[k].i \in 0 .. dim - 1 /\ a[k].v = d[a[k].i]
      /\ \A j \in 0 .. dim - 1 : d[j] # 0 => \E k \in DOMAIN a : a[k].i = j
      /\ d \in [0 .. dim - 1 -> Int]
  BY DEF Right, Holds, DenseVectors
<1>2. /\ b \in Seq(VecEntries) /\ Sorted(b) /\ DOMAIN b = 1 .. Len(b) /\ Len(b) \in Nat /\ y.dim = dimy
      /\ \A k \in DOMAIN b : b[k].i \in 0 .. dimy - 1 /\ b[k].v = dy[b[k].i]
      /\ \A j \in 0 .. dimy - 1 : dy[j] # 0 => \E k \in DOMAIN b : b[k].i = j
      /\ dy \in [0 .. dimy - 1 -> Int]
  BY DEF Right, Holds, DenseVectors
<1>3. n \in Nat /\ dim + dimy \in Nat
  <2>1. \A k, l \in Nat : k + l \in Nat
    OBVIOUS
  <2>2. QED
    BY <2>1, <1>1, <1>2
<1>4. Concat(x, y, result) = PushAll(Resize(Reserve(Clear(result), n), dim + dimy), q)
  BY <1>1, <1>2 DEF Concat, NnzOf
<1> HIDE DEF a, b, n
<1>5. /\ \A k \in DOMAIN b : c[k].i = b[k].i + dim /\ c[k].v = b[k].v
      /\ c \in Seq(VecEntries) /\ Len(c) = Len(b) /\ DOMAIN c = DOMAIN b
  <2>1. \A k \in DOMAIN b : c[k].i = b[k].i + dim /\ c[k].v = b[k].v
    BY DEF Entry
  <2>2. ASSUME NEW k \in 1 .. Len(b) PROVE Entry(b[k].i + dim, b[k].v) \in VecEntries
    <3>1. b[k] \in VecEntries
      BY <1>2
    <3>2. b[k].i \in Int /\ b[k].v \in Int
      BY <3>1 DEF VecEntries
    <3> DEFINE i == b[k].i
               v == b[k].v
    <3> HIDE DEF i, v
    <3>3. i \in Int /\ v \in Int
      BY <3>2 DEF i, v
    <3>4. i + dim \in Int
      BY <3>3
    <3>5. Entry(i + dim, v) \in VecEntries
      BY <3>3, <3>4 DEF Entry, VecEntries
    <3>6. QED
      BY <3>5 DEF i, v
  <2>3. c = [k \in 1 .. Len(b) |-> Entry(b[k].i + dim, b[k].v)]
    BY <1>2
  <2>4. c \in Seq(VecEntries) /\ Len(c) = Len(b)
    BY <1>2, <2>2, <2>3
  <2>5. QED
    BY <2>1, <2>4
<1> HIDE DEF c
<1>6. /\ q \in Seq(VecEntries) /\ Len(q) = Len(a) + Len(b) /\ DOMAIN q = 1 .. Len(a) + Len(b)
      /\ \A k \in 1 .. Len(a) : q[k] = a[k]
      /\ \A k \in 1 .. Len(b) : q[Len(a) + k] = c[k]
  <2>1. a \in Seq(VecEntries) /\ c \in Seq(VecEntries) /\ Len(c) = Len(b)
    BY <1>1, <1>5
  <2>2. q \in Seq(VecEntries) /\ Len(q) = Len(a) + Len(c) /\ DOMAIN q = 1 .. Len(q)
    BY <2>1
  <2>3. \A k \in 1 .. Len(a) : q[k] = a[k]
    BY <2>1
  <2>4. \A k \in 1 .. Len(c) : q[Len(a) + k] = c[k]
    BY <2>1
  <2> HIDE DEF q
  <2>5. QED
    BY <2>1, <2>2, <2>3, <2>4
<1> HIDE DEF q
<1>7. ASSUME NEW k \in DOMAIN q
      PROVE  \/ k \in DOMAIN a /\ q[k] = a[k]
             \/ k > Len(a) /\ k - Len(a) \in DOMAIN b /\ q[k] = c[k - Len(a)]
  <2>1. CASE k <= Len(a)
    BY <2>1, <1>1, <1>2, <1>6
  <2>2. CASE ~(k <= Len(a))
    <3>1. k - Len(a) \in 1 .. Len(b) /\ Len(a) + (k - Len(a)) = k
      <4>1. \A l, m \in Nat : \A j \in 1 .. l + m : ~(j <= l) => j - l \in 1 .. m /\ l + (j - l) = j
        OBVIOUS
      <4>2. QED
        BY <4>1, <2>2, <1>1, <1>2, <1>6
    <3>2. q[k] = c[k - Len(a)]
      BY <3>1, <1>6
    <3>3. k > Len(a)
      BY <2>2, <1>1, <1>6
    <3>4. QED
      BY <3>1, <3>2, <3>3, <1>2
  <2>3. QED
    BY <2>1, <2>2
<1>8. ASSUME NEW k \in DOMAIN q
      PROVE  /\ q[k].i \in 0 .. dim + dimy - 1 /\ q[k].v = e[q[k].i]
             /\ k \in DOMAIN a => q[k].i < dim
             /\ k > Len(a) => q[k].i >= dim
  <2>1. CASE k \in DOMAIN a /\ q[k] = a[k]
    BY <2>1, <1>1
  <2>2. CASE k > Len(a) /\ k - Len(a) \in DOMAIN b /\ q[k] = c[k - Len(a)]
    <3> DEFINE l == k - Len(a)
    <3>1. l \in DOMAIN b /\ q[k].i = b[l].i + dim /\ q[k].v = dy[b[l].i] /\ b[l].i \in 0 .. dimy - 1
      BY <2>2, <1>2, <1>5
    <3>2. k \notin DOMAIN a
      BY <2>2, <1>1
    <3> HIDE DEF l
    <3>3. q[k].i \in 0 .. dim + dimy - 1 /\ q[k].i >= dim /\ q[k].i - dim = b[l].i
      BY <3>1
    <3>4. e[q[k].i] = dy[q[k].i - dim]
      BY <3>3
    <3>5. QED
      BY <3>1, <3>2, <3>3, <3>4
  <2>3. QED
    BY <2>1, <2>2, <1>7
<1>9. Sorted(q)
  <2> SUFFICES ASSUME NEW j \in DOMAIN q, NEW k \in DOMAIN q, j < k PROVE q[j].i < q[k].i
    BY DEF Sorted
  <2>1. CASE k \in DOMAIN a /\ q[k] = a[k]
    <3>1. j \in DOMAIN a /\ q[j] = a[j]
      BY <2>1, <1>1, <1>6
    <3>2. QED
      BY <2>1, <3>1, <1>1 DEF Sorted
  <2>2. CASE k > Len(a) /\ k - Len(a) \in DOMAIN b /\ q[k] = c[k - Len(a)]
    <3>1. CASE j \in DOMAIN a
      <4>1. q[j].i < dim /\ q[k].i >= dim /\ q[j].i \in Int /\ q[k].i \in Int
        <5>1. q[j].i < dim /\ q[j].i \in Int
          <6>1. j \in DOMAIN a => q[j].i < dim
            BY <1>8
          <6>2. q[j].i \in 0 .. dim + dimy - 1
            BY <1>8
          <6>3. QED
            BY <6>1, <6>2, <3>1
        <5>2. q[k].i >= dim /\ q[k].i \in Int
          <6>1. k > Len(a) => q[k].i >= dim
            BY <1>8
          <6>2. q[k].i \in 0 .. dim + dimy - 1
            BY <1>8
          <6>3. QED
            BY <6>1, <6>2, <2>2
        <5>3. QED
          BY <5>1, <5>2
      <4>2. QED
        BY <4>1
    <3>2. CASE j \notin DOMAIN a
      <4>1. j > Len(a) /\ j - Len(a) \in DOMAIN b /\ q[j] = c[j - Len(a)]
        BY <3>2, <1>7
      <4>2. j - Len(a) < k - Len(a)
        BY <1>1, <1>6
      <4>3. b[j - Len(a)].i < b[k - Len(a)].i
        BY <2>2, <4>1, <4>2, <1>2 DEF Sorted
      <4>4. b[j - Len(a)].i \in Int /\ b[k - Len(a)].i \in Int
        BY <2>2, <4>1, <1>2
      <4>5. q[j].i = b[j - Len(a)].i + dim /\ q[k].i = b[k - Len(a)].i + dim
        BY <2>2, <4>1, <1>5
      <4>6. QED
        BY <4>3, <4>4, <4>5
    <3>3. QED
      BY <3>1, <3>2
  <2>3. QED
    BY <2>1, <2>2, <1>7
<1>10. ASSUME NEW i \in 0 .. dim + dimy - 1, e[i] # 0 PROVE \E k \in DOMAIN q : q[k].i = i
  <2>1. CASE i < dim
    <3>1. PICK k \in DOMAIN a : a[k].i = i
      BY <2>1, <1>1, <1>10
    <3>2. k \in DOMAIN q /\ q[k] = a[k]
      <4>1. \A l, m \in Nat : \A j \in 1 .. l : j \in 1 .. l + m
        OBVIOUS
      <4>2. QED
        BY <4>1, <1>1, <1>2, <1>6
    <3>3. QED
      BY <3>1, <3>2
  <2>2. CASE ~(i < dim)
    <3>1. i - dim \in 0 .. dimy - 1 /\ dy[i - dim] # 0
      BY <2>2, <1>10
    <3>2. PICK k \in DOMAIN b : b[k].i = i - dim
      BY <3>1, <1>2
    <3>3. Len(a) + k \in DOMAIN q /\ q[Len(a) + k] = c[k]
      <4>1. \A l, m \in Nat : \A j \in 1 .. m : l + j \in 1 .. l + m
        OBVIOUS
      <4>2. QED
        BY <4>1, <1>1, <1>2, <1>6
    <3>4. c[k].i = i
      BY <3>2, <1>5
    <3>5. QED
      BY <3>3, <3>4
  <2>3. QED
    BY <2>1, <2>2
<1>11. e \in DenseVectors(dim + dimy)
  <2> SUFFICES ASSUME NEW i \in 0 .. dim + dimy - 1 PROVE e[i] \in Int
    BY DEF DenseVectors
  <2>1. i < dim => i \in 0 .. dim - 1
    OBVIOUS
  <2>2. ~(i < dim) => i - dim \in 0 .. dimy - 1
    OBVIOUS
  <2>3. QED
    BY <2>1, <2>2, <1>1, <1>2
<1> HIDE DEF e
<1>12. Holds(q, dim + dimy, e)
  BY <1>6, <1>8, <1>9, <1>10 DEF Holds
<1>13. /\ Resize(Reserve(Clear(result), n), dim + dimy) = [dim |-> dim + dimy, nnzMax |-> room, nz |-> <<>>]
       /\ room \in Nat /\ Len(q) <= room
  <2> DEFINE r == Reserve(Clear(result), n)
  <2>1. r = [dim |-> result.dim, nnzMax |-> room, nz |-> <<>>] /\ room \in Nat /\ n <= room
    BY <1>3, RoomIsMade
  <2> HIDE DEF r, room
  <2>2. r \in Vectors /\ Clear(r) = r /\ r.nnzMax = room
    BY <2>1 DEF Vectors, Clear
  <2>3. Resize(Clear(r), dim + dimy) = [dim |-> dim + dimy, nnzMax |-> r.nnzMax, nz |-> <<>>]
    BY <2>2, <1>3, ClearedAndResized
  <2>4. Len(q) <= room
    BY <2>1, <1>6 DEF n
  <2>5. QED
    BY <2>1, <2>2, <2>3, <2>4 DEF r
<1> HIDE DEF room
<1>14. Concat(x, y, result) = [dim |-> dim + dimy, nnzMax |-> room, nz |-> q]
  BY <1>4, <1>6, <1>13, PushAllOnNothing
<1>15. Right([dim |-> dim + dimy, nnzMax |-> room, nz |-> q], dim + dimy, e)
  BY <1>3, <1>11, <1>12, <1>13, PushedIsRight
<1>16. QED
  BY <1>14, <1>15 DEF e

\* sleqp_vec_is_boxed
LEMMA BoxedValues ==
  ASSUME NEW dim \in Nat, NEW x, NEW d, Right(x, dim, d), NEW lb, NEW dl, Right(lb, dim, dl),
         NEW ub, NEW du, Right(ub, dim, du)
  PROVE  IsBoxed(x, lb, ub) <=> \A i \in 0 .. dim - 1 : dl[i] <= d[i] /\ d[i] <= du[i]
<1> DEFINE J == Joint(x, lb, ub)
<1>1. JointHolds(J, dim, d, dl, du)
  BY JointHoldsValues
<1>2. IsBoxed(x, lb, ub) <=> \A k \in DOMAIN J : J[k].y <= J[k].x /\ J[k].x <= J[k].z
  BY DEF IsBoxed
<1> HIDE DEF J
<1>3. /\ \A k \in DOMAIN J : /\ J[k].i \in 0 .. dim - 1 /\ J[k].x = d[J[k].i] /\ J[k].y = dl[J[k].i]
                             /\ J[k].z = du[J[k].i]
      /\ \A i \in 0 .. dim - 1 : d[i] # 0 \/ dl[i] # 0 \/ du[i] # 0 => \E k \in DOMAIN J : J[k].i = i
  BY <1>1 DEF JointHolds
<1>4. ASSUME IsBoxed(x, lb, ub), NEW i \in 0 .. dim - 1 PROVE dl[i] <= d[i] /\ d[i] <= du[i]
  <2>1. CASE \E k \in DOMAIN J : J[k].i = i
    BY <2>1, <1>2, <1>3, <1>4
  <2>2. CASE ~\E k \in DOMAIN J : J[k].i = i
    BY <2>2, <1>3
  <2>3. QED
    BY <2>1, <2>2
<1>5. QED
  BY <1>2, <1>3, <1>4

\* sleqp_vec_clip: entries of the result are entries of the vector or of
\* both bounds, hence of the vector or of the lower bound.
LEMMA ClipIsRight ==
  ASSUME NEW dim \in Nat, NEW x, NEW d, Right(x, dim, d), NEW lb, NEW dl, Right(lb, dim, dl),
         NEW ub, NEW du, Right(ub, dim, du), \A i \in 0 .. dim - 1 : dl[i] <= du[i],
         NEW result \in Vectors, result.dim = dim
  PROVE  Right(Clip(x, lb, ub, result), dim,
               [i \in 0 .. dim - 1 |-> Greater(Lesser(d[i], du[i]), dl[i])])
<1> DEFINE e == [i \in 0 .. dim - 1 |-> Greater(Lesser(d[i], du[i]), dl[i])]
           J == Joint(x, lb, ub)
           f == [k \in DOMAIN J |-> Greater(Lesser(J[k].x, J[k].z), J[k].y)]
           q == NonZero(WithValues(J, f))
           n == Lesser(dim, Greater(Len(lb.nz), Len(x.nz)) + Greater(Len(ub.nz), Len(x.nz)))
           room == Greater(result.nnzMax, n)
<1>1. /\ x.dim = dim /\ x.nz \in Seq(VecEntries) /\ lb.nz \in Seq(VecEntries)
      /\ Len(x.nz) \in Nat /\ Len(lb.nz) \in Nat /\ Len(ub.nz) \in Nat
      /\ d \in [0 .. dim - 1 -> Int] /\ dl \in [0 .. dim - 1 -> Int] /\ du \in [0 .. dim - 1 -> Int]
      /\ \A i \in 0 .. dim - 1 : d[i] # 0 => \E k \in DOMAIN x.nz : x.nz[k].i = i
      /\ \A i \in 0 .. dim - 1 : dl[i] # 0 => \E k \in DOMAIN lb.nz : lb.nz[k].i = i
  BY DEF Right, Holds, DenseVectors
<1>2. JointHolds(J, dim, d, dl, du)
  <2> HIDE DEF J
  <2>1. QED
    BY JointHoldsValues DEF J
<1>3. e \in DenseVectors(dim)
  BY <1>1 DEF DenseVectors, Greater, Lesser
<1>4. Computes(J, f, dim, e)
  <2>1. \A k \in DOMAIN J : f[k] = e[J[k].i]
    BY <1>2 DEF JointHolds
  <2>2. QED
    BY <2>1, <1>3 DEF Computes
<1>5. ASSUME NEW i \in 0 .. dim - 1, d[i] = 0, dl[i] = 0 PROVE e[i] = 0
  <2>1. du[i] \in Int /\ 0 <= du[i]
    BY <1>1, <1>5
  <2>2. Greater(Lesser(0, du[i]), 0) = 0
    BY <2>1 DEF Greater, Lesser
  <2>3. QED
    BY <2>2, <1>5
<1>6. Clip(x, lb, ub, result) = PushAll(Reserve(Clear(result), n), q)
  <2>1. WithValues(J, f) = [k \in DOMAIN J |-> Entry(J[k].i, Greater(Lesser(J[k].x, J[k].z), J[k].y))]
    BY DEF WithValues
  <2>2. QED
    BY <2>1, <1>1 DEF Clip, NnzOf
<1> HIDE DEF e, J, f
<1>7. Holds(q, dim, e) /\ \A k \in DOMAIN q : q[k].v # 0
  <2>1. \A i \in 0 .. dim - 1 : d[i] = 0 /\ dl[i] = 0 /\ du[i] = 0 => e[i] = 0
    BY <1>5
  <2>2. QED
    BY <2>1, <1>2, <1>4, ComputedHolds
<1> HIDE DEF q
<1>8. q \in Seq(VecEntries) /\ Sorted(q) /\ Len(q) \in Nat
      /\ \A k \in DOMAIN q : q[k].i \in 0 .. dim - 1 /\ q[k].v = e[q[k].i]
  BY <1>7 DEF Holds
<1>9. Len(q) <= Len(x.nz) + Len(lb.nz)
  <2>1. ASSUME NEW k \in DOMAIN q
        PROVE  (\E p \in DOMAIN x.nz : x.nz[p].i = q[k].i) \/ (\E p \in DOMAIN lb.nz : lb.nz[p].i = q[k].i)
    <3>1. q[k].i \in 0 .. dim - 1 /\ e[q[k].i] # 0
      BY <1>7, <1>8
    <3>2. d[q[k].i] # 0 \/ dl[q[k].i] # 0
      BY <3>1, <1>5
    <3>3. QED
      BY <3>1, <3>2, <1>1
  <2>2. QED
    BY <2>1, <1>1, <1>8, UnionFits
<1>10. n \in Nat /\ Len(q) <= n
  <2>1. Len(q) <= dim
    BY <1>7, EntriesFit
  <2>2. \A j, k, l, m \in Nat : /\ Lesser(m, Greater(j, k) + Greater(l, k)) \in Nat
                                /\ k + j <= Greater(j, k) + Greater(l, k)
                                /\ Greater(j, k) + Greater(l, k) \in Nat
    BY DEF Greater, Lesser
  <2> DEFINE s == Greater(Len(lb.nz), Len(x.nz)) + Greater(Len(ub.nz), Len(x.nz))
  <2>3. s \in Nat /\ Len(x.nz) + Len(lb.nz) <= s /\ n = Lesser(dim, s) /\ n \in Nat
    BY <2>2, <1>1
  <2>4. Len(x.nz) + Len(lb.nz) \in Nat
    <3>1. \A j, k \in Nat : j + k \in Nat
      OBVIOUS
    <3>2. QED
      BY <3>1, <1>1
  <2> DEFINE m == Len(x.nz) + Len(lb.nz)
             l == Len(q)
  <2> HIDE DEF n, s, m, l
  <2>5. /\ l \in Nat /\ m \in Nat /\ s \in Nat /\ l <= m /\ m <= s /\ l <= dim
        /\ n = Lesser(dim, s) /\ n \in Nat
    BY <2>1, <2>3, <2>4, <1>8, <1>9 DEF m, l
  <2>6. l <= n
    BY <2>5 DEF Lesser
  <2>7. QED
    BY <2>5, <2>6 DEF l
<1> HIDE DEF n
<1>11. /\ Reserve(Clear(result), n) = [dim |-> dim, nnzMax |-> room, nz |-> <<>>]
       /\ room \in Nat /\ Len(q) <= room
  <2>1. /\ Reserve(Clear(result), n) = [dim |-> dim, nnzMax |-> room, nz |-> <<>>]
        /\ room \in Nat /\ n <= room
    BY <1>10, RoomIsMade
  <2> HIDE DEF room
  <2>2. Len(q) <= room
    BY <2>1, <1>8, <1>10
  <2>3. QED
    BY <2>1, <2>2
<1> HIDE DEF room
<1>12. Clip(x, lb, ub, result) = [dim |-> dim, nnzMax |-> room, nz |-> q]
  <2>1. PushAll([dim |-> dim, nnzMax |-> room, nz |-> <<>>], q) = [dim |-> dim, nnzMax |-> room, nz |-> q]
    BY <1>8, PushAllOnNothing
  <2>2. QED
    BY <1>6, <1>11, <2>1
<1>13. Right([dim |-> dim, nnzMax |-> room, nz |-> q], dim, e)
  BY <1>3, <1>7, <1>11, PushedIsRight
<1>14. QED
  BY <1>12, <1>13 DEF e
-----------------------------------------------------------------------------
(* Lists of indices                                                        *)

\* numbers from 0 to n - 1 in ascending order
Ascends(list, n) ==
  /\ list \in Seq(Nat) /\ \A k \in DOMAIN list : list[k] \in 0 .. n - 1
  /\ \A j, k \in DOMAIN list : j < k => list[j] < list[k]
Among(list, i) == \E k \in DOMAIN list : list[k] = i

LEMMA PickedAscends ==
  ASSUME NEW n \in Nat, NEW K
  PROVE  /\ Ascends(Picked(IndicesBelow(n), K), n)
         /\ \A i \in 0 .. n - 1 : Among(Picked(IndicesBelow(n), K), i) <=> i + 1 \in K
<1> DEFINE s == IndicesBelow(n)
           p == Picked(s, K)
<1>1. s \in Seq(Nat) /\ Len(s) = n /\ \A k \in 1 .. n : s[k] = k - 1
  BY DEF IndicesBelow
<1> HIDE DEF s
<1>2. p \in Seq(Nat) /\ \E f : Picks(p, s, K, n, f)
  BY <1>1, PickedElements
<1>3. PICK f : Picks(p, s, K, n, f)
  BY <1>2
<1> HIDE DEF p
<1>4. /\ DOMAIN p = 1 .. Len(p) /\ Len(p) \in Nat /\ f \in [1 .. Len(p) -> 1 .. n]
      /\ \A j \in 1 .. Len(p) : f[j] \in K /\ p[j] = s[f[j]]
      /\ \A i, j \in 1 .. Len(p) : i < j => f[i] < f[j]
      /\ \A l \in K \cap (1 .. n) : \E j \in 1 .. Len(p) : f[j] = l
  <2>1. DOMAIN p = 1 .. Len(p) /\ Len(p) \in Nat
    BY <1>2
  <2>2. /\ f \in [1 .. Len(p) -> 1 .. n]
        /\ \A j \in 1 .. Len(p) : f[j] \in K /\ p[j] = s[f[j]]
        /\ \A i, j \in 1 .. Len(p) : i < j => f[i] < f[j]
        /\ \A l \in K \cap (1 .. n) : \E j \in 1 .. Len(p) : f[j] = l
    BY <1>3, Zenon DEF Picks
  <2>3. QED
    BY <2>1, <2>2
<1>5. \A j \in 1 .. Len(p) : f[j] \in 1 .. n /\ p[j] = f[j] - 1
  BY <1>1, <1>4
<1>6. Ascends(p, n)
  <2>1. \A k \in 1 .. Len(p) : p[k] \in 0 .. n - 1
    BY <1>5
  <2>2. \A j, k \in 1 .. Len(p) : j < k => p[j] < p[k]
    BY <1>4, <1>5
  <2>3. QED
    BY <2>1, <2>2, <1>2, <1>4 DEF Ascends
<1>7. ASSUME NEW i \in 0 .. n - 1 PROVE Among(p, i) <=> i + 1 \in K
  <2>1. ASSUME i + 1 \in K PROVE Among(p, i)
    <3>1. i + 1 \in K \cap (1 .. n)
      BY <2>1
    <3>2. PICK j \in 1 .. Len(p) : f[j] = i + 1
      BY <3>1, <1>4
    <3>3. p[j] = i
      <4>1. p[j] = f[j] - 1
        BY <1>5
      <4>2. QED
        BY <4>1, <3>2
    <3>4. QED
      BY <3>3, <1>4 DEF Among
  <2>2. ASSUME Among(p, i) PROVE i + 1 \in K
    <3>1. PICK j \in 1 .. Len(p) : p[j] = i
      BY <2>2, <1>4 DEF Among
    <3>2. f[j] = i + 1
      BY <3>1, <1>5
    <3>3. QED
      BY <3>2, <1>4
  <2>3. QED
    BY <2>1, <2>2
<1>8. QED
  BY <1>6, <1>7 DEF p, s

\* The rest of the indices is in the other list.
Complete(list, kept, n) ==
  /\ Ascends(list, n) /\ Ascends(kept, n)
  /\ \A i \in 0 .. n - 1 : Among(kept, i) <=> ~Among(list, i)

LEMMA KeptCompletes ==
  ASSUME NEW n \in Nat, NEW list \in IndexLists(n)
  PROVE  Complete(list, Kept(n, list), n)
<1>1. PICK K \in SUBSET (1 .. n) : list = Picked(IndicesBelow(n), K)
  BY DEF IndexLists
<1>2. Ascends(list, n)
  BY <1>1, PickedAscends
<1> DEFINE L == {k \in 1 .. n : \A l \in DOMAIN list : list[l] # k - 1}
<1>3. /\ Ascends(Kept(n, list), n)
      /\ \A i \in 0 .. n - 1 : Among(Kept(n, list), i) <=> i + 1 \in L
  <2> HIDE DEF L
  <2>1. QED
    BY PickedAscends DEF Kept, L
<1>4. \A i \in 0 .. n - 1 : i + 1 \in L <=> ~Among(list, i)
  <2> TAKE i \in 0 .. n - 1
  <2>1. i + 1 \in 1 .. n /\ (i + 1) - 1 = i
    OBVIOUS
  <2>2. QED
    BY <2>1 DEF Among
<1>5. QED
  BY <1>2, <1>3, <1>4 DEF Complete

\* how many of a list are below an index
Below(list, i, p) == p \in 0 .. Len(list) /\ \A k \in DOMAIN list : list[k] < i <=> k <= p

LEMMA BelowNext ==
  ASSUME NEW n \in Nat, NEW list, Ascends(list, n), NEW i \in 0 .. n - 1, NEW p, Below(list, i, p)
  PROVE  /\ Among(list, i) => Below(list, i + 1, p + 1)
         /\ ~Among(list, i) => Below(list, i + 1, p)
<1>1. /\ list \in Seq(Nat) /\ DOMAIN list = 1 .. Len(list) /\ Len(list) \in Nat
      /\ \A k \in DOMAIN list : list[k] \in Int
      /\ \A j, k \in DOMAIN list : j < k => list[j] < list[k]
  BY DEF Ascends
<1>2. p \in 0 .. Len(list) /\ \A k \in DOMAIN list : list[k] < i <=> k <= p
  BY DEF Below
<1>3. ASSUME ~Among(list, i) PROVE Below(list, i + 1, p)
  <2>1. \A k \in DOMAIN list : list[k] < i + 1 <=> list[k] < i
    BY <1>1, <1>3 DEF Among
  <2>2. QED
    BY <2>1, <1>2 DEF Below
<1>4. ASSUME Among(list, i) PROVE Below(list, i + 1, p + 1)
  <2>1. PICK k \in DOMAIN list : list[k] = i
    BY <1>4 DEF Among
  <2>2. k > p /\ k \in 1 .. Len(list)
    BY <2>1, <1>1, <1>2
  <2>3. p + 1 \in DOMAIN list
    BY <2>2, <1>1, <1>2
  <2>4. k = p + 1
    <3>1. ~(list[p + 1] < i)
      <4>1. p \in Int /\ (list[p + 1] < i <=> p + 1 <= p)
        BY <2>3, <1>2
      <4>2. QED
        BY <4>1
    <3>2. ~(p + 1 < k)
      BY <3>1, <2>1, <2>3, <1>1
    <3>3. QED
      BY <3>2, <2>2, <1>1, <1>2
  <2>5. ASSUME NEW l \in DOMAIN list PROVE list[l] < i + 1 <=> l <= p + 1
    <3>1. l \in Int /\ list[l] \in Int /\ list[k] = i
      BY <2>1, <1>1
    <3>2. l < k => list[l] < list[k]
      BY <1>1
    <3>3. k < l => list[k] < list[l]
      BY <1>1
    <3>4. QED
      BY <3>1, <3>2, <3>3, <2>2, <2>4
  <2>6. p + 1 \in 0 .. Len(list)
    BY <2>3, <1>1, <1>2
  <2>7. QED
    BY <2>5, <2>6 DEF Below
<1>5. QED
  BY <1>3, <1>4

\* An index has as many before it in the two lists together as its value.
LEMMA Split ==
  ASSUME NEW n \in Nat, NEW list, NEW kept, Complete(list, kept, n), NEW i \in 0 .. n
  PROVE  \E p, r \in Nat : Below(list, i, p) /\ Below(kept, i, r) /\ p + r = i
<1> DEFINE P == {j \in Nat : j <= n =>
                   \E p, r \in Nat : Below(list, j, p) /\ Below(kept, j, r) /\ p + r = j}
<1>0. Ascends(list, n) /\ Ascends(kept, n) /\ \A j \in 0 .. n - 1 : Among(kept, j) <=> ~Among(list, j)
  BY DEF Complete
<1>1. 0 \in P
  <2>1. Below(list, 0, 0) /\ Below(kept, 0, 0)
    BY <1>0 DEF Ascends, Below
  <2>2. QED
    BY <2>1
<1>2. ASSUME NEW j \in P \cap Nat PROVE j + 1 \in P
  <2> SUFFICES ASSUME j + 1 <= n
               PROVE  \E p, r \in Nat : Below(list, j + 1, p) /\ Below(kept, j + 1, r) /\ p + r = j + 1
    OBVIOUS
  <2>1. j \in 0 .. n - 1 /\ j <= n
    OBVIOUS
  <2>2. PICK p, r \in Nat : Below(list, j, p) /\ Below(kept, j, r) /\ p + r = j
    BY <2>1
  <2> HIDE DEF P
  <2>3. CASE Among(list, j)
    <3>1. Below(list, j + 1, p + 1) /\ Below(kept, j + 1, r)
      BY <2>1, <2>2, <2>3, <1>0, BelowNext
    <3>2. p + 1 \in Nat /\ (p + 1) + r = j + 1
      BY <2>2
    <3>3. QED
      BY <3>1, <3>2
  <2>4. CASE ~Among(list, j)
    <3>1. Below(list, j + 1, p) /\ Below(kept, j + 1, r + 1)
      BY <2>1, <2>2, <2>4, <1>0, BelowNext
    <3>2. r + 1 \in Nat /\ p + (r + 1) = j + 1
      BY <2>2
    <3>3. QED
      BY <3>1, <3>2
  <2>5. QED
    BY <2>3, <2>4
<1>3. i \in P
  <2> HIDE DEF P
  <2>1. \A j \in Nat : j \in P
    BY <1>1, <1>2, Induction
  <2>2. QED
    BY <2>1
<1>4. QED
  BY <1>3

LEMMA KeptLength ==
  ASSUME NEW n \in Nat, NEW list, NEW kept, Complete(list, kept, n)
  PROVE  /\ Len(kept) = n - Len(list) /\ Len(list) \in 0 .. n /\ n - Len(list) \in Nat
<1>1. PICK p, r \in Nat : Below(list, n, p) /\ Below(kept, n, r) /\ p + r = n
  BY Split
<1>2. ASSUME NEW l, Ascends(l, n), NEW m \in Nat, Below(l, n, m) PROVE m = Len(l)
  <2>1. Len(l) \in Nat /\ DOMAIN l = 1 .. Len(l) /\ m \in 0 .. Len(l)
        /\ \A k \in DOMAIN l : l[k] < n /\ (l[k] < n <=> k <= m)
    BY <1>2 DEF Ascends, Below
  <2>2. Len(l) # 0 => Len(l) \in DOMAIN l
    BY <2>1
  <2>3. Len(l) # 0 => Len(l) <= m
    BY <2>1, <2>2
  <2>4. \A a \in Nat, b \in Nat : b \in 0 .. a /\ (a # 0 => a <= b) => b = a
    OBVIOUS
  <2>5. QED
    BY <2>1, <2>3, <2>4
<1>3. p = Len(list) /\ r = Len(kept)
  BY <1>1, <1>2 DEF Complete
<1>4. QED
  BY <1>1, <1>3

\* The j-th index that is kept, counted from zero, is j and as many as
\* there are in the list before it.
LEMMA KeptIndex ==
  ASSUME NEW n \in Nat, NEW list, NEW kept, Complete(list, kept, n), NEW j \in 0 .. Len(kept) - 1
  PROVE  /\ kept[j + 1] \in 0 .. n - 1 /\ ~Among(list, kept[j + 1])
         /\ \E p \in Nat : Below(list, kept[j + 1], p) /\ kept[j + 1] = j + p
<1>1. /\ Len(kept) \in Nat /\ DOMAIN kept = 1 .. Len(kept)
      /\ \A k \in DOMAIN kept : kept[k] \in 0 .. n - 1
      /\ \A k, l \in DOMAIN kept : k < l => kept[k] < kept[l]
      /\ \A i \in 0 .. n - 1 : Among(kept, i) <=> ~Among(list, i)
  BY DEF Complete, Ascends
<1>2. j + 1 \in DOMAIN kept /\ j \in Nat
  BY <1>1
<1> DEFINE i == kept[j + 1]
<1>3. i \in 0 .. n - 1 /\ Among(kept, i) /\ i \in 0 .. n
  BY <1>1, <1>2 DEF Among
<1> HIDE DEF i
<1>4. PICK p, r \in Nat : Below(list, i, p) /\ Below(kept, i, r) /\ p + r = i
  BY <1>3, Split
<1>5. r = j
  <2>1. r \in 0 .. Len(kept) /\ \A k \in DOMAIN kept : kept[k] < i <=> k <= r
    BY <1>4 DEF Below
  <2>2. ~(j + 1 <= r)
    <3>1. ~(i < i)
      BY <1>3
    <3>2. QED
      BY <3>1, <2>1, <1>2 DEF i
  <2>3. j # 0 => j <= r
    <3>1. j # 0 => j \in DOMAIN kept /\ j < j + 1
      BY <1>1, <1>2
    <3>2. j # 0 => kept[j] < i
      BY <3>1, <1>1, <1>2 DEF i
    <3>3. QED
      BY <3>1, <3>2, <2>1
  <2>4. QED
    BY <2>1, <2>2, <2>3, <1>2
<1>6. ~Among(list, i) /\ i = j + p
  BY <1>1, <1>2, <1>3, <1>4, <1>5
<1>7. QED
  BY <1>3, <1>4, <1>6 DEF i
-----------------------------------------------------------------------------
(* Taking indices out                                                      *)

LEMMA PassedBelowCounts ==
  ASSUME NEW n \in Nat, NEW list, Ascends(list, n), NEW i, NEW p \in Nat, Below(list, i, p)
  PROVE  PassedBelow(list, i) = p
<1>1. {k \in DOMAIN list : list[k] < i} = 1 .. p
  BY DEF Ascends, Below
<1>2. Cardinality(1 .. p) = p
  <2>1. 1 \in Int /\ p \in Int
    OBVIOUS
  <2>2. Cardinality(1 .. p) = IF 1 > p THEN 0 ELSE p - 1 + 1
    BY ONLY <2>1, FS_Interval
  <2>3. QED
    BY <2>2
<1>3. QED
  BY <1>1, <1>2 DEF PassedBelow

\* No two places of a list have the same index.
LEMMA AscendsOrder ==
  ASSUME NEW n \in Nat, NEW list, Ascends(list, n), NEW j \in DOMAIN list, NEW k \in DOMAIN list
  PROVE  (list[j] < list[k] <=> j < k) /\ (list[j] = list[k] <=> j = k)
<1>1. j \in Int /\ k \in Int /\ list[j] \in Int /\ list[k] \in Int
      /\ (j < k => list[j] < list[k]) /\ (k < j => list[k] < list[j])
  BY DEF Ascends
<1>2. QED
  BY <1>1

\* sleqp_preprocessing_remove_entries
LEMMA RemoveIsRight ==
  ASSUME NEW dim \in Nat, NEW x, NEW d, Right(x, dim, d), NEW list, NEW kept, Complete(list, kept, dim),
         NEW target \in Vectors, target.dim = dim - Len(list)
  PROVE  Right(RemoveEntries(x, target, list), dim - Len(list),
               [i \in 0 .. dim - Len(list) - 1 |-> d[kept[i + 1]]])
<1> DEFINE q == x.nz
           K == {k \in DOMAIN q : \A l \in DOMAIN list : list[l] # q[k].i}
           p == Picked(q, K)
           m == dim - Len(list)
           e == [i \in 0 .. m - 1 |-> d[kept[i + 1]]]
           r == [k \in DOMAIN p |-> Entry(p[k].i - PassedBelow(list, p[k].i), p[k].v)]
           room == Greater(target.nnzMax, Len(q))
<1>1. /\ q \in Seq(VecEntries) /\ Sorted(q) /\ DOMAIN q = 1 .. Len(q) /\ Len(q) \in Nat
      /\ \A k \in DOMAIN q : q[k].i \in 0 .. dim - 1 /\ q[k].v = d[q[k].i]
      /\ \A j \in 0 .. dim - 1 : d[j] # 0 => \E k \in DOMAIN q : q[k].i = j
      /\ d \in [0 .. dim - 1 -> Int]
  BY DEF Right, Holds, DenseVectors
<1>2. m \in Nat /\ Len(kept) = m
  BY KeptLength
<1>3. /\ Ascends(list, dim) /\ Ascends(kept, dim) /\ DOMAIN kept = 1 .. m
      /\ \A i \in 0 .. dim - 1 : Among(kept, i) <=> ~Among(list, i)
  BY <1>2 DEF Complete, Ascends
<1>4. RemoveEntries(x, target, list) = PushAll(Reserve(Clear(target), Len(q)), r)
  BY DEF RemoveEntries, NnzOf
<1> HIDE DEF m, p, q
<1>5. p \in Seq(VecEntries) /\ \E f : Picks(p, q, K, Len(q), f)
  <2> HIDE DEF K
  <2>1. QED
    BY <1>1, PickedElements DEF p
<1>6. PICK f : Picks(p, q, K, Len(q), f)
  BY <1>5
<1>7. /\ DOMAIN p = 1 .. Len(p) /\ Len(p) \in Nat /\ Len(p) <= Len(q) /\ f \in [1 .. Len(p) -> 1 .. Len(q)]
      /\ \A j \in 1 .. Len(p) : f[j] \in K /\ p[j] = q[f[j]]
      /\ \A i, j \in 1 .. Len(p) : i < j => f[i] < f[j]
      /\ \A l \in K \cap (1 .. Len(q)) : \E j \in 1 .. Len(p) : f[j] = l
  BY <1>5, <1>6 DEF Picks
<1>8. \A k \in DOMAIN q : k \in K <=> ~Among(list, q[k].i)
  BY DEF Among
<1> HIDE DEF K
<1>9. ASSUME NEW k \in DOMAIN p
      PROVE  LET s == p[k].i - PassedBelow(list, p[k].i)
             IN s \in 0 .. m - 1 /\ kept[s + 1] = p[k].i /\ p[k].v = d[p[k].i] /\ p[k].i \in Int
  <2>1. p[k] = q[f[k]] /\ f[k] \in DOMAIN q /\ f[k] \in K
    BY <1>1, <1>7, <1>9
  <2>2. p[k].i \in 0 .. dim - 1 /\ ~Among(list, p[k].i) /\ p[k].v = d[p[k].i]
    BY <2>1, <1>1, <1>8
  <2>3. PICK t \in 1 .. m : kept[t] = p[k].i
    BY <2>2, <1>3 DEF Among
  <2>4. t - 1 \in 0 .. Len(kept) - 1 /\ (t - 1) + 1 = t /\ t - 1 \in 0 .. m - 1
    BY <2>3, <1>2
  <2>5. \E z \in Nat : Below(list, kept[t], z) /\ kept[t] = (t - 1) + z
    <3> DEFINE j == t - 1
    <3> HIDE DEF j
    <3>1. j \in 0 .. Len(kept) - 1 /\ j + 1 = t
      BY <2>4 DEF j
    <3>2. \E z \in Nat : Below(list, kept[j + 1], z) /\ kept[j + 1] = j + z
      BY <3>1, KeptIndex
    <3>3. QED
      BY <3>1, <3>2 DEF j
  <2>6. PICK z \in Nat : Below(list, p[k].i, z) /\ p[k].i = (t - 1) + z
    BY <2>3, <2>5
  <2>7. PassedBelow(list, p[k].i) = z
    BY <2>6, <1>3, PassedBelowCounts
  <2>8. p[k].i - z = t - 1
    BY <2>3, <2>6
  <2>9. QED
    BY <2>2, <2>3, <2>4, <2>7, <2>8
<1>10. ASSUME NEW k \in DOMAIN p
       PROVE  /\ r[k].i \in 0 .. m - 1 /\ kept[r[k].i + 1] = p[k].i /\ r[k].v = d[p[k].i]
              /\ r[k] \in VecEntries
  <2>1. r[k].i = p[k].i - PassedBelow(list, p[k].i) /\ r[k].v = p[k].v
    BY DEF Entry
  <2>2. r[k].i \in 0 .. m - 1 /\ kept[r[k].i + 1] = p[k].i /\ r[k].v = d[p[k].i]
    BY <2>1, <1>9
  <2>3. p[k] \in VecEntries
    BY <1>5
  <2>4. r[k] = [i |-> r[k].i, v |-> r[k].v] /\ r[k].v \in Int
    BY <2>1, <2>3 DEF Entry, VecEntries
  <2> HIDE DEF r
  <2>5. r[k] \in VecEntries
    BY <2>2, <2>4, <1>2 DEF VecEntries
  <2>6. QED
    BY <2>2, <2>5
<1>11. DOMAIN r = 1 .. Len(p) /\ r \in Seq(VecEntries) /\ Len(r) = Len(p)
  <2>1. \A k \in 1 .. Len(p) : r[k] \in VecEntries
    BY <1>7, <1>10
  <2>2. r = [k \in 1 .. Len(p) |-> r[k]]
    BY <1>7
  <2> HIDE DEF r
  <2>3. QED
    BY <2>1, <2>2, <1>7
<1> HIDE DEF r
<1>12. ASSUME NEW i \in 0 .. m - 1 PROVE i + 1 \in DOMAIN kept /\ kept[i + 1] \in 0 .. dim - 1
                                          /\ ~Among(list, kept[i + 1])
  <2>1. i \in 0 .. Len(kept) - 1
    BY <1>2
  <2>2. i + 1 \in DOMAIN kept
    BY <1>2, <1>3
  <2>3. QED
    BY <2>1, <2>2, KeptIndex
<1>13. Sorted(r)
  <2> SUFFICES ASSUME NEW j \in 1 .. Len(p), NEW k \in 1 .. Len(p), j < k PROVE r[j].i < r[k].i
    BY <1>11 DEF Sorted
  <2>1. f[j] < f[k] /\ f[j] \in DOMAIN q /\ f[k] \in DOMAIN q /\ p[j] = q[f[j]] /\ p[k] = q[f[k]]
    BY <1>1, <1>7
  <2>2. p[j].i < p[k].i
    BY <2>1, <1>1 DEF Sorted
  <2>3. /\ r[j].i \in 0 .. m - 1 /\ kept[r[j].i + 1] = p[j].i
        /\ r[k].i \in 0 .. m - 1 /\ kept[r[k].i + 1] = p[k].i
    BY <1>7, <1>10
  <2>4. r[j].i + 1 \in DOMAIN kept /\ r[k].i + 1 \in DOMAIN kept
    BY <2>3, <1>12
  <2>5. r[j].i + 1 < r[k].i + 1
    <3>1. \A a, b \in DOMAIN kept : kept[a] < kept[b] <=> a < b
      BY <1>3, AscendsOrder
    <3>2. QED
      BY <2>2, <2>3, <2>4, <3>1
  <2>6. QED
    BY <2>3, <2>5
<1>14. \A k \in DOMAIN r : r[k].i \in 0 .. m - 1 /\ r[k].v = e[r[k].i]
  BY <1>7, <1>10, <1>11
<1>15. ASSUME NEW i \in 0 .. m - 1, e[i] # 0 PROVE \E k \in DOMAIN r : r[k].i = i
  <2>1. d[kept[i + 1]] # 0 /\ kept[i + 1] \in 0 .. dim - 1 /\ ~Among(list, kept[i + 1]) /\ i + 1 \in DOMAIN kept
    BY <1>12, <1>15
  <2>2. PICK l \in DOMAIN q : q[l].i = kept[i + 1]
    BY <2>1, <1>1
  <2>3. l \in K \cap (1 .. Len(q))
    BY <2>1, <2>2, <1>1, <1>8
  <2>4. PICK k \in 1 .. Len(p) : f[k] = l
    BY <2>3, <1>7
  <2>5. p[k].i = kept[i + 1] /\ k \in DOMAIN p /\ k \in DOMAIN r
    BY <2>2, <2>4, <1>7, <1>11
  <2>6. kept[r[k].i + 1] = kept[i + 1] /\ r[k].i \in 0 .. m - 1
    BY <2>5, <1>10
  <2>7. r[k].i + 1 \in DOMAIN kept
    BY <2>6, <1>12
  <2>8. r[k].i + 1 = i + 1
    <3>1. \A a, b \in DOMAIN kept : kept[a] = kept[b] <=> a = b
      BY <1>3, AscendsOrder
    <3>2. QED
      BY <2>1, <2>6, <2>7, <3>1
  <2>9. r[k].i = i
    BY <2>6, <2>8
  <2>10. QED
    BY <2>5, <2>9
<1>16. e \in DenseVectors(m)
  BY <1>1, <1>12 DEF DenseVectors
<1> HIDE DEF e
<1>17. Holds(r, m, e)
  BY <1>11, <1>13, <1>14, <1>15 DEF Holds
<1>18. /\ Reserve(Clear(target), Len(q)) = [dim |-> m, nnzMax |-> room, nz |-> <<>>]
       /\ room \in Nat /\ Len(r) <= room
  <2>1. /\ Reserve(Clear(target), Len(q)) = [dim |-> m, nnzMax |-> room, nz |-> <<>>]
        /\ room \in Nat /\ Len(q) <= room
    BY <1>1, RoomIsMade DEF m
  <2> HIDE DEF room
  <2>2. Len(r) <= room
    BY <2>1, <1>1, <1>7, <1>11
  <2>3. QED
    BY <2>1, <2>2
<1> HIDE DEF room
<1>19. RemoveEntries(x, target, list) = [dim |-> m, nnzMax |-> room, nz |-> r]
  BY <1>4, <1>11, <1>18, PushAllOnNothing
<1>20. Right([dim |-> m, nnzMax |-> room, nz |-> r], m, e)
  BY <1>2, <1>16, <1>17, <1>18, PushedIsRight
<1>21. QED
  BY <1>19, <1>20 DEF e, m
-----------------------------------------------------------------------------
(* Putting indices back                                                    *)

\* A kept index is its place in the list of the kept ones and the number of
\* listed indices below it.
LEMMA OffsetOfKept ==
  ASSUME NEW n \in Nat, NEW list, NEW kept, Complete(list, kept, n), NEW j \in 0 .. Len(kept) - 1,
         NEW p \in Nat, Below(list, kept[j + 1], p)
  PROVE  kept[j + 1] = j + p /\ p \in 0 .. Len(list)
<1> DEFINE w == kept[j + 1]
<1>1. /\ w \in 0 .. n - 1 /\ ~Among(list, w) /\ j + 1 \in DOMAIN kept /\ j \in Nat
      /\ \E z \in Nat : Below(list, w, z) /\ w = j + z
  <2>1. j + 1 \in DOMAIN kept /\ j \in Nat
    BY DEF Complete, Ascends
  <2>2. QED
    BY <2>1, KeptIndex
<1>2. /\ Ascends(list, n) /\ Ascends(kept, n) /\ DOMAIN list = 1 .. Len(list) /\ Len(list) \in Nat
      /\ \A k \in DOMAIN list : list[k] \in 0 .. n - 1
      /\ \A k \in DOMAIN kept : kept[k] \in 0 .. n - 1
  BY DEF Complete, Ascends
<1>3. p \in 0 .. Len(list) /\ \A k \in DOMAIN list : list[k] < w <=> k <= p
  BY DEF Below
<1> HIDE DEF w
<1>4. w = j + p
  <2>1. PICK z \in Nat : Below(list, w, z) /\ w = j + z
    BY <1>1
  <2>2. PassedBelow(list, w) = z /\ PassedBelow(list, w) = p
    BY <2>1, <1>2, PassedBelowCounts DEF w
  <2>3. QED
    BY <2>1, <2>2
<1>5. QED
  BY <1>3, <1>4 DEF w

\* Every index of the list before a kept one is passed, and none after it.
LEMMA ListAround ==
  ASSUME NEW n \in Nat, NEW list, NEW kept, Complete(list, kept, n), NEW j \in 0 .. Len(kept) - 1,
         NEW p \in Nat, Below(list, kept[j + 1], p)
  PROVE  /\ kept[j + 1] = j + p /\ p \in 0 .. Len(list)
         /\ \A k \in DOMAIN list : k <= p => list[k] <= j + k - 1
         /\ \A k \in DOMAIN list : k > p => list[k] > j + p
<1> DEFINE w == kept[j + 1]
<1>1. /\ w \in 0 .. n - 1 /\ ~Among(list, w) /\ j + 1 \in DOMAIN kept /\ j \in Nat
  <2>1. j + 1 \in DOMAIN kept /\ j \in Nat
    BY DEF Complete, Ascends
  <2>2. QED
    BY <2>1, KeptIndex
<1>2. /\ Ascends(list, n) /\ Ascends(kept, n) /\ DOMAIN list = 1 .. Len(list) /\ Len(list) \in Nat
      /\ \A k \in DOMAIN list : list[k] \in 0 .. n - 1
      /\ \A k \in DOMAIN kept : kept[k] \in 0 .. n - 1
  BY DEF Complete, Ascends
<1>3. p \in 0 .. Len(list) /\ \A k \in DOMAIN list : list[k] < w <=> k <= p
  BY DEF Below
<1> HIDE DEF w
<1>4. w = j + p
  BY OffsetOfKept DEF w
<1>5. ASSUME NEW k \in DOMAIN list, k <= p PROVE list[k] <= j + k - 1
  <2> DEFINE u == list[k]
  <2>1. u \in 0 .. n /\ u < w /\ u \in Int /\ k \in Int
    BY <1>2, <1>3, <1>5
  <2> HIDE DEF u
  <2>2. PICK a, b \in Nat : Below(list, u, a) /\ Below(kept, u, b) /\ a + b = u
    BY <2>1, Split
  <2>3. a < k
    <3>1. ~(u < u)
      BY <2>1
    <3>2. ~(k <= a)
      BY <3>1, <2>2 DEF Below, u
    <3>3. QED
      BY <3>2, <2>1, <2>2
  <2>4. b <= j
    <3>1. ~(kept[j + 1] < u)
      BY <2>1, <1>1 DEF w
    <3>2. ~(j + 1 <= b)
      BY <3>1, <2>2, <1>1 DEF Below
    <3>3. QED
      BY <3>2, <2>2, <1>1
  <2>5. u <= j + k - 1
    BY <2>1, <2>2, <2>3, <2>4, <1>1
  <2>6. QED
    BY <2>5 DEF u
<1>6. ASSUME NEW k \in DOMAIN list, k > p PROVE list[k] > j + p
  <2>1. ~(list[k] < w) /\ list[k] # w /\ list[k] \in Int
    <3>1. k \in Int
      BY <1>2
    <3>2. ~(k <= p)
      BY <3>1, <1>6
    <3>3. ~(list[k] < w) /\ list[k] \in Int
      BY <3>2, <1>2, <1>3
    <3>4. QED
      BY <3>3, <1>1 DEF Among
  <2>2. QED
    BY <2>1, <1>1, <1>4
<1>7. QED
  BY <1>3, <1>4, <1>5, <1>6 DEF w

\* The inner loop of the preprocessor ends where the list passes the index.
LEMMA PassedCounts ==
  ASSUME NEW n \in Nat, NEW list, NEW kept, Complete(list, kept, n), NEW j \in 0 .. Len(kept) - 1,
         NEW p \in Nat, Below(list, kept[j + 1], p), NEW cursor \in 0 .. p
  PROVE  Passed(list, cursor, j) = p
<1>0. PICK L \in Nat : L = Len(list)
  <2>1. Len(list) \in Nat
    BY DEF Complete, Ascends
  <2>2. QED
    BY <2>1
<1>1. /\ p \in 0 .. L
      /\ \A k \in DOMAIN list : k <= p => list[k] <= j + k - 1
      /\ \A k \in DOMAIN list : k > p => list[k] > j + p
  BY <1>0, ListAround
<1>2. DOMAIN list = 1 .. L /\ \A k \in DOMAIN list : list[k] \in Int
  BY <1>0 DEF Complete, Ascends
<1>3. j \in Nat
  BY DEF Complete, Ascends
<1> DEFINE Ends(c) == /\ \A l \in cursor .. c - 1 : list[l + 1] <= j + l
                      /\ c = L \/ j + c < list[c + 1]
<1>4. p \in cursor .. L
  BY <1>1, <1>2
<1>5. Ends(p)
  <2>1. ASSUME NEW l \in cursor .. p - 1 PROVE list[l + 1] <= j + l
    <3>1. l + 1 \in DOMAIN list /\ l + 1 <= p /\ l \in Nat
      BY <1>1, <1>2
    <3>2. list[l + 1] <= j + (l + 1) - 1
      BY <3>1, <1>1
    <3>3. QED
      BY <3>1, <3>2, <1>3
  <2>2. p # L => j + p < list[p + 1]
    <3>1. p # L => p + 1 \in DOMAIN list /\ p + 1 > p
      BY <1>1, <1>2
    <3>2. p # L => list[p + 1] > j + p /\ list[p + 1] \in Int
      BY <3>1, <1>1, <1>2
    <3>3. QED
      BY <3>2, <1>3
  <2>3. QED
    BY <2>1, <2>2
<1>6. ASSUME NEW c \in cursor .. L, Ends(c) PROVE c = p
  <2>1. c \in Nat /\ c <= L
    BY <1>2, <1>6
  <2>2. ~(c < p)
    <3> SUFFICES ASSUME c < p PROVE FALSE
      OBVIOUS
    <3>1. c # L /\ c + 1 \in DOMAIN list /\ c + 1 <= p
      BY <2>1, <1>1, <1>2
    <3>2. list[c + 1] <= j + (c + 1) - 1 /\ j + c < list[c + 1] /\ list[c + 1] \in Int
      BY <3>1, <1>1, <1>2, <1>6
    <3>3. QED
      BY <3>2, <2>1, <1>3
  <2>3. ~(c > p)
    <3> SUFFICES ASSUME c > p PROVE FALSE
      OBVIOUS
    <3>1. p \in cursor .. c - 1 /\ p + 1 \in DOMAIN list /\ p + 1 > p
      BY <2>1, <1>1, <1>2
    <3>2. list[p + 1] <= j + p /\ list[p + 1] > j + p /\ list[p + 1] \in Int
      BY <3>1, <1>1, <1>2, <1>6
    <3>3. QED
      BY <3>2, <1>3
  <2>4. QED
    BY <2>1, <2>2, <2>3
<1>7. Passed(list, cursor, j) = CHOOSE c \in cursor .. L : Ends(c)
  BY <1>0 DEF Passed
<1> HIDE DEF Ends
<1>8. QED
  BY <1>4, <1>5, <1>6, <1>7

\* The cursors: an entry is moved by what was passed before it to the index
\* that is kept for it.
CursorsRight(c, q, list, kept) ==
  /\ c[0] = 0
  /\ \A k \in DOMAIN q : /\ c[k] \in 0 .. Len(list) /\ c[k - 1] \in 0 .. c[k]
                         /\ Below(list, kept[q[k].i + 1], c[k])
                         /\ q[k].i + c[k] = kept[q[k].i + 1]

LEMMA CursorsAreRight ==
  ASSUME NEW n \in Nat, NEW list, NEW kept, Complete(list, kept, n),
         NEW q \in Seq(VecEntries), Sorted(q), \A k \in DOMAIN q : q[k].i \in 0 .. Len(kept) - 1
  PROVE  CursorsRight(Cursors(q, list), q, list, kept)
<1> DEFINE At1(k) == kept[q[k].i + 1]
           Count(k) == CHOOSE p \in Nat : Below(list, At1(k), p)
           g == [k \in 0 .. Len(q) |-> IF k = 0 THEN 0 ELSE Count(k)]
           Next(h) == [k \in 0 .. Len(q) |-> IF k = 0 THEN 0 ELSE Passed(list, h[k - 1], q[k].i)]
           cursor == CHOOSE h : h = Next(h)
<1>1. /\ DOMAIN q = 1 .. Len(q) /\ Len(q) \in Nat /\ Len(list) \in Nat /\ DOMAIN list = 1 .. Len(list)
      /\ DOMAIN kept = 1 .. Len(kept) /\ Len(kept) \in Nat
      /\ Ascends(list, n) /\ Ascends(kept, n)
      /\ \A k \in DOMAIN kept : kept[k] \in 0 .. n - 1
      /\ \A k \in DOMAIN list : list[k] \in 0 .. n - 1
  BY DEF Complete, Ascends
<1>2. ASSUME NEW k \in 1 .. Len(q)
      PROVE  /\ Count(k) \in Nat /\ Below(list, At1(k), Count(k))
             /\ Count(k) \in 0 .. Len(list) /\ q[k].i + Count(k) = At1(k)
             /\ At1(k) \in Int /\ q[k].i + 1 \in DOMAIN kept
  <2>1. q[k].i \in 0 .. Len(kept) - 1
    BY <1>1
  <2>2. \E p \in Nat : Below(list, At1(k), p)
    BY <2>1, KeptIndex
  <2>3. Count(k) \in Nat /\ Below(list, At1(k), Count(k))
    BY <2>2
  <2> HIDE DEF Count
  <2>4. At1(k) = q[k].i + Count(k) /\ Count(k) \in 0 .. Len(list)
    <3> DEFINE i == q[k].i
               m == Count(k)
    <3> HIDE DEF i, m
    <3>1. i \in 0 .. Len(kept) - 1 /\ At1(k) = kept[i + 1]
      BY <2>1 DEF i
    <3>2. m \in Nat /\ Below(list, At1(k), m)
      BY <2>3 DEF m
    <3>4. Below(list, kept[i + 1], m)
      BY <3>2 DEF i
    <3>5. kept[i + 1] = i + m /\ m \in 0 .. Len(list)
      BY <3>1, <3>2, <3>4, OffsetOfKept
    <3>3. QED
      BY <3>1, <3>5 DEF i, m
  <2>5. q[k].i + 1 \in DOMAIN kept
    BY <2>1, <1>1
  <2>6. At1(k) \in Int
    BY <2>5, <1>1
  <2>7. QED
    BY <2>3, <2>4, <2>5, <2>6
<1> HIDE DEF Count
<1>3. ASSUME NEW k \in 1 .. Len(q), k - 1 # 0 PROVE Count(k - 1) <= Count(k)
  <2> DEFINE l == k - 1
  <2>1. l \in 1 .. Len(q) /\ l < k
    BY <1>1, <1>3
  <2> HIDE DEF l
  <2>2. q[l].i < q[k].i /\ q[l].i \in Int /\ q[k].i \in Int
    BY <2>1, <1>1 DEF Sorted
  <2>3. q[l].i + 1 \in DOMAIN kept /\ q[k].i + 1 \in DOMAIN kept /\ q[l].i + 1 < q[k].i + 1
    <3>1. \A m \in 1 .. Len(q) : q[m].i + 1 \in DOMAIN kept
      BY <1>2
    <3>2. QED
      BY <2>1, <2>2, <3>1
  <2>4. At1(l) < At1(k)
    <3>1. \A a, b \in DOMAIN kept : a < b => kept[a] < kept[b]
      BY <1>1, AscendsOrder
    <3>2. QED
      BY <2>3, <3>1
  <2>5. Count(l) # 0 => Count(l) <= Count(k)
    <3> DEFINE m == Count(l)
    <3>1. m \in 0 .. Len(list) /\ Below(list, At1(l), m) /\ Below(list, At1(k), Count(k)) /\ At1(l) \in Int /\ At1(k) \in Int
      BY <2>1, <1>2
    <3> HIDE DEF m, At1
    <3>2. m # 0 => m \in DOMAIN list /\ m <= m /\ list[m] \in Int
      BY <3>1, <1>1
    <3>3. m # 0 => list[m] < At1(l)
      BY <3>1, <3>2 DEF Below
    <3>4. m # 0 => list[m] < At1(k)
      BY <3>1, <3>2, <3>3, <2>4
    <3>5. m # 0 => m <= Count(k)
      BY <3>1, <3>2, <3>4 DEF Below
    <3>6. QED
      BY <3>5 DEF m
  <2>6. Count(l) <= Count(k)
    BY <2>1, <2>5, <1>2
  <2>7. QED
    BY <2>6 DEF l
<1>4. ASSUME NEW k \in 1 .. Len(q)
      PROVE  /\ g[k] = Count(k) /\ g[k - 1] \in 0 .. Count(k) /\ g[k] = Passed(list, g[k - 1], q[k].i)
  <2>1. g[k] = Count(k) /\ k - 1 \in 0 .. Len(q)
    BY <1>1
  <2>2. g[k - 1] \in 0 .. Count(k)
    <3>1. CASE k - 1 = 0
      BY <3>1, <2>1, <1>2
    <3>2. CASE k - 1 # 0
      <4>1. g[k - 1] = Count(k - 1) /\ k - 1 \in 1 .. Len(q)
        BY <3>2, <2>1, <1>1
      <4>2. Count(k - 1) \in Nat /\ Count(k) \in Nat /\ Count(k - 1) <= Count(k)
        BY <3>2, <4>1, <1>2, <1>3
      <4>3. QED
        BY <4>1, <4>2
    <3>3. QED
      BY <3>1, <3>2
  <2> HIDE DEF g
  <2>3. Passed(list, g[k - 1], q[k].i) = Count(k)
    <3>1. q[k].i \in 0 .. Len(kept) - 1 /\ Count(k) \in Nat /\ Below(list, kept[q[k].i + 1], Count(k))
      BY <1>1, <1>2
    <3> DEFINE i == q[k].i
    <3> HIDE DEF i
    <3>2. i \in 0 .. Len(kept) - 1 /\ Below(list, kept[i + 1], Count(k))
      BY <3>1 DEF i
    <3>3. Passed(list, g[k - 1], i) = Count(k)
      BY <2>2, <3>1, <3>2, PassedCounts
    <3>4. QED
      BY <3>3 DEF i
  <2>4. QED
    BY <2>1, <2>2, <2>3
<1>5. g = Next(g)
  <2>1. \A k \in 0 .. Len(q) : k = 0 \/ k \in 1 .. Len(q)
    BY <1>1
  <2>2. \A k \in 0 .. Len(q) : g[k] = IF k = 0 THEN 0 ELSE Passed(list, g[k - 1], q[k].i)
    BY <2>1, <1>4
  <2>3. QED
    BY <2>2
<1> HIDE DEF Next
<1>6. cursor = Next(cursor)
  <2> HIDE DEF g
  <2>1. QED
    BY <1>5
<1>7. Cursors(q, list) = cursor
  BY DEF Cursors, Next
<1> HIDE DEF cursor
<1>8. \A k \in 0 .. Len(q) : cursor[k] = IF k = 0 THEN 0 ELSE Passed(list, cursor[k - 1], q[k].i)
  <2>1. \A k \in 0 .. Len(q) : cursor[k] = Next(cursor)[k]
    BY <1>6
  <2>2. QED
    BY <2>1 DEF Next
<1> DEFINE P == {k \in Nat : k <= Len(q) => cursor[k] = g[k]}
<1>9. 0 \in P
  BY <1>1, <1>8
<1>10. ASSUME NEW k \in P \cap Nat PROVE k + 1 \in P
  <2> SUFFICES ASSUME k + 1 <= Len(q) PROVE cursor[k + 1] = g[k + 1]
    OBVIOUS
  <2>1. k + 1 \in 1 .. Len(q) /\ k + 1 \in 0 .. Len(q) /\ (k + 1) - 1 = k /\ k + 1 # 0 /\ cursor[k] = g[k]
    <3>1. k \in Nat /\ Len(q) \in Nat
      BY <1>1
    <3>2. k + 1 \in 1 .. Len(q) /\ k + 1 \in 0 .. Len(q) /\ (k + 1) - 1 = k /\ k + 1 # 0 /\ k <= Len(q)
      BY <3>1
    <3>3. QED
      BY <3>2, Zenon
  <2> HIDE DEF P, g
  <2>2. g[k + 1] = Passed(list, g[k], q[k + 1].i)
    <3>1. g[k + 1] = Passed(list, g[(k + 1) - 1], q[k + 1].i)
      BY <2>1, <1>4
    <3>2. QED
      BY <2>1, <3>1
  <2>3. cursor[k + 1] = Passed(list, cursor[k], q[k + 1].i)
    <3>1. cursor[k + 1] = Passed(list, cursor[(k + 1) - 1], q[k + 1].i)
      BY <2>1, <1>8
    <3>2. QED
      BY <2>1, <3>1
  <2>4. QED
    BY <2>1, <2>2, <2>3
<1>11. \A k \in 0 .. Len(q) : cursor[k] = g[k]
  <2> HIDE DEF P, g
  <2>1. \A k \in Nat : k \in P
    BY <1>9, <1>10, Induction
  <2>2. \A k \in 0 .. Len(q) : k \in Nat /\ k <= Len(q)
    BY <1>1
  <2>3. QED
    BY <2>1, <2>2 DEF P
<1>12. g[0] = 0
  BY <1>1
<1> HIDE DEF g, P
<1>13. ASSUME NEW k \in 1 .. Len(q)
       PROVE  /\ cursor[k] \in 0 .. Len(list) /\ cursor[k - 1] \in 0 .. cursor[k]
              /\ Below(list, kept[q[k].i + 1], cursor[k])
              /\ q[k].i + cursor[k] = kept[q[k].i + 1]
  <2>1. k \in 0 .. Len(q) /\ k - 1 \in 0 .. Len(q)
    BY <1>1
  <2>2. cursor[k] = Count(k) /\ cursor[k - 1] = g[k - 1]
    BY <2>1, <1>4, <1>11
  <2>3. QED
    BY <2>2, <1>2, <1>4
<1>14. cursor[0] = 0
  BY <1>1, <1>11, <1>12
<1>15. QED
  BY <1>1, <1>7, <1>13, <1>14 DEF CursorsRight

\* what the vector should hold after the indices of a list were put back
Inserted(d, list, kept, n, values) ==
  [i \in 0 .. n - 1 |-> IF Among(list, i) THEN values[CHOOSE k \in DOMAIN list : list[k] = i]
                        ELSE d[CHOOSE k \in 0 .. Len(kept) - 1 : kept[k + 1] = i]]

LEMMA InsertedValues ==
  ASSUME NEW n \in Nat, NEW list, NEW kept, Complete(list, kept, n), NEW d \in DenseVectors(Len(kept)),
         NEW v \in [DOMAIN list -> Int]
  PROVE  /\ Inserted(d, list, kept, n, v) \in DenseVectors(n)
         /\ \A j \in 0 .. Len(kept) - 1 : Inserted(d, list, kept, n, v)[kept[j + 1]] = d[j]
         /\ \A k \in DOMAIN list : Inserted(d, list, kept, n, v)[list[k]] = v[k]
         /\ \A i \in 0 .. n - 1 : Inserted(d, list, kept, n, v)[i] # 0 =>
              \/ \E k \in DOMAIN list : v[k] # 0 /\ list[k] = i
              \/ \E j \in 0 .. Len(kept) - 1 : d[j] # 0 /\ kept[j + 1] = i
<1> DEFINE e == Inserted(d, list, kept, n, v)
           Position(i) == CHOOSE k \in 0 .. Len(kept) - 1 : kept[k + 1] = i
           Place(i) == CHOOSE k \in DOMAIN list : list[k] = i
<1>1. /\ Ascends(list, n) /\ Ascends(kept, n) /\ DOMAIN kept = 1 .. Len(kept) /\ Len(kept) \in Nat
      /\ \A i \in 0 .. n - 1 : Among(kept, i) <=> ~Among(list, i)
      /\ \A k \in DOMAIN list : list[k] \in 0 .. n - 1
      /\ d \in [0 .. Len(kept) - 1 -> Int]
  BY DEF Complete, Ascends, DenseVectors
<1>2. /\ DOMAIN e = 0 .. n - 1
      /\ \A i \in 0 .. n - 1 : e[i] = IF Among(list, i) THEN v[Place(i)] ELSE d[Position(i)]
      /\ e = [i \in 0 .. n - 1 |-> e[i]]
  BY DEF Inserted
<1> HIDE DEF e
<1>3. ASSUME NEW i \in 0 .. n - 1, ~Among(list, i)
      PROVE  Position(i) \in 0 .. Len(kept) - 1 /\ kept[Position(i) + 1] = i
  <2>1. PICK k \in 1 .. Len(kept) : kept[k] = i
    BY <1>1, <1>3 DEF Among
  <2>2. k - 1 \in 0 .. Len(kept) - 1 /\ kept[(k - 1) + 1] = i
    <3>1. (k - 1) + 1 = k /\ k - 1 \in 0 .. Len(kept) - 1
      BY <1>1
    <3>2. QED
      BY <2>1, <3>1
  <2>3. QED
    BY <2>2
<1>9. ASSUME NEW i \in 0 .. n - 1, Among(list, i) PROVE Place(i) \in DOMAIN list /\ list[Place(i)] = i
  BY <1>9 DEF Among
<1> HIDE DEF Position, Place
<1>4. e \in DenseVectors(n)
  BY <1>1, <1>2, <1>3, <1>9 DEF DenseVectors
<1>5. ASSUME NEW j \in 0 .. Len(kept) - 1 PROVE e[kept[j + 1]] = d[j]
  <2> DEFINE i == kept[j + 1]
  <2>1. i \in 0 .. n - 1 /\ ~Among(list, i)
    BY KeptIndex
  <2> HIDE DEF i
  <2>2. Position(i) \in 0 .. Len(kept) - 1 /\ kept[Position(i) + 1] = kept[j + 1]
    BY <2>1, <1>3 DEF i
  <2>3. Position(i) + 1 \in DOMAIN kept /\ j + 1 \in DOMAIN kept
    BY <2>2, <1>1
  <2>4. Position(i) + 1 = j + 1
    <3>1. \A a, b \in DOMAIN kept : kept[a] = kept[b] <=> a = b
      BY <1>1, AscendsOrder
    <3>2. QED
      BY <2>2, <2>3, <3>1
  <2>5. Position(i) = j
    BY <2>2, <2>4
  <2>6. QED
    BY <2>1, <2>5, <1>2 DEF i
<1>6. ASSUME NEW k \in DOMAIN list PROVE e[list[k]] = v[k]
  <2>1. list[k] \in 0 .. n - 1 /\ Among(list, list[k])
    BY <1>1 DEF Among
  <2>2. Place(list[k]) \in DOMAIN list /\ list[Place(list[k])] = list[k]
    BY <2>1, <1>9
  <2>3. Place(list[k]) = k
    <3>1. \A a, b \in DOMAIN list : list[a] = list[b] <=> a = b
      BY <1>1, AscendsOrder
    <3>2. QED
      BY <2>2, <3>1
  <2>4. QED
    BY <2>1, <2>3, <1>2
<1>7. ASSUME NEW i \in 0 .. n - 1, e[i] # 0
      PROVE  \/ \E k \in DOMAIN list : v[k] # 0 /\ list[k] = i
             \/ \E j \in 0 .. Len(kept) - 1 : d[j] # 0 /\ kept[j + 1] = i
  <2>1. CASE Among(list, i)
    BY <2>1, <1>2, <1>7, <1>9
  <2>2. CASE ~Among(list, i)
    BY <2>2, <1>2, <1>3, <1>7
  <2>3. QED
    BY <2>1, <2>2
<1>8. QED
  BY <1>4, <1>5, <1>6, <1>7 DEF e

\* the same value everywhere
Repeated(list, value) == [k \in DOMAIN list |-> value]
ConstantlyInserted(d, list, kept, n, value) ==
  [i \in 0 .. n - 1 |-> IF Among(list, i) THEN value
                        ELSE d[CHOOSE k \in 0 .. Len(kept) - 1 : kept[k + 1] = i]]

LEMMA RepeatedValues ==
  ASSUME NEW d, NEW list, NEW kept, NEW n, NEW v
  PROVE  Inserted(d, list, kept, n, Repeated(list, v))
           = ConstantlyInserted(d, list, kept, n, v)
<1> DEFINE e == Inserted(d, list, kept, n, Repeated(list, v))
           Position(i) == CHOOSE k \in 0 .. Len(kept) - 1 : kept[k + 1] = i
           Place(i) == CHOOSE k \in DOMAIN list : list[k] = i
<1>1. e = [i \in 0 .. n - 1 |-> IF Among(list, i) THEN Repeated(list, v)[Place(i)] ELSE d[Position(i)]]
  BY DEF Inserted
<1>2. ASSUME NEW i, Among(list, i) PROVE Repeated(list, v)[Place(i)] = v
  <2>1. Place(i) \in DOMAIN list
    BY <1>2 DEF Among
  <2> HIDE DEF Place
  <2>2. QED
    BY <2>1 DEF Repeated
<1> HIDE DEF e, Position, Place
<1>3. e = [i \in 0 .. n - 1 |-> IF Among(list, i) THEN v ELSE d[Position(i)]]
  BY <1>1, <1>2
<1>4. QED
  BY <1>3 DEF e, Position, ConstantlyInserted

\* sleqp_preprocessing_add_zero_entries
LEMMA AddZeroIsRight ==
  ASSUME NEW n \in Nat, NEW list, NEW kept, Complete(list, kept, n), NEW x, NEW d, Right(x, Len(kept), d),
         NEW target \in Vectors, target.dim = n
  PROVE  Right(AddZeroEntries(x, target, list), n, Inserted(d, list, kept, n, Repeated(list, 0)))
<1> DEFINE q == x.nz
           c == Cursors(q, list)
           e == Inserted(d, list, kept, n, Repeated(list, 0))
           r == [k \in DOMAIN q |-> Entry(q[k].i + c[k], q[k].v)]
           room == Greater(target.nnzMax, Len(q))
<1>1. /\ q \in Seq(VecEntries) /\ Sorted(q) /\ DOMAIN q = 1 .. Len(q) /\ Len(q) \in Nat
      /\ \A k \in DOMAIN q : q[k].i \in 0 .. Len(kept) - 1 /\ q[k].v = d[q[k].i]
      /\ \A j \in 0 .. Len(kept) - 1 : d[j] # 0 => \E k \in DOMAIN q : q[k].i = j
      /\ d \in DenseVectors(Len(kept))
  BY DEF Right, Holds
<1>2. AddZeroEntries(x, target, list) = PushAll(Reserve(Clear(target), Len(q)), r)
  BY DEF AddZeroEntries, NnzOf
<1> HIDE DEF q
<1>3. CursorsRight(c, q, list, kept)
  BY <1>1, CursorsAreRight
<1> HIDE DEF c
<1>4. /\ e \in DenseVectors(n) /\ \A j \in 0 .. Len(kept) - 1 : e[kept[j + 1]] = d[j]
      /\ \A i \in 0 .. n - 1 : e[i] # 0 => \E j \in 0 .. Len(kept) - 1 : d[j] # 0 /\ kept[j + 1] = i
  <2>1. Repeated(list, 0) \in [DOMAIN list -> Int] /\ \A k \in DOMAIN list : Repeated(list, 0)[k] = 0
    BY DEF Repeated
  <2>2. /\ e \in DenseVectors(n) /\ \A j \in 0 .. Len(kept) - 1 : e[kept[j + 1]] = d[j]
        /\ \A i \in 0 .. n - 1 : e[i] # 0 =>
             \/ \E k \in DOMAIN list : Repeated(list, 0)[k] # 0 /\ list[k] = i
             \/ \E j \in 0 .. Len(kept) - 1 : d[j] # 0 /\ kept[j + 1] = i
    <3> HIDE DEF c, r, room
    <3>1. d \in DenseVectors(Len(kept)) /\ Complete(list, kept, n)
      BY <1>1
    <3>2. Repeated(list, 0) \in [DOMAIN list -> Int]
      BY <2>1
    <3>3. QED
      BY <3>1, <3>2, InsertedValues
  <2> HIDE DEF e
  <2>3. QED
    BY <2>1, <2>2
<1> HIDE DEF e
<1>5. ASSUME NEW k \in DOMAIN q
      PROVE  r[k] \in VecEntries /\ r[k].i = kept[q[k].i + 1] /\ r[k].v = d[q[k].i]
             /\ q[k].i + 1 \in DOMAIN kept /\ kept[q[k].i + 1] \in 0 .. n - 1
  <2>1. r[k] = Entry(kept[q[k].i + 1], q[k].v)
    BY <1>3 DEF CursorsRight
  <2>2. q[k].i + 1 \in DOMAIN kept
    BY <1>1 DEF Complete, Ascends
  <2>3. kept[q[k].i + 1] \in 0 .. n - 1
    BY <2>2 DEF Complete, Ascends
  <2>4. q[k].v \in Int
    <3>1. q[k] \in VecEntries
      BY <1>1
    <3>2. QED
      BY <3>1 DEF VecEntries
  <2> HIDE DEF r
  <2>5. r[k].i = kept[q[k].i + 1] /\ r[k].v = d[q[k].i]
    BY <2>1, <1>1 DEF Entry
  <2>6. r[k] \in VecEntries
    BY <2>1, <2>3, <2>4 DEF Entry, VecEntries
  <2>7. QED
    BY <2>2, <2>3, <2>5, <2>6
<1>6. r \in Seq(VecEntries) /\ Len(r) = Len(q) /\ DOMAIN r = DOMAIN q
  <2>1. \A k \in 1 .. Len(q) : r[k] \in VecEntries
    BY <1>1, <1>5
  <2>2. r = [k \in 1 .. Len(q) |-> r[k]]
    BY <1>1
  <2> HIDE DEF r
  <2>3. QED
    BY <2>1, <2>2, <1>1
<1> HIDE DEF r
<1>7. Sorted(r)
  <2> SUFFICES ASSUME NEW j \in DOMAIN q, NEW k \in DOMAIN q, j < k PROVE r[j].i < r[k].i
    BY <1>6 DEF Sorted
  <2>1. q[j].i < q[k].i /\ q[j].i \in Int /\ q[k].i \in Int
    BY <1>1 DEF Sorted
  <2>2. q[j].i + 1 < q[k].i + 1
    BY <2>1
  <2>3. \A a, b \in DOMAIN kept : a < b => kept[a] < kept[b]
    BY AscendsOrder DEF Complete
  <2>4. r[j].i = kept[q[j].i + 1] /\ r[k].i = kept[q[k].i + 1]
        /\ q[j].i + 1 \in DOMAIN kept /\ q[k].i + 1 \in DOMAIN kept
    BY <1>5
  <2>5. QED
    BY <2>2, <2>3, <2>4
<1>8. \A k \in DOMAIN r : r[k].i \in 0 .. n - 1 /\ r[k].v = e[r[k].i]
  <2> TAKE k \in DOMAIN r
  <2>1. q[k].i \in 0 .. Len(kept) - 1
    BY <1>1, <1>6
  <2>2. e[kept[q[k].i + 1]] = d[q[k].i]
    BY <2>1, <1>4
  <2>3. QED
    BY <2>2, <1>5, <1>6
<1>9. ASSUME NEW i \in 0 .. n - 1, e[i] # 0 PROVE \E k \in DOMAIN r : r[k].i = i
  <2>1. PICK j \in 0 .. Len(kept) - 1 : d[j] # 0 /\ kept[j + 1] = i
    BY <1>4, <1>9
  <2>2. PICK k \in DOMAIN q : q[k].i = j
    BY <2>1, <1>1
  <2>3. QED
    BY <2>1, <2>2, <1>5, <1>6
<1>10. Holds(r, n, e)
  BY <1>6, <1>7, <1>8, <1>9 DEF Holds
<1>11. /\ Reserve(Clear(target), Len(q)) = [dim |-> n, nnzMax |-> room, nz |-> <<>>]
       /\ room \in Nat /\ Len(r) <= room
  <2>1. /\ Reserve(Clear(target), Len(q)) = [dim |-> n, nnzMax |-> room, nz |-> <<>>]
        /\ room \in Nat /\ Len(q) <= room
    BY <1>1, RoomIsMade
  <2>2. QED
    BY <2>1, <1>6
<1> HIDE DEF room
<1>12. AddZeroEntries(x, target, list) = [dim |-> n, nnzMax |-> room, nz |-> r]
  BY <1>2, <1>6, <1>11, PushAllOnNothing
<1>13. Right([dim |-> n, nnzMax |-> room, nz |-> r], n, e)
  BY <1>4, <1>10, <1>11, PushedIsRight
<1>14. QED
  BY <1>12, <1>13 DEF e

\* entries from index lo up to below hi, with the values of e
Part(s, lo, hi, e) ==
  /\ s \in Seq(VecEntries) /\ Sorted(s)
  /\ \A k \in DOMAIN s : lo <= s[k].i /\ s[k].i < hi /\ s[k].v = e[s[k].i]
Stored(s, i) == \E k \in DOMAIN s : s[k].i = i

LEMMA PartsJoin ==
  ASSUME NEW lo \in Int, NEW mid \in Int, NEW hi \in Int, lo <= mid, mid <= hi, NEW e,
         NEW a, NEW b, Part(a, lo, mid, e), Part(b, mid, hi, e)
  PROVE  /\ Part(a \o b, lo, hi, e) /\ Len(a \o b) = Len(a) + Len(b)
         /\ \A i : Stored(a \o b, i) <=> Stored(a, i) \/ Stored(b, i)
<1> DEFINE s == a \o b
<1>1. PICK m \in Nat : m = Len(a) /\ DOMAIN a = 1 .. m
  <2>1. Len(a) \in Nat /\ DOMAIN a = 1 .. Len(a)
    BY DEF Part
  <2>2. QED
    BY <2>1
<1>2. PICK n \in Nat : n = Len(b) /\ DOMAIN b = 1 .. n
  <2>1. Len(b) \in Nat /\ DOMAIN b = 1 .. Len(b)
    BY DEF Part
  <2>2. QED
    BY <2>1
<1>3. a \in Seq(VecEntries) /\ b \in Seq(VecEntries)
  BY DEF Part
<1>4. /\ s \in Seq(VecEntries) /\ Len(s) = m + n /\ DOMAIN s = 1 .. m + n
      /\ \A k \in 1 .. m : s[k] = a[k]
      /\ \A k \in 1 .. n : s[m + k] = b[k]
  <2>1. s \in Seq(VecEntries) /\ Len(s) = Len(a) + Len(b) /\ DOMAIN s = 1 .. Len(s)
    BY <1>3
  <2>2. \A k \in 1 .. Len(a) : s[k] = a[k]
    BY <1>3
  <2>3. \A k \in 1 .. Len(b) : s[Len(a) + k] = b[k]
    BY <1>3
  <2> HIDE DEF s
  <2>4. QED
    BY <2>1, <2>2, <2>3, <1>1, <1>2
<1> HIDE DEF s
<1>5. ASSUME NEW k \in 1 .. m + n
      PROVE  \/ k \in 1 .. m /\ s[k] = a[k]
             \/ k > m /\ k - m \in 1 .. n /\ s[k] = b[k - m]
  <2>1. CASE k <= m
    BY <2>1, <1>4
  <2>2. CASE ~(k <= m)
    <3>1. k - m \in 1 .. n /\ m + (k - m) = k /\ k > m
      BY <2>2
    <3>2. QED
      BY <3>1, <1>4
  <2>3. QED
    BY <2>1, <2>2
<1>6. \A k \in 1 .. m : a[k].i \in Int /\ lo <= a[k].i /\ a[k].i < mid /\ a[k].v = e[a[k].i]
  <2> TAKE k \in 1 .. m
  <2>1. a[k] \in VecEntries
    BY <1>1, <1>3
  <2>2. QED
    BY <2>1, <1>1 DEF Part, VecEntries
<1>7. \A k \in 1 .. n : b[k].i \in Int /\ mid <= b[k].i /\ b[k].i < hi /\ b[k].v = e[b[k].i]
  <2> TAKE k \in 1 .. n
  <2>1. b[k] \in VecEntries
    BY <1>2, <1>3
  <2>2. QED
    BY <2>1, <1>2 DEF Part, VecEntries
<1>8. ASSUME NEW k \in 1 .. m + n PROVE lo <= s[k].i /\ s[k].i < hi /\ s[k].v = e[s[k].i]
  <2>1. CASE k \in 1 .. m /\ s[k] = a[k]
    <3>1. a[k].i \in Int /\ lo <= a[k].i /\ a[k].i < mid /\ a[k].v = e[a[k].i]
      BY <2>1, <1>6
    <3>2. QED
      BY <2>1, <3>1
  <2>2. CASE k - m \in 1 .. n /\ s[k] = b[k - m]
    <3>1. b[k - m].i \in Int /\ mid <= b[k - m].i /\ b[k - m].i < hi /\ b[k - m].v = e[b[k - m].i]
      BY <2>2, <1>7
    <3>2. QED
      BY <2>2, <3>1
  <2>3. QED
    BY <2>1, <2>2, <1>5
<1>9. Sorted(s)
  <2> SUFFICES ASSUME NEW j \in 1 .. m + n, NEW k \in 1 .. m + n, j < k PROVE s[j].i < s[k].i
    BY <1>4 DEF Sorted
  <2>1. CASE k \in 1 .. m /\ s[k] = a[k]
    <3>1. j \in 1 .. m /\ s[j] = a[j]
      BY <2>1, <1>4
    <3>2. QED
      BY <2>1, <3>1, <1>1 DEF Part, Sorted
  <2>2. CASE k - m \in 1 .. n /\ s[k] = b[k - m] /\ j \in 1 .. m /\ s[j] = a[j]
    <3>1. a[j].i \in Int /\ a[j].i < mid
      BY <2>2, <1>6
    <3>2. b[k - m].i \in Int /\ mid <= b[k - m].i
      BY <2>2, <1>7
    <3>3. QED
      BY <2>2, <3>1, <3>2
  <2>3. CASE k - m \in 1 .. n /\ s[k] = b[k - m] /\ j - m \in 1 .. n /\ s[j] = b[j - m]
    <3>1. j - m < k - m
      OBVIOUS
    <3>2. b[j - m].i < b[k - m].i
      BY <2>3, <3>1, <1>2 DEF Part, Sorted
    <3>3. QED
      BY <2>3, <3>2
  <2>4. QED
    BY <2>1, <2>2, <2>3, <1>5
<1>10. Part(s, lo, hi, e)
  BY <1>4, <1>8, <1>9 DEF Part
<1>11. ASSUME NEW i PROVE Stored(s, i) <=> Stored(a, i) \/ Stored(b, i)
  <2>1. ASSUME Stored(s, i) PROVE Stored(a, i) \/ Stored(b, i)
    <3>1. PICK k \in 1 .. m + n : s[k].i = i
      BY <2>1, <1>4 DEF Stored
    <3>2. QED
      BY <3>1, <1>1, <1>2, <1>5 DEF Stored
  <2>2. ASSUME Stored(a, i) PROVE Stored(s, i)
    <3>1. PICK k \in 1 .. m : a[k].i = i
      BY <2>2, <1>1 DEF Stored
    <3>2. k \in 1 .. m + n /\ s[k].i = i
      BY <3>1, <1>4
    <3>3. QED
      BY <3>2, <1>4 DEF Stored
  <2>3. ASSUME Stored(b, i) PROVE Stored(s, i)
    <3>1. PICK k \in 1 .. n : b[k].i = i
      BY <2>3, <1>2 DEF Stored
    <3>2. m + k \in 1 .. m + n /\ s[m + k].i = i
      BY <3>1, <1>4
    <3>3. QED
      BY <3>2, <1>4 DEF Stored
  <2>4. QED
    BY <2>1, <2>2, <2>3
<1>12. Len(s) = Len(a) + Len(b)
  BY <1>1, <1>2, <1>4
<1>13. QED
  BY <1>10, <1>11, <1>12 DEF s

\* the entries that are put in, and a stretch of them
ListedEntries(list, values) == [k \in DOMAIN list |-> Entry(list[k], values[k])]

LEMMA FixedSegment ==
  ASSUME NEW n \in Nat, NEW list, Ascends(list, n), NEW v \in [DOMAIN list -> Int], NEW e,
         \A k \in DOMAIN list : e[list[k]] = v[k],
         NEW a \in 0 .. Len(list), NEW b \in a .. Len(list), NEW lo \in Int, NEW hi \in Int,
         \A k \in DOMAIN list : k > a /\ k <= b => lo <= list[k] /\ list[k] < hi
  PROVE  LET s == SubSeq(ListedEntries(list, v), a + 1, b)
         IN /\ Part(s, lo, hi, e) /\ Len(s) = b - a
            /\ \A k \in DOMAIN list : k > a /\ k <= b => Stored(s, list[k])
<1> DEFINE fixed == ListedEntries(list, v)
           s == SubSeq(fixed, a + 1, b)
<1>1. PICK L \in Nat : L = Len(list) /\ DOMAIN list = 1 .. L
  <2>1. Len(list) \in Nat /\ DOMAIN list = 1 .. Len(list)
    BY DEF Ascends
  <2>2. QED
    BY <2>1
<1>2. a \in 0 .. L /\ b \in a .. L /\ \A k \in 1 .. L : list[k] \in Nat /\ v[k] \in Int
  BY <1>1 DEF Ascends
<1>3. \A k \in 1 .. L : Entry(list[k], v[k]) \in VecEntries
  BY <1>2 DEF Entry, VecEntries
<1>4. /\ fixed \in Seq(VecEntries) /\ Len(fixed) = L
      /\ \A k \in 1 .. L : fixed[k].i = list[k] /\ fixed[k].v = v[k]
  <2>1. fixed = [k \in 1 .. L |-> Entry(list[k], v[k])]
    BY <1>1 DEF ListedEntries
  <2>2. fixed \in Seq(VecEntries) /\ Len(fixed) = L
    BY <1>3, <2>1
  <2>3. \A k \in 1 .. L : fixed[k].i = list[k] /\ fixed[k].v = v[k]
    BY <2>1 DEF Entry
  <2>4. QED
    BY <2>2, <2>3
<1> HIDE DEF fixed
<1>5. a + 1 \in 1 .. L + 1 /\ b \in 0 .. L /\ b - a \in Nat
  BY <1>2
<1>6. s \in Seq(VecEntries) /\ Len(s) = b - a /\ DOMAIN s = 1 .. b - a
      /\ \A k \in 1 .. b - a : s[k] = fixed[a + k]
  <2>1. \A k \in a + 1 .. b : k \in 1 .. Len(fixed)
    BY <1>2, <1>4
  <2>2. s = [k \in 1 .. (b - (a + 1)) + 1 |-> fixed[(k + (a + 1)) - 1]]
    BY <1>2, <1>4
  <2>3. (b - (a + 1)) + 1 = b - a /\ \A k \in 1 .. b - a : (k + (a + 1)) - 1 = a + k /\ a + k \in a + 1 .. b
    BY <1>2
  <2>4. s = [k \in 1 .. b - a |-> fixed[a + k]]
    BY <2>2, <2>3
  <2>5. \A k \in 1 .. b - a : fixed[a + k] \in VecEntries
    <3>1. \A j \in 1 .. Len(fixed) : fixed[j] \in VecEntries
      BY <1>4
    <3>2. QED
      BY <2>1, <2>3, <3>1
  <2> HIDE DEF s
  <2>6. QED
    BY <2>4, <2>5, <1>5
<1> HIDE DEF s
<1>7. \A k \in 1 .. b - a : a + k \in 1 .. L /\ a + k > a /\ a + k <= b
  BY <1>2
<1>8. ASSUME NEW k \in 1 .. b - a
      PROVE  s[k].i = list[a + k] /\ lo <= s[k].i /\ s[k].i < hi /\ s[k].v = e[s[k].i]
  <2>1. a + k \in 1 .. L /\ a + k > a /\ a + k <= b /\ s[k] = fixed[a + k]
    BY <1>6, <1>7
  <2>2. s[k].i = list[a + k] /\ s[k].v = v[a + k]
    BY <2>1, <1>4
  <2>3. a + k \in DOMAIN list
    BY <2>1, <1>1
  <2>4. lo <= list[a + k] /\ list[a + k] < hi /\ e[list[a + k]] = v[a + k]
    BY <2>1, <2>3
  <2>5. QED
    BY <2>2, <2>4
<1>9. Sorted(s)
  <2> SUFFICES ASSUME NEW j \in 1 .. b - a, NEW k \in 1 .. b - a, j < k PROVE s[j].i < s[k].i
    BY <1>6 DEF Sorted
  <2>1. a + j \in DOMAIN list /\ a + k \in DOMAIN list /\ a + j < a + k
    BY <1>1, <1>2, <1>7
  <2>2. list[a + j] < list[a + k]
    BY <2>1, AscendsOrder
  <2>3. QED
    BY <2>2, <1>8
<1>10. ASSUME NEW k \in 1 .. L, k > a, k <= b PROVE Stored(s, list[k])
  <2>1. k - a \in 1 .. b - a /\ a + (k - a) = k
    BY <1>2, <1>10
  <2>2. s[k - a].i = list[k]
    BY <2>1, <1>8
  <2>3. QED
    BY <2>1, <2>2, <1>6 DEF Stored
<1>11. Part(s, lo, hi, e)
  BY <1>6, <1>8, <1>9 DEF Part
<1>12. QED
  BY <1>1, <1>6, <1>10, <1>11 DEF s, fixed

\* a sequence of one entry
LEMMA OnePart ==
  ASSUME NEW t \in Int, NEW value \in Int, NEW e, e[t] = value
  PROVE  /\ Part(<<Entry(t, value)>>, t, t + 1, e) /\ Len(<<Entry(t, value)>>) = 1
         /\ Stored(<<Entry(t, value)>>, t)
<1> DEFINE s == <<Entry(t, value)>>
<1>1. Entry(t, value) \in VecEntries
  BY DEF Entry, VecEntries
<1>2. s \in Seq(VecEntries) /\ Len(s) = 1 /\ DOMAIN s = 1 .. 1
  BY <1>1
<1>3. s[1].i = t /\ s[1].v = value
  BY DEF Entry
<1> HIDE DEF s
<1>4. \A k \in DOMAIN s : k = 1
  BY <1>2
<1>5. Sorted(s)
  BY <1>4 DEF Sorted
<1>6. Part(s, t, t + 1, e)
  BY <1>2, <1>3, <1>4, <1>5 DEF Part
<1>7. Stored(s, t)
  <2>1. 1 \in DOMAIN s
    BY <1>2
  <2>2. QED
    BY <2>1, <1>3 DEF Stored
<1>8. QED
  BY <1>2, <1>6, <1>7 DEF s

\* what is known of the entries q, the cursors c and the result e
Merging(q, c, list, kept, n, v, e) ==
  /\ Complete(list, kept, n) /\ CursorsRight(c, q, list, kept)
  /\ q \in Seq(VecEntries) /\ Sorted(q)
  /\ \A k \in DOMAIN q : q[k].i \in 0 .. Len(kept) - 1 /\ e[kept[q[k].i + 1]] = q[k].v
  /\ v \in [DOMAIN list -> Int] /\ \A k \in DOMAIN list : e[list[k]] = v[k]

\* the first index that is not decided after k entries
Reached(q, kept, k) == IF k = 0 THEN 0 ELSE kept[q[k].i + 1] + 1

LEMMA ReachedIndex ==
  ASSUME NEW n \in Nat, NEW list, NEW kept, NEW q, NEW c, NEW v, NEW e,
         Merging(q, c, list, kept, n, v, e), NEW k \in 0 .. Len(q)
  PROVE  /\ Reached(q, kept, k) \in 0 .. n /\ c[k] \in 0 .. Len(list)
         /\ \A l \in DOMAIN list : l > c[k] => Reached(q, kept, k) <= list[l]
         /\ k # Len(q) => Reached(q, kept, k) <= kept[q[k + 1].i + 1]
<1>1. /\ DOMAIN q = 1 .. Len(q) /\ Len(q) \in Nat /\ Len(list) \in Nat /\ DOMAIN list = 1 .. Len(list)
      /\ DOMAIN kept = 1 .. Len(kept) /\ Len(kept) \in Nat
      /\ \A j \in DOMAIN kept : kept[j] \in 0 .. n - 1
      /\ \A j \in DOMAIN list : list[j] \in 0 .. n - 1
      /\ \A j \in DOMAIN q : q[j].i \in 0 .. Len(kept) - 1
  BY DEF Merging, Complete, Ascends
<1>2. ASSUME NEW j \in DOMAIN q
      PROVE  q[j].i \in 0 .. Len(kept) - 1 /\ q[j].i + 1 \in DOMAIN kept /\ kept[q[j].i + 1] \in 0 .. n - 1
  <2>1. q[j].i \in 0 .. Len(kept) - 1
    BY <1>1
  <2>2. q[j].i + 1 \in DOMAIN kept
    BY <2>1, <1>1
  <2>3. QED
    BY <2>1, <2>2, <1>1
<1>3. CASE k = 0
  <2>1. Reached(q, kept, k) = 0 /\ c[k] = 0
    BY <1>3 DEF Reached, Merging, CursorsRight
  <2>2. \A l \in DOMAIN list : 0 <= list[l]
    BY <1>1
  <2>3. k # Len(q) => k + 1 \in DOMAIN q
    BY <1>1, <1>3
  <2>4. k # Len(q) => 0 <= kept[q[k + 1].i + 1]
    BY <2>3, <1>2
  <2>5. Reached(q, kept, k) \in 0 .. n /\ c[k] \in 0 .. Len(list)
    BY <2>1, <1>1
  <2>6. \A l \in DOMAIN list : l > c[k] => Reached(q, kept, k) <= list[l]
    BY <2>1, <2>2
  <2>7. k # Len(q) => Reached(q, kept, k) <= kept[q[k + 1].i + 1]
    BY <2>1, <2>4
  <2>8. QED
    BY <2>5, <2>6, <2>7
<1>4. CASE k # 0
  <2> DEFINE t == kept[q[k].i + 1]
  <2>1. k \in DOMAIN q
    BY <1>1, <1>4
  <2>2. t \in 0 .. n - 1 /\ q[k].i \in 0 .. Len(kept) - 1 /\ q[k].i + 1 \in DOMAIN kept
    BY <2>1, <1>2
  <2>3. Reached(q, kept, k) = t + 1
    BY <1>4 DEF Reached
  <2>4. c[k] \in 0 .. Len(list) /\ Below(list, t, c[k])
    BY <2>1 DEF Merging, CursorsRight
  <2>5. ~Among(list, t)
    <3> DEFINE i == q[k].i
    <3>1. i \in 0 .. Len(kept) - 1 /\ t = kept[i + 1] /\ Complete(list, kept, n)
      BY <2>2 DEF Merging
    <3> HIDE DEF i
    <3>2. ~Among(list, kept[i + 1])
      BY <3>1, KeptIndex
    <3>3. QED
      BY <3>1, <3>2
  <2>6. ASSUME k # Len(q) PROVE t < kept[q[k + 1].i + 1] /\ kept[q[k + 1].i + 1] \in Int
    <3>1. k + 1 \in DOMAIN q /\ k < k + 1
      BY <1>1, <2>6
    <3>2. q[k].i < q[k + 1].i
      BY <2>1, <3>1 DEF Merging, Sorted
    <3>3. q[k + 1].i \in 0 .. Len(kept) - 1 /\ q[k + 1].i + 1 \in DOMAIN kept /\ kept[q[k + 1].i + 1] \in 0 .. n - 1
      BY <3>1, <1>2
    <3>4. q[k].i + 1 < q[k + 1].i + 1
      <4>1. q[k].i \in Int /\ q[k + 1].i \in Int
        BY <2>2, <3>3
      <4>2. QED
        BY <4>1, <3>2
    <3>5. \A a, b \in DOMAIN kept : a < b => kept[a] < kept[b]
      BY AscendsOrder DEF Merging, Complete
    <3>6. QED
      BY <3>3, <3>4, <3>5, <2>2
  <2> HIDE DEF t
  <2>7. ASSUME NEW l \in DOMAIN list, l > c[k] PROVE t + 1 <= list[l]
    <3>1. ~(list[l] < t)
      BY <2>4, <2>7, <1>1 DEF Below
    <3>2. list[l] # t
      BY <2>5 DEF Among
    <3>3. QED
      BY <3>1, <3>2, <2>2, <1>1
  <2>8. QED
    BY <2>2, <2>3, <2>4, <2>6, <2>7
<1>5. QED
  BY <1>3, <1>4

\* the fixed entries between two cursors
Between(q, c, list, kept, v, e, k, b, hi) ==
  LET s == SubSeq(ListedEntries(list, v), c[k] + 1, b)
  IN /\ Part(s, Reached(q, kept, k), hi, e) /\ Len(s) = b - c[k]
     /\ \A l \in DOMAIN list : l > c[k] /\ l <= b => Stored(s, list[l])

LEMMA FixedBetween ==
  ASSUME NEW n \in Nat, NEW list, NEW kept, NEW q, NEW c, NEW v, NEW e,
         Merging(q, c, list, kept, n, v, e), NEW k \in 0 .. Len(q),
         NEW b \in c[k] .. Len(list), NEW hi \in Int, \A l \in DOMAIN list : l <= b => list[l] < hi
  PROVE  Between(q, c, list, kept, v, e, k, b, hi)
<1> DEFINE lo == Reached(q, kept, k)
           a == c[k]
<1>1. lo \in 0 .. n /\ a \in 0 .. Len(list) /\ \A l \in DOMAIN list : l > a => lo <= list[l]
  BY ReachedIndex
<1>2. lo \in Int /\ b \in a .. Len(list) /\ Ascends(list, n)
      /\ v \in [DOMAIN list -> Int] /\ \A l \in DOMAIN list : e[list[l]] = v[l]
  BY <1>1 DEF Merging, Complete
<1> HIDE DEF lo, a
<1>3. \A l \in DOMAIN list : l > a /\ l <= b => lo <= list[l] /\ list[l] < hi
  BY <1>1
<1>4. LET s == SubSeq(ListedEntries(list, v), a + 1, b)
      IN /\ Part(s, lo, hi, e) /\ Len(s) = b - a
         /\ \A l \in DOMAIN list : l > a /\ l <= b => Stored(s, list[l])
  BY <1>1, <1>2, <1>3, FixedSegment
<1>5. QED
  BY <1>4 DEF lo, a, Between

\* what k entries and the indices before them have become
Merged(s, k, q, c, list, kept, e) ==
  /\ Part(s, 0, Reached(q, kept, k), e) /\ Len(s) = k + c[k]
  /\ \A l \in DOMAIN list : l <= c[k] => Stored(s, list[l])
  /\ \A l \in 1 .. k : Stored(s, kept[q[l].i + 1])

\* The fixed entries up to the next entry, and this entry, are appended.
MergedNext(s, k, q, c, list, v) ==
  (s \o SubSeq(ListedEntries(list, v), c[k - 1] + 1, c[k]))
    \o <<Entry(q[k].i + c[k], q[k].v)>>

LEMMA MergeStep ==
  ASSUME NEW n \in Nat, NEW list, NEW kept, NEW q, NEW c, NEW v, NEW e,
         Merging(q, c, list, kept, n, v, e), NEW k \in 1 .. Len(q),
         NEW s, Merged(s, k - 1, q, c, list, kept, e)
  PROVE  Merged(MergedNext(s, k, q, c, list, v), k, q, c, list, kept, e)
<1> DEFINE t == kept[q[k].i + 1]
           a == SubSeq(ListedEntries(list, v), c[k - 1] + 1, c[k])
           b == <<Entry(t, q[k].v)>>
           lo == Reached(q, kept, k - 1)
<1>1. /\ DOMAIN q = 1 .. Len(q) /\ Len(q) \in Nat /\ DOMAIN list = 1 .. Len(list) /\ Len(list) \in Nat
      /\ k - 1 \in 0 .. Len(q) /\ k - 1 # Len(q) /\ (k - 1) + 1 = k /\ k \in DOMAIN q /\ k # 0
  BY DEF Merging, Complete, Ascends
<1>2. lo \in 0 .. n /\ lo <= t /\ c[k - 1] \in 0 .. Len(list)
  <2>1. k - 1 # Len(q) => Reached(q, kept, k - 1) <= kept[q[(k - 1) + 1].i + 1]
    BY <1>1, ReachedIndex
  <2>2. Reached(q, kept, k - 1) \in 0 .. n /\ c[k - 1] \in 0 .. Len(list)
    BY <1>1, ReachedIndex
  <2>3. QED
    BY <2>1, <2>2, <1>1
<1>3. /\ c[k] \in 0 .. Len(list) /\ c[k - 1] \in 0 .. c[k] /\ Below(list, t, c[k]) /\ q[k].i + c[k] = t
      /\ e[t] = q[k].v
  BY <1>1 DEF Merging, CursorsRight
<1>4. t \in 0 .. n - 1 /\ q[k].v \in Int
  <2>1. q[k] \in VecEntries /\ q[k].i \in 0 .. Len(kept) - 1
    BY <1>1 DEF Merging
  <2>2. q[k].i + 1 \in DOMAIN kept
    BY <2>1 DEF Merging, Complete, Ascends
  <2>3. QED
    BY <2>1, <2>2 DEF Merging, Complete, Ascends, VecEntries
<1>5. Reached(q, kept, k) = t + 1
  BY <1>1 DEF Reached
<1>6. /\ Part(s, 0, lo, e) /\ Len(s) = (k - 1) + c[k - 1]
      /\ \A l \in DOMAIN list : l <= c[k - 1] => Stored(s, list[l])
      /\ \A l \in 1 .. k - 1 : Stored(s, kept[q[l].i + 1])
  BY DEF Merged
<1>7. MergedNext(s, k, q, c, list, v) = (s \o a) \o b
  BY <1>3 DEF MergedNext
<1> HIDE DEF lo
<1>8. Part(a, lo, t, e) /\ Len(a) = c[k] - c[k - 1]
      /\ \A l \in DOMAIN list : l > c[k - 1] /\ l <= c[k] => Stored(a, list[l])
  <2>1. c[k] \in c[k - 1] .. Len(list) /\ t \in Int
    BY <1>3, <1>4, <1>2
  <2>2. \A l \in DOMAIN list : l <= c[k] => list[l] < t
    BY <1>3 DEF Below
  <2> DEFINE j == k - 1
             to == c[k]
  <2> HIDE DEF t
  <2>3. j \in 0 .. Len(q) /\ to \in c[j] .. Len(list) /\ t \in Int
        /\ \A l \in DOMAIN list : l <= to => list[l] < t
    BY <2>1, <2>2, <1>1
  <2> HIDE DEF j, a, to
  <2>4. Between(q, c, list, kept, v, e, j, to, t)
    BY <2>3, FixedBetween
  <2>5. QED
    BY <2>4 DEF lo, j, a, to, Between
<1> HIDE DEF a, t
<1>9. Part(b, t, t + 1, e) /\ Len(b) = 1 /\ Stored(b, t)
  BY <1>3, <1>4, OnePart
<1> HIDE DEF b
<1>10. Part(s \o a, 0, t, e) /\ Len(s \o a) = Len(s) + Len(a)
       /\ \A i : Stored(s \o a, i) <=> Stored(s, i) \/ Stored(a, i)
  <2>1. lo \in Int /\ t \in Int /\ 0 <= lo /\ lo <= t
    BY <1>2, <1>4
  <2>2. Part(s, 0, lo, e) /\ Part(a, lo, t, e) /\ 0 \in Int
    BY <1>6, <1>8
  <2>3. ASSUME NEW u, NEW w, Part(u, 0, lo, e), Part(w, lo, t, e)
        PROVE  /\ Part(u \o w, 0, t, e) /\ Len(u \o w) = Len(u) + Len(w)
               /\ \A i : Stored(u \o w, i) <=> Stored(u, i) \/ Stored(w, i)
    BY <2>1, <2>2, <2>3, PartsJoin
  <2>4. QED
    BY <2>2, <2>3
<1> DEFINE m == s \o a
<1> HIDE DEF m
<1>11. Part(m \o b, 0, t + 1, e) /\ Len(m \o b) = Len(m) + Len(b)
       /\ \A i : Stored(m \o b, i) <=> Stored(m, i) \/ Stored(b, i)
  <2>1. Part(m, 0, t, e)
    BY <1>10 DEF m
  <2>2. t \in Int /\ t + 1 \in Int /\ 0 <= t /\ t <= t + 1
    BY <1>4
  <2> DEFINE hi == t + 1
  <2>3. 0 \in Int /\ t \in Int /\ hi \in Int /\ 0 <= t /\ t <= hi /\ Part(b, t, hi, e)
    BY <2>2, <1>9
  <2> HIDE DEF hi
  <2>4. \A u, w : Part(u, 0, t, e) /\ Part(w, t, hi, e) =>
          /\ Part(u \o w, 0, hi, e) /\ Len(u \o w) = Len(u) + Len(w)
          /\ \A i : Stored(u \o w, i) <=> Stored(u, i) \/ Stored(w, i)
    BY <2>3, PartsJoin
  <2>5. QED
    BY <2>1, <2>3, <2>4 DEF hi
<1> DEFINE r == m \o b
<1>12. Len(r) = k + c[k]
  <2>1. Len(r) = (((k - 1) + c[k - 1]) + (c[k] - c[k - 1])) + 1
    BY <1>6, <1>8, <1>9, <1>10, <1>11 DEF m
  <2>2. c[k - 1] \in Int /\ c[k] \in Int
    BY <1>2, <1>3
  <2> HIDE DEF r
  <2>3. QED
    BY <2>1, <2>2
<1>13. ASSUME NEW l \in DOMAIN list, l <= c[k] PROVE Stored(r, list[l])
  <2>1. l <= c[k - 1] \/ l > c[k - 1]
    BY <1>1, <1>2
  <2>2. Stored(s, list[l]) \/ Stored(a, list[l])
    BY <2>1, <1>6, <1>8, <1>13
  <2>3. QED
    BY <2>2, <1>10, <1>11 DEF m
<1>14. ASSUME NEW l \in 1 .. k PROVE Stored(r, kept[q[l].i + 1])
  <2>1. CASE l = k
    <3>1. Stored(r, t)
      BY <1>9, <1>11
    <3>2. QED
      BY <2>1, <3>1 DEF t
  <2>2. CASE l # k
    <3>1. l \in 1 .. k - 1
      BY <2>2, <1>1
    <3>2. Stored(s, kept[q[l].i + 1])
      BY <3>1, <1>6
    <3>3. QED
      BY <3>2, <1>10, <1>11 DEF m
  <2>3. QED
    BY <2>1, <2>2
<1>15. r = MergedNext(s, k, q, c, list, v)
  BY <1>7 DEF m
<1> HIDE DEF r
<1>16. QED
  BY <1>5, <1>11, <1>12, <1>13, <1>14, <1>15 DEF Merged, r

\* A loop of n rounds has values.
Rounds(g, n, V, b, step) ==
  g \in [0 .. n -> V] /\ g[0] = b /\ \A k \in 1 .. n : g[k] = step[<<k, g[k - 1]>>]

LEMMA Iteration ==
  ASSUME NEW n \in Nat, NEW V, NEW b \in V, NEW step \in [(1 .. n) \X V -> V]
  PROVE  \E g : Rounds(g, n, V, b, step)
<1> DEFINE D == 0 .. n
           Final == {0}
           rank == [k \in D |-> k]
           next == [k \in D \ Final |-> k - 1]
           base == [k \in Final |-> b]
<1>1. D \ Final = 1 .. n /\ Final \subseteq D
  OBVIOUS
<1>2. rank \in [D -> Nat] /\ next \in [D \ Final -> D] /\ base \in [Final -> V]
  OBVIOUS
<1>3. step \in [(D \ Final) \X V -> V]
  BY <1>1
<1>4. \A k \in D \ Final : rank[next[k]] < rank[k]
  OBVIOUS
<1>5. base[0] = b /\ \A k \in 1 .. n : next[k] = k - 1
  BY <1>1
<1> HIDE DEF D, Final, rank, next, base
<1>6. PICK g : Recursive(g, D, V, Final, next, base, step)
  <2>1. Falling(D, V, Final, rank, next, base, step)
    BY <1>1, <1>2, <1>3, <1>4 DEF Falling
  <2>2. QED
    BY <2>1, Recursion
<1>7. /\ g \in [D -> V]
      /\ \A c \in D : g[c] = IF c \in Final THEN base[c] ELSE step[<<c, g[next[c]]>>]
  BY <1>6 DEF Recursive
<1>8. 0 \in D /\ 0 \in Final /\ \A k \in 1 .. n : k \in D /\ k \notin Final
  BY <1>1 DEF D, Final
<1>9. g[0] = b
  BY <1>5, <1>7, <1>8
<1>10. \A k \in 1 .. n : g[k] = step[<<k, g[k - 1]>>]
  BY <1>5, <1>7, <1>8
<1>11. QED
  BY <1>7, <1>9, <1>10 DEF D, Rounds

\* All entries are merged.
LEMMA AllMerged ==
  ASSUME NEW n \in Nat, NEW list, NEW kept, NEW q, NEW c, NEW v, NEW e,
         Merging(q, c, list, kept, n, v, e), NEW out,
         out[0] = <<>>, \A k \in 1 .. Len(q) : out[k] = MergedNext(out[k - 1], k, q, c, list, v)
  PROVE  \A k \in 0 .. Len(q) : Merged(out[k], k, q, c, list, kept, e)
<1> DEFINE P == {k \in Nat : k <= Len(q) => Merged(out[k], k, q, c, list, kept, e)}
<1>1. Len(q) \in Nat
  BY DEF Merging
<1>2. 0 \in P
  <2>1. Reached(q, kept, 0) = 0 /\ c[0] = 0
    BY DEF Reached, Merging, CursorsRight
  <2>2. <<>> \in Seq(VecEntries) /\ DOMAIN <<>> = {} /\ Len(<<>>) = 0
    OBVIOUS
  <2>3. Part(<<>>, 0, 0, e)
    BY <2>2 DEF Part, Sorted
  <2>4. \A l \in DOMAIN list : ~(l <= 0)
    BY DEF Merging, Complete, Ascends
  <2>5. 1 .. 0 = {} /\ 0 + 0 = 0
    OBVIOUS
  <2>6. Merged(<<>>, 0, q, c, list, kept, e)
    BY <2>1, <2>2, <2>3, <2>4, <2>5 DEF Merged
  <2>7. QED
    BY <2>6
<1>3. ASSUME NEW k \in P \cap Nat PROVE k + 1 \in P
  <2> SUFFICES ASSUME k + 1 <= Len(q) PROVE Merged(out[k + 1], k + 1, q, c, list, kept, e)
    OBVIOUS
  <2> DEFINE m == k + 1
  <2>1. m \in 1 .. Len(q) /\ m - 1 = k /\ Merged(out[k], k, q, c, list, kept, e)
    BY <1>1
  <2> HIDE DEF m, P
  <2>2. Merged(MergedNext(out[m - 1], m, q, c, list, v), m, q, c, list, kept, e)
    <3>1. Merged(out[m - 1], m - 1, q, c, list, kept, e)
      BY <2>1
    <3>2. QED
      BY <2>1, <3>1, MergeStep
  <2>3. QED
    BY <2>1, <2>2 DEF m
<1>4. \A k \in Nat : k \in P
  <2> HIDE DEF P
  <2>1. QED
    BY <1>2, <1>3, Induction
<1>5. QED
  BY <1>1, <1>4

\* The loop that pushes has a value: its rounds append sequences of entries.
LEMMA MergedSequence ==
  ASSUME NEW n \in Nat, NEW list, NEW kept, NEW q, NEW c, NEW v, NEW e,
         Merging(q, c, list, kept, n, v, e), NEW k \in 1 .. Len(q), NEW s \in Seq(VecEntries)
  PROVE  MergedNext(s, k, q, c, list, v) \in Seq(VecEntries)
<1> DEFINE a == SubSeq(ListedEntries(list, v), c[k - 1] + 1, c[k])
           j == k - 1
           to == c[k]
<1>1. Len(q) \in Nat /\ DOMAIN q = 1 .. Len(q) /\ Len(list) \in Nat /\ DOMAIN list = 1 .. Len(list)
      /\ \A l \in DOMAIN list : list[l] \in 0 .. n - 1
  BY DEF Merging, Complete, Ascends
<1>2. c[k] \in 0 .. Len(list) /\ c[k - 1] \in 0 .. c[k]
  BY <1>1 DEF Merging, CursorsRight
<1>3. j \in 0 .. Len(q) /\ to \in c[j] .. Len(list) /\ n \in Int /\ \A l \in DOMAIN list : l <= to => list[l] < n
  BY <1>1, <1>2
<1> HIDE DEF j, to
<1>4. Between(q, c, list, kept, v, e, j, to, n)
  BY <1>3, FixedBetween
<1>5. a \in Seq(VecEntries)
  BY <1>4 DEF Between, Part, j, to
<1>6. Entry(q[k].i + c[k], q[k].v) \in VecEntries
  <2>1. q[k] \in VecEntries
    BY <1>1 DEF Merging
  <2>2. q[k].i \in Int /\ q[k].v \in Int
    BY <2>1 DEF VecEntries
  <2>3. q[k].i + c[k] \in Int
    BY <2>2, <1>2
  <2>4. QED
    BY <2>2, <2>3 DEF Entry, VecEntries
<1> HIDE DEF a
<1>7. \A u, w \in Seq(VecEntries) : u \o w \in Seq(VecEntries)
  OBVIOUS
<1>8. <<Entry(q[k].i + c[k], q[k].v)>> \in Seq(VecEntries)
  BY <1>6
<1>9. QED
  BY <1>5, <1>7, <1>8 DEF MergedNext, a

\* Where e is not zero there is a fixed or a moved entry.
Covered(d, e, q, list, kept, n) ==
  /\ \A i \in 0 .. n - 1 : e[i] # 0 => \/ Among(list, i)
                                        \/ \E j \in 0 .. Len(kept) - 1 : d[j] # 0 /\ kept[j + 1] = i
  /\ \A j \in 0 .. Len(kept) - 1 : d[j] # 0 => \E k \in DOMAIN q : q[k].i = j

\* What is pushed in the end
Pushed(s, q, c, list, v) ==
  s \o SubSeq(ListedEntries(list, v), c[Len(q)] + 1, Len(list))

LEMMA LastMerge ==
  ASSUME NEW n \in Nat, NEW list, NEW kept, NEW q, NEW c, NEW v, NEW e,
         Merging(q, c, list, kept, n, v, e),
         NEW s, Merged(s, Len(q), q, c, list, kept, e), NEW d, Covered(d, e, q, list, kept, n)
  PROVE  Holds(Pushed(s, q, c, list, v), n, e) /\ Len(Pushed(s, q, c, list, v)) = Len(q) + Len(list)
<1> DEFINE N == Len(q)
           L == Len(list)
           lo == Reached(q, kept, N)
           a == SubSeq(ListedEntries(list, v), c[N] + 1, L)
           r == s \o a
<1>1. /\ N \in Nat /\ DOMAIN q = 1 .. N /\ N \in 0 .. Len(q) /\ L \in Nat /\ DOMAIN list = 1 .. L
      /\ \A l \in DOMAIN list : list[l] \in 0 .. n - 1
  BY DEF Merging, Complete, Ascends
<1>2. lo \in 0 .. n /\ c[N] \in 0 .. L
  BY <1>1, ReachedIndex
<1>3. L \in c[N] .. Len(list) /\ n \in Int /\ \A l \in DOMAIN list : l <= L => list[l] < n
  BY <1>1, <1>2
<1>4. /\ Part(s, 0, lo, e) /\ Len(s) = N + c[N]
      /\ \A l \in DOMAIN list : l <= c[N] => Stored(s, list[l])
      /\ \A l \in 1 .. N : Stored(s, kept[q[l].i + 1])
  BY DEF Merged
<1> HIDE DEF N, L
<1>5. Part(a, lo, n, e) /\ Len(a) = L - c[N] /\ \A l \in DOMAIN list : l > c[N] /\ l <= L => Stored(a, list[l])
  <2>1. N \in 0 .. Len(q) /\ L \in c[N] .. Len(list) /\ n \in Int
        /\ \A l \in DOMAIN list : l <= L => list[l] < n
    BY <1>1, <1>3
  <2> HIDE DEF lo, a
  <2>2. Between(q, c, list, kept, v, e, N, L, n)
    BY <2>1, FixedBetween
  <2>3. QED
    BY <2>2 DEF lo, a, Between
<1> HIDE DEF lo, a
<1>6. Part(r, 0, n, e) /\ Len(r) = Len(s) + Len(a) /\ \A i : Stored(r, i) <=> Stored(s, i) \/ Stored(a, i)
  <2>1. 0 \in Int /\ lo \in Int /\ n \in Int /\ 0 <= lo /\ lo <= n /\ Part(s, 0, lo, e) /\ Part(a, lo, n, e)
    BY <1>2, <1>4, <1>5
  <2>2. QED
    BY <2>1, PartsJoin
<1> HIDE DEF r
<1>7. Len(r) = N + L
  <2>1. Len(r) = (N + c[N]) + (L - c[N])
    BY <1>4, <1>5, <1>6
  <2>2. c[N] \in Int
    BY <1>2
  <2>3. QED
    BY <2>1, <2>2, <1>1
<1>8. \A i \in 0 .. n - 1 : e[i] # 0 => \E k \in DOMAIN r : r[k].i = i
  <2> SUFFICES ASSUME NEW i \in 0 .. n - 1, e[i] # 0 PROVE Stored(r, i)
    BY DEF Stored
  <2>0. Among(list, i) \/ \E j \in 0 .. Len(kept) - 1 : d[j] # 0 /\ kept[j + 1] = i
    BY DEF Covered
  <2>1. CASE Among(list, i)
    <3>1. PICK l \in DOMAIN list : list[l] = i
      BY <2>1 DEF Among
    <3>2. l <= c[N] \/ (l > c[N] /\ l <= L)
      BY <1>1, <1>2
    <3>3. QED
      BY <3>1, <3>2, <1>4, <1>5, <1>6
  <2>2. CASE \E j \in 0 .. Len(kept) - 1 : d[j] # 0 /\ kept[j + 1] = i
    <3>1. PICK j \in 0 .. Len(kept) - 1 : d[j] # 0 /\ kept[j + 1] = i
      BY <2>2
    <3>2. PICK k \in DOMAIN q : q[k].i = j
      BY <3>1 DEF Covered
    <3>3. k \in 1 .. N
      BY <1>1
    <3>4. Stored(s, kept[q[k].i + 1])
      BY <3>3, <1>4
    <3>5. QED
      BY <3>1, <3>2, <3>4, <1>6
  <2>3. QED
    BY <2>0, <2>1, <2>2
<1>9. \A k \in DOMAIN r : r[k].i \in 0 .. n - 1 /\ r[k].v = e[r[k].i]
  <2> TAKE k \in DOMAIN r
  <2>1. r[k] \in VecEntries
    BY <1>6 DEF Part
  <2>2. r[k].i \in Int
    BY <2>1 DEF VecEntries
  <2>3. QED
    BY <2>2, <1>6 DEF Part
<1>10. Holds(r, n, e)
  BY <1>6, <1>8, <1>9 DEF Holds, Part
<1>11. QED
  BY <1>7, <1>10 DEF r, a, N, L, Pushed

\* sleqp_preprocessing_merge_entries
LEMMA MergeIsRight ==
  ASSUME NEW n \in Nat, NEW list, NEW kept, Complete(list, kept, n), NEW x, NEW d, Right(x, Len(kept), d),
         NEW target \in Vectors, target.dim = n,
         NEW v \in [DOMAIN list -> Int]
  PROVE  Right(MergeEntries(x, target, ListedEntries(list, v)), n, Inserted(d, list, kept, n, v))
<1> DEFINE q == x.nz
           c == Cursors(q, list)
           e == Inserted(d, list, kept, n, v)
           fixed == ListedEntries(list, v)
           N == Len(q)
           L == Len(list)
           Next(h) == [k \in 0 .. N |-> IF k = 0 THEN <<>> ELSE MergedNext(h[k - 1], k, q, c, list, v)]
           out == CHOOSE h : h = Next(h)
           r == out[N] \o SubSeq(fixed, c[N] + 1, L)
           room == Greater(target.nnzMax, N + L)
<1>1. /\ q \in Seq(VecEntries) /\ Sorted(q) /\ DOMAIN q = 1 .. N /\ N \in Nat
      /\ \A k \in DOMAIN q : q[k].i \in 0 .. Len(kept) - 1 /\ q[k].v = d[q[k].i]
      /\ \A j \in 0 .. Len(kept) - 1 : d[j] # 0 => \E k \in DOMAIN q : q[k].i = j
      /\ d \in DenseVectors(Len(kept))
  BY DEF Right, Holds
<1>2. list \in Seq(Nat) /\ L \in Nat /\ DOMAIN list = 1 .. L
  BY DEF Complete, Ascends
<1>3. DOMAIN fixed = DOMAIN list /\ Len(fixed) = L /\ [k \in DOMAIN fixed |-> fixed[k].i] = list
  <2>1. fixed = [k \in 1 .. L |-> Entry(list[k], v[k])]
    BY <1>2 DEF ListedEntries
  <2>2. \A k \in 1 .. L : Entry(list[k], v[k]) \in [i : Nat, v : Int]
    BY <1>2 DEF Entry
  <2>3. fixed \in Seq([i : Nat, v : Int]) /\ Len(fixed) = L
    BY <2>1, <2>2, <1>2
  <2>4. \A k \in DOMAIN list : fixed[k].i = list[k]
    BY DEF Entry, ListedEntries
  <2>5. DOMAIN fixed = DOMAIN list
    BY DEF ListedEntries
  <2> HIDE DEF fixed
  <2>6. [k \in DOMAIN fixed |-> fixed[k].i] = [k \in DOMAIN list |-> list[k]]
    BY <2>4, <2>5
  <2>7. list = [k \in DOMAIN list |-> list[k]]
    BY <1>2
  <2>8. QED
    BY <2>3, <2>5, <2>6, <2>7
<1>4. MergeEntries(x, target, fixed) = PushAll(Reserve(Clear(target), N + L), r)
  <2> HIDE DEF fixed
  <2>1. MergeEntries(x, target, fixed) =
          LET cursor == Cursors(q, list)
              o[k \in 0 .. N] ==
                IF k = 0 THEN <<>>
                ELSE o[k - 1] \o SubSeq(fixed, cursor[k - 1] + 1, cursor[k])
                          \o <<Entry(q[k].i + cursor[k], q[k].v)>>
          IN PushAll(Reserve(Clear(target), N + L), o[N] \o SubSeq(fixed, cursor[N] + 1, L))
    BY <1>3 DEF MergeEntries, NnzOf
  <2>2. QED
    BY <2>1 DEF MergedNext, fixed
<1> HIDE DEF q
<1>5. CursorsRight(c, q, list, kept)
  BY <1>1, CursorsAreRight
<1> HIDE DEF c
<1>6. /\ e \in DenseVectors(n) /\ \A j \in 0 .. Len(kept) - 1 : e[kept[j + 1]] = d[j]
      /\ \A k \in DOMAIN list : e[list[k]] = v[k]
      /\ \A i \in 0 .. n - 1 : e[i] # 0 => \/ Among(list, i)
                                           \/ \E j \in 0 .. Len(kept) - 1 : d[j] # 0 /\ kept[j + 1] = i
  <2>1. /\ e \in DenseVectors(n) /\ \A j \in 0 .. Len(kept) - 1 : e[kept[j + 1]] = d[j]
        /\ \A k \in DOMAIN list : e[list[k]] = v[k]
        /\ \A i \in 0 .. n - 1 : e[i] # 0 =>
             \/ \E k \in DOMAIN list : v[k] # 0 /\ list[k] = i
             \/ \E j \in 0 .. Len(kept) - 1 : d[j] # 0 /\ kept[j + 1] = i
    BY <1>1, InsertedValues
  <2> HIDE DEF e
  <2>2. QED
    BY <2>1 DEF Among
<1> HIDE DEF e
<1>7. Merging(q, c, list, kept, n, v, e)
  BY <1>1, <1>5, <1>6 DEF Merging
<1>8. out[0] = <<>> /\ \A k \in 1 .. N : out[k] = MergedNext(out[k - 1], k, q, c, list, v)
  <2> DEFINE V == Seq(VecEntries)
             step == [p \in (1 .. N) \X V |-> MergedNext(p[2], p[1], q, c, list, v)]
  <2>1. step \in [(1 .. N) \X V -> V]
    <3>1. \A k \in 1 .. N, s \in V : MergedNext(s, k, q, c, list, v) \in V
      BY <1>7, MergedSequence
    <3>2. QED
      BY <3>1
  <2>2. \A k \in 1 .. N, s \in V : step[<<k, s>>] = MergedNext(s, k, q, c, list, v)
    OBVIOUS
  <2>3. <<>> \in V
    OBVIOUS
  <2> DEFINE nothing == <<>>
  <2> HIDE DEF V, step, N
  <2>4. PICK g \in [0 .. N -> V] : g[0] = <<>> /\ \A k \in 1 .. N : g[k] = step[<<k, g[k - 1]>>]
    <3>1. nothing \in V /\ N \in Nat /\ step \in [(1 .. N) \X V -> V]
      BY <2>1, <2>3, <1>1
    <3> HIDE DEF nothing
    <3>2. \E g : Rounds(g, N, V, nothing, step)
      BY <3>1, Iteration
    <3>3. QED
      BY <3>2 DEF Rounds, nothing
  <2>5. \A k \in 1 .. N : g[k] = MergedNext(g[k - 1], k, q, c, list, v)
    <3>1. \A k \in 1 .. N : k - 1 \in 0 .. N
      BY <1>1
    <3>2. QED
      BY <3>1, <2>2, <2>4
  <2>6. g = Next(g)
    <3>1. \A k \in 0 .. N : k = 0 \/ k \in 1 .. N
      BY <1>1
    <3>2. \A k \in 0 .. N : g[k] = IF k = 0 THEN <<>> ELSE MergedNext(g[k - 1], k, q, c, list, v)
      BY <3>1, <2>4, <2>5
    <3>3. QED
      BY <3>2, <2>4
  <2> HIDE DEF Next
  <2>7. out = Next(out)
    BY <2>6
  <2> HIDE DEF out
  <2>8. \A k \in 0 .. N : out[k] = Next(out)[k]
    BY <2>7
  <2>9. \A k \in 0 .. N : out[k] = IF k = 0 THEN <<>> ELSE MergedNext(out[k - 1], k, q, c, list, v)
    BY <2>8 DEF Next
  <2>10. 0 \in 0 .. N /\ \A k \in 1 .. N : k \in 0 .. N /\ k # 0
    BY <1>1
  <2>11. QED
    BY <2>9, <2>10
<1> HIDE DEF out
<1>9. Merged(out[N], N, q, c, list, kept, e)
  <2>1. N \in 0 .. N
    BY <1>1
  <2>2. QED
    BY <2>1, <1>7, <1>8, AllMerged
<1>10. Holds(r, n, e) /\ Len(r) = N + L
  <2> DEFINE m == out[N]
  <2>1. Merged(m, Len(q), q, c, list, kept, e)
    BY <1>9
  <2> HIDE DEF m
  <2>2. Covered(d, e, q, list, kept, n)
    BY <1>1, <1>6 DEF Covered
  <2>3. Holds(Pushed(m, q, c, list, v), n, e) /\ Len(Pushed(m, q, c, list, v)) = Len(q) + Len(list)
    BY <2>1, <2>2, <1>7, LastMerge
  <2>4. QED
    BY <2>3 DEF m, Pushed
<1> HIDE DEF r
<1>11. /\ Reserve(Clear(target), N + L) = [dim |-> n, nnzMax |-> room, nz |-> <<>>]
       /\ room \in Nat /\ Len(r) <= room
  <2> DEFINE m == N + L
  <2>1. m \in Nat
    BY <1>1, <1>2
  <2> HIDE DEF m
  <2>2. /\ Reserve(Clear(target), m) = [dim |-> n, nnzMax |-> Greater(target.nnzMax, m), nz |-> <<>>]
        /\ Greater(target.nnzMax, m) \in Nat /\ m <= Greater(target.nnzMax, m)
    BY <2>1, RoomIsMade
  <2>3. QED
    BY <2>2, <1>10 DEF m
<1> HIDE DEF room
<1>12. MergeEntries(x, target, fixed) = [dim |-> n, nnzMax |-> room, nz |-> r]
  <2>1. r \in Seq(VecEntries)
    BY <1>10 DEF Holds
  <2>2. QED
    BY <2>1, <1>4, <1>11, PushAllOnNothing
<1>13. Right([dim |-> n, nnzMax |-> room, nz |-> r], n, e)
  BY <1>6, <1>10, <1>11, PushedIsRight
<1>14. QED
  BY <1>12, <1>13 DEF e, fixed
-----------------------------------------------------------------------------
(* The vector through all operations                                       *)

\* The vector has room for its entries and holds its dense copy.
VecRight == Right(spVec, spVec.dim, spDense)

LEMMA BecomesRight ==
  ASSUME NEW x, NEW e, NEW n \in Nat, Right(x, n, e), VecBecomes(x, e)
  PROVE  VecRight'
<1>1. spVec' = x /\ spDense' = e
  BY DEF VecBecomes
<1>2. x.dim = n
  BY DEF Right
<1>3. Right(x, x.dim, e)
  BY <1>2
<1>4. QED
  BY <1>1, <1>3 DEF VecRight

LEMMA RightHere ==
  ASSUME VecRight
  PROVE  /\ spVec \in Vectors /\ spVec.dim \in Nat /\ spDense \in [0 .. spVec.dim - 1 -> Int]
         /\ DOMAIN spDense = 0 .. spVec.dim - 1
  BY DEF VecRight, Right, Vectors, DenseVectors

LEMMA EmptyTargets ==
  ASSUME NEW n \in Nat
  PROVE  EmptyTarget(n) \in Vectors /\ EmptyTarget(n).dim = n
  BY DEF EmptyTarget, CreateVec, Vectors

LEMMA InitRight ==
  ASSUME SpInit
  PROVE  VecRight
<1>1. spVec = CreateVec(SpDim, 0) /\ spDense = [i \in 0 .. SpDim - 1 |-> 0]
  BY DEF SpInit, ZeroDense
<1>2. Right(spVec, SpDim, spDense)
  BY <1>1, SpAssumption, NothingIsRight
<1>3. QED
  BY <1>1, <1>2 DEF VecRight, CreateVec

LEMMA PushEntryRight ==
  ASSUME VecRight, PushEntry
  PROVE  VecRight'
<1>1. PICK i \in 0 .. spVec.dim - 1, v \in SpValues :
         /\ spVec.nz # <<>> => i > Last(spVec.nz).i
         /\ VecBecomes(Push(Reserve(spVec, NnzOf(spVec) + 1), i, v), [spDense EXCEPT ![i] = v])
  BY DEF PushEntry
<1>2. v \in Int /\ spVec.dim \in Nat /\ Right(spVec, spVec.dim, spDense)
  BY SpAssumption, RightHere DEF VecRight
<1>3. Right(Push(Reserve(spVec, NnzOf(spVec) + 1), i, v), spVec.dim, [spDense EXCEPT ![i] = v])
  <2> DEFINE n == spVec.dim
  <2>1. n \in Nat /\ i \in 0 .. n - 1 /\ Right(spVec, n, spDense)
    BY <1>2
  <2> HIDE DEF n
  <2>2. Right(Push(Reserve(spVec, NnzOf(spVec) + 1), i, v), n, [spDense EXCEPT ![i] = v])
    BY <1>1, <1>2, <2>1, PushIsRight
  <2>3. QED
    BY <2>2 DEF n
<1>4. QED
  BY <1>1, <1>2, <1>3, BecomesRight

LEMMA ResizeVecRight ==
  ASSUME VecRight, ResizeVec
  PROVE  VecRight'
<1>1. PICK n \in 0 .. SpMaxDim :
         VecBecomes(Resize(spVec, n), [i \in 0 .. n - 1 |-> IF i < spVec.dim THEN spDense[i] ELSE 0])
  BY DEF ResizeVec
<1>2. n \in Nat /\ spVec.dim \in Nat /\ Right(spVec, spVec.dim, spDense)
  BY SpAssumption, RightHere DEF VecRight
<1>3. Right(Resize(spVec, n), n, [i \in 0 .. n - 1 |-> IF i < spVec.dim THEN spDense[i] ELSE 0])
  BY <1>2, ResizeIsRight
<1>4. QED
  BY <1>1, <1>2, <1>3, BecomesRight

LEMMA ScaleOrFillRight ==
  ASSUME VecRight, ScaleOrFill
  PROVE  VecRight'
<1>1. PICK v \in SpValues \cup {0} :
         \/ VecBecomes(Scale(spVec, v), [i \in DOMAIN spDense |-> v * spDense[i]])
         \/ VecBecomes(Fill(spVec, v), [i \in DOMAIN spDense |-> v])
  BY DEF ScaleOrFill
<1>2. v \in Int /\ spVec.dim \in Nat /\ Right(spVec, spVec.dim, spDense)
  BY SpAssumption, RightHere DEF VecRight
<1>3. /\ Right(Scale(spVec, v), spVec.dim, [i \in DOMAIN spDense |-> v * spDense[i]])
      /\ Right(Fill(spVec, v), spVec.dim, [i \in DOMAIN spDense |-> v])
  BY <1>2, ScaleIsRight, FillIsRight
<1>4. QED
  BY <1>1, <1>2, <1>3, BecomesRight

LEMMA AddToVecRight ==
  ASSUME VecRight, AddToVec
  PROVE  VecRight'
<1>1. PICK y \in Operands(spVec.dim), b \in {-1, 1} :
         VecBecomes(AddScaled(spVec, y, 1, b, EmptyTarget(0)),
                    [i \in DOMAIN spDense |-> spDense[i] + b * ValueAt(y, i)])
  BY DEF AddToVec
<1> DEFINE n == spVec.dim
<1>2. /\ n \in Nat /\ Right(spVec, n, spDense) /\ spDense \in [0 .. n - 1 -> Int] /\ b \in Int
      /\ DOMAIN spDense = 0 .. n - 1 /\ y \in Operands(n)
  BY RightHere DEF VecRight
<1> HIDE DEF n
<1>3. PICK dy \in DenseVectors(n) : Right(y, n, dy)
  BY <1>2, SpAssumption, OperandsAreRight
<1>4. \A i \in 0 .. n - 1 : ValueAt(y, i) = dy[i]
  BY <1>2, <1>3, RightIsOrdered
<1>5. Right(AddScaled(spVec, y, 1, b, EmptyTarget(0)), n, [i \in 0 .. n - 1 |-> 1 * spDense[i] + b * dy[i]])
  BY <1>2, <1>3, EmptyTargets, AddScaledIsRight
<1>6. [i \in 0 .. n - 1 |-> 1 * spDense[i] + b * dy[i]] = [i \in DOMAIN spDense |-> spDense[i] + b * ValueAt(y, i)]
  <2>1. \A i \in 0 .. n - 1 : 1 * spDense[i] = spDense[i]
    BY <1>2
  <2>2. QED
    BY <2>1, <1>2, <1>4
<1>7. QED
  BY <1>1, <1>2, <1>5, <1>6, BecomesRight

LEMMA ConcatVecRight ==
  ASSUME VecRight, ConcatVec
  PROVE  VecRight'
<1>1. PICK y \in Operands(1) :
         VecBecomes(Concat(spVec, y, EmptyTarget(0)),
                    [i \in 0 .. spVec.dim |-> IF i < spVec.dim THEN spDense[i] ELSE ValueAt(y, i - spVec.dim)])
  BY DEF ConcatVec
<1> DEFINE n == spVec.dim
<1>2. n \in Nat /\ Right(spVec, n, spDense)
  BY RightHere DEF VecRight
<1>3. VecBecomes(Concat(spVec, y, EmptyTarget(0)),
                 [i \in 0 .. n |-> IF i < n THEN spDense[i] ELSE ValueAt(y, i - n)])
  BY <1>1
<1> HIDE DEF n
<1>4. PICK dy \in DenseVectors(1) : Right(y, 1, dy)
  BY SpAssumption, OperandsAreRight
<1>5. \A i \in 0 .. 1 - 1 : ValueAt(y, i) = dy[i]
  BY <1>4, RightIsOrdered
<1>6. Right(Concat(spVec, y, EmptyTarget(0)), n + 1,
            [i \in 0 .. n + 1 - 1 |-> IF i < n THEN spDense[i] ELSE dy[i - n]])
  BY <1>2, <1>4, EmptyTargets, ConcatIsRight
<1>7. [i \in 0 .. n + 1 - 1 |-> IF i < n THEN spDense[i] ELSE dy[i - n]]
        = [i \in 0 .. n |-> IF i < n THEN spDense[i] ELSE ValueAt(y, i - n)]
  <2>1. 0 .. n + 1 - 1 = 0 .. n /\ \A i \in 0 .. n : ~(i < n) => i - n \in 0 .. 1 - 1
    BY <1>2
  <2>2. QED
    BY <2>1, <1>5
<1>8. n + 1 \in Nat
  BY <1>2
<1>9. QED
  BY <1>3, <1>6, <1>7, <1>8, BecomesRight

LEMMA ClipVecRight ==
  ASSUME VecRight, ClipVec
  PROVE  VecRight'
<1>1. PICK lb \in Operands(spVec.dim), ub \in Operands(spVec.dim) :
         /\ IsBoxed(lb, lb, ub)
         /\ VecBecomes(Clip(spVec, lb, ub, EmptyTarget(spVec.dim)),
                       [i \in DOMAIN spDense |-> Greater(Lesser(spDense[i], ValueAt(ub, i)), ValueAt(lb, i))])
  BY DEF ClipVec
<1> DEFINE n == spVec.dim
<1>2. /\ n \in Nat /\ Right(spVec, n, spDense) /\ DOMAIN spDense = 0 .. n - 1
      /\ lb \in Operands(n) /\ ub \in Operands(n)
  BY RightHere DEF VecRight
<1>3. VecBecomes(Clip(spVec, lb, ub, EmptyTarget(n)),
                 [i \in 0 .. n - 1 |-> Greater(Lesser(spDense[i], ValueAt(ub, i)), ValueAt(lb, i))])
  BY <1>1, <1>2
<1> HIDE DEF n
<1>4. PICK dl \in DenseVectors(n) : Right(lb, n, dl)
  BY <1>2, SpAssumption, OperandsAreRight
<1>5. PICK du \in DenseVectors(n) : Right(ub, n, du)
  BY <1>2, SpAssumption, OperandsAreRight
<1>6. \A i \in 0 .. n - 1 : ValueAt(lb, i) = dl[i] /\ ValueAt(ub, i) = du[i]
  BY <1>2, <1>4, <1>5, RightIsOrdered
<1>7. \A i \in 0 .. n - 1 : dl[i] <= du[i]
  BY <1>1, <1>2, <1>4, <1>5, BoxedValues
<1>8. Right(Clip(spVec, lb, ub, EmptyTarget(n)), n,
            [i \in 0 .. n - 1 |-> Greater(Lesser(spDense[i], du[i]), dl[i])])
  BY <1>2, <1>4, <1>5, <1>7, EmptyTargets, ClipIsRight
<1>9. [i \in 0 .. n - 1 |-> Greater(Lesser(spDense[i], du[i]), dl[i])]
        = [i \in 0 .. n - 1 |-> Greater(Lesser(spDense[i], ValueAt(ub, i)), ValueAt(lb, i))]
  BY <1>6
<1>10. QED
  BY <1>2, <1>3, <1>8, <1>9, BecomesRight

LEMMA RemoveFromVecRight ==
  ASSUME VecRight, RemoveFromVec
  PROVE  VecRight'
<1>1. PICK list \in IndexLists(spVec.dim) :
         VecBecomes(RemoveEntries(spVec, EmptyTarget(spVec.dim - Len(list)), list),
                    [i \in 0 .. spVec.dim - Len(list) - 1 |-> spDense[Kept(spVec.dim, list)[i + 1]]])
  BY DEF RemoveFromVec
<1> DEFINE n == spVec.dim
           kept == Kept(n, list)
           m == n - Len(list)
<1>2. n \in Nat /\ Right(spVec, n, spDense) /\ list \in IndexLists(n)
  BY RightHere DEF VecRight
<1>3. VecBecomes(RemoveEntries(spVec, EmptyTarget(m), list), [i \in 0 .. n - Len(list) - 1 |-> spDense[kept[i + 1]]])
  BY <1>1
<1> HIDE DEF n
<1>4. Complete(list, kept, n)
  BY <1>2, KeptCompletes
<1> HIDE DEF kept
<1>5. m \in Nat
  BY <1>2, <1>4, KeptLength
<1>6. m = n - Len(list)
  OBVIOUS
<1> HIDE DEF m
<1>7. EmptyTarget(m) \in Vectors /\ EmptyTarget(m).dim = n - Len(list)
  BY <1>5, <1>6, EmptyTargets
<1>8. Right(RemoveEntries(spVec, EmptyTarget(m), list), n - Len(list),
            [i \in 0 .. n - Len(list) - 1 |-> spDense[kept[i + 1]]])
  BY <1>2, <1>4, <1>7, RemoveIsRight
<1>9. QED
  BY <1>3, <1>5, <1>6, <1>8, BecomesRight

LEMMA InsertIntoVecRight ==
  ASSUME VecRight, InsertIntoVec
  PROVE  VecRight'
<1> DEFINE m == spVec.dim
<1>1. PICK dim \in m .. SpMaxDim : \E list \in IndexLists(dim) : \E v \in SpValues :
         /\ dim = m + Len(list)
         /\ \/ VecBecomes(MergeEntries(spVec, EmptyTarget(dim), [k \in DOMAIN list |-> Entry(list[k], v)]),
                          [i \in 0 .. dim - 1 |-> IF \E k \in DOMAIN list : list[k] = i THEN v
                              ELSE spDense[CHOOSE k \in 0 .. m - 1 : Kept(dim, list)[k + 1] = i]])
            \/ VecBecomes(AddZeroEntries(spVec, EmptyTarget(dim), list),
                          [i \in 0 .. dim - 1 |-> IF \E k \in DOMAIN list : list[k] = i THEN 0
                              ELSE spDense[CHOOSE k \in 0 .. m - 1 : Kept(dim, list)[k + 1] = i]])
  BY DEF InsertIntoVec
<1>2. m \in Nat /\ Right(spVec, m, spDense)
  BY RightHere DEF VecRight
<1> HIDE DEF m
<1>3. dim \in Nat
  BY <1>2, SpAssumption
<1>4. PICK list \in IndexLists(dim), v \in SpValues :
         /\ dim = m + Len(list)
         /\ \/ VecBecomes(MergeEntries(spVec, EmptyTarget(dim), [k \in DOMAIN list |-> Entry(list[k], v)]),
                          [i \in 0 .. dim - 1 |-> IF \E k \in DOMAIN list : list[k] = i THEN v
                              ELSE spDense[CHOOSE k \in 0 .. m - 1 : Kept(dim, list)[k + 1] = i]])
            \/ VecBecomes(AddZeroEntries(spVec, EmptyTarget(dim), list),
                          [i \in 0 .. dim - 1 |-> IF \E k \in DOMAIN list : list[k] = i THEN 0
                              ELSE spDense[CHOOSE k \in 0 .. m - 1 : Kept(dim, list)[k + 1] = i]])
  BY <1>1
<1> DEFINE kept == Kept(dim, list)
<1>5. Complete(list, kept, dim)
  BY <1>3, KeptCompletes
<1>6. \/ VecBecomes(MergeEntries(spVec, EmptyTarget(dim), [k \in DOMAIN list |-> Entry(list[k], v)]),
                    [i \in 0 .. dim - 1 |-> IF Among(list, i) THEN v
                        ELSE spDense[CHOOSE k \in 0 .. m - 1 : kept[k + 1] = i]])
      \/ VecBecomes(AddZeroEntries(spVec, EmptyTarget(dim), list),
                    [i \in 0 .. dim - 1 |-> IF Among(list, i) THEN 0
                        ELSE spDense[CHOOSE k \in 0 .. m - 1 : kept[k + 1] = i]])
  BY <1>4 DEF Among
<1> HIDE DEF kept
<1>7. Len(kept) = m
  <2>1. Len(kept) = dim - Len(list) /\ Len(list) \in 0 .. dim
    BY <1>3, <1>5, KeptLength
  <2>2. QED
    BY <2>1, <1>2, <1>3, <1>4
<1> DEFINE put == Repeated(list, v)
           merged == MergeEntries(spVec, EmptyTarget(dim), ListedEntries(list, put))
           zeros == AddZeroEntries(spVec, EmptyTarget(dim), list)
           Constant(value) == ConstantlyInserted(spDense, list, kept, dim, value)
<1>13. \/ VecBecomes(MergeEntries(spVec, EmptyTarget(dim), [k \in DOMAIN list |-> Entry(list[k], v)]), Constant(v))
       \/ VecBecomes(zeros, Constant(0))
  BY <1>6, <1>7 DEF ConstantlyInserted
<1>8. \/ VecBecomes(merged, Inserted(spDense, list, kept, dim, put))
      \/ VecBecomes(zeros, Inserted(spDense, list, kept, dim, Repeated(list, 0)))
  <2>1. ListedEntries(list, put) = [k \in DOMAIN list |-> Entry(list[k], v)]
    BY DEF Repeated, ListedEntries
  <2>2. ASSUME NEW value
        PROVE  Inserted(spDense, list, kept, dim, Repeated(list, value)) = Constant(value)
    BY RepeatedValues
  <2> HIDE DEF merged, zeros, Constant
  <2>3. QED
    BY <1>13, <2>1, <2>2 DEF merged, zeros
<1>9. /\ Right(spVec, Len(kept), spDense) /\ EmptyTarget(dim) \in Vectors /\ EmptyTarget(dim).dim = dim
      /\ put \in [DOMAIN list -> Int]
  BY <1>2, <1>3, <1>7, EmptyTargets, SpAssumption DEF Repeated
<1> HIDE DEF put
<1>10. Right(merged, dim, Inserted(spDense, list, kept, dim, put))
  BY <1>3, <1>5, <1>9, MergeIsRight
<1>11. Right(zeros, dim, Inserted(spDense, list, kept, dim, Repeated(list, 0)))
  BY <1>3, <1>5, <1>9, AddZeroIsRight
<1>12. QED
  BY <1>3, <1>8, <1>10, <1>11, BecomesRight

LEMMA StepRight ==
  ASSUME VecRight, [SpNext]_spVars
  PROVE  VecRight'
<1>1. CASE VecOps
  BY <1>1, PushEntryRight, ResizeVecRight, ScaleOrFillRight, AddToVecRight, ConcatVecRight, ClipVecRight,
     RemoveFromVecRight, InsertIntoVecRight DEF VecOps
<1>2. CASE MatOps
  <2>1. UNCHANGED <<spVec, spDense>>
    BY <1>2 DEF MatOps, OpenColumn, PushIntoColumn, PushVecIntoColumn, PopColumn, ResizeMat, ScaleMat, StackMat,
                TransposeMat, RemoveFromMat, CopyMat, MatBecomes
  <2>2. QED
    BY <2>1 DEF VecRight
<1>3. CASE UNCHANGED spVars
  BY <1>3 DEF VecRight, spVars
<1>4. QED
  BY <1>1, <1>2, <1>3 DEF SpNext

\* After any sequence of operations the vector has room for its entries,
\* which are in ascending order and within its dimension, and holds what a
\* dense vector would: nothing that sleqp_vec_push is given is refused by
\* its assertions, and no offset or cursor of the preprocessor loops is off.
THEOREM VectorsStayRight == SpSpec => []VecRight
<1>1. SpInit => VecRight
  BY InitRight
<1>2. VecRight /\ [SpNext]_spVars => VecRight'
  BY StepRight
<1>3. QED
  BY <1>1, <1>2, PTL DEF SpSpec
-----------------------------------------------------------------------------
(* Sums over the entries that are stored                                   *)

\* the sums of the first values of f
Sums(s, n, f) == s \in [0 .. n -> Int] /\ s[0] = 0 /\ \A k \in 1 .. n : s[k] = s[k - 1] + f[k]

LEMMA SumToSums ==
  ASSUME NEW n \in Nat, NEW f, \A k \in 1 .. n : f[k] \in Int
  PROVE  \E s : Sums(s, n, f) /\ SumTo(n, f) = s[n]
<1> DEFINE Next(h) == [k \in 0 .. n |-> IF k = 0 THEN 0 ELSE h[k - 1] + f[k]]
           sum == CHOOSE h : h = Next(h)
           step == [p \in (1 .. n) \X Int |-> p[2] + f[p[1]]]
<1>1. step \in [(1 .. n) \X Int -> Int] /\ \A k \in 1 .. n, a \in Int : step[<<k, a>>] = a + f[k]
  OBVIOUS
<1> HIDE DEF step
<1>2. PICK g : Rounds(g, n, Int, 0, step)
  <2> DEFINE zero == 0
  <2>1. zero \in Int
    OBVIOUS
  <2> HIDE DEF zero
  <2>2. \E g : Rounds(g, n, Int, zero, step)
    BY <2>1, <1>1, Iteration
  <2>3. QED
    BY <2>2 DEF zero
<1>3. g \in [0 .. n -> Int] /\ g[0] = 0 /\ \A k \in 1 .. n : g[k] = g[k - 1] + f[k]
  <2>1. \A k \in 1 .. n : k - 1 \in 0 .. n
    OBVIOUS
  <2>2. g \in [0 .. n -> Int] /\ g[0] = 0 /\ \A k \in 1 .. n : g[k] = step[<<k, g[k - 1]>>]
    BY <1>2 DEF Rounds
  <2>3. \A k \in 1 .. n : g[k - 1] \in Int
    BY <2>1, <2>2
  <2>4. QED
    BY <2>2, <2>3, <1>1
<1>4. g = Next(g)
  <2>1. \A k \in 0 .. n : k = 0 \/ k \in 1 .. n
    OBVIOUS
  <2>2. \A k \in 0 .. n : g[k] = IF k = 0 THEN 0 ELSE g[k - 1] + f[k]
    BY <2>1, <1>3
  <2>3. QED
    BY <2>2, <1>3
<1>5. SumTo(n, f) = sum[n]
  BY DEF SumTo
<1> HIDE DEF Next
<1>6. sum = Next(sum)
  BY <1>4
<1> HIDE DEF sum
<1>7. \A k \in 0 .. n : sum[k] = IF k = 0 THEN 0 ELSE sum[k - 1] + f[k]
  <2>1. \A k \in 0 .. n : sum[k] = Next(sum)[k]
    BY <1>6
  <2>2. QED
    BY <2>1 DEF Next
<1> DEFINE P == {k \in Nat : k <= n => sum[k] = g[k]}
<1>8. 0 \in P
  BY <1>3, <1>7
<1>9. ASSUME NEW k \in P \cap Nat PROVE k + 1 \in P
  <2> SUFFICES ASSUME k + 1 <= n PROVE sum[k + 1] = g[k + 1]
    OBVIOUS
  <2>1. k + 1 \in 1 .. n /\ k + 1 \in 0 .. n /\ k + 1 # 0 /\ (k + 1) - 1 = k /\ sum[k] = g[k]
    OBVIOUS
  <2>2. g[k + 1] = g[(k + 1) - 1] + f[k + 1] /\ sum[k + 1] = sum[(k + 1) - 1] + f[k + 1]
    BY <2>1, <1>3, <1>7
  <2>3. QED
    BY <2>1, <2>2
<1>10. \A k \in Nat : k \in P
  <2> HIDE DEF P
  <2>1. QED
    BY <1>8, <1>9, Induction
<1>11. sum[n] = g[n]
  BY <1>10
<1>12. QED
  BY <1>3, <1>5, <1>11 DEF Sums

Total(g, n) == SumTo(n, [k \in 1 .. n |-> g[k - 1]])

\* A sum over a dense array leaves out what is zero.
LEMMA SumOverEntries ==
  ASSUME NEW n \in Nat, NEW list, Ascends(list, n), NEW f, NEW g \in DenseVectors(n),
         \A k \in DOMAIN list : f[k] = g[list[k]],
         \A i \in 0 .. n - 1 : g[i] # 0 => Among(list, i)
  PROVE  SumTo(Len(list), f) = Total(g, n)
<1> DEFINE N == Len(list)
           h == [k \in 1 .. n |-> g[k - 1]]
<1>1. N \in Nat /\ DOMAIN list = 1 .. N /\ \A k \in DOMAIN list : list[k] \in 0 .. n - 1
      /\ \A i \in 0 .. n - 1 : g[i] \in Int
  BY DEF Ascends, DenseVectors
<1>2. \A k \in 1 .. N : f[k] \in Int
  BY <1>1
<1>3. \A k \in 1 .. n : h[k] = g[k - 1] /\ h[k] \in Int
  <2>1. \A k \in 1 .. n : k - 1 \in 0 .. n - 1
    OBVIOUS
  <2>2. \A k \in 1 .. n : h[k] = g[k - 1]
    OBVIOUS
  <2>3. \A k \in 1 .. n : g[k - 1] \in Int
    BY <2>1 DEF DenseVectors
  <2> HIDE DEF h
  <2>4. QED
    BY <2>2, <2>3
<1> HIDE DEF N, h
<1>4. PICK s : Sums(s, N, f) /\ SumTo(N, f) = s[N]
  BY <1>1, <1>2, SumToSums
<1>5. PICK t : Sums(t, n, h) /\ SumTo(n, h) = t[n]
  BY <1>3, SumToSums
<1>6. /\ s[0] = 0 /\ \A k \in 1 .. N : s[k] = s[k - 1] + f[k]
      /\ t[0] = 0 /\ \A k \in 1 .. n : t[k] = t[k - 1] + g[k - 1]
      /\ s \in [0 .. N -> Int] /\ t \in [0 .. n -> Int]
  BY <1>3, <1>4, <1>5 DEF Sums
<1> DEFINE P == {j \in Nat : j <= n => \E p \in 0 .. N : Below(list, j, p) /\ t[j] = s[p]}
<1>7. 0 \in P
  <2>1. Below(list, 0, 0) /\ 0 \in 0 .. N
    BY <1>1 DEF Below, N
  <2>2. QED
    BY <2>1, <1>6
<1>8. ASSUME NEW j \in P \cap Nat PROVE j + 1 \in P
  <2> SUFFICES ASSUME j + 1 <= n PROVE \E p \in 0 .. N : Below(list, j + 1, p) /\ t[j + 1] = s[p]
    OBVIOUS
  <2>1. j \in 0 .. n - 1 /\ j + 1 \in 1 .. n /\ (j + 1) - 1 = j
    OBVIOUS
  <2>2. PICK p \in 0 .. N : Below(list, j, p) /\ t[j] = s[p]
    OBVIOUS
  <2>3. t[j + 1] = s[p] + g[j] /\ s[p] \in Int /\ g[j] \in Int
    <3>1. t[j + 1] = t[(j + 1) - 1] + g[(j + 1) - 1]
      BY <2>1, <1>6
    <3>2. s[p] \in Int /\ g[j] \in Int
      <4>1. g[j] \in Int
        BY <2>1 DEF DenseVectors
      <4>2. \A m \in 0 .. N : s[m] \in Int
        BY <1>6
      <4>3. QED
        BY <4>1, <4>2
    <3>3. t[j + 1] = t[j] + g[j]
      BY <3>1, <2>1
    <3>4. QED
      BY <3>2, <3>3, <2>2
  <2>4. CASE Among(list, j)
    <3>1. Below(list, j + 1, p + 1)
      BY <2>1, <2>2, <2>4, BelowNext
    <3>2. p + 1 \in 0 .. N /\ p + 1 \in 1 .. N /\ (p + 1) - 1 = p /\ p + 1 \in DOMAIN list
      BY <3>1, <2>2, <1>1 DEF Below, N
    <3>3. list[p + 1] = j
      <4>1. list[p + 1] < j + 1 /\ ~(list[p + 1] < j) /\ list[p + 1] \in Int
        <5>1. list[p + 1] \in Int
          BY <3>2, <1>1
        <5>2. list[p + 1] < j + 1 <=> p + 1 <= p + 1
          BY <3>1, <3>2 DEF Below
        <5>3. list[p + 1] < j <=> p + 1 <= p
          BY <3>2, <2>2 DEF Below
        <5>4. p + 1 <= p + 1 /\ ~(p + 1 <= p)
          BY <3>2
        <5>5. QED
          BY <5>1, <5>2, <5>3, <5>4
      <4>2. QED
        BY <4>1, <2>1
    <3>4. f[p + 1] = g[j]
      BY <3>2, <3>3
    <3>5. s[p + 1] = s[(p + 1) - 1] + f[p + 1]
      BY <3>2, <1>6
    <3>6. t[j + 1] = s[p + 1]
      BY <3>2, <3>4, <3>5, <2>3
    <3>7. QED
      BY <3>1, <3>2, <3>6
  <2>5. CASE ~Among(list, j)
    <3>1. Below(list, j + 1, p)
      BY <2>1, <2>2, <2>5, BelowNext
    <3>2. g[j] = 0
      BY <2>1, <2>5
    <3>3. t[j + 1] = s[p]
      BY <3>2, <2>3
    <3>4. QED
      BY <3>1, <3>3, <2>2
  <2>6. QED
    BY <2>4, <2>5
<1>9. \A j \in Nat : j \in P
  <2> HIDE DEF P
  <2>1. QED
    BY <1>7, <1>8, Induction
<1>10. PICK p \in 0 .. N : Below(list, n, p) /\ t[n] = s[p]
  BY <1>9
<1>11. p = N
  <2>1. N # 0 => N \in DOMAIN list /\ list[N] < n
    BY <1>1
  <2>2. N # 0 => N <= p
    BY <2>1, <1>10 DEF Below
  <2>3. QED
    BY <2>2, <1>1
<1>12. SumTo(N, f) = SumTo(n, h)
  BY <1>4, <1>5, <1>10, <1>11
<1>13. QED
  BY <1>12 DEF N, h, Total

\* the indices of entries
IndexList(q) == [k \in DOMAIN q |-> q[k].i]

LEMMA IndicesAscend ==
  ASSUME NEW n \in Nat, NEW S, NEW q \in Seq(S), Sorted(q), \A k \in DOMAIN q : q[k].i \in 0 .. n - 1
  PROVE  /\ Ascends(IndexList(q), n) /\ Len(IndexList(q)) = Len(q)
         /\ \A i : Among(IndexList(q), i) <=> \E k \in DOMAIN q : q[k].i = i
<1> DEFINE list == [k \in DOMAIN q |-> q[k].i]
<1>1. DOMAIN q = 1 .. Len(q) /\ Len(q) \in Nat
  OBVIOUS
<1>2. list \in Seq(Nat) /\ Len(list) = Len(q) /\ DOMAIN list = DOMAIN q
  <2>1. \A k \in 1 .. Len(q) : q[k].i \in Nat
    BY <1>1
  <2>2. list = [k \in 1 .. Len(q) |-> q[k].i]
    BY <1>1
  <2>3. QED
    BY <2>1, <2>2, <1>1
<1>3. \A k \in DOMAIN q : list[k] = q[k].i
  OBVIOUS
<1> HIDE DEF list
<1>4. Ascends(list, n)
  BY <1>2, <1>3 DEF Ascends, Sorted
<1>5. \A i : Among(list, i) <=> \E k \in DOMAIN q : q[k].i = i
  BY <1>2, <1>3 DEF Among
<1>6. QED
  BY <1>2, <1>4, <1>5 DEF list, IndexList

\* values computed from entries, and the same values of a dense array
Reduces(q, f, g, n) ==
  /\ \A k \in DOMAIN q : f[k] = g[q[k].i]
  /\ \A i \in 0 .. n - 1 : g[i] # 0 => \E k \in DOMAIN q : q[k].i = i

LEMMA SumOverIndices ==
  ASSUME NEW n \in Nat, NEW S, NEW q \in Seq(S), Sorted(q), \A k \in DOMAIN q : q[k].i \in 0 .. n - 1,
         NEW f, NEW g \in DenseVectors(n), Reduces(q, f, g, n)
  PROVE  SumTo(Len(q), f) = Total(g, n)
<1> DEFINE list == IndexList(q)
<1>1. \A k \in DOMAIN list : f[k] = g[list[k]]
  BY DEF Reduces, IndexList
<1>2. DOMAIN list = DOMAIN q
  BY DEF IndexList
<1>3. Ascends(list, n) /\ Len(list) = Len(q) /\ \A i : Among(list, i) <=> \E k \in DOMAIN q : q[k].i = i
  BY IndicesAscend
<1> HIDE DEF list
<1>4. \A i \in 0 .. n - 1 : g[i] # 0 => Among(list, i)
  BY <1>3 DEF Reduces
<1>5. SumTo(Len(list), f) = Total(g, n)
  BY <1>1, <1>3, <1>4, SumOverEntries
<1>6. QED
  BY <1>3, <1>5

LEMMA NormsAreDense ==
  ASSUME NEW n \in Nat, NEW x, NEW d, Right(x, n, d)
  PROVE  /\ OneNorm(x) = SumTo(n, [k \in 1 .. n |-> IF d[k - 1] < 0 THEN -d[k - 1] ELSE d[k - 1]])
         /\ NormSq(x) = SumTo(n, [k \in 1 .. n |-> d[k - 1] * d[k - 1]])
<1> DEFINE q == x.nz
           fa == [k \in DOMAIN q |-> Magnitude(q[k].v)]
           fs == [k \in DOMAIN q |-> q[k].v * q[k].v]
           ga == [i \in 0 .. n - 1 |-> IF d[i] < 0 THEN -d[i] ELSE d[i]]
           gs == [i \in 0 .. n - 1 |-> d[i] * d[i]]
<1>1. /\ q \in Seq(VecEntries) /\ Sorted(q)
      /\ \A k \in DOMAIN q : q[k].i \in 0 .. n - 1 /\ q[k].v = d[q[k].i]
      /\ \A i \in 0 .. n - 1 : d[i] # 0 => \E k \in DOMAIN q : q[k].i = i
  BY DEF Right, Holds
<1>2. \A i \in 0 .. n - 1 : d[i] \in Int
  BY DEF Right, DenseVectors
<1>3. OneNorm(x) = SumTo(Len(q), fa) /\ NormSq(x) = SumTo(Len(q), fs)
  BY DEF OneNorm, NormSq, NnzOf
<1> HIDE DEF q
<1>4. ga \in DenseVectors(n) /\ gs \in DenseVectors(n)
  BY <1>2 DEF DenseVectors
<1>5. Reduces(q, fa, ga, n)
  <2>1. \A k \in DOMAIN q : fa[k] = ga[q[k].i]
    BY <1>1 DEF Magnitude
  <2>2. \A i \in 0 .. n - 1 : ga[i] # 0 => d[i] # 0
    BY <1>2
  <2> HIDE DEF fa, ga
  <2>3. QED
    BY <2>1, <2>2, <1>1 DEF Reduces
<1>6. Reduces(q, fs, gs, n)
  <2>1. \A k \in DOMAIN q : fs[k] = gs[q[k].i]
    BY <1>1
  <2>2. \A i \in 0 .. n - 1 : gs[i] # 0 => d[i] # 0
    BY <1>2
  <2> HIDE DEF fs, gs
  <2>3. QED
    BY <2>1, <2>2, <1>1 DEF Reduces
<1>7. \A k \in 1 .. n : k - 1 \in 0 .. n - 1
  OBVIOUS
<1>8. /\ [k \in 1 .. n |-> ga[k - 1]] = [k \in 1 .. n |-> IF d[k - 1] < 0 THEN -d[k - 1] ELSE d[k - 1]]
      /\ [k \in 1 .. n |-> gs[k - 1]] = [k \in 1 .. n |-> d[k - 1] * d[k - 1]]
  <2>1. \A k \in 1 .. n : ga[k - 1] = IF d[k - 1] < 0 THEN -d[k - 1] ELSE d[k - 1]
    BY <1>7
  <2>2. \A k \in 1 .. n : gs[k - 1] = d[k - 1] * d[k - 1]
    BY <1>7
  <2> HIDE DEF ga, gs
  <2>3. QED
    BY <2>1, <2>2
<1> HIDE DEF fa, fs, ga, gs
<1>9. \A k \in DOMAIN q : q[k].i \in 0 .. n - 1
  BY <1>1
<1>10. SumTo(Len(q), fa) = Total(ga, n)
  BY <1>1, <1>4, <1>5, <1>9, SumOverIndices
<1>11. SumTo(Len(q), fs) = Total(gs, n)
  BY <1>1, <1>4, <1>6, <1>9, SumOverIndices
<1>12. QED
  BY <1>3, <1>8, <1>10, <1>11 DEF Total

\* products and comparisons of two vectors
LEMMA ComparesDense ==
  ASSUME NEW n \in Nat, NEW x, NEW d, Right(x, n, d), NEW y, NEW dy, Right(y, n, dy)
  PROVE  /\ Dot(x, y) = SumTo(n, [k \in 1 .. n |-> d[k - 1] * dy[k - 1]])
         /\ EqVec(x, y) <=> dy = d
<1> DEFINE J == Joint2(x, y)
           zero == [i \in 0 .. n - 1 |-> 0]
           f == [k \in DOMAIN J |-> J[k].x * J[k].y]
           g == [i \in 0 .. n - 1 |-> d[i] * dy[i]]
<1>1. JointHolds(J, n, d, dy, zero)
  <2>1. x.dim = n
    BY DEF Right
  <2>2. Right(CreateVec(n, 0), n, zero)
    BY NothingIsRight
  <2>3. J = Joint(x, y, CreateVec(n, 0))
    BY <2>1 DEF Joint2
  <2> HIDE DEF J, zero
  <2>4. JointHolds(Joint(x, y, CreateVec(n, 0)), n, d, dy, zero)
    BY <2>2, JointHoldsValues
  <2>5. QED
    BY <2>3, <2>4
<1>2. Dot(x, y) = SumTo(Len(J), f) /\ (EqVec(x, y) <=> \A k \in DOMAIN J : J[k].x = J[k].y)
  BY DEF Dot, EqVec
<1> HIDE DEF J, zero
<1>3. /\ J \in Seq(JointEntries) /\ Sorted(J)
      /\ \A k \in DOMAIN J : J[k].i \in 0 .. n - 1 /\ J[k].x = d[J[k].i] /\ J[k].y = dy[J[k].i]
      /\ \A i \in 0 .. n - 1 : d[i] # 0 \/ dy[i] # 0 => \E k \in DOMAIN J : J[k].i = i
  BY <1>1 DEF JointHolds
<1>4. /\ \A i \in 0 .. n - 1 : d[i] \in Int /\ dy[i] \in Int
      /\ d \in [0 .. n - 1 -> Int] /\ dy \in [0 .. n - 1 -> Int]
  BY DEF Right, DenseVectors
<1>5. g \in DenseVectors(n)
  BY <1>4 DEF DenseVectors
<1>6. Reduces(J, f, g, n)
  <2>1. \A k \in DOMAIN J : f[k] = g[J[k].i]
    BY <1>3
  <2>2. \A i \in 0 .. n - 1 : g[i] # 0 => d[i] # 0
    BY <1>4
  <2> HIDE DEF f, g
  <2>3. QED
    BY <2>1, <2>2, <1>3 DEF Reduces
<1>7. [k \in 1 .. n |-> g[k - 1]] = [k \in 1 .. n |-> d[k - 1] * dy[k - 1]]
  <2>1. \A k \in 1 .. n : k - 1 \in 0 .. n - 1
    OBVIOUS
  <2>2. \A k \in 1 .. n : g[k - 1] = d[k - 1] * dy[k - 1]
    BY <2>1
  <2> HIDE DEF g
  <2>3. QED
    BY <2>2
<1> HIDE DEF f, g
<1>8. SumTo(Len(J), f) = Total(g, n)
  <2>1. \A k \in DOMAIN J : J[k].i \in 0 .. n - 1
    BY <1>3
  <2>2. QED
    BY <2>1, <1>3, <1>5, <1>6, SumOverIndices
<1>9. EqVec(x, y) <=> dy = d
  <2>1. ASSUME \A k \in DOMAIN J : J[k].x = J[k].y PROVE dy = d
    <3>1. \A i \in 0 .. n - 1 : dy[i] = d[i]
      BY <2>1, <1>3
    <3>2. QED
      BY <3>1, <1>4
  <2>2. ASSUME dy = d PROVE \A k \in DOMAIN J : J[k].x = J[k].y
    BY <2>2, <1>3
  <2>3. QED
    BY <2>1, <2>2, <1>2
<1>10. QED
  BY <1>2, <1>7, <1>8, <1>9 DEF Total

\* sleqp_vec_copy into a vector of the dimension
LEMMA CopyIsTheSame ==
  ASSUME NEW x \in Vectors, NEW y \in Vectors, y.dim = x.dim
  PROVE  CopyVec(x, y) = [x EXCEPT !.nnzMax = Greater(y.nnzMax, NnzOf(x))]
<1> DEFINE room == Greater(y.nnzMax, NnzOf(x))
<1>1. Reserve(y, NnzOf(x)) = [dim |-> x.dim, nnzMax |-> room, nz |-> y.nz]
  BY DEF Reserve, Vectors
<1> HIDE DEF room
<1>2. Clear(Reserve(y, NnzOf(x))) = [dim |-> x.dim, nnzMax |-> room, nz |-> <<>>]
  BY <1>1 DEF Clear
<1>3. x.nz \in Seq(VecEntries)
  BY DEF Vectors
<1>4. CopyVec(x, y) = [dim |-> x.dim, nnzMax |-> room, nz |-> x.nz]
  BY <1>2, <1>3, PushAllOnNothing DEF CopyVec
<1>5. [x EXCEPT !.nnzMax = room] = [dim |-> x.dim, nnzMax |-> room, nz |-> x.nz]
  BY DEF Vectors
<1>6. QED
  BY <1>4, <1>5 DEF room

LEMMA RightAgrees ==
  ASSUME VecRight
  PROVE  VecAgrees
<1> DEFINE n == spVec.dim
<1>1. n \in Nat /\ Right(spVec, n, spDense) /\ spVec \in Vectors
  BY RightHere DEF VecRight
<1>2. spVec.dim = n
  OBVIOUS
<1> HIDE DEF n
<1>3. ValidVec(spVec) /\ ToRaw(spVec) = spDense
  BY <1>1, RightIsOrdered
<1>4. /\ OneNorm(spVec) = DenseSum(LAMBDA i : IF spDense[i] < 0 THEN -spDense[i] ELSE spDense[i], n)
      /\ NormSq(spVec) = DenseSum(LAMBDA i : spDense[i] * spDense[i], n)
  BY <1>1, NormsAreDense DEF DenseSum
<1>5. ASSUME NEW y \in Operands(n)
      PROVE  /\ Dot(spVec, y) = DenseSum(LAMBDA i : spDense[i] * ValueAt(y, i), n)
             /\ EqVec(spVec, y) <=> ToRaw(y) = spDense
             /\ CopyVec(spVec, y) = [spVec EXCEPT !.nnzMax = Greater(y.nnzMax, NnzOf(spVec))]
  <2>1. PICK dy \in DenseVectors(n) : Right(y, n, dy)
    BY <1>1, SpAssumption, OperandsAreRight
  <2>2. ToRaw(y) = dy /\ \A i \in 0 .. n - 1 : ValueAt(y, i) = dy[i]
    BY <1>1, <2>1, RightIsOrdered
  <2>3. /\ Dot(spVec, y) = SumTo(n, [k \in 1 .. n |-> spDense[k - 1] * dy[k - 1]])
        /\ EqVec(spVec, y) <=> dy = spDense
    BY <1>1, <2>1, ComparesDense
  <2>4. [k \in 1 .. n |-> spDense[k - 1] * dy[k - 1]] = [k \in 1 .. n |-> spDense[k - 1] * ValueAt(y, k - 1)]
    <3>1. \A k \in 1 .. n : k - 1 \in 0 .. n - 1
      BY <1>1
    <3>2. QED
      BY <3>1, <2>2
  <2>5. Dot(spVec, y) = DenseSum(LAMBDA i : spDense[i] * ValueAt(y, i), n)
    BY <2>3, <2>4 DEF DenseSum
  <2>6. y \in Vectors /\ y.dim = spVec.dim
    BY <2>1, <1>2 DEF Right
  <2>7. CopyVec(spVec, y) = [spVec EXCEPT !.nnzMax = Greater(y.nnzMax, NnzOf(spVec))]
    BY <1>1, <2>6, CopyIsTheSame
  <2>8. QED
    BY <2>2, <2>3, <2>5, <2>7
<1>6. QED
  BY <1>2, <1>3, <1>4, <1>5 DEF VecAgrees

\* Its norms, and its products and comparisons with any other vector that
\* the merge loops compute, are those of the dense vectors too.
THEOREM VectorsAgree == SpSpec => []VecAgrees
<1>1. VecRight => VecAgrees
  BY RightAgrees
<1>2. QED
  BY <1>1, VectorsStayRight, PTL
=============================================================================
