------------------------------- MODULE StepProofs -------------------------------
(***************************************************************************)
(* How far a step goes and whether it is accepted.                         *)
(*                                                                         *)
(* The step rules of StepRules.tla, for any size of the window, any points *)
(* and any penalty parameters.  What a rule remembers are merits of        *)
(* earlier iterates.  The invariant says which: the slots of the ring      *)
(* buffer are those of the last accepted steps, so that none is read       *)
(* before it was written, and no merit that is remembered is larger than   *)
(* the largest of an iterate.                                              *)
(*                                                                         *)
(* The line searches of LineSearch.tla that backtrack, for any directions, *)
(* rows, radii and penalties whose halvings are exact.  The products of a  *)
(* direction are shortened instead of computed again.  The invariant says  *)
(* that they remain those of the direction it has shrunk to, and that it   *)
(* is within the trust region, or the bounds.                              *)
(***************************************************************************)
EXTENDS StepRules, LineSearch, WellFoundedInduction, TLAPS

Points == [f : Int, v : Int]
Steps == [merit : Int, reduction : Int]
Slots == 0 .. SrWindow - 1
Windows == [len : Nat, curr : Int, merits : [Slots -> Int], reductions : [Slots -> Int]]
Minima == [init : BOOLEAN, min : Int, ref : Int, max : Int, sumRef : Int, sumMax : Int, count : Nat]

Typed ==
  /\ srRule \in {"none", "direct", "window", "minstep"}
  /\ srWindow \in Windows /\ srMin \in Minima
  /\ srIterate \in Points /\ srPenalty \in Int /\ srTop \in Int
  /\ srShown \in Seq(Steps)
  /\ srLast.trial \in Int /\ srLast.reduction \in Int

\* The slot of a step holds it until SrWindow more have been accepted.
Remembered ==
  srRule \in {"none", "window"} =>
    /\ srWindow.len = IF Len(srShown) < SrWindow THEN Len(srShown) ELSE SrWindow
    /\ srWindow.curr = IF SrWindow = 0 THEN -1 ELSE Len(srShown) - 1
    /\ \A i \in 0 .. Len(srShown) - 1 :
         SrWindow # 0 /\ Len(srShown) - SrWindow <= i =>
           /\ srWindow.merits[DataIndex(i)] = srShown[i + 1].merit
           /\ srWindow.reductions[DataIndex(i)] = srShown[i + 1].reduction

Predicted == \A k \in DOMAIN srShown : srShown[k].reduction >= 0

\* Nothing that is remembered is larger than the largest merit.
Bounded ==
  /\ srRule = "none" => srShown = <<>> /\ ~srMin.init /\ ~srLast.accepted
  /\ \A k \in DOMAIN srShown : srShown[k].merit <= srTop
  /\ srMin.init => srMin.min <= srTop /\ srMin.ref <= srTop /\ srMin.max <= srTop
  /\ srMin.init /\ Predicted => srMin.sumRef >= 0 /\ srMin.sumMax >= 0

IInv == Typed /\ Remembered /\ Bounded /\ LevelSetKept
-----------------------------------------------------------------------------
(* Numbers                                                                 *)

LEMMA LeastElement ==
  ASSUME NEW S \in SUBSET Nat, S # {}
  PROVE  \E n \in S : \A m \in S : n <= m
<1> DEFINE R == OpToRel(<, Nat)
<1>1. IsWellFoundedOn(R, Nat)
  BY NatLessThanWellFounded
<1>2. \A x, y \in Nat : x < y => <<x, y>> \in R
  BY DEF OpToRel
<1> HIDE DEF R
<1>3. PICK x \in S : \A y \in S : ~ (<<y, x>> \in R)
  BY <1>1, WFMin
<1>4. ASSUME NEW y \in S PROVE x <= y
  <2>1. x \in Nat /\ y \in Nat /\ ~(y < x)
    BY <1>2, <1>3
  <2>2. QED
    BY <2>1
<1>5. QED
  BY <1>3, <1>4

\* Induction, for a property given as a set
LEMMA Induction ==
  ASSUME NEW S, 0 \in S, \A n \in S \cap Nat : n + 1 \in S
  PROVE  Nat \subseteq S
<1> SUFFICES ASSUME Nat \ S # {} PROVE FALSE
  OBVIOUS
<1>1. PICK n \in Nat \ S : \A m \in Nat \ S : n <= m
  BY LeastElement
<1>2. n - 1 \in Nat
  BY <1>1
<1>3. QED
  BY <1>1, <1>2

\* Steps that are less than a window apart have different slots.
LEMMA SlotsDiffer ==
  ASSUME NEW i \in Nat, NEW j \in Nat, i < j, j - i < SrWindow
  PROVE  DataIndex(i) # DataIndex(j) /\ DataIndex(i) \in Slots /\ DataIndex(j) \in Slots
<1> DEFINE q(n) == n \div SrWindow
<1>1. SrWindow \in Nat /\ SrWindow > 0
  BY SrAssumption
<1>2. \A n \in Nat : q(n) \in Int /\ DataIndex(n) \in Slots /\ n = SrWindow * q(n) + DataIndex(n)
  BY <1>1 DEF DataIndex, Slots
<1> HIDE DEF q
<1>3. SUFFICES ASSUME DataIndex(i) = DataIndex(j) PROVE FALSE
  BY <1>2
<1>4. j - i = SrWindow * (q(j) - q(i))
  BY <1>1, <1>2, <1>3 DEF Slots
<1>5. CASE q(j) - q(i) <= 0
  BY <1>1, <1>2, <1>4, <1>5
<1>6. CASE q(j) - q(i) >= 1
  BY <1>1, <1>2, <1>4, <1>6
<1>7. QED
  BY <1>2, <1>5, <1>6

\* A ratio that is accepted is that of a reduction, if one was predicted.
LEMMA AcceptedRatio ==
  ASSUME NEW n \in Int, NEW d \in Nat, AtLeastAccepted(RatioOf(n, d))
  PROVE  n >= 0 /\ (d = 0 => n > 0)
<1> DEFINE a == SrAccepted[1]
           b == SrAccepted[2]
<1>1. a \in Nat /\ b \in Nat \ {0}
  BY SrAssumption
<1>2. RatioOf(n, d).n = n /\ RatioOf(n, d).d = d
  BY DEF RatioOf
<1>3. CASE d = 0
  BY <1>2, <1>3 DEF AtLeastAccepted
<1>4. CASE d > 0
  <2>1. n * b >= a * d
    <3>1. ~(d < 0) /\ d # 0 /\ RatioOf(n, d).d > 0
      BY <1>2, <1>4
    <3>2. RatioOf(n, d).n * b >= a * RatioOf(n, d).d
      BY <1>2, <3>1 DEF AtLeastAccepted
    <3>3. QED
      BY <1>2, <3>2
  <2> HIDE DEF a, b
  <2>2. a * d >= 0
    BY <1>1, <1>4
  <2>3. SUFFICES ASSUME n < 0 PROVE FALSE
    BY <1>4
  <2>4. n * b < 0
    BY <1>1, <2>3
  <2>5. QED
    BY <1>1, <2>1, <2>2, <2>4
<1>5. QED
  BY <1>3, <1>4

\* There is a first of the largest of finitely many numbers.
LEMMA FirstLargest ==
  ASSUME NEW a \in Int, NEW b \in Int, a <= b, NEW m \in [a .. b -> Int]
  PROVE  \E ref \in a .. b : \A i \in a .. b : IF i < ref THEN m[i] < m[ref] ELSE m[i] <= m[ref]
<1> DEFINE First(c, ref) == \A i \in a .. c : IF i < ref THEN m[i] < m[ref] ELSE m[i] <= m[ref]
           S == {n \in Nat : a + n <= b => \E ref \in a .. a + n : First(a + n, ref)}
<1>1. 0 \in S
  <2>1. First(a + 0, a) /\ a \in a .. a + 0
    OBVIOUS
  <2>2. QED
    BY <2>1
<1>2. ASSUME NEW n \in S \cap Nat PROVE n + 1 \in S
  <2>1. SUFFICES ASSUME a + (n + 1) <= b PROVE \E ref \in a .. a + (n + 1) : First(a + (n + 1), ref)
    OBVIOUS
  <2>2. PICK ref \in a .. a + n : First(a + n, ref)
    BY <2>1
  <2> DEFINE c == a + (n + 1)
  <2>3. c \in a .. c /\ c \in a .. b /\ ref \in a .. c /\ ref \in a .. b /\ ref < c
        /\ \A i \in a .. c : i \in a .. a + n \/ i = c
    BY <2>1
  <2>4. m[c] \in Int /\ m[ref] \in Int /\ \A i \in a .. a + n : m[i] \in Int
    BY <2>1, <2>3
  <2>5. CASE m[c] > m[ref]
    <3>1. \A i \in a .. a + n : i < c /\ m[i] <= m[ref]
      BY <2>2, <2>4
    <3>2. First(c, c)
      BY <2>3, <2>4, <2>5, <3>1
    <3>3. QED
      BY <2>3, <3>2
  <2>6. CASE ~(m[c] > m[ref])
    <3>1. First(c, ref)
      BY <2>2, <2>3, <2>4, <2>6
    <3>2. QED
      BY <2>3, <3>1
  <2>7. QED
    BY <2>5, <2>6
<1> HIDE DEF S
<1>3. Nat \subseteq S
  BY <1>1, <1>2, Induction
<1>4. b - a \in Nat /\ a + (b - a) = b
  OBVIOUS
<1>5. b - a \in S
  BY <1>3, <1>4
<1>6. \E ref \in a .. a + (b - a) : First(a + (b - a), ref)
  BY <1>4, <1>5 DEF S
<1>7. QED
  BY <1>4, <1>6

\* The reference is in the window (the assertions of
\* compute_historic_reduction_ratio), so that its merit is that of an
\* accepted step.
LEMMA ReferenceRemembered ==
  ASSUME IInv, srRule = "window", srWindow.len # 0
  PROVE  /\ RefIndex(srWindow) \in DataBegin(srWindow) .. srWindow.curr
         /\ \E k \in DOMAIN srShown : srWindow.merits[DataIndex(RefIndex(srWindow))] = srShown[k].merit
<1> DEFINE w == srWindow
           a == DataBegin(w)
<1>1. /\ w \in Windows /\ SrWindow \in Nat /\ srShown \in Seq(Steps)
      /\ w.len = IF Len(srShown) < SrWindow THEN Len(srShown) ELSE SrWindow
      /\ w.curr = IF SrWindow = 0 THEN -1 ELSE Len(srShown) - 1
      /\ w.len # 0
  BY SrAssumption DEF IInv, Typed, Remembered
<1>2. /\ SrWindow # 0 /\ a \in Nat /\ w.curr \in Nat /\ a <= w.curr /\ w.curr = Len(srShown) - 1
      /\ Len(srShown) - SrWindow <= a
  BY <1>1 DEF DataBegin
<1>3. \A i \in Nat : DataIndex(i) \in Slots
  BY <1>1, <1>2 DEF DataIndex, Slots
<1>4. \A j \in Slots : w.merits[j] \in Int
  BY <1>1 DEF Windows
<1> HIDE DEF a, w
<1> DEFINE m == [i \in a .. w.curr |-> w.merits[DataIndex(i)]]
<1>5. m \in [a .. w.curr -> Int]
  BY <1>2, <1>3, <1>4
<1>6. \E ref \in a .. w.curr : \A i \in a .. w.curr : IF i < ref THEN m[i] < m[ref] ELSE m[i] <= m[ref]
  <2> HIDE DEF m
  <2>1. a \in Int /\ w.curr \in Int /\ a <= w.curr
    BY <1>2
  <2>2. QED
    BY <1>5, <2>1, FirstLargest
<1>7. \E ref \in a .. w.curr : IsRefIndex(w, ref)
  BY <1>6 DEF IsRefIndex, a
<1>8. RefIndex(w) \in a .. w.curr
  BY <1>7 DEF RefIndex, a
<1>9. srWindow.merits[DataIndex(RefIndex(w))] = srShown[RefIndex(w) + 1].merit
  <2>1. RefIndex(w) \in 0 .. Len(srShown) - 1 /\ Len(srShown) - SrWindow <= RefIndex(w)
    BY <1>1, <1>2, <1>8
  <2>2. QED
    BY <1>2, <2>1 DEF IInv, Remembered
<1>10. RefIndex(w) + 1 \in DOMAIN srShown
  BY <1>1, <1>2, <1>8
<1>11. QED
  BY <1>8, <1>9, <1>10 DEF w, a
-----------------------------------------------------------------------------
(* What the rules do                                                       *)

LEMMA AddEffect ==
  ASSUME NEW w \in Windows, NEW merit \in Int, NEW model \in Int, w.curr + 1 \in Nat
  PROVE  LET new == AddAccepted(w, merit, model)
         IN /\ new \in Windows
            /\ SrWindow = 0 => new = w
            /\ SrWindow # 0 =>
                 /\ new.len = IF w.len < SrWindow THEN w.len + 1 ELSE w.len
                 /\ new.curr = w.curr + 1
                 /\ new.merits[DataIndex(w.curr + 1)] = merit
                 /\ new.reductions[DataIndex(w.curr + 1)] = model
                 /\ \A j \in Slots \ {DataIndex(w.curr + 1)} :
                      new.merits[j] = w.merits[j] /\ new.reductions[j] = w.reductions[j]
<1> DEFINE at == DataIndex(w.curr + 1)
           len == IF w.len < SrWindow THEN w.len + 1 ELSE w.len
<1>1. CASE SrWindow = 0
  BY <1>1 DEF AddAccepted
<1>2. CASE SrWindow # 0
  <2>1. at \in Slots /\ len \in Nat /\ w.curr + 1 \in Int
    <3>1. SrWindow \in Nat /\ SrWindow # 0 /\ w.len \in Nat
      BY <1>2, SrAssumption DEF Windows
    <3>2. at \in Slots
      BY <3>1 DEF DataIndex, Slots
    <3>3. QED
      BY <3>1, <3>2
  <2> HIDE DEF at, len
  <2>2. AddAccepted(w, merit, model)
          = [w EXCEPT !.merits[at] = merit, !.reductions[at] = model, !.len = len, !.curr = w.curr + 1]
    BY <1>2 DEF AddAccepted, at, len
  <2>3. w = [len |-> w.len, curr |-> w.curr, merits |-> w.merits, reductions |-> w.reductions]
        /\ w.merits \in [Slots -> Int] /\ w.reductions \in [Slots -> Int]
    BY DEF Windows
  <2>4. AddAccepted(w, merit, model)
          = [len |-> len, curr |-> w.curr + 1, merits |-> [w.merits EXCEPT ![at] = merit],
             reductions |-> [w.reductions EXCEPT ![at] = model]]
    BY <2>2, <2>3
  <2>5. /\ [w.merits EXCEPT ![at] = merit] \in [Slots -> Int]
        /\ [w.reductions EXCEPT ![at] = model] \in [Slots -> Int]
    BY <2>3
  <2>6. AddAccepted(w, merit, model) \in Windows
    BY <2>1, <2>4, <2>5 DEF Windows
  <2>7. QED
    BY <1>2, <2>1, <2>3, <2>4, <2>6 DEF at, len
<1>3. QED
  BY <1>1, <1>2

BoundedBy(s, top) == s.init /\ s.min <= top /\ s.ref <= top /\ s.max <= top

LEMMA InitMinEffect ==
  ASSUME NEW s \in Minima, NEW top \in Int, NEW merit \in Int, merit <= top,
         s.init => BoundedBy(s, top)
  PROVE  /\ InitMin(s, merit) \in Minima /\ BoundedBy(InitMin(s, merit), top)
         /\ (s.init => s.sumRef >= 0 /\ s.sumMax >= 0) => InitMin(s, merit).sumRef >= 0 /\ InitMin(s, merit).sumMax >= 0
BY DEF InitMin, Minima, BoundedBy

LEMMA AcceptMinEffect ==
  ASSUME NEW s \in Minima, NEW top \in Int, NEW merit \in Int, merit <= top, NEW model \in Int, BoundedBy(s, top)
  PROVE  LET new == AcceptMin(s, merit, model)
         IN /\ new \in Minima /\ BoundedBy(new, top)
            /\ s.sumRef >= 0 /\ s.sumMax >= 0 /\ model >= 0 => new.sumRef >= 0 /\ new.sumMax >= 0
<1> DEFINE summed == [s EXCEPT !.sumRef = s.sumRef + model, !.sumMax = s.sumMax + model]
           lower  == IF merit < s.min
                     THEN [summed EXCEPT !.min = merit, !.max = merit, !.sumRef = 0, !.sumMax = 0, !.count = 0]
                     ELSE [summed EXCEPT !.count = s.count + 1]
           higher == IF merit > lower.max THEN [lower EXCEPT !.max = merit, !.sumMax = 0] ELSE lower
           new == IF higher.count = SrStepCount
                  THEN [higher EXCEPT !.ref = higher.max, !.sumRef = higher.sumMax] ELSE higher
           Numbers(t) == [init |-> t.init, min |-> t.min, ref |-> t.ref, max |-> t.max,
                          sumRef |-> t.sumRef, sumMax |-> t.sumMax, count |-> t.count]
           Fine(t) == /\ t \in Minima /\ BoundedBy(t, top)
                      /\ s.sumRef >= 0 /\ s.sumMax >= 0 /\ model >= 0 => t.sumRef >= 0 /\ t.sumMax >= 0
<1>1. AcceptMin(s, merit, model) = new
  BY DEF AcceptMin
<1>2. ASSUME NEW t \in Minima PROVE t = Numbers(t)
  BY DEF Minima
<1>3. Fine(summed)
  <2>1. s = Numbers(s)
    BY <1>2
  <2>2. summed = [s EXCEPT !.sumRef = s.sumRef + model, !.sumMax = s.sumMax + model]
    OBVIOUS
  <2> HIDE DEF summed, lower, higher, new
  <2>3. summed = [init |-> s.init, min |-> s.min, ref |-> s.ref, max |-> s.max,
                  sumRef |-> s.sumRef + model, sumMax |-> s.sumMax + model, count |-> s.count]
    BY <2>1, <2>2
  <2>4. QED
    BY <2>3 DEF Minima, BoundedBy
<1> HIDE DEF summed
<1>4. Fine(lower)
  <2>1. summed = Numbers(summed) /\ s.count + 1 \in Nat
    BY <1>2, <1>3 DEF Minima
  <2>2. CASE merit < s.min
    <3>1. lower = [init |-> summed.init, min |-> merit, ref |-> summed.ref, max |-> merit,
                   sumRef |-> 0, sumMax |-> 0, count |-> 0]
      BY <2>1, <2>2
    <3> HIDE DEF lower
    <3>2. QED
      BY <1>3, <3>1 DEF Minima, BoundedBy
  <2>3. CASE ~(merit < s.min)
    <3>1. lower = [init |-> summed.init, min |-> summed.min, ref |-> summed.ref, max |-> summed.max,
                   sumRef |-> summed.sumRef, sumMax |-> summed.sumMax, count |-> s.count + 1]
      BY <2>1, <2>3
    <3> HIDE DEF lower
    <3>2. QED
      BY <1>3, <2>1, <3>1 DEF Minima, BoundedBy
  <2>4. QED
    BY <2>2, <2>3
<1> HIDE DEF lower
<1>5. Fine(higher)
  <2>1. lower = Numbers(lower)
    BY <1>2, <1>4
  <2>2. CASE merit > lower.max
    <3>1. higher = [init |-> lower.init, min |-> lower.min, ref |-> lower.ref, max |-> merit,
                    sumRef |-> lower.sumRef, sumMax |-> 0, count |-> lower.count]
      BY <2>1, <2>2
    <3> HIDE DEF higher
    <3>2. QED
      BY <1>4, <3>1 DEF Minima, BoundedBy
  <2>3. CASE ~(merit > lower.max)
    BY <1>4, <2>3
  <2>4. QED
    BY <2>2, <2>3
<1> HIDE DEF higher
<1>6. Fine(new)
  <2>1. higher = Numbers(higher)
    BY <1>2, <1>5
  <2>2. CASE higher.count = SrStepCount
    <3>1. new = [init |-> higher.init, min |-> higher.min, ref |-> higher.max, max |-> higher.max,
                 sumRef |-> higher.sumMax, sumMax |-> higher.sumMax, count |-> higher.count]
      BY <2>1, <2>2
    <3> HIDE DEF new
    <3>2. QED
      BY <1>5, <3>1 DEF Minima, BoundedBy
  <2>3. CASE higher.count # SrStepCount
    BY <1>5, <2>3
  <2>4. QED
    BY <2>2, <2>3
<1>7. QED
  BY <1>1, <1>6

\* A step that a rule accepts goes no higher than what the rule remembers.
LEMMA AcceptedIsLower ==
  ASSUME IInv, srRule # "none", Predicted,
         NEW iterate \in Int, NEW trial \in Int, NEW model \in Nat,
         srRule = "direct" => model > 0,
         Accepts(iterate, trial, model)
  PROVE  trial <= iterate \/ trial <= srTop
<1> DEFINE exact == iterate - trial
<1>1. exact \in Int /\ (exact = model => trial <= iterate) /\ (exact >= 0 => trial <= iterate)
  OBVIOUS
<1>2. srRule \in {"direct", "window", "minstep"} /\ srTop \in Int
  BY DEF IInv, Typed
<1>3. AtLeastAccepted(RatioOf(exact, model)) => trial <= iterate
  BY <1>1, AcceptedRatio
<1>4. AtLeastAccepted(CurrentRatio(exact, model)) => trial <= iterate
  BY <1>1, <1>3 DEF CurrentRatio
<1> HIDE DEF exact
<1>5. CASE srRule = "direct"
  BY <1>1, <1>3, <1>5 DEF Accepts, DirectAccepts, exact
<1>6. CASE srRule = "window"
  <2> DEFINE ref == RefIndex(srWindow)
             past == srWindow.merits[DataIndex(ref)]
             historic == HistoricRatio(srWindow, iterate, trial, model)
  <2>1. AtLeastAccepted(CurrentRatio(exact, model)) \/ AtLeastAccepted(historic)
    BY <1>6 DEF Accepts, EitherAccepted, exact
  <2>2. CASE srWindow.len = 0 \/ past < trial
    <3>1. historic = RatioOf(exact, model)
      BY <2>2 DEF HistoricRatio, exact
    <3>2. QED
      BY <1>3, <1>4, <2>1, <3>1
  <2>3. CASE srWindow.len # 0 /\ ~(past < trial)
    <3>1. past \in Int /\ past <= srTop
      <4>1. PICK k \in DOMAIN srShown : past = srShown[k].merit
        BY <1>6, <2>3, ReferenceRemembered
      <4>2. srShown[k] \in Steps /\ srShown[k].merit <= srTop
        BY DEF IInv, Typed, Bounded
      <4>3. QED
        BY <4>1, <4>2 DEF Steps
    <3>2. QED
      BY <1>2, <2>3, <3>1
  <2>4. QED
    BY <2>2, <2>3
<1>7. CASE srRule = "minstep"
  <2> DEFINE s == InitMin(srMin, iterate)
             top == IF iterate > srTop THEN iterate ELSE srTop
  <2>1. srMin \in Minima /\ top \in Int /\ iterate <= top /\ srTop <= top
    BY <1>2 DEF IInv, Typed
  <2>2. srMin.init => BoundedBy(srMin, top) /\ srMin.sumRef >= 0 /\ srMin.sumMax >= 0
    BY <1>2, <2>1 DEF IInv, Bounded, BoundedBy, Minima
  <2>3. top = iterate \/ top = srTop
    OBVIOUS
  <2> HIDE DEF top
  <2>4. s \in Minima /\ BoundedBy(s, top) /\ s.sumRef >= 0
    BY <2>1, <2>2, InitMinEffect
  <2>5. AtLeastAccepted(CurrentRatio(exact, model)) \/ AtLeastAccepted(MinRatio(s, trial, model))
    BY <1>7 DEF Accepts, EitherAccepted, exact
  <2> HIDE DEF s
  <2>6. s.ref \in Int /\ s.sumRef \in Nat /\ s.ref <= top
    BY <2>4 DEF Minima, BoundedBy
  <2>7. AtLeastAccepted(MinRatio(s, trial, model)) => s.ref - trial >= 0
    <3>1. s.ref - trial \in Int /\ s.sumRef + model \in Nat
      BY <2>6
    <3>2. QED
      BY <3>1, AcceptedRatio DEF MinRatio
  <2>8. QED
    BY <1>4, <2>1, <2>3, <2>5, <2>6, <2>7
<1>8. QED
  BY <1>2, <1>5, <1>6, <1>7
-----------------------------------------------------------------------------
(* The invariant                                                           *)

\* An iteration, in terms of the merit it begins with, the merit of the
\* trial iterate and the reduction of the model.
Iteration(trial, before, after, model, penalty) ==
  LET accepted == Accepts(before, after, model)
  IN /\ srRule # "none" /\ srRule' = srRule
     /\ srWindow' = IF accepted /\ srRule = "window" THEN AddAccepted(srWindow, before, model) ELSE srWindow
     /\ srMin' = IF srRule # "minstep" THEN srMin
                 ELSE IF accepted THEN AcceptMin(InitMin(srMin, before), before, model)
                 ELSE InitMin(srMin, before)
     /\ srShown' = IF accepted THEN Append(srShown, [merit |-> before, reduction |-> model]) ELSE srShown
     /\ srTop' = IF before > srTop THEN before ELSE srTop
     /\ srLast' = [accepted |-> accepted, trial |-> after, reduction |-> model]
     /\ srIterate' = IF accepted THEN trial ELSE srIterate
     /\ srPenalty' = penalty

LEMMA IterationNumbers ==
  ASSUME IInv, SrIterate
  PROVE  \E trial \in Points, before, after, model, penalty \in Int : Iteration(trial, before, after, model, penalty)
<1>1. PICK trial \in SrPoints, modelPoint \in SrPoints, penalty \in {p \in SrPenalties : p >= srPenalty} :
        Iteration(trial, Merit(srIterate, srPenalty), Merit(trial, srPenalty),
                  Merit(srIterate, srPenalty) - Merit(modelPoint, penalty), penalty)
  BY DEF SrIterate, Iteration
<1>2. /\ trial \in Points /\ modelPoint \in Points /\ srIterate \in Points
      /\ penalty \in Int /\ srPenalty \in Int
  BY SrAssumption DEF IInv, Typed, Points
<1>3. \A z \in Points, p \in Int : Merit(z, p) \in Int
  BY DEF Merit, Points
<1>4. /\ Merit(srIterate, srPenalty) \in Int /\ Merit(trial, srPenalty) \in Int
      /\ Merit(srIterate, srPenalty) - Merit(modelPoint, penalty) \in Int
  BY <1>2, <1>3
<1>5. QED
  BY <1>1, <1>2, <1>4

\* The buffer after an accepted step of the windowed rule.
LEMMA AcceptRemembered ==
  ASSUME Typed, Remembered, srRule = "window", srRule' = "window",
         NEW merit \in Int, NEW model \in Int,
         srWindow' = AddAccepted(srWindow, merit, model),
         srShown' = Append(srShown, [merit |-> merit, reduction |-> model])
  PROVE  Remembered' /\ srWindow' \in Windows
<1> DEFINE n == Len(srShown)
<1>1. n \in Nat /\ SrWindow \in Nat /\ srWindow \in Windows /\ srShown \in Seq(Steps)
  BY SrAssumption DEF Typed
<1>2. /\ srWindow.len = IF n < SrWindow THEN n ELSE SrWindow
      /\ srWindow.curr = IF SrWindow = 0 THEN -1 ELSE n - 1
  BY DEF Remembered
<1>3. srWindow.curr + 1 \in Nat
  BY <1>1, <1>2
<1>4. /\ srWindow' \in Windows
      /\ SrWindow = 0 => srWindow' = srWindow
      /\ SrWindow # 0 =>
           /\ srWindow'.len = IF srWindow.len < SrWindow THEN srWindow.len + 1 ELSE srWindow.len
           /\ srWindow'.curr = srWindow.curr + 1
           /\ srWindow'.merits[DataIndex(srWindow.curr + 1)] = merit
           /\ srWindow'.reductions[DataIndex(srWindow.curr + 1)] = model
           /\ \A j \in Slots \ {DataIndex(srWindow.curr + 1)} :
                srWindow'.merits[j] = srWindow.merits[j] /\ srWindow'.reductions[j] = srWindow.reductions[j]
  <2> DEFINE new == AddAccepted(srWindow, merit, model)
  <2>1. /\ new \in Windows
        /\ SrWindow = 0 => new = srWindow
        /\ SrWindow # 0 =>
             /\ new.len = IF srWindow.len < SrWindow THEN srWindow.len + 1 ELSE srWindow.len
             /\ new.curr = srWindow.curr + 1
             /\ new.merits[DataIndex(srWindow.curr + 1)] = merit
             /\ new.reductions[DataIndex(srWindow.curr + 1)] = model
             /\ \A j \in Slots \ {DataIndex(srWindow.curr + 1)} :
                  new.merits[j] = srWindow.merits[j] /\ new.reductions[j] = srWindow.reductions[j]
    BY <1>1, <1>3, AddEffect
  <2>2. srWindow' = new
    OBVIOUS
  <2> HIDE DEF new
  <2>3. QED
    BY <2>1, <2>2
<1>5. /\ Len(srShown') = n + 1
      /\ srShown'[n + 1] = [merit |-> merit, reduction |-> model]
      /\ \A i \in 1 .. n : srShown'[i] = srShown[i]
  BY <1>1
<1> HIDE DEF n
<1>6. srWindow'.len = IF n + 1 < SrWindow THEN n + 1 ELSE SrWindow
  BY <1>1, <1>2, <1>4
<1>7. srWindow'.curr = IF SrWindow = 0 THEN -1 ELSE n + 1 - 1
  BY <1>1, <1>2, <1>4
<1>8. ASSUME NEW i \in 0 .. n + 1 - 1, SrWindow # 0, n + 1 - SrWindow <= i
      PROVE  /\ srWindow'.merits[DataIndex(i)] = srShown'[i + 1].merit
             /\ srWindow'.reductions[DataIndex(i)] = srShown'[i + 1].reduction
  <2>1. srWindow.curr + 1 = n
    BY <1>1, <1>2, <1>8
  <2>2. CASE i = n
    BY <1>4, <1>5, <1>8, <2>1, <2>2
  <2>3. CASE i < n
    <3>1. i \in Nat /\ n - i < SrWindow /\ i \in 0 .. n - 1 /\ n - SrWindow <= i /\ i + 1 \in 1 .. n
      BY <1>1, <1>8, <2>3
    <3>2. DataIndex(i) \in Slots \ {DataIndex(n)}
      BY <1>1, <2>3, <3>1, SlotsDiffer
    <3>3. /\ srWindow'.merits[DataIndex(i)] = srWindow.merits[DataIndex(i)]
          /\ srWindow'.reductions[DataIndex(i)] = srWindow.reductions[DataIndex(i)]
      BY <1>4, <1>8, <2>1, <3>2
    <3>4. /\ srWindow.merits[DataIndex(i)] = srShown[i + 1].merit
          /\ srWindow.reductions[DataIndex(i)] = srShown[i + 1].reduction
      BY <1>8, <3>1 DEF Remembered, n
    <3>5. srShown'[i + 1] = srShown[i + 1]
      BY <1>5, <3>1
    <3>6. QED
      BY <3>3, <3>4, <3>5
  <2>4. i = n \/ i < n
    BY <1>1
  <2>5. QED
    BY <2>2, <2>3, <2>4
<1>9. \A i \in 0 .. Len(srShown') - 1 :
        SrWindow # 0 /\ Len(srShown') - SrWindow <= i =>
          /\ srWindow'.merits[DataIndex(i)] = srShown'[i + 1].merit
          /\ srWindow'.reductions[DataIndex(i)] = srShown'[i + 1].reduction
  <2>1. SUFFICES ASSUME NEW i \in 0 .. Len(srShown') - 1, SrWindow # 0, Len(srShown') - SrWindow <= i
                 PROVE  /\ srWindow'.merits[DataIndex(i)] = srShown'[i + 1].merit
                        /\ srWindow'.reductions[DataIndex(i)] = srShown'[i + 1].reduction
    OBVIOUS
  <2>2. i \in 0 .. n + 1 - 1 /\ n + 1 - SrWindow <= i
    BY <1>1, <1>5, <2>1
  <2>3. QED
    BY <1>8, <2>1, <2>2
<1>10. Remembered'
  <2>1. srWindow'.len = IF Len(srShown') < SrWindow THEN Len(srShown') ELSE SrWindow
    BY <1>1, <1>5, <1>6
  <2>2. srWindow'.curr = IF SrWindow = 0 THEN -1 ELSE Len(srShown') - 1
    BY <1>1, <1>5, <1>7
  <2>3. QED
    BY <1>9, <2>1, <2>2 DEF Remembered
<1>11. QED
  BY <1>4, <1>10

LEMMA InitInvariant ==
  ASSUME SrInit
  PROVE  IInv
<1>1. SrWindow \in Nat
  BY SrAssumption
<1>2. srWindow = [len |-> 0, curr |-> -1, merits |-> [j \in Slots |-> 0], reductions |-> [j \in Slots |-> 0]]
  BY DEF SrInit, NewWindow, Slots
<1>3. srWindow \in Windows /\ srWindow.len = 0 /\ srWindow.curr = -1
  BY <1>2 DEF Windows
<1>4. srMin \in Minima /\ ~srMin.init
  BY DEF SrInit, NewMin, Minima
<1>5. srIterate \in Points /\ srPenalty \in Int /\ srTop \in Int /\ srRule = "none" /\ srShown = <<>>
  BY DEF SrInit, Points
<1>6. srLast.trial \in Int /\ srLast.reduction \in Int /\ ~srLast.accepted
  BY DEF SrInit, NoJudgement
<1>7. srShown \in Seq(Steps) /\ Len(srShown) = 0 /\ DOMAIN srShown = {}
  BY <1>5
<1>8. Typed
  BY <1>3, <1>4, <1>5, <1>6, <1>7 DEF Typed
<1>9. Remembered
  BY <1>1, <1>3, <1>7 DEF Remembered
<1>10. Bounded
  BY <1>4, <1>5, <1>6, <1>7 DEF Bounded
<1>11. QED
  BY <1>6, <1>8, <1>9, <1>10 DEF IInv, LevelSetKept

LEMMA CreateStep ==
  ASSUME IInv, SrCreate
  PROVE  IInv'
<1>1. /\ srRule = "none" /\ srRule' \in {"direct", "window", "minstep"} /\ srIterate' \in SrPoints
      /\ srTop' = Merit(srIterate', srPenalty)
      /\ srWindow' = srWindow /\ srMin' = srMin /\ srPenalty' = srPenalty /\ srShown' = srShown /\ srLast' = srLast
  BY DEF SrCreate, srVars
<1>2. srIterate' \in Points /\ srPenalty \in Int
  BY <1>1, SrAssumption DEF IInv, Typed, Points
<1>3. srTop' \in Int
  BY <1>1, <1>2 DEF Merit, Points
<1>4. srShown = <<>> /\ DOMAIN srShown = {} /\ ~srMin.init /\ ~srLast.accepted
  BY <1>1 DEF IInv, Bounded
<1>5. Typed'
  BY <1>1, <1>2, <1>3 DEF IInv, Typed
<1>6. Remembered'
  BY <1>1 DEF IInv, Remembered
<1>7. Bounded'
  BY <1>1, <1>4 DEF Bounded
<1>8. LevelSetKept'
  BY <1>1, <1>4 DEF LevelSetKept
<1>9. QED
  BY <1>5, <1>6, <1>7, <1>8 DEF IInv

\* The largest merit after an iteration is at least the one before it and
\* that of the iterate.
LEMMA TopGrows ==
  ASSUME Typed, NEW before \in Int, srTop' = IF before > srTop THEN before ELSE srTop
  PROVE  srTop \in Int /\ srTop' \in Int /\ srTop <= srTop' /\ before <= srTop'
BY DEF Typed

LEMMA RejectStep ==
  ASSUME IInv, NEW trial \in Points, NEW before \in Int, NEW after \in Int, NEW model \in Int, NEW penalty \in Int,
         Iteration(trial, before, after, model, penalty), ~Accepts(before, after, model)
  PROVE  IInv'
<1>1. /\ srRule # "none" /\ srRule' = srRule /\ srWindow' = srWindow
      /\ srMin' = IF srRule # "minstep" THEN srMin ELSE InitMin(srMin, before)
      /\ srShown' = srShown /\ srTop' = IF before > srTop THEN before ELSE srTop
      /\ srIterate' = srIterate /\ srPenalty' = penalty
      /\ srLast'.trial = after /\ srLast'.reduction = model
  BY DEF Iteration
<1>2. ~srLast'.accepted
  BY DEF Iteration
<1>3. srTop \in Int /\ srTop' \in Int /\ srTop <= srTop' /\ before <= srTop'
  BY <1>1, TopGrows DEF IInv
<1>4. srMin \in Minima /\ (srMin.init => BoundedBy(srMin, srTop'))
  BY <1>3 DEF IInv, Typed, Bounded, BoundedBy, Minima
<1>5. /\ InitMin(srMin, before) \in Minima /\ BoundedBy(InitMin(srMin, before), srTop')
      /\ (srMin.init => srMin.sumRef >= 0 /\ srMin.sumMax >= 0)
           => InitMin(srMin, before).sumRef >= 0 /\ InitMin(srMin, before).sumMax >= 0
  BY <1>3, <1>4, InitMinEffect
<1>6. /\ srMin' \in Minima /\ (srMin'.init => BoundedBy(srMin', srTop'))
      /\ (srMin.init => srMin.sumRef >= 0 /\ srMin.sumMax >= 0) => (srMin'.init => srMin'.sumRef >= 0 /\ srMin'.sumMax >= 0)
  BY <1>1, <1>4, <1>5
<1>7. \A k \in DOMAIN srShown : srShown[k].merit \in Int /\ srShown[k].merit <= srTop'
  <2>1. \A k \in DOMAIN srShown : srShown[k] \in Steps /\ srShown[k].merit <= srTop
    BY DEF IInv, Typed, Bounded
  <2>2. QED
    BY <1>3, <2>1 DEF Steps
<1>8. Typed'
  BY <1>1, <1>3, <1>6 DEF IInv, Typed
<1>9. Remembered'
  BY <1>1 DEF IInv, Remembered
<1>10. Bounded'
  <2>1. Predicted => (srMin.init => srMin.sumRef >= 0 /\ srMin.sumMax >= 0)
    BY DEF IInv, Bounded
  <2>2. Predicted' <=> Predicted
    BY <1>1 DEF Predicted
  <2>3. QED
    BY <1>1, <1>6, <1>7, <2>1, <2>2 DEF Bounded, BoundedBy
<1>11. LevelSetKept'
  BY <1>2 DEF LevelSetKept
<1>12. QED
  BY <1>8, <1>9, <1>10, <1>11 DEF IInv

LEMMA AcceptStep ==
  ASSUME IInv, NEW trial \in Points, NEW before \in Int, NEW after \in Int, NEW model \in Int, NEW penalty \in Int,
         Iteration(trial, before, after, model, penalty), Accepts(before, after, model)
  PROVE  IInv'
<1> DEFINE step == [merit |-> before, reduction |-> model]
           s == InitMin(srMin, before)
<1>1. /\ srRule # "none" /\ srRule' = srRule
      /\ srWindow' = IF srRule = "window" THEN AddAccepted(srWindow, before, model) ELSE srWindow
      /\ srMin' = IF srRule # "minstep" THEN srMin ELSE AcceptMin(s, before, model)
      /\ srShown' = Append(srShown, step) /\ srTop' = IF before > srTop THEN before ELSE srTop
      /\ srIterate' = trial /\ srPenalty' = penalty
      /\ srLast'.trial = after /\ srLast'.reduction = model
  BY DEF Iteration
<1>2. srTop \in Int /\ srTop' \in Int /\ srTop <= srTop' /\ before <= srTop' /\ (srTop' = before \/ srTop' = srTop)
  BY <1>1, TopGrows DEF IInv
<1>3. step \in Steps /\ step.merit = before /\ step.reduction = model
  BY DEF Steps
<1>4. /\ srShown \in Seq(Steps) /\ srShown' \in Seq(Steps)
      /\ DOMAIN srShown' = DOMAIN srShown \cup {Len(srShown) + 1}
      /\ \A k \in DOMAIN srShown : srShown'[k] = srShown[k]
      /\ srShown'[Len(srShown) + 1] = step
  <2> HIDE DEF step
  <2>1. srShown \in Seq(Steps)
    BY DEF IInv, Typed
  <2>2. QED
    BY <1>1, <1>3, <2>1
<1> HIDE DEF step
<1>5. Predicted' <=> Predicted /\ model >= 0
  BY <1>3, <1>4 DEF Predicted
<1>6. \A k \in DOMAIN srShown' : srShown'[k].merit <= srTop'
  <2>1. \A k \in DOMAIN srShown : srShown[k] \in Steps /\ srShown[k].merit <= srTop
    BY DEF IInv, Typed, Bounded
  <2>2. \A k \in DOMAIN srShown : srShown[k].merit <= srTop'
    BY <1>2, <2>1 DEF Steps
  <2>3. QED
    BY <1>2, <1>3, <1>4, <2>2
<1>7. Remembered' /\ srWindow' \in Windows
  <2>1. CASE srRule = "window"
    BY <1>1, <2>1, AcceptRemembered DEF IInv, step
  <2>2. CASE srRule # "window"
    BY <1>1, <2>2 DEF IInv, Typed, Remembered
  <2>3. QED
    BY <2>1, <2>2
<1>8. srMin \in Minima /\ (srMin.init => BoundedBy(srMin, srTop'))
      /\ (Predicted => (srMin.init => srMin.sumRef >= 0 /\ srMin.sumMax >= 0))
  BY <1>2 DEF IInv, Typed, Bounded, BoundedBy, Minima
<1>9. /\ s \in Minima /\ BoundedBy(s, srTop')
      /\ (srMin.init => srMin.sumRef >= 0 /\ srMin.sumMax >= 0) => s.sumRef >= 0 /\ s.sumMax >= 0
  BY <1>2, <1>8, InitMinEffect
<1> HIDE DEF s
<1>10. /\ AcceptMin(s, before, model) \in Minima /\ BoundedBy(AcceptMin(s, before, model), srTop')
       /\ s.sumRef >= 0 /\ s.sumMax >= 0 /\ model >= 0
            => AcceptMin(s, before, model).sumRef >= 0 /\ AcceptMin(s, before, model).sumMax >= 0
  BY <1>2, <1>9, AcceptMinEffect
<1>11. /\ srMin' \in Minima /\ (srMin'.init => BoundedBy(srMin', srTop'))
       /\ Predicted' => (srMin'.init => srMin'.sumRef >= 0 /\ srMin'.sumMax >= 0)
  BY <1>1, <1>5, <1>8, <1>9, <1>10
<1>12. Typed'
  <2>1. srRule' \in {"none", "direct", "window", "minstep"}
    BY <1>1 DEF IInv, Typed
  <2>2. QED
    BY <1>1, <1>2, <1>4, <1>7, <1>11, <2>1 DEF Typed
<1>13. Bounded'
  BY <1>1, <1>6, <1>11 DEF Bounded, BoundedBy
<1>14. LevelSetKept'
  <2>1. SUFFICES ASSUME Predicted', srRule' = "direct" => srLast'.reduction > 0
                 PROVE  srLast'.trial <= srTop'
    BY DEF LevelSetKept, Predicted
  <2>2. Predicted /\ model \in Nat /\ (srRule = "direct" => model > 0)
    BY <1>1, <1>5, <2>1
  <2>3. after <= before \/ after <= srTop
    BY <1>1, <2>2, AcceptedIsLower
  <2>4. QED
    BY <1>1, <1>2, <2>3
<1>15. QED
  BY <1>7, <1>12, <1>13, <1>14 DEF IInv

LEMMA NextInvariant ==
  ASSUME IInv, [SrNext]_srVars
  PROVE  IInv'
<1>1. CASE SrCreate
  BY <1>1, CreateStep
<1>2. CASE SrIterate
  <2>1. PICK trial \in Points, before, after, model, penalty \in Int : Iteration(trial, before, after, model, penalty)
    BY <1>2, IterationNumbers
  <2>2. CASE Accepts(before, after, model)
    BY <2>1, <2>2, AcceptStep
  <2>3. CASE ~Accepts(before, after, model)
    BY <2>1, <2>3, RejectStep
  <2>4. QED
    BY <2>2, <2>3
<1>3. CASE UNCHANGED srVars
  BY <1>3 DEF srVars, IInv, Typed, Remembered, Bounded, Predicted, LevelSetKept
<1>4. QED
  BY <1>1, <1>2, <1>3 DEF SrNext

\* What a rule remembers is that of the iterations it should be, whatever
\* the window, the points and the penalties.
THEOREM Invariance == SrSpec => []IInv
<1>1. SrInit => IInv
  BY InitInvariant
<1>2. IInv /\ [SrNext]_srVars => IInv'
  BY NextInvariant
<1>3. QED
  BY <1>1, <1>2, PTL DEF SrSpec

LEMMA BufferIsRecent ==
  ASSUME IInv
  PROVE  WindowIsRecent
<1> DEFINE n == Len(srShown)
           len == srWindow.len
           recent == SubSeq(srShown, n - len + 1, n)
           i(k) == n - len + k - 1
<1>1. SUFFICES ASSUME srRule = "window"
               PROVE  /\ len = IF n < SrWindow THEN n ELSE SrWindow
                      /\ \A k \in 1 .. len :
                           /\ srWindow.merits[DataIndex(RingIndices(srWindow)[k])] = recent[k].merit
                           /\ srWindow.reductions[DataIndex(RingIndices(srWindow)[k])] = recent[k].reduction
  BY DEF WindowIsRecent
<1>2. /\ n \in Nat /\ SrWindow \in Nat /\ srShown \in Seq(Steps)
      /\ len = IF n < SrWindow THEN n ELSE SrWindow
      /\ srWindow.curr = IF SrWindow = 0 THEN -1 ELSE n - 1
  BY <1>1, SrAssumption DEF IInv, Typed, Remembered
<1>3. len \in Nat /\ len <= n /\ len <= SrWindow
  BY <1>2
<1> HIDE DEF n, len
<1>4. ASSUME NEW k \in 1 .. len
      PROVE  /\ srWindow.merits[DataIndex(RingIndices(srWindow)[k])] = recent[k].merit
             /\ srWindow.reductions[DataIndex(RingIndices(srWindow)[k])] = recent[k].reduction
  <2>1. SrWindow # 0 /\ k \in Int /\ 1 <= k /\ k <= len
    BY <1>2, <1>3
  <2>2. RingIndices(srWindow)[k] = i(k)
    <3>1. RingIndices(srWindow)[k] = srWindow.curr - len + 1 + k - 1
      BY DEF RingIndices, DataBegin, len
    <3>2. QED
      BY <1>2, <1>3, <2>1, <3>1
  <2>3. i(k) \in 0 .. n - 1 /\ n - SrWindow <= i(k) /\ i(k) + 1 = n - len + 1 + k - 1
    BY <1>2, <1>3, <2>1
  <2>4. recent[k] = srShown[n - len + 1 + k - 1]
    <3> DEFINE first == n - len + 1
    <3>1. first \in Int /\ k \in 1 .. n - first + 1
      BY <1>2, <1>3, <2>1
    <3> HIDE DEF first
    <3>2. SubSeq(srShown, first, n)[k] = srShown[first + k - 1]
      BY <1>2, <3>1
    <3>3. QED
      BY <3>2 DEF first
  <2>5. /\ srWindow.merits[DataIndex(i(k))] = srShown[i(k) + 1].merit
        /\ srWindow.reductions[DataIndex(i(k))] = srShown[i(k) + 1].reduction
    BY <1>1, <2>1, <2>3 DEF IInv, Remembered, n
  <2> HIDE DEF i
  <2>6. QED
    BY <2>2, <2>3, <2>4, <2>5
<1>5. QED
  BY <1>2, <1>4

\* The ring buffer holds the last accepted steps in order, and no step that
\* is accepted leaves the level set of the largest merit so far.
THEOREM StepRulesSoundHolds == SrSpec => []StepRulesSound
<1>1. IInv => StepRulesSound
  BY BufferIsRecent DEF IInv, StepRulesSound
<1>2. QED
  BY <1>1, Invariance, PTL
-----------------------------------------------------------------------------
(* LineSearch                                                              *)

\* A sum is an integer if its terms are: partial sums exist, by induction.
LEMMA SumTyped ==
  ASSUME NEW n \in Nat, NEW f \in [1 .. n -> Int]
  PROVE  SumTo(n, f) \in Int
<1> DEFINE Added(s) == [k \in 0 .. n |-> IF k = 0 THEN 0 ELSE s[k - 1] + f[k]]
           Partial == {k \in Nat : k <= n => \E s \in [0 .. k -> Int] :
                         \A j \in 0 .. k : s[j] = IF j = 0 THEN 0 ELSE s[j - 1] + f[j]}
           sum == CHOOSE s : s = Added(s)
           Whole == {k \in Nat : k <= n => sum[k] \in Int}
<1>1. 0 \in Partial
  <2>1. [j \in 0 .. 0 |-> 0] \in [0 .. 0 -> Int]
    OBVIOUS
  <2>2. \A j \in 0 .. 0 : j = 0 /\ [i \in 0 .. 0 |-> 0][j] = 0
    OBVIOUS
  <2>3. QED
    BY <2>1, <2>2
<1>2. ASSUME NEW k \in Partial \cap Nat PROVE k + 1 \in Partial
  <2> HIDE DEF sum, Whole, Added
  <2>1. SUFFICES ASSUME k + 1 <= n
                 PROVE  \E s \in [0 .. k + 1 -> Int] :
                          \A j \in 0 .. k + 1 : s[j] = IF j = 0 THEN 0 ELSE s[j - 1] + f[j]
    BY k \in Nat /\ k + 1 \in Nat
  <2>2. PICK s \in [0 .. k -> Int] : \A j \in 0 .. k : s[j] = IF j = 0 THEN 0 ELSE s[j - 1] + f[j]
    BY <2>1
  <2> DEFINE t == [j \in 0 .. k + 1 |-> IF j <= k THEN s[j] ELSE s[k] + f[k + 1]]
  <2>3. t \in [0 .. k + 1 -> Int]
    BY <2>1, <2>2
  <2>4. ASSUME NEW j \in 0 .. k + 1 PROVE t[j] = IF j = 0 THEN 0 ELSE t[j - 1] + f[j]
    <3>1. CASE j <= k
      <4>1. t[j] = s[j] /\ (j # 0 => j - 1 \in 0 .. k /\ t[j - 1] = s[j - 1])
        BY <3>1
      <4>2. QED
        BY <2>2, <3>1, <4>1
    <3>2. CASE j = k + 1
      BY <2>2, <3>2
    <3>3. QED
      BY <3>1, <3>2
  <2>5. QED
    BY <2>3, <2>4
<1>3. \E s : s = Added(s)
  <2> HIDE DEF Partial
  <2>1. n \in Partial
    BY <1>1, <1>2, Induction
  <2> USE DEF Partial
  <2>2. PICK s \in [0 .. n -> Int] : \A j \in 0 .. n : s[j] = IF j = 0 THEN 0 ELSE s[j - 1] + f[j]
    BY <2>1
  <2>3. s = Added(s)
    BY <2>2
  <2>4. QED
    BY <2>3
<1>4. SumTo(n, f) = sum[n]
  BY DEF SumTo
<1>5. sum = Added(sum)
  <2> HIDE DEF Added
  <2>1. QED
    BY <1>3
<1>6. \A k \in 0 .. n : sum[k] = IF k = 0 THEN 0 ELSE sum[k - 1] + f[k]
  <2> HIDE DEF sum
  <2>1. \A k \in 0 .. n : sum[k] = Added(sum)[k]
    BY <1>5
  <2>2. QED
    BY <2>1
<1> HIDE DEF sum
<1>7. 0 \in Whole
  BY <1>6
<1>8. ASSUME NEW k \in Whole \cap Nat PROVE k + 1 \in Whole
  BY <1>6, <1>8
<1>9. n \in Whole
  <2> HIDE DEF Whole
  <2>1. QED
    BY <1>7, <1>8, Induction
<1>10. QED
  BY <1>4, <1>9


LEMMA DataTyped ==
  ASSUME lsData \in LsInstances
  PROVE  /\ LsUnit \in Nat /\ LsUnit > 0
         /\ lsData.obj \in Int /\ lsData.grad \in Int /\ lsData.hess \in Int /\ lsData.penalty \in Nat
         /\ lsData.radius \in Nat /\ lsData.lb \in Int /\ lsData.ub \in Int
         /\ lsData.cauchy \in Int /\ lsData.newton \in Int
         /\ Len(lsData.rows) \in Nat /\ LsRows = 1 .. Len(lsData.rows)
         /\ \A i \in LsRows : lsData.rows[i] \in [jac : Int, val : Int, lb : Int, ub : Int]
<1>1. lsData.rows \in Seq([jac : Int, val : Int, lb : Int, ub : Int])
  BY LsAssumption
<1>2. Len(lsData.rows) \in Nat /\ LsRows = 1 .. Len(lsData.rows)
      /\ \A i \in LsRows : lsData.rows[i] \in [jac : Int, val : Int, lb : Int, ub : Int]
  <2>1. ASSUME NEW R, NEW s \in Seq(R)
        PROVE  Len(s) \in Nat /\ DOMAIN s = 1 .. Len(s) /\ \A i \in DOMAIN s : s[i] \in R
    OBVIOUS
  <2>2. QED
    BY <1>1, <2>1, Zenon DEF LsRows
<1>3. LsUnit \in Nat /\ LsUnit > 0 /\ lsData.penalty \in Nat /\ lsData.radius \in Nat
      /\ {lsData.obj, lsData.grad, lsData.hess, lsData.lb, lsData.ub, lsData.cauchy, lsData.newton}
           \subseteq Int
  BY LsAssumption
<1>4. QED
  BY <1>2, <1>3

LEMMA Rigid ==
  ASSUME UNCHANGED lsData
  PROVE  /\ LsRows' = LsRows /\ Cauchy' = Cauchy /\ Newton' = Newton /\ InitialDelta' = InitialDelta
         /\ \A step : DirectionOf(step)' = DirectionOf(step)
         /\ \A jac : Violation(jac)' = Violation(jac)
         /\ \A objDot, jac : LinearMerit(objDot, jac)' = LinearMerit(objDot, jac)
         /\ \A d : QuadraticMerit(d)' = QuadraticMerit(d)
<1>1. LsRows' = LsRows /\ \A step : DirectionOf(step)' = DirectionOf(step)
  BY DEF LsRows, DirectionOf
<1>2. Cauchy' = Cauchy /\ Newton' = Newton
  BY DEF Cauchy, Newton, DirectionOf, LsRows
<1>3. InitialDelta' = InitialDelta
  BY DEF InitialDelta, FirstLength
<1>4. \A jac : Violation(jac)' = Violation(jac)
  BY DEF Violation, LsRows
<1>5. \A objDot, jac : LinearMerit(objDot, jac)' = LinearMerit(objDot, jac)
  BY <1>4 DEF LinearMerit
<1>6. \A d : QuadraticMerit(d)' = QuadraticMerit(d)
  BY <1>5 DEF QuadraticMerit
<1>7. QED
  BY <1>1, <1>2, <1>3, <1>4, <1>5, <1>6

LEMMA ViolationTyped ==
  ASSUME lsData \in LsInstances, NEW jac \in [LsRows -> Int]
  PROVE  Violation(jac) \in Int
<1>1. ASSUME NEW i \in LsRows PROVE RowViolation(lsData.rows[i], jac[i]) \in Int
  <2> DEFINE row == lsData.rows[i]
  <2>1. row.val \in Int /\ row.lb \in Int /\ row.ub \in Int /\ jac[i] \in Int /\ LsUnit \in Int
    BY DataTyped
  <2> HIDE DEF row
  <2>2. LsUnit * row.val \in Int /\ LsUnit * row.lb \in Int /\ LsUnit * row.ub \in Int
    BY <2>1
  <2>3. RowViolation(row, jac[i]) \in Int
    BY <2>1, <2>2 DEF RowViolation, Positive
  <2>4. QED
    BY <2>3 DEF row
<1>2. [i \in LsRows |-> RowViolation(lsData.rows[i], jac[i])] \in [1 .. Len(lsData.rows) -> Int]
  BY <1>1, DataTyped
<1>3. QED
  BY <1>2, SumTyped, DataTyped DEF Violation

LEMMA MeritTyped ==
  ASSUME lsData \in LsInstances, NEW jac \in [LsRows -> Int], NEW objDot \in Int
  PROVE  LinearMerit(objDot, jac) \in Int
<1>1. \A p \in Nat, v \in Int : p * v \in Int
  OBVIOUS
<1>2. lsData.penalty * Violation(jac) \in Int
  BY <1>1, DataTyped, ViolationTyped
<1>3. LsUnit * lsData.obj \in Int
  BY <1>1, DataTyped
<1>4. QED
  BY <1>2, <1>3 DEF LinearMerit

LEMMA DirectionTyped ==
  ASSUME lsData \in LsInstances, NEW step \in Int
  PROVE  /\ DirectionOf(step).primal = step /\ DirectionOf(step).obj = lsData.grad * step
         /\ DirectionOf(step).hess = lsData.hess * step
         /\ DirectionOf(step).jac = [i \in LsRows |-> lsData.rows[i].jac * step]
         /\ \A i \in LsRows : DirectionOf(step).jac[i] = lsData.rows[i].jac * step
         /\ DirectionOf(step).obj \in Int /\ DirectionOf(step).hess \in Int
         /\ DirectionOf(step).jac \in [LsRows -> Int]
<1>1. \A a, b \in Int : a * b \in Int
  OBVIOUS
<1>2. lsData.grad * step \in Int /\ lsData.hess * step \in Int
  BY <1>1, DataTyped
<1>3. \A i \in LsRows : lsData.rows[i].jac * step \in Int
  BY <1>1, DataTyped
<1>4. QED
  BY <1>2, <1>3 DEF DirectionOf

\* Products of sums and multiples of directions are those of the sum or
\* multiple: the products are linear.
LEMMA Linear ==
  ASSUME NEW a \in Int, NEW b \in Int, NEW x \in Int, NEW y \in Int, NEW g \in Int
  PROVE  /\ a * (g * x) = g * (a * x)
         /\ a * (g * x) + b * (g * y) = g * (a * x + b * y)
OBVIOUS

LEMMA ScaledIsDirection ==
  ASSUME lsData \in LsInstances, NEW factor \in Int, NEW step \in Int
  PROVE  ScaledBy(factor, DirectionOf(step)) = DirectionOf(factor * step)
<1>1. \A g \in Int : factor * (g * step) = g * (factor * step)
  BY Linear
<1>2. factor * step \in Int
  OBVIOUS
<1>3. ASSUME NEW i \in LsRows
      PROVE  factor * DirectionOf(step).jac[i] = lsData.rows[i].jac * (factor * step)
  <2>1. lsData.rows[i].jac \in Int /\ DirectionOf(step).jac[i] = lsData.rows[i].jac * step
    BY DirectionTyped, DataTyped
  <2>2. QED
    BY <1>1, <2>1
<1>4. QED
  BY <1>1, <1>3, DataTyped DEF ScaledBy, DirectionOf

LEMMA CombinedIsDirection ==
  ASSUME lsData \in LsInstances, NEW alpha \in Int
  PROVE  Combined(Cauchy, Newton, alpha)
           = DirectionOf((LsUnit - alpha) * lsData.cauchy + alpha * lsData.newton)
<1> DEFINE c == lsData.cauchy
           n == lsData.newton
           r == LsUnit - alpha
<1>1. c \in Int /\ n \in Int /\ r \in Int /\ r * c \in Int /\ alpha * n \in Int
  BY DataTyped
<1>2. ScaledBy(r, Cauchy) = DirectionOf(r * c) /\ ScaledBy(alpha, Newton) = DirectionOf(alpha * n)
  BY <1>1, ScaledIsDirection DEF Cauchy, Newton
<1> HIDE DEF c, n, r
<1>3. \A g \in Int : g * (r * c) + g * (alpha * n) = g * (r * c + alpha * n)
  BY <1>1
<1>4. ASSUME NEW i \in LsRows
      PROVE  DirectionOf(r * c).jac[i] + DirectionOf(alpha * n).jac[i]
               = lsData.rows[i].jac * (r * c + alpha * n)
  <2>1. lsData.rows[i].jac \in Int
    BY DataTyped
  <2>2. DirectionOf(r * c).jac[i] = lsData.rows[i].jac * (r * c)
    BY <1>1, DirectionTyped
  <2>3. DirectionOf(alpha * n).jac[i] = lsData.rows[i].jac * (alpha * n)
    BY <1>1, DirectionTyped
  <2>4. QED
    BY <1>3, <2>1, <2>2, <2>3
<1>5. /\ DirectionOf(r * c).obj + DirectionOf(alpha * n).obj = lsData.grad * (r * c + alpha * n)
      /\ DirectionOf(r * c).hess + DirectionOf(alpha * n).hess = lsData.hess * (r * c + alpha * n)
      /\ DirectionOf(r * c).primal = r * c /\ DirectionOf(alpha * n).primal = alpha * n
  BY <1>1, <1>3, DirectionTyped, DataTyped
<1>6. Combined(Cauchy, Newton, alpha) =
        [primal |-> DirectionOf(r * c).primal + DirectionOf(alpha * n).primal,
         obj |-> DirectionOf(r * c).obj + DirectionOf(alpha * n).obj,
         hess |-> DirectionOf(r * c).hess + DirectionOf(alpha * n).hess,
         jac |-> [i \in LsRows |-> DirectionOf(r * c).jac[i] + DirectionOf(alpha * n).jac[i]]]
  BY <1>2 DEF Combined, r
<1>7. DirectionOf(r * c + alpha * n) =
        [primal |-> r * c + alpha * n, obj |-> lsData.grad * (r * c + alpha * n),
         hess |-> lsData.hess * (r * c + alpha * n),
         jac |-> [i \in LsRows |-> lsData.rows[i].jac * (r * c + alpha * n)]]
  BY DEF DirectionOf
<1>8. QED
  BY <1>4, <1>5, <1>6, <1>7 DEF c, n, r

LEMMA Unprimed ==
  ASSUME UNCHANGED lsData
  PROVE  /\ DirectionOf(lsResult.primal)' = DirectionOf(lsResult'.primal)
         /\ Violation([i \in LsRows |-> 0])' = Violation([i \in LsRows |-> 0])
         /\ LinearMerit(lsResult.obj, lsResult.jac)' = LinearMerit(lsResult'.obj, lsResult'.jac)
         /\ QuadraticMerit(lsResult)' = QuadraticMerit(lsResult')
<1>1. DirectionOf(lsResult.primal)' = DirectionOf(lsResult'.primal)
  BY DEF DirectionOf, LsRows
<1>2. Violation([i \in LsRows |-> 0])' = Violation([i \in LsRows |-> 0])
  BY DEF Violation, LsRows
<1>3. Violation(lsResult.jac)' = Violation(lsResult'.jac)
  BY DEF Violation, LsRows
<1>4. LinearMerit(lsResult.obj, lsResult.jac)' = LinearMerit(lsResult'.obj, lsResult'.jac)
  BY <1>3 DEF LinearMerit
<1>5. QuadraticMerit(lsResult)' = QuadraticMerit(lsResult')
  BY <1>4 DEF QuadraticMerit
<1>6. QED
  BY <1>1, <1>2, <1>4, <1>5

\* What a search that ends has to show.
LEMMA SoundAfter ==
  ASSUME UNCHANGED lsData, lsData.kind # "exact",
         NEW step, lsResult' = DirectionOf(step),
         lsData.kind = "cauchy" /\ lsAlpha' # 0 =>
           LET start == LsUnit * lsData.obj + lsData.penalty * Violation([i \in LsRows |-> 0])
           IN /\ step \in -LsUnit * lsData.radius .. LsUnit * lsData.radius
              /\ EtaInverse * (2 * LsUnit * start - lsMerit')
                   >= 2 * LsUnit * (start - LinearMerit(lsResult'.obj, lsResult'.jac)),
         (lsData.kind = "cauchy" => lsAlpha' # 0) => lsMerit' = QuadraticMerit(lsResult'),
         lsData.kind = "approximate" /\ lsData.cauchy \in lsData.lb + 1 .. lsData.ub - 1 =>
           step \in LsUnit * lsData.lb .. LsUnit * lsData.ub
  PROVE  LineSearchSound'
<1>1. lsResult'.primal = step
  BY DEF DirectionOf
<1>2. ResultAgrees'
  BY <1>1, Unprimed DEF ResultAgrees
<1>3. CauchyStepSound'
  BY <1>1, Unprimed DEF CauchyStepSound
<1>4. TrialStepSound'
  BY <1>1 DEF TrialStepSound
<1>5. ExactStepSound'
  BY DEF ExactStepSound
<1>6. QED
  BY <1>2, <1>3, <1>4, <1>5 DEF LineSearchSound

-----------------------------------------------------------------------------
(* The inductive invariant: while the Cauchy step is shortened its products *)
(* are those of the direction it has shrunk to, which is within the trust   *)
(* region; while the approximate search backtracks it stays within bounds.  *)

CauchyProducts ==
  /\ lsAlpha \in Dyadic
  /\ lsObjDot = Cauchy.obj * lsAlpha
  /\ lsJac = [i \in LsRows |-> Cauchy.jac[i] * lsAlpha]
  /\ lsHessDot = Cauchy.primal * Cauchy.hess * lsAlpha * lsAlpha
  /\ lsAlpha * lsData.cauchy \in -LsUnit * lsData.radius .. LsUnit * lsData.radius

BetweenBounds ==
  /\ lsAlpha \in Nat
  /\ lsData.cauchy \in lsData.lb + 1 .. lsData.ub - 1 =>
       (LsUnit - lsAlpha) * lsData.cauchy + lsAlpha * lsData.newton
         \in LsUnit * lsData.lb .. LsUnit * lsData.ub

LsIInv ==
  /\ lsData \in LsInstances
  /\ lsStage = "searching" /\ lsData.kind = "cauchy" => CauchyProducts
  /\ lsStage = "searching" /\ lsData.kind = "approximate" => BetweenBounds
  /\ lsData.kind # "exact" => LineSearchSound

-----------------------------------------------------------------------------
(* Arithmetic of the lengths                                               *)

LEMMA DyadicHalves ==
  ASSUME LsUnit \in Nat, NEW a \in Dyadic, a \div 2 > 1
  PROVE  a \in Int /\ a = 2 * (a \div 2) /\ a \div 2 \in Dyadic
<1>1. a \in 1 .. LsUnit /\ \A m, q \in 1 .. a : a = m * q => m = 1 \/ m % 2 = 0
  BY DEF Dyadic
<1>2. a = a * 1 /\ a \in 1 .. a /\ 1 \in 1 .. a
  BY <1>1
<1>3. a % 2 = 0
  BY <1>1, <1>2
<1>4. PICK h \in Int : h = a \div 2 /\ a = 2 * h /\ h \in 1 .. LsUnit
  BY <1>1, <1>3
<1>5. ASSUME NEW m \in 1 .. h, NEW q \in 1 .. h, h = m * q PROVE m = 1 \/ m % 2 = 0
  <2>1. m \in 1 .. a /\ 2 * q \in 1 .. a
    BY <1>4
  <2>2. a = m * (2 * q)
    BY <1>4, <1>5
  <2>3. QED
    BY <1>1, <2>1, <2>2
<1>6. QED
  BY <1>1, <1>4, <1>5 DEF Dyadic

LEMMA DyadicTyped ==
  ASSUME LsUnit \in Nat, NEW a \in Dyadic
  PROVE  a \in Int /\ a > 0 /\ a <= LsUnit
BY DEF Dyadic

LEMMA HalvedProducts ==
  ASSUME NEW x \in Int, NEW y \in Int, NEW h \in Int
  PROVE  (x * (2 * h)) \div 2 = x * h
         /\ (x * y * (2 * h) * (2 * h)) \div 4 = x * y * h * h
<1>1. x * h \in Int /\ x * (2 * h) = 2 * (x * h)
  OBVIOUS
<1>2. \A z \in Int : (2 * z) \div 2 = z /\ (4 * z) \div 4 = z
  OBVIOUS
<1>3. x * y * h * h \in Int
  <2>1. x * y \in Int
    OBVIOUS
  <2>2. x * y * h \in Int
    BY <2>1
  <2>3. QED
    BY <2>2
<1>4. x * y * (2 * h) * (2 * h) = 4 * (x * y * h * h)
  <2>1. \A p \in Int : p * (2 * h) * (2 * h) = 4 * (p * h * h)
    OBVIOUS
  <2>2. QED
    BY <2>1
<1>5. QED
  BY <1>1, <1>2, <1>3, <1>4

\* A quotient of two numbers of one sign is the length at which the
\* direction reaches the limit.
LEMMA QuotientReaches ==
  ASSUME NEW a \in Int, NEW d \in Int, (d > 0 /\ a > 0) \/ (d < 0 /\ a < 0)
  PROVE  /\ Divided(a, d) \in Nat
         /\ \A l \in Nat : l <= Divided(a, d) =>
              IF d > 0 THEN l * d \in 0 .. a ELSE l * d \in a .. 0
<1>1. ASSUME NEW x \in Nat, NEW y \in Nat, y > 0
      PROVE  x \div y \in Nat /\ \A l \in Nat : l <= x \div y => l * y \in 0 .. x
  <2>1. x \div y \in Nat /\ (x \div y) * y <= x
    BY <1>1
  <2>2. ASSUME NEW l \in Nat, NEW k \in Nat, l <= k PROVE l * y >= 0 /\ l * y <= k * y
    BY <2>2
  <2>3. QED
    BY <2>1, <2>2
<1>2. CASE d > 0
  BY <1>1, <1>2 DEF Divided
<1>3. CASE d < 0
  <2>1. a < 0 /\ -a \in Nat /\ -d \in Nat /\ -d > 0
    BY <1>3
  <2>2. Divided(a, d) = (-a) \div (-d)
    BY <1>3 DEF Divided
  <2>3. (-a) \div (-d) \in Nat /\ \A l \in Nat : l <= (-a) \div (-d) => l * (-d) \in 0 .. -a
    BY <1>1, <2>1
  <2>4. ASSUME NEW l \in Nat, l <= (-a) \div (-d) PROVE l * d \in a .. 0
    <3>1. l * (-d) = -(l * d) /\ l * d \in Int
      OBVIOUS
    <3>2. QED
      BY <2>3, <2>4, <3>1
  <2>5. QED
    BY <1>3, <2>2, <2>3, <2>4
<1>4. QED
  BY <1>2, <1>3

LEMMA MaxStepLengthSafe ==
  ASSUME lsData \in LsInstances
  PROVE  /\ MaxStepLength \in Nat
         /\ LET d == lsData.newton - lsData.cauchy
            IN /\ d > 0 /\ lsData.ub - lsData.cauchy > 0
                    => MaxStepLength * d \in 0 .. LsUnit * (lsData.ub - lsData.cauchy)
               /\ d < 0 /\ lsData.lb - lsData.cauchy < 0
                    => MaxStepLength * d \in LsUnit * (lsData.lb - lsData.cauchy) .. 0
<1> DEFINE d == lsData.newton - lsData.cauchy
           up == lsData.ub - lsData.cauchy
           down == lsData.lb - lsData.cauchy
           upper == IF (d > 0 /\ up > 0) \/ (d < 0 /\ up < 0) THEN {Divided(LsUnit * up, d)} ELSE {}
           lower == IF (d < 0 /\ down < 0) \/ (d > 0 /\ down > 0)
                    THEN {Divided(LsUnit * down, d)} ELSE {}
           limits == {LsUnit} \cup upper \cup lower
<1>1. d \in Int /\ up \in Int /\ down \in Int /\ LsUnit \in Nat /\ LsUnit > 0
  BY DataTyped
<1>2. StepLimits = limits
  BY DEF StepLimits
<1> HIDE DEF d, up, down
<1>3. ASSUME NEW b \in Int
      PROVE  /\ LsUnit * b \in Int /\ (b > 0 <=> LsUnit * b > 0) /\ (b < 0 <=> LsUnit * b < 0)
  BY <1>1
<1>4. upper \subseteq Nat /\ lower \subseteq Nat
  <2>1. ASSUME NEW b \in Int, (d > 0 /\ b > 0) \/ (d < 0 /\ b < 0)
        PROVE  Divided(LsUnit * b, d) \in Nat
    BY <1>1, <1>3, <2>1, QuotientReaches
  <2>2. QED
    BY <1>1, <2>1
<1>5. \E l \in StepLimits : \A m \in StepLimits : l <= m
  <2>1. StepLimits \in SUBSET Nat /\ StepLimits # {}
    BY <1>1, <1>2, <1>4
  <2>2. QED
    BY <2>1, LeastElement
<1>6. MaxStepLength \in limits /\ \A m \in limits : MaxStepLength <= m
  <2>1. MaxStepLength \in StepLimits /\ \A m \in StepLimits : MaxStepLength <= m
    BY <1>5 DEF MaxStepLength
  <2>2. QED
    BY <1>2, <2>1
<1>7. MaxStepLength \in Nat
  BY <1>1, <1>4, <1>6
<1>8. ASSUME d > 0, up > 0 PROVE MaxStepLength * d \in 0 .. LsUnit * up
  <2>1. MaxStepLength <= Divided(LsUnit * up, d)
    BY <1>6, <1>8
  <2>2. QED
    BY <1>1, <1>3, <1>7, <1>8, <2>1, QuotientReaches
<1>9. ASSUME d < 0, down < 0 PROVE MaxStepLength * d \in LsUnit * down .. 0
  <2>1. MaxStepLength <= Divided(LsUnit * down, d)
    BY <1>6, <1>9
  <2>2. ~(d > 0)
    BY <1>1, <1>9
  <2>3. QED
    BY <1>1, <1>3, <1>7, <1>9, <2>1, <2>2, QuotientReaches
<1>10. QED
  BY <1>7, <1>8, <1>9 DEF d, up, down

\* The point on the way from c to n, as the Cauchy point moved along.
LEMMA Between ==
  ASSUME NEW u \in Int, NEW a \in Int, NEW c \in Int, NEW n \in Int, NEW l \in Int
  PROVE  /\ (u - a) * c + a * n = u * c + a * (n - c)
         /\ u * (l - c) = u * l - u * c
<1>1. a * (n - c) = a * n - a * c /\ (u - a) * c = u * c - a * c
  OBVIOUS
<1>2. {a * n, a * c, u * c} \subseteq Int
  OBVIOUS
<1>3. QED
  BY <1>1, <1>2

LEMMA InitialBetween ==
  ASSUME lsData \in LsInstances, lsData.cauchy \in lsData.lb + 1 .. lsData.ub - 1
  PROVE  (LsUnit - MaxStepLength) * lsData.cauchy + MaxStepLength * lsData.newton
           \in LsUnit * lsData.lb .. LsUnit * lsData.ub
<1> DEFINE c == lsData.cauchy
           n == lsData.newton
           lb == lsData.lb
           ub == lsData.ub
           u == LsUnit
           a == MaxStepLength
<1>1. c \in Int /\ n \in Int /\ lb \in Int /\ ub \in Int /\ u \in Nat /\ a \in Nat
  BY DataTyped, MaxStepLengthSafe
<1>2. /\ n - c > 0 /\ ub - c > 0 => a * (n - c) \in 0 .. u * (ub - c)
      /\ n - c < 0 /\ lb - c < 0 => a * (n - c) \in u * (lb - c) .. 0
  BY MaxStepLengthSafe
<1>3. c \in lb + 1 .. ub - 1
  OBVIOUS
<1> HIDE DEF c, n, lb, ub, u, a
<1>4. u * (ub - c) >= 0 /\ u * (lb - c) <= 0
  BY <1>1, <1>3
<1>5. a * (n - c) \in u * (lb - c) .. u * (ub - c)
  <2>1. CASE n - c = 0
    BY <1>1, <1>4, <2>1
  <2>2. CASE n - c # 0
    BY <1>1, <1>2, <1>3, <1>4, <2>2
  <2>3. QED
    BY <2>1, <2>2
<1>6. (u - a) * c + a * n \in u * lb .. u * ub
  <2>1. (u - a) * c + a * n = u * c + a * (n - c)
    BY <1>1, Between
  <2>2. u * (ub - c) = u * ub - u * c /\ u * (lb - c) = u * lb - u * c
    BY <1>1, Between
  <2>3. {u * c, u * lb, u * ub, a * (n - c)} \subseteq Int
    BY <1>1
  <2>4. QED
    BY <1>5, <2>1, <2>2, <2>3
<1>7. QED
  BY <1>6 DEF c, n, lb, ub, u, a

\* A shorter step from a point within the bounds stays within them.
LEMMA ShorterBetween ==
  ASSUME lsData \in LsInstances, BetweenBounds
  PROVE  /\ lsAlpha \div 2 \in Nat
         /\ lsData.cauchy \in lsData.lb + 1 .. lsData.ub - 1 =>
              (LsUnit - lsAlpha \div 2) * lsData.cauchy + (lsAlpha \div 2) * lsData.newton
                \in LsUnit * lsData.lb .. LsUnit * lsData.ub
<1> DEFINE c == lsData.cauchy
           n == lsData.newton
           lb == lsData.lb
           ub == lsData.ub
           u == LsUnit
           a == lsAlpha
           h == lsAlpha \div 2
<1>1. c \in Int /\ n \in Int /\ lb \in Int /\ ub \in Int /\ u \in Nat
  BY DataTyped
<1>2. a \in Nat /\ h \in Nat /\ h <= a
  BY DEF BetweenBounds
<1>3. c \in lb + 1 .. ub - 1 => (u - a) * c + a * n \in u * lb .. u * ub
  BY DEF BetweenBounds
<1> HIDE DEF c, n, lb, ub, u, a, h
<1>4. ASSUME c \in lb + 1 .. ub - 1 PROVE (u - h) * c + h * n \in u * lb .. u * ub
  <2>1. (u - a) * c + a * n = u * c + a * (n - c) /\ (u - h) * c + h * n = u * c + h * (n - c)
    BY <1>1, <1>2, Between
  <2>2. u * c >= u * lb /\ u * c <= u * ub
    BY <1>1, <1>4
  <2>3. \/ n - c >= 0 /\ h * (n - c) >= 0 /\ h * (n - c) <= a * (n - c)
        \/ n - c < 0 /\ h * (n - c) <= 0 /\ h * (n - c) >= a * (n - c)
    BY <1>1, <1>2
  <2>4. {u * c, u * lb, u * ub, a * (n - c), h * (n - c)} \subseteq Int
    BY <1>1, <1>2
  <2>5. QED
    BY <1>3, <1>4, <2>1, <2>2, <2>3, <2>4
<1>5. QED
  BY <1>2, <1>4 DEF c, n, lb, ub, u, a, h

\* The first length of the Cauchy search ends at the trust region.
LEMMA InitialDeltaInside ==
  ASSUME lsData \in LsInstances
  PROVE  /\ InitialDelta \in Nat
         /\ InitialDelta * lsData.cauchy \in -LsUnit * lsData.radius .. LsUnit * lsData.radius
<1> DEFINE c == lsData.cauchy
           norm == IF c < 0 THEN -c ELSE c
           u == LsUnit
           r == lsData.radius
<1>1. c \in Int /\ norm \in Nat /\ u \in Nat /\ r \in Nat /\ u * r \in Nat /\ -u * r = -(u * r)
  BY DataTyped
<1>2. InitialDelta = IF r < norm THEN (u * r) \div norm ELSE u
  BY DEF InitialDelta, FirstLength
<1>3. norm = c \/ norm = -c
  OBVIOUS
<1> HIDE DEF norm, c, u, r
<1>4. InitialDelta \in Nat /\ InitialDelta * norm <= u * r
  <2>1. CASE r < norm
    BY <1>1, <1>2, <2>1
  <2>2. CASE ~(r < norm)
    BY <1>1, <1>2, <2>2
  <2>3. QED
    BY <2>1, <2>2
<1>5. InitialDelta * c = InitialDelta * norm \/ InitialDelta * c = -(InitialDelta * norm)
  BY <1>1, <1>3, <1>4
<1>6. InitialDelta * norm \in Nat
  BY <1>1, <1>4
<1>7. InitialDelta * c \in -u * r .. u * r
  BY <1>1, <1>4, <1>5, <1>6
<1>8. QED
  BY <1>4, <1>7 DEF c, u, r

-----------------------------------------------------------------------------
(* The steps                                                               *)

LEMMA LsInitHolds == LsInit => LsIInv
<1> SUFFICES ASSUME LsInit PROVE LsIInv
  OBVIOUS
<1>1. lsData \in LsInstances /\ lsStage = "searching"
  BY DEF LsInit
<1>2. ASSUME lsData.kind = "cauchy" PROVE CauchyProducts
  <2>1. CauchyInit
    BY <1>2 DEF LsInit
  <2>2. InitialDelta \in Dyadic
    BY <1>1, <1>2, LsAssumption DEF InitialDelta
  <2>3. InitialDelta * lsData.cauchy \in -LsUnit * lsData.radius .. LsUnit * lsData.radius
    BY <1>1, InitialDeltaInside
  <2>4. QED
    BY <2>1, <2>2, <2>3 DEF CauchyInit, CauchyProducts
<1>3. ASSUME lsData.kind = "approximate" PROVE BetweenBounds
  <2>1. lsAlpha = MaxStepLength
    BY <1>3 DEF LsInit, CauchyInit
  <2>2. QED
    BY <1>1, <2>1, MaxStepLengthSafe, InitialBetween DEF BetweenBounds
<1>4. LineSearchSound
  BY <1>1 DEF LineSearchSound
<1>5. QED
  BY <1>1, <1>2, <1>3, <1>4 DEF LsIInv

LEMMA CauchyIsDirection ==
  ASSUME lsData \in LsInstances
  PROVE  /\ Cauchy.primal = lsData.cauchy /\ Cauchy.obj = lsData.grad * lsData.cauchy
         /\ Cauchy.hess = lsData.hess * lsData.cauchy
         /\ \A i \in LsRows : Cauchy.jac[i] = lsData.rows[i].jac * lsData.cauchy
         /\ Cauchy.jac \in [LsRows -> Int]
         /\ {Cauchy.primal, Cauchy.obj, Cauchy.hess} \subseteq Int
BY DataTyped, DirectionTyped DEF Cauchy

\* The products that were shortened are those of the shortened direction.
LEMMA ShortenedIsDirection ==
  ASSUME lsData \in LsInstances, CauchyProducts
  PROVE  /\ [primal |-> lsAlpha * Cauchy.primal, obj |-> lsObjDot, jac |-> lsJac,
             hess |-> lsAlpha * Cauchy.hess] = DirectionOf(lsAlpha * lsData.cauchy)
         /\ lsHessDot = (lsAlpha * lsData.cauchy) * (lsAlpha * Cauchy.hess)
         /\ lsHessDot \in Int /\ lsObjDot \in Int /\ lsJac \in [LsRows -> Int]
<1> DEFINE c == lsData.cauchy
           a == lsAlpha
<1>1. c \in Int /\ a \in Int
  BY DataTyped, DyadicTyped DEF CauchyProducts
<1>2. lsObjDot = (lsData.grad * c) * a /\ lsHessDot = c * (lsData.hess * c) * a * a
      /\ Cauchy.hess = lsData.hess * c /\ Cauchy.primal = c
  BY CauchyIsDirection DEF CauchyProducts
<1>3. lsJac = [i \in LsRows |-> Cauchy.jac[i] * a]
  BY DEF CauchyProducts
<1>4. \A i \in LsRows : Cauchy.jac[i] = lsData.rows[i].jac * c /\ lsData.rows[i].jac \in Int
  BY CauchyIsDirection, DataTyped
<1>5. lsData.grad \in Int /\ lsData.hess \in Int
  BY DataTyped
<1> HIDE DEF c, a
<1>6. \A g \in Int : (g * c) * a = g * (a * c) /\ a * (g * c) = g * (a * c)
  BY <1>1
<1>7. lsJac = [i \in LsRows |-> lsData.rows[i].jac * (a * c)]
  BY <1>3, <1>4, <1>6
<1>8. [primal |-> a * c, obj |-> lsObjDot, jac |-> lsJac, hess |-> a * Cauchy.hess] = DirectionOf(a * c)
  BY <1>2, <1>5, <1>6, <1>7 DEF DirectionOf
<1>9. lsHessDot = (a * c) * (a * (lsData.hess * c))
  <2>1. \A p \in Int : c * p * a * a = (a * c) * (a * p)
    BY <1>1
  <2>2. lsData.hess * c \in Int
    BY <1>1, <1>5
  <2>3. QED
    BY <1>2, <2>1, <2>2
<1>10. a * c \in Int
  BY <1>1
<1>11. (lsData.grad * c) * a \in Int /\ (a * c) * (a * (lsData.hess * c)) \in Int
  <2>1. \A p, q \in Int : p * q \in Int
    OBVIOUS
  <2>2. lsData.grad * c \in Int /\ lsData.hess * c \in Int
    BY <1>1, <1>5, <2>1
  <2>3. a * (lsData.hess * c) \in Int
    BY <1>1, <2>1, <2>2
  <2>4. QED
    BY <1>1, <1>10, <2>1, <2>2, <2>3
<1>12. lsJac \in [LsRows -> Int]
  <2>1. \A p, q \in Int : p * q \in Int
    OBVIOUS
  <2>2. QED
    BY <1>4, <1>7, <1>10, <2>1
<1>13. QED
  BY <1>2, <1>8, <1>9, <1>11, <1>12 DEF c, a

LEMMA CauchyAcceptKeeps ==
  ASSUME LsIInv, CauchyAccept
  PROVE  LsIInv'
<1>1. UNCHANGED lsData /\ lsStage' = "done" /\ lsAlpha' = lsAlpha
      /\ lsData.kind = "cauchy" /\ lsStage = "searching"
  BY DEF CauchyAccept
<1>2. lsData \in LsInstances
  BY DEF LsIInv
<1>3. LineSearchSound'
  <2> DEFINE step == lsAlpha * lsData.cauchy
  <2>1. CauchyProducts
    BY <1>1 DEF LsIInv
  <2>2. lsResult' = DirectionOf(step)
    BY <1>2, <2>1, ShortenedIsDirection DEF CauchyAccept
  <2>3. lsResult'.obj = lsObjDot /\ lsResult'.jac = lsJac /\ lsResult'.primal = lsAlpha * Cauchy.primal
        /\ lsResult'.hess = lsAlpha * Cauchy.hess /\ Cauchy.primal = lsData.cauchy
    BY <1>2, CauchyIsDirection DEF CauchyAccept
  <2>4. lsMerit' = 2 * LsUnit * LinearMerit(lsObjDot, lsJac) + lsHessDot
    BY DEF CauchyAccept
  <2>5. lsMerit' = QuadraticMerit(lsResult')
    BY <1>2, <2>1, <2>3, <2>4, ShortenedIsDirection DEF QuadraticMerit
  <2>6. step \in -LsUnit * lsData.radius .. LsUnit * lsData.radius
    BY <2>1 DEF CauchyProducts
  <2>7. LET start == LsUnit * lsData.obj + lsData.penalty * Violation([i \in LsRows |-> 0])
        IN EtaInverse * (2 * LsUnit * start - lsMerit')
             >= 2 * LsUnit * (start - LinearMerit(lsResult'.obj, lsResult'.jac))
    <3> DEFINE zero == Violation([i \in LsRows |-> 0])
               now == Violation(lsJac)
               gain == lsData.penalty * (zero - now) - lsObjDot
               start == LsUnit * lsData.obj + lsData.penalty * zero
               u == LsUnit
    <3>1. zero \in Int /\ now \in Int /\ lsData.penalty \in Int /\ u \in Int
          /\ lsObjDot \in Int /\ lsHessDot \in Int /\ LsUnit * lsData.obj \in Int
      <4>1. [i \in LsRows |-> 0] \in [LsRows -> Int] /\ lsJac \in [LsRows -> Int]
        BY <1>2, <2>1, ShortenedIsDirection
      <4>2. \A a, b \in Int : a * b \in Int
        OBVIOUS
      <4>3. QED
        BY <1>2, <2>1, <4>1, <4>2, ShortenedIsDirection, ViolationTyped, DataTyped
    <3>2. 2 * u * (EtaInverse - 1) * gain >= EtaInverse * lsHessDot
      BY DEF CauchyAccept, CauchyDecreases
    <3>3. LinearMerit(lsObjDot, lsJac) = LsUnit * lsData.obj + lsObjDot + lsData.penalty * now
      BY DEF LinearMerit
    <3> HIDE DEF zero, now, u
    <3>4. lsData.penalty * (zero - now) = lsData.penalty * zero - lsData.penalty * now
          /\ lsData.penalty * zero \in Int /\ lsData.penalty * now \in Int
      BY <3>1
    <3>5. gain \in Int /\ start \in Int /\ LinearMerit(lsObjDot, lsJac) \in Int
          /\ gain = start - LinearMerit(lsObjDot, lsJac)
      BY <3>1, <3>3, <3>4
    <3> HIDE DEF gain, start
    <3>6. PICK s \in Int, m \in Int : s = start /\ m = LinearMerit(lsObjDot, lsJac) /\ gain = s - m
      BY <3>5
    <3>7. u * s \in Int /\ u * m \in Int /\ u * (s - m) = u * s - u * m
      BY <3>1
    <3>8. 2 * u * (EtaInverse - 1) * gain = 18 * (u * (s - m))
      BY <3>1, <3>6 DEF EtaInverse
    <3>9. 10 * (2 * (u * s) - (2 * (u * m) + lsHessDot)) >= 2 * (u * (s - m))
      BY <3>1, <3>2, <3>7, <3>8 DEF EtaInverse
    <3>10. 2 * u * s = 2 * (u * s) /\ 2 * u * m = 2 * (u * m) /\ 2 * u * (s - m) = 2 * (u * (s - m))
      BY <3>1
    <3>11. EtaInverse * (2 * u * s - lsMerit') >= 2 * u * (s - m)
      BY <2>4, <3>6, <3>9, <3>10 DEF EtaInverse, u
    <3>12. QED
      BY <2>3, <3>6, <3>11 DEF start, zero, u
  <2>8. QED
    BY <1>1, <2>2, <2>5, <2>6, <2>7, SoundAfter
<1>4. QED
  BY <1>1, <1>2, <1>3, Rigid DEF LsIInv

LEMMA CauchyShortenKeeps ==
  ASSUME LsIInv, CauchyShorten
  PROVE  LsIInv'
<1> DEFINE delta == lsAlpha \div 2
<1>1. UNCHANGED lsData /\ lsData.kind = "cauchy" /\ lsStage = "searching" /\ lsData \in LsInstances
  BY DEF CauchyShorten, LsIInv
<1>2. Cauchy' = Cauchy /\ LsRows' = LsRows
  BY <1>1, Rigid
<1>3. ASSUME delta <= ZeroLength PROVE lsStage' = "done" /\ LineSearchSound'
  <2>1. lsStage' = "done" /\ lsAlpha' = 0 /\ lsResult' = ScaledBy(0, Cauchy)
    BY <1>3 DEF CauchyShorten
  <2>2. PICK zero \in Int : zero = 0
    OBVIOUS
  <2>3. ScaledBy(zero, Cauchy) = DirectionOf(zero * lsData.cauchy)
    BY <1>1, DataTyped, ScaledIsDirection DEF Cauchy
  <2>4. QED
    BY <1>1, <2>1, <2>2, <2>3, SoundAfter
<1>4. ASSUME ~(delta <= ZeroLength) PROVE CauchyProducts' /\ LineSearchSound'
  <2>1. CauchyProducts /\ LsUnit \in Nat
    BY <1>1, DataTyped DEF LsIInv
  <2>2. lsAlpha \in Int /\ lsAlpha = 2 * delta /\ delta \in Dyadic /\ delta \in Int
    <3>1. lsAlpha \in Int
      BY <2>1, DyadicTyped DEF CauchyProducts
    <3>2. lsAlpha \div 2 > 1
      BY <1>4, <3>1 DEF ZeroLength
    <3>3. QED
      BY <2>1, <3>1, <3>2, DyadicHalves DEF CauchyProducts
  <2>3. lsAlpha' = delta /\ lsStage' = lsStage
    BY <1>4 DEF CauchyShorten
  <2>4. Cauchy.primal \in Int /\ Cauchy.obj \in Int /\ Cauchy.hess \in Int
        /\ \A i \in LsRows : Cauchy.jac[i] \in Int
    BY <1>1, CauchyIsDirection
  <2> HIDE DEF delta
  <2>5. lsObjDot' = Cauchy.obj * delta
    BY <2>1, <2>2, <2>4, HalvedProducts DEF CauchyShorten, CauchyProducts
  <2>6. lsHessDot' = Cauchy.primal * Cauchy.hess * delta * delta
    BY <2>1, <2>2, <2>4, HalvedProducts DEF CauchyShorten, CauchyProducts, Shortened
  <2>7. lsJac' = [i \in LsRows |-> Cauchy.jac[i] * delta]
    <3>1. lsJac = [i \in LsRows |-> Cauchy.jac[i] * (2 * delta)]
      BY <2>1, <2>2 DEF CauchyProducts
    <3>2. lsJac' = [i \in LsRows |-> lsJac[i] \div 2]
      BY DEF CauchyShorten
    <3>3. ASSUME NEW i \in LsRows PROVE lsJac[i] \div 2 = Cauchy.jac[i] * delta
      BY <2>2, <2>4, <3>1, HalvedProducts
    <3>4. QED
      BY <3>2, <3>3
  <2>8. delta * lsData.cauchy \in -LsUnit * lsData.radius .. LsUnit * lsData.radius
    <3>1. LsUnit * lsData.radius \in Int /\ -LsUnit * lsData.radius = -(LsUnit * lsData.radius)
          /\ LsUnit * lsData.radius >= 0
      BY <1>1, DataTyped
    <3>2. (2 * delta) * lsData.cauchy \in -LsUnit * lsData.radius .. LsUnit * lsData.radius
      BY <2>1, <2>2 DEF CauchyProducts
    <3>3. delta * lsData.cauchy \in Int /\ (2 * delta) * lsData.cauchy = 2 * (delta * lsData.cauchy)
      BY <1>1, <2>2, DataTyped
    <3>4. QED
      BY <3>1, <3>2, <3>3
  <2>9. CauchyProducts'
    BY <1>1, <1>2, <2>2, <2>3, <2>5, <2>6, <2>7, <2>8 DEF CauchyProducts, Dyadic
  <2>10. QED
    BY <1>1, <2>3, <2>9 DEF LineSearchSound
<1>5. QED
  BY <1>1, <1>2, <1>3, <1>4 DEF LsIInv

LEMMA TrialMeritIsOfDirection ==
  ASSUME lsData \in LsInstances, NEW a \in Int
  PROVE  TrialMerit(a) = QuadraticMerit(Combined(Cauchy, Newton, a))
<1> DEFINE c == lsData.cauchy
           n == lsData.newton
           h == lsData.hess
           r == LsUnit - a
           both == Combined(Cauchy, Newton, a)
<1>1. c \in Int /\ n \in Int /\ h \in Int /\ r \in Int
  BY DataTyped
<1>2. Cauchy.primal = c /\ Cauchy.hess = h * c /\ Newton.primal = n /\ Newton.hess = h * n
  BY DataTyped, DirectionTyped DEF Cauchy, Newton
<1>3. /\ both.obj = r * Cauchy.obj + a * Newton.obj
      /\ both.jac = [i \in LsRows |-> r * Cauchy.jac[i] + a * Newton.jac[i]]
  BY DEF Combined, ScaledBy
<1>4. both.primal = r * c + a * n /\ both.hess = r * (h * c) + a * (h * n)
  BY <1>2 DEF Combined, ScaledBy
<1>5. TrialMerit(a) = 2 * LsUnit * LinearMerit(both.obj, both.jac)
                        + r * r * c * (h * c) + 2 * a * r * c * (h * n) + a * a * n * (h * n)
  BY <1>2, <1>3 DEF TrialMerit
<1>6. 2 * LsUnit * LinearMerit(both.obj, both.jac) \in Int
  <2>1. \A p, q \in Int : p * q \in Int /\ p + q \in Int
    OBVIOUS
  <2>2. Cauchy.obj \in Int /\ Newton.obj \in Int
        /\ \A i \in LsRows : Cauchy.jac[i] \in Int /\ Newton.jac[i] \in Int
    BY DataTyped, DirectionTyped DEF Cauchy, Newton
  <2> HIDE DEF r, both
  <2>3. both.obj \in Int
    <3>1. r * Cauchy.obj \in Int /\ a * Newton.obj \in Int
      BY <1>1, <2>1, <2>2
    <3>2. QED
      BY <1>3, <2>1, <3>1
  <2>4. both.jac \in [LsRows -> Int]
    <3>1. ASSUME NEW i \in LsRows PROVE r * Cauchy.jac[i] + a * Newton.jac[i] \in Int
      <4>1. r * Cauchy.jac[i] \in Int /\ a * Newton.jac[i] \in Int
        BY <1>1, <2>1, <2>2
      <4>2. QED
        BY <2>1, <4>1
    <3>2. QED
      BY <1>3, <3>1
  <2>5. LinearMerit(both.obj, both.jac) \in Int /\ 2 * LsUnit \in Int
    <3>1. LinearMerit(both.obj, both.jac) \in Int
      BY <2>3, <2>4, MeritTyped
    <3>2. QED
      BY <3>1, DataTyped
  <2>6. QED
    BY <2>1, <2>5
<1> HIDE DEF c, n, h, r, both
<1>7. (r * c + a * n) * (r * (h * c) + a * (h * n))
        = r * r * c * (h * c) + 2 * a * r * c * (h * n) + a * a * n * (h * n)
  <2>1. \A x, y \in Int : x * (h * y) = y * (h * x)
    BY <1>1
  <2>2. PICK p \in Int, q \in Int : p = h * c /\ q = h * n
    BY <1>1
  <2>3. n * p = c * q
    BY <1>1, <2>1, <2>2
  <2>4. (r * c + a * n) * (r * p + a * q) = (r * c) * (r * p) + (r * c) * (a * q) + (a * n) * (r * p) + (a * n) * (a * q)
    BY <1>1, <2>2
  <2>5. /\ (r * c) * (r * p) = r * r * c * p /\ (r * c) * (a * q) = a * r * (c * q)
        /\ (a * n) * (r * p) = a * r * (n * p) /\ (a * n) * (a * q) = a * a * n * q
    BY <1>1, <2>2
  <2>6. 2 * a * r * c * q = a * r * (c * q) + a * r * (c * q)
    BY <1>1, <2>2
  <2>7. {r * r * c * p, a * r * (c * q), a * a * n * q} \subseteq Int
    <3>1. \A x, y \in Int : x * y \in Int
      OBVIOUS
    <3>2. r * r \in Int /\ a * r \in Int /\ c * q \in Int /\ a * a \in Int
      BY <1>1, <2>2, <3>1
    <3>3. r * r * c \in Int /\ a * a * n \in Int
      BY <1>1, <3>1, <3>2
    <3>4. QED
      BY <2>2, <3>1, <3>2, <3>3
  <2>8. QED
    BY <2>2, <2>3, <2>4, <2>5, <2>6, <2>7
<1>8. {r * r * c * (h * c), 2 * a * r * c * (h * n), a * a * n * (h * n)} \subseteq Int
  <2>1. \A x, y \in Int : x * y \in Int
    OBVIOUS
  <2>2. r * r \in Int /\ 2 * a \in Int /\ a * a \in Int /\ h * c \in Int /\ h * n \in Int
    BY <1>1, <2>1
  <2>3. r * r * c \in Int /\ 2 * a * r \in Int /\ a * a * n \in Int
    BY <1>1, <2>1, <2>2
  <2>4. 2 * a * r * c \in Int
    BY <1>1, <2>1, <2>3
  <2>5. QED
    BY <2>1, <2>2, <2>3, <2>4
<1>9. TrialMerit(a) = 2 * LsUnit * LinearMerit(both.obj, both.jac)
                        + (r * c + a * n) * (r * (h * c) + a * (h * n))
  BY <1>5, <1>6, <1>7, <1>8
<1>10. QED
  BY <1>4, <1>9 DEF QuadraticMerit, both

LEMMA TrialAcceptKeeps ==
  ASSUME LsIInv, TrialAccept
  PROVE  LsIInv'
<1>1. UNCHANGED lsData /\ lsData.kind = "approximate" /\ lsStage = "searching" /\ lsStage' = "done"
      /\ lsData \in LsInstances /\ lsAlpha' = lsAlpha
  BY DEF TrialAccept, LsIInv
<1> DEFINE step == (LsUnit - lsAlpha) * lsData.cauchy + lsAlpha * lsData.newton
<1>2. BetweenBounds
  BY <1>1 DEF LsIInv
<1>3. lsAlpha \in Int
  BY <1>2 DEF BetweenBounds
<1>4. lsResult' = Combined(Cauchy, Newton, lsAlpha) /\ lsMerit' = TrialMerit(lsAlpha)
  BY DEF TrialAccept
<1>5. lsResult' = DirectionOf(step)
  BY <1>1, <1>3, <1>4, CombinedIsDirection
<1>6. lsMerit' = QuadraticMerit(lsResult')
  BY <1>1, <1>3, <1>4, TrialMeritIsOfDirection
<1>7. lsData.cauchy \in lsData.lb + 1 .. lsData.ub - 1 => step \in LsUnit * lsData.lb .. LsUnit * lsData.ub
  BY <1>2 DEF BetweenBounds
<1>8. LineSearchSound'
  BY <1>1, <1>5, <1>6, <1>7, SoundAfter
<1>9. QED
  BY <1>1, <1>8 DEF LsIInv

LEMMA TrialShortenKeeps ==
  ASSUME LsIInv, TrialShorten
  PROVE  LsIInv'
<1>1. UNCHANGED lsData /\ lsData.kind = "approximate" /\ lsStage = "searching" /\ lsStage' = lsStage
      /\ lsData \in LsInstances /\ lsAlpha' = lsAlpha \div 2
  BY DEF TrialShorten, LsIInv
<1>2. BetweenBounds
  BY <1>1 DEF LsIInv
<1>3. BetweenBounds'
  BY <1>1, <1>2, ShorterBetween DEF BetweenBounds
<1>4. LineSearchSound'
  BY <1>1 DEF LineSearchSound
<1>5. QED
  BY <1>1, <1>3, <1>4 DEF LsIInv

LEMMA TrialCutoffKeeps ==
  ASSUME LsIInv, TrialCutoff
  PROVE  LsIInv'
<1>1. UNCHANGED lsData /\ lsData.kind = "approximate" /\ lsStage' = "done" /\ lsData \in LsInstances
  BY DEF TrialCutoff, LsIInv
<1>2. lsResult' = ScaledBy(LsUnit, Cauchy) /\ lsMerit' = CauchyMerit
  BY DEF TrialCutoff
<1>3. lsResult' = DirectionOf(LsUnit * lsData.cauchy)
  <2>1. LsUnit \in Int /\ lsData.cauchy \in Int
    BY <1>1, DataTyped
  <2>2. ScaledBy(LsUnit, DirectionOf(lsData.cauchy)) = DirectionOf(LsUnit * lsData.cauchy)
    BY <1>1, <2>1, ScaledIsDirection
  <2>3. QED
    BY <1>2, <2>2 DEF Cauchy
<1>4. lsMerit' = QuadraticMerit(lsResult')
  BY <1>2 DEF CauchyMerit
<1>5. lsData.cauchy \in lsData.lb + 1 .. lsData.ub - 1 =>
        LsUnit * lsData.cauchy \in LsUnit * lsData.lb .. LsUnit * lsData.ub
  <2>1. ASSUME NEW c \in Int, NEW l \in Int, NEW k \in Int, NEW u \in Nat, c \in l + 1 .. k - 1
        PROVE  u * c \in u * l .. u * k
    <3>1. {u * c, u * l, u * k} \subseteq Int
      OBVIOUS
    <3>2. u * c >= u * l /\ u * c <= u * k
      BY <2>1
    <3>3. QED
      BY <3>1, <3>2
  <2>2. QED
    BY <1>1, <2>1, DataTyped
<1>6. LineSearchSound'
  BY <1>1, <1>3, <1>4, <1>5, SoundAfter
<1>7. QED
  BY <1>1, <1>6 DEF LsIInv

LEMMA ExactKeeps ==
  ASSUME LsIInv, ExactPiece \/ ExactReturn
  PROVE  LsIInv'
<1>1. UNCHANGED lsData /\ lsData.kind = "exact"
  BY DEF ExactPiece, ExactReturn
<1>2. QED
  BY <1>1 DEF LsIInv

LEMMA LsStutters == LsIInv /\ UNCHANGED lsVars => LsIInv'
<1> SUFFICES ASSUME LsIInv, UNCHANGED lsVars PROVE LsIInv'
  OBVIOUS
<1>1. UNCHANGED <<lsStage, lsData, lsAlpha, lsObjDot, lsJac, lsHessDot, lsResult, lsMerit>>
  BY DEF lsVars
<1>2. (CauchyProducts' <=> CauchyProducts)
      /\ (BetweenBounds' <=> BetweenBounds)
  BY <1>1, Rigid DEF CauchyProducts, BetweenBounds, Dyadic
<1>3. LineSearchSound => (lsData.kind # "exact" => LineSearchSound')
  BY <1>1, Unprimed DEF LineSearchSound, ResultAgrees, CauchyStepSound, TrialStepSound, ExactStepSound
<1>4. QED
  BY <1>1, <1>2, <1>3 DEF LsIInv

\* The inductive invariant of the backtracking searches.
THEOREM LineSearchInvariance == LsSpec => []LsIInv
<1>1. LsInit => LsIInv
  BY LsInitHolds
<1>2. LsIInv /\ [LsNext]_lsVars => LsIInv'
  BY CauchyAcceptKeeps, CauchyShortenKeeps, TrialAcceptKeeps, TrialShortenKeeps, TrialCutoffKeeps,
     ExactKeeps, LsStutters DEF LsNext
<1>3. QED
  BY <1>1, <1>2, PTL DEF LsSpec

\* A backtracking search returns the products and the merit value of the
\* direction it returns, within the trust region or the bounds, and the
\* Cauchy step gains its part of the linear decrease.
THEOREM LineSearchSoundHolds ==
  LsSpec => [](lsData.kind # "exact" => LineSearchSound)
<1>1. LsIInv => (lsData.kind # "exact" => LineSearchSound)
  BY DEF LsIInv
<1>2. QED
  BY <1>1, LineSearchInvariance, PTL
=============================================================================
