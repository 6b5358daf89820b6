------------------------- MODULE QuasiNewtonProofs -------------------------
(***************************************************************************)
(* The quasi-Newton approximations of QuasiNewton.tla, for any number of   *)
(* variables and of pairs kept, any fixed variables and any steps.         *)
(*                                                                         *)
(* The invariant about a block says what its ring holds: in the order of   *)
(* the loops, from the oldest pair to the latest, the last pairs of the    *)
(* block's history, each with a product over exactly the older ones that   *)
(* are used.  The one about the structure says that it stays the           *)
(* projection of the user's, whose properties follow from counting the     *)
(* free variables below a block end.                                       *)
(***************************************************************************)
EXTENDS QuasiNewton, FiniteSetTheorems, SequenceTheorems, WellFoundedInduction, TLAPS

Products == UNION {[S -> Nat] : S \in SUBSET (1 .. QnNum)}
SlotValues == [pair : Nat, over : Products, scale : Nat, tripped : BOOLEAN]
Blocks == [slots : [0 .. QnNum - 1 -> SlotValues], len : 0 .. QnNum, curr : -1 .. QnNum - 1]

\* What a block holds of its history, the oldest pair first
Holds(block, history) ==
  LET kept == StillHeld(history)
      slot(k) == block.slots[SlotAt(block, k)]
  IN /\ block.len = Len(kept)
     /\ block.len > 0 => block.curr >= 0
     /\ \A k \in 1 .. block.len :
          /\ slot(k).pair = kept[k]
          /\ slot(k).over = [i \in {i \in 1 .. k - 1 : ~slot(i).tripped} |-> kept[i]]
          /\ slot(k).scale = Last(kept)

NeverTrips(block) == \A k \in 1 .. block.len : ~block.slots[SlotAt(block, k)].tripped

\* Block ends, as sleqp_hess_struct_push_block leaves them
Ends(dim) == {e \in Seq(1 .. dim) : \A a, b \in DOMAIN e : a < b => e[a] < e[b]}

Typed ==
  /\ qnStage \in {"structure", "solve"} /\ qnKind \in {"bfgs", "sr1"} /\ qnPairs \in Nat
  /\ qnFixed \in SUBSET (0 .. QnDim - 1) /\ qnSource \in Ends(QnDim)
  /\ DOMAIN qnHistory = DOMAIN qnBlocks
  /\ \A b \in DOMAIN qnBlocks : qnBlocks[b] \in Blocks /\ qnHistory[b] \in Seq(Nat)

Projected == qnStage = "solve" => qnEnds = ProjectedEnds /\ DOMAIN qnBlocks = DOMAIN qnEnds

Held ==
  \A b \in DOMAIN qnBlocks :
    /\ Holds(qnBlocks[b], qnHistory[b])
    /\ qnKind = "bfgs" => NeverTrips(qnBlocks[b])

IInv == Typed /\ Projected /\ Held
-----------------------------------------------------------------------------
(* The ring                                                                *)

\* The index of a slot, counted from one behind the latest to a whole ring
\* before it
LEMMA RingIndex ==
  ASSUME NEW i \in -QnNum .. QnNum
  PROVE  i % QnNum = IF i < 0 THEN i + QnNum ELSE IF i < QnNum THEN i ELSE 0
<1>1. QnNum \in Nat /\ QnNum > 0
  BY QnAssumption
<1> DEFINE q == i \div QnNum
           r == i % QnNum
<1>2. q \in Int /\ r \in 0 .. QnNum - 1 /\ i = QnNum * q + r
  BY <1>1
<1> HIDE DEF q
<1>3. SUFFICES r = IF i < 0 THEN i + QnNum ELSE IF i < QnNum THEN i ELSE 0
  OBVIOUS
<1> HIDE DEF r
<1>4. CASE q <= -2
  <2>1. QnNum * q <= QnNum * (-2)
    BY <1>1, <1>2, <1>4
  <2>2. QED
    BY <1>1, <1>2, <2>1
<1>5. CASE q = -1
  BY <1>1, <1>2, <1>5
<1>6. CASE q = 0
  BY <1>1, <1>2, <1>6
<1>7. CASE q = 1
  BY <1>1, <1>2, <1>7
<1>8. CASE q >= 2
  <2>1. QnNum * q >= QnNum * 2
    BY <1>1, <1>2, <1>8
  <2>2. QED
    BY <1>1, <1>2, <2>1
<1>9. QED
  BY <1>2, <1>4, <1>5, <1>6, <1>7, <1>8

\* The slots of the pairs that are kept, the k-th oldest of each
InRing(i) == IF i < 0 THEN i + QnNum ELSE i
RingSlot(block, k) == InRing(block.curr - block.len + k)

\* The pair at a place behind the oldest one keeps its slot when one more
\* is stored: it moves one place forward when the ring is full.
LEMMA SameRingSlot ==
  ASSUME NEW block \in [len : 1 .. QnNum, curr : 0 .. QnNum - 1],
         NEW new \in [len : 1 .. QnNum, curr : 0 .. QnNum - 1],
         block.curr + 1 < QnNum => new.curr = block.curr + 1,
         block.curr + 1 = QnNum => new.curr = 0,
         NEW j \in 1 .. block.len, NEW k \in 1 .. new.len - 1, j - block.len = 1 - new.len + k
  PROVE  RingSlot(new, k) = RingSlot(block, j)
<1>1. QnNum \in Nat /\ QnNum > 0
  BY QnAssumption
<1>2. CASE block.curr + 1 < QnNum
  BY <1>1, <1>2 DEF RingSlot, InRing
<1>3. CASE block.curr + 1 = QnNum
  BY <1>1, <1>3 DEF RingSlot, InRing
<1>4. QED
  BY <1>1, <1>2, <1>3

LEMMA SlotsOfPairs ==
  ASSUME NEW block, block.len \in 1 .. QnNum, block.curr \in 0 .. QnNum - 1
  PROVE  /\ \A k \in 1 .. block.len :
              SlotAt(block, k) = RingSlot(block, k) /\ SlotAt(block, k) \in 0 .. QnNum - 1
         /\ \A k, l \in 1 .. block.len : SlotAt(block, k) = SlotAt(block, l) => k = l
         /\ SlotAt(block, block.len) = block.curr
<1>1. QnNum \in Nat /\ QnNum > 0
  BY QnAssumption
<1>2. ASSUME NEW k \in 1 .. block.len
      PROVE  SlotAt(block, k) = RingSlot(block, k) /\ SlotAt(block, k) \in 0 .. QnNum - 1
  <2> DEFINE i == block.curr - block.len + k
  <2>1. i \in -QnNum .. QnNum - 1
    BY <1>1
  <2>2. SlotAt(block, k) = i % QnNum
    <3>1. First(block) + k - 1 = i
      BY <1>1 DEF First
    <3>2. QED
      BY <1>1, <3>1 DEF SlotAt, PairIndex
  <2>3. i % QnNum = IF i < 0 THEN i + QnNum ELSE i
    BY <1>1, <2>1, RingIndex
  <2>4. QED
    BY <1>1, <2>1, <2>2, <2>3 DEF RingSlot, InRing
<1>3. QED
  BY <1>1, <1>2 DEF RingSlot, InRing

LEMMA HeldLength ==
  ASSUME NEW h \in Seq(Nat)
  PROVE  /\ StillHeld(h) \in Seq(Nat)
         /\ Len(h) <= QnNum => StillHeld(h) = h
         /\ Len(h) > QnNum => /\ Len(StillHeld(h)) = QnNum
                              /\ \A k \in 1 .. QnNum : StillHeld(h)[k] = h[Len(h) - QnNum + k]
<1>1. QnNum \in Nat /\ QnNum > 0
  BY QnAssumption
<1>2. CASE Len(h) > QnNum
  BY <1>1, <1>2 DEF StillHeld
<1>3. CASE ~(Len(h) > QnNum)
  BY <1>1, <1>3 DEF StillHeld
<1>4. QED
  BY <1>1, <1>2, <1>3

\* What is kept of a history that grows
LEMMA HeldGrows ==
  ASSUME NEW h \in Seq(Nat), NEW pair \in Nat
  PROVE  LET old == StillHeld(h)
             new == StillHeld(Append(h, pair))
         IN /\ Append(h, pair) \in Seq(Nat) /\ old \in Seq(Nat) /\ new \in Seq(Nat)
            /\ Len(old) <= QnNum
            /\ Len(old) < QnNum => Len(new) = Len(old) + 1 /\ \A k \in 1 .. Len(old) : new[k] = old[k]
            /\ Len(old) = QnNum => Len(new) = QnNum /\ \A k \in 1 .. QnNum - 1 : new[k] = old[k + 1]
            /\ new[Len(new)] = pair
<1>1. QnNum \in Nat /\ QnNum > 0 /\ Len(h) \in Nat
  BY QnAssumption
<1> DEFINE g == Append(h, pair)
           old == StillHeld(h)
           new == StillHeld(g)
<1>2. /\ g \in Seq(Nat) /\ Len(g) = Len(h) + 1 /\ g[Len(g)] = pair
      /\ \A k \in 1 .. Len(h) : g[k] = h[k]
  OBVIOUS
<1> HIDE DEF g
<1>3. /\ old \in Seq(Nat)
      /\ Len(h) <= QnNum => old = h
      /\ Len(h) > QnNum => Len(old) = QnNum /\ \A k \in 1 .. QnNum : old[k] = h[Len(h) - QnNum + k]
  BY HeldLength
<1>4. /\ new \in Seq(Nat)
      /\ Len(g) <= QnNum => new = g
      /\ Len(g) > QnNum => Len(new) = QnNum /\ \A k \in 1 .. QnNum : new[k] = g[Len(g) - QnNum + k]
  BY <1>2, HeldLength
<1> HIDE DEF old, new
<1>5. CASE Len(h) < QnNum
  <2>1. old = h /\ new = g
    BY <1>1, <1>2, <1>3, <1>4, <1>5
  <2>2. QED
    BY <1>1, <1>2, <1>5, <2>1 DEF g, old, new
<1>6. CASE Len(h) >= QnNum
  <2>1. Len(new) = QnNum /\ \A k \in 1 .. QnNum : new[k] = g[Len(g) - QnNum + k]
    BY <1>1, <1>2, <1>4, <1>6
  <2>2. Len(old) = QnNum /\ \A k \in 1 .. QnNum : old[k] = h[Len(h) - QnNum + k]
    BY <1>1, <1>3, <1>6
  <2>3. new[QnNum] = pair
    BY <1>1, <1>2, <2>1
  <2>4. ASSUME NEW k \in 1 .. QnNum - 1
        PROVE  new[k] = old[k + 1]
    <3>1. new[k] = g[Len(g) - QnNum + k] /\ old[k + 1] = h[Len(h) - QnNum + (k + 1)]
      BY <1>1, <2>1, <2>2
    <3>2. Len(g) - QnNum + k = Len(h) - QnNum + (k + 1) /\ Len(h) - QnNum + (k + 1) \in 1 .. Len(h)
      BY <1>1, <1>2, <1>6
    <3>3. QED
      BY <1>2, <3>1, <3>2
  <2>5. QED
    BY <1>1, <1>2, <1>3, <1>4, <2>1, <2>2, <2>3, <2>4 DEF g, old, new
<1>7. QED
  BY <1>1, <1>5, <1>6
-----------------------------------------------------------------------------
(* One block                                                               *)

LEMMA BlockFields ==
  ASSUME NEW block \in Blocks
  PROVE  /\ block.slots \in [0 .. QnNum - 1 -> SlotValues]
         /\ block.len \in 0 .. QnNum /\ block.curr \in -1 .. QnNum - 1
         /\ QnNum \in Nat /\ QnNum > 0
BY QnAssumption DEF Blocks

\* A new pair takes the slot behind the latest one, which is that of the
\* oldest when the ring is full; the others keep their places.
LEMMA StoredSlots ==
  ASSUME NEW block \in Blocks, block.len > 0 => block.curr >= 0, NEW pair \in Nat
  PROVE  LET s == Stored(block, pair)
         IN /\ s \in Blocks
            /\ s.len = (IF block.len < QnNum THEN block.len + 1 ELSE block.len) /\ s.len > 0 /\ s.curr >= 0
            /\ PairAt(s, s.len) = pair
            /\ block.len < QnNum => \A k \in 1 .. s.len - 1 : PairAt(s, k) = PairAt(block, k)
            /\ block.len = QnNum => \A k \in 1 .. s.len - 1 : PairAt(s, k) = PairAt(block, k + 1)
<1> DEFINE s == Stored(block, pair)
           next == PairIndex(block, block.curr + 1)
<1>1. /\ block.slots \in [0 .. QnNum - 1 -> SlotValues]
      /\ block.len \in 0 .. QnNum /\ block.curr \in -1 .. QnNum - 1
      /\ QnNum \in Nat /\ QnNum > 0
  BY BlockFields
<1>2. /\ next \in 0 .. QnNum - 1
      /\ block.len > 0 /\ block.curr + 1 < QnNum => next = block.curr + 1
      /\ block.len > 0 /\ block.curr + 1 = QnNum => next = 0
  <2>1. CASE block.len = 0
    BY <1>1, <2>1 DEF PairIndex
  <2>2. CASE block.len # 0
    <3>1. (block.curr + 1) % QnNum = IF block.curr + 1 < QnNum THEN block.curr + 1 ELSE 0
      <4>1. block.curr + 1 \in -QnNum .. QnNum /\ ~(block.curr + 1 < 0)
        BY <1>1
      <4>2. QED
        BY <1>1, <4>1, RingIndex
    <3>2. next = (block.curr + 1) % QnNum
      BY <2>2 DEF PairIndex
    <3> HIDE DEF next
    <3>3. CASE block.curr + 1 < QnNum
      BY <1>1, <2>2, <3>1, <3>2, <3>3
    <3>4. CASE block.curr + 1 = QnNum
      BY <1>1, <2>2, <3>1, <3>2, <3>4
    <3>5. QED
      BY <1>1, <3>3, <3>4
  <2>3. QED
    BY <2>1, <2>2
<1>3. /\ s.slots = [block.slots EXCEPT ![next].pair = pair]
      /\ s.len = (IF block.len < QnNum THEN block.len + 1 ELSE block.len)
      /\ s.curr = next
      /\ s = [slots |-> s.slots, len |-> s.len, curr |-> s.curr]
  BY DEF Stored
<1>4. s.len \in 1 .. QnNum
  BY <1>1, <1>3
<1> HIDE DEF next, s
<1>5. /\ s.slots \in [0 .. QnNum - 1 -> SlotValues] /\ s.slots[next].pair = pair
      /\ \A i \in 0 .. QnNum - 1 : i # next => s.slots[i] = block.slots[i]
  <2>1. block.slots[next] \in SlotValues
    BY <1>1, <1>2
  <2>2. s.slots = [block.slots EXCEPT ![next] = [block.slots[next] EXCEPT !.pair = pair]]
    BY <1>3
  <2>3. /\ [block.slots[next] EXCEPT !.pair = pair] \in SlotValues
        /\ [block.slots[next] EXCEPT !.pair = pair].pair = pair
    BY <2>1 DEF SlotValues
  <2>4. QED
    BY <1>1, <1>2, <2>2, <2>3
<1>6. s \in Blocks
  <2>1. s.len \in 0 .. QnNum /\ s.curr \in -1 .. QnNum - 1
    BY <1>1, <1>2, <1>3, <1>4
  <2>2. QED
    BY <1>3, <1>5, <2>1 DEF Blocks
<1>7. /\ \A k \in 1 .. s.len : SlotAt(s, k) = RingSlot(s, k) /\ SlotAt(s, k) \in 0 .. QnNum - 1
      /\ \A k, l \in 1 .. s.len : SlotAt(s, k) = SlotAt(s, l) => k = l
      /\ SlotAt(s, s.len) = s.curr
  BY <1>2, <1>3, <1>4, SlotsOfPairs
<1>8. PairAt(s, s.len) = pair
  BY <1>3, <1>5, <1>7 DEF PairAt
<1>9. ASSUME NEW k \in 1 .. s.len - 1, NEW j \in {k, k + 1}, j = IF block.len < QnNum THEN k ELSE k + 1
      PROVE  PairAt(s, k) = PairAt(block, j)
  <2>1. /\ j \in 1 .. block.len /\ block.len \in 1 .. QnNum /\ block.curr \in 0 .. QnNum - 1
        /\ k \in 1 .. s.len /\ s.len \in 1 .. QnNum /\ s.curr \in 0 .. QnNum - 1
    BY <1>1, <1>2, <1>3, <1>4, <1>9
  <2>2. SlotAt(block, j) = RingSlot(block, j)
    BY <2>1, SlotsOfPairs
  <2>3. SlotAt(s, k) = RingSlot(s, k) /\ SlotAt(s, k) \in 0 .. QnNum - 1 /\ SlotAt(s, k) # next
    BY <1>1, <1>3, <1>4, <1>7
  <2>4. RingSlot(s, k) = RingSlot(block, j)
    <3>1. j - block.len = 1 - s.len + k
      <4>1. CASE block.len < QnNum
        <5>1. s.len = block.len + 1 /\ j = k
          BY <1>3, <1>9, <4>1
        <5>2. QED
          BY <2>1, <5>1
      <4>2. CASE block.len = QnNum
        <5>1. s.len = block.len /\ j = k + 1
          BY <1>1, <1>3, <1>9, <4>2
        <5>2. QED
          BY <2>1, <5>1
      <4>3. QED
        BY <1>1, <4>1, <4>2
    <3>2. /\ block.curr + 1 < QnNum => s.curr = block.curr + 1
          /\ block.curr + 1 = QnNum => s.curr = 0
      <4>1. s.curr = next /\ block.len > 0
        BY <1>3, <2>1
      <4>2. QED
        BY <1>2, <4>1
    <3> DEFINE old == [len |-> block.len, curr |-> block.curr]
               new == [len |-> s.len, curr |-> s.curr]
    <3>3. /\ old \in [len : 1 .. QnNum, curr : 0 .. QnNum - 1] /\ old.len = block.len /\ old.curr = block.curr
          /\ new \in [len : 1 .. QnNum, curr : 0 .. QnNum - 1] /\ new.len = s.len /\ new.curr = s.curr
      BY <2>1
    <3> HIDE DEF old, new
    <3>4. j \in 1 .. old.len /\ k \in 1 .. new.len - 1
      BY <2>1, <3>3
    <3>5. /\ j - old.len = 1 - new.len + k
          /\ old.curr + 1 < QnNum => new.curr = old.curr + 1
          /\ old.curr + 1 = QnNum => new.curr = 0
      BY <3>1, <3>2, <3>3
    <3>6. RingSlot(new, k) = RingSlot(old, j)
      BY <3>3, <3>4, <3>5, SameRingSlot
    <3>7. QED
      BY <3>3, <3>6 DEF RingSlot
  <2>5. s.slots[SlotAt(s, k)] = block.slots[SlotAt(block, j)]
    BY <1>5, <2>2, <2>3, <2>4
  <2>6. QED
    BY <2>5 DEF PairAt
<1>10. /\ block.len < QnNum => \A k \in 1 .. s.len - 1 : PairAt(s, k) = PairAt(block, k)
       /\ block.len = QnNum => \A k \in 1 .. s.len - 1 : PairAt(s, k) = PairAt(block, k + 1)
  <2>1. ASSUME block.len < QnNum, NEW k \in 1 .. s.len - 1 PROVE PairAt(s, k) = PairAt(block, k)
    BY <1>9, <2>1
  <2>2. ASSUME block.len = QnNum, NEW k \in 1 .. s.len - 1 PROVE PairAt(s, k) = PairAt(block, k + 1)
    <3>1. k + 1 = IF block.len < QnNum THEN k ELSE k + 1
      BY <1>1, <2>2
    <3>2. QED
      BY <1>9, <2>2, <3>1
  <2>3. QED
    BY <2>1, <2>2
<1>11. s.len > 0 /\ s.curr >= 0
  BY <1>1, <1>2, <1>3, <1>4
<1>12. QED
  BY <1>3, <1>6, <1>8, <1>10, <1>11 DEF s

\* The product of the k-th oldest pair
ProductAt(block, tripped, k) ==
  [pair |-> PairAt(block, k),
   over |-> [i \in {i \in 1 .. k - 1 : PairAt(block, i) \notin tripped} |-> PairAt(block, i)],
   scale |-> block.slots[block.curr].pair,
   tripped |-> PairAt(block, k) \in tripped]

LEMMA ProductFields ==
  \A block, tripped, k :
    LET p == ProductAt(block, tripped, k)
    IN /\ p.pair = PairAt(block, k)
       /\ p.over = [i \in {i \in 1 .. k - 1 : PairAt(block, i) \notin tripped} |-> PairAt(block, i)]
       /\ p.scale = block.slots[block.curr].pair
       /\ p.tripped = (PairAt(block, k) \in tripped)
BY DEF ProductAt

LEMMA ProductTyped ==
  ASSUME NEW block \in Blocks, block.len > 0, block.curr >= 0, NEW tripped, NEW k \in 1 .. block.len
  PROVE  ProductAt(block, tripped, k) \in SlotValues
<1>1. /\ block.slots \in [0 .. QnNum - 1 -> SlotValues]
      /\ block.len \in 1 .. QnNum /\ block.curr \in 0 .. QnNum - 1
      /\ QnNum \in Nat /\ QnNum > 0
  BY BlockFields
<1>2. \A i \in 1 .. block.len : PairAt(block, i) \in Nat
  <2>1. \A i \in 1 .. block.len : SlotAt(block, i) \in 0 .. QnNum - 1
    BY <1>1, SlotsOfPairs
  <2>2. QED
    BY <1>1, <2>1 DEF PairAt, SlotValues
<1>3. block.slots[block.curr].pair \in Nat
  BY <1>1 DEF SlotValues
<1> DEFINE S == {i \in 1 .. k - 1 : PairAt(block, i) \notin tripped}
           over == [i \in S |-> PairAt(block, i)]
<1>4. over \in Products
  <2>1. S \in SUBSET (1 .. QnNum) /\ \A i \in S : i \in 1 .. block.len
    BY <1>1
  <2>2. over \in [S -> Nat]
    BY <1>2, <2>1
  <2>3. QED
    BY <2>1, <2>2 DEF Products
<1>5. (PairAt(block, k) \in tripped) \in BOOLEAN
  OBVIOUS
<1> HIDE DEF over
<1>6. ProductAt(block, tripped, k) = [pair |-> PairAt(block, k), over |-> over,
        scale |-> block.slots[block.curr].pair, tripped |-> PairAt(block, k) \in tripped]
  BY DEF ProductAt, over
<1>7. PairAt(block, k) \in Nat
  BY <1>2
<1>8. QED
  BY <1>3, <1>4, <1>5, <1>6, <1>7 DEF SlotValues

LEMMA RecomputedSlots ==
  ASSUME NEW block \in Blocks, block.len > 0, block.curr >= 0, NEW tripped
  PROVE  LET r == Recomputed(block, tripped)
         IN /\ r \in Blocks /\ r.len = block.len /\ r.curr = block.curr
            /\ \A k \in 1 .. r.len : r.slots[SlotAt(r, k)] = ProductAt(block, tripped, k)
<1>1. /\ block.slots \in [0 .. QnNum - 1 -> SlotValues]
      /\ block.len \in 1 .. QnNum /\ block.curr \in 0 .. QnNum - 1
      /\ QnNum \in Nat /\ QnNum > 0
      /\ block = [slots |-> block.slots, len |-> block.len, curr |-> block.curr]
  BY BlockFields DEF Blocks
<1>2. /\ \A k \in 1 .. block.len : SlotAt(block, k) \in 0 .. QnNum - 1
      /\ \A k, l \in 1 .. block.len : SlotAt(block, k) = SlotAt(block, l) => k = l
  BY <1>1, SlotsOfPairs
<1> DEFINE r == Recomputed(block, tripped)
           pairsIn(slot) == {k \in 1 .. block.len : SlotAt(block, k) = slot}
           slots == [i \in 0 .. QnNum - 1 |->
                       IF pairsIn(i) = {} THEN block.slots[i]
                       ELSE ProductAt(block, tripped, CHOOSE k \in pairsIn(i) : TRUE)]
<1>3. r = [block EXCEPT !.slots = slots]
  BY <1>1 DEF Recomputed, ProductAt
<1>4. slots \in [0 .. QnNum - 1 -> SlotValues]
  <2>1. ASSUME NEW i \in 0 .. QnNum - 1, pairsIn(i) # {}
        PROVE  ProductAt(block, tripped, CHOOSE k \in pairsIn(i) : TRUE) \in SlotValues
    <3>1. (CHOOSE k \in pairsIn(i) : TRUE) \in 1 .. block.len
      BY <2>1
    <3>2. QED
      BY <3>1, ProductTyped
  <2>2. QED
    BY <1>1, <2>1
<1>5. \A k \in 1 .. block.len : slots[SlotAt(block, k)] = ProductAt(block, tripped, k)
  <2>1. SUFFICES ASSUME NEW k \in 1 .. block.len
                 PROVE  slots[SlotAt(block, k)] = ProductAt(block, tripped, k)
    OBVIOUS
  <2>2. pairsIn(SlotAt(block, k)) = {k}
    BY <1>2
  <2>3. (CHOOSE l \in pairsIn(SlotAt(block, k)) : TRUE) = k
    BY <2>2
  <2>4. QED
    BY <1>2, <2>2, <2>3
<1> HIDE DEF slots
<1>6. r.slots = slots /\ r.len = block.len /\ r.curr = block.curr /\ r \in Blocks
  BY <1>1, <1>3, <1>4 DEF Blocks
<1>7. \A k : SlotAt(r, k) = SlotAt(block, k)
  BY <1>6 DEF SlotAt, First, PairIndex
<1>8. QED
  BY <1>5, <1>6, <1>7

\* A block takes a pair and computes all products again: it then holds the
\* history with that pair.
LEMMA PushHolds ==
  ASSUME NEW block \in Blocks, NEW h \in Seq(Nat), Holds(block, h), NEW pair \in Nat, NEW tripped
  PROVE  LET r == Recomputed(Stored(block, pair), tripped)
         IN r \in Blocks /\ Holds(r, Append(h, pair)) /\ (tripped = {} => NeverTrips(r))
<1> DEFINE s == Stored(block, pair)
           r == Recomputed(s, tripped)
           old == StillHeld(h)
           new == StillHeld(Append(h, pair))
<1>1. /\ block.len = Len(old) /\ (block.len > 0 => block.curr >= 0)
      /\ \A k \in 1 .. block.len : PairAt(block, k) = old[k]
  BY DEF Holds, PairAt
<1>2. /\ s \in Blocks /\ s.len > 0 /\ s.curr >= 0
      /\ s.len = IF block.len < QnNum THEN block.len + 1 ELSE block.len
      /\ PairAt(s, s.len) = pair
      /\ block.len < QnNum => \A k \in 1 .. s.len - 1 : PairAt(s, k) = PairAt(block, k)
      /\ block.len = QnNum => \A k \in 1 .. s.len - 1 : PairAt(s, k) = PairAt(block, k + 1)
  BY <1>1, StoredSlots
<1>3. /\ new \in Seq(Nat) /\ old \in Seq(Nat) /\ Len(old) <= QnNum
      /\ Len(old) < QnNum => Len(new) = Len(old) + 1 /\ \A k \in 1 .. Len(old) : new[k] = old[k]
      /\ Len(old) = QnNum => Len(new) = QnNum /\ \A k \in 1 .. QnNum - 1 : new[k] = old[k + 1]
      /\ new[Len(new)] = pair
  BY HeldGrows
<1>4. QnNum \in Nat /\ QnNum > 0 /\ Len(old) \in Nat /\ Len(new) \in Nat
  BY <1>3, QnAssumption
<1> HIDE DEF s, old, new
<1>5. /\ s.len = Len(new)
      /\ \A k \in 1 .. s.len : PairAt(s, k) = new[k]
  <2>1. CASE Len(old) < QnNum
    <3>1. s.len = Len(new) /\ Len(new) = Len(old) + 1
      BY <1>1, <1>2, <1>3, <1>4, <2>1
    <3>2. ASSUME NEW k \in 1 .. Len(old) PROVE PairAt(s, k) = new[k]
      BY <1>1, <1>2, <1>3, <1>4, <2>1, <3>1
    <3>3. PairAt(s, Len(new)) = new[Len(new)]
      BY <1>2, <1>3, <3>1
    <3>4. QED
      BY <1>4, <3>1, <3>2, <3>3
  <2>2. CASE Len(old) = QnNum
    <3>1. s.len = Len(new) /\ Len(new) = QnNum
      BY <1>1, <1>2, <1>3, <1>4, <2>2
    <3>2. ASSUME NEW k \in 1 .. QnNum - 1 PROVE PairAt(s, k) = new[k]
      <4>1. k + 1 \in 1 .. block.len /\ k \in 1 .. s.len - 1
        BY <1>1, <1>4, <2>2, <3>1
      <4>2. PairAt(s, k) = PairAt(block, k + 1) /\ new[k] = old[k + 1]
        BY <1>1, <1>2, <1>3, <2>2, <4>1
      <4>3. QED
        BY <1>1, <4>1, <4>2
    <3>3. PairAt(s, QnNum) = new[QnNum]
      BY <1>2, <1>3, <3>1
    <3>4. QED
      BY <1>4, <3>1, <3>2, <3>3
  <2>3. QED
    BY <1>3, <1>4, <2>1, <2>2
<1>6. /\ r \in Blocks /\ r.len = s.len /\ r.curr = s.curr
      /\ \A k \in 1 .. r.len : r.slots[SlotAt(r, k)] = ProductAt(s, tripped, k)
  BY <1>2, RecomputedSlots
<1>7. s.slots[s.curr].pair = pair
  <2>1. s.len \in 1 .. QnNum /\ s.curr \in 0 .. QnNum - 1
    BY <1>2, BlockFields
  <2>2. SlotAt(s, s.len) = s.curr
    BY <2>1, SlotsOfPairs
  <2>3. QED
    BY <1>2, <2>2 DEF PairAt
<1> HIDE DEF r
<1>8. ASSUME NEW k \in 1 .. r.len
      PROVE  LET slot(i) == r.slots[SlotAt(r, i)]
             IN /\ slot(k).pair = new[k]
                /\ slot(k).over = [i \in {i \in 1 .. k - 1 : ~slot(i).tripped} |-> new[i]]
                /\ slot(k).scale = pair
                /\ slot(k).tripped <=> new[k] \in tripped
  <2> DEFINE slot(i) == r.slots[SlotAt(r, i)]
  <2>1. \A i \in 1 .. r.len :
          /\ slot(i).pair = new[i] /\ slot(i).scale = pair
          /\ slot(i).tripped <=> new[i] \in tripped
    <3>1. SUFFICES ASSUME NEW i \in 1 .. r.len
                   PROVE  /\ slot(i).pair = new[i] /\ slot(i).scale = pair
                          /\ slot(i).tripped <=> new[i] \in tripped
      OBVIOUS
    <3>2. slot(i) = ProductAt(s, tripped, i)
      BY <1>6
    <3>3. PairAt(s, i) = new[i]
      BY <1>5, <1>6
    <3>4. /\ slot(i).pair = PairAt(s, i) /\ slot(i).scale = s.slots[s.curr].pair
          /\ slot(i).tripped = (PairAt(s, i) \in tripped)
      BY <3>2, ProductFields
    <3>5. QED
      BY <1>7, <3>3, <3>4
  <2>2. slot(k).over = [i \in {i \in 1 .. k - 1 : PairAt(s, i) \notin tripped} |-> PairAt(s, i)]
    BY <1>6, ProductFields
  <2>3. \A i \in 1 .. k - 1 : i \in 1 .. r.len /\ PairAt(s, i) = new[i]
    BY <1>4, <1>5, <1>6
  <2> DEFINE S == {i \in 1 .. k - 1 : PairAt(s, i) \notin tripped}
             T == {i \in 1 .. k - 1 : ~slot(i).tripped}
  <2>4. S = T
    BY <2>1, <2>3
  <2>5. [i \in S |-> PairAt(s, i)] = [i \in T |-> new[i]]
    BY <2>3, <2>4
  <2>6. QED
    BY <2>1, <2>2, <2>5
<1>9. Last(new) = pair /\ (r.len > 0 => r.curr >= 0) /\ r.len = Len(new)
  BY <1>2, <1>3, <1>5, <1>6 DEF Last
<1>10. Holds(r, Append(h, pair))
  BY <1>8, <1>9 DEF Holds, new
<1>11. ASSUME tripped = {} PROVE NeverTrips(r)
  BY <1>8, <1>11 DEF NeverTrips
<1>12. QED
  BY <1>6, <1>10, <1>11 DEF r, s

LEMMA EmptyHolds ==
  ASSUME NEW block \in Blocks, block.len = 0
  PROVE  Holds(block, <<>>) /\ NeverTrips(block)
<1>1. <<>> \in Seq(Nat) /\ Len(<<>>) = 0
  OBVIOUS
<1>2. StillHeld(<<>>) = <<>>
  <2>1. Len(<<>>) <= QnNum
    BY <1>1, QnAssumption
  <2>2. QED
    BY <1>1, <2>1, HeldLength
<1>3. QED
  BY <1>1, <1>2 DEF Holds, NeverTrips

LEMMA NewBlockTyped == NewBlock \in Blocks /\ NewBlock.len = 0
<1>1. QnNum \in Nat /\ QnNum > 0
  BY QnAssumption
<1>2. <<>> \in Products
  <2>1. <<>> \in [{} -> Nat] /\ {} \in SUBSET (1 .. QnNum)
    OBVIOUS
  <2>2. QED
    BY <2>1 DEF Products
<1>3. EmptySlot \in SlotValues
  BY <1>2 DEF EmptySlot, SlotValues
<1> DEFINE slots == [i \in 0 .. QnNum - 1 |-> EmptySlot]
<1>4. slots \in [0 .. QnNum - 1 -> SlotValues]
  BY <1>3
<1> HIDE DEF slots
<1>5. [slots |-> slots, len |-> 0, curr |-> -1] \in Blocks
  BY <1>1, <1>4 DEF Blocks
<1>6. QED
  BY <1>5 DEF NewBlock, slots

LEMMA ResetTyped ==
  ASSUME NEW block \in Blocks
  PROVE  ResetBlock(block) \in Blocks /\ ResetBlock(block).len = 0
BY QnAssumption DEF ResetBlock, Blocks

\* What a block adds to the product of the Hessian is what its history says.
LEMMA HeldIsFresh ==
  ASSUME NEW block \in Blocks, NEW h \in Seq(Nat), Holds(block, h),
         qnKind \in {"bfgs", "sr1"}, qnKind = "bfgs" => NeverTrips(block)
  PROVE  FreshProduct(BlockProduct(block), StillHeld(h))
<1> DEFINE kept == StillHeld(h)
           slot(k) == block.slots[SlotAt(block, k)]
           used == {k \in 1 .. block.len : ~slot(k).tripped}
           product == BlockProduct(block)
<1>1. /\ kept \in Seq(Nat) /\ block.len = Len(kept) /\ (block.len > 0 => block.curr >= 0)
      /\ \A k \in 1 .. block.len :
           /\ slot(k).pair = kept[k]
           /\ slot(k).over = [i \in {i \in 1 .. k - 1 : ~slot(i).tripped} |-> kept[i]]
           /\ slot(k).scale = Last(kept)
  BY HeldLength DEF Holds
<1>2. qnKind = "bfgs" => used = 1 .. block.len
  BY DEF NeverTrips
<1>3. product = ProductOver(block, used)
  BY <1>2 DEF BlockProduct, BfgsProduct, Sr1Product
<1>4. CASE block.len = 0
  <2>1. product.scale = 0 /\ product.terms = <<>>
    BY <1>3, <1>4 DEF ProductOver
  <2> HIDE DEF kept, product
  <2>2. kept = <<>>
    <3>1. kept \in Seq(Nat) /\ Len(kept) = 0
      BY <1>1, <1>4
    <3>2. QED
      BY <3>1
  <2>3. FreshProduct(product, kept)
    BY <2>1, <2>2 DEF FreshProduct
  <2>4. QED
    BY <2>3 DEF kept, product
<1>5. CASE block.len # 0
  <2>1. block.len \in 1 .. QnNum /\ block.curr \in 0 .. QnNum - 1
    BY <1>1, <1>5, BlockFields
  <2>2. /\ product.scale = block.slots[block.curr].pair
        /\ product.terms = [k \in used |-> slot(k)]
    BY <1>3, <1>5 DEF ProductOver
  <2>3. kept # <<>> /\ product.scale = Last(kept)
    <3>1. SlotAt(block, block.len) = block.curr
      BY <2>1, SlotsOfPairs
    <3>2. block.len \in 1 .. block.len
      BY <2>1
    <3> HIDE DEF kept, product
    <3>3. Last(kept) = kept[block.len] /\ kept # <<>>
      BY <1>1, <1>5 DEF Last
    <3>4. slot(block.len).pair = kept[block.len]
      BY <1>1, <3>2
    <3>5. QED
      BY <2>2, <3>1, <3>3, <3>4
  <2>4. DOMAIN product.terms = used /\ DOMAIN kept = 1 .. block.len
    BY <1>1, <2>2
  <2>5. ASSUME NEW k \in used
        PROVE  /\ product.terms[k].pair = kept[k]
               /\ product.terms[k].over = [i \in used \cap 1 .. k - 1 |-> kept[i]]
               /\ product.terms[k].scale = product.scale
    <3>1. {i \in 1 .. k - 1 : ~slot(i).tripped} = used \cap 1 .. k - 1
      BY <2>1
    <3>2. QED
      BY <1>1, <2>2, <2>3, <3>1
  <2> HIDE DEF product, kept
  <2>6. FreshProduct(product, kept)
    BY <1>2, <2>3, <2>4, <2>5 DEF FreshProduct
  <2>7. QED
    BY <2>6 DEF product, kept
<1>6. QED
  BY <1>4, <1>5
-----------------------------------------------------------------------------
(* The structure                                                           *)

LEMMA LeastElement ==
  ASSUME NEW S \in SUBSET Nat, S # {}
  PROVE  \E n \in S : \A m \in S : n <= m
<1> DEFINE R == OpToRel(<, Nat)
<1>1. IsWellFoundedOn(R, Nat)
  BY NatLessThanWellFounded
<1>2. \A x, y \in Nat : x < y => <<x, y>> \in R
  BY DEF OpToRel
<1> HIDE DEF R
<1>3. PICK x \in S : \A y \in S : ~ (<<y, x>> \in R)
  BY <1>1, WFMin
<1>4. ASSUME NEW y \in S PROVE x <= y
  <2>1. x \in Nat /\ y \in Nat /\ ~(y < x)
    BY <1>2, <1>3
  <2>2. QED
    BY <2>1
<1>5. QED
  BY <1>3, <1>4

\* Induction, for a property given as a set
LEMMA Induction ==
  ASSUME NEW S, 0 \in S, \A n \in S \cap Nat : n + 1 \in S
  PROVE  Nat \subseteq S
<1> SUFFICES ASSUME Nat \ S # {} PROVE FALSE
  OBVIOUS
<1>1. PICK n \in Nat \ S : \A m \in Nat \ S : n <= m
  BY LeastElement
<1>2. n - 1 \in Nat
  BY <1>1
<1>3. QED
  BY <1>1, <1>2

Increasing(s) == \A i, j \in DOMAIN s : i < j => s[i] < s[j]

\* A finite set of numbers has an ascending enumeration: one of the larger
\* numbers behind the least one.
LEMMA EnumerationExists ==
  ASSUME NEW S \in SUBSET Nat, IsFiniteSet(S)
  PROVE  \E s \in [1 .. Cardinality(S) -> S] : Increasing(s)
<1> DEFINE Enumerated(T) == \E s \in [1 .. Cardinality(T) -> T] : Increasing(s)
           P == {n \in Nat : \A T \in SUBSET Nat : IsFiniteSet(T) /\ Cardinality(T) = n => Enumerated(T)}
<1>1. 0 \in P
  <2>1. SUFFICES ASSUME NEW T \in SUBSET Nat, IsFiniteSet(T), Cardinality(T) = 0 PROVE Enumerated(T)
    OBVIOUS
  <2>2. [i \in 1 .. 0 |-> i] \in [1 .. 0 -> T] /\ Increasing([i \in 1 .. 0 |-> i])
    BY DEF Increasing
  <2>3. QED
    BY <2>1, <2>2
<1>2. ASSUME NEW n \in P \cap Nat PROVE n + 1 \in P
  <2>1. SUFFICES ASSUME NEW T \in SUBSET Nat, IsFiniteSet(T), Cardinality(T) = n + 1 PROVE Enumerated(T)
    OBVIOUS
  <2>2. T # {}
    BY <2>1, FS_EmptySet
  <2>3. PICK x \in T : \A y \in T : x <= y
    BY <2>2, LeastElement
  <2> DEFINE U == T \ {x}
  <2>4. IsFiniteSet(U) /\ Cardinality(U) = n /\ U \in SUBSET Nat
    BY <2>1, FS_RemoveElement
  <2>5. Enumerated(U)
    BY <1>2, <2>4
  <2>6. PICK s \in [1 .. n -> U] : Increasing(s)
    BY <2>4, <2>5
  <2> DEFINE t == [i \in 1 .. n + 1 |-> IF i = 1 THEN x ELSE s[i - 1]]
  <2>7. \A i \in 1 .. n + 1 : i # 1 => i - 1 \in 1 .. n /\ s[i - 1] \in U
    BY <1>2, <2>6
  <2>8. t \in [1 .. n + 1 -> T]
    BY <2>3, <2>7
  <2>9. \A y \in U : x < y /\ y \in Nat /\ x \in Nat
    BY <2>3
  <2>10. ASSUME NEW i \in 1 .. n + 1, NEW j \in 1 .. n + 1, i < j
         PROVE  t[i] < t[j]
    <3>1. t[j] = s[j - 1] /\ j - 1 \in 1 .. n /\ s[j - 1] \in U
      BY <1>2, <2>7, <2>10
    <3>2. CASE i = 1
      BY <2>9, <3>1, <3>2
    <3>3. CASE i # 1
      BY <1>2, <2>6, <2>7, <2>10, <3>1, <3>3 DEF Increasing
    <3>4. QED
      BY <3>2, <3>3
  <2>11. Increasing(t)
    BY <2>8, <2>10 DEF Increasing
  <2>12. QED
    BY <2>1, <2>8, <2>11
<1> HIDE DEF P
<1>3. Nat \subseteq P
  BY <1>1, <1>2, Induction
<1>4. Cardinality(S) \in Nat
  BY FS_CardinalityType
<1>5. QED
  BY <1>3, <1>4 DEF P

LEMMA Enumeration ==
  ASSUME NEW S \in SUBSET Nat, IsFiniteSet(S)
  PROVE  /\ InOrder(S) \in [1 .. Cardinality(S) -> S] /\ Cardinality(S) \in Nat
         /\ \A i, j \in 1 .. Cardinality(S) : i < j => InOrder(S)[i] < InOrder(S)[j]
         /\ \A x \in S : \E i \in 1 .. Cardinality(S) : InOrder(S)[i] = x
<1> DEFINE n == Cardinality(S)
           s == InOrder(S)
<1>1. n \in Nat
  BY FS_CardinalityType
<1>2. \E t \in [1 .. n -> S] : \A i, j \in DOMAIN t : i < j => t[i] < t[j]
  BY EnumerationExists DEF Increasing
<1>3. s \in [1 .. n -> S] /\ \A i, j \in DOMAIN s : i < j => s[i] < s[j]
  BY <1>2 DEF InOrder
<1> HIDE DEF s, n
<1>4. s \in Injection(1 .. n, S)
  <2>1. ASSUME NEW i \in 1 .. n, NEW j \in 1 .. n, s[i] = s[j] PROVE i = j
    <3>1. s[i] \in Nat /\ s[j] \in Nat
      BY <1>3
    <3>2. ~(i < j) /\ ~(j < i)
      BY <1>3, <2>1, <3>1
    <3>3. QED
      BY <1>1, <3>2
  <2>2. QED
    BY <1>3, <2>1 DEF Injection, IsInjective
<1>5. s \in Surjection(1 .. n, S)
  <2>1. IsFiniteSet(1 .. n) /\ Cardinality(1 .. n) = n
    BY <1>1, FS_Interval
  <2>2. QED
    BY <1>4, <2>1, FS_Injection DEF n
<1>6. \A x \in S : \E i \in 1 .. n : s[i] = x
  BY <1>5 DEF Surjection
<1>7. QED
  BY <1>1, <1>3, <1>6 DEF s, n

\* The numbers of the enumeration that are below e lead it.
LEMMA CountedBelow ==
  ASSUME NEW S \in SUBSET Nat, IsFiniteSet(S), NEW e \in Nat
  PROVE  /\ Cardinality({x \in S : x < e}) \in 0 .. Cardinality(S)
         /\ \A k \in 1 .. Cardinality(S) : InOrder(S)[k] < e <=> k <= Cardinality({x \in S : x < e})
<1> DEFINE n == Cardinality(S)
           s == InOrder(S)
           T == {x \in S : x < e}
<1>1. /\ s \in [1 .. n -> S] /\ n \in Nat
      /\ \A i, j \in 1 .. n : i < j => s[i] < s[j]
      /\ \A x \in S : \E i \in 1 .. n : s[i] = x
  BY Enumeration
<1> HIDE DEF s, n
<1>2. \A i \in 1 .. n : s[i] \in S /\ s[i] \in Nat
  BY <1>1
<1>3. \E p \in 0 .. n : \A k \in 1 .. n : s[k] < e <=> k <= p
  <2> DEFINE K == {k \in 1 .. n : ~(s[k] < e)}
  <2>1. CASE K = {}
    <3>1. \A k \in 1 .. n : s[k] < e /\ k <= n
      BY <1>1, <2>1
    <3>2. n \in 0 .. n
      BY <1>1
    <3>3. QED
      BY <3>1, <3>2
  <2>2. CASE K # {}
    <3>1. PICK q \in K : \A k \in K : q <= k
      <4>1. K \in SUBSET Nat
        BY <1>1
      <4>2. QED
        BY <2>2, <4>1, LeastElement
    <3>2. q - 1 \in 0 .. n
      BY <1>1
    <3>3. ASSUME NEW k \in 1 .. n PROVE s[k] < e <=> k <= q - 1
      <4>1. CASE k < q
        BY <1>1, <3>1, <4>1
      <4>2. CASE k = q
        BY <1>1, <3>1, <4>2
      <4>3. CASE k > q
        <5>1. s[q] < s[k] /\ ~(s[q] < e) /\ s[q] \in Nat /\ s[k] \in Nat
          BY <1>1, <1>2, <3>1, <4>3
        <5>2. QED
          BY <1>1, <4>3, <5>1
      <4>4. QED
        BY <1>1, <4>1, <4>2, <4>3
    <3>4. QED
      BY <3>2, <3>3
  <2>3. QED
    BY <2>1, <2>2
<1>4. PICK p \in 0 .. n : \A k \in 1 .. n : s[k] < e <=> k <= p
  BY <1>3
<1>5. p = Cardinality(T)
  <2> DEFINE f == [k \in 1 .. p |-> s[k]]
  <2>1. \A k \in 1 .. p : k \in 1 .. n
    BY <1>1
  <2>2. f \in [1 .. p -> T]
    BY <1>2, <1>4, <2>1
  <2>3. \A i, j \in 1 .. p : f[i] = f[j] => i = j
    <3>1. SUFFICES ASSUME NEW i \in 1 .. p, NEW j \in 1 .. p, s[i] = s[j], i < j PROVE FALSE
      OBVIOUS
    <3>2. s[i] < s[j] /\ s[i] \in Nat
      BY <1>1, <1>2, <2>1, <3>1
    <3>3. QED
      BY <3>1, <3>2
  <2>4. \A x \in T : \E k \in 1 .. p : f[k] = x
    <3>1. SUFFICES ASSUME NEW x \in T PROVE \E k \in 1 .. p : f[k] = x
      OBVIOUS
    <3>2. PICK k \in 1 .. n : s[k] = x
      BY <1>1
    <3>3. k \in 1 .. p
      BY <1>4, <3>2
    <3>4. QED
      BY <3>2, <3>3
  <2>5. f \in Bijection(1 .. p, T)
    BY <2>2, <2>3, <2>4 DEF Bijection, Injection, Surjection, IsInjective
  <2>6. IsFiniteSet(1 .. p) /\ Cardinality(1 .. p) = p
    BY FS_Interval
  <2>7. Cardinality(T) = Cardinality(1 .. p)
    <3>1. ExistsBijection(1 .. p, T)
      BY <2>5 DEF ExistsBijection
    <3>2. QED
      BY <2>6, <3>1, FS_Bijection
  <2>8. QED
    BY <2>6, <2>7
<1>6. QED
  BY <1>4, <1>5 DEF n, s

LEMMA EndsFields ==
  ASSUME NEW dim \in Nat, NEW ends \in Ends(dim)
  PROVE  /\ ends \in Seq(1 .. dim) /\ Len(ends) \in Nat /\ DOMAIN ends = 1 .. Len(ends)
         /\ \A b \in DOMAIN ends : ends[b] \in 1 .. dim
         /\ \A a, b \in DOMAIN ends : a < b => ends[a] < ends[b]
         /\ \A a, b \in DOMAIN ends : a <= b => ends[a] <= ends[b]
BY DEF Ends

\* Since ends increase, there are never more blocks than variables, and
\* pushing them one after the other is accepted.
LEMMA EndsAccepted ==
  ASSUME NEW dim \in Nat, NEW ends \in Ends(dim)
  PROVE  AllAccepted(ends, dim)
<1>1. /\ Len(ends) \in Nat /\ DOMAIN ends = 1 .. Len(ends)
      /\ \A b \in DOMAIN ends : ends[b] \in 1 .. dim
      /\ \A a, b \in DOMAIN ends : a < b => ends[a] < ends[b]
  BY EndsFields
<1> DEFINE P == {n \in Nat : n + 1 \in DOMAIN ends => n + 1 <= ends[n + 1]}
<1>2. 0 \in P
  BY <1>1
<1>3. ASSUME NEW n \in P \cap Nat PROVE n + 1 \in P
  <2>1. SUFFICES ASSUME (n + 1) + 1 \in DOMAIN ends PROVE (n + 1) + 1 <= ends[(n + 1) + 1]
    OBVIOUS
  <2>2. n + 1 \in DOMAIN ends /\ n + 1 <= ends[n + 1]
    BY <1>1, <1>3, <2>1
  <2>3. ends[n + 1] < ends[(n + 1) + 1]
    BY <1>1, <2>1, <2>2
  <2>4. QED
    BY <1>1, <2>1, <2>2, <2>3
<1> HIDE DEF P
<1>4. Nat \subseteq P
  BY <1>2, <1>3, Induction
<1>5. SUFFICES ASSUME NEW b \in DOMAIN ends PROVE BlockAccepted(SubSeq(ends, 1, b - 1), dim, ends[b])
  BY DEF AllAccepted
<1>6. b <= ends[b]
  <2>1. b - 1 \in P
    BY <1>1, <1>4
  <2>2. QED
    BY <1>1, <2>1 DEF P
<1> DEFINE before == SubSeq(ends, 1, b - 1)
<1>7. before = [i \in 1 .. b - 1 |-> ends[i]] /\ Len(before) = b - 1
  BY <1>1 DEF SubSeq
<1> HIDE DEF before
<1>8. ends[b] <= dim /\ b - 1 < dim
  BY <1>1, <1>6
<1>9. ASSUME before # <<>> PROVE ends[b] > Last(before)
  <2>1. b - 1 \in 1 .. b - 1
    BY <1>1, <1>7, <1>9
  <2>2. Last(before) = ends[b - 1]
    BY <1>7, <2>1 DEF Last
  <2>3. QED
    BY <1>1, <2>1, <2>2
<1>10. BlockAccepted(before, dim, ends[b])
  BY <1>7, <1>8, <1>9 DEF BlockAccepted
<1>11. QED
  BY <1>10 DEF before

\* The user pushes one more block.
LEMMA PushedEnds ==
  ASSUME NEW dim \in Nat, NEW ends \in Ends(dim), NEW end \in 1 .. dim + 1, BlockAccepted(ends, dim, end)
  PROVE  Append(ends, end) \in Ends(dim)
<1>1. /\ ends \in Seq(1 .. dim) /\ Len(ends) \in Nat /\ DOMAIN ends = 1 .. Len(ends)
      /\ \A b \in DOMAIN ends : ends[b] \in 1 .. dim
      /\ \A a, b \in DOMAIN ends : a <= b => ends[a] <= ends[b]
      /\ \A a, b \in DOMAIN ends : a < b => ends[a] < ends[b]
  BY EndsFields
<1>2. end \in 1 .. dim
  BY DEF BlockAccepted
<1> DEFINE more == Append(ends, end)
<1>3. /\ more \in Seq(1 .. dim) /\ DOMAIN more = 1 .. Len(ends) + 1
      /\ more[Len(ends) + 1] = end
      /\ \A b \in 1 .. Len(ends) : more[b] = ends[b]
  BY <1>1, <1>2
<1> HIDE DEF more
<1>4. \A b \in DOMAIN ends : ends[b] < end
  <2>1. SUFFICES ASSUME NEW b \in DOMAIN ends PROVE ends[b] < end
    OBVIOUS
  <2>2. ends # <<>> /\ Len(ends) \in DOMAIN ends /\ b <= Len(ends)
    BY <1>1
  <2>3. end > ends[Len(ends)]
    BY <2>2 DEF BlockAccepted, Last
  <2>4. QED
    BY <1>1, <1>2, <2>2, <2>3
<1>5. ASSUME NEW a \in DOMAIN more, NEW b \in DOMAIN more, a < b PROVE more[a] < more[b]
  <2>1. CASE b = Len(ends) + 1
    <3>1. a \in DOMAIN ends
      BY <1>1, <1>3, <1>5, <2>1
    <3>2. QED
      BY <1>1, <1>3, <1>4, <2>1, <3>1
  <2>2. CASE b # Len(ends) + 1
    <3>1. a \in DOMAIN ends /\ b \in DOMAIN ends
      BY <1>1, <1>3, <1>5, <2>2
    <3>2. QED
      BY <1>1, <1>3, <1>5, <3>1
  <2>3. QED
    BY <2>1, <2>2
<1>6. more \in Ends(dim)
  BY <1>3, <1>5 DEF Ends
<1>7. QED
  BY <1>6 DEF more

\* The block ends that are used cut the free variables as those of the
\* user's structure do.
Cuts(projected, ends, free, dim) ==
  /\ \A b \in DOMAIN projected : \E c \in DOMAIN ends :
       \A k \in 1 .. dim : k - 1 < projected[b] <=> free[k] < ends[c]
  /\ \A c \in DOMAIN ends :
       \/ \A k \in 1 .. dim : ~(free[k] < ends[c])
       \/ \E b \in DOMAIN projected : \A k \in 1 .. dim : k - 1 < projected[b] <=> free[k] < ends[c]

Free(fixed) == (0 .. QnDim - 1) \ fixed

LEMMA FreeVariables ==
  ASSUME NEW fixed \in SUBSET (0 .. QnDim - 1)
  PROVE  /\ Free(fixed) \in SUBSET Nat /\ IsFiniteSet(Free(fixed)) /\ IsFiniteSet(fixed)
         /\ Cardinality(Free(fixed)) = QnDim - Cardinality(fixed)
         /\ Cardinality(fixed) \in Nat /\ Cardinality(Free(fixed)) \in Nat
<1>1. QnDim \in Nat /\ QnDim > 0
  BY QnAssumption
<1>2. IsFiniteSet(0 .. QnDim - 1) /\ Cardinality(0 .. QnDim - 1) = QnDim
  <2>1. 0 \in Int /\ QnDim - 1 \in Int /\ ~(0 > QnDim - 1)
    BY <1>1
  <2>2. QED
    BY <1>1, <2>1, FS_Interval
<1>3. IsFiniteSet(fixed)
  BY <1>2, FS_Subset
<1>4. /\ IsFiniteSet(Free(fixed))
      /\ Cardinality(Free(fixed)) = QnDim - Cardinality((0 .. QnDim - 1) \cap fixed)
  BY <1>2, FS_Difference DEF Free
<1>5. (0 .. QnDim - 1) \cap fixed = fixed
  OBVIOUS
<1>6. Cardinality(fixed) \in Nat /\ Cardinality(Free(fixed)) \in Nat
  BY <1>3, <1>4, FS_CardinalityType
<1>7. Free(fixed) \in SUBSET Nat
  BY <1>1 DEF Free
<1>8. Cardinality(Free(fixed)) = QnDim - Cardinality(fixed)
  BY <1>2, <1>4, <1>5
<1>9. QED
  BY <1>3, <1>4, <1>6, <1>7, <1>8

\* What is left of a block end when the fixed variables below it are taken
\* off is the number of free variables below it.
Below(fixed, e) == Cardinality({x \in Free(fixed) : x < e})

LEMMA MovedEnd ==
  ASSUME NEW fixed \in SUBSET (0 .. QnDim - 1), NEW e \in 0 .. QnDim
  PROVE  e - Cardinality(fixed \cap 0 .. e - 1) = Below(fixed, e)
<1>1. QnDim \in Nat /\ QnDim > 0
  BY QnAssumption
<1>2. IsFiniteSet(0 .. e - 1) /\ Cardinality(0 .. e - 1) = e
  <2>1. 0 \in Int /\ e - 1 \in Int /\ (0 > e - 1 <=> e = 0)
    BY <1>1
  <2>2. QED
    BY <1>1, <2>1, FS_Interval
<1>3. IsFiniteSet(fixed)
  BY FreeVariables
<1>4. Cardinality((0 .. e - 1) \ fixed) = e - Cardinality((0 .. e - 1) \cap fixed)
  BY <1>2, <1>3, FS_Difference
<1>5. (0 .. e - 1) \ fixed = {x \in Free(fixed) : x < e} /\ (0 .. e - 1) \cap fixed = fixed \cap 0 .. e - 1
  BY <1>1 DEF Free
<1>6. QED
  BY <1>4, <1>5 DEF Below

LEMMA BelowGrows ==
  ASSUME NEW fixed \in SUBSET (0 .. QnDim - 1), NEW d \in Nat, NEW e \in Nat, d <= e
  PROVE  /\ Below(fixed, d) \in 0 .. Cardinality(Free(fixed))
         /\ Below(fixed, e) \in 0 .. Cardinality(Free(fixed))
         /\ Below(fixed, d) <= Below(fixed, e)
         /\ \A k \in 1 .. Cardinality(Free(fixed)) :
              InOrder(Free(fixed))[k] < e <=> k <= Below(fixed, e)
<1> DEFINE F == Free(fixed)
<1>1. F \in SUBSET Nat /\ IsFiniteSet(F) /\ Cardinality(F) \in Nat
  BY FreeVariables
<1> HIDE DEF F
<1>2. /\ Cardinality({x \in F : x < d}) \in 0 .. Cardinality(F)
      /\ Cardinality({x \in F : x < e}) \in 0 .. Cardinality(F)
      /\ \A k \in 1 .. Cardinality(F) : InOrder(F)[k] < e <=> k <= Cardinality({x \in F : x < e})
  BY <1>1, CountedBelow
<1>3. Cardinality({x \in F : x < d}) <= Cardinality({x \in F : x < e})
  <2>1. {x \in F : x < d} \in SUBSET {x \in F : x < e}
    <3>1. ASSUME NEW x \in F, x < d PROVE x < e
      <4>1. x \in Nat
        BY <1>1
      <4>2. QED
        BY <3>1, <4>1
    <3>2. QED
      BY <3>1
  <2>2. IsFiniteSet({x \in F : x < e})
    BY <1>1, FS_Subset
  <2>3. QED
    BY <2>1, <2>2, FS_Subset
<1>4. QED
  BY <1>2, <1>3 DEF F, Below

LEMMA Projection ==
  ASSUME NEW fixed \in SUBSET (0 .. QnDim - 1), NEW ends \in Ends(QnDim)
  PROVE  LET dim == Cardinality(Free(fixed))
         IN /\ FixedEnds(ends, fixed) \in Ends(dim)
            /\ Cuts(FixedEnds(ends, fixed), ends, InOrder(Free(fixed)), dim)
<1> DEFINE dim == Cardinality(Free(fixed))
           free == InOrder(Free(fixed))
           L == Len(ends)
           moved(b) == IF b = 0 THEN 0 ELSE ends[b] - Cardinality(fixed \cap 0 .. ends[b] - 1)
           B == {b \in DOMAIN ends : moved(b - 1) # moved(b)}
           order == InOrder(B)
           m == Cardinality(B)
           P == FixedEnds(ends, fixed)
<1>1. /\ L \in Nat /\ DOMAIN ends = 1 .. L /\ QnDim \in Nat
      /\ \A b \in 1 .. L : ends[b] \in 1 .. QnDim
      /\ \A a, b \in 1 .. L : a <= b => ends[a] <= ends[b]
  BY EndsFields, QnAssumption
<1>2. dim \in Nat
  BY FreeVariables
<1>3. \A b \in 1 .. L : moved(b) = Below(fixed, ends[b])
  BY <1>1, MovedEnd
<1>4. P = [k \in DOMAIN order |-> moved(order[k])]
  BY DEF FixedEnds
<1>5. moved(0) = 0
  OBVIOUS
<1> HIDE DEF dim, free, L, moved, P
<1>6. \A b \in 1 .. L : \A k \in 1 .. dim : free[k] < ends[b] <=> k <= moved(b)
  <2>1. SUFFICES ASSUME NEW b \in 1 .. L, NEW k \in 1 .. dim PROVE free[k] < ends[b] <=> k <= moved(b)
    OBVIOUS
  <2>2. ends[b] \in Nat /\ ends[b] <= ends[b]
    BY <1>1
  <2>3. InOrder(Free(fixed))[k] < ends[b] <=> k <= Below(fixed, ends[b])
    BY <2>2, BelowGrows DEF dim
  <2>4. QED
    BY <1>3, <2>3 DEF free
<1>7. \A b \in 0 .. L : moved(b) \in 0 .. dim
  <2>1. ASSUME NEW b \in 1 .. L PROVE moved(b) \in 0 .. dim
    BY <1>1, <1>3, BelowGrows DEF dim
  <2>2. QED
    BY <1>1, <1>2, <1>5, <2>1
<1>8. \A a, b \in 0 .. L : a <= b => moved(a) <= moved(b)
  <2>1. SUFFICES ASSUME NEW a \in 0 .. L, NEW b \in 0 .. L, a <= b PROVE moved(a) <= moved(b)
    OBVIOUS
  <2>2. CASE a = 0
    BY <1>2, <1>5, <1>7, <2>2
  <2>3. CASE a # 0
    <3>1. a \in 1 .. L /\ b \in 1 .. L
      BY <1>1, <2>1, <2>3
    <3>2. ends[a] \in Nat /\ ends[b] \in Nat /\ ends[a] <= ends[b]
      BY <1>1, <2>1, <3>1
    <3>3. Below(fixed, ends[a]) <= Below(fixed, ends[b])
      BY <3>2, BelowGrows
    <3>4. QED
      BY <1>3, <3>1, <3>3
  <2>4. QED
    BY <2>2, <2>3
<1>9. B \in SUBSET Nat /\ IsFiniteSet(B) /\ B \in SUBSET (1 .. L)
  <2>1. B \in SUBSET (1 .. L)
    BY <1>1
  <2>2. IsFiniteSet(1 .. L)
    BY <1>1, FS_Interval
  <2>3. QED
    BY <1>1, <2>1, <2>2, FS_Subset
<1>10. /\ order \in [1 .. m -> B] /\ m \in Nat
       /\ \A i, j \in 1 .. m : i < j => order[i] < order[j]
       /\ \A b \in B : \E i \in 1 .. m : order[i] = b
  BY <1>9, Enumeration
<1>11. \A b \in B : b \in 1 .. L /\ b - 1 \in 0 .. L /\ moved(b - 1) < moved(b) /\ moved(b) \in 1 .. dim
  <2>1. SUFFICES ASSUME NEW b \in B
                 PROVE  b \in 1 .. L /\ b - 1 \in 0 .. L /\ moved(b - 1) < moved(b) /\ moved(b) \in 1 .. dim
    OBVIOUS
  <2>2. b \in 1 .. L /\ b - 1 \in 0 .. L /\ b \in 0 .. L /\ b - 1 <= b /\ moved(b - 1) # moved(b)
    BY <1>1
  <2>3. moved(b - 1) <= moved(b) /\ moved(b - 1) \in 0 .. dim /\ moved(b) \in 0 .. dim
    BY <1>7, <1>8, <2>2
  <2>4. QED
    BY <1>2, <2>2, <2>3
<1> HIDE DEF B, order, m
<1>12. P \in [1 .. m -> 1 .. dim] /\ \A k \in 1 .. m : order[k] \in B /\ P[k] = moved(order[k])
  BY <1>4, <1>10, <1>11
<1>13. ASSUME NEW k \in 1 .. m, NEW l \in 1 .. m, k < l PROVE P[k] < P[l]
  <2>1. order[k] \in B /\ order[l] \in B /\ order[k] < order[l]
    BY <1>10, <1>13
  <2>2. order[k] \in 0 .. L /\ order[l] - 1 \in 0 .. L /\ order[k] <= order[l] - 1
    <3>1. order[k] \in 1 .. L /\ order[l] \in 1 .. L
      BY <1>11, <2>1
    <3>2. QED
      BY <1>1, <2>1, <3>1
  <2>3. moved(order[k]) <= moved(order[l] - 1) /\ moved(order[l] - 1) < moved(order[l])
    BY <1>8, <1>11, <2>1, <2>2
  <2>4. moved(order[k]) \in 0 .. dim /\ moved(order[l] - 1) \in 0 .. dim /\ moved(order[l]) \in 0 .. dim
    BY <1>2, <1>7, <1>11, <2>1, <2>2
  <2>5. QED
    BY <1>12, <2>3, <2>4
<1>14. P \in Ends(dim)
  <2>1. P \in Seq(1 .. dim) /\ DOMAIN P = 1 .. m
    <3>1. P \in [1 .. m -> 1 .. dim] /\ m \in Nat
      BY <1>10, <1>12
    <3>2. QED
      BY <3>1, SeqDef
  <2>2. QED
    BY <1>13, <2>1 DEF Ends
<1>15. \A c \in 1 .. L : moved(c) = 0 \/ \E k \in 1 .. m : P[k] = moved(c)
  <2>1. SUFFICES ASSUME NEW c \in 1 .. L, moved(c) # 0 PROVE \E k \in 1 .. m : P[k] = moved(c)
    OBVIOUS
  <2> DEFINE D == {b \in 1 .. L : moved(b) = moved(c)}
  <2>2. D \in SUBSET Nat /\ c \in D
    BY <1>1
  <2>3. PICK d \in D : \A b \in D : d <= b
    BY <2>2, LeastElement
  <2>4. moved(d - 1) # moved(d)
    <3>1. CASE d = 1
      BY <1>5, <2>1, <3>1
    <3>2. CASE d # 1
      <4>1. d - 1 \in 1 .. L /\ ~(d <= d - 1)
        BY <1>1, <3>2
      <4>2. d - 1 \notin D
        BY <2>3, <4>1
      <4>3. QED
        BY <4>1, <4>2
    <3>3. QED
      BY <3>1, <3>2
  <2>5. d \in B
    BY <1>1, <2>4 DEF B
  <2>6. PICK k \in 1 .. m : order[k] = d
    BY <1>10, <2>5
  <2>7. QED
    BY <1>12, <2>6
<1>16. Cuts(P, ends, free, dim)
  <2>1. ASSUME NEW b \in DOMAIN P
        PROVE  \E c \in DOMAIN ends : \A k \in 1 .. dim : k - 1 < P[b] <=> free[k] < ends[c]
    <3>1. b \in 1 .. m /\ order[b] \in 1 .. L /\ P[b] = moved(order[b]) /\ P[b] \in 1 .. dim
      BY <1>11, <1>12
    <3>2. \A k \in 1 .. dim : k - 1 < P[b] <=> free[k] < ends[order[b]]
      <4>1. SUFFICES ASSUME NEW k \in 1 .. dim PROVE k - 1 < P[b] <=> free[k] < ends[order[b]]
        OBVIOUS
      <4>2. free[k] < ends[order[b]] <=> k <= P[b]
        BY <1>6, <3>1
      <4>3. QED
        BY <1>2, <3>1, <4>2
    <3>3. QED
      BY <1>1, <3>1, <3>2
  <2>2. ASSUME NEW c \in DOMAIN ends
        PROVE  \/ \A k \in 1 .. dim : ~(free[k] < ends[c])
               \/ \E b \in DOMAIN P : \A k \in 1 .. dim : k - 1 < P[b] <=> free[k] < ends[c]
    <3>1. c \in 1 .. L
      BY <1>1
    <3>2. \A k \in 1 .. dim : free[k] < ends[c] <=> k <= moved(c)
      BY <1>6, <3>1
    <3>3. CASE moved(c) = 0
      <4>1. \A k \in 1 .. dim : ~(k <= 0)
        BY <1>2
      <4>2. QED
        BY <3>2, <3>3, <4>1
    <3>4. CASE moved(c) # 0
      <4>1. PICK b \in 1 .. m : P[b] = moved(c)
        BY <1>15, <3>1, <3>4
      <4>2. b \in DOMAIN P /\ P[b] \in 1 .. dim
        BY <1>12
      <4>3. \A k \in 1 .. dim : k - 1 < P[b] <=> k <= P[b]
        BY <1>2, <4>2
      <4>4. QED
        BY <3>2, <4>1, <4>2, <4>3
    <3>5. QED
      BY <3>3, <3>4
  <2>3. QED
    BY <2>1, <2>2 DEF Cuts
<1>17. QED
  BY <1>14, <1>16 DEF P, free, dim

LEMMA NothingFixed ==
  ASSUME NEW ends \in Ends(QnDim)
  PROVE  Cuts(ends, ends, InOrder(Free({})), QnDim) /\ Cardinality(Free({})) = QnDim
<1>1. QnDim \in Nat
  BY QnAssumption
<1>2. Cardinality({}) = 0 /\ Cardinality(Free({})) = QnDim
  <2>1. Cardinality({}) = 0
    BY FS_EmptySet
  <2>2. {} \in SUBSET (0 .. QnDim - 1)
    OBVIOUS
  <2>3. QED
    BY <1>1, <2>1, <2>2, FreeVariables
<1>3. \A b \in DOMAIN ends : ends[b] \in 1 .. QnDim
  BY <1>1, EndsFields
<1>4. ASSUME NEW b \in DOMAIN ends, NEW k \in 1 .. QnDim
      PROVE  k - 1 < ends[b] <=> InOrder(Free({}))[k] < ends[b]
  <2>1. ends[b] \in 0 .. QnDim /\ ends[b] \in Nat /\ {} \in SUBSET (0 .. QnDim - 1)
    BY <1>1, <1>3
  <2>2. Below({}, ends[b]) = ends[b]
    <3>1. {} \cap 0 .. ends[b] - 1 = {}
      OBVIOUS
    <3>2. QED
      BY <1>2, <2>1, <3>1, MovedEnd
  <2>3. InOrder(Free({}))[k] < ends[b] <=> k <= Below({}, ends[b])
    BY <1>2, <2>1, BelowGrows
  <2>4. QED
    BY <1>1, <2>1, <2>2, <2>3
<1>5. QED
  BY <1>2, <1>4 DEF Cuts

\* Two variables share a block if no block end separates them.
LEMMA SameBlock ==
  ASSUME NEW dim \in Nat, NEW ends \in Ends(dim), NEW j \in Nat, NEW l \in Nat
  PROVE  BlockOf(ends, j) = BlockOf(ends, l) <=> \A b \in DOMAIN ends : j < ends[b] <=> l < ends[b]
<1>1. /\ Len(ends) \in Nat /\ DOMAIN ends = 1 .. Len(ends)
      /\ \A b \in DOMAIN ends : ends[b] \in 1 .. dim
      /\ \A a, b \in DOMAIN ends : a <= b => ends[a] <= ends[b]
  BY EndsFields
<1>2. \A i \in Nat : \A b \in DOMAIN ends :
        b \in BlockOf(ends, i) <=> (i < ends[b] /\ (b > 1 => ~(i < ends[b - 1])))
  <2>1. SUFFICES ASSUME NEW i \in Nat, NEW b \in DOMAIN ends
                 PROVE  b \in BlockOf(ends, i) <=> (i < ends[b] /\ (b > 1 => ~(i < ends[b - 1])))
    OBVIOUS
  <2>2. b > 1 => b - 1 \in DOMAIN ends
    BY <1>1
  <2>3. CASE b > 1
    BY <1>1, <2>2, <2>3 DEF BlockOf, Within, BlockRange
  <2>4. CASE ~(b > 1)
    BY <1>1, <2>4 DEF BlockOf, Within, BlockRange
  <2>5. QED
    BY <2>3, <2>4
<1>3. \A i : BlockOf(ends, i) \in SUBSET (DOMAIN ends)
  BY DEF BlockOf
<1>4. ASSUME \A b \in DOMAIN ends : j < ends[b] <=> l < ends[b]
      PROVE  BlockOf(ends, j) = BlockOf(ends, l)
  <2>1. ASSUME NEW b \in DOMAIN ends PROVE b \in BlockOf(ends, j) <=> b \in BlockOf(ends, l)
    <3>1. b > 1 => b - 1 \in DOMAIN ends
      BY <1>1
    <3>2. QED
      BY <1>2, <1>4, <3>1
  <2>2. QED
    BY <1>3, <2>1
<1>5. ASSUME NEW i \in Nat, NEW k \in Nat, BlockOf(ends, i) = BlockOf(ends, k),
             NEW b \in DOMAIN ends, i < ends[b]
      PROVE  k < ends[b]
  <2> DEFINE D == {c \in DOMAIN ends : i < ends[c]}
  <2>1. D \in SUBSET Nat /\ b \in D
    BY <1>1, <1>5
  <2>2. PICK d \in D : \A c \in D : d <= c
    BY <2>1, LeastElement
  <2>3. d \in BlockOf(ends, i)
    <3>1. ASSUME d > 1 PROVE ~(i < ends[d - 1])
      <4>1. d - 1 \in DOMAIN ends /\ ~(d <= d - 1)
        BY <1>1, <3>1
      <4>2. QED
        BY <2>2, <4>1
    <3>2. QED
      BY <1>2, <3>1
  <2>4. k < ends[d]
    BY <1>2, <1>5, <2>3
  <2>5. ends[d] <= ends[b] /\ ends[d] \in Nat /\ ends[b] \in Nat
    BY <1>1, <2>1, <2>2
  <2>6. QED
    BY <2>4, <2>5
<1>6. QED
  BY <1>4, <1>5

LEMMA BlockNotEmpty ==
  ASSUME NEW dim \in Nat, NEW ends \in Ends(dim), NEW b \in DOMAIN ends
  PROVE  Within(BlockRange(ends, b)) # {}
<1>1. /\ Len(ends) \in Nat /\ DOMAIN ends = 1 .. Len(ends)
      /\ \A c \in DOMAIN ends : ends[c] \in 1 .. dim
      /\ \A a, c \in DOMAIN ends : a < c => ends[a] < ends[c]
  BY EndsFields
<1>2. ends[b] - 1 \in Within(BlockRange(ends, b))
  <2>1. CASE b > 1
    <3>1. b - 1 \in DOMAIN ends /\ b - 1 < b
      BY <1>1, <2>1
    <3>2. ends[b - 1] < ends[b] /\ ends[b - 1] \in Nat /\ ends[b] \in Nat
      BY <1>1, <3>1
    <3>3. QED
      BY <2>1, <3>2 DEF Within, BlockRange
  <2>2. CASE ~(b > 1)
    <3>1. ends[b] \in Nat /\ ends[b] > 0
      BY <1>1
    <3>2. QED
      BY <2>2, <3>1 DEF Within, BlockRange
  <2>3. QED
    BY <2>1, <2>2
<1>3. QED
  BY <1>2

LEMMA LinearBehind ==
  ASSUME NEW dim \in Nat, NEW ends \in Ends(dim), NEW j \in 0 .. dim - 1
  PROVE  j \in Within(LinRange(ends, dim)) <=> \A b \in DOMAIN ends : ~(j < ends[b])
<1>1. /\ Len(ends) \in Nat /\ DOMAIN ends = 1 .. Len(ends)
      /\ \A b \in DOMAIN ends : ends[b] \in 1 .. dim
      /\ \A a, b \in DOMAIN ends : a <= b => ends[a] <= ends[b]
      /\ \A a, b \in DOMAIN ends : a < b => ends[a] < ends[b]
      /\ ends \in Seq(1 .. dim)
  BY EndsFields
<1>2. CASE ends = <<>>
  BY <1>1, <1>2 DEF Within, LinRange
<1>3. CASE ends # <<>>
  <2>1. Len(ends) \in DOMAIN ends /\ Last(ends) = ends[Len(ends)] /\ Last(ends) \in 1 .. dim
    BY <1>1, <1>3 DEF Last
  <2>2. j \in Within(LinRange(ends, dim)) <=> ~(j < Last(ends))
    BY <1>3, <2>1 DEF Within, LinRange
  <2>3. ASSUME ~(j < Last(ends)), NEW b \in DOMAIN ends PROVE ~(j < ends[b])
    <3>1. ends[b] <= Last(ends) /\ ends[b] \in Nat
      BY <1>1, <2>1
    <3>2. QED
      BY <2>1, <2>3, <3>1
  <2>4. QED
    BY <2>1, <2>2, <2>3
<1>4. QED
  BY <1>2, <1>3

LEMMA ProjectedStructure ==
  ASSUME NEW fixed \in SUBSET (0 .. QnDim - 1), NEW ends \in Ends(QnDim), NEW projected,
         NEW dim \in Nat, dim = Cardinality(Free(fixed)),
         projected \in Ends(dim), Cuts(projected, ends, InOrder(Free(fixed)), dim)
  PROVE  LET free == InOrder(Free(fixed))
         IN /\ \A b \in DOMAIN projected : Within(BlockRange(projected, b)) # {}
            /\ \A k, l \in 1 .. dim :
                 /\ BlockOf(projected, k - 1) = BlockOf(projected, l - 1)
                      <=> BlockOf(ends, free[k]) = BlockOf(ends, free[l])
                 /\ k - 1 \in Within(LinRange(projected, dim))
                      <=> free[k] \in Within(LinRange(ends, QnDim))
<1> DEFINE free == InOrder(Free(fixed))
<1>1. QnDim \in Nat /\ Free(fixed) \in SUBSET (0 .. QnDim - 1)
  BY QnAssumption DEF Free
<1>2. free \in [1 .. dim -> Free(fixed)]
  BY FreeVariables, Enumeration
<1> HIDE DEF free
<1>3. \A k \in 1 .. dim : free[k] \in 0 .. QnDim - 1 /\ free[k] \in Nat /\ k - 1 \in Nat /\ k - 1 \in 0 .. dim - 1
  BY <1>1, <1>2
<1>4. /\ \A b \in DOMAIN projected : \E c \in DOMAIN ends :
           \A k \in 1 .. dim : k - 1 < projected[b] <=> free[k] < ends[c]
      /\ \A c \in DOMAIN ends :
           \/ \A k \in 1 .. dim : ~(free[k] < ends[c])
           \/ \E b \in DOMAIN projected : \A k \in 1 .. dim : k - 1 < projected[b] <=> free[k] < ends[c]
  BY DEF Cuts, free
<1>5. ASSUME NEW k \in 1 .. dim, NEW l \in 1 .. dim
      PROVE  BlockOf(projected, k - 1) = BlockOf(projected, l - 1)
               <=> BlockOf(ends, free[k]) = BlockOf(ends, free[l])
  <2>1. BlockOf(projected, k - 1) = BlockOf(projected, l - 1)
          <=> \A b \in DOMAIN projected : k - 1 < projected[b] <=> l - 1 < projected[b]
    BY <1>3, SameBlock
  <2>2. BlockOf(ends, free[k]) = BlockOf(ends, free[l])
          <=> \A c \in DOMAIN ends : free[k] < ends[c] <=> free[l] < ends[c]
    BY <1>1, <1>3, SameBlock
  <2>3. ASSUME \A b \in DOMAIN projected : k - 1 < projected[b] <=> l - 1 < projected[b],
               NEW c \in DOMAIN ends
        PROVE  free[k] < ends[c] <=> free[l] < ends[c]
    BY <1>4, <2>3
  <2>4. ASSUME \A c \in DOMAIN ends : free[k] < ends[c] <=> free[l] < ends[c],
               NEW b \in DOMAIN projected
        PROVE  k - 1 < projected[b] <=> l - 1 < projected[b]
    BY <1>4, <2>4
  <2>5. QED
    BY <2>1, <2>2, <2>3, <2>4
<1>6. ASSUME NEW k \in 1 .. dim
      PROVE  k - 1 \in Within(LinRange(projected, dim)) <=> free[k] \in Within(LinRange(ends, QnDim))
  <2>1. k - 1 \in Within(LinRange(projected, dim)) <=> \A b \in DOMAIN projected : ~(k - 1 < projected[b])
    BY <1>3, LinearBehind
  <2>2. free[k] \in Within(LinRange(ends, QnDim)) <=> \A c \in DOMAIN ends : ~(free[k] < ends[c])
    BY <1>1, <1>3, LinearBehind
  <2>3. (\A b \in DOMAIN projected : ~(k - 1 < projected[b])) <=> \A c \in DOMAIN ends : ~(free[k] < ends[c])
    BY <1>4
  <2>4. QED
    BY <2>1, <2>2, <2>3
<1>7. \A b \in DOMAIN projected : Within(BlockRange(projected, b)) # {}
  BY BlockNotEmpty
<1>8. QED
  BY <1>5, <1>6, <1>7 DEF free

\* The structure the approximation gets
LEMMA ProjectedBlocks ==
  ASSUME Typed
  PROVE  /\ ProjectedDim \in Nat /\ ProjectedDim = Cardinality(Free(qnFixed))
         /\ ProjectedEnds \in Ends(ProjectedDim)
         /\ Cuts(ProjectedEnds, qnSource, InOrder(Free(qnFixed)), ProjectedDim)
<1>1. qnFixed \in SUBSET (0 .. QnDim - 1) /\ qnSource \in Ends(QnDim)
  BY DEF Typed
<1>2. ProjectedDim = Cardinality(Free(qnFixed)) /\ ProjectedDim \in Nat
  BY <1>1, FreeVariables DEF ProjectedDim
<1>3. CASE qnFixed = {}
  <2>1. ProjectedEnds = qnSource
    BY <1>3 DEF ProjectedEnds
  <2>2. Cuts(qnSource, qnSource, InOrder(Free({})), QnDim) /\ Cardinality(Free({})) = QnDim
    BY <1>1, NothingFixed
  <2>3. QED
    BY <1>1, <1>2, <1>3, <2>1, <2>2
<1>4. CASE qnFixed # {}
  <2>1. ProjectedEnds = FixedEnds(qnSource, qnFixed)
    BY <1>4 DEF ProjectedEnds
  <2>2. QED
    BY <1>1, <1>2, <2>1, Projection
<1>5. QED
  BY <1>2, <1>3, <1>4
-----------------------------------------------------------------------------
(* The invariant                                                           *)

LEMMA InitIInv == QnInit => IInv
<1> SUFFICES ASSUME QnInit PROVE IInv
  OBVIOUS
<1>1. QnDim \in Nat /\ QnDim > 0
  BY QnAssumption
<1>2. qnFixed \in SUBSET (0 .. QnDim - 1)
  BY QnAssumption DEF QnInit
<1>3. qnSource \in Ends(QnDim)
  <2>1. CASE qnSource = <<>>
    BY <2>1 DEF Ends
  <2>2. CASE qnSource = <<QnDim>>
    <3>1. QnDim \in 1 .. QnDim
      BY <1>1
    <3>2. qnSource \in Seq(1 .. QnDim) /\ DOMAIN qnSource = 1 .. 1
      BY <2>2, <3>1
    <3>3. QED
      BY <3>2 DEF Ends
  <2>3. QED
    BY <2>1, <2>2 DEF QnInit
<1>4. DOMAIN qnBlocks = {} /\ DOMAIN qnHistory = {}
  BY DEF QnInit
<1>5. Typed
  BY <1>2, <1>3, <1>4 DEF QnInit, Typed
<1>6. Projected /\ Held
  BY <1>4 DEF QnInit, Projected, Held
<1>7. QED
  BY <1>5, <1>6 DEF IInv

\* Before the approximation is created only the structure changes.
LEMMA SourceIInv ==
  ASSUME IInv, qnStage = "structure", qnSource' \in Ends(QnDim),
         UNCHANGED <<qnStage, qnKind, qnFixed, qnEnds, qnBlocks, qnPairs, qnHistory>>
  PROVE  IInv'
<1>1. Typed'
  BY DEF IInv, Typed
<1>2. Projected'
  BY DEF Projected
<1>3. Held'
  BY DEF IInv, Held
<1>4. QED
  BY <1>1, <1>2, <1>3 DEF IInv

LEMMA PushBlockIInv == IInv /\ QnPushBlock => IInv'
<1> SUFFICES ASSUME IInv, QnPushBlock PROVE IInv'
  OBVIOUS
<1>1. qnSource \in Ends(QnDim) /\ QnDim \in Nat
  BY QnAssumption DEF IInv, Typed
<1>2. qnSource' \in Ends(QnDim)
  BY <1>1, PushedEnds DEF QnPushBlock
<1>3. QED
  BY <1>2, SourceIInv DEF QnPushBlock

LEMMA ClearIInv == IInv /\ QnClear => IInv'
<1> SUFFICES ASSUME IInv, QnClear PROVE IInv'
  OBVIOUS
<1>1. <<>> \in Ends(QnDim)
  BY DEF Ends
<1>2. QED
  BY <1>1, SourceIInv DEF QnClear

LEMMA CreateIInv == IInv /\ QnCreate => IInv'
<1> SUFFICES ASSUME IInv, QnCreate PROVE IInv'
  OBVIOUS
<1>1. ProjectedEnds \in Ends(ProjectedDim) /\ ProjectedDim \in Nat
  BY ProjectedBlocks DEF IInv
<1>2. AllAccepted(ProjectedEnds, ProjectedDim)
  BY <1>1, EndsAccepted
<1>3. qnStage' = "solve"
  BY <1>2 DEF QnCreate
<1>4. ProjectedEnds' = ProjectedEnds /\ DOMAIN ProjectedEnds \subseteq Nat
  BY <1>1, EndsFields DEF QnCreate, ProjectedEnds
<1>5. /\ DOMAIN qnBlocks' = DOMAIN ProjectedEnds /\ DOMAIN qnHistory' = DOMAIN ProjectedEnds
      /\ \A b \in DOMAIN ProjectedEnds : qnBlocks'[b] = NewBlock /\ qnHistory'[b] = <<>>
  BY DEF QnCreate
<1>6. <<>> \in Seq(Nat) /\ NewBlock \in Blocks /\ NewBlock.len = 0
  BY NewBlockTyped
<1>7. Typed'
  BY <1>3, <1>5, <1>6 DEF IInv, Typed, QnCreate
<1>8. Projected'
  BY <1>4, <1>5 DEF Projected, QnCreate
<1>9. Held'
  BY <1>5, <1>6, EmptyHolds DEF Held
<1>10. QED
  BY <1>7, <1>8, <1>9 DEF IInv

\* A push or a reset, block by block
LEMMA BlocksIInv ==
  ASSUME IInv, qnStage = "solve", UNCHANGED <<qnStage, qnKind, qnSource, qnFixed, qnEnds>>, qnPairs' \in Nat,
         DOMAIN qnBlocks' = DOMAIN qnBlocks, DOMAIN qnHistory' = DOMAIN qnBlocks,
         \A b \in DOMAIN qnBlocks :
           /\ qnBlocks'[b] \in Blocks /\ qnHistory'[b] \in Seq(Nat)
           /\ Holds(qnBlocks'[b], qnHistory'[b])
           /\ qnKind = "bfgs" => NeverTrips(qnBlocks'[b])
  PROVE  IInv'
<1>1. Typed'
  BY DEF IInv, Typed
<1>2. Projected'
  BY DEF IInv, Projected, ProjectedEnds
<1>3. Held'
  BY DEF Held
<1>4. QED
  BY <1>1, <1>2, <1>3 DEF IInv

LEMMA PushBfgsIInv == IInv /\ QnPushBfgs => IInv'
<1> SUFFICES ASSUME IInv, QnPushBfgs PROVE IInv'
  OBVIOUS
<1>1. PICK moved \in Moves : PushTouched(moved, LAMBDA block : PushBfgs(block, qnPairs + 1))
  BY DEF QnPushBfgs
<1>2. /\ DOMAIN qnBlocks' = DOMAIN qnBlocks /\ DOMAIN qnHistory' = DOMAIN qnBlocks
      /\ \A b \in DOMAIN qnBlocks :
           /\ qnBlocks'[b] = IF Touched(moved, b) THEN PushBfgs(qnBlocks[b], qnPairs + 1) ELSE qnBlocks[b]
           /\ qnHistory'[b] = IF Touched(moved, b) THEN Append(qnHistory[b], qnPairs + 1) ELSE qnHistory[b]
      /\ qnPairs' = qnPairs + 1 /\ UNCHANGED <<qnStage, qnKind, qnSource, qnFixed, qnEnds>>
  BY <1>1 DEF PushTouched
<1>3. qnStage = "solve" /\ qnKind = "bfgs" /\ qnPairs \in Nat /\ qnPairs' \in Nat
  BY <1>2 DEF IInv, Typed, QnPushBfgs, MayPush
<1>4. ASSUME NEW b \in DOMAIN qnBlocks
      PROVE  /\ qnBlocks'[b] \in Blocks /\ qnHistory'[b] \in Seq(Nat)
             /\ Holds(qnBlocks'[b], qnHistory'[b]) /\ NeverTrips(qnBlocks'[b])
  <2>1. /\ qnBlocks[b] \in Blocks /\ qnHistory[b] \in Seq(Nat) /\ qnPairs + 1 \in Nat
        /\ Holds(qnBlocks[b], qnHistory[b]) /\ NeverTrips(qnBlocks[b])
    BY <1>3 DEF IInv, Typed, Held
  <2>2. CASE Touched(moved, b)
    <3>1. /\ qnBlocks'[b] = Recomputed(Stored(qnBlocks[b], qnPairs + 1), {})
          /\ qnHistory'[b] = Append(qnHistory[b], qnPairs + 1)
      BY <1>2, <2>2 DEF PushBfgs, ComputeProducts
    <3>2. Append(qnHistory[b], qnPairs + 1) \in Seq(Nat)
      BY <2>1
    <3>3. QED
      BY <2>1, <3>1, <3>2, PushHolds
  <2>3. CASE ~Touched(moved, b)
    BY <1>2, <2>1, <2>3
  <2>4. QED
    BY <2>2, <2>3
<1>5. QED
  BY <1>2, <1>3, <1>4, BlocksIInv

LEMMA PushSr1IInv == IInv /\ QnPushSr1 => IInv'
<1> SUFFICES ASSUME IInv, QnPushSr1 PROVE IInv'
  OBVIOUS
<1>1. PICK moved \in Moves, tripped \in SUBSET (1 .. qnPairs + 1) :
        PushTouched(moved, LAMBDA block : PushSr1(block, qnPairs + 1, tripped))
  BY DEF QnPushSr1
<1>2. /\ DOMAIN qnBlocks' = DOMAIN qnBlocks /\ DOMAIN qnHistory' = DOMAIN qnBlocks
      /\ \A b \in DOMAIN qnBlocks :
           /\ qnBlocks'[b] = IF Touched(moved, b) THEN PushSr1(qnBlocks[b], qnPairs + 1, tripped) ELSE qnBlocks[b]
           /\ qnHistory'[b] = IF Touched(moved, b) THEN Append(qnHistory[b], qnPairs + 1) ELSE qnHistory[b]
      /\ qnPairs' = qnPairs + 1 /\ UNCHANGED <<qnStage, qnKind, qnSource, qnFixed, qnEnds>>
  BY <1>1 DEF PushTouched
<1>3. qnStage = "solve" /\ qnKind = "sr1" /\ qnPairs \in Nat /\ qnPairs' \in Nat
  BY <1>2 DEF IInv, Typed, QnPushSr1, MayPush
<1>4. ASSUME NEW b \in DOMAIN qnBlocks
      PROVE  /\ qnBlocks'[b] \in Blocks /\ qnHistory'[b] \in Seq(Nat)
             /\ Holds(qnBlocks'[b], qnHistory'[b])
  <2>1. /\ qnBlocks[b] \in Blocks /\ qnHistory[b] \in Seq(Nat) /\ qnPairs + 1 \in Nat
        /\ Holds(qnBlocks[b], qnHistory[b])
    BY <1>3 DEF IInv, Typed, Held
  <2>2. CASE Touched(moved, b)
    <3>1. /\ qnBlocks'[b] = Recomputed(Stored(qnBlocks[b], qnPairs + 1), tripped)
          /\ qnHistory'[b] = Append(qnHistory[b], qnPairs + 1)
      BY <1>2, <2>2 DEF PushSr1, ComputeInnerProducts
    <3>2. Append(qnHistory[b], qnPairs + 1) \in Seq(Nat)
      BY <2>1
    <3>3. QED
      BY <2>1, <3>1, <3>2, PushHolds
  <2>3. CASE ~Touched(moved, b)
    BY <1>2, <2>1, <2>3
  <2>4. QED
    BY <2>2, <2>3
<1>5. QED
  BY <1>2, <1>3, <1>4, BlocksIInv

LEMMA ResetIInv == IInv /\ QnReset => IInv'
<1> SUFFICES ASSUME IInv, QnReset PROVE IInv'
  OBVIOUS
<1>1. /\ DOMAIN qnBlocks' = DOMAIN qnBlocks /\ DOMAIN qnHistory' = DOMAIN qnBlocks
      /\ \A b \in DOMAIN qnBlocks : qnBlocks'[b] = ResetBlock(qnBlocks[b]) /\ qnHistory'[b] = <<>>
      /\ qnStage = "solve" /\ UNCHANGED <<qnStage, qnKind, qnSource, qnFixed, qnEnds, qnPairs>>
  BY DEF QnReset
<1>2. qnPairs' \in Nat
  BY <1>1 DEF IInv, Typed
<1>3. ASSUME NEW b \in DOMAIN qnBlocks
      PROVE  /\ qnBlocks'[b] \in Blocks /\ qnHistory'[b] \in Seq(Nat)
             /\ Holds(qnBlocks'[b], qnHistory'[b]) /\ NeverTrips(qnBlocks'[b])
  <2>1. ResetBlock(qnBlocks[b]) \in Blocks /\ ResetBlock(qnBlocks[b]).len = 0
    BY ResetTyped DEF IInv, Typed
  <2>2. <<>> \in Seq(Nat)
    OBVIOUS
  <2>3. QED
    BY <1>1, <2>1, <2>2, EmptyHolds
<1>4. QED
  BY <1>1, <1>2, <1>3, BlocksIInv

LEMMA NextIInv == IInv /\ [QnNext]_qnVars => IInv'
<1> SUFFICES ASSUME IInv, [QnNext]_qnVars PROVE IInv'
  OBVIOUS
<1>1. CASE UNCHANGED qnVars
  BY <1>1 DEF qnVars, IInv, Typed, Projected, ProjectedEnds, Held
<1>2. QED
  BY <1>1, PushBlockIInv, ClearIInv, CreateIInv, PushBfgsIInv, PushSr1IInv, ResetIInv DEF QnNext

\* The blocks hold the last pairs of their histories with products over
\* exactly the older ones, and their structure is the projected one
\* (bfgs_block_push, sr1_block_push, create_fixed_var_hess_struct).
THEOREM Invariance == QnSpec => []IInv
<1>1. QnInit => IInv
  BY InitIInv
<1>2. IInv /\ [QnNext]_qnVars => IInv'
  BY NextIInv
<1>3. QED
  BY <1>1, <1>2, PTL DEF QnSpec

LEMMA HeldFresh == IInv => ProductsFresh
<1> SUFFICES ASSUME IInv, NEW b \in DOMAIN qnBlocks
             PROVE  FreshProduct(BlockProduct(qnBlocks[b]), StillHeld(qnHistory[b]))
  BY DEF ProductsFresh
<1>1. /\ qnBlocks[b] \in Blocks /\ qnHistory[b] \in Seq(Nat) /\ Holds(qnBlocks[b], qnHistory[b])
      /\ qnKind \in {"bfgs", "sr1"} /\ (qnKind = "bfgs" => NeverTrips(qnBlocks[b]))
  BY DEF IInv, Typed, Held
<1>2. QED
  BY <1>1, HeldIsFresh

LEMMA ProjectedHolds == IInv => StructureProjected
<1> SUFFICES ASSUME IInv PROVE StructureProjected
  OBVIOUS
<1>1. qnStage # "failed" /\ qnFixed \in SUBSET (0 .. QnDim - 1) /\ qnSource \in Ends(QnDim)
  BY DEF IInv, Typed
<1>2. /\ ProjectedDim \in Nat /\ ProjectedDim = Cardinality(Free(qnFixed))
      /\ ProjectedEnds \in Ends(ProjectedDim)
      /\ Cuts(ProjectedEnds, qnSource, InOrder(Free(qnFixed)), ProjectedDim)
  BY ProjectedBlocks DEF IInv
<1>3. LET free == InOrder(Free(qnFixed))
      IN /\ \A b \in DOMAIN ProjectedEnds : Within(BlockRange(ProjectedEnds, b)) # {}
         /\ \A k, l \in 1 .. ProjectedDim :
              /\ BlockOf(ProjectedEnds, k - 1) = BlockOf(ProjectedEnds, l - 1)
                   <=> BlockOf(qnSource, free[k]) = BlockOf(qnSource, free[l])
              /\ k - 1 \in Within(LinRange(ProjectedEnds, ProjectedDim))
                   <=> free[k] \in Within(LinRange(qnSource, QnDim))
  BY <1>1, <1>2, ProjectedStructure
<1>4. qnStage = "solve" => qnEnds = ProjectedEnds /\ DOMAIN qnBlocks = DOMAIN qnEnds
  BY DEF IInv, Projected
<1>5. QED
  BY <1>1, <1>3, <1>4 DEF StructureProjected, Free

\* For any number of pairs kept and any steps, every product of a block is
\* computed over exactly the pairs the recursion takes before it, with the
\* scale of the latest, and no pair is stale (bfgs_compute_products,
\* sr1_compute_inner_products, *_hess_prod).
THEOREM ProductsFreshHolds == QnSpec => []ProductsFresh
<1>1. IInv => ProductsFresh
  BY HeldFresh
<1>2. QED
  BY <1>1, Invariance, PTL

\* For any block ends and any fixed variables, the projected structure is
\* accepted, has no empty block, and keeps which free variables share a
\* block and which are linear (create_fixed_var_hess_struct).
THEOREM StructureProjectedHolds == QnSpec => []StructureProjected
<1>1. IInv => StructureProjected
  BY ProjectedHolds
<1>2. QED
  BY <1>1, Invariance, PTL

\* The approximation of the Hessian has the declared structure, projected to
\* the free variables, and nothing stale in it (bfgs_push, sr1_push,
\* sleqp_fixed_var_func_create).
THEOREM QuasiNewtonSoundHolds == QnSpec => []QuasiNewtonSound
<1>1. IInv => QuasiNewtonSound
  BY HeldFresh, ProjectedHolds DEF QuasiNewtonSound
<1>2. QED
  BY <1>1, Invariance, PTL
=============================================================================
