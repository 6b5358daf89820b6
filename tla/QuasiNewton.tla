----------------------------- MODULE QuasiNewton -----------------------------
(***************************************************************************)
(* The Hessian structure (hess_struct.c), its projection when variables    *)
(* are fixed (preprocessor/fixed_var_func.c), and the limited-memory       *)
(* approximations of its blocks (quasi_newton/bfgs.c, sr1.c).              *)
(*                                                                         *)
(* Pairs of steps and gradient differences are numbered; the products of   *)
(* a ring slot are represented by what they were computed from.            *)
(***************************************************************************)
EXTENDS Integers, Sequences, SequencesExt, FiniteSets

CONSTANTS
  QnDim,        \* variables of the function
  QnNum,        \* the number of pairs kept (num)
  QnFixedSets,  \* sets of variables the preprocessor fixes
  QnMaxPairs    \* bound on the steps that are pushed

ASSUME QnAssumption ==
  /\ QnDim \in Nat \ {0} /\ QnNum \in Nat \ {0} /\ QnMaxPairs \in Nat
  /\ QnFixedSets \subseteq SUBSET (0 .. QnDim - 1)

VARIABLES
  qnStage,      \* "structure", "solve" or "failed"
  qnKind,       \* "bfgs" or "sr1"
  qnSource,     \* block ends of the user's structure
  qnFixed,      \* the fixed variables
  qnEnds,       \* block ends of the structure the approximation works on
  qnBlocks,     \* the blocks [slots, len, curr]
  qnPairs,      \* number of steps so far
  qnHistory     \* per block: the pairs pushed since the last reset

qnVars == <<qnStage, qnKind, qnSource, qnFixed, qnEnds, qnBlocks, qnPairs, qnHistory>>
-----------------------------------------------------------------------------
(* hess_struct.c                                                           *)

BlockAccepted(ends, dim, end) ==
  /\ end <= dim
  /\ Len(ends) < dim
  /\ ends # <<>> => end > Last(ends)

BlockRange(ends, b) == [begin |-> IF b > 1 THEN ends[b - 1] ELSE 0, end |-> ends[b]]
LinRange(ends, dim) == [begin |-> IF ends = <<>> THEN 0 ELSE Last(ends), end |-> dim]
Within(range) == range.begin .. range.end - 1

\* The numbers of S in ascending order
InOrder(S) ==
  CHOOSE s \in [1 .. Cardinality(S) -> S] : \A i, j \in DOMAIN s : i < j => s[i] < s[j]

\* sleqp_hess_struct_copy, and every loop that pushes one block after the
\* other: the first block that is not accepted ends it with an error.
AllAccepted(ends, dim) ==
  \A b \in DOMAIN ends : BlockAccepted(SubSeq(ends, 1, b - 1), dim, ends[b])

\* Mutant: a fixed variable at the end of a block counts as one below it
FixedEndsOneMore(ends, fixed) ==
  LET moved(b) == IF b = 0 THEN 0 ELSE ends[b] - Cardinality(fixed \cap 0 .. ends[b])
      pushed == InOrder({b \in DOMAIN ends : moved(b - 1) # moved(b)})
  IN [k \in DOMAIN pushed |-> moved(pushed[k])]

\* create_fixed_var_hess_struct: ends move down by the variables that are
\* fixed below, and blocks that become empty are left out.
FixedEnds(ends, fixed) ==
  LET moved(b) == IF b = 0 THEN 0 ELSE ends[b] - Cardinality(fixed \cap 0 .. ends[b] - 1)
      pushed == InOrder({b \in DOMAIN ends : moved(b - 1) # moved(b)})
  IN [k \in DOMAIN pushed |-> moved(pushed[k])]
-----------------------------------------------------------------------------
(* A block: a ring of QnNum slots                                          *)

EmptySlot == [pair |-> 0, over |-> <<>>, scale |-> 0, tripped |-> FALSE]
NewBlock == [slots |-> [i \in 0 .. QnNum - 1 |-> EmptySlot], len |-> 0, curr |-> -1]

\* data_index, with the negative remainders of C brought back into the ring
PairIndex(block, i) == IF block.len = 0 THEN 0 ELSE i % QnNum

\* The loops run from the oldest pair to the latest one: the slot of the
\* k-th of them.
First(block) == block.curr - block.len + 1
SlotAt(block, k) == PairIndex(block, First(block) + k - 1)
PairAt(block, k) == block.slots[SlotAt(block, k)].pair

\* Mutant: products are computed for the latest pair only
ComputeProductsLatest(block) ==
  [block EXCEPT !.slots[block.curr] =
     [pair |-> @.pair, over |-> [i \in 1 .. block.len - 1 |-> PairAt(block, i)], scale |-> @.pair,
      tripped |-> FALSE]]

\* All products are computed again, with the initial scale of the latest
\* pair: that of the k-th pair over the older ones, passing over those
\* whose safeguard has tripped.
Recomputed(block, tripped) ==
  LET product(k) == [pair |-> PairAt(block, k),
                     over |-> [i \in {i \in 1 .. k - 1 : PairAt(block, i) \notin tripped} |-> PairAt(block, i)],
                     scale |-> block.slots[block.curr].pair,
                     tripped |-> PairAt(block, k) \in tripped]
      pairsIn(slot) == {k \in 1 .. block.len : SlotAt(block, k) = slot}
  IN [block EXCEPT !.slots =
        [i \in DOMAIN @ |-> IF pairsIn(i) = {} THEN @[i] ELSE product(CHOOSE k \in pairsIn(i) : TRUE)]]

\* bfgs_compute_products has no safeguard of this kind,
\* sr1_compute_inner_products tests it again for every pair.
ComputeProducts(block) == Recomputed(block, {})
ComputeInnerProducts(block, tripped) == Recomputed(block, tripped)

\* the slot after the current one takes the pair
Stored(block, pair) ==
  LET next == PairIndex(block, block.curr + 1)
  IN [slots |-> [block.slots EXCEPT ![next].pair = pair],
      len |-> IF block.len < QnNum THEN block.len + 1 ELSE block.len,
      curr |-> next]
PushBfgs(block, pair) == ComputeProducts(Stored(block, pair))
PushSr1(block, pair, tripped) == ComputeInnerProducts(Stored(block, pair), tripped)

ResetBlock(block) == [block EXCEPT !.len = 0]

\* bfgs_hess_prod, sr1_block_hess_prod: the identity if the block has no
\* information, else the scaled identity and one term per pair
ProductOver(block, used) ==
  IF block.len = 0 THEN [scale |-> 0, terms |-> <<>>]
  ELSE [scale |-> block.slots[block.curr].pair,
        terms |-> [k \in used |-> block.slots[SlotAt(block, k)]]]
BfgsProduct(block) == ProductOver(block, 1 .. block.len)
Sr1Product(block) ==
  ProductOver(block, {k \in 1 .. block.len : ~block.slots[SlotAt(block, k)].tripped})
BlockProduct(block) == IF qnKind = "bfgs" THEN BfgsProduct(block) ELSE Sr1Product(block)
-----------------------------------------------------------------------------
QnInit ==
  /\ qnStage = "structure"
  /\ qnKind \in {"bfgs", "sr1"}
  /\ qnSource \in {<<>>, <<QnDim>>}
  /\ qnFixed \in QnFixedSets
  /\ qnEnds = <<>> /\ qnBlocks = <<>>
  /\ qnPairs = 0 /\ qnHistory = <<>>

\* sleqp_hess_struct_push_block by the user; an end that does not fit is an
\* error and changes nothing.
QnPushBlock ==
  /\ qnStage = "structure"
  /\ \E end \in 1 .. QnDim + 1 :
       \/ BlockAccepted(qnSource, QnDim, end) /\ qnSource' = Append(qnSource, end)
       \/ ~BlockAccepted(qnSource, QnDim, end) /\ UNCHANGED qnSource
  /\ UNCHANGED <<qnStage, qnKind, qnFixed, qnEnds, qnBlocks, qnPairs, qnHistory>>

QnClear ==
  /\ qnStage = "structure"
  /\ qnSource' = <<>>
  /\ UNCHANGED <<qnStage, qnKind, qnFixed, qnEnds, qnBlocks, qnPairs, qnHistory>>

\* The function with fixed variables gets its structure, the quasi-Newton
\* function a copy of that one; a block that is refused ends the creation
\* with an error.
ProjectedDim == QnDim - Cardinality(qnFixed)
ProjectedEnds == IF qnFixed = {} THEN qnSource ELSE FixedEnds(qnSource, qnFixed)
QnCreate ==
  /\ qnStage = "structure"
  /\ qnStage' = IF AllAccepted(ProjectedEnds, ProjectedDim) THEN "solve" ELSE "failed"
  /\ qnEnds' = ProjectedEnds
  /\ qnBlocks' = [b \in DOMAIN ProjectedEnds |-> NewBlock]
  /\ qnHistory' = [b \in DOMAIN ProjectedEnds |-> <<>>]
  /\ UNCHANGED <<qnKind, qnSource, qnFixed, qnPairs>>

\* An accepted step, given by the variables it moves: blocks it does not
\* move get no pair.
Touched(moved, b) == moved \cap Within(BlockRange(qnEnds, b)) # {}
PushTouched(moved, push(_)) ==
  /\ qnBlocks' = [b \in DOMAIN qnBlocks |->
                    IF Touched(moved, b) THEN push(qnBlocks[b]) ELSE qnBlocks[b]]
  /\ qnHistory' = [b \in DOMAIN qnBlocks |->
                     IF Touched(moved, b) THEN Append(qnHistory[b], qnPairs + 1) ELSE qnHistory[b]]
  /\ qnPairs' = qnPairs + 1
  /\ UNCHANGED <<qnStage, qnKind, qnSource, qnFixed, qnEnds>>
Moves == SUBSET (0 .. ProjectedDim - 1)
MayPush(kind) == qnStage = "solve" /\ qnKind = kind /\ qnPairs < QnMaxPairs

QnPushBfgs ==
  /\ MayPush("bfgs")
  /\ \E moved \in Moves : PushTouched(moved, LAMBDA block : PushBfgs(block, qnPairs + 1))

\* The safeguard of SR1 may trip for any pair.
QnPushSr1 ==
  /\ MayPush("sr1")
  /\ \E moved \in Moves, tripped \in SUBSET (1 .. qnPairs + 1) :
       PushTouched(moved, LAMBDA block : PushSr1(block, qnPairs + 1, tripped))

\* sleqp_solver_reset forgets all pairs, also when another solve begins.
QnReset ==
  /\ qnStage = "solve" /\ \E b \in DOMAIN qnBlocks : qnBlocks[b].len > 0
  /\ qnBlocks' = [b \in DOMAIN qnBlocks |-> ResetBlock(qnBlocks[b])]
  /\ qnHistory' = [b \in DOMAIN qnBlocks |-> <<>>]
  /\ UNCHANGED <<qnStage, qnKind, qnSource, qnFixed, qnEnds, qnPairs>>

QnNext == QnPushBlock \/ QnClear \/ QnCreate \/ QnPushBfgs \/ QnPushSr1 \/ QnReset

QnSpec == QnInit /\ [][QnNext]_qnVars
-----------------------------------------------------------------------------
(* Properties                                                              *)

\* The pairs a block's approximation is made of
StillHeld(h) == SubSeq(h, IF Len(h) > QnNum THEN Len(h) - QnNum + 1 ELSE 1, Len(h))

\* A block's product is the recursion over its last pairs, in the order of
\* the steps: every term was computed over exactly the terms before it, and
\* with the initial scale of the latest pair.  SR1 may pass over pairs.
FreshProduct(product, kept) ==
  /\ product.scale = IF kept = <<>> THEN 0 ELSE Last(kept)
  /\ DOMAIN product.terms \subseteq DOMAIN kept
  /\ qnKind = "bfgs" => DOMAIN product.terms = DOMAIN kept
  /\ \A k \in DOMAIN product.terms :
       /\ product.terms[k].pair = kept[k]
       /\ product.terms[k].over = [i \in DOMAIN product.terms \cap 1 .. k - 1 |-> kept[i]]
       /\ product.terms[k].scale = product.scale
ProductsFresh ==
  \A b \in DOMAIN qnBlocks : FreshProduct(BlockProduct(qnBlocks[b]), StillHeld(qnHistory[b]))

\* Every block is accepted.  Free variables share a block after the
\* projection when they shared one before, the linear ones stay linear, and
\* no block is empty.
BlockOf(ends, j) == {b \in DOMAIN ends : j \in Within(BlockRange(ends, b))}
StructureProjected ==
  /\ qnStage # "failed"
  /\ qnStage = "solve" =>
       LET free == InOrder((0 .. QnDim - 1) \ qnFixed)
       IN /\ DOMAIN qnBlocks = DOMAIN qnEnds
          /\ \A b \in DOMAIN qnEnds : Within(BlockRange(qnEnds, b)) # {}
          /\ \A k, l \in 1 .. ProjectedDim :
               /\ BlockOf(qnEnds, k - 1) = BlockOf(qnEnds, l - 1)
                    <=> BlockOf(qnSource, free[k]) = BlockOf(qnSource, free[l])
               /\ k - 1 \in Within(LinRange(qnEnds, ProjectedDim))
                    <=> free[k] \in Within(LinRange(qnSource, QnDim))

\* The approximation of the Hessian has the structure the user declared and
\* nothing stale in it.
QuasiNewtonSound == ProductsFresh /\ StructureProjected
=============================================================================
