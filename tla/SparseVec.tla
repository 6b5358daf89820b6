----------------------------- MODULE SparseVec ------------------------------
(***************************************************************************)
(* Sparse vectors (src/main/sparse/vec.c, preprocessor/preprocessing.c):   *)
(* a dimension, room for nnzMax entries, and the entries themselves, pairs *)
(* of an index and a value in ascending order of the indices.  Entries may *)
(* be explicit zeros.  Pushing does not check the room here: a vector with *)
(* more entries than room is what the assertion in sleqp_vec_push refuses  *)
(* and a release build writes past its arrays for.                         *)
(***************************************************************************)
EXTENDS Integers, Sequences, SequencesExt, FiniteSets, Loops

Entry(i, v) == [i |-> i, v |-> v]
CreateVec(dim, nnzMax) == [dim |-> dim, nnzMax |-> nnzMax, nz |-> <<>>]

Greater(a, b) == IF a < b THEN b ELSE a
Lesser(a, b) == IF a < b THEN a ELSE b

NnzOf(x) == Len(x.nz)
IndicesOf(x) == {x.nz[k].i : k \in DOMAIN x.nz}

\* sleqp_vec_at returns the first entry with the index
HasEntry(x, i) == \E k \in DOMAIN x.nz : x.nz[k].i = i
ValueAt(x, i) ==
  IF HasEntry(x, i)
  THEN x.nz[SelectInSeq(x.nz, LAMBDA e : e.i = i)].v
  ELSE 0

\* sleqp_vec_to_raw: a later entry of the same index wins
ToRaw(x) ==
  [i \in 0 .. x.dim - 1 |->
     LET last == SelectLastInSeq(x.nz, LAMBDA e : e.i = i)
     IN IF last = 0 THEN 0 ELSE x.nz[last].v]

ValidVec(x) ==
  /\ NnzOf(x) <= x.nnzMax
  /\ \A k \in DOMAIN x.nz : x.nz[k].i \in 0 .. x.dim - 1
  /\ \A k \in 1 .. NnzOf(x) - 1 : x.nz[k].i < x.nz[k + 1].i
-----------------------------------------------------------------------------
(* Operations on one vector                                                *)

\* entries that are zero are not pushed
NonZero(entries) == Picked(entries, {k \in DOMAIN entries : entries[k].v # 0})

Push(x, i, v) == [x EXCEPT !.nz = Append(x.nz, Entry(i, v))]
PushAll(x, entries) == [x EXCEPT !.nz = x.nz \o entries]
Clear(x) == [x EXCEPT !.nz = <<>>]
Reserve(x, room) == [x EXCEPT !.nnzMax = Greater(x.nnzMax, room)]

\* Only trailing entries are dropped, and only if the dimension shrinks
Resize(x, dim) ==
  LET last == SelectLastInSeq(x.nz, LAMBDA e : e.i < dim)
  IN [dim |-> dim, nnzMax |-> x.nnzMax,
      nz |-> IF dim < x.dim THEN SubSeq(x.nz, 1, last) ELSE x.nz]

Scale(x, factor) ==
  IF factor = 0 THEN Clear(x)
  ELSE [x EXCEPT !.nz = [k \in DOMAIN x.nz |-> Entry(x.nz[k].i, factor * x.nz[k].v)]]

\* the entries of a dense array that are not zero, in ascending order
NonZeros(values, dim) == NonZero([k \in 1 .. dim |-> Entry(k - 1, values[k - 1])])

\* set_from_raw counts, clears, resizes, reserves and pushes
SetFromRaw(x, values, dim) ==
  LET entries == NonZeros(values, dim)
  IN PushAll(Reserve(Resize(Clear(x), dim), Len(entries)), entries)

\* all entries are stored, in room for the whole dimension
Fill(x, value) ==
  IF value = 0 THEN Clear(x)
  ELSE [Reserve(x, x.dim) EXCEPT !.nz = [k \in 1 .. x.dim |-> Entry(k - 1, value)]]

CopyVec(source, target) ==
  PushAll(Clear(Reserve(target, NnzOf(source))), source.nz)

Magnitude(v) == IF v < 0 THEN -v ELSE v
OneNorm(x) == SumTo(NnzOf(x), [k \in DOMAIN x.nz |-> Magnitude(x.nz[k].v)])
NormSq(x) == SumTo(NnzOf(x), [k \in DOMAIN x.nz |-> x.nz[k].v * x.nz[k].v])
InfNorm(x) == FoldLeft(LAMBDA s, e : Greater(s, Magnitude(e.v)), 0, x.nz)

\* The loop of sleqp_vec_is_finite ends one entry early.
IsFiniteVec(x, finite(_)) == \A k \in 1 .. NnzOf(x) - 1 : finite(x.nz[k].v)
-----------------------------------------------------------------------------
(* Two or three vectors are traversed together: the smallest of the        *)
(* indices at the cursors is handled, and the cursors that stand on it are *)
(* advanced; a vector without an entry there contributes zero.  Joint is   *)
(* the sequence of what the loop body sees.                                *)

At(x, k, i) == k <= NnzOf(x) /\ x.nz[k].i = i
IndexAt(x, k) == IF k <= NnzOf(x) THEN x.nz[k].i ELSE x.dim + 1
Advance(x, k, i) == IF At(x, k, i) THEN k + 1 ELSE k
ValueOr0(x, k, i) == IF At(x, k, i) THEN x.nz[k].v ELSE 0

Joint(x, y, z) ==
  LET from[c \in (1 .. NnzOf(x) + 1) \X (1 .. NnzOf(y) + 1) \X (1 .. NnzOf(z) + 1)] ==
        LET i == Lesser(IndexAt(x, c[1]), Lesser(IndexAt(y, c[2]), IndexAt(z, c[3])))
        IN IF c[1] > NnzOf(x) /\ c[2] > NnzOf(y) /\ c[3] > NnzOf(z)
           THEN <<>>
           ELSE <<[i |-> i, x |-> ValueOr0(x, c[1], i), y |-> ValueOr0(y, c[2], i),
                            z |-> ValueOr0(z, c[3], i)]>>
                \o from[<<Advance(x, c[1], i), Advance(y, c[2], i), Advance(z, c[3], i)>>]
  IN from[<<1, 1, 1>>]

Joint2(x, y) == Joint(x, y, CreateVec(x.dim, 0))

EqVec(x, y) == \A k \in DOMAIN Joint2(x, y) : Joint2(x, y)[k].x = Joint2(x, y)[k].y

\* sleqp_vec_dot multiplies only where both have entries
Dot(x, y) ==
  LET joint == Joint2(x, y) IN SumTo(Len(joint), [k \in DOMAIN joint |-> joint[k].x * joint[k].y])

AddScaled(x, y, a, b, result) ==
  LET joint == Joint2(x, y)
      sums  == [k \in DOMAIN joint |-> Entry(joint[k].i, a * joint[k].x + b * joint[k].y)]
      room  == Reserve(Resize(Clear(result), x.dim), NnzOf(x) + NnzOf(y))
  IN PushAll(room, NonZero(sums))

IsBoxed(x, lb, ub) ==
  LET joint == Joint(x, lb, ub)
  IN \A k \in DOMAIN joint : joint[k].y <= joint[k].x /\ joint[k].x <= joint[k].z

\* Mutant: room for the entries of the vector and of one bound only
ClipLessRoom(x, lb, ub, result) ==
  LET joint   == Joint(x, lb, ub)
      clipped == [k \in DOMAIN joint |->
                    Entry(joint[k].i, Greater(Lesser(joint[k].x, joint[k].z), joint[k].y))]
      room    == Lesser(x.dim, Greater(NnzOf(lb), NnzOf(x)))
  IN PushAll(Reserve(Clear(result), room), NonZero(clipped))

Clip(x, lb, ub, result) ==
  LET joint   == Joint(x, lb, ub)
      clipped == [k \in DOMAIN joint |->
                    Entry(joint[k].i, Greater(Lesser(joint[k].x, joint[k].z), joint[k].y))]
      room    == Lesser(x.dim, Greater(NnzOf(lb), NnzOf(x)) + Greater(NnzOf(ub), NnzOf(x)))
  IN PushAll(Reserve(Clear(result), room), NonZero(clipped))

Concat(x, y, result) ==
  PushAll(Resize(Reserve(Clear(result), NnzOf(x) + NnzOf(y)), x.dim + y.dim),
          x.nz \o [k \in DOMAIN y.nz |-> Entry(y.nz[k].i + x.dim, y.nz[k].v)])
-----------------------------------------------------------------------------
(* Index arithmetic of the preprocessor: a list of indices, in ascending   *)
(* order, is taken out of a vector or put back into one.  Each loop keeps  *)
(* a cursor into the list, which is also the offset between the indices.   *)

\* a set of indices as a list
IndicesBelow(n) == [k \in 1 .. n |-> k - 1]
Ascending(S, n) == Picked(IndicesBelow(n), {k \in 1 .. n : k - 1 \in S})

\* how far the cursor moves on: past the indices below an index
PassedBelow(indices, i) == Cardinality({k \in DOMAIN indices : indices[k] < i})

RemoveEntries(source, target, indices) ==
  LET kept == Picked(source.nz, {k \in DOMAIN source.nz : \A l \in DOMAIN indices : indices[l] # source.nz[k].i})
  IN PushAll(Reserve(Clear(target), NnzOf(source)),
             [k \in DOMAIN kept |->
                Entry(kept[k].i - PassedBelow(indices, kept[k].i), kept[k].v)])

\* the cursor after the inner loop: an index is passed while it is not
\* above that of the entry, shifted by what was passed so far
Passed(indices, cursor, i) ==
  CHOOSE c \in cursor .. Len(indices) :
    /\ \A d \in cursor .. c - 1 : indices[d + 1] <= i + d
    /\ c = Len(indices) \/ i + c < indices[c + 1]

\* the cursor after each entry
Cursors(nz, indices) ==
  LET cursor[k \in 0 .. Len(nz)] == IF k = 0 THEN 0 ELSE Passed(indices, cursor[k - 1], nz[k].i)
  IN cursor

\* sleqp_preprocessing_merge_entries: fixed is a sequence of entries
MergeEntries(source, target, fixed) ==
  LET n == NnzOf(source)
      cursor == Cursors(source.nz, [k \in DOMAIN fixed |-> fixed[k].i])
      out[k \in 0 .. n] ==
        IF k = 0 THEN <<>>
        ELSE out[k - 1] \o SubSeq(fixed, cursor[k - 1] + 1, cursor[k])
                        \o <<Entry(source.nz[k].i + cursor[k], source.nz[k].v)>>
  IN PushAll(Reserve(Clear(target), n + Len(fixed)), out[n] \o SubSeq(fixed, cursor[n] + 1, Len(fixed)))

\* sleqp_preprocessing_add_zero_entries
AddZeroEntries(source, target, indices) ==
  LET cursor == Cursors(source.nz, indices)
  IN PushAll(Reserve(Clear(target), NnzOf(source)),
             [k \in DOMAIN source.nz |-> Entry(source.nz[k].i + cursor[k], source.nz[k].v)])
=============================================================================
