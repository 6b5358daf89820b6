----------------------------- MODULE SparseMat ------------------------------
(***************************************************************************)
(* Sparse matrices in compressed columns (src/main/sparse/mat.c): entries  *)
(* [r, v] column by column, and ptr[c], where column c begins; entry k of  *)
(* the arrays of the source is element k + 1 of the sequence here.  A      *)
(* column is opened by MatPushCol before its entries are pushed, in        *)
(* ascending order of columns and rows; ptr of later columns is stale      *)
(* until they are opened.                                                  *)
(***************************************************************************)
EXTENDS SparseVec

CreateMat(rows, cols, nnzMax) ==
  [rows |-> rows, cols |-> cols, nnzMax |-> nnzMax,
   entries |-> <<>>, ptr |-> [c \in 0 .. cols |-> 0]]

MatNnz(m) == Len(m.entries)
MatColumn(m, c) == SubSeq(m.entries, m.ptr[c] + 1, m.ptr[c + 1])

\* sleqp_mat_value_at: the first entry of the row in the column
MatValueAt(m, r, c) ==
  LET k == SelectInSeq(MatColumn(m, c), LAMBDA e : e.r = r)
  IN IF k = 0 THEN 0 ELSE MatColumn(m, c)[k].v

MatDense(m) == [rc \in (0 .. m.rows - 1) \X (0 .. m.cols - 1) |->
                  MatValueAt(m, rc[1], rc[2])]

MatValid(m) ==
  /\ MatNnz(m) <= m.nnzMax
  /\ MatNnz(m) > 0 =>
       /\ \A c \in 0 .. m.cols - 1 :
            /\ m.ptr[c] <= m.ptr[c + 1]
            /\ \A k \in 1 .. Len(MatColumn(m, c)) : MatColumn(m, c)[k].r \in 0 .. m.rows - 1
            /\ \A k \in 1 .. Len(MatColumn(m, c)) - 1 :
                 MatColumn(m, c)[k].r < MatColumn(m, c)[k + 1].r
       /\ m.ptr[m.cols] = MatNnz(m)

MatIsLower(m) == \A c \in 0 .. m.cols - 1 : \A k \in DOMAIN MatColumn(m, c) : MatColumn(m, c)[k].r >= c
-----------------------------------------------------------------------------
MatReserve(m, nnz) == [m EXCEPT !.nnzMax = Greater(m.nnzMax, nnz)]

MatClear(m) == [m EXCEPT !.entries = <<>>, !.ptr = [c \in 0 .. m.cols |-> 0]]

\* Mutant: the pointers of new columns are not set
MatResizeStale(m, rows, cols) ==
  [m EXCEPT !.rows = rows, !.cols = cols,
            !.ptr = [c \in 0 .. cols |-> IF c <= m.cols THEN m.ptr[c] ELSE 0],
            !.entries = IF cols < m.cols THEN SubSeq(m.entries, 1, m.ptr[cols]) ELSE m.entries]

\* New columns are empty; entries of columns that go are dropped, those of
\* rows that go are not.
MatResize(m, rows, cols) ==
  [m EXCEPT !.rows = rows, !.cols = cols,
            !.ptr = [c \in 0 .. cols |-> IF c <= m.cols THEN m.ptr[c] ELSE m.ptr[m.cols]],
            !.entries = IF cols < m.cols THEN SubSeq(m.entries, 1, m.ptr[cols]) ELSE m.entries]

MatScale(m, factor) ==
  IF factor = 0 THEN MatClear(m)
  ELSE [m EXCEPT !.entries = [k \in DOMAIN m.entries |->
                                [r |-> m.entries[k].r, v |-> factor * m.entries[k].v]]]

MatPushCol(m, c) == [m EXCEPT !.ptr[c + 1] = m.ptr[c]]

MatPush(m, r, c, v) ==
  [m EXCEPT !.entries = Append(m.entries, [r |-> r, v |-> v]),
            !.ptr[c + 1] = m.ptr[c + 1] + 1]

MatPopCol(m, c) ==
  [m EXCEPT !.entries = SubSeq(m.entries, 1, MatNnz(m) - (m.ptr[c + 1] - m.ptr[c])),
            !.ptr[c + 1] = m.ptr[c]]

MatPushEntries(m, c, entries) ==
  FoldLeft(LAMBDA t, e : MatPush(t, e.r, c, e.v), m, entries)

\* sleqp_mat_push_vec, for a column that was opened and is empty
MatPushVec(m, c, x) ==
  MatPushEntries(m, c, [k \in DOMAIN x.nz |-> [r |-> x.nz[k].i, v |-> x.nz[k].v]])

\* the columns of a matrix, each changed by a function, pushed into a target
MatPushColumns(target, source, columns, change(_)) ==
  FoldLeft(LAMBDA t, k : MatPushEntries(MatPushCol(t, k - 1), k - 1,
                                        change(MatColumn(source, columns[k]))),
           target, [k \in DOMAIN columns |-> k])

ColumnsOf(m) == [k \in 1 .. m.cols |-> k - 1]

MatVstack(first, second, result) ==
  LET start == MatReserve(MatResize([result EXCEPT !.entries = <<>>],
                                    first.rows + second.rows, first.cols),
                          MatNnz(first) + MatNnz(second))
      below(entries) == [k \in DOMAIN entries |->
                           [r |-> first.rows + entries[k].r, v |-> entries[k].v]]
  IN FoldLeft(LAMBDA t, c : MatPushEntries(MatPushEntries(MatPushCol(t, c), c, MatColumn(first, c)),
                                           c, below(MatColumn(second, c))),
              start, ColumnsOf(first))

MatCopy(source, target) ==
  [MatReserve(MatClear(target), MatNnz(source))
     EXCEPT !.entries = source.entries, !.ptr = source.ptr]

\* the entries of a column without the rows in a list, moved up
KeepRows(entries, rows) ==
  LET kept == SelectSeq(entries, LAMBDA e : \A k \in DOMAIN rows : rows[k] # e.r)
  IN [k \in DOMAIN kept |-> [r |-> kept[k].r - PassedBelow(rows, kept[k].r), v |-> kept[k].v]]

MatRemoveEntries(source, target, cols, rows) ==
  LET kept == SelectSeq(ColumnsOf(source), LAMBDA c : \A k \in DOMAIN cols : cols[k] # c)
  IN MatPushColumns(MatClear(MatReserve(target, MatNnz(source))), source, kept,
                    LAMBDA entries : KeepRows(entries, rows))

MatRemoveRows(source, target, rows) == MatRemoveEntries(source, target, <<>>, rows)
MatRemoveCols(source, target, cols) == MatRemoveEntries(source, target, cols, <<>>)

\* sleqp_mat_trans: entries are counted per row, columns of the target laid
\* out by these sums, and the entries stored in the order of the source.
MatTrans(source, target) ==
  LET all == FlattenSeq([k \in 1 .. source.cols |->
                LET column == MatColumn(source, k - 1)
                IN [l \in DOMAIN column |-> [r |-> column[l].r, c |-> k - 1, v |-> column[l].v]]])
      inRow(r) == SelectSeq(all, LAMBDA e : e.r = r)
      rowSum(r) == Len(inRow(r))
      ptr[c \in 0 .. source.rows] == IF c = 0 THEN 0 ELSE ptr[c - 1] + rowSum(c - 1)
      sized == MatResize(MatReserve(MatClear(target), MatNnz(source)), source.cols, source.rows)
  IN [sized EXCEPT !.ptr = ptr,
        !.entries = FlattenSeq([k \in 1 .. source.rows |->
             LET row == inRow(k - 1) IN [l \in DOMAIN row |-> [r |-> row[l].c, v |-> row[l].v]]])]

MatMultVec(m, x) ==
  [r \in 0 .. m.rows - 1 |->
     FoldLeft(LAMBDA s, e : s + e.v * FoldLeft(LAMBDA t, f : IF f.r = r THEN t + f.v ELSE t, 0,
                                               MatColumn(m, e.i)),
              0, x.nz)]

\* Room is reserved for the columns that have entries.
MatMultVecTrans(m, x, result) ==
  LET product(c) == Dot(x, [dim |-> m.rows, nnzMax |-> m.rows,
                            nz |-> [k \in DOMAIN MatColumn(m, c) |->
                                      Entry(MatColumn(m, c)[k].r, MatColumn(m, c)[k].v)]])
      filled == {c \in 0 .. m.cols - 1 : m.ptr[c + 1] > m.ptr[c]}
      room == Reserve(Clear(result), Len(SelectSeq(ColumnsOf(m), LAMBDA c : c \in filled)))
  IN PushAll(room, SelectSeq([k \in 1 .. m.cols |-> Entry(k - 1, product(k - 1))],
                             LAMBDA e : e.v # 0))

\* sleqp_mat_col
MatCol(m, c, x) ==
  LET column == MatColumn(m, c)
  IN PushAll(Clear(Reserve(x, Len(column))),
             [k \in DOMAIN column |-> Entry(column[k].r, column[k].v)])

\* sleqp_mat_eq walks both columns.  Without an equal row it takes the entry
\* of the first matrix while there is one, whichever row is smaller.
EqColumns(first, second) ==
  LET eq[c \in (1 .. Len(first) + 1) \X (1 .. Len(second) + 1)] ==
        IF c[1] <= Len(first) /\ c[2] <= Len(second) /\ first[c[1]].r = second[c[2]].r
        THEN first[c[1]].v = second[c[2]].v /\ eq[<<c[1] + 1, c[2] + 1>>]
        ELSE IF c[1] <= Len(first)
        THEN first[c[1]].v = 0 /\ eq[<<c[1] + 1, c[2]>>]
        ELSE c[2] <= Len(second) => second[c[2]].v = 0 /\ eq[<<c[1], c[2] + 1>>]
  IN eq[<<1, 1>>]
MatEq(first, second) == \A c \in 0 .. first.cols - 1 : EqColumns(MatColumn(first, c), MatColumn(second, c))
=============================================================================
