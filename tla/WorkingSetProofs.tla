-------------------------- MODULE WorkingSetProofs --------------------------
(***************************************************************************)
(* Proofs about WorkingSet for every number of variables, constraints and  *)
(* working sets.  The inductive invariant is that every structure is well  *)
(* formed: typed, with row maps and content inverse to each other, and     *)
(* with counters that count the active elements.  Each operation of the    *)
(* source preserves it (one lemma each), and the checks of                 *)
(* sleqp_working_set_valid follow from it.                                 *)
(***************************************************************************)
EXTENDS WorkingSet, FiniteSetTheorems, SequenceTheorems, TLAPS

WellFormed(w) ==
  /\ w \in WorkingSets
  /\ RowsInverse(w)
  /\ CountsMatch(w)

IInv ==
  /\ retcode \in {"okay", "internal_error"}
  /\ ws \in [Sets -> WorkingSets]
  /\ \A n \in Sets : WellFormed(ws[n])
-----------------------------------------------------------------------------
(* The types of the fields. *)
LEMMA Fields ==
  ASSUME NEW w \in WorkingSets
  PROVE  /\ w.varStates \in [Vars -> States]
         /\ w.consStates \in [Cons -> States]
         /\ w.varIndices \in [Vars -> Int]
         /\ w.consIndices \in [Cons -> Int]
         /\ w.numActiveVars \in Nat
         /\ w.numActiveCons \in Nat
         /\ w.content \in [Rows -> Int]
<1>1. w.numActiveVars \in 0 .. NumVars /\ w.numActiveCons \in 0 .. NumCons
  BY DEF WorkingSets
<1>2. w.numActiveVars \in Nat /\ w.numActiveCons \in Nat
  BY <1>1, DimensionAssumption
<1> QED
  BY <1>2 DEF WorkingSets

(* Variables, constraints and rows are numbers. *)
LEMMA Numbers ==
  /\ \A j \in Vars : j \in Int /\ 0 <= j /\ j < NumVars
  /\ \A i \in Cons : i \in Int /\ 0 <= i /\ i < NumCons
  /\ \A k \in Rows : k \in Int /\ 0 <= k /\ k < MaxSetSize
  /\ \A k \in Int : 0 <= k /\ k < MaxSetSize => k \in Rows
  /\ MaxSetSize \in Nat
BY DimensionAssumption DEF Vars, Cons, Rows, MaxSetSize

(* Resetting any typed structure makes it well formed, whatever it held. *)
LEMMA ResetWellFormed ==
  ASSUME NEW w \in WorkingSets
  PROVE  WellFormed(ResetOf(w))
<1> DEFINE r == ResetOf(w)
<1>1. r \in WorkingSets
  <2>1. /\ [j \in Vars |-> Inactive] \in [Vars -> States]
        /\ [i \in Cons |-> Inactive] \in [Cons -> States]
        /\ [j \in Vars |-> NoRow] \in [Vars -> Int]
        /\ [i \in Cons |-> NoRow] \in [Cons -> Int]
        /\ 0 \in 0 .. NumVars /\ 0 \in 0 .. NumCons
    BY DimensionAssumption DEF States, NoRow
  <2> QED
    BY <2>1 DEF ResetOf, WorkingSets
<1>2. RowsInverse(r)
  BY <1>1, DimensionAssumption
  DEF ResetOf, RowsInverse, WorkingSets, Size, MaxSetSize, Rows, Vars, Cons, Inactive, NoRow
<1>3. ActiveVars(r) = {} /\ ActiveCons(r) = {}
  BY DEF ResetOf, ActiveVars, ActiveCons, WorkingSets
<1>4. CountsMatch(r)
  BY <1>3, FS_EmptySet DEF CountsMatch, ResetOf, WorkingSets
<1> QED
  BY <1>1, <1>2, <1>4 DEF WellFormed

(* The active variables and constraints are finite sets. *)
LEMMA ActiveFinite ==
  ASSUME NEW w
  PROVE  IsFiniteSet(ActiveVars(w)) /\ IsFiniteSet(ActiveCons(w))
<1>1. IsFiniteSet(Vars) /\ IsFiniteSet(Cons)
  BY FS_Interval, DimensionAssumption DEF Vars, Cons
<1> QED
  BY <1>1, FS_Subset DEF ActiveVars, ActiveCons

(* There is room for one more element as long as one is inactive. *)
LEMMA RoomForVar ==
  ASSUME NEW w, WellFormed(w), NEW j \in Vars, w.varStates[j] = Inactive
  PROVE  w.numActiveVars < NumVars /\ Size(w) < MaxSetSize
<1>1. IsFiniteSet(Vars) /\ Cardinality(Vars) = NumVars
  BY FS_Interval, DimensionAssumption DEF Vars
<1>2. IsFiniteSet(Cons) /\ Cardinality(Cons) = NumCons
  BY FS_Interval, DimensionAssumption DEF Cons
<1>3. ActiveVars(w) \in SUBSET Vars /\ ActiveVars(w) # Vars
  BY DEF ActiveVars
<1>4. ActiveCons(w) \in SUBSET Cons
  BY DEF ActiveCons
<1>5. /\ Cardinality(ActiveVars(w)) <= NumVars
      /\ Cardinality(ActiveVars(w)) # NumVars
  BY <1>1, <1>3, FS_Subset
<1>6. Cardinality(ActiveCons(w)) <= NumCons
  BY <1>2, <1>4, FS_Subset
<1> QED
  BY <1>5, <1>6, Fields, DimensionAssumption
  DEF WellFormed, CountsMatch, Size, MaxSetSize

LEMMA RoomForCons ==
  ASSUME NEW w, WellFormed(w), NEW i \in Cons, w.consStates[i] = Inactive
  PROVE  w.numActiveCons < NumCons /\ Size(w) < MaxSetSize
<1>1. IsFiniteSet(Vars) /\ Cardinality(Vars) = NumVars
  BY FS_Interval, DimensionAssumption DEF Vars
<1>2. IsFiniteSet(Cons) /\ Cardinality(Cons) = NumCons
  BY FS_Interval, DimensionAssumption DEF Cons
<1>3. ActiveCons(w) \in SUBSET Cons /\ ActiveCons(w) # Cons
  BY DEF ActiveCons
<1>4. ActiveVars(w) \in SUBSET Vars
  BY DEF ActiveVars
<1>5. /\ Cardinality(ActiveCons(w)) <= NumCons
      /\ Cardinality(ActiveCons(w)) # NumCons
  BY <1>2, <1>3, FS_Subset
<1>6. Cardinality(ActiveVars(w)) <= NumVars
  BY <1>1, <1>4, FS_Subset
<1> QED
  BY <1>5, <1>6, Fields, DimensionAssumption
  DEF WellFormed, CountsMatch, Size, MaxSetSize
-----------------------------------------------------------------------------
(* sleqp_working_set_add_var keeps a structure well formed when its        *)
(* assertions hold.                                                        *)
LEMMA AddVarWellFormed ==
  ASSUME NEW w, WellFormed(w), NEW j \in Vars, NEW s \in ActiveStates,
         w.varStates[j] = Inactive, w.numActiveCons = 0
  PROVE  WellFormed(AddVarTo(w, j, s))
<1> DEFINE r == AddVarTo(w, j, s)
<1>1. w \in WorkingSets /\ RowsInverse(w) /\ CountsMatch(w)
  BY DEF WellFormed
<1>2. w.numActiveVars < NumVars /\ Size(w) < MaxSetSize
  BY RoomForVar
<1>3. /\ Size(w) = w.numActiveVars
      /\ w.numActiveVars \in Nat
  BY <1>1, Fields DEF Size
<1>4. r \in WorkingSets
  <2>1. /\ [w.varStates EXCEPT ![j] = s] \in [Vars -> States]
        /\ [w.varIndices EXCEPT ![j] = w.numActiveVars] \in [Vars -> Int]
        /\ [w.content EXCEPT ![Size(w)] = j] \in [Rows -> Int]
        /\ w.numActiveVars + 1 \in 0 .. NumVars
    <3>1. j \in Int
      BY Numbers
    <3>2. s \in States
      BY DEF States
    <3>3. [w.varStates EXCEPT ![j] = s] \in [Vars -> States]
      BY <1>1, <3>2, Fields
    <3>4. [w.varIndices EXCEPT ![j] = w.numActiveVars] \in [Vars -> Int]
      BY <1>1, <1>3, Fields
    <3>5. [w.content EXCEPT ![Size(w)] = j] \in [Rows -> Int]
      BY <1>1, <3>1, Fields
    <3> QED
      BY <1>2, <1>3, <3>3, <3>4, <3>5, DimensionAssumption
  <2> QED
    BY <1>1, <2>1 DEF AddVarTo, WorkingSets
<1>5. /\ r.varStates  = [w.varStates EXCEPT ![j] = s]
      /\ r.varIndices = [w.varIndices EXCEPT ![j] = w.numActiveVars]
      /\ r.content    = [w.content EXCEPT ![w.numActiveVars] = j]
      /\ r.consStates = w.consStates
      /\ r.consIndices = w.consIndices
      /\ r.numActiveVars = w.numActiveVars + 1
      /\ r.numActiveCons = 0
  BY <1>1, <1>3 DEF AddVarTo, WorkingSets
<1>6. s # Inactive
  BY DEF ActiveStates, Inactive
<1>7. RowsInverse(r)
  <2> USE <1>1, <1>2, <1>3, <1>5, <1>6, DimensionAssumption
  <2>1. Size(r) = w.numActiveVars + 1 /\ Size(r) <= MaxSetSize
    BY DEF Size, MaxSetSize
  <2>2. ASSUME NEW k \in Vars
        PROVE  \/ r.varStates[k] = Inactive /\ r.varIndices[k] = NoRow
               \/ /\ r.varStates[k] # Inactive
                  /\ r.varIndices[k] \in 0 .. r.numActiveVars - 1
                  /\ r.content[r.varIndices[k]] = k
    <3>1. CASE k = j
      BY <3>1, Fields, Numbers
    <3>2. CASE k # j
      <4>1. r.varStates[k] = w.varStates[k] /\ r.varIndices[k] = w.varIndices[k]
        BY <3>2, Fields
      <4>2. \/ w.varStates[k] = Inactive /\ w.varIndices[k] = NoRow
            \/ /\ w.varStates[k] # Inactive
               /\ w.varIndices[k] \in 0 .. w.numActiveVars - 1
               /\ w.content[w.varIndices[k]] = k
        BY DEF RowsInverse
      <4>3. ASSUME w.varIndices[k] \in 0 .. w.numActiveVars - 1
            PROVE  /\ w.varIndices[k] \in 0 .. r.numActiveVars - 1
                   /\ r.content[w.varIndices[k]] = w.content[w.varIndices[k]]
        BY <4>3, Fields, Numbers
      <4> QED
        BY <4>1, <4>2, <4>3
    <3> QED
      BY <3>1, <3>2
  <2>3. ASSUME NEW i \in Cons
        PROVE  r.consStates[i] = Inactive /\ r.consIndices[i] = NoRow
    BY DEF RowsInverse, WorkingSets, Cons, Size
  <2>4. ASSUME NEW k \in 0 .. r.numActiveVars - 1
        PROVE  r.content[k] \in Vars /\ r.varIndices[r.content[k]] = k
    <3>1. CASE k = w.numActiveVars
      <4>1. w.numActiveVars \in Rows
        BY Numbers
      <4>2. r.content[k] = j /\ r.varIndices[j] = k
        BY <3>1, <4>1, Fields
      <4> QED
        BY <4>2
    <3>2. CASE k # w.numActiveVars
      <4>1. k \in 0 .. w.numActiveVars - 1 /\ k \in Rows
        BY <3>2 DEF Rows, MaxSetSize
      <4>2. /\ w.content[k] \in Vars
            /\ w.varIndices[w.content[k]] = k
            /\ r.content[k] = w.content[k]
        BY <3>2, <4>1 DEF RowsInverse, WorkingSets
      <4>3. w.content[k] # j
        BY <4>1, <4>2 DEF RowsInverse, NoRow
      <4> QED
        BY <4>2, <4>3 DEF WorkingSets
    <3> QED
      BY <3>1, <3>2
  <2>5. r.numActiveVars .. Size(r) - 1 = {}
    BY <2>1
  <2> QED
    BY <2>1, <2>2, <2>3, <2>4, <2>5 DEF RowsInverse
<1>8. ActiveVars(r) = ActiveVars(w) \cup {j} /\ j \notin ActiveVars(w)
  BY <1>1, <1>5, <1>6 DEF ActiveVars, WorkingSets
<1>9. ActiveCons(r) = ActiveCons(w)
  BY <1>5 DEF ActiveCons
<1>10. CountsMatch(r)
  BY <1>1, <1>5, <1>8, <1>9, ActiveFinite, FS_AddElement DEF CountsMatch
<1> QED
  BY <1>4, <1>7, <1>10 DEF WellFormed

(* sleqp_working_set_add_cons keeps a structure well formed when its       *)
(* assertions hold.                                                        *)
LEMMA AddConsWellFormed ==
  ASSUME NEW w, WellFormed(w), NEW i \in Cons, NEW s \in ActiveStates,
         w.consStates[i] = Inactive
  PROVE  WellFormed(AddConsTo(w, i, s))
<1> DEFINE r == AddConsTo(w, i, s)
<1>1. w \in WorkingSets /\ RowsInverse(w) /\ CountsMatch(w)
  BY DEF WellFormed
<1>2. w.numActiveCons < NumCons /\ Size(w) < MaxSetSize
  BY RoomForCons
<1>3. /\ w.numActiveVars \in Nat /\ w.numActiveCons \in Nat
      /\ Size(w) \in Nat /\ Size(w) = w.numActiveVars + w.numActiveCons
  BY <1>1, Fields DEF Size
<1>4. r \in WorkingSets
  <2>1. /\ [w.consStates EXCEPT ![i] = s] \in [Cons -> States]
        /\ [w.consIndices EXCEPT ![i] = Size(w)] \in [Cons -> Int]
        /\ [w.content EXCEPT ![Size(w)] = NumVars + i] \in [Rows -> Int]
        /\ w.numActiveCons + 1 \in 0 .. NumCons
    <3>1. NumVars + i \in Int
      BY Numbers, DimensionAssumption
    <3>2. s \in States
      BY DEF States
    <3>3. [w.consStates EXCEPT ![i] = s] \in [Cons -> States]
      BY <1>1, <3>2, Fields
    <3>4. [w.consIndices EXCEPT ![i] = Size(w)] \in [Cons -> Int]
      BY <1>1, <1>3, Fields
    <3>5. [w.content EXCEPT ![Size(w)] = NumVars + i] \in [Rows -> Int]
      BY <1>1, <3>1, Fields
    <3> QED
      BY <1>2, <1>3, <3>3, <3>4, <3>5, DimensionAssumption
  <2> QED
    BY <1>1, <2>1 DEF AddConsTo, WorkingSets
<1>5. /\ r.varStates  = w.varStates
      /\ r.varIndices = w.varIndices
      /\ r.content    = [w.content EXCEPT ![Size(w)] = NumVars + i]
      /\ r.consStates = [w.consStates EXCEPT ![i] = s]
      /\ r.consIndices = [w.consIndices EXCEPT ![i] = Size(w)]
      /\ r.numActiveVars = w.numActiveVars
      /\ r.numActiveCons = w.numActiveCons + 1
  BY <1>1 DEF AddConsTo, WorkingSets
<1>6. s # Inactive
  BY DEF ActiveStates, Inactive
<1>7. RowsInverse(r)
  <2> USE <1>1, <1>2, <1>3, <1>5, <1>6, DimensionAssumption
  <2>1. Size(r) = Size(w) + 1 /\ Size(r) <= MaxSetSize
    BY DEF Size, MaxSetSize
  <2>i. /\ Size(w) \in Rows
        /\ r.content[Size(w)] = NumVars + i
        /\ r.consStates[i] = s
        /\ r.consIndices[i] = Size(w)
    <3>1. Size(w) \in Rows
      BY Numbers
    <3> QED
      BY <3>1, Fields
  <2>2. ASSUME NEW j \in Vars
        PROVE  \/ r.varStates[j] = Inactive /\ r.varIndices[j] = NoRow
               \/ /\ r.varStates[j] # Inactive
                  /\ r.varIndices[j] \in 0 .. r.numActiveVars - 1
                  /\ r.content[r.varIndices[j]] = j
    <3>1. \/ w.varStates[j] = Inactive /\ w.varIndices[j] = NoRow
          \/ /\ w.varStates[j] # Inactive
             /\ w.varIndices[j] \in 0 .. w.numActiveVars - 1
             /\ w.content[w.varIndices[j]] = j
      BY DEF RowsInverse
    <3>2. ASSUME w.varIndices[j] \in 0 .. w.numActiveVars - 1
          PROVE  r.content[w.varIndices[j]] = w.content[w.varIndices[j]]
      <4>1. w.varIndices[j] \in Rows /\ w.varIndices[j] # Size(w)
        BY <3>2, Numbers
      <4> QED
        BY <4>1, Fields
    <3> QED
      BY <3>1, <3>2
  <2>3. ASSUME NEW k \in Cons
        PROVE  \/ r.consStates[k] = Inactive /\ r.consIndices[k] = NoRow
               \/ /\ r.consStates[k] # Inactive
                  /\ r.consIndices[k] \in r.numActiveVars .. Size(r) - 1
                  /\ r.content[r.consIndices[k]] = NumVars + k
    <3>1. CASE k = i
      BY <2>1, <2>i, <3>1
    <3>2. CASE k # i
      <4>1. /\ r.consStates[k] = w.consStates[k]
            /\ r.consIndices[k] = w.consIndices[k]
        BY <3>2, Fields
      <4>2. \/ w.consStates[k] = Inactive /\ w.consIndices[k] = NoRow
            \/ /\ w.consStates[k] # Inactive
               /\ w.consIndices[k] \in w.numActiveVars .. Size(w) - 1
               /\ w.content[w.consIndices[k]] = NumVars + k
        BY DEF RowsInverse
      <4>3. ASSUME w.consIndices[k] \in w.numActiveVars .. Size(w) - 1
            PROVE  /\ w.consIndices[k] \in r.numActiveVars .. Size(r) - 1
                   /\ r.content[w.consIndices[k]] = w.content[w.consIndices[k]]
        BY <2>1, <4>3, Fields, Numbers
      <4> QED
        BY <4>1, <4>2, <4>3
    <3> QED
      BY <3>1, <3>2
  <2>4. ASSUME NEW k \in 0 .. r.numActiveVars - 1
        PROVE  r.content[k] \in Vars /\ r.varIndices[r.content[k]] = k
    <3>1. w.content[k] \in Vars /\ w.varIndices[w.content[k]] = k
      BY DEF RowsInverse
    <3>2. r.content[k] = w.content[k]
      <4>1. k \in Rows /\ k # Size(w)
        BY Numbers
      <4> QED
        BY <4>1, Fields
    <3> QED
      BY <3>1, <3>2
  <2>5. ASSUME NEW k \in r.numActiveVars .. Size(r) - 1
        PROVE  /\ r.content[k] - NumVars \in Cons
               /\ r.consIndices[r.content[k] - NumVars] = k
    <3>1. CASE k = Size(w)
      <4>1. i \in Int
        BY Numbers
      <4> QED
        BY <2>i, <3>1, <4>1
    <3>2. CASE k # Size(w)
      <4>1. k \in w.numActiveVars .. Size(w) - 1 /\ k \in Rows
        BY <2>1, <3>2 DEF Rows, MaxSetSize
      <4>2. /\ w.content[k] - NumVars \in Cons
            /\ w.consIndices[w.content[k] - NumVars] = k
            /\ r.content[k] = w.content[k]
        BY <3>2, <4>1 DEF RowsInverse, WorkingSets
      <4>3. w.content[k] - NumVars # i
        BY <4>1, <4>2 DEF RowsInverse, NoRow
      <4> QED
        BY <4>2, <4>3 DEF WorkingSets
    <3> QED
      BY <3>1, <3>2
  <2> QED
    BY <2>1, <2>2, <2>3, <2>4, <2>5 DEF RowsInverse
<1>8. ActiveCons(r) = ActiveCons(w) \cup {i} /\ i \notin ActiveCons(w)
  BY <1>1, <1>5, <1>6 DEF ActiveCons, WorkingSets
<1>9. ActiveVars(r) = ActiveVars(w)
  BY <1>5 DEF ActiveVars
<1>10. CountsMatch(r)
  BY <1>1, <1>5, <1>8, <1>9, ActiveFinite, FS_AddElement DEF CountsMatch
<1> QED
  BY <1>4, <1>7, <1>10 DEF WellFormed
-----------------------------------------------------------------------------
(* The inductive invariant holds initially and is kept by every operation. *)
LEMMA InitIInv == WsInit => IInv
<1> SUFFICES ASSUME WsInit PROVE IInv
  OBVIOUS
<1> DEFINE fresh(c) == [varStates  |-> [j \in Vars |-> Inactive],
                        consStates |-> [i \in Cons |-> Inactive],
                        varIndices  |-> [j \in Vars |-> NoRow],
                        consIndices |-> [i \in Cons |-> NoRow],
                        numActiveVars |-> 0,
                        numActiveCons |-> 0,
                        content |-> c]
<1>1. ASSUME NEW c \in [Rows -> Garbage]
      PROVE  fresh(c) \in WorkingSets
  <2>1. /\ [j \in Vars |-> Inactive] \in [Vars -> States]
        /\ [i \in Cons |-> Inactive] \in [Cons -> States]
        /\ [j \in Vars |-> NoRow] \in [Vars -> Int]
        /\ [i \in Cons |-> NoRow] \in [Cons -> Int]
        /\ 0 \in 0 .. NumVars /\ 0 \in 0 .. NumCons
    BY DimensionAssumption DEF States, NoRow
  <2>2. c \in [Rows -> Int]
    BY GarbageAssumption
  <2> QED
    BY <2>1, <2>2 DEF WorkingSets
<1>2. ASSUME NEW n \in Sets
      PROVE  \E c \in [Rows -> Garbage] : ws[n] = ResetOf(fresh(c))
  BY DEF WsInit
<1>3. ASSUME NEW n \in Sets
      PROVE  WellFormed(ws[n])
  BY <1>1, <1>2, ResetWellFormed
<1>4. ws \in [Sets -> WorkingSets]
  <2>1. ws = [n \in Sets |-> ws[n]]
    BY DEF WsInit
  <2> QED
    BY <2>1, <1>3 DEF WellFormed
<1> QED
  BY <1>3, <1>4 DEF WsInit, IInv

(* Replacing one structure by a well-formed one keeps all of them so. *)
LEMMA ReplaceWellFormed ==
  ASSUME IInv, NEW n \in Sets, NEW w, WellFormed(w),
         ws' = [ws EXCEPT ![n] = w], retcode' \in {"okay", "internal_error"}
  PROVE  IInv'
<1>1. w \in WorkingSets
  BY DEF WellFormed
<1>2. ws' \in [Sets -> WorkingSets]
  BY <1>1 DEF IInv
<1>3. ASSUME NEW m \in Sets
      PROVE  WellFormed(ws'[m])
  BY DEF IInv
<1>4. \A m \in Sets : WellFormed(ws'[m])
  BY <1>3
<1> QED
  BY <1>2, <1>4 DEF IInv, WellFormed, RowsInverse, CountsMatch, Size,
     ActiveVars, ActiveCons

LEMMA NextIInv == IInv /\ [WsNext]_wsVars => IInv'
<1> SUFFICES ASSUME IInv, [WsNext]_wsVars PROVE IInv'
  OBVIOUS
<1>1. ASSUME NEW n \in Sets, Reset(n)
      PROVE  IInv'
  <2>1. WellFormed(ResetOf(ws[n]))
    BY ResetWellFormed DEF IInv
  <2> QED
    BY <1>1, <2>1, ReplaceWellFormed DEF Reset
<1>2. ASSUME NEW n \in Sets, NEW j \in Vars, NEW s \in ActiveStates, AddVar(n, j, s)
      PROVE  IInv'
  <2>1. WellFormed(AddVarTo(ws[n], j, s))
    BY <1>2, AddVarWellFormed DEF AddVar, IInv
  <2> QED
    BY <1>2, <2>1, ReplaceWellFormed DEF AddVar
<1>3. ASSUME NEW n \in Sets, AddVarTooLate(n)
      PROVE  IInv'
  BY <1>3 DEF AddVarTooLate, IInv
<1>4. ASSUME NEW n \in Sets, NEW i \in Cons, NEW s \in ActiveStates, AddCons(n, i, s)
      PROVE  IInv'
  <2>1. WellFormed(AddConsTo(ws[n], i, s))
    BY <1>4, AddConsWellFormed DEF AddCons, IInv
  <2> QED
    BY <1>4, <2>1, ReplaceWellFormed DEF AddCons
<1>5. ASSUME NEW n \in Sets, NEW m \in Sets, Copy(n, m)
      PROVE  IInv'
  <2>1. WellFormed(ws[n])
    BY DEF IInv
  <2> QED
    BY <1>5, <2>1, ReplaceWellFormed DEF Copy
<1>6. CASE UNCHANGED wsVars
  BY <1>6 DEF wsVars, IInv
<1> QED
  BY <1>1, <1>2, <1>3, <1>4, <1>5, <1>6 DEF WsNext

(* Every reachable state satisfies the inductive invariant. *)
THEOREM Invariance == WsSpec => []IInv
<1> QED
  BY InitIInv, NextIInv, PTL DEF WsSpec
-----------------------------------------------------------------------------
(* What the inductive invariant gives. *)

(* The rows below the number of active variables are exactly the rows of   *)
(* the active variables, likewise for the constraints, so the counts that  *)
(* sleqp_working_set_valid takes over the row maps agree with those it     *)
(* takes over the states.                                                  *)
LEMMA WellFormedValid ==
  ASSUME NEW w, WellFormed(w)
  PROVE  VarRowsLead(w) /\ ConsRowsUnique(w) /\ ContentActive(w)
<1>1. w \in WorkingSets /\ RowsInverse(w) /\ CountsMatch(w)
  BY DEF WellFormed
<1>2. /\ w.numActiveVars \in Nat /\ w.numActiveCons \in Nat
      /\ Size(w) = w.numActiveVars + w.numActiveCons
  BY <1>1, Fields DEF Size
<1>3. ASSUME NEW j \in Vars
      PROVE  \/ w.varStates[j] = Inactive /\ w.varIndices[j] = NoRow
             \/ /\ w.varStates[j] # Inactive
                /\ w.varIndices[j] \in 0 .. w.numActiveVars - 1
                /\ w.content[w.varIndices[j]] = j
  BY <1>1 DEF RowsInverse
<1>4. ASSUME NEW i \in Cons
      PROVE  \/ w.consStates[i] = Inactive /\ w.consIndices[i] = NoRow
             \/ /\ w.consStates[i] # Inactive
                /\ w.consIndices[i] \in w.numActiveVars .. Size(w) - 1
                /\ w.content[w.consIndices[i]] = NumVars + i
  BY <1>1 DEF RowsInverse
<1>5. VarRowsLead(w)
  <2>1. {j \in Vars : w.varIndices[j] # NoRow} = ActiveVars(w)
    BY <1>2, <1>3 DEF ActiveVars, NoRow
  <2>2. ASSUME NEW j \in Vars, NEW k \in Vars, w.varIndices[j] # NoRow,
               w.varIndices[j] = w.varIndices[k]
        PROVE  j = k
    BY <1>3, <2>2
  <2>3. ASSUME NEW j \in Vars, w.varIndices[j] # NoRow
        PROVE  w.varIndices[j] < w.numActiveVars
    BY <1>2, <1>3, <2>3
  <2> QED
    BY <1>1, <2>1, <2>2, <2>3 DEF VarRowsLead, CountsMatch
<1>6. ConsRowsUnique(w)
  <2>1. {i \in Cons : w.consIndices[i] # NoRow} = ActiveCons(w)
    BY <1>2, <1>4 DEF ActiveCons, NoRow
  <2>2. ASSUME NEW j \in Cons, NEW k \in Cons, w.consIndices[j] # NoRow,
               w.consIndices[j] = w.consIndices[k]
        PROVE  j = k
    <3>1. NumVars + j = NumVars + k
      BY <1>4, <2>2
    <3> QED
      BY <3>1, Numbers, DimensionAssumption
  <2>3. ASSUME NEW j \in Cons, w.consIndices[j] # NoRow
        PROVE  w.consIndices[j] < Size(w)
    BY <1>2, <1>4, <2>3
  <2> QED
    BY <1>1, <2>1, <2>2, <2>3 DEF ConsRowsUnique, CountsMatch
<1>7. ContentActive(w)
  <2>1. ASSUME NEW k \in 0 .. w.numActiveVars - 1
        PROVE  /\ w.content[k] \in Vars /\ w.content[k] < NumVars
               /\ w.content[k] \in Rows
               /\ w.varStates[w.content[k]] # Inactive
               /\ w.varIndices[w.content[k]] = k
    <3>1. w.content[k] \in Vars /\ w.varIndices[w.content[k]] = k
      BY <1>1 DEF RowsInverse
    <3>2. w.varStates[w.content[k]] # Inactive
      BY <1>2, <1>3, <3>1 DEF NoRow
    <3>3. w.content[k] \in Rows /\ w.content[k] < NumVars
      BY <3>1, DimensionAssumption DEF Vars, Rows, MaxSetSize
    <3> QED
      BY <3>1, <3>2, <3>3
  <2>2. ASSUME NEW k \in w.numActiveVars .. Size(w) - 1
        PROVE  /\ w.content[k] - NumVars \in Cons /\ ~(w.content[k] < NumVars)
               /\ w.content[k] \in Rows
               /\ w.consStates[w.content[k] - NumVars] # Inactive
               /\ w.consIndices[w.content[k] - NumVars] = k
    <3>1. /\ w.content[k] - NumVars \in Cons
          /\ w.consIndices[w.content[k] - NumVars] = k
      BY <1>1 DEF RowsInverse
    <3>2. w.consStates[w.content[k] - NumVars] # Inactive
      BY <1>2, <1>4, <3>1 DEF NoRow
    <3>3. k \in Rows /\ w.content[k] \in Int
      <4>1. k \in Rows
        <5>1. Size(w) <= MaxSetSize
          BY <1>1 DEF RowsInverse
        <5> QED
          BY <1>2, <5>1, Numbers
      <4> QED
        BY <1>1, <4>1, Fields
    <3>4. w.content[k] \in Rows /\ ~(w.content[k] < NumVars)
      BY <3>1, <3>3, DimensionAssumption DEF Cons, Rows, MaxSetSize
    <3> QED
      BY <3>1, <3>2, <3>4
  <2>3. ASSUME NEW k \in 0 .. Size(w) - 1
        PROVE  \/ k \in 0 .. w.numActiveVars - 1
               \/ k \in w.numActiveVars .. Size(w) - 1
    BY <1>2
  <2>4. ASSUME NEW k \in 0 .. Size(w) - 1, NEW l \in 0 .. Size(w) - 1,
               w.content[l] = w.content[k]
        PROVE  l = k
    BY <2>1, <2>2, <2>3, <2>4
  <2>5. ASSUME NEW k \in 0 .. Size(w) - 1
        PROVE  /\ w.content[k] \in Rows
               /\ IF w.content[k] < NumVars
                  THEN w.varStates[w.content[k]] # Inactive
                  ELSE w.consStates[w.content[k] - NumVars] # Inactive
    BY <2>1, <2>2, <2>3
  <2> QED
    BY <2>4, <2>5 DEF ContentActive
<1> QED
  BY <1>5, <1>6, <1>7

(* Working sets with equal row maps have equal rows: the number of active  *)
(* elements is read off the row maps, and each row of one names the owner  *)
(* it has in the other.                                                    *)
LEMMA WellFormedEqSound ==
  ASSUME NEW v, NEW w, WellFormed(v), WellFormed(w), Eq(v, w)
  PROVE  /\ v.numActiveVars = w.numActiveVars
         /\ Size(v) = Size(w)
         /\ \A k \in 0 .. Size(v) - 1 : v.content[k] = w.content[k]
<1>1. /\ v \in WorkingSets /\ RowsInverse(v) /\ CountsMatch(v)
      /\ w \in WorkingSets /\ RowsInverse(w) /\ CountsMatch(w)
  BY DEF WellFormed
<1>2. v.varIndices = w.varIndices /\ v.consIndices = w.consIndices
  BY DEF Eq
<1>3. /\ v.numActiveVars = w.numActiveVars
      /\ v.numActiveCons = w.numActiveCons
  <2>1. /\ VarRowsLead(v) /\ ConsRowsUnique(v)
        /\ VarRowsLead(w) /\ ConsRowsUnique(w)
    BY WellFormedValid
  <2>2. /\ v.numActiveVars = Cardinality({j \in Vars : v.varIndices[j] # NoRow})
        /\ w.numActiveVars = Cardinality({j \in Vars : w.varIndices[j] # NoRow})
        /\ v.numActiveCons = Cardinality({i \in Cons : v.consIndices[i] # NoRow})
        /\ w.numActiveCons = Cardinality({i \in Cons : w.consIndices[i] # NoRow})
    BY <2>1 DEF VarRowsLead, ConsRowsUnique
  <2> QED
    BY <1>2, <2>2
<1>4. /\ v.numActiveVars \in Nat /\ v.numActiveCons \in Nat
      /\ Size(v) = v.numActiveVars + v.numActiveCons
      /\ Size(w) = Size(v)
  BY <1>1, <1>3, Fields DEF Size
<1>5. ASSUME NEW k \in 0 .. v.numActiveVars - 1
      PROVE  v.content[k] = w.content[k]
  <2>1. v.content[k] \in Vars /\ v.varIndices[v.content[k]] = k
    BY <1>1 DEF RowsInverse
  <2>2. w.varIndices[v.content[k]] \in 0 .. w.numActiveVars - 1
    BY <1>2, <1>3, <2>1
  <2>3. w.content[w.varIndices[v.content[k]]] = v.content[k]
    BY <1>1, <2>1, <2>2 DEF RowsInverse, NoRow
  <2> QED
    BY <1>2, <2>1, <2>3
<1>6. ASSUME NEW k \in v.numActiveVars .. Size(v) - 1
      PROVE  v.content[k] = w.content[k]
  <2> DEFINE i == v.content[k] - NumVars
  <2>1. i \in Cons /\ v.consIndices[i] = k
    BY <1>1 DEF RowsInverse
  <2>2. w.consIndices[i] = k /\ w.consIndices[i] # NoRow
    BY <1>2, <1>4, <2>1 DEF NoRow
  <2>3. w.content[k] = NumVars + i
    BY <1>1, <2>1, <2>2 DEF RowsInverse
  <2>4. k \in Rows
    <3>1. Size(v) <= MaxSetSize
      BY <1>1 DEF RowsInverse
    <3> QED
      BY <1>4, <3>1, Numbers
  <2>5. v.content[k] \in Int
    BY <1>1, <2>4, Fields
  <2> QED
    BY <2>3, <2>5, DimensionAssumption
<1> QED
  BY <1>3, <1>4, <1>5, <1>6

(* Working sets keep their types. *)
THEOREM TypeCorrect == WsSpec => []WsTypeOK
<1>1. IInv => WsTypeOK
  BY DEF IInv, WsTypeOK
<1> QED
  BY <1>1, Invariance, PTL

(* Every check of sleqp_working_set_valid that the code establishes holds  *)
(* after every operation, on problems of every size.                       *)
THEOREM ValidHolds == WsSpec => []Valid
<1>1. IInv => Valid
  BY WellFormedValid DEF IInv, Valid, WellFormed
<1> QED
  BY <1>1, Invariance, PTL

(* The row maps and the content stay inverse to each other. *)
THEOREM RowMapsAgreeHolds == WsSpec => []RowMapsAgree
<1>1. ASSUME IInv
      PROVE  RowMapsAgree
  <2>1. ASSUME NEW n \in Sets
        PROVE  RowsInverse(ws[n])
    BY <1>1 DEF IInv, WellFormed
  <2> QED
    BY <2>1 DEF RowMapsAgree
<1> QED
  BY <1>1, Invariance, PTL

(* Equality of row maps, all that sleqp_working_set_eq looks at, is        *)
(* equality of the rows of the linear systems.                             *)
THEOREM EqSoundHolds == WsSpec => []EqSound
<1>1. IInv => EqSound
  BY WellFormedEqSound DEF IInv, EqSound
<1> QED
  BY <1>1, Invariance, PTL
-----------------------------------------------------------------------------
(***************************************************************************)
(* WorkingSet implements ActiveSet, for every number of variables,         *)
(* constraints and working sets: under the mapping that reads states and   *)
(* leading rows of a structure, every operation is the operation of the    *)
(* same name on an ordered set of active elements, and an error return is  *)
(* a stutter.  It rests on the invariant: the row an element is added in   *)
(* is free because the counters count.                                     *)
(***************************************************************************)

\* the abstract state and order of one structure
StateOf(w) == [e \in Rows |-> IF e < NumVars THEN w.varStates[e] ELSE w.consStates[e - NumVars]]
OrderOf(w) == [r \in 1 .. Size(w) |-> w.content[r - 1]]
-----------------------------------------------------------------------------
(* The mapping, structure by structure.                                    *)
LEMMA MappedBySet ==
  /\ activeState = [n \in Sets |-> StateOf(ws[n])]
  /\ rowOrder = [n \in Sets |-> OrderOf(ws[n])]
BY DEF activeState, rowOrder, StateOf, OrderOf

(* Elements are variables or, shifted by the number of those, constraints. *)
LEMMA Elements ==
  /\ \A j \in Vars : j \in Rows /\ j < NumVars
  /\ \A i \in Cons : NumVars + i \in Rows /\ ~(NumVars + i < NumVars) /\ (NumVars + i) - NumVars = i
  /\ \A e \in Rows : e \in Int /\ (e < NumVars => e \in Vars)
                               /\ (~(e < NumVars) => e - NumVars \in Cons)
BY DimensionAssumption DEF Vars, Cons, Rows, MaxSetSize

(* A structure that was reset has no active elements and no rows.          *)
LEMMA ResetMapped ==
  ASSUME NEW w \in WorkingSets
  PROVE  StateOf(ResetOf(w)) = [e \in Rows |-> Inactive] /\ OrderOf(ResetOf(w)) = << >>
<1> DEFINE r == ResetOf(w)
<1>1. /\ r.varStates = [j \in Vars |-> Inactive] /\ r.consStates = [i \in Cons |-> Inactive]
      /\ r.numActiveVars = 0 /\ r.numActiveCons = 0
  BY DEF ResetOf, WorkingSets
<1> HIDE DEF r
<1>2. StateOf(r) = [e \in Rows |-> Inactive]
  BY <1>1, Elements DEF StateOf
<1>3. Size(r) = 0
  BY <1>1 DEF Size
<1>4. OrderOf(r) = << >>
  BY <1>3 DEF OrderOf
<1> QED
  BY <1>2, <1>4 DEF r

(* The rows in use are a sequence of elements.                             *)
LEMMA OrderIsSequence ==
  ASSUME NEW w, WellFormed(w)
  PROVE  Size(w) \in Nat /\ OrderOf(w) \in Seq(Int) /\ Len(OrderOf(w)) = Size(w)
<1>1. Size(w) \in Nat /\ Size(w) <= MaxSetSize
  BY Fields DEF WellFormed, RowsInverse, Size
<1>2. \A r \in 1 .. Size(w) : w.content[r - 1] \in Int
  BY <1>1, Fields, Numbers DEF WellFormed
<1> QED
  BY <1>1, <1>2 DEF OrderOf

(* Writing the first unused row appends to the order.                      *)
LEMMA AppendedRow ==
  ASSUME NEW w, WellFormed(w), NEW x \in Int, NEW v,
         Size(w) \in Rows, Size(v) = Size(w) + 1,
         v.content = [w.content EXCEPT ![Size(w)] = x]
  PROVE  OrderOf(v) = Append(OrderOf(w), x)
<1> DEFINE a == Append(OrderOf(w), x)
<1>1. Size(w) \in Nat /\ OrderOf(w) \in Seq(Int) /\ Len(OrderOf(w)) = Size(w)
  BY OrderIsSequence
<1>2. /\ a \in Seq(Int) /\ Len(a) = Size(w) + 1 /\ a[Size(w) + 1] = x
      /\ \A r \in 1 .. Size(w) : a[r] = OrderOf(w)[r]
  BY <1>1, AppendProperties
<1>3. a \in [1 .. Size(w) + 1 -> Int]
  BY <1>2, LenProperties
<1> HIDE DEF a
<1>4. ASSUME NEW r \in 1 .. Size(w) + 1
      PROVE  v.content[r - 1] = a[r]
  <2>1. CASE r = Size(w) + 1
    BY <1>1, <1>2, <2>1, Fields DEF WellFormed
  <2>2. CASE r # Size(w) + 1
    <3>1. r \in 1 .. Size(w) /\ r - 1 \in Rows /\ r - 1 # Size(w)
      BY <1>1, <2>2, Numbers
    <3> QED
      BY <1>2, <3>1, Fields DEF WellFormed, OrderOf
  <2> QED
    BY <2>1, <2>2
<1> QED
  BY <1>3, <1>4 DEF OrderOf, a

(* Adding a variable activates it and appends it to the order.             *)
LEMMA AddVarMapped ==
  ASSUME NEW w, WellFormed(w), NEW j \in Vars, NEW s \in ActiveStates,
         w.varStates[j] = Inactive
  PROVE  /\ StateOf(AddVarTo(w, j, s)) = [StateOf(w) EXCEPT ![j] = s]
         /\ OrderOf(AddVarTo(w, j, s)) = Append(OrderOf(w), j)
<1> DEFINE v == AddVarTo(w, j, s)
<1>1. w \in WorkingSets /\ Size(w) \in Nat /\ Size(w) < MaxSetSize /\ Size(w) \in Rows
  BY RoomForVar, OrderIsSequence, Numbers DEF WellFormed
<1>2. /\ v.varStates = [w.varStates EXCEPT ![j] = s] /\ v.consStates = w.consStates
      /\ v.content = [w.content EXCEPT ![Size(w)] = j]
      /\ v.numActiveVars = w.numActiveVars + 1 /\ v.numActiveCons = w.numActiveCons
  BY <1>1 DEF AddVarTo, WorkingSets
<1>3. Size(v) = Size(w) + 1
  BY <1>1, <1>2, Fields DEF Size
<1> HIDE DEF v
<1>4. StateOf(v) = [StateOf(w) EXCEPT ![j] = s]
  <2>1. ASSUME NEW e \in Rows
        PROVE  StateOf(v)[e] = [StateOf(w) EXCEPT ![j] = s][e]
    BY <1>1, <1>2, Fields, Elements DEF StateOf
  <2> QED
    BY <2>1 DEF StateOf
<1>5. OrderOf(v) = Append(OrderOf(w), j)
  BY <1>1, <1>2, <1>3, Numbers, AppendedRow
<1> QED
  BY <1>4, <1>5 DEF v

(* Adding a constraint does the same with its shifted number.              *)
LEMMA AddConsMapped ==
  ASSUME NEW w, WellFormed(w), NEW i \in Cons, NEW s \in ActiveStates,
         w.consStates[i] = Inactive
  PROVE  /\ StateOf(AddConsTo(w, i, s)) = [StateOf(w) EXCEPT ![NumVars + i] = s]
         /\ OrderOf(AddConsTo(w, i, s)) = Append(OrderOf(w), NumVars + i)
<1> DEFINE v == AddConsTo(w, i, s)
<1>1. w \in WorkingSets /\ Size(w) \in Nat /\ Size(w) < MaxSetSize /\ Size(w) \in Rows
  BY RoomForCons, OrderIsSequence, Numbers DEF WellFormed
<1>2. /\ v.consStates = [w.consStates EXCEPT ![i] = s] /\ v.varStates = w.varStates
      /\ v.content = [w.content EXCEPT ![Size(w)] = NumVars + i]
      /\ v.numActiveCons = w.numActiveCons + 1 /\ v.numActiveVars = w.numActiveVars
  BY <1>1 DEF AddConsTo, WorkingSets
<1>3. Size(v) = Size(w) + 1
  BY <1>1, <1>2, Fields DEF Size
<1> HIDE DEF v
<1>4. StateOf(v) = [StateOf(w) EXCEPT ![NumVars + i] = s]
  <2>1. ASSUME NEW e \in Rows
        PROVE  StateOf(v)[e] = [StateOf(w) EXCEPT ![NumVars + i] = s][e]
    <3>1. CASE e < NumVars
      <4>1. e # NumVars + i
        BY <3>1, Elements
      <4> QED
        BY <1>2, <3>1, <4>1 DEF StateOf
    <3>2. CASE ~(e < NumVars)
      <4>1. e - NumVars \in Cons /\ (e - NumVars = i <=> e = NumVars + i)
        BY <3>2, Elements, Numbers, DimensionAssumption
      <4>2. v.consStates[e - NumVars] = IF e - NumVars = i THEN s ELSE w.consStates[e - NumVars]
        BY <1>1, <1>2, <4>1, Fields
      <4> QED
        BY <3>2, <4>1, <4>2 DEF StateOf
    <3> QED
      BY <3>1, <3>2
  <2> QED
    BY <2>1 DEF StateOf
<1>5. OrderOf(v) = Append(OrderOf(w), NumVars + i)
  BY <1>1, <1>2, <1>3, Numbers, AppendedRow, DimensionAssumption
<1> QED
  BY <1>4, <1>5 DEF v

(* An operation on one structure is one on its state and order.            *)
LEMMA OneSetMapped ==
  ASSUME IInv, NEW n \in Sets, NEW w, ws' = [ws EXCEPT ![n] = w]
  PROVE  /\ activeState' = [activeState EXCEPT ![n] = StateOf(w)]
         /\ rowOrder' = [rowOrder EXCEPT ![n] = OrderOf(w)]
         /\ activeState[n] = StateOf(ws[n]) /\ rowOrder[n] = OrderOf(ws[n])
<1>1. /\ activeState' = [m \in Sets |-> StateOf(ws'[m])]
      /\ rowOrder' = [m \in Sets |-> OrderOf(ws'[m])]
  BY DEF activeState, rowOrder, StateOf, OrderOf, Size
<1>2. \A m \in Sets : ws'[m] = IF m = n THEN w ELSE ws[m]
  BY DEF IInv
<1>3. /\ [activeState EXCEPT ![n] = StateOf(w)]
           = [m \in Sets |-> IF m = n THEN StateOf(w) ELSE StateOf(ws[m])]
      /\ [rowOrder EXCEPT ![n] = OrderOf(w)]
           = [m \in Sets |-> IF m = n THEN OrderOf(w) ELSE OrderOf(ws[m])]
  BY MappedBySet
<1>4. \A m \in Sets : /\ StateOf(ws'[m]) = IF m = n THEN StateOf(w) ELSE StateOf(ws[m])
                      /\ OrderOf(ws'[m]) = IF m = n THEN OrderOf(w) ELSE OrderOf(ws[m])
  BY <1>2
<1> QED
  BY <1>1, <1>3, <1>4, MappedBySet

-----------------------------------------------------------------------------
(* Initial states, steps and the refinement.                               *)
LEMMA InitMapped == WsInit => Abstract!Init
<1> SUFFICES ASSUME WsInit PROVE Abstract!Init
  OBVIOUS
<1>1. ASSUME NEW n \in Sets
      PROVE  StateOf(ws[n]) = [e \in Rows |-> Inactive] /\ OrderOf(ws[n]) = << >>
  <2> DEFINE fresh(c) == [varStates  |-> [j \in Vars |-> Inactive],
                          consStates |-> [i \in Cons |-> Inactive],
                          varIndices  |-> [j \in Vars |-> NoRow],
                          consIndices |-> [i \in Cons |-> NoRow],
                          numActiveVars |-> 0,
                          numActiveCons |-> 0,
                          content |-> c]
  <2>1. PICK c \in [Rows -> Garbage] : ws[n] = ResetOf(fresh(c))
    BY DEF WsInit
  <2>2. /\ ws[n].numActiveVars = 0 /\ ws[n].numActiveCons = 0
        /\ ws[n].varStates = [j \in Vars |-> Inactive]
        /\ ws[n].consStates = [i \in Cons |-> Inactive]
    BY <2>1 DEF ResetOf
  <2>3. Size(ws[n]) = 0
    BY <2>2 DEF Size
  <2>4. StateOf(ws[n]) = [e \in Rows |-> Inactive]
    BY <2>2, Elements DEF StateOf
  <2>5. OrderOf(ws[n]) = << >>
    BY <2>3 DEF OrderOf
  <2> QED
    BY <2>4, <2>5
<1> QED
  BY <1>1, MappedBySet DEF Abstract!Init, Abstract!Empty, Abstract!Inactive, Inactive

(* One case per operation: reset clears, adding activates, copying         *)
(* assigns, and a variable that comes too late changes nothing.            *)
LEMMA NextMapped == IInv /\ [WsNext]_wsVars => [Abstract!Next]_Abstract!vars
<1> SUFFICES ASSUME IInv, [WsNext]_wsVars PROVE [Abstract!Next]_Abstract!vars
  OBVIOUS
<1> USE DEF Abstract!Next, Abstract!vars
<1>1. ASSUME NEW n \in Sets, Reset(n)
      PROVE  Abstract!Next
  <2>1. ws[n] \in WorkingSets
    BY DEF IInv
  <2>2. /\ activeState' = [activeState EXCEPT ![n] = StateOf(ResetOf(ws[n]))]
        /\ rowOrder' = [rowOrder EXCEPT ![n] = OrderOf(ResetOf(ws[n]))]
    BY <1>1, OneSetMapped DEF Reset
  <2>3. Abstract!Clear(n)
    BY <2>1, <2>2, ResetMapped DEF Abstract!Clear, Abstract!Empty, Abstract!Inactive, Inactive
  <2> QED
    BY <2>3
<1>2. ASSUME NEW n \in Sets, NEW j \in Vars, NEW s \in ActiveStates, AddVar(n, j, s)
      PROVE  Abstract!Next
  <2>1. WellFormed(ws[n])
    BY DEF IInv
  <2>2. /\ activeState' = [activeState EXCEPT ![n] = [activeState[n] EXCEPT ![j] = s]]
        /\ rowOrder' = [rowOrder EXCEPT ![n] = Append(rowOrder[n], j)]
    <3>1. /\ activeState' = [activeState EXCEPT ![n] = StateOf(AddVarTo(ws[n], j, s))]
          /\ rowOrder' = [rowOrder EXCEPT ![n] = OrderOf(AddVarTo(ws[n], j, s))]
          /\ activeState[n] = StateOf(ws[n]) /\ rowOrder[n] = OrderOf(ws[n])
      BY <1>2, OneSetMapped DEF AddVar
    <3>2. /\ StateOf(AddVarTo(ws[n], j, s)) = [StateOf(ws[n]) EXCEPT ![j] = s]
          /\ OrderOf(AddVarTo(ws[n], j, s)) = Append(OrderOf(ws[n]), j)
      BY <1>2, <2>1, AddVarMapped DEF AddVar
    <3> QED
      BY <3>1, <3>2
  <2>3. activeState[n][j] = Inactive
    BY <1>2, Elements, MappedBySet DEF AddVar, StateOf
  <2>4. \A e \in Rows \ Vars : activeState[n][e] = Inactive
    <3>1. \A i \in Cons : ws[n].consStates[i] = Inactive
      BY <1>2, <2>1, Fields DEF AddVar, WellFormed, RowsInverse, Size
    <3> QED
      BY <3>1, Elements, MappedBySet DEF StateOf
  <2>5. Abstract!Activate(n, j, s)
    BY <2>2, <2>3, <2>4 DEF Abstract!Activate, Abstract!Inactive, Inactive
  <2> QED
    BY <2>5, Elements DEF ActiveStates, Abstract!ActiveStates
<1>3. ASSUME NEW n \in Sets, AddVarTooLate(n)
      PROVE  UNCHANGED Abstract!vars
  BY <1>3 DEF AddVarTooLate, activeState, rowOrder, Size
<1>4. ASSUME NEW n \in Sets, NEW i \in Cons, NEW s \in ActiveStates, AddCons(n, i, s)
      PROVE  Abstract!Next
  <2> DEFINE e == NumVars + i
  <2>1. WellFormed(ws[n]) /\ e \in Rows /\ e \notin Vars
    BY Elements DEF IInv
  <2>2. /\ activeState' = [activeState EXCEPT ![n] = [activeState[n] EXCEPT ![e] = s]]
        /\ rowOrder' = [rowOrder EXCEPT ![n] = Append(rowOrder[n], e)]
    <3>1. /\ activeState' = [activeState EXCEPT ![n] = StateOf(AddConsTo(ws[n], i, s))]
          /\ rowOrder' = [rowOrder EXCEPT ![n] = OrderOf(AddConsTo(ws[n], i, s))]
          /\ activeState[n] = StateOf(ws[n]) /\ rowOrder[n] = OrderOf(ws[n])
      BY <1>4, OneSetMapped DEF AddCons
    <3>2. /\ StateOf(AddConsTo(ws[n], i, s)) = [StateOf(ws[n]) EXCEPT ![e] = s]
          /\ OrderOf(AddConsTo(ws[n], i, s)) = Append(OrderOf(ws[n]), e)
      BY <1>4, <2>1, AddConsMapped DEF AddCons
    <3> QED
      BY <3>1, <3>2
  <2>3. activeState[n][e] = Inactive
    BY <1>4, Elements, MappedBySet DEF AddCons, StateOf
  <2> HIDE DEF e
  <2>4. Abstract!Activate(n, e, s)
    BY <2>1, <2>2, <2>3 DEF Abstract!Activate, Abstract!Inactive, Inactive
  <2> QED
    BY <2>1, <2>4 DEF ActiveStates, Abstract!ActiveStates
<1>5. ASSUME NEW n \in Sets, NEW m \in Sets, Copy(n, m)
      PROVE  Abstract!Next
  <2>1. Abstract!Assign(n, m)
    BY <1>5, OneSetMapped, MappedBySet DEF Copy, Abstract!Assign
  <2> QED
    BY <2>1
<1>6. CASE UNCHANGED wsVars
  BY <1>6 DEF wsVars, activeState, rowOrder, Size
<1> QED
  BY <1>1, <1>2, <1>3, <1>4, <1>5, <1>6 DEF WsNext

(* The working sets of the source implement ordered sets of active         *)
(* elements, variables first.                                              *)
THEOREM Implementation == WsSpec => ImplementsActiveSet
BY InitMapped, NextMapped, Invariance, PTL DEF WsSpec, ImplementsActiveSet, Abstract!Spec
=============================================================================
