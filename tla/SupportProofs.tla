---------------------------- MODULE SupportProofs ----------------------------
(***************************************************************************)
(* What the solver is supported by: the callback handlers of Callbacks.tla,*)
(* the timers of Timers.tla and the preprocessor of Preprocessor.tla.      *)
(*                                                                         *)
(* Callbacks, for any of them and any number of registrations, removals    *)
(* and dispatches.  A registration only ever moves to a lower slot, while  *)
(* a dispatch only goes on to higher ones.  So nothing is called twice;    *)
(* and a registration that moves below the position of the dispatch, and   *)
(* would be missed, leaves fewer callbacks than the dispatch counted: it   *)
(* will ask for a vacated slot and fail, unless additions hide that.       *)
(*                                                                         *)
(* Timers, for any limits, lengths of the pieces of work and times of the  *)
(* linear programs: which timers run, that the limits handed down fit what *)
(* they were taken from, and how far a solve can run over its limit.  The  *)
(* inductive invariant keeps the books of a solve: the timer of the solver *)
(* shows what the problem solver was not given, plus what its timer shows; *)
(* that timer shows what the trial point solver was not given, plus what   *)
(* the timer of the trial points shows; and so on.                         *)
(*                                                                         *)
(* The preprocessor, for any problems: each loop of the analysis is a      *)
(* recursive function over the rows, along which the invariant Counted     *)
(* keeps the counters equal to what is marked and every removal recorded   *)
(* once.  What is fixed and removed is listed in ascending order, so that  *)
(* the removal and the merge of SparseProofs.tla take primal values to the *)
(* reduced problem and back.                                               *)
(***************************************************************************)
EXTENDS Callbacks, Timers, Preprocessor, SparseProofs, FiniteSetTheorems,
        WellFoundedInduction, TLAPS

-----------------------------------------------------------------------------
(* Callbacks                                                               *)

Registrations == [key : CbKeys, serial : Nat \ {0}]
Entered == 0 .. cbSize - 1

DispatchTypes ==
  /\ cbSize \in Nat /\ cbNext \in Nat /\ cbPos \in Nat /\ cbTotal \in Nat
  /\ cbRun \in {"none", "next", "inside", "done", "failed"}
  /\ cbCalled \in Seq(Registrations)
  /\ cbLog \in Seq({"add", "remove"})

\* The array has room for the callbacks, and no slot behind them is in use.
Array ==
  /\ Capacity \in Nat /\ cbSize <= Capacity
  /\ DOMAIN cbSlots = 0 .. Capacity - 1
  /\ \A i \in Entered : cbSlots[i] \in Registrations
  /\ \A i \in DOMAIN cbSlots \ Entered : cbSlots[i] = CbNull

\* Serial numbers are used once.
Serials ==
  /\ \A i \in Entered : cbSlots[i].serial <= cbNext
  /\ \A i, j \in Entered : i # j => cbSlots[i].serial # cbSlots[j].serial
  /\ \A k \in DOMAIN cbCalled : cbCalled[k].serial <= cbNext

\* Who was called at a position is there or below, if it is registered.
CalledOnce ==
  /\ \A i \in Entered, k \in DOMAIN cbCalled : cbCalled[k] = cbSlots[i] => i < k
  /\ \A k, l \in DOMAIN cbCalled : k # l => cbCalled[k] # cbCalled[l]

Called(r, called) == \E k \in DOMAIN called : called[k] = r

\* The dispatch will not reach the size it read.
Short == "remove" \in {cbLog[k] : k \in DOMAIN cbLog} /\ cbSize < cbTotal /\ Len(cbCalled) < cbTotal

SlotReached ==
  /\ cbThroughout \subseteq Registered
  /\ cbRun = "next" => Len(cbCalled) = cbPos /\ cbPos <= cbTotal
  /\ cbRun = "inside" => Len(cbCalled) = cbPos + 1 /\ cbPos < cbTotal
  /\ Dispatching =>
       \A i \in Entered :
         cbSlots[i] \in cbThroughout =>
           /\ i < cbTotal
           /\ RefilledAfterRemoval \/ Called(cbSlots[i], cbCalled) \/ i >= Len(cbCalled) \/ Short
  /\ cbRun = "done" => RefilledAfterRemoval \/ \A r \in cbThroughout : Called(r, cbCalled)

DispatchInv == DispatchTypes /\ Array /\ Serials /\ CalledOnce /\ SlotReached
-----------------------------------------------------------------------------
LEMMA CapacityIs ==
  ASSUME NEW c \in Nat, DOMAIN cbSlots = 0 .. c - 1
  PROVE  Capacity = c
BY FS_Interval DEF Capacity

LEMMA DispatchInitInvariant == ASSUME CbInit PROVE DispatchInv
<1> USE DEF CbInit
<1>1. DOMAIN cbSlots = 0 .. 0 - 1
  OBVIOUS
<1>2. Capacity = 0
  BY <1>1, CapacityIs
<1>3. QED
  BY <1>1, <1>2 DEF DispatchInv, DispatchTypes, Array, Serials, CalledOnce, SlotReached, Entered, Registered, Dispatching

LEMMA ReservedEffect ==
  ASSUME DispatchInv
  PROVE  \E c \in Nat : /\ DOMAIN Reserved = 0 .. c - 1 /\ cbSize < c
                        /\ \A i \in Entered : Reserved[i] = cbSlots[i]
                        /\ \A i \in DOMAIN Reserved \ Entered : Reserved[i] = CbNull
<1> USE DEF DispatchInv, DispatchTypes, Array, Entered
<1>1. CASE cbSize < Capacity
  <2>1. Reserved = cbSlots
    BY <1>1 DEF Reserved
  <2>2. QED
    BY <1>1, <2>1
<1>2. CASE ~(cbSize < Capacity)
  <2> DEFINE c == IF Capacity = 0 THEN 1 ELSE 2 * Capacity
  <2>1. Reserved = [i \in 0 .. c - 1 |-> IF i \in DOMAIN cbSlots THEN cbSlots[i] ELSE CbNull]
    BY <1>2 DEF Reserved
  <2>2. c \in Nat /\ cbSize < c /\ cbSize = Capacity
    BY <1>2
  <2> HIDE DEF c
  <2>3. DOMAIN Reserved = 0 .. c - 1 /\ Entered = DOMAIN cbSlots
    BY <2>1, <2>2
  <2>4. \A i \in Entered : Reserved[i] = cbSlots[i]
    BY <2>1, <2>2
  <2>5. \A i \in DOMAIN Reserved \ Entered : Reserved[i] = CbNull
    BY <2>1, <2>2
  <2>6. QED
    BY <2>2, <2>3, <2>4, <2>5
<1>3. QED
  BY <1>1, <1>2

LEMMA AddStep == ASSUME DispatchInv, CbAdd PROVE DispatchInv'
<1>1. PICK key \in CbKeys : cbSlots' = [Reserved EXCEPT ![cbSize] = [key |-> key, serial |-> cbNext + 1]]
  BY DEF CbAdd
<1>2. PICK c \in Nat : /\ DOMAIN Reserved = 0 .. c - 1 /\ cbSize < c
                       /\ \A i \in Entered : Reserved[i] = cbSlots[i]
                       /\ \A i \in DOMAIN Reserved \ Entered : Reserved[i] = CbNull
  BY ReservedEffect
<1> DEFINE new == [key |-> key, serial |-> cbNext + 1]
<1>3. /\ cbSize' = cbSize + 1 /\ cbNext' = cbNext + 1 /\ cbRun # "next"
      /\ UNCHANGED <<cbRemovals, cbRuns, cbRun, cbPos, cbTotal, cbCalled, cbThroughout>>
      /\ cbLog' = IF cbRun = "inside" THEN Append(cbLog, "add") ELSE cbLog
      /\ cbSize \in Nat /\ cbNext \in Nat
  BY DEF CbAdd, ProgramRuns, Logged, DispatchInv, DispatchTypes
<1>4. new \in Registrations /\ new.serial = cbNext + 1
  BY <1>3 DEF Registrations
<1>5. /\ DOMAIN cbSlots' = 0 .. c - 1 /\ cbSlots'[cbSize] = new
      /\ \A i \in Entered : cbSlots'[i] = cbSlots[i]
      /\ \A i \in (0 .. c - 1) \ Entered' : cbSlots'[i] = CbNull
      /\ Entered' = Entered \cup {cbSize} /\ cbSize \notin Entered
  BY <1>1, <1>2, <1>3 DEF Entered
<1> HIDE DEF new
<1>6. DispatchTypes'
  BY <1>3 DEF DispatchInv, DispatchTypes
<1>7. Array'
  <2>1. Capacity' = c
    BY <1>5, FS_Interval DEF Capacity
  <2>2. QED
    BY <1>2, <1>3, <1>4, <1>5, <2>1 DEF DispatchInv, Array
<1>8. Serials'
  <2>1. \A i \in Entered : cbSlots[i].serial \in Nat /\ cbSlots[i].serial <= cbNext
    BY DEF DispatchInv, Serials, Array, Registrations
  <2>2. \A i \in Entered' : cbSlots'[i].serial <= cbNext'
    BY <1>3, <1>4, <1>5, <2>1
  <2>3. \A i, j \in Entered' : i # j => cbSlots'[i].serial # cbSlots'[j].serial
    BY <1>3, <1>4, <1>5, <2>1 DEF DispatchInv, Serials
  <2>4. \A k \in DOMAIN cbCalled : cbCalled[k].serial \in Nat /\ cbCalled[k].serial <= cbNext
    <3>1. \A k \in DOMAIN cbCalled : cbCalled[k] \in Registrations
      BY DEF DispatchInv, DispatchTypes
    <3>2. QED
      BY <3>1 DEF DispatchInv, Serials, Registrations
  <2>5. \A k \in DOMAIN cbCalled' : cbCalled'[k].serial <= cbNext'
    BY <1>3, <2>4
  <2>6. QED
    BY <2>2, <2>3, <2>5 DEF Serials
<1>9. CalledOnce'
  <2>1. \A k \in DOMAIN cbCalled : cbCalled[k] # new
    BY <1>3, <1>4 DEF DispatchInv, Serials, DispatchTypes, Registrations
  <2>2. QED
    BY <1>3, <1>5, <2>1 DEF DispatchInv, CalledOnce
<1>10. SlotReached'
  <2>1. Registered' = Registered \cup {new}
    BY <1>5 DEF Registered, Entered
  <2>2. new \notin cbThroughout
    BY <1>3, <1>4 DEF DispatchInv, SlotReached, Registered, Entered, Serials
  <2>3. RefilledAfterRemoval => RefilledAfterRemoval'
    BY <1>3 DEF RefilledAfterRemoval, DispatchInv, DispatchTypes
  <2>4. cbRun = "inside" /\ Short => RefilledAfterRemoval'
    <3> SUFFICES ASSUME cbRun = "inside", Short PROVE RefilledAfterRemoval'
      OBVIOUS
    <3>1. PICK k \in DOMAIN cbLog : cbLog[k] = "remove"
      BY DEF Short
    <3>2. cbLog' = Append(cbLog, "add") /\ cbLog \in Seq({"add", "remove"})
      BY <1>3 DEF DispatchInv, DispatchTypes
    <3>3. k < Len(cbLog) + 1 /\ cbLog'[k] = "remove" /\ cbLog'[Len(cbLog) + 1] = "add"
          /\ k \in DOMAIN cbLog' /\ Len(cbLog) + 1 \in DOMAIN cbLog'
      BY <3>1, <3>2
    <3>4. QED
      BY <3>3 DEF RefilledAfterRemoval
  <2>5. cbCalled' = cbCalled
    BY <1>3 DEF Called
  <2>6. SlotReached /\ Dispatching' = Dispatching /\ ~(cbRun = "next")
    BY <1>3 DEF DispatchInv, Dispatching
  <2>7. QED
    BY <1>3, <1>5, <2>1, <2>2, <2>3, <2>4, <2>5, <2>6 DEF SlotReached, Dispatching
<1>11. QED
  BY <1>6, <1>7, <1>8, <1>9, <1>10 DEF DispatchInv

LEMMA RemovedEffect ==
  ASSUME DispatchInv, NEW pos \in Entered
  PROVE  LET slots == RemovedAt(pos)
         IN /\ DOMAIN slots = DOMAIN cbSlots
            /\ \A i \in 0 .. cbSize - 2 : slots[i] = IF i = pos THEN cbSlots[cbSize - 1] ELSE cbSlots[i]
            /\ \A i \in DOMAIN cbSlots \ (0 .. cbSize - 2) : slots[i] = CbNull
<1> USE DEF DispatchInv, DispatchTypes, Array, Entered
<1> DEFINE moved == IF pos # cbSize - 1 THEN [cbSlots EXCEPT ![pos] = cbSlots[cbSize - 1]] ELSE cbSlots
           slots == [moved EXCEPT ![cbSize - 1] = CbNull]
<1>1. RemovedAt(pos) = slots
  BY DEF RemovedAt
<1>2. DOMAIN moved = DOMAIN cbSlots
      /\ \A i \in DOMAIN cbSlots : moved[i] = IF i = pos THEN cbSlots[cbSize - 1] ELSE cbSlots[i]
  OBVIOUS
<1> HIDE DEF moved
<1>3. DOMAIN slots = DOMAIN cbSlots
      /\ \A i \in DOMAIN cbSlots : slots[i] = IF i = cbSize - 1 THEN CbNull ELSE moved[i]
  BY <1>2
<1> HIDE DEF slots
<1>4. \A i \in 0 .. cbSize - 2 : slots[i] = IF i = pos THEN cbSlots[cbSize - 1] ELSE cbSlots[i]
  BY <1>2, <1>3
<1>5. \A i \in DOMAIN cbSlots \ (0 .. cbSize - 2) : slots[i] = CbNull
  BY <1>2, <1>3
<1>6. QED
  BY <1>1, <1>3, <1>4, <1>5

LEMMA RemoveStep == ASSUME DispatchInv, CbRemove PROVE DispatchInv'
<1>1. PICK pos \in Entered : /\ cbSlots' = RemovedAt(pos)
                            /\ cbThroughout' = cbThroughout \ {cbSlots[pos]}
  BY DEF CbRemove, Entered
<1> DEFINE last == cbSize - 1
<1>2. /\ cbSize' = cbSize - 1 /\ cbRun # "next" /\ cbSize \in Nat /\ cbSize # 0 /\ cbNext \in Nat
      /\ UNCHANGED <<cbNext, cbRuns, cbRun, cbPos, cbTotal, cbCalled>>
      /\ cbLog' = IF cbRun = "inside" THEN Append(cbLog, "remove") ELSE cbLog
  BY DEF CbRemove, ProgramRuns, Logged, DispatchInv, DispatchTypes, Entered
<1>3. Entered' = 0 .. cbSize - 2 /\ Entered' \subseteq Entered /\ last \in Entered /\ last \notin Entered' /\ last \in Nat
      /\ Entered = Entered' \cup {last} /\ \A i \in Entered' : i < last
  BY <1>2 DEF Entered
<1>4. /\ DOMAIN cbSlots' = DOMAIN cbSlots
      /\ \A i \in Entered' : cbSlots'[i] = IF i = pos THEN cbSlots[last] ELSE cbSlots[i]
      /\ \A i \in DOMAIN cbSlots \ Entered' : cbSlots'[i] = CbNull
  BY <1>1, <1>3, RemovedEffect
\* where what is in a slot now has been
<1> DEFINE was(i) == IF i = pos THEN last ELSE i
<1>5. \A i \in Entered' : was(i) \in Entered /\ cbSlots'[i] = cbSlots[was(i)] /\ i <= was(i) /\ was(i) # pos
  BY <1>1, <1>3, <1>4 DEF Entered
<1>6. \A i, j \in Entered' : i # j => was(i) # was(j)
  BY <1>3
<1> HIDE DEF was
<1>7. DispatchTypes'
  BY <1>2 DEF DispatchInv, DispatchTypes
<1>8. Array'
  <2>1. Capacity' = Capacity
    BY <1>4 DEF Capacity
  <2>2. \A i \in Entered' : cbSlots'[i] \in Registrations
    BY <1>5 DEF DispatchInv, Array
  <2>3. QED
    BY <1>2, <1>4, <2>1, <2>2 DEF DispatchInv, Array
<1>9. Serials'
  BY <1>2, <1>5, <1>6 DEF DispatchInv, Serials
<1>10. CalledOnce'
  <2>1. ASSUME NEW i \in Entered', NEW k \in DOMAIN cbCalled, cbCalled[k] = cbSlots'[i]
        PROVE  i < k
    <3>1. was(i) < k
      BY <1>5, <2>1 DEF DispatchInv, CalledOnce
    <3>2. i \in Nat /\ was(i) \in Nat /\ k \in Nat /\ i <= was(i)
      BY <1>3, <1>5 DEF DispatchInv, DispatchTypes, Entered
    <3>3. QED
      BY <3>1, <3>2
  <2>2. QED
    BY <1>2, <2>1 DEF DispatchInv, CalledOnce
<1>11. SlotReached'
  <2>1. SlotReached /\ Dispatching' = Dispatching /\ cbRun # "next" /\ cbRun' = cbRun /\ cbTotal' = cbTotal /\ cbPos' = cbPos
        /\ cbCalled' = cbCalled
    BY <1>2 DEF DispatchInv, Dispatching, Called
  <2>2. cbThroughout' \subseteq Registered'
    <3>1. SUFFICES ASSUME NEW r \in cbThroughout, r # cbSlots[pos] PROVE r \in Registered'
      BY <1>1
    <3>2. PICK j \in Entered : r = cbSlots[j]
      BY <2>1 DEF SlotReached, Registered, Entered
    <3>3. CASE j = last
      BY <1>3, <1>4, <3>1, <3>2, <3>3 DEF Registered, Entered
    <3>4. CASE j # last
      BY <1>3, <1>4, <3>1, <3>2, <3>4 DEF Registered, Entered
    <3>5. QED
      BY <3>3, <3>4
  <2>3. RefilledAfterRemoval => RefilledAfterRemoval'
    BY <1>2 DEF RefilledAfterRemoval, DispatchInv, DispatchTypes
  <2>4. cbRun = "inside" => "remove" \in {cbLog'[k] : k \in DOMAIN cbLog'}
    <3> SUFFICES ASSUME cbRun = "inside" PROVE \E k \in DOMAIN cbLog' : cbLog'[k] = "remove"
      OBVIOUS
    <3>1. cbLog' = Append(cbLog, "remove") /\ cbLog \in Seq({"add", "remove"})
      BY <1>2 DEF DispatchInv, DispatchTypes
    <3>2. Len(cbLog) + 1 \in DOMAIN cbLog' /\ cbLog'[Len(cbLog) + 1] = "remove"
      BY <3>1
    <3>3. QED
      BY <3>2
  <2>5. ASSUME Dispatching, NEW i \in Entered', cbSlots'[i] \in cbThroughout'
        PROVE  /\ i < cbTotal
               /\ RefilledAfterRemoval' \/ Called(cbSlots'[i], cbCalled) \/ i >= Len(cbCalled) \/ Short'
    <3>1. was(i) \in Entered /\ cbSlots[was(i)] = cbSlots'[i] /\ cbSlots[was(i)] \in cbThroughout
      BY <1>1, <1>5, <2>5
    <3>2. /\ was(i) < cbTotal
          /\ RefilledAfterRemoval \/ Called(cbSlots'[i], cbCalled) \/ was(i) >= Len(cbCalled) \/ Short
      BY <2>1, <2>5, <3>1 DEF SlotReached
    <3>3. i <= was(i) /\ i \in Nat /\ was(i) \in Nat /\ cbTotal \in Nat /\ Len(cbCalled) \in Nat
      BY <1>3, <1>5, <3>1 DEF DispatchInv, DispatchTypes, Entered
    <3>4. cbRun = "inside"
      BY <2>1, <2>5 DEF Dispatching
    <3>5. Short => Short'
      BY <1>2, <2>4, <3>3, <3>4 DEF Short
    <3>6. was(i) >= Len(cbCalled) => i >= Len(cbCalled) \/ Short'
      <4>1. CASE was(i) = i
        BY <4>1
      <4>2. CASE was(i) # i
        <5>1. was(i) = last
          BY <4>2 DEF was
        <5>2. QED
          BY <1>2, <2>4, <3>2, <3>3, <3>4, <5>1 DEF Short
      <4>3. QED
        BY <4>1, <4>2
    <3>7. QED
      BY <2>3, <3>2, <3>3, <3>5, <3>6
  <2>6. QED
    BY <1>1, <1>2, <2>1, <2>2, <2>3, <2>5 DEF SlotReached
<1>12. QED
  BY <1>7, <1>8, <1>9, <1>10, <1>11 DEF DispatchInv

LEMMA DispatchStep == ASSUME DispatchInv, CbDispatch PROVE DispatchInv'
<1>1. /\ cbRun' = "next" /\ cbPos' = 0 /\ cbTotal' = cbSize /\ cbCalled' = <<>> /\ cbLog' = <<>>
      /\ cbThroughout' = Registered /\ UNCHANGED <<cbSlots, cbSize, cbNext>>
  BY DEF CbDispatch
<1>2. DispatchTypes' /\ Array' /\ Serials' /\ CalledOnce'
  BY <1>1 DEF DispatchInv, DispatchTypes, Array, Serials, CalledOnce, Entered, Capacity
<1>3. SlotReached'
  <2>1. Registered' = Registered /\ Len(cbCalled') = 0 /\ cbSize \in Nat
    BY <1>1 DEF Registered, DispatchInv, DispatchTypes
  <2>2. \A i \in Entered' : i < cbTotal' /\ i >= Len(cbCalled')
    BY <1>1, <2>1 DEF Entered
  <2>3. QED
    BY <1>1, <2>1, <2>2 DEF SlotReached
<1>4. QED
  BY <1>2, <1>3 DEF DispatchInv

\* A callback is called.
LEMMA CallStep == ASSUME DispatchInv, CbCall, cbPos < cbSize, cbRun' = "inside" PROVE DispatchInv'
<1>1. /\ cbRun = "next" /\ cbPos < cbTotal /\ cbCalled' = Append(cbCalled, cbSlots[cbPos])
      /\ UNCHANGED <<cbSlots, cbSize, cbNext, cbPos, cbTotal, cbThroughout, cbLog>>
      /\ cbCalled \in Seq(Registrations) /\ Len(cbCalled) = cbPos /\ cbPos \in Entered
      /\ cbPos \in Nat /\ cbSize \in Nat /\ cbTotal \in Nat
  BY DEF CbCall, DispatchInv, DispatchTypes, SlotReached, Entered
<1>2. cbSlots[cbPos] \in Registrations /\ cbSlots[cbPos].serial <= cbNext
  BY <1>1 DEF DispatchInv, Array, Serials
<1>3. /\ cbCalled' \in Seq(Registrations) /\ Len(cbCalled') = cbPos + 1
      /\ DOMAIN cbCalled = 1 .. cbPos /\ DOMAIN cbCalled' = 1 .. cbPos + 1
      /\ cbCalled'[cbPos + 1] = cbSlots[cbPos] /\ \A k \in 1 .. cbPos : cbCalled'[k] = cbCalled[k]
  BY <1>1, <1>2
<1>4. DispatchTypes' /\ Array'
  BY <1>1, <1>3 DEF DispatchInv, DispatchTypes, Array, Entered, Capacity
<1>5. \A k \in 1 .. cbPos + 1 : k \in 1 .. cbPos \/ k = cbPos + 1
  BY <1>1
<1>6. Serials'
  BY <1>1, <1>2, <1>3, <1>5 DEF DispatchInv, Serials, Entered
<1>7. CalledOnce'
  <2>1. \A k \in 1 .. cbPos : cbCalled[k] # cbSlots[cbPos]
    BY <1>1, <1>3 DEF DispatchInv, CalledOnce
  <2>2. \A i \in Entered : cbSlots[i] = cbSlots[cbPos] => i = cbPos
    BY <1>1 DEF DispatchInv, Serials
  <2>3. \A i \in Entered, k \in 1 .. cbPos + 1 : cbCalled'[k] = cbSlots[i] => i < k
    BY <1>1, <1>3, <1>5, <2>2 DEF DispatchInv, CalledOnce
  <2>4. \A k, l \in 1 .. cbPos + 1 : k # l => cbCalled'[k] # cbCalled'[l]
    BY <1>3, <1>5, <2>1 DEF DispatchInv, CalledOnce
  <2>5. QED
    BY <1>1, <1>3, <2>3, <2>4 DEF CalledOnce, Entered
<1>8. SlotReached'
  <2>1. SlotReached /\ Dispatching /\ Dispatching' /\ Registered' = Registered /\ Entered' = Entered
        /\ RefilledAfterRemoval' = RefilledAfterRemoval
    BY <1>1 DEF DispatchInv, Dispatching, Registered, Entered, RefilledAfterRemoval
  <2>2. ASSUME NEW r, Called(r, cbCalled) PROVE Called(r, cbCalled')
    <3>1. PICK k \in DOMAIN cbCalled : cbCalled[k] = r
      BY <2>2 DEF Called
    <3>2. k \in DOMAIN cbCalled' /\ cbCalled'[k] = r
      BY <1>1, <1>3, <3>1
    <3>3. QED
      BY <3>2 DEF Called
  <2>3. Called(cbSlots[cbPos], cbCalled')
    BY <1>1, <1>3 DEF Called
  <2>4. Short => Short'
    BY <1>1, <1>3 DEF Short
  <2>5. ASSUME NEW i \in Entered, cbSlots[i] \in cbThroughout
        PROVE  /\ i < cbTotal
               /\ RefilledAfterRemoval \/ Called(cbSlots[i], cbCalled') \/ i >= cbPos + 1 \/ Short'
    <3>1. /\ i < cbTotal
          /\ RefilledAfterRemoval \/ Called(cbSlots[i], cbCalled) \/ i >= cbPos \/ Short
      BY <1>1, <2>1, <2>5 DEF SlotReached
    <3>2. i \in Nat
      BY DEF Entered
    <3>3. CASE i = cbPos
      BY <2>3, <3>1, <3>3
    <3>4. CASE i # cbPos
      BY <1>1, <2>2, <2>4, <3>1, <3>2, <3>4
    <3>5. QED
      BY <3>3, <3>4
  <2>6. QED
    BY <1>1, <1>3, <2>1, <2>5 DEF SlotReached
<1>9. QED
  BY <1>4, <1>6, <1>7, <1>8 DEF DispatchInv

\* The dispatch fails, goes on to the next position or ends.
LEMMA TurnStep ==
  ASSUME DispatchInv,
         \/ CbRemoveMissing \/ CbReturn \/ CbFinish
         \/ CbCall /\ cbRun' = "failed" /\ cbCalled' = cbCalled
         \/ UNCHANGED cbVars
  PROVE  DispatchInv'
<1>1. /\ UNCHANGED <<cbSlots, cbSize, cbNext, cbTotal, cbCalled, cbThroughout, cbLog>>
      /\ cbPos \in Nat /\ cbTotal \in Nat /\ cbSize \in Nat /\ Len(cbCalled) \in Nat
  BY DEF CbRemoveMissing, CbReturn, CbFinish, CbCall, cbVars, DispatchInv, DispatchTypes
<1>2. \/ cbRun' = "failed" /\ cbPos' = cbPos
      \/ cbRun' = cbRun /\ cbPos' = cbPos
      \/ cbRun = "inside" /\ cbRun' = "next" /\ cbPos' = cbPos + 1
      \/ cbRun = "next" /\ cbPos = cbTotal /\ cbRun' = "done" /\ cbPos' = cbPos
  BY DEF CbRemoveMissing, CbReturn, CbFinish, CbCall, cbVars
<1>3. DispatchTypes' /\ Array' /\ Serials' /\ CalledOnce'
  BY <1>1, <1>2 DEF DispatchInv, DispatchTypes, Array, Serials, CalledOnce, Entered, Capacity
<1>4. /\ Registered' = Registered /\ Entered' = Entered /\ RefilledAfterRemoval' = RefilledAfterRemoval
      /\ Short' = Short /\ cbCalled' = cbCalled
  BY <1>1 DEF Registered, Entered, RefilledAfterRemoval, Short, Called
<1>5. SlotReached
  BY DEF DispatchInv
<1>6. cbRun' = "done" /\ cbRun = "next" => RefilledAfterRemoval \/ \A r \in cbThroughout : Called(r, cbCalled)
  <2> SUFFICES ASSUME cbRun' = "done", cbRun = "next", ~RefilledAfterRemoval, NEW r \in cbThroughout PROVE Called(r, cbCalled)
    OBVIOUS
  <2>1. PICK i \in Entered : r = cbSlots[i]
    BY <1>5 DEF SlotReached, Registered, Entered
  <2>2. i \in Nat /\ Len(cbCalled) = cbTotal
    BY <1>2, <1>5 DEF SlotReached, Entered
  <2>3. i < cbTotal /\ (Called(r, cbCalled) \/ i >= Len(cbCalled) \/ Short)
    BY <1>5, <2>1 DEF SlotReached, Dispatching
  <2>4. QED
    BY <1>1, <2>2, <2>3 DEF Short
<1>7. SlotReached'
  BY <1>1, <1>2, <1>4, <1>5, <1>6 DEF SlotReached, Dispatching
<1>8. QED
  BY <1>3, <1>7 DEF DispatchInv
-----------------------------------------------------------------------------
\* The inductive invariant, whatever callbacks add and remove
THEOREM DispatchInvariance == CbSpec => []DispatchInv
<1>1. DispatchInv /\ [CbNextStep]_cbVars => DispatchInv'
  <2>1. CbCall => \/ cbPos < cbSize /\ cbRun' = "inside"
                  \/ cbRun' = "failed" /\ cbCalled' = cbCalled
    BY DEF CbCall
  <2>2. QED
    BY <2>1, AddStep, RemoveStep, DispatchStep, CallStep, TurnStep DEF CbNextStep
<1>2. QED
  BY <1>1, DispatchInitInvariant, PTL DEF CbSpec

\* Whatever callbacks add and remove, a dispatch calls no callback twice,
\* and all of those that stay registered if it ends without an error, but
\* for additions that hide a vacated slot.
THEOREM CallbacksCalledHolds == CbSpec => []CallbacksCalled
<1>1. DispatchInv => CallbacksCalled
  <2> SUFFICES ASSUME DispatchInv PROVE CallbacksCalled
    OBVIOUS
  <2> DEFINE calls(r) == {k \in DOMAIN cbCalled : cbCalled[k] = r}
  <2>1. ASSUME NEW r PROVE calls(r) = {} \/ \E k : calls(r) = {k}
    BY DEF DispatchInv, CalledOnce
  <2>2. ASSUME NEW r PROVE TimesCalled(r) <= 1 /\ (Called(r, cbCalled) => TimesCalled(r) = 1)
    <3>1. CASE calls(r) = {}
      <4>1. Cardinality(calls(r)) = 0
        BY <3>1, FS_EmptySet
      <4>2. ~Called(r, cbCalled)
        BY <3>1 DEF Called
      <4>3. QED
        BY <4>1, <4>2 DEF TimesCalled
    <3>2. CASE \E k : calls(r) = {k}
      BY <3>2, FS_Singleton DEF TimesCalled
    <3>3. QED
      BY <2>1, <3>1, <3>2
  <2>3. \A i \in DOMAIN cbSlots : (cbSlots[i] = CbNull) <=> i >= cbSize
    <3>1. \A i \in Entered : cbSlots[i] # CbNull
      BY DEF DispatchInv, Array, Registrations, CbNull
    <3>2. \A i \in DOMAIN cbSlots : i \in Entered <=> ~(i >= cbSize)
      BY DEF DispatchInv, Array, DispatchTypes, Entered
    <3>3. QED
      BY <3>1, <3>2 DEF DispatchInv, Array
  <2>4. Cardinality(Registered) = cbSize
    <3> DEFINE slot == [i \in Entered |-> cbSlots[i]]
    <3>1. slot \in Bijection(Entered, Registered)
      <4>1. slot \in [Entered -> Registered]
        BY DEF Registered, Entered
      <4>2. \A i, j \in Entered : slot[i] = slot[j] => i = j
        BY DEF DispatchInv, Serials
      <4>3. \A r \in Registered : \E i \in Entered : slot[i] = r
        BY DEF Registered, Entered
      <4>4. QED
        BY <4>1, <4>2, <4>3 DEF Bijection, Injection, Surjection, IsInjective
    <3>2. IsFiniteSet(Entered) /\ Cardinality(Entered) = cbSize
      BY FS_Interval DEF Entered, DispatchInv, DispatchTypes
    <3>3. ExistsBijection(Entered, Registered)
      BY <3>1 DEF ExistsBijection
    <3>4. QED
      BY <3>2, <3>3, FS_Bijection
  <2>5. QED
    BY <2>2, <2>3, <2>4 DEF CallbacksCalled, DispatchInv, SlotReached
<1>2. QED
  BY <1>1, DispatchInvariance, PTL

-----------------------------------------------------------------------------
(* Timers                                                                  *)

TimerRecords == [running : BOOLEAN, current : Nat, last : Nat, total : Nat]
TimerTables == [TimerNames -> TimerRecords]
Times == Nat \cup {NoTime}

Started == {"lp", "reduced", "eqp", "cg", "measure"}
InTrial == {"compute"} \cup Started
InIteration == InTrial \cup {"correct", "unwind"}
InSolver == {"head"} \cup InIteration
Stages == {"idle", "outer", "finish"} \cup InSolver

TimerTypes ==
  /\ tmTimers \in TimerTables
  /\ tmStage \in Stages /\ tmStatus \in {"okay", "time", "error"}
  /\ tmResult \in {"unknown", "running", "time", "iterations", "optimal", "error"}
  /\ tmTwice \subseteq TimerNames
LimitTypes ==
  /\ tmLimit \in Times /\ tmInner \in Times /\ tmTrial \in Times
  /\ tmLp \in Times /\ tmTr \in Times /\ tmRest \in Times
SolveCountTypes ==
  /\ tmLPs \in Nat /\ tmIterations \in Nat /\ tmSolves \in Nat
  /\ tmUncounted \in Nat /\ tmOnTop \in Nat /\ tmBorrowed \in Nat /\ tmTrouble \in {"none", "time", "error"}
Typed == TimerTypes /\ LimitTypes /\ SolveCountTypes

\* How the last solve stands and what the return codes say of it
Statuses ==
  /\ tmStage \notin {"idle", "finish", "unwind"} => tmStatus = "okay"
  /\ tmStage \notin {"idle", "finish"} => tmResult = "running" /\ tmSolves >= 1
  /\ tmStage = "finish" /\ tmResult \in {"optimal", "iterations"} => tmStatus = "okay"
  /\ tmStage = "unwind" /\ tmStatus = "time" => tmLimit # NoTime
  /\ tmStage = "finish" /\ tmResult = "time" => tmLimit # NoTime

\* Which timers run
Running == TimersNest

\* A limit is handed down if and only if the solve has one.
Limited ==
  /\ tmStage \in InSolver => (tmInner = NoTime <=> tmLimit = NoTime)
  /\ tmStage \in InTrial => (tmTrial = NoTime <=> tmLimit = NoTime)
  /\ tmStage \in Started \ {"measure"} =>
       /\ tmRest = NoTime <=> tmLimit = NoTime
       /\ tmLp = NoTime <=> tmLimit = NoTime
  /\ tmStage = "cg" => tmTr = tmRest

\* What the timers of a stage show
SolverTime == TotalTime(tmTimers["solver"])
InnerTime == TotalTime(tmTimers["inner"])
TrialTime == TotalTime(tmTimers["trial"])

Resting ==
  /\ tmStage = "head" => tmTimers["inner"].current = 0
  /\ tmStage = "compute" => tmTimers["trial"] = FreshTimer /\ tmUncounted = 0
  /\ tmStage = "cg" => tmTimers["cg"].last = tmBorrowed

SolverBooks ==
  tmLimit # NoTime =>
    /\ tmStage = "outer" /\ tmTimers["solver"].total <= tmLimit => SolverTime <= tmLimit + TmGrain
    /\ tmStage \in InSolver =>
         /\ tmInner <= tmLimit
         /\ tmLimit + InnerTime <= SolverTime + tmInner
         /\ SolverTime + tmInner <= tmLimit + InnerTime + TmGrain
    /\ tmStage = "head" => InnerTime <= tmInner
    /\ tmStage = "finish" /\ tmTimers["solver"].total <= tmLimit =>
         SolverTime <= 2 * tmLimit + tmOnTop + 4 * TmGrain
    /\ tmStage = "finish" /\ tmResult = "time" => SolverTime + tmBorrowed >= tmLimit

InnerBooks ==
  tmLimit # NoTime =>
    /\ tmStage \in InTrial =>
         /\ tmTrial = RemainingOf(InnerTime - TrialTime, tmInner)
         /\ TrialTime <= InnerTime /\ InnerTime <= TrialTime + tmInner + TmGrain
    /\ tmStage = "correct" => InnerTime <= 2 * tmInner + tmOnTop + 2 * TmGrain
    /\ tmStage = "unwind" => InnerTime <= 2 * tmInner + tmOnTop + 3 * TmGrain
    /\ tmStage = "unwind" /\ tmStatus = "time" => InnerTime + tmBorrowed >= tmInner

TrialBooks ==
  tmLimit # NoTime =>
    /\ tmStage \in {"lp", "reduced", "eqp"} =>
         /\ tmLp = RemainingOf(TrialTime - tmUncounted, tmTrial)
         /\ tmLp <= tmRest /\ tmRest <= tmTrial
         /\ tmTrial <= TrialTime + tmRest
         /\ TrialTime + tmRest + tmLp <= 2 * tmTrial + tmOnTop
    /\ tmStage = "cg" =>
         LET spent == tmTimers["cg"].current
         IN /\ spent <= tmTr + TmGrain
            /\ tmTrial + spent <= TrialTime + tmTr
            /\ TrialTime + tmTr <= 2 * tmTrial + tmOnTop + spent
    /\ tmStage = "measure" => TrialTime <= 2 * tmTrial + tmOnTop

Books == Resting /\ SolverBooks /\ InnerBooks /\ TrialBooks

TimersInv == Typed /\ Statuses /\ Running /\ Limited /\ Books
-----------------------------------------------------------------------------
(* What the operations of timer.c do to a table of timers                  *)

\* What a table shows are natural numbers.
LEMMA Shown ==
  ASSUME NEW ts \in TimerTables, NEW n \in TimerNames
  PROVE  /\ ts[n].current \in Nat /\ ts[n].last \in Nat /\ ts[n].total \in Nat
         /\ TotalTime(ts[n]) = ts[n].total + ts[n].current /\ TotalTime(ts[n]) \in Nat
<1>1. ts[n] \in TimerRecords
  BY DEF TimerTables
<1>2. QED
  BY <1>1 DEF TimerRecords, TotalTime

\* A timer that starts shows no current run.
LEMMA StartEffect ==
  ASSUME NEW names \in SUBSET TimerNames, NEW ts \in TimerTables
  PROVE  LET st == StartTimers(names, ts)
         IN /\ st \in TimerTables
            /\ RunningTimers(st) = RunningTimers(ts) \cup names
            /\ \A n \in TimerNames \ names : st[n] = ts[n]
            /\ \A n \in names : /\ st[n].current = 0
                                /\ st[n].last = ts[n].last /\ st[n].total = ts[n].total
                                /\ TotalTime(st[n]) = ts[n].total
<1> DEFINE st == StartTimers(names, ts)
<1>1. ASSUME NEW n \in TimerNames
      PROVE  ts[n] \in TimerRecords /\ st[n] = IF n \in names THEN [ts[n] EXCEPT !.running = TRUE, !.current = 0] ELSE ts[n]
  BY DEF TimerTables, StartTimers
<1>2. ASSUME NEW n \in names
      PROVE  /\ st[n] \in TimerRecords /\ st[n].running
             /\ st[n].last = ts[n].last /\ st[n].total = ts[n].total /\ st[n].current = 0
             /\ TotalTime(st[n]) = ts[n].total
  <2>1. ts[n] \in TimerRecords
    BY <1>1
  <2>2. st[n] = [running |-> TRUE, current |-> 0, last |-> ts[n].last, total |-> ts[n].total]
    BY <1>1 DEF TimerRecords
  <2>3. ts[n].last \in Nat /\ ts[n].total \in Nat
    BY <2>1 DEF TimerRecords
  <2>4. st[n] \in TimerRecords
    BY <2>2, <2>3 DEF TimerRecords
  <2>5. st[n].running
    BY <2>2
  <2>6. QED
    BY <2>2, <2>3, <2>4, <2>5 DEF TotalTime
<1>3. st \in TimerTables
  BY <1>1, <1>2 DEF TimerTables, StartTimers
<1>4. RunningTimers(st) = RunningTimers(ts) \cup names
  BY <1>1, <1>2 DEF RunningTimers
<1>5. QED
  BY <1>1, <1>2, <1>3, <1>4

\* The total of a timer shows the same when it is stopped.
LEMMA StopEffect ==
  ASSUME NEW names \in SUBSET TimerNames, NEW ts \in TimerTables
  PROVE  LET st == StopTimers(names, ts)
         IN /\ st \in TimerTables
            /\ RunningTimers(st) = RunningTimers(ts) \ names
            /\ \A n \in TimerNames \ names : st[n] = ts[n]
            /\ \A n \in names : st[n].current = 0
            /\ \A n \in TotalRead : TotalTime(st[n]) = TotalTime(ts[n])
            /\ \A n \in names \cap LastRead : st[n].last = ts[n].current
<1> DEFINE st == StopTimers(names, ts)
<1>1. ASSUME NEW n \in TimerNames
      PROVE  ts[n] \in TimerRecords /\ st[n] = IF n \in names THEN StopTimer(n, ts[n]) ELSE ts[n]
  BY DEF TimerTables, StopTimers
<1>2. ASSUME NEW n \in names
      PROVE  /\ st[n] \in TimerRecords /\ ~st[n].running /\ st[n].current = 0
             /\ n \in TotalRead => TotalTime(st[n]) = TotalTime(ts[n])
             /\ n \in LastRead => st[n].last = ts[n].current
  <2>1. ts[n] \in TimerRecords /\ st[n] = StopTimer(n, ts[n])
    BY <1>1
  <2>2. st[n].running = FALSE /\ st[n].current = 0
    BY <2>1 DEF StopTimer
  <2>3. st[n] \in TimerRecords
    BY <2>1 DEF StopTimer, TimerRecords
  <2>4. n \in TotalRead => TotalTime(st[n]) = TotalTime(ts[n])
    BY <2>1 DEF StopTimer, TimerRecords, TotalTime
  <2>5. QED
    BY <2>1, <2>2, <2>3, <2>4 DEF StopTimer
<1>3. st \in TimerTables
  BY <1>1, <1>2 DEF TimerTables, StopTimers
<1>4. RunningTimers(st) = RunningTimers(ts) \ names
  BY <1>1, <1>2 DEF RunningTimers
<1>5. \A n \in TotalRead : TotalTime(st[n]) = TotalTime(ts[n])
  BY <1>1, <1>2 DEF TotalRead, TimerNames
<1>6. QED
  BY <1>1, <1>2, <1>3, <1>4, <1>5

\* What the clock shows of d
TimePassed(d) == IF tmLimit = NoTime THEN 0 ELSE d

LEMMA AfterEffect ==
  ASSUME NEW d \in Nat, NEW ts \in TimerTables
  PROVE  LET st == After(d, ts)
         IN /\ st \in TimerTables
            /\ RunningTimers(st) = RunningTimers(ts)
            /\ \A n \in TimerNames : st[n].last = ts[n].last /\ st[n].total = ts[n].total
            /\ \A n \in LastRead \cap RunningTimers(ts) : st[n].current = ts[n].current + TimePassed(d)
            /\ \A n \in TotalRead \cap RunningTimers(ts) :
                 /\ st[n].current = ts[n].current + TimePassed(d)
                 /\ TotalTime(st[n]) = TotalTime(ts[n]) + TimePassed(d)
            /\ \A n \in TimerNames \ RunningTimers(ts) : st[n] = ts[n]
<1> DEFINE st == After(d, ts)
           counts(n) == ts[n].running /\ n \in TotalRead \cup LastRead /\ tmLimit # NoTime
<1>1. ASSUME NEW n \in TimerNames
      PROVE  /\ st[n] \in TimerRecords
             /\ st[n].running <=> ts[n].running
             /\ st[n].last = ts[n].last /\ st[n].total = ts[n].total
             /\ st[n].current = IF counts(n) THEN ts[n].current + d ELSE ts[n].current
             /\ ~ts[n].running => st[n] = ts[n]
  <2>1. ts[n] \in TimerRecords /\ st[n] = IF counts(n) THEN [ts[n] EXCEPT !.current = @ + d] ELSE ts[n]
    BY DEF TimerTables, After
  <2>2. CASE counts(n)
    BY <2>1, <2>2 DEF TimerRecords
  <2>3. CASE ~counts(n)
    BY <2>1, <2>3
  <2>4. QED
    BY <2>2, <2>3
<1>2. st \in TimerTables
  BY <1>1 DEF TimerTables, After
<1>3. RunningTimers(st) = RunningTimers(ts)
  BY <1>1 DEF RunningTimers
<1>4. ASSUME NEW n \in (TotalRead \cup LastRead) \cap RunningTimers(ts)
      PROVE  st[n].current = ts[n].current + TimePassed(d) /\ TotalTime(st[n]) = TotalTime(ts[n]) + TimePassed(d)
  <2>1. n \in TimerNames /\ ts[n].current \in Nat /\ ts[n].total \in Nat /\ ts[n].running
    BY Shown DEF RunningTimers
  <2>2. st[n].current = (IF tmLimit # NoTime THEN ts[n].current + d ELSE ts[n].current) /\ st[n].total = ts[n].total
    BY <1>1, <2>1
  <2>3. QED
    BY <2>1, <2>2 DEF TimePassed, TotalTime
<1>5. \A n \in TimerNames \ RunningTimers(ts) : st[n] = ts[n]
  BY <1>1 DEF RunningTimers
<1>6. QED
  BY <1>1, <1>2, <1>3, <1>4, <1>5

LEMMA ResetEffect ==
  ASSUME NEW name \in TimerNames, NEW ts \in TimerTables, NEW st \in TimerTables,
         \A n \in TimerNames : st[n] = IF n = name THEN FreshTimer ELSE ts[n]
  PROVE  RunningTimers(st) = RunningTimers(ts) \ {name}
BY DEF TimerTables, TimerRecords, RunningTimers, FreshTimer

LEMMA FreshRecord == FreshTimer \in TimerRecords
BY DEF FreshTimer, TimerRecords

\* What remains of a limit
LEMMA RemainingTime ==
  ASSUME NEW elapsed \in Int, NEW limit \in Times
  PROVE  /\ limit = NoTime => RemainingOf(elapsed, limit) = NoTime
         /\ limit # NoTime =>
              RemainingOf(elapsed, limit) = IF elapsed < limit THEN limit - elapsed ELSE 0
         /\ elapsed \in Nat => RemainingOf(elapsed, limit) \in Times
BY DEF RemainingOf, Times, NoTime

LEMMA Exhaustion ==
  ASSUME NEW ts \in TimerTables, NEW n \in TimerNames, NEW limit \in Times
  PROVE  Exhausted(ts[n], limit) <=> limit # NoTime /\ TotalTime(ts[n]) >= limit
BY Shown, RemainingTime DEF Exhausted, Remaining, Times, NoTime

-----------------------------------------------------------------------------
(* The steps of the solver                                                 *)

\* Steps that leave the timers alone
LEMMA QuietStep ==
  ASSUME TimersInv, TmOuterLimit \/ TmFail \/ TmHeadLimit \/ TmIterationLimit
  PROVE  TimersInv'
<1> USE DEF TimersInv
<1> USE TmAssumption DEF TmOuterLimit, TmFail, TmHeadLimit, TmIterationLimit, limitVars, countVars
<1>1. /\ TmGrain \in Nat
      /\ UNCHANGED <<tmTimers, tmStatus, limitVars, countVars, tmTwice>>
      /\ tmStage \in {"outer", "head", "finish"} /\ tmStage' \in {"idle", "finish"}
      /\ tmStage' = "idle" => tmResult' = "error" /\ tmStage # "head"
      /\ tmStage' = "finish" => tmStage # "finish"
  OBVIOUS
<1>2. Typed'
  BY <1>1 DEF Typed, TimerTypes, LimitTypes, SolveCountTypes, Stages
<1>3. Statuses'
  BY <1>1 DEF Typed, TimerTypes, Statuses, Exhausted, Limited, InSolver
<1>4. Running'
  <2> USE DEF Running, TimersNest, Strays, Nested, Statuses
  <2>1. CASE tmStage' = "idle"
    BY <1>1, <2>1
  <2>2. CASE tmStage' = "finish"
    BY <1>1, <2>2
  <2>3. QED
    BY <1>1, <2>1, <2>2
<1>5. Limited'
  BY <1>1 DEF Limited, InSolver, InIteration, InTrial, Started
<1>6. Books'
  <2>1. /\ TotalTime(tmTimers["solver"]) \in Nat /\ TotalTime(tmTimers["inner"]) \in Nat
        /\ Exhausted(tmTimers["solver"], tmLimit) => tmLimit # NoTime /\ SolverTime >= tmLimit
        /\ Exhausted(tmTimers["inner"], tmInner) => tmInner # NoTime /\ InnerTime >= tmInner
    BY Shown, Exhaustion DEF Typed, TimerTypes, LimitTypes, SolverTime, InnerTime, TimerNames
  <2>2. Resting' /\ InnerBooks' /\ TrialBooks'
    BY <1>1 DEF Books, Resting, InnerBooks, TrialBooks, InSolver, InIteration, InTrial, Started
  <2>3. SolverBooks'
    BY <1>1, <2>1 DEF Typed, LimitTypes, SolveCountTypes, Books, SolverBooks, InSolver, InIteration, InTrial, Started, SolverTime, InnerTime, Times, NoTime
  <2>4. QED
    BY <2>2, <2>3 DEF Books
<1>7. QED
  BY <1>2, <1>3, <1>4, <1>5, <1>6

LEMMA SolveStep == ASSUME TimersInv, TmSolve PROVE TimersInv'
<1> USE DEF TimersInv
<1> USE TmAssumption DEF TmSolve
<1>1. /\ tmTimers' \in TimerTables
      /\ RunningTimers(tmTimers') = RunningTimers(tmTimers) \cup {"solver"}
      /\ TotalTime(tmTimers'["solver"]) = tmTimers'["solver"].total /\ tmTimers'["solver"].total \in Nat
  <2>1. {"solver"} \in SUBSET TimerNames /\ "solver" \in TimerNames /\ tmTimers \in TimerTables
    BY DEF Typed, TimerTypes, TimerNames
  <2>2. tmTimers' \in TimerTables /\ RunningTimers(tmTimers') = RunningTimers(tmTimers) \cup {"solver"}
        /\ tmTimers'["solver"].current = 0
    BY <2>1, StartEffect
  <2>3. QED
    BY <2>1, <2>2, Shown
<1>2. Typed'
  <2>1. TimerTypes'
    BY <1>1 DEF Typed, TimerTypes, Stages, Starting, TimerNames
  <2>2. LimitTypes' /\ SolveCountTypes'
    BY DEF Typed, LimitTypes, SolveCountTypes, Times
  <2>3. QED
    BY <2>1, <2>2 DEF Typed
<1>3. Statuses'
  BY DEF Typed, SolveCountTypes, Statuses
<1>4. Running'
  <2> DEFINE R == RunningTimers(tmTimers)
  <2>1. /\ RunningTimers(tmTimers)' = R \cup {"solver"} /\ Nested' = {"solver"}
        /\ Strays' = R \ {"solver"} /\ Strays = R /\ tmTwice' = tmTwice \cup ({"solver"} \cap R)
    BY <1>1 DEF Strays, Nested, Starting
  <2>2. /\ R \subseteq {"trial", "newton", "tr", "cg", "solver"}
        /\ tmTwice \subseteq {"newton", "tr", "cg", "solver"}
        /\ tmTrouble' = "none" => R = {} /\ tmTwice = {}
    BY <2>1 DEF Running, TimersNest, Typed, TimerTypes, SolveCountTypes
  <2> HIDE DEF R
  <2>3. TimersNest'
    BY <2>1, <2>2 DEF TimersNest
  <2>4. QED
    BY <2>1, <2>2, <2>3 DEF Running, Typed, SolveCountTypes
<1>5. Limited'
  BY DEF Limited, InSolver, InIteration, InTrial, Started
<1>6. Books'
  BY <1>1 DEF Typed, Books, Resting, SolverBooks, InnerBooks, TrialBooks, InSolver, InIteration, InTrial, Started, SolverTime
<1>7. QED
  BY <1>2, <1>3, <1>4, <1>5, <1>6

LEMMA EnterStep == ASSUME TimersInv, TmEnter PROVE TimersInv'
<1> USE DEF TimersInv
<1>0. PICK d \in 0 .. TmGrain : tmInner' = Remaining(After(d, tmTimers)["solver"], tmLimit)
  BY DEF TmEnter
<1> USE TmAssumption DEF TmEnter
<1> DEFINE reading == After(d, tmTimers)
           ran == After(TmGrain, tmTimers)
<1>1. /\ TmGrain \in Nat /\ d \in Nat /\ d <= TmGrain
      /\ tmTimers \in TimerTables
      /\ "solver" \in TimerNames /\ "inner" \in TimerNames /\ "solver" # "inner"
      /\ "solver" \in RunningTimers(tmTimers) /\ tmLimit \in Times
      /\ tmTimers' = [ran EXCEPT !["inner"] = FreshTimer]
  BY DEF Typed, TimerTypes, LimitTypes, TimerNames, Running, TimersNest, Nested
<1>2. reading \in TimerTables /\ TotalTime(reading["solver"]) = SolverTime + TimePassed(d)
  BY <1>1, AfterEffect DEF TotalRead, SolverTime
<1>3. /\ ran \in TimerTables /\ RunningTimers(ran) = RunningTimers(tmTimers)
      /\ TotalTime(ran["solver"]) = SolverTime + TimePassed(TmGrain)
      /\ ran["solver"].total = tmTimers["solver"].total
  BY <1>1, AfterEffect DEF TotalRead, SolverTime
<1> HIDE DEF reading, ran
<1>4. /\ tmTimers' \in TimerTables /\ RunningTimers(tmTimers') = RunningTimers(tmTimers) \ {"inner"}
      /\ tmTimers'["inner"] = FreshTimer /\ tmTimers'["solver"] = ran["solver"]
  <2>1. \A n \in TimerNames : tmTimers'[n] = IF n = "inner" THEN FreshTimer ELSE ran[n]
    BY <1>1, <1>3 DEF TimerTables
  <2>2. tmTimers' \in TimerTables
    BY <1>1, <1>3, FreshRecord DEF TimerTables
  <2>3. QED
    BY <1>1, <1>3, <2>1, <2>2, ResetEffect
<1>5. SolverTime' = SolverTime + TimePassed(TmGrain) /\ InnerTime' = 0
      /\ tmTimers'["inner"].current = 0 /\ SolverTime \in Nat
  BY <1>1, <1>3, <1>4, Shown DEF SolverTime, InnerTime, TotalTime, FreshTimer
<1>6. /\ tmLimit = NoTime => tmInner' = NoTime
      /\ tmLimit # NoTime => tmInner' = IF SolverTime + d < tmLimit THEN tmLimit - (SolverTime + d) ELSE 0
      /\ tmLimit # NoTime => SolverTime < tmLimit
      /\ tmInner' \in Times
  <2>1. tmInner' = RemainingOf(SolverTime + TimePassed(d), tmLimit)
    BY <1>0, <1>2 DEF Remaining, reading
  <2>2. SolverTime + TimePassed(d) \in Nat /\ (tmLimit # NoTime => TimePassed(d) = d)
    BY <1>1, <1>5 DEF TimePassed
  <2>3. tmLimit # NoTime => SolverTime < tmLimit
    BY <1>1, <1>5, Exhaustion DEF SolverTime, Times
  <2>4. QED
    BY <1>1, <2>1, <2>2, <2>3, RemainingTime
<1>7. Typed'
  BY <1>4, <1>6 DEF Typed, TimerTypes, LimitTypes, SolveCountTypes, Stages, InSolver, countVars
<1>8. Statuses'
  BY DEF Statuses, countVars
<1>9. Running'
  BY <1>4 DEF Running, TimersNest, Strays, Nested, Statuses, countVars
<1>10. Limited'
  <2>1. tmInner' = NoTime <=> tmLimit = NoTime
    BY <1>1, <1>5, <1>6 DEF Times, NoTime
  <2>2. QED
    BY <2>1 DEF Limited, InSolver, InIteration, InTrial, Started
<1>11. Books'
  BY <1>1, <1>5, <1>6 DEF Books, Resting, SolverBooks, InnerBooks, TrialBooks, InSolver, InIteration, InTrial, Started, Times, NoTime, TimePassed
<1>12. QED
  BY <1>7, <1>8, <1>9, <1>10, <1>11

\* The timers that are read in an iteration run while they are.
LEMMA NestedRun ==
  ASSUME TimersInv
  PROVE  /\ tmTimers \in TimerTables /\ {"solver", "inner", "trial", "lp", "reduced", "eqp", "newton", "tr", "cg"} = TimerNames
         /\ tmStage # "idle" => "solver" \in RunningTimers(tmTimers)
         /\ tmStage \in InIteration => "inner" \in RunningTimers(tmTimers)
         /\ tmStage \in Started => "trial" \in RunningTimers(tmTimers)
         /\ tmStage = "cg" => "cg" \in RunningTimers(tmTimers)
         /\ tmStage \in InSolver \ InIteration => "inner" \notin RunningTimers(tmTimers)
         /\ tmStage \in {"compute", "correct"} => "trial" \notin RunningTimers(tmTimers)
BY DEF TimersInv, Typed, TimerTypes, Stages, InSolver, InIteration, InTrial, Started, TimerNames, Running, TimersNest, Strays, Nested

LEMMA UnboundedStep == ASSUME TimersInv, TmUnbounded PROVE TimersInv'
<1> USE DEF TimersInv
<1> USE TmAssumption DEF TmUnbounded, Iterates
<1>1. /\ TmGrain \in Nat /\ tmTimers \in TimerTables /\ tmStage = "head" /\ tmStage' = "unwind"
      /\ "solver" \in TimerNames /\ "inner" \in TimerNames /\ {"inner"} \in SUBSET TimerNames
      /\ UNCHANGED <<tmStatus, limitVars, tmResult, tmLPs, tmSolves, tmTrouble>>
      /\ tmUncounted' = 0 /\ tmOnTop' = 0 /\ tmBorrowed' = 0 /\ tmIterations' = tmIterations + 1
  BY DEF Typed, TimerTypes, TimerNames
<1>2. /\ tmTimers' \in TimerTables
      /\ RunningTimers(tmTimers') = RunningTimers(tmTimers) \cup {"inner"}
      /\ SolverTime' = SolverTime /\ InnerTime' = InnerTime
      /\ SolverTime \in Nat /\ InnerTime \in Nat
  <2> DEFINE begun == StartTimers({"inner"}, tmTimers)
  <2>1. /\ begun \in TimerTables
        /\ RunningTimers(begun) = RunningTimers(tmTimers) \cup {"inner"}
        /\ TotalTime(begun["inner"]) = tmTimers["inner"].total
        /\ begun["solver"] = tmTimers["solver"]
    BY <1>1, StartEffect
  <2>2. tmTimers["inner"].current = 0
    BY <1>1 DEF Books, Resting
  <2>3. tmTimers' = begun
    OBVIOUS
  <2>4. QED
    BY <1>1, <2>3, <2>1, <2>2, Shown DEF SolverTime, InnerTime
<1>3. Typed'
  BY <1>1, <1>2 DEF Typed, TimerTypes, LimitTypes, SolveCountTypes, limitVars, Stages, InSolver, InIteration, Starting
<1>4. Statuses'
  BY <1>1 DEF Statuses
<1>5. Running'
  <2> DEFINE R == RunningTimers(tmTimers)
  <2>1. /\ RunningTimers(tmTimers)' = R \cup {"inner"} /\ Nested' = {"solver", "inner"} /\ Nested = {"solver"}
        /\ Strays' = (R \cup {"inner"}) \ {"solver", "inner"} /\ Strays = R \ {"solver"}
        /\ tmTwice' = tmTwice \cup ({"inner"} \cap R)
    BY <1>1, <1>2 DEF Strays, Nested, Starting
  <2>2. /\ Strays' = Strays /\ tmTwice' = tmTwice
        /\ "solver" \in R
    BY <1>1, <2>1, NestedRun DEF InSolver, InIteration, InTrial, Started
  <2> HIDE DEF R
  <2>3. QED
    BY <1>1, <2>1, <2>2 DEF TimersNest, Running, Statuses
<1>6. Limited'
  BY <1>1 DEF Limited, limitVars, InSolver, InIteration, InTrial, Started
<1>7. Books'
  BY <1>1, <1>2 DEF Books, Resting, SolverBooks, InnerBooks, TrialBooks, limitVars, InSolver, InIteration, InTrial, Started,
     Statuses, Typed, LimitTypes, SolveCountTypes, Limited, Times, NoTime
<1>8. QED
  BY <1>3, <1>4, <1>5, <1>6, <1>7

LEMMA PrepareStep == ASSUME TimersInv, TmPrepare PROVE TimersInv'
<1> USE DEF TimersInv
<1> USE TmAssumption
<1>0. PICK d \in 0 .. TmGrain :
        LET started == After(d, StartTimers({"inner"}, tmTimers))
        IN tmTrial' = Remaining(started["inner"], tmInner) /\ tmTimers' = Rewound(started)
  BY DEF TmPrepare
<1> DEFINE begun == StartTimers({"inner"}, tmTimers)
           started == After(d, begun)
<1>1. /\ TmGrain \in Nat /\ tmTimers \in TimerTables /\ d \in Nat /\ d <= TmGrain
      /\ "solver" \in TimerNames /\ "inner" \in TimerNames /\ "trial" \in TimerNames /\ {"inner"} \in SUBSET TimerNames
      /\ tmStage = "head" /\ tmStage' \in {"compute", "unwind"} /\ tmStatus' \in {"okay", "error"}
      /\ tmStage' = "compute" => tmStatus' = "okay"
      /\ UNCHANGED <<tmLimit, tmInner, tmLp, tmTr, tmRest, tmResult, tmLPs, tmSolves, tmTrouble>>
      /\ tmUncounted' = 0 /\ tmOnTop' = 0 /\ tmBorrowed' = 0 /\ tmIterations' = tmIterations + 1
      /\ tmTwice' = tmTwice \cup ({"inner"} \cap RunningTimers(tmTimers))
      /\ tmTrial' = Remaining(started["inner"], tmInner) /\ tmTimers' = Rewound(started)
  BY <1>0 DEF Typed, TimerTypes, TimerNames, TmPrepare, Iterates, Starting
<1>2. /\ "solver" \in RunningTimers(tmTimers) /\ "inner" \notin RunningTimers(tmTimers)
      /\ tmLimit # NoTime => InnerTime < tmInner
      /\ tmInner \in Times
  <2>1. "solver" \in RunningTimers(tmTimers) /\ "inner" \notin RunningTimers(tmTimers)
    BY <1>1, NestedRun DEF InSolver, InIteration, InTrial, Started
  <2>2. tmInner \in Times /\ ~Exhausted(tmTimers["inner"], tmInner)
    BY DEF Typed, LimitTypes, TmPrepare, Iterates
  <2>3. tmLimit # NoTime => InnerTime < tmInner
    <3>1. InnerTime \in Nat
      BY <1>1, Shown DEF InnerTime
    <3>2. tmInner = NoTime <=> tmLimit = NoTime
      BY <1>1 DEF Limited, InSolver
    <3>3. QED
      BY <1>1, <2>2, <3>1, <3>2, Exhaustion DEF InnerTime, Times
  <2>4. QED
    BY <2>1, <2>2, <2>3
<1>3. /\ begun \in TimerTables
      /\ RunningTimers(begun) = RunningTimers(tmTimers) \cup {"inner"}
      /\ TotalTime(begun["inner"]) = InnerTime /\ TotalTime(begun["solver"]) = SolverTime
      /\ SolverTime \in Nat /\ InnerTime \in Nat
  <2>1. /\ begun \in TimerTables
        /\ RunningTimers(begun) = RunningTimers(tmTimers) \cup {"inner"}
        /\ TotalTime(begun["inner"]) = tmTimers["inner"].total
        /\ begun["solver"] = tmTimers["solver"]
    BY <1>1, StartEffect
  <2>2. tmTimers["inner"].current = 0
    BY <1>1 DEF Books, Resting
  <2>3. QED
    BY <1>1, <2>1, <2>2, Shown DEF SolverTime, InnerTime
<1> HIDE DEF begun
<1>4. /\ started \in TimerTables
      /\ RunningTimers(started) = RunningTimers(tmTimers) \cup {"inner"}
      /\ TotalTime(started["inner"]) = InnerTime + TimePassed(d) /\ TotalTime(started["solver"]) = SolverTime + TimePassed(d)
  <2>1. "inner" \in TotalRead \cap RunningTimers(begun) /\ "solver" \in TotalRead \cap RunningTimers(begun)
    BY <1>2, <1>3 DEF TotalRead
  <2>2. QED
    BY <1>1, <1>3, <2>1, AfterEffect
<1> HIDE DEF started
<1>5. /\ tmTimers' \in TimerTables
      /\ RunningTimers(tmTimers') = (RunningTimers(tmTimers) \cup {"inner"}) \ {"trial"}
      /\ SolverTime' = SolverTime + TimePassed(d) /\ InnerTime' = InnerTime + TimePassed(d) /\ TrialTime' = 0
      /\ tmTimers'["trial"] = FreshTimer
  <2>1. \A n \in TimerNames : tmTimers'[n] = IF n = "trial" THEN FreshTimer ELSE started[n]
    BY <1>1, <1>4 DEF TimerTables, Rewound
  <2>2. tmTimers' \in TimerTables
    BY <1>1, <1>4, FreshRecord DEF TimerTables, Rewound
  <2>3. RunningTimers(tmTimers') = RunningTimers(started) \ {"trial"}
    BY <1>1, <1>4, <2>1, <2>2, ResetEffect
  <2>4. QED
    BY <1>1, <1>4, <2>1, <2>2, <2>3 DEF SolverTime, InnerTime, TrialTime, TotalTime, FreshTimer
<1>6. /\ tmTrial' = RemainingOf(InnerTime', tmInner)
      /\ tmInner = NoTime => tmTrial' = NoTime
      /\ tmInner # NoTime => tmTrial' = IF InnerTime' < tmInner THEN tmInner - InnerTime' ELSE 0
      /\ tmTrial' \in Times /\ TimePassed(d) \in Nat /\ TimePassed(d) <= d
  <2>1. TimePassed(d) \in Nat /\ TimePassed(d) <= d
    BY <1>1 DEF TimePassed
  <2>2. tmTrial' = RemainingOf(InnerTime', tmInner)
    BY <1>1, <1>4, <1>5 DEF Remaining
  <2>3. QED
    BY <1>2, <1>3, <1>5, <2>1, <2>2, RemainingTime
<1>7. Typed'
  BY <1>1, <1>5, <1>6 DEF Typed, TimerTypes, LimitTypes, SolveCountTypes, Stages, InSolver, InIteration, InTrial
<1>8. Statuses'
  BY <1>1 DEF Statuses
<1>9. Running'
  <2> DEFINE R == RunningTimers(tmTimers)
  <2>1. /\ RunningTimers(tmTimers)' = (R \cup {"inner"}) \ {"trial"}
        /\ Nested' = {"solver", "inner"} /\ Nested = {"solver"} /\ "solver" \in R
        /\ Strays' = R \ {"solver", "inner", "trial"} /\ Strays = R \ {"solver"}
        /\ tmTwice' = tmTwice
    BY <1>1, <1>2, <1>5 DEF Strays, Nested
  <2> HIDE DEF R
  <2>2. QED
    BY <1>1, <2>1 DEF TimersNest, Running, Statuses
<1>10. Limited'
  <2>1. tmTrial' = NoTime <=> tmInner = NoTime
    <3>1. CASE tmInner = NoTime
      BY <1>6, <3>1
    <3>2. CASE tmInner # NoTime
      BY <1>2, <1>3, <1>5, <1>6, <3>2 DEF Times, NoTime
    <3>3. QED
      BY <3>1, <3>2
  <2>2. QED
    BY <1>1, <2>1 DEF Limited, InSolver, InIteration, InTrial, Started
<1>11. Books'
  <2>1. Resting'
    BY <1>1, <1>5 DEF Resting
  <2>2. SolverBooks'
    BY <1>1, <1>3, <1>5, <1>6 DEF Books, SolverBooks, InSolver, InIteration, InTrial, Started, Typed, LimitTypes, Times, NoTime
  <2>3. InnerBooks'
    BY <1>1, <1>2, <1>3, <1>5, <1>6 DEF InnerBooks, InSolver, InIteration, InTrial, Started, Times, NoTime, Limited
  <2>4. TrialBooks'
    BY <1>1 DEF TrialBooks
  <2>5. QED
    BY <2>1, <2>2, <2>3, <2>4 DEF Books
<1>12. QED
  BY <1>7, <1>8, <1>9, <1>10, <1>11

\* The trial point solver starts its timer, which was set back.
LEMMA ComputeStep == ASSUME TimersInv, TmCompute PROVE TimersInv'
<1> USE DEF TimersInv
<1> USE TmAssumption
<1>1. /\ tmTimers \in TimerTables
      /\ "solver" \in TimerNames /\ "inner" \in TimerNames /\ "trial" \in TimerNames /\ {"trial"} \in SUBSET TimerNames
      /\ tmTimers' = StartTimers({"trial"}, tmTimers)
  BY DEF Typed, TimerTypes, TimerNames, TmCompute
<1>2. /\ tmTimers' \in TimerTables
      /\ RunningTimers(tmTimers') = RunningTimers(tmTimers) \cup {"trial"}
      /\ TotalTime(tmTimers'["trial"]) = tmTimers["trial"].total
      /\ tmTimers'["inner"] = tmTimers["inner"] /\ tmTimers'["solver"] = tmTimers["solver"]
  BY <1>1, StartEffect
<1>3. /\ tmStage = "compute" /\ tmStage' = "lp" /\ tmLPs' = 0
      /\ tmRest' = Remaining(tmTimers'["trial"], tmTrial)
      /\ tmLp' = Remaining(tmTimers'["trial"], tmTrial)
      /\ tmTwice' = tmTwice \cup ({"trial"} \cap RunningTimers(tmTimers))
      /\ UNCHANGED <<tmStatus, tmLimit, tmInner, tmTrial, tmTr, tmResult, tmIterations, tmSolves, tmTrouble, tmUncounted, tmOnTop, tmBorrowed>>
  BY DEF TmCompute, BeginTrialPoint, Starting
<1>4. /\ SolverTime' = SolverTime /\ InnerTime' = InnerTime /\ TrialTime' = 0 /\ TrialTime = 0
      /\ SolverTime \in Nat /\ InnerTime \in Nat
  BY <1>1, <1>2, <1>3, Shown DEF SolverTime, InnerTime, TrialTime, Books, Resting, FreshTimer, TotalTime
<1>5. /\ tmTrial \in Times
      /\ tmRest' = RemainingOf(0, tmTrial) /\ tmLp' = tmRest' /\ tmRest' = tmTrial
  BY <1>3, <1>4, RemainingTime DEF Remaining, TrialTime, Typed, LimitTypes, Times, NoTime
<1>6. Typed'
  BY <1>2, <1>3, <1>5, <1>1 DEF Typed, TimerTypes, LimitTypes, SolveCountTypes, Stages, InSolver, InIteration, InTrial, Started
<1>7. Statuses'
  BY <1>3 DEF Statuses
<1>8. Running'
  <2> DEFINE R == RunningTimers(tmTimers)
  <2>1. /\ RunningTimers(tmTimers)' = R \cup {"trial"} /\ "trial" \notin R
        /\ Nested' = {"solver", "inner", "trial"} /\ Nested = {"solver", "inner"}
        /\ Strays' = R \ {"solver", "inner", "trial"} /\ Strays = R \ {"solver", "inner"}
        /\ tmTwice' = tmTwice
    BY <1>2, <1>3, NestedRun DEF Strays, Nested
  <2>2. Strays' = Strays
    BY <1>3, <2>1
  <2>3. TimersNest'
    BY <1>3, <2>1, <2>2 DEF TimersNest, Running, Statuses
  <2>4. QED
    BY <1>3, <2>1, <2>2, <2>3 DEF Running, Statuses
<1>9. Limited'
  BY <1>3, <1>5 DEF Limited, InSolver, InIteration, InTrial, Started
<1>10. Books'
  <2>1. Resting'
    BY <1>3 DEF Resting
  <2>2. SolverBooks'
    BY <1>2, <1>3, <1>4 DEF Books, SolverBooks, InSolver, InIteration, InTrial
  <2>3. InnerBooks'
    BY <1>3, <1>4 DEF Books, InnerBooks, InSolver, InIteration, InTrial, Started
  <2>4. TrialBooks'
    <3>1. tmUncounted' = 0 /\ tmOnTop' \in Nat
      BY <1>3 DEF Books, Resting, Typed, SolveCountTypes
    <3>2. tmLimit' # NoTime => tmTrial' \in Nat
      BY <1>3, <1>5 DEF Limited, InTrial, Times
    <3>3. tmLp' = RemainingOf(TrialTime' - tmUncounted', tmTrial')
      BY <1>3, <1>4, <1>5, <3>1
    <3>4. QED
      BY <1>3, <1>4, <1>5, <3>1, <3>2, <3>3 DEF TrialBooks
  <2>5. QED
    BY <2>1, <2>2, <2>3, <2>4 DEF Books
<1>11. QED
  BY <1>6, <1>7, <1>8, <1>9, <1>10

\* What three running timers show moves together: the books of the problem
\* solver and of the solver stay balanced while a trial point is computed.
Elapses(d) ==
  /\ SolverTime' = SolverTime + d /\ InnerTime' = InnerTime + d /\ TrialTime' = TrialTime + d
  /\ tmTimers'["solver"].total = tmTimers["solver"].total

LEMMA OuterBooks ==
  ASSUME TimersInv, NEW d \in Nat, Elapses(d), tmStage \in Started, tmStage' \in Started,
         UNCHANGED <<tmLimit, tmInner, tmTrial>>, tmOnTop' \in Nat
  PROVE  SolverBooks' /\ InnerBooks'
<1>1. SolverTime \in Nat /\ InnerTime \in Nat /\ TrialTime \in Nat
  BY NestedRun, Shown DEF SolverTime, InnerTime, TrialTime
<1>2. tmStage' \notin {"outer", "head", "finish", "correct", "unwind"}
  BY DEF Started
<1>3. /\ tmStage \in InSolver /\ tmStage' \in InSolver /\ tmStage \in InTrial /\ tmStage' \in InTrial
  BY DEF InSolver, InIteration, InTrial
<1>4. tmLimit # NoTime => tmInner \in Nat /\ tmLimit \in Nat /\ tmTrial \in Nat /\ TmGrain \in Nat
  BY <1>3, TmAssumption DEF TimersInv, Typed, LimitTypes, Times, Limited
<1>5. SolverBooks'
  BY <1>1, <1>2, <1>3, <1>4 DEF TimersInv, Books, SolverBooks, Elapses
<1>6. InnerBooks'
  BY <1>1, <1>2, <1>3, <1>4 DEF TimersInv, Books, InnerBooks, Elapses
<1>7. QED
  BY <1>5, <1>6

LEMMA RefineStep == ASSUME TimersInv, TmRefine PROVE TimersInv'
<1> USE DEF TimersInv
<1> USE TmAssumption
<1> DEFINE p == TimePassed(TmGrain)
<1>1. /\ tmTimers \in TimerTables /\ TmGrain \in Nat /\ p \in Nat
      /\ "solver" \in TimerNames /\ "inner" \in TimerNames /\ "trial" \in TimerNames
      /\ tmTimers' = After(TmGrain, tmTimers)
  BY DEF Typed, TimerTypes, TimerNames, TmRefine, TimePassed
<1>2. /\ tmStage = "measure" /\ tmStage' = "lp"
      /\ tmRest' = Remaining(tmTimers'["trial"], tmTrial)
      /\ tmLp' = Remaining(tmTimers'["trial"], tmTrial)
      /\ tmOnTop' = tmOnTop + tmTimers'["trial"].current - tmTimers["trial"].current
      /\ tmUncounted' = 0
      /\ UNCHANGED <<tmStatus, tmLimit, tmInner, tmTrial, tmTr, tmResult, tmLPs, tmIterations, tmSolves, tmTrouble, tmBorrowed, tmTwice>>
  BY DEF TmRefine, BeginTrialPoint
<1>3. {"solver", "inner", "trial"} \subseteq RunningTimers(tmTimers)
  BY <1>2, NestedRun DEF InIteration, InTrial, Started
<1>4. /\ tmTimers' \in TimerTables /\ RunningTimers(tmTimers') = RunningTimers(tmTimers)
      /\ tmTimers'["trial"].current = tmTimers["trial"].current + p
      /\ Elapses(p)
  <2>1. {"solver", "inner", "trial"} \subseteq TotalRead \cap RunningTimers(tmTimers)
    BY <1>3 DEF TotalRead
  <2>2. QED
    BY <1>1, <2>1, AfterEffect DEF Elapses, SolverTime, InnerTime, TrialTime
<1> HIDE DEF p
<1>5. /\ tmTrial \in Times /\ TrialTime \in Nat /\ TrialTime' = TrialTime + p /\ tmOnTop' = tmOnTop + p
      /\ tmOnTop \in Nat /\ tmLp' = tmRest' /\ tmRest' = RemainingOf(TrialTime + p, tmTrial)
  BY <1>1, <1>2, <1>4, Shown DEF Remaining, TrialTime, Typed, LimitTypes, SolveCountTypes, Elapses
<1>6. /\ tmTrial = NoTime => tmRest' = NoTime
      /\ tmTrial # NoTime => tmRest' = IF TrialTime + p < tmTrial THEN tmTrial - (TrialTime + p) ELSE 0
      /\ tmRest' \in Times
  BY <1>1, <1>5, RemainingTime
<1>7. Typed'
  BY <1>1, <1>2, <1>4, <1>5, <1>6 DEF Typed, TimerTypes, LimitTypes, SolveCountTypes, Stages, InSolver, InIteration, InTrial, Started
<1>8. Statuses'
  BY <1>2 DEF Statuses
<1>9. Running'
  <2>1. /\ RunningTimers(tmTimers)' = RunningTimers(tmTimers) /\ Nested' = Nested /\ Strays' = Strays
    BY <1>2, <1>4 DEF Strays, Nested
  <2>2. QED
    BY <1>2, <2>1 DEF TimersNest, Running, Statuses
<1>10. Limited'
  <2>1. tmRest' = NoTime <=> tmTrial = NoTime
    <3>1. CASE tmTrial = NoTime
      BY <1>6, <3>1
    <3>2. CASE tmTrial # NoTime
      BY <1>1, <1>5, <1>6, <3>2 DEF Times, NoTime
    <3>3. QED
      BY <3>1, <3>2
  <2>2. QED
    BY <1>2, <1>5, <2>1 DEF Limited, InSolver, InIteration, InTrial, Started
<1>11. Books'
  <2>1. Resting'
    BY <1>2 DEF Resting
  <2>2. SolverBooks' /\ InnerBooks'
    BY <1>1, <1>2, <1>4, <1>5, OuterBooks DEF Started
  <2>3. TrialBooks'
    BY <1>1, <1>2, <1>5, <1>6 DEF Books, TrialBooks, Times, NoTime, Limited, InTrial, Started
  <2>4. QED
    BY <2>1, <2>2, <2>3 DEF Books
<1>12. QED
  BY <1>7, <1>8, <1>9, <1>10, <1>11

\* A trial point that is left, by an error or a time limit: what it took is
\* part of what the problem solver and the solver took.
LEMMA LeaveTrialPoint ==
  ASSUME TimersInv, NEW d \in Nat, Elapses(d), tmStage \in Started, tmStage' = "unwind",
         UNCHANGED <<tmLimit, tmInner>>, tmOnTop' \in Nat,
         tmLimit # NoTime => TrialTime' <= 2 * tmTrial + tmOnTop' + TmGrain,
         tmLimit # NoTime /\ tmStatus' = "time" => tmTrial <= TrialTime' + tmBorrowed',
         tmBorrowed' \in Nat
  PROVE  Books'
<1>1. SolverTime \in Nat /\ InnerTime \in Nat /\ TrialTime \in Nat
  BY NestedRun, Shown DEF SolverTime, InnerTime, TrialTime
<1>2. tmStage \in InSolver /\ tmStage' \in InSolver /\ tmStage \in InTrial
  BY DEF Started, InSolver, InIteration, InTrial
<1>3. tmLimit # NoTime => tmInner \in Nat /\ tmLimit \in Nat /\ tmTrial \in Nat /\ TmGrain \in Nat
  BY <1>2, TmAssumption DEF TimersInv, Typed, LimitTypes, Times, Limited
<1>4. SolverBooks'
  BY <1>1, <1>2, <1>3 DEF TimersInv, Books, SolverBooks, Elapses
<1>5. InnerBooks'
  <2>1. tmLimit # NoTime =>
          /\ InnerTime' = (InnerTime - TrialTime) + TrialTime'
          /\ tmTrial = IF InnerTime - TrialTime < tmInner THEN tmInner - (InnerTime - TrialTime) ELSE 0
          /\ InnerTime - TrialTime \in Nat /\ InnerTime - TrialTime <= tmInner + TmGrain
    <3>1. tmLimit # NoTime =>
            /\ tmTrial = RemainingOf(InnerTime - TrialTime, tmInner)
            /\ TrialTime <= InnerTime /\ InnerTime <= TrialTime + tmInner + TmGrain
      BY <1>2 DEF TimersInv, Books, InnerBooks
    <3>2. /\ InnerTime' = (InnerTime - TrialTime) + TrialTime'
          /\ TrialTime <= InnerTime => InnerTime - TrialTime \in Nat
          /\ InnerTime - TrialTime \in Int
      BY <1>1 DEF Elapses
    <3>3. tmLimit # NoTime => tmInner \in Times /\ tmInner # NoTime
      BY <1>3 DEF Times, NoTime
    <3>4. tmLimit # NoTime => InnerTime - TrialTime <= tmInner + TmGrain
      BY <1>1, <1>3, <3>1
    <3>5. QED
      BY <3>1, <3>2, <3>3, <3>4, RemainingTime
  <2>2. TrialTime' \in Nat
    BY <1>1 DEF Elapses
  <2>3. tmLimit # NoTime => InnerTime' <= 2 * tmInner + tmOnTop' + 3 * TmGrain
    BY <1>3, <2>1, <2>2
  <2>4. tmLimit # NoTime /\ tmStatus' = "time" => InnerTime' + tmBorrowed' >= tmInner
    BY <1>3, <2>1, <2>2
  <2>5. QED
    BY <2>3, <2>4 DEF InnerBooks, InTrial, Started
<1>6. Resting' /\ TrialBooks'
  BY DEF Resting, TrialBooks
<1>7. QED
  BY <1>4, <1>5, <1>6 DEF Books

-----------------------------------------------------------------------------
(* Linear programs                                                         *)

\* The timer of a linear program is started and stopped within its solution.
LEMMA LpTable ==
  ASSUME NEW name \in {"lp", "reduced"}, NEW d \in Nat, NEW ts \in TimerTables,
         {"solver", "inner", "trial"} \subseteq RunningTimers(ts), name \notin RunningTimers(ts)
  PROVE  LET done == StopTimers({name}, After(d, StartTimers({name}, ts)))
         IN /\ done \in TimerTables /\ RunningTimers(done) = RunningTimers(ts)
            /\ \A n \in {"solver", "inner", "trial"} :
                 /\ TotalTime(done[n]) = TotalTime(ts[n]) + TimePassed(d)
                 /\ done[n].total = ts[n].total /\ done[n].current = ts[n].current + TimePassed(d)
            /\ name = "lp" => Elapsed(done["lp"]) = TimePassed(d)
<1> DEFINE begun == StartTimers({name}, ts)
           ran == After(d, begun)
           done == StopTimers({name}, ran)
           read == {"solver", "inner", "trial"}
<1>1. {name} \in SUBSET TimerNames /\ name \in TimerNames
  BY DEF TimerNames
<1>2. \A n \in read : n \in TimerNames \ {name} /\ n \in TotalRead /\ n \in RunningTimers(ts)
  BY DEF TimerNames, TotalRead
<1>3. /\ begun \in TimerTables /\ RunningTimers(begun) = RunningTimers(ts) \cup {name}
      /\ \A n \in TimerNames \ {name} : begun[n] = ts[n]
      /\ begun[name].current = 0
  BY <1>1, StartEffect
<1> HIDE DEF begun
<1>4. /\ ran \in TimerTables /\ RunningTimers(ran) = RunningTimers(begun)
      /\ \A n \in TimerNames : ran[n].total = begun[n].total
      /\ \A n \in LastRead \cap RunningTimers(begun) : ran[n].current = begun[n].current + TimePassed(d)
      /\ \A n \in TotalRead \cap RunningTimers(begun) :
           /\ ran[n].current = begun[n].current + TimePassed(d)
           /\ TotalTime(ran[n]) = TotalTime(begun[n]) + TimePassed(d)
  BY <1>3, AfterEffect
<1> HIDE DEF ran
<1>5. /\ done \in TimerTables /\ RunningTimers(done) = RunningTimers(ran) \ {name}
      /\ \A n \in TimerNames \ {name} : done[n] = ran[n]
      /\ done[name].current = 0
      /\ \A n \in {name} \cap LastRead : done[n].last = ran[n].current
  BY <1>1, <1>4, StopEffect
<1> HIDE DEF done
<1>6. RunningTimers(done) = RunningTimers(ts)
  BY <1>3, <1>4, <1>5
<1>7. ASSUME NEW n \in read
      PROVE  /\ TotalTime(done[n]) = TotalTime(ts[n]) + TimePassed(d)
             /\ done[n].total = ts[n].total /\ done[n].current = ts[n].current + TimePassed(d)
  BY <1>2, <1>3, <1>4, <1>5
<1>8. name = "lp" => Elapsed(done["lp"]) = TimePassed(d)
  <2>1. TimePassed(d) \in Nat /\ (name = "lp" => name \in {name} \cap LastRead /\ name \in LastRead \cap RunningTimers(begun))
    BY <1>3 DEF TimePassed, LastRead
  <2>2. QED
    BY <1>3, <1>4, <1>5, <2>1 DEF Elapsed
<1>9. QED
  BY <1>5, <1>6, <1>7, <1>8 DEF done, ran, begun

\* What a call of the linear programming solver does: e is the time it takes.
LpOutcome(name, e, next) ==
  /\ e \in Nat /\ Elapses(TimePassed(e)) /\ tmTimers' \in TimerTables
  /\ RunningTimers(tmTimers') = RunningTimers(tmTimers) /\ tmTwice' = tmTwice
  /\ tmTimers'["trial"].current = tmTimers["trial"].current + TimePassed(e)
  /\ name = "lp" => Elapsed(tmTimers'["lp"]) = TimePassed(e)
  /\ tmLp # NoTime => e <= tmLp
  /\ \/ tmStage' = "unwind" /\ tmStatus' = "time" /\ tmLp # NoTime /\ e = tmLp
     \/ tmStage' = "unwind" /\ tmStatus' = "error"
     \/ tmStage' \in next /\ tmStatus' = tmStatus

LEMMA LpSolved ==
  ASSUME TimersInv, NEW name \in {"lp", "reduced"}, NEW next, NEW d \in TmLpTimes, SolveLP(name, d, next),
         tmStage \in {"lp", "reduced"}
  PROVE  \E e \in Nat : LpOutcome(name, e, next)
<1> DEFINE e == IF tmLp # NoTime /\ d > tmLp THEN tmLp ELSE d
<1>1. /\ d \in Nat /\ e \in Nat /\ tmLp \in Times /\ (tmLp # NoTime => e <= tmLp)
  BY TmAssumption DEF TimersInv, Typed, LimitTypes, Times, NoTime
<1>2. /\ tmTimers \in TimerTables
      /\ {"solver", "inner", "trial"} \subseteq RunningTimers(tmTimers) /\ name \notin RunningTimers(tmTimers)
  BY DEF TimersInv, Typed, TimerTypes, Running, TimersNest, Strays, Nested
<1>3. /\ tmTimers' = StopTimers({name}, After(e, StartTimers({name}, tmTimers)))
      /\ tmTwice' = tmTwice \cup ({name} \cap RunningTimers(tmTimers))
  BY DEF SolveLP, Starting
<1>4. \/ tmStage' = "unwind" /\ tmStatus' = "time" /\ tmLp # NoTime /\ e = tmLp
      \/ tmStage' = "unwind" /\ tmStatus' = "error"
      \/ tmStage' \in next /\ tmStatus' = tmStatus
  BY DEF SolveLP, Unwind
<1> HIDE DEF e
<1>5. /\ tmTimers' \in TimerTables /\ RunningTimers(tmTimers') = RunningTimers(tmTimers)
      /\ \A n \in {"solver", "inner", "trial"} :
           /\ TotalTime(tmTimers'[n]) = TotalTime(tmTimers[n]) + TimePassed(e)
           /\ tmTimers'[n].total = tmTimers[n].total /\ tmTimers'[n].current = tmTimers[n].current + TimePassed(e)
      /\ name = "lp" => Elapsed(tmTimers'["lp"]) = TimePassed(e)
  <2> DEFINE done == StopTimers({name}, After(e, StartTimers({name}, tmTimers)))
  <2>1. e \in Nat
    BY <1>1
  <2>2. /\ done \in TimerTables /\ RunningTimers(done) = RunningTimers(tmTimers)
        /\ \A n \in {"solver", "inner", "trial"} :
             /\ TotalTime(done[n]) = TotalTime(tmTimers[n]) + TimePassed(e)
             /\ done[n].total = tmTimers[n].total /\ done[n].current = tmTimers[n].current + TimePassed(e)
        /\ name = "lp" => Elapsed(done["lp"]) = TimePassed(e)
    BY <1>2, <2>1, LpTable
  <2> HIDE DEF done
  <2>3. tmTimers' = done
    BY <1>3 DEF done
  <2>4. QED
    BY <2>2, <2>3
<1>6. tmTwice' = tmTwice
  BY <1>2, <1>3
<1>7. LpOutcome(name, e, next)
  BY <1>1, <1>4, <1>5, <1>6 DEF LpOutcome, Elapses, SolverTime, InnerTime, TrialTime
<1>8. QED
  BY <1>1, <1>7

LEMMA SolveDefaultStep == ASSUME TimersInv, TmSolveDefault PROVE TimersInv'
<1> USE DEF TimersInv
<1>1. PICK d \in TmLpTimes : SolveLP("lp", d, {"lp", "reduced", "eqp"})
  BY DEF TmSolveDefault
<1>2. /\ tmStage = "lp" /\ tmLPs' = tmLPs + 1
      /\ tmLp' = IF tmStage' = "unwind" THEN tmLp ELSE RemainingOf(Elapsed(tmTimers'["lp"]), tmLp)
      /\ UNCHANGED <<tmLimit, tmInner, tmTrial, tmTr, tmRest, tmResult, tmIterations, tmSolves, tmTrouble, tmUncounted, tmOnTop, tmBorrowed>>
  BY DEF TmSolveDefault, LpTimeLeft
<1>3. PICK e \in Nat : LpOutcome("lp", e, {"lp", "reduced", "eqp"})
  BY <1>1, <1>2, LpSolved
<1>4. /\ Elapses(TimePassed(e)) /\ tmTimers' \in TimerTables /\ TimePassed(e) \in Nat
      /\ RunningTimers(tmTimers') = RunningTimers(tmTimers) /\ tmTwice' = tmTwice
      /\ Elapsed(tmTimers'["lp"]) = TimePassed(e)
      /\ tmLp # NoTime => e <= tmLp
  BY <1>3 DEF LpOutcome, TimePassed
<1>5. \/ tmStage' = "unwind" /\ tmStatus' = "time" /\ tmLp # NoTime /\ e = tmLp
      \/ tmStage' = "unwind" /\ tmStatus' = "error"
      \/ tmStage' \in {"lp", "reduced", "eqp"} /\ tmStatus' = tmStatus
  BY <1>3 DEF LpOutcome
<1>6. /\ tmLimit = NoTime => TimePassed(e) = 0 /\ tmLp = NoTime
      /\ tmLimit # NoTime => /\ TimePassed(e) = e /\ tmLp # NoTime
                             /\ tmLp \in Nat /\ tmRest \in Nat /\ tmTrial \in Nat /\ tmLimit \in Nat
      /\ tmLp \in Times /\ tmOnTop \in Nat /\ tmUncounted \in Nat /\ tmBorrowed \in Nat /\ TmGrain \in Nat
  BY <1>2, TmAssumption DEF TimePassed, Limited, InTrial, Started, Typed, LimitTypes, SolveCountTypes, Times
<1>7. tmLp' = IF tmStage' = "unwind" \/ tmLimit = NoTime THEN tmLp ELSE tmLp - e
  <2>1. CASE tmLimit = NoTime
    BY <1>2, <1>4, <1>6, <2>1, RemainingTime
  <2>2. CASE tmLimit # NoTime
    BY <1>2, <1>4, <1>6, <2>2, RemainingTime
  <2>3. QED
    BY <2>1, <2>2
<1>8. Typed'
  <2>1. tmLp' \in Times
    BY <1>4, <1>6, <1>7 DEF Times
  <2>2. QED
    BY <1>2, <1>4, <1>5, <2>1 DEF Typed, TimerTypes, LimitTypes, SolveCountTypes, Stages, InSolver, InIteration, InTrial, Started
<1>9. Statuses'
  BY <1>2, <1>5, <1>6 DEF Statuses
<1>10. Running'
  <2>1. /\ Nested = {"solver", "inner", "trial"} /\ Nested' \subseteq Nested /\ Nested \subseteq Nested' \cup {"trial"}
        /\ tmStage' # "unwind" => Nested' = Nested
    BY <1>2, <1>5 DEF Nested
  <2>2. TimersNest'
    BY <1>2, <1>4, <1>5, <2>1 DEF TimersNest, Strays, Running, Statuses
  <2>3. QED
    BY <1>2, <1>4, <1>5, <2>1, <2>2 DEF Running, Strays, Statuses
<1>11. Limited'
  BY <1>2, <1>4, <1>5, <1>6, <1>7 DEF Limited, InSolver, InIteration, InTrial, Started, Times, NoTime
<1>12. TrialTime \in Nat /\ TrialTime' = TrialTime + TimePassed(e)
  BY <1>4, NestedRun, Shown DEF TrialTime, Elapses
<1>13. tmLimit # NoTime =>
         /\ tmLp = RemainingOf(TrialTime - tmUncounted, tmTrial)
         /\ tmLp <= tmRest /\ tmRest <= tmTrial
         /\ tmTrial <= TrialTime + tmRest
         /\ TrialTime + tmRest + tmLp <= 2 * tmTrial + tmOnTop
  BY <1>2 DEF Books, TrialBooks
<1>14. tmLimit # NoTime => tmLp = IF TrialTime - tmUncounted < tmTrial THEN tmTrial - (TrialTime - tmUncounted) ELSE 0
  <2> SUFFICES ASSUME tmLimit # NoTime
               PROVE  tmLp = IF TrialTime - tmUncounted < tmTrial THEN tmTrial - (TrialTime - tmUncounted) ELSE 0
    OBVIOUS
  <2> HIDE DEF TimersInv
  <2>1. tmTrial \in Times /\ tmTrial # NoTime /\ TrialTime - tmUncounted \in Int
    BY <1>6, <1>12 DEF Times, NoTime
  <2>2. tmLp = RemainingOf(TrialTime - tmUncounted, tmTrial)
    BY <1>13
  <2>3. QED
    BY <2>1, <2>2, RemainingTime
<1>15. CASE tmStage' = "unwind"
  <2>1. tmLimit # NoTime => TrialTime' <= 2 * tmTrial + tmOnTop' + TmGrain
    BY <1>2, <1>4, <1>6, <1>12, <1>13
  <2>2. tmLimit # NoTime /\ tmStatus' = "time" => tmTrial <= TrialTime' + tmBorrowed'
    BY <1>2, <1>4, <1>5, <1>6, <1>12, <1>13, <1>14, <1>15
  <2>3. tmStage \in Started
    BY <1>2 DEF Started
  <2>4. Books'
    BY <1>2, <1>4, <1>6, <1>15, <2>1, <2>2, <2>3, LeaveTrialPoint
  <2>5. QED
    BY <1>8, <1>9, <1>10, <1>11, <2>4
<1>16. CASE tmStage' # "unwind"
  <2>1. tmStage \in Started /\ tmStage' \in Started /\ tmStage' \in {"lp", "reduced", "eqp"}
    BY <1>2, <1>5, <1>16 DEF Started
  <2>2. SolverBooks' /\ InnerBooks'
    BY <1>2, <1>4, <1>6, <2>1, OuterBooks
  <2>3. Resting'
    BY <2>1 DEF Resting
  <2>4. tmLimit' # NoTime =>
          /\ tmLp' = RemainingOf(TrialTime' - tmUncounted', tmTrial')
          /\ tmLp' <= tmRest' /\ tmRest' <= tmTrial'
          /\ tmTrial' <= TrialTime' + tmRest'
          /\ TrialTime' + tmRest' + tmLp' <= 2 * tmTrial' + tmOnTop'
    <3>1. SUFFICES ASSUME tmLimit # NoTime
                   PROVE  /\ tmLp - e = RemainingOf(TrialTime + e - tmUncounted, tmTrial)
                          /\ tmLp - e <= tmRest /\ tmRest <= tmTrial
                          /\ tmTrial <= TrialTime + e + tmRest
                          /\ TrialTime + e + tmRest + (tmLp - e) <= 2 * tmTrial + tmOnTop
      BY <1>2, <1>6, <1>7, <1>12, <1>16
    <3>2. tmLp - e = RemainingOf(TrialTime + e - tmUncounted, tmTrial)
      BY <1>4, <1>6, <1>12, <1>14, <3>1, RemainingTime DEF Times, NoTime
    <3>3. QED
      BY <1>4, <1>6, <1>12, <1>13, <3>1, <3>2
  <2>5. TrialBooks'
    BY <2>1, <2>4 DEF TrialBooks
  <2>6. QED
    BY <1>8, <1>9, <1>10, <1>11, <2>2, <2>3, <2>5 DEF Books
<1>17. QED
  BY <1>15, <1>16

LEMMA SolveReducedStep == ASSUME TimersInv, TmSolveReduced PROVE TimersInv'
<1> USE DEF TimersInv
<1>1. PICK d \in TmLpTimes : SolveLP("reduced", d, {"lp", "eqp"})
  BY DEF TmSolveReduced
<1>2. /\ tmStage = "reduced"
      /\ tmUncounted' = tmUncounted + tmTimers'["trial"].current - tmTimers["trial"].current
      /\ tmOnTop' = tmOnTop + tmTimers'["trial"].current - tmTimers["trial"].current
      /\ UNCHANGED <<tmLimit, tmInner, tmTrial, tmLp, tmTr, tmRest, tmResult, tmLPs, tmIterations, tmSolves, tmTrouble, tmBorrowed>>
  BY DEF TmSolveReduced, limitVars
<1>3. PICK e \in Nat : LpOutcome("reduced", e, {"lp", "eqp"})
  BY <1>1, <1>2, LpSolved
<1>4. /\ Elapses(TimePassed(e)) /\ tmTimers' \in TimerTables /\ TimePassed(e) \in Nat
      /\ RunningTimers(tmTimers') = RunningTimers(tmTimers) /\ tmTwice' = tmTwice
      /\ tmTimers'["trial"].current = tmTimers["trial"].current + TimePassed(e)
      /\ tmLp # NoTime => e <= tmLp
  BY <1>3 DEF LpOutcome, TimePassed
<1>5. \/ tmStage' = "unwind" /\ tmStatus' = "time" /\ tmLp # NoTime /\ e = tmLp
      \/ tmStage' = "unwind" /\ tmStatus' = "error"
      \/ tmStage' \in {"lp", "eqp"} /\ tmStatus' = tmStatus
  BY <1>3 DEF LpOutcome
<1>6. /\ tmLimit = NoTime => TimePassed(e) = 0 /\ tmLp = NoTime
      /\ tmLimit # NoTime => /\ TimePassed(e) = e /\ tmLp # NoTime
                             /\ tmLp \in Nat /\ tmRest \in Nat /\ tmTrial \in Nat /\ tmLimit \in Nat
      /\ tmLp \in Times /\ tmOnTop \in Nat /\ tmUncounted \in Nat /\ tmBorrowed \in Nat /\ TmGrain \in Nat
  BY <1>2, TmAssumption DEF TimePassed, Limited, InTrial, Started, Typed, LimitTypes, SolveCountTypes, Times
<1>7. tmTimers["trial"].current \in Nat /\ TrialTime \in Nat /\ TrialTime' = TrialTime + TimePassed(e)
  BY <1>4, NestedRun, Shown DEF TrialTime, Elapses
<1>8. tmUncounted' = tmUncounted + TimePassed(e) /\ tmOnTop' = tmOnTop + TimePassed(e)
  BY <1>2, <1>4, <1>6, <1>7
<1>9. Typed'
  BY <1>2, <1>4, <1>5, <1>6, <1>8 DEF Typed, TimerTypes, LimitTypes, SolveCountTypes, Stages, InSolver, InIteration, InTrial, Started
<1>10. Statuses'
  BY <1>2, <1>5, <1>6 DEF Statuses
<1>11. Running'
  <2>1. /\ Nested = {"solver", "inner", "trial"} /\ Nested' \subseteq Nested /\ Nested \subseteq Nested' \cup {"trial"}
        /\ tmStage' # "unwind" => Nested' = Nested
    BY <1>2, <1>5 DEF Nested
  <2>2. TimersNest'
    BY <1>2, <1>4, <1>5, <2>1 DEF TimersNest, Strays, Running, Statuses
  <2>3. QED
    BY <1>2, <1>4, <1>5, <2>1, <2>2 DEF Running, Strays, Statuses
<1>12. Limited'
  BY <1>2, <1>5 DEF Limited, InSolver, InIteration, InTrial, Started
<1>13. tmLimit # NoTime =>
         /\ tmLp = RemainingOf(TrialTime - tmUncounted, tmTrial)
         /\ tmLp <= tmRest /\ tmRest <= tmTrial
         /\ tmTrial <= TrialTime + tmRest
         /\ TrialTime + tmRest + tmLp <= 2 * tmTrial + tmOnTop
  BY <1>2 DEF Books, TrialBooks
<1>14. tmLimit # NoTime => tmLp = IF TrialTime - tmUncounted < tmTrial THEN tmTrial - (TrialTime - tmUncounted) ELSE 0
  <2> SUFFICES ASSUME tmLimit # NoTime
               PROVE  tmLp = IF TrialTime - tmUncounted < tmTrial THEN tmTrial - (TrialTime - tmUncounted) ELSE 0
    OBVIOUS
  <2> HIDE DEF TimersInv
  <2>1. tmTrial \in Times /\ tmTrial # NoTime /\ TrialTime - tmUncounted \in Int
    BY <1>6, <1>7 DEF Times, NoTime
  <2>2. tmLp = RemainingOf(TrialTime - tmUncounted, tmTrial)
    BY <1>13
  <2>3. QED
    BY <2>1, <2>2, RemainingTime
<1>15. CASE tmStage' = "unwind"
  <2>1. tmLimit # NoTime => TrialTime' <= 2 * tmTrial + tmOnTop' + TmGrain
    BY <1>6, <1>7, <1>8, <1>13
  <2>2. tmLimit # NoTime /\ tmStatus' = "time" => tmTrial <= TrialTime' + tmBorrowed'
    BY <1>2, <1>5, <1>6, <1>7, <1>13, <1>14, <1>15
  <2>3. tmStage \in Started /\ tmOnTop' \in Nat
    BY <1>2, <1>4, <1>6, <1>8 DEF Started
  <2>4. Books'
    BY <1>2, <1>4, <1>6, <1>15, <2>1, <2>2, <2>3, LeaveTrialPoint
  <2>5. QED
    BY <1>9, <1>10, <1>11, <1>12, <2>4
<1>16. CASE tmStage' # "unwind"
  <2>1. tmStage \in Started /\ tmStage' \in Started /\ tmStage' \in {"lp", "reduced", "eqp"} /\ tmOnTop' \in Nat
    BY <1>2, <1>4, <1>5, <1>6, <1>8, <1>16 DEF Started
  <2>2. SolverBooks' /\ InnerBooks'
    BY <1>2, <1>4, <1>6, <2>1, OuterBooks
  <2>3. Resting'
    BY <2>1 DEF Resting
  <2>4. tmLimit' # NoTime =>
          /\ tmLp' = RemainingOf(TrialTime' - tmUncounted', tmTrial')
          /\ tmLp' <= tmRest' /\ tmRest' <= tmTrial'
          /\ tmTrial' <= TrialTime' + tmRest'
          /\ TrialTime' + tmRest' + tmLp' <= 2 * tmTrial' + tmOnTop'
    <3>1. TrialTime' - tmUncounted' = TrialTime - tmUncounted
      BY <1>4, <1>6, <1>7, <1>8
    <3>2. QED
      BY <1>2, <1>4, <1>6, <1>7, <1>8, <1>13, <3>1
  <2>5. TrialBooks'
    BY <2>1, <2>4 DEF TrialBooks
  <2>6. QED
    BY <1>9, <1>10, <1>11, <1>12, <2>2, <2>3, <2>5 DEF Books
<1>17. QED
  BY <1>15, <1>16

-----------------------------------------------------------------------------
(* The Newton step                                                         *)

\* No time passes where timers are only started or stopped.
LEMMA NoTimePasses ==
  ASSUME NEW ts \in TimerTables, NEW names \in SUBSET TimerNames, names \cap TotalRead = {}
  PROVE  /\ \A n \in TotalRead : /\ TotalTime(StartTimers(names, ts)[n]) = TotalTime(ts[n])
                                 /\ StartTimers(names, ts)[n] = ts[n]
         /\ \A n \in TotalRead : /\ TotalTime(StopTimers(names, ts)[n]) = TotalTime(ts[n])
                                 /\ StopTimers(names, ts)[n] = ts[n]
<1>1. \A n \in TotalRead : n \in TimerNames \ names
  BY DEF TotalRead, TimerNames
<1>2. \A n \in TotalRead : StartTimers(names, ts)[n] = ts[n]
  BY <1>1, StartEffect
<1>3. \A n \in TotalRead : StopTimers(names, ts)[n] = ts[n]
  BY <1>1, StopEffect
<1>4. QED
  BY <1>2, <1>3

LEMMA SkipEqpStep == ASSUME TimersInv, TmSkipEqp PROVE TimersInv'
<1> USE DEF TimersInv
<1>1. /\ tmStage = "eqp" /\ tmStage' = "measure" /\ tmTr' = tmRest /\ tmStatus' = tmStatus /\ tmBorrowed' = tmBorrowed
      /\ tmTimers' = StopTimers({"eqp"}, StartTimers({"eqp"}, tmTimers))
      /\ tmTwice' = tmTwice \cup ({"eqp"} \cap RunningTimers(tmTimers))
      /\ UNCHANGED <<tmLimit, tmInner, tmTrial, tmLp, tmRest, tmResult, tmLPs, tmIterations, tmSolves, tmTrouble, tmUncounted, tmOnTop>>
  BY DEF TmSkipEqp, countVars, Starting
<1>2. {"eqp"} \in SUBSET TimerNames /\ {"eqp"} \cap TotalRead = {} /\ tmTimers \in TimerTables
      /\ "eqp" \notin RunningTimers(tmTimers)
  BY <1>1 DEF TimerNames, TotalRead, Typed, TimerTypes, Running, TimersNest, Strays, Nested
<1>3. /\ tmTimers' \in TimerTables /\ RunningTimers(tmTimers') = RunningTimers(tmTimers)
      /\ \A n \in TotalRead : tmTimers'[n] = tmTimers[n]
  <2> DEFINE begun == StartTimers({"eqp"}, tmTimers)
  <2>1. begun \in TimerTables /\ RunningTimers(begun) = RunningTimers(tmTimers) \cup {"eqp"}
    BY <1>2, StartEffect
  <2>2. \A n \in TotalRead : begun[n] = tmTimers[n]
    BY <1>2, NoTimePasses
  <2> HIDE DEF begun
  <2>3. StopTimers({"eqp"}, begun) \in TimerTables
        /\ RunningTimers(StopTimers({"eqp"}, begun)) = RunningTimers(begun) \ {"eqp"}
    BY <1>2, <2>1, StopEffect
  <2>4. \A n \in TotalRead : StopTimers({"eqp"}, begun)[n] = begun[n]
    BY <1>2, <2>1, NoTimePasses
  <2>5. tmTimers' = StopTimers({"eqp"}, begun)
    BY <1>1 DEF begun
  <2>6. QED
    BY <1>2, <2>1, <2>2, <2>3, <2>4, <2>5
<1>4. tmTwice' = tmTwice
  BY <1>1, <1>2
<1>5. Elapses(0) /\ TrialTime \in Nat
  BY <1>2, <1>3, Shown DEF Elapses, SolverTime, InnerTime, TrialTime, TotalRead, TimerNames
<1>6. Typed'
  BY <1>1, <1>3, <1>4 DEF Typed, TimerTypes, LimitTypes, SolveCountTypes, Stages, InSolver, InIteration, InTrial, Started
<1>7. Statuses'
  BY <1>1 DEF Statuses
<1>8. Running'
  BY <1>1, <1>3, <1>4 DEF Running, TimersNest, Strays, Nested, Statuses
<1>9. Limited'
  BY <1>1 DEF Limited, InSolver, InIteration, InTrial, Started
<1>10. Books'
  <2>1. tmStage \in Started /\ tmStage' \in Started /\ tmOnTop \in Nat /\ tmOnTop' = tmOnTop
    BY <1>1 DEF Started, Typed, SolveCountTypes
  <2>2. SolverBooks' /\ InnerBooks'
    BY <1>1, <1>5, <2>1, OuterBooks
  <2>3. Resting'
    BY <1>1 DEF Resting
  <2>4. TrialBooks'
    <3>1. tmLimit # NoTime => /\ TrialTime + tmRest + tmLp <= 2 * tmTrial + tmOnTop
                              /\ tmRest \in Nat /\ tmLp \in Nat /\ tmTrial \in Nat
      BY <1>1 DEF Books, TrialBooks, Limited, InTrial, Started, Typed, LimitTypes, Times
    <3>2. TrialTime' = TrialTime
      BY <1>5 DEF Elapses
    <3>3. tmLimit # NoTime => TrialTime <= 2 * tmTrial + tmOnTop
      BY <1>5, <2>1, <3>1
    <3>4. QED
      BY <1>1, <3>2, <3>3 DEF TrialBooks
  <2>5. QED
    BY <2>2, <2>3, <2>4 DEF Books
<1>11. QED
  BY <1>6, <1>7, <1>8, <1>9, <1>10

LEMMA StartEqpStep == ASSUME TimersInv, TmStartEqp PROVE TimersInv'
<1> USE DEF TimersInv
<1> DEFINE names == {"eqp", "newton", "tr", "cg"}
<1>1. /\ tmStage = "eqp" /\ tmStage' = "cg" /\ tmTr' = tmRest /\ tmStatus' = tmStatus
      /\ tmBorrowed' = tmTimers["cg"].last
      /\ tmTimers' = StartTimers(names, tmTimers)
      /\ tmTwice' = tmTwice \cup (names \cap RunningTimers(tmTimers))
      /\ UNCHANGED <<tmLimit, tmInner, tmTrial, tmLp, tmRest, tmResult, tmLPs, tmIterations, tmSolves, tmTrouble, tmUncounted, tmOnTop>>
  BY DEF TmStartEqp, Starting
<1>2. names \in SUBSET TimerNames /\ names \cap TotalRead = {} /\ tmTimers \in TimerTables /\ "cg" \in names
  BY DEF TimerNames, TotalRead, Typed, TimerTypes
<1> HIDE DEF names
<1>3. /\ tmTimers' \in TimerTables /\ RunningTimers(tmTimers') = RunningTimers(tmTimers) \cup names
      /\ tmTimers'["cg"].current = 0 /\ tmTimers'["cg"].last = tmTimers["cg"].last
  BY <1>1, <1>2, StartEffect
<1>4. \A n \in TotalRead : tmTimers'[n] = tmTimers[n]
  BY <1>1, <1>2, NoTimePasses
<1>5. Elapses(0) /\ TrialTime \in Nat /\ tmTimers["cg"].last \in Nat
  BY <1>2, <1>4, Shown DEF Elapses, SolverTime, InnerTime, TrialTime, TotalRead, TimerNames
<1>6. Typed'
  <2>1. tmTwice' \subseteq TimerNames
    BY <1>1, <1>2 DEF Typed, TimerTypes
  <2>2. QED
    BY <1>1, <1>3, <1>5, <2>1 DEF Typed, TimerTypes, LimitTypes, SolveCountTypes, Stages, InSolver, InIteration, InTrial, Started
<1>7. Statuses'
  BY <1>1 DEF Statuses
<1>8. Running'
  <2>1. /\ Nested = {"solver", "inner", "trial"} /\ Nested' = Nested \cup names
    BY <1>1 DEF Nested, names
  <2>2. /\ Strays \subseteq {"newton", "tr", "cg"} /\ Strays' \subseteq Strays
        /\ names \cap RunningTimers(tmTimers) \subseteq Strays
    BY <1>1, <1>3, <2>1 DEF Running, TimersNest, Strays, Nested, names
  <2>3. tmTrouble = "none" => Strays = {} /\ tmTwice = {}
    BY <1>1 DEF Running, TimersNest, Statuses
  <2>4. TimersNest'
    BY <1>1, <1>3, <2>1, <2>2, <2>3 DEF Running, TimersNest
  <2>5. QED
    BY <2>4 DEF Running
<1>9. Limited'
  BY <1>1 DEF Limited, InSolver, InIteration, InTrial, Started
<1>10. Books'
  <2>1. tmStage \in Started /\ tmStage' \in Started /\ tmOnTop \in Nat /\ tmOnTop' = tmOnTop
    BY <1>1 DEF Started, Typed, SolveCountTypes
  <2>2. SolverBooks' /\ InnerBooks'
    BY <1>1, <1>5, <2>1, OuterBooks
  <2>3. Resting'
    BY <1>1, <1>3 DEF Resting
  <2>4. TrialBooks'
    <3>1. tmLimit # NoTime => /\ TrialTime + tmRest + tmLp <= 2 * tmTrial + tmOnTop
                              /\ tmTrial <= TrialTime + tmRest
                              /\ tmRest \in Nat /\ tmLp \in Nat /\ tmTrial \in Nat /\ TmGrain \in Nat
      BY <1>1, TmAssumption DEF Books, TrialBooks, Limited, InTrial, Started, Typed, LimitTypes, Times
    <3>2. TrialTime' = TrialTime
      BY <1>5 DEF Elapses
    <3>3. tmLimit # NoTime => TrialTime + tmRest <= 2 * tmTrial + tmOnTop
      BY <1>5, <2>1, <3>1
    <3>4. QED
      BY <1>1, <1>3, <1>5, <2>1, <3>1, <3>2, <3>3 DEF TrialBooks
  <2>5. QED
    BY <2>2, <2>3, <2>4 DEF Books
<1>11. QED
  BY <1>6, <1>7, <1>8, <1>9, <1>10

\* What the books say while the conjugate gradients run
LEMMA CgBooks ==
  ASSUME TimersInv, tmStage = "cg"
  PROVE  /\ tmTimers["cg"].current \in Nat /\ tmTimers["cg"].last = tmBorrowed /\ tmBorrowed \in Nat /\ TrialTime \in Nat
         /\ tmOnTop \in Nat /\ TmGrain \in Nat /\ (tmTr = NoTime <=> tmLimit = NoTime)
         /\ tmLimit # NoTime =>
              /\ tmTr \in Nat /\ tmTrial \in Nat
              /\ tmTimers["cg"].current <= tmTr + TmGrain
              /\ tmTrial + tmTimers["cg"].current <= TrialTime + tmTr
              /\ TrialTime + tmTr <= 2 * tmTrial + tmOnTop + tmTimers["cg"].current
<1>1. tmTimers \in TimerTables /\ "cg" \in TimerNames /\ "trial" \in TimerNames
  BY DEF TimersInv, Typed, TimerTypes, TimerNames
<1>2. tmTimers["cg"].current \in Nat /\ TrialTime \in Nat
  BY <1>1, Shown DEF TrialTime
<1>3. tmTimers["cg"].last = tmBorrowed /\ tmBorrowed \in Nat /\ tmOnTop \in Nat /\ TmGrain \in Nat
  BY TmAssumption DEF TimersInv, Typed, SolveCountTypes, Books, Resting
<1>4. /\ tmTr = NoTime <=> tmLimit = NoTime
      /\ tmLimit # NoTime => tmTr \in Nat /\ tmTrial \in Nat
  BY DEF TimersInv, Limited, InTrial, Started, Typed, LimitTypes, Times
<1>5. QED
  BY <1>2, <1>3, <1>4 DEF TimersInv, Books, TrialBooks

\* The conjugate gradients end: names are the timers that are stopped.
LEMMA CgEnds ==
  ASSUME TimersInv, tmStage = "cg", NEW names \in SUBSET TimerNames, names \cap TotalRead = {},
         tmTimers' = StopTimers(names, tmTimers),
         UNCHANGED <<limitVars, tmResult, countVars, tmTwice>>
  PROVE  /\ tmTimers' \in TimerTables /\ RunningTimers(tmTimers') = RunningTimers(tmTimers) \ names
         /\ Elapses(0) /\ TrialTime' = TrialTime /\ LimitTypes' /\ SolveCountTypes' /\ tmTwice' \subseteq TimerNames
<1>1. tmTimers \in TimerTables
  BY DEF TimersInv, Typed, TimerTypes
<1>2. tmTimers' \in TimerTables /\ RunningTimers(tmTimers') = RunningTimers(tmTimers) \ names
  BY <1>1, StopEffect
<1>3. \A n \in TotalRead : tmTimers'[n] = tmTimers[n]
  BY <1>1, NoTimePasses
<1>4. Elapses(0) /\ TrialTime' = TrialTime
  BY <1>1, <1>3, Shown DEF Elapses, SolverTime, InnerTime, TrialTime, TotalRead, TimerNames
<1>5. LimitTypes' /\ SolveCountTypes' /\ tmTwice' \subseteq TimerNames
  BY DEF TimersInv, Typed, TimerTypes, LimitTypes, SolveCountTypes, limitVars, countVars
<1>6. QED
  BY <1>2, <1>4, <1>5

LEMMA CgStepStep == ASSUME TimersInv, TmCgStep PROVE TimersInv'
<1> USE DEF TimersInv
<1> DEFINE p == TimePassed(TmGrain)
<1>1. /\ tmStage = "cg" /\ tmStage' = "cg" /\ ~CgExhausted
      /\ tmTimers' = After(TmGrain, tmTimers)
      /\ UNCHANGED <<tmStatus, limitVars, tmResult, countVars, tmTwice>>
  BY DEF TmCgStep
<1>2. tmTimers \in TimerTables /\ TmGrain \in Nat /\ p \in Nat
  BY TmAssumption DEF Typed, TimerTypes, TimePassed
<1>3. /\ {"solver", "inner", "trial"} \subseteq TotalRead \cap RunningTimers(tmTimers)
      /\ "cg" \in LastRead \cap RunningTimers(tmTimers) /\ "cg" \in TimerNames
      /\ "solver" \in TimerNames /\ "inner" \in TimerNames /\ "trial" \in TimerNames
  BY <1>1, NestedRun DEF InIteration, InTrial, Started, TotalRead, LastRead
<1>4. /\ tmTimers' \in TimerTables /\ RunningTimers(tmTimers') = RunningTimers(tmTimers)
      /\ tmTimers'["cg"].last = tmTimers["cg"].last
      /\ tmTimers'["cg"].current = tmTimers["cg"].current + p
  <2> DEFINE ran == After(TmGrain, tmTimers)
  <2>1. /\ ran \in TimerTables /\ RunningTimers(ran) = RunningTimers(tmTimers)
        /\ \A n \in TimerNames : ran[n].last = tmTimers[n].last
        /\ \A n \in LastRead \cap RunningTimers(tmTimers) : ran[n].current = tmTimers[n].current + p
    BY <1>2, AfterEffect
  <2> HIDE DEF ran, p
  <2>2. tmTimers' = ran
    BY <1>1 DEF ran
  <2>3. QED
    BY <1>3, <2>1, <2>2
<1>5. Elapses(p)
  BY <1>1, <1>2, <1>3, AfterEffect DEF Elapses, SolverTime, InnerTime, TrialTime
<1>6. tmLimit # NoTime => p = TmGrain
  BY DEF TimePassed
<1> HIDE DEF p
<1>7. tmLimit # NoTime => tmTimers["cg"].current < tmTr
  BY <1>1, CgBooks DEF CgExhausted, Elapsed
<1>8. Typed'
  BY <1>1, <1>4 DEF Typed, TimerTypes, LimitTypes, SolveCountTypes, limitVars, countVars
<1>9. Statuses'
  BY <1>1 DEF Statuses, countVars, limitVars
<1>10. Running'
  <2>1. /\ Nested' = Nested /\ Strays' = Strays /\ RunningTimers(tmTimers)' = RunningTimers(tmTimers)
    BY <1>1, <1>4 DEF Strays, Nested
  <2>2. QED
    BY <1>1, <2>1 DEF TimersNest, Running, countVars
<1>11. Limited'
  BY <1>1 DEF Limited, limitVars
<1>12. Books'
  <2>1. /\ tmStage \in Started /\ tmStage' \in Started /\ tmOnTop' \in Nat /\ tmOnTop' = tmOnTop
        /\ UNCHANGED <<tmLimit, tmInner, tmTrial>> /\ tmTr' = tmTr /\ tmBorrowed' = tmBorrowed
    BY <1>1 DEF Started, Typed, SolveCountTypes, limitVars, countVars
  <2>2. SolverBooks' /\ InnerBooks'
    BY <1>2, <1>5, <2>1, OuterBooks
  <2>3. Resting'
    BY <1>1, <1>4, <2>1, CgBooks DEF Resting
  <2>4. TrialTime' = TrialTime + p
    BY <1>5 DEF Elapses
  <2>5. tmLimit # NoTime =>
          /\ tmTimers["cg"].current + p <= tmTr + TmGrain
          /\ tmTrial + (tmTimers["cg"].current + p) <= TrialTime + p + tmTr
          /\ TrialTime + p + tmTr <= 2 * tmTrial + tmOnTop + (tmTimers["cg"].current + p)
    BY <1>1, <1>2, <1>6, <1>7, CgBooks
  <2>6. TrialBooks'
    BY <1>1, <1>4, <2>1, <2>4, <2>5 DEF TrialBooks
  <2>7. QED
    BY <2>2, <2>3, <2>6 DEF Books
<1>13. QED
  BY <1>8, <1>9, <1>10, <1>11, <1>12

LEMMA CgDoneStep == ASSUME TimersInv, TmCgDone PROVE TimersInv'
<1> USE DEF TimersInv
<1> DEFINE names == {"cg", "tr", "newton", "eqp"}
<1>1. /\ tmStage = "cg" /\ tmStage' = "measure" /\ ~CgExhausted
      /\ tmTimers' = StopTimers(names, tmTimers)
      /\ tmStatus' = tmStatus /\ UNCHANGED <<limitVars, tmResult, countVars, tmTwice>>
  BY DEF TmCgDone
<1>2. names \in SUBSET TimerNames /\ names \cap TotalRead = {}
  BY DEF TimerNames, TotalRead
<1> HIDE DEF names
<1>3. /\ tmTimers' \in TimerTables /\ RunningTimers(tmTimers') = RunningTimers(tmTimers) \ names
      /\ Elapses(0) /\ TrialTime' = TrialTime /\ LimitTypes' /\ SolveCountTypes' /\ tmTwice' \subseteq TimerNames
  BY <1>1, <1>2, CgEnds
<1>4. Typed'
  BY <1>1, <1>3 DEF Typed, TimerTypes, Stages, InSolver, InIteration, InTrial, Started
<1>5. Statuses'
  BY <1>1 DEF Statuses, countVars
<1>6. Running'
  <2>1. /\ Nested = {"solver", "inner", "trial"} \cup names /\ Nested' = {"solver", "inner", "trial"}
        /\ RunningTimers(tmTimers)' = RunningTimers(tmTimers) \ names /\ Strays' = Strays
    BY <1>1, <1>3 DEF Nested, Strays, names
  <2>2. TimersNest'
    BY <1>1, <2>1 DEF Running, TimersNest, countVars, names
  <2>3. QED
    BY <1>1, <2>1, <2>2 DEF Running, countVars
<1>7. Limited'
  BY <1>1 DEF Limited, limitVars, InSolver, InIteration, InTrial, Started
<1>8. Books'
  <2>1. /\ tmStage \in Started /\ tmStage' \in Started /\ tmOnTop' \in Nat /\ tmOnTop' = tmOnTop
        /\ UNCHANGED <<tmLimit, tmInner, tmTrial>>
    BY <1>1 DEF Started, Typed, SolveCountTypes, limitVars, countVars
  <2>2. SolverBooks' /\ InnerBooks'
    BY <1>3, <2>1, OuterBooks
  <2>3. tmLimit # NoTime => TrialTime <= 2 * tmTrial + tmOnTop
    <3>1. tmLimit # NoTime => tmTimers["cg"].current < tmTr
      BY <1>1, CgBooks DEF CgExhausted, Elapsed
    <3>2. QED
      BY <1>1, <3>1, CgBooks
  <2>4. Resting' /\ TrialBooks'
    BY <1>1, <1>3, <2>1, <2>3 DEF Resting, TrialBooks
  <2>5. QED
    BY <2>2, <2>4 DEF Books
<1>9. QED
  BY <1>4, <1>5, <1>6, <1>7, <1>8

\* The error of the time limit, or of a Hessian product, passes the stops of
\* some of the timers.
LEMMA CgLeftStep == ASSUME TimersInv, TmCgLimit \/ TmCgFail PROVE TimersInv'
<1> USE DEF TimersInv
<1> DEFINE names == IF CgExhausted THEN {"cg", "eqp"} ELSE {"eqp"}
<1>1. /\ tmStage = "cg" /\ tmStage' = "unwind"
      /\ tmStatus' = IF CgExhausted THEN "time" ELSE "error"
      /\ tmTimers' = StopTimers(names, tmTimers)
      /\ UNCHANGED <<limitVars, tmResult, countVars, tmTwice>>
  BY DEF TmCgLimit, TmCgFail, Unwind
<1>2. /\ names \in SUBSET TimerNames /\ names \cap TotalRead = {}
      /\ "eqp" \in names /\ names \subseteq {"cg", "eqp"}
  BY DEF TimerNames, TotalRead
<1> HIDE DEF names
<1>3. /\ tmTimers' \in TimerTables /\ RunningTimers(tmTimers') = RunningTimers(tmTimers) \ names
      /\ Elapses(0) /\ TrialTime' = TrialTime /\ LimitTypes' /\ SolveCountTypes' /\ tmTwice' \subseteq TimerNames
  BY <1>1, <1>2, CgEnds
<1>4. CgExhausted => tmLimit # NoTime /\ tmBorrowed + tmTimers["cg"].current >= tmTr
  BY <1>1, CgBooks DEF CgExhausted, Elapsed
<1>5. Typed'
  BY <1>1, <1>3 DEF Typed, TimerTypes, Stages, InSolver, InIteration
<1>6. Statuses'
  BY <1>1, <1>4 DEF Statuses, countVars, limitVars
<1>7. Running'
  <2>1. /\ Nested = {"solver", "inner", "trial", "eqp", "newton", "tr", "cg"} /\ Nested' = {"solver", "inner"}
        /\ RunningTimers(tmTimers)' = RunningTimers(tmTimers) \ names
        /\ tmStatus' # "okay"
    BY <1>1, <1>3 DEF Nested
  <2>2. RunningTimers(tmTimers) \subseteq Nested /\ Nested \subseteq RunningTimers(tmTimers)
    BY <1>1, <2>1 DEF Running, TimersNest, Strays
  <2>3. Nested' \subseteq RunningTimers(tmTimers)' /\ Strays' \subseteq {"trial", "newton", "tr", "cg"}
    BY <1>2, <2>1, <2>2 DEF Strays
  <2>4. tmTwice' \subseteq {"newton", "tr", "cg", "solver"} /\ (tmTrouble' = "none" => tmTwice' = {})
    BY <1>1 DEF Running, TimersNest, countVars, Statuses, Typed, SolveCountTypes
  <2>5. tmResult' = "running"
    BY <1>1 DEF Statuses
  <2>6. TimersNest'
    BY <1>1, <2>3, <2>4, <2>5 DEF TimersNest
  <2>7. QED
    BY <2>1, <2>4, <2>6 DEF Running
<1>8. Limited'
  BY <1>1 DEF Limited, limitVars, InSolver, InIteration, InTrial, Started
<1>9. Books'
  <2>1. /\ tmStage \in Started /\ tmOnTop' \in Nat /\ tmOnTop' = tmOnTop
        /\ UNCHANGED <<tmLimit, tmInner>> /\ tmBorrowed' = tmBorrowed /\ tmBorrowed' \in Nat
    BY <1>1 DEF Started, Typed, SolveCountTypes, limitVars, countVars
  <2>2. tmLimit # NoTime => TrialTime' <= 2 * tmTrial + tmOnTop' + TmGrain
    BY <1>1, <1>3, <2>1, CgBooks
  <2>3. tmLimit # NoTime /\ tmStatus' = "time" => tmTrial <= TrialTime' + tmBorrowed'
    BY <1>1, <1>3, <1>4, <2>1, CgBooks
  <2>4. QED
    BY <1>1, <1>3, <2>1, <2>2, <2>3, LeaveTrialPoint
<1>10. QED
  BY <1>5, <1>6, <1>7, <1>8, <1>9

-----------------------------------------------------------------------------
(* The way up                                                              *)

LEMMA MeasureStep == ASSUME TimersInv, TmMeasure PROVE TimersInv'
<1> USE DEF TimersInv
<1> DEFINE p == TimePassed(TmGrain)
           stopped == StopTimers({"trial"}, tmTimers)
           ran == After(TmGrain, stopped)
<1>1. /\ tmStage = "measure" /\ tmTimers' = ran
      /\ \/ tmStage' = "unwind" /\ tmStatus' \in {"okay", "error"}
         \/ tmStage' = "correct" /\ tmStatus' = tmStatus
      /\ UNCHANGED <<limitVars, tmResult, countVars, tmTwice>>
  BY DEF TmMeasure, Unwind
<1>2. tmTimers \in TimerTables /\ TmGrain \in Nat /\ {"trial"} \in SUBSET TimerNames /\ "trial" \in TimerNames
      /\ {"solver", "inner"} \subseteq (TotalRead \cap RunningTimers(tmTimers)) \ {"trial"}
      /\ {"solver", "inner"} \subseteq TimerNames \ {"trial"}
  BY <1>1, TmAssumption, NestedRun DEF InIteration, InTrial, Started, TotalRead
<1>3. /\ stopped \in TimerTables /\ RunningTimers(stopped) = RunningTimers(tmTimers) \ {"trial"}
      /\ \A n \in TimerNames \ {"trial"} : stopped[n] = tmTimers[n]
  BY <1>2, StopEffect
<1> HIDE DEF stopped
<1>4. /\ ran \in TimerTables /\ RunningTimers(ran) = RunningTimers(stopped)
      /\ \A n \in TimerNames : ran[n].total = stopped[n].total
      /\ \A n \in TotalRead \cap RunningTimers(stopped) : TotalTime(ran[n]) = TotalTime(stopped[n]) + p
  BY <1>2, <1>3, AfterEffect
<1> HIDE DEF ran
<1>5. /\ tmTimers' \in TimerTables /\ RunningTimers(tmTimers') = RunningTimers(tmTimers) \ {"trial"}
      /\ SolverTime' = SolverTime + p /\ InnerTime' = InnerTime + p
      /\ tmTimers'["solver"].total = tmTimers["solver"].total
  BY <1>1, <1>2, <1>3, <1>4 DEF SolverTime, InnerTime
<1>6. p \in Nat /\ p <= TmGrain /\ SolverTime \in Nat /\ InnerTime \in Nat /\ TrialTime \in Nat
  BY <1>2, Shown DEF TimePassed, SolverTime, InnerTime, TrialTime
<1> HIDE DEF p
<1>7. Typed'
  BY <1>1, <1>5 DEF Typed, TimerTypes, LimitTypes, SolveCountTypes, limitVars, countVars, Stages, InSolver, InIteration
<1>8. Statuses'
  BY <1>1 DEF Statuses, countVars
<1>9. Running'
  <2>1. /\ Nested = {"solver", "inner", "trial"} /\ Nested' = {"solver", "inner"}
        /\ RunningTimers(tmTimers)' = RunningTimers(tmTimers) \ {"trial"} /\ Strays' = Strays
    BY <1>1, <1>5 DEF Nested, Strays
  <2>2. TimersNest'
    BY <1>1, <2>1 DEF Running, TimersNest, countVars, Statuses
  <2>3. QED
    BY <1>1, <2>1, <2>2 DEF Running, countVars, Statuses
<1>10. Limited'
  BY <1>1 DEF Limited, limitVars, InSolver, InIteration, InTrial, Started
<1>11. Books'
  <2>1. tmLimit # NoTime =>
          /\ tmInner \in Nat /\ tmTrial \in Nat /\ tmOnTop \in Nat
          /\ tmTrial = RemainingOf(InnerTime - TrialTime, tmInner)
          /\ TrialTime <= InnerTime /\ InnerTime <= TrialTime + tmInner + TmGrain
          /\ TrialTime <= 2 * tmTrial + tmOnTop
    BY <1>1 DEF Books, InnerBooks, TrialBooks, InTrial, InSolver, InIteration, Started, Limited, Typed, LimitTypes, SolveCountTypes, Times
  <2>2. tmLimit # NoTime => tmTrial = IF InnerTime - TrialTime < tmInner THEN tmInner - (InnerTime - TrialTime) ELSE 0
    BY <1>6, <2>1, RemainingTime DEF Times, NoTime
  <2>3. tmLimit # NoTime => InnerTime' <= 2 * tmInner + tmOnTop + 2 * TmGrain
    BY <1>2, <1>5, <1>6, <2>1, <2>2
  <2>4. InnerBooks'
    <3>1. tmStage' \in {"unwind", "correct"} /\ tmStatus' # "time" /\ UNCHANGED <<tmLimit, tmInner, tmOnTop>>
      BY <1>1 DEF limitVars, countVars, Statuses
    <3>2. tmStage' \notin InTrial
      BY <3>1 DEF InTrial, Started
    <3>3. tmLimit # NoTime => InnerTime' <= 2 * tmInner + tmOnTop + 3 * TmGrain
      BY <1>2, <1>5, <1>6, <2>1, <2>3
    <3>4. QED
      BY <2>3, <3>1, <3>2, <3>3 DEF InnerBooks
  <2>5. SolverBooks'
    <3>1. tmStage \in InSolver /\ tmStage' \in InSolver /\ tmStage' \notin {"outer", "head", "finish"}
      BY <1>1 DEF InSolver, InIteration, InTrial, Started
    <3>2. tmLimit # NoTime => tmLimit \in Nat
      BY DEF Typed, LimitTypes, Times
    <3>3. QED
      BY <1>1, <1>2, <1>5, <1>6, <2>1, <3>1, <3>2 DEF Books, SolverBooks, limitVars
  <2>6. Resting' /\ TrialBooks'
    BY <1>1 DEF Resting, TrialBooks
  <2>7. QED
    BY <2>4, <2>5, <2>6 DEF Books
<1>12. QED
  BY <1>7, <1>8, <1>9, <1>10, <1>11

LEMMA CorrectStep == ASSUME TimersInv, TmCorrect PROVE TimersInv'
<1> USE DEF TimersInv
<1> DEFINE p == TimePassed(TmGrain)
           begun == StartTimers({"trial"}, tmTimers)
           ran == After(TmGrain, begun)
           stopped == StopTimers({"trial"}, ran)
<1>1. /\ tmStage = "correct" /\ tmStage' = "unwind"
      /\ \/ tmTimers' = stopped /\ tmStatus' = "okay"
         \/ tmTimers' = ran /\ tmStatus' = "error"
      /\ tmTwice' = tmTwice \cup ({"trial"} \cap RunningTimers(tmTimers))
      /\ UNCHANGED <<limitVars, tmResult, countVars>>
  BY DEF TmCorrect, Unwind, Starting
<1>2. tmTimers \in TimerTables /\ TmGrain \in Nat /\ {"trial"} \in SUBSET TimerNames /\ "trial" \notin RunningTimers(tmTimers)
      /\ {"solver", "inner"} \subseteq (TotalRead \cap RunningTimers(tmTimers)) \ {"trial"}
      /\ {"solver", "inner"} \subseteq TimerNames \ {"trial"}
  BY <1>1, TmAssumption, NestedRun DEF InIteration, InTrial, Started, TotalRead
<1>3. /\ begun \in TimerTables /\ RunningTimers(begun) = RunningTimers(tmTimers) \cup {"trial"}
      /\ \A n \in TimerNames \ {"trial"} : begun[n] = tmTimers[n]
  BY <1>2, StartEffect
<1> HIDE DEF begun
<1>4. /\ ran \in TimerTables /\ RunningTimers(ran) = RunningTimers(begun)
      /\ \A n \in TimerNames : ran[n].total = begun[n].total
      /\ \A n \in TotalRead \cap RunningTimers(begun) : TotalTime(ran[n]) = TotalTime(begun[n]) + p
  BY <1>2, <1>3, AfterEffect
<1> HIDE DEF ran
<1>5. /\ stopped \in TimerTables /\ RunningTimers(stopped) = RunningTimers(ran) \ {"trial"}
      /\ \A n \in TimerNames \ {"trial"} : stopped[n] = ran[n]
  BY <1>2, <1>4, StopEffect
<1> HIDE DEF stopped
<1>6. /\ tmTimers' \in TimerTables
      /\ RunningTimers(tmTimers') \ {"trial"} = RunningTimers(tmTimers)
      /\ tmStatus' = "okay" => "trial" \notin RunningTimers(tmTimers')
      /\ SolverTime' = SolverTime + p /\ InnerTime' = InnerTime + p
      /\ tmTimers'["solver"].total = tmTimers["solver"].total
  <2>1. \A n \in {"solver", "inner"} : tmTimers'[n] = ran[n]
    BY <1>1, <1>2, <1>5
  <2>2. tmTimers' \in TimerTables /\ RunningTimers(tmTimers') \ {"trial"} = RunningTimers(tmTimers)
        /\ (tmStatus' = "okay" => "trial" \notin RunningTimers(tmTimers'))
    BY <1>1, <1>2, <1>3, <1>4, <1>5
  <2>3. QED
    BY <1>2, <1>3, <1>4, <2>1, <2>2 DEF SolverTime, InnerTime
<1>7. p \in Nat /\ p <= TmGrain /\ SolverTime \in Nat /\ InnerTime \in Nat /\ tmTwice' = tmTwice
  BY <1>1, <1>2, Shown DEF TimePassed, SolverTime, InnerTime
<1> HIDE DEF p
<1>8. Typed'
  BY <1>1, <1>6, <1>7 DEF Typed, TimerTypes, LimitTypes, SolveCountTypes, limitVars, countVars, Stages, InSolver, InIteration
<1>9. Statuses'
  BY <1>1 DEF Statuses, countVars
<1>10. Running'
  <2>1. Nested = {"solver", "inner"} /\ Nested' = {"solver", "inner"} /\ Strays' \ {"trial"} = Strays
        /\ (tmStatus' = "okay" => Strays' = Strays) /\ Strays' \subseteq Strays \cup {"trial"}
        /\ Nested' \subseteq RunningTimers(tmTimers)'
    BY <1>1, <1>2, <1>6 DEF Nested, Strays
  <2>2. TimersNest'
    BY <1>1, <1>7, <2>1 DEF Running, TimersNest, countVars, Statuses
  <2>3. QED
    BY <1>1, <2>1, <2>2 DEF Running, countVars, Statuses
<1>11. Limited'
  BY <1>1 DEF Limited, limitVars, InSolver, InIteration, InTrial, Started
<1>12. Books'
  <2>1. /\ tmStage' \notin InTrial /\ tmStatus' # "time" /\ UNCHANGED <<tmLimit, tmInner, tmOnTop>>
        /\ tmStage \in InSolver /\ tmStage' \in InSolver /\ tmStage' \notin {"outer", "head", "finish"}
    BY <1>1 DEF limitVars, countVars, InSolver, InIteration, InTrial, Started
  <2>2. tmLimit # NoTime =>
          /\ tmInner \in Nat /\ tmLimit \in Nat /\ tmOnTop \in Nat
          /\ InnerTime <= 2 * tmInner + tmOnTop + 2 * TmGrain
    BY <1>1, <2>1 DEF Books, InnerBooks, Limited, Typed, LimitTypes, SolveCountTypes, Times
  <2>3. InnerBooks'
    BY <1>1, <1>2, <1>6, <1>7, <2>1, <2>2 DEF InnerBooks
  <2>4. SolverBooks'
    BY <1>1, <1>2, <1>6, <1>7, <2>1, <2>2 DEF Books, SolverBooks
  <2>5. Resting' /\ TrialBooks'
    BY <1>1 DEF Resting, TrialBooks
  <2>6. QED
    BY <2>3, <2>4, <2>5 DEF Books
<1>13. QED
  BY <1>8, <1>9, <1>10, <1>11, <1>12

LEMMA LeaveStep == ASSUME TimersInv, TmTimeUp \/ TmContinue \/ TmError PROVE TimersInv'
<1> USE DEF TimersInv
<1>1. /\ tmStage = "unwind"
      /\ tmTimers' = StopTimers({"inner"}, tmTimers)
      /\ tmTrial' = NoTime /\ tmLp' = NoTime /\ tmTr' = NoTime /\ tmRest' = NoTime /\ tmLPs' = 0
      /\ UNCHANGED <<tmStatus, tmLimit, tmInner, tmIterations, tmSolves, tmTrouble, tmUncounted, tmOnTop, tmBorrowed, tmTwice>>
  BY DEF TmTimeUp, TmContinue, TmError, LeaveIteration
<1>2. \/ tmStage' = "finish" /\ tmResult' = "time" /\ ~InTime
      \/ tmStage' \in {"head", "outer"} /\ tmResult' = tmResult /\ InTime /\ tmStatus = "okay"
      \/ tmStage' = "finish" /\ tmResult' = "optimal" /\ InTime /\ tmStatus = "okay"
      \/ tmStage' = "idle" /\ tmResult' = "error"
  BY DEF TmTimeUp, TmContinue, TmError
<1>3. tmTimers \in TimerTables /\ {"inner"} \in SUBSET TimerNames /\ "inner" \in TotalRead
      /\ "solver" \in TimerNames \ {"inner"} /\ "inner" \in TimerNames
  BY DEF Typed, TimerTypes, TimerNames, TotalRead
<1>4. /\ tmTimers' \in TimerTables /\ RunningTimers(tmTimers') = RunningTimers(tmTimers) \ {"inner"}
      /\ tmTimers'["solver"] = tmTimers["solver"] /\ TotalTime(tmTimers'["inner"]) = TotalTime(tmTimers["inner"])
      /\ tmTimers'["inner"].current = 0
  BY <1>1, <1>3, StopEffect
<1>5. /\ SolverTime' = SolverTime /\ InnerTime' = InnerTime /\ SolverTime \in Nat /\ InnerTime \in Nat
  BY <1>3, <1>4, Shown DEF SolverTime, InnerTime
<1>6. /\ tmStage \in InSolver /\ tmInner \in Times /\ tmLimit \in Times
      /\ (tmInner = NoTime <=> tmLimit = NoTime) /\ tmOnTop \in Nat /\ tmBorrowed \in Nat /\ TmGrain \in Nat
  BY <1>1, TmAssumption DEF Limited, InSolver, InIteration, Typed, LimitTypes, SolveCountTypes
<1>7. InTime <=> tmStatus # "time" /\ ~(tmInner # NoTime /\ InnerTime >= tmInner)
  BY <1>3, <1>4, <1>5, <1>6, Exhaustion DEF InTime, InnerTime
<1>8. Typed'
  <2>1. TimerTypes'
    BY <1>1, <1>2, <1>4 DEF Typed, TimerTypes, Stages, InSolver
  <2>2. LimitTypes' /\ SolveCountTypes'
    BY <1>1 DEF Typed, LimitTypes, SolveCountTypes, Times
  <2>3. QED
    BY <2>1, <2>2 DEF Typed
<1>9. Statuses'
  <2>1. ~InTime => tmLimit # NoTime
    BY <1>1, <1>6, <1>7 DEF Statuses
  <2>2. tmResult = "running" /\ tmSolves >= 1
    BY <1>1 DEF Statuses
  <2>3. QED
    BY <1>1, <1>2, <2>1, <2>2 DEF Statuses
<1>10. Running'
  <2>1. /\ Nested = {"solver", "inner"}
        /\ tmStage' # "idle" => Nested' = {"solver"}
        /\ tmStage' = "idle" => Nested' = {}
    BY <1>1, <1>2 DEF Nested
  <2>2. /\ tmStage' # "idle" => Strays' = Strays
        /\ tmStage' = "idle" => Strays' \subseteq Strays \cup {"solver"}
        /\ Nested' \subseteq RunningTimers(tmTimers')
    BY <1>4, <2>1 DEF Running, TimersNest, Strays
  <2>3. tmResult = "running" /\ tmTrouble' = tmTrouble /\ tmTwice' = tmTwice /\ tmStatus' = tmStatus
    BY <1>1 DEF Statuses
  <2>4. /\ TimersNest /\ "solver" \notin Strays
        /\ tmStatus = "okay" /\ tmTrouble = "none" => Strays = {}
    BY <1>1, <2>3 DEF Running, TimersNest
  <2>5. TimersNest'
    <3>1. CASE tmStage' = "idle"
      BY <1>2, <2>2, <2>3, <2>4, <3>1 DEF TimersNest
    <3>2. CASE tmStage' # "idle"
      <4>1. /\ Strays' = Strays /\ tmStage' \in {"outer", "head", "finish"}
            /\ (tmStage' # "finish" \/ tmResult' = "optimal" => tmStatus = "okay")
            /\ tmResult' # "iterations"
        BY <1>2, <2>2, <2>3, <3>2
      <4>2. QED
        BY <2>2, <2>3, <2>4, <4>1 DEF TimersNest
    <3>3. QED
      BY <3>1, <3>2
  <2>6. QED
    BY <2>5 DEF Running
<1>11. Limited'
  BY <1>1, <1>2, <1>6 DEF Limited, InSolver, InIteration, InTrial, Started
<1>12. Books'
  <2>1. tmLimit # NoTime =>
          /\ tmInner \in Nat /\ tmLimit \in Nat /\ tmInner <= tmLimit
          /\ tmLimit + InnerTime <= SolverTime + tmInner
          /\ SolverTime + tmInner <= tmLimit + InnerTime + TmGrain
          /\ InnerTime <= 2 * tmInner + tmOnTop + 3 * TmGrain
          /\ tmStatus = "time" => InnerTime + tmBorrowed >= tmInner
    BY <1>1, <1>6 DEF Books, SolverBooks, InnerBooks, Times
  <2>2. tmLimit # NoTime => SolverTime <= 2 * tmLimit + tmOnTop + 4 * TmGrain
    BY <1>5, <1>6, <2>1
  <2>3. tmLimit # NoTime /\ ~InTime => SolverTime + tmBorrowed >= tmLimit
    BY <1>5, <1>6, <1>7, <2>1
  <2>4. tmLimit # NoTime /\ InTime => InnerTime <= tmInner /\ SolverTime <= tmLimit + TmGrain
    BY <1>5, <1>6, <1>7, <2>1
  <2>5. tmStage' \notin InIteration /\ tmStage' \notin InTrial /\ tmStage' \notin Started
        /\ (tmStage' \in InSolver => tmStage' = "head")
    BY <1>2 DEF InSolver, InIteration, InTrial, Started
  <2>6. SolverBooks'
    BY <1>1, <1>2, <1>4, <1>5, <2>1, <2>2, <2>3, <2>4, <2>5 DEF SolverBooks
  <2>7. InnerBooks' /\ TrialBooks'
    BY <2>5 DEF InnerBooks, TrialBooks, InIteration, InTrial, Started
  <2>8. Resting'
    BY <1>4, <2>5 DEF Resting, InTrial, Started
  <2>9. QED
    BY <2>6, <2>7, <2>8 DEF Books
<1>13. QED
  BY <1>8, <1>9, <1>10, <1>11, <1>12

LEMMA FinishStep == ASSUME TimersInv, TmFinish PROVE TimersInv'
<1> USE DEF TimersInv
<1> DEFINE ran == After(TmGrain, tmTimers)
<1>1. /\ tmStage = "finish" /\ tmStage' = "idle"
      /\ tmTimers' = StopTimers({"solver"}, ran)
      /\ UNCHANGED <<tmStatus, limitVars, tmResult, countVars, tmTwice>>
  BY DEF TmFinish
<1>2. tmTimers \in TimerTables /\ TmGrain \in Nat /\ {"solver"} \in SUBSET TimerNames
  BY TmAssumption DEF Typed, TimerTypes, TimerNames
<1>3. ran \in TimerTables /\ RunningTimers(ran) = RunningTimers(tmTimers)
  BY <1>2, AfterEffect
<1> HIDE DEF ran
<1>4. tmTimers' \in TimerTables /\ RunningTimers(tmTimers') = RunningTimers(tmTimers) \ {"solver"}
  BY <1>1, <1>2, <1>3, StopEffect
<1>5. Typed'
  BY <1>1, <1>4 DEF Typed, TimerTypes, LimitTypes, SolveCountTypes, limitVars, countVars, Stages
<1>6. Statuses'
  BY <1>1 DEF Statuses
<1>7. Running'
  <2>1. Nested = {"solver"} /\ Nested' = {} /\ Strays' = Strays
    BY <1>1, <1>4 DEF Nested, Strays
  <2>2. /\ tmStage' = "idle" /\ tmResult' = tmResult /\ tmTwice' = tmTwice
        /\ tmTrouble' = tmTrouble /\ tmStatus' = tmStatus
    BY <1>1 DEF countVars
  <2>3. TimersNest
    BY DEF Running
  <2>4. TimersNest'
    BY <2>1, <2>2, <2>3 DEF TimersNest
  <2>5. QED
    BY <1>1, <1>4, <2>1, <2>2, <2>4 DEF Running
<1>8. Limited' /\ Books'
  BY <1>1 DEF Limited, Books, Resting, SolverBooks, InnerBooks, TrialBooks, InSolver, InIteration, InTrial, Started
<1>9. QED
  BY <1>5, <1>6, <1>7, <1>8

-----------------------------------------------------------------------------
LEMMA TimersInitInvariant == ASSUME TmInit PROVE TimersInv
<1> USE DEF TmInit
<1>1. \A n \in TimerNames : tmTimers[n] = FreshTimer
  OBVIOUS
<1>2. tmTimers \in TimerTables
  BY FreshRecord DEF TimerTables
<1>3. RunningTimers(tmTimers) = {}
  BY <1>1 DEF RunningTimers, FreshTimer
<1>4. Typed
  BY <1>2 DEF Typed, TimerTypes, LimitTypes, SolveCountTypes, Stages, Times
<1>5. Statuses
  BY DEF Statuses
<1>6. Running
  BY <1>3 DEF Running, TimersNest, Strays, Nested
<1>7. Limited /\ Books
  BY DEF Limited, Books, Resting, SolverBooks, InnerBooks, TrialBooks, InSolver, InIteration, InTrial, Started
<1>8. QED
  BY <1>4, <1>5, <1>6, <1>7 DEF TimersInv

LEMMA StutterInvariant == ASSUME TimersInv, UNCHANGED tmVars PROVE TimersInv'
<1>1. UNCHANGED tmVars
  OBVIOUS
<1>2. Typed'
  BY <1>1 DEF tmVars, TimersInv, Typed, TimerTypes, LimitTypes, SolveCountTypes
<1>3. Statuses'
  BY <1>1 DEF tmVars, TimersInv, Statuses
<1>4. Nested' = Nested /\ Strays' = Strays /\ SolverTime' = SolverTime /\ InnerTime' = InnerTime /\ TrialTime' = TrialTime
  BY <1>1 DEF tmVars, Nested, Strays, SolverTime, InnerTime, TrialTime
<1>5. Running'
  BY <1>1, <1>4 DEF tmVars, TimersInv, Running, TimersNest
<1>6. Limited'
  BY <1>1 DEF tmVars, TimersInv, Limited
<1>7. Resting' /\ SolverBooks'
  BY <1>1, <1>4 DEF tmVars, TimersInv, Books, Resting, SolverBooks
<1>8. InnerBooks' /\ TrialBooks'
  BY <1>1, <1>4 DEF tmVars, TimersInv, Books, InnerBooks, TrialBooks
<1>9. QED
  BY <1>2, <1>3, <1>5, <1>6, <1>7, <1>8 DEF TimersInv, Books

\* The inductive invariant, whatever the limits and the times of the work
THEOREM TimersInvariance == TmSpec => []TimersInv
<1>1. TmInit => TimersInv
  BY TimersInitInvariant
<1>2. TimersInv /\ [TmNext]_tmVars => TimersInv'
  <2>1. SUFFICES ASSUME TimersInv, [TmNext]_tmVars PROVE TimersInv'
    OBVIOUS
  <2>2. CASE TmOuterLimit \/ TmFail \/ TmHeadLimit \/ TmIterationLimit
    BY <2>1, <2>2, QuietStep
  <2>3. CASE TmSolve
    BY <2>1, <2>3, SolveStep
  <2>4. CASE TmEnter
    BY <2>1, <2>4, EnterStep
  <2>5. CASE TmUnbounded
    BY <2>1, <2>5, UnboundedStep
  <2>6. CASE TmPrepare
    BY <2>1, <2>6, PrepareStep
  <2>7. CASE TmCompute
    BY <2>1, <2>7, ComputeStep
  <2>8. CASE TmRefine
    BY <2>1, <2>8, RefineStep
  <2>9. CASE TmSolveDefault
    BY <2>1, <2>9, SolveDefaultStep
  <2>10. CASE TmSolveReduced
    BY <2>1, <2>10, SolveReducedStep
  <2>11. CASE TmSkipEqp
    BY <2>1, <2>11, SkipEqpStep
  <2>12. CASE TmStartEqp
    BY <2>1, <2>12, StartEqpStep
  <2>13. CASE TmCgLimit \/ TmCgFail
    BY <2>1, <2>13, CgLeftStep
  <2>14. CASE TmCgStep
    BY <2>1, <2>14, CgStepStep
  <2>15. CASE TmCgDone
    BY <2>1, <2>15, CgDoneStep
  <2>16. CASE TmMeasure
    BY <2>1, <2>16, MeasureStep
  <2>17. CASE TmCorrect
    BY <2>1, <2>17, CorrectStep
  <2>18. CASE TmTimeUp \/ TmContinue \/ TmError
    BY <2>1, <2>18, LeaveStep
  <2>19. CASE TmFinish
    BY <2>1, <2>19, FinishStep
  <2>20. CASE UNCHANGED tmVars
    BY <2>1, <2>20, StutterInvariant
  <2>21. QED
    BY <2>1, <2>2, <2>3, <2>4, <2>5, <2>6, <2>7, <2>8, <2>9, <2>10, <2>11, <2>12, <2>13, <2>14, <2>15, <2>16, <2>17,
       <2>18, <2>19, <2>20 DEF TmNext
<1>3. QED
  BY <1>1, <1>2, PTL DEF TmSpec

\* Timers that run although their stage has been left do no harm, what is
\* handed down is what remains, a solve that reports that its time is up has
\* used it, and none takes more than twice its limit, but for the work that
\* is not measured.
THEOREM TimersSoundHolds == TmSpec => []TimersSound
<1>1. TimersInv => TimersSound
  <2>1. SUFFICES ASSUME TimersInv PROVE TimersSound
    OBVIOUS
  <2>2. TimersNest
    BY <2>1 DEF TimersInv, Running
  <2>3. /\ SolverTime \in Nat /\ InnerTime \in Nat /\ TrialTime \in Nat /\ TmGrain \in Nat
        /\ tmOnTop \in Nat /\ tmUncounted \in Nat /\ tmBorrowed \in Nat
    BY <2>1, NestedRun, Shown, TmAssumption DEF SolverTime, InnerTime, TrialTime, TimersInv, Typed, SolveCountTypes
  <2>4. LimitsHandedDown
    <3>1. SUFFICES ASSUME tmStage \in {"lp", "reduced", "eqp"}, tmTrial # NoTime
                   PROVE  /\ tmLp = RemainingOf(TrialTime - tmUncounted, tmTrial)
                          /\ tmRest >= tmLp /\ tmTrial >= tmRest
                          /\ tmTrial > 0 => tmTrial + InnerTime = tmInner + TrialTime
      BY DEF LimitsHandedDown, TrialTime, InnerTime
    <3>2. /\ tmLimit # NoTime /\ tmInner \in Nat /\ tmTrial \in Nat /\ tmRest \in Nat /\ tmLp \in Nat
      BY <2>1, <3>1 DEF TimersInv, Limited, InSolver, InIteration, InTrial, Started, Typed, LimitTypes, Times
    <3>3. tmTrial = RemainingOf(InnerTime - TrialTime, tmInner)
      BY <2>1, <3>1, <3>2 DEF TimersInv, Books, InnerBooks, InTrial, Started
    <3>4. tmTrial > 0 => tmTrial = tmInner - (InnerTime - TrialTime)
      BY <2>3, <3>2, <3>3, RemainingTime DEF Times, NoTime
    <3>5. tmTrial > 0 => tmTrial + InnerTime = tmInner + TrialTime
      BY <2>3, <3>2, <3>4
    <3>6. QED
      BY <2>1, <3>1, <3>2, <3>5 DEF TimersInv, Books, TrialBooks
  <2>5. TimeIsUp
    <3>1. SUFFICES ASSUME tmStage = "finish", tmResult = "time"
                   PROVE  tmLimit # NoTime /\ OfThisSolve + tmBorrowed >= tmLimit - OfEarlierSolves
      BY DEF TimeIsUp
    <3>2. /\ tmLimit \in Nat
          /\ SolverTime + tmBorrowed >= tmLimit
      BY <2>1, <3>1 DEF TimersInv, Statuses, Books, SolverBooks, Typed, LimitTypes, Times
    <3>3. /\ OfThisSolve \in Nat /\ OfEarlierSolves \in Nat
          /\ SolverTime = OfEarlierSolves + OfThisSolve
      BY <2>1, Shown DEF TimersInv, Typed, TimerTypes, TimerNames, SolverTime, OfThisSolve, OfEarlierSolves
    <3>4. QED
      BY <2>1, <2>3, <3>1, <3>2, <3>3 DEF TimersInv, Statuses
  <2>6. LimitObserved
    <3>1. SUFFICES ASSUME tmLimit # NoTime, tmStage # "idle", tmTimers["solver"].total <= tmLimit
                   PROVE  SolverTime <= 2 * tmLimit + tmOnTop + 4 * TmGrain
      BY DEF LimitObserved, SolverTime
    <3>2. tmLimit \in Nat
      BY <2>1, <3>1 DEF TimersInv, Typed, LimitTypes, Times
    <3>3. CASE tmStage \in {"outer", "finish"}
      BY <2>1, <2>3, <3>1, <3>2, <3>3 DEF TimersInv, Books, SolverBooks
    <3>4. CASE tmStage \in InSolver
      <4>1. /\ tmInner \in Nat /\ tmInner <= tmLimit
            /\ SolverTime + tmInner <= tmLimit + InnerTime + TmGrain
        BY <2>1, <3>1, <3>4 DEF TimersInv, Books, SolverBooks, Limited, Typed, LimitTypes, Times
      <4>2. InnerTime <= 2 * tmInner + tmOnTop + 3 * TmGrain
        <5>1. CASE tmStage = "head"
          BY <2>1, <2>3, <3>1, <4>1, <5>1 DEF TimersInv, Books, SolverBooks
        <5>2. CASE tmStage \in {"correct", "unwind"}
          BY <2>1, <2>3, <3>1, <4>1, <5>2 DEF TimersInv, Books, InnerBooks
        <5>3. CASE tmStage \in InTrial
          <6>1. /\ tmTrial \in Nat /\ tmRest \in Times /\ tmLp \in Times /\ tmTr \in Times
                /\ tmTrial = RemainingOf(InnerTime - TrialTime, tmInner)
                /\ TrialTime <= InnerTime /\ InnerTime <= TrialTime + tmInner + TmGrain
            BY <2>1, <3>1, <5>3 DEF TimersInv, Books, InnerBooks, Limited, Typed, LimitTypes, Times
          <6>2. tmTrial = IF InnerTime - TrialTime < tmInner THEN tmInner - (InnerTime - TrialTime) ELSE 0
            BY <2>3, <4>1, <6>1, RemainingTime DEF Times, NoTime
          <6>3. TrialTime <= 2 * tmTrial + tmOnTop + TmGrain
            <7>1. CASE tmStage = "compute"
              BY <2>1, <2>3, <6>1, <7>1 DEF TimersInv, Books, Resting, TrialTime, FreshTimer, TotalTime
            <7>2. CASE tmStage \in {"lp", "reduced", "eqp"}
              <8>1. tmRest \in Nat /\ tmLp \in Nat
                BY <2>1, <3>1, <6>1, <7>2 DEF TimersInv, Limited, Started, Times
              <8>2. TrialTime + tmRest + tmLp <= 2 * tmTrial + tmOnTop
                BY <2>1, <3>1, <7>2 DEF TimersInv, Books, TrialBooks
              <8>3. QED
                BY <2>3, <6>1, <8>1, <8>2
            <7>3. CASE tmStage = "cg"
              BY <2>1, <2>3, <3>1, <6>1, <7>3, CgBooks
            <7>4. CASE tmStage = "measure"
              BY <2>1, <2>3, <3>1, <6>1, <7>4 DEF TimersInv, Books, TrialBooks
            <7>5. QED
              BY <5>3, <7>1, <7>2, <7>3, <7>4 DEF InTrial, Started
          <6>4. QED
            BY <2>3, <4>1, <6>1, <6>2, <6>3
        <5>4. QED
          BY <3>4, <5>1, <5>2, <5>3 DEF InSolver, InIteration
      <4>3. QED
        BY <2>3, <3>2, <4>1, <4>2
    <3>5. QED
      BY <2>1, <3>1, <3>3, <3>4 DEF TimersInv, Typed, TimerTypes, Stages
  <2>7. QED
    BY <2>2, <2>4, <2>5, <2>6 DEF TimersSound
<1>2. QED
  BY <1>1, TimersInvariance, PTL
-----------------------------------------------------------------------------
(* The preprocessor: counters and marks                                    *)

PpStates(st) ==
  st = [varStates |-> st.varStates, consStates |-> st.consStates, varReq |-> st.varReq,
        consReq |-> st.consReq, converted |-> st.converted, forcing |-> st.forcing,
        numFixed |-> st.numFixed, numRedundant |-> st.numRedundant,
        infeasible |-> st.infeasible, asserts |-> st.asserts]

\* the recorded rows are those with the mark, each once
Recorded(list, marks, mark) == (\E S : list \in Seq(S)) /\ RecordedOnce(list, marks, mark)

FixedAtBounds(p, st) == \A j \in FixedVars(st) : st.varStates[j].value \in {p.varLb[j], p.varUb[j]}

\* the state of the preprocessor at any point of the analysis
Counted(p, st) ==
  /\ PpStates(st)
  /\ DOMAIN st.varStates = Vars(p) /\ DOMAIN st.consStates = Rows(p)
  /\ st.numFixed = Cardinality(FixedVars(st))
  /\ st.numRedundant \in Int /\ NumRemoved(st) = Cardinality(RemovedRows(st))
  /\ Recorded(st.converted, st.consStates, "converted")
  /\ Recorded(st.forcing, st.consStates, "redundant")
  /\ FixedAtBounds(p, st)

\* the rows from the i-th on are still in the problem
FromRow(p, st, i) == \A r \in Rows(p) : i <= r => Unchanged(st, r)

LEMMA FinitelyMany ==
  ASSUME NEW p \in Problems
  PROVE  /\ IsFiniteSet(Vars(p)) /\ Cardinality(Vars(p)) \in Nat /\ Vars(p) = 0 .. Cardinality(Vars(p)) - 1
         /\ IsFiniteSet(Rows(p)) /\ Cardinality(Rows(p)) \in Nat /\ Rows(p) = 0 .. Cardinality(Rows(p)) - 1
<1>1. /\ IsFiniteSet(Vars(p)) /\ Vars(p) = 0 .. Cardinality(Vars(p)) - 1
      /\ IsFiniteSet(Rows(p)) /\ Rows(p) = 0 .. Cardinality(Rows(p)) - 1
  BY ProblemAssumption DEF Vars, Rows
<1>2. QED
  BY <1>1, FS_CardinalityType

\* marking one more row
LEMMA OneMoreRow ==
  ASSUME NEW p \in Problems, NEW st, NEW next, NEW i \in Rows(p), NEW mark,
         Counted(p, st), Unchanged(st, i), mark # "unchanged",
         next.consStates = [st.consStates EXCEPT ![i] = mark]
  PROVE  Cardinality(RemovedRows(next)) = Cardinality(RemovedRows(st)) + 1
<1>1. RemovedRows(next) = RemovedRows(st) \cup {i} /\ i \notin RemovedRows(st)
  BY DEF RemovedRows, Counted, Unchanged
<1>2. IsFiniteSet(RemovedRows(st))
  BY FinitelyMany, FS_Subset DEF RemovedRows, Counted
<1>3. QED
  BY <1>1, <1>2, FS_AddElement

LEMMA MarkedOnce ==
  ASSUME NEW list, NEW marks, NEW mark, NEW i, NEW other, Recorded(list, marks, mark),
         i \in DOMAIN marks, marks[i] = "unchanged", mark # "unchanged"
  PROVE  Recorded(list, [marks EXCEPT ![i] = other], mark)
BY DEF Recorded, RecordedOnce

LEMMA RecordedAgain ==
  ASSUME NEW list, NEW marks, NEW mark, NEW entry, Recorded(list, marks, mark),
         entry.row \in DOMAIN marks, marks[entry.row] = "unchanged", mark # "unchanged"
  PROVE  /\ Recorded(Append(list, entry), [marks EXCEPT ![entry.row] = mark], mark)
         /\ Len(Append(list, entry)) = Len(list) + 1 /\ Len(list) \in Nat
<1>1. PICK S : list \in Seq(S)
  BY DEF Recorded, RecordedOnce
<1> DEFINE T == S \cup {entry}
<1>2. list \in Seq(T) /\ entry \in T
  BY <1>1
<1>3. /\ Append(list, entry) \in Seq(T) /\ Len(Append(list, entry)) = Len(list) + 1 /\ Len(list) \in Nat
      /\ DOMAIN list = 1 .. Len(list) /\ DOMAIN Append(list, entry) = 1 .. Len(list) + 1
      /\ \A k \in 1 .. Len(list) : Append(list, entry)[k] = list[k]
      /\ Append(list, entry)[Len(list) + 1] = entry
  BY <1>2
<1>4. \A k \in DOMAIN list : list[k].row \in DOMAIN marks /\ marks[list[k].row] = mark
  BY DEF Recorded, RecordedOnce
<1>5. \A k \in DOMAIN list : list[k].row # entry.row
  BY <1>4
<1>6. \A k, l \in DOMAIN list : list[k].row = list[l].row => k = l
  BY DEF Recorded, RecordedOnce
<1> HIDE DEF T
<1>7. \A k, l \in 1 .. Len(list) + 1 : Append(list, entry)[k].row = Append(list, entry)[l].row => k = l
  <2> SUFFICES ASSUME NEW k \in 1 .. Len(list) + 1, NEW l \in 1 .. Len(list) + 1,
                      Append(list, entry)[k].row = Append(list, entry)[l].row
               PROVE  k = l
    OBVIOUS
  <2>1. (k \in 1 .. Len(list) \/ k = Len(list) + 1) /\ (l \in 1 .. Len(list) \/ l = Len(list) + 1)
    BY <1>3
  <2>2. QED
    BY <2>1, <1>3, <1>5, <1>6
<1>8. \A k \in 1 .. Len(list) + 1 :
        /\ Append(list, entry)[k].row \in DOMAIN marks
        /\ [marks EXCEPT ![entry.row] = mark][Append(list, entry)[k].row] = mark
  <2> SUFFICES ASSUME NEW k \in 1 .. Len(list) + 1
               PROVE  /\ Append(list, entry)[k].row \in DOMAIN marks
                      /\ [marks EXCEPT ![entry.row] = mark][Append(list, entry)[k].row] = mark
    OBVIOUS
  <2>1. k \in 1 .. Len(list) \/ k = Len(list) + 1
    BY <1>3
  <2>2. QED
    BY <2>1, <1>3, <1>4, <1>5
<1>9. QED
  BY <1>3, <1>7, <1>8 DEF Recorded, RecordedOnce

LEMMA RowRemoved ==
  ASSUME NEW p \in Problems, NEW st, NEW i \in Rows(p), Counted(p, st), Unchanged(st, i)
  PROVE  /\ Counted(p, RemoveRow(st, i))
         /\ RemoveRow(st, i).consStates = [st.consStates EXCEPT ![i] = "redundant"]
         /\ RemoveRow(st, i).varStates = st.varStates /\ RemoveRow(st, i).forcing = st.forcing
         /\ RemoveRow(st, i).numFixed = st.numFixed
<1> DEFINE next == RemoveRow(st, i)
<1>0. PpStates(st) /\ next = [st EXCEPT !.consStates = [@ EXCEPT ![i] = "redundant"],
                        !.consReq = [@ EXCEPT ![i] = {"lower", "upper"}],
                        !.numRedundant = st.numRedundant + 1]
  BY DEF RemoveRow, Counted
<1> HIDE DEF next
<1>1. /\ PpStates(next) /\ next.consStates = [st.consStates EXCEPT ![i] = "redundant"]
      /\ next.varStates = st.varStates /\ next.numRedundant = st.numRedundant + 1
      /\ next.converted = st.converted /\ next.forcing = st.forcing /\ next.numFixed = st.numFixed
  BY <1>0 DEF PpStates
<1>2. FixedVars(next) = FixedVars(st)
  BY <1>1 DEF FixedVars
<1>3. Cardinality(RemovedRows(next)) = Cardinality(RemovedRows(st)) + 1
  BY <1>1, OneMoreRow
<1>4. /\ Recorded(next.converted, next.consStates, "converted")
      /\ Recorded(next.forcing, next.consStates, "redundant")
  <2>1. /\ Recorded(st.converted, st.consStates, "converted")
        /\ Recorded(st.forcing, st.consStates, "redundant")
        /\ i \in DOMAIN st.consStates /\ st.consStates[i] = "unchanged"
    BY DEF Counted, Unchanged
  <2>2. QED
    BY <1>1, <2>1, MarkedOnce
<1>5. Len(st.converted) \in Nat
  BY DEF Counted, Recorded, RecordedOnce
<1>6. NumRemoved(next) = Cardinality(RemovedRows(next)) /\ next.numRedundant \in Int
  BY <1>1, <1>3, <1>5 DEF Counted, NumRemoved
<1>7. Counted(p, next)
  <2>1. FixedAtBounds(p, next)
    BY <1>1, <1>2 DEF Counted, FixedAtBounds
  <2>2. QED
    BY <1>1, <1>2, <1>4, <1>6, <2>1 DEF Counted
<1>8. QED
  BY <1>1, <1>7 DEF next

LEMMA RowConverted ==
  ASSUME NEW p \in Problems, NEW st, NEW entry, entry.row \in Rows(p), Counted(p, st),
         Unchanged(st, entry.row)
  PROVE  /\ Counted(p, ConvertRow(st, entry))
         /\ ConvertRow(st, entry).consStates = [st.consStates EXCEPT ![entry.row] = "converted"]
<1> DEFINE next == ConvertRow(st, entry)
<1>0. PpStates(st) /\ next = [st EXCEPT !.converted = Append(st.converted, entry),
                        !.consStates = [@ EXCEPT ![entry.row] = "converted"],
                        !.asserts = /\ st.asserts
                                    /\ st.varStates[entry.var].state = "unchanged"]
  BY DEF ConvertRow, Counted
<1> HIDE DEF next
<1>1. /\ PpStates(next) /\ next.consStates = [st.consStates EXCEPT ![entry.row] = "converted"]
      /\ next.varStates = st.varStates /\ next.numRedundant = st.numRedundant
      /\ next.converted = Append(st.converted, entry) /\ next.forcing = st.forcing
      /\ next.numFixed = st.numFixed
  BY <1>0 DEF PpStates
<1>2. FixedVars(next) = FixedVars(st)
  BY <1>1 DEF FixedVars
<1>3. Cardinality(RemovedRows(next)) = Cardinality(RemovedRows(st)) + 1
  BY <1>1, OneMoreRow
<1>4. /\ Recorded(next.converted, next.consStates, "converted")
      /\ Len(next.converted) = Len(st.converted) + 1 /\ Len(st.converted) \in Nat
  <2>1. /\ Recorded(st.converted, st.consStates, "converted")
        /\ entry.row \in DOMAIN st.consStates /\ st.consStates[entry.row] = "unchanged"
    BY DEF Counted, Unchanged
  <2>2. Recorded(Append(st.converted, entry), [st.consStates EXCEPT ![entry.row] = "converted"], "converted")
        /\ Len(Append(st.converted, entry)) = Len(st.converted) + 1 /\ Len(st.converted) \in Nat
    BY <2>1, RecordedAgain
  <2>3. QED
    BY <1>1, <2>2
<1>5. Recorded(next.forcing, next.consStates, "redundant")
  <2>1. /\ Recorded(st.forcing, st.consStates, "redundant")
        /\ entry.row \in DOMAIN st.consStates /\ st.consStates[entry.row] = "unchanged"
    BY DEF Counted, Unchanged
  <2>2. Recorded(st.forcing, [st.consStates EXCEPT ![entry.row] = "converted"], "redundant")
    BY <2>1, MarkedOnce
  <2>3. QED
    BY <1>1, <2>2
<1>6. NumRemoved(next) = Cardinality(RemovedRows(next)) /\ next.numRedundant \in Int
  BY <1>1, <1>3, <1>4 DEF Counted, NumRemoved
<1>7. Counted(p, next)
  <2>1. FixedAtBounds(p, next)
    BY <1>1, <1>2 DEF Counted, FixedAtBounds
  <2>2. QED
    BY <1>1, <1>2, <1>4, <1>5, <1>6, <2>1 DEF Counted
<1>8. QED
  BY <1>1, <1>7 DEF next

\* Variables that an earlier row fixed are not counted again.
LEMMA RowForced ==
  ASSUME NEW p \in Problems, NEW st, NEW i \in Rows(p), NEW side, Counted(p, st), Unchanged(st, i)
  PROVE  Counted(p, AddForcing(p, st, i, side))
<1> DEFINE fixed == Entries(p, i)
           value(j) == IF (Coeff(p, i, j) > 0) # (side = "lower") THEN p.varLb[j] ELSE p.varUb[j]
           fresh == {j \in fixed : st.varStates[j].state = "unchanged"}
           entry == [row |-> i, side |-> side, vars |-> Ascending(fixed, Cardinality(Vars(p)))]
           next == AddForcing(p, st, i, side)
           removed == RemoveRow(st, i)
<1>1. CASE fixed = {}
  BY <1>1, RowRemoved DEF AddForcing
<1>2. CASE fixed # {}
  <2>1. /\ Counted(p, removed) /\ removed.consStates = [st.consStates EXCEPT ![i] = "redundant"]
        /\ removed.varStates = st.varStates /\ removed.forcing = st.forcing
        /\ removed.numFixed = st.numFixed
    BY RowRemoved
  <2>2. next = [removed EXCEPT
             !.forcing = Append(st.forcing, entry),
             !.numFixed = st.numFixed + Cardinality(fresh),
             !.varStates = [j \in Vars(p) |->
                 IF j \in fixed THEN [state |-> "forcing_fixed", value |-> value(j)]
                 ELSE st.varStates[j]],
             !.asserts = st.asserts /\ \A j \in fixed : IsFinite(value(j))]
    BY <1>2 DEF AddForcing, NewlyFixed
  <2> HIDE DEF removed, next, entry
  <2>12. PpStates(removed)
    BY <2>1 DEF Counted
  <2>3. /\ PpStates(next) /\ next.consStates = removed.consStates
        /\ next.varStates = [j \in Vars(p) |->
                 IF j \in fixed THEN [state |-> "forcing_fixed", value |-> value(j)]
                 ELSE st.varStates[j]]
        /\ next.numRedundant = removed.numRedundant /\ next.converted = removed.converted
        /\ next.forcing = Append(st.forcing, entry)
        /\ next.numFixed = st.numFixed + Cardinality(fresh)
    BY <2>2, <2>12 DEF PpStates
  <2>4. fixed \subseteq Vars(p)
    BY DEF Entries
  <2>5. FixedVars(next) = FixedVars(st) \cup fresh /\ FixedVars(st) \cap fresh = {}
    BY <2>3, <2>4 DEF FixedVars, Counted
  <2>6. IsFiniteSet(FixedVars(st)) /\ IsFiniteSet(fresh)
    <3>1. FixedVars(st) \subseteq Vars(p) /\ fresh \subseteq Vars(p)
      BY <2>4 DEF FixedVars, Counted
    <3>2. QED
      BY <3>1, FinitelyMany, FS_Subset
  <2>7. Cardinality(FixedVars(next)) = Cardinality(FixedVars(st)) + Cardinality(fresh)
    <3>1. Cardinality(FixedVars(st) \cap fresh) = 0
      BY <2>5, FS_EmptySet
    <3>2. /\ Cardinality(FixedVars(st) \cup fresh)
                = Cardinality(FixedVars(st)) + Cardinality(fresh) - Cardinality(FixedVars(st) \cap fresh)
          /\ Cardinality(FixedVars(st)) \in Nat /\ Cardinality(fresh) \in Nat
      BY <2>6, FS_Union, FS_CardinalityType
    <3>3. QED
      BY <2>5, <3>1, <3>2
  <2>8. entry.row = i
    BY DEF entry
  <2>9. Recorded(next.forcing, next.consStates, "redundant")
    BY <2>1, <2>3, <2>8, RecordedAgain DEF Counted, Unchanged
  <2>10. NumRemoved(next) = Cardinality(RemovedRows(next))
    <3>1. RemovedRows(next) = RemovedRows(removed) /\ NumRemoved(next) = NumRemoved(removed)
      BY <2>3 DEF NumRemoved, RemovedRows
    <3>2. QED
      BY <2>1, <3>1 DEF Counted
  <2>11. /\ Recorded(next.converted, next.consStates, "converted") /\ next.numRedundant \in Int
         /\ DOMAIN next.consStates = Rows(p) /\ DOMAIN next.varStates = Vars(p)
    BY <2>1, <2>3 DEF Counted
  <2>13. next.numFixed = Cardinality(FixedVars(next))
    BY <2>3, <2>7 DEF Counted
  <2>16. FixedAtBounds(p, next)
    <3>1. \A j \in fixed : next.varStates[j].value = value(j) /\ value(j) \in {p.varLb[j], p.varUb[j]}
      BY <2>3, <2>4
    <3>2. \A j \in FixedVars(st) \ fixed : next.varStates[j] = st.varStates[j]
      BY <2>3 DEF FixedVars, Counted
    <3> HIDE DEF fixed, value
    <3>3. FixedVars(next) \subseteq FixedVars(st) \cup fixed
      BY <2>5
    <3>4. QED
      BY <3>1, <3>2, <3>3 DEF Counted, FixedAtBounds
  <2>14. Counted(p, next)
    BY <2>3, <2>9, <2>10, <2>11, <2>13, <2>16 DEF Counted
  <2>15. QED
    BY <2>14 DEF next
<1>3. QED
  BY <1>1, <1>2

LEMMA OtherFields ==
  ASSUME NEW p, NEW st, NEW next, Counted(p, st), PpStates(next),
         next.varStates = st.varStates, next.consStates = st.consStates,
         next.converted = st.converted, next.forcing = st.forcing,
         next.numFixed = st.numFixed, next.numRedundant = st.numRedundant
  PROVE  Counted(p, next)
<1>1. FixedVars(next) = FixedVars(st) /\ RemovedRows(next) = RemovedRows(st) /\ NumRemoved(next) = NumRemoved(st)
  BY DEF FixedVars, RemovedRows, NumRemoved
<1>2. QED
  BY <1>1 DEF Counted, FixedAtBounds

LEMMA ReportedInfeasible ==
  ASSUME NEW p, NEW st, Counted(p, st)
  PROVE  Counted(p, [st EXCEPT !.infeasible = TRUE])
         /\ [st EXCEPT !.infeasible = TRUE].consStates = st.consStates
<1> DEFINE next == [st EXCEPT !.infeasible = TRUE]
<1>1. PpStates(st) /\ next = [st EXCEPT !.infeasible = TRUE]
  BY DEF Counted
<1> HIDE DEF next
<1>2. /\ PpStates(next) /\ next.varStates = st.varStates /\ next.consStates = st.consStates
      /\ next.converted = st.converted /\ next.forcing = st.forcing
      /\ next.numFixed = st.numFixed /\ next.numRedundant = st.numRedundant
  BY <1>1 DEF PpStates
<1>3. Counted(p, next)
  BY <1>2, OtherFields
<1>4. QED
  BY <1>2, <1>3 DEF next

LEMMA RowSimplified ==
  ASSUME NEW p \in Problems, NEW st, NEW i \in Rows(p), Counted(p, st), Unchanged(st, i)
  PROVE  /\ Counted(p, SimplifyRow(p, st, i))
         /\ \A r \in Rows(p) \ {i} : Unchanged(st, r) => Unchanged(SimplifyRow(p, st, i), r)
<1> DEFINE next == SimplifyRow(p, st, i)
           Goal(n) == Counted(p, n) /\ \A r \in Rows(p) \ {i} : Unchanged(st, r) => Unchanged(n, r)
<1>1. \/ next = st \/ next = [st EXCEPT !.infeasible = TRUE] \/ next = RemoveRow(st, i)
      \/ next = ConvertToBound(p, st, i)
  <2> HIDE DEF Goal
  <2>1. QED
    BY DEF SimplifyRow
<1>2. DOMAIN st.consStates = Rows(p)
  BY DEF Counted
<1>3. Goal(st)
  OBVIOUS
<1>4. Goal([st EXCEPT !.infeasible = TRUE])
  <2> DEFINE other == [st EXCEPT !.infeasible = TRUE]
  <2>1. Counted(p, other) /\ other.consStates = st.consStates
    BY ReportedInfeasible
  <2> HIDE DEF other
  <2>2. Goal(other)
    BY <2>1 DEF Unchanged
  <2>3. QED
    BY <2>2 DEF other
<1>5. Goal(RemoveRow(st, i))
  <2> DEFINE other == RemoveRow(st, i)
  <2>1. Counted(p, other) /\ other.consStates = [st.consStates EXCEPT ![i] = "redundant"]
    BY RowRemoved
  <2> HIDE DEF other
  <2>2. Goal(other)
    BY <1>2, <2>1 DEF Unchanged
  <2>3. QED
    BY <2>2 DEF other
<1>6. Goal(ConvertToBound(p, st, i))
  <2> DEFINE j == CHOOSE v \in Vars(p) : Entries(p, i) = {v}
             lb == IF Coeff(p, i, j) < 0 THEN -p.rows[i].ub ELSE p.rows[i].lb
             ub == IF Coeff(p, i, j) < 0 THEN -p.rows[i].lb ELSE p.rows[i].ub
             sides == {s \in {"lower", "upper"} :
                         \/ s = "lower" /\ IsFinite(lb) /\ lb > p.varLb[j]
                         \/ s = "upper" /\ IsFinite(ub) /\ ub < p.varUb[j]}
             entry == [row |-> i, var |-> j, factor |-> Coeff(p, i, j), lb |-> lb, ub |-> ub, sides |-> sides]
             other == ConvertRow(st, entry)
  <2>1. ConvertToBound(p, st, i) = IF sides = {} THEN RemoveRow(st, i) ELSE other
    BY DEF ConvertToBound
  <2>2. entry.row = i
    OBVIOUS
  <2> HIDE DEF entry
  <2>3. Counted(p, other) /\ other.consStates = [st.consStates EXCEPT ![i] = "converted"]
    BY <2>2, RowConverted
  <2> HIDE DEF other, sides
  <2>4. Goal(other)
    BY <1>2, <2>3 DEF Unchanged
  <2> HIDE DEF Goal
  <2>5. QED
    BY <2>1, <2>4, <1>5
<1>7. Goal(next)
  <2> HIDE DEF Goal, next
  <2>1. QED
    BY <1>1, <1>3, <1>4, <1>5, <1>6
<1>8. QED
  BY <1>7

LEMMA RowImplied ==
  ASSUME NEW p \in Problems, NEW st, NEW i \in Rows(p), Counted(p, st)
  PROVE  Counted(p, RemoveImplied(p, st, i))
BY RowRemoved DEF RemoveImplied

LEMMA RowChecked ==
  ASSUME NEW p \in Problems, NEW st, NEW i \in Rows(p), Counted(p, st)
  PROVE  Counted(p, CheckRow(p, st, i))
<1> DEFINE missed(s) == [s EXCEPT !.infeasible = TRUE]
           next == CheckRow(p, st, i)
<1>1. CASE ~Unchanged(st, i)
  BY <1>1 DEF CheckRow
<1>2. CASE Unchanged(st, i)
  <2>1. \E lowered \in {st, missed(st)} :
          next \in {AddForcing(p, st, i, "lower"), lowered, missed(lowered), AddForcing(p, lowered, i, "upper")}
    BY <1>2 DEF CheckRow
  <2>2. \A s : Counted(p, s) => Counted(p, missed(s)) /\ missed(s).consStates = s.consStates
    BY ReportedInfeasible
  <2> HIDE DEF missed, next
  <2>3. PICK lowered \in {st, missed(st)} :
          next \in {AddForcing(p, st, i, "lower"), lowered, missed(lowered), AddForcing(p, lowered, i, "upper")}
    BY <2>1
  <2>4. Counted(p, lowered) /\ Unchanged(lowered, i)
    BY <1>2, <2>2 DEF Unchanged
  <2>5. Counted(p, next)
    BY <1>2, <2>2, <2>3, <2>4, RowForced
  <2>6. QED
    BY <2>5 DEF next
<1>3. QED
  BY <1>1, <1>2

LEMMA RowRelaxed ==
  ASSUME NEW p \in Problems, NEW st, NEW i \in Rows(p), Counted(p, st)
  PROVE  Counted(p, RelaxRow(p, st, i))
<1> DEFINE next == RelaxRow(p, st, i)
<1>1. CASE ~Unchanged(st, i)
  BY <1>1 DEF RelaxRow
<1>2. CASE Unchanged(st, i)
  <2>1. PpStates(st) /\ \E sides : next = [st EXCEPT !.consReq = [@ EXCEPT ![i] = sides]]
    BY <1>2 DEF RelaxRow, Counted
  <2> HIDE DEF next
  <2>2. PICK sides : next = [st EXCEPT !.consReq = [@ EXCEPT ![i] = sides]]
    BY <2>1
  <2>3. /\ PpStates(next) /\ next.varStates = st.varStates /\ next.consStates = st.consStates
        /\ next.converted = st.converted /\ next.forcing = st.forcing
        /\ next.numFixed = st.numFixed /\ next.numRedundant = st.numRedundant
    BY <2>1, <2>2 DEF PpStates
  <2>4. Counted(p, next)
    BY <2>3, OtherFields
  <2>5. QED
    BY <2>4 DEF next
<1>3. QED
  BY <1>1, <1>2

LEMMA VarsRelaxed ==
  ASSUME NEW p \in Problems, NEW st, Counted(p, st)
  PROVE  Counted(p, RelaxVars(p, st))
<1> DEFINE next == RelaxVars(p, st)
<1>1. PpStates(st) /\ \E empty, sides : next = [st EXCEPT !.infeasible = empty, !.varReq = sides]
  BY DEF RelaxVars, Counted
<1> HIDE DEF next
<1>2. PICK empty, sides : next = [st EXCEPT !.infeasible = empty, !.varReq = sides]
  BY <1>1
<1>3. /\ PpStates(next) /\ next.varStates = st.varStates /\ next.consStates = st.consStates
      /\ next.converted = st.converted /\ next.forcing = st.forcing
      /\ next.numFixed = st.numFixed /\ next.numRedundant = st.numRedundant
  BY <1>1, <1>2 DEF PpStates
<1>4. Counted(p, next)
  BY <1>3, OtherFields
<1>5. QED
  BY <1>4 DEF next

LEMMA LoopsOverRows ==
  ASSUME NEW loop, NEW p \in Problems, NEW st
  PROVE  \E f : /\ f[0] = st
                /\ \A k \in Rows(p) : f[k + 1] = VisitRow(loop, p, f[k], k)
                /\ OverRows(loop, p, st) = f[Cardinality(Rows(p))]
<1> DEFINE N == Cardinality(Rows(p))
           Loop(g, n) == g[0] = st /\ \A k \in 1 .. n : g[k] = VisitRow(loop, p, g[k - 1], k - 1)
           Works == {n \in Nat : \E g : Loop(g, n)}
<1>1. 0 \in Works
  <2> DEFINE g == [k \in {0} |-> st]
  <2>1. Loop(g, 0)
    OBVIOUS
  <2>2. QED
    BY <2>1
<1>2. ASSUME NEW n \in Works \cap Nat PROVE n + 1 \in Works
  <2>1. PICK g : Loop(g, n)
    BY <1>2
  <2> DEFINE h == [k \in 0 .. n + 1 |-> IF k <= n THEN g[k] ELSE VisitRow(loop, p, g[n], n)]
  <2>2. h[0] = st
    BY <2>1
  <2>3. ASSUME NEW k \in 1 .. n + 1 PROVE h[k] = VisitRow(loop, p, h[k - 1], k - 1)
    <3>1. h[k - 1] = g[k - 1]
      OBVIOUS
    <3>2. k <= n => h[k] = g[k] /\ k \in 1 .. n
      OBVIOUS
    <3>3. k > n => k = n + 1 /\ h[k] = VisitRow(loop, p, g[n], n)
      OBVIOUS
    <3> HIDE DEF h
    <3>4. QED
      BY <2>1, <3>1, <3>2, <3>3
  <2> HIDE DEF h
  <2>4. Loop(h, n + 1)
    BY <2>2, <2>3
  <2>5. QED
    BY <2>4
<1>3. N \in Nat /\ Rows(p) = 0 .. N - 1
  BY FinitelyMany
<1>4. N \in Works
  <2> HIDE DEF Works
  <2>1. QED
    BY <1>1, <1>2, <1>3, Induction
<1>5. PICK g : Loop(g, N)
  BY <1>4
<1> DEFINE Rule(f) == f = [k \in 0 .. N |-> IF k = 0 THEN st ELSE VisitRow(loop, p, f[k - 1], k - 1)]
           h == [k \in 0 .. N |-> g[k]]
<1>6. Rule(h)
  <2>1. ASSUME NEW k \in 0 .. N
        PROVE  g[k] = IF k = 0 THEN st ELSE VisitRow(loop, p, h[k - 1], k - 1)
    <3>1. k # 0 => h[k - 1] = g[k - 1] /\ k \in 1 .. N
      BY <1>3
    <3> HIDE DEF h
    <3>2. QED
      BY <1>5, <3>1
  <2>2. h = [k \in 0 .. N |-> g[k]]
    OBVIOUS
  <2> HIDE DEF h
  <2>3. QED
    BY <2>1, <2>2
<1> DEFINE f == CHOOSE ff : Rule(ff)
<1>7. Rule(f)
  <2> HIDE DEF Rule, h
  <2>1. QED
    BY <1>6
<1>8. OverRows(loop, p, st) = f[N]
  BY DEF OverRows
<1> HIDE DEF f
<1>9. f[0] = st /\ \A k \in 0 .. N - 1 : f[k + 1] = VisitRow(loop, p, f[k], k)
  <2>1. f[0] = st
    BY <1>3, <1>7
  <2>2. ASSUME NEW k \in 0 .. N - 1 PROVE f[k + 1] = VisitRow(loop, p, f[k], k)
    <3>1. k + 1 \in 0 .. N /\ k + 1 # 0 /\ k + 1 - 1 = k
      BY <1>3
    <3>2. \A n \in 0 .. N : f[n] = IF n = 0 THEN st ELSE VisitRow(loop, p, f[n - 1], n - 1)
      BY <1>7
    <3>3. f[k + 1] = VisitRow(loop, p, f[k + 1 - 1], k + 1 - 1)
      BY <3>1, <3>2
    <3>4. QED
      BY <3>1, <3>3
  <2>3. QED
    BY <2>1, <2>2
<1>10. QED
  BY <1>3, <1>8, <1>9

LEMMA LoopCounts ==
  ASSUME NEW p \in Problems, NEW st, NEW loop \in {"simplify", "implied", "check", "relax"},
         Counted(p, st), loop = "simplify" => FromRow(p, st, 0)
  PROVE  Counted(p, OverRows(loop, p, st))
<1> DEFINE N == Cardinality(Rows(p))
<1>1. PICK f : /\ f[0] = st
               /\ \A k \in Rows(p) : f[k + 1] = VisitRow(loop, p, f[k], k)
               /\ OverRows(loop, p, st) = f[N]
  BY LoopsOverRows
<1> DEFINE Good == {n \in Nat : n <= N => Counted(p, f[n]) /\ (loop = "simplify" => FromRow(p, f[n], n))}
<1>2. N \in Nat /\ Rows(p) = 0 .. N - 1
  BY FinitelyMany
<1>3. 0 \in Good
  BY <1>1
<1>4. ASSUME NEW n \in Good \cap Nat PROVE n + 1 \in Good
  <2> SUFFICES ASSUME n + 1 <= N
               PROVE  Counted(p, f[n + 1]) /\ (loop = "simplify" => FromRow(p, f[n + 1], n + 1))
    BY <1>4
  <2>1. Counted(p, f[n]) /\ (loop = "simplify" => FromRow(p, f[n], n))
    BY <1>2, <1>4
  <2>2. n \in Rows(p) /\ f[n + 1] = VisitRow(loop, p, f[n], n)
    BY <1>1, <1>2
  <2> HIDE DEF Good, N
  <2>3. CASE loop = "simplify"
    <3>1. f[n + 1] = SimplifyRow(p, f[n], n)
      BY <2>2, <2>3 DEF VisitRow
    <3>2. Unchanged(f[n], n)
      BY <1>2, <2>1, <2>2, <2>3 DEF FromRow
    <3>3. /\ Counted(p, f[n + 1])
          /\ \A r \in Rows(p) \ {n} : Unchanged(f[n], r) => Unchanged(f[n + 1], r)
      BY <2>1, <2>2, <3>1, <3>2, RowSimplified
    <3>4. FromRow(p, f[n + 1], n + 1)
      BY <1>2, <2>1, <2>3, <3>3 DEF FromRow
    <3>5. QED
      BY <3>3, <3>4
  <2>4. CASE loop = "implied"
    BY <2>1, <2>2, <2>4, RowImplied DEF VisitRow
  <2>5. CASE loop = "check"
    BY <2>1, <2>2, <2>5, RowChecked DEF VisitRow
  <2>6. CASE loop = "relax"
    BY <2>1, <2>2, <2>6, RowRelaxed DEF VisitRow
  <2>7. QED
    BY <2>3, <2>4, <2>5, <2>6
<1>5. N \in Good
  <2> HIDE DEF Good
  <2>1. QED
    BY <1>2, <1>3, <1>4, Induction
<1>6. QED
  BY <1>1, <1>2, <1>5

LEMMA FixedByBounds ==
  ASSUME NEW p \in Problems
  PROVE  LET st == FixToBounds(p, NewState(p)) IN Counted(p, st) /\ FromRow(p, st, 0)
<1> DEFINE fixed == {j \in Vars(p) : p.varLb[j] = p.varUb[j]}
           new == NewState(p)
           st == FixToBounds(p, new)
<1>1. /\ PpStates(new) /\ new.varStates = [j \in Vars(p) |-> [state |-> "unchanged", value |-> 0]]
      /\ new.consStates = [i \in Rows(p) |-> "unchanged"] /\ new.converted = <<>> /\ new.forcing = <<>>
      /\ new.numRedundant = 0
  BY DEF NewState, PpStates
<1>2. st = [new EXCEPT
              !.varStates = [j \in Vars(p) |->
                               IF j \in fixed THEN [state |-> "bound_fixed", value |-> p.varLb[j]]
                               ELSE new.varStates[j]],
              !.numFixed = Cardinality(fixed)]
  BY DEF FixToBounds
<1> HIDE DEF new, st
<1>3. /\ PpStates(st) /\ st.numFixed = Cardinality(fixed)
      /\ st.varStates = [j \in Vars(p) |->
                           IF j \in fixed THEN [state |-> "bound_fixed", value |-> p.varLb[j]]
                           ELSE new.varStates[j]]
      /\ st.consStates = new.consStates /\ st.converted = <<>> /\ st.forcing = <<>> /\ st.numRedundant = 0
  BY <1>1, <1>2 DEF PpStates
<1>4. FixedVars(st) = fixed
  BY <1>1, <1>3 DEF FixedVars
<1>5. RemovedRows(st) = {}
  BY <1>1, <1>3 DEF RemovedRows
<1>6. NumRemoved(st) = Cardinality(RemovedRows(st))
  BY <1>3, <1>5, FS_EmptySet DEF NumRemoved
<1>7. \A marks, mark : Recorded(<<>>, marks, mark)
  BY DEF Recorded, RecordedOnce
<1>8. DOMAIN st.varStates = Vars(p) /\ DOMAIN st.consStates = Rows(p)
  BY <1>1, <1>3
<1>9. Counted(p, st)
  <2>1. FixedAtBounds(p, st)
    BY <1>3, <1>4 DEF FixedAtBounds
  <2>2. QED
    BY <1>3, <1>4, <1>6, <1>7, <1>8, <2>1 DEF Counted
<1>10. FromRow(p, st, 0)
  BY <1>1, <1>3 DEF FromRow, Unchanged
<1>11. QED
  BY <1>9, <1>10 DEF st, new

LEMMA AnalysisCounts ==
  ASSUME NEW p \in Problems
  PROVE  Counted(p, Analyse(p))
<1> DEFINE s0 == FixToBounds(p, NewState(p))
           s1 == OverRows("simplify", p, s0)
           s2 == OverRows("implied", p, s1)
           s3 == OverRows("check", p, s2)
           s4 == OverRows("relax", p, s3)
<1>1. Counted(p, s0) /\ FromRow(p, s0, 0)
  BY FixedByBounds
<1> HIDE DEF s0
<1>2. Counted(p, s1)
  BY <1>1, LoopCounts
<1> HIDE DEF s1
<1>3. Counted(p, s2)
  BY <1>2, LoopCounts
<1> HIDE DEF s2
<1>4. Counted(p, s3)
  BY <1>3, LoopCounts
<1> HIDE DEF s3
<1>5. Counted(p, s4)
  BY <1>4, LoopCounts
<1>6. Analyse(p) = RelaxVars(p, s4)
  BY DEF Analyse, s0, s1, s2, s3
<1> HIDE DEF s4
<1>7. QED
  BY <1>5, <1>6, VarsRelaxed

-----------------------------------------------------------------------------
(* The preprocessor: index lists, and primal values there and back         *)

LEMMA AscendingComplete ==
  ASSUME NEW n \in Nat, NEW S \in SUBSET (0 .. n - 1)
  PROVE  /\ Complete(Ascending(S, n), Ascending((0 .. n - 1) \ S, n), n)
         /\ \A i \in 0 .. n - 1 : Among(Ascending(S, n), i) <=> i \in S
<1> DEFINE K(T) == {k \in 1 .. n : k - 1 \in T}
<1>1. ASSUME NEW T
      PROVE  /\ Ascends(Ascending(T, n), n)
             /\ \A i \in 0 .. n - 1 : Among(Ascending(T, n), i) <=> i \in T
  <2>1. /\ Ascends(Picked(IndicesBelow(n), K(T)), n)
        /\ \A i \in 0 .. n - 1 : Among(Picked(IndicesBelow(n), K(T)), i) <=> i + 1 \in K(T)
    BY PickedAscends
  <2>2. Ascending(T, n) = Picked(IndicesBelow(n), K(T))
    BY DEF Ascending
  <2>3. \A i \in 0 .. n - 1 : i + 1 \in K(T) <=> i \in T
    OBVIOUS
  <2>4. QED
    BY <2>1, <2>2, <2>3
<1>2. QED
  BY <1>1 DEF Complete

\* the first members of a list are as many as there are
FirstOf(list, m) == {list[k] : k \in 1 .. m}

LEMMA FirstMembers ==
  ASSUME NEW n \in Nat, NEW list, Ascends(list, n), NEW m \in 0 .. Len(list)
  PROVE  IsFiniteSet(FirstOf(list, m)) /\ Cardinality(FirstOf(list, m)) = m
<1> DEFINE members == FirstOf(list, m)
           f == [k \in 1 .. m |-> list[k]]
<1>1. DOMAIN list = 1 .. Len(list) /\ Len(list) \in Nat
  BY DEF Ascends
<1>2. \A j, k \in 1 .. m : list[j] = list[k] => j = k
  BY <1>1, AscendsOrder
<1>3. f \in Bijection(1 .. m, members)
  <2>1. f \in [1 .. m -> members] /\ \A y \in members : \E k \in 1 .. m : f[k] = y
    BY DEF FirstOf
  <2>2. \A j, k \in 1 .. m : f[j] = f[k] => j = k
    BY <1>2
  <2> HIDE DEF f, members
  <2>3. QED
    BY <2>1, <2>2 DEF Bijection, Injection, Surjection, IsInjective
<1>4. ExistsBijection(1 .. m, members)
  BY <1>3 DEF ExistsBijection
<1>5. IsFiniteSet(1 .. m) /\ Cardinality(1 .. m) = m
  BY FS_Interval
<1> HIDE DEF members
<1>6. QED
  BY <1>4, <1>5, FS_Bijection DEF members

LEMMA ListedMembers ==
  ASSUME NEW n \in Nat, NEW S \in SUBSET (0 .. n - 1)
  PROVE  Len(Ascending(S, n)) = Cardinality(S) /\ IsFiniteSet(S)
<1> DEFINE list == Ascending(S, n)
<1>1. Ascends(list, n) /\ \A i \in 0 .. n - 1 : Among(list, i) <=> i \in S
  BY AscendingComplete DEF Complete
<1> HIDE DEF list
<1>2. DOMAIN list = 1 .. Len(list) /\ Len(list) \in Nat /\ \A k \in DOMAIN list : list[k] \in 0 .. n - 1
  BY <1>1 DEF Ascends
<1>3. S = FirstOf(list, Len(list))
  BY <1>1, <1>2 DEF Among, FirstOf
<1>4. IsFiniteSet(FirstOf(list, Len(list))) /\ Cardinality(FirstOf(list, Len(list))) = Len(list)
  <2>1. Len(list) \in 0 .. Len(list)
    BY <1>2
  <2>2. QED
    BY <1>1, <2>1, FirstMembers
<1>5. QED
  BY <1>3, <1>4 DEF list

\* what is kept moves down by what was removed before it
LEMMA KeptMovesDown ==
  ASSUME NEW n \in Nat, NEW S \in SUBSET (0 .. n - 1),
         NEW k \in DOMAIN Ascending((0 .. n - 1) \ S, n)
  PROVE  LET i == Ascending((0 .. n - 1) \ S, n)[k] IN i - NumBefore(S, i) = k - 1
<1> DEFINE kept == Ascending((0 .. n - 1) \ S, n)
           i == kept[k]
           removed == {j \in S : j < i}
           members == FirstOf(kept, k - 1)
<1>1. Ascends(kept, n) /\ \A j \in 0 .. n - 1 : Among(kept, j) <=> j \notin S
  <2>1. /\ Complete(Ascending(S, n), kept, n)
        /\ \A j \in 0 .. n - 1 : Among(Ascending(S, n), j) <=> j \in S
    BY AscendingComplete
  <2> HIDE DEF kept
  <2>2. QED
    BY <2>1 DEF Complete
<1>0. k \in DOMAIN kept
  OBVIOUS
<1> HIDE DEF kept
<1>2. /\ DOMAIN kept = 1 .. Len(kept) /\ Len(kept) \in Nat /\ k \in 1 .. Len(kept)
      /\ i \in 0 .. n - 1 /\ \A j \in DOMAIN kept : kept[j] \in 0 .. n - 1
  BY <1>0, <1>1 DEF Ascends
<1>3. IsFiniteSet(members) /\ Cardinality(members) = k - 1
  <2>1. k - 1 \in 0 .. Len(kept)
    BY <1>2
  <2>2. QED
    BY <2>1, <1>1, FirstMembers
<1>4. \A j \in DOMAIN kept : kept[j] < i <=> j < k
  BY <1>0, <1>1, AscendsOrder
<1>5. members \cup removed = 0 .. i - 1
  <2>1. ASSUME NEW j \in members PROVE j \in 0 .. i - 1
    <3>1. PICK l \in 1 .. k - 1 : j = kept[l]
      BY <2>1 DEF FirstOf
    <3>2. l \in DOMAIN kept /\ l < k
      BY <1>2
    <3>3. j \in 0 .. n - 1 /\ j < i
      BY <1>2, <1>4, <3>1, <3>2
    <3>4. QED
      BY <1>2, <3>3
  <2>2. ASSUME NEW j \in removed PROVE j \in 0 .. i - 1
    BY <1>2, <2>2
  <2>3. ASSUME NEW j \in 0 .. i - 1, j \notin S PROVE j \in members
    <3>1. j \in 0 .. n - 1
      BY <1>2
    <3>2. PICK l \in DOMAIN kept : kept[l] = j
      BY <1>1, <2>3, <3>1 DEF Among
    <3>3. l \in 1 .. k - 1
      BY <1>2, <1>4, <3>2
    <3>4. QED
      BY <3>2, <3>3 DEF FirstOf
  <2>4. ASSUME NEW j \in 0 .. i - 1, j \in S PROVE j \in removed
    BY <1>2, <2>4
  <2> HIDE DEF members, removed
  <2>5. QED
    BY <2>1, <2>2, <2>3, <2>4
<1>6. members \cap removed = {}
  <2>1. \A l \in DOMAIN kept : kept[l] \notin S
    BY <1>1, <1>2 DEF Among
  <2>2. QED
    BY <1>2, <2>1 DEF FirstOf
<1>7. IsFiniteSet(removed)
  <2>1. removed \subseteq 0 .. i - 1
    BY <1>5
  <2>2. IsFiniteSet(0 .. i - 1)
    BY <1>2, FS_Interval
  <2> HIDE DEF removed
  <2>3. QED
    BY <2>1, <2>2, FS_Subset
<1> HIDE DEF members, removed
<1>8. /\ Cardinality(0 .. i - 1) = Cardinality(members) + Cardinality(removed) - Cardinality({})
      /\ Cardinality(removed) \in Nat
  <2>1. /\ Cardinality(members \cup removed)
              = Cardinality(members) + Cardinality(removed) - Cardinality(members \cap removed)
        /\ Cardinality(removed) \in Nat
    BY <1>3, <1>7, FS_Union, FS_CardinalityType
  <2>2. QED
    BY <1>5, <1>6, <2>1
<1>9. Cardinality(0 .. i - 1) = i /\ Cardinality({}) = 0
  <2> HIDE DEF i
  <2>1. 0 \in Int /\ i - 1 \in Int /\ (0 > i - 1 => i = 0) /\ (i - 1) - 0 + 1 = i
    BY <1>2
  <2>2. Cardinality(0 .. i - 1) = IF 0 > i - 1 THEN 0 ELSE (i - 1) - 0 + 1
    BY <2>1, FS_Interval
  <2>3. QED
    BY <2>1, <2>2, FS_EmptySet
<1>10. i - Cardinality(removed) = k - 1
  BY <1>2, <1>3, <1>8, <1>9
<1>11. QED
  BY <1>10 DEF removed, kept, NumBefore

\* A point that agrees with the fixed values survives being reduced to the
\* kept variables and restored from them.
LEMMA ThereAndBack ==
  ASSUME NEW p \in Problems, NEW st, Counted(p, st), NEW x \in [Vars(p) -> Int], FixedAgree(st, x)
  PROVE  LET there == ConvertPrimal(p, st, SetFromRaw(CreateVec(0, 0), x, Cardinality(Vars(p))))
             back == RestorePrimal(p, st, there)
         IN ValidVec(back) /\ ToRaw(back) = x /\ ToRaw(ConvertPrimal(p, st, back)) = ToRaw(there)
<1> DEFINE n == Cardinality(Vars(p))
           fixed == FixedVars(st)
           free == (0 .. n - 1) \ fixed
           list == Ascending(fixed, n)
           kept == Ascending(free, n)
           whole == SetFromRaw(CreateVec(0, 0), x, n)
           there == ConvertPrimal(p, st, whole)
           back == RestorePrimal(p, st, there)
           again == ConvertPrimal(p, st, back)
           reduced == [i \in 0 .. n - Len(list) - 1 |-> x[kept[i + 1]]]
           values == [k \in DOMAIN list |-> st.varStates[list[k]].value]
<1>1. n \in Nat /\ Vars(p) = 0 .. n - 1 /\ IsFiniteSet(Vars(p)) /\ x \in DenseVectors(n)
  BY FinitelyMany DEF DenseVectors
<1>2. fixed \in SUBSET (0 .. n - 1)
  BY <1>1 DEF FixedVars, Counted
<1>3. /\ Complete(list, kept, n) /\ \A i \in 0 .. n - 1 : Among(list, i) <=> i \in fixed
      /\ Len(list) = Cardinality(fixed) /\ Len(kept) = n - Len(list) /\ n - Len(list) \in Nat
  <2>1. /\ Complete(list, kept, n) /\ \A i \in 0 .. n - 1 : Among(list, i) <=> i \in fixed
        /\ Len(list) = Cardinality(fixed)
    BY <1>1, <1>2, AscendingComplete, ListedMembers
  <2> HIDE DEF list, kept
  <2>2. QED
    BY <1>1, <2>1, KeptLength
<1>4. Cardinality(Vars(p) \ fixed) = n - Len(list)
  <2>1. Vars(p) \cap fixed = fixed
    BY <1>1, <1>2
  <2>2. Cardinality(Vars(p) \ fixed) = n - Cardinality(Vars(p) \cap fixed)
    BY <1>1, FS_Difference
  <2>3. QED
    BY <1>3, <2>1, <2>2
<1>5. \A dim \in Nat : CreateVec(dim, 0) \in Vectors /\ CreateVec(dim, 0).dim = dim
  BY DEF CreateVec, Vectors
<1>6. Right(whole, n, x)
  BY <1>1, <1>5, SetFromRawIsRight
<1>7. \A w : ConvertPrimal(p, st, w) = RemoveEntries(w, CreateVec(n - Len(list), 0), list)
  BY <1>4 DEF ConvertPrimal
<1>8. back = MergeEntries(there, CreateVec(n, 0), ListedEntries(list, values))
  BY DEF RestorePrimal, FixedEntries, ListedEntries
<1>9. DOMAIN list = 1 .. Len(list) /\ \A k \in DOMAIN list : list[k] \in fixed /\ list[k] \in 0 .. n - 1
  BY <1>3 DEF Complete, Ascends, Among
<1>10. \A j \in fixed : st.varStates[j].value = x[j]
  BY DEF FixedAgree
<1>11. values \in [DOMAIN list -> Int] /\ \A k \in DOMAIN list : values[k] = x[list[k]]
  <2> HIDE DEF list, fixed
  <2>1. \A k \in DOMAIN list : values[k] = x[list[k]] /\ x[list[k]] \in Int
    BY <1>1, <1>9, <1>10 DEF DenseVectors
  <2>2. QED
    BY <2>1
<1> HIDE DEF n, list, kept, fixed, free, whole, there, back, again, values, reduced
<1>19. reduced = [i \in 0 .. n - Len(list) - 1 |-> x[kept[i + 1]]]
  BY DEF reduced
<1>20. /\ CreateVec(n - Len(list), 0) \in Vectors /\ CreateVec(n - Len(list), 0).dim = n - Len(list)
       /\ CreateVec(n, 0) \in Vectors /\ CreateVec(n, 0).dim = n
  BY <1>1, <1>3, <1>5
<1>21. ASSUME NEW w, Right(w, n, x)
       PROVE  Right(RemoveEntries(w, CreateVec(n - Len(list), 0), list), n - Len(list), reduced)
  <2> DEFINE target == CreateVec(n - Len(list), 0)
             result == RemoveEntries(w, target, list)
  <2> HIDE DEF result
  <2>1. n \in Nat /\ Complete(list, kept, n) /\ target \in Vectors /\ target.dim = n - Len(list)
    BY <1>1, <1>3, <1>20
  <2>0. Right(w, n, x)
    BY <1>21
  <2> HIDE DEF target
  <2>2. Right(result, n - Len(list), [i \in 0 .. n - Len(list) - 1 |-> x[kept[i + 1]]])
    BY <2>0, <2>1, RemoveIsRight DEF result
  <2> HIDE DEF result
  <2>3. Right(result, n - Len(list), reduced)
    BY <1>19, <2>2
  <2>4. QED
    BY <2>3 DEF result, target
<1>12. Right(there, n - Len(list), reduced)
  <2>1. there = RemoveEntries(whole, CreateVec(n - Len(list), 0), list)
    BY <1>7 DEF there
  <2>2. QED
    BY <1>6, <1>21, <2>1
<1>13. Right(back, n, Inserted(reduced, list, kept, n, values))
  BY <1>1, <1>3, <1>8, <1>11, <1>12, <1>20, MergeIsRight
<1>14. Inserted(reduced, list, kept, n, values) = x
  <2> DEFINE e == Inserted(reduced, list, kept, n, values)
  <2>1. reduced \in DenseVectors(Len(kept))
    BY <1>3, <1>12 DEF Right
  <2>2. /\ e \in DenseVectors(n)
        /\ \A j \in 0 .. Len(kept) - 1 : e[kept[j + 1]] = reduced[j]
        /\ \A k \in DOMAIN list : e[list[k]] = values[k]
    <3>1. n \in Nat /\ Complete(list, kept, n) /\ values \in [DOMAIN list -> Int]
      BY <1>1, <1>3, <1>11
    <3>2. QED
      BY <2>1, <3>1, InsertedValues
  <2> HIDE DEF e
  <2>3. ASSUME NEW i \in 0 .. n - 1 PROVE e[i] = x[i]
    <3>1. CASE Among(list, i)
      BY <1>11, <2>2, <3>1 DEF Among
    <3>2. CASE ~Among(list, i)
      <4>1. PICK k \in DOMAIN kept : kept[k] = i
        BY <1>3, <3>2 DEF Complete, Among
      <4>2. k \in 1 .. Len(kept)
        BY <1>3 DEF Complete, Ascends
      <4>3. k - 1 \in 0 .. Len(kept) - 1 /\ k - 1 + 1 = k
        BY <1>3, <4>2
      <4>4. e[i] = reduced[k - 1]
        BY <2>2, <4>1, <4>3
      <4>5. reduced[k - 1] = x[kept[k - 1 + 1]]
        BY <1>3, <1>19, <4>3
      <4>6. QED
        BY <4>1, <4>3, <4>4, <4>5
    <3>3. QED
      BY <3>1, <3>2
  <2>4. QED
    BY <1>1, <2>2, <2>3 DEF DenseVectors, e
<1>15. Right(again, n - Len(list), reduced)
  <2>1. again = RemoveEntries(back, CreateVec(n - Len(list), 0), list)
    BY <1>7 DEF again
  <2>2. Right(back, n, x)
    BY <1>13, <1>14
  <2>3. QED
    BY <1>21, <2>1, <2>2
<1>16. ValidVec(back) /\ ToRaw(back) = x
  BY <1>1, <1>13, <1>14, RightIsOrdered
<1>17. ToRaw(again) = reduced /\ ToRaw(there) = reduced
  BY <1>3, <1>12, <1>15, RightIsOrdered
<1>18. QED
  BY <1>16, <1>17 DEF again, back, there, whole, n

\* what the solver returned
SolverPoint(p, st, t, it) ==
  \E x \in Points(p) :
    /\ FixedAgree(st, x) /\ FeasibleReduced(p, t, x)
    /\ it.primal = ConvertPrimal(p, st, SetFromRaw(CreateVec(0, 0), x, Cardinality(Vars(p))))

LEMMA PrimalOfIterate ==
  ASSUME NEW p, NEW st, NEW t, NEW x, NEW it \in IteratesAt(p, st, t, x)
  PROVE  it.primal = ConvertPrimal(p, st, SetFromRaw(CreateVec(0, 0), x, Cardinality(Vars(p))))
<1>1. PICK d, grad : it = SolverIterate(p, st, x, d, grad)
  BY DEF IteratesAt
<1>2. QED
  BY <1>1 DEF SolverIterate

PpIInv ==
  /\ problem \in Problems
  /\ Analysed => state = Analyse(problem) /\ transformed = Transform(problem, state)
  /\ stage \in {"solved", "restored"} => SolverPoint(problem, state, transformed, iterate)
  /\ stage = "restored" => restored.primal = RestorePrimal(problem, state, iterate.primal)

\* The inductive invariant of the preprocessor: once the problem was
\* analysed, the state of the analysis, the reduced problem, the point of
\* the solver and what was made of it belong together.
THEOREM PreprocessorInvariance == Spec => []PpIInv
<1>1. Init => PpIInv
  BY DEF Init, PpIInv, Analysed
<1>2. PpIInv /\ [Next]_vars => PpIInv'
  <2> SUFFICES ASSUME PpIInv, [Next]_vars PROVE PpIInv'
    OBVIOUS
  <2>1. CASE Create
    <3>1. /\ state' = Analyse(problem) /\ transformed' = Transform(problem, state')
          /\ stage' \in {"aborted", "error", "created"} /\ problem' = problem
      BY <2>1 DEF Create
    <3>2. QED
      BY <3>1 DEF PpIInv, Analysed
  <2>2. CASE Solve
    <3>1. stage = "created" /\ stage' = "solved" /\ UNCHANGED <<problem, state, transformed, restored>>
      BY <2>2 DEF Solve
    <3>2. PICK x \in Points(problem) :
            /\ FixedAgree(state, x) /\ FeasibleReduced(problem, transformed, x)
            /\ iterate' \in IteratesAt(problem, state, transformed, x)
      BY <2>2 DEF Solve
    <3>3. iterate'.primal = ConvertPrimal(problem, state, SetFromRaw(CreateVec(0, 0), x, Cardinality(Vars(problem))))
      BY <3>2, PrimalOfIterate
    <3>4. SolverPoint(problem, state, transformed, iterate')
      BY <3>2, <3>3 DEF SolverPoint
    <3>5. QED
      BY <3>1, <3>4 DEF PpIInv, Analysed
  <2>3. CASE Restore
    <3>1. stage = "solved" /\ stage' \in {"restored", "aborted"} /\ UNCHANGED <<problem, state, transformed, iterate>>
      BY <2>3 DEF Restore
    <3>2. restored'.primal = RestorePrimal(problem, state, iterate.primal)
      BY <2>3 DEF Restore
    <3>3. QED
      BY <3>1, <3>2 DEF PpIInv, Analysed
  <2>4. CASE UNCHANGED vars
    BY <2>4 DEF vars, PpIInv, Analysed
  <2>5. QED
    BY <2>1, <2>2, <2>3, <2>4 DEF Next
<1>3. QED
  BY <1>1, <1>2, PTL DEF Spec

LEMMA BooksBalance ==
  ASSUME PpIInv
  PROVE  ReductionConsistent
<1>1. Analysed => problem \in Problems /\ Counted(problem, state) /\ transformed = Transform(problem, state)
  BY AnalysisCounts DEF PpIInv
<1>2. CountsMatch
  BY <1>1 DEF CountsMatch, Counted
<1>3. RemovalsRecorded
  BY <1>1 DEF RemovalsRecorded, Counted, Recorded
<1>4. MapsAgree
  <2> SUFFICES ASSUME Analysed
               PROVE  /\ \A k \in DOMAIN transformed.varMap :
                           transformed.varMap[k] - NumBefore(FixedVars(state), transformed.varMap[k]) = k - 1
                      /\ \A k \in DOMAIN transformed.consMap :
                           transformed.consMap[k] - NumBefore(RemovedRows(state), transformed.consMap[k]) = k - 1
    BY DEF MapsAgree
  <2> DEFINE n == Cardinality(Vars(problem))
             m == Cardinality(Rows(problem))
  <2>1. /\ n \in Nat /\ Vars(problem) = 0 .. n - 1
        /\ m \in Nat /\ Rows(problem) = 0 .. m - 1
    BY <1>1, FinitelyMany
  <2>2. FixedVars(state) \in SUBSET (0 .. n - 1) /\ RemovedRows(state) \in SUBSET (0 .. m - 1)
    BY <1>1, <2>1 DEF FixedVars, RemovedRows, Counted
  <2>3. /\ transformed.varMap = Ascending((0 .. n - 1) \ FixedVars(state), n)
        /\ transformed.consMap = Ascending((0 .. m - 1) \ RemovedRows(state), m)
    <3>1. /\ transformed.varMap = Ascending(Vars(problem) \ FixedVars(state), n)
          /\ transformed.consMap = Ascending(Rows(problem) \ RemovedRows(state), m)
      BY <1>1 DEF Transform
    <3>2. QED
      BY <2>1, <3>1
  <2> HIDE DEF n, m
  <2>4. QED
    BY <2>1, <2>2, <2>3, KeptMovesDown
<1>5. PointRestored
  <2> SUFFICES ASSUME stage = "restored"
               PROVE  LET x == ToRaw(restored.primal) IN
                      /\ ValidVec(restored.primal)
                      /\ FixedAgree(state, x) /\ FeasibleReduced(problem, transformed, x)
                      /\ \A j \in FixedVars(state) : x[j] \in {problem.varLb[j], problem.varUb[j]}
                      /\ ToRaw(ConvertPrimal(problem, state, restored.primal)) = ToRaw(iterate.primal)
    BY DEF PointRestored
  <2>1. problem \in Problems /\ Counted(problem, state)
    BY <1>1 DEF Analysed
  <2>2. PICK x \in Points(problem) :
          /\ FixedAgree(state, x) /\ FeasibleReduced(problem, transformed, x)
          /\ iterate.primal = ConvertPrimal(problem, state, SetFromRaw(CreateVec(0, 0), x, Cardinality(Vars(problem))))
    BY DEF PpIInv, SolverPoint
  <2>3. x \in [Vars(problem) -> Int]
    BY GridAssumption DEF Points
  <2>4. restored.primal = RestorePrimal(problem, state, iterate.primal)
    BY DEF PpIInv
  <2>5. /\ ValidVec(restored.primal) /\ ToRaw(restored.primal) = x
        /\ ToRaw(ConvertPrimal(problem, state, restored.primal)) = ToRaw(iterate.primal)
    BY <2>1, <2>2, <2>3, <2>4, ThereAndBack
  <2>6. \A j \in FixedVars(state) : x[j] \in {problem.varLb[j], problem.varUb[j]}
    BY <2>1, <2>2 DEF Counted, FixedAtBounds, FixedAgree
  <2>7. QED
    BY <2>2, <2>5, <2>6
<1>6. QED
  BY <1>2, <1>3, <1>4, <1>5 DEF ReductionConsistent

\* For any problems: the counters of fixed variables and removed rows are
\* the numbers of what is marked, each removed row is recorded once, states
\* and multipliers are restored to the same variables and rows, and the
\* primal values survive the way to the reduced problem and back.
THEOREM ReductionConsistentHolds == Spec => []ReductionConsistent
<1>1. PpIInv => ReductionConsistent
  BY BooksBalance
<1>2. QED
  BY <1>1, PreprocessorInvariance, PTL
=============================================================================
