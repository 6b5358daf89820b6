------------------------------ MODULE Callbacks ------------------------------
(***************************************************************************)
(* The callback handlers (callback_handler.c) of a solver event and their  *)
(* dispatch (SLEQP_CALLBACK_EVENT, SLEQP_CALLBACK_HANDLER_EXECUTE).  The   *)
(* dispatch reads the number of callbacks once and then their slots one by *)
(* one, while a callback may add and remove callbacks of the same event.   *)
(*                                                                         *)
(* A slot holds the registered pair (callback, data) as a key, together    *)
(* with the serial number of its registration, which the program does not  *)
(* see: two registrations may have equal keys.                             *)
(***************************************************************************)
EXTENDS Integers, Sequences, FiniteSets

CONSTANTS
  CbKeys,       \* pairs of a callback and its data
  CbMaxAdds,    \* bound on registrations
  CbMaxChanges  \* bound on removals, and on dispatches

VARIABLES
  cbSlots,     \* the array of callbacks: slots 0 .. capacity - 1
  cbSize,      \* the number of callbacks
  cbNext,      \* registrations so far
  cbRemovals,  \* removals so far
  cbRuns,      \* dispatches so far
  cbRun,       \* the dispatch: "none", "next", "inside", "done" or "failed"
  cbPos,       \* position and size the dispatch holds
  cbTotal,
  cbCalled,    \* registrations in the order the dispatch called them
  cbThroughout,\* registered since the dispatch began, and not removed
  cbLog        \* changes during the dispatch: "add", "remove"

cbVars == <<cbSlots, cbSize, cbNext, cbRemovals, cbRuns, cbRun, cbPos, cbTotal,
            cbCalled, cbThroughout, cbLog>>

CbNull == [key |-> "null", serial |-> 0]

Capacity == Cardinality(DOMAIN cbSlots)
Registered == {cbSlots[i] : i \in 0 .. cbSize - 1}

CbInit ==
  /\ cbSlots = [i \in {} |-> CbNull] /\ cbSize = 0
  /\ cbNext = 0 /\ cbRemovals = 0 /\ cbRuns = 0
  /\ cbRun = "none" /\ cbPos = 0 /\ cbTotal = 0
  /\ cbCalled = <<>> /\ cbThroughout = {} /\ cbLog = <<>>

Dispatching == cbRun \in {"next", "inside"}
\* The program adds and removes callbacks between solves, or within a call.
ProgramRuns == cbRun # "next"

Logged(what) == cbLog' = IF cbRun = "inside" THEN Append(cbLog, what) ELSE cbLog
-----------------------------------------------------------------------------
\* callback_handler_reserve: the capacity doubles when the array is full.
Reserved ==
  IF cbSize < Capacity THEN cbSlots
  ELSE [i \in 0 .. (IF Capacity = 0 THEN 1 ELSE 2 * Capacity) - 1 |->
          IF i \in DOMAIN cbSlots THEN cbSlots[i] ELSE CbNull]

CbAdd ==
  /\ ProgramRuns /\ cbNext < CbMaxAdds
  /\ \E key \in CbKeys :
       cbSlots' = [Reserved EXCEPT ![cbSize] = [key |-> key, serial |-> cbNext + 1]]
  /\ cbSize' = cbSize + 1
  /\ cbNext' = cbNext + 1
  /\ Logged("add")
  /\ UNCHANGED <<cbRemovals, cbRuns, cbRun, cbPos, cbTotal, cbCalled, cbThroughout>>

\* Mutant: the freed slot does not take the last callback
RemovedAtUnmoved(pos) == [cbSlots EXCEPT ![cbSize - 1] = CbNull]

\* The freed slot takes the last callback, whose slot is zeroed.
RemovedAt(pos) ==
  LET last == cbSize - 1
      moved == IF pos # last THEN [cbSlots EXCEPT ![pos] = cbSlots[last]] ELSE cbSlots
  IN [moved EXCEPT ![last] = CbNull]

CbRemove ==
  /\ ProgramRuns /\ cbRemovals < CbMaxChanges
  /\ \E pos \in 0 .. cbSize - 1 :
       /\ \A i \in 0 .. pos - 1 : cbSlots[i].key # cbSlots[pos].key
       /\ cbSlots' = RemovedAt(pos)
       /\ cbThroughout' = cbThroughout \ {cbSlots[pos]}
  /\ cbSize' = cbSize - 1
  /\ cbRemovals' = cbRemovals + 1
  /\ Logged("remove")
  /\ UNCHANGED <<cbNext, cbRuns, cbRun, cbPos, cbTotal, cbCalled>>

\* Removing a callback that is not registered raises an error and changes
\* nothing; within a dispatch the callback may pass it on.
CbRemoveMissing ==
  /\ cbRun = "inside"
  /\ \E key \in CbKeys : \A i \in 0 .. cbSize - 1 : cbSlots[i].key # key
  /\ cbRun' = "failed"
  /\ UNCHANGED <<cbSlots, cbSize, cbNext, cbRemovals, cbRuns, cbPos, cbTotal,
                 cbCalled, cbThroughout, cbLog>>
-----------------------------------------------------------------------------
\* Accepted iterates and performed iterations run the callbacks of the event.
CbDispatch ==
  /\ ~Dispatching /\ cbRuns < CbMaxChanges
  /\ cbRun' = "next" /\ cbPos' = 0 /\ cbTotal' = cbSize
  /\ cbRuns' = cbRuns + 1
  /\ cbCalled' = <<>> /\ cbThroughout' = Registered /\ cbLog' = <<>>
  /\ UNCHANGED <<cbSlots, cbSize, cbNext, cbRemovals>>

\* The next position: its callback is called; a position that has been
\* vacated is an illegal argument, and the solve ends with the error.
CbCall ==
  /\ cbRun = "next" /\ cbPos < cbTotal
  /\ \/ /\ cbPos < cbSize
        /\ cbRun' = "inside"
        /\ cbCalled' = Append(cbCalled, cbSlots[cbPos])
     \/ /\ cbPos >= cbSize
        /\ cbRun' = "failed"
        /\ UNCHANGED cbCalled
  /\ UNCHANGED <<cbSlots, cbSize, cbNext, cbRemovals, cbRuns, cbPos, cbTotal,
                 cbThroughout, cbLog>>

\* A callback returns; an error of its own ends the solve.
CbReturn ==
  /\ cbRun = "inside"
  /\ \/ cbRun' = "next" /\ cbPos' = cbPos + 1
     \/ cbRun' = "failed" /\ UNCHANGED cbPos
  /\ UNCHANGED <<cbSlots, cbSize, cbNext, cbRemovals, cbRuns, cbTotal, cbCalled,
                 cbThroughout, cbLog>>

CbFinish ==
  /\ cbRun = "next" /\ cbPos = cbTotal
  /\ cbRun' = "done"
  /\ UNCHANGED <<cbSlots, cbSize, cbNext, cbRemovals, cbRuns, cbPos, cbTotal, cbCalled,
                 cbThroughout, cbLog>>

CbNextStep == CbAdd \/ CbRemove \/ CbRemoveMissing \/ CbDispatch \/ CbCall \/ CbReturn \/ CbFinish

CbSpec == CbInit /\ [][CbNextStep]_cbVars
-----------------------------------------------------------------------------
(* Properties                                                              *)

TimesCalled(r) == Cardinality({k \in DOMAIN cbCalled : cbCalled[k] = r})

RefilledAfterRemoval ==
  \E k, l \in DOMAIN cbLog : k < l /\ cbLog[k] = "remove" /\ cbLog[l] = "add"

\* Whatever callbacks add and remove, a dispatch calls no callback twice that
\* stays registered; and when it ends without an error it has called
\* everyone who was registered all along, unless a removal was followed by
\* an addition, which hides the vacated slot.
CallbacksCalled ==
  /\ \A r \in cbThroughout : TimesCalled(r) <= 1
  /\ cbRun = "done" /\ ~RefilledAfterRemoval
       => \A r \in cbThroughout : TimesCalled(r) = 1
  /\ \A i \in DOMAIN cbSlots : (cbSlots[i] = CbNull) <=> i >= cbSize
  /\ Cardinality(Registered) = cbSize /\ cbThroughout \subseteq Registered
=============================================================================
