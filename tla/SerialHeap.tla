------------------------------- MODULE SerialHeap -------------------------------
(***************************************************************************)
(* What the array of TimerMinHeap.tla holds between the steps of ONE call, *)
(* as long as no other call is in the heap and each call is in place: an   *)
(* addition of a timer that is not there, a removal of one that is.        *)
(***************************************************************************)
EXTENDS TimerMinHeap, FiniteSets

Adding   == op.pc \in {"up", "incLoad", "incStore"}
Unlinked == op.pc \in {"decLoad", "decStore"}   \* found, not yet uncounted
Removing == op.pc = "search" \/ Unlinked \/ op.pc = "down"

(***************************************************************************)
(* The slots that hold pending timers: an addition writes slot n before it *)
(* counts it, a removal empties the last slot before it uncounts it.       *)
(***************************************************************************)
Size == IF Adding THEN n + 1 ELSE IF Unlinked THEN n - 1 ELSE n

Used == 0 .. Size - 1

Contents == {heap[i] : i \in Used}

\* The array has a slot for every timer.
TimersFit == IsFiniteSet(Timers) /\ Cardinality(Timers) <= Cap

\* The calls in flight that did not fault.
Calls == [pc : Steps \ {"fault"}, timer : Timers \cup {NULL}, index : Slots,
          count : 0 .. Cap, result : {"OK", "ERROR"}]

SerialType ==
  /\ heap \in [Slots -> Timers \cup {NULL}]
  /\ n \in 0 .. Cap
  /\ op \in Calls

\* The used slots hold pairwise different timers, whatever was added, moved
\* by a sift or removed before: no swap and no removal of
\* TimerMinHeap.cpp:43-219 loses a timer or enters one twice.
NoTimerTwice ==
  /\ Contents \subseteq Timers
  /\ \A i, j \in Used : heap[i] = heap[j] => i = j

(***************************************************************************)
(* Where the call in flight stands, and what it has already established.   *)
(***************************************************************************)
AddingInv ==
  /\ Adding => n < Cap /\ op.timer \in Contents
  /\ op.pc = "up" => op.index \in 1 .. n /\ heap[op.index] = op.timer
  /\ op.pc = "incStore" => op.count = n

RemovingInv ==
  /\ Removing => op.timer \in Timers
  /\ op.pc = "search"
       => /\ op.index < n /\ 2 * op.index <= n + 1
          /\ op.timer \in Contents
          /\ \A p \in 0 .. op.index - 1 : Matches(p) = {}
  /\ Unlinked
       => /\ op.index < n
          /\ heap[n - 1] \in Contents \cup {op.timer}
          /\ op.timer \notin Contents
  /\ op.pc = "decStore" => op.count = n
  /\ op.pc = "down"
       => /\ op.index <= n /\ n < Cap
          /\ heap[n] \in Timers
          /\ op.timer \notin Contents

SerialInv == SerialType /\ NoTimerTwice /\ AddingInv /\ RemovingInv

=============================================================================
