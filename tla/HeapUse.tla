-------------------------------- MODULE HeapUse --------------------------------
(***************************************************************************)
(* The heap of TimerMinHeap.tla under the discipline its callers are meant *)
(* to keep: one call at a time (pTimerSemaphore held), a timer is added    *)
(* when it is not pending (schedule, restart, changeFiringTime set its     *)
(* firing time and call addToHeap), and removed when it is: TimerTask::run *)
(* removes the top, stop, restart and ~Timer any timer.                    *)
(***************************************************************************)
EXTENDS SerialHeap

CONSTANTS Whens   \* the firing times given to timers

ASSUME WhensAssumption == Whens \subseteq Nat /\ Whens # {}
ASSUME TimersAssumption == TimersFit

VARIABLE asked  \* history: the kind of the last call, and the order before it

vars == <<heap, n, whenToFire, op, asked>>

\* A timer that is being added is not yet pending.
Members == IF op.pc \in {"up", "incLoad"} THEN Contents \ {op.timer} ELSE Contents

Ordered == \A i \in Used \ {0} : When(Parent(i)) <= When(i)

-----------------------------------------------------------------------------
Init ==
  /\ HeapInit
  /\ whenToFire \in [Timers -> Whens]
  /\ asked = [kind |-> "none", ordered |-> TRUE]

Ask(kind) == asked' = [kind |-> kind, ordered |-> Ordered]

Add(t, w) ==
  /\ op.pc = "idle" /\ t \notin Members
  /\ whenToFire' = [whenToFire EXCEPT ![t] = w]
  /\ AddToHeap(t)
  /\ Ask("add")

RemoveTop ==
  /\ op.pc = "idle" /\ n # 0
  /\ RemoveFromHeap(Top)
  /\ Ask("top")
  /\ UNCHANGED whenToFire

RemoveAny(t) ==
  /\ op.pc = "idle" /\ t \in Members
  /\ RemoveFromHeap(t)
  /\ Ask("any")
  /\ UNCHANGED whenToFire

Continue == HeapStep /\ UNCHANGED <<whenToFire, asked>>

Next ==
  \/ \E t \in Timers, w \in Whens : Add(t, w)
  \/ RemoveTop
  \/ \E t \in Timers : RemoveAny(t)
  \/ Continue

Spec == Init /\ [][Next]_vars

-----------------------------------------------------------------------------
Questions == [kind : {"none", "add", "top", "any"}, ordered : BOOLEAN]

\* Type invariant of the heap and of the call in flight; no call runs off
\* the array or through a NULL pointer (TimerMinHeap.cpp:43-219).
TypeOK ==
  /\ SerialType
  /\ whenToFire \in [Timers -> Whens]
  /\ asked \in Questions

\* A removal of a pending timer takes it out of the heap, wherever the sifts and
\* the earlier removals have put it, unless it is in the last slot of four timers or
\* more (TimerMinHeap.cpp:105-148); there RemovalRemoves fails.
InnerRemovalRemoves ==
  op.pc = "idle" /\ asked.kind \in {"top", "any"} =>
    \/ op.timer \notin Members
    \/ n >= 4 /\ heap[n - 1] = op.timer

\* upHeapify restores the order: after an addition to an ordered heap every
\* parent is due no later than its children (TimerMinHeap.cpp:58-78).
AdditionKeepsOrder ==
  op.pc = "idle" /\ asked.kind = "add" /\ asked.ordered => Ordered

\* Removing the top of an ordered heap leaves it ordered when an odd number
\* of timers remains, so that every slot with a left child has a right one
\* (TimerMinHeap.cpp:184-216).
TopRemovalKeepsOrder ==
  op.pc = "idle" /\ asked.kind = "top" /\ asked.ordered /\ n % 2 = 1 => Ordered

\* Claimed of the heap, and not so: the pending timers form a min-heap
\* between calls (README.md:10, "min-heap based timer management").
AlwaysOrdered == op.pc = "idle" => Ordered

\* Claimed of restart() and stop(), and not so: a removal of a pending timer takes
\* it out of the heap (Timer.h:41, "Removes the timer from heap", and Timer.h:43).
RemovalRemoves ==
  op.pc = "idle" /\ asked.kind \in {"top", "any"} => op.timer \notin Members

-----------------------------------------------------------------------------
(***************************************************************************)
(* The inductive strengthening of the invariants above: SerialInv, and that *)
(* the call in flight is the one that was asked for.                       *)
(***************************************************************************)
AskedInv ==
  /\ Adding => asked.kind = "add"
  /\ Removing => asked.kind \in {"top", "any"}
  /\ op.pc = "idle" /\ asked.kind \in {"top", "any"}
       => \/ op.result = "OK" /\ op.timer \notin Members
          \/ op.result = "ERROR" /\ n >= 4 /\ heap[n - 1] = op.timer

HeapInv == TypeOK /\ SerialInv /\ AskedInv

\* While the new timer rises, only the slot it is in may be out of order, and
\* its parent is due no later than its children.
RisingInv ==
  /\ op.pc = "up" /\ asked.ordered
       => \A i \in 1 .. n :
            /\ i # op.index => When(Parent(i)) <= When(i)
            /\ Parent(i) = op.index => When(Parent(op.index)) <= When(i)
  /\ op.pc \in {"incLoad", "incStore"} /\ asked.ordered => Ordered

\* While the timer put at the top sinks, only its own children may be due
\* before it, and they are due no earlier than its parent.
SinkingInv ==
  asked.kind = "top" /\ asked.ordered =>
    /\ op.pc = "search" => Ordered /\ op.index = 0 /\ op.timer = Top
    /\ Unlinked => op.index = 0
    /\ Unlinked \/ op.pc = "down"
         => \A i \in Used \ {0} :
              IF Parent(i) # op.index THEN When(Parent(i)) <= When(i)
              ELSE op.index # 0 => When(Parent(op.index)) <= When(i)

-----------------------------------------------------------------------------
\* The call in flight as the abstract set sees it, and whether it has taken
\* effect: an addition with the load of the counter, a removal when found.
Calling == IF op.pc \in {"idle", "fault"} THEN "none"
           ELSE IF Adding THEN "add" ELSE "remove"

Effective == op.pc = "incStore" \/ Unlinked \/ op.pc = "down"

Set == INSTANCE TimerSet WITH
  NoTimer <- NULL, members <- Members, calling <- Calling, on <- op.timer,
  done <- Effective, answer <- op.result

\* The array, its counter and their sifts implement the set of TimerSet.tla:
\* each call moves its own timer and no other, once, and says so.
ImplementsSet == Set!Spec

=============================================================================
