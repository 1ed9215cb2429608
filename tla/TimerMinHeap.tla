----------------------------- MODULE TimerMinHeap -----------------------------
(***************************************************************************)
(* The array min-heap of pending timers (platform/TimerMinHeap.cpp), kept  *)
(* in shared memory: an array of timer pointers followed by a counter.     *)
(* Neither is locked here: the callers hold pTimerSemaphore, or do not.    *)
(* The module gives the steps of ONE call in flight, held in op; a module  *)
(* that has several callers instantiates it once per caller with its own   *)
(* op over the same heap, n and whenToFire.                                *)
(*                                                                         *)
(* Grain: one step per loop iteration or level of recursion, and two steps *)
(* for each update of the counter (a load and a store).                    *)
(*                                                                         *)
(* An operator named Slip... is a bug somebody could write in the operator *)
(* below it; no specification uses it.  The properties are shown to catch  *)
(* the slips.                                                              *)
(***************************************************************************)
EXTENDS Integers

CONSTANTS
  Timers,   \* the Timer objects: slots of the timer pool
  NULL,     \* the pointer found in a heap slot that was never written
  Cap,      \* MAX_NUMBER_OF_TIMERS, the length of the array
  Modulus   \* 2^32: the counter and the indices are UINT32

ASSUME CapAssumption == Cap \in Nat \ {0}
ASSUME ModulusAssumption == Modulus \in Nat /\ Modulus > Cap
ASSUME NullAssumption == NULL \notin Timers

VARIABLES
  heap,        \* TimerTaskShared::heap
  n,           \* TimerTaskShared::numberOfTimersBeingManaged
  whenToFire,  \* Timer::whenToFire of every timer
  op           \* the locals of the call in flight

Slots == 0 .. Cap - 1

Steps == {"idle", "up", "incLoad", "incStore", "search", "decLoad", "decStore",
          "down", "fault"}

(***************************************************************************)
(* pc: the next step; timer: pTimer; index: index or parent; count: the    *)
(* counter between its load and its store; result: the last Result.        *)
(***************************************************************************)
Ops == [pc : Steps, timer : Timers \cup {NULL}, index : 0 .. Modulus - 1,
        count : 0 .. Modulus - 1, result : {"OK", "ERROR"}]

NoOp == [pc |-> "idle", timer |-> NULL, index |-> 0, count |-> 0,
         result |-> "OK"]

Parent(i) == (i - 1) \div 2
Left(i)   == 2 * i + 1
Right(i)  == 2 * i + 2

Top  == heap[0]
Last == (n - 1) % Modulus

(***************************************************************************)
(* The process reads or writes outside the array, or reads the firing time *)
(* through a NULL pointer: it does not go on.                              *)
(***************************************************************************)
Fault == op' = [op EXCEPT !.pc = "fault"] /\ UNCHANGED <<heap, n>>

Readable(i) == i \in Slots /\ heap[i] # NULL

When(i) == whenToFire[heap[i]]

Return(r) == op' = [op EXCEPT !.pc = "idle", !.index = 0, !.count = 0,
                              !.result = r]

SlipSwap(i, j) == heap' = [heap EXCEPT ![i] = heap[j]]
Swap(i, j) == heap' = [heap EXCEPT ![i] = heap[j], ![j] = heap[i]]

-----------------------------------------------------------------------------
(* upHeapify: the new timer is written behind the last one and sifted up;  *)
(* only then is the counter increased.                                     *)

AddToHeap(t) ==
  /\ op.pc = "idle"
  /\ \/ /\ n \in Slots
        /\ heap' = [heap EXCEPT ![n] = t]
        /\ op' = [op EXCEPT !.pc = IF n = 0 THEN "incLoad" ELSE "up",
                            !.timer = t, !.index = n]
        /\ UNCHANGED n
     \/ n \notin Slots /\ Fault

\* Stops one level up.
SlipUpHeapify ==
  LET i == op.index
      p == Parent(op.index)
  IN /\ op.pc = "up" /\ Readable(i) /\ Readable(p)
     /\ IF When(p) < When(i) THEN UNCHANGED heap ELSE Swap(i, p)
     /\ op' = [op EXCEPT !.pc = "incLoad"]
     /\ UNCHANGED n

UpHeapify ==
  /\ op.pc = "up"
  /\ LET i == op.index
         p == Parent(op.index)
     IN \/ ~(Readable(i) /\ Readable(p)) /\ Fault
        \/ /\ Readable(i) /\ Readable(p)
           /\ When(p) < When(i)
           /\ op' = [op EXCEPT !.pc = "incLoad"]
           /\ UNCHANGED <<heap, n>>
        \/ /\ Readable(i) /\ Readable(p)
           /\ ~(When(p) < When(i))
           /\ Swap(i, p)
           /\ op' = [op EXCEPT !.pc = IF p = 0 THEN "incLoad" ELSE "up",
                               !.index = p]
           /\ UNCHANGED n

IncLoad ==
  /\ op.pc = "incLoad"
  /\ op' = [op EXCEPT !.pc = "incStore", !.count = n]
  /\ UNCHANGED <<heap, n>>

IncStore ==
  /\ op.pc = "incStore"
  /\ n' = (op.count + 1) % Modulus
  /\ Return("OK")
  /\ UNCHANGED heap

-----------------------------------------------------------------------------
(* removeSpecificFromIndex: a search from slot 0 that looks at a slot and  *)
(* its two children and otherwise moves to the next slot.  The slot itself *)
(* is compared whether or not it is below the counter.                     *)

RemoveFromHeap(t) ==
  /\ op.pc = "idle"
  /\ op' = [op EXCEPT !.pc = "search", !.timer = t, !.index = 0]
  /\ UNCHANGED <<heap, n>>

\* Compares the children without a look at the counter, or not at all.
SlipChildren(p)   == {p, Left(p), Right(p)}
SlipNoChildren(p) == {p}

\* The slots one level of the recursion compares with pTimer.
Compared(p) == {p} \cup {c \in {Left(p), Right(p)} : c < Last}

Matches(p) == {i \in Compared(p) : heap[i] = op.timer}

\* Clears the slot instead of filling it with the last timer.
SlipSearchFound(p) ==
  LET q == CHOOSE i \in Matches(p) : \A j \in Matches(p) : i <= j
  IN /\ heap' = [heap EXCEPT ![q] = NULL]
     /\ op' = [op EXCEPT !.pc = "decLoad", !.index = q]
     /\ UNCHANGED n

SearchFound(p) ==
  LET q == CHOOSE i \in Matches(p) : \A j \in Matches(p) : i <= j
  IN \/ /\ Last \in Slots
        /\ heap' = [heap EXCEPT ![q] = heap[Last]]
        /\ op' = [op EXCEPT !.pc = "decLoad", !.index = q]
        /\ UNCHANGED n
     \/ Last \notin Slots /\ Fault

Search ==
  /\ op.pc = "search"
  /\ LET p == op.index
     IN \/ ~(Compared(p) \subseteq Slots) /\ Fault
        \/ Compared(p) \subseteq Slots /\ Matches(p) # {} /\ SearchFound(p)
        \/ /\ Compared(p) \subseteq Slots /\ Matches(p) = {}
           /\ Left(p) > n
           /\ Return("ERROR")
           /\ UNCHANGED <<heap, n>>
        \/ /\ Compared(p) \subseteq Slots /\ Matches(p) = {}
           /\ ~(Left(p) > n)
           /\ op' = [op EXCEPT !.index = p + 1]
           /\ UNCHANGED <<heap, n>>

DecLoad ==
  /\ op.pc = "decLoad"
  /\ op' = [op EXCEPT !.pc = "decStore", !.count = n]
  /\ UNCHANGED <<heap, n>>

\* The removed timer stays counted.
SlipDecStore ==
  /\ op.pc = "decStore"
  /\ n' = op.count
  /\ op' = [op EXCEPT !.pc = "down"]
  /\ UNCHANGED heap

DecStore ==
  /\ op.pc = "decStore"
  /\ n' = (op.count - 1) % Modulus
  /\ op' = [op EXCEPT !.pc = "down"]
  /\ UNCHANGED heap

(***************************************************************************)
(* One iteration of downHeapifyFromIndex.  It returns unless BOTH children *)
(* are below the counter, and it reads the right child's time even when    *)
(* that child is the slot just behind the last one.                        *)
(***************************************************************************)
DownReads(p) == {p} \cup {c \in {Left(p)} : c < n} \cup {c \in {Right(p)} : c <= n}

SlipSmallerChild(p) == Left(p)
SmallerChild(p) == IF When(Left(p)) < When(Right(p)) THEN Left(p) ELSE Right(p)

DownHeapify ==
  /\ op.pc = "down"
  /\ LET p == op.index
     IN \/ (\E i \in DownReads(p) : ~Readable(i)) /\ Fault
        \/ /\ \A i \in DownReads(p) : Readable(i)
           /\ Right(p) >= n
           /\ Return("OK")
           /\ UNCHANGED <<heap, n>>
        \/ /\ \A i \in DownReads(p) : Readable(i)
           /\ Right(p) < n
           /\ ~(When(SmallerChild(p)) < When(p))
           /\ Return("OK")
           /\ UNCHANGED <<heap, n>>
        \/ /\ \A i \in DownReads(p) : Readable(i)
           /\ Right(p) < n
           /\ When(SmallerChild(p)) < When(p)
           /\ Swap(p, SmallerChild(p))
           /\ op' = [op EXCEPT !.index = SmallerChild(p)]
           /\ UNCHANGED n

-----------------------------------------------------------------------------
HeapInit ==
  /\ heap = [i \in Slots |-> NULL]
  /\ n = 0
  /\ op = NoOp

\* A further step of the call in flight.
HeapStep ==
  \/ UpHeapify \/ IncLoad \/ IncStore
  \/ Search \/ DecLoad \/ DecStore \/ DownHeapify

Working == op.pc \notin {"idle", "fault"}

=============================================================================
