--------------------------- MODULE SharedHeap_proofs ---------------------------
(***************************************************************************)
(* Proofs about TimerMinHeap.tla when two calls are in flight over the     *)
(* same heap and nothing keeps them apart, except that they are not both   *)
(* additions: op is the call that takes a step, other the one that waits.  *)
(* Each step of either keeps SharedInv, whatever was lost between a load   *)
(* of the counter and its store, a count below zero included.              *)
(***************************************************************************)
EXTENDS SerialHeap_proofs

VARIABLE other   \* the call of another process

Adds(o)  == o.pc \in {"up", "incLoad", "incStore"}
Leaves(o) == o.pc \in {"decLoad", "decStore"}

\* The slots below k have been written.
Written(k) == \A i \in Slots : i < k => heap[i] # NULL

\* Counting below zero: two removals of a single timer.
MinusOne == Modulus - 1
MinusTwo == Modulus - 2

(***************************************************************************)
(* What holds between call x and the heap while call y is in flight too.   *)
(***************************************************************************)
AddsInv(x, y) ==
  /\ heap[0] # NULL
  /\ \/ n \in Slots /\ Written(n + 1)
     \/ n = MinusOne /\ ~Leaves(y)
  /\ x.pc = "incStore" =>
       \/ x.count \in Slots /\ Written(x.count + 1)
       \/ x.count = MinusOne /\ n = MinusOne

LeavesInv(x, y) ==
  /\ heap[0] # NULL
  /\ x.pc = "decLoad" => \/ n \in 1 .. Cap
                         \/ n \in {0, MinusOne} /\ ~Leaves(y)
  /\ x.pc = "decStore" => \/ x.count \in 0 .. Cap /\ Written(x.count)
                          \/ x.count = MinusOne /\ n = MinusOne /\ ~Leaves(y)

CallInv(x, y) ==
  /\ Adds(x) => AddsInv(x, y)
  /\ Leaves(x) => LeavesInv(x, y)

SharedType ==
  /\ heap \in [Slots -> Timers \cup {NULL}]
  /\ n \in 0 .. Cap \cup {MinusOne, MinusTwo}
  /\ op \in Ops /\ other \in Ops

SharedInv ==
  /\ SharedType
  /\ n <= Cap => Written(n)
  /\ n # 0 => heap[0] # NULL
  /\ CallInv(op, other) /\ CallInv(other, op)
  /\ ~(Adds(op) /\ Adds(other))

\* Far more numbers than slots: -1 and -2 are not slots, nor is what precedes.
Wide == Modulus > Cap + 2

-----------------------------------------------------------------------------
LEMMA Numbers ==
  ASSUME Wide
  PROVE  /\ MinusTwo \in Nat /\ MinusOne = MinusTwo + 1 /\ MinusTwo > Cap
         /\ (0 - 1) % Modulus = MinusOne
         /\ (MinusOne - 1) % Modulus = MinusTwo
         /\ (MinusOne + 1) % Modulus = 0
         /\ \A k \in 0 .. Cap : k % Modulus = k
         /\ 0 \in Slots
BY CapAssumption, ModulusAssumption DEF Wide, MinusOne, MinusTwo, Slots

LEMMA Indices == 0 \in 0 .. Modulus - 1 /\ \A i \in Slots : i \in 0 .. Modulus - 1
BY CapAssumption, ModulusAssumption DEF Slots

\* The slot before the last one is in the array only if the heap holds timers.
LEMMA LastInSlots ==
  ASSUME Wide, SharedType, Last \in Slots
  PROVE  n \in 1 .. Cap /\ Last = n - 1
BY CapAssumption, ModulusAssumption
DEF Wide, SharedType, Last, Slots, MinusOne, MinusTwo

(***************************************************************************)
(* A step that leaves the counter alone, takes no timer out of a slot and  *)
(* does not bring the call nearer to an update of the counter.             *)
(***************************************************************************)
LEMMA QuietKeeps ==
  ASSUME Wide, SharedInv, n' = n, other' = other, op' \in Ops,
         heap' \in [Slots -> Timers \cup {NULL}],
         \A i \in Slots : heap[i] # NULL => heap'[i] # NULL,
         ~Leaves(op'),
         Adds(op') => Adds(op) /\ op'.pc # "incStore"
  PROVE  SharedInv'
<1>1. SharedType'
  BY DEF SharedInv, SharedType, MinusOne, MinusTwo
<1>2. \A k : Written(k) => Written(k)'
  BY DEF Written
<1>3. 0 \in Slots
  BY Numbers
<1>4. CallInv(op, other)'
  BY <1>2, <1>3 DEF SharedInv, CallInv, AddsInv, MinusOne, Adds, Leaves
<1>5. CallInv(other, op)'
  BY <1>2, <1>3 DEF SharedInv, CallInv, AddsInv, LeavesInv, MinusOne, Adds, Leaves
<1> QED
  BY <1>1, <1>2, <1>3, <1>4, <1>5 DEF SharedInv, Adds

LEMMA FaultKeeps ==
  ASSUME Wide, SharedInv, other' = other, Fault
  PROVE  SharedInv'
<1>1. op' \in Ops /\ op'.pc = "fault" /\ heap' = heap /\ n' = n
  BY DEF SharedInv, SharedType, Ops, Steps, Fault
<1> QED
  BY <1>1, QuietKeeps DEF SharedInv, SharedType, Adds, Leaves

-----------------------------------------------------------------------------
(* The starts of the calls.                                                *)

LEMMA AddToHeapKeeps ==
  ASSUME Wide, SharedInv, NEW t \in Timers, ~Adds(other), other' = other,
         AddToHeap(t)
  PROVE  SharedInv'
<1>1. CASE n \notin Slots /\ Fault
  BY <1>1, FaultKeeps
<1>2. CASE /\ n \in Slots
           /\ heap' = [heap EXCEPT ![n] = t]
           /\ op' = [op EXCEPT !.pc = IF n = 0 THEN "incLoad" ELSE "up",
                               !.timer = t, !.index = n]
           /\ n' = n
  <2>1. op' \in Ops /\ Adds(op') /\ ~Leaves(op') /\ op'.pc # "incStore"
    <3>1. n \in 0 .. Modulus - 1
      BY <1>2, Indices
    <3> QED
      BY <1>2, <3>1 DEF SharedInv, SharedType, Ops, Steps, Adds, Leaves
  <2>2. heap' \in [Slots -> Timers \cup {NULL}]
    BY <1>2 DEF SharedInv, SharedType
  <2>3. \A i \in Slots : i <= n => heap'[i] # NULL
    BY <1>2, NullAssumption, CapAssumption DEF SharedInv, SharedType, Written, Slots
  <2>4. \A i \in Slots : heap[i] # NULL => heap'[i] # NULL
    BY <1>2, NullAssumption DEF SharedInv, SharedType
  <2>5. n \in 0 .. Cap - 1 /\ 0 \in Slots /\ heap'[0] # NULL
    BY <1>2, <2>3, Numbers DEF Slots
  <2>6. SharedType'
    BY <1>2, <2>1, <2>2 DEF SharedInv, SharedType, MinusOne, MinusTwo
  <2>7. Written(n + 1)' /\ Written(n)'
    BY <1>2, <2>3, <2>5 DEF Written, Slots
  <2>8. CallInv(op, other)'
    BY <1>2, <2>1, <2>5, <2>7 DEF CallInv, AddsInv, Slots
  <2>9. CallInv(other, op)'
    BY <1>2, <2>1, <2>4, <2>5
    DEF SharedInv, CallInv, LeavesInv, Written, MinusOne
  <2> QED
    BY <1>2, <2>5, <2>6, <2>7, <2>8, <2>9 DEF SharedInv, Adds
<1> QED
  BY <1>1, <1>2 DEF AddToHeap

LEMMA RemoveFromHeapKeeps ==
  ASSUME Wide, SharedInv, NEW t \in Timers, other' = other, RemoveFromHeap(t)
  PROVE  SharedInv'
<1>1. op' \in Ops /\ op'.pc = "search" /\ heap' = heap /\ n' = n
  BY Indices DEF SharedInv, SharedType, Ops, Steps, RemoveFromHeap
<1> QED
  BY <1>1, QuietKeeps DEF SharedInv, SharedType, Adds, Leaves

-----------------------------------------------------------------------------
(* The steps of an addition.                                               *)

LEMMA UpHeapifyKeeps ==
  ASSUME Wide, SharedInv, other' = other, UpHeapify
  PROVE  SharedInv'
<1> DEFINE i == op.index
           p == Parent(op.index)
<1>1. op.pc = "up" /\ Adds(op)
  BY DEF UpHeapify, Adds
<1>2. CASE Fault
  BY <1>2, FaultKeeps
<1>3. CASE op' = [op EXCEPT !.pc = "incLoad"] /\ heap' = heap /\ n' = n
  <2>1. op' \in Ops /\ op'.pc = "incLoad"
    BY <1>3 DEF SharedInv, SharedType, Ops, Steps
  <2> QED
    BY <1>1, <1>3, <2>1, QuietKeeps DEF SharedInv, SharedType, Leaves
<1>4. CASE /\ Readable(i) /\ Readable(p) /\ n' = n
           /\ heap' = [heap EXCEPT ![i] = heap[p], ![p] = heap[i]]
           /\ op' = [op EXCEPT !.pc = IF p = 0 THEN "incLoad" ELSE "up",
                               !.index = p]
  <2>1. p \in 0 .. Modulus - 1
    BY <1>4, CapAssumption, ModulusAssumption DEF Readable, Slots
  <2>2. op' \in Ops /\ op'.pc \in {"incLoad", "up"}
    <3> HIDE DEF p
    <3> QED BY <1>4, <2>1 DEF SharedInv, SharedType, Ops, Steps
  <2>3. /\ heap' \in [Slots -> Timers \cup {NULL}]
        /\ \A j \in Slots : heap[j] # NULL => heap'[j] # NULL
    <3> HIDE DEF p, i
    <3> QED BY <1>4 DEF SharedInv, SharedType, Readable
  <2> QED
    BY <1>1, <1>4, <2>2, <2>3, QuietKeeps DEF Leaves
<1> QED
  BY <1>2, <1>3, <1>4 DEF UpHeapify, Swap

LEMMA IncLoadKeeps ==
  ASSUME Wide, SharedInv, other' = other, IncLoad
  PROVE  SharedInv'
<1>1. /\ op.pc = "incLoad" /\ Adds(op) /\ heap' = heap /\ n' = n
      /\ op' \in Ops /\ op'.pc = "incStore" /\ op'.count = n
      /\ Adds(op') /\ ~Leaves(op')
  <2>1. n \in 0 .. Modulus - 1
    BY CapAssumption, ModulusAssumption
    DEF Wide, SharedInv, SharedType, MinusOne, MinusTwo
  <2> QED BY <2>1 DEF IncLoad, SharedInv, SharedType, Ops, Steps, Adds, Leaves
<1>2. SharedType' /\ \A k : Written(k)' <=> Written(k)
  BY <1>1 DEF SharedInv, SharedType, Written, MinusOne, MinusTwo
<1>3. CallInv(op, other)'
  BY <1>1, <1>2 DEF SharedInv, CallInv, AddsInv, MinusOne
<1>4. CallInv(other, op)'
  BY <1>1, <1>2 DEF SharedInv, CallInv, AddsInv, LeavesInv, MinusOne, Adds
<1> QED
  BY <1>1, <1>2, <1>3, <1>4 DEF SharedInv, Adds

LEMMA IncStoreKeeps ==
  ASSUME Wide, SharedInv, other' = other, IncStore
  PROVE  SharedInv'
<1>1. /\ op.pc = "incStore" /\ Adds(op) /\ heap' = heap
      /\ n' = (op.count + 1) % Modulus
      /\ op' \in Ops /\ op'.pc = "idle" /\ ~Adds(op') /\ ~Leaves(op')
  BY Indices DEF IncStore, Return, SharedInv, SharedType, Ops, Steps, Adds, Leaves
<1>2. \A k : Written(k)' <=> Written(k)
  BY <1>1 DEF Written
<1>3. \/ n' = op.count + 1 /\ n' \in 1 .. Cap /\ Written(n')
      \/ n' = 0
  <2>1. CASE op.count \in Slots /\ Written(op.count + 1)
    <3>1. op.count + 1 \in 1 .. Cap
      BY <2>1, CapAssumption DEF Slots
    <3>2. (op.count + 1) % Modulus = op.count + 1
      BY <3>1, Numbers
    <3> QED BY <1>1, <2>1, <3>1, <3>2
  <2>2. CASE op.count = MinusOne
    BY <1>1, <2>2, Numbers
  <2> QED BY <1>1, <2>1, <2>2 DEF SharedInv, CallInv, AddsInv
<1>4. ~Adds(other) /\ heap[0] # NULL
  BY <1>1 DEF SharedInv, CallInv, AddsInv
<1>5. SharedType'
  BY <1>1, <1>3, CapAssumption DEF SharedInv, SharedType, MinusOne, MinusTwo
<1>6. (n <= Cap => Written(n))'
  BY <1>2, <1>3 DEF Written, Slots
<1>7. CallInv(other, op)'
  <2>1. Leaves(other) => n # MinusOne
    BY <1>1, Numbers, CapAssumption DEF SharedInv, CallInv, AddsInv, Slots
  <2> QED
    BY <1>1, <1>2, <1>3, <1>4, <2>1
    DEF SharedInv, CallInv, LeavesInv, MinusOne
<1> QED
  BY <1>1, <1>4, <1>5, <1>6, <1>7 DEF SharedInv, CallInv, Adds

-----------------------------------------------------------------------------
(* The steps of a removal.                                                 *)

\* Whatever slot the search has found is filled from a slot that was written.
LEMMA SearchFoundKeeps ==
  ASSUME Wide, SharedInv, other' = other, ~Adds(op), ~Leaves(op),
         NEW q \in Slots, Last \in Slots, n' = n,
         heap' = [heap EXCEPT ![q] = heap[Last]],
         op' = [op EXCEPT !.pc = "decLoad", !.index = q]
  PROVE  SharedInv'
<1>1. n \in 1 .. Cap /\ Last = n - 1
  BY LastInSlots DEF SharedInv
<1>2. heap[Last] \in Timers
  BY <1>1, CapAssumption DEF SharedInv, SharedType, Written, Slots
<1>3. /\ heap' \in [Slots -> Timers \cup {NULL}]
      /\ \A i \in Slots : heap[i] # NULL => heap'[i] # NULL
  <2> HIDE DEF Last
  <2> QED BY <1>2, NullAssumption DEF SharedInv, SharedType
<1>4. op' \in Ops /\ op'.pc = "decLoad" /\ ~Adds(op') /\ Leaves(op')
  BY Indices DEF SharedInv, SharedType, Ops, Steps, Adds, Leaves
<1>5. SharedType'
  BY <1>3, <1>4 DEF SharedInv, SharedType, MinusOne, MinusTwo
<1>6. (\A k : Written(k) => Written(k)') /\ heap'[0] # NULL
  BY <1>1, <1>3, Numbers DEF SharedInv, SharedType, Written
<1>7. CallInv(op, other)'
  BY <1>1, <1>4, <1>6 DEF CallInv, LeavesInv
<1>8. n # MinusOne
  BY <1>1, Numbers, CapAssumption
<1>9. CallInv(other, op)'
  BY <1>1, <1>6, <1>8 DEF SharedInv, CallInv, AddsInv, LeavesInv, MinusOne
<1> QED
  BY <1>4, <1>5, <1>6, <1>7, <1>9 DEF SharedInv

LEMMA SearchKeeps ==
  ASSUME Wide, SharedInv, other' = other, Search
  PROVE  SharedInv'
<1> DEFINE p == op.index
           q == CHOOSE i \in Matches(p) : \A j \in Matches(p) : i <= j
<1>1. ~Adds(op) /\ ~Leaves(op)
  BY DEF Search, Adds, Leaves
<1>2. CASE Fault
  BY <1>2, FaultKeeps
<1>3. CASE Compared(p) \subseteq Slots /\ Matches(p) # {} /\ SearchFound(p)
  <2>1. CASE Last \notin Slots /\ Fault
    BY <2>1, FaultKeeps
  <2>2. CASE /\ Last \in Slots
             /\ heap' = [heap EXCEPT ![q] = heap[Last]] /\ n' = n
             /\ op' = [op EXCEPT !.pc = "decLoad", !.index = q]
    <3>1. q \in Slots
      <4>1. \A i \in Matches(p) : i \in Int
        BY <1>3, CapAssumption DEF Matches, Slots
      <4>2. Matches(p) \subseteq {p, Left(p), Right(p)} /\ Matches(p) \subseteq Slots
        BY <1>3 DEF Matches, Compared
      <4>3. \E i \in Matches(p) : \A j \in Matches(p) : i <= j
        <5> DEFINE a == p
                   b == Left(p)
                   c == Right(p)
        <5> HIDE DEF a, b, c
        <5>1. Matches(p) \subseteq {a, b, c}
          BY <4>2 DEF a, b, c
        <5> HIDE DEF p
        <5> QED BY <1>3, <4>1, <5>1
      <4> QED BY <4>2, <4>3
    <3> HIDE DEF q
    <3> QED BY <1>1, <2>2, <3>1, SearchFoundKeeps
  <2> QED BY <1>3, <2>1, <2>2 DEF SearchFound
<1>4. CASE Return("ERROR") /\ heap' = heap /\ n' = n
  <2>1. op' \in Ops /\ op'.pc = "idle"
    BY <1>4, Indices DEF SharedInv, SharedType, Return, Ops, Steps
  <2> QED
    BY <1>4, <2>1, QuietKeeps DEF SharedInv, SharedType, Adds, Leaves
<1>5. CASE /\ Compared(p) \subseteq Slots /\ heap' = heap /\ n' = n
           /\ op' = [op EXCEPT !.index = p + 1]
  <2>1. p + 1 \in 0 .. Modulus - 1
    <3>1. p \in Slots
      BY <1>5 DEF Compared
    <3> HIDE DEF p
    <3> QED BY <3>1, CapAssumption, ModulusAssumption DEF Slots
  <2>2. op' \in Ops /\ op'.pc = op.pc
    BY <1>5, <2>1 DEF SharedInv, SharedType, Ops
  <2> QED
    BY <1>1, <1>5, <2>2, QuietKeeps DEF SharedInv, SharedType, Adds, Leaves
<1> QED
  BY <1>2, <1>3, <1>4, <1>5 DEF Search

LEMMA DecLoadKeeps ==
  ASSUME Wide, SharedInv, other' = other, DecLoad
  PROVE  SharedInv'
<1>1. /\ op.pc = "decLoad" /\ Leaves(op) /\ heap' = heap /\ n' = n
      /\ op' \in Ops /\ op'.pc = "decStore" /\ op'.count = n
      /\ Leaves(op') /\ ~Adds(op')
  <2>1. n \in 0 .. Modulus - 1
    BY CapAssumption, ModulusAssumption
    DEF Wide, SharedInv, SharedType, MinusOne, MinusTwo
  <2> QED BY <2>1 DEF DecLoad, SharedInv, SharedType, Ops, Steps, Adds, Leaves
<1>2. SharedType' /\ \A k : Written(k)' <=> Written(k)
  BY <1>1 DEF SharedInv, SharedType, Written, MinusOne, MinusTwo
<1>3. \/ n \in 0 .. Cap /\ Written(n)
      \/ n = MinusOne /\ ~Leaves(other)
  BY <1>1, CapAssumption DEF SharedInv, CallInv, LeavesInv
<1>4. CallInv(op, other)'
  BY <1>1, <1>2, <1>3 DEF SharedInv, CallInv, LeavesInv, MinusOne
<1>5. CallInv(other, op)'
  BY <1>1, <1>2 DEF SharedInv, CallInv, AddsInv, LeavesInv, MinusOne
<1> QED
  BY <1>1, <1>2, <1>4, <1>5 DEF SharedInv

LEMMA DecStoreKeeps ==
  ASSUME Wide, SharedInv, other' = other, DecStore
  PROVE  SharedInv'
<1>1. /\ op.pc = "decStore" /\ Leaves(op) /\ heap' = heap
      /\ n' = (op.count - 1) % Modulus
      /\ op' \in Ops /\ op'.pc = "down" /\ ~Adds(op') /\ ~Leaves(op')
  BY DEF DecStore, SharedInv, SharedType, Ops, Steps, Adds, Leaves
<1>2. \A k : Written(k)' <=> Written(k)
  BY <1>1 DEF Written
<1>3. heap[0] # NULL
  BY <1>1 DEF SharedInv, CallInv, LeavesInv
<1>4. \/ n' \in 0 .. Cap - 1 /\ Written(n') /\ Written(n' + 1)
      \/ n' = MinusOne
      \/ n' = MinusTwo /\ n = MinusOne /\ ~Leaves(other)
  <2>1. CASE op.count \in 1 .. Cap /\ Written(op.count)
    <3>1. op.count - 1 \in 0 .. Cap /\ op.count - 1 \in 0 .. Cap - 1
      BY <2>1, CapAssumption
    <3>2. n' = op.count - 1
      BY <1>1, <3>1, Numbers
    <3>3. Written(op.count - 1)
      BY <2>1, CapAssumption DEF Written, Slots
    <3> QED BY <2>1, <3>1, <3>2, <3>3
  <2>2. CASE op.count = 0
    BY <1>1, <2>2, Numbers
  <2>3. CASE op.count = MinusOne /\ n = MinusOne /\ ~Leaves(other)
    BY <1>1, <2>3, Numbers
  <2>4. \/ op.count \in 0 .. Cap /\ Written(op.count)
        \/ op.count = MinusOne /\ n = MinusOne /\ ~Leaves(other)
    BY <1>1 DEF SharedInv, CallInv, LeavesInv
  <2> QED BY <2>1, <2>2, <2>3, <2>4, CapAssumption
<1>5. SharedType' /\ (n <= Cap => Written(n))'
  <2>1. n' \in 0 .. Cap \cup {MinusOne, MinusTwo}
    BY <1>4, CapAssumption
  <2>2. n' <= Cap => Written(n')
    BY <1>4, Numbers, CapAssumption
  <2> QED BY <1>1, <2>1, <2>2 DEF SharedInv, SharedType, Written, MinusOne, MinusTwo
<1>6. ASSUME Adds(other) PROVE AddsInv(other, op)'
  <2>1. n' # MinusTwo
    BY <1>1, <1>4, <1>6, Numbers, CapAssumption
    DEF SharedInv, CallInv, AddsInv, Slots
  <2>2. n # MinusOne
    BY <1>1, <1>6, Numbers, CapAssumption DEF SharedInv, CallInv, AddsInv, Slots
  <2> QED
    BY <1>1, <1>2, <1>3, <1>4, <1>6, <2>1, <2>2
    DEF SharedInv, CallInv, AddsInv, Written, Slots, MinusOne
<1>7. ASSUME Leaves(other) PROVE LeavesInv(other, op)'
  BY <1>1, <1>2, <1>3, <1>4, <1>7, CapAssumption
  DEF SharedInv, CallInv, LeavesInv, MinusOne
<1> QED
  BY <1>1, <1>3, <1>5, <1>6, <1>7 DEF SharedInv, CallInv, Adds, Leaves

LEMMA DownHeapifyKeeps ==
  ASSUME Wide, SharedInv, other' = other, DownHeapify
  PROVE  SharedInv'
<1> DEFINE p == op.index
           c == SmallerChild(op.index)
<1>1. CASE Fault
  BY <1>1, FaultKeeps
<1>2. CASE Return("OK") /\ heap' = heap /\ n' = n
  <2>1. op' \in Ops /\ op'.pc = "idle"
    BY <1>2, Indices DEF SharedInv, SharedType, Return, Ops, Steps
  <2> QED
    BY <1>2, <2>1, QuietKeeps DEF SharedInv, SharedType, Adds, Leaves
<1>3. CASE /\ \A i \in DownReads(p) : Readable(i)
           /\ Right(p) < n /\ n' = n /\ op.pc = "down"
           /\ heap' = [heap EXCEPT ![p] = heap[c], ![c] = heap[p]]
           /\ op' = [op EXCEPT !.index = c]
  <2>1. {p, Left(p), Right(p)} \subseteq DownReads(p)
    BY <1>3, CapAssumption, ModulusAssumption
    DEF DownReads, Left, Right, SharedInv, SharedType, Ops, MinusOne, MinusTwo
  <2>2. Readable(p) /\ Readable(c)
    BY <1>3, <2>1 DEF SmallerChild
  <2> HIDE DEF p, c
  <2>3. op' \in Ops /\ op'.pc = "down"
    BY <1>3, <2>2, Indices DEF SharedInv, SharedType, Ops, Readable
  <2>4. /\ heap' \in [Slots -> Timers \cup {NULL}]
        /\ \A j \in Slots : heap[j] # NULL => heap'[j] # NULL
    BY <1>3, <2>2 DEF SharedInv, SharedType, Readable
  <2> QED
    BY <1>3, <2>3, <2>4, QuietKeeps DEF Adds, Leaves
<1> QED
  BY <1>1, <1>2, <1>3 DEF DownHeapify, Swap

\* A step is one of a call at work, and none begins another addition.
LEMMA StepOfCall ==
  ASSUME op \in Ops, HeapStep
  PROVE  Working /\ (Adds(op') => Adds(op))
BY DEF HeapStep, UpHeapify, IncLoad, IncStore, Search, SearchFound, DecLoad, DecStore,
       DownHeapify, Fault, Return, Working, Adds, Ops, Steps

-----------------------------------------------------------------------------
\* A step of a call keeps the invariant, whatever the other call is doing.
THEOREM HeapStepKeeps ==
  ASSUME Wide, SharedInv, other' = other, HeapStep
  PROVE  SharedInv'
BY UpHeapifyKeeps, IncLoadKeeps, IncStoreKeeps, SearchKeeps, DecLoadKeeps,
   DecStoreKeeps, DownHeapifyKeeps DEF HeapStep

\* No call of either process finds a slot 0 it cannot read once one was counted.
LEMMA CountedTopIsWritten == SharedInv => (n # 0 => heap[0] \in Timers)
BY CapAssumption DEF SharedInv, SharedType, Slots

=============================================================================
