---------------------------- MODULE HeapUse_proofs ----------------------------
(***************************************************************************)
(* Proofs about HeapUse.tla, for every set of timers that fits the array,  *)
(* every array length and every set of firing times.  What a step does to  *)
(* the array is proved in SerialHeap_proofs.tla.                           *)
(***************************************************************************)
EXTENDS HeapUse, SerialHeap_proofs

-----------------------------------------------------------------------------
(* One lemma per kind of action: each keeps HeapInv.                       *)

LEMMA InitInv == Init => HeapInv
<1> SUFFICES ASSUME Init PROVE HeapInv
  OBVIOUS
<1>1. SerialInv /\ op.pc = "idle"
  BY SerialInit DEF Init
<1>2. TypeOK
  BY <1>1, WhensAssumption DEF Init, TypeOK, SerialInv, Questions
<1> QED BY <1>1, <1>2 DEF Init, HeapInv, AskedInv, Adding, Removing, Unlinked

LEMMA AddInv ==
  ASSUME HeapInv, NEW t \in Timers, NEW w \in Whens, Add(t, w)
  PROVE  HeapInv'
<1>1. op.pc = "idle" /\ t \in Timers \ Contents
  BY DEF Add, Members
<1>2. SerialInv' /\ op'.pc \in {"incLoad", "up"}
  BY <1>1, TimersAssumption, SerialAdd DEF HeapInv, Add
<1>3. whenToFire' = [whenToFire EXCEPT ![t] = w]
      /\ asked' = [kind |-> "add", ordered |-> Ordered]
  BY DEF Add, Ask
<1>4. TypeOK'
  BY <1>2, <1>3 DEF HeapInv, SerialInv, TypeOK, Questions, Ordered
<1> QED
  BY <1>2, <1>3, <1>4 DEF HeapInv, AskedInv, Adding, Removing, Unlinked

LEMMA RemoveInv ==
  ASSUME HeapInv, NEW t \in Members, op.pc = "idle", RemoveFromHeap(t),
         NEW kind \in {"top", "any"}, Ask(kind), UNCHANGED whenToFire
  PROVE  HeapInv'
<1>1. t \in Contents
  BY DEF Members
<1>2. SerialInv' /\ op'.pc = "search"
  BY <1>1, SerialRemove DEF HeapInv
<1>3. asked' = [kind |-> kind, ordered |-> Ordered]
  BY DEF Ask
<1>4. TypeOK'
  BY <1>2, <1>3 DEF HeapInv, SerialInv, TypeOK, Questions, Ordered
<1> QED
  BY <1>2, <1>3, <1>4 DEF HeapInv, AskedInv, Adding, Removing, Unlinked

LEMMA ContinueInv ==
  ASSUME HeapInv, Continue
  PROVE  HeapInv'
<1>1. /\ SerialInv' /\ op'.timer = op.timer
      /\ whenToFire' = whenToFire /\ asked' = asked
  BY SerialStep DEF HeapInv, Continue
<1>2. TypeOK'
  BY <1>1 DEF HeapInv, SerialInv, TypeOK
<1>3. CASE Adding /\ (Adding' \/ op'.pc = "idle")
  BY <1>1, <1>2, <1>3 DEF HeapInv, AskedInv, Adding, Removing, Unlinked
<1>4. CASE op.pc = "search" /\ (SearchFinds \/ SearchFails \/ SearchMoves)
  <2>1. asked.kind \in {"top", "any"}
    BY <1>4 DEF HeapInv, AskedInv, Removing
  <2>2. op'.pc \in {"decLoad", "search"} \/ SearchFails
    BY <1>4 DEF SearchFinds, SearchMoves
  <2> QED
    BY <1>1, <1>2, <2>1, <2>2
    DEF HeapInv, AskedInv, Adding, Removing, Unlinked, SearchFails
<1>5. CASE DecLoad \/ DecStore
  BY <1>1, <1>2, <1>5, SerialDecLoad, SerialDecStore
  DEF HeapInv, AskedInv, Adding, Removing, Unlinked
<1>6. CASE DownHeapify
  <2>1. /\ op.pc = "down" /\ op.timer \notin Contents /\ Contents' = Contents
        /\ op'.pc = "down" \/ (op'.pc = "idle" /\ op'.result = "OK")
    BY <1>6, SerialDownHeapify DEF HeapInv
  <2>2. Members' = Contents'
    BY <2>1 DEF Members
  <2> QED
    BY <1>1, <1>2, <2>1, <2>2 DEF HeapInv, AskedInv, Adding, Removing, Unlinked
<1>7. CASE UpHeapify \/ IncLoad \/ IncStore
  BY <1>3, <1>7, SerialUpHeapify, SerialIncLoad, SerialIncStore
  DEF HeapInv, UpHeapify, Adding
<1>8. CASE Search
  BY <1>4, <1>8, SerialSearch DEF HeapInv
<1> QED
  BY <1>5, <1>6, <1>7, <1>8 DEF Continue, HeapStep

LEMMA NextInv == HeapInv /\ [Next]_vars => HeapInv'
<1> SUFFICES ASSUME HeapInv, [Next]_vars PROVE HeapInv'
  OBVIOUS
<1>1. ASSUME NEW t \in Timers, NEW w \in Whens, Add(t, w) PROVE HeapInv'
  BY <1>1, AddInv
<1>2. CASE RemoveTop
  <2>1. Top \in Members
    <3>1. op.pc = "idle" /\ n \in 1 .. Cap
      BY <1>2, CapAssumption
      DEF RemoveTop, HeapInv, SerialInv, AskedInv, TypeOK, SerialType
    <3> QED BY <3>1 DEF Members, Contents, Used, Size, Adding, Unlinked, Top
  <2> QED BY <1>2, <2>1, RemoveInv DEF RemoveTop
<1>3. ASSUME NEW t \in Timers, RemoveAny(t) PROVE HeapInv'
  BY <1>3, RemoveInv DEF RemoveAny
<1>4. CASE Continue
  BY <1>4, ContinueInv
<1>5. CASE UNCHANGED vars
  BY <1>5
  DEF vars, HeapInv, SerialInv, AskedInv, TypeOK, SerialType, NoTimerTwice,
      AddingInv, RemovingInv, Removing, Adding,
      Unlinked, Contents, Used, Size, Members, Matches, Compared, Last
<1> QED
  BY <1>1, <1>2, <1>3, <1>4, <1>5 DEF Next

-----------------------------------------------------------------------------
\* The inductive invariant holds in every state of every heap.
THEOREM Invariance == Spec => []HeapInv
<1>1. Init => HeapInv
  BY InitInv
<1>2. HeapInv /\ [Next]_vars => HeapInv'
  BY NextInv
<1> QED BY <1>1, <1>2, PTL DEF Spec

\* Types are kept and no call of TimerMinHeap.cpp leaves the array or follows
\* a NULL pointer, as long as the timers fit the array.
THEOREM TypeCorrect == Spec => []TypeOK
<1>1. HeapInv => TypeOK
  BY DEF HeapInv, SerialInv, AskedInv
<1> QED BY <1>1, Invariance, PTL

\* No addition, sift or removal loses a pending timer or enters one twice.
THEOREM Content == Spec => []NoTimerTwice
<1>1. HeapInv => NoTimerTwice
  BY DEF HeapInv, SerialInv, AskedInv
<1> QED BY <1>1, Invariance, PTL

\* A removal takes its timer out of the heap, whatever the number of timers and
\* the calls before it, but for the last slot of four or more.
THEOREM InnerRemovals == Spec => []InnerRemovalRemoves
<1>1. HeapInv => InnerRemovalRemoves
  BY DEF HeapInv, AskedInv, InnerRemovalRemoves
<1> QED BY <1>1, Invariance, PTL

-----------------------------------------------------------------------------
(* The refinement: a call starts an abstract call, IncLoad and a successful *)
(* Search take effect, the last step of a call answers, sifts stutter.      *)

LEMMA InitRefines == Init => Set!Init
BY DEF Init, HeapInit, NoOp, Set!Init, Members, Contents, Used, Size, Adding,
       Unlinked, Calling, Effective

LEMMA AddRefines ==
  ASSUME HeapInv, NEW t \in Timers, NEW w \in Whens, Add(t, w)
  PROVE  Set!Call("add", t)
<1>1. op.pc = "idle" /\ Members = Contents /\ t \in Timers \ Contents
  BY DEF Add, Members
<1>2. /\ op'.pc \in {"up", "incLoad"} /\ op'.timer = t
      /\ Contents' = Contents \cup {t}
  BY <1>1, TimersAssumption, SerialAdd DEF HeapInv, Add
<1>3. op'.result = op.result
  BY <1>1, <1>2 DEF Add, AddToHeap, Fault, HeapInv, SerialInv, SerialType, Calls
<1>4. Members' = Members
  BY <1>1, <1>2 DEF Members
<1>5. Calling = "none" /\ ~Effective /\ Calling' = "add" /\ ~Effective'
  BY <1>1, <1>2 DEF Calling, Effective, Adding, Unlinked
<1> QED BY <1>1, <1>2, <1>3, <1>4, <1>5 DEF Set!Call, Effective

LEMMA RemoveRefines ==
  ASSUME HeapInv, op.pc = "idle", NEW t \in Members, RemoveFromHeap(t)
  PROVE  Set!Call("remove", t)
<1>1. heap' = heap /\ n' = n
      /\ op'.pc = "search" /\ op'.timer = t /\ op'.result = op.result
  BY DEF RemoveFromHeap, HeapInv, SerialInv, AskedInv, TypeOK, SerialType, Calls
<1>2. Members' = Members
  BY <1>1 DEF Members, Contents, Used, Size, Adding, Unlinked
<1>3. Calling = "none" /\ ~Effective /\ Calling' = "remove" /\ ~Effective'
  BY <1>1 DEF Calling, Effective, Adding, Unlinked
<1> QED BY <1>1, <1>2, <1>3 DEF Set!Call, Effective

LEMMA ResultKept ==
  ASSUME SerialInv, HeapStep
  PROVE  op'.pc = "idle" \/ op'.result = op.result
<1> USE DEF SerialInv, SerialType, Calls, Fault, Return
<1>1. CASE UpHeapify
  BY <1>1 DEF UpHeapify
<1>2. CASE IncLoad \/ IncStore \/ DecLoad \/ DecStore
  BY <1>2 DEF IncLoad, IncStore, DecLoad, DecStore
<1>3. CASE Search
  BY <1>3 DEF Search, SearchFound
<1>4. CASE DownHeapify
  BY <1>4 DEF DownHeapify
<1> QED BY <1>1, <1>2, <1>3, <1>4 DEF HeapStep

LEMMA UpHeapifyRefines ==
  ASSUME HeapInv, UpHeapify
  PROVE  UNCHANGED Set!vars
<1>1. /\ op.pc = "up" /\ Adding' /\ op'.timer = op.timer /\ Contents' = Contents
      /\ op'.result = op.result
  BY SerialUpHeapify, ResultKept DEF HeapInv, UpHeapify, HeapStep, Adding
<1>2. op'.pc \in {"up", "incLoad"}
  BY <1>1 DEF UpHeapify, Fault, Adding, HeapInv, SerialInv, SerialType, Calls
<1> QED
  BY <1>1, <1>2 DEF Set!vars, Members, Calling, Effective, Adding, Unlinked

LEMMA IncLoadRefines ==
  ASSUME HeapInv, IncLoad
  PROVE  Set!TakeEffect
<1>1. /\ op.pc = "incLoad" /\ op'.pc = "incStore" /\ op'.timer = op.timer
      /\ op'.result = op.result /\ Contents' = Contents
  BY SerialIncLoad, ResultKept DEF HeapInv, HeapStep
<1>2. op.timer \in Contents
  BY <1>1 DEF HeapInv, SerialInv, AddingInv, Adding
<1>3. Members = Contents \ {op.timer} /\ Members' = Contents
  BY <1>1 DEF Members
<1>4. Calling = "add" /\ Calling' = "add" /\ ~Effective /\ Effective'
  BY <1>1 DEF Calling, Effective, Adding, Unlinked
<1> QED BY <1>1, <1>2, <1>3, <1>4 DEF Set!TakeEffect, Effective

LEMMA IncStoreRefines ==
  ASSUME HeapInv, IncStore
  PROVE  Set!Succeed
<1>1. /\ op.pc = "incStore" /\ op'.pc = "idle" /\ op'.timer = op.timer
      /\ op'.result = "OK" /\ Contents' = Contents
  BY SerialIncStore DEF HeapInv
<1>2. Members' = Members
  BY <1>1 DEF Members
<1>3. Calling = "add" /\ Calling' = "none" /\ Effective /\ ~Effective'
  BY <1>1 DEF Calling, Effective, Adding, Unlinked
<1> QED BY <1>1, <1>2, <1>3 DEF Set!Succeed, Effective

LEMMA SearchRefines ==
  ASSUME HeapInv, Search
  PROVE  Set!TakeEffect \/ Set!Refuse \/ UNCHANGED Set!vars
<1>1. /\ op.pc = "search" /\ op'.timer = op.timer
      /\ SearchFinds \/ SearchFails \/ SearchMoves
  BY SerialSearch DEF HeapInv
<1>2. op'.pc = "idle" \/ op'.result = op.result
  BY ResultKept DEF HeapInv, HeapStep
<1>3. Calling = "remove" /\ ~Effective /\ Members = Contents
  BY <1>1 DEF Calling, Effective, Adding, Unlinked, Members
<1>4. CASE SearchFinds
  <2>1. op'.pc = "decLoad" /\ Contents' = Contents \ {op.timer}
    BY <1>4 DEF SearchFinds
  <2>2. Calling' = "remove" /\ Effective' /\ Members' = Contents'
    BY <2>1 DEF Calling, Effective, Adding, Unlinked, Members
  <2> QED BY <1>1, <1>2, <1>3, <2>1, <2>2 DEF Set!TakeEffect, Effective
<1>5. CASE SearchFails
  <2>1. op'.pc = "idle" /\ op'.result = "ERROR" /\ Contents' = Contents
    BY <1>5 DEF SearchFails
  <2>2. Calling' = "none" /\ ~Effective' /\ Members' = Contents'
    BY <2>1 DEF Calling, Effective, Unlinked, Members
  <2> QED BY <1>1, <1>3, <2>1, <2>2 DEF Set!Refuse, Effective
<1>6. CASE SearchMoves
  <2>1. op'.pc = "search" /\ Contents' = Contents
    BY <1>6 DEF SearchMoves
  <2>2. Calling' = "remove" /\ ~Effective' /\ Members' = Contents'
    BY <2>1 DEF Calling, Effective, Adding, Unlinked, Members
  <2> QED BY <1>1, <1>2, <1>3, <2>1, <2>2 DEF Set!vars, Effective
<1> QED BY <1>1, <1>4, <1>5, <1>6

LEMMA DecRefines ==
  ASSUME HeapInv, DecLoad \/ DecStore
  PROVE  UNCHANGED Set!vars
<1>1. /\ Unlinked /\ op'.pc \in {"decStore", "down"} /\ op'.timer = op.timer
      /\ Contents' = Contents /\ op'.result = op.result
  BY SerialDecLoad, SerialDecStore, ResultKept DEF HeapInv, HeapStep, Unlinked
<1> QED
  BY <1>1 DEF Set!vars, Members, Calling, Effective, Adding, Unlinked

LEMMA DownHeapifyRefines ==
  ASSUME HeapInv, DownHeapify
  PROVE  Set!Succeed \/ UNCHANGED Set!vars
<1>1. /\ op.pc = "down" /\ op'.timer = op.timer /\ Contents' = Contents
      /\ \/ op'.pc = "down"
         \/ op'.pc = "idle" /\ op'.result = "OK"
  BY SerialDownHeapify DEF HeapInv
<1>2. op'.pc = "idle" \/ op'.result = op.result
  BY ResultKept DEF HeapInv, HeapStep
<1>3. Members' = Members /\ Calling = "remove" /\ Effective
  BY <1>1 DEF Members, Calling, Effective, Adding, Unlinked
<1>4. CASE op'.pc = "down"
  BY <1>1, <1>2, <1>3, <1>4 DEF Set!vars, Calling, Effective, Adding, Unlinked
<1>5. CASE op'.pc = "idle" /\ op'.result = "OK"
  BY <1>1, <1>3, <1>5 DEF Set!Succeed, Calling, Effective, Unlinked
<1> QED BY <1>1, <1>4, <1>5

LEMMA NextRefines == HeapInv /\ [Next]_vars => [Set!Next]_(Set!vars)
<1> SUFFICES ASSUME HeapInv, [Next]_vars PROVE Set!Next \/ UNCHANGED Set!vars
  OBVIOUS
<1>1. ASSUME NEW t \in Timers, NEW w \in Whens, Add(t, w) PROVE Set!Next
  BY <1>1, AddRefines DEF Set!Next
<1>2. CASE RemoveTop
  <2>1. op.pc = "idle" /\ n \in 1 .. Cap
    BY <1>2, CapAssumption DEF RemoveTop, HeapInv, SerialInv, AskedInv, TypeOK, SerialType
  <2>2. Top \in Members /\ Members \subseteq Timers
    BY <2>1
    DEF Members, Contents, Used, Size, Adding, Unlinked, Top, HeapInv, SerialInv,
        AskedInv, NoTimerTwice
  <2> QED BY <1>2, <2>2, RemoveRefines DEF RemoveTop, Set!Next
<1>3. ASSUME NEW t \in Timers, RemoveAny(t) PROVE Set!Next
  BY <1>3, RemoveRefines DEF RemoveAny, Set!Next
<1>4. CASE Continue
  BY <1>4, UpHeapifyRefines, IncLoadRefines, IncStoreRefines, SearchRefines,
     DecRefines, DownHeapifyRefines
  DEF Continue, HeapStep, Set!Next
<1>5. CASE UNCHANGED vars
  BY <1>5
  DEF vars, Set!vars, Members, Contents, Used, Size, Adding, Unlinked, Calling, Effective
<1> QED
  BY <1>1, <1>2, <1>3, <1>4, <1>5 DEF Next

\* The array heap implements the abstract set of pending timers: every run of
\* TimerMinHeap.cpp is a run of TimerSet.tla.
THEOREM Refinement == Spec => ImplementsSet
<1>1. Init => Set!Init
  BY InitRefines
<1>2. HeapInv /\ [Next]_vars => [Set!Next]_(Set!vars)
  BY NextRefines
<1> QED BY <1>1, <1>2, Invariance, PTL DEF Spec, ImplementsSet, Set!Spec


-----------------------------------------------------------------------------
(***************************************************************************)
(* When the heap is ordered: after an addition always, after the removal of *)
(* its top when an odd number of timers remains.                           *)
(***************************************************************************)
OrderInv ==
  /\ HeapInv /\ RisingInv /\ SinkingInv
  /\ AdditionKeepsOrder /\ TopRemovalKeepsOrder

\* The parent of a used slot is a used slot before it.
LEMMA ParentBefore ==
  ASSUME NEW i \in Nat \ {0}
  PROVE  /\ Parent(i) \in 0 .. i - 1
         /\ \A p \in Nat : Parent(i) = p <=> i = Left(p) \/ i = Right(p)
BY DEF Parent, Left, Right

LEMMA TimesComparable ==
  ASSUME HeapInv, NEW i \in Slots, heap[i] \in Timers
  PROVE  When(i) \in Nat
BY WhensAssumption DEF HeapInv, SerialInv, AskedInv, TypeOK, SerialType, When

LEMMA InitOrder == Init => OrderInv
<1> SUFFICES ASSUME Init PROVE OrderInv
  OBVIOUS
<1>1. op.pc = "idle" /\ asked.kind = "none"
  BY DEF Init, HeapInit, NoOp
<1> QED
  BY <1>1, InitInv
  DEF OrderInv, RisingInv, SinkingInv, AdditionKeepsOrder, TopRemovalKeepsOrder, Unlinked

LEMMA AddOrder ==
  ASSUME OrderInv, NEW t \in Timers, NEW w \in Whens, Add(t, w)
  PROVE  OrderInv'
<1>1. HeapInv /\ HeapInv'
  BY AddInv DEF OrderInv
<1>2. op.pc = "idle" /\ n \in 0 .. Cap - 1 /\ n \in Slots
  <2>1. op.pc = "idle" /\ t \in Timers \ Contents
    BY DEF Add, Members
  <2> QED
    BY <1>1, <2>1, TimersAssumption, RoomForOneMore, CapAssumption
    DEF HeapInv, TypeOK, SerialType, Slots
<1>3. /\ n' = n /\ heap' = [heap EXCEPT ![n] = t]
      /\ whenToFire' = [whenToFire EXCEPT ![t] = w]
      /\ asked' = [kind |-> "add", ordered |-> Ordered]
      /\ op'.pc = (IF n = 0 THEN "incLoad" ELSE "up") /\ op'.index = n
  BY <1>2
  DEF Add, AddToHeap, Ask, HeapInv, SerialInv, AskedInv, TypeOK, SerialType, Calls,
      OrderInv
<1>4. Used = 0 .. n - 1 /\ Used' = 0 .. n /\ Contents = Members
  BY <1>2, <1>3 DEF Used, Size, Adding, Unlinked, Members
<1>5. \A i \in 0 .. n - 1 : heap'[i] = heap[i] /\ heap[i] \in Timers \ {t} /\ i \in Slots
  BY <1>1, <1>2, <1>3, <1>4, CapAssumption
  DEF HeapInv, SerialInv, AskedInv, TypeOK, SerialType, NoTimerTwice, Contents, Add, Slots
<1>6. \A i \in 0 .. n - 1 : When(i)' = When(i)
  BY <1>1, <1>3, <1>5 DEF When, HeapInv, SerialInv, AskedInv, TypeOK, SerialType
<1>7. ASSUME asked'.ordered, n # 0, NEW i \in 1 .. n
      PROVE  /\ i # n => (When(Parent(i)) <= When(i))'
             /\ Parent(i) # n
  <2>1. Parent(i) \in 0 .. i - 1 /\ n \in Nat
    BY <1>2, ParentBefore
  <2>2. i # n => When(Parent(i)) <= When(i)
    BY <1>2, <1>3, <1>4, <1>7 DEF Ordered
  <2>3. When(Parent(i))' = When(Parent(i))
    <3>1. Parent(i) \in 0 .. n - 1
      BY <2>1, <1>2
    <3>2. \A j \in 0 .. n - 1 : whenToFire'[heap'[j]] = whenToFire[heap[j]]
      BY <1>6 DEF When
    <3> QED BY <3>1, <3>2 DEF When, Parent
  <2>4. i # n => When(i)' = When(i)
    BY <1>2, <1>6
  <2> QED BY <2>1, <2>2, <2>3, <2>4, <1>2
<1>8. RisingInv'
  <2>1. CASE n = 0
    BY <1>3, <1>4, <2>1 DEF RisingInv, Ordered
  <2>2. CASE n # 0
    BY <1>3, <1>7, <2>2 DEF RisingInv
  <2> QED BY <2>1, <2>2
<1> QED
  BY <1>1, <1>3, <1>8 DEF OrderInv, SinkingInv, AdditionKeepsOrder, TopRemovalKeepsOrder

LEMMA RemoveOrder ==
  ASSUME OrderInv, NEW t \in Members, op.pc = "idle", RemoveFromHeap(t),
         NEW kind \in {"top", "any"}, Ask(kind), UNCHANGED whenToFire,
         kind = "top" => t = Top
  PROVE  OrderInv'
<1>1. HeapInv /\ HeapInv'
  BY RemoveInv DEF OrderInv
<1>2. /\ heap' = heap /\ n' = n /\ whenToFire' = whenToFire
      /\ asked' = [kind |-> kind, ordered |-> Ordered]
      /\ op'.pc = "search" /\ op'.timer = t /\ op'.index = 0
  BY <1>1 DEF RemoveFromHeap, Ask, HeapInv, SerialInv, AskedInv, TypeOK, SerialType, Calls
<1>3. Ordered' = Ordered
  BY <1>2 DEF Ordered, Used, Size, Adding, Unlinked, When, Parent
<1> QED
  BY <1>1, <1>2, <1>3
  DEF OrderInv, RisingInv, SinkingInv, AdditionKeepsOrder, TopRemovalKeepsOrder,
      Unlinked, Top

LEMMA UpHeapifyOrder ==
  ASSUME OrderInv, UpHeapify, UNCHANGED <<whenToFire, asked>>
  PROVE  OrderInv'
<1> DEFINE k == op.index
           p == Parent(op.index)
<1>1. HeapInv /\ HeapInv' /\ op.pc = "up"
  BY ContinueInv DEF OrderInv, UpHeapify, Continue, HeapStep
<1>2. /\ n \in 0 .. Cap - 1 /\ k \in 1 .. n /\ p \in 0 .. k - 1
      /\ asked.kind = "add" /\ asked' = asked
  BY <1>1, CapAssumption
  DEF HeapInv, SerialInv, AskedInv, TypeOK, SerialType, AddingInv, Adding, Parent
<1>3. Used = 0 .. n
  BY <1>1, <1>2 DEF Used, Size, Adding
<1>4. \A j \in 0 .. n : heap[j] \in Timers /\ j \in Slots
  BY <1>1, <1>2, <1>3, CapAssumption
  DEF HeapInv, SerialInv, AskedInv, NoTimerTwice, Contents, Slots
<1>5. Readable(k) /\ Readable(p) /\ \A j \in 0 .. n : When(j) \in Nat
  BY <1>1, <1>2, <1>4, NullAssumption, TimesComparable DEF Readable
<1>6. n' = n /\ whenToFire' = whenToFire /\ op'.pc \in {"up", "incLoad"}
  BY <1>1, <1>5 DEF UpHeapify, HeapInv, SerialInv, AskedInv, TypeOK, SerialType, Calls
<1>7. Used' = 0 .. n
  BY <1>2, <1>3, <1>6 DEF Used, Size, Adding
<1>8. ASSUME asked.ordered, NEW i \in 1 .. n
      PROVE  /\ i # k => When(Parent(i)) <= When(i)
             /\ Parent(i) = k => When(p) <= When(i)
             /\ Parent(i) \in 0 .. i - 1
  BY <1>1, <1>8, ParentBefore DEF OrderInv, RisingInv
<1>9. CASE heap' = heap /\ op'.pc = "incLoad" /\ When(p) < When(k)
  <2>1. ASSUME asked.ordered, NEW i \in 1 .. n PROVE (When(Parent(i)) <= When(i))'
    <3>1. When(Parent(i)) <= When(i)
      BY <1>2, <1>5, <1>8, <1>9, <2>1
    <3> QED BY <1>6, <1>9, <3>1 DEF When, Parent
  <2>2. RisingInv'
    BY <1>2, <1>7, <1>9, <2>1 DEF RisingInv, Ordered
  <2> QED
    BY <1>1, <1>2, <1>9, <2>2
    DEF OrderInv, SinkingInv, AdditionKeepsOrder, TopRemovalKeepsOrder
<1>10. CASE /\ heap' = [heap EXCEPT ![k] = heap[p], ![p] = heap[k]]
            /\ ~(When(p) < When(k))
            /\ op' = [op EXCEPT !.pc = IF p = 0 THEN "incLoad" ELSE "up", !.index = p]
  <2> DEFINE W(i) == whenToFire'[heap'[i]]
  <2>1. op'.index = p /\ op'.pc = (IF p = 0 THEN "incLoad" ELSE "up")
    BY <1>1, <1>10 DEF HeapInv, SerialInv, AskedInv, TypeOK, SerialType, Calls
  <2>2. \A j \in 0 .. n : W(j) = IF j = p THEN When(k)
                                 ELSE IF j = k THEN When(p) ELSE When(j)
    BY <1>1, <1>2, <1>4, <1>6, <1>10
    DEF HeapInv, SerialInv, AskedInv, TypeOK, SerialType, When
  <2> HIDE DEF W
  <2>3. ASSUME asked.ordered, NEW i \in 1 .. n
        PROVE  /\ i # p => W(Parent(i)) <= W(i)
               /\ Parent(i) = p /\ p # 0 => W(Parent(p)) <= W(i)
    <3>1. Parent(i) \in 0 .. n /\ Parent(i) < i /\ i \in Nat /\ n \in Nat
      BY <1>2, <1>8, <2>3
    <3>2. i # p => W(Parent(i)) <= W(i)
      <4>1. CASE i = k
        BY <1>2, <1>5, <1>10, <2>2, <4>1
      <4>2. CASE i # k /\ Parent(i) = k
        BY <1>2, <1>5, <1>8, <2>2, <2>3, <3>1, <4>2
      <4>3. CASE i # k /\ Parent(i) = p /\ i # p
        <5>1. When(k) <= When(p) /\ When(p) <= When(i)
          BY <1>2, <1>5, <1>8, <1>10, <2>3, <4>3
        <5>2. W(p) = When(k) /\ W(i) = When(i)
          BY <1>2, <2>2, <4>3
        <5> QED BY <1>2, <1>5, <4>3, <5>1, <5>2
      <4>4. CASE i # k /\ Parent(i) # k /\ Parent(i) # p /\ i # p
        BY <1>8, <2>2, <2>3, <3>1, <4>4
      <4> QED BY <4>1, <4>2, <4>3, <4>4
    <3>3. Parent(i) = p /\ p # 0 => W(Parent(p)) <= W(i)
      <4> SUFFICES ASSUME Parent(i) = p, p # 0 PROVE W(Parent(p)) <= W(i)
        OBVIOUS
      <4>1. p \in 1 .. n /\ p # k
        BY <1>2
      <4>2. Parent(p) \in 0 .. p - 1 /\ When(Parent(p)) <= When(p)
        BY <1>8, <2>3, <4>1
      <4>3. W(Parent(p)) = When(Parent(p)) /\ When(Parent(p)) \in Nat
        BY <1>2, <1>5, <2>2, <4>1, <4>2
      <4>4. CASE i = k
        BY <1>2, <2>2, <4>2, <4>3, <4>4
      <4>5. CASE i # k
        <5>1. When(p) <= When(i) /\ W(i) = When(i)
          BY <1>8, <2>2, <2>3, <3>1, <4>5
        <5> QED BY <1>2, <1>5, <4>1, <4>2, <4>3, <5>1
      <4> QED BY <4>4, <4>5
    <3> QED BY <3>2, <3>3
  <2>4. RisingInv'
    <3>1. CASE p = 0
      <4>1. asked.ordered => \A i \in 1 .. n : W(Parent(i)) <= W(i)
        BY <2>3, <3>1
      <4> QED BY <1>2, <1>7, <2>1, <3>1, <4>1 DEF RisingInv, Ordered, W, When, Parent
    <3>2. CASE p # 0
      <4> HIDE DEF p
      <4>1. asked.ordered => \A i \in 1 .. n :
              /\ i # op'.index => W(Parent(i)) <= W(i)
              /\ Parent(i) = op'.index => W(Parent(op'.index)) <= W(i)
        BY <2>1, <2>3, <3>2
      <4> QED
        BY <1>2, <1>6, <2>1, <3>2, <4>1 DEF RisingInv, W, When, Parent
    <3> QED BY <3>1, <3>2
  <2> QED
    BY <1>1, <1>2, <2>1, <2>4
    DEF OrderInv, SinkingInv, AdditionKeepsOrder, TopRemovalKeepsOrder
<1> QED
  BY <1>1, <1>5, <1>9, <1>10
  DEF UpHeapify, Swap, HeapInv, SerialInv, AskedInv, TypeOK, SerialType, Calls

LEMMA IncOrder ==
  ASSUME OrderInv, IncLoad \/ IncStore, UNCHANGED <<whenToFire, asked>>
  PROVE  OrderInv'
<1>1. HeapInv /\ HeapInv'
  BY ContinueInv DEF OrderInv, Continue, HeapStep
<1>2. /\ op.pc \in {"incLoad", "incStore"} /\ asked.kind = "add" /\ n \in 0 .. Cap - 1
      /\ heap' = heap /\ whenToFire' = whenToFire /\ asked' = asked
  BY <1>1, CapAssumption
  DEF IncLoad, IncStore, HeapInv, SerialInv, AskedInv, TypeOK, SerialType,
      AddingInv, Adding
<1>3. asked.ordered => Ordered
  BY <1>2 DEF OrderInv, RisingInv
<1>4. Used' = Used /\ op'.pc \in {"incStore", "idle"}
  <2>1. CASE IncLoad
    BY <1>1, <1>2, <2>1
    DEF IncLoad, HeapInv, SerialInv, AskedInv, TypeOK, SerialType, Calls, Used,
        Size, Adding
  <2>2. CASE IncStore
    <3>1. op.pc = "incStore" /\ op.count = n /\ op'.pc = "idle"
      BY <1>1, <2>2
      DEF IncStore, Return, HeapInv, SerialInv, AskedInv, TypeOK, SerialType, Calls,
          AddingInv
    <3>2. n + 1 \in 0 .. Modulus - 1
      BY <1>2, CapAssumption, ModulusAssumption
    <3>3. n' = n + 1
      BY <2>2, <3>1, <3>2, ModSmall DEF IncStore
    <3> QED BY <1>2, <3>1, <3>3 DEF Used, Size, Adding, Unlinked
  <2> QED BY <2>1, <2>2
<1>5. Ordered' = Ordered
  BY <1>2, <1>4 DEF Ordered, When, Parent
<1> QED
  BY <1>1, <1>2, <1>3, <1>4, <1>5
  DEF OrderInv, RisingInv, SinkingInv, AdditionKeepsOrder, TopRemovalKeepsOrder

LEMMA SearchOrder ==
  ASSUME OrderInv, Search, UNCHANGED <<whenToFire, asked>>
  PROVE  OrderInv'
<1> DEFINE p == op.index
<1>1. HeapInv /\ HeapInv' /\ op.pc = "search"
  BY ContinueInv DEF OrderInv, Search, Continue, HeapStep
<1>2. /\ n \in 1 .. Cap /\ Last = n - 1 /\ Last \in Slots /\ p \in 0 .. n - 1
      /\ Used = 0 .. n - 1 /\ Compared(p) \subseteq Slots
      /\ asked.kind \in {"top", "any"} /\ asked' = asked /\ whenToFire' = whenToFire
  BY <1>1, SearchScope DEF HeapInv, AskedInv, Removing
<1>3. CASE asked.kind = "top" /\ asked.ordered
  <2>1. Ordered /\ p = 0 /\ heap[0] = op.timer
    BY <1>1, <1>3 DEF OrderInv, SinkingInv, Top
  <2>2. 0 \in Matches(p)
    BY <2>1 DEF Matches, Compared
  <2> DEFINE q == CHOOSE i \in Matches(p) : \A j \in Matches(p) : i <= j
  <2>3. q = 0
    <3>1. \A j \in Matches(p) : j \in 0 .. n - 1 /\ heap[j] = heap[0]
      BY <1>1, <1>2, <2>1, SearchScope DEF Matches, HeapInv
    <3>2. Matches(p) = {0}
      BY <1>1, <1>2, <2>2, <3>1, SearchScope DEF HeapInv
    <3> QED BY <3>2
  <2>4. SearchFound(p)
    BY <1>2, <2>2 DEF Search
  <2>5. /\ heap' = [heap EXCEPT ![0] = heap[n - 1]] /\ n' = n
        /\ op'.pc = "decLoad" /\ op'.index = 0
    <3> HIDE DEF q
    <3>1. heap' = [heap EXCEPT ![q] = heap[n - 1]] /\ n' = n
          /\ op' = [op EXCEPT !.pc = "decLoad", !.index = q]
      BY <1>2, <2>4 DEF SearchFound, q
    <3> QED BY <1>1, <2>3, <3>1
    DEF HeapInv, SerialInv, AskedInv, TypeOK, SerialType, Calls
  <2>6. Used' = 0 .. n - 2
    BY <1>2, <2>5 DEF Used, Size, Adding, Unlinked
  <2>7. ASSUME NEW i \in Used' \ {0}, Parent(i) # 0
        PROVE  (When(Parent(i)) <= When(i))'
    <3>1. i \in 1 .. n - 1 /\ Parent(i) \in 1 .. n - 1
      BY <1>2, <2>6, <2>7, ParentBefore
    <3>2. heap'[i] = heap[i] /\ heap'[Parent(i)] = heap[Parent(i)]
      BY <1>2, <2>5, <3>1 DEF HeapInv, SerialInv, AskedInv, TypeOK, SerialType
    <3>3. When(Parent(i)) <= When(i)
      BY <1>2, <2>1, <3>1 DEF Ordered
    <3> QED BY <1>2, <3>2, <3>3 DEF When, Parent
  <2>8. SinkingInv'
    BY <2>5, <2>7 DEF SinkingInv, Unlinked, Parent
  <2> QED
    BY <1>1, <1>2, <2>5, <2>8
    DEF OrderInv, RisingInv, AdditionKeepsOrder, TopRemovalKeepsOrder
<1>4. CASE ~(asked.kind = "top" /\ asked.ordered)
  <2>1. op'.pc \in {"decLoad", "idle", "search"}
    BY <1>1, <1>2
    DEF Search, SearchFound, Return, HeapInv, SerialInv, AskedInv, TypeOK,
        SerialType, Calls
  <2> QED
    BY <1>1, <1>2, <1>4, <2>1
    DEF OrderInv, RisingInv, SinkingInv, AdditionKeepsOrder, TopRemovalKeepsOrder
<1> QED BY <1>3, <1>4

LEMMA DecOrder ==
  ASSUME OrderInv, DecLoad \/ DecStore, UNCHANGED <<whenToFire, asked>>
  PROVE  OrderInv'
<1>1. HeapInv /\ HeapInv'
  BY ContinueInv DEF OrderInv, Continue, HeapStep
<1>2. /\ Unlinked /\ asked.kind \in {"top", "any"} /\ n \in 1 .. Cap
      /\ heap' = heap /\ whenToFire' = whenToFire /\ asked' = asked
      /\ op'.index = op.index /\ op'.pc \in {"decStore", "down"}
  <2>1. Unlinked /\ heap' = heap /\ op \in Calls /\ n \in 0 .. Cap
    BY <1>1
    DEF DecLoad, DecStore, HeapInv, SerialInv, AskedInv, TypeOK, SerialType,
        Unlinked
  <2>2. asked.kind \in {"top", "any"} /\ op.index < n /\ op.index \in Nat
    BY <1>1, <2>1, CapAssumption
    DEF HeapInv, SerialInv, AskedInv, RemovingInv, Removing, Unlinked, Calls, Slots
  <2>3. op'.index = op.index /\ op'.pc \in {"decStore", "down"}
    BY <2>1 DEF DecLoad, DecStore, Calls
  <2> QED BY <2>1, <2>2, <2>3, CapAssumption
<1>3. Used' = Used
  <2>1. CASE DecLoad
    BY <1>1, <1>2, <2>1
    DEF DecLoad, HeapInv, SerialInv, AskedInv, TypeOK, SerialType, Calls, Used,
        Size, Adding, Unlinked
  <2>2. CASE DecStore
    <3>1. op.pc = "decStore" /\ op.count = n /\ op'.pc = "down"
      BY <1>1, <2>2
      DEF DecStore, HeapInv, SerialInv, AskedInv, TypeOK, SerialType, Calls,
          RemovingInv, Removing
    <3>2. n - 1 \in 0 .. Modulus - 1
      BY <1>2, CapAssumption, ModulusAssumption
    <3>3. n' = n - 1
      BY <2>2, <3>1, <3>2, ModSmall DEF DecStore
    <3> QED BY <1>2, <3>1, <3>3 DEF Used, Size, Adding, Unlinked
  <2> QED BY <2>1, <2>2
<1>4. SinkingInv'
  <2> SUFFICES ASSUME asked.kind = "top", asked.ordered PROVE SinkingInv'
    BY <1>2 DEF SinkingInv
  <2>1. op.index = 0 /\ \A i \in Used \ {0} : Parent(i) # 0 => When(Parent(i)) <= When(i)
    BY <1>2 DEF OrderInv, SinkingInv
  <2>2. \A i \in Used' \ {0} : Parent(i) # 0 => (When(Parent(i)) <= When(i))'
    BY <1>2, <1>3, <2>1 DEF When, Parent
  <2> QED BY <1>2, <2>1, <2>2 DEF SinkingInv, Unlinked, Parent
<1> QED
  BY <1>1, <1>2, <1>4 DEF OrderInv, RisingInv, AdditionKeepsOrder, TopRemovalKeepsOrder

LEMMA DownHeapifyOrder ==
  ASSUME OrderInv, DownHeapify, UNCHANGED <<whenToFire, asked>>
  PROVE  OrderInv'
<1> DEFINE p == op.index
           c == SmallerChild(op.index)
<1>1. HeapInv /\ HeapInv' /\ op.pc = "down"
  BY ContinueInv DEF OrderInv, DownHeapify, Continue, HeapStep
<1>2. /\ n \in 0 .. Cap - 1 /\ p \in 0 .. n /\ heap[n] \in Timers /\ Used = 0 .. n - 1
      /\ asked.kind \in {"top", "any"} /\ asked' = asked /\ whenToFire' = whenToFire
  BY <1>1, CapAssumption
  DEF HeapInv, SerialInv, AskedInv, TypeOK, SerialType, Calls, Slots, RemovingInv,
      Removing, Used, Size, Adding, Unlinked
<1>3. \A j \in 0 .. n : /\ heap[j] \in Timers /\ j \in Slots /\ Readable(j)
                        /\ When(j) \in Nat
  <2>1. \A j \in 0 .. n - 1 : heap[j] \in Timers
    BY <1>1, <1>2 DEF HeapInv, SerialInv, AskedInv, NoTimerTwice, Contents
  <2>2. \A j \in 0 .. n : heap[j] \in Timers /\ j \in Slots
    BY <1>2, <2>1, CapAssumption DEF Slots
  <2> QED BY <1>1, <2>2, NullAssumption, TimesComparable DEF Readable
<1>4. DownReads(p) \subseteq 0 .. n
  BY <1>2 DEF DownReads, Left, Right
<1>5. ASSUME asked.kind = "top", asked.ordered, NEW i \in 1 .. n - 1
      PROVE  /\ Parent(i) # p => When(Parent(i)) <= When(i)
             /\ Parent(i) = p /\ p # 0 => When(Parent(p)) <= When(i)
             /\ Parent(i) \in 0 .. i - 1
             /\ Parent(i) = p <=> i = Left(p) \/ i = Right(p)
  BY <1>1, <1>2, <1>5, ParentBefore DEF OrderInv, SinkingInv
<1>6. CASE /\ Right(p) >= n \/ ~(When(SmallerChild(p)) < When(p))
           /\ Return("OK") /\ heap' = heap /\ n' = n
  <2>1. op'.pc = "idle"
    BY <1>1, <1>6 DEF HeapInv, SerialInv, AskedInv, TypeOK, SerialType, Calls, Return
  <2>2. Used' = Used
    BY <1>2, <1>6, <2>1, <1>1 DEF Used, Size, Adding, Unlinked
  <2>3. ASSUME asked.kind = "top", asked.ordered, n % 2 = 1, NEW i \in 1 .. n - 1
        PROVE  When(Parent(i)) <= When(i)
    <3>1. CASE Parent(i) # p
      BY <1>5, <2>3, <3>1
    <3>2. CASE Parent(i) = p
      <4>1. Right(p) < n
        <5>1. PICK m \in Nat : n = 2 * m + 1
          <6>1. n = 2 * (n \div 2) + 1 /\ n \div 2 \in Nat
            BY <1>2, <2>3
          <6> QED BY <6>1
        <5>2. i = 2 * p + 1 \/ i = 2 * p + 2
          BY <1>5, <2>3, <3>2 DEF Left, Right
        <5> QED BY <1>2, <5>1, <5>2 DEF Right
      <4>2. Left(p) \in 0 .. n /\ Right(p) \in 0 .. n
        BY <1>2, <4>1 DEF Left, Right
      <4>3. When(p) <= When(Left(p)) /\ When(p) <= When(Right(p))
        BY <1>2, <1>3, <1>6, <4>1, <4>2 DEF SmallerChild
      <4> QED BY <1>5, <2>3, <3>2, <4>3
    <3> QED BY <3>1, <3>2
  <2>4. TopRemovalKeepsOrder'
    <3> SUFFICES ASSUME asked.kind = "top", asked.ordered, n % 2 = 1 PROVE Ordered'
      BY <1>2, <1>6 DEF TopRemovalKeepsOrder
    <3>1. \A i \in 1 .. n - 1 : When(Parent(i)) <= When(i)
      BY <2>3
    <3> QED BY <1>2, <1>6, <2>2, <3>1 DEF Ordered, When, Parent
  <2> QED
    BY <1>1, <1>2, <2>1, <2>4
    DEF OrderInv, RisingInv, SinkingInv, AdditionKeepsOrder, Unlinked
<1>7. CASE /\ Right(p) < n /\ When(c) < When(p)
           /\ heap' = [heap EXCEPT ![p] = heap[c], ![c] = heap[p]]
           /\ n' = n /\ op' = [op EXCEPT !.index = c]
  <2>1. /\ c \in 1 .. n - 1 /\ p \in 0 .. n - 1 /\ c # p /\ c \in {Left(p), Right(p)}
        /\ Left(p) \in 1 .. n - 1 /\ Right(p) \in 1 .. n - 1
        /\ When(c) <= When(Left(p)) /\ When(c) <= When(Right(p))
    BY <1>2, <1>3, <1>7 DEF SmallerChild, Left, Right
  <2> HIDE DEF c
  <2>2. op'.pc = "down" /\ op'.index = c
    BY <1>1, <1>7 DEF HeapInv, SerialInv, AskedInv, TypeOK, SerialType, Calls
  <2>3. Used' = 0 .. n - 1
    BY <1>2, <1>7, <2>2 DEF Used, Size, Adding, Unlinked
  <2> DEFINE W(i) == whenToFire'[heap'[i]]
  <2>4. \A j \in 0 .. n : W(j) = IF j = p THEN When(c)
                                 ELSE IF j = c THEN When(p) ELSE When(j)
    BY <1>1, <1>2, <1>3, <1>7, <2>1
    DEF HeapInv, SerialInv, AskedInv, TypeOK, SerialType, When
  <2> HIDE DEF W
  <2>5. ASSUME asked.kind = "top", asked.ordered, NEW i \in 1 .. n - 1
        PROVE  IF Parent(i) # c THEN W(Parent(i)) <= W(i)
               ELSE W(Parent(c)) <= W(i)
    <3>1. Parent(c) = p /\ c \in Nat \ {0}
      BY <1>5, <2>1, <2>5
    <3>2. Parent(i) \in 0 .. i - 1
      BY <1>5, <2>5
    <3>3. CASE Parent(i) = c
      <4>1. i # c /\ i # p /\ p # c
        BY <2>1, <3>1, <3>2, <3>3, ParentBefore
      <4>2. When(c) <= When(i)
        BY <1>5, <2>1, <2>5, <3>3
      <4> QED BY <1>2, <2>1, <2>4, <3>1, <3>3, <4>1, <4>2
    <3>4. CASE Parent(i) = p
      <4>1. W(p) = When(c) /\ p # c
        BY <1>2, <2>1, <2>4
      <4>2. When(c) <= When(i) /\ When(c) <= When(p)
        <5>1. i = Left(p) \/ i = Right(p)
          BY <1>5, <2>5, <3>4
        <5>2. When(c) \in Nat /\ When(p) \in Nat /\ When(c) < When(p)
          BY <1>2, <1>3, <1>7, <2>1
        <5> QED BY <2>1, <5>1, <5>2
      <4>3. i # p
        BY <3>2, <3>4
      <4> QED BY <1>2, <2>1, <2>4, <3>4, <4>1, <4>2, <4>3
    <3>5. CASE Parent(i) # c /\ Parent(i) # p
      <4>1. i # c /\ When(Parent(i)) <= When(i)
        BY <1>5, <2>5, <3>1, <3>5
      <4>2. CASE i = p
        <5>1. When(Parent(p)) <= When(c)
          BY <1>5, <2>1, <2>5, <3>1, <4>2
        <5> QED BY <1>2, <2>1, <2>4, <3>2, <3>5, <4>2, <5>1
      <4>3. CASE i # p
        BY <1>2, <2>4, <3>2, <3>5, <4>1, <4>3
      <4> QED BY <4>2, <4>3
    <3> QED BY <3>3, <3>4, <3>5
  <2>6. SinkingInv'
    <3> SUFFICES ASSUME asked.kind = "top", asked.ordered PROVE SinkingInv'
      BY <1>2 DEF SinkingInv
    <3>1. \A i \in Used' \ {0} : IF Parent(i) # c THEN W(Parent(i)) <= W(i)
                               ELSE W(Parent(c)) <= W(i)
      BY <1>2, <2>3, <2>5
    <3> QED BY <2>2, <3>1 DEF SinkingInv, Unlinked, W, When, Parent
  <2> QED
    BY <1>1, <1>2, <2>2, <2>6
    DEF OrderInv, RisingInv, AdditionKeepsOrder, TopRemovalKeepsOrder
<1> QED
  BY <1>3, <1>4, <1>6, <1>7 DEF DownHeapify, Swap

LEMMA NextOrder == OrderInv /\ [Next]_vars => OrderInv'
<1> SUFFICES ASSUME OrderInv, [Next]_vars PROVE OrderInv'
  OBVIOUS
<1>1. ASSUME NEW t \in Timers, NEW w \in Whens, Add(t, w) PROVE OrderInv'
  BY <1>1, AddOrder
<1>2. CASE RemoveTop
  <2>1. Top \in Members
    <3>1. op.pc = "idle" /\ n \in 1 .. Cap
      BY <1>2, CapAssumption
      DEF RemoveTop, OrderInv, HeapInv, SerialInv, AskedInv, TypeOK, SerialType
    <3> QED BY <3>1 DEF Members, Contents, Used, Size, Adding, Unlinked, Top
  <2> QED BY <1>2, <2>1, RemoveOrder DEF RemoveTop
<1>3. ASSUME NEW t \in Timers, RemoveAny(t) PROVE OrderInv'
  BY <1>3, RemoveOrder DEF RemoveAny
<1>4. CASE Continue
  BY <1>4, UpHeapifyOrder, IncOrder, SearchOrder, DecOrder, DownHeapifyOrder
  DEF Continue, HeapStep
<1>5. CASE UNCHANGED vars
  <2>1. HeapInv'
    BY <1>5, NextInv DEF OrderInv
  <2>2. Ordered' = Ordered /\ Used' = Used
    BY <1>5 DEF vars, Ordered, Used, Size, Adding, Unlinked, When, Parent
  <2>3. RisingInv'
    BY <1>5, <2>2 DEF vars, OrderInv, RisingInv, When, Parent
  <2>4. SinkingInv'
    BY <1>5, <2>2 DEF vars, OrderInv, SinkingInv, Unlinked, When, Parent, Top
  <2> QED
    BY <1>5, <2>1, <2>2, <2>3, <2>4
    DEF vars, OrderInv, AdditionKeepsOrder, TopRemovalKeepsOrder
<1> QED
  BY <1>1, <1>2, <1>3, <1>4, <1>5 DEF Next

-----------------------------------------------------------------------------
LEMMA OrderInvariance == Spec => []OrderInv
<1>1. Init => OrderInv
  BY InitOrder
<1>2. OrderInv /\ [Next]_vars => OrderInv'
  BY NextOrder
<1> QED BY <1>1, <1>2, PTL DEF Spec

\* upHeapify leaves an ordered heap ordered, whatever its length and the ties
\* among its firing times.
THEOREM AdditionOrder == Spec => []AdditionKeepsOrder
<1>1. OrderInv => AdditionKeepsOrder
  BY DEF OrderInv
<1> QED BY <1>1, OrderInvariance, PTL

\* Removing the top of an ordered heap leaves it ordered if an odd number of
\* timers remains; nothing is claimed, or true, of an even number.
THEOREM TopRemovalOrder == Spec => []TopRemovalKeepsOrder
<1>1. OrderInv => TopRemovalKeepsOrder
  BY DEF OrderInv
<1> QED BY <1>1, OrderInvariance, PTL

=============================================================================
