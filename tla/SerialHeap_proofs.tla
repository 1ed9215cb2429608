--------------------------- MODULE SerialHeap_proofs ---------------------------
(***************************************************************************)
(* Proofs about SerialHeap.tla: each step of a call that is alone in the   *)
(* heap keeps SerialInv, and what the step does to the contents, for every *)
(* set of timers and every array length.                                   *)
(***************************************************************************)
EXTENDS SerialHeap, FiniteSetTheorems, FunctionTheorems, TLAPS

-----------------------------------------------------------------------------
(* The counter does not wrap while it stays within the array.              *)

LEMMA ModSmall ==
  ASSUME NEW x \in 0 .. Modulus - 1
  PROVE  x % Modulus = x
BY ModulusAssumption, CapAssumption

LEMMA LastSlot ==
  ASSUME n \in 1 .. Cap
  PROVE  Last = n - 1
<1>1. n - 1 \in 0 .. Modulus - 1
  BY ModulusAssumption, CapAssumption
<1> QED BY <1>1, ModSmall DEF Last

LEMMA FirstSlot == 0 \in Slots /\ 0 \in 0 .. Cap
BY CapAssumption DEF Slots

(***************************************************************************)
(* The used slots hold different timers, so between calls they are no more *)
(* than the timers, and a timer that is not there always finds a slot.     *)
(***************************************************************************)
LEMMA UsedFit ==
  ASSUME SerialInv, op.pc \in {"idle", "search"}, NEW others, IsFiniteSet(others),
         Contents \subseteq others
  PROVE  n <= Cardinality(others)
<1> DEFINE held == [i \in 0 .. n - 1 |-> heap[i]]
<1>1. Used = 0 .. n - 1 /\ n \in Nat
  BY DEF Used, Size, Adding, Unlinked, SerialInv, SerialType
<1>2. held \in [0 .. n - 1 -> others]
  BY <1>1 DEF Contents
<1>3. \A i, j \in 0 .. n - 1 : held[i] = held[j] => i = j
  BY <1>1 DEF SerialInv, NoTimerTwice
<1>4. held \in Injection(0 .. n - 1, others)
  <2> HIDE DEF held
  <2> QED BY <1>2, <1>3, Fun_IsInj
<1>5. Cardinality(0 .. n - 1) <= Cardinality(others)
  <2> HIDE DEF held
  <2> QED BY <1>4, FS_Injection
<1>6. Cardinality(0 .. n - 1) = n
  <2>1. n \in Nat /\ 0 \in Int /\ n - 1 \in Int
    BY <1>1
  <2>2. Cardinality(0 .. n - 1) = IF 0 > n - 1 THEN 0 ELSE (n - 1) - 0 + 1
    BY <2>1, FS_Interval
  <2> QED BY <2>1, <2>2
<1> QED BY <1>5, <1>6

LEMMA RoomForOneMore ==
  ASSUME TimersFit, SerialInv, op.pc = "idle", NEW t \in Timers \ Contents
  PROVE  n < Cap
<1>1. /\ IsFiniteSet(Timers \ {t})
      /\ Cardinality(Timers \ {t}) = Cardinality(Timers) - 1
  BY FS_RemoveElement DEF TimersFit
<1>2. Contents \subseteq Timers \ {t}
  BY DEF SerialInv, NoTimerTwice
<1>3. n <= Cardinality(Timers \ {t})
  BY <1>1, <1>2, UsedFit
<1>4. Cardinality(Timers) \in Nat /\ n \in Nat
  BY FS_CardinalityType DEF TimersFit, SerialInv, SerialType
<1> QED BY <1>1, <1>3, <1>4, CapAssumption DEF TimersFit

-----------------------------------------------------------------------------
(* The starts of the calls.                                                *)

LEMMA SerialInit ==
  ASSUME HeapInit
  PROVE  SerialInv /\ Contents = {} /\ op.pc = "idle"
<1>1. SerialType
  BY CapAssumption DEF HeapInit, SerialType, Calls, NoOp, Slots, Steps
<1>2. Used = {} /\ op.pc = "idle"
  BY DEF HeapInit, NoOp, Used, Size, Adding, Unlinked
<1> QED
  BY <1>1, <1>2
  DEF SerialInv, NoTimerTwice, Contents, AddingInv, RemovingInv, Adding, Unlinked, Removing

LEMMA SerialAdd ==
  ASSUME TimersFit, SerialInv, NEW t \in Timers \ Contents, AddToHeap(t)
  PROVE  /\ SerialInv' /\ Contents' = Contents \cup {t}
         /\ op.pc = "idle" /\ op'.timer = t /\ op'.index = n /\ n \in 0 .. Cap - 1
         /\ op'.pc = (IF n = 0 THEN "incLoad" ELSE "up")
         /\ heap' = [heap EXCEPT ![n] = t] /\ n' = n
         /\ Used = 0 .. n - 1 /\ Used' = 0 .. n
         /\ \A i \in 0 .. n - 1 : heap'[i] = heap[i] /\ heap[i] \in Timers \ {t}
         /\ heap'[n] = t
<1>1. op.pc = "idle" /\ n < Cap /\ n \in Slots /\ n \in 0 .. Cap - 1
  <2>1. op.pc = "idle"
    BY DEF AddToHeap
  <2> QED BY <2>1, RoomForOneMore, CapAssumption DEF SerialInv, SerialType, Slots
<1>2. /\ n' = n
      /\ heap' = [heap EXCEPT ![n] = t]
      /\ op' = [op EXCEPT !.pc = IF n = 0 THEN "incLoad" ELSE "up",
                          !.timer = t, !.index = n]
  BY <1>1 DEF AddToHeap
<1>3. op' \in Calls
  BY <1>1, <1>2 DEF SerialInv, SerialType, Calls, Steps
<1>4. SerialType'
  BY <1>1, <1>2, <1>3 DEF SerialInv, SerialType
<1>5. op'.timer = t /\ op'.index = n /\ op'.pc = (IF n = 0 THEN "incLoad" ELSE "up")
  BY <1>1, <1>2 DEF SerialInv, SerialType, Calls
<1>6. Used = 0 .. n - 1 /\ Used' = 0 .. n
  BY <1>1, <1>2, <1>5 DEF SerialInv, SerialType, Used, Size, Adding, Unlinked
<1>7. \A i \in 0 .. n - 1 : heap'[i] = heap[i] /\ heap[i] \in Timers \ {t}
  BY <1>1, <1>2, <1>6 DEF SerialInv, SerialType, NoTimerTwice, Contents, Slots
<1>8. heap'[n] = t
  BY <1>1, <1>2 DEF SerialInv, SerialType
<1>9. Contents' = Contents \cup {t}
  <2>1. \A x : x \in Contents' <=> \E i \in 0 .. n : x = heap'[i]
    BY <1>6 DEF Contents
  <2>2. \A x : x \in Contents <=> \E i \in 0 .. n - 1 : x = heap[i]
    BY <1>6 DEF Contents
  <2>3. \A i \in 0 .. n : i = n \/ i \in 0 .. n - 1
    BY <1>1
  <2>4. n \in 0 .. n /\ \A i \in 0 .. n - 1 : i \in 0 .. n
    BY <1>1
  <2> QED BY <1>7, <1>8, <2>1, <2>2, <2>3, <2>4
<1>10. NoTimerTwice'
  BY <1>1, <1>6, <1>7, <1>8 DEF SerialInv, NoTimerTwice, Contents
<1>11. AddingInv'
  BY <1>1, <1>2, <1>5, <1>6, <1>8, <1>9 DEF AddingInv, Adding
<1>12. RemovingInv'
  BY <1>5 DEF RemovingInv, Removing, Unlinked
<1> QED
  BY <1>1, <1>2, <1>4, <1>5, <1>6, <1>7, <1>8, <1>9, <1>10, <1>11, <1>12 DEF SerialInv

LEMMA SerialRemove ==
  ASSUME SerialInv, NEW t \in Contents, RemoveFromHeap(t)
  PROVE  /\ SerialInv' /\ Contents' = Contents /\ Used' = Used
         /\ heap' = heap /\ n' = n
         /\ op.pc = "idle"
         /\ op'.pc = "search" /\ op'.timer = t /\ op'.index = 0
<1>1. /\ op.pc = "idle" /\ heap' = heap /\ n' = n
      /\ op' = [op EXCEPT !.pc = "search", !.timer = t, !.index = 0]
  BY DEF RemoveFromHeap
<1>2. op'.pc = "search" /\ op'.timer = t /\ op'.index = 0
  BY <1>1 DEF SerialInv, SerialType, Calls
<1>3. Used = 0 .. n - 1 /\ Used' = Used /\ Contents' = Contents
  BY <1>1, <1>2 DEF Used, Size, Adding, Unlinked, Contents
<1>4. t \in Timers /\ n >= 1
  BY <1>3 DEF SerialInv, SerialType, NoTimerTwice, Contents
<1>5. op' \in Calls
  BY <1>1, <1>4, FirstSlot DEF SerialInv, SerialType, Calls, Steps
<1>6. SerialType'
  BY <1>1, <1>5 DEF SerialInv, SerialType
<1>7. RemovingInv'
  BY <1>1, <1>2, <1>3, <1>4 DEF SerialInv, SerialType, RemovingInv, Removing, Unlinked
<1> QED
  BY <1>1, <1>2, <1>3, <1>6, <1>7 DEF SerialInv, NoTimerTwice, AddingInv, Adding

-----------------------------------------------------------------------------
(* The steps of an addition: the contents stay as they are.                *)

LEMMA SerialUpHeapify ==
  ASSUME SerialInv, UpHeapify
  PROVE  /\ SerialInv' /\ Contents' = Contents
         /\ Adding' /\ op'.timer = op.timer /\ n' = n /\ Used' = Used
<1> DEFINE i == op.index
           p == Parent(op.index)
<1>1. /\ op.pc = "up" /\ n \in 0 .. Cap - 1 /\ i \in 1 .. n /\ p \in 0 .. i - 1
      /\ heap[i] = op.timer
  BY CapAssumption DEF SerialInv, SerialType, AddingInv, Adding, UpHeapify, Parent
<1>2. Used = 0 .. n
  BY <1>1 DEF Used, Size, Adding
<1>3. \A j \in 0 .. n : heap[j] \in Timers /\ j \in Slots
  BY <1>1, <1>2, CapAssumption DEF SerialInv, NoTimerTwice, Contents, Slots
<1>4. Readable(i) /\ Readable(p)
  BY <1>1, <1>3, NullAssumption DEF Readable
<1>5. CASE op' = [op EXCEPT !.pc = "incLoad"] /\ heap' = heap /\ n' = n
  <2>1. op' \in Calls /\ op'.pc = "incLoad" /\ op'.timer = op.timer
    BY <1>5 DEF SerialInv, SerialType, Calls, Steps
  <2>2. Used' = Used /\ Contents' = Contents
    BY <1>1, <1>5, <2>1 DEF Used, Size, Adding, Contents
  <2>3. SerialType'
    BY <1>5, <2>1 DEF SerialInv, SerialType
  <2> QED
    BY <1>1, <1>2, <1>5, <2>1, <2>2, <2>3
    DEF SerialInv, NoTimerTwice, AddingInv, RemovingInv, Adding, Removing, Unlinked
<1>6. CASE /\ heap' = [heap EXCEPT ![i] = heap[p], ![p] = heap[i]] /\ n' = n
           /\ op' = [op EXCEPT !.pc = IF p = 0 THEN "incLoad" ELSE "up", !.index = p]
  <2>1. /\ op'.index = p /\ op'.timer = op.timer
        /\ op'.pc = (IF p = 0 THEN "incLoad" ELSE "up")
    BY <1>6 DEF SerialInv, SerialType, Calls
  <2>2. op' \in Calls
    <3>1. p \in Slots
      BY <1>1, <1>3
    <3> HIDE DEF p
    <3> QED BY <3>1, <1>6 DEF SerialInv, SerialType, Calls, Steps
  <2>3. Used' = 0 .. n /\ Adding'
    <3>1. Adding'
      BY <2>1 DEF Adding
    <3> QED BY <1>1, <1>6, <3>1 DEF Used, Size
  <2>4. /\ heap' \in [Slots -> Timers \cup {NULL}] /\ heap'[p] = op.timer
        /\ \A j \in 0 .. n : heap'[j] = IF j = p THEN heap[i]
                                        ELSE IF j = i THEN heap[p] ELSE heap[j]
    BY <1>1, <1>3, <1>6 DEF SerialInv, SerialType
  <2>5. SerialType'
    BY <1>6, <2>2, <2>4 DEF SerialInv, SerialType
  <2>6. NoTimerTwice'
    <3>1. \A j, k \in 0 .. n : heap[j] = heap[k] => j = k
      BY <1>2 DEF SerialInv, NoTimerTwice
    <3> HIDE DEF p, i
    <3> QED BY <1>1, <1>3, <2>3, <2>4, <3>1 DEF NoTimerTwice, Contents
  <2>7. Contents' = Contents
    <3> HIDE DEF p, i
    <3>1. i \in 0 .. n /\ p \in 0 .. n
      BY <1>1
    <3>2. \A j \in 0 .. n : \E k \in 0 .. n : heap'[k] = heap[j]
      <4> TAKE j \in 0 .. n
      <4>1. CASE j = i
        BY <2>4, <3>1, <4>1
      <4>2. CASE j = p /\ j # i
        BY <2>4, <3>1, <4>2
      <4>3. CASE j # p /\ j # i
        BY <2>4, <3>1, <4>3
      <4> QED BY <4>1, <4>2, <4>3
    <3>3. \A j \in 0 .. n : \E k \in 0 .. n : heap[k] = heap'[j]
      BY <2>4, <3>1
    <3>4. Contents = {heap[j] : j \in 0 .. n} /\ Contents' = {heap'[j] : j \in 0 .. n}
      BY <1>2, <2>3 DEF Contents
    <3>5. ASSUME NEW x \in Contents PROVE x \in Contents'
      <4>1. PICK j \in 0 .. n : x = heap[j]
        BY <3>4
      <4>2. PICK k \in 0 .. n : heap'[k] = heap[j]
        BY <3>2
      <4> QED BY <3>4, <4>1, <4>2
    <3>6. ASSUME NEW x \in Contents' PROVE x \in Contents
      <4>1. PICK j \in 0 .. n : x = heap'[j]
        BY <3>4
      <4>2. PICK k \in 0 .. n : heap[k] = heap'[j]
        BY <3>3
      <4> QED BY <3>4, <4>1, <4>2
    <3> QED BY <3>5, <3>6
  <2>8. AddingInv'
    BY <1>1, <1>6, <2>1, <2>3, <2>4 DEF SerialInv, SerialType, AddingInv, Adding, Contents
  <2> QED
    BY <1>2, <1>6, <2>1, <2>3, <2>5, <2>6, <2>7, <2>8
    DEF SerialInv, RemovingInv, Removing, Unlinked
<1> QED
  BY <1>4, <1>5, <1>6 DEF UpHeapify, Swap

LEMMA SerialIncLoad ==
  ASSUME SerialInv, IncLoad
  PROVE  /\ SerialInv' /\ Contents' = Contents /\ Used' = Used
         /\ op.pc = "incLoad" /\ op'.pc = "incStore" /\ op'.timer = op.timer
         /\ heap' = heap /\ n' = n
<1>1. /\ op.pc = "incLoad" /\ heap' = heap /\ n' = n
      /\ op'.pc = "incStore" /\ op'.timer = op.timer /\ op'.count = n
  BY DEF SerialInv, SerialType, Calls, IncLoad
<1>2. op' \in Calls
  BY DEF SerialInv, SerialType, Calls, IncLoad, Steps
<1>3. SerialType'
  BY <1>1, <1>2 DEF SerialInv, SerialType
<1>4. Used' = Used /\ Contents' = Contents
  BY <1>1 DEF Used, Contents, Size, Adding
<1> QED
  BY <1>1, <1>3, <1>4
  DEF SerialInv, NoTimerTwice, AddingInv, RemovingInv, Adding, Removing, Unlinked

LEMMA SerialIncStore ==
  ASSUME SerialInv, IncStore
  PROVE  /\ SerialInv' /\ Contents' = Contents /\ Used' = Used
         /\ op.pc = "incStore" /\ op'.pc = "idle" /\ op'.timer = op.timer
         /\ op'.result = "OK"
         /\ heap' = heap /\ n' = n + 1
<1>1. op.pc = "incStore" /\ op.count = n /\ n \in 0 .. Cap - 1
  BY CapAssumption DEF SerialInv, SerialType, AddingInv, Adding, IncStore
<1>2. n + 1 \in 0 .. Modulus - 1
  BY <1>1, CapAssumption, ModulusAssumption
<1>3. /\ heap' = heap /\ n' = n + 1 /\ op'.pc = "idle" /\ op'.timer = op.timer
      /\ op'.result = "OK"
  BY <1>1, <1>2, ModSmall DEF SerialInv, SerialType, Calls, IncStore, Return
<1>4. op' \in Calls
  BY FirstSlot DEF SerialInv, SerialType, Calls, IncStore, Return, Steps
<1>5. SerialType'
  BY <1>1, <1>3, <1>4, CapAssumption DEF SerialInv, SerialType
<1>6. Used' = Used /\ Contents' = Contents
  BY <1>1, <1>3 DEF Used, Contents, Size, Adding, Unlinked
<1> QED
  BY <1>1, <1>3, <1>5, <1>6
  DEF SerialInv, NoTimerTwice, AddingInv, RemovingInv, Adding, Removing, Unlinked

-----------------------------------------------------------------------------
(***************************************************************************)
(* The search looks at used slots only, takes the first of the slots it    *)
(* compares that holds the timer, and when it gives up the timer is in the *)
(* one slot it never compared.                                             *)
(***************************************************************************)
LEMMA SearchScope ==
  ASSUME SerialInv, op.pc = "search"
  PROVE  /\ n \in 1 .. Cap /\ Last = n - 1 /\ op.index \in 0 .. n - 1
         /\ op.timer \in Timers /\ op.timer \in Contents
         /\ Used = 0 .. n - 1
         /\ \A j \in 0 .. n - 1 : heap[j] \in Timers /\ j \in Slots
         /\ \A j, k \in 0 .. n - 1 : heap[j] = heap[k] => j = k
         /\ \A p \in 0 .. n - 1 : Compared(p) \subseteq 0 .. n - 1
         /\ Compared(op.index) \subseteq Slots
<1>1. n \in 1 .. Cap /\ op.index \in 0 .. n - 1 /\ op.timer \in Timers /\ op.timer \in Contents
  BY DEF SerialInv, SerialType, Calls, Slots, RemovingInv, Removing
<1>2. Last = n - 1
  BY <1>1, LastSlot
<1>3. Used = 0 .. n - 1
  BY DEF Used, Size, Adding, Unlinked
<1>4. \A j \in 0 .. n - 1 : heap[j] \in Timers /\ j \in Slots
  BY <1>1, <1>3, CapAssumption DEF SerialInv, NoTimerTwice, Contents, Slots
<1>5. \A j, k \in 0 .. n - 1 : heap[j] = heap[k] => j = k
  BY <1>3 DEF SerialInv, NoTimerTwice
<1>6. \A p \in 0 .. n - 1 : Compared(p) \subseteq 0 .. n - 1
  BY <1>1, <1>2 DEF Compared, Left, Right
<1> QED
  BY <1>1, <1>2, <1>3, <1>4, <1>5, <1>6

LEMMA FirstMatch ==
  ASSUME SerialInv, op.pc = "search", NEW p \in 0 .. n - 1, Matches(p) # {}
  PROVE  LET q == CHOOSE i \in Matches(p) : \A j \in Matches(p) : i <= j
         IN q \in 0 .. n - 1 /\ heap[q] = op.timer
<1>1. Matches(p) \subseteq {p, 2 * p + 1, 2 * p + 2}
  BY DEF Matches, Compared, Left, Right
<1>2. \E i \in Matches(p) : \A j \in Matches(p) : i <= j
  <2>1. CASE p \in Matches(p)
    BY <1>1, <2>1, SearchScope
  <2>2. CASE p \notin Matches(p) /\ 2 * p + 1 \in Matches(p)
    BY <1>1, <2>2, SearchScope
  <2>3. CASE p \notin Matches(p) /\ 2 * p + 1 \notin Matches(p)
    BY <1>1, <2>3, SearchScope
  <2> QED BY <2>1, <2>2, <2>3
<1>3. (CHOOSE i \in Matches(p) : \A j \in Matches(p) : i <= j) \in Matches(p)
  BY <1>2
<1> QED BY <1>3, SearchScope DEF Matches

LEMMA SearchGivesUp ==
  ASSUME SerialInv, op.pc = "search", Matches(op.index) = {}, Left(op.index) > n
  PROVE  n >= 4 /\ heap[n - 1] = op.timer
<1> DEFINE p == op.index
<1>1. n \in 1 .. Cap /\ p \in 0 .. n - 1 /\ Last = n - 1 /\ 2 * p + 1 > n
  BY SearchScope DEF Left
<1>2. \A k \in 0 .. p : Matches(k) = {}
  <2>1. \A k \in 0 .. p - 1 : Matches(k) = {}
    BY DEF SerialInv, RemovingInv
  <2> QED BY <1>1, <2>1
<1>3. PICK j \in 0 .. n - 1 : heap[j] = op.timer
  BY SearchScope DEF Contents
<1>4. j > p
  BY <1>1, <1>2, <1>3 DEF Matches, Compared
<1>5. j = n - 1
  <2> SUFFICES ASSUME j < n - 1 PROVE FALSE
    BY <1>1, <1>3
  <2>1. Parent(j) \in 0 .. p /\ (j = Left(Parent(j)) \/ j = Right(Parent(j)))
    BY <1>1, <1>3, <1>4 DEF Parent, Left, Right
  <2>2. j \in Matches(Parent(j))
    BY <1>1, <1>3, <2>1 DEF Matches, Compared
  <2> QED BY <1>2, <2>1, <2>2
<1> QED BY <1>1, <1>3, <1>4, <1>5

\* Found: the slot is filled with the last timer, and the timer is gone.
SearchFinds ==
  /\ op'.pc = "decLoad" /\ Unlinked' /\ op'.index \in Used
  /\ heap[op'.index] = op.timer
  /\ heap' = [heap EXCEPT ![op'.index] = heap[n - 1]] /\ n' = n
  /\ Contents' = Contents \ {op.timer}

\* Not found: in the one slot the search never looks at.
SearchFails ==
  /\ op'.pc = "idle" /\ op'.result = "ERROR"
  /\ n >= 4 /\ heap[n - 1] = op.timer
  /\ heap' = heap /\ n' = n
  /\ Contents' = Contents

\* Not here: the timer is in another slot.
SearchMoves ==
  /\ op'.pc = "search" /\ heap[op.index] # op.timer
  /\ heap' = heap /\ n' = n
  /\ Contents' = Contents

LEMMA SerialSearchFound ==
  ASSUME SerialInv, op.pc = "search", Matches(op.index) # {}, SearchFound(op.index)
  PROVE  SerialInv' /\ op'.timer = op.timer /\ SearchFinds
<1> DEFINE p == op.index
           q == CHOOSE i \in Matches(p) : \A j \in Matches(p) : i <= j
<1>1. /\ n \in 1 .. Cap /\ Last = n - 1 /\ Last \in Slots /\ p \in 0 .. n - 1
      /\ Used = 0 .. n - 1 /\ op.timer \in Timers
  BY SearchScope
<1>2. q \in 0 .. n - 1 /\ q \in Slots /\ heap[q] = op.timer
  BY <1>1, FirstMatch, SearchScope
<1>3. /\ heap' = [heap EXCEPT ![q] = heap[n - 1]] /\ n' = n
      /\ op' = [op EXCEPT !.pc = "decLoad", !.index = q]
  BY <1>1 DEF SearchFound
<1> HIDE DEF q
<1>4. op'.pc = "decLoad" /\ op'.index = q /\ op'.timer = op.timer
  BY <1>3 DEF SerialInv, SerialType, Calls
<1>5. op' \in Calls
  BY <1>2, <1>3 DEF SerialInv, SerialType, Calls, Steps
<1>6. heap' \in [Slots -> Timers \cup {NULL}]
  BY <1>1, <1>2, <1>3, SearchScope DEF SerialInv, SerialType
<1>7. SerialType'
  BY <1>3, <1>5, <1>6 DEF SerialInv, SerialType
<1>8. Used' = 0 .. n - 2
  BY <1>1, <1>3, <1>4 DEF Used, Size, Adding, Unlinked
<1>9. \A j \in 0 .. n - 1 : heap'[j] = IF j = q THEN heap[n - 1] ELSE heap[j]
  BY <1>2, <1>3, SearchScope DEF SerialInv, SerialType
<1>10. NoTimerTwice'
  BY <1>1, <1>2, <1>8, <1>9, SearchScope DEF NoTimerTwice, Contents
<1>11. Contents' = Contents \ {op.timer}
  <2>1. Contents = {heap[j] : j \in 0 .. n - 1} /\ Contents' = {heap'[j] : j \in 0 .. n - 2}
    BY <1>1, <1>8 DEF Contents
  <2>2. ASSUME NEW x \in Contents' PROVE x \in Contents /\ x # op.timer
    <3>1. PICK j \in 0 .. n - 2 : x = heap'[j]
      BY <2>1
    <3>2. PICK k \in 0 .. n - 1 : x = heap[k] /\ k # q
      BY <1>1, <1>2, <1>9, <3>1
    <3> QED BY <1>2, <2>1, <3>2, SearchScope
  <2>3. ASSUME NEW x \in Contents, x # op.timer PROVE x \in Contents'
    <3>1. PICK j \in 0 .. n - 1 : x = heap[j]
      BY <2>1
    <3>2. j # q
      BY <1>2, <2>3, <3>1
    <3>3. CASE j = n - 1
      <4>1. q \in 0 .. n - 2 /\ heap'[q] = heap[n - 1]
        BY <1>1, <1>2, <1>9, <3>2, <3>3
      <4> QED BY <2>1, <3>1, <3>3, <4>1
    <3>4. CASE j # n - 1
      <4>1. j \in 0 .. n - 2 /\ heap'[j] = heap[j]
        BY <1>1, <1>9, <3>2, <3>4
      <4> QED BY <2>1, <3>1, <4>1
    <3> QED BY <3>3, <3>4
  <2> QED BY <2>2, <2>3
<1>12. heap'[n - 1] = heap[n - 1] /\ heap[n - 1] \in Contents
  BY <1>1, <1>2, <1>9 DEF Contents
<1>13. op.timer \notin Contents' /\ (heap'[n - 1] \in Contents' \/ heap'[n - 1] = op.timer)
  BY <1>11, <1>12
<1>14. RemovingInv'
  BY <1>1, <1>2, <1>3, <1>4, <1>13 DEF RemovingInv, Removing, Unlinked
<1>15. AddingInv'
  BY <1>4 DEF AddingInv, Adding
<1> QED
  BY <1>1, <1>2, <1>3, <1>4, <1>7, <1>10, <1>11, <1>14, <1>15
  DEF SerialInv, SearchFinds, Unlinked

LEMMA SerialSearch ==
  ASSUME SerialInv, Search
  PROVE  /\ SerialInv' /\ op'.timer = op.timer /\ op.pc = "search"
         /\ SearchFinds \/ SearchFails \/ SearchMoves
<1> DEFINE p == op.index
<1>1. op.pc = "search" /\ op.timer \in Timers
  BY SearchScope DEF Search
<1>2. /\ n \in 1 .. Cap /\ Last = n - 1 /\ Last \in Slots /\ p \in 0 .. n - 1
      /\ Used = 0 .. n - 1 /\ Compared(p) \subseteq Slots
  BY <1>1, SearchScope
<1>3. CASE Matches(p) # {} /\ SearchFound(p)
  BY <1>1, <1>3, SerialSearchFound
<1>4. CASE Matches(p) = {} /\ Left(p) > n /\ Return("ERROR") /\ heap' = heap /\ n' = n
  <2>1. n >= 4 /\ heap[n - 1] = op.timer
    BY <1>1, <1>4, SearchGivesUp
  <2>2. op'.pc = "idle" /\ op'.timer = op.timer /\ op'.result = "ERROR"
    BY <1>4 DEF SerialInv, SerialType, Calls, Return
  <2>3. op' \in Calls
    BY <1>4, FirstSlot DEF SerialInv, SerialType, Calls, Return, Steps
  <2>4. SerialType'
    BY <1>4, <2>3 DEF SerialInv, SerialType
  <2>5. Used' = Used /\ Contents' = Contents
    BY <1>2, <1>4, <2>2 DEF Used, Size, Adding, Unlinked, Contents
  <2>6. SerialInv'
    BY <1>4, <2>2, <2>4, <2>5
    DEF SerialInv, NoTimerTwice, AddingInv, RemovingInv, Adding, Removing, Unlinked
  <2> QED
    BY <1>1, <1>4, <2>1, <2>2, <2>5, <2>6 DEF SearchFails
<1>5. CASE /\ Matches(p) = {} /\ ~(Left(p) > n) /\ heap' = heap /\ n' = n
           /\ op' = [op EXCEPT !.index = p + 1]
  <2>1. p + 1 < n /\ 2 * (p + 1) <= n + 1
    <3>1. 2 * p + 1 <= n
      BY <1>2, <1>5 DEF Left
    <3>2. n # 1
      <4> SUFFICES ASSUME n = 1 PROVE FALSE
        OBVIOUS
      <4>1. p = 0 /\ heap[0] = op.timer
        BY <1>1, <1>2, SearchScope DEF Contents
      <4> QED BY <1>5, <4>1 DEF Matches, Compared
    <3> QED BY <1>2, <3>1, <3>2
  <2>2. op'.pc = "search" /\ op'.timer = op.timer /\ op'.index = p + 1
    BY <1>1, <1>5 DEF SerialInv, SerialType, Calls
  <2>3. op' \in Calls
    <3>1. p + 1 \in Slots
      BY <1>2, <2>1, CapAssumption DEF Slots
    <3> QED BY <1>5, <3>1 DEF SerialInv, SerialType, Calls
  <2>4. SerialType'
    BY <1>5, <2>3 DEF SerialInv, SerialType
  <2>5. Used' = Used /\ Contents' = Contents
    BY <1>2, <1>5, <2>2 DEF Used, Size, Adding, Unlinked, Contents
  <2>6. \A k \in 0 .. p : Matches(k)' = {}
    <3>1. \A k \in 0 .. p : Matches(k) = {}
      <4>1. \A k \in 0 .. p - 1 : Matches(k) = {}
        BY <1>1 DEF SerialInv, RemovingInv
      <4> QED BY <1>2, <1>5, <4>1
    <3>2. ASSUME NEW k PROVE Matches(k)' = Matches(k)
      BY <1>5, <2>2 DEF Matches, Compared, Last
    <3> QED BY <3>1, <3>2
  <2>7. RemovingInv'
    <3>1. op.timer \in Contents /\ p \in Int
      BY <1>1, <1>2, SearchScope
    <3> QED BY <1>1, <1>5, <2>1, <2>2, <2>5, <2>6, <3>1 DEF RemovingInv, Removing, Unlinked
  <2>8. SerialInv'
    BY <2>2, <2>4, <2>5, <2>7, <1>5 DEF SerialInv, NoTimerTwice, AddingInv, Adding
  <2>9. heap[p] # op.timer
    BY <1>5 DEF Matches, Compared
  <2> QED BY <1>1, <1>5, <2>2, <2>5, <2>8, <2>9 DEF SearchMoves
<1> QED
  BY <1>2, <1>3, <1>4, <1>5 DEF Search

LEMMA SerialDecLoad ==
  ASSUME SerialInv, DecLoad
  PROVE  /\ SerialInv' /\ Contents' = Contents /\ Used' = Used
         /\ op.pc = "decLoad" /\ op'.pc = "decStore" /\ op'.timer = op.timer
         /\ op'.index = op.index /\ heap' = heap /\ n' = n
<1>1. /\ op.pc = "decLoad" /\ heap' = heap /\ n' = n
      /\ op'.pc = "decStore" /\ op'.timer = op.timer /\ op'.count = n
      /\ op'.index = op.index
  BY DEF SerialInv, SerialType, Calls, DecLoad
<1>2. op' \in Calls
  BY DEF SerialInv, SerialType, Calls, DecLoad, Steps
<1>3. SerialType'
  BY <1>1, <1>2 DEF SerialInv, SerialType
<1>4. Used' = Used /\ Contents' = Contents
  BY <1>1 DEF Used, Contents, Size, Adding, Unlinked
<1> QED
  BY <1>1, <1>3, <1>4
  DEF SerialInv, NoTimerTwice, AddingInv, RemovingInv, Adding, Removing, Unlinked

LEMMA SerialDecStore ==
  ASSUME SerialInv, DecStore
  PROVE  /\ SerialInv' /\ Contents' = Contents /\ Used' = Used
         /\ op.pc = "decStore" /\ op'.pc = "down" /\ op'.timer = op.timer
         /\ op'.index = op.index /\ heap' = heap /\ n' = n - 1
<1>1. /\ op.pc = "decStore" /\ op.count = n /\ n \in 1 .. Cap /\ op.index \in 0 .. n - 1
      /\ op.timer \in Timers /\ op.timer \notin Contents
      /\ heap[n - 1] \in Contents \cup {op.timer}
  BY CapAssumption
  DEF SerialInv, SerialType, Calls, Slots, RemovingInv, Removing, Unlinked, DecStore
<1>2. n - 1 \in 0 .. Modulus - 1
  BY <1>1, CapAssumption, ModulusAssumption
<1>3. heap' = heap /\ n' = n - 1 /\ op' = [op EXCEPT !.pc = "down"]
  BY <1>1, <1>2, ModSmall DEF DecStore
<1>4. op'.pc = "down" /\ op'.index = op.index /\ op'.timer = op.timer /\ op' \in Calls
  BY <1>3 DEF SerialInv, SerialType, Calls, Steps
<1>5. SerialType'
  BY <1>1, <1>3, <1>4, CapAssumption DEF SerialInv, SerialType
<1>6. Used' = Used /\ Contents' = Contents
  BY <1>1, <1>3, <1>4 DEF Used, Contents, Size, Adding, Unlinked
<1>7. heap[n - 1] \in Timers
  BY <1>1 DEF SerialInv, NoTimerTwice
<1>8. RemovingInv'
  BY <1>1, <1>3, <1>4, <1>6, <1>7, CapAssumption DEF RemovingInv, Removing, Unlinked
<1> QED
  BY <1>1, <1>3, <1>4, <1>5, <1>6, <1>8 DEF SerialInv, NoTimerTwice, AddingInv, Adding

LEMMA SerialDownHeapify ==
  ASSUME SerialInv, DownHeapify
  PROVE  /\ SerialInv' /\ Contents' = Contents /\ Used' = Used
         /\ op.pc = "down" /\ op'.timer = op.timer /\ n' = n
         /\ op.timer \notin Contents
         /\ \/ op'.pc = "down"
            \/ op'.pc = "idle" /\ op'.result = "OK" /\ heap' = heap
<1> DEFINE p == op.index
           c == SmallerChild(op.index)
<1>1. /\ op.pc = "down" /\ n \in 0 .. Cap - 1 /\ p \in 0 .. n
      /\ heap[n] \in Timers /\ op.timer \notin Contents /\ op.timer \in Timers
  BY CapAssumption DEF SerialInv, SerialType, Calls, Slots, RemovingInv, Removing, DownHeapify
<1>2. Used = 0 .. n - 1
  BY <1>1 DEF Used, Size, Adding, Unlinked
<1>3. \A j \in 0 .. n : heap[j] \in Timers /\ j \in Slots /\ Readable(j)
  <2>1. \A j \in 0 .. n - 1 : heap[j] \in Timers
    BY <1>2 DEF SerialInv, NoTimerTwice, Contents
  <2> QED BY <1>1, <2>1, NullAssumption, CapAssumption DEF Slots, Readable
<1>4. DownReads(p) \subseteq 0 .. n
  BY <1>1 DEF DownReads, Left, Right
<1>5. CASE Return("OK") /\ heap' = heap /\ n' = n
  <2>1. op'.pc = "idle" /\ op'.timer = op.timer /\ op'.result = "OK"
    BY <1>5 DEF SerialInv, SerialType, Calls, Return
  <2>2. op' \in Calls
    BY <1>5, FirstSlot DEF SerialInv, SerialType, Calls, Return, Steps
  <2>3. SerialType'
    BY <1>5, <2>2 DEF SerialInv, SerialType
  <2>4. Used' = Used /\ Contents' = Contents
    BY <1>1, <1>5, <2>1 DEF Used, Size, Adding, Unlinked, Contents
  <2> QED
    BY <1>1, <1>5, <2>1, <2>3, <2>4
    DEF SerialInv, NoTimerTwice, AddingInv, RemovingInv, Adding, Removing, Unlinked
<1>6. CASE /\ Right(p) < n /\ heap' = [heap EXCEPT ![p] = heap[c], ![c] = heap[p]]
           /\ n' = n /\ op' = [op EXCEPT !.index = c]
  <2>1. c \in 0 .. n - 1 /\ p \in 0 .. n - 1 /\ c # p /\ c \in Slots
    BY <1>1, <1>3, <1>6 DEF SmallerChild, Left, Right
  <2> HIDE DEF c
  <2>2. op'.pc = "down" /\ op'.timer = op.timer /\ op'.index = c /\ op' \in Calls
    BY <1>1, <1>6, <2>1 DEF SerialInv, SerialType, Calls
  <2>3. heap' \in [Slots -> Timers \cup {NULL}]
    BY <1>1, <1>3, <1>6, <2>1 DEF SerialInv, SerialType
  <2>4. SerialType'
    BY <1>6, <2>2, <2>3 DEF SerialInv, SerialType
  <2>5. Used' = 0 .. n - 1
    BY <1>6, <2>2 DEF Used, Size, Adding, Unlinked
  <2>6. \A j \in 0 .. n : heap'[j] = IF j = p THEN heap[c]
                                     ELSE IF j = c THEN heap[p] ELSE heap[j]
    BY <1>1, <1>3, <1>6, <2>1 DEF SerialInv, SerialType
  <2>7. \A j, k \in 0 .. n - 1 : heap[j] = heap[k] => j = k
    BY <1>2 DEF SerialInv, NoTimerTwice
  <2>8. NoTimerTwice'
    BY <1>1, <1>3, <2>1, <2>5, <2>6, <2>7 DEF NoTimerTwice, Contents
  <2>9. Contents' = Contents
    <3> HIDE DEF p
    <3>1. /\ Contents = {heap[j] : j \in 0 .. n - 1}
          /\ Contents' = {heap'[j] : j \in 0 .. n - 1}
      BY <1>2, <2>5 DEF Contents
    <3>2. \A j \in 0 .. n - 1 : j \in 0 .. n
      BY <1>1
    <3>3. ASSUME NEW x \in Contents PROVE x \in Contents'
      <4>1. PICK j \in 0 .. n - 1 : x = heap[j]
        BY <3>1
      <4>2. CASE j = p
        BY <2>1, <2>6, <3>1, <3>2, <4>1, <4>2
      <4>3. CASE j = c
        BY <2>1, <2>6, <3>1, <3>2, <4>1, <4>3
      <4>4. CASE j # p /\ j # c
        BY <2>1, <2>6, <3>1, <3>2, <4>1, <4>4
      <4> QED BY <4>2, <4>3, <4>4
    <3>4. ASSUME NEW x \in Contents' PROVE x \in Contents
      <4>1. PICK j \in 0 .. n - 1 : x = heap'[j]
        BY <3>1
      <4> QED BY <2>1, <2>6, <3>1, <3>2, <4>1
    <3> QED BY <3>3, <3>4
  <2>10. heap'[n] \in Timers
    BY <1>1, <1>3, <2>1, <2>6
  <2>11. RemovingInv'
    <3>1. /\ n' = n /\ n < Cap /\ c <= n
          /\ op'.pc = "down" /\ op'.timer = op.timer /\ op'.index = c
      BY <1>1, <1>6, <2>1, <2>2, CapAssumption
    <3>2. heap'[n'] \in Timers /\ op'.timer \in Timers /\ op'.timer \notin Contents'
      BY <1>1, <2>9, <2>10, <3>1
    <3> QED BY <3>1, <3>2 DEF RemovingInv, Removing, Unlinked
  <2> QED
    BY <1>1, <1>2, <1>6, <2>2, <2>4, <2>5, <2>8, <2>9, <2>11 DEF SerialInv, AddingInv, Adding
<1> QED
  BY <1>3, <1>4, <1>5, <1>6 DEF DownHeapify, Swap

-----------------------------------------------------------------------------
(***************************************************************************)
(* What a further step of the call does, in one place: an addition keeps   *)
(* the contents, a removal takes its timer out when it finds it, and       *)
(* nothing ever faults.                                                    *)
(***************************************************************************)
THEOREM SerialStep ==
  ASSUME SerialInv, HeapStep
  PROVE  /\ SerialInv' /\ op'.timer = op.timer /\ op.pc # "idle"
         /\ \/ Adding /\ Contents' = Contents /\ (Adding' \/ op'.pc = "idle")
            \/ op.pc = "search" /\ (SearchFinds \/ SearchFails \/ SearchMoves)
            \/ /\ Unlinked \/ op.pc = "down"
               /\ Contents' = Contents
               /\ Unlinked' \/ op'.pc \in {"down", "idle"}
<1>1. CASE UpHeapify
  BY <1>1, SerialUpHeapify DEF UpHeapify, Adding
<1>2. CASE IncLoad \/ IncStore
  BY <1>2, SerialIncLoad, SerialIncStore DEF Adding
<1>3. CASE Search
  BY <1>3, SerialSearch
<1>4. CASE DecLoad \/ DecStore
  BY <1>4, SerialDecLoad, SerialDecStore DEF Unlinked
<1>5. CASE DownHeapify
  BY <1>5, SerialDownHeapify
<1> QED BY <1>1, <1>2, <1>3, <1>4, <1>5 DEF HeapStep

\* Nothing happens to the heap.
LEMMA SerialStutter ==
  ASSUME SerialInv, UNCHANGED <<heap, n, op>>
  PROVE  SerialInv' /\ Contents' = Contents
BY DEF SerialInv, SerialType, NoTimerTwice, AddingInv, RemovingInv, Adding, Removing,
       Unlinked, Contents, Used, Size, Matches, Compared, Last

\* Whoever looks at the top of a heap that is not empty sees a timer that is in
\* it, or the one that was just found by the removal in flight.
LEMMA TopIsHeld ==
  ASSUME SerialInv, n # 0
  PROVE  heap[0] \in Timers /\ (heap[0] \in Contents \/ (Unlinked /\ heap[0] = op.timer))
<1>1. n \in 1 .. Cap
  BY CapAssumption DEF SerialInv, SerialType
<1>2. CASE ~Unlinked
  <2>1. 0 \in Used
    BY <1>1, <1>2 DEF Used, Size
  <2> QED BY <2>1 DEF Contents, SerialInv, NoTimerTwice
<1>3. CASE Unlinked /\ n # 1
  <2>1. 0 \in Used
    BY <1>1, <1>3 DEF Used, Size, Adding, Unlinked
  <2> QED BY <2>1 DEF Contents, SerialInv, NoTimerTwice
<1>4. CASE Unlinked /\ n = 1
  <2>1. heap[0] \in Contents \cup {op.timer} /\ op.timer \in Timers
    BY <1>4 DEF SerialInv, RemovingInv, Removing
  <2> QED BY <1>4, <2>1 DEF SerialInv, NoTimerTwice
<1> QED BY <1>2, <1>3, <1>4

=============================================================================
