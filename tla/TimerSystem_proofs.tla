--------------------------- MODULE TimerSystem_proofs ---------------------------
(***************************************************************************)
(* Proofs about TimerSystem.tla: what holds whatever main calls and        *)
(* whenever, whatever the processes do to each other's heap calls, for     *)
(* every number of timers, every capacity, queue, clock and protocol.      *)
(***************************************************************************)
EXTENDS TimerSystem, TLAPS

\* The heap as the application's calls see it, and as TimerTask's do.
SA == INSTANCE SharedHeap_proofs WITH op <- opA, other <- opT
ST == INSTANCE SharedHeap_proofs WITH op <- opT, other <- opA

Holding == {"posting", "restarting", "unlinking"}

(***************************************************************************)
(* The semaphore: who holds it is where its methods say; the application   *)
(* is at work in the heap only while one of its threads holds it; so is    *)
(* TimerTask while it adds.                                                *)
(***************************************************************************)
LockInv ==
  /\ \A p \in App : sem = p <=> at[p] \in Holding
  /\ sem = "task" <=> task.pc = "posting"
  /\ HeapA!Working => sem \in App
  /\ SA!Adds(opT) => sem = "task"

\* Whoever is at work on a timer has one.
HandInv ==
  /\ \A p \in App : at[p] \notin {"ready", "done"} => on[p] \in Timers
  /\ task.pc # "poll" => task.top \in Timers

SystemInv == TypeOK /\ LockInv /\ HandInv /\ SA!SharedInv

-----------------------------------------------------------------------------
(* The heap's lemmas, for its two users.                                   *)

LEMMA Constants ==
  /\ Cap \in Nat \ {0} /\ Modulus \in Nat /\ Modulus > Cap /\ NULL \notin Timers
  /\ SA!Wide /\ ST!Wide
BY CapAssumption, ModulusAssumption, NullAssumption DEF SA!Wide, ST!Wide

LEMMA SameInv == SA!SharedInv <=> ST!SharedInv
BY DEF SA!SharedInv, ST!SharedInv, SA!SharedType, ST!SharedType, SA!Written, ST!Written,
       SA!CallInv, ST!CallInv, SA!AddsInv, ST!AddsInv, SA!LeavesInv, ST!LeavesInv,
       SA!Adds, ST!Adds, SA!Leaves, ST!Leaves, SA!Slots, ST!Slots, SA!Ops, ST!Ops,
       SA!Steps, ST!Steps, SA!MinusOne, ST!MinusOne, SA!MinusTwo, ST!MinusTwo

LEMMA HeapAStep == HeapA!HeapStep <=> SA!HeapStep
<1>1. HeapA!UpHeapify <=> SA!UpHeapify
  BY DEF HeapA!UpHeapify, SA!UpHeapify, HeapA!Readable, SA!Readable, HeapA!When,
         SA!When, HeapA!Swap, SA!Swap, HeapA!Parent, SA!Parent, HeapA!Slots,
         SA!Slots, HeapA!Fault, SA!Fault
<1>2. HeapA!IncLoad <=> SA!IncLoad
  BY DEF HeapA!IncLoad, SA!IncLoad
<1>3. HeapA!IncStore <=> SA!IncStore
  BY DEF HeapA!IncStore, SA!IncStore, HeapA!Return, SA!Return
<1>4. HeapA!Search <=> SA!Search
  BY DEF HeapA!Search, SA!Search, HeapA!SearchFound, SA!SearchFound,
         HeapA!Matches, SA!Matches, HeapA!Compared, SA!Compared, HeapA!Left,
         SA!Left, HeapA!Right, SA!Right, HeapA!Last, SA!Last, HeapA!Slots,
         SA!Slots, HeapA!Fault, SA!Fault, HeapA!Return, SA!Return
<1>5. HeapA!DecLoad <=> SA!DecLoad
  BY DEF HeapA!DecLoad, SA!DecLoad
<1>6. HeapA!DecStore <=> SA!DecStore
  BY DEF HeapA!DecStore, SA!DecStore
<1>7. HeapA!DownHeapify <=> SA!DownHeapify
  BY DEF HeapA!DownHeapify, SA!DownHeapify, HeapA!DownReads, SA!DownReads,
         HeapA!Left, SA!Left, HeapA!Right, SA!Right, HeapA!Readable, SA!Readable,
         HeapA!When, SA!When, HeapA!SmallerChild, SA!SmallerChild, HeapA!Swap,
         SA!Swap, HeapA!Slots, SA!Slots, HeapA!Fault, SA!Fault, HeapA!Return,
         SA!Return
<1> QED
  BY <1>1, <1>2, <1>3, <1>4, <1>5, <1>6, <1>7 DEF HeapA!HeapStep, SA!HeapStep

LEMMA HeapTStep == HeapT!HeapStep <=> ST!HeapStep
<1>1. HeapT!UpHeapify <=> ST!UpHeapify
  BY DEF HeapT!UpHeapify, ST!UpHeapify, HeapT!Readable, ST!Readable, HeapT!When,
         ST!When, HeapT!Swap, ST!Swap, HeapT!Parent, ST!Parent, HeapT!Slots,
         ST!Slots, HeapT!Fault, ST!Fault
<1>2. HeapT!IncLoad <=> ST!IncLoad
  BY DEF HeapT!IncLoad, ST!IncLoad
<1>3. HeapT!IncStore <=> ST!IncStore
  BY DEF HeapT!IncStore, ST!IncStore, HeapT!Return, ST!Return
<1>4. HeapT!Search <=> ST!Search
  BY DEF HeapT!Search, ST!Search, HeapT!SearchFound, ST!SearchFound,
         HeapT!Matches, ST!Matches, HeapT!Compared, ST!Compared, HeapT!Left,
         ST!Left, HeapT!Right, ST!Right, HeapT!Last, ST!Last, HeapT!Slots,
         ST!Slots, HeapT!Fault, ST!Fault, HeapT!Return, ST!Return
<1>5. HeapT!DecLoad <=> ST!DecLoad
  BY DEF HeapT!DecLoad, ST!DecLoad
<1>6. HeapT!DecStore <=> ST!DecStore
  BY DEF HeapT!DecStore, ST!DecStore
<1>7. HeapT!DownHeapify <=> ST!DownHeapify
  BY DEF HeapT!DownHeapify, ST!DownHeapify, HeapT!DownReads, ST!DownReads,
         HeapT!Left, ST!Left, HeapT!Right, ST!Right, HeapT!Readable, ST!Readable,
         HeapT!When, ST!When, HeapT!SmallerChild, ST!SmallerChild, HeapT!Swap,
         ST!Swap, HeapT!Slots, ST!Slots, HeapT!Fault, ST!Fault, HeapT!Return,
         ST!Return
<1> QED
  BY <1>1, <1>2, <1>3, <1>4, <1>5, <1>6, <1>7 DEF HeapT!HeapStep, ST!HeapStep

\* What a step does to the heap is seen alike in its next state.
LEMMA HeapTypes == ASSUME SA!SharedInv' PROVE HeapTypeOK'
<1>1. (n \in 0 .. Cap \cup {Modulus - 1, Modulus - 2})' => (n \in 0 .. Modulus - 1)'
  BY CapAssumption, ModulusAssumption
<1> QED
  BY <1>1 DEF HeapTypeOK, SA!SharedInv, SA!SharedType, SA!MinusOne, SA!MinusTwo, SA!Slots,
              SA!Ops, HeapA!Ops, HeapT!Ops, SA!Steps, HeapA!Steps, HeapT!Steps

LEMMA HeapUntouched ==
  ASSUME SA!SharedInv, UNCHANGED <<heap, n, opA, opT>>
  PROVE  SA!SharedInv'
BY DEF SA!SharedInv, SA!SharedType, SA!Written, SA!CallInv, SA!AddsInv, SA!LeavesInv,
       SA!Adds, SA!Leaves, SA!Slots, SA!Ops, SA!Steps, SA!MinusOne, SA!MinusTwo

LEMMA SameInvNext == ASSUME ST!SharedInv' PROVE SA!SharedInv'
BY DEF SA!SharedInv, ST!SharedInv, SA!SharedType, ST!SharedType, SA!Written, ST!Written,
       SA!CallInv, ST!CallInv, SA!AddsInv, ST!AddsInv, SA!LeavesInv, ST!LeavesInv,
       SA!Adds, ST!Adds, SA!Leaves, ST!Leaves, SA!Slots, ST!Slots, SA!Ops, ST!Ops,
       SA!Steps, ST!Steps, SA!MinusOne, ST!MinusOne, SA!MinusTwo, ST!MinusTwo

LEMMA AppAdds ==
  ASSUME SA!SharedInv, NEW t \in Timers, ~SA!Adds(opT), opT' = opT,
         HeapA!AddToHeap(t)
  PROVE  SA!SharedInv' /\ opA.pc = "idle"
<1>1. SA!AddToHeap(t) /\ opA.pc = "idle"
  BY DEF SA!AddToHeap, HeapA!AddToHeap, SA!Slots, HeapA!Slots, SA!Fault, HeapA!Fault
<1> QED
  BY <1>1, Constants, SA!AddToHeapKeeps

LEMMA AppRemoves ==
  ASSUME SA!SharedInv, NEW t \in Timers, opT' = opT, HeapA!RemoveFromHeap(t)
  PROVE  SA!SharedInv' /\ opA.pc = "idle"
<1>1. SA!RemoveFromHeap(t) /\ opA.pc = "idle"
  BY DEF SA!RemoveFromHeap, HeapA!RemoveFromHeap
<1> QED
  BY <1>1, Constants, SA!RemoveFromHeapKeeps

LEMMA AppSteps ==
  ASSUME SA!SharedInv, opT' = opT, HeapA!HeapStep
  PROVE  SA!SharedInv' /\ HeapA!Working
<1>1. SA!HeapStep
  BY HeapAStep
<1>2. SA!Working
  BY <1>1, Constants, SA!StepOfCall DEF SA!SharedInv, SA!SharedType
<1> QED
  BY <1>1, <1>2, Constants, SA!HeapStepKeeps DEF SA!Working, HeapA!Working

LEMMA TaskAdds ==
  ASSUME SA!SharedInv, NEW t \in Timers, ~SA!Adds(opA), opA' = opA,
         HeapT!AddToHeap(t)
  PROVE  SA!SharedInv'
<1>1. ST!AddToHeap(t)
  BY DEF ST!AddToHeap, HeapT!AddToHeap, ST!Slots, HeapT!Slots, ST!Fault, HeapT!Fault
<1>2. ~ST!Adds(opA)
  BY DEF SA!Adds, ST!Adds
<1>3. ST!SharedInv'
  BY <1>1, <1>2, Constants, SameInv, ST!AddToHeapKeeps
<1> QED BY <1>3, SameInvNext

LEMMA TaskRemoves ==
  ASSUME SA!SharedInv, NEW t \in Timers, opA' = opA, HeapT!RemoveFromHeap(t)
  PROVE  SA!SharedInv' /\ ~SA!Adds(opT')
<1>1. ST!RemoveFromHeap(t)
  BY DEF ST!RemoveFromHeap, HeapT!RemoveFromHeap
<1>2. ST!SharedInv'
  BY <1>1, Constants, SameInv, ST!RemoveFromHeapKeeps
<1>3. opT'.pc = "search"
  BY DEF HeapT!RemoveFromHeap, SA!SharedInv, SA!SharedType, SA!Ops
<1> QED BY <1>2, <1>3, SameInvNext DEF SA!Adds

LEMMA TaskSteps ==
  ASSUME SA!SharedInv, opA' = opA, HeapT!HeapStep
  PROVE  SA!SharedInv' /\ (SA!Adds(opT') => SA!Adds(opT))
<1>1. ST!HeapStep
  BY HeapTStep
<1>2. ST!SharedInv /\ ST!SharedInv'
  BY <1>1, Constants, SameInv, ST!HeapStepKeeps
<1>3. ST!Adds(opT') => ST!Adds(opT)
  BY <1>1, <1>2, Constants, ST!StepOfCall DEF ST!SharedInv, ST!SharedType
<1> QED BY <1>2, <1>3, SameInvNext DEF SA!Adds, ST!Adds

-----------------------------------------------------------------------------
(* The fields of the objects after the pieces that write several of them.  *)

LEMMA Zero == 0 \in 0 .. MaxCallbacks /\ 0 \in 0 .. MaxTime
BY BoundsAssumption, TimesAssumption

LEMMA DeadlineType ==
  ASSUME now \in 0 .. MaxTime, NEW d \in 0 .. MaxTime
  PROVE  Deadline(d) \in 0 .. MaxTime
BY TimesAssumption DEF Deadline

LEMMA DueType ==
  ASSUME ObjectsTypeOK, now \in 0 .. MaxTime, NEW c \in Callbacks, NEW d \in 0 .. MaxTime
  PROVE  Due(c, d) \in [Callbacks -> CallbackFields]
<1>1. Deadline(d) \in 0 .. MaxTime
  BY DeadlineType
<1> DEFINE due == [callback EXCEPT ![c].due = Deadline(d)]
<1>2. due \in [Callbacks -> CallbackFields]
  BY <1>1 DEF ObjectsTypeOK, CallbackFields
<1>3. Due(c, d) = [due EXCEPT ![c].wanted = TRUE]
  BY DEF Due
<1> HIDE DEF due
<1> QED BY <1>2, <1>3 DEF CallbackFields

LEMMA LinkedType ==
  ASSUME ObjectsTypeOK, NEW t \in Timers, timer[t].pCb # 0
  PROVE  timer[t].pCb \in Callbacks
<1>1. timer[t].pCb \in 0 .. MaxCallbacks
  BY DEF ObjectsTypeOK, TimerFields
<1> QED BY <1>1, BoundsAssumption DEF Callbacks

LEMMA TimeoutType ==
  ASSUME ObjectsTypeOK, NEW t \in Timers
  PROVE  timer[t].timeout \in 0 .. MaxTime
BY DEF ObjectsTypeOK, TimerFields

LEMMA DeletedType ==
  ASSUME ObjectsTypeOK, NEW c \in Callbacks
  PROVE  /\ Deleted(c) \in [Callbacks -> CallbackFields]
         /\ Unwanted(c) \in [Callbacks -> CallbackFields]
<1> DEFINE dead == [callback EXCEPT ![c].status = "deleted"]
<1>1. dead \in [Callbacks -> CallbackFields]
  BY DEF ObjectsTypeOK, CallbackFields
<1>2. Deleted(c) = [dead EXCEPT ![c].wanted = FALSE]
  BY DEF Deleted
<1> HIDE DEF dead
<1>3. Deleted(c) \in [Callbacks -> CallbackFields]
  BY <1>1, <1>2 DEF CallbackFields
<1>4. Unwanted(c) \in [Callbacks -> CallbackFields]
  BY DEF ObjectsTypeOK, Unwanted, CallbackFields
<1> QED BY <1>3, <1>4

\* Timers whose fields are set two at a time, one after the other.
LEMMA SetTimerType ==
  ASSUME ObjectsTypeOK, NEW t \in Timers, NEW s \in {"Idle", "Active", "Done"}
  PROVE  /\ \A d \in 0 .. MaxTime :
              [timer EXCEPT ![t].timeout = d, ![t].state = s] \in [Timers -> TimerFields]
         /\ [timer EXCEPT ![t].pCb = 0, ![t].state = s] \in [Timers -> TimerFields]
<1>1. ASSUME NEW d \in 0 .. MaxTime
      PROVE  [timer EXCEPT ![t].timeout = d, ![t].state = s] \in [Timers -> TimerFields]
  <2> DEFINE f == [timer EXCEPT ![t].timeout = d]
  <2>1. f \in [Timers -> TimerFields]
    BY DEF ObjectsTypeOK, TimerFields
  <2> HIDE DEF f
  <2>2. [f EXCEPT ![t].state = s] \in [Timers -> TimerFields]
    BY <2>1 DEF TimerFields
  <2> QED BY <2>2 DEF f
<1>2. [timer EXCEPT ![t].pCb = 0, ![t].state = s] \in [Timers -> TimerFields]
  <2> DEFINE f == [timer EXCEPT ![t].pCb = 0]
  <2>1. f \in [Timers -> TimerFields]
    BY Zero DEF ObjectsTypeOK, TimerFields
  <2> HIDE DEF f
  <2>2. [f EXCEPT ![t].state = s] \in [Timers -> TimerFields]
    BY <2>1 DEF TimerFields
  <2> QED BY <2>2 DEF f
<1> QED BY <1>1, <1>2

LEMMA ScheduleObjects ==
  ASSUME SystemInv, NEW t \in Timers, NEW kind \in Kinds, NEW d \in Timeouts,
         Schedule(t, kind, d)
  PROVE  ObjectsTypeOK'
<1>1. d \in 0 .. MaxTime /\ kind \in {"OneShot", "Periodic"} \X Nat
  BY TimesAssumption, KindsAssumption
<1>2. whenToFire' \in [Timers -> 0 .. MaxTime]
  BY <1>1, DeadlineType DEF SystemInv, TypeOK, ObjectsTypeOK, Schedule, SetWhenToFire
<1>3. PICK c \in Callbacks :
        LET cb == IF timer[t].pCb = 0 THEN c ELSE timer[t].pCb
        IN /\ callback' = [Due(cb, d) EXCEPT ![c].status = "live",
                                             ![cb].kind = kind, ![cb].asked = d]
          /\ \E left \in Leftover :
               timer' = [timer EXCEPT ![t] =
                 [type |-> kind[1], state |-> "Active", pCb |-> cb,
                  timeout |-> IF kind[1] = "OneShot" THEN left ELSE d,
                  howMany |-> kind[2], fired |-> 0]]
  BY DEF Schedule
<1> DEFINE cb == IF timer[t].pCb = 0 THEN c ELSE timer[t].pCb
<1>4. cb \in Callbacks /\ cb \in 0 .. MaxCallbacks
  BY LinkedType, BoundsAssumption DEF SystemInv, TypeOK, Callbacks
<1> HIDE DEF cb
<1>5. callback' \in [Callbacks -> CallbackFields]
  <2> DEFINE F == Due(cb, d)
             G == [F EXCEPT ![c].status = "live"]
             H == [G EXCEPT ![cb].kind = kind]
  <2>1. F \in [Callbacks -> CallbackFields]
    BY <1>1, <1>4, DueType DEF SystemInv, TypeOK
  <2>2. callback' = [H EXCEPT ![cb].asked = d]
    BY <1>3 DEF cb
  <2> HIDE DEF F
  <2>3. G \in [Callbacks -> CallbackFields]
    BY <2>1 DEF CallbackFields
  <2> HIDE DEF G
  <2>4. H \in [Callbacks -> CallbackFields]
    BY <1>1, <1>4, <2>3 DEF CallbackFields
  <2> HIDE DEF H
  <2> QED BY <1>1, <1>4, <2>2, <2>4 DEF CallbackFields
<1>6. timer' \in [Timers -> TimerFields]
  <2>1. PICK left \in Leftover :
               timer' = [timer EXCEPT ![t] =
                 [type |-> kind[1], state |-> "Active", pCb |-> cb,
                  timeout |-> IF kind[1] = "OneShot" THEN left ELSE d,
                  howMany |-> kind[2], fired |-> 0]]
    BY <1>3 DEF cb
  <2>2. left \in 0 .. MaxTime
    BY TimesAssumption
  <2> DEFINE x == [type |-> kind[1], state |-> "Active", pCb |-> cb,
                  timeout |-> IF kind[1] = "OneShot" THEN left ELSE d,
                  howMany |-> kind[2], fired |-> 0]
  <2>3. x \in TimerFields
    BY <1>1, <1>4, <2>2 DEF TimerFields
  <2> HIDE DEF x
  <2> QED BY <2>1, <2>3 DEF x, SystemInv, TypeOK, ObjectsTypeOK
<1> QED BY <1>2, <1>5, <1>6 DEF ObjectsTypeOK

LEMMA RearmObjects ==
  ASSUME SystemInv, NEW t \in Timers, Rearm(t)
  PROVE  ObjectsTypeOK'
<1>1. timer[t].timeout \in 0 .. MaxTime
  BY TimeoutType DEF SystemInv, TypeOK
<1>2. whenToFire' \in [Timers -> 0 .. MaxTime]
  BY <1>1, DeadlineType DEF SystemInv, TypeOK, ObjectsTypeOK, Rearm, SetWhenToFire
<1>3. timer' \in [Timers -> TimerFields]
  BY DEF SystemInv, TypeOK, ObjectsTypeOK, TimerFields, Rearm
<1>4. callback' \in [Callbacks -> CallbackFields]
  <2>1. CASE callback' = callback
    BY <2>1 DEF SystemInv, TypeOK, ObjectsTypeOK
  <2>2. CASE timer[t].pCb # 0 /\ callback' = Due(timer[t].pCb, timer[t].timeout)
    BY <1>1, <2>2, DueType, LinkedType DEF SystemInv, TypeOK
  <2> QED BY <2>1, <2>2 DEF Rearm
<1> QED BY <1>2, <1>3, <1>4 DEF ObjectsTypeOK

LEMMA ChangeFiringTimeObjects ==
  ASSUME SystemInv, NEW t \in Timers, NEW d \in 0 .. MaxTime, ChangeFiringTime(t, d)
  PROVE  ObjectsTypeOK'
<1>1. Deadline(d) \in 0 .. MaxTime
  BY DeadlineType DEF SystemInv, TypeOK
<1>2. whenToFire' \in [Timers -> 0 .. MaxTime]
  BY <1>1 DEF SystemInv, TypeOK, ObjectsTypeOK, ChangeFiringTime, SetWhenToFire
<1>3. timer' \in [Timers -> TimerFields]
  BY SetTimerType DEF SystemInv, TypeOK, ChangeFiringTime
<1>4. callback' \in [Callbacks -> CallbackFields]
  <2>1. CASE callback' = callback
    BY <2>1 DEF SystemInv, TypeOK, ObjectsTypeOK
  <2>2. CASE /\ timer[t].pCb # 0
             /\ callback' = [callback EXCEPT ![timer[t].pCb].due = Deadline(d)]
    <3>1. timer[t].pCb \in Callbacks /\ callback \in [Callbacks -> CallbackFields]
      BY <2>2, LinkedType DEF SystemInv, TypeOK, ObjectsTypeOK
    <3> QED BY <1>1, <2>2, <3>1 DEF CallbackFields
  <2> QED BY <2>1, <2>2 DEF ChangeFiringTime
<1> QED BY <1>2, <1>3, <1>4 DEF ObjectsTypeOK

LEMMA NewObjects ==
  ASSUME SystemInv, NEW t \in Timers, NEW ctor, New(t, ctor)
  PROVE  ObjectsTypeOK'
<1>1. timer' \in [Timers -> TimerFields]
  <2> DEFINE x == [timer[t] EXCEPT !.type = "Invalid", !.pCb = 0, !.state = "Idle",
                                   !.timeout = 0]
  <2>1. CASE timer' = timer
    BY <2>1 DEF SystemInv, TypeOK, ObjectsTypeOK
  <2>2. CASE timer' = [timer EXCEPT ![t] = x]
    <3>1. timer[t] \in TimerFields
      BY DEF SystemInv, TypeOK, ObjectsTypeOK
    <3>2. x \in TimerFields
      BY <3>1, Zero DEF TimerFields
    <3> HIDE DEF x
    <3> QED BY <2>2, <3>2 DEF SystemInv, TypeOK, ObjectsTypeOK
  <2> QED BY <2>1, <2>2 DEF New
<1> QED BY <1>1 DEF SystemInv, TypeOK, ObjectsTypeOK, New

LEMMA UnlinkObjects ==
  ASSUME SystemInv, NEW t \in Timers, timer' = Unlinked(t), whenToFire' = whenToFire,
         callback' = IF timer[t].pCb = 0 THEN callback ELSE Deleted(timer[t].pCb)
  PROVE  ObjectsTypeOK'
<1>1. timer' \in [Timers -> TimerFields]
  BY Zero DEF SystemInv, TypeOK, ObjectsTypeOK, TimerFields, Unlinked
<1>2. callback' \in [Callbacks -> CallbackFields]
  BY DeletedType, LinkedType DEF SystemInv, TypeOK, ObjectsTypeOK
<1> QED BY <1>1, <1>2 DEF SystemInv, TypeOK, ObjectsTypeOK

LEMMA CancelObjects ==
  ASSUME SystemInv, NEW t \in Timers, Cancel(t)
  PROVE  ObjectsTypeOK'
<1>1. timer' \in [Timers -> TimerFields]
  BY SetTimerType DEF SystemInv, TypeOK, Cancel
<1>2. callback' \in [Callbacks -> CallbackFields]
  BY DeletedType, LinkedType DEF SystemInv, TypeOK, ObjectsTypeOK, Cancel
<1> QED BY <1>1, <1>2 DEF SystemInv, TypeOK, ObjectsTypeOK, Cancel

LEMMA StopObjects ==
  ASSUME SystemInv, NEW t \in Timers, Stop(t)
  PROVE  ObjectsTypeOK'
<1>1. timer' \in [Timers -> TimerFields]
  BY DEF SystemInv, TypeOK, ObjectsTypeOK, TimerFields, Stop
<1>2. callback' \in [Callbacks -> CallbackFields]
  BY DeletedType, LinkedType DEF SystemInv, TypeOK, ObjectsTypeOK, Stop
<1> QED BY <1>1, <1>2 DEF SystemInv, TypeOK, ObjectsTypeOK, Stop

LEMMA FreePool ==
  ASSUME SystemInv, NEW p \in App, Free(p)
  PROVE  PoolTypeOK'
<1>1. on[p] \in Timers /\ on[p] \in 0 .. NumTimers
  BY PoolAssumption DEF SystemInv, HandInv, Free, Timers
<1>2. CASE UNCHANGED Pool!poolVars
  BY <1>2 DEF SystemInv, TypeOK, PoolTypeOK, Pool!poolVars
<1>3. CASE /\ numberAllocated # 0
           /\ freeList' = [freeList EXCEPT ![on[p]] = firstFree]
           /\ firstFree' = on[p]
           /\ numberAllocated' = numberAllocated - 1
  <2>1. numberAllocated' \in 0 .. NumTimers
    BY <1>3, PoolAssumption DEF SystemInv, TypeOK, PoolTypeOK
  <2> QED
    BY <1>1, <1>3, <2>1 DEF SystemInv, TypeOK, PoolTypeOK
<1> QED
  BY <1>2, <1>3 DEF Free, Pool!RemoveFromPool

LEMMA OneLess ==
  ASSUME NEW q \in Seq(Timers), q # <<>>
  PROVE  Tail(q) \in Seq(Timers) /\ Len(Tail(q)) + 1 = Len(q) /\ Head(q) \in Timers
OBVIOUS

LEMMA ReceiveQueue ==
  ASSUME SystemInv, Receive
  PROVE  mq' \in Seq(Timers) /\ Len(mq') <= MaxMsg /\ Head(mq) \in Timers
<1>1. /\ Tail(mq) \in Seq(Timers) /\ Head(mq) \in Timers
      /\ Len(Tail(mq)) + 1 = Len(mq)
  BY OneLess DEF SystemInv, TypeOK, ProcessTypeOK, Receive
<1>2. Len(Tail(mq)) \in Nat /\ Len(mq) <= MaxMsg
  BY <1>1 DEF SystemInv, TypeOK, ProcessTypeOK
<1> QED BY <1>1, <1>2, BoundsAssumption DEF Receive

-----------------------------------------------------------------------------
(* One lemma per action: each keeps SystemInv.                             *)

LEMMA NewKeeps ==
  ASSUME SystemInv, NEW t \in Timers, NEW ctor, New(t, ctor)
  PROVE  SystemInv'
<1>1. SA!SharedInv'
  BY HeapUntouched DEF SystemInv, New
<1>2. PoolTypeOK'
  BY PoolAssumption
  DEF SystemInv, TypeOK, PoolTypeOK, Timers, Pool!GetFromPool, Pool!Objects, New
<1>3. ObjectsTypeOK'
  BY NewObjects
<1>4. ProcessTypeOK'
  BY DEF SystemInv, TypeOK, ProcessTypeOK, App, MainAt, RecvAt, TaskFields, New,
         Enter
<1>5. (now \in 0 .. MaxTime /\ calls \in 0 .. MaxCalls)'
  BY DEF SystemInv, TypeOK, New, Enter
<1>6. LockInv'
  BY DEF SystemInv, TypeOK, ProcessTypeOK, LockInv, App, MainAt, RecvAt, TaskFields,
         Holding, HeapA!Working, SA!Adds, New, Enter
<1>7. HandInv'
  BY DEF SystemInv, TypeOK, ProcessTypeOK, HandInv, App, MainAt, RecvAt, TaskFields,
         New, Enter
<1> QED
  BY <1>1, <1>2, <1>3, <1>4, <1>5, <1>6, <1>7, HeapTypes DEF SystemInv, TypeOK

LEMMA ScheduleKeeps ==
  ASSUME SystemInv, NEW t \in Timers, NEW kind \in Kinds, NEW d \in Timeouts,
         Schedule(t, kind, d)
  PROVE  SystemInv'
<1>1. ~SA!Adds(opT)
  BY DEF SystemInv, LockInv, Schedule, Wait
<1>2. SA!SharedInv'
  BY <1>1, AppAdds DEF SystemInv, Schedule
<1>3. PoolTypeOK'
  BY DEF SystemInv, TypeOK, PoolTypeOK, Schedule, pool
<1>4. ObjectsTypeOK'
  BY ScheduleObjects
<1>5. ProcessTypeOK'
  BY DEF SystemInv, TypeOK, ProcessTypeOK, App, MainAt, RecvAt, TaskFields,
         Schedule, MayCall, Wait, Go, Enter
<1>6. (now \in 0 .. MaxTime /\ calls \in 0 .. MaxCalls)'
  BY DEF SystemInv, TypeOK, Schedule, MayCall, Wait, Go, Enter
<1>7. LockInv'
  BY DEF SystemInv, TypeOK, ProcessTypeOK, LockInv, App, MainAt, RecvAt, TaskFields,
         Holding, HeapA!Working, SA!Adds, Schedule, MayCall, Wait, Go, Enter
<1>8. HandInv'
  BY DEF SystemInv, TypeOK, ProcessTypeOK, HandInv, App, MainAt, RecvAt, TaskFields,
         Schedule, MayCall, Wait, Go, Enter
<1> QED
  BY <1>2, <1>3, <1>4, <1>5, <1>6, <1>7, <1>8, HeapTypes DEF SystemInv, TypeOK

LEMMA StopKeeps ==
  ASSUME SystemInv, NEW t \in Timers, Stop(t)
  PROVE  SystemInv'
<1>1. SA!SharedInv'
  BY AppRemoves DEF SystemInv, Stop
<1>2. PoolTypeOK'
  BY DEF SystemInv, TypeOK, PoolTypeOK, Stop, pool
<1>3. ObjectsTypeOK'
  BY StopObjects
<1>4. ProcessTypeOK'
  BY DEF SystemInv, TypeOK, ProcessTypeOK, App, MainAt, RecvAt, TaskFields, Stop,
         Call, MayCall, Wait, Go, Enter
<1>5. (now \in 0 .. MaxTime /\ calls \in 0 .. MaxCalls)'
  BY BoundsAssumption DEF SystemInv, TypeOK, Stop, Call, MayCall, Wait, Go, Enter
<1>6. LockInv'
  BY DEF SystemInv, TypeOK, ProcessTypeOK, LockInv, App, MainAt, RecvAt, TaskFields,
         Holding, HeapA!Working, SA!Adds, Stop, Call, MayCall, Wait, Go, Enter
<1>7. HandInv'
  BY DEF SystemInv, TypeOK, ProcessTypeOK, HandInv, App, MainAt, RecvAt, TaskFields,
         Stop, Call, MayCall, Wait, Go, Enter
<1> QED
  BY <1>1, <1>2, <1>3, <1>4, <1>5, <1>6, <1>7, HeapTypes DEF SystemInv, TypeOK

LEMMA RestartKeeps ==
  ASSUME SystemInv, NEW t \in Timers, Restart(t)
  PROVE  SystemInv'
<1>1. ~SA!Adds(opT)
  BY DEF SystemInv, LockInv, Restart, Wait
<1>2. SA!SharedInv'
  BY <1>1, AppAdds, AppRemoves DEF SystemInv, Restart, Rearm
<1>3. PoolTypeOK'
  BY DEF SystemInv, TypeOK, PoolTypeOK, Restart, pool
<1>4. ObjectsTypeOK'
  BY RearmObjects DEF SystemInv, TypeOK, ObjectsTypeOK, TimerFields, Restart
<1>5. ProcessTypeOK'
  BY DEF SystemInv, TypeOK, ProcessTypeOK, App, MainAt, RecvAt, TaskFields, Restart,
         Call, MayCall, Wait, Go, Enter, Rearm
<1>6. (now \in 0 .. MaxTime /\ calls \in 0 .. MaxCalls)'
  BY BoundsAssumption
  DEF SystemInv, TypeOK, Restart, Call, MayCall, Wait, Go, Enter, Rearm
<1>7. LockInv'
  BY DEF SystemInv, TypeOK, ProcessTypeOK, LockInv, App, MainAt, RecvAt, TaskFields,
         Holding, HeapA!Working, SA!Adds, Restart, Call, MayCall, Wait, Go, Enter,
         Rearm
<1>8. HandInv'
  BY DEF SystemInv, TypeOK, ProcessTypeOK, HandInv, App, MainAt, RecvAt, TaskFields,
         Restart, Call, MayCall, Wait, Go, Enter, Rearm
<1> QED
  BY <1>2, <1>3, <1>4, <1>5, <1>6, <1>7, <1>8, HeapTypes DEF SystemInv, TypeOK

LEMMA RestartAddKeeps ==
  ASSUME SystemInv, RestartAdd
  PROVE  SystemInv'
<1>1. ~SA!Adds(opT)
  BY DEF SystemInv, LockInv, RestartAdd, App, Holding
<1>2. on["main"] \in Timers
  BY DEF SystemInv, HandInv, RestartAdd, App
<1>3. SA!SharedInv'
  BY <1>1, <1>2, AppAdds DEF SystemInv, RestartAdd, Rearm
<1>4. PoolTypeOK'
  BY DEF SystemInv, TypeOK, PoolTypeOK, RestartAdd, pool
<1>5. ObjectsTypeOK'
  BY <1>2, RearmObjects DEF RestartAdd
<1>6. ProcessTypeOK'
  BY DEF SystemInv, TypeOK, ProcessTypeOK, App, MainAt, RecvAt, TaskFields,
         RestartAdd, Rearm, Go
<1>7. (now \in 0 .. MaxTime /\ calls \in 0 .. MaxCalls)'
  BY DEF SystemInv, TypeOK, RestartAdd, Rearm, Go
<1>8. LockInv'
  BY DEF SystemInv, TypeOK, ProcessTypeOK, LockInv, App, MainAt, RecvAt, TaskFields,
         Holding, HeapA!Working, SA!Adds, RestartAdd, Rearm, Go
<1>9. HandInv'
  BY DEF SystemInv, TypeOK, ProcessTypeOK, HandInv, App, MainAt, RecvAt, TaskFields,
         RestartAdd, Rearm, Go
<1> QED
  BY <1>3, <1>4, <1>5, <1>6, <1>7, <1>8, <1>9, HeapTypes DEF SystemInv, TypeOK

LEMMA CancelKeeps ==
  ASSUME SystemInv, NEW t \in Timers, Cancel(t)
  PROVE  SystemInv'
<1>1. SA!SharedInv'
  BY HeapUntouched DEF SystemInv, Cancel
<1>2. PoolTypeOK'
  BY DEF SystemInv, TypeOK, PoolTypeOK, Cancel, pool
<1>3. ObjectsTypeOK'
  BY CancelObjects
<1>4. ProcessTypeOK'
  BY DEF SystemInv, TypeOK, ProcessTypeOK, App, MainAt, RecvAt, TaskFields, Cancel,
         Call, MayCall, Wait, Go, Enter
<1>5. (now \in 0 .. MaxTime /\ calls \in 0 .. MaxCalls)'
  BY BoundsAssumption DEF SystemInv, TypeOK, Cancel, Call, MayCall, Wait, Go, Enter
<1>6. LockInv'
  BY DEF SystemInv, TypeOK, ProcessTypeOK, LockInv, App, MainAt, RecvAt, TaskFields,
         Holding, HeapA!Working, SA!Adds, Cancel, Call, MayCall, Wait, Go, Enter
<1>7. HandInv'
  BY DEF SystemInv, TypeOK, ProcessTypeOK, HandInv, App, MainAt, RecvAt, TaskFields,
         Cancel, Call, MayCall, Wait, Go, Enter
<1> QED
  BY <1>1, <1>2, <1>3, <1>4, <1>5, <1>6, <1>7, HeapTypes DEF SystemInv, TypeOK

LEMMA DeleteKeeps ==
  ASSUME SystemInv, NEW t \in Timers, Delete(t)
  PROVE  SystemInv'
<1>1. SA!SharedInv'
  BY AppRemoves, HeapUntouched DEF SystemInv, Delete, Destroy
<1>2. PoolTypeOK'
  BY DEF SystemInv, TypeOK, PoolTypeOK, Delete, pool
<1>3. ObjectsTypeOK'
  BY DEF SystemInv, TypeOK, ObjectsTypeOK, Delete
<1>4. ProcessTypeOK'
  BY DEF SystemInv, TypeOK, ProcessTypeOK, App, MainAt, RecvAt, TaskFields, Delete,
         Call, MayCall, Wait, Go, Destroy
<1>5. (now \in 0 .. MaxTime /\ calls \in 0 .. MaxCalls)'
  BY BoundsAssumption
  DEF SystemInv, TypeOK, Delete, Call, MayCall, Wait, Go, Destroy
<1>6. LockInv'
  BY DEF SystemInv, TypeOK, ProcessTypeOK, LockInv, App, MainAt, RecvAt, TaskFields,
         Holding, HeapA!Working, SA!Adds, Delete, Call, MayCall, Wait, Go, Destroy
<1>7. HandInv'
  BY DEF SystemInv, TypeOK, ProcessTypeOK, HandInv, App, MainAt, RecvAt, TaskFields,
         Delete, Call, MayCall, Wait, Go, Destroy
<1> QED
  BY <1>1, <1>2, <1>3, <1>4, <1>5, <1>6, <1>7, HeapTypes DEF SystemInv, TypeOK

LEMMA FinishKeeps ==
  ASSUME SystemInv, Finish
  PROVE  SystemInv'
<1>1. SA!SharedInv'
  BY HeapUntouched DEF SystemInv, Finish
<1>2. PoolTypeOK'
  BY DEF SystemInv, TypeOK, PoolTypeOK, Finish, pool
<1>3. ObjectsTypeOK'
  BY DEF SystemInv, TypeOK, ObjectsTypeOK, Finish
<1>4. ProcessTypeOK'
  BY DEF SystemInv, TypeOK, ProcessTypeOK, App, MainAt, RecvAt, TaskFields, Finish,
         Go
<1>5. (now \in 0 .. MaxTime /\ calls \in 0 .. MaxCalls)'
  BY DEF SystemInv, TypeOK, Finish, Go
<1>6. LockInv'
  BY DEF SystemInv, TypeOK, ProcessTypeOK, LockInv, App, MainAt, RecvAt, TaskFields,
         Holding, HeapA!Working, SA!Adds, Finish, Go
<1>7. HandInv'
  BY DEF SystemInv, TypeOK, ProcessTypeOK, HandInv, App, MainAt, RecvAt, TaskFields,
         Finish, Go
<1> QED
  BY <1>1, <1>2, <1>3, <1>4, <1>5, <1>6, <1>7, HeapTypes DEF SystemInv, TypeOK

LEMMA AppHeapStepKeeps ==
  ASSUME SystemInv, AppHeapStep
  PROVE  SystemInv'
<1>1. SA!SharedInv'
  BY AppSteps DEF SystemInv, AppHeapStep
<1>2. PoolTypeOK'
  BY DEF SystemInv, TypeOK, PoolTypeOK, AppHeapStep, pool
<1>3. ObjectsTypeOK'
  BY DEF SystemInv, TypeOK, ObjectsTypeOK, AppHeapStep
<1>4. ProcessTypeOK'
  BY DEF SystemInv, TypeOK, ProcessTypeOK, App, MainAt, RecvAt, TaskFields,
         AppHeapStep
<1>5. (now \in 0 .. MaxTime /\ calls \in 0 .. MaxCalls)'
  BY DEF SystemInv, TypeOK, AppHeapStep
<1>6. LockInv'
  BY AppSteps
  DEF SystemInv, TypeOK, ProcessTypeOK, LockInv, App, MainAt, RecvAt, TaskFields,
      Holding, HeapA!Working, SA!Adds, AppHeapStep
<1>7. HandInv'
  BY DEF SystemInv, TypeOK, ProcessTypeOK, HandInv, App, MainAt, RecvAt, TaskFields,
         AppHeapStep
<1> QED
  BY <1>1, <1>2, <1>3, <1>4, <1>5, <1>6, <1>7, HeapTypes DEF SystemInv, TypeOK

LEMMA PostKeeps ==
  ASSUME SystemInv, NEW p \in App, Post(p)
  PROVE  SystemInv'
<1>1. SA!SharedInv'
  BY HeapUntouched DEF SystemInv, Post
<1>2. PoolTypeOK'
  BY DEF SystemInv, TypeOK, PoolTypeOK, Post, pool
<1>3. ObjectsTypeOK'
  BY DEF SystemInv, TypeOK, ObjectsTypeOK, Post
<1>4. ProcessTypeOK'
  BY Zero
  DEF SystemInv, TypeOK, ProcessTypeOK, App, MainAt, RecvAt, TaskFields,
      NothingLoaded, Post, Return, Go
<1>5. (now \in 0 .. MaxTime /\ calls \in 0 .. MaxCalls)'
  BY DEF SystemInv, TypeOK, Post, Return, Go
<1>6. LockInv'
  BY DEF SystemInv, TypeOK, ProcessTypeOK, LockInv, App, MainAt, RecvAt, TaskFields,
         Holding, HeapA!Working, SA!Adds, Post, Return, Go
<1>7. HandInv'
  BY DEF SystemInv, TypeOK, ProcessTypeOK, HandInv, App, MainAt, RecvAt, TaskFields,
         Post, Return, Go
<1> QED
  BY <1>1, <1>2, <1>3, <1>4, <1>5, <1>6, <1>7, HeapTypes DEF SystemInv, TypeOK

LEMMA UnlinkKeeps ==
  ASSUME SystemInv, NEW p \in App, Unlink(p)
  PROVE  SystemInv'
<1>1. on[p] \in Timers
  BY DEF SystemInv, HandInv, Unlink
<1>2. SA!SharedInv'
  BY HeapUntouched DEF SystemInv, Unlink
<1>3. PoolTypeOK'
  BY DEF SystemInv, TypeOK, PoolTypeOK, Unlink, pool
<1>4. ObjectsTypeOK'
  BY <1>1, UnlinkObjects DEF Unlink
<1>5. ProcessTypeOK'
  BY DEF SystemInv, TypeOK, ProcessTypeOK, App, MainAt, RecvAt, TaskFields, Unlink,
         Enter, Go
<1>6. (now \in 0 .. MaxTime /\ calls \in 0 .. MaxCalls)'
  BY DEF SystemInv, TypeOK, Unlink, Enter, Go
<1>7. LockInv'
  BY DEF SystemInv, TypeOK, ProcessTypeOK, LockInv, App, MainAt, RecvAt, TaskFields,
         Holding, HeapA!Working, SA!Adds, Unlink, Enter, Go
<1>8. HandInv'
  BY DEF SystemInv, TypeOK, ProcessTypeOK, HandInv, App, MainAt, RecvAt, TaskFields,
         Unlink, Enter, Go
<1> QED
  BY <1>2, <1>3, <1>4, <1>5, <1>6, <1>7, <1>8, HeapTypes DEF SystemInv, TypeOK

LEMMA FreeKeeps ==
  ASSUME SystemInv, NEW p \in App, Free(p)
  PROVE  SystemInv'
<1>1. SA!SharedInv'
  BY HeapUntouched DEF SystemInv, Free
<1>2. PoolTypeOK'
  BY FreePool
<1>3. ObjectsTypeOK'
  BY DEF SystemInv, TypeOK, ObjectsTypeOK, Free
<1>4. ProcessTypeOK'
  BY Zero
  DEF SystemInv, TypeOK, ProcessTypeOK, App, MainAt, RecvAt, TaskFields,
      NothingLoaded, Free, Return, Go
<1>5. (now \in 0 .. MaxTime /\ calls \in 0 .. MaxCalls)'
  BY DEF SystemInv, TypeOK, Free, Return, Go
<1>6. LockInv'
  BY DEF SystemInv, TypeOK, ProcessTypeOK, LockInv, App, MainAt, RecvAt, TaskFields,
         Holding, HeapA!Working, SA!Adds, Free, Return, Go
<1>7. HandInv'
  BY DEF SystemInv, TypeOK, ProcessTypeOK, HandInv, App, MainAt, RecvAt, TaskFields,
         Free, Return, Go
<1> QED
  BY <1>1, <1>2, <1>3, <1>4, <1>5, <1>6, <1>7, HeapTypes DEF SystemInv, TypeOK

LEMMA ReceiveKeeps ==
  ASSUME SystemInv, Receive
  PROVE  SystemInv'
<1>1. SA!SharedInv'
  BY HeapUntouched DEF SystemInv, Receive
<1>2. PoolTypeOK'
  BY DEF SystemInv, TypeOK, PoolTypeOK, Receive, pool
<1>3. ObjectsTypeOK'
  BY DEF SystemInv, TypeOK, ObjectsTypeOK, Receive
<1>4. ProcessTypeOK'
  BY ReceiveQueue
  DEF SystemInv, TypeOK, ProcessTypeOK, App, MainAt, RecvAt, TaskFields, Receive, Go
<1>5. (now \in 0 .. MaxTime /\ calls \in 0 .. MaxCalls)'
  BY DEF SystemInv, TypeOK, Receive, Go
<1>6. LockInv'
  BY DEF SystemInv, TypeOK, ProcessTypeOK, LockInv, App, MainAt, RecvAt, TaskFields,
         Holding, HeapA!Working, SA!Adds, Receive, Go
<1>7. HandInv'
  BY ReceiveQueue
  DEF SystemInv, TypeOK, ProcessTypeOK, HandInv, App, MainAt, RecvAt, TaskFields,
      Receive, Go
<1> QED
  BY <1>1, <1>2, <1>3, <1>4, <1>5, <1>6, <1>7, HeapTypes DEF SystemInv, TypeOK

LEMMA LoadKeeps ==
  ASSUME SystemInv, Load
  PROVE  SystemInv'
<1>1. on["recv"] \in Timers
  BY DEF SystemInv, HandInv, Load, App
<1>2. timer[on["recv"]] \in TimerFields
  BY <1>1 DEF SystemInv, TypeOK, ObjectsTypeOK
<1>3. loaded' \in [cb : 0 .. MaxCallbacks, again : BOOLEAN, timeout : 0 .. MaxTime]
  <2> DEFINE x == timer[on["recv"]]
  <2>1. CASE loaded' = [cb |-> x.pCb, again |-> FiresAgain(x), timeout |-> x.timeout]
    <3>1. x.pCb \in 0 .. MaxCallbacks /\ x.timeout \in 0 .. MaxTime
      BY <1>2 DEF TimerFields
    <3>2. FiresAgain(x) \in BOOLEAN
      BY DEF FiresAgain
    <3> HIDE DEF x
    <3> QED BY <2>1, <3>1, <3>2
  <2>2. CASE loaded' = NothingLoaded
    BY <2>2, Zero DEF NothingLoaded
  <2> QED BY <2>1, <2>2 DEF Load, Return
<1>4. SA!SharedInv'
  BY HeapUntouched DEF SystemInv, Load
<1>5. PoolTypeOK'
  BY DEF SystemInv, TypeOK, PoolTypeOK, Load, pool
<1>6. ObjectsTypeOK'
  BY DEF SystemInv, TypeOK, ObjectsTypeOK, Load
<1>7. ProcessTypeOK'
  BY <1>3
  DEF SystemInv, TypeOK, ProcessTypeOK, App, MainAt, RecvAt, TaskFields, Load,
      Return, Go
<1>8. (now \in 0 .. MaxTime /\ calls \in 0 .. MaxCalls)'
  BY DEF SystemInv, TypeOK, Load, Return, Go
<1>9. LockInv'
  BY DEF SystemInv, TypeOK, ProcessTypeOK, LockInv, App, MainAt, RecvAt, TaskFields,
         Holding, HeapA!Working, SA!Adds, Load, Return, Go
<1>10. HandInv'
  BY DEF SystemInv, TypeOK, ProcessTypeOK, HandInv, App, MainAt, RecvAt, TaskFields,
         Load, Return, Go
<1> QED
  BY <1>4, <1>5, <1>6, <1>7, <1>8, <1>9, <1>10, HeapTypes DEF SystemInv, TypeOK

LEMMA TriggerKeeps ==
  ASSUME SystemInv, Trigger
  PROVE  SystemInv'
<1>1. callback' \in [Callbacks -> CallbackFields]
  <2>1. CASE loaded.cb \in Callbacks
    BY <2>1 DEF SystemInv, TypeOK, ObjectsTypeOK, CallbackFields, Trigger
  <2>2. CASE loaded.cb \notin Callbacks
    BY <2>2 DEF SystemInv, TypeOK, ObjectsTypeOK, Trigger
  <2> QED BY <2>1, <2>2
<1>2. SA!SharedInv'
  BY HeapUntouched DEF SystemInv, Trigger
<1>3. PoolTypeOK'
  BY DEF SystemInv, TypeOK, PoolTypeOK, Trigger, pool
<1>4. ObjectsTypeOK'
  BY <1>1 DEF SystemInv, TypeOK, ObjectsTypeOK, Trigger
<1>5. ProcessTypeOK'
  BY DEF SystemInv, TypeOK, ProcessTypeOK, App, MainAt, RecvAt, TaskFields, Trigger,
         Go
<1>6. (now \in 0 .. MaxTime /\ calls \in 0 .. MaxCalls)'
  BY DEF SystemInv, TypeOK, Trigger, Go
<1>7. LockInv'
  BY DEF SystemInv, TypeOK, ProcessTypeOK, LockInv, App, MainAt, RecvAt, TaskFields,
         Holding, HeapA!Working, SA!Adds, Trigger, Go
<1>8. HandInv'
  BY DEF SystemInv, TypeOK, ProcessTypeOK, HandInv, App, MainAt, RecvAt, TaskFields,
         Trigger, Go
<1> QED
  BY <1>2, <1>3, <1>4, <1>5, <1>6, <1>7, <1>8, HeapTypes DEF SystemInv, TypeOK

LEMMA RecvRearmKeeps ==
  ASSUME SystemInv, RecvRearm
  PROVE  SystemInv'
<1>1. ~SA!Adds(opT)
  BY DEF SystemInv, LockInv, RecvRearm, Wait
<1>2. on["recv"] \in Timers /\ loaded.timeout \in 0 .. MaxTime
  BY DEF SystemInv, TypeOK, ProcessTypeOK, HandInv, RecvRearm, App
<1>3. SA!SharedInv'
  BY <1>1, <1>2, AppAdds DEF SystemInv, RecvRearm
<1>4. PoolTypeOK'
  BY DEF SystemInv, TypeOK, PoolTypeOK, RecvRearm, pool
<1>5. ObjectsTypeOK'
  BY <1>2, ChangeFiringTimeObjects DEF RecvRearm
<1>6. ProcessTypeOK'
  BY DEF SystemInv, TypeOK, ProcessTypeOK, App, MainAt, RecvAt, TaskFields,
         RecvRearm, Wait, Go
<1>7. (now \in 0 .. MaxTime /\ calls \in 0 .. MaxCalls)'
  BY DEF SystemInv, TypeOK, RecvRearm, Wait, Go
<1>8. LockInv'
  BY DEF SystemInv, TypeOK, ProcessTypeOK, LockInv, App, MainAt, RecvAt, TaskFields,
         Holding, HeapA!Working, SA!Adds, RecvRearm, Wait, Go
<1>9. HandInv'
  BY DEF SystemInv, TypeOK, ProcessTypeOK, HandInv, App, MainAt, RecvAt, TaskFields,
         RecvRearm, Wait, Go
<1> QED
  BY <1>3, <1>4, <1>5, <1>6, <1>7, <1>8, <1>9, HeapTypes DEF SystemInv, TypeOK

LEMMA RecvDeleteKeeps ==
  ASSUME SystemInv, RecvDelete
  PROVE  SystemInv'
<1>1. on["recv"] \in Timers
  BY DEF SystemInv, HandInv, RecvDelete, App
<1>2. SA!SharedInv'
  BY <1>1, AppRemoves, HeapUntouched DEF SystemInv, RecvDelete, Destroy
<1>3. PoolTypeOK'
  BY DEF SystemInv, TypeOK, PoolTypeOK, RecvDelete, pool
<1>4. ObjectsTypeOK'
  BY DEF SystemInv, TypeOK, ObjectsTypeOK, RecvDelete
<1>5. ProcessTypeOK'
  BY DEF SystemInv, TypeOK, ProcessTypeOK, App, MainAt, RecvAt, TaskFields,
         RecvDelete, Destroy, Wait, Go
<1>6. (now \in 0 .. MaxTime /\ calls \in 0 .. MaxCalls)'
  BY DEF SystemInv, TypeOK, RecvDelete, Destroy, Wait, Go
<1>7. LockInv'
  BY DEF SystemInv, TypeOK, ProcessTypeOK, LockInv, App, MainAt, RecvAt, TaskFields,
         Holding, HeapA!Working, SA!Adds, RecvDelete, Destroy, Wait, Go
<1>8. HandInv'
  BY DEF SystemInv, TypeOK, ProcessTypeOK, HandInv, App, MainAt, RecvAt, TaskFields,
         RecvDelete, Destroy, Wait, Go
<1> QED
  BY <1>2, <1>3, <1>4, <1>5, <1>6, <1>7, <1>8, HeapTypes DEF SystemInv, TypeOK

LEMMA PeekKeeps ==
  ASSUME SystemInv, Peek
  PROVE  SystemInv'
<1>1. heap[0] \in Timers
  BY Constants, SA!CountedTopIsWritten DEF SystemInv, Peek
<1>2. whenToFire[heap[0]] \in 0 .. MaxTime
  BY <1>1 DEF SystemInv, TypeOK, ObjectsTypeOK
<1>3. SA!SharedInv'
  BY HeapUntouched DEF SystemInv, Peek
<1>4. PoolTypeOK'
  BY DEF SystemInv, TypeOK, PoolTypeOK, Peek, pool
<1>5. ObjectsTypeOK'
  BY DEF SystemInv, TypeOK, ObjectsTypeOK, Peek
<1>6. ProcessTypeOK'
  BY <1>1, <1>2
  DEF SystemInv, TypeOK, ProcessTypeOK, App, MainAt, RecvAt, TaskFields, Peek
<1>7. (now \in 0 .. MaxTime /\ calls \in 0 .. MaxCalls)'
  BY DEF SystemInv, TypeOK, Peek
<1>8. LockInv'
  BY DEF SystemInv, TypeOK, ProcessTypeOK, LockInv, App, MainAt, RecvAt, TaskFields,
         Holding, HeapA!Working, SA!Adds, Peek
<1>9. HandInv'
  BY <1>1
  DEF SystemInv, TypeOK, ProcessTypeOK, HandInv, App, MainAt, RecvAt, TaskFields,
      Peek
<1> QED
  BY <1>3, <1>4, <1>5, <1>6, <1>7, <1>8, <1>9, HeapTypes DEF SystemInv, TypeOK

LEMMA ReadKeeps ==
  ASSUME SystemInv, Read
  PROVE  SystemInv'
<1>1. task.top \in Timers
  BY DEF SystemInv, HandInv, Read
<1>2. timer[task.top] \in TimerFields
  BY <1>1 DEF SystemInv, TypeOK, ObjectsTypeOK
<1>3. SA!SharedInv'
  BY HeapUntouched DEF SystemInv, Read
<1>4. PoolTypeOK'
  BY DEF SystemInv, TypeOK, PoolTypeOK, Read, pool
<1>5. ObjectsTypeOK'
  BY DEF SystemInv, TypeOK, ObjectsTypeOK, Read
<1>6. ProcessTypeOK'
  BY <1>2
  DEF SystemInv, TypeOK, ProcessTypeOK, App, MainAt, RecvAt, TaskFields,
      TimerFields, Read
<1>7. (now \in 0 .. MaxTime /\ calls \in 0 .. MaxCalls)'
  BY DEF SystemInv, TypeOK, Read
<1>8. LockInv'
  BY DEF SystemInv, TypeOK, ProcessTypeOK, LockInv, App, MainAt, RecvAt, TaskFields,
         Holding, HeapA!Working, SA!Adds, Read
<1>9. HandInv'
  BY DEF SystemInv, TypeOK, ProcessTypeOK, HandInv, App, MainAt, RecvAt, TaskFields,
         Read
<1> QED
  BY <1>3, <1>4, <1>5, <1>6, <1>7, <1>8, <1>9, HeapTypes DEF SystemInv, TypeOK

LEMMA LookKeeps ==
  ASSUME SystemInv, Look
  PROVE  SystemInv'
<1>1. task.top \in Timers
  BY DEF SystemInv, HandInv, Look
<1>2. SA!SharedInv'
  BY <1>1, TaskRemoves, HeapUntouched DEF SystemInv, Look
<1>3. PoolTypeOK'
  BY DEF SystemInv, TypeOK, PoolTypeOK, Look, pool
<1>4. ObjectsTypeOK'
  BY <1>1 DEF SystemInv, TypeOK, ObjectsTypeOK, TimerFields, Fired, Look
<1>5. ProcessTypeOK'
  BY Zero
  DEF SystemInv, TypeOK, ProcessTypeOK, App, MainAt, RecvAt, TaskFields, Polling,
      Look
<1>6. (now \in 0 .. MaxTime /\ calls \in 0 .. MaxCalls)'
  BY DEF SystemInv, TypeOK, Look
<1>7. LockInv'
  BY <1>1, TaskRemoves
  DEF SystemInv, TypeOK, ProcessTypeOK, LockInv, App, MainAt, RecvAt, TaskFields,
      Holding, HeapA!Working, SA!Adds, Polling, Look
<1>8. HandInv'
  BY DEF SystemInv, TypeOK, ProcessTypeOK, HandInv, App, MainAt, RecvAt, TaskFields,
         Polling, Look
<1> QED
  BY <1>2, <1>3, <1>4, <1>5, <1>6, <1>7, <1>8, HeapTypes DEF SystemInv, TypeOK

LEMMA TaskHeapStepKeeps ==
  ASSUME SystemInv, TaskHeapStep
  PROVE  SystemInv'
<1>1. SA!SharedInv'
  BY TaskSteps DEF SystemInv, TaskHeapStep
<1>2. PoolTypeOK'
  BY DEF SystemInv, TypeOK, PoolTypeOK, TaskHeapStep, pool
<1>3. ObjectsTypeOK'
  BY DEF SystemInv, TypeOK, ObjectsTypeOK, TaskHeapStep
<1>4. ProcessTypeOK'
  BY DEF SystemInv, TypeOK, ProcessTypeOK, App, MainAt, RecvAt, TaskFields,
         TaskHeapStep
<1>5. (now \in 0 .. MaxTime /\ calls \in 0 .. MaxCalls)'
  BY DEF SystemInv, TypeOK, TaskHeapStep
<1>6. LockInv'
  BY TaskSteps
  DEF SystemInv, TypeOK, ProcessTypeOK, LockInv, App, MainAt, RecvAt, TaskFields,
      Holding, HeapA!Working, SA!Adds, TaskHeapStep
<1>7. HandInv'
  BY DEF SystemInv, TypeOK, ProcessTypeOK, HandInv, App, MainAt, RecvAt, TaskFields,
         TaskHeapStep
<1> QED
  BY <1>1, <1>2, <1>3, <1>4, <1>5, <1>6, <1>7, HeapTypes DEF SystemInv, TypeOK

LEMMA MarkDoneKeeps ==
  ASSUME SystemInv, MarkDone
  PROVE  SystemInv'
<1>1. task.top \in Timers
  BY DEF SystemInv, HandInv, MarkDone
<1>2. SA!SharedInv'
  BY HeapUntouched DEF SystemInv, MarkDone
<1>3. PoolTypeOK'
  BY DEF SystemInv, TypeOK, PoolTypeOK, MarkDone, pool
<1>4. ObjectsTypeOK'
  BY <1>1 DEF SystemInv, TypeOK, ObjectsTypeOK, TimerFields, MarkDone
<1>5. ProcessTypeOK'
  BY DEF SystemInv, TypeOK, ProcessTypeOK, App, MainAt, RecvAt, TaskFields, MarkDone
<1>6. (now \in 0 .. MaxTime /\ calls \in 0 .. MaxCalls)'
  BY DEF SystemInv, TypeOK, MarkDone
<1>7. LockInv'
  BY DEF SystemInv, TypeOK, ProcessTypeOK, LockInv, App, MainAt, RecvAt, TaskFields,
         Holding, HeapA!Working, SA!Adds, MarkDone
<1>8. HandInv'
  BY DEF SystemInv, TypeOK, ProcessTypeOK, HandInv, App, MainAt, RecvAt, TaskFields,
         MarkDone
<1> QED
  BY <1>2, <1>3, <1>4, <1>5, <1>6, <1>7, <1>8, HeapTypes DEF SystemInv, TypeOK

LEMMA SendKeeps ==
  ASSUME SystemInv, Send
  PROVE  SystemInv'
<1>1. mq' \in Seq(Timers) /\ Len(mq') <= MaxMsg
  BY BoundsAssumption DEF SystemInv, TypeOK, ProcessTypeOK, HandInv, Send, HasRoom
<1>2. SA!SharedInv'
  BY HeapUntouched DEF SystemInv, Send
<1>3. PoolTypeOK'
  BY DEF SystemInv, TypeOK, PoolTypeOK, Send, pool
<1>4. ObjectsTypeOK'
  BY DEF SystemInv, TypeOK, ObjectsTypeOK, Send
<1>5. ProcessTypeOK'
  BY <1>1, Zero
  DEF SystemInv, TypeOK, ProcessTypeOK, App, MainAt, RecvAt, TaskFields, Send,
      Polling
<1>6. (now \in 0 .. MaxTime /\ calls \in 0 .. MaxCalls)'
  BY DEF SystemInv, TypeOK, Send, Polling
<1>7. LockInv'
  BY DEF SystemInv, TypeOK, ProcessTypeOK, LockInv, App, MainAt, RecvAt, TaskFields,
         Holding, HeapA!Working, SA!Adds, Send, Polling
<1>8. HandInv'
  BY DEF SystemInv, TypeOK, ProcessTypeOK, HandInv, App, MainAt, RecvAt, TaskFields,
         Send, Polling
<1> QED
  BY <1>2, <1>3, <1>4, <1>5, <1>6, <1>7, <1>8, HeapTypes DEF SystemInv, TypeOK

LEMMA TaskRearmKeeps ==
  ASSUME SystemInv, TaskRearm
  PROVE  SystemInv'
<1>1. ~SA!Adds(opA)
  BY DEF SystemInv, LockInv, TaskRearm, Wait, App, HeapA!Working, SA!Adds
<1>2. task.top \in Timers /\ task.timeout \in 0 .. MaxTime
  BY DEF SystemInv, TypeOK, ProcessTypeOK, TaskFields, HandInv, TaskRearm
<1>3. SA!SharedInv'
  BY <1>1, <1>2, TaskAdds DEF SystemInv, TaskRearm
<1>4. PoolTypeOK'
  BY DEF SystemInv, TypeOK, PoolTypeOK, TaskRearm, pool
<1>5. ObjectsTypeOK'
  BY <1>2, ChangeFiringTimeObjects DEF TaskRearm
<1>6. ProcessTypeOK'
  BY DEF SystemInv, TypeOK, ProcessTypeOK, App, MainAt, RecvAt, TaskFields,
         TaskRearm, Wait
<1>7. (now \in 0 .. MaxTime /\ calls \in 0 .. MaxCalls)'
  BY DEF SystemInv, TypeOK, TaskRearm, Wait
<1>8. LockInv'
  BY DEF SystemInv, TypeOK, ProcessTypeOK, LockInv, App, MainAt, RecvAt, TaskFields,
         Holding, HeapA!Working, SA!Adds, TaskRearm, Wait
<1>9. HandInv'
  BY DEF SystemInv, TypeOK, ProcessTypeOK, HandInv, App, MainAt, RecvAt, TaskFields,
         TaskRearm, Wait
<1> QED
  BY <1>3, <1>4, <1>5, <1>6, <1>7, <1>8, <1>9, HeapTypes DEF SystemInv, TypeOK

LEMMA TaskPostKeeps ==
  ASSUME SystemInv, TaskPost
  PROVE  SystemInv'
<1>1. SA!SharedInv'
  BY HeapUntouched DEF SystemInv, TaskPost
<1>2. PoolTypeOK'
  BY DEF SystemInv, TypeOK, PoolTypeOK, TaskPost, pool
<1>3. ObjectsTypeOK'
  BY DEF SystemInv, TypeOK, ObjectsTypeOK, TaskPost
<1>4. ProcessTypeOK'
  BY Zero
  DEF SystemInv, TypeOK, ProcessTypeOK, App, MainAt, RecvAt, TaskFields, TaskPost,
      Polling
<1>5. (now \in 0 .. MaxTime /\ calls \in 0 .. MaxCalls)'
  BY DEF SystemInv, TypeOK, TaskPost, Polling
<1>6. LockInv'
  BY DEF SystemInv, TypeOK, ProcessTypeOK, LockInv, App, MainAt, RecvAt, TaskFields,
         Holding, HeapA!Working, SA!Adds, TaskPost, Polling
<1>7. HandInv'
  BY DEF SystemInv, TypeOK, ProcessTypeOK, HandInv, App, MainAt, RecvAt, TaskFields,
         TaskPost, Polling
<1> QED
  BY <1>1, <1>2, <1>3, <1>4, <1>5, <1>6, <1>7, HeapTypes DEF SystemInv, TypeOK

LEMMA TickKeeps ==
  ASSUME SystemInv, Tick
  PROVE  SystemInv'
<1>1. SA!SharedInv'
  BY HeapUntouched DEF SystemInv, Tick
<1>2. PoolTypeOK'
  BY DEF SystemInv, TypeOK, PoolTypeOK, Tick, pool
<1>3. ObjectsTypeOK'
  BY DEF SystemInv, TypeOK, ObjectsTypeOK, Tick
<1>4. ProcessTypeOK'
  BY DEF SystemInv, TypeOK, ProcessTypeOK, App, MainAt, RecvAt, TaskFields, Tick
<1>5. (now \in 0 .. MaxTime /\ calls \in 0 .. MaxCalls)'
  BY TimesAssumption DEF SystemInv, TypeOK, Tick
<1>6. LockInv'
  BY DEF SystemInv, TypeOK, ProcessTypeOK, LockInv, App, MainAt, RecvAt, TaskFields,
         Holding, HeapA!Working, SA!Adds, Tick
<1>7. HandInv'
  BY DEF SystemInv, TypeOK, ProcessTypeOK, HandInv, App, MainAt, RecvAt, TaskFields,
         Tick
<1> QED
  BY <1>1, <1>2, <1>3, <1>4, <1>5, <1>6, <1>7, HeapTypes DEF SystemInv, TypeOK

-----------------------------------------------------------------------------
LEMMA InitKeeps == Init => SystemInv
<1> SUFFICES ASSUME Init PROVE SystemInv
  OBVIOUS
<1>1. HeapTypeOK
  BY CapAssumption, ModulusAssumption
  DEF Init, HeapTypeOK, HeapA!HeapInit, HeapT!HeapInit, HeapA!NoOp, HeapT!NoOp,
      HeapA!Ops, HeapT!Ops, HeapA!Steps, HeapT!Steps, HeapA!Slots, HeapT!Slots
<1>2. PoolTypeOK
  BY PoolAssumption DEF Init, PoolTypeOK, Pool!PoolInit, Pool!Objects, Timers
<1>3. ObjectsTypeOK
  BY Zero DEF Init, ObjectsTypeOK, TimerFields, CallbackFields, NoCallback
<1>4. ProcessTypeOK
  BY Zero, BoundsAssumption
  DEF Init, ProcessTypeOK, App, MainAt, RecvAt, TaskFields, NothingLoaded, Polling
<1>5. now \in 0 .. MaxTime /\ calls \in 0 .. MaxCalls
  BY BoundsAssumption, TimesAssumption DEF Init
<1>6. LockInv
  BY DEF Init, LockInv, App, Holding, Polling, HeapA!Working, SA!Adds,
         HeapA!HeapInit, HeapT!HeapInit, HeapA!NoOp, HeapT!NoOp
<1>7. HandInv
  BY DEF Init, HandInv, App, Polling
<1>8. SA!SharedInv
  <2>1. ~SA!Adds(opA) /\ ~SA!Adds(opT) /\ ~SA!Leaves(opA) /\ ~SA!Leaves(opT)
    BY DEF Init, HeapA!HeapInit, HeapT!HeapInit, HeapA!NoOp, HeapT!NoOp, SA!Adds,
           SA!Leaves
  <2>2. n = 0 /\ \A i \in 0 .. Cap - 1 : ~(i < 0)
    BY DEF Init, HeapA!HeapInit
  <2> QED
    BY <1>1, <2>1, <2>2, CapAssumption
    DEF HeapTypeOK, SA!SharedInv, SA!SharedType, SA!CallInv, SA!Written, SA!Slots,
        SA!Ops, HeapA!Ops, HeapT!Ops, SA!Steps, HeapA!Steps, HeapT!Steps
<1> QED
  BY <1>1, <1>2, <1>3, <1>4, <1>5, <1>6, <1>7, <1>8 DEF SystemInv, TypeOK

LEMMA NextKeeps == SystemInv /\ [Next]_vars => SystemInv'
<1> SUFFICES ASSUME SystemInv, [Next]_vars PROVE SystemInv'
  OBVIOUS
<1>1. ASSUME NEW t \in Timers, NEW ctor \in Ctors, New(t, ctor) PROVE SystemInv'
  BY <1>1, NewKeeps
<1>2. ASSUME NEW t \in Timers, NEW kind \in Kinds, NEW d \in Timeouts,
             Schedule(t, kind, d)
      PROVE  SystemInv'
  BY <1>2, ScheduleKeeps
<1>3. ASSUME NEW t \in Timers, Stop(t) \/ Restart(t) \/ Cancel(t) \/ Delete(t)
      PROVE  SystemInv'
  BY <1>3, StopKeeps, RestartKeeps, CancelKeeps, DeleteKeeps
<1>4. CASE MainCall
  BY <1>1, <1>2, <1>3, <1>4 DEF MainCall
<1>5. CASE MainStep
  BY <1>5, RestartAddKeeps, PostKeeps, UnlinkKeeps, FreeKeeps DEF MainStep, App
<1>6. CASE MainEnd
  BY <1>6, FinishKeeps DEF MainEnd
<1>7. CASE AppHeapStep
  BY <1>7, AppHeapStepKeeps
<1>8. CASE RecvStep
  BY <1>8, ReceiveKeeps, LoadKeeps, TriggerKeeps, RecvRearmKeeps, RecvDeleteKeeps,
     PostKeeps, UnlinkKeeps, FreeKeeps DEF RecvStep, App
<1>9. CASE TaskStep
  BY <1>9, PeekKeeps, ReadKeeps, LookKeeps, TaskHeapStepKeeps, MarkDoneKeeps, SendKeeps,
     TaskRearmKeeps, TaskPostKeeps DEF TaskStep
<1>10. CASE Tick
  BY <1>10, TickKeeps
<1>11. CASE UNCHANGED vars
  <2>1. SA!SharedInv'
    BY <1>11, HeapUntouched DEF SystemInv, vars
  <2>2. LockInv' /\ HandInv'
    BY <1>11 DEF SystemInv, LockInv, HandInv, HeapA!Working, vars
  <2>3. PoolTypeOK' /\ ObjectsTypeOK' /\ ProcessTypeOK' /\ now' = now /\ calls' = calls
    BY <1>11 DEF SystemInv, TypeOK, PoolTypeOK, ObjectsTypeOK, ProcessTypeOK, vars, pool
  <2> QED
    BY <2>1, <2>2, <2>3, HeapTypes DEF SystemInv, TypeOK
<1> QED
  BY <1>4, <1>5, <1>6, <1>7, <1>8, <1>9, <1>10, <1>11 DEF Next

LEMMA Always == Spec => []SystemInv
BY InitKeeps, NextKeeps, PTL DEF Spec

\* In every run every field and program counter is one the code has, whatever
\* main calls and when: TimerTask and the receiver always have a timer in hand
\* when they use one (TimerTask.cpp:94-134, Timer.cpp:349-405).
THEOREM TypeCorrect == Spec => []TypeOK
<1>1. SystemInv => TypeOK
  BY DEF SystemInv
<1> QED BY <1>1, Always, PTL

\* TimerTask adds to the heap only while it holds the semaphore and the
\* application is not at work in the heap (Timer.cpp:272-281).
THEOREM AdditionsExcludeOthers == Spec => []AdditionsExclude
<1>1. SystemInv => AdditionsExclude
  BY DEF SystemInv, LockInv, AdditionsExclude, SA!Adds, App
<1> QED BY <1>1, Always, PTL

\* However many updates of the counter are lost to races, TimerTask never reads
\* a firing time through a NULL top (TimerTask.cpp:94-96).
THEOREM TopAlwaysReadable == Spec => []TopIsReadable
<1>1. SystemInv => TopIsReadable
  BY DEF SystemInv, TopIsReadable, SA!SharedInv
<1> QED BY <1>1, Always, PTL

-----------------------------------------------------------------------------
(***************************************************************************)
(* A one-shot callback is called once at most, whatever main calls and     *)
(* however the three race: slots freed twice, allocated anew while a       *)
(* message still names them, restarted while they fire.  It rests on the   *)
(* receiver alone: what it has called it unlinks before it looks at its    *)
(* next message, and no callback object is linked to two slots.            *)
(***************************************************************************)
\* Main schedules one-shots only.
OnlyOneShots == \A kind \in Kinds : kind[1] = "OneShot"

KindInv ==
  /\ \A c \in Callbacks : callback[c].kind[1] = "OneShot"
  /\ \A t \in Timers : timer[t].type # "Periodic"
  /\ at["recv"] \in {"loaded", "triggered"} => ~loaded.again

\* A callback object is linked to one slot at most, and only once it exists.
LinkInv ==
  /\ \A t \in Timers :
       timer[t].pCb # 0 => callback[timer[t].pCb].status # "unborn"
  /\ \A s, t \in Timers : timer[s].pCb # 0 /\ timer[s].pCb = timer[t].pCb => s = t

\* What was called is linked, if at all, to the slot the receiver is unlinking.
CalledInv ==
  /\ \A c \in Callbacks : callback[c].calls \in {0, 1}
  /\ \A c \in Callbacks : callback[c].status = "unborn" => callback[c].calls = 0
  /\ \A t \in Timers :
       timer[t].pCb # 0 /\ callback[timer[t].pCb].calls = 1 =>
         at["recv"] \in {"triggered", "unlinking"} /\ on["recv"] = t

\* What the receiver is about to call was never called, and is linked to no
\* other slot.
LoadedInv ==
  at["recv"] = "loaded" =>
    /\ loaded.cb \in Callbacks
    /\ callback[loaded.cb].status # "unborn" /\ callback[loaded.cb].calls = 0
    /\ \A t \in Timers : timer[t].pCb = loaded.cb => on["recv"] = t

OnceInv == KindInv /\ LinkInv /\ CalledInv /\ LoadedInv

-----------------------------------------------------------------------------
(* Steps that call nobody.                                                 *)

\* Slots are unlinked at most, nobody is born, and nothing is called.
NoCall ==
  /\ \A t \in Timers : /\ timer'[t].pCb \in {timer[t].pCb, 0}
                       /\ timer'[t].type \in {timer[t].type, "Invalid"}
  /\ \A c \in Callbacks : /\ callback'[c].kind = callback[c].kind
                          /\ callback'[c].calls = callback[c].calls
                          /\ callback'[c].status = "unborn"
                               <=> callback[c].status = "unborn"

RecvWaits ==
  at'["recv"] = at["recv"] /\ on'["recv"] = on["recv"] /\ loaded' = loaded

\* The fields of the objects are those they have.
Typed ==
  /\ timer \in [Timers -> TimerFields] /\ callback \in [Callbacks -> CallbackFields]
  /\ \A t \in Timers : timer[t].pCb # 0 => timer[t].pCb \in Callbacks

LEMMA Objects == SystemInv => Typed
BY LinkedType DEF SystemInv, TypeOK, ObjectsTypeOK, Typed

\* Main and TimerTask cannot bring a callback a second call.
LEMMA OthersKeep ==
  ASSUME Typed, OnceInv, NoCall, RecvWaits
  PROVE  OnceInv'
<1>1. KindInv'
  BY DEF OnceInv, KindInv, NoCall, RecvWaits
<1>2. LinkInv'
  BY DEF Typed, OnceInv, LinkInv, NoCall
<1>3. CalledInv'
  BY DEF Typed, OnceInv, CalledInv, NoCall, RecvWaits
<1>4. LoadedInv'
  BY DEF Typed, OnceInv, LoadedInv, NoCall, RecvWaits, Callbacks
<1> QED
  BY <1>1, <1>2, <1>3, <1>4 DEF OnceInv

\* Nor can the receiver, where it has nothing called in hand.
LEMMA RecvGoesOn ==
  ASSUME Typed, OnceInv, NoCall, at["recv"] \notin {"triggered", "unlinking"},
         at'["recv"] \notin {"loaded", "triggered"}
  PROVE  OnceInv'
<1>1. KindInv'
  BY DEF OnceInv, KindInv, NoCall
<1>2. LinkInv'
  BY DEF Typed, OnceInv, LinkInv, NoCall
<1>3. CalledInv'
  BY DEF Typed, OnceInv, CalledInv, NoCall
<1> QED
  BY <1>1, <1>2, <1>3 DEF OnceInv, LoadedInv

LEMMA SameObjects ==
  ASSUME UNCHANGED <<timer, callback>>
  PROVE  NoCall
BY DEF NoCall

-----------------------------------------------------------------------------
(* The receiver's steps that matter.                                       *)

LEMMA LoadOnce ==
  ASSUME SystemInv, OnceInv, Load
  PROVE  OnceInv'
<1> DEFINE x == timer[on["recv"]]
<1>1. /\ Typed /\ on["recv"] \in Timers /\ at["recv"] = "received"
      /\ at \in [App -> MainAt \cup RecvAt] /\ "recv" \in App
  BY Objects DEF SystemInv, TypeOK, ProcessTypeOK, HandInv, Load, App
<1>2. timer' = timer /\ callback' = callback
  BY DEF Load
<1>3. CASE Return("recv")
  <2>1. at'["recv"] = "ready"
    BY <1>1, <1>3 DEF Return, Go
  <2> QED BY <1>1, <1>2, <2>1, SameObjects, RecvGoesOn
<1>4. CASE /\ x.pCb # 0 /\ at' = [at EXCEPT !["recv"] = "loaded"] /\ on' = on
           /\ loaded' = [cb |-> x.pCb, again |-> FiresAgain(x), timeout |-> x.timeout]
  <2>1. at'["recv"] = "loaded" /\ loaded'.cb = x.pCb /\ loaded'.again = FiresAgain(x)
    BY <1>1, <1>4
  <2>2. KindInv'
    BY <1>1, <1>2, <2>1 DEF OnceInv, KindInv, FiresAgain
  <2>3. LinkInv'
    BY <1>2 DEF OnceInv, LinkInv
  <2>4. CalledInv'
    BY <1>1, <1>2 DEF OnceInv, CalledInv
  <2>5. LoadedInv'
    BY <1>1, <1>2, <1>4, <2>1
    DEF Typed, OnceInv, LinkInv, CalledInv, LoadedInv
  <2> QED BY <2>2, <2>3, <2>4, <2>5 DEF OnceInv
<1> QED
  BY <1>3, <1>4 DEF Load, Go

LEMMA TriggerOnce ==
  ASSUME SystemInv, OnceInv, Trigger
  PROVE  OnceInv'
<1>1. /\ Typed /\ at["recv"] = "loaded" /\ at'["recv"] = "triggered"
  BY Objects DEF SystemInv, TypeOK, ProcessTypeOK, Trigger, Go, App
<1>2. /\ timer' = timer /\ on' = on /\ loaded' = loaded
      /\ callback' = [callback EXCEPT ![loaded.cb].calls = @ + 1]
  BY DEF Trigger
<1>3. loaded.cb \in Callbacks /\ callback[loaded.cb].calls = 0
  BY <1>1 DEF OnceInv, LoadedInv
<1>4. /\ callback'[loaded.cb].calls = 1
      /\ \A c \in Callbacks : /\ callback'[c].kind = callback[c].kind
                              /\ callback'[c].status = callback[c].status
                              /\ c # loaded.cb => callback'[c].calls = callback[c].calls
  BY <1>1, <1>2, <1>3 DEF Typed, CallbackFields
<1>5. KindInv'
  BY <1>1, <1>2, <1>4 DEF OnceInv, KindInv
<1>6. LinkInv'
  BY <1>1, <1>2, <1>4 DEF Typed, OnceInv, LinkInv
<1>7. CalledInv'
  BY <1>1, <1>2, <1>3, <1>4 DEF Typed, OnceInv, CalledInv, LoadedInv
<1> QED
  BY <1>1, <1>5, <1>6, <1>7 DEF OnceInv, LoadedInv

\* A one-shot is not set to fire again.
LEMMA RecvRearmOnce == OnceInv => ~RecvRearm
BY DEF OnceInv, KindInv, RecvRearm

LEMMA RecvDeleteOnce ==
  ASSUME SystemInv, OnceInv, RecvDelete
  PROVE  OnceInv'
<1>1. Typed /\ at["recv"] = "triggered" /\ at'["recv"] = "unlinking"
  BY Objects DEF SystemInv, TypeOK, ProcessTypeOK, RecvDelete, Destroy, Go, App
<1>2. timer' = timer /\ callback' = callback /\ on' = on
  BY DEF RecvDelete
<1> QED
  BY <1>1, <1>2 DEF OnceInv, KindInv, LinkInv, CalledInv, LoadedInv

\* What it called is unlinked when the receiver is done with it.
LEMMA UnlinkOnce ==
  ASSUME SystemInv, OnceInv, NEW p \in App, Unlink(p)
  PROVE  OnceInv'
<1> DEFINE t == on[p]
<1>1. Typed /\ t \in Timers /\ on' = on /\ loaded' = loaded
  BY Objects DEF SystemInv, HandInv, Unlink
<1>2. /\ timer' = [timer EXCEPT ![t].pCb = 0]
      /\ callback' = IF timer[t].pCb = 0 THEN callback ELSE Deleted(timer[t].pCb)
  BY DEF Unlink, Unlinked
<1>3. /\ timer'[t].pCb = 0
      /\ \A u \in Timers \ {t} : timer'[u].pCb = timer[u].pCb
      /\ \A u \in Timers : timer'[u].type = timer[u].type
  <2> HIDE DEF t
  <2> QED BY <1>1, <1>2 DEF Typed, TimerFields
<1>4. \A c \in Callbacks : /\ callback'[c].kind = callback[c].kind
                           /\ callback'[c].calls = callback[c].calls
                           /\ callback'[c].status \in {callback[c].status, "deleted"}
  <2> HIDE DEF t
  <2> QED BY <1>1, <1>2 DEF Typed, CallbackFields, Deleted
<1>5. CASE p = "main"
  <2>1. RecvWaits
    BY <1>1, <1>5 DEF SystemInv, TypeOK, ProcessTypeOK, Unlink, Go, App, RecvWaits
  <2>2. NoCall
    <3>1. \A u \in Timers : timer'[u].pCb \in {timer[u].pCb, 0}
      BY <1>3
    <3>2. \A c \in Callbacks :
            callback'[c].status = "unborn" <=> callback[c].status = "unborn"
      <4> HIDE DEF t
      <4> QED BY <1>1, <1>2 DEF Typed, OnceInv, LinkInv, CallbackFields, Deleted
    <3> QED BY <1>3, <1>4, <3>1, <3>2 DEF NoCall
  <2> QED BY <1>1, <2>1, <2>2, OthersKeep
<1>6. CASE p = "recv"
  <2>1. at'["recv"] = "freeing"
    BY <1>6 DEF SystemInv, TypeOK, ProcessTypeOK, Unlink, Go, App
  <2>2. \A c \in Callbacks :
          callback'[c].status = "unborn" <=> callback[c].status = "unborn"
    <3> HIDE DEF t
    <3> QED BY <1>1, <1>2 DEF Typed, OnceInv, LinkInv, CallbackFields, Deleted
  <2>3. KindInv'
    BY <1>3, <1>4, <2>1 DEF OnceInv, KindInv
  <2>4. LinkInv'
    BY <1>1, <1>3, <2>2 DEF Typed, OnceInv, LinkInv
  <2>5. CalledInv'
    BY <1>1, <1>3, <1>4, <1>6, <2>2 DEF Typed, OnceInv, CalledInv
  <2> QED
    BY <2>1, <2>3, <2>4, <2>5 DEF OnceInv, LoadedInv
<1> QED
  BY <1>5, <1>6 DEF App

-----------------------------------------------------------------------------
(* The only step that links: main schedules a timer.                       *)

LEMMA ScheduleOnce ==
  ASSUME OnlyOneShots, SystemInv, OnceInv, NEW t \in Timers, NEW kind \in Kinds,
         NEW d \in Timeouts, Schedule(t, kind, d)
  PROVE  OnceInv'
<1>1. Typed /\ RecvWaits /\ kind[1] = "OneShot"
  BY Objects
  DEF OnlyOneShots, SystemInv, TypeOK, ProcessTypeOK, Schedule, Go, App, RecvWaits
<1>2. PICK c \in Callbacks :
        LET cb == IF timer[t].pCb = 0 THEN c ELSE timer[t].pCb
        IN /\ callback[c].status = "unborn"
           /\ callback' = [Due(cb, d) EXCEPT ![c].status = "live",
                                             ![cb].kind = kind, ![cb].asked = d]
           /\ \E left \in Leftover :
                timer' = [timer EXCEPT ![t] =
                  [type |-> kind[1], state |-> "Active", pCb |-> cb,
                   timeout |-> IF kind[1] = "OneShot" THEN left ELSE d,
                   howMany |-> kind[2], fired |-> 0]]
  BY DEF Schedule
<1> DEFINE cb == IF timer[t].pCb = 0 THEN c ELSE timer[t].pCb
<1>3. cb \in Callbacks /\ cb # 0
  BY <1>1 DEF Typed, Callbacks
<1>4. /\ timer'[t].pCb = cb /\ timer'[t].type = "OneShot"
      /\ \A u \in Timers \ {t} : timer'[u] = timer[u]
  <2>1. PICK left \in Leftover :
                timer' = [timer EXCEPT ![t] =
                  [type |-> kind[1], state |-> "Active", pCb |-> cb,
                   timeout |-> IF kind[1] = "OneShot" THEN left ELSE d,
                   howMany |-> kind[2], fired |-> 0]]
    BY <1>2
  <2> HIDE DEF cb
  <2> QED BY <1>1, <2>1 DEF Typed
<1>5. \A b \in Callbacks :
        /\ callback'[b].kind = (IF b = cb THEN kind ELSE callback[b].kind)
        /\ callback'[b].calls = callback[b].calls
        /\ callback'[b].status = (IF b = c THEN "live" ELSE callback[b].status)
  <2> DEFINE F == Due(cb, d)
             G == [F EXCEPT ![c].status = "live"]
             H == [G EXCEPT ![cb].kind = kind]
  <2>1. callback' = [H EXCEPT ![cb].asked = d]
    BY <1>2
  <2>2. /\ F \in [Callbacks -> CallbackFields]
        /\ \A b \in Callbacks : /\ F[b].kind = callback[b].kind
                                /\ F[b].calls = callback[b].calls
                                /\ F[b].status = callback[b].status
    <3> HIDE DEF cb
    <3>1. d \in 0 .. MaxTime
      BY TimesAssumption
    <3>2. F \in [Callbacks -> CallbackFields]
      BY <1>3, <3>1, DueType DEF SystemInv, TypeOK
    <3> QED BY <1>1, <1>3, <3>2 DEF Typed, CallbackFields, Due
  <2> HIDE DEF F, cb
  <2>3. /\ G \in [Callbacks -> CallbackFields]
        /\ \A b \in Callbacks : /\ G[b].kind = callback[b].kind
                                /\ G[b].calls = callback[b].calls
                                /\ G[b].status = (IF b = c THEN "live" ELSE callback[b].status)
    BY <2>2 DEF CallbackFields
  <2> HIDE DEF G
  <2>4. /\ H \in [Callbacks -> CallbackFields]
        /\ \A b \in Callbacks : /\ H[b].kind = (IF b = cb THEN kind ELSE callback[b].kind)
                                /\ H[b].calls = callback[b].calls
                                /\ H[b].status = (IF b = c THEN "live" ELSE callback[b].status)
    <3>1. kind \in {"OneShot", "Periodic"} \X Nat
      BY KindsAssumption
    <3>2. H \in [Callbacks -> CallbackFields]
      <4>1. G \in [Callbacks -> CallbackFields]
        BY <2>3
      <4> QED BY <3>1, <4>1 DEF CallbackFields
    <3>3. \A b \in Callbacks \ {cb} : H[b] = G[b]
      BY <2>3
    <3>4. H[cb] = [G[cb] EXCEPT !.kind = kind]
      BY <1>3, <2>3
    <3>5. /\ H[cb].kind = kind /\ H[cb].calls = G[cb].calls
          /\ H[cb].status = G[cb].status
      BY <1>3, <2>3, <3>4 DEF CallbackFields
    <3> QED BY <2>3, <3>2, <3>3, <3>5
  <2> HIDE DEF H
  <2> QED BY <2>1, <2>4 DEF CallbackFields
<1>6. \A u \in Timers \ {t} : timer[u].pCb # 0 => timer[u].pCb # cb
  BY <1>1, <1>2 DEF Typed, OnceInv, LinkInv
<1>7. cb # c => timer[t].pCb = cb
  OBVIOUS
<1>8. callback[c].status = "unborn"
  BY <1>2
<1> HIDE DEF cb
<1>9. KindInv'
  BY <1>1, <1>4, <1>5 DEF OnceInv, KindInv, RecvWaits
<1>10. LinkInv'
  BY <1>1, <1>3, <1>4, <1>5, <1>6, <1>7 DEF Typed, OnceInv, LinkInv
<1>11. CalledInv'
  BY <1>1, <1>3, <1>4, <1>5, <1>6, <1>7, <1>8 DEF Typed, OnceInv, CalledInv, RecvWaits
<1>12. LoadedInv'
  BY <1>1, <1>4, <1>5, <1>7, <1>8 DEF OnceInv, LoadedInv, RecvWaits
<1> QED
  BY <1>9, <1>10, <1>11, <1>12 DEF OnceInv

-----------------------------------------------------------------------------
(* Every other step calls nobody and leaves the receiver where it is.      *)

LEMMA MainCallsOnce ==
  ASSUME SystemInv, OnceInv, NEW t \in Timers,
         \/ \E ctor \in Ctors : New(t, ctor)
         \/ Stop(t) \/ Restart(t) \/ Cancel(t) \/ Delete(t)
  PROVE  OnceInv'
<1>1. Typed /\ at \in [App -> MainAt \cup RecvAt] /\ on \in [App -> Timers \cup {NULL}]
  BY Objects DEF SystemInv, TypeOK, ProcessTypeOK
<1>2. RecvWaits
  BY <1>1 DEF RecvWaits, App, New, Stop, Restart, Rearm, Cancel, Delete, Destroy, Call, Go
<1>3. ASSUME NEW ctor \in Ctors, New(t, ctor) PROVE NoCall
  BY <1>1, <1>3 DEF Typed, TimerFields, New, NoCall
<1>4. CASE Stop(t)
  <2>1. \A u \in Timers : timer'[u].pCb = timer[u].pCb /\ timer'[u].type = timer[u].type
    BY <1>1, <1>4 DEF Typed, TimerFields, Stop
  <2>2. \A c \in Callbacks : /\ callback'[c].kind = callback[c].kind
                             /\ callback'[c].calls = callback[c].calls
                             /\ callback'[c].status = callback[c].status
    BY <1>1, <1>4 DEF Typed, CallbackFields, Stop, Unwanted
  <2> QED BY <1>1, <1>2, <2>1, <2>2, OthersKeep DEF NoCall
<1>5. CASE Restart(t)
  <2>1. \A u \in Timers : timer'[u].pCb = timer[u].pCb /\ timer'[u].type = timer[u].type
    BY <1>1, <1>5 DEF Typed, TimerFields, Restart, Rearm
  <2>2. \A c \in Callbacks : /\ callback'[c].kind = callback[c].kind
                             /\ callback'[c].calls = callback[c].calls
                             /\ callback'[c].status = callback[c].status
    BY <1>1, <1>5 DEF Typed, CallbackFields, Restart, Rearm, Due
  <2> QED BY <1>1, <1>2, <2>1, <2>2, OthersKeep DEF NoCall
<1>6. CASE Cancel(t)
  <2>1. \A u \in Timers : /\ timer'[u].pCb \in {timer[u].pCb, 0}
                          /\ timer'[u].type = timer[u].type
    BY <1>1, <1>6 DEF Typed, TimerFields, Cancel
  <2>2. \A c \in Callbacks : /\ callback'[c].kind = callback[c].kind
                             /\ callback'[c].calls = callback[c].calls
                             /\ callback'[c].status = "unborn"
                                  <=> callback[c].status = "unborn"
    BY <1>1, <1>6 DEF Typed, CallbackFields, OnceInv, LinkInv, Cancel, Deleted
  <2> QED BY <1>1, <1>2, <2>1, <2>2, OthersKeep DEF NoCall
<1>7. CASE Delete(t)
  BY <1>1, <1>2, <1>7, SameObjects, OthersKeep DEF Delete
<1> QED
  BY <1>1, <1>2, <1>3, <1>4, <1>5, <1>6, <1>7, OthersKeep

LEMMA MainStepsOnce ==
  ASSUME SystemInv, OnceInv,
         RestartAdd \/ Post("main") \/ Free("main") \/ Finish \/ AppHeapStep \/ Tick
  PROVE  OnceInv'
<1>1. /\ Typed /\ at \in [App -> MainAt \cup RecvAt] /\ on \in [App -> Timers \cup {NULL}]
      /\ "main" \in App /\ "recv" \in App
  BY Objects DEF SystemInv, TypeOK, ProcessTypeOK, App
<1>2. RecvWaits
  BY <1>1 DEF RecvWaits, RestartAdd, Rearm, Post, Free, Finish, AppHeapStep, Tick, Return, Go
<1>3. CASE RestartAdd
  <2>1. \A u \in Timers : timer'[u].pCb = timer[u].pCb /\ timer'[u].type = timer[u].type
    BY <1>1, <1>3 DEF Typed, TimerFields, RestartAdd, Rearm
  <2>2. \A c \in Callbacks : /\ callback'[c].kind = callback[c].kind
                             /\ callback'[c].calls = callback[c].calls
                             /\ callback'[c].status = callback[c].status
    BY <1>1, <1>3 DEF Typed, CallbackFields, RestartAdd, Rearm, Due
  <2> QED BY <1>1, <1>2, <2>1, <2>2, OthersKeep DEF NoCall
<1>4. CASE ~RestartAdd
  BY <1>1, <1>2, <1>4, SameObjects, OthersKeep DEF Post, Free, Finish, AppHeapStep, Tick
<1> QED BY <1>3, <1>4

LEMMA RecvStepsOnce ==
  ASSUME SystemInv, OnceInv, Receive \/ Post("recv") \/ Free("recv")
  PROVE  OnceInv'
<1>1. /\ Typed /\ at["recv"] \notin {"triggered", "unlinking"}
      /\ at'["recv"] \notin {"loaded", "triggered"}
  BY Objects DEF SystemInv, TypeOK, ProcessTypeOK, Receive, Post, Free, Return, Go, App
<1>2. NoCall
  BY SameObjects DEF Receive, Post, Free
<1> QED BY <1>1, <1>2, RecvGoesOn

LEMMA TaskStepsOnce ==
  ASSUME SystemInv, OnceInv, TaskStep
  PROVE  OnceInv'
<1>1. Typed
  BY Objects
<1>2. RecvWaits
  BY DEF RecvWaits, TaskStep, Peek, Read, Look, TaskHeapStep, MarkDone, Send, TaskRearm,
         TaskPost
<1>3. CASE Peek \/ Read \/ TaskHeapStep \/ Send \/ TaskPost
  BY <1>1, <1>2, <1>3, SameObjects, OthersKeep DEF Peek, Read, TaskHeapStep, Send, TaskPost
<1>4. CASE Look \/ MarkDone
  <2>1. callback' = callback
    BY <1>4 DEF Look, MarkDone
  <2>2. \A u \in Timers : timer'[u].pCb = timer[u].pCb /\ timer'[u].type = timer[u].type
    BY <1>1, <1>4 DEF Typed, TimerFields, Look, MarkDone, Fired
  <2> QED BY <1>1, <1>2, <2>1, <2>2, OthersKeep DEF NoCall
<1>5. CASE TaskRearm
  <2>1. \A u \in Timers : timer'[u].pCb = timer[u].pCb /\ timer'[u].type = timer[u].type
    BY <1>1, <1>5 DEF Typed, TimerFields, TaskRearm, ChangeFiringTime
  <2>2. \A c \in Callbacks : /\ callback'[c].kind = callback[c].kind
                             /\ callback'[c].calls = callback[c].calls
                             /\ callback'[c].status = callback[c].status
    BY <1>1, <1>5 DEF Typed, CallbackFields, TaskRearm, ChangeFiringTime
  <2> QED BY <1>1, <1>2, <2>1, <2>2, OthersKeep DEF NoCall
<1> QED
  BY <1>3, <1>4, <1>5 DEF TaskStep

-----------------------------------------------------------------------------
LEMMA OnceInit == Init => OnceInv
BY DEF Init, NoCallback, OnceInv, KindInv, LinkInv, CalledInv, LoadedInv

LEMMA OnceNext == OnlyOneShots /\ SystemInv /\ OnceInv /\ [Next]_vars => OnceInv'
<1> SUFFICES ASSUME OnlyOneShots, SystemInv, OnceInv, [Next]_vars PROVE OnceInv'
  OBVIOUS
<1>1. ASSUME NEW t \in Timers, NEW kind \in Kinds, NEW d \in Timeouts,
             Schedule(t, kind, d)
      PROVE  OnceInv'
  BY <1>1, ScheduleOnce
<1>2. CASE MainCall
  BY <1>1, <1>2, MainCallsOnce DEF MainCall
<1>3. CASE MainStep
  BY <1>3, MainStepsOnce, UnlinkOnce DEF MainStep, App
<1>4. CASE MainEnd \/ AppHeapStep \/ Tick
  BY <1>4, MainStepsOnce DEF MainEnd
<1>5. CASE RecvStep
  BY <1>5, RecvStepsOnce, LoadOnce, TriggerOnce, RecvRearmOnce, RecvDeleteOnce, UnlinkOnce
  DEF RecvStep, App
<1>6. CASE TaskStep
  BY <1>6, TaskStepsOnce
<1>7. CASE UNCHANGED vars
  BY <1>7, Objects, SameObjects, OthersKeep DEF vars, RecvWaits
<1> QED
  BY <1>2, <1>3, <1>4, <1>5, <1>6, <1>7 DEF Next

\* When main schedules one-shots only, no callback is ever called twice: no lost
\* lock, late message or slot used anew makes one fire again (Timer.cpp:349-405).
THEOREM OneShotsFireOnce ==
  ASSUME OnlyOneShots
  PROVE  Spec => []NoExtraCall
<1>1. Spec => []OnceInv
  BY Always, OnceInit, OnceNext, PTL DEF Spec
<1>2. SystemInv /\ OnceInv => NoExtraCall
  BY DEF OnceInv, KindInv, CalledInv, NoExtraCall, CallLimit
<1> QED BY <1>1, <1>2, Always, PTL

=============================================================================
