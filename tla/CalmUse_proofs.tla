---------------------------- MODULE CalmUse_proofs ----------------------------
(***************************************************************************)
(* Proofs about TimerSystem.tla when main schedules one-shots, keeps to    *)
(* the careful protocol and calls while no timer is due: no wanted         *)
(* callback is lost, none that was deleted is called, no slot is freed     *)
(* twice, and none is called early.  Every other execution of the three    *)
(* still interleaves: polling, sending and receiving with main's creation  *)
(* of timers, and polling with each step of main's calls.                  *)
(***************************************************************************)
EXTENDS TimerSystem_proofs, FiniteSetTheorems

(***************************************************************************)
(* The use the theorems are about.  Timeouts are in the future, also what  *)
(* restart() finds in the uninitialised timeout of a one-shot.  The heap   *)
(* has a slot for every timer, and as long as main takes timers back       *)
(* before they fire there are at most three: the search of a heap of four  *)
(* may overlook the last one (RemovalRemoves of HeapUse.tla).              *)
(***************************************************************************)
TakesBack == {<<"stop", "armed">>, <<"restart", "armed">>,
              <<"delete", "armed">>, <<"delete", "cancelled">>}

MayRestart == Protocol \cap {<<"restart", "armed">>, <<"restart", "stopped">>} # {}

Sheltered ==
  /\ Calm /\ OnlyOneShots
  /\ Protocol \subseteq CarefulProtocol
  /\ 0 \notin Timeouts /\ (MayRestart => 0 \notin Leftover)
  /\ NumTimers <= Cap
  /\ NumTimers <= 3 \/ Protocol \cap TakesBack = {}

(***************************************************************************)
(* The invariant.  The heap: one call at a time, in the steps of           *)
(* SerialHeap.tla; Held are the timers in it.                              *)
(***************************************************************************)
Held == IF opA.pc # "idle" THEN SA!Contents ELSE ST!Contents

HeapCalm ==
  /\ opA \in SA!Calls /\ opT \in ST!Calls
  /\ opA.pc = "idle" \/ opT.pc = "idle"
  /\ opT.pc = "idle" => SA!SerialInv
  /\ opA.pc = "idle" => ST!SerialInv

MainBusy == at["main"] \notin {"ready", "done"}

MainAtWork(t) == at["main"] \in Holding /\ on["main"] = t

InHand(t) ==
  task.pc \in {"firing", "sending", "dropping"} /\ task.top = t /\ opT.pc # "search"

InQueue(t) == \E i \in DOMAIN mq : mq[i] = t

Handled(t) ==
  at["recv"] \in {"received", "loaded", "triggered", "unlinking"} /\ on["recv"] = t

\* What TimerTask read of the top is not due, or still so.
ReadInv ==
  task.pc \in {"peeked", "read"} =>
    \/ task.when > now
    \/ /\ opA.pc = "idle" /\ n # 0 /\ heap[0] = task.top
       /\ whenToFire[task.top] = task.when
       /\ task.pc = "read" => task.state = timer[task.top].state

\* While main is in a call nothing is due or on its way to the receiver, and
\* the calls in the heap are those of main and TimerTask.
QueueCalm ==
  /\ MainBusy => /\ task.pc \in {"poll", "peeked", "read"}
                 /\ mq = <<>> /\ at["recv"] = "ready"
                 /\ \A t \in Held : whenToFire[t] > now
                 /\ task.pc # "poll" => task.when > now
  /\ opA.pc # "idle" => /\ MainBusy /\ opA.timer = on["main"]
                        /\ whenToFire[opA.timer] > now
  /\ opT.pc # "idle" => /\ opT.timer = task.top
                        /\ task.pc \in {"firing", "dropping", "posting"}
                        /\ ST!Adding <=> task.pc = "posting"
                        /\ opT.pc = "search" => opT.index = 0 /\ heap[0] = task.top
  /\ SA!Adding => at["main"] = "posting" /\ phase[on["main"]] = "armed"
  /\ SA!Removing => /\ NumTimers <= 3
                    /\ \/ at["main"] = "posting" /\ phase[on["main"]] = "stopped"
                       \/ at["main"] \in {"restarting", "unlinking"}
  /\ at["recv"] # "posting"

\* A timer is in one place at most, in the phase and state of the place, and
\* one that is armed, or cancelled and not Done, is in one.
Place(t) ==
  /\ t \in Held => /\ ~InHand(t) /\ ~InQueue(t) /\ ~Handled(t)
                   /\ \/ phase[t] = "armed" /\ timer[t].state = "Active"
                      \/ phase[t] = "cancelled" /\ timer[t].state # "Done"
                      \/ MainAtWork(t) /\ opA.pc = "search"
  /\ InHand(t) => ~InQueue(t) /\ ~Handled(t) /\ phase[t] \in {"armed", "cancelled"}
  /\ InQueue(t) => /\ ~Handled(t) /\ phase[t] \in {"armed", "cancelled"}
                   /\ timer[t].state = "Done"
  /\ Handled(t) => phase[t] \in {"armed", "cancelled"} /\ timer[t].state = "Done"
  /\ phase[t] = "armed" =>
       \/ t \in Held \/ InHand(t) \/ InQueue(t) \/ Handled(t)
       \/ at["main"] \in {"restarting", "unlinking"} /\ on["main"] = t
  /\ phase[t] = "cancelled" /\ timer[t].state # "Done" =>
       \/ t \in Held \/ InHand(t)
       \/ at["main"] = "unlinking" /\ on["main"] = t

\* The fields of a timer that follow its phase.
Fields(t) ==
  /\ phase[t] = "stopped" => timer[t].state = "Idle"
  /\ phase[t] = "invalid" => timer[t].type = "Invalid"
  /\ phase[t] \in {"armed", "stopped", "cancelled"} => timer[t].type # "Invalid"
  /\ phase[t] \in {"armed", "stopped"} /\ MayRestart => timer[t].timeout > 0

PlacesInv == \A t \in Timers : Place(t) /\ Fields(t)

\* Each of the three knows what it has in hand.
TaskHand ==
  /\ task.pc \in {"firing", "sending"} => whenToFire[task.top] <= now
  /\ task.pc = "sending" => timer[task.top].state = "Done"
  /\ task.pc \in {"dropping", "posting"} => phase[task.top] = "cancelled"
  /\ task.pc = "dropping" => timer[task.top].state = "Idle"

RecvHand ==
  /\ \A i, j \in DOMAIN mq : mq[i] = mq[j] => i = j
  /\ \A t \in Timers : InQueue(t) \/ Handled(t) => whenToFire[t] <= now
  /\ at["recv"] \in {"loaded", "triggered", "unlinking"} => phase[on["recv"]] = "armed"
  /\ at["recv"] \in {"loaded", "triggered"} => loaded.cb = timer[on["recv"]].pCb

MainHand ==
  /\ at["main"] = "restarting" => /\ now < MaxTime /\ phase[on["main"]] = "armed"
                                  /\ MayRestart
                                  /\ timer[on["main"]].state = "Idle"
  /\ at["main"] \in {"restarting", "unlinking"} /\ opA.pc # "search" =>
       on["main"] \notin Held
  /\ at["main"] = "unlinking" => phase[on["main"]] # "none"
  /\ \A p \in App : at[p] = "freeing" => phase[on[p]] = "none"
  /\ ~(at["main"] = "freeing" /\ at["recv"] = "freeing")

\* A callback is linked while its timer is armed or stopped, to that timer alone,
\* is due when the timer is, and wanted while it is armed.
LinksCalm ==
  /\ \A t \in Timers :
       /\ timer[t].pCb # 0 <=> phase[t] \in {"armed", "stopped"}
       /\ timer[t].pCb # 0 =>
            /\ callback[timer[t].pCb].status = "live"
            /\ callback[timer[t].pCb].due = whenToFire[t]
            /\ callback[timer[t].pCb].wanted <=> phase[t] = "armed"
  /\ \A c \in Callbacks : callback[c].wanted => \E t \in Timers : timer[t].pCb = c

\* The pool: the slots in use are those with a phase and those on their way back.
InUse ==
  {t \in Timers : phase[t] # "none"}
    \cup {t \in Timers : \E p \in App : at[p] = "freeing" /\ on[p] = t}

PU == INSTANCE PoolUse_proofs WITH
  MaxObjects <- NumTimers, used <- InUse, answer <- -1, NULL <- -1

CalmInv ==
  /\ HeapCalm /\ QueueCalm /\ ReadInv /\ PlacesInv
  /\ TaskHand /\ RecvHand /\ MainHand /\ LinksCalm /\ PU!PoolInv

\* What holds of every state of the executions the theorems are about.
Known == SystemInv /\ OnceInv /\ CalmInv

-----------------------------------------------------------------------------
(* The heap, for its two users, as a set of timers.                        *)

LEMMA TimerCount ==
  /\ SA!IsFiniteSet(Timers) /\ SA!Cardinality(Timers) = NumTimers
  /\ ST!IsFiniteSet(Timers) /\ ST!Cardinality(Timers) = NumTimers
<1>1. NumTimers \in Nat \ {0} /\ 0 \in Int /\ NumTimers - 1 \in Int
  BY PoolAssumption
<1>2. /\ SA!IsFiniteSet(0 .. NumTimers - 1)
      /\ SA!Cardinality(0 .. NumTimers - 1)
           = IF 0 > NumTimers - 1 THEN 0 ELSE (NumTimers - 1) - 0 + 1
  BY <1>1, Constants, SA!FS_Interval
<1>3. /\ ST!IsFiniteSet(0 .. NumTimers - 1)
      /\ ST!Cardinality(0 .. NumTimers - 1)
           = IF 0 > NumTimers - 1 THEN 0 ELSE (NumTimers - 1) - 0 + 1
  BY <1>1, Constants, ST!FS_Interval
<1> QED BY <1>1, <1>2, <1>3 DEF Timers

LEMMA Fit == Sheltered => SA!TimersFit /\ ST!TimersFit
BY TimerCount DEF Sheltered, SA!TimersFit, ST!TimersFit

LEMMA HeldIs ==
  /\ opT.pc = "idle" => Held = SA!Contents
  /\ opA.pc = "idle" => Held = ST!Contents
  /\ opA.pc = "idle" /\ opT.pc = "idle" => Held = {heap[i] : i \in 0 .. n - 1}
<1>1. opA.pc = "idle" => SA!Contents = {heap[i] : i \in 0 .. n - 1}
  BY DEF SA!Contents, SA!Used, SA!Size, SA!Adding, SA!Unlinked
<1>2. opT.pc = "idle" => ST!Contents = {heap[i] : i \in 0 .. n - 1}
  BY DEF ST!Contents, ST!Used, ST!Size, ST!Adding, ST!Unlinked
<1> QED BY <1>1, <1>2 DEF Held

\* Between calls both users have the same heap.
LEMMA IdleNext ==
  ASSUME opA'.pc = "idle", opT'.pc = "idle", opA' \in SA!Calls, opT' \in ST!Calls
  PROVE  SA!SerialInv' <=> ST!SerialInv'
<1>1. SA!Used' = 0 .. n' - 1 /\ SA!Contents' = {heap'[i] : i \in 0 .. n' - 1}
  BY DEF SA!Contents, SA!Used, SA!Size, SA!Adding, SA!Unlinked
<1>2. ST!Used' = 0 .. n' - 1 /\ ST!Contents' = {heap'[i] : i \in 0 .. n' - 1}
  BY DEF ST!Contents, ST!Used, ST!Size, ST!Adding, ST!Unlinked
<1>3. SA!NoTimerTwice' <=> ST!NoTimerTwice'
  BY <1>1, <1>2 DEF SA!NoTimerTwice, ST!NoTimerTwice
<1>4. SA!SerialType' <=> ST!SerialType'
  BY DEF SA!SerialType, ST!SerialType, SA!Slots, ST!Slots
<1>5. SA!AddingInv' /\ SA!RemovingInv'
  BY DEF SA!AddingInv, SA!RemovingInv, SA!Adding, SA!Removing, SA!Unlinked
<1>6. ST!AddingInv' /\ ST!RemovingInv'
  BY DEF ST!AddingInv, ST!RemovingInv, ST!Adding, ST!Removing, ST!Unlinked
<1> QED BY <1>3, <1>4, <1>5, <1>6 DEF SA!SerialInv, ST!SerialInv

LEMMA NextHeld ==
  /\ opT'.pc = "idle" => Held' = SA!Contents'
  /\ opA'.pc = "idle" => Held' = ST!Contents'
<1>1. opA'.pc = "idle" => SA!Contents' = {heap'[i] : i \in 0 .. n' - 1}
  BY DEF SA!Contents, SA!Used, SA!Size, SA!Adding, SA!Unlinked
<1>2. opT'.pc = "idle" => ST!Contents' = {heap'[i] : i \in 0 .. n' - 1}
  BY DEF ST!Contents, ST!Used, ST!Size, ST!Adding, ST!Unlinked
<1> QED BY <1>1, <1>2 DEF Held

LEMMA SameHeap ==
  ASSUME HeapCalm, UNCHANGED <<heap, n, opA, opT>>
  PROVE  HeapCalm' /\ Held' = Held
<1>1. opT.pc = "idle" => SA!SerialInv'
  BY Constants, SA!SerialStutter DEF HeapCalm
<1>2. opA.pc = "idle" => ST!SerialInv'
  BY Constants, ST!SerialStutter DEF HeapCalm
<1>3. Held' = Held
  BY DEF Held, SA!Contents, SA!Used, SA!Size, SA!Adding, SA!Unlinked,
         ST!Contents, ST!Used, ST!Size, ST!Adding, ST!Unlinked
<1> QED BY <1>1, <1>2, <1>3 DEF HeapCalm

LEMMA AppAdd ==
  ASSUME Sheltered, HeapCalm, opT.pc = "idle", NEW t \in Timers \ Held,
         HeapA!AddToHeap(t), opT' = opT
  PROVE  /\ HeapCalm' /\ Held' = Held \cup {t}
         /\ opA.pc = "idle" /\ SA!Adding' /\ opA'.timer = t
<1>1. SA!AddToHeap(t)
  BY DEF SA!AddToHeap, HeapA!AddToHeap, SA!Slots, HeapA!Slots, SA!Fault, HeapA!Fault
<1>2. SA!SerialInv /\ Held = SA!Contents
  BY HeldIs DEF HeapCalm
<1>3. /\ SA!SerialInv' /\ SA!Contents' = SA!Contents \cup {t}
      /\ opA.pc = "idle" /\ opA'.pc = (IF n = 0 THEN "incLoad" ELSE "up")
      /\ opA'.timer = t
  BY <1>1, <1>2, Fit, Constants, SA!SerialAdd
<1>4. Held' = SA!Contents'
  BY NextHeld
<1>5. opA' \in SA!Calls
  BY <1>3 DEF SA!SerialInv, SA!SerialType
<1> QED BY <1>2, <1>3, <1>4, <1>5 DEF HeapCalm, SA!Adding

LEMMA TaskAdd ==
  ASSUME Sheltered, HeapCalm, opA.pc = "idle", NEW t \in Timers \ Held,
         HeapT!AddToHeap(t), opA' = opA
  PROVE  /\ HeapCalm' /\ Held' = Held \cup {t}
         /\ opT.pc = "idle" /\ ST!Adding' /\ opT'.timer = t
<1>1. ST!AddToHeap(t)
  BY DEF ST!AddToHeap, HeapT!AddToHeap, ST!Slots, HeapT!Slots, ST!Fault, HeapT!Fault
<1>2. ST!SerialInv /\ Held = ST!Contents
  BY HeldIs DEF HeapCalm
<1>3. /\ ST!SerialInv' /\ ST!Contents' = ST!Contents \cup {t}
      /\ opT.pc = "idle" /\ opT'.pc = (IF n = 0 THEN "incLoad" ELSE "up")
      /\ opT'.timer = t
  BY <1>1, <1>2, Fit, Constants, ST!SerialAdd
<1>4. Held' = ST!Contents'
  BY NextHeld
<1>5. opT' \in ST!Calls
  BY <1>3 DEF ST!SerialInv, ST!SerialType
<1> QED BY <1>2, <1>3, <1>4, <1>5 DEF HeapCalm, ST!Adding

LEMMA AppRemove ==
  ASSUME HeapCalm, opT.pc = "idle", NEW t \in Held, HeapA!RemoveFromHeap(t), opT' = opT
  PROVE  /\ HeapCalm' /\ Held' = Held
         /\ opA.pc = "idle" /\ opA'.pc = "search" /\ opA'.timer = t
<1>1. SA!RemoveFromHeap(t)
  BY DEF SA!RemoveFromHeap, HeapA!RemoveFromHeap
<1>2. SA!SerialInv /\ Held = SA!Contents
  BY HeldIs DEF HeapCalm
<1>3. /\ SA!SerialInv' /\ SA!Contents' = SA!Contents
      /\ opA.pc = "idle" /\ opA'.pc = "search" /\ opA'.timer = t
  BY <1>1, <1>2, Constants, SA!SerialRemove
<1>4. Held' = SA!Contents'
  BY NextHeld
<1>5. opA' \in SA!Calls
  BY <1>3 DEF SA!SerialInv, SA!SerialType
<1> QED BY <1>2, <1>3, <1>4, <1>5 DEF HeapCalm

LEMMA TaskRemove ==
  ASSUME HeapCalm, opA.pc = "idle", NEW t \in Held, HeapT!RemoveFromHeap(t), opA' = opA
  PROVE  /\ HeapCalm' /\ Held' = Held /\ heap' = heap
         /\ opT.pc = "idle" /\ opT'.pc = "search" /\ opT'.timer = t /\ opT'.index = 0
<1>1. ST!RemoveFromHeap(t)
  BY DEF ST!RemoveFromHeap, HeapT!RemoveFromHeap
<1>2. ST!SerialInv /\ Held = ST!Contents
  BY HeldIs DEF HeapCalm
<1>3. /\ ST!SerialInv' /\ ST!Contents' = ST!Contents /\ heap' = heap
      /\ opT.pc = "idle" /\ opT'.pc = "search" /\ opT'.timer = t /\ opT'.index = 0
  BY <1>1, <1>2, Constants, ST!SerialRemove
<1>4. Held' = ST!Contents'
  BY NextHeld
<1>5. opT' \in ST!Calls
  BY <1>3 DEF ST!SerialInv, ST!SerialType
<1> QED BY <1>2, <1>3, <1>4, <1>5 DEF HeapCalm

\* A further step of main's call: an addition keeps the contents, a removal
\* takes its timer out of a heap of at most three when it finds it.
LEMMA AppStep ==
  ASSUME HeapCalm, HeapA!HeapStep, opT' = opT, opA.pc # "idle",
         SA!Removing => NumTimers <= 3
  PROVE  /\ HeapCalm' /\ opA'.timer = opA.timer /\ opT.pc = "idle"
         /\ \/ SA!Adding /\ Held' = Held /\ (SA!Adding' \/ opA'.pc = "idle")
            \/ opA.pc = "search" /\ opA'.pc = "search" /\ Held' = Held
            \/ opA.pc = "search" /\ opA'.pc = "decLoad" /\ Held' = Held \ {opA.timer}
            \/ /\ SA!Unlinked \/ opA.pc = "down"
               /\ Held' = Held
               /\ SA!Unlinked' \/ opA'.pc \in {"down", "idle"}
<1>1. SA!HeapStep /\ SA!SerialInv /\ Held = SA!Contents /\ opT.pc = "idle"
  BY HeapAStep, HeldIs DEF HeapCalm
<1>2. /\ SA!SerialInv' /\ opA'.timer = opA.timer
      /\ \/ SA!Adding /\ SA!Contents' = SA!Contents /\ (SA!Adding' \/ opA'.pc = "idle")
         \/ opA.pc = "search" /\ (SA!SearchFinds \/ SA!SearchFails \/ SA!SearchMoves)
         \/ /\ SA!Unlinked \/ opA.pc = "down"
            /\ SA!Contents' = SA!Contents
            /\ SA!Unlinked' \/ opA'.pc \in {"down", "idle"}
  BY <1>1, Constants, SA!SerialStep
<1>3. Held' = SA!Contents'
  BY <1>1, NextHeld
<1>4. opA' \in SA!Calls /\ opT' \in ST!Calls
  BY <1>2 DEF SA!SerialInv, SA!SerialType, HeapCalm
<1>5. HeapCalm'
  BY <1>1, <1>2, <1>4, IdleNext DEF HeapCalm
<1>6. ~(opA.pc = "search" /\ SA!SearchFails)
  <2> SUFFICES ASSUME opA.pc = "search", SA!SearchFails PROVE FALSE
    OBVIOUS
  <2>1. n >= 4 /\ n \in Nat
    BY <1>1 DEF SA!SearchFails, SA!SerialInv, SA!SerialType
  <2>2. SA!IsFiniteSet(Timers) /\ SA!Cardinality(Timers) = NumTimers
    BY TimerCount
  <2>3. SA!Contents \subseteq Timers
    BY <1>1 DEF SA!SerialInv, SA!NoTimerTwice
  <2>4. n <= SA!Cardinality(Timers)
    BY <1>1, <2>2, <2>3, Constants, SA!UsedFit
  <2>5. NumTimers <= 3
    BY DEF SA!Removing
  <2> QED BY <2>1, <2>2, <2>4, <2>5, PoolAssumption
<1> QED
  BY <1>1, <1>2, <1>3, <1>5, <1>6 DEF SA!SearchFinds, SA!SearchMoves

\* A further step of TimerTask's call, which removes the top it found.
LEMMA TaskHeap ==
  ASSUME HeapCalm, HeapT!HeapStep, opA' = opA, opT.pc # "idle",
         opT.pc = "search" => opT.index = 0 /\ heap[0] = opT.timer
  PROVE  /\ HeapCalm' /\ opT'.timer = opT.timer /\ opA.pc = "idle"
         /\ \/ ST!Adding /\ Held' = Held /\ (ST!Adding' \/ opT'.pc = "idle")
            \/ opT.pc = "search" /\ opT'.pc = "decLoad" /\ Held' = Held \ {opT.timer}
            \/ /\ ST!Unlinked \/ opT.pc = "down"
               /\ Held' = Held
               /\ ST!Unlinked' \/ opT'.pc \in {"down", "idle"}
<1>1. ST!HeapStep /\ ST!SerialInv /\ Held = ST!Contents /\ opA.pc = "idle"
  BY HeapTStep, HeldIs DEF HeapCalm
<1>2. /\ ST!SerialInv' /\ opT'.timer = opT.timer
      /\ \/ ST!Adding /\ ST!Contents' = ST!Contents /\ (ST!Adding' \/ opT'.pc = "idle")
         \/ opT.pc = "search" /\ (ST!SearchFinds \/ ST!SearchFails \/ ST!SearchMoves)
         \/ /\ ST!Unlinked \/ opT.pc = "down"
            /\ ST!Contents' = ST!Contents
            /\ ST!Unlinked' \/ opT'.pc \in {"down", "idle"}
  BY <1>1, Constants, ST!SerialStep
<1>3. Held' = ST!Contents'
  BY <1>1, NextHeld
<1>4. opT' \in ST!Calls /\ opA' \in SA!Calls
  BY <1>2 DEF ST!SerialInv, ST!SerialType, HeapCalm
<1>5. HeapCalm'
  BY <1>1, <1>2, <1>4, IdleNext DEF HeapCalm
<1>6. ~(opT.pc = "search" /\ ST!SearchFails)
  <2> SUFFICES ASSUME opT.pc = "search", ST!SearchFails PROVE FALSE
    OBVIOUS
  <2>1. n >= 4 /\ n \in Nat /\ heap[n - 1] = heap[0]
    BY <1>1 DEF ST!SearchFails, ST!SerialInv, ST!SerialType
  <2>2. ST!Used = 0 .. n - 1
    BY DEF ST!Used, ST!Size, ST!Adding, ST!Unlinked
  <2> QED BY <1>1, <2>1, <2>2 DEF ST!SerialInv, ST!NoTimerTwice
<1> QED
  BY <1>1, <1>2, <1>3, <1>5, <1>6 DEF ST!SearchFinds, ST!SearchMoves

\* What TimerTask finds at the top.
LEMMA TopHeld ==
  ASSUME HeapCalm, n # 0, opT.pc = "idle"
  PROVE  heap[0] \in Timers /\ (heap[0] \in Held \/ (opA.pc # "idle" /\ heap[0] = opA.timer))
<1>1. SA!SerialInv /\ Held = SA!Contents
  BY HeldIs DEF HeapCalm
<1> QED BY <1>1, Constants, SA!TopIsHeld DEF SA!Unlinked

LEMMA HeldTimers == HeapCalm => Held \subseteq Timers
BY HeldIs DEF HeapCalm, SA!SerialInv, SA!NoTimerTwice, ST!SerialInv, ST!NoTimerTwice

-----------------------------------------------------------------------------
(* Where main may call, and what its call then finds.                      *)

LEMMA Times ==
  ASSUME Known
  PROVE  /\ now \in 0 .. MaxTime /\ MaxTime \in Nat
         /\ \A t \in Timers : whenToFire[t] \in 0 .. MaxTime
         /\ \A t \in Timers : timer[t].timeout \in 0 .. MaxTime
         /\ task.when \in 0 .. MaxTime
BY TimesAssumption DEF Known, SystemInv, TypeOK, ObjectsTypeOK, ProcessTypeOK,
                       TimerFields, TaskFields

LEMMA Later ==
  ASSUME Known, now < MaxTime, NEW d \in 1 .. MaxTime
  PROVE  Deadline(d) > now
BY Times DEF Deadline

LEMMA Processes ==
  ASSUME Known
  PROVE  /\ at \in [App -> MainAt \cup RecvAt] /\ at["main"] \in MainAt
         /\ at["recv"] \in RecvAt /\ on \in [App -> Timers \cup {NULL}]
         /\ phase \in [Timers -> {"none", "invalid", "fresh", "armed", "stopped",
                                  "cancelled"}]
         /\ timer \in [Timers -> TimerFields] /\ whenToFire \in [Timers -> 0 .. MaxTime]
         /\ callback \in [Callbacks -> CallbackFields] /\ task \in TaskFields
         /\ opA.pc \in SA!Steps \ {"fault"} /\ opT.pc \in ST!Steps \ {"fault"}
BY DEF Known, SystemInv, TypeOK, ObjectsTypeOK, ProcessTypeOK, CalmInv, HeapCalm,
       SA!Calls, ST!Calls

\* Main calls when its last call has left the heap, and all that is armed, or
\* cancelled and still to come, is in the heap and not due.
LEMMA CallFinds ==
  ASSUME Known, at["main"] = "ready", Lull
  PROVE  /\ opA.pc = "idle" /\ opT.pc = "idle"
         /\ \A t \in Held : whenToFire[t] > now
         /\ task.pc \in {"poll", "peeked", "read"}
         /\ task.pc # "poll" => task.when > now
         /\ mq = <<>> /\ at["recv"] = "ready"
         /\ \A t \in Timers : ~InHand(t) /\ ~InQueue(t) /\ ~Handled(t) /\ ~MainAtWork(t)
         /\ \A t \in Timers : phase[t] = "armed" => t \in Held /\ timer[t].state = "Active"
         /\ \A t \in Timers : phase[t] = "cancelled" /\ timer[t].state # "Done" => t \in Held
         /\ \A t \in Held : \/ phase[t] = "armed"
                            \/ phase[t] = "cancelled" /\ timer[t].state # "Done"
<1>1. /\ task.pc \in {"poll", "peeked", "read"} /\ mq = <<>> /\ at["recv"] = "ready"
      /\ \A i \in 0 .. n - 1 : heap[i] # NULL => whenToFire[heap[i]] > now
  BY DEF Lull
<1>2. opA.pc = "idle" /\ opT.pc = "idle"
  BY <1>1 DEF Known, CalmInv, QueueCalm, MainBusy
<1>3. Held = {heap[i] : i \in 0 .. n - 1} /\ Held \subseteq Timers
  BY <1>2, HeldIs, HeldTimers DEF Known, CalmInv
<1>4. \A t \in Held : whenToFire[t] > now
  BY <1>1, <1>3, NullAssumption
<1>5. task.pc # "poll" => task.when > now
  <2> SUFFICES ASSUME task.pc # "poll", ~(task.when > now) PROVE FALSE
    OBVIOUS
  <2>1. n # 0 /\ heap[0] = task.top /\ whenToFire[task.top] = task.when
    BY <1>1 DEF Known, CalmInv, ReadInv
  <2>2. heap[0] \in Held
    BY <1>2, <2>1, TopHeld DEF Known, CalmInv
  <2> QED BY <1>4, <2>1, <2>2
<1>6. \A t \in Timers : ~InHand(t) /\ ~InQueue(t) /\ ~Handled(t) /\ ~MainAtWork(t)
  BY <1>1 DEF InHand, InQueue, Handled, MainAtWork, Holding
<1>7. \A t \in Timers : Place(t)
  BY DEF Known, CalmInv, PlacesInv
<1>8. \A t \in Held : \/ phase[t] = "armed" /\ timer[t].state = "Active"
                      \/ phase[t] = "cancelled" /\ timer[t].state # "Done"
  BY <1>3, <1>6, <1>7 DEF Place
<1>9. \A t \in Timers : /\ phase[t] = "armed" => t \in Held
                        /\ phase[t] = "cancelled" /\ timer[t].state # "Done" => t \in Held
  BY <1>6, <1>7 DEF Place
<1> QED BY <1>1, <1>2, <1>4, <1>5, <1>6, <1>8, <1>9

(***************************************************************************)
(* While main is in a call on timer t, all that is armed, or cancelled and *)
(* still to come, is in the heap and not due, but perhaps t.               *)
(***************************************************************************)
Quiet(t) ==
  /\ opT.pc = "idle" /\ task.pc \in {"poll", "peeked", "read"}
  /\ task.pc # "poll" => task.when > now
  /\ mq = <<>> /\ at["recv"] = "ready"
  /\ \A u \in Held : whenToFire[u] > now
  /\ \A u \in Timers \ {t} :
       /\ phase[u] = "armed" => u \in Held /\ timer[u].state = "Active"
       /\ phase[u] = "cancelled" /\ timer[u].state # "Done" => u \in Held
       /\ u \in Held => \/ phase[u] = "armed"
                        \/ phase[u] = "cancelled" /\ timer[u].state # "Done"

LEMMA CallQuiet ==
  ASSUME Known, at["main"] = "ready", Lull, NEW t \in Timers
  PROVE  Quiet(t)
BY CallFinds DEF Quiet

LEMMA BusyQuiet ==
  ASSUME Known, at["main"] \in Holding
  PROVE  /\ on["main"] \in Timers /\ Quiet(on["main"])
         /\ \A t \in Timers : ~InHand(t) /\ ~InQueue(t) /\ ~Handled(t)
<1>1. /\ task.pc \in {"poll", "peeked", "read"} /\ mq = <<>> /\ at["recv"] = "ready"
      /\ \A t \in Held : whenToFire[t] > now
      /\ task.pc # "poll" => task.when > now
  BY DEF Known, CalmInv, QueueCalm, MainBusy, Holding
<1>2. on["main"] \in Timers /\ opT.pc = "idle"
  BY <1>1 DEF Known, SystemInv, HandInv, CalmInv, QueueCalm, Holding, App
<1>3. \A t \in Timers : ~InHand(t) /\ ~InQueue(t) /\ ~Handled(t)
  BY <1>1 DEF InHand, InQueue, Handled
<1>4. \A t \in Timers \ {on["main"]} : Place(t) /\ ~MainAtWork(t)
  BY DEF Known, CalmInv, PlacesInv, MainAtWork
<1>5. \A t \in Timers \ {on["main"]} :
        /\ phase[t] = "armed" => t \in Held /\ timer[t].state = "Active"
        /\ phase[t] = "cancelled" /\ timer[t].state # "Done" => t \in Held
        /\ t \in Held => \/ phase[t] = "armed"
                         \/ phase[t] = "cancelled" /\ timer[t].state # "Done"
  BY <1>3, <1>4 DEF Place
<1> QED BY <1>1, <1>2, <1>3, <1>5 DEF Quiet

(***************************************************************************)
(* A step of main's call on timer t, from its first step on, that goes to  *)
(* where.  It moves no other timer, and leaves t where PlacesInv wants it. *)
(***************************************************************************)
LEMMA MainMoves ==
  ASSUME Known, NEW t \in Timers, Quiet(t), NEW where \in Holding,
         at' = [at EXCEPT !["main"] = where], on' = [on EXCEPT !["main"] = t],
         UNCHANGED <<opT, mq, now, task>>, HeapCalm',
         \A u \in Timers \ {t} : /\ phase'[u] = phase[u] /\ timer'[u] = timer[u]
                                 /\ whenToFire'[u] = whenToFire[u]
                                 /\ u \in Held' <=> u \in Held,
         t \in Held' => whenToFire'[t] > now,
         opA'.pc # "idle" => opA'.timer = t /\ whenToFire'[t] > now,
         SA!Adding' => where = "posting" /\ phase'[t] = "armed",
         SA!Removing' => /\ NumTimers <= 3
                         /\ where = "posting" => phase'[t] = "stopped",
         where = "restarting" => /\ now < MaxTime /\ phase'[t] = "armed" /\ MayRestart
                                 /\ timer'[t].state = "Idle",
         where = "unlinking" => phase'[t] # "none",
         where # "posting" /\ opA'.pc # "search" => t \notin Held',
         t \in Held' => \/ phase'[t] = "armed" /\ timer'[t].state = "Active"
                        \/ phase'[t] = "cancelled" /\ timer'[t].state # "Done"
                        \/ opA'.pc = "search",
         phase'[t] = "armed" => t \in Held' \/ where # "posting",
         phase'[t] = "cancelled" /\ timer'[t].state # "Done" => t \in Held' \/ where = "unlinking",
         Fields(t)'
  PROVE  QueueCalm' /\ ReadInv' /\ PlacesInv' /\ TaskHand' /\ RecvHand' /\ MainHand'
<1>1. /\ at'["main"] = where /\ at'["recv"] = "ready" /\ on'["main"] = t
      /\ where \in {"posting", "restarting", "unlinking"}
  BY Processes DEF App, Holding, Quiet
<1>2. /\ mq' = <<>> /\ now' = now /\ task' = task /\ opT' = opT /\ opT'.pc = "idle"
      /\ task.pc \in {"poll", "peeked", "read"}
      /\ task.pc # "poll" => task.when > now
  BY DEF Quiet
<1>3. HeapCalm' => Held' \subseteq Timers
  BY NextHeld, <1>2 DEF HeapCalm, SA!SerialInv, SA!NoTimerTwice
<1>4. \A u \in Held' : whenToFire'[u] > now
  BY <1>3 DEF Quiet
<1>5. QueueCalm'
  BY <1>1, <1>2, <1>4 DEF QueueCalm, MainBusy, ST!Adding
<1>6. ReadInv'
  BY <1>2 DEF ReadInv
<1>7. \A u \in Timers : ~InHand(u)' /\ ~InQueue(u)' /\ ~Handled(u)'
  BY <1>1, <1>2 DEF InHand, InQueue, Handled
<1>8. MainAtWork(t)'
  BY <1>1 DEF MainAtWork, Holding
<1>9. \A u \in Timers : Place(u)'
  <2>1. Place(t)'
    BY <1>1, <1>7, <1>8 DEF Place
  <2>2. ASSUME NEW u \in Timers \ {t} PROVE Place(u)'
    <3>1. /\ phase[u] = "armed" => u \in Held /\ timer[u].state = "Active"
          /\ phase[u] = "cancelled" /\ timer[u].state # "Done" => u \in Held
          /\ u \in Held => \/ phase[u] = "armed"
                           \/ phase[u] = "cancelled" /\ timer[u].state # "Done"
      BY DEF Quiet
    <3> QED BY <1>7, <3>1 DEF Place
  <2> QED BY <2>1, <2>2
<1>10. PlacesInv'
  <2>1. ASSUME NEW u \in Timers \ {t} PROVE Fields(u)'
    BY DEF Known, CalmInv, PlacesInv, Fields
  <2> QED BY <1>9, <2>1 DEF PlacesInv
<1>11. TaskHand'
  BY <1>2 DEF TaskHand
<1>12. RecvHand'
  BY <1>1, <1>2, <1>7 DEF RecvHand
<1>13. MainHand'
  BY <1>1, <1>2 DEF MainHand, App
<1> QED BY <1>5, <1>6, <1>10, <1>11, <1>12, <1>13

-----------------------------------------------------------------------------
(* What a step leaves as it is.                                            *)

LEMMA Linked ==
  ASSUME Known
  PROVE  \A t \in Timers : timer[t].pCb # 0 => timer[t].pCb \in Callbacks
BY Objects DEF Known, Typed

\* Only the callback of t, or t's link, changed.
LEMMA LinksChange ==
  ASSUME Known, NEW t \in Timers,
         \A u \in Timers \ {t} :
           /\ timer'[u].pCb = timer[u].pCb /\ phase'[u] = phase[u]
           /\ whenToFire'[u] = whenToFire[u]
           /\ timer[u].pCb # 0 =>
                /\ callback'[timer[u].pCb].status = callback[timer[u].pCb].status
                /\ callback'[timer[u].pCb].due = callback[timer[u].pCb].due
                /\ callback'[timer[u].pCb].wanted = callback[timer[u].pCb].wanted,
         timer'[t].pCb # 0 <=> phase'[t] \in {"armed", "stopped"},
         timer'[t].pCb # 0 => /\ callback'[timer'[t].pCb].status = "live"
                              /\ callback'[timer'[t].pCb].due = whenToFire'[t]
                              /\ callback'[timer'[t].pCb].wanted <=> phase'[t] = "armed",
         \A c \in Callbacks :
           callback'[c].wanted => \/ timer'[t].pCb = c
                                  \/ callback[c].wanted /\ timer[t].pCb # c
  PROVE  LinksCalm'
<1>1. LinksCalm
  BY DEF Known, CalmInv
<1>2. \A c \in Callbacks : callback'[c].wanted => \E u \in Timers : timer'[u].pCb = c
  BY <1>1 DEF LinksCalm
<1>3. \A u \in Timers \ {t} :
        /\ timer'[u].pCb # 0 <=> phase'[u] \in {"armed", "stopped"}
        /\ timer'[u].pCb # 0 =>
             /\ callback'[timer'[u].pCb].status = "live"
             /\ callback'[timer'[u].pCb].due = whenToFire'[u]
             /\ callback'[timer'[u].pCb].wanted <=> phase'[u] = "armed"
  BY <1>1 DEF LinksCalm
<1> QED BY <1>2, <1>3 DEF LinksCalm

LEMMA LinksKept ==
  ASSUME Known, phase' = phase,
         \A t \in Timers :
           /\ timer'[t].pCb = timer[t].pCb
           /\ timer[t].pCb # 0 => whenToFire'[t] = whenToFire[t],
         \A c \in Callbacks : /\ callback'[c].status = callback[c].status
                              /\ callback'[c].due = callback[c].due
                              /\ callback'[c].wanted <=> callback[c].wanted
  PROVE  LinksCalm'
BY Linked DEF Known, CalmInv, LinksCalm

\* No timer changed its place.
LEMMA PlacesKept ==
  ASSUME Known, Held' = Held, phase' = phase, opA'.pc = opA.pc,
         at'["main"] = at["main"], on'["main"] = on["main"],
         \A t \in Timers :
           /\ timer'[t].state = timer[t].state /\ timer'[t].type = timer[t].type
           /\ timer'[t].timeout = timer[t].timeout
           /\ InHand(t)' <=> InHand(t)
           /\ InQueue(t)' <=> InQueue(t)
           /\ Handled(t)' <=> Handled(t)
  PROVE  PlacesInv'
<1>1. \A t \in Timers : MainAtWork(t)' <=> MainAtWork(t)
  BY DEF MainAtWork
<1>2. ASSUME NEW t \in Timers PROVE Place(t)' /\ Fields(t)'
  <2>1. Place(t) /\ Fields(t)
    BY DEF Known, CalmInv, PlacesInv
  <2>2. Place(t)'
    BY <1>1, <2>1 DEF Place
  <2>3. Fields(t)'
    BY <2>1 DEF Fields
  <2> QED BY <2>2, <2>3
<1> QED BY <1>2 DEF PlacesInv

LEMMA PoolKept ==
  ASSUME Known, UNCHANGED pool,
         \A t \in Timers : phase'[t] = "none" <=> phase[t] = "none",
         \A p \in App : at'[p] = "freeing" <=> at[p] = "freeing",
         \A p \in App : at[p] = "freeing" => on'[p] = on[p]
  PROVE  PU!PoolInv'
<1>1. InUse' = InUse
  BY DEF InUse
<1> QED
  BY <1>1, Constants, PoolAssumption, PU!StutterKeeps DEF Known, CalmInv, PU!vars, pool

-----------------------------------------------------------------------------
(* Main's calls.                                                           *)

LEMMA MayCallCareful ==
  ASSUME Sheltered, NEW method, NEW t \in Timers, MayCall(method, t)
  PROVE  /\ at["main"] = "ready" /\ Lull
         /\ <<method, phase[t]>> \in CarefulProtocol
         /\ <<method, phase[t]>> \in TakesBack => NumTimers <= 3
BY DEF Sheltered, MayCall

\* In which phases the careful protocol has which calls.
LEMMA CarefulPhases ==
  ASSUME NEW p
  PROVE  /\ <<"schedule", p>> \in CarefulProtocol => p \in {"fresh", "invalid"}
         /\ <<"stop", p>> \in CarefulProtocol => p = "armed"
         /\ <<"restart", p>> \in CarefulProtocol => p \in {"armed", "stopped"}
         /\ <<"cancel", p>> \in CarefulProtocol => p = "armed"
         /\ <<"delete", p>> \in CarefulProtocol => p \in {"armed", "cancelled", "invalid"}
<1>1. <<"schedule", p>> \in CarefulProtocol => p \in {"fresh", "invalid"}
  BY DEF CarefulProtocol
<1>2. <<"stop", p>> \in CarefulProtocol => p = "armed"
  BY DEF CarefulProtocol
<1>3. <<"restart", p>> \in CarefulProtocol => p \in {"armed", "stopped"}
  BY DEF CarefulProtocol
<1>4. <<"cancel", p>> \in CarefulProtocol => p = "armed"
  BY DEF CarefulProtocol
<1>5. <<"delete", p>> \in CarefulProtocol => p \in {"armed", "cancelled", "invalid"}
  BY DEF CarefulProtocol
<1> QED BY <1>1, <1>2, <1>3, <1>4, <1>5

LEMMA NotAtOnce ==
  /\ SA!Adding => ~SA!Removing
  /\ opA.pc = "search" => ~SA!Adding /\ SA!Removing
  /\ opA.pc = "idle" => ~SA!Adding /\ ~SA!Removing
  /\ SA!Adding' => ~SA!Removing'
  /\ opA'.pc = "search" => ~SA!Adding' /\ SA!Removing'
  /\ opA'.pc = "idle" => ~SA!Adding' /\ ~SA!Removing'
BY DEF SA!Adding, SA!Removing, SA!Unlinked

LEMMA StopCalm ==
  ASSUME Sheltered, Known, NEW t \in Timers, Stop(t)
  PROVE  CalmInv'
<1>1. /\ MayCall("stop", t) /\ HeapA!RemoveFromHeap(t)
      /\ timer' = [timer EXCEPT ![t].state = "Idle"] /\ phase' = [phase EXCEPT ![t] = "stopped"]
      /\ callback' = (IF timer[t].pCb = 0 THEN callback ELSE Unwanted(timer[t].pCb))
      /\ at' = [at EXCEPT !["main"] = "posting"] /\ on' = [on EXCEPT !["main"] = t]
      /\ UNCHANGED <<whenToFire, opT, pool, mq, now, loaded, task>>
  BY DEF Stop, Call, Go, Enter
<1>2. at["main"] = "ready" /\ Lull /\ phase[t] = "armed" /\ NumTimers <= 3
  BY <1>1, MayCallCareful, CarefulPhases DEF TakesBack
<1>3. opA.pc = "idle" /\ opT.pc = "idle" /\ t \in Held /\ \A u \in Held : whenToFire[u] > now
  BY <1>2, CallFinds
<1>4. HeapCalm' /\ Held' = Held /\ opA'.pc = "search" /\ opA'.timer = t
  BY <1>1, <1>3, AppRemove DEF Known, CalmInv
<1>5. /\ phase'[t] = "stopped" /\ timer'[t].state = "Idle"
      /\ timer'[t].type = timer[t].type /\ timer'[t].timeout = timer[t].timeout
      /\ \A u \in Timers : timer'[u].pCb = timer[u].pCb
      /\ \A u \in Timers \ {t} : phase'[u] = phase[u] /\ timer'[u] = timer[u]
  BY <1>1, Processes DEF TimerFields
<1>6. QueueCalm' /\ ReadInv' /\ PlacesInv' /\ TaskHand' /\ RecvHand' /\ MainHand'
  <2>1. Fields(t)'
    BY <1>2, <1>5 DEF Known, CalmInv, PlacesInv, Fields
  <2> QED BY <1>1, <1>2, <1>3, <1>4, <1>5, <2>1, NotAtOnce, CallQuiet, MainMoves DEF Holding
<1>7. LinksCalm'
  <2> DEFINE c == timer[t].pCb
  <2>1. /\ c # 0 /\ c \in Callbacks
        /\ callback[c].status = "live" /\ callback[c].due = whenToFire[t]
    BY <1>2, Linked DEF Known, CalmInv, LinksCalm
  <2>2. \A u \in Timers \ {t} : timer[u].pCb # 0 => timer[u].pCb # c
    BY <2>1 DEF Known, OnceInv, LinkInv
  <2>3. timer'[t].pCb = c
    BY <1>5
  <2>4. callback' = Unwanted(c)
    BY <1>1, <2>1
  <2> HIDE DEF c
  <2>5. /\ callback'[c].status = callback[c].status /\ callback'[c].due = callback[c].due
        /\ ~callback'[c].wanted
        /\ \A b \in Callbacks \ {c} : callback'[b] = callback[b]
    BY <2>1, <2>4, Processes DEF Unwanted, CallbackFields
  <2>6. \A b \in Callbacks : callback'[b].wanted => callback[b].wanted /\ timer[t].pCb # b
    BY <2>5 DEF c
  <2>7. \A u \in Timers \ {t} :
          timer[u].pCb # 0 => callback'[timer[u].pCb] = callback[timer[u].pCb]
    BY <2>2, <2>5, Linked
  <2> QED BY <1>1, <1>5, <2>1, <2>3, <2>5, <2>6, <2>7, LinksChange
<1>8. PU!PoolInv'
  BY <1>1, <1>2, <1>5, Processes, PoolKept DEF App
<1> QED BY <1>4, <1>6, <1>7, <1>8 DEF CalmInv

LEMMA OwnCallback ==
  ASSUME Known, NEW t \in Timers, timer[t].pCb # 0
  PROVE  /\ timer[t].pCb \in Callbacks
         /\ callback[timer[t].pCb].status = "live"
         /\ callback[timer[t].pCb].due = whenToFire[t]
         /\ callback[timer[t].pCb].wanted <=> phase[t] = "armed"
         /\ \A u \in Timers \ {t} : timer[u].pCb # 0 => timer[u].pCb # timer[t].pCb
BY Linked DEF Known, CalmInv, LinksCalm, OnceInv, LinkInv

\* The link of t goes, and its callback with it.
LEMMA LinksGone ==
  ASSUME Known, NEW t \in Timers,
         \A u \in Timers \ {t} : /\ timer'[u].pCb = timer[u].pCb /\ phase'[u] = phase[u]
                                 /\ whenToFire'[u] = whenToFire[u],
         timer'[t].pCb = 0, phase'[t] \notin {"armed", "stopped"},
         callback' = IF timer[t].pCb = 0 THEN callback ELSE Deleted(timer[t].pCb)
  PROVE  LinksCalm'
<1> DEFINE c == timer[t].pCb
<1>1. CASE c = 0
  BY <1>1, Linked, LinksChange, Zero DEF Callbacks
<1>2. CASE c # 0
  <2>1. /\ c \in Callbacks /\ callback' = Deleted(c)
        /\ \A u \in Timers \ {t} : timer[u].pCb # 0 => timer[u].pCb # c
    BY <1>2, OwnCallback
  <2> HIDE DEF c
  <2>2. /\ ~callback'[c].wanted
        /\ \A b \in Callbacks \ {c} : callback'[b] = callback[b]
    BY <2>1, Processes DEF Deleted, CallbackFields
  <2>3. \A b \in Callbacks : callback'[b].wanted => callback[b].wanted /\ timer[t].pCb # b
    BY <2>2 DEF c
  <2>4. \A u \in Timers \ {t} :
          timer[u].pCb # 0 => callback'[timer[u].pCb] = callback[timer[u].pCb]
    BY <2>1, <2>2, Linked
  <2> QED BY <2>3, <2>4, LinksChange
<1> QED BY <1>1, <1>2

LEMMA CancelCalm ==
  ASSUME Sheltered, Known, NEW t \in Timers, Cancel(t)
  PROVE  CalmInv'
<1>1. /\ MayCall("cancel", t)
      /\ timer' = [timer EXCEPT ![t].pCb = 0, ![t].state = "Idle"]
      /\ phase' = [phase EXCEPT ![t] = "cancelled"]
      /\ callback' = (IF timer[t].pCb = 0 THEN callback ELSE Deleted(timer[t].pCb))
      /\ at' = [at EXCEPT !["main"] = "posting"] /\ on' = [on EXCEPT !["main"] = t]
      /\ UNCHANGED <<heap, n, whenToFire, opA, opT, pool, mq, now, loaded, task>>
  BY DEF Cancel, Call, Go, Enter
<1>2. at["main"] = "ready" /\ Lull /\ phase[t] = "armed"
  BY <1>1, MayCallCareful, CarefulPhases
<1>3. opA.pc = "idle" /\ opT.pc = "idle" /\ t \in Held /\ \A u \in Held : whenToFire[u] > now
  BY <1>2, CallFinds
<1>4. HeapCalm' /\ Held' = Held
  BY <1>1, SameHeap DEF Known, CalmInv
<1>5. /\ phase'[t] = "cancelled" /\ timer'[t].state = "Idle" /\ timer'[t].pCb = 0
      /\ timer'[t].type = timer[t].type
      /\ \A u \in Timers \ {t} : phase'[u] = phase[u] /\ timer'[u] = timer[u]
  <2> DEFINE unlinked == [timer EXCEPT ![t].pCb = 0]
  <2>1. /\ unlinked \in [Timers -> TimerFields]
        /\ unlinked[t].type = timer[t].type /\ unlinked[t].pCb = 0
        /\ \A u \in Timers \ {t} : unlinked[u] = timer[u]
    BY Zero, Processes DEF TimerFields
  <2>2. timer' = [unlinked EXCEPT ![t].state = "Idle"] /\ phase' = [phase EXCEPT ![t] = "cancelled"]
    BY <1>1
  <2> HIDE DEF unlinked
  <2> QED BY <2>1, <2>2, Processes DEF TimerFields
<1>6. QueueCalm' /\ ReadInv' /\ PlacesInv' /\ TaskHand' /\ RecvHand' /\ MainHand'
  <2>1. Fields(t)'
    BY <1>2, <1>5 DEF Known, CalmInv, PlacesInv, Fields
  <2> QED BY <1>1, <1>2, <1>3, <1>4, <1>5, <2>1, NotAtOnce, CallQuiet, MainMoves DEF Holding
<1>7. LinksCalm'
  BY <1>1, <1>5, LinksGone
<1>8. PU!PoolInv'
  BY <1>1, <1>2, <1>5, Processes, PoolKept DEF App
<1> QED BY <1>4, <1>6, <1>7, <1>8 DEF CalmInv

LEMMA DeleteCalm ==
  ASSUME Sheltered, Known, NEW t \in Timers, Delete(t)
  PROVE  CalmInv'
<1>1. /\ MayCall("delete", t)
      /\ at' = [at EXCEPT !["main"] = "unlinking"] /\ on' = [on EXCEPT !["main"] = t]
      /\ UNCHANGED <<whenToFire, opT, pool, timer, mq, now, loaded, task, phase, callback>>
  BY DEF Delete, Destroy, Call, Go
<1>2. /\ at["main"] = "ready" /\ Lull /\ phase[t] \in {"armed", "cancelled", "invalid"}
      /\ phase[t] \in {"armed", "cancelled"} => NumTimers <= 3
  BY <1>1, MayCallCareful, CarefulPhases DEF TakesBack
<1>3. /\ opA.pc = "idle" /\ opT.pc = "idle" /\ \A u \in Held : whenToFire[u] > now
      /\ phase[t] = "armed" => t \in Held /\ timer[t].state = "Active"
      /\ phase[t] = "cancelled" /\ timer[t].state # "Done" => t \in Held
      /\ t \in Held => \/ phase[t] = "armed"
                       \/ phase[t] = "cancelled" /\ timer[t].state # "Done"
  BY <1>2, CallFinds
<1>4. Fields(t) /\ Fields(t)'
  BY <1>1 DEF Known, CalmInv, PlacesInv, Fields
<1>5. /\ HeapCalm' /\ Held' = Held
      /\ opA'.pc # "idle" => opA'.timer = t /\ t \in Held
      /\ \/ opA'.pc = "idle" /\ t \notin Held
         \/ opA'.pc = "search" /\ t \in Held /\ NumTimers <= 3
  <2>1. CASE timer[t].type = "Invalid" \/ timer[t].state = "Done"
    <3>1. UNCHANGED <<heap, n, opA, opT>>
      BY <2>1, <1>1 DEF Delete, Destroy
    <3>2. t \notin Held
      BY <2>1, <1>3, <1>4 DEF Fields
    <3> QED BY <1>3, <3>1, <3>2, SameHeap DEF Known, CalmInv
  <2>2. CASE ~(timer[t].type = "Invalid" \/ timer[t].state = "Done")
    <3>1. HeapA!RemoveFromHeap(t)
      BY <2>2 DEF Delete, Destroy
    <3>2. t \in Held /\ NumTimers <= 3
      BY <2>2, <1>2, <1>3, <1>4 DEF Fields
    <3> QED BY <1>1, <1>3, <3>1, <3>2, AppRemove DEF Known, CalmInv
  <2> QED BY <2>1, <2>2
<1>6. QueueCalm' /\ ReadInv' /\ PlacesInv' /\ TaskHand' /\ RecvHand' /\ MainHand'
  BY <1>1, <1>2, <1>3, <1>4, <1>5, NotAtOnce, CallQuiet, MainMoves DEF Holding
<1>7. LinksCalm'
  BY <1>1, LinksKept
<1>8. PU!PoolInv'
  BY <1>1, <1>2, Processes, PoolKept DEF App
<1> QED BY <1>5, <1>6, <1>7, <1>8 DEF CalmInv

\* A timer never scheduled is not linked yet, and gets a callback of its own.
LEMMA ScheduleLinks ==
  ASSUME Sheltered, Known, NEW t \in Timers, NEW kind \in Kinds, NEW d \in Timeouts,
         Schedule(t, kind, d), phase[t] \in {"fresh", "invalid"}
  PROVE  /\ timer'[t].type = "OneShot" /\ timer'[t].state = "Active"
         /\ MayRestart => timer'[t].timeout > 0
         /\ \A u \in Timers \ {t} : timer'[u] = timer[u]
         /\ LinksCalm'
<1>1. timer[t].pCb = 0
  BY DEF Known, CalmInv, LinksCalm
<1>2. PICK c \in Callbacks, left \in Leftover :
        /\ callback[c].status = "unborn"
        /\ callback' = [Due(c, d) EXCEPT ![c].status = "live", ![c].kind = kind,
                                          ![c].asked = d]
        /\ timer' = [timer EXCEPT ![t] =
             [type |-> kind[1], state |-> "Active", pCb |-> c,
              timeout |-> IF kind[1] = "OneShot" THEN left ELSE d,
              howMany |-> kind[2], fired |-> 0]]
  BY <1>1 DEF Schedule
<1>3. kind[1] = "OneShot" /\ (MayRestart => left > 0) /\ c # 0
  BY TimesAssumption DEF Sheltered, OnlyOneShots, Callbacks
<1>4. /\ timer'[t] = [type |-> kind[1], state |-> "Active", pCb |-> c,
                      timeout |-> IF kind[1] = "OneShot" THEN left ELSE d,
                      howMany |-> kind[2], fired |-> 0]
      /\ \A u \in Timers \ {t} : timer'[u] = timer[u]
  BY <1>2, Processes
<1>5. /\ timer'[t].type = "OneShot" /\ timer'[t].state = "Active"
      /\ timer'[t].timeout = left /\ timer'[t].pCb = c
  BY <1>3, <1>4
<1>6. /\ callback'[c].status = "live" /\ callback'[c].wanted
      /\ callback'[c].due = Deadline(d)
      /\ \A b \in Callbacks \ {c} : callback'[b] = callback[b]
  <2> DEFINE dued == Due(c, d)
             live == [dued EXCEPT ![c].status = "live"]
             kinded == [live EXCEPT ![c].kind = kind]
  <2>1. d \in 0 .. MaxTime /\ kind \in {"OneShot", "Periodic"} \X Nat
    BY TimesAssumption, KindsAssumption
  <2>2. dued \in [Callbacks -> CallbackFields]
    BY <2>1, DueType DEF Known, SystemInv, TypeOK
  <2>3. /\ dued[c].wanted /\ dued[c].due = Deadline(d)
        /\ \A b \in Callbacks \ {c} : dued[b] = callback[b]
    BY Processes DEF Due, CallbackFields
  <2>4. callback' = [kinded EXCEPT ![c].asked = d]
    BY <1>2
  <2> HIDE DEF dued
  <2>5. /\ live \in [Callbacks -> CallbackFields]
        /\ live[c].wanted /\ live[c].due = dued[c].due
        /\ live[c].status = "live"
        /\ \A b \in Callbacks \ {c} : live[b] = dued[b]
    BY <2>2, <2>3 DEF CallbackFields
  <2> HIDE DEF live
  <2>6. /\ kinded[c] = [live[c] EXCEPT !.kind = kind]
        /\ \A b \in Callbacks \ {c} : kinded[b] = live[b]
    BY <2>5
  <2>7. /\ kinded[c].wanted /\ kinded[c].due = live[c].due
        /\ kinded[c].status = live[c].status
    BY <2>5, <2>6 DEF CallbackFields
  <2>8. kinded \in [Callbacks -> CallbackFields]
    BY <2>1, <2>5 DEF CallbackFields
  <2> HIDE DEF kinded
  <2>9. /\ callback'[c] = [kinded[c] EXCEPT !.asked = d]
        /\ \A b \in Callbacks \ {c} : callback'[b] = kinded[b]
    BY <2>4, <2>8
  <2>10. /\ callback'[c].wanted /\ callback'[c].due = kinded[c].due
         /\ callback'[c].status = kinded[c].status
    BY <2>7, <2>8, <2>9 DEF CallbackFields
  <2> QED BY <2>3, <2>5, <2>6, <2>7, <2>9, <2>10
<1>7. /\ phase' = [phase EXCEPT ![t] = "armed"]
      /\ whenToFire' = [whenToFire EXCEPT ![t] = Deadline(d)]
  BY DEF Schedule, SetWhenToFire, Enter
<1>8. /\ phase'[t] = "armed" /\ whenToFire'[t] = Deadline(d)
      /\ \A u \in Timers \ {t} : phase'[u] = phase[u] /\ whenToFire'[u] = whenToFire[u]
  BY <1>7, Processes
<1>9. \A u \in Timers \ {t} : timer[u].pCb # 0 =>
        timer[u].pCb # c /\ callback'[timer[u].pCb] = callback[timer[u].pCb]
  BY <1>2, <1>6, OwnCallback
<1>10. \A b \in Callbacks :
         callback'[b].wanted => timer'[t].pCb = b \/ (callback[b].wanted /\ timer[t].pCb # b)
  BY <1>1, <1>5, <1>6 DEF Callbacks
<1>11. LinksCalm'
  BY <1>3, <1>4, <1>5, <1>6, <1>8, <1>9, <1>10, LinksChange
<1> QED BY <1>3, <1>4, <1>5, <1>11

LEMMA ScheduleCalm ==
  ASSUME Sheltered, Known, NEW t \in Timers, NEW kind \in Kinds, NEW d \in Timeouts,
         Schedule(t, kind, d)
  PROVE  CalmInv'
<1>1. /\ MayCall("schedule", t) /\ HeapA!AddToHeap(t) /\ now + d <= MaxTime
      /\ whenToFire' = [whenToFire EXCEPT ![t] = Deadline(d)]
      /\ phase' = [phase EXCEPT ![t] = "armed"]
      /\ at' = [at EXCEPT !["main"] = "posting"] /\ on' = [on EXCEPT !["main"] = t]
      /\ UNCHANGED <<opT, pool, mq, now, loaded, task>>
  BY DEF Schedule, SetWhenToFire, Go, Enter
<1>2. at["main"] = "ready" /\ Lull /\ phase[t] \in {"fresh", "invalid"}
  BY <1>1, MayCallCareful, CarefulPhases
<1>3. opT.pc = "idle" /\ t \notin Held
  BY <1>2, CallFinds
<1>4. HeapCalm' /\ Held' = Held \cup {t} /\ SA!Adding' /\ opA'.timer = t
  BY <1>1, <1>3, AppAdd DEF Known, CalmInv
<1>5. Deadline(d) > now
  <2>1. d \in 1 .. MaxTime /\ now < MaxTime
    BY <1>1, Times, TimesAssumption DEF Sheltered
  <2> QED BY <2>1, Later
<1>6. /\ timer'[t].type = "OneShot" /\ timer'[t].state = "Active"
      /\ MayRestart => timer'[t].timeout > 0
      /\ \A u \in Timers \ {t} : timer'[u] = timer[u]
      /\ LinksCalm'
  BY <1>2, ScheduleLinks
<1>7. /\ phase'[t] = "armed" /\ whenToFire'[t] = Deadline(d)
      /\ \A u \in Timers \ {t} : phase'[u] = phase[u] /\ whenToFire'[u] = whenToFire[u]
  BY <1>1, Processes
<1>8. QueueCalm' /\ ReadInv' /\ PlacesInv' /\ TaskHand' /\ RecvHand' /\ MainHand'
  <2>1. Fields(t)'
    BY <1>6, <1>7 DEF Fields
  <2>2. ~SA!Removing' /\ \A u \in Timers \ {t} : u \in Held' <=> u \in Held
    BY <1>4, NotAtOnce
  <2>3. Quiet(t) /\ "posting" \in Holding
    BY <1>2, CallQuiet DEF Holding
  <2> QED BY <1>1, <1>4, <1>5, <1>6, <1>7, <2>1, <2>2, <2>3, MainMoves
<1>9. PU!PoolInv'
  BY <1>1, <1>2, <1>7, Processes, PoolKept DEF App
<1> QED BY <1>4, <1>6, <1>8, <1>9 DEF CalmInv

\* The second half of restart() makes the callback of t due and wanted again.
LEMMA RearmLinks ==
  ASSUME Known, NEW t \in Timers, Rearm(t), phase[t] \in {"armed", "stopped"},
         phase'[t] = "armed", \A u \in Timers \ {t} : phase'[u] = phase[u]
  PROVE  /\ timer'[t].state = "Active" /\ timer'[t].type = timer[t].type
         /\ timer'[t].timeout = timer[t].timeout
         /\ whenToFire'[t] = Deadline(timer[t].timeout)
         /\ \A u \in Timers \ {t} : timer'[u] = timer[u] /\ whenToFire'[u] = whenToFire[u]
         /\ LinksCalm'
<1> DEFINE c == timer[t].pCb
           d == timer[t].timeout
<1>1. c # 0 /\ d \in 0 .. MaxTime
  BY Times DEF Known, CalmInv, LinksCalm
<1>2. /\ timer' = [timer EXCEPT ![t].state = "Active"]
      /\ whenToFire' = [whenToFire EXCEPT ![t] = Deadline(d)]
      /\ callback' = Due(c, d)
  BY <1>1 DEF Rearm, SetWhenToFire
<1>3. /\ timer'[t].state = "Active" /\ timer'[t].type = timer[t].type
      /\ timer'[t].timeout = timer[t].timeout /\ timer'[t].pCb = timer[t].pCb
      /\ \A u \in Timers \ {t} : timer'[u] = timer[u]
  BY <1>2, Processes DEF TimerFields
<1>4. /\ whenToFire'[t] = Deadline(d)
      /\ \A u \in Timers \ {t} : whenToFire'[u] = whenToFire[u]
  BY <1>2, Processes
<1>5. /\ c \in Callbacks /\ callback[c].status = "live"
      /\ \A u \in Timers \ {t} : timer[u].pCb # 0 => timer[u].pCb # c
  BY <1>1, OwnCallback
<1>6. timer'[t].pCb = c
  BY <1>3
<1> HIDE DEF c
<1>7. /\ callback'[c].wanted /\ callback'[c].due = Deadline(d)
      /\ callback'[c].status = "live"
      /\ \A b \in Callbacks \ {c} : callback'[b] = callback[b]
  <2> HIDE DEF d
  <2>1. callback' = Due(c, d) /\ callback \in [Callbacks -> CallbackFields]
    BY <1>2, Processes
  <2> DEFINE set == [callback EXCEPT ![c].due = Deadline(d)]
  <2>2. callback' = [set EXCEPT ![c].wanted = TRUE]
    BY <2>1 DEF Due
  <2>3. /\ set[c] = [callback[c] EXCEPT !.due = Deadline(d)]
        /\ \A b \in Callbacks \ {c} : set[b] = callback[b]
    BY <1>5, <2>1
  <2>4. set \in [Callbacks -> CallbackFields]
    <3>1. Deadline(d) \in 0 .. MaxTime
      BY <1>1, DeadlineType, Times
    <3> QED BY <2>1, <3>1 DEF CallbackFields
  <2>5. set[c].due = Deadline(d) /\ set[c].status = callback[c].status
    BY <1>5, <2>1, <2>3 DEF CallbackFields
  <2> HIDE DEF set
  <2>6. /\ callback'[c] = [set[c] EXCEPT !.wanted = TRUE]
        /\ \A b \in Callbacks \ {c} : callback'[b] = set[b]
    BY <1>5, <2>2, <2>4
  <2>7. /\ callback'[c].wanted /\ callback'[c].due = set[c].due
        /\ callback'[c].status = set[c].status
    BY <1>5, <2>4, <2>6 DEF CallbackFields
  <2> QED BY <1>5, <2>3, <2>5, <2>6, <2>7
<1>8. \A b \in Callbacks :
        callback'[b].wanted => timer'[t].pCb = b \/ (callback[b].wanted /\ timer[t].pCb # b)
  BY <1>6, <1>7 DEF c
<1>9. \A u \in Timers \ {t} :
        timer[u].pCb # 0 => callback'[timer[u].pCb] = callback[timer[u].pCb]
  BY <1>5, <1>7, Linked
<1>10. LinksCalm'
  BY <1>1, <1>3, <1>4, <1>6, <1>7, <1>8, <1>9, LinksChange
<1> QED BY <1>3, <1>4, <1>10

LEMMA RestartCalm ==
  ASSUME Sheltered, Known, NEW t \in Timers, Restart(t)
  PROVE  CalmInv'
<1>1. /\ MayCall("restart", t) /\ now + timer[t].timeout <= MaxTime
      /\ phase' = [phase EXCEPT ![t] = "armed"] /\ on' = [on EXCEPT !["main"] = t]
      /\ UNCHANGED <<opT, pool, mq, now, loaded, task>>
  BY DEF Restart, Call, Enter
<1>2. /\ at["main"] = "ready" /\ Lull /\ phase[t] \in {"armed", "stopped"}
      /\ phase[t] = "armed" => NumTimers <= 3
  BY <1>1, MayCallCareful, CarefulPhases DEF TakesBack
<1>3. /\ opA.pc = "idle" /\ opT.pc = "idle" /\ Quiet(t)
      /\ phase[t] = "armed" => t \in Held /\ timer[t].state = "Active"
      /\ phase[t] = "stopped" => t \notin Held
  BY <1>2, CallFinds, CallQuiet
<1>4. Fields(t) /\ MayRestart
  BY <1>1, <1>2 DEF Known, CalmInv, PlacesInv, MayCall, MayRestart
<1>5. timer[t].timeout > 0 /\ now < MaxTime /\ Deadline(timer[t].timeout) > now
  <2>1. timer[t].timeout \in 1 .. MaxTime /\ now < MaxTime
    BY <1>1, <1>2, <1>4, Times DEF Fields
  <2> QED BY <2>1, Later
<1>6. phase'[t] = "armed" /\ \A u \in Timers \ {t} : phase'[u] = phase[u]
  BY <1>1, Processes
<1>7. CASE /\ timer[t].state = "Active" /\ HeapA!RemoveFromHeap(t)
           /\ timer' = [timer EXCEPT ![t].state = "Idle"]
           /\ at' = [at EXCEPT !["main"] = "restarting"]
           /\ UNCHANGED <<whenToFire, callback>>
  <2>1. phase[t] = "armed" /\ t \in Held /\ NumTimers <= 3
    BY <1>2, <1>3, <1>4, <1>7 DEF Fields
  <2>2. HeapCalm' /\ Held' = Held /\ opA'.pc = "search" /\ opA'.timer = t
    BY <1>1, <1>3, <1>7, <2>1, AppRemove DEF Known, CalmInv
  <2>3. /\ timer'[t].state = "Idle" /\ timer'[t].type = timer[t].type
        /\ timer'[t].timeout = timer[t].timeout
        /\ \A u \in Timers : timer'[u].pCb = timer[u].pCb
        /\ \A u \in Timers \ {t} : timer'[u] = timer[u]
    BY <1>7, Processes DEF TimerFields
  <2>4. Fields(t)'
    BY <1>4, <1>6, <2>1, <2>3 DEF Fields
  <2>5. whenToFire'[t] > now /\ ~SA!Adding' /\ "restarting" \in Holding
    BY <1>3, <1>7, <2>1, <2>2, NotAtOnce DEF Quiet, Holding
  <2>6. QueueCalm' /\ ReadInv' /\ PlacesInv' /\ TaskHand' /\ RecvHand' /\ MainHand'
    BY <1>1, <1>3, <1>4, <1>5, <1>6, <1>7, <2>1, <2>2, <2>3, <2>4, <2>5, MainMoves
  <2>7. phase' = phase
    BY <1>1, <2>1, Processes
  <2>8. LinksCalm'
    BY <1>7, <2>3, <2>7, LinksKept
  <2>9. PU!PoolInv'
    BY <1>1, <1>2, <1>7, <2>7, Processes, PoolKept DEF App
  <2> QED BY <2>2, <2>6, <2>8, <2>9 DEF CalmInv
<1>8. CASE timer[t].state # "Active" /\ Rearm(t)
  <2>1. phase[t] = "stopped" /\ t \notin Held
    BY <1>2, <1>3, <1>8
  <2>2. at' = [at EXCEPT !["main"] = "posting"] /\ HeapA!AddToHeap(t)
    BY <1>8 DEF Rearm, Go
  <2>3. HeapCalm' /\ Held' = Held \cup {t} /\ SA!Adding' /\ opA'.timer = t
    BY <1>1, <1>3, <2>1, <2>2, AppAdd DEF Known, CalmInv
  <2>4. /\ timer'[t].state = "Active" /\ timer'[t].type = timer[t].type
        /\ timer'[t].timeout = timer[t].timeout
        /\ whenToFire'[t] = Deadline(timer[t].timeout)
        /\ \A u \in Timers \ {t} : timer'[u] = timer[u] /\ whenToFire'[u] = whenToFire[u]
        /\ LinksCalm'
    BY <1>2, <1>6, <1>8, RearmLinks
  <2>5. Fields(t)'
    BY <1>2, <1>4, <1>6, <2>4 DEF Fields
  <2>6. /\ ~SA!Removing' /\ "posting" \in Holding
        /\ \A u \in Timers \ {t} : u \in Held' <=> u \in Held
    BY <2>3, NotAtOnce DEF Holding
  <2>7. QueueCalm' /\ ReadInv' /\ PlacesInv' /\ TaskHand' /\ RecvHand' /\ MainHand'
    BY <1>1, <1>3, <1>5, <1>6, <2>2, <2>3, <2>4, <2>5, <2>6, MainMoves
  <2>8. PU!PoolInv'
    BY <1>1, <1>2, <1>6, <2>2, Processes, PoolKept DEF App
  <2> QED BY <2>3, <2>4, <2>7, <2>8 DEF CalmInv
<1> QED BY <1>7, <1>8 DEF Restart, Go

LEMMA RestartAddCalm ==
  ASSUME Sheltered, Known, RestartAdd
  PROVE  CalmInv'
<1>0. PICK t \in Timers : t = on["main"]
  BY BusyQuiet DEF RestartAdd, Holding
<1>1. /\ at["main"] = "restarting" /\ opA.pc = "idle" /\ Rearm(t)
      /\ at' = [at EXCEPT !["main"] = "posting"] /\ HeapA!AddToHeap(t)
      /\ UNCHANGED <<opT, pool, mq, now, on, loaded, task, phase>>
  BY <1>0 DEF RestartAdd, Rearm, Go
<1>2. Quiet(t) /\ opT.pc = "idle" /\ "posting" \in Holding
  BY <1>0, <1>1, BusyQuiet DEF Holding, Quiet
<1>3. now < MaxTime /\ phase[t] = "armed" /\ t \notin Held /\ MayRestart
  BY <1>0, <1>1 DEF Known, CalmInv, MainHand
<1>4. on' = [on EXCEPT !["main"] = t]
  BY <1>0, <1>1, Processes
<1>5. HeapCalm' /\ Held' = Held \cup {t} /\ SA!Adding' /\ opA'.timer = t
  BY <1>1, <1>2, <1>3, AppAdd DEF Known, CalmInv
<1>6. /\ timer'[t].state = "Active" /\ timer'[t].type = timer[t].type
      /\ timer'[t].timeout = timer[t].timeout
      /\ whenToFire'[t] = Deadline(timer[t].timeout)
      /\ \A u \in Timers \ {t} : timer'[u] = timer[u] /\ whenToFire'[u] = whenToFire[u]
      /\ LinksCalm'
  BY <1>1, <1>2, <1>3, RearmLinks
<1>7. Fields(t)
  BY <1>2 DEF Known, CalmInv, PlacesInv
<1>8. Deadline(timer[t].timeout) > now
  <2>1. timer[t].timeout \in 1 .. MaxTime
    BY <1>2, <1>3, <1>7, Times DEF Fields
  <2> QED BY <1>3, <2>1, Later
<1>9. Fields(t)'
  BY <1>1, <1>3, <1>6, <1>7 DEF Fields
<1>10. ~SA!Removing' /\ \A u \in Timers \ {t} : u \in Held' <=> u \in Held
  BY <1>5, NotAtOnce
<1>11. QueueCalm' /\ ReadInv' /\ PlacesInv' /\ TaskHand' /\ RecvHand' /\ MainHand'
  BY <1>1, <1>2, <1>3, <1>4, <1>5, <1>6, <1>8, <1>9, <1>10, MainMoves
<1>12. PU!PoolInv'
  BY <1>1, Processes, PoolKept DEF App
<1> QED BY <1>5, <1>6, <1>11, <1>12 DEF CalmInv

LEMMA AppHeapStepCalm ==
  ASSUME Sheltered, Known, AppHeapStep
  PROVE  CalmInv'
<1>1. /\ HeapA!HeapStep
      /\ UNCHANGED <<whenToFire, opT, pool, timer, sem, mq, now, at, on, loaded,
                     task, phase, callback, calls>>
  BY DEF AppHeapStep
<1>2. HeapA!Working /\ opA.pc # "idle"
  BY <1>1, AppSteps DEF Known, SystemInv, HeapA!Working
<1>3. /\ MainBusy /\ at["recv"] = "ready" /\ opA.timer = on["main"]
      /\ whenToFire[opA.timer] > now
  BY <1>2 DEF Known, CalmInv, QueueCalm
<1>4. PICK where \in Holding : where = at["main"]
  <2>1. sem \in {"main", "recv"} /\ \A p \in App : sem = p <=> at[p] \in Holding
    BY <1>2 DEF Known, SystemInv, LockInv, App
  <2> QED BY <1>3, <2>1 DEF App, Holding
<1>a. PICK t \in Timers : t = on["main"]
  BY <1>4, BusyQuiet
<1>5. /\ Quiet(t) /\ ~InHand(t) /\ ~InQueue(t) /\ ~Handled(t)
      /\ Place(t) /\ Fields(t)
  BY <1>4, <1>a, BusyQuiet DEF Known, CalmInv, PlacesInv
<1>6. /\ SA!Adding => where = "posting" /\ phase[t] = "armed"
      /\ SA!Removing => /\ NumTimers <= 3
                        /\ \/ where = "posting" /\ phase[t] = "stopped"
                           \/ where \in {"restarting", "unlinking"}
      /\ where = "restarting" => /\ now < MaxTime /\ phase[t] = "armed" /\ MayRestart
                                 /\ timer[t].state = "Idle"
      /\ where = "unlinking" => phase[t] # "none"
      /\ where \in {"restarting", "unlinking"} /\ opA.pc # "search" => t \notin Held
  BY <1>4, <1>a DEF Known, CalmInv, QueueCalm, MainHand
<1>7. /\ HeapCalm' /\ opA'.timer = t
      /\ \/ SA!Adding /\ Held' = Held /\ (SA!Adding' \/ opA'.pc = "idle")
         \/ opA.pc = "search" /\ opA'.pc = "search" /\ Held' = Held
         \/ opA.pc = "search" /\ opA'.pc = "decLoad" /\ Held' = Held \ {t}
         \/ /\ SA!Unlinked \/ opA.pc = "down"
            /\ Held' = Held
            /\ SA!Unlinked' \/ opA'.pc \in {"down", "idle"}
  BY <1>1, <1>2, <1>3, <1>6, <1>a, AppStep DEF Known, CalmInv
<1>8. at' = [at EXCEPT !["main"] = where] /\ on' = [on EXCEPT !["main"] = t]
  BY <1>1, <1>4, <1>a, Processes
<1>9. Held' \in {Held, Held \ {t}}
  BY <1>7
<1>10. /\ SA!Adding' => SA!Adding
       /\ SA!Removing' => SA!Removing
       /\ opA.pc = "search" => opA'.pc = "search" \/ Held' = Held \ {t}
       /\ SA!Adding => Held' = Held
       /\ opA'.pc = "search" => opA.pc = "search"
       /\ SA!Adding \/ SA!Removing
  BY <1>7 DEF SA!Adding, SA!Removing, SA!Unlinked
<1>11. Fields(t)'
  BY <1>1, <1>5 DEF Fields
<1>12. t \in Held' => \/ phase[t] = "armed" /\ timer[t].state = "Active"
                      \/ phase[t] = "cancelled" /\ timer[t].state # "Done"
                      \/ opA'.pc = "search"
  <2>1. t \in Held => \/ phase[t] = "armed" /\ timer[t].state = "Active"
                      \/ phase[t] = "cancelled" /\ timer[t].state # "Done"
                      \/ opA.pc = "search"
    BY <1>5 DEF Place
  <2> QED BY <1>9, <1>10, <2>1
<1>13. where # "posting" /\ opA'.pc # "search" => t \notin Held'
  BY <1>4, <1>6, <1>9, <1>10 DEF Holding
<1>14. phase[t] = "armed" => t \in Held' \/ where # "posting"
  <2>1. phase[t] = "armed" /\ where = "posting" => t \in Held
    BY <1>4, <1>5 DEF Place
  <2> QED BY <1>6, <1>10, <2>1
<1>15. phase[t] = "cancelled" => where = "unlinking"
  BY <1>4, <1>6, <1>10 DEF Holding
<1>16. QueueCalm' /\ ReadInv' /\ PlacesInv' /\ TaskHand' /\ RecvHand' /\ MainHand'
  <2>1. /\ phase' = phase /\ timer' = timer /\ whenToFire' = whenToFire
        /\ UNCHANGED <<opT, mq, now, task>>
    BY <1>1
  <2>2. \A u \in Timers \ {t} : u \in Held' <=> u \in Held
    BY <1>9
  <2>3. /\ SA!Adding' => where = "posting" /\ phase'[t] = "armed"
        /\ SA!Removing' => NumTimers <= 3
        /\ SA!Removing' => (where = "posting" => phase'[t] = "stopped")
    BY <1>6, <1>10, <2>1
  <2>4. whenToFire'[t] > now /\ opA'.timer = t
    BY <1>3, <1>7, <1>a, <2>1
  <2> QED
    BY <1>5, <1>6, <1>7, <1>8, <1>11, <1>12, <1>13, <1>14, <1>15, <2>1, <2>2,
       <2>3, <2>4, MainMoves
<1>17. LinksCalm'
  BY <1>1, LinksKept
<1>18. PU!PoolInv'
  BY <1>1, PoolKept
<1> QED BY <1>7, <1>16, <1>17, <1>18 DEF CalmInv

-----------------------------------------------------------------------------
(* Main's other steps.                                                     *)

\* Where main and the receiver are, seen from a step of one of them.
LEMMA Places ==
  ASSUME Known
  PROVE  /\ "main" \in App /\ "recv" \in App /\ "main" # "recv"
         /\ \A t \in Timers : Place(t) /\ Fields(t)
         /\ MainBusy => at["recv"] = "ready" /\ mq = <<>> /\ opT.pc = "idle"
         /\ MainBusy => task.pc \in {"poll", "peeked", "read"}
         /\ ~MainBusy => opA.pc = "idle"
BY DEF Known, CalmInv, PlacesInv, QueueCalm, App

LEMMA PostCalm ==
  ASSUME Sheltered, Known, NEW p \in App, Post(p)
  PROVE  CalmInv'
<1>1. p = "main"
  BY DEF Known, CalmInv, QueueCalm, Post, App
<1>2. /\ at["main"] = "posting" /\ opA.pc = "idle" /\ loaded' = loaded
      /\ at' = [at EXCEPT !["main"] = "ready"] /\ on' = [on EXCEPT !["main"] = NULL]
      /\ UNCHANGED <<heap, n, whenToFire, opA, opT, pool, timer, mq, now, task,
                     phase, callback, calls>>
  BY <1>1 DEF Post, Return, Go
<1>3. /\ at'["main"] = "ready" /\ at'["recv"] = at["recv"] /\ on'["recv"] = on["recv"]
      /\ at["recv"] = "ready" /\ opT.pc = "idle"
  BY <1>2, Processes, Places DEF App, MainBusy
<1>4. HeapCalm' /\ Held' = Held
  BY <1>2, SameHeap DEF Known, CalmInv
<1>5. QueueCalm'
  BY <1>2, <1>3, NotAtOnce DEF QueueCalm, MainBusy
<1>6. ReadInv'
  BY <1>2 DEF Known, CalmInv, ReadInv
<1>7. PlacesInv'
  <2>1. \A t \in Timers : /\ ~InHand(t)' /\ ~InQueue(t)' /\ ~Handled(t)'
                          /\ ~InHand(t) /\ ~InQueue(t) /\ ~Handled(t)
    BY <1>2, <1>3, BusyQuiet DEF InHand, InQueue, Handled, Holding
  <2>2. \A t \in Timers : Place(t)'
    BY <1>2, <1>3, <1>4, <2>1, Places DEF Place
  <2>3. \A t \in Timers : Fields(t)'
    BY <1>2, Places DEF Fields
  <2> QED BY <2>2, <2>3 DEF PlacesInv
<1>8. TaskHand'
  BY <1>2 DEF Known, CalmInv, TaskHand
<1>9. RecvHand'
  BY <1>2, <1>3 DEF Known, CalmInv, RecvHand, InQueue, Handled
<1>10. MainHand'
  BY <1>2, <1>3 DEF MainHand, App
<1>11. LinksCalm'
  BY <1>2, LinksKept
<1>12. PU!PoolInv'
  BY <1>2, <1>3, PoolKept DEF App
<1> QED BY <1>4, <1>5, <1>6, <1>7, <1>8, <1>9, <1>10, <1>11, <1>12 DEF CalmInv

LEMMA FinishCalm ==
  ASSUME Sheltered, Known, Finish
  PROVE  CalmInv'
<1>1. /\ at["main"] = "ready" /\ at' = [at EXCEPT !["main"] = "done"]
      /\ UNCHANGED <<heap, n, whenToFire, opA, opT, pool, timer, sem, mq, now, on,
                     loaded, task, phase, callback, calls>>
  BY DEF Finish, Go
<1>2. at'["main"] = "done" /\ at'["recv"] = at["recv"] /\ ~MainBusy /\ ~MainBusy'
  BY <1>1, Processes DEF App, MainBusy
<1>3. HeapCalm' /\ Held' = Held
  BY <1>1, SameHeap DEF Known, CalmInv
<1>4. opA.pc = "idle"
  BY <1>2, Places
<1>5. QueueCalm'
  <2>1. ST!Adding' <=> ST!Adding
    BY <1>1 DEF ST!Adding
  <2> QED BY <1>1, <1>2, <1>4, <2>1, NotAtOnce DEF Known, CalmInv, QueueCalm
<1>6. ReadInv'
  BY <1>1 DEF Known, CalmInv, ReadInv
<1>7. PlacesInv'
  <2>1. \A t \in Timers : /\ InHand(t)' <=> InHand(t)
                          /\ InQueue(t)' <=> InQueue(t)
                          /\ Handled(t)' <=> Handled(t)
                          /\ ~MainAtWork(t)
    BY <1>1, <1>2 DEF InHand, InQueue, Handled, MainAtWork, Holding
  <2>2. \A t \in Timers : Place(t)'
    BY <1>1, <1>2, <1>3, <2>1, Places DEF Place
  <2>3. \A t \in Timers : Fields(t)'
    BY <1>1, Places DEF Fields
  <2> QED BY <2>2, <2>3 DEF PlacesInv
<1>8. TaskHand'
  BY <1>1 DEF Known, CalmInv, TaskHand
<1>9. RecvHand'
  BY <1>1, <1>2 DEF Known, CalmInv, RecvHand, InQueue, Handled
<1>10. MainHand'
  BY <1>1, <1>2 DEF Known, CalmInv, MainHand, App
<1>11. LinksCalm'
  BY <1>1, LinksKept
<1>12. PU!PoolInv'
  BY <1>1, <1>2, PoolKept DEF App
<1> QED BY <1>3, <1>5, <1>6, <1>7, <1>8, <1>9, <1>10, <1>11, <1>12 DEF CalmInv

\* A slot that is not in use is nowhere.
LEMMA NewCalm ==
  ASSUME Sheltered, Known, NEW t \in Timers, NEW ctor \in Ctors, New(t, ctor)
  PROVE  CalmInv'
<1>1. /\ at["main"] = "ready" /\ Pool!GetFromPool(t)
      /\ phase' = [phase EXCEPT ![t] = IF ctor = "default" THEN "invalid" ELSE "fresh"]
      /\ UNCHANGED <<heap, n, whenToFire, opA, opT, sem, mq, now, at, on, loaded,
                     task, callback, calls>>
  BY DEF New, Enter
<1>2. opA.pc = "idle" /\ ~MainBusy /\ ~MainBusy'
  BY <1>1, Places DEF MainBusy
<1>3. PU!PoolInv' /\ t \notin InUse /\ InUse' = InUse \cup {t}
  <2>1. PU!GetFromPool(t) /\ t \in PU!Objects
    BY <1>1 DEF PU!GetFromPool, Pool!GetFromPool, PU!Objects, Pool!Objects
  <2>2. t \notin InUse
    <3>1. PU!TypeOK /\ PU!FreeListSound
      BY DEF Known, CalmInv, PU!PoolInv
    <3>2. PU!Closed(PU!Free)
      BY <3>1, PoolAssumption, Constants, PU!FreeIsClosed
    <3>3. t = firstFree /\ t # NumTimers
      BY <2>1, PoolAssumption DEF PU!GetFromPool, PU!Objects
    <3>4. t \in PU!Free
      BY <3>2, <3>3 DEF PU!Closed
    <3> QED BY <3>1, <3>4 DEF PU!FreeListSound
  <2>3. phase'[t] # "none" /\ \A u \in Timers \ {t} : phase'[u] = phase[u]
    BY <1>1, Processes
  <2>4. InUse' = InUse \cup {t}
    BY <1>1, <2>3 DEF InUse
  <2>5. PU!PoolInv'
    BY <2>1, <2>2, <2>4, PoolAssumption, Constants, PU!NewKeeps DEF Known, CalmInv
  <2> QED BY <2>2, <2>4, <2>5
<1>4. phase[t] = "none" /\ \A p \in App : at[p] = "freeing" => on[p] # t
  BY <1>3 DEF InUse
<1>5. /\ phase'[t] \in {"invalid", "fresh"}
      /\ \A u \in Timers \ {t} : phase'[u] = phase[u] /\ timer'[u] = timer[u]
      /\ timer'[t].pCb = 0
      /\ phase'[t] = "invalid" => timer'[t].type = "Invalid"
  <2>1. /\ phase'[t] = (IF ctor = "default" THEN "invalid" ELSE "fresh")
        /\ \A u \in Timers \ {t} : phase'[u] = phase[u]
    BY <1>1, Processes
  <2>2. timer[t].pCb = 0
    BY <1>4 DEF Known, CalmInv, LinksCalm
  <2>3. CASE ctor # "default"
    BY <2>1, <2>2, <2>3 DEF New
  <2>4. CASE ctor = "default"
    <3>1. timer' = [timer EXCEPT ![t] = [timer[t] EXCEPT !.type = "Invalid", !.pCb = 0,
                                           !.state = "Idle", !.timeout = 0]]
      BY <2>4 DEF New
    <3>2. /\ timer'[t] = [timer[t] EXCEPT !.type = "Invalid", !.pCb = 0,
                                          !.state = "Idle", !.timeout = 0]
          /\ \A u \in Timers \ {t} : timer'[u] = timer[u]
      BY <3>1, Processes
    <3>3. timer'[t].type = "Invalid" /\ timer'[t].pCb = 0
      BY <3>2, Processes DEF TimerFields
    <3> QED BY <2>1, <3>2, <3>3
  <2> QED BY <2>3, <2>4
<1>6. t \notin Held /\ ~InHand(t) /\ ~InQueue(t) /\ ~Handled(t) /\ ~MainAtWork(t)
  <2>1. ~MainAtWork(t)
    BY <1>1 DEF MainAtWork, Holding
  <2> QED BY <1>4, <2>1, Places DEF Place
<1>7. HeapCalm' /\ Held' = Held
  BY <1>1, SameHeap DEF Known, CalmInv
<1>8. QueueCalm'
  <2>1. ST!Adding' <=> ST!Adding
    BY <1>1 DEF ST!Adding
  <2> QED BY <1>1, <1>2, <2>1, NotAtOnce DEF Known, CalmInv, QueueCalm
<1>9. ReadInv'
  <2>1. task.pc \in {"peeked", "read"} /\ n # 0 /\ heap[0] = task.top => task.top # t
    <3>1. task.pc \in {"peeked", "read"} => opT.pc = "idle"
      BY DEF Known, CalmInv, QueueCalm
    <3> QED BY <1>2, <1>6, <3>1, TopHeld DEF Known, CalmInv
  <2>2. task.pc # "poll" => task.top \in Timers
    BY DEF Known, SystemInv, HandInv
  <2> QED BY <1>1, <1>5, <2>1, <2>2 DEF Known, CalmInv, ReadInv
<1>10. PlacesInv'
  <2>1. \A u \in Timers : /\ InHand(u)' <=> InHand(u)
                          /\ InQueue(u)' <=> InQueue(u)
                          /\ Handled(u)' <=> Handled(u)
                          /\ MainAtWork(u)' <=> MainAtWork(u)
    BY <1>1 DEF InHand, InQueue, Handled, MainAtWork
  <2>2. \A u \in Timers \ {t} : Place(u)' /\ Fields(u)'
    BY <1>1, <1>5, <1>7, <2>1, Places DEF Place, Fields
  <2>3. Place(t)'
    BY <1>5, <1>6, <1>7, <2>1 DEF Place
  <2>4. Fields(t)'
    BY <1>5 DEF Fields
  <2> QED BY <2>2, <2>3, <2>4 DEF PlacesInv
<1>11. TaskHand'
  <2>1. task.pc \in {"firing", "sending", "dropping", "posting"} => task.top \in Timers
    BY DEF Known, SystemInv, HandInv
  <2>2. task.pc \in {"sending", "dropping"} => task.top # t
    <3>1. task.pc = "sending" => opT.pc # "search"
      BY DEF Known, CalmInv, QueueCalm
    <3>2. task.pc = "dropping" => phase[task.top] = "cancelled"
      BY DEF Known, CalmInv, TaskHand
    <3> QED BY <1>4, <1>6, <3>1, <3>2 DEF InHand
  <2>3. task.pc \in {"dropping", "posting"} => phase[task.top] = "cancelled"
    BY DEF Known, CalmInv, TaskHand
  <2> QED BY <1>1, <1>4, <1>5, <2>1, <2>2, <2>3 DEF Known, CalmInv, TaskHand
<1>12. RecvHand'
  <2>1. at["recv"] \in {"loaded", "triggered", "unlinking"} =>
          on["recv"] \in Timers /\ phase[on["recv"]] = "armed"
    BY Places DEF Known, SystemInv, HandInv, CalmInv, RecvHand
  <2> QED BY <1>1, <1>4, <1>5, <2>1 DEF Known, CalmInv, RecvHand, InQueue, Handled
<1>13. MainHand'
  <2>1. \A p \in App : at[p] = "freeing" => on[p] \in Timers /\ on[p] # t
    BY <1>4 DEF Known, SystemInv, HandInv
  <2> QED BY <1>1, <1>5, <2>1 DEF Known, CalmInv, MainHand, App
<1>14. LinksCalm'
  <2>1. timer[t].pCb = 0
    BY <1>4 DEF Known, CalmInv, LinksCalm
  <2> QED BY <1>1, <1>5, <2>1, LinksGone
<1> QED
  BY <1>3, <1>7, <1>8, <1>9, <1>10, <1>11, <1>12, <1>13, <1>14 DEF CalmInv

\* The slot that is given back is in use, and only once.
LEMMA FreeCalm ==
  ASSUME Sheltered, Known, NEW p \in App, Free(p)
  PROVE  CalmInv'
<1>0. PICK t \in Timers : t = on[p]
  BY DEF Known, SystemInv, HandInv, Free
<1>1. /\ at[p] = "freeing" /\ Pool!RemoveFromPool(t)
      /\ at' = [at EXCEPT ![p] = "ready"] /\ on' = [on EXCEPT ![p] = NULL]
      /\ p = "main" => loaded' = loaded
      /\ UNCHANGED <<heap, n, whenToFire, opA, opT, timer, sem, mq, now, task,
                     phase, callback, calls>>
  BY <1>0 DEF Free, Return, Go
<1>2. /\ at'[p] = "ready" /\ on'[p] = NULL
      /\ \A q \in App \ {p} : at'[q] = at[q] /\ on'[q] = on[q]
  BY <1>1, Processes
<1>3. phase[t] = "none" /\ \A q \in App \ {p} : at[q] # "freeing"
  BY <1>0, <1>1 DEF Known, CalmInv, MainHand, App
<1>4. PU!PoolInv'
  <2>1. PU!RemoveFromPool(t) /\ t \in PU!Objects
    BY <1>1 DEF PU!RemoveFromPool, Pool!RemoveFromPool, PU!Objects, Timers, PU!poolVars,
                Pool!poolVars
  <2>2. t \in InUse
    BY <1>0, <1>1 DEF InUse
  <2>3. InUse' = InUse \ {t}
    <3>1. \A u \in Timers : (\E q \in App : at'[q] = "freeing" /\ on'[q] = u) <=> FALSE
      BY <1>2, <1>3
    <3>2. \A u \in Timers : (\E q \in App : at[q] = "freeing" /\ on[q] = u) <=> u = t
      BY <1>0, <1>1, <1>3
    <3> QED BY <1>1, <1>3, <3>1, <3>2 DEF InUse
  <2> QED BY <2>1, <2>2, <2>3, PoolAssumption, Constants, PU!DeleteKeeps DEF Known, CalmInv
<1>5. HeapCalm' /\ Held' = Held
  BY <1>1, SameHeap DEF Known, CalmInv
<1>6. opA.pc = "idle" /\ ~MainBusy'
  <2>1. CASE p = "main"
    <3>1. ~(sem = "main") /\ ~(sem = "recv")
      <4>1. sem = "free"
        BY DEF Free
      <4> QED BY <4>1
    <3>2. ~HeapA!Working
      BY <3>1 DEF Known, SystemInv, LockInv, App
    <3> QED BY <1>2, <2>1, <3>2, Processes DEF MainBusy, HeapA!Working, SA!Steps
  <2>2. CASE p = "recv"
    <3>1. at["recv"] # "ready" /\ at'["main"] = at["main"]
      BY <1>1, <1>2, <2>2 DEF App
    <3> QED BY <3>1, Places DEF MainBusy
  <2> QED BY <2>1, <2>2 DEF App
<1>7. QueueCalm'
  <2>1. ST!Adding' <=> ST!Adding
    BY <1>1 DEF ST!Adding
  <2>2. at'["recv"] # "posting"
    BY <1>2 DEF Known, CalmInv, QueueCalm, App
  <2> QED BY <1>1, <1>6, <2>1, <2>2, NotAtOnce DEF Known, CalmInv, QueueCalm
<1>8. ReadInv'
  BY <1>1 DEF Known, CalmInv, ReadInv
<1>9. PlacesInv'
  <2>1. \A u \in Timers : /\ InHand(u)' <=> InHand(u)
                          /\ InQueue(u)' <=> InQueue(u)
                          /\ Handled(u)' <=> Handled(u)
                          /\ MainAtWork(u)' <=> MainAtWork(u)
    BY <1>1, <1>2 DEF InHand, InQueue, Handled, MainAtWork, Holding, App
  <2>2. at'["main"] \in {"restarting", "unlinking"} <=> at["main"] \in {"restarting", "unlinking"}
    BY <1>1, <1>2 DEF App
  <2>3. at["main"] \in {"restarting", "unlinking"} => on'["main"] = on["main"]
    BY <1>1, <1>2 DEF App
  <2>4. \A u \in Timers : Place(u)'
    BY <1>1, <1>5, <2>1, <2>2, <2>3, Places DEF Place
  <2>5. \A u \in Timers : Fields(u)'
    BY <1>1, Places DEF Fields
  <2> QED BY <2>4, <2>5 DEF PlacesInv
<1>10. TaskHand'
  BY <1>1 DEF Known, CalmInv, TaskHand
<1>11. RecvHand'
  <2>1. /\ at'["recv"] \in {"loaded", "triggered", "unlinking"} =>
             at'["recv"] = at["recv"] /\ on'["recv"] = on["recv"] /\ loaded' = loaded
        /\ \A u \in Timers : InQueue(u)' \/ Handled(u)' => InQueue(u) \/ Handled(u)
    BY <1>1, <1>2 DEF InQueue, Handled, App
  <2> QED BY <1>1, <2>1 DEF Known, CalmInv, RecvHand
<1>12. MainHand'
  BY <1>1, <1>2, <1>3, <1>6 DEF MainHand, MainBusy, App
<1>13. LinksCalm'
  BY <1>1, LinksKept
<1> QED
  BY <1>4, <1>5, <1>7, <1>8, <1>9, <1>10, <1>11, <1>12, <1>13 DEF CalmInv

LEMMA UnlinkCalm ==
  ASSUME Sheltered, Known, NEW p \in App, Unlink(p)
  PROVE  CalmInv'
<1>0. PICK t \in Timers : t = on[p]
  BY DEF Known, SystemInv, HandInv, Unlink
<1>1. /\ at[p] = "unlinking" /\ opA.pc = "idle"
      /\ callback' = (IF timer[t].pCb = 0 THEN callback ELSE Deleted(timer[t].pCb))
      /\ timer' = [timer EXCEPT ![t].pCb = 0] /\ phase' = [phase EXCEPT ![t] = "none"]
      /\ at' = [at EXCEPT ![p] = "freeing"]
      /\ UNCHANGED <<heap, n, whenToFire, opA, opT, pool, mq, now, on, loaded, task>>
  BY <1>0 DEF Unlink, Unlinked, Enter, Go
<1>2. at'[p] = "freeing" /\ \A q \in App \ {p} : at'[q] = at[q]
  BY <1>1, Processes
<1>3. /\ phase'[t] = "none" /\ timer'[t].pCb = 0
      /\ \A u \in Timers \ {t} : phase'[u] = phase[u] /\ timer'[u] = timer[u]
      /\ \A u \in Timers : /\ timer'[u].state = timer[u].state
                           /\ timer'[u].type = timer[u].type
                           /\ timer'[u].timeout = timer[u].timeout
  BY <1>1, Processes DEF TimerFields
<1>4. /\ p = "recv" => Handled(t) /\ phase[t] = "armed" /\ ~MainBusy
      /\ p = "main" => /\ MainBusy /\ MainAtWork(t) /\ t \notin Held /\ phase[t] # "none"
                       /\ \A u \in Timers : ~InHand(u) /\ ~InQueue(u) /\ ~Handled(u)
  <2>1. CASE p = "recv"
    BY <1>0, <1>1, <2>1, Places DEF Handled, Known, CalmInv, RecvHand
  <2>2. CASE p = "main"
    BY <1>0, <1>1, <2>2, BusyQuiet
    DEF MainBusy, MainAtWork, Holding, Known, CalmInv, MainHand
  <2> QED BY <2>1, <2>2, Places DEF App
<1>5. t \notin Held /\ ~InHand(t) /\ ~InQueue(t) /\ phase[t] # "none"
  BY <1>4, Places DEF Place, App
<1>6. HeapCalm' /\ Held' = Held
  BY <1>1, SameHeap DEF Known, CalmInv
<1>7. MainBusy' <=> MainBusy
  BY <1>1, <1>2 DEF MainBusy, App
<1>8. QueueCalm'
  <2>1. ST!Adding' <=> ST!Adding
    BY <1>1 DEF ST!Adding
  <2>2. at'["recv"] # "posting" /\ (MainBusy => at'["recv"] = at["recv"])
    BY <1>2, <1>4, Places DEF Known, CalmInv, QueueCalm, App
  <2> QED BY <1>1, <1>6, <1>7, <2>1, <2>2, NotAtOnce DEF Known, CalmInv, QueueCalm
<1>9. ReadInv'
  <2>1. task.pc # "poll" => task.top \in Timers
    BY DEF Known, SystemInv, HandInv
  <2> QED BY <1>1, <1>3, <2>1 DEF Known, CalmInv, ReadInv
<1>10. PlacesInv'
  <2>1. \A u \in Timers : /\ InHand(u)' <=> InHand(u)
                          /\ InQueue(u)' <=> InQueue(u)
    BY <1>1 DEF InHand, InQueue
  <2>2. \A u \in Timers \ {t} : /\ Handled(u)' <=> Handled(u)
                                /\ MainAtWork(u)' <=> MainAtWork(u)
    BY <1>0, <1>1, <1>2 DEF Handled, MainAtWork, Holding, App
  <2>3. ~Handled(t)'
    BY <1>0, <1>1, <1>2, <1>4 DEF Handled, App
  <2>4. \A u \in Timers \ {t} :
          at["main"] \in {"restarting", "unlinking"} /\ on["main"] = u =>
            at'["main"] = at["main"] /\ on'["main"] = u
    BY <1>0, <1>1, <1>2 DEF App
  <2>5. \A u \in Timers \ {t} : Place(u)'
    BY <1>1, <1>3, <1>6, <2>1, <2>2, <2>4, Places DEF Place
  <2>6. Place(t)'
    BY <1>3, <1>5, <1>6, <2>1, <2>3 DEF Place
  <2>7. \A u \in Timers : Fields(u)'
    BY <1>3, Places DEF Fields
  <2> QED BY <2>5, <2>6, <2>7 DEF PlacesInv
<1>11. TaskHand'
  <2>1. task.pc # "poll" => task.top \in Timers
    BY DEF Known, SystemInv, HandInv
  <2>2. task.pc \in {"dropping", "posting"} => phase[task.top] = "cancelled"
    BY DEF Known, CalmInv, TaskHand
  <2>3. task.pc \in {"dropping", "posting"} => task.top # t
    BY <1>4, <2>2, Places DEF App
  <2> QED BY <1>1, <1>3, <2>1, <2>2, <2>3 DEF Known, CalmInv, TaskHand
<1>12. RecvHand'
  <2>1. /\ at'["recv"] \notin {"loaded", "triggered", "unlinking"}
        /\ \A u \in Timers : InQueue(u)' \/ Handled(u)' => InQueue(u) \/ Handled(u)
    BY <1>1, <1>2, <1>4, Places DEF InQueue, Handled, App
  <2> QED BY <1>1, <2>1 DEF Known, CalmInv, RecvHand
<1>13. MainHand'
  <2>1. \A q \in App : at'[q] = "freeing" => q = p
    BY <1>2, <1>4, Places DEF MainBusy, App
  <2>2. p = "recv" => at'["main"] \in {"ready", "done"}
    BY <1>2, <1>4, Places DEF MainBusy, App
  <2> QED BY <1>0, <1>1, <1>2, <1>3, <2>1, <2>2 DEF MainHand, App
<1>14. LinksCalm'
  BY <1>1, <1>3, LinksGone
<1>15. PU!PoolInv'
  <2>1. InUse' = InUse
    <3>1. \A q \in App : at[q] = "freeing" => q # p
      BY <1>1
    <3>2. \A u \in Timers : (\E q \in App : at'[q] = "freeing" /\ on'[q] = u)
                              <=> u = t \/ \E q \in App : at[q] = "freeing" /\ on[q] = u
      BY <1>0, <1>1, <1>2, <3>1
    <3> QED BY <1>3, <1>5, <3>2 DEF InUse
  <2> QED
    BY <1>1, <2>1, Constants, PoolAssumption, PU!StutterKeeps DEF Known, CalmInv, PU!vars, pool
<1> QED
  BY <1>6, <1>8, <1>9, <1>10, <1>11, <1>12, <1>13, <1>14, <1>15 DEF CalmInv

-----------------------------------------------------------------------------
(* The receiver's steps.  None is taken while main is in a call.           *)

LEMMA RecvAlone ==
  ASSUME Known, at["recv"] # "ready" \/ mq # <<>>
  PROVE  /\ ~MainBusy /\ opA.pc = "idle" /\ at["main"] \in {"ready", "done"}
         /\ \A t \in Timers : ~MainAtWork(t)
BY Places DEF MainBusy, MainAtWork, Holding

\* A step of the receiver's that leaves the heap and main as they are.
LEMMA RecvMoves ==
  ASSUME Known, at["recv"] # "ready" \/ mq # <<>>,
         UNCHANGED <<heap, n, opA, opT, whenToFire, timer, phase, now, task>>,
         at'["main"] = at["main"], on'["main"] = on["main"], at'["recv"] # "posting"
  PROVE  HeapCalm' /\ Held' = Held /\ QueueCalm' /\ ReadInv' /\ TaskHand'
<1>1. /\ ~MainBusy /\ ~MainBusy' /\ opA.pc = "idle"
  BY RecvAlone DEF MainBusy
<1>2. HeapCalm' /\ Held' = Held
  BY SameHeap DEF Known, CalmInv
<1>3. QueueCalm'
  <2>1. ST!Adding' <=> ST!Adding
    BY DEF ST!Adding
  <2> QED BY <1>1, <2>1, NotAtOnce DEF Known, CalmInv, QueueCalm
<1>4. ReadInv' /\ TaskHand'
  BY DEF Known, CalmInv, ReadInv, TaskHand
<1> QED BY <1>2, <1>3, <1>4

LEMMA ReceiveCalm ==
  ASSUME Sheltered, Known, Receive
  PROVE  CalmInv'
<1>1. /\ at["recv"] = "ready" /\ mq # <<>> /\ mq' = Tail(mq)
      /\ on' = [on EXCEPT !["recv"] = Head(mq)] /\ at' = [at EXCEPT !["recv"] = "received"]
      /\ UNCHANGED <<heap, n, whenToFire, opA, opT, pool, timer, sem, now, loaded,
                     task, phase, callback, calls>>
  BY DEF Receive, Go
<1>2. /\ at'["recv"] = "received" /\ on'["recv"] = mq[1]
      /\ at'["main"] = at["main"] /\ on'["main"] = on["main"]
  BY <1>1, Processes DEF App
<1>3. HeapCalm' /\ Held' = Held /\ QueueCalm' /\ ReadInv' /\ TaskHand'
  BY <1>1, <1>2, RecvMoves
<1>4. /\ 1 \in DOMAIN mq /\ mq[1] \in Timers
      /\ \A i \in DOMAIN mq' : i + 1 \in DOMAIN mq /\ mq'[i] = mq[i + 1] /\ i + 1 # 1
      /\ \A i \in DOMAIN mq : i # 1 => i - 1 \in DOMAIN mq' /\ mq'[i - 1] = mq[i]
      /\ \A i, j \in DOMAIN mq' : i + 1 = j + 1 => i = j
  <2>1. mq \in Seq(Timers) /\ Len(mq) \in Nat /\ Len(mq) # 0
    BY <1>1 DEF Known, SystemInv, TypeOK, ProcessTypeOK
  <2>2. /\ DOMAIN mq = 1 .. Len(mq) /\ DOMAIN mq' = 1 .. Len(mq) - 1
        /\ \A i \in 1 .. Len(mq) - 1 : mq'[i] = mq[i + 1]
    BY <1>1, <2>1
  <2> QED BY <2>1, <2>2
<1>5. \A i, j \in DOMAIN mq : mq[i] = mq[j] => i = j
  BY DEF Known, CalmInv, RecvHand
<1>6. \A u \in Timers : /\ InQueue(u)' <=> InQueue(u) /\ u # mq[1]
                        /\ Handled(u)' <=> u = mq[1]
                        /\ ~Handled(u) /\ InQueue(mq[1])
  <2>1. \A u \in Timers : InQueue(u)' => InQueue(u) /\ u # mq[1]
    BY <1>4, <1>5 DEF InQueue
  <2>2. \A u \in Timers : InQueue(u) /\ u # mq[1] => InQueue(u)'
    BY <1>4 DEF InQueue
  <2>3. InQueue(mq[1])
    BY <1>4 DEF InQueue
  <2> QED BY <1>1, <1>2, <2>1, <2>2, <2>3 DEF Handled
<1>7. PlacesInv'
  <2>1. \A u \in Timers : InHand(u)' <=> InHand(u)
    BY <1>1 DEF InHand
  <2>2. \A u \in Timers : ~MainAtWork(u)
    BY <1>1, RecvAlone
  <2>3. \A u \in Timers : Place(u)'
    BY <1>1, <1>2, <1>3, <1>6, <2>1, <2>2, Places DEF Place
  <2>4. \A u \in Timers : Fields(u)'
    BY <1>1, Places DEF Fields
  <2> QED BY <2>3, <2>4 DEF PlacesInv
<1>8. RecvHand'
  <2>1. \A i, j \in DOMAIN mq' : mq'[i] = mq'[j] => i = j
    BY <1>4, <1>5
  <2> QED BY <1>1, <1>2, <1>6, <2>1 DEF Known, CalmInv, RecvHand
<1>9. MainHand'
  BY <1>1, <1>2, <1>3 DEF Known, CalmInv, MainHand, App
<1>10. LinksCalm'
  BY <1>1, LinksKept
<1>11. PU!PoolInv'
  BY <1>1, <1>2, PoolKept DEF App
<1> QED BY <1>3, <1>7, <1>8, <1>9, <1>10, <1>11 DEF CalmInv

LEMMA LoadCalm ==
  ASSUME Sheltered, Known, Load
  PROVE  CalmInv'
<1>0. PICK t \in Timers : t = on["recv"]
  BY Places DEF Known, SystemInv, HandInv, Load
<1>1. /\ at["recv"] = "received"
      /\ UNCHANGED <<heap, n, whenToFire, opA, opT, pool, timer, sem, mq, now, task,
                     phase, callback, calls>>
  BY DEF Load
<1>2. Handled(t) /\ Place(t) /\ Fields(t) /\ ~MainAtWork(t)
  BY <1>0, <1>1, Places, RecvAlone DEF Handled
<1>3. phase[t] \in {"armed", "cancelled"} /\ timer[t].type # "Invalid" /\ timer[t].state = "Done"
  BY <1>2 DEF Place, Fields
<1>4. timer[t].pCb # 0 <=> phase[t] = "armed"
  BY <1>3 DEF Known, CalmInv, LinksCalm
<1>5. \/ /\ phase[t] = "armed" /\ at' = [at EXCEPT !["recv"] = "loaded"] /\ on' = on
         /\ loaded'.cb = timer[t].pCb
      \/ /\ phase[t] = "cancelled" /\ at' = [at EXCEPT !["recv"] = "ready"]
         /\ on' = [on EXCEPT !["recv"] = NULL]
  BY <1>0, <1>3, <1>4 DEF Load, Return, Go
<1>6. /\ at'["main"] = at["main"] /\ on'["main"] = on["main"]
      /\ \/ phase[t] = "armed" /\ at'["recv"] = "loaded" /\ on'["recv"] = t
         \/ phase[t] = "cancelled" /\ at'["recv"] = "ready"
  BY <1>0, <1>5, Processes DEF App
<1>7. HeapCalm' /\ Held' = Held /\ QueueCalm' /\ ReadInv' /\ TaskHand'
  BY <1>1, <1>6, RecvMoves
<1>8. \A u \in Timers : /\ InHand(u)' <=> InHand(u)
                        /\ InQueue(u)' <=> InQueue(u)
                        /\ Handled(u) <=> u = t
                        /\ Handled(u)' <=> u = t /\ phase[t] = "armed"
  BY <1>0, <1>1, <1>6 DEF InHand, InQueue, Handled
<1>9. PlacesInv'
  <2>1. \A u \in Timers : ~MainAtWork(u)
    BY <1>1, RecvAlone
  <2>2. \A u \in Timers : Place(u)'
    BY <1>1, <1>3, <1>6, <1>7, <1>8, <2>1, Places DEF Place
  <2>3. \A u \in Timers : Fields(u)'
    BY <1>1, Places DEF Fields
  <2> QED BY <2>2, <2>3 DEF PlacesInv
<1>10. RecvHand'
  BY <1>1, <1>5, <1>6, <1>8 DEF Known, CalmInv, RecvHand
<1>11. MainHand'
  BY <1>1, <1>6, <1>7 DEF Known, CalmInv, MainHand, App
<1>12. LinksCalm'
  BY <1>1, LinksKept
<1>13. PU!PoolInv'
  BY <1>1, <1>6, PoolKept DEF App
<1> QED BY <1>7, <1>9, <1>10, <1>11, <1>12, <1>13 DEF CalmInv

LEMMA TriggerCalm ==
  ASSUME Sheltered, Known, Trigger
  PROVE  CalmInv'
<1>1. /\ at["recv"] = "loaded" /\ at' = [at EXCEPT !["recv"] = "triggered"]
      /\ callback' = [callback EXCEPT ![loaded.cb].calls = @ + 1]
      /\ UNCHANGED <<heap, n, whenToFire, opA, opT, pool, timer, sem, mq, now, on,
                     loaded, task, phase, calls>>
  BY DEF Trigger, Go
<1>2. at'["main"] = at["main"] /\ at'["recv"] = "triggered"
  BY <1>1, Processes DEF App
<1>3. HeapCalm' /\ Held' = Held /\ QueueCalm' /\ ReadInv' /\ TaskHand'
  BY <1>1, <1>2, RecvMoves
<1>4. \A t \in Timers : /\ InHand(t)' <=> InHand(t)
                        /\ InQueue(t)' <=> InQueue(t)
                        /\ Handled(t)' <=> Handled(t)
  BY <1>1, <1>2 DEF InHand, InQueue, Handled
<1>5. PlacesInv'
  BY <1>1, <1>2, <1>3, <1>4, PlacesKept
<1>6. RecvHand'
  BY <1>1, <1>2, <1>4 DEF Known, CalmInv, RecvHand
<1>7. MainHand'
  BY <1>1, <1>2, <1>3 DEF Known, CalmInv, MainHand, App
<1>8. LinksCalm'
  <2>1. loaded.cb \in Callbacks
    BY <1>1 DEF Known, OnceInv, LoadedInv
  <2>2. \A c \in Callbacks : /\ callback'[c].status = callback[c].status
                             /\ callback'[c].due = callback[c].due
                             /\ callback'[c].wanted <=> callback[c].wanted
    BY <1>1, <2>1, Processes DEF CallbackFields
  <2> QED BY <1>1, <2>2, LinksKept
<1>9. PU!PoolInv'
  BY <1>1, <1>2, PoolKept DEF App
<1> QED BY <1>3, <1>5, <1>6, <1>7, <1>8, <1>9 DEF CalmInv

\* The timer was Done when it was sent: its deletion leaves the heap alone.
LEMMA RecvDeleteCalm ==
  ASSUME Sheltered, Known, RecvDelete
  PROVE  CalmInv'
<1>0. PICK t \in Timers : t = on["recv"]
  BY Places DEF Known, SystemInv, HandInv, RecvDelete
<1>1. at["recv"] = "triggered" /\ at' = [at EXCEPT !["recv"] = "unlinking"]
  BY DEF RecvDelete, Destroy, Go
<1>2. timer[t].state = "Done"
  BY <1>0, <1>1, Places DEF Handled, Place
<1>3. UNCHANGED <<heap, n, whenToFire, opA, opT, pool, timer, mq, now, on, loaded, task,
                  phase, callback>>
  BY <1>0, <1>2 DEF RecvDelete, Destroy
<1>4. at'["main"] = at["main"] /\ at'["recv"] = "unlinking"
  BY <1>1, Processes DEF App
<1>5. HeapCalm' /\ Held' = Held /\ QueueCalm' /\ ReadInv' /\ TaskHand'
  BY <1>1, <1>3, <1>4, RecvMoves
<1>6. \A u \in Timers : /\ InHand(u)' <=> InHand(u)
                        /\ InQueue(u)' <=> InQueue(u)
                        /\ Handled(u)' <=> Handled(u)
  BY <1>1, <1>3, <1>4 DEF InHand, InQueue, Handled
<1>7. PlacesInv'
  BY <1>1, <1>3, <1>4, <1>5, <1>6, PlacesKept
<1>8. RecvHand'
  BY <1>1, <1>3, <1>4, <1>6 DEF Known, CalmInv, RecvHand
<1>9. MainHand'
  BY <1>1, <1>3, <1>4, <1>5 DEF Known, CalmInv, MainHand, App
<1>10. LinksCalm'
  BY <1>3, LinksKept
<1>11. PU!PoolInv'
  BY <1>1, <1>3, <1>4, PoolKept DEF App
<1> QED BY <1>5, <1>7, <1>8, <1>9, <1>10, <1>11 DEF CalmInv

-----------------------------------------------------------------------------
(* TimerTask's steps.                                                      *)

\* What TimerTask does about the timer in its hand, it does while main is not
\* in a call.
LEMMA TaskAlone ==
  ASSUME Known, task.pc \notin {"poll", "peeked", "read"}
  PROVE  /\ ~MainBusy /\ opA.pc = "idle" /\ at["main"] \in {"ready", "done"}
         /\ task.top \in Timers /\ \A t \in Timers : ~MainAtWork(t)
BY Places DEF MainBusy, MainAtWork, Holding, Known, SystemInv, HandInv

\* Its polling moves nothing.
LEMMA TaskPolls ==
  ASSUME Known, task.pc \in {"poll", "peeked", "read"},
         task'.pc \in {"poll", "peeked", "read"},
         UNCHANGED <<heap, n, whenToFire, opA, opT, pool, timer, mq, now, at, on,
                     loaded, phase, callback>>,
         MainBusy => (task'.pc # "poll" => task'.when > now),
         ReadInv'
  PROVE  CalmInv'
<1>1. HeapCalm' /\ Held' = Held
  BY SameHeap DEF Known, CalmInv
<1>2. opT.pc = "idle"
  BY DEF Known, CalmInv, QueueCalm
<1>3. QueueCalm'
  BY <1>1, <1>2 DEF Known, CalmInv, QueueCalm, MainBusy, SA!Adding, SA!Removing, SA!Unlinked
<1>4. \A t \in Timers : /\ InHand(t)' <=> InHand(t)
                        /\ InQueue(t)' <=> InQueue(t)
                        /\ Handled(t)' <=> Handled(t)
  BY DEF InHand, InQueue, Handled
<1>5. PlacesInv'
  BY <1>1, <1>4, PlacesKept
<1>6. TaskHand'
  BY DEF TaskHand
<1>7. RecvHand'
  BY <1>4 DEF Known, CalmInv, RecvHand
<1>8. MainHand'
  BY <1>1 DEF Known, CalmInv, MainHand
<1>9. LinksCalm'
  BY LinksKept
<1>10. PU!PoolInv'
  BY PoolKept
<1> QED BY <1>1, <1>3, <1>5, <1>6, <1>7, <1>8, <1>9, <1>10 DEF CalmInv

\* The top it reads is not due while main is in a call.
LEMMA PeekCalm ==
  ASSUME Sheltered, Known, Peek
  PROVE  CalmInv'
<1>1. /\ task.pc = "poll" /\ n # 0
      /\ task' = [task EXCEPT !.pc = "peeked", !.top = heap[0], !.when = whenToFire[heap[0]]]
      /\ UNCHANGED <<heap, n, whenToFire, opA, opT, pool, timer, sem, mq, now, at, on,
                     loaded, phase, callback, calls>>
  BY DEF Peek
<1>2. task'.pc = "peeked" /\ task'.top = heap[0] /\ task'.when = whenToFire[heap[0]]
  BY <1>1, Processes DEF TaskFields
<1>3. opT.pc = "idle"
  BY <1>1 DEF Known, CalmInv, QueueCalm
<1>4. heap[0] \in Timers /\ (heap[0] \in Held \/ (opA.pc # "idle" /\ heap[0] = opA.timer))
  BY <1>1, <1>3, TopHeld DEF Known, CalmInv
<1>5. MainBusy => whenToFire[heap[0]] > now
  BY <1>4 DEF Known, CalmInv, QueueCalm
<1>6. ReadInv'
  <2>1. opA.pc # "idle" => MainBusy
    BY Places
  <2> QED BY <1>1, <1>2, <1>5, <2>1 DEF ReadInv
<1> QED BY <1>1, <1>2, <1>5, <1>6, TaskPolls

LEMMA ReadCalm ==
  ASSUME Sheltered, Known, Read
  PROVE  CalmInv'
<1>1. /\ task.pc = "peeked"
      /\ task' = [task EXCEPT !.pc = "read", !.state = timer[task.top].state,
                              !.timeout = timer[task.top].timeout]
      /\ UNCHANGED <<heap, n, whenToFire, opA, opT, pool, timer, sem, mq, now, at, on,
                     loaded, phase, callback, calls>>
  BY DEF Read
<1>2. /\ task'.pc = "read" /\ task'.top = task.top /\ task'.when = task.when
      /\ task'.state = timer[task.top].state
  BY <1>1, Processes DEF TaskFields
<1>3. ReadInv'
  BY <1>1, <1>2 DEF Known, CalmInv, ReadInv
<1>4. MainBusy => task.when > now
  BY <1>1 DEF Known, CalmInv, QueueCalm
<1> QED BY <1>1, <1>2, <1>3, <1>4, TaskPolls

\* A timer it finds due is in the heap, and nobody else is at it.
LEMMA LookCalm ==
  ASSUME Sheltered, Known, Look
  PROVE  CalmInv'
<1>1. /\ task.pc = "read"
      /\ UNCHANGED <<whenToFire, opA, pool, sem, mq, now, at, on, loaded, phase,
                     callback, calls>>
  BY DEF Look
<1>2. CASE task' = Polling /\ UNCHANGED <<heap, n, opT, timer>>
  <2>1. task'.pc = "poll"
    BY <1>2 DEF Polling
  <2>2. ReadInv'
    BY <2>1 DEF ReadInv
  <2> QED BY <1>1, <1>2, <2>1, <2>2, TaskPolls
<1>3. ASSUME NEW next \in {"firing", "dropping"}, task.when <= now,
             task.state = (IF next = "firing" THEN "Active" ELSE "Idle"),
             timer' = (IF next = "firing" THEN Fired(task.top) ELSE timer),
             HeapT!RemoveFromHeap(task.top), task' = [task EXCEPT !.pc = next]
      PROVE  CalmInv'
  <2>0. PICK t \in Timers : t = task.top
    BY <1>1 DEF Known, SystemInv, HandInv
  <2>1. /\ opA.pc = "idle" /\ n # 0 /\ heap[0] = t /\ whenToFire[t] <= now
        /\ timer[t].state = task.state
    BY <1>1, <1>3, <2>0, Times DEF Known, CalmInv, ReadInv
  <2>2. ~MainBusy /\ opT.pc = "idle" /\ t \in Held
    <3>1. ~(task.when > now)
      BY <1>3, Times
    <3>2. ~MainBusy /\ opT.pc = "idle"
      BY <1>1, <3>1 DEF Known, CalmInv, QueueCalm
    <3> QED BY <2>1, <3>2, TopHeld DEF Known, CalmInv
  <2>3. /\ HeapCalm' /\ Held' = Held /\ heap' = heap
        /\ opT'.pc = "search" /\ opT'.timer = t /\ opT'.index = 0
    BY <1>1, <1>3, <2>0, <2>1, <2>2, TaskRemove DEF Known, CalmInv
  <2>4. task'.pc = next /\ task'.top = t
    BY <1>3, <2>0, Processes DEF TaskFields
  <2>5. \A u \in Timers : /\ timer'[u].state = timer[u].state /\ timer'[u].type = timer[u].type
                          /\ timer'[u].timeout = timer[u].timeout
                          /\ timer'[u].pCb = timer[u].pCb
    BY <1>3, <2>0, Processes DEF Fired, TimerFields
  <2>6. QueueCalm'
    <3>1. ~ST!Adding' /\ ~MainBusy'
      BY <1>1, <2>2, <2>3 DEF ST!Adding, MainBusy
    <3>2. opA' = opA /\ ~SA!Adding' /\ ~SA!Removing'
      BY <1>1, <2>1, NotAtOnce
    <3>3. at'["recv"] # "posting"
      BY <1>1 DEF Known, CalmInv, QueueCalm
    <3> QED BY <1>3, <2>1, <2>3, <2>4, <3>1, <3>2, <3>3 DEF QueueCalm
  <2>7. ReadInv'
    BY <1>3, <2>4 DEF ReadInv
  <2>8. \A u \in Timers : /\ InHand(u)' <=> InHand(u)
                          /\ InQueue(u)' <=> InQueue(u)
                          /\ Handled(u)' <=> Handled(u)
    BY <1>1, <2>3, <2>4 DEF InHand, InQueue, Handled
  <2>9. PlacesInv'
    BY <1>1, <2>3, <2>5, <2>8, PlacesKept
  <2>10. TaskHand'
    <3>1. next = "dropping" => phase[t] = "cancelled"
      <4>1. ~MainAtWork(t)
        BY <2>2 DEF MainBusy, MainAtWork, Holding
      <4> QED BY <1>3, <2>1, <2>2, <4>1, Places DEF Place
    <3> QED BY <1>1, <1>3, <2>1, <2>4, <2>5, <3>1 DEF TaskHand
  <2>11. RecvHand'
    BY <1>1, <2>5, <2>8, Places DEF Known, CalmInv, RecvHand, SystemInv, HandInv
  <2>12. MainHand'
    BY <1>1, <2>2, <2>3 DEF Known, CalmInv, MainHand, MainBusy
  <2>13. LinksCalm'
    BY <1>1, <2>5, LinksKept
  <2>14. PU!PoolInv'
    BY <1>1, PoolKept
  <2> QED
    BY <2>3, <2>6, <2>7, <2>9, <2>10, <2>11, <2>12, <2>13, <2>14 DEF CalmInv
<1>4. CASE /\ task.when <= now /\ task.state = "Active" /\ timer' = Fired(task.top)
           /\ HeapT!RemoveFromHeap(task.top) /\ task' = [task EXCEPT !.pc = "firing"]
  BY <1>3, <1>4
<1>5. CASE /\ task.when <= now /\ task.state = "Idle" /\ timer' = timer
           /\ HeapT!RemoveFromHeap(task.top) /\ task' = [task EXCEPT !.pc = "dropping"]
  BY <1>3, <1>5
<1> QED BY <1>2, <1>4, <1>5 DEF Look

\* The timer it removes leaves the heap for its hand.
LEMMA TaskHeapStepCalm ==
  ASSUME Sheltered, Known, TaskHeapStep
  PROVE  CalmInv'
<1>1. /\ HeapT!HeapStep
      /\ UNCHANGED <<whenToFire, opA, pool, timer, sem, mq, now, at, on, loaded,
                     task, phase, callback, calls>>
  BY DEF TaskHeapStep
<1>2. opT.pc # "idle"
  <2>1. ST!HeapStep /\ ST!SharedInv
    BY <1>1, HeapTStep, SameInv DEF Known, SystemInv
  <2> QED BY <2>1, Constants, ST!StepOfCall DEF ST!SharedInv, ST!SharedType, ST!Working
<1>3. /\ opT.timer = task.top /\ task.pc \in {"firing", "dropping", "posting"}
      /\ ST!Adding <=> task.pc = "posting"
      /\ opT.pc = "search" => opT.index = 0 /\ heap[0] = task.top
  BY <1>2 DEF Known, CalmInv, QueueCalm
<1>a. PICK t \in Timers : t = task.top
  BY <1>3, TaskAlone
<1>4. ~MainBusy /\ opA.pc = "idle" /\ \A u \in Timers : ~MainAtWork(u)
  BY <1>3, TaskAlone
<1>5. /\ HeapCalm' /\ opT'.timer = t
      /\ \/ ST!Adding /\ Held' = Held /\ (ST!Adding' \/ opT'.pc = "idle")
         \/ opT.pc = "search" /\ opT'.pc = "decLoad" /\ Held' = Held \ {t}
         \/ /\ ST!Unlinked \/ opT.pc = "down"
            /\ Held' = Held
            /\ ST!Unlinked' \/ opT'.pc \in {"down", "idle"}
  BY <1>1, <1>2, <1>3, <1>a, TaskHeap DEF Known, CalmInv
<1>6. /\ opT'.pc # "idle" => (ST!Adding' <=> task.pc = "posting")
      /\ opT'.pc # "search"
      /\ opT.pc = "search" => Held' = Held \ {t} /\ task.pc # "posting"
      /\ opT.pc # "search" => Held' = Held
  BY <1>3, <1>5 DEF ST!Adding, ST!Unlinked
<1>7. QueueCalm'
  <2>1. ~MainBusy' /\ opA' = opA /\ ~SA!Adding' /\ ~SA!Removing'
    BY <1>1, <1>4, NotAtOnce DEF MainBusy
  <2>2. at'["recv"] # "posting"
    BY <1>1 DEF Known, CalmInv, QueueCalm
  <2> QED BY <1>1, <1>3, <1>4, <1>5, <1>6, <1>a, <2>1, <2>2 DEF QueueCalm
<1>8. ReadInv'
  BY <1>1, <1>3 DEF ReadInv
<1>9. PlacesInv'
  <2>1. \A u \in Timers : /\ InQueue(u)' <=> InQueue(u)
                          /\ Handled(u)' <=> Handled(u)
                          /\ ~MainAtWork(u)'
    BY <1>1, <1>4 DEF InQueue, Handled, MainAtWork
  <2>2. \A u \in Timers \ {t} : (InHand(u)' <=> InHand(u)) /\ (u \in Held' <=> u \in Held)
    BY <1>1, <1>6, <1>a DEF InHand
  <2>3. \A u \in Timers \ {t} : Place(u)'
    BY <1>1, <1>4, <2>1, <2>2, Places DEF Place
  <2>4. Place(t)'
    <3>1. CASE opT.pc = "search"
      <4>1. t \in Held
        <5>1. ST!SerialInv /\ Held = ST!Contents
          BY <1>4, HeldIs DEF Known, CalmInv, HeapCalm
        <5> QED BY <1>3, <1>a, <3>1, <5>1 DEF ST!SerialInv, ST!RemovingInv
      <4>2. t \notin Held' /\ InHand(t)'
        BY <1>1, <1>3, <1>6, <1>a, <3>1 DEF InHand
      <4>3. ~InQueue(t) /\ ~Handled(t) /\ phase[t] \in {"armed", "cancelled"}
        BY <1>4, <4>1, Places DEF Place
      <4> QED BY <1>1, <2>1, <4>2, <4>3 DEF Place
    <3>2. CASE opT.pc # "search"
      <4>1. Held' = Held /\ (InHand(t)' <=> InHand(t))
        BY <1>1, <1>6, <3>2 DEF InHand
      <4> QED BY <1>1, <1>4, <2>1, <4>1, Places DEF Place
    <3> QED BY <3>1, <3>2
  <2>5. \A u \in Timers : Fields(u)'
    BY <1>1, Places DEF Fields
  <2> QED BY <2>3, <2>4, <2>5 DEF PlacesInv
<1>10. TaskHand'
  BY <1>1 DEF Known, CalmInv, TaskHand
<1>11. RecvHand'
  BY <1>1 DEF Known, CalmInv, RecvHand, InQueue, Handled
<1>12. MainHand'
  BY <1>1, <1>4 DEF Known, CalmInv, MainHand, MainBusy
<1>13. LinksCalm'
  BY <1>1, LinksKept
<1>14. PU!PoolInv'
  BY <1>1, PoolKept
<1> QED
  BY <1>5, <1>7, <1>8, <1>9, <1>10, <1>11, <1>12, <1>13, <1>14 DEF CalmInv

LEMMA MarkDoneCalm ==
  ASSUME Sheltered, Known, MarkDone
  PROVE  CalmInv'
<1>0. PICK t \in Timers : t = task.top
  BY TaskAlone DEF MarkDone
<1>1. /\ task.pc = "firing" /\ opT.pc = "idle"
      /\ timer' = [timer EXCEPT ![t].state = "Done"]
      /\ task' = [task EXCEPT !.pc = "sending"]
      /\ UNCHANGED <<heap, n, whenToFire, opA, opT, pool, sem, mq, now, at, on,
                     loaded, phase, callback, calls>>
  BY <1>0 DEF MarkDone
<1>2. ~MainBusy /\ opA.pc = "idle" /\ \A u \in Timers : ~MainAtWork(u)
  BY <1>1, TaskAlone
<1>3. task'.pc = "sending" /\ task'.top = t
  BY <1>0, <1>1, Processes DEF TaskFields
<1>4. /\ timer'[t].state = "Done"
      /\ \A u \in Timers \ {t} : timer'[u] = timer[u]
      /\ \A u \in Timers : /\ timer'[u].type = timer[u].type
                           /\ timer'[u].timeout = timer[u].timeout
                           /\ timer'[u].pCb = timer[u].pCb
  BY <1>1, Processes DEF TimerFields
<1>5. HeapCalm' /\ Held' = Held
  BY <1>1, SameHeap DEF Known, CalmInv
<1>6. QueueCalm'
  <2>1. ~MainBusy' /\ opA' = opA /\ ~SA!Adding' /\ ~SA!Removing' /\ opT'.pc = "idle"
    BY <1>1, <1>2, NotAtOnce DEF MainBusy
  <2>2. at'["recv"] # "posting"
    BY <1>1 DEF Known, CalmInv, QueueCalm
  <2> QED BY <1>2, <2>1, <2>2 DEF QueueCalm
<1>7. ReadInv'
  BY <1>3 DEF ReadInv
<1>8. \A u \in Timers : /\ InHand(u)' <=> InHand(u)
                        /\ InQueue(u)' <=> InQueue(u)
                        /\ Handled(u)' <=> Handled(u)
                        /\ ~MainAtWork(u)'
                        /\ InHand(t)
  BY <1>0, <1>1, <1>2, <1>3 DEF InHand, InQueue, Handled, MainAtWork
<1>9. PlacesInv'
  <2>1. Place(t) /\ Fields(t)
    BY Places
  <2>2. t \notin Held /\ ~InQueue(t) /\ ~Handled(t) /\ phase[t] \in {"armed", "cancelled"}
    BY <1>8, <2>1 DEF Place
  <2>3. Place(t)' /\ Fields(t)'
    BY <1>1, <1>4, <1>5, <1>8, <2>1, <2>2 DEF Place, Fields
  <2>4. \A u \in Timers \ {t} : Place(u)' /\ Fields(u)'
    BY <1>1, <1>2, <1>4, <1>5, <1>8, Places DEF Place, Fields
  <2> QED BY <2>3, <2>4 DEF PlacesInv
<1>10. TaskHand'
  <2>1. whenToFire[t] <= now
    BY <1>0, <1>1 DEF Known, CalmInv, TaskHand
  <2> QED BY <1>1, <1>3, <1>4, <2>1 DEF TaskHand
<1>11. RecvHand'
  BY <1>1, <1>4, <1>8, Places DEF Known, CalmInv, RecvHand, SystemInv, HandInv
<1>12. MainHand'
  BY <1>1, <1>2, <1>5 DEF Known, CalmInv, MainHand, MainBusy
<1>13. LinksCalm'
  BY <1>1, <1>4, LinksKept
<1>14. PU!PoolInv'
  BY <1>1, PoolKept
<1> QED
  BY <1>5, <1>6, <1>7, <1>9, <1>10, <1>11, <1>12, <1>13, <1>14 DEF CalmInv

LEMMA SendCalm ==
  ASSUME Sheltered, Known, Send
  PROVE  CalmInv'
<1>0. PICK t \in Timers : t = task.top
  BY TaskAlone DEF Send
<1>1. /\ task.pc = "sending" /\ mq' = Append(mq, t) /\ task' = Polling
      /\ UNCHANGED <<heap, n, whenToFire, opA, opT, pool, timer, sem, now, at, on,
                     loaded, phase, callback, calls>>
  BY <1>0 DEF Send
<1>2. ~MainBusy /\ opA.pc = "idle" /\ \A u \in Timers : ~MainAtWork(u)
  BY <1>1, TaskAlone
<1>3. task'.pc = "poll" /\ opT.pc = "idle"
  BY <1>1 DEF Polling, Known, CalmInv, QueueCalm
<1>4. HeapCalm' /\ Held' = Held
  BY <1>1, SameHeap DEF Known, CalmInv
<1>5. QueueCalm'
  <2>1. ~MainBusy' /\ opA' = opA /\ ~SA!Adding' /\ ~SA!Removing' /\ opT'.pc = "idle"
    BY <1>1, <1>2, <1>3, NotAtOnce DEF MainBusy
  <2>2. at'["recv"] # "posting"
    BY <1>1 DEF Known, CalmInv, QueueCalm
  <2> QED BY <1>2, <2>1, <2>2 DEF QueueCalm
<1>6. ReadInv' /\ TaskHand'
  BY <1>3 DEF ReadInv, TaskHand
<1>7. /\ InHand(t) /\ timer[t].state = "Done" /\ whenToFire[t] <= now
      /\ Place(t) /\ t \notin Held /\ ~InQueue(t) /\ ~Handled(t)
      /\ phase[t] \in {"armed", "cancelled"}
  <2>1. InHand(t)
    BY <1>0, <1>1, <1>3 DEF InHand
  <2>2. timer[t].state = "Done" /\ whenToFire[t] <= now
    BY <1>0, <1>1 DEF Known, CalmInv, TaskHand
  <2> QED BY <2>1, <2>2, Places DEF Place
<1>8. /\ DOMAIN mq \subseteq DOMAIN mq' /\ \A i \in DOMAIN mq : mq'[i] = mq[i]
      /\ Len(mq) + 1 \in DOMAIN mq' /\ mq'[Len(mq) + 1] = t
      /\ \A i \in DOMAIN mq' : i \in DOMAIN mq \/ i = Len(mq) + 1
  <2>1. mq \in Seq(Timers) /\ Len(mq) \in Nat /\ DOMAIN mq = 1 .. Len(mq)
    BY DEF Known, SystemInv, TypeOK, ProcessTypeOK
  <2>2. DOMAIN mq' = 1 .. Len(mq) + 1
    BY <1>1, <2>1
  <2>3. mq'[Len(mq) + 1] = t /\ \A i \in 1 .. Len(mq) : mq'[i] = mq[i]
    BY <1>1, <2>1
  <2> QED BY <2>1, <2>2, <2>3
<1>9. \A u \in Timers : /\ ~InHand(u)'
                        /\ InQueue(u)' <=> InQueue(u) \/ u = t
                        /\ Handled(u)' <=> Handled(u)
                        /\ InHand(u) <=> u = t
                        /\ ~MainAtWork(u)'
  <2>1. \A u \in Timers : InQueue(u)' <=> InQueue(u) \/ u = t
    BY <1>8 DEF InQueue
  <2> QED BY <1>0, <1>1, <1>2, <1>3, <1>7, <2>1 DEF InHand, Handled, MainAtWork
<1>10. PlacesInv'
  <2>1. Place(t)'
    BY <1>1, <1>4, <1>7, <1>9 DEF Place
  <2>2. \A u \in Timers \ {t} : Place(u)'
    BY <1>1, <1>2, <1>4, <1>9, Places DEF Place
  <2>3. \A u \in Timers : Fields(u)'
    BY <1>1, Places DEF Fields
  <2> QED BY <2>1, <2>2, <2>3 DEF PlacesInv
<1>11. RecvHand'
  <2>1. \A i, j \in DOMAIN mq : mq[i] = mq[j] => i = j
    BY DEF Known, CalmInv, RecvHand
  <2>2. \A i \in DOMAIN mq : mq[i] # t
    BY <1>7 DEF InQueue
  <2>3. \A i, j \in DOMAIN mq' : mq'[i] = mq'[j] => i = j
    BY <1>8, <2>1, <2>2
  <2>4. \A u \in Timers : InQueue(u)' \/ Handled(u)' => whenToFire[u] <= now
    BY <1>7, <1>9 DEF Known, CalmInv, RecvHand
  <2> QED BY <1>1, <2>3, <2>4 DEF Known, CalmInv, RecvHand
<1>12. MainHand'
  BY <1>1, <1>2, <1>4 DEF Known, CalmInv, MainHand, MainBusy
<1>13. LinksCalm'
  BY <1>1, LinksKept
<1>14. PU!PoolInv'
  BY <1>1, PoolKept
<1> QED
  BY <1>4, <1>5, <1>6, <1>10, <1>11, <1>12, <1>13, <1>14 DEF CalmInv

\* A cancelled timer it took out is put in again: it belongs to nobody, until it
\* is due once more and main deletes it.
LEMMA TaskRearmCalm ==
  ASSUME Sheltered, Known, TaskRearm
  PROVE  CalmInv'
<1>0. PICK t \in Timers : t = task.top
  BY TaskAlone DEF TaskRearm
<1>1. /\ task.pc = "dropping" /\ opT.pc = "idle" /\ HeapT!AddToHeap(t)
      /\ ChangeFiringTime(t, task.timeout)
      /\ task' = [task EXCEPT !.pc = "posting"]
      /\ UNCHANGED <<opA, pool, mq, now, at, on, loaded, phase, calls>>
  BY <1>0 DEF TaskRearm
<1>2. ~MainBusy /\ opA.pc = "idle" /\ \A u \in Timers : ~MainAtWork(u)
  BY <1>1, TaskAlone
<1>3. phase[t] = "cancelled" /\ timer[t].pCb = 0
  BY <1>0, <1>1 DEF Known, CalmInv, TaskHand, LinksCalm
<1>4. InHand(t) /\ t \notin Held /\ ~InQueue(t) /\ ~Handled(t) /\ Fields(t)
  <2>1. InHand(t)
    BY <1>0, <1>1 DEF InHand
  <2> QED BY <2>1, Places DEF Place
<1>5. HeapCalm' /\ Held' = Held \cup {t} /\ ST!Adding' /\ opT'.timer = t
  BY <1>1, <1>2, <1>4, TaskAdd DEF Known, CalmInv
<1>6. callback' = callback /\ \A u \in Timers \ {t} : whenToFire'[u] = whenToFire[u]
  BY <1>1, <1>3, Processes DEF ChangeFiringTime, SetWhenToFire
<1>7. /\ timer'[t].state = "Active" /\ timer'[t].type = timer[t].type
      /\ \A u \in Timers : timer'[u].pCb = timer[u].pCb
      /\ \A u \in Timers \ {t} : timer'[u] = timer[u]
  <2> DEFINE set == [timer EXCEPT ![t].timeout = task.timeout]
  <2>1. timer' = [set EXCEPT ![t].state = "Active"]
    BY <1>1 DEF ChangeFiringTime
  <2>2. /\ set \in [Timers -> TimerFields]
        /\ set[t].type = timer[t].type /\ set[t].pCb = timer[t].pCb
        /\ \A u \in Timers \ {t} : set[u] = timer[u]
    <3>1. task.timeout \in 0 .. MaxTime
      BY Processes DEF TaskFields
    <3> QED BY <3>1, Processes DEF TimerFields
  <2> HIDE DEF set
  <2> QED BY <2>1, <2>2 DEF TimerFields
<1>8. task'.pc = "posting" /\ task'.top = t
  BY <1>0, <1>1, Processes DEF TaskFields
<1>9. QueueCalm'
  <2>1. ~MainBusy' /\ opA' = opA /\ ~SA!Adding' /\ ~SA!Removing'
    BY <1>1, <1>2, NotAtOnce DEF MainBusy
  <2>2. at'["recv"] # "posting"
    BY <1>1 DEF Known, CalmInv, QueueCalm
  <2>3. opT'.pc # "search"
    BY <1>5 DEF ST!Adding
  <2> QED BY <1>2, <1>5, <1>8, <2>1, <2>2, <2>3 DEF QueueCalm
<1>10. ReadInv'
  BY <1>8 DEF ReadInv
<1>11. \A u \in Timers : /\ ~InHand(u)' /\ ~MainAtWork(u)'
                         /\ InQueue(u)' <=> InQueue(u)
                         /\ Handled(u)' <=> Handled(u)
                         /\ InHand(u) => u = t
  BY <1>0, <1>1, <1>2, <1>8 DEF InHand, InQueue, Handled, MainAtWork
<1>12. PlacesInv'
  <2>1. Place(t)'
    BY <1>1, <1>3, <1>4, <1>5, <1>7, <1>11 DEF Place
  <2>2. \A u \in Timers \ {t} : u \in Held' <=> u \in Held
    BY <1>5
  <2>3. \A u \in Timers \ {t} : Place(u)'
    BY <1>1, <1>2, <1>7, <1>11, <2>2, Places DEF Place
  <2>4. \A u \in Timers \ {t} : Fields(u)'
    BY <1>1, <1>7, Places DEF Fields
  <2>5. Fields(t)'
    BY <1>1, <1>3, <1>4, <1>7 DEF Fields
  <2> QED BY <2>1, <2>3, <2>4, <2>5 DEF PlacesInv
<1>13. TaskHand'
  BY <1>1, <1>3, <1>8 DEF TaskHand
<1>14. RecvHand'
  <2>1. \A u \in Timers : InQueue(u)' \/ Handled(u)' => whenToFire'[u] <= now
    BY <1>4, <1>6, <1>11 DEF Known, CalmInv, RecvHand
  <2> QED BY <1>1, <1>7, <2>1, Places DEF Known, CalmInv, RecvHand, SystemInv, HandInv
<1>15. MainHand'
  BY <1>1, <1>2 DEF Known, CalmInv, MainHand, MainBusy
<1>16. LinksCalm'
  BY <1>1, <1>3, <1>6, <1>7, LinksKept
<1>17. PU!PoolInv'
  BY <1>1, PoolKept
<1> QED
  BY <1>5, <1>9, <1>10, <1>12, <1>13, <1>14, <1>15, <1>16, <1>17 DEF CalmInv

LEMMA TaskPostCalm ==
  ASSUME Sheltered, Known, TaskPost
  PROVE  CalmInv'
<1>1. /\ task.pc = "posting" /\ opT.pc = "idle" /\ task' = Polling
      /\ UNCHANGED <<heap, n, whenToFire, opA, opT, pool, timer, mq, now, at, on,
                     loaded, phase, callback, calls>>
  BY DEF TaskPost
<1>2. ~MainBusy /\ opA.pc = "idle"
  BY <1>1, TaskAlone
<1>3. task'.pc = "poll"
  BY <1>1 DEF Polling
<1>4. HeapCalm' /\ Held' = Held
  BY <1>1, SameHeap DEF Known, CalmInv
<1>5. QueueCalm'
  <2>1. ~MainBusy' /\ opA' = opA /\ ~SA!Adding' /\ ~SA!Removing' /\ opT'.pc = "idle"
    BY <1>1, <1>2, NotAtOnce DEF MainBusy
  <2>2. at'["recv"] # "posting"
    BY <1>1 DEF Known, CalmInv, QueueCalm
  <2> QED BY <1>2, <2>1, <2>2 DEF QueueCalm
<1>6. ReadInv' /\ TaskHand'
  BY <1>3 DEF ReadInv, TaskHand
<1>7. \A t \in Timers : /\ InHand(t)' <=> InHand(t)
                        /\ InQueue(t)' <=> InQueue(t)
                        /\ Handled(t)' <=> Handled(t)
  BY <1>1, <1>3 DEF InHand, InQueue, Handled
<1>8. PlacesInv'
  BY <1>1, <1>4, <1>7, PlacesKept
<1>9. RecvHand'
  BY <1>1, <1>7 DEF Known, CalmInv, RecvHand
<1>10. MainHand'
  BY <1>1, <1>4 DEF Known, CalmInv, MainHand
<1>11. LinksCalm'
  BY <1>1, LinksKept
<1>12. PU!PoolInv'
  BY <1>1, PoolKept
<1> QED
  BY <1>4, <1>5, <1>6, <1>8, <1>9, <1>10, <1>11, <1>12 DEF CalmInv

-----------------------------------------------------------------------------
\* Time passes only while main is in no call and TimerTask has read nothing, so
\* what was due stays due and nothing that was read grows old.
LEMMA TickCalm ==
  ASSUME Sheltered, Known, Tick
  PROVE  CalmInv'
<1>1. /\ at["main"] \in {"ready", "done"} /\ task.pc \notin {"peeked", "read"}
      /\ now' = now + 1
      /\ UNCHANGED <<heap, n, whenToFire, opA, opT, pool, timer, sem, mq, at, on,
                     loaded, task, phase, callback, calls>>
  BY DEF Sheltered, Tick
<1>2. ~MainBusy /\ ~MainBusy' /\ opA.pc = "idle"
  BY <1>1, Places DEF MainBusy
<1>3. HeapCalm' /\ Held' = Held
  BY <1>1, SameHeap DEF Known, CalmInv
<1>4. QueueCalm'
  <2>1. ST!Adding' <=> ST!Adding
    BY <1>1 DEF ST!Adding
  <2> QED BY <1>1, <1>2, <2>1, NotAtOnce DEF Known, CalmInv, QueueCalm
<1>5. ReadInv'
  BY <1>1 DEF ReadInv
<1>6. \A t \in Timers : /\ InHand(t)' <=> InHand(t)
                        /\ InQueue(t)' <=> InQueue(t)
                        /\ Handled(t)' <=> Handled(t)
                        /\ whenToFire[t] <= now => whenToFire[t] <= now'
  BY <1>1, Times DEF InHand, InQueue, Handled
<1>7. PlacesInv'
  BY <1>1, <1>3, <1>6, PlacesKept
<1>8. TaskHand'
  <2>1. task.pc \in {"firing", "sending"} => task.top \in Timers /\ whenToFire[task.top] <= now
    BY DEF Known, CalmInv, TaskHand, SystemInv, HandInv
  <2> QED BY <1>1, <1>6, <2>1 DEF Known, CalmInv, TaskHand
<1>9. RecvHand'
  <2>1. \A t \in Timers : InQueue(t)' \/ Handled(t)' => whenToFire[t] <= now'
    BY <1>6 DEF Known, CalmInv, RecvHand
  <2> QED BY <1>1, <2>1 DEF Known, CalmInv, RecvHand
<1>10. MainHand'
  BY <1>1, <1>2, <1>3 DEF Known, CalmInv, MainHand, MainBusy
<1>11. LinksCalm'
  BY <1>1, LinksKept
<1>12. PU!PoolInv'
  BY <1>1, PoolKept
<1> QED
  BY <1>3, <1>4, <1>5, <1>7, <1>8, <1>9, <1>10, <1>11, <1>12 DEF CalmInv

LEMMA StutterCalm ==
  ASSUME Known, UNCHANGED vars
  PROVE  CalmInv'
<1>1. /\ UNCHANGED <<heap, n, whenToFire, opA, opT, pool, timer, sem, mq, now, at, on,
                     loaded, task, phase, callback, calls>>
  BY DEF vars
<1>2. HeapCalm' /\ Held' = Held
  BY <1>1, SameHeap DEF Known, CalmInv
<1>3. QueueCalm'
  <2>1. /\ ST!Adding' <=> ST!Adding
        /\ SA!Adding' <=> SA!Adding
        /\ SA!Removing' <=> SA!Removing
        /\ MainBusy' <=> MainBusy
    BY <1>1 DEF ST!Adding, SA!Adding, SA!Removing, SA!Unlinked, MainBusy
  <2> QED BY <1>1, <1>2, <2>1 DEF Known, CalmInv, QueueCalm
<1>4. ReadInv' /\ TaskHand'
  BY <1>1 DEF Known, CalmInv, ReadInv, TaskHand
<1>5. \A t \in Timers : /\ InHand(t)' <=> InHand(t)
                        /\ InQueue(t)' <=> InQueue(t)
                        /\ Handled(t)' <=> Handled(t)
  BY <1>1 DEF InHand, InQueue, Handled
<1>6. PlacesInv'
  BY <1>1, <1>2, <1>5, PlacesKept
<1>7. RecvHand'
  BY <1>1, <1>5 DEF Known, CalmInv, RecvHand
<1>8. MainHand'
  BY <1>1, <1>2 DEF Known, CalmInv, MainHand
<1>9. LinksCalm'
  BY <1>1, LinksKept
<1>10. PU!PoolInv'
  BY <1>1, PoolKept
<1> QED
  BY <1>2, <1>3, <1>4, <1>6, <1>7, <1>8, <1>9, <1>10 DEF CalmInv

LEMMA CalmInit == Init => CalmInv
<1> SUFFICES ASSUME Init PROVE CalmInv
  OBVIOUS
<1>1. SA!HeapInit /\ ST!HeapInit
  BY DEF Init, HeapA!HeapInit, HeapT!HeapInit, SA!HeapInit, ST!HeapInit,
         HeapA!NoOp, HeapT!NoOp, SA!NoOp, ST!NoOp, HeapA!Slots, HeapT!Slots,
         SA!Slots, ST!Slots
<1>2. /\ SA!SerialInv /\ SA!Contents = {} /\ opA.pc = "idle"
      /\ ST!SerialInv /\ ST!Contents = {} /\ opT.pc = "idle"
  BY <1>1, Constants, SA!SerialInit, ST!SerialInit
<1>3. HeapCalm /\ Held = {}
  BY <1>2 DEF HeapCalm, Held, SA!SerialInv, ST!SerialInv, SA!SerialType, ST!SerialType
<1>4. /\ at["main"] = "ready" /\ at["recv"] = "ready" /\ task.pc = "poll" /\ mq = <<>>
      /\ \A t \in Timers : phase[t] = "none" /\ timer[t].pCb = 0
      /\ \A c \in Callbacks : ~callback[c].wanted
  BY DEF Init, Polling, NoCallback
<1>5. QueueCalm
  BY <1>2, <1>4, NotAtOnce DEF QueueCalm, MainBusy
<1>6. ReadInv /\ TaskHand
  BY <1>4 DEF ReadInv, TaskHand
<1>7. \A t \in Timers : ~InHand(t) /\ ~InQueue(t) /\ ~Handled(t)
  BY <1>4 DEF InHand, InQueue, Handled
<1>8. PlacesInv
  BY <1>3, <1>4, <1>7 DEF PlacesInv, Place, Fields
<1>9. RecvHand
  BY <1>4, <1>7 DEF RecvHand
<1>10. MainHand
  BY <1>4 DEF MainHand, App
<1>11. LinksCalm
  BY <1>4 DEF LinksCalm
<1>12. PU!PoolInv
  <2>1. InUse = {}
    BY <1>4 DEF InUse, App
  <2>2. PU!Init
    BY <2>1 DEF Init, Pool!PoolInit, Pool!Objects, PU!Init, PU!PoolInit, PU!Objects
  <2> QED BY <2>2, Constants, PoolAssumption, PU!InitIsSound
<1> QED
  BY <1>3, <1>5, <1>6, <1>8, <1>9, <1>10, <1>11, <1>12 DEF CalmInv

LEMMA CalmNext == Sheltered /\ Known /\ [Next]_vars => CalmInv'
<1> SUFFICES ASSUME Sheltered, Known, [Next]_vars PROVE CalmInv'
  OBVIOUS
<1>1. ASSUME NEW t \in Timers, NEW ctor \in Ctors, New(t, ctor) PROVE CalmInv'
  BY <1>1, NewCalm
<1>2. ASSUME NEW t \in Timers, NEW kind \in Kinds, NEW d \in Timeouts,
             Schedule(t, kind, d)
      PROVE  CalmInv'
  BY <1>2, ScheduleCalm
<1>3. ASSUME NEW t \in Timers, Stop(t) \/ Restart(t) \/ Cancel(t) \/ Delete(t)
      PROVE  CalmInv'
  BY <1>3, StopCalm, RestartCalm, CancelCalm, DeleteCalm
<1>4. CASE MainCall
  BY <1>1, <1>2, <1>3, <1>4 DEF MainCall
<1>5. CASE MainStep
  BY <1>5, RestartAddCalm, PostCalm, UnlinkCalm, FreeCalm DEF MainStep, App
<1>6. CASE MainEnd
  BY <1>6, FinishCalm DEF MainEnd
<1>7. CASE AppHeapStep
  BY <1>7, AppHeapStepCalm
<1>8. CASE RecvStep
  BY <1>8, ReceiveCalm, LoadCalm, TriggerCalm, RecvRearmOnce, RecvDeleteCalm,
     PostCalm, UnlinkCalm, FreeCalm DEF RecvStep, App, Known
<1>9. CASE TaskStep
  BY <1>9, PeekCalm, ReadCalm, LookCalm, TaskHeapStepCalm, MarkDoneCalm, SendCalm,
     TaskRearmCalm, TaskPostCalm DEF TaskStep
<1>10. CASE Tick
  BY <1>10, TickCalm
<1>11. CASE UNCHANGED vars
  BY <1>11, StutterCalm
<1> QED
  BY <1>4, <1>5, <1>6, <1>7, <1>8, <1>9, <1>10, <1>11 DEF Next

LEMMA AlwaysKnown ==
  ASSUME Sheltered
  PROVE  Spec => []Known
<1>1. Init => Known
  BY InitKeeps, OnceInit, CalmInit DEF Known
<1>2. Known /\ [Next]_vars => Known'
  BY NextKeeps, OnceNext, CalmNext DEF Known, Sheltered
<1> QED BY <1>1, <1>2, PTL DEF Spec

-----------------------------------------------------------------------------
(* What follows.                                                           *)

\* The receiver calls a live callback, one that is wanted and due.
LEMMA LoadedIsWanted ==
  ASSUME Known, at["recv"] = "loaded"
  PROVE  /\ callback[loaded.cb].status = "live" /\ callback[loaded.cb].wanted
         /\ callback[loaded.cb].due <= now
<1>1. PICK t \in Timers : t = on["recv"]
  BY DEF Known, SystemInv, HandInv, App
<1>2. /\ Handled(t) /\ phase[t] = "armed" /\ loaded.cb = timer[t].pCb
      /\ whenToFire[t] <= now
  BY <1>1 DEF Known, CalmInv, RecvHand, Handled
<1> QED BY <1>2 DEF Known, CalmInv, LinksCalm

LEMMA OnlyTriggerCalls ==
  ASSUME Known, [Next]_vars, ~Trigger
  PROVE  \A c \in Callbacks : callback'[c].calls = callback[c].calls
<1>1. callback \in [Callbacks -> CallbackFields]
  BY Processes
<1>2. \A c \in Callbacks : /\ Deleted(c)[c].calls = callback[c].calls
                           /\ Unwanted(c)[c].calls = callback[c].calls
                           /\ \A b \in Callbacks \ {c} : /\ Deleted(c)[b] = callback[b]
                                                         /\ Unwanted(c)[b] = callback[b]
  BY <1>1 DEF Deleted, Unwanted, CallbackFields
<1>3. \A c \in Callbacks, d \in Nat, b \in Callbacks : Due(c, d)[b].calls = callback[b].calls
  BY <1>1 DEF Due, CallbackFields
<1>4. \A t \in Timers : timer[t].pCb # 0 => timer[t].pCb \in Callbacks
  BY Linked
<1>5. ASSUME NEW t \in Timers, NEW kind \in Kinds, NEW d \in Timeouts, Schedule(t, kind, d)
      PROVE  \A c \in Callbacks : callback'[c].calls = callback[c].calls
  <2>1. PICK c \in Callbacks, cb \in Callbacks :
          callback' = [Due(cb, d) EXCEPT ![c].status = "live", ![cb].kind = kind,
                                         ![cb].asked = d]
    BY <1>4, <1>5 DEF Schedule
  <2> DEFINE due == Due(cb, d)
             born == [due EXCEPT ![c].status = "live"]
             kept == [born EXCEPT ![cb].kind = kind]
  <2>2. callback' = [kept EXCEPT ![cb].asked = d]
    BY <2>1
  <2>3. DOMAIN due = Callbacks /\ \A b \in Callbacks : due[b].calls = callback[b].calls
    BY <1>1 DEF Due, CallbackFields
  <2> HIDE DEF due
  <2>4. DOMAIN born = Callbacks /\ \A b \in Callbacks : born[b].calls = due[b].calls
    BY <2>3
  <2> HIDE DEF born
  <2>5. DOMAIN kept = Callbacks /\ \A b \in Callbacks : kept[b].calls = born[b].calls
    BY <2>4
  <2> HIDE DEF kept
  <2>6. \A b \in Callbacks : callback'[b].calls = kept[b].calls
    BY <2>2, <2>5
  <2> QED BY <2>3, <2>4, <2>5, <2>6
<1>6. ASSUME NEW t \in Timers, Stop(t) \/ Cancel(t) \/ Delete(t)
      PROVE  \A c \in Callbacks : callback'[c].calls = callback[c].calls
  BY <1>2, <1>4, <1>6 DEF Stop, Cancel, Delete
<1>7. ASSUME NEW t \in Timers, Rearm(t) \/ Restart(t)
      PROVE  \A c \in Callbacks : callback'[c].calls = callback[c].calls
  BY <1>1, <1>4, <1>7 DEF Restart, Rearm, Due, CallbackFields
<1>8. CASE MainCall
  BY <1>5, <1>6, <1>7, <1>8 DEF MainCall, New
<1>9. CASE RestartAdd
  <2>1. on["main"] \in Timers
    BY <1>9 DEF RestartAdd, Known, SystemInv, HandInv, App
  <2> QED BY <1>7, <1>9, <2>1 DEF RestartAdd
<1>10. ASSUME NEW p \in App, Unlink(p)
       PROVE  \A c \in Callbacks : callback'[c].calls = callback[c].calls
  <2>1. on[p] \in Timers
    BY <1>10 DEF Unlink, Known, SystemInv, HandInv
  <2> QED BY <1>2, <1>4, <1>10, <2>1 DEF Unlink
<1>11. CASE MainStep \/ MainEnd \/ AppHeapStep \/ Tick
  BY <1>9, <1>10, <1>11 DEF MainStep, MainEnd, AppHeapStep, Tick, Post, Free, Finish, App
<1>12. CASE RecvStep
  BY <1>10, <1>12, RecvRearmOnce
  DEF RecvStep, Receive, Load, RecvDelete, Post, Free, App, Known
<1>13. CASE TaskStep /\ ~TaskRearm
  BY <1>13 DEF TaskStep, Peek, Read, Look, TaskHeapStep, MarkDone, Send, TaskPost
<1>14. CASE TaskRearm
  <2>1. task.top \in Timers
    BY <1>14 DEF TaskRearm, Known, SystemInv, HandInv
  <2> QED BY <1>1, <1>4, <1>14, <2>1 DEF TaskRearm, ChangeFiringTime, CallbackFields
<1>15. CASE UNCHANGED vars
  BY <1>15 DEF vars
<1> QED BY <1>8, <1>11, <1>12, <1>13, <1>14, <1>15 DEF Next

\* In calm use no callback is called early, and none after main stopped,
\* cancelled or deleted its timer: what TimerTask sends is due, and until the
\* receiver has called it main does not touch it (TimerTask.cpp:104-113,
\* Timer.cpp:349-361).
THEOREM CalmCallsWhenDue ==
  ASSUME Sheltered
  PROVE  Spec => CalledWhenDue
<1>1. Known /\ [Next]_vars =>
        [\A c \in Callbacks :
           callback'[c].calls # callback[c].calls =>
             callback[c].wanted /\ now >= callback[c].due]_vars
  <2> SUFFICES ASSUME Known, [Next]_vars,
                      NEW c \in Callbacks, callback'[c].calls # callback[c].calls
               PROVE  callback[c].wanted /\ now >= callback[c].due
    OBVIOUS
  <2>1. Trigger
    BY OnlyTriggerCalls
  <2>2. c = loaded.cb
    BY <2>1, Processes DEF Trigger
  <2>3. callback[c].due \in Nat /\ now \in Nat
    BY Processes, Times, TimesAssumption DEF CallbackFields
  <2> QED BY <2>1, <2>2, <2>3, LoadedIsWanted DEF Trigger
<1> QED BY <1>1, AlwaysKnown, PTL DEF Spec, CalledWhenDue

\* In calm use the receiver never calls a callback that was deleted while it
\* held the pointer it had read without the semaphore (Timer.cpp:349-361).
THEOREM CalmTriggersLive ==
  ASSUME Sheltered
  PROVE  Spec => []TriggersLiveCallback
<1>1. Known => TriggersLiveCallback
  BY LoadedIsWanted DEF TriggersLiveCallback
<1> QED BY <1>1, AlwaysKnown, PTL

\* The slots the heap counts are its timers and the one TimerTask works on.
LEMMA PendingIs ==
  ASSUME HeapCalm, opA.pc = "idle"
  PROVE  Pending \subseteq Held \cup {opT.timer}
<1>1. ST!SerialInv /\ Held = ST!Contents /\ n \in Nat
  BY HeldIs, Constants DEF HeapCalm, ST!SerialInv, ST!SerialType
<1>2. ASSUME NEW i \in 0 .. n - 1 PROVE heap[i] \in ST!Contents \cup {opT.timer}
  <2>1. CASE ST!Unlinked
    <3>1. i = n - 1 \/ i \in ST!Used
      BY <1>1, <2>1 DEF ST!Used, ST!Size, ST!Adding, ST!Unlinked
    <3> QED BY <1>1, <2>1, <3>1 DEF ST!SerialInv, ST!RemovingInv, ST!Contents
  <2>2. CASE ~ST!Unlinked
    <3>1. i \in ST!Used
      BY <1>1, <2>2 DEF ST!Used, ST!Size
    <3> QED BY <3>1 DEF ST!Contents
  <2> QED BY <2>1, <2>2
<1> QED BY <1>1, <1>2 DEF Pending

\* In calm use a slot is given back once, and nobody else knows it by then: it is
\* on no free list and not in the heap, in no message, with neither TimerTask nor
\* the other thread (Timer.cpp:336-345, MemoryPool.cpp:87-102).
THEOREM CalmFreesOnce ==
  ASSUME Sheltered
  PROVE  Spec => []FreesOnce
<1>1. Known => FreesOnce
  <2> SUFFICES ASSUME Known, NEW p \in App, at[p] = "freeing"
               PROVE  /\ on[p] \notin Pool!Free \cup Pending
                      /\ \A i \in DOMAIN mq : mq[i] # on[p]
                      /\ task.pc \notin {"poll", "peeked", "read"} => task.top # on[p]
                      /\ \A q \in App \ {p} : at[q] \notin {"ready", "done"} => on[q] # on[p]
    BY DEF FreesOnce
  <2>1. PICK o \in Timers : o = on[p]
    BY DEF Known, SystemInv, HandInv
  <2>2. phase[o] = "none" /\ Place(o) /\ HeapCalm
    BY <2>1 DEF Known, CalmInv, MainHand, PlacesInv
  <2>3. o \notin Pool!Free
    <3>1. PU!FreeListSound /\ o \in InUse
      BY <2>1 DEF Known, CalmInv, PU!PoolInv, InUse
    <3>2. Pool!Free = PU!Free
      BY DEF Pool!Free, PU!Free, Pool!Closed, PU!Closed, Pool!Objects, PU!Objects
    <3> QED BY <3>1, <3>2 DEF PU!FreeListSound
  <2>4. opA.pc = "idle"
    <3>1. at[p] \notin Holding /\ opA \in SA!Calls
      BY <2>2 DEF Holding, HeapCalm
    <3>2. CASE opA.pc # "idle"
      <4>1. MainBusy
        BY <3>2 DEF Known, CalmInv, QueueCalm
      <4>2. at["recv"] = "ready" /\ p = "main"
        BY <4>1 DEF Known, CalmInv, QueueCalm, App
      <4>3. HeapA!Working
        BY <3>1, <3>2 DEF HeapA!Working, SA!Calls
      <4> QED BY <3>1, <4>2, <4>3 DEF Known, SystemInv, LockInv, Holding, App
    <3> QED BY <3>2
  <2>5. o \notin Held /\ ~InHand(o) /\ ~InQueue(o)
    BY <2>2, <2>4 DEF Place
  <2>6. task.pc \notin {"poll", "peeked", "read"} => task.top # o
    <3> SUFFICES ASSUME task.pc \notin {"poll", "peeked", "read"}, task.top = o
                 PROVE  FALSE
      OBVIOUS
    <3>1. task.pc \in {"firing", "sending", "dropping"}
      <4>1. task.pc \in {"poll", "peeked", "read", "firing", "sending", "dropping", "posting"}
        BY DEF Known, SystemInv, TypeOK, ProcessTypeOK, TaskFields
      <4> QED BY <2>2, <4>1 DEF Known, CalmInv, TaskHand
    <3>2. opT.pc = "search"
      BY <2>5, <3>1 DEF InHand
    <3>3. opT.timer = o /\ ST!SerialInv /\ Held = ST!Contents
      BY <2>2, <2>4, <3>2, HeldIs DEF Known, CalmInv, QueueCalm, HeapCalm
    <3> QED BY <2>5, <3>2, <3>3 DEF ST!SerialInv, ST!RemovingInv
  <2>7. o \notin Pending
    <3>1. CASE opT.pc = "idle"
      BY <2>4, <2>5, <3>1, HeldIs DEF Pending
    <3>2. CASE opT.pc # "idle"
      <4>1. opT.timer = task.top /\ task.pc \notin {"poll", "peeked", "read"}
        BY <3>2 DEF Known, CalmInv, QueueCalm
      <4> QED BY <2>2, <2>4, <2>5, <2>6, <4>1, PendingIs
    <3> QED BY <3>1, <3>2
  <2>8. \A q \in App \ {p} : at[q] \in {"ready", "done"}
    <3>1. at["recv"] = "ready" \/ ~MainBusy
      BY DEF Known, CalmInv, QueueCalm
    <3> QED BY <3>1 DEF MainBusy, App
  <2> QED BY <2>1, <2>3, <2>5, <2>6, <2>7, <2>8 DEF InQueue
<1> QED BY <1>1, AlwaysKnown, PTL

LEMMA OneAtMost ==
  ASSUME NEW S, \A i, j \in S : i = j
  PROVE  Cardinality(S) = IF S = {} THEN 0 ELSE 1
<1>1. ASSUME NEW i \in S PROVE S = {i}
  OBVIOUS
<1> QED BY <1>1, FS_Singleton, FS_EmptySet

\* In calm use a wanted callback is never lost nor entered twice: between calls its
\* timer is in the heap, with TimerTask, in the queue or with the receiver, and in
\* one of them only (Timer.cpp:125-282, TimerTask.cpp:111-134).
THEOREM CalmKeepsWanted ==
  ASSUME Sheltered
  PROVE  Spec => []WantedIsPending
<1>1. Known => WantedIsPending
  <2> SUFFICES ASSUME Known, Quiescent, NEW c \in Callbacks, callback[c].wanted
               PROVE  \E t \in Timers :
                 /\ timer[t].pCb = c
                 /\ Cardinality({i \in 0 .. n - 1 : heap[i] = t})
                    + Cardinality({i \in DOMAIN mq : mq[i] = t})
                    + (IF InTask(t) THEN 1 ELSE 0) + (IF InRecv(t) THEN 1 ELSE 0) = 1
    BY DEF WantedIsPending
  <2>1. PICK t \in Timers : timer[t].pCb = c
    BY DEF Known, CalmInv, LinksCalm
  <2>2. phase[t] = "armed" /\ Place(t)
    BY <2>1, Places DEF Known, CalmInv, LinksCalm, Callbacks
  <2>3. /\ opA.pc = "idle" /\ opT.pc = "idle"
        /\ at["main"] \notin Holding /\ at["recv"] \notin Holding
    BY DEF Quiescent, Known, SystemInv, LockInv, App
  <2>4. InHand(t) <=> InTask(t)
    BY <2>2, <2>3 DEF InHand, InTask, Known, CalmInv, TaskHand
  <2>5. Handled(t) <=> InRecv(t)
    BY <2>3 DEF Handled, InRecv, Holding
  <2>6. /\ t \in Held => ~InHand(t) /\ ~InQueue(t) /\ ~Handled(t)
        /\ InHand(t) => ~InQueue(t) /\ ~Handled(t)
        /\ InQueue(t) => ~Handled(t)
        /\ t \in Held \/ InHand(t) \/ InQueue(t) \/ Handled(t)
    BY <2>2, <2>3 DEF Place, Holding
  <2>7. /\ t \in Held <=> \E i \in 0 .. n - 1 : heap[i] = t
        /\ \A i, j \in 0 .. n - 1 : heap[i] = t /\ heap[j] = t => i = j
    <3>1. Held = {heap[i] : i \in 0 .. n - 1}
      BY <2>3, HeldIs
    <3>2. SA!Used = 0 .. n - 1
      BY <2>3 DEF SA!Used, SA!Size, SA!Adding, SA!Unlinked
    <3> QED
      BY <2>3, <3>1, <3>2 DEF Known, CalmInv, HeapCalm, SA!SerialInv, SA!NoTimerTwice
  <2>8. \A i, j \in DOMAIN mq : mq[i] = t /\ mq[j] = t => i = j
    BY DEF Known, CalmInv, RecvHand
  <2>9. Cardinality({i \in 0 .. n - 1 : heap[i] = t}) = IF t \in Held THEN 1 ELSE 0
    <3> DEFINE S == {i \in 0 .. n - 1 : heap[i] = t}
    <3>1. (\A i, j \in S : i = j) /\ (S = {} <=> t \notin Held)
      BY <2>7
    <3>2. Cardinality(S) = IF S = {} THEN 0 ELSE 1
      <4> HIDE DEF S
      <4> QED BY <3>1, OneAtMost
    <3> QED BY <3>1, <3>2
  <2>10. Cardinality({i \in DOMAIN mq : mq[i] = t}) = IF InQueue(t) THEN 1 ELSE 0
    <3> DEFINE S == {i \in DOMAIN mq : mq[i] = t}
    <3>1. (\A i, j \in S : i = j) /\ (S = {} <=> ~InQueue(t))
      BY <2>8 DEF InQueue
    <3>2. Cardinality(S) = IF S = {} THEN 0 ELSE 1
      <4> HIDE DEF S
      <4> QED BY <3>1, OneAtMost
    <3> QED BY <3>1, <3>2
  <2> QED
    <3>1. Cardinality({i \in 0 .. n - 1 : heap[i] = t})
            + Cardinality({i \in DOMAIN mq : mq[i] = t})
            + (IF InTask(t) THEN 1 ELSE 0) + (IF InRecv(t) THEN 1 ELSE 0) = 1
      BY <2>4, <2>5, <2>6, <2>9, <2>10
    <3> QED BY <2>1, <3>1
<1> QED BY <1>1, AlwaysKnown, PTL

LEMMA RestartAllowed ==
  ASSUME Sheltered, NEW t \in Timers, Restart(t)
  PROVE  MayRestart
<1>1. MayCall("restart", t)
  BY DEF Restart, Call
<1>2. phase[t] \in {"armed", "stopped"}
  BY <1>1, MayCallCareful, CarefulPhases
<1> QED BY <1>1, <1>2 DEF MayRestart, MayCall

\* A schedule sets the firing time that was asked for.
LEMMA ScheduleAsks ==
  ASSUME Sheltered, Known, NEW t \in Timers, NEW kind \in Kinds, NEW d \in Timeouts,
         Schedule(t, kind, d)
  PROVE  /\ whenToFire'[t] = Deadline(d)
         /\ callback'[timer'[t].pCb].asked = d
         /\ \A u \in Timers \ {t} : whenToFire'[u] = whenToFire[u]
<1>1. PICK c \in Callbacks, cb \in Callbacks, left \in Leftover :
        /\ callback' = [Due(cb, d) EXCEPT ![c].status = "live", ![cb].kind = kind,
                                          ![cb].asked = d]
        /\ timer' = [timer EXCEPT ![t] =
             [type |-> kind[1], state |-> "Active", pCb |-> cb,
              timeout |-> IF kind[1] = "OneShot" THEN left ELSE d,
              howMany |-> kind[2], fired |-> 0]]
  BY Linked DEF Schedule
<1>2. timer'[t].pCb = cb
  BY <1>1, Processes
<1>3. callback'[cb].asked = d
  <2> DEFINE due == Due(cb, d)
             born == [due EXCEPT ![c].status = "live"]
             kinded == [born EXCEPT ![cb].kind = kind]
  <2>1. d \in 0 .. MaxTime /\ kind \in {"OneShot", "Periodic"} \X Nat
    BY TimesAssumption, KindsAssumption
  <2>2. due \in [Callbacks -> CallbackFields]
    BY <2>1, DueType DEF Known, SystemInv, TypeOK
  <2>3. callback' = [kinded EXCEPT ![cb].asked = d]
    BY <1>1
  <2> HIDE DEF due
  <2>4. born \in [Callbacks -> CallbackFields]
    BY <2>2 DEF CallbackFields
  <2> HIDE DEF born
  <2>5. kinded \in [Callbacks -> CallbackFields]
    BY <2>1, <2>4 DEF CallbackFields
  <2> HIDE DEF kinded
  <2> QED BY <2>3, <2>5 DEF CallbackFields
<1>4. whenToFire' = [whenToFire EXCEPT ![t] = Deadline(d)]
  BY DEF Schedule, SetWhenToFire
<1> QED BY <1>2, <1>3, <1>4, Processes

\* In calm use a timer fires the timeout the application asked for into the
\* future, unless main restarts it: TimerTask re-arms what was cancelled only, and
\* schedule counts from its own reading of the clock (Timer.cpp:164, TimerTask.cpp:143).
THEOREM CalmFiresAfterTimeout ==
  ASSUME Sheltered, ~MayRestart
  PROVE  Spec => FiresAfterTimeout
<1>1. Known /\ [Next]_vars =>
        [\A t \in Timers :
           whenToFire'[t] # whenToFire[t] /\ timer'[t].pCb # 0 =>
             whenToFire'[t] = Deadline(callback'[timer'[t].pCb].asked)]_vars
  <2> SUFFICES ASSUME Known, [Next]_vars, NEW t \in Timers,
                      whenToFire'[t] # whenToFire[t], timer'[t].pCb # 0
               PROVE  whenToFire'[t] = Deadline(callback'[timer'[t].pCb].asked)
    OBVIOUS
  <2>1. CASE MainCall
    <3>1. PICK u \in Timers, kind \in Kinds, d \in Timeouts : Schedule(u, kind, d)
      BY <2>1, RestartAllowed DEF MainCall, New, Stop, Cancel, Delete
    <3> QED BY <3>1, ScheduleAsks
  <2>2. CASE MainStep \/ MainEnd \/ AppHeapStep \/ Tick
    <3>1. at["main"] # "restarting"
      BY DEF Known, CalmInv, MainHand
    <3> QED
      BY <2>2, <3>1
      DEF MainStep, MainEnd, AppHeapStep, Tick, RestartAdd, Post, Unlink, Free, Finish
  <2>3. CASE RecvStep
    BY <2>3, RecvRearmOnce
    DEF RecvStep, Receive, Load, Trigger, RecvDelete, Post, Unlink, Free, Known
  <2>4. CASE TaskStep /\ ~TaskRearm
    BY <2>4 DEF TaskStep, Peek, Read, Look, TaskHeapStep, MarkDone, Send, TaskPost
  <2>5. CASE TaskRearm
    <3>1. PICK u \in Timers : u = task.top
      BY <2>5, TaskAlone DEF TaskRearm
    <3>2. timer[u].pCb = 0
      BY <2>5, <3>1 DEF TaskRearm, Known, CalmInv, TaskHand, LinksCalm
    <3>3. t = u
      BY <2>5, <3>1, Processes DEF TaskRearm, ChangeFiringTime, SetWhenToFire
    <3>4. timer'[u].pCb = timer[u].pCb
      <4>1. timer' = [timer EXCEPT ![u].timeout = task.timeout, ![u].state = "Active"]
        BY <2>5, <3>1 DEF TaskRearm, ChangeFiringTime
      <4> QED BY <4>1, Processes DEF TimerFields
    <3> QED BY <3>2, <3>3, <3>4
  <2>6. CASE UNCHANGED vars
    BY <2>6 DEF vars
  <2> QED BY <2>1, <2>2, <2>3, <2>4, <2>5, <2>6 DEF Next
<1> QED BY <1>1, AlwaysKnown, PTL DEF Spec, FiresAfterTimeout

=============================================================================
