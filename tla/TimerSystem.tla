------------------------------ MODULE TimerSystem ------------------------------
(***************************************************************************)
(* The running system: the application's main thread calls the methods of  *)
(* Timer.cpp; the TimerTask process polls the top of the heap and sends    *)
(* the pool index of a due timer through a bounded message queue; the      *)
(* application's receiver thread calls processACallback on it.  They share *)
(* the timer objects and their pool, the heap and pTimerSemaphore.         *)
(*                                                                         *)
(* A method that takes the semaphore takes it in its first step and gives  *)
(* it up in its last; the heap works in the steps of TimerMinHeap.tla.     *)
(* TimerTask removes from the heap WITHOUT the semaphore, as its code does. *)
(*                                                                         *)
(* An operator named Slip... is a bug somebody could write in the operator *)
(* below it; no specification uses it.  The properties are shown to catch  *)
(* the slips.                                                              *)
(***************************************************************************)
EXTENDS Integers, Sequences, FiniteSets

CONSTANTS
  NumTimers,     \* the timer pool has the slots 0 .. NumTimers - 1
  NULL, Cap, Modulus,
  MaxMsg,        \* mq_maxmsg of the receiver's queue
  Kinds,         \* what main schedules: pairs <<type, howManyTimesToFire>>
  Timeouts,      \* the timeouts main passes
  Leftover,      \* what the uninitialised timeout of a one-shot may hold
  Protocol,      \* <<method, phase>>: what main calls on a timer in a phase
  Ctors,         \* the constructors main uses: "default", "tasks"
  Calm,          \* TRUE: main calls only while no timer is due (Lull)
  MaxTime, MaxCallbacks, MaxCalls   \* bounds on time, schedule and other calls

Timers == 0 .. NumTimers - 1
App    == {"main", "recv"}

ASSUME PoolAssumption    == NumTimers \in Nat \ {0}
ASSUME CapAssumption     == Cap \in Nat \ {0}
\* Far more numbers than slots: 2^32 and 1024.
ASSUME ModulusAssumption == Modulus \in Nat /\ Modulus > Cap + 2
ASSUME NullAssumption    == NULL \notin Timers
ASSUME KindsAssumption   == Kinds \subseteq {"OneShot", "Periodic"} \X Nat
ASSUME TimesAssumption   == /\ MaxTime \in Nat
                            /\ Timeouts \subseteq 0 .. MaxTime
                            /\ Leftover \subseteq 0 .. MaxTime
ASSUME BoundsAssumption  == /\ MaxMsg \in Nat
                            /\ MaxCallbacks \in Nat
                            /\ MaxCalls \in Nat

VARIABLES
  heap, n, whenToFire,                     \* as in TimerMinHeap.tla
  opA, opT,                                \* heap calls of the application, of TimerTask
  freeList, firstFree, numberAllocated,    \* as in MemoryPool.tla
  timer,     \* the fields of the Timer object in each slot
  sem,       \* pTimerSemaphore: "free" or the process that holds it
  mq,        \* the messages on the way to the receiver
  now,       \* the clock
  at, on,    \* of main and recv: what it does next, and on which timer
  loaded,    \* what recv read from the timer it handles
  task,      \* TimerTask: what it does next, and what it read of the top
  phase,     \* of main: what it has done with the timer in each slot
  callback,  \* the callback objects, and the calls of their triggered()
  calls      \* the calls main has made, for the bound MaxCalls

heapVars == <<heap, n>>
pool     == <<freeList, firstFree, numberAllocated>>
vars == <<heap, n, whenToFire, opA, opT, pool, timer, sem, mq, now, at, on,
          loaded, task, phase, callback, calls>>

HeapA == INSTANCE TimerMinHeap WITH op <- opA
HeapT == INSTANCE TimerMinHeap WITH op <- opT
Pool  == INSTANCE MemoryPool WITH MaxObjects <- NumTimers

Callbacks == 1 .. MaxCallbacks   \* 0 is the NULL callback pointer

NothingLoaded == [cb |-> 0, again |-> FALSE, timeout |-> 0]
Polling       == [pc |-> "poll", top |-> NULL, when |-> 0, state |-> "Idle",
                  timeout |-> 0]

NoCallback == [status |-> "unborn", kind |-> <<"OneShot", 0>>, asked |-> 0,
               calls |-> 0, due |-> 0, wanted |-> FALSE]

Init ==
  /\ HeapA!HeapInit /\ HeapT!HeapInit /\ Pool!PoolInit
  /\ whenToFire = [t \in Timers |-> 0]
  /\ timer = [t \in Timers |-> [type |-> "OneShot", state |-> "Idle", pCb |-> 0,
                                timeout |-> 0, howMany |-> 0, fired |-> 0]]
  /\ sem = "free" /\ mq = <<>> /\ now = 0
  /\ at = [main |-> "ready", recv |-> "ready"]
  /\ on = [main |-> NULL, recv |-> NULL]
  /\ loaded = NothingLoaded /\ task = Polling
  /\ phase = [t \in Timers |-> "none"]
  /\ callback = [c \in Callbacks |-> NoCallback]
  /\ calls = 0

-----------------------------------------------------------------------------
(* Pieces of the methods.                                                  *)

Wait(p) == sem = "free" /\ sem' = p

\* convertTimerTimeoutToAbsoluteTimeSinceEpoch; what lies beyond the horizon
\* MaxTime is due at the horizon.
Deadline(d) == IF now + d > MaxTime THEN MaxTime ELSE now + d

\* Set the firing time of t, with its callback c now due then.
SetWhenToFire(t, d) == whenToFire' = [whenToFire EXCEPT ![t] = Deadline(d)]

Due(c, d) == [callback EXCEPT ![c].due = Deadline(d), ![c].wanted = TRUE]

Deleted(c) == [callback EXCEPT ![c].status = "deleted", ![c].wanted = FALSE]

\* incNumberOfTimesFired
SlipFired(t) == timer
Fired(t) == [timer EXCEPT ![t].fired = @ + 1]

\* pCb is NULL once its callback is deleted.
SlipUnlinked(t) == timer
Unlinked(t) == [timer EXCEPT ![t].pCb = 0]

\* processACallback: does the timer go on?
SlipFiresAgain(x) == x.fired <= x.howMany \/ x.howMany = 0
FiresAgain(x) == x.type = "Periodic" /\ (x.fired <= x.howMany \/ x.howMany = 0)

\* mq_send blocks while the queue is full.
SlipHasRoom == Len(mq) <= MaxMsg
HasRoom == Len(mq) < MaxMsg

\* What the application wants of a callback follows its calls, not the heap.
Unwanted(c) == [callback EXCEPT ![c].wanted = FALSE]

Go(p, where) == at' = [at EXCEPT ![p] = where]

\* p is back from its call; what it had in its locals is gone.
Return(p) ==
  /\ Go(p, "ready")
  /\ on' = [on EXCEPT ![p] = NULL]
  /\ loaded' = IF p = "recv" THEN NothingLoaded ELSE loaded

\* No timer is due, fired or being handled.
Lull ==
  /\ task.pc \in {"poll", "peeked", "read"} /\ mq = <<>> /\ at["recv"] = "ready"
  /\ \A i \in 0 .. n - 1 : heap[i] # NULL => whenToFire[heap[i]] > now

MayCall(method, t) ==
  /\ at["main"] = "ready"
  /\ <<method, phase[t]>> \in Protocol
  /\ Calm => Lull

Call(method, t) ==
  /\ MayCall(method, t)
  /\ calls < MaxCalls /\ calls' = calls + 1
  /\ on' = [on EXCEPT !["main"] = t]

Enter(t, p) == phase' = [phase EXCEPT ![t] = p]

-----------------------------------------------------------------------------
(* The application's calls.                                                *)

\* operator new, and with it the constructor, which runs after the semaphore's post
\* (Timer.cpp:331): the slot is main's alone by then.
New(t, ctor) ==
  /\ at["main"] = "ready" /\ sem = "free"
  /\ Pool!GetFromPool(t)
  /\ timer' = IF ctor = "default"
              THEN [timer EXCEPT ![t] = [@ EXCEPT !.type = "Invalid", !.pCb = 0,
                                                  !.state = "Idle", !.timeout = 0]]
              ELSE timer
  /\ Enter(t, IF ctor = "default" THEN "invalid" ELSE "fresh")
  /\ UNCHANGED <<heap, n, whenToFire, opA, opT, sem, mq, now, at, on, loaded,
                 task, callback, calls>>

Schedule(t, kind, d) ==
  /\ MayCall("schedule", t) /\ now + d <= MaxTime
  /\ Wait("main")
  /\ \E c \in Callbacks :
       LET cb == IF timer[t].pCb = 0 THEN c ELSE timer[t].pCb
       IN /\ callback[c].status = "unborn"
          /\ \A b \in 1 .. c - 1 : callback[b].status # "unborn"
          /\ callback' = [Due(cb, d) EXCEPT ![c].status = "live",
                                             ![cb].kind = kind, ![cb].asked = d]
          /\ \E left \in Leftover :
               timer' = [timer EXCEPT ![t] =
                 [type |-> kind[1], state |-> "Active", pCb |-> cb,
                  timeout |-> IF kind[1] = "OneShot" THEN left ELSE d,
                  howMany |-> kind[2], fired |-> 0]]
  /\ SetWhenToFire(t, d)
  /\ HeapA!AddToHeap(t)
  /\ on' = [on EXCEPT !["main"] = t]
  /\ Go("main", "posting") /\ Enter(t, "armed")
  /\ UNCHANGED <<opT, pool, mq, now, loaded, task, calls>>

\* The timer is only marked, and left in the heap.
SlipStop(t) ==
  /\ Call("stop", t) /\ Wait("main")
  /\ timer' = [timer EXCEPT ![t].state = "Idle"]
  /\ callback' = IF timer[t].pCb = 0 THEN callback ELSE Unwanted(timer[t].pCb)
  /\ Go("main", "posting") /\ Enter(t, "stopped")
  /\ UNCHANGED <<heap, n, whenToFire, opA, opT, pool, mq, now, loaded, task>>

Stop(t) ==
  /\ Call("stop", t) /\ Wait("main")
  /\ timer' = [timer EXCEPT ![t].state = "Idle"]
  /\ HeapA!RemoveFromHeap(t)
  /\ callback' = IF timer[t].pCb = 0 THEN callback ELSE Unwanted(timer[t].pCb)
  /\ Go("main", "posting") /\ Enter(t, "stopped")
  /\ UNCHANGED <<whenToFire, opT, pool, mq, now, loaded, task>>

\* The second half of restart(): a new firing time, and back into the heap.
Rearm(t) ==
  /\ timer' = [timer EXCEPT ![t].state = "Active"]
  /\ SetWhenToFire(t, timer[t].timeout)
  /\ callback' = IF timer[t].pCb = 0 THEN callback
                 ELSE Due(timer[t].pCb, timer[t].timeout)
  /\ HeapA!AddToHeap(t)
  /\ Go("main", "posting")

\* An active timer is added once more without being removed.
SlipRestart(t) ==
  /\ Call("restart", t) /\ now + timer[t].timeout <= MaxTime
  /\ Wait("main")
  /\ Enter(t, "armed") /\ Rearm(t)
  /\ UNCHANGED <<opT, pool, mq, now, loaded, task>>

Restart(t) ==
  /\ Call("restart", t) /\ now + timer[t].timeout <= MaxTime
  /\ Wait("main")
  /\ Enter(t, "armed")
  /\ \/ /\ timer[t].state = "Active"
        /\ timer' = [timer EXCEPT ![t].state = "Idle"]
        /\ HeapA!RemoveFromHeap(t)
        /\ Go("main", "restarting")
        /\ UNCHANGED <<whenToFire, callback>>
     \/ timer[t].state # "Active" /\ Rearm(t)
  /\ UNCHANGED <<opT, pool, mq, now, loaded, task>>

RestartAdd ==
  /\ at["main"] = "restarting" /\ opA.pc = "idle"
  /\ Rearm(on["main"])
  /\ UNCHANGED <<opT, pool, sem, mq, now, on, loaded, task, phase, calls>>

Cancel(t) ==
  /\ Call("cancel", t) /\ Wait("main")
  /\ callback' = IF timer[t].pCb = 0 THEN callback ELSE Deleted(timer[t].pCb)
  /\ timer' = [timer EXCEPT ![t].pCb = 0, ![t].state = "Idle"]
  /\ Go("main", "posting") /\ Enter(t, "cancelled")
  /\ UNCHANGED <<heap, n, whenToFire, opA, opT, pool, mq, now, loaded, task>>

\* ~Timer up to the heap; then Unlink, then the slot goes back (Free).
Destroy(p, t) ==
  /\ Wait(p)
  /\ \/ /\ timer[t].type = "Invalid" \/ timer[t].state = "Done"
        /\ UNCHANGED <<heap, n, opA>>
     \/ /\ ~(timer[t].type = "Invalid" \/ timer[t].state = "Done")
        /\ HeapA!RemoveFromHeap(t)
  /\ Go(p, "unlinking")

Delete(t) ==
  /\ Call("delete", t)
  /\ Destroy("main", t)
  /\ UNCHANGED <<whenToFire, opT, pool, timer, mq, now, loaded, task, phase, callback>>

Finish ==
  /\ at["main"] = "ready" /\ Go("main", "done")
  /\ UNCHANGED <<heap, n, whenToFire, opA, opT, pool, timer, sem, mq, now, on,
                 loaded, task, phase, callback, calls>>

-----------------------------------------------------------------------------
(* Steps of main and of the receiver alike.                                *)

AppHeapStep ==
  /\ HeapA!HeapStep
  /\ UNCHANGED <<whenToFire, opT, pool, timer, sem, mq, now, at, on, loaded,
                 task, phase, callback, calls>>

Post(p) ==
  /\ at[p] = "posting" /\ opA.pc = "idle"
  /\ sem' = "free" /\ Return(p)
  /\ UNCHANGED <<heap, n, whenToFire, opA, opT, pool, timer, mq, now, task,
                 phase, callback, calls>>

\* A timer with no callback returns early, without the post.
SlipUnlink(p) ==
  /\ at[p] = "unlinking" /\ opA.pc = "idle"
  /\ LET t == on[p]
     IN /\ callback' = IF timer[t].pCb = 0 THEN callback ELSE Deleted(timer[t].pCb)
        /\ timer' = Unlinked(t)
        /\ Enter(t, "none")
        /\ sem' = IF timer[t].pCb = 0 THEN sem ELSE "free"
  /\ Go(p, "freeing")
  /\ UNCHANGED <<heap, n, whenToFire, opA, opT, pool, mq, now, on, loaded, task,
                 calls>>

\* The rest of ~Timer.  The phase ends also when the receiver deletes a one-shot
\* (Timer.cpp:368): it is assumed of the application that it makes no call through
\* its own pointer after that, for the code leaves it with one.
Unlink(p) ==
  /\ at[p] = "unlinking" /\ opA.pc = "idle"
  /\ LET t == on[p]
     IN /\ callback' = IF timer[t].pCb = 0 THEN callback ELSE Deleted(timer[t].pCb)
        /\ timer' = Unlinked(t)
        /\ Enter(t, "none")
  /\ sem' = "free" /\ Go(p, "freeing")
  /\ UNCHANGED <<heap, n, whenToFire, opA, opT, pool, mq, now, on, loaded, task,
                 calls>>

Free(p) ==
  /\ at[p] = "freeing" /\ sem = "free"
  /\ Pool!RemoveFromPool(on[p])
  /\ Return(p)
  /\ UNCHANGED <<heap, n, whenToFire, opA, opT, timer, sem, mq, now, task,
                 phase, callback, calls>>

-----------------------------------------------------------------------------
(* The receiver: one message, one processACallback.                        *)

Receive ==
  /\ at["recv"] = "ready" /\ mq # <<>>
  /\ on' = [on EXCEPT !["recv"] = Head(mq)]
  /\ mq' = Tail(mq)
  /\ Go("recv", "received")
  /\ UNCHANGED <<heap, n, whenToFire, opA, opT, pool, timer, sem, now, loaded,
                 task, phase, callback, calls>>

\* Without the semaphore.  A timer with no callback is left as it is: ERROR.  The
\* reads of type, pCb, timeout and the counts are one step, although main may change
\* them in between; in calm use it does not.
Load ==
  /\ at["recv"] = "received"
  /\ LET x == timer[on["recv"]]
     IN \/ /\ x.pCb # 0 /\ x.type # "Invalid"
           /\ loaded' = [cb |-> x.pCb, again |-> FiresAgain(x),
                         timeout |-> x.timeout]
           /\ Go("recv", "loaded") /\ UNCHANGED on
        \/ /\ x.pCb = 0 \/ x.type = "Invalid"
           /\ Return("recv")
  /\ UNCHANGED <<heap, n, whenToFire, opA, opT, pool, timer, sem, mq, now, task,
                 phase, callback, calls>>

Trigger ==
  /\ at["recv"] = "loaded"
  /\ callback' = [callback EXCEPT ![loaded.cb].calls = @ + 1]
  /\ Go("recv", "triggered")
  /\ UNCHANGED <<heap, n, whenToFire, opA, opT, pool, timer, sem, mq, now, on,
                 loaded, task, phase, calls>>

\* Counts the timeout from the time the timer was due.
SlipChangeFiringTime(t, d) ==
  /\ whenToFire' = [whenToFire EXCEPT ![t] = IF @ + d > MaxTime THEN MaxTime ELSE @ + d]
  /\ timer' = [timer EXCEPT ![t].timeout = d, ![t].state = "Active"]
  /\ callback' = callback

\* changeFiringTime, up to and into addToHeap.
ChangeFiringTime(t, d) ==
  /\ SetWhenToFire(t, d)
  /\ timer' = [timer EXCEPT ![t].timeout = d, ![t].state = "Active"]
  /\ callback' = IF timer[t].pCb = 0 THEN callback
                 ELSE [callback EXCEPT ![timer[t].pCb].due = Deadline(d)]

RecvRearm ==
  /\ at["recv"] = "triggered" /\ loaded.again
  /\ Wait("recv")
  /\ ChangeFiringTime(on["recv"], loaded.timeout)
  /\ HeapA!AddToHeap(on["recv"])
  /\ Go("recv", "posting")
  /\ UNCHANGED <<opT, pool, mq, now, on, loaded, task, phase, calls>>

\* Called, and never deleted.
SlipRecvDelete ==
  /\ at["recv"] = "triggered" /\ ~loaded.again
  /\ Return("recv")
  /\ UNCHANGED <<heap, n, whenToFire, opA, opT, pool, timer, sem, mq, now, task,
                 phase, callback, calls>>

RecvDelete ==
  /\ at["recv"] = "triggered" /\ ~loaded.again
  /\ Destroy("recv", on["recv"])
  /\ UNCHANGED <<whenToFire, opT, pool, timer, mq, now, on, loaded, task, phase,
                 callback, calls>>

-----------------------------------------------------------------------------
(* TimerTask::run.                                                         *)

\* The top is never a NULL pointer here: TopIsReadable.
Peek ==
  /\ task.pc = "poll" /\ n # 0
  /\ task' = [task EXCEPT !.pc = "peeked", !.top = heap[0],
                          !.when = whenToFire[heap[0]]]
  /\ UNCHANGED <<heap, n, whenToFire, opA, opT, pool, timer, sem, mq, now, at, on,
                 loaded, phase, callback, calls>>

Read ==
  /\ task.pc = "peeked"
  /\ task' = [task EXCEPT !.pc = "read", !.state = timer[task.top].state,
                          !.timeout = timer[task.top].timeout]
  /\ UNCHANGED <<heap, n, whenToFire, opA, opT, pool, timer, sem, mq, now, at, on,
                 loaded, phase, callback, calls>>

\* The clock; a due timer is removed, without the semaphore.
Look ==
  /\ task.pc = "read"
  /\ \/ /\ task.when > now \/ task.state = "Done"
        /\ task' = Polling
        /\ UNCHANGED <<heap, n, opT, timer>>
     \/ /\ task.when <= now /\ task.state = "Active"
        /\ timer' = Fired(task.top)
        /\ HeapT!RemoveFromHeap(task.top)
        /\ task' = [task EXCEPT !.pc = "firing"]
     \/ /\ task.when <= now /\ task.state = "Idle"
        /\ HeapT!RemoveFromHeap(task.top)
        /\ task' = [task EXCEPT !.pc = "dropping"]
        /\ UNCHANGED timer
  /\ UNCHANGED <<whenToFire, opA, pool, sem, mq, now, at, on, loaded, phase,
                 callback, calls>>

TaskHeapStep ==
  /\ HeapT!HeapStep
  /\ UNCHANGED <<whenToFire, opA, pool, timer, sem, mq, now, at, on, loaded,
                 task, phase, callback, calls>>

MarkDone ==
  /\ task.pc = "firing" /\ opT.pc = "idle"
  /\ timer' = [timer EXCEPT ![task.top].state = "Done"]
  /\ task' = [task EXCEPT !.pc = "sending"]
  /\ UNCHANGED <<heap, n, whenToFire, opA, opT, pool, sem, mq, now, at, on,
                 loaded, phase, callback, calls>>

\* A full queue loses the message.
SlipSend ==
  /\ task.pc = "sending"
  /\ mq' = IF HasRoom THEN Append(mq, task.top) ELSE mq
  /\ task' = Polling
  /\ UNCHANGED <<heap, n, whenToFire, opA, opT, pool, timer, sem, now, at, on,
                 loaded, phase, callback, calls>>

Send ==
  /\ task.pc = "sending" /\ HasRoom
  /\ mq' = Append(mq, task.top)
  /\ task' = Polling
  /\ UNCHANGED <<heap, n, whenToFire, opA, opT, pool, timer, sem, now, at, on,
                 loaded, phase, callback, calls>>

\* Adds without the semaphore, as it removes.
SlipTaskRearm ==
  /\ task.pc = "dropping" /\ opT.pc = "idle"
  /\ ChangeFiringTime(task.top, task.timeout)
  /\ HeapT!AddToHeap(task.top)
  /\ task' = [task EXCEPT !.pc = "posting"]
  /\ UNCHANGED <<opA, pool, sem, mq, now, at, on, loaded, phase, calls>>

TaskRearm ==
  /\ task.pc = "dropping" /\ opT.pc = "idle"
  /\ Wait("task")
  /\ ChangeFiringTime(task.top, task.timeout)
  /\ HeapT!AddToHeap(task.top)
  /\ task' = [task EXCEPT !.pc = "posting"]
  /\ UNCHANGED <<opA, pool, mq, now, at, on, loaded, phase, calls>>

TaskPost ==
  /\ task.pc = "posting" /\ opT.pc = "idle"
  /\ sem' = "free"
  /\ task' = Polling
  /\ UNCHANGED <<heap, n, whenToFire, opA, opT, pool, timer, mq, now, at, on,
                 loaded, phase, callback, calls>>

-----------------------------------------------------------------------------
Tick ==
  /\ now < MaxTime
  /\ Calm => at["main"] \in {"ready", "done"} /\ task.pc \notin {"peeked", "read"}
  /\ now' = now + 1
  /\ UNCHANGED <<heap, n, whenToFire, opA, opT, pool, timer, sem, mq, at, on,
                 loaded, task, phase, callback, calls>>

\* A fault of either thread ends the process of both.
AppAlive == opA.pc # "fault"

MainCall ==
  /\ AppAlive
  /\ \/ \E t \in Timers, ctor \in Ctors : New(t, ctor)
     \/ \E t \in Timers, kind \in Kinds, d \in Timeouts : Schedule(t, kind, d)
     \/ \E t \in Timers : Stop(t) \/ Restart(t) \/ Cancel(t) \/ Delete(t)

MainStep ==
  AppAlive /\ (RestartAdd \/ Post("main") \/ Unlink("main") \/ Free("main"))

MainEnd == AppAlive /\ Finish

RecvStep ==
  /\ AppAlive
  /\ \/ Receive \/ Load \/ Trigger \/ RecvRearm \/ RecvDelete
     \/ Post("recv") \/ Unlink("recv") \/ Free("recv")

TaskStep ==
  \/ Peek \/ Read \/ Look \/ TaskHeapStep \/ MarkDone \/ Send \/ TaskRearm \/ TaskPost

Next == MainCall \/ MainStep \/ MainEnd \/ AppHeapStep \/ RecvStep \/ TaskStep \/ Tick

Spec == Init /\ [][Next]_vars

(***************************************************************************)
(* The kernel schedules the two threads and the process, and time passes;  *)
(* main finishes (it joins the receiver) but need not call anything.  The  *)
(* semaphore is strongly fair: a waiter that is free to take it again and  *)
(* again is not passed over for ever (sem_wait wakes a waiter).            *)
(***************************************************************************)
Fairness ==
  /\ WF_vars(MainEnd) /\ WF_vars(MainStep) /\ WF_vars(AppHeapStep)
  /\ SF_vars(RecvStep) /\ SF_vars(TaskStep) /\ SF_vars(Tick)

FairSpec == Spec /\ Fairness

-----------------------------------------------------------------------------
(* How the application is meant to call the methods: an instance's Protocol *)
(* may be this one, a part of it, or go beyond it.                         *)

\* Calls in an order in which each one finds what it needs.
CarefulProtocol ==
  {<<"schedule", "fresh">>, <<"schedule", "invalid">>,
   <<"stop", "armed">>, <<"restart", "armed">>, <<"restart", "stopped">>,
   <<"cancel", "armed">>,
   <<"delete", "armed">>, <<"delete", "cancelled">>, <<"delete", "invalid">>}

-----------------------------------------------------------------------------
TimerFields ==
  [type : {"OneShot", "Periodic", "Invalid"}, state : {"Idle", "Active", "Done"},
   pCb : 0 .. MaxCallbacks, timeout : 0 .. MaxTime, howMany : Nat, fired : Nat]

CallbackFields ==
  [status : {"unborn", "live", "deleted"}, calls : Nat,
   kind : {"OneShot", "Periodic"} \X Nat, asked : 0 .. MaxTime,
   due : 0 .. MaxTime, wanted : BOOLEAN]

TaskFields ==
  [pc : {"poll", "peeked", "read", "firing", "sending", "dropping", "posting"},
   top : Timers \cup {NULL}, when : 0 .. MaxTime,
   state : {"Idle", "Active", "Done"}, timeout : 0 .. MaxTime]

MainAt == {"ready", "posting", "restarting", "unlinking", "freeing", "done"}
RecvAt == {"ready", "received", "loaded", "triggered", "posting", "unlinking",
           "freeing"}

HeapTypeOK ==
  /\ heap \in [0 .. Cap - 1 -> Timers \cup {NULL}]
  /\ n \in 0 .. Modulus - 1
  /\ opA \in HeapA!Ops /\ opT \in HeapT!Ops

PoolTypeOK ==
  /\ freeList \in [Timers -> 0 .. NumTimers] /\ firstFree \in 0 .. NumTimers
  /\ numberAllocated \in 0 .. NumTimers

ObjectsTypeOK ==
  /\ timer \in [Timers -> TimerFields]
  /\ whenToFire \in [Timers -> 0 .. MaxTime]
  /\ callback \in [Callbacks -> CallbackFields]

ProcessTypeOK ==
  /\ sem \in {"free", "main", "recv", "task"}
  /\ mq \in Seq(Timers) /\ Len(mq) <= MaxMsg
  /\ at \in [App -> MainAt \cup RecvAt]
  /\ at["main"] \in MainAt /\ at["recv"] \in RecvAt
  /\ on \in [App -> Timers \cup {NULL}]
  /\ loaded \in [cb : 0 .. MaxCallbacks, again : BOOLEAN, timeout : 0 .. MaxTime]
  /\ task \in TaskFields
  /\ phase \in [Timers -> {"none", "invalid", "fresh", "armed", "stopped", "cancelled"}]

\* Type invariant: every field and program counter is one the code has.
TypeOK ==
  /\ HeapTypeOK /\ PoolTypeOK /\ ObjectsTypeOK /\ ProcessTypeOK
  /\ now \in 0 .. MaxTime /\ calls \in 0 .. MaxCalls

\* Where a timer whose callback is still to be called can be.
InTask(t) == task.pc \in {"firing", "sending"} /\ task.top = t
InRecv(t) == at["recv"] \in {"received", "loaded", "triggered"} /\ on["recv"] = t

Pending == {heap[i] : i \in 0 .. n - 1} \ {NULL}

Quiescent == sem = "free" /\ opA.pc = "idle" /\ opT.pc = "idle"

\* A callback that is wanted belongs to a timer that is in exactly one place: in
\* the heap, with TimerTask, in the queue or with the receiver.  None is dropped
\* by a call about another timer, none is there twice, and a periodic one goes
\* round (Timer.cpp, TimerTask.cpp:111-134).
WantedIsPending ==
  Quiescent =>
    \A c \in Callbacks :
      callback[c].wanted =>
        \E t \in Timers :
          /\ timer[t].pCb = c
          /\ Cardinality({i \in 0 .. n - 1 : heap[i] = t})
             + Cardinality({i \in DOMAIN mq : mq[i] = t})
             + (IF InTask(t) THEN 1 ELSE 0) + (IF InRecv(t) THEN 1 ELSE 0) = 1

\* No callback is called before the time its timer was last set to, and none
\* after its timer was stopped, cancelled or deleted (TimerTask.cpp:104-113,
\* Timer.cpp:356-361).
CalledWhenDue ==
  [][\A c \in Callbacks :
       callback'[c].calls # callback[c].calls =>
         callback[c].wanted /\ now >= callback[c].due]_vars

\* Whoever sets a firing time - schedule, restart, the receiver or TimerTask -
\* sets it the timeout the application asked for into the future
\* (Timer.cpp:164, 243, 275); restart() is documented to do so at Timer.h:41.
FiresAfterTimeout ==
  [][\A t \in Timers :
       whenToFire'[t] # whenToFire[t] /\ timer'[t].pCb # 0 =>
         whenToFire'[t] = Deadline(callback'[timer'[t].pCb].asked)]_vars

\* The receiver never calls triggered() on a callback that was deleted while
\* it held the pointer it loaded without the semaphore (Timer.cpp:349-361).
TriggersLiveCallback ==
  at["recv"] = "loaded" => callback[loaded.cb].status = "live"

\* How often a callback may be called: the code counts a periodic timer's
\* firings with <=, so it is called once more than howManyTimesToFire.
CallLimit(kind) == IF kind[1] = "OneShot" THEN 1 ELSE kind[2] + 1

\* No callback is called more often than its timer's kind allows, although the
\* timer's slot travels by index through heap, queue and pool and may be freed
\* and allocated anew on the way (Timer.cpp:354-404).
NoExtraCall ==
  \A c \in Callbacks : callback[c].calls <= CallLimit(callback[c].kind)

\* A slot about to be given back is given back once and is in nobody's way: it is
\* not on the free list, it is not pending in the heap, no message on its way names
\* it, TimerTask is not firing it, and the other thread is in no call about it
\* (Timer.cpp:336-345, MemoryPool.cpp:87-102, TimerTask.cpp:111-134).  An index that
\* outlived its timer would be taken for the slot's next one.
FreesOnce ==
  \A p \in App :
    at[p] = "freeing" =>
      /\ on[p] \notin Pool!Free \cup Pending
      /\ \A i \in DOMAIN mq : mq[i] # on[p]
      /\ task.pc \notin {"poll", "peeked", "read"} => task.top # on[p]
      /\ \A q \in App \ {p} : at[q] \notin {"ready", "done"} => on[q] # on[p]

\* Additions to the heap exclude each other and the application's removals:
\* while TimerTask adds, it holds the semaphore and no other call is in the heap
\* (Timer.cpp:272-281; its removals give no such guarantee).
AdditionsExclude ==
  opT.pc \in {"up", "incLoad", "incStore"} => sem = "task" /\ ~HeapA!Working

\* However the two processes disturb each other's heap calls, TimerTask never
\* reads the firing time of a NULL top: a slot is filled before it is counted
\* (TimerTask.cpp:94-96, TimerMinHeap.cpp:52-80).
TopIsReadable == n # 0 => heap[0] # NULL

\* A search or a sift that another process disturbs still ends, so whoever holds
\* the semaphore gives it back, unless the process died (TimerMinHeap.cpp).
SemaphoreReturns ==
  \A p \in App \cup {"task"} :
    sem = p ~> sem # p \/ opA.pc = "fault" \/ opT.pc = "fault"

\* Every wanted callback is eventually called, unless the application takes it
\* back, whatever else is due and however full the queue.
WantedIsCalled ==
  \A c \in Callbacks :
    callback[c].wanted ~> callback[c].calls > 0 \/ ~callback[c].wanted

\* A callback that was called is deleted in the end and every slot that nobody has
\* is back in the pool, unless the application stops the timer: neither pool runs
\* dry by firing (Timer.cpp:336-345, 367-404).
CalledIsFreed ==
  \A c \in Callbacks :
    callback[c].calls > 0 ~>
      \/ /\ callback[c].status = "deleted"
         /\ numberAllocated = Cardinality({t \in Timers : phase[t] # "none"})
      \/ callback[c].status = "live" /\ ~callback[c].wanted

-----------------------------------------------------------------------------
(* What the comments of the code say, and the code does not do.            *)

\* "state == Done timers were removed from the heap in the TimerTask"
\* (Timer.cpp:297): when nobody is at work in the heap it holds no Done timer.
DoneIsRemoved == Quiescent => \A t \in Pending : timer[t].state # "Done"

=============================================================================
