# TimerAndCallback: a verification development

TimerAndCallback is a small C++ framework for timers with callbacks.  Timer
objects live in a memory pool in shared memory, pending timers in an array
min-heap in shared memory.  A separate process, TimerTask, polls the top of the
heap; when it is due it removes the timer and sends the timer's pool index to
the application through a POSIX message queue.  A receiver thread of the
application turns the index back into the object and calls its callback.

## 1. Inventory

| Component | State | Operations | Made correct by |
|---|---|---|---|
| Timer heap (`platform/TimerMinHeap.cpp`) | array of 1024 timer pointers, a counter | addToHeap (up-heapify), removeFromHeap (search, move the last, down-heapify) | no timer lost or doubled; a removal takes out its own timer; order |
| Timer objects (`platform/Timer.cpp`) | per pool slot: type, state, callback, timeout, firing time, counts | new, delete, schedule (6 forms), stop, restart, cancel, changeFiringTime, processACallback | a wanted callback is called once (one-shot), in time, on a live object; none after stop, cancel or delete |
| TimerTask (`platform/TimerTask.cpp`) | what it read of the top | poll, fire, drop-and-re-arm | as above, and it does not block for ever |
| Memory pool (`platform/MemoryPool.cpp`) | free list, first free, count | getFromPool, removeFromPool | an object is never allocated twice nor given back twice |
| Message queue (`platform/PosixMessageQueue.cpp`) | bounded FIFO of indices | send (blocks when full), receive | an index is handled while it still names its timer |
| Semaphore (`platform/PosixSemaphore.*`) | holder | wait, post | always given back |
| Receiver (`getMessages` in `test/*.cpp`) | the timer in hand | receive, processACallback | |
| Application main (`test/*.cpp`) | the pointers it kept | the methods of Timer | |
| Callbacks (`TimerCallback`, `TestCallback`) | own pool and semaphore | triggered, new, delete | called only while alive |
| Time (`platform/TimerUtils.cpp`) | clock | timeout to absolute time and back | |
| Shared memory and names (`PosixSharedMemory`, `PosixSemaphore`, `MemoryPool` constructors, `test/pool.cpp`, `Makefile` prep) | which launch created the object a name stands for | O_EXCL creation, opening, removal | a launch has its own objects or fails; what it can fail of |
| Start-up (`main` and `getMessages` in `test/*.cpp`, `TimerTask::initialize`) | statics, receiver thread, TimerTask and its queues | load, create the thread, fork, open, die | a program receives what its own TimerTask fired of what it scheduled |
| Serialization (`common/Util.cpp`, `PosixMessageQueueObject.h`) | none | values to and from buffers and streams | read back as written |
| Threads, mutexes, message buffers | | | not modelled, see 8 |

Three processes act: **main** and **recv** are threads of the application,
**task** is the forked TimerTask.  They share the timer objects and their pool,
the heap and `pTimerSemaphore`; task and recv are joined by the queue.

The hard part is that locking is partial.  Every method of Timer holds the
semaphore around its body, but TimerTask reads the top, its firing time, state
and timeout, and calls `removeFromHeap`, WITHOUT it; and the receiver loads the
callback and the counts of the timer in hand without it.  What a process read
may be stale when it acts; a pool index may outlive the timer it named.
The names are the other hard part: nothing the programs create is ever removed
by them, a TimerTask outlives its application, and the receiver's creation of
the queue races TimerTask's only attempt to open it.
`PROJECT.json` lists each hazard at its line.

## 2. Plan

Written in this order (most important first).

1. `TimerMinHeap` - the steps of one heap call, with any number of callers.
2. `SerialHeap`, `HeapUse`, `TimerSet` - what one call at a time keeps, the
   callers, and the set they take the heap for; `SerialHeap_proofs`,
   `HeapUse_proofs`.
3. `MemoryPool`, `TimerSystem` - the running system, composing 1 and the pool;
   `SharedHeap_proofs`, `TimerSystem_proofs` - what holds of it in every
   interleaving, for every value of the constants.
4. `PoolUse`, `PoolSet`, `PoolUse_proofs` - the pool, and the set it implements.
5. `ScheduleTime`, `ScheduleTime_proofs` - the six schedules: absolute and fuzzy
   times, the unsigned conversions of TimerUtils at a small width.
6. `Wire` - the bytes of a message, and the other streams of Util.cpp.
7. `Startup`, `MCStartup`, `Startup_proofs` - the names, from launch to launch,
   composed with the message of Wire.
8. `CalmUse_proofs` - what holds of 3 in careful use, on top of the invariants of
   2, 3 and 4.

`MCHeapUse`, `MCTimerSystem` and `MCStartup` hold the instances for TLC.

Abstract specifications: `TimerSet` and `PoolSet`.  Every safety property of a
passing run is stated by a theorem; what is left is to widen those of
CalmUse_proofs from one-shots to periodic timers, whose invariant must add what
the receiver loaded of a timer it will re-arm.

## 3. Modules and their correspondence to the code

**TimerMinHeap** has the state `heap`, `n` (`numberOfTimersBeingManaged`),
`whenToFire`, and `op`, the locals of ONE call in flight: its next step `pc`,
its timer, index, loaded counter and Result.  One step is one iteration of the
up-heapify loop, one level of the recursive search, one iteration of the
down-heapify loop, or half (load, store) of an update of the counter, which
another process may come between.  Slots behind the counter keep their old
pointers, as in the code; the counter and indices are unsigned (`% Modulus`).
An access outside the array or through a NULL pointer is the step `Fault`,
after which the process does nothing more.  Reads and swaps of pointers within
one iteration are one step.

**SerialHeap** models no code of its own: it defines, over TimerMinHeap, the
timers the array holds in the middle of a call (`Contents`) and the invariant of
one call at a time (`SerialInv`).  HeapUse and CalmUse_proofs share it.

**HeapUse** adds the discipline of a single caller: `Add` (a timer that is not
pending, at any time), `RemoveTop` (TimerTask), `RemoveAny` (stop, restart,
~Timer).  `asked` is a history variable for the properties.  **TimerSet** is
what the callers take the heap for: a set, an addition that takes effect, a
removal that takes effect or answers ERROR and changes nothing.

**MemoryPool** is the free list and the counter; each operation is one step
since its callers hold a semaphore.  The pool's arithmetic between indices and
addresses is a bijection on its objects and is left out: a pointer IS an index.
`Free` is the set of objects on the free list.
**PoolUse** adds the holders (operator new and delete of Timer and
TestCallback), with exhaustion; **PoolSet** is a set of free objects.

**TimerSystem** instantiates TimerMinHeap twice over the same heap, with `opA`
for the application's call (its threads exclude each other by the semaphore)
and `opT` for TimerTask's, and MemoryPool.  `timer[t]` holds the fields of the
object in slot t, which survive `delete` and are found by the slot's next user:
the two-argument constructor does not set them.  A method takes the semaphore in
its first step and gives it up in its last (`Post`), with the heap's steps in
between.  `delete` is `Destroy` (~Timer up to the heap), `Unlink` (the callback,
the post) and `Free` (operator delete).  The receiver goes `Receive`, `Load`
(type, callback and counts, no lock), `Trigger`, then `RecvRearm` or
`RecvDelete`.  TimerTask goes `Peek` (top, firing time), `Read` (state,
timeout), `Look` (clock, and the start of the removal), `MarkDone`, `Send`; or
for an Idle top `TaskRearm`, `TaskPost`.  `phase` is what main remembers of a
slot and `Protocol` which method it calls in which phase; `CarefulProtocol` are the
calls that make sense in each.  When the receiver deletes a one-shot
(Timer.cpp:368) main forgets it too: the code leaves main with a stale pointer, and
that the application makes no call through it is an assumption of the model
(`Unlink`).  `New` merges operator new with the constructor, and `Load` the
receiver's unlocked reads, into one step each.  `callback` holds the
callback objects with ghosts: how often called, what was asked, when due,
whether still wanted (from schedule until stop, cancel or deletion).

The `timeout` of a one-shot is never initialised (`dummy` in
`scheduleOneShotAtTimeout`): it is any member of the constant `Leftover`.

**ScheduleTime** is one timer object and its calls of `schedule`, with the times
that TimerSystem abstracts from.  A call is split at its readings of the clock
(`ReadFirst`, `ReadSecond`, `Draw` or `FireFirst`, `SetTimeout`) and keeps them in
`call.read`; `Tick` may come in between.  The subtraction of unsigned times
wraps (`% Width`), so `>= 0` in TimerUtils.cpp:37 is always true and its ERROR
branch does not exist.  `Refuse` prints and goes on with the old whenToFire;
`DivideByZero` ends the process.  An absolute time that is not a window's bound
is ignored, as in the code: whenToFire becomes the member `first`.  `Renew` is
whatever ends a timer and lets its object or slot be scheduled anew.

**Wire** has an operator for each function that writes a value into a char buffer
(`ToBuf32`, `ToBuf64`) or a stream (`Out...`) and for each that reads one back.
A byte has `Base` values, so that a 32-bit word is small enough for TLC; the
proofs are for every Base.  htonl followed by memcpy is the byte order, not an
identity.  `OutString` answers a set: the bytes behind a NUL within the string are
those of a fresh buffer.

**Startup** is the system of names.  It also states StreamsReadBack, over words and
strings (`Unsigneds`, `Strings`) that are written to one stream in turn.  A launch
is a number; an object is known by the launch that created it, so "the same name, another launch's object" can be
told apart.  `exists` is the file system; `app`, `recv` and `task` are the three
actors of each launch with what each has mapped or opened.  `Load` is one static
initializer, in any order across files: a pool whose memory could not be created
is set up all the same and faults (MemoryPool.cpp:40), the heap and the semaphores
are noticed at their first use (`Schedule`, `PollFaults`).  `StartThread` and
`Fork` are main's next steps, after which the receiver's `RecvOpen` races
TimerTask's three `TaskOpen`.  A queue that was not opened or created asserts at
its first use (`SendFails`, `ReceiveFails`).  `AppEnds` is what a return from
main, a signal, an assertion or a fault does: both threads go, TimerTask stays.
`Clear` and `KillAll` are `make prep` in its two parts.  The heap is the set of
indexes in it, and `Fire` is TimerTask with the timer that is due: HeapUse and
TimerSystem have what is left out.  `fresh`, `prepared`, `asked`, `sent` and
`recv.when` are history for the properties.

`Slip...` operators are plausible bugs in the operator they precede.  Nothing
uses them; `PROJECT.json` names, for every property of a passing run, the slip
that violates it.

## 4. Runs

| Run | Instance | Shows |
|---|---|---|
| HeapUse | 6 timers, 2 times, capacity 6 | types, no fault, NoTimerTwice, InnerRemovalRemoves, the two order properties, refinement of TimerSet |
| PoolUse | 5 objects | types, FreeListSound, refinement of PoolSet |
| ScheduleTime | clock 4..7, windows before, in and after it, times modulo 16 | types, FuzzyWithin, DrawnUnlessLate |
| Absolute (violated) | the same | an absolute time is not used, nor is an overtaken window kept |
| HeapOrder (violated) | 4 timers, 3 times | the heap is not a min-heap between calls |
| LastRemoval (violated) | 4 timers, 2 times | a removal leaves the timer in the last slot of four in the heap |
| Careful | 2 one-shot slots, queue of 1, 3 callbacks, times 0..2, 1 further call | WantedIsPending, CalledWhenDue, TriggersLiveCallback, NoExtraCall, FreesOnce; under fairness WantedIsCalled and CalledIsFreed |
| Periodic | 1 slot, howMany 1 and 2, 2 callbacks, times 0..3, 2 calls | WantedIsPending, NoExtraCall, FiresAfterTimeout, CalledIsFreed |
| Startup | 2 launches of either program, timers 0 and 258, queue of 1, bytes of 4 values | types and own objects, DeliversOwn, FiresOwn, FailsForACause, StreamsReadBack, Served |
| Racing | 2 slots, main calls at any moment, also schedule on a pending timer | NoExtraCall, AdditionsExclude, TopIsReadable, SemaphoreReturns |
| TwoPeriodics (violated) | 2 periodic timers, no call by main | TimerTask's unlocked removal leaves a Done timer in the heap |
| Unscheduled (violated) | 2 slots | deleting an unscheduled timer drops a pending one |

**Calm and Racing.**  With `Calm = TRUE` main starts a call only while no timer
is due, fired or being handled (`Lull`), and the clock does not advance within a
call of main or between TimerTask's reads and its look at the clock.  This is
the use the code's partial locking is good for, that of its tests, which set
timers seconds apart: TimerTask polls and reads during the calls, but removes
nothing meanwhile.  Firing, sending, receiving, calling, re-arming and freeing
then interleave freely.  The passing safety runs other than Racing say what
holds in such use.  They must not be read as saying that it holds always: with
`Calm = FALSE` WantedIsPending, TriggersLiveCallback, FreesOnce and the absence
of faults all fail, by the same races that TwoPeriodics shows without any call
of main.  Racing keeps what survives every interleaving.

**Bounds.**  HeapUse: six timers give every shape up to a third level, the last
slot at 4, 5 and 6 and a lone left child; two times give earlier, later and
equal.  Careful: two slots and one message in the queue let one timer be handled
or wait in the queue while the other is fired; three callbacks for two slots let a
slot that the receiver freed be allocated and scheduled anew by main.  That two
slots are enough for the safety properties is not left to TLC: section 6 proves
each of them for any number.  The heap of the composed runs has at most two
timers, below the four at which a removal can fail (LastRemoval), so that this is
not mixed into them.  `howManyTimesToFire` is 1 or 2: a timer with 0 fires for
ever and is in no instance.  `MaxTime`, `MaxCallbacks`, `MaxCalls` bound the
clock, the schedules and the other calls; a firing time beyond the clock is due
at its end, and main schedules and restarts nothing beyond it.  In Periodic one
slot suffices for a timer's own cycle; with two, TwoPeriodics' race appears.
`Leftover = {1}`: what a restarted one-shot does with other values is told in 5.
ScheduleTime: four clock values let the clock advance by up to three within a
call, and the bounds around them make windows that are ahead, begun, over and
narrower than that advance.  The clock never goes back.
Startup: two launches are an earlier and a later one, which is what the names can
confuse; an instance with three launches and one index passed as well.  The
index 258 is more than a word of 4^4 values, so that both halves and the bytes of
the message matter.  StreamsReadBack is evaluated over values about both ends and
the middle of each type.  The operator does not call `make prep` while a program
loads, nor launches one between its two parts.

**Deadlock** is not checked in the composed runs because the system really
stops: main ends, the clock reaches its bound, everything has fired.  In Startup
it is checked, and says little: the operator can always call for `make prep`.

**Fairness** (`Fairness` in TimerSystem).  The kernel schedules the threads and
the process: weak fairness for main's and the heap's steps.  Strong fairness for
the receiver and TimerTask, whose steps wait for the semaphore: a waiter of
`sem_wait` is woken and not overtaken for ever; for TimerTask also because its
polling alternates.  Strong fairness of `Tick`, which Calm disables now and
then: time passes.  Main is required to end, not to call anything.  In Startup:
weak fairness of each receiver and each TimerTask, which run whenever they can,
and of `KillAll`, since make runs its next command; nothing is required of the
operator, the loading or main.

## 5. Findings

The five violated runs, each against a comment or declaration quoted in
`PROJECT.json`:

- HeapOrder: the heap is not always a heap (lone left child; removal from the
  middle).
- LastRemoval: with four timers or more the search never compares the last slot
  (TimerMinHeap.cpp:123).  stop() and restart() ignore the ERROR and leave the timer
  in the heap, where restart() then enters it again.  InnerRemovalRemoves is what
  holds: every other slot's timer is removed.
- TwoPeriodics: TimerTask removes without the lock.
- Unscheduled: deleting an unscheduled timer may drop another from the heap.
- Absolute: AbsoluteIsKept states what the names and comments of Timer.h:34, 36 and
  102 promise.  It fails in two ways.  The plain absolute schedules never use their
  time (Timer.cpp:159): that is the shortest trace, and the one TLC prints.  And a
  window whose two bounds the clock passes between their readings is drawn up to
  RAND_MAX milliseconds late, for the upper bound wraps (TimerUtils.cpp:37); TLC
  prints that trace when the conjunct about the plain schedules is left out.
  FuzzyWithin is what holds of a drawn time: it is never before the window, and not
  late but for such a window (`Overtaken`).

One more defect has no run of its own.  scheduleOneShotAtTimeout leaves the
`timeout` of a one-shot uninitialised (Timer.cpp:53, 173), and restart() computes
the new firing time from it (Timer.cpp:243), where Timer.h:41 says "current time +
timeout".  Periodic.cfg with `Kinds <- OneShots` and `Leftover = {0, 1, 2}` violates
FiresAfterTimeout: schedule, then restart.

NoExtraCall allows a periodic timer howManyTimesToFire + 1 calls, which is one
more than its name says: the receiver compares with <= after counting
(Timer.cpp:391).

FailsForACause lists what a launch after `make prep` still fails of, and each
cause is a behaviour of the model.  TimerTask opens the queues once and may be
ahead of the receiver thread that creates one (TimerTask.cpp:52): every
timer that fires then ends TimerTask in an assertion.  pool.cpp:32 unlinks
/timerpool, but its memory is /pooledObject, which `make prep` does not remove
either: pool runs once.  `make prep` removes the names before it kills
(Makefile:12-18): a receiver that creates its queue in between leaves it to the next
launch.  A pool is set up although its creation failed (MemoryPool.cpp:40).
`killall` finds a TimerTask by its parent's name only because the prctl at
TimerTask.cpp:35 is commented out.

Read and not modelled: deserializeFLT32 (Util.cpp:194-205) converts the word to a
float by value where serializeFLT32 wrote its bits.

A window that the clock overtakes may also divide by zero, or be refused and added
to the heap all the same with an old firing time (Timer.cpp:149-153);
DrawnUnlessLate says that no other window does.

## 6. Proofs

`HeapUse_proofs` proves for every finite set of timers, every capacity at least
as large, every counter width above it and every set of firing times:
TypeCorrect (no fault), Content (NoTimerTwice), InnerRemovals
(InnerRemovalRemoves) and Refinement (ImplementsSet).  They rest on the inductive invariant `HeapInv`, whose
part about the array, `SerialInv`, is carried by `SerialHeap_proofs`: its theorem
SerialStep says that a step of the only call in the heap neither loses nor adds a
timer, but that a removal takes out its own when it finds it.  NoTimerTwice alone
is not inductive, since between the two halves of a call the
counter lags; `AddingInv` and `RemovingInv` say where the call stands, that its
loaded counter is still current (one caller), and that the search has looked at
every slot before its index.  The argument for Content is that every write is a
swap of two used slots or fills the removed slot with the last timer, which
leaves the used slots at the same time.  For InnerRemovals, a search that passes
the last slot's index bound can only miss the last slot.

AdditionOrder and TopRemovalOrder are proved in the same module with `RisingInv` and
`SinkingInv`: at any time only the slot in hand can be out of order, and its
parent is in order with its children.

`PoolUse_proofs` proves PoolTypeCorrect, FreeListIsSound and PoolRefinement for
every number of objects.  The objects on the free list are defined as the least
set closed under the links, so no proof walks the list: an allocation is shown
to remove exactly the first object from every closed set, a release to add one.
The invariant needs that no free object links to the first and that no two link
to the same, or an allocation could make the list reach an object twice.

`SharedHeap_proofs` is about TimerMinHeap with two calls in flight, which the
running system has since TimerTask removes without the lock.  Of the two only
one may be an addition (that is what the semaphore gives).  Its invariant
`SharedInv` says that every slot once written stays written, that every slot
below the counter and below each counter a call has loaded is written, and how
far the counter can go wrong: two overlapping removals of one timer take it
below zero, to Modulus - 1 or Modulus - 2, and the next additions bring it back.
Timers may be lost or doubled in such a heap; the theorem HeapStepKeeps says
that it never leads an unlocked reader through a NULL pointer.

`TimerSystem_proofs` proves TypeCorrect (TypeOK), AdditionsExcludeOthers
(AdditionsExclude) and TopAlwaysReadable (TopIsReadable) of `Spec`, for `Calm`
TRUE or FALSE and any `Protocol`.  The invariant `SystemInv` adds to TypeOK:
`LockInv`, that the holder of the semaphore is exactly the process whose
position says so, that a call of the application in the heap implies that a
thread of it holds the semaphore, and an addition of TimerTask that TimerTask
does; `HandInv`, that a process between two steps has a timer in hand; and
`SharedInv` for the two calls.  AdditionsExclude is not inductive without
LockInv, nor TopIsReadable without SharedInv.  There is one lemma per action;
those on the heap are instances of SharedHeap_proofs' for either caller.

OneShotsFireOnce, in the same module: if main schedules one-shots only, no
callback is called twice (NoExtraCall), in every interleaving, although timers
may then be lost, doubled in the heap, and freed twice.  The argument (`OnceInv`):
a callback is linked to at most one slot, since schedules link fresh ones only;
only the receiver calls; what it has called is unlinked before it takes the next
message, and it loads a callback from a link.  The restriction to one-shots is
an assumption (`OnlyOneShots`) and not a convenience: in the races a slot can be
freed twice and be rescheduled as another kind while the receiver is at it.

`CalmUse_proofs` proves what the races take away elsewhere: CalmKeepsWanted
(WantedIsPending), CalmCallsWhenDue (CalledWhenDue), CalmTriggersLive
(TriggersLiveCallback), CalmFreesOnce (FreesOnce) and CalmFiresAfterTimeout
(FiresAfterTimeout).  Their hypothesis `Sheltered` names the use, and each part of
it excludes a behaviour that the model has:

- `Calm`: otherwise TimerTask removes without the lock while a call is in the heap;
- one-shots only: two periodic timers race already (TwoPeriodics);
- a `Protocol` within CarefulProtocol: deleting an unscheduled timer drops another
  (Unscheduled), and an object may be rescheduled while it is pending;
- no timeout of 0, and if main may restart none in the uninitialised field either:
  such a timer is due in the middle of the call that sets it;
- no more timers than the heap has slots: addToHeap would write behind
  the array;
- at most three timers if main takes one back before it fires: removeFromHeap
  overlooks the last of four or more (LastRemoval).  If main only schedules and
  cancels, the number of timers is free.

The instance of the run Careful satisfies all of it.  CalmFiresAfterTimeout assumes
besides that main never restarts, because of the uninitialised timeout (5).  Within this
use polling, firing, sending, receiving, calling and freeing interleave as they
like, with each other and, where Lull lets it, with main.

None of the five is inductive.  The invariant `CalmInv` was first checked by TLC on
the instance Careful.  `PlacesInv` is its core: a timer is in one place at most,
of the heap, TimerTask's hand, the queue and the receiver's hand, in the phase and
the state that fit the place, and an armed one is in one.  `HeapCalm` gives the heap
to one call at a time, so that SerialHeap_proofs applies to either caller.
`ReadInv` is about what TimerTask read without the lock: it is not due, or the timer
is still the top, with the state that was read.  `QueueCalm` says what a call of
main excludes: while it lasts nothing is due or under way, which is what `Lull`
established at its start and the clock, held back, keeps.  `TaskHand`, `RecvHand` and
`MainHand` are the facts about the timer each has in hand; `LinksCalm` ties each
callback to its one timer, its due time and its being wanted; the slots with a phase
or on their way back are the pool's used ones, so that the invariant of
PoolUse_proofs, by INSTANCE, gives that the slot of FreesOnce is not free.  That
nobody else knows it follows from PlacesInv: it has no phase by then, and a timer
in the heap, in a message or in TimerTask's hand has one; `PendingIs` adds the slot
that TimerTask's removal has found and not yet uncounted.  That main does not call
through the pointer of a timer that has deleted itself is assumed, see 3.  There is one lemma per action.

`ScheduleTime_proofs` proves TypeOK, FuzzyWithin and DrawnUnlessLate of ScheduleTime for every width,
clock and set of times asked.  `WindowInv` records that each bound a call holds
is the one asked, measured against its own reading; `MeasuredBounds` removes the
modulus, and the rest is a case distinction on which bounds had passed.
The lower half of FuzzyWithin holds in every case; the upper one leaves out
`Overtaken`, which Absolute's claim includes and which fails.

`Startup_proofs` proves OwnObjects (TypeOK), DeliversItsOwn (DeliversOwn),
FiresItsOwn (FiresOwn) and FailsOnlyForACause (FailsForACause) for every number of launches, set of indexes, queue size
and Base.  DeliversOwn is far from inductive.  `Stages` says what each actor has
at its position.  `Owners` says that no two launches are past their loading, or
have a TimerTask, at a time: whoever is has both pools, which bear its name until
`make prep` removes them, and what is up then is killed before anything is
launched.  `Links` says that a launch's queue holds, in order, what its TimerTask
sent and its receiver has not yet had, as long as that receiver waits on it; by
Owners nobody else's TimerTask can send there.  `Fires` says that an index is in
the heap, in TimerTask's hand or sent, in one of these.  `Causes` says what a prepared
launch finds: while it loads it is alone and every name it has not yet created is
free (`Loads`), after that it has every object (`Has`), and a queue that is there
before its receiver's is of an earlier launch and was created while the names were
being cleared (`Finds`).  The bytes come in by
`MessageBack`: for every Base a message is read back from its buffer as it was
written, by `Word`, which is the arithmetic of div and mod.
StreamsAreReadBack (StreamsReadBack) says the same of the streams, for every word,
signed word, pair of words, three-byte number and string: each value is read off
the front and leaves what was written after it (`ReadWord`, `ReadPair`, `ReadSigned`,
`ReadBytes`), and of a string's bytes those before its first NUL come back
(`StringBack`), whatever the buffer held behind it.

Assumptions: the named ASSUMEs of TimerMinHeap, HeapUse, PoolUse, TimerSystem, Wire,
Startup (every scheduled index has 64 bits) and ScheduleTime (in the last: no
time asked for is near the end of the unsigned numbers, nor is a draw beyond the
clock), which the runs also evaluate.  In TimerSystem: a pool, a capacity of at least
one, a counter width above Cap + 2 (2^32 against 1024 in the code), NULL no
timer, kinds and times in their ranges.

## 7. Only model-checked

The liveness properties (SemaphoreReturns, WantedIsCalled, CalledIsFreed, Served):
fairness and ENABLED are out of the prover's reach.  The violated claims.  Of
TimerSystem the periodic timers' WantedIsPending, NoExtraCall and FiresAfterTimeout:
the theorems about these are for one-shots, since what the receiver loaded of a timer
it re-arms is not yet in the invariant.  What holds in calm use beyond `Sheltered` is
neither proved nor claimed.

## 8. Not modelled, and why

In Startup: signals that a program handles, errors of the system other than a
name that exists or does not and a failing fork, and `make prep` while a program
loads.  Of Util.cpp the floating-point values, the comparisons of 64-bit values
(the integers' own), UUIDs, random numbers, host names and addresses, which no
program uses.  Elsewhere: printing; the callbacks' own pool and semaphore (the
same MemoryPool under a lock of its own); PosixThread, Mutex,
SystemVSharedMemory, TimedExpiryBuffer (used by no program).
One receiver is modelled: every timer of the tests has the same context task.
A NULL from an exhausted pool is not followed: main allocates only when the pool
has room.
