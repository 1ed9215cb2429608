------------------------------- MODULE Startup -------------------------------
(***************************************************************************)
(* The names the programs create in the system, from launch to launch: how *)
(* a program is loaded, starts its receiver and its TimerTask, which open  *)
(* the message queue between them, what is left behind when one of them    *)
(* dies, and what `make prep' clears away.  A shared object is known by    *)
(* the launch that created it.  The heap is a set of pool indexes and main *)
(* schedules an index once: HeapUse and TimerSystem have the rest.         *)
(***************************************************************************)
EXTENDS Wire

CONSTANTS MaxLaunches,  \* bound: how often a program is launched
          Slots,        \* the pool indexes main schedules
          QueueSize,    \* messages a queue holds
          Unsigneds,    \* the words and the strings that are written to a
          Strings       \*   stream (StreamsReadBack)

ASSUME StartupAssumption ==
  /\ MaxLaunches \in Nat \ {0}
  /\ QueueSize \in Nat \ {0}
  /\ Slots \subseteq 0 .. Words * Words - 1
  /\ Unsigneds \subseteq UINT32
  /\ \A s \in Strings : s \in Seq(Bytes)

Launches == 1 .. MaxLaunches
None     == 0
Failed   == -1
Objects  == Launches \cup {None, Failed}

Pools  == {"TimerObjectPool", "testCallbackPool"}
Sems   == {"TimerSemaphore", "testCallbackSemaphore"}
Heap   == "TimerMinheapPool"
Statics == [timers |-> Pools \cup Sems \cup {Heap}, pool |-> {"pooledObject"}]
AllStatics == Statics.timers \cup Statics.pool
Names  == AllStatics \cup {"timerpool", "Test", "ApplicationBaseTask", "TimerTask"}
\* The queue of each task, in the order of the ids.
PathNameFromId == <<"Test", "ApplicationBaseTask", "TimerTask">>
Test == 1

VARIABLES exists,    \* the object a name stands for
          launch,    \* launches so far
          fresh,     \* whether nothing was launched since `make prep'
          clearing,  \* whether `make prep' has removed the names and not yet killed
          program,   \* by launch: what runs
          prepared,  \* by launch: whether it had that, and no other launch or
                     \* `make prep' interfered while it came up
          app,       \* by launch: its main thread, and the objects it has
          recv,      \* by launch: the receiver thread
          task,      \* by launch: the TimerTask process
          heap,      \* by creator: the indexes in the heap
          mq,        \* by creator: the buffers in the queue
          asked,     \* by launch: the indexes scheduled
          sent,      \* by launch: the indexes TimerTask put into a queue
          got        \* by launch: the messages received

names == <<exists, launch, fresh, clearing, program, prepared>>
data  == <<heap, mq, asked, sent, got>>
vars  == <<names, app, recv, task, data>>

AppStates  == {"none", "load", "start", "fork", "main", "exit", "abort", "fault", "killed"}
RecvStates == {"none", "open", "wait", "end"}
TaskStates == {"none", "open", "poll", "send", "abort", "fault", "killed"}

AppUp(k)  == app[k].pc \in {"load", "start", "fork", "main"}
TaskUp(k) == task[k].pc \in {"open", "poll", "send"}

NoStatics == [s \in AllStatics |-> None]
\* What a process has goes with it.
NoApp(pc)  == [pc |-> pc, has |-> NoStatics]
NoTask(pc) == [pc |-> pc, has |-> NoStatics, queues |-> <<>>, timer |-> None]

Init ==
  /\ exists = [n \in Names |-> None]
  /\ launch = 0
  /\ fresh = TRUE
  /\ clearing = FALSE
  /\ program = [k \in Launches |-> "timers"]
  /\ prepared = [k \in Launches |-> FALSE]
  /\ app = [k \in Launches |-> NoApp("none")]
  /\ recv = [k \in Launches |-> [pc |-> "none", queue |-> None, when |-> "none"]]
  /\ task = [k \in Launches |-> NoTask("none")]
  /\ heap = [k \in Launches |-> {}]
  /\ mq = [k \in Launches |-> <<>>]
  /\ asked = [k \in Launches |-> {}]
  /\ sent = [k \in Launches |-> <<>>]
  /\ got = [k \in Launches |-> <<>>]

\* The application dies: both its threads; its TimerTask goes on.
AppEnds(k, how) ==
  /\ app' = [app EXCEPT ![k] = NoApp(how)]
  /\ recv' = [recv EXCEPT ![k].pc = "end"]

-----------------------------------------------------------------------------
(* Names: O_CREAT | O_EXCL creates or fails, O_RDWR alone opens or fails.  *)

Creatable(n) == exists[n] = None
SlipCreate(n, k) == IF Creatable(n) THEN k ELSE exists[n]
Create(n, k) == IF Creatable(n) THEN k ELSE Failed
Open(n) == IF exists[n] = None THEN Failed ELSE exists[n]

\* The operator launches a program, perhaps while another is up or loading.
Launch(p) ==
  /\ launch < MaxLaunches /\ ~clearing
  /\ launch' = launch + 1
  /\ fresh' = FALSE
  /\ program' = [program EXCEPT ![launch'] = p]
  /\ prepared' = [k \in Launches |-> IF k = launch' THEN fresh
                                     ELSE prepared[k] /\ app[k].pc # "load"]
  /\ app' = [app EXCEPT ![launch'].pc = "load"]
  /\ UNCHANGED <<exists, clearing, recv, task, data>>

\* `make prep' removes the names its patterns match; pooledObject is not one.
\* The operator does not call for it while a program loads.
SlipCleared == Statics.timers
Cleared == Statics.timers \cup {"Test", "ApplicationBaseTask", "TimerTask"}
Clear ==
  /\ ~clearing /\ \A k \in Launches : app[k].pc # "load"
  /\ exists' = [n \in Names |-> IF n \in Cleared THEN None ELSE exists[n]]
  /\ clearing' = TRUE
  /\ prepared' = [k \in Launches |-> prepared[k] /\ ~AppUp(k) /\ ~TaskUp(k)]
  /\ UNCHANGED <<launch, fresh, program, app, recv, task, data>>

\* Were TimerTask named as the prctl of its start has it.
SlipKillAll ==
  /\ clearing
  /\ clearing' = FALSE
  /\ fresh' = TRUE
  /\ app' = [k \in Launches |-> IF AppUp(k) THEN NoApp("killed") ELSE app[k]]
  /\ recv' = [k \in Launches |-> IF AppUp(k) THEN [recv[k] EXCEPT !.pc = "end"] ELSE recv[k]]
  /\ UNCHANGED <<exists, launch, program, prepared, task, data>>

\* Then it kills by name: a TimerTask has its parent's.
KillAll ==
  /\ clearing
  /\ clearing' = FALSE
  /\ fresh' = TRUE
  /\ app' = [k \in Launches |-> IF AppUp(k) THEN NoApp("killed") ELSE app[k]]
  /\ recv' = [k \in Launches |-> IF AppUp(k) THEN [recv[k] EXCEPT !.pc = "end"] ELSE recv[k]]
  /\ task' = [k \in Launches |-> IF TaskUp(k) THEN NoTask("killed") ELSE task[k]]
  /\ UNCHANGED <<exists, launch, program, prepared, data>>

Kill(k) ==
  /\ AppUp(k)
  /\ AppEnds(k, "killed")
  /\ UNCHANGED <<names, task, data>>

KillTask(k) ==
  /\ TaskUp(k)
  /\ task' = [task EXCEPT ![k] = NoTask("killed")]
  /\ UNCHANGED <<names, app, recv, data>>

-----------------------------------------------------------------------------
(* The application: statics before main, which starts the receiver thread, *)
(* forks TimerTask and schedules.                                          *)

\* Within a file in order, across files in any.
MayLoad(k, s) ==
  /\ s \in Statics[program[k]]
  /\ app[k].has[s] = None
  /\ s = "TimerSemaphore" => app[k].has["TimerObjectPool"] # None
  /\ s = "testCallbackSemaphore" => app[k].has["testCallbackPool"] # None

\* A pool's constructor looks at its flag, not at the outcome, and writes its
\* free list through a pointer that a failed creation leaves unset.
Load(k, s) ==
  LET has == [app[k].has EXCEPT ![s] = Create(s, k)]
  IN /\ app[k].pc = "load"
     /\ MayLoad(k, s)
     /\ exists' = [exists EXCEPT ![s] = IF Creatable(s) THEN k ELSE @]
     /\ app' = [app EXCEPT ![k] =
                  IF s \in Pools \cup Statics.pool /\ has[s] = Failed THEN NoApp("fault")
                  ELSE [pc |-> IF \A t \in Statics[program[k]] : has[t] # None THEN "start" ELSE "load",
                        has |-> has]]
     /\ UNCHANGED <<launch, fresh, clearing, program, prepared, recv, task, data>>

\* pool.cpp frees a name that no program creates.
PoolMain(k) ==
  /\ app[k].pc = "start" /\ program[k] = "pool"
  /\ exists' = [exists EXCEPT !["timerpool"] = None]
  /\ AppEnds(k, "exit")
  /\ UNCHANGED <<launch, fresh, clearing, program, prepared, task, data>>

StartThread(k) ==
  /\ app[k].pc = "start" /\ program[k] = "timers"
  /\ app' = [app EXCEPT ![k].pc = "fork"]
  /\ recv' = [recv EXCEPT ![k].pc = "open"]
  /\ UNCHANGED <<names, task, data>>

\* The child has what its parent has.
Fork(k) ==
  /\ app[k].pc = "fork"
  /\ app' = [app EXCEPT ![k].pc = "main"]
  /\ task' = [task EXCEPT ![k].pc = "open", ![k].has = app[k].has]
  /\ UNCHANGED <<names, recv, data>>

ForkFails(k) ==
  /\ app[k].pc = "fork"
  /\ AppEnds(k, "abort")
  /\ UNCHANGED <<names, task, data>>

\* new Timer, then an addition to the heap under the semaphore.
Schedule(k, i) ==
  /\ app[k].pc = "main" /\ i \notin asked[k]
  /\ IF \E s \in Statics.timers : app[k].has[s] = Failed
     THEN AppEnds(k, "fault") /\ UNCHANGED data
     ELSE /\ heap' = [heap EXCEPT ![app[k].has[Heap]] = @ \cup {i}]
          /\ asked' = [asked EXCEPT ![k] = @ \cup {i}]
          /\ UNCHANGED <<app, recv, mq, sent, got>>
  /\ UNCHANGED <<names, task>>

-----------------------------------------------------------------------------
(* The receiver creates the queue and waits on it; on a queue it could not *)
(* create, receive asserts.                                                *)

RecvOpen(k) ==
  /\ recv[k].pc = "open"
  /\ exists' = [exists EXCEPT !["Test"] = IF Creatable("Test") THEN k ELSE @]
  /\ recv' = [recv EXCEPT ![k].pc = "wait", ![k].queue = Create("Test", k),
                          ![k].when = IF clearing THEN "clearing"
                                      ELSE IF task[k].pc \in {"none", "open"} /\ task[k].queues = <<>> THEN "early" ELSE "late"]
  /\ UNCHANGED <<launch, fresh, clearing, program, prepared, app, task, data>>

ReceiveFails(k) ==
  /\ recv[k].pc = "wait" /\ recv[k].queue = Failed
  /\ AppEnds(k, "abort")
  /\ UNCHANGED <<names, task, data>>

Receive(k) ==
  LET q == recv[k].queue
  IN /\ recv[k].pc = "wait" /\ q # Failed /\ mq[q] # <<>>
     /\ got' = [got EXCEPT ![k] = Append(@, Deserialize(Head(mq[q])))]
     /\ mq' = [mq EXCEPT ![q] = Tail(@)]
     /\ UNCHANGED <<names, app, recv, task, heap, asked, sent>>

-----------------------------------------------------------------------------
(* TimerTask opens the queues of all tasks, once, and then fires.          *)

TaskOpen(k) ==
  LET queues == Append(task[k].queues, Open(PathNameFromId[Len(task[k].queues) + 1]))
  IN /\ task[k].pc = "open"
     /\ task' = [task EXCEPT ![k].queues = queues,
                             ![k].pc = IF Len(queues) = Len(PathNameFromId) THEN "poll" ELSE "open"]
     /\ UNCHANGED <<names, app, recv, data>>

\* The heap's counter is read where the memory was to be mapped.
PollFaults(k) ==
  /\ task[k].pc = "poll" /\ task[k].has[Heap] = Failed
  /\ task' = [task EXCEPT ![k] = NoTask("fault")]
  /\ UNCHANGED <<names, app, recv, data>>

\* Some timer is due.
Fire(k, i) ==
  LET h == task[k].has[Heap]
  IN /\ task[k].pc = "poll" /\ h # Failed /\ i \in heap[h]
     /\ heap' = [heap EXCEPT ![h] = @ \ {i}]
     /\ task' = [task EXCEPT ![k].pc = "send", ![k].timer = i]
     /\ UNCHANGED <<names, app, recv, mq, asked, sent, got>>

\* Who sends is TaskId::TimerTask; the event is 0.
FireMessage(i) == [from |-> 2, event |-> 0, shmIndex |-> Index64(i)]

SendFails(k) ==
  /\ task[k].pc = "send" /\ task[k].queues[Test] = Failed
  /\ task' = [task EXCEPT ![k] = NoTask("abort")]
  /\ UNCHANGED <<names, app, recv, data>>

\* As with O_NONBLOCK, were the error then ignored.
SlipSend(k) ==
  LET q == task[k].queues[Test]
  IN /\ task[k].pc = "send" /\ q # Failed
     /\ mq' = IF Len(mq[q]) < QueueSize
              THEN [mq EXCEPT ![q] = Append(@, Serialize(FireMessage(task[k].timer)))] ELSE mq
     /\ sent' = IF Len(mq[q]) < QueueSize
                THEN [sent EXCEPT ![k] = Append(@, task[k].timer)] ELSE sent
     /\ task' = [task EXCEPT ![k].pc = "poll"]
     /\ UNCHANGED <<names, app, recv, heap, asked, got>>

\* mq_send waits while the queue is full.
Send(k) ==
  LET q == task[k].queues[Test]
  IN /\ task[k].pc = "send" /\ q # Failed /\ Len(mq[q]) < QueueSize
     /\ mq' = [mq EXCEPT ![q] = Append(@, Serialize(FireMessage(task[k].timer)))]
     /\ sent' = [sent EXCEPT ![k] = Append(@, task[k].timer)]
     /\ task' = [task EXCEPT ![k].pc = "poll"]
     /\ UNCHANGED <<names, app, recv, heap, asked, got>>

-----------------------------------------------------------------------------
Operator ==
  \/ \E p \in {"timers", "pool"} : Launch(p)
  \/ Clear \/ KillAll
  \/ \E k \in Launches : Kill(k) \/ KillTask(k)

Starts(k) ==
  \/ \E s \in AllStatics : Load(k, s)
  \/ PoolMain(k) \/ StartThread(k) \/ Fork(k) \/ ForkFails(k)

Receiver(k) == RecvOpen(k) \/ ReceiveFails(k) \/ Receive(k)

Timers(k) ==
  \/ TaskOpen(k) \/ PollFaults(k) \/ SendFails(k) \/ Send(k)
  \/ \E i \in Slots : Fire(k, i)

Next ==
  \/ Operator
  \/ \E k \in Launches : Starts(k) \/ Receiver(k) \/ Timers(k)
  \/ \E k \in Launches, i \in Slots : Schedule(k, i)

\* The system runs a thread that can run, make its next command.
Fairness == WF_vars(KillAll) /\ \A k \in Launches : WF_vars(Receiver(k)) /\ WF_vars(Timers(k))

Spec == Init /\ [][Next]_vars /\ Fairness

-----------------------------------------------------------------------------
(* Properties.                                                             *)

\* Everything has its type.  An object a program has is the one this launch
\* created: never one that an earlier launch left behind.
HasOwn(has, k) == \A s \in AllStatics : has[s] \in {None, Failed, k}

TypeOK ==
  /\ exists \in [Names -> Objects \ {Failed}]
  /\ launch \in 0 .. MaxLaunches
  /\ fresh \in BOOLEAN /\ clearing \in BOOLEAN
  /\ program \in [Launches -> {"timers", "pool"}]
  /\ prepared \in [Launches -> BOOLEAN]
  /\ app \in [Launches -> [pc : AppStates, has : [AllStatics -> Objects]]]
  /\ recv \in [Launches -> [pc : RecvStates, queue : Objects,
                            when : {"none", "early", "late", "clearing"}]]
  /\ task \in [Launches -> [pc : TaskStates, has : [AllStatics -> Objects],
                            queues : Seq(Objects), timer : Slots \cup {None}]]
  /\ heap \in [Launches -> SUBSET Slots]
  /\ mq \in [Launches -> Seq(Seq(Bytes))]
  /\ asked \in [Launches -> SUBSET Slots]
  /\ sent \in [Launches -> Seq(Slots)]
  /\ got \in [Launches -> Seq([from : UINT32, shmIndex : UINT64])]
  /\ \A k \in Launches : HasOwn(app[k].has, k) /\ HasOwn(task[k].has, k)

\* What an application receives is what its own TimerTask sent, in that order
\* and with the bytes intact: nothing of a TimerTask that outlived another
\* application, and nothing left in a queue of the same name.
DeliversOwn ==
  \A k \in Launches :
    /\ Len(got[k]) <= Len(sent[k])
    /\ \A j \in 1 .. Len(got[k]) : got[k][j] = [from |-> 2, shmIndex |-> Index64(sent[k][j])]

\* A TimerTask fires what its own application scheduled, each timer once: it
\* never takes a timer of a later application out of the heap.
FiresOwn ==
  \A k \in Launches :
    /\ \A j \in 1 .. Len(sent[k]) : sent[k][j] \in asked[k]
    /\ \A i, j \in 1 .. Len(sent[k]) : sent[k][i] = sent[k][j] => i = j

\* After `make prep', a program that nothing interferes with fails only for one
\* of these causes: pool was run before; the fork failed; a receiver created its
\* queue while the names of its launch were being cleared; TimerTask was ahead of
\* the receiver.
FailsForACause ==
  \A k \in Launches : prepared[k] =>
    /\ app[k].pc = "fault" => program[k] = "pool" /\ \E j \in 1 .. k - 1 : program[j] = "pool"
    /\ app[k].pc = "abort" => IF recv[k].queue = Failed
                              THEN \E j \in 1 .. k - 1 : recv[j].when = "clearing"
                              ELSE task[k].pc = "none"
    /\ task[k].pc # "fault"
    /\ task[k].pc = "abort" => recv[k].when # "early"

\* A timer that is scheduled is received, unless a process of the application
\* ends first.
Served ==
  \A k \in Launches, i \in Slots :
    i \in asked[k] ~> \/ ~AppUp(k) \/ ~TaskUp(k)
                      \/ \E j \in 1 .. Len(got[k]) : got[k][j].shmIndex = Index64(i)

\* What is written to a stream: words, words with a sign, and pairs of words.
Signeds == {Signed(w) : w \in Unsigneds}
Doubles == [msb : Unsigneds, lsb : Unsigneds]

\* What is written to a stream, values of all kinds in turn, is read back as it
\* was written and in the same order, the signs, the halves and the bytes of an
\* odd number included; a string as far as its first NUL.  It is about constants:
\* it is evaluated in the initial state.
StreamsReadBack == launch = 0 =>
  \A v \in Unsigneds, s \in Signeds, x \in Doubles, str \in Strings :
    LET three == Split3(v)
        y     == [msb |-> s, lsb |-> x.lsb]
        os    == Out3(OutS64(Out8(OutS32(Out64(Out32(<<>>, v), x), s), three[3]), y), three)
    IN \A written \in OutString(OutPadding(os, 3), str) :
         LET a == In32(written)
             b == In64(a.rest)
             c == InS32(b.rest)
             d == In8(c.rest)
             e == InS64(d.rest)
             f == In3(e.rest)
             g == InString(InPadding(f.rest, 3), Len(str))
         IN /\ a.value = v /\ b.value = x /\ c.value = s /\ d.value = three[3]
            /\ e.value = y /\ f.value = three
            /\ Unsplit3(f.value) = v % (Base * Base * Base)
            /\ g.value = UpToNul(str) /\ g.rest = <<>>

=============================================================================
