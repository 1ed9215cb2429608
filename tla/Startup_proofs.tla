---------------------------- MODULE Startup_proofs ----------------------------
(***************************************************************************)
(* Theorems about Wire and Startup, for every number of launches, every    *)
(* set of pool indexes, every queue and every size of a byte.              *)
(***************************************************************************)
EXTENDS Startup, SequenceTheorems, WellFoundedInduction, TLAPS

(***************************************************************************)
(* The message is read as it was written.                                  *)
(***************************************************************************)

\* Division by a positive number.
LEMMA DivMod ==
  ASSUME NEW v \in Nat, NEW b \in Nat \ {0}
  PROVE  /\ v \div b \in Nat /\ v % b \in 0 .. b - 1
         /\ v = (v \div b) * b + (v % b)
  OBVIOUS

\* A quotient is small if the number is.
LEMMA Quotient ==
  ASSUME NEW v \in Nat, NEW b \in Nat \ {0}, NEW n \in Nat, v < n * b
  PROVE  v \div b \in Nat /\ v \div b < n
  <1> DEFINE u == v \div b
  <1>1. u \in Nat /\ u * b <= v
    BY DivMod
  <1> HIDE DEF u
  <1>2. u * b < n * b
    BY <1>1
  <1>3. u < n
    BY <1>1, <1>2, SMTT(30)
  <1> QED BY <1>1, <1>3 DEF u

LEMMA WordsType == Base \in Nat \ {0} /\ Base >= 2 /\ Words \in Nat \ {0} /\ Words >= 16
  <1>1. Base \in Nat /\ Base >= 2
    BY BaseAssumption
  <1> DEFINE b2 == Base * Base
             b3 == b2 * Base
  <1>2. b2 \in Nat /\ b2 >= 4
    BY <1>1
  <1>3. Words = b3 * Base
    BY DEF Words
  <1> HIDE DEF b2
  <1>4. b3 \in Nat /\ b3 >= 8
    BY <1>1, <1>2
  <1> HIDE DEF b3
  <1>5. b3 * Base \in Nat /\ b3 * Base >= 16
    BY <1>1, <1>4
  <1> QED BY <1>1, <1>3, <1>5

\* The four bytes of a word are bytes, and make it up again.
LEMMA Word ==
  ASSUME NEW v \in UINT32
  PROVE  /\ ToBuf32(v) \in [1 .. 4 -> Bytes]
         /\ v = ((ToBuf32(v)[1] * Base + ToBuf32(v)[2]) * Base + ToBuf32(v)[3]) * Base
                + ToBuf32(v)[4]
  <1> DEFINE a == Up(v)
             b == Up(a)
             c == Up(b)
             b2 == Base * Base
             b3 == b2 * Base
  <1>0. Base \in Nat \ {0}
    BY WordsType
  <1>1. b2 \in Nat
    BY <1>0
  <1>2. Words = b3 * Base
    BY DEF Words
  <1> HIDE DEF b2
  <1>3. b3 \in Nat
    BY <1>0, <1>1
  <1>4. v \in Nat /\ v < b3 * Base
    BY <1>2, WordsType DEF UINT32
  <1> HIDE DEF b3
  <1>5. a \in Nat /\ a < b3
    BY <1>0, <1>3, <1>4, Quotient DEF Up
  <1>6. v = a * Base + Low(v) /\ Low(v) \in Bytes
    BY <1>0, <1>4, DivMod DEF Up, Low, Bytes
  <1> HIDE DEF a
  <1>7. b \in Nat /\ b < b2
    <2>1. a < b2 * Base
      BY <1>5 DEF b3
    <2> QED BY <1>0, <1>1, <1>5, <2>1, Quotient DEF Up
  <1>8. a = b * Base + Low(a) /\ Low(a) \in Bytes
    BY <1>0, <1>5, DivMod DEF Up, Low, Bytes
  <1> HIDE DEF b
  <1>9. c \in Nat /\ c < Base
    <2>1. b < Base * Base
      BY <1>7 DEF b2
    <2> QED BY <1>0, <1>7, <2>1, Quotient DEF Up
  <1>10. b = c * Base + Low(b) /\ Low(b) \in Bytes
    BY <1>0, <1>7, DivMod DEF Up, Low, Bytes
  <1>11. Low(c) = c /\ Low(c) \in Bytes
    <2> HIDE DEF c
    <2> QED BY <1>0, <1>9 DEF Low, Bytes
  <1>12. ToBuf32(v) = <<Low(c), Low(b), Low(a), Low(v)>>
    BY DEF ToBuf32, a, b, c
  <1> HIDE DEF c
  <1>13. ToBuf32(v) \in [1 .. 4 -> Bytes]
    BY <1>6, <1>8, <1>10, <1>11, <1>12
  <1>14. /\ ToBuf32(v)[1] = c /\ ToBuf32(v)[2] = Low(b)
         /\ ToBuf32(v)[3] = Low(a) /\ ToBuf32(v)[4] = Low(v)
    BY <1>11, <1>12
  <1>15. v = ((c * Base + Low(b)) * Base + Low(a)) * Base + Low(v)
    BY <1>6, <1>8, <1>10
  <1> QED BY <1>13, <1>14, <1>15

LEMMA BufferOfWord ==
  ASSUME NEW v \in UINT32
  PROVE  ToBuf32(v) \in Seq(Bytes) /\ Len(ToBuf32(v)) = 4
  <1>1. ToBuf32(v) = <<ToBuf32(v)[1], ToBuf32(v)[2], ToBuf32(v)[3], ToBuf32(v)[4]>>
    BY DEF ToBuf32
  <1>2. \A j \in 1 .. 4 : ToBuf32(v)[j] \in Bytes
    BY Word
  <1> DEFINE w == ToBuf32(v)
  <1>3. \A p, q, r, s \in Bytes : /\ <<p, q, r, s>> \in Seq(Bytes)
                                /\ Len(<<p, q, r, s>>) = 4
    OBVIOUS
  <1> HIDE DEF w
  <1>4. w[1] \in Bytes /\ w[2] \in Bytes /\ w[3] \in Bytes /\ w[4] \in Bytes
    BY <1>2 DEF w
  <1>5. w = <<w[1], w[2], w[3], w[4]>>
    BY <1>1 DEF w
  <1>6. w \in Seq(Bytes) /\ Len(w) = 4
    BY <1>3, <1>4, <1>5, Zenon
  <1> QED BY <1>6 DEF w

\* A word is read from where its buffer lies in a longer one.
LEMMA WordBack ==
  ASSUME NEW v \in UINT32, NEW buf, NEW k \in Nat,
         /\ buf[k] = ToBuf32(v)[1] /\ buf[k + 1] = ToBuf32(v)[2]
         /\ buf[k + 2] = ToBuf32(v)[3] /\ buf[k + 3] = ToBuf32(v)[4]
  PROVE  FromBuf32(buf, k) = v
  <1>1. FromBuf32(buf, k) =
          ((ToBuf32(v)[1] * Base + ToBuf32(v)[2]) * Base + ToBuf32(v)[3]) * Base + ToBuf32(v)[4]
    BY DEF FromBuf32
  <1> QED BY <1>1, Word

LEMMA Concatenation ==
  ASSUME NEW s \in Seq(Bytes), NEW t \in Seq(Bytes)
  PROVE  /\ s \o t \in Seq(Bytes) /\ Len(s \o t) = Len(s) + Len(t)
         /\ \A j \in 1 .. Len(s) : (s \o t)[j] = s[j]
         /\ \A j \in 1 .. Len(t) : (s \o t)[Len(s) + j] = t[j]
  BY ConcatProperties

Messages == [from : UINT32, event : UINT32, shmIndex : UINT64]

\* What is serialized is deserialized, but for the event.
LEMMA MessageBack ==
  ASSUME NEW m \in Messages
  PROVE  /\ Serialize(m) \in Seq(Bytes)
         /\ Deserialize(Serialize(m)) = [from |-> m.from, shmIndex |-> m.shmIndex]
  <1> DEFINE a == ToBuf32(m.from)
             b == ToBuf32(m.event)
             c == ToBuf32(m.shmIndex.msb)
             d == ToBuf32(m.shmIndex.lsb)
             first == a \o b
             last  == c \o d
             buf   == first \o last
  <1>0. /\ m.from \in UINT32 /\ m.event \in UINT32
        /\ m.shmIndex \in UINT64
    BY DEF Messages
  <1>1. m.shmIndex.msb \in UINT32 /\ m.shmIndex.lsb \in UINT32
    BY <1>0 DEF UINT64
  <1>2. /\ a \in Seq(Bytes) /\ Len(a) = 4 /\ b \in Seq(Bytes) /\ Len(b) = 4
        /\ c \in Seq(Bytes) /\ Len(c) = 4 /\ d \in Seq(Bytes) /\ Len(d) = 4
    BY <1>0, <1>1, BufferOfWord
  <1>3. Serialize(m) = buf
    BY DEF Serialize, ToBuf64
  <1>4. a[1] = ToBuf32(m.from)[1] /\ a[2] = ToBuf32(m.from)[2] /\ a[3] = ToBuf32(m.from)[3] /\ a[4] = ToBuf32(m.from)[4]
    OBVIOUS
  <1>5. c[1] = ToBuf32(m.shmIndex.msb)[1] /\ c[2] = ToBuf32(m.shmIndex.msb)[2] /\ c[3] = ToBuf32(m.shmIndex.msb)[3] /\ c[4] = ToBuf32(m.shmIndex.msb)[4]
    OBVIOUS
  <1>6. d[1] = ToBuf32(m.shmIndex.lsb)[1] /\ d[2] = ToBuf32(m.shmIndex.lsb)[2] /\ d[3] = ToBuf32(m.shmIndex.lsb)[3] /\ d[4] = ToBuf32(m.shmIndex.lsb)[4]
    OBVIOUS
  <1> HIDE DEF a, b, c, d
  <1>7. /\ first \in Seq(Bytes) /\ Len(first) = 8
        /\ \A j \in 1 .. 4 : first[j] = a[j]
    <2>1. /\ first \in Seq(Bytes) /\ Len(first) = Len(a) + Len(b)
          /\ \A j \in 1 .. Len(a) : first[j] = a[j]
      BY <1>2, Concatenation
    <2> QED BY <1>2, <2>1
  <1>8. /\ last \in Seq(Bytes) /\ Len(last) = 8
        /\ \A j \in 1 .. 4 : last[j] = c[j]
        /\ \A j \in 1 .. 4 : last[4 + j] = d[j]
    <2>1. /\ last \in Seq(Bytes) /\ Len(last) = Len(c) + Len(d)
          /\ \A j \in 1 .. Len(c) : last[j] = c[j]
          /\ \A j \in 1 .. Len(d) : last[Len(c) + j] = d[j]
      BY <1>2, Concatenation
    <2> QED BY <1>2, <2>1
  <1> HIDE DEF first, last
  <1>9. /\ buf \in Seq(Bytes)
        /\ \A j \in 1 .. 8 : buf[j] = first[j]
        /\ \A j \in 1 .. 8 : buf[8 + j] = last[j]
    <2>1. /\ buf \in Seq(Bytes)
          /\ \A j \in 1 .. Len(first) : buf[j] = first[j]
          /\ \A j \in 1 .. Len(last) : buf[Len(first) + j] = last[j]
      BY <1>7, <1>8, Concatenation
    <2> QED BY <1>7, <1>8, <2>1
  <1> HIDE DEF buf
  <1>10. buf[1] = a[1] /\ buf[2] = a[2] /\ buf[3] = a[3] /\ buf[4] = a[4]
    <2>1. buf[1] = first[1] /\ buf[2] = first[2] /\ buf[3] = first[3] /\ buf[4] = first[4]
      BY <1>9
    <2>2. first[1] = a[1] /\ first[2] = a[2] /\ first[3] = a[3] /\ first[4] = a[4]
      BY <1>7
    <2> QED BY <2>1, <2>2
  <1>11. /\ last[1] = c[1] /\ last[2] = c[2] /\ last[3] = c[3] /\ last[4] = c[4]
         /\ last[5] = d[1] /\ last[6] = d[2] /\ last[7] = d[3] /\ last[8] = d[4]
    <2>1. last[4 + 1] = d[1] /\ last[4 + 2] = d[2] /\ last[4 + 3] = d[3] /\ last[4 + 4] = d[4]
      BY <1>8
    <2> QED BY <1>8, <2>1
  <1>12. /\ buf[9] = last[1] /\ buf[10] = last[2] /\ buf[11] = last[3] /\ buf[12] = last[4]
         /\ buf[13] = last[5] /\ buf[14] = last[6] /\ buf[15] = last[7] /\ buf[16] = last[8]
    <2>1. /\ buf[8 + 1] = last[1] /\ buf[8 + 2] = last[2] /\ buf[8 + 3] = last[3]
          /\ buf[8 + 4] = last[4] /\ buf[8 + 5] = last[5] /\ buf[8 + 6] = last[6]
          /\ buf[8 + 7] = last[7] /\ buf[8 + 8] = last[8]
      BY <1>9
    <2> QED BY <2>1
  <1>13. FromBuf32(buf, 1) = m.from
    <2>1. buf[1 + 1] = a[2] /\ buf[1 + 2] = a[3] /\ buf[1 + 3] = a[4]
      BY <1>10
    <2> QED BY <1>0, <1>4, <1>10, <2>1, WordBack
  <1>14. FromBuf32(buf, 9) = m.shmIndex.msb
    <2>1. buf[9] = c[1] /\ buf[9 + 1] = c[2] /\ buf[9 + 2] = c[3] /\ buf[9 + 3] = c[4]
      BY <1>11, <1>12
    <2> QED BY <1>1, <1>5, <2>1, WordBack
  <1>15. FromBuf32(buf, 9 + 4) = m.shmIndex.lsb
    <2>1. /\ buf[9 + 4] = d[1] /\ buf[9 + 4 + 1] = d[2]
          /\ buf[9 + 4 + 2] = d[3] /\ buf[9 + 4 + 3] = d[4]
      BY <1>11, <1>12
    <2> QED BY <1>1, <1>6, <2>1, WordBack
  <1>16. FromBuf64(buf, 9) = m.shmIndex
    BY <1>0, <1>14, <1>15 DEF FromBuf64, UINT64
  <1> QED BY <1>3, <1>9, <1>13, <1>16 DEF Deserialize

LEMMA IndexType ==
  ASSUME NEW i \in 0 .. Words * Words - 1
  PROVE  Index64(i) \in UINT64
  <1>1. Words * Words \in Nat /\ i \in Nat /\ i < Words * Words
    BY WordsType
  <1>2. i \div Words \in Nat /\ i \div Words < Words
    BY <1>1, WordsType, Quotient
  <1>3. i % Words \in 0 .. Words - 1
    BY <1>1, WordsType, DivMod
  <1> QED BY <1>2, <1>3, WordsType DEF Index64, UINT64, UINT32

\* What TimerTask serializes for a timer.
LEMMA FireMessageBack ==
  ASSUME NEW i \in Slots
  PROVE  /\ Serialize(FireMessage(i)) \in Seq(Bytes)
         /\ Deserialize(Serialize(FireMessage(i))) = [from |-> 2, shmIndex |-> Index64(i)]
         /\ [from |-> 2, shmIndex |-> Index64(i)] \in [from : UINT32, shmIndex : UINT64]
  <1>1. 2 \in UINT32 /\ 0 \in UINT32
    BY WordsType DEF UINT32
  <1>2. Index64(i) \in UINT64
    BY StartupAssumption, IndexType
  <1>3. FireMessage(i) \in Messages
    BY <1>1, <1>2 DEF FireMessage, Messages
  <1>4. FireMessage(i).from = 2 /\ FireMessage(i).shmIndex = Index64(i)
    BY DEF FireMessage
  <1> QED BY <1>1, <1>2, <1>3, <1>4, MessageBack

(***************************************************************************)
(* Types, and what each action does to each launch.                        *)
(***************************************************************************)

AppFields  == [pc : AppStates, has : [AllStatics -> Objects]]
RecvFields == [pc : RecvStates, queue : Objects, when : {"none", "early", "late", "clearing"}]
TaskFields == [pc : TaskStates, has : [AllStatics -> Objects], queues : Seq(Objects),
               timer : Slots \cup {None}]
Received   == [from : UINT32, shmIndex : UINT64]
Buffers    == {Serialize(FireMessage(i)) : i \in Slots}

NamesOK == /\ exists \in [Names -> Objects \ {Failed}]
           /\ launch \in 0 .. MaxLaunches
           /\ fresh \in BOOLEAN /\ clearing \in BOOLEAN
           /\ program \in [Launches -> {"timers", "pool"}]
           /\ prepared \in [Launches -> BOOLEAN]
AppOK  == app \in [Launches -> AppFields] /\ \A k \in Launches : HasOwn(app[k].has, k)
RecvOK == recv \in [Launches -> RecvFields]
TaskOK == task \in [Launches -> TaskFields] /\ \A k \in Launches : HasOwn(task[k].has, k)
DataOK == /\ heap \in [Launches -> SUBSET Slots]
          /\ mq \in [Launches -> Seq(Buffers)]
          /\ asked \in [Launches -> SUBSET Slots]
          /\ sent \in [Launches -> Seq(Slots)]
          /\ got \in [Launches -> Seq(Received)]

\* TypeOK, and only messages in the queues.
Typed == NamesOK /\ AppOK /\ RecvOK /\ TaskOK /\ DataOK

Keeps(j)  == app'[j] = app[j] /\ recv'[j] = recv[j] /\ task'[j] = task[j]
Others(k) == \A j \in Launches \ {k} : Keeps(j)

LEMMA ObjectsApart ==
  /\ None = 0 /\ Failed = -1
  /\ Launches \subseteq Nat \ {0}
  /\ None \notin Launches /\ Failed \notin Launches /\ None # Failed
  /\ None \in Objects /\ Failed \in Objects /\ Launches \subseteq Objects
  BY StartupAssumption DEF Objects, None, Failed, Launches

LEMMA StaticsFacts ==
  /\ Statics.timers = Pools \cup Sems \cup {Heap}
  /\ Statics.pool = {"pooledObject"}
  /\ Statics["timers"] = Statics.timers /\ Statics["pool"] = Statics.pool
  /\ Statics.timers \subseteq AllStatics /\ Statics.pool \subseteq AllStatics
  /\ AllStatics \subseteq Names /\ "Test" \in Names /\ "timerpool" \in Names
  /\ "Test" \notin AllStatics /\ "timerpool" \notin AllStatics
  /\ "pooledObject" \notin Statics.timers
  /\ "pooledObject" \notin Cleared /\ Statics.timers \subseteq Cleared /\ "Test" \in Cleared
  /\ Pools \subseteq Statics.timers /\ Heap \in Statics.timers
  BY DEF Statics, AllStatics, Names, Pools, Sems, Heap, Cleared

LEMMA TypedTypeOK == Typed => TypeOK
  <1> SUFFICES ASSUME Typed PROVE TypeOK
    OBVIOUS
  <1>1. Buffers \subseteq Seq(Bytes)
    BY FireMessageBack DEF Buffers
  <1>2. mq \in [Launches -> Seq(Buffers)]
    BY DEF Typed, DataOK
  <1>3. \A s \in Seq(Buffers) : s \in Seq(Seq(Bytes))
    BY <1>1
  <1>4. mq \in [Launches -> Seq(Seq(Bytes))]
    BY <1>2, <1>3
  <1> QED
    BY <1>4 DEF Typed, TypeOK, NamesOK, AppOK, RecvOK, TaskOK, DataOK,
                AppFields, RecvFields, TaskFields, Received

LEMMA NothingTyped ==
  /\ \A how \in AppStates : NoApp(how) \in AppFields
  /\ \A how \in TaskStates : NoTask(how) \in TaskFields
  /\ \A k \in Launches : HasOwn(NoStatics, k)
  /\ \A how : NoApp(how).pc = how /\ NoApp(how).has = NoStatics
  /\ \A how : /\ NoTask(how).pc = how /\ NoTask(how).has = NoStatics
              /\ NoTask(how).queues = <<>>
  <1>1. NoStatics \in [AllStatics -> Objects]
    BY ObjectsApart DEF NoStatics
  <1>2. \A k \in Launches : HasOwn(NoStatics, k)
    BY DEF HasOwn, NoStatics
  <1>3. None \in Slots \cup {None} /\ <<>> \in Seq(Objects)
    OBVIOUS
  <1> QED BY <1>1, <1>2, <1>3 DEF NoApp, NoTask, AppFields, TaskFields

LEMMA InitTyped == Init => Typed
  <1> SUFFICES ASSUME Init PROVE Typed
    OBVIOUS
  <1>1. NamesOK
    <2>1. exists \in [Names -> Objects \ {Failed}]
      BY ObjectsApart DEF Init
    <2>2. launch \in 0 .. MaxLaunches
      BY StartupAssumption DEF Init
    <2> QED BY <2>1, <2>2 DEF Init, NamesOK
  <1>2. AppOK
    BY NothingTyped DEF Init, AppOK, AppStates
  <1>3. RecvOK
    BY ObjectsApart DEF Init, RecvOK, RecvFields, RecvStates
  <1>4. TaskOK
    BY NothingTyped DEF Init, TaskOK, TaskStates
  <1>5. DataOK
    BY DEF Init, DataOK
  <1> QED BY <1>1, <1>2, <1>3, <1>4, <1>5 DEF Typed

Ends == {"exit", "abort", "fault", "killed"}

LEMMA AppEndsDoes ==
  ASSUME Typed, NEW k \in Launches, NEW how \in Ends, AppEnds(k, how)
  PROVE  /\ AppOK' /\ RecvOK'
         /\ app'[k].pc = how /\ app'[k].has = NoStatics
         /\ recv'[k].pc = "end" /\ recv'[k].queue = recv[k].queue /\ recv'[k].when = recv[k].when
         /\ \A j \in Launches \ {k} : app'[j] = app[j] /\ recv'[j] = recv[j]
  <1>1. app' = [app EXCEPT ![k] = NoApp(how)] /\ recv' = [recv EXCEPT ![k].pc = "end"]
    BY DEF AppEnds
  <1>2. NoApp(how) \in AppFields /\ HasOwn(NoStatics, k)
    BY NothingTyped DEF AppStates, Ends
  <1>3. app \in [Launches -> AppFields] /\ recv \in [Launches -> RecvFields]
    BY DEF Typed, AppOK, RecvOK
  <1>4. app'[k] = NoApp(how) /\ \A j \in Launches \ {k} : app'[j] = app[j]
    BY <1>1, <1>3
  <1>5. recv'[k] = [recv[k] EXCEPT !.pc = "end"] /\ \A j \in Launches \ {k} : recv'[j] = recv[j]
    BY <1>1, <1>3
  <1>6. RecvOK'
    <2>1. [recv[k] EXCEPT !.pc = "end"] \in RecvFields
      BY <1>3 DEF RecvFields, RecvStates
    <2> QED BY <1>1, <1>3, <2>1 DEF RecvOK
  <1>7. AppOK'
    <2>1. app' \in [Launches -> AppFields]
      BY <1>1, <1>2, <1>3
    <2>2. \A j \in Launches : HasOwn(app'[j].has, j)
      BY <1>2, <1>4, NothingTyped DEF Typed, AppOK
    <2> QED BY <2>1, <2>2 DEF AppOK
  <1>8. recv[k] \in RecvFields
    BY <1>3
  <1>9. recv'[k].pc = "end" /\ recv'[k].queue = recv[k].queue /\ recv'[k].when = recv[k].when
    BY <1>5, <1>8 DEF RecvFields
  <1> QED BY <1>4, <1>5, <1>6, <1>7, <1>9, NothingTyped

\* TimerTask ends.
LEMMA TaskEndsDoes ==
  ASSUME Typed, NEW k \in Launches, NEW how \in {"abort", "fault", "killed"},
         task' = [task EXCEPT ![k] = NoTask(how)]
  PROVE  /\ TaskOK' /\ task'[k] = NoTask(how)
         /\ \A j \in Launches \ {k} : task'[j] = task[j]
  <1>1. NoTask(how) \in TaskFields /\ HasOwn(NoStatics, k) /\ NoTask(how).has = NoStatics
    BY NothingTyped DEF TaskStates
  <1>2. task \in [Launches -> TaskFields]
    BY DEF Typed, TaskOK
  <1>3. task'[k] = NoTask(how) /\ \A j \in Launches \ {k} : task'[j] = task[j]
    BY <1>2
  <1>4. task' \in [Launches -> TaskFields]
    BY <1>1, <1>2
  <1>5. \A j \in Launches : HasOwn(task'[j].has, j)
    BY <1>1, <1>3 DEF Typed, TaskOK
  <1> QED BY <1>3, <1>4, <1>5 DEF TaskOK

LEMMA LaunchDoes ==
  ASSUME Typed, NEW p \in {"timers", "pool"}, Launch(p)
  PROVE  /\ Typed' /\ launch' = launch + 1 /\ launch' \in Launches /\ ~clearing
         /\ app'[launch'].pc = "load" /\ app'[launch'].has = app[launch'].has
         /\ program'[launch'] = p /\ prepared'[launch'] = fresh
         /\ \A j \in Launches \ {launch'} :
              /\ app'[j] = app[j] /\ program'[j] = program[j]
              /\ prepared'[j] => prepared[j] /\ app[j].pc # "load"
         /\ UNCHANGED <<exists, clearing, recv, task, data>>
  <1>1. launch + 1 \in Launches
    BY StartupAssumption DEF Typed, NamesOK, Launch, Launches
  <1> DEFINE n == launch + 1
  <1>2. /\ launch' = n /\ ~clearing /\ fresh' = FALSE
        /\ program' = [program EXCEPT ![n] = p]
        /\ prepared' = [k \in Launches |-> IF k = n THEN fresh
                                           ELSE prepared[k] /\ app[k].pc # "load"]
        /\ app' = [app EXCEPT ![n].pc = "load"]
        /\ UNCHANGED <<exists, clearing, recv, task, data>>
    BY DEF Launch
  <1>3. n \in Launches
    BY <1>1
  <1> HIDE DEF n
  <1>4. app \in [Launches -> AppFields] /\ app[n] \in AppFields
    BY <1>3 DEF Typed, AppOK
  <1>5. /\ app'[n] = [app[n] EXCEPT !.pc = "load"]
        /\ \A j \in Launches \ {n} : app'[j] = app[j]
    BY <1>2, <1>3, <1>4
  <1>6. /\ [app[n] EXCEPT !.pc = "load"] \in AppFields
        /\ [app[n] EXCEPT !.pc = "load"].pc = "load"
        /\ [app[n] EXCEPT !.pc = "load"].has = app[n].has
    BY <1>4 DEF AppFields, AppStates
  <1>7. AppOK'
    <2>1. app' \in [Launches -> AppFields]
      BY <1>2, <1>3, <1>4, <1>6
    <2>2. \A j \in Launches : app'[j].has = app[j].has
      BY <1>5, <1>6
    <2> QED BY <2>1, <2>2 DEF Typed, AppOK
  <1>8. program'[n] = p /\ \A j \in Launches \ {n} : program'[j] = program[j]
    BY <1>2, <1>3 DEF Typed, NamesOK
  <1>9. /\ prepared'[n] = fresh
        /\ \A j \in Launches \ {n} : prepared'[j] => prepared[j] /\ app[j].pc # "load"
    BY <1>2, <1>3
  <1>10. NamesOK'
    <2>1. program' \in [Launches -> {"timers", "pool"}]
      BY <1>2, <1>3 DEF Typed, NamesOK
    <2>2. prepared' \in [Launches -> BOOLEAN]
      <3>1. fresh \in BOOLEAN /\ \A k \in Launches : prepared[k] \in BOOLEAN
        BY DEF Typed, NamesOK
      <3> QED BY <1>2, <3>1
    <2>3. launch' \in 0 .. MaxLaunches
      BY <1>2, <1>3 DEF Launches
    <2> QED BY <1>2, <2>1, <2>2, <2>3 DEF Typed, NamesOK
  <1>11. Typed'
    BY <1>2, <1>7, <1>10 DEF Typed, RecvOK, TaskOK, DataOK, data
  <1> QED BY <1>2, <1>3, <1>5, <1>6, <1>8, <1>9, <1>11 DEF n

LEMMA ClearDoes ==
  ASSUME Typed, Clear
  PROVE  /\ Typed' /\ clearing' /\ \A k \in Launches : app[k].pc # "load"
         /\ \A n \in Names : exists'[n] = IF n \in Cleared THEN None ELSE exists[n]
         /\ \A k \in Launches : prepared'[k] => prepared[k] /\ ~AppUp(k) /\ ~TaskUp(k)
         /\ UNCHANGED <<launch, fresh, program, app, recv, task, data>>
  <1>1. exists' \in [Names -> Objects \ {Failed}]
    BY ObjectsApart DEF Typed, NamesOK, Clear
  <1>2. prepared' \in [Launches -> BOOLEAN]
    BY DEF Typed, NamesOK, Clear
  <1>3. NamesOK'
    BY <1>1, <1>2 DEF Typed, NamesOK, Clear
  <1>4. Typed'
    BY <1>3 DEF Typed, AppOK, RecvOK, TaskOK, DataOK, data, Clear
  <1> QED BY <1>4 DEF Clear

LEMMA KillAllDoes ==
  ASSUME Typed, KillAll
  PROVE  /\ Typed' /\ clearing /\ ~clearing' /\ fresh'
         /\ \A k \in Launches :
              /\ app'[k] = IF AppUp(k) THEN NoApp("killed") ELSE app[k]
              /\ task'[k] = IF TaskUp(k) THEN NoTask("killed") ELSE task[k]
              /\ recv'[k].queue = recv[k].queue /\ recv'[k].when = recv[k].when
              /\ recv'[k].pc = IF AppUp(k) THEN "end" ELSE recv[k].pc
         /\ UNCHANGED <<exists, launch, program, prepared, data>>
  <1>1. \A k \in Launches :
          /\ app'[k] = IF AppUp(k) THEN NoApp("killed") ELSE app[k]
          /\ task'[k] = IF TaskUp(k) THEN NoTask("killed") ELSE task[k]
          /\ recv'[k] = IF AppUp(k) THEN [recv[k] EXCEPT !.pc = "end"] ELSE recv[k]
    BY DEF KillAll
  <1>2. \A k \in Launches :
          /\ recv[k] \in RecvFields /\ [recv[k] EXCEPT !.pc = "end"] \in RecvFields
          /\ [recv[k] EXCEPT !.pc = "end"].pc = "end"
          /\ [recv[k] EXCEPT !.pc = "end"].queue = recv[k].queue
          /\ [recv[k] EXCEPT !.pc = "end"].when = recv[k].when
    BY DEF Typed, RecvOK, RecvFields, RecvStates
  <1>3. AppOK'
    <2>1. app' \in [Launches -> AppFields]
      <3>1. \A k \in Launches : NoApp("killed") \in AppFields /\ app[k] \in AppFields
        BY NothingTyped DEF Typed, AppOK, AppStates
      <3>2. app' = [k \in Launches |-> IF AppUp(k) THEN NoApp("killed") ELSE app[k]]
        BY DEF KillAll
      <3> QED BY <3>1, <3>2
    <2>2. \A k \in Launches : HasOwn(app'[k].has, k)
      <3>1. TAKE k \in Launches
      <3>2. CASE AppUp(k)
        <4>0. app'[k] = NoApp("killed")
          BY <1>1, <3>2
        <4>1. app'[k].has = NoStatics
          BY <4>0, NothingTyped
        <4> QED BY <4>1, NothingTyped
      <3>3. CASE ~AppUp(k)
        <4>1. app'[k] = app[k]
          BY <1>1, <3>3
        <4>2. HasOwn(app[k].has, k)
          BY DEF Typed, AppOK
        <4> QED BY <4>1, <4>2
      <3> QED BY <3>2, <3>3
    <2> QED BY <2>1, <2>2 DEF AppOK
  <1>4. TaskOK'
    <2>1. task' \in [Launches -> TaskFields]
      <3>1. \A k \in Launches : NoTask("killed") \in TaskFields /\ task[k] \in TaskFields
        BY NothingTyped DEF Typed, TaskOK, TaskStates
      <3>2. task' = [k \in Launches |-> IF TaskUp(k) THEN NoTask("killed") ELSE task[k]]
        BY DEF KillAll
      <3> QED BY <3>1, <3>2
    <2>2. \A k \in Launches : HasOwn(task'[k].has, k)
      <3>1. TAKE k \in Launches
      <3>2. CASE TaskUp(k)
        <4>0. task'[k] = NoTask("killed")
          BY <1>1, <3>2
        <4>1. task'[k].has = NoStatics
          BY <4>0, NothingTyped
        <4> QED BY <4>1, NothingTyped
      <3>3. CASE ~TaskUp(k)
        <4>1. task'[k] = task[k]
          BY <1>1, <3>3
        <4>2. HasOwn(task[k].has, k)
          BY DEF Typed, TaskOK
        <4> QED BY <4>1, <4>2
      <3> QED BY <3>2, <3>3
    <2> QED BY <2>1, <2>2 DEF TaskOK
  <1>5. RecvOK'
    BY <1>2 DEF RecvOK, KillAll
  <1>6. NamesOK' /\ DataOK'
    BY DEF Typed, NamesOK, DataOK, data, KillAll
  <1>7. Typed'
    BY <1>3, <1>4, <1>5, <1>6 DEF Typed
  <1> QED BY <1>1, <1>2, <1>7 DEF KillAll

LEMMA KillDoes ==
  ASSUME Typed, NEW k \in Launches, Kill(k)
  PROVE  /\ Typed' /\ AppUp(k) /\ AppEnds(k, "killed")
         /\ UNCHANGED <<names, task, data>>
  <1>1. AppUp(k) /\ AppEnds(k, "killed") /\ UNCHANGED <<names, task, data>>
    BY DEF Kill
  <1>2. AppOK' /\ RecvOK'
    BY <1>1, AppEndsDoes DEF Ends
  <1> QED BY <1>1, <1>2 DEF Typed, NamesOK, TaskOK, DataOK, names, data

LEMMA KillTaskDoes ==
  ASSUME Typed, NEW k \in Launches, KillTask(k)
  PROVE  /\ Typed' /\ task'[k] = NoTask("killed") /\ TaskUp(k)
         /\ \A j \in Launches \ {k} : task'[j] = task[j]
         /\ UNCHANGED <<names, app, recv, data>>
  <1>1. /\ TaskUp(k) /\ task' = [task EXCEPT ![k] = NoTask("killed")]
        /\ UNCHANGED <<names, app, recv, data>>
    BY DEF KillTask
  <1>2. /\ TaskOK' /\ task'[k] = NoTask("killed")
        /\ \A j \in Launches \ {k} : task'[j] = task[j]
    BY <1>1, TaskEndsDoes
  <1> QED BY <1>1, <1>2 DEF Typed, NamesOK, AppOK, RecvOK, DataOK, names, data

LEMMA LoadDoes ==
  ASSUME Typed, NEW k \in Launches, NEW s \in AllStatics, Load(k, s)
  PROVE  LET has == [app[k].has EXCEPT ![s] = Create(s, k)]
         IN /\ Typed' /\ app[k].pc = "load" /\ MayLoad(k, s)
            /\ exists'[s] = (IF Creatable(s) THEN k ELSE exists[s])
            /\ \A n \in Names \ {s} : exists'[n] = exists[n]
            /\ \/ /\ s \in Pools \cup Statics.pool /\ ~Creatable(s)
                  /\ app'[k] = NoApp("fault")
               \/ /\ s \in Pools \cup Statics.pool => Creatable(s)
                  /\ app'[k].has = has
                  /\ \/ app'[k].pc = "load"
                     \/ /\ app'[k].pc = "start"
                        /\ \A t \in Statics[program[k]] : has[t] # None
            /\ \A j \in Launches \ {k} : app'[j] = app[j]
            /\ UNCHANGED <<launch, fresh, clearing, program, prepared, recv, task, data>>
  <1> DEFINE has == [app[k].has EXCEPT ![s] = Create(s, k)]
             pc  == IF \A t \in Statics[program[k]] : has[t] # None THEN "start" ELSE "load"
             bad == s \in Pools \cup Statics.pool /\ has[s] = Failed
             new == IF bad THEN NoApp("fault") ELSE [pc |-> pc, has |-> has]
  <1>1. /\ app[k].pc = "load" /\ MayLoad(k, s)
        /\ exists' = [exists EXCEPT ![s] = IF Creatable(s) THEN k ELSE @]
        /\ app' = [app EXCEPT ![k] = new]
        /\ UNCHANGED <<launch, fresh, clearing, program, prepared, recv, task, data>>
    BY DEF Load
  <1>2. app \in [Launches -> AppFields] /\ app[k].has \in [AllStatics -> Objects]
    BY DEF Typed, AppOK, AppFields
  <1>3. s \in Names /\ exists \in [Names -> Objects \ {Failed}]
    BY StaticsFacts DEF Typed, NamesOK
  <1>4. Create(s, k) \in {k, Failed} /\ (Create(s, k) = Failed <=> ~Creatable(s))
    BY ObjectsApart DEF Create
  <1>5. /\ has \in [AllStatics -> Objects] /\ has[s] = Create(s, k)
        /\ \A t \in AllStatics \ {s} : has[t] = app[k].has[t]
    BY <1>2, <1>4, ObjectsApart
  <1>6. HasOwn(has, k)
    BY <1>4, <1>5 DEF Typed, AppOK, HasOwn
  <1>7. bad <=> s \in Pools \cup Statics.pool /\ ~Creatable(s)
    BY <1>4, <1>5
  <1>8. pc \in {"load", "start"}
    OBVIOUS
  <1>9. /\ exists'[s] = (IF Creatable(s) THEN k ELSE exists[s])
        /\ \A n \in Names \ {s} : exists'[n] = exists[n]
    BY <1>1, <1>3
  <1>10. exists' \in [Names -> Objects \ {Failed}]
    <2>1. k \in Objects \ {Failed}
      BY ObjectsApart
    <2> QED BY <1>1, <1>3, <2>1
  <1>11. app'[k] = new /\ \A j \in Launches \ {k} : app'[j] = app[j]
    BY <1>1, <1>2
  <1>12. pc = "start" => \A t \in Statics[program[k]] : has[t] # None
    OBVIOUS
  <1> HIDE DEF has, pc, bad
  <1>13. new \in AppFields /\ HasOwn(new.has, k)
    <2>1. CASE bad
      BY <2>1, NothingTyped DEF AppStates
    <2>2. CASE ~bad
      BY <2>2, <1>5, <1>6, <1>8 DEF AppFields, AppStates
    <2> QED BY <2>1, <2>2
  <1>14. \/ bad /\ new = NoApp("fault")
         \/ ~bad /\ new.has = has /\ new.pc = pc
    OBVIOUS
  <1> HIDE DEF new
  <1>15. AppOK'
    <2>1. app' \in [Launches -> AppFields]
      BY <1>1, <1>2, <1>13
    <2>2. \A j \in Launches : HasOwn(app'[j].has, j)
      BY <1>11, <1>13 DEF Typed, AppOK
    <2> QED BY <2>1, <2>2 DEF AppOK
  <1>16. NamesOK'
    BY <1>1, <1>10 DEF Typed, NamesOK
  <1>17. Typed'
    BY <1>1, <1>15, <1>16 DEF Typed, RecvOK, TaskOK, DataOK, data
  <1>18. \/ /\ s \in Pools \cup Statics.pool /\ ~Creatable(s)
            /\ app'[k] = NoApp("fault")
         \/ /\ s \in Pools \cup Statics.pool => Creatable(s)
            /\ app'[k].has = has
            /\ \/ app'[k].pc = "load"
               \/ /\ app'[k].pc = "start"
                  /\ \A t \in Statics[program[k]] : has[t] # None
    BY <1>7, <1>8, <1>11, <1>12, <1>14
  <1> QED BY <1>1, <1>9, <1>11, <1>17, <1>18 DEF has

LEMMA PoolMainDoes ==
  ASSUME Typed, NEW k \in Launches, PoolMain(k)
  PROVE  /\ Typed' /\ app[k].pc = "start" /\ program[k] = "pool" /\ AppEnds(k, "exit")
         /\ \A n \in Names \ {"timerpool"} : exists'[n] = exists[n]
         /\ UNCHANGED <<launch, fresh, clearing, program, prepared, task, data>>
  <1>1. /\ app[k].pc = "start" /\ program[k] = "pool" /\ AppEnds(k, "exit")
        /\ exists' = [exists EXCEPT !["timerpool"] = None]
        /\ UNCHANGED <<launch, fresh, clearing, program, prepared, task, data>>
    BY DEF PoolMain
  <1>2. /\ exists' \in [Names -> Objects \ {Failed}]
        /\ \A n \in Names \ {"timerpool"} : exists'[n] = exists[n]
    BY <1>1, ObjectsApart DEF Typed, NamesOK
  <1>3. AppOK' /\ RecvOK'
    BY <1>1, AppEndsDoes DEF Ends
  <1> QED BY <1>1, <1>2, <1>3 DEF Typed, NamesOK, TaskOK, DataOK, data

LEMMA StartThreadDoes ==
  ASSUME Typed, NEW k \in Launches, StartThread(k)
  PROVE  /\ Typed' /\ app[k].pc = "start" /\ program[k] = "timers"
         /\ app'[k].pc = "fork" /\ app'[k].has = app[k].has
         /\ recv'[k].pc = "open" /\ recv'[k].queue = recv[k].queue /\ recv'[k].when = recv[k].when
         /\ \A j \in Launches \ {k} : Keeps(j)
         /\ UNCHANGED <<names, task, data>>
  <1>1. /\ app[k].pc = "start" /\ program[k] = "timers"
        /\ app' = [app EXCEPT ![k].pc = "fork"]
        /\ recv' = [recv EXCEPT ![k].pc = "open"]
        /\ UNCHANGED <<names, task, data>>
    BY DEF StartThread
  <1>2. /\ app \in [Launches -> AppFields] /\ app[k] \in AppFields
        /\ recv \in [Launches -> RecvFields] /\ recv[k] \in RecvFields
    BY DEF Typed, AppOK, RecvOK
  <1>3. /\ app'[k] = [app[k] EXCEPT !.pc = "fork"] /\ recv'[k] = [recv[k] EXCEPT !.pc = "open"]
        /\ \A j \in Launches \ {k} : app'[j] = app[j] /\ recv'[j] = recv[j]
    BY <1>1, <1>2
  <1>4. /\ [app[k] EXCEPT !.pc = "fork"] \in AppFields
        /\ [app[k] EXCEPT !.pc = "fork"].pc = "fork"
        /\ [app[k] EXCEPT !.pc = "fork"].has = app[k].has
    BY <1>2 DEF AppFields, AppStates
  <1>5. /\ [recv[k] EXCEPT !.pc = "open"] \in RecvFields
        /\ [recv[k] EXCEPT !.pc = "open"].pc = "open"
        /\ [recv[k] EXCEPT !.pc = "open"].queue = recv[k].queue
        /\ [recv[k] EXCEPT !.pc = "open"].when = recv[k].when
    BY <1>2 DEF RecvFields, RecvStates
  <1>6. AppOK'
    <2>1. app' \in [Launches -> AppFields]
      BY <1>1, <1>2, <1>4
    <2>2. \A j \in Launches : app'[j].has = app[j].has
      BY <1>3, <1>4
    <2> QED BY <2>1, <2>2 DEF Typed, AppOK
  <1>7. RecvOK'
    BY <1>1, <1>2, <1>5 DEF RecvOK
  <1>8. Typed'
    BY <1>1, <1>6, <1>7 DEF Typed, NamesOK, TaskOK, DataOK, names, data
  <1> QED BY <1>1, <1>3, <1>4, <1>5, <1>8 DEF Keeps

LEMMA ForkDoes ==
  ASSUME Typed, NEW k \in Launches, Fork(k)
  PROVE  /\ Typed' /\ app[k].pc = "fork"
         /\ app'[k].pc = "main" /\ app'[k].has = app[k].has
         /\ task'[k].pc = "open" /\ task'[k].has = app[k].has
         /\ task'[k].queues = task[k].queues
         /\ \A j \in Launches \ {k} : Keeps(j)
         /\ UNCHANGED <<names, recv, data>>
  <1> DEFINE child == [task[k] EXCEPT !.pc = "open", !.has = app[k].has]
  <1>1. /\ app[k].pc = "fork"
        /\ app' = [app EXCEPT ![k].pc = "main"]
        /\ task' = [task EXCEPT ![k].pc = "open", ![k].has = app[k].has]
        /\ UNCHANGED <<names, recv, data>>
    BY DEF Fork
  <1>2. /\ app \in [Launches -> AppFields] /\ app[k] \in AppFields
        /\ task \in [Launches -> TaskFields] /\ task[k] \in TaskFields
    BY DEF Typed, AppOK, TaskOK
  <1>3. app'[k] = [app[k] EXCEPT !.pc = "main"] /\ \A j \in Launches \ {k} : app'[j] = app[j]
    BY <1>1, <1>2
  <1>4. /\ [app[k] EXCEPT !.pc = "main"] \in AppFields
        /\ [app[k] EXCEPT !.pc = "main"].pc = "main"
        /\ [app[k] EXCEPT !.pc = "main"].has = app[k].has
    BY <1>2 DEF AppFields, AppStates
  <1>5. task' = [task EXCEPT ![k] = child]
    BY <1>1, <1>2
  <1>6. /\ child \in TaskFields /\ child.pc = "open" /\ child.has = app[k].has
        /\ child.queues = task[k].queues
    BY <1>2 DEF TaskFields, TaskStates, AppFields
  <1> HIDE DEF child
  <1>7. task'[k] = child /\ \A j \in Launches \ {k} : task'[j] = task[j]
    BY <1>2, <1>5
  <1>8. AppOK'
    <2>1. app' \in [Launches -> AppFields]
      BY <1>1, <1>2, <1>4
    <2>2. \A j \in Launches : app'[j].has = app[j].has
      BY <1>3, <1>4
    <2> QED BY <2>1, <2>2 DEF Typed, AppOK
  <1>9. TaskOK'
    <2>1. task' \in [Launches -> TaskFields]
      BY <1>2, <1>5, <1>6
    <2>2. HasOwn(app[k].has, k) /\ \A j \in Launches : HasOwn(task[j].has, j)
      BY DEF Typed, AppOK, TaskOK
    <2>3. \A j \in Launches : HasOwn(task'[j].has, j)
      BY <1>6, <1>7, <2>2
    <2> QED BY <2>1, <2>3 DEF TaskOK
  <1>10. Typed'
    BY <1>1, <1>8, <1>9 DEF Typed, NamesOK, RecvOK, DataOK, names, data
  <1> QED BY <1>1, <1>3, <1>4, <1>6, <1>7, <1>10 DEF Keeps

LEMMA ForkFailsDoes ==
  ASSUME Typed, NEW k \in Launches, ForkFails(k)
  PROVE  /\ Typed' /\ app[k].pc = "fork" /\ AppEnds(k, "abort")
         /\ UNCHANGED <<names, task, data>>
  <1>1. app[k].pc = "fork" /\ AppEnds(k, "abort") /\ UNCHANGED <<names, task, data>>
    BY DEF ForkFails
  <1>2. AppOK' /\ RecvOK'
    BY <1>1, AppEndsDoes DEF Ends
  <1> QED BY <1>1, <1>2 DEF Typed, NamesOK, TaskOK, DataOK, names, data

LEMMA ScheduleDoes ==
  ASSUME Typed, NEW k \in Launches, NEW i \in Slots, Schedule(k, i)
  PROVE  /\ Typed' /\ app[k].pc = "main" /\ i \notin asked[k]
         /\ \/ /\ \E s \in Statics.timers : app[k].has[s] = Failed
               /\ AppEnds(k, "fault") /\ UNCHANGED data
            \/ /\ \A s \in Statics.timers : app[k].has[s] # Failed
               /\ heap' = [heap EXCEPT ![app[k].has[Heap]] = @ \cup {i}]
               /\ asked' = [asked EXCEPT ![k] = @ \cup {i}]
               /\ UNCHANGED <<app, recv, mq, sent, got>>
         /\ UNCHANGED <<names, task>>
  <1>1. /\ app[k].pc = "main" /\ i \notin asked[k] /\ UNCHANGED <<names, task>>
        /\ \/ /\ \E s \in Statics.timers : app[k].has[s] = Failed
              /\ AppEnds(k, "fault") /\ UNCHANGED data
           \/ /\ \A s \in Statics.timers : app[k].has[s] # Failed
              /\ heap' = [heap EXCEPT ![app[k].has[Heap]] = @ \cup {i}]
              /\ asked' = [asked EXCEPT ![k] = @ \cup {i}]
              /\ UNCHANGED <<app, recv, mq, sent, got>>
    BY DEF Schedule
  <1>2. AppOK' /\ RecvOK'
    <2>1. CASE AppEnds(k, "fault")
      BY <2>1, AppEndsDoes DEF Ends
    <2>2. CASE UNCHANGED <<app, recv>>
      BY <2>2 DEF Typed, AppOK, RecvOK
    <2> QED BY <1>1, <2>1, <2>2
  <1>3. DataOK'
    <2>1. CASE UNCHANGED data
      BY <2>1 DEF Typed, DataOK, data
    <2>2. CASE /\ heap' = [heap EXCEPT ![app[k].has[Heap]] = @ \cup {i}]
               /\ asked' = [asked EXCEPT ![k] = @ \cup {i}]
               /\ UNCHANGED <<app, recv, mq, sent, got>>
      BY <2>2 DEF Typed, DataOK
    <2> QED BY <1>1, <2>1, <2>2
  <1> QED BY <1>1, <1>2, <1>3 DEF Typed, NamesOK, TaskOK, names

(***************************************************************************)
(* The stages of an application, its receiver and its TimerTask.           *)
(***************************************************************************)

Ready(k) == app[k].pc \in {"start", "fork", "main"} /\ program[k] = "timers"

AppStage(k) ==
  /\ k > launch => app[k].pc = "none"
  /\ ~AppUp(k) => app[k].has = NoStatics
  /\ app[k].pc \in {"fork", "main"} => program[k] = "timers"
  /\ app[k].pc = "load" => \A p \in Pools : app[k].has[p] \in {None, k}
  /\ Ready(k) => /\ \A s \in Statics.timers : app[k].has[s] # None
                 /\ \A p \in Pools : app[k].has[p] = k

RecvStage(k) ==
  /\ recv[k].queue \in {None, Failed, k}
  /\ recv[k].pc \in {"none", "open"} => recv[k].queue = None
  /\ recv[k].pc = "wait" => recv[k].queue # None
  /\ app[k].pc \in {"none", "load", "start"} => recv[k].pc = "none"
  /\ recv[k].pc \in {"open", "wait"} => app[k].pc \in {"fork", "main"}

TaskStage(k) ==
  /\ app[k].pc \in {"none", "load", "start", "fork"} => task[k].pc = "none"
  /\ ~TaskUp(k) => task[k].queues = <<>>
  /\ task[k].pc = "open" => Len(task[k].queues) < 3
  /\ task[k].pc \in {"poll", "send"} => Len(task[k].queues) = 3
  /\ \A n \in 1 .. Len(task[k].queues) : task[k].queues[n] # None
  /\ task[k].pc = "send" => task[k].timer \in Slots
  /\ TaskUp(k) => task[k].has[Heap] # None

Stages == \A k \in Launches : AppStage(k) /\ RecvStage(k) /\ TaskStage(k)

LEMMA RecvOpenDoes ==
  ASSUME Typed, NEW k \in Launches, RecvOpen(k)
  PROVE  /\ Typed' /\ recv[k].pc = "open"
         /\ exists'["Test"] = (IF Creatable("Test") THEN k ELSE exists["Test"])
         /\ \A n \in Names \ {"Test"} : exists'[n] = exists[n]
         /\ recv'[k].pc = "wait" /\ recv'[k].queue = Create("Test", k)
         /\ recv'[k].when = (IF clearing THEN "clearing"
                             ELSE IF task[k].pc \in {"none", "open"} /\ task[k].queues = <<>>
                             THEN "early" ELSE "late")
         /\ \A j \in Launches \ {k} : recv'[j] = recv[j]
         /\ UNCHANGED <<launch, fresh, clearing, program, prepared, app, task, data>>
  <1> DEFINE when == IF clearing THEN "clearing"
                     ELSE IF task[k].pc \in {"none", "open"} /\ task[k].queues = <<>>
                     THEN "early" ELSE "late"
             queue == Create("Test", k)
             new == [recv[k] EXCEPT !.pc = "wait", !.queue = queue, !.when = when]
  <1>1. /\ recv[k].pc = "open"
        /\ exists' = [exists EXCEPT !["Test"] = IF Creatable("Test") THEN k ELSE @]
        /\ recv' = [recv EXCEPT ![k].pc = "wait", ![k].queue = queue, ![k].when = when]
        /\ UNCHANGED <<launch, fresh, clearing, program, prepared, app, task, data>>
    BY DEF RecvOpen
  <1>2. queue \in Objects /\ when \in {"none", "early", "late", "clearing"}
    BY ObjectsApart DEF Create
  <1> HIDE DEF when, queue
  <1>3. recv \in [Launches -> RecvFields] /\ recv[k] \in RecvFields
    BY DEF Typed, RecvOK
  <1>4. recv' = [recv EXCEPT ![k] = new]
    BY <1>1, <1>3
  <1>5. new \in RecvFields /\ new.pc = "wait" /\ new.queue = queue /\ new.when = when
    BY <1>2, <1>3 DEF RecvFields, RecvStates
  <1> HIDE DEF new
  <1>6. recv'[k] = new /\ \A j \in Launches \ {k} : recv'[j] = recv[j]
    BY <1>3, <1>4
  <1>7. RecvOK'
    BY <1>3, <1>4, <1>5 DEF RecvOK
  <1>8. "Test" \in Names /\ exists \in [Names -> Objects \ {Failed}] /\ k \in Objects \ {Failed}
    BY StaticsFacts, ObjectsApart DEF Typed, NamesOK
  <1>9. /\ exists' \in [Names -> Objects \ {Failed}]
        /\ exists'["Test"] = (IF Creatable("Test") THEN k ELSE exists["Test"])
        /\ \A n \in Names \ {"Test"} : exists'[n] = exists[n]
    BY <1>1, <1>8
  <1>10. Typed'
    BY <1>1, <1>7, <1>9 DEF Typed, NamesOK, AppOK, TaskOK, DataOK, data
  <1> QED BY <1>1, <1>5, <1>6, <1>9, <1>10 DEF when, queue

LEMMA ReceiveFailsDoes ==
  ASSUME Typed, NEW k \in Launches, ReceiveFails(k)
  PROVE  /\ Typed' /\ recv[k].pc = "wait" /\ recv[k].queue = Failed /\ AppEnds(k, "abort")
         /\ UNCHANGED <<names, task, data>>
  <1>1. /\ recv[k].pc = "wait" /\ recv[k].queue = Failed /\ AppEnds(k, "abort")
        /\ UNCHANGED <<names, task, data>>
    BY DEF ReceiveFails
  <1>2. AppOK' /\ RecvOK'
    BY <1>1, AppEndsDoes DEF Ends
  <1> QED BY <1>1, <1>2 DEF Typed, NamesOK, TaskOK, DataOK, names, data

LEMMA BufferBack ==
  ASSUME NEW b \in Buffers
  PROVE  Deserialize(b) \in Received
  BY FireMessageBack DEF Buffers, Received

LEMMA ReceiveDoes ==
  ASSUME Typed, Stages, NEW k \in Launches, Receive(k)
  PROVE  /\ Typed' /\ recv[k].pc = "wait" /\ recv[k].queue = k /\ mq[k] # <<>>
         /\ got' = [got EXCEPT ![k] = Append(got[k], Deserialize(Head(mq[k])))]
         /\ mq' = [mq EXCEPT ![k] = Tail(mq[k])]
         /\ UNCHANGED <<names, app, recv, task, heap, asked, sent>>
  <1>1. recv[k].pc = "wait" /\ recv[k].queue = k
    BY DEF Receive, Stages, RecvStage
  <1>2. /\ mq[k] # <<>>
        /\ got' = [got EXCEPT ![k] = Append(got[k], Deserialize(Head(mq[k])))]
        /\ mq' = [mq EXCEPT ![k] = Tail(mq[k])]
        /\ UNCHANGED <<names, app, recv, task, heap, asked, sent>>
    BY <1>1 DEF Receive
  <1>3. /\ mq \in [Launches -> Seq(Buffers)] /\ mq[k] \in Seq(Buffers)
        /\ got \in [Launches -> Seq(Received)] /\ got[k] \in Seq(Received)
    BY DEF Typed, DataOK
  <1>4. Head(mq[k]) \in Buffers /\ Tail(mq[k]) \in Seq(Buffers)
    BY <1>2, <1>3
  <1>5. Append(got[k], Deserialize(Head(mq[k]))) \in Seq(Received)
    BY <1>3, <1>4, BufferBack
  <1>6. DataOK'
    BY <1>2, <1>3, <1>4, <1>5 DEF Typed, DataOK
  <1> QED BY <1>1, <1>2, <1>6 DEF Typed, NamesOK, AppOK, RecvOK, TaskOK, names

LEMMA TaskOpenDoes ==
  ASSUME Typed, Stages, NEW k \in Launches, TaskOpen(k)
  PROVE  /\ Typed' /\ task[k].pc = "open"
         /\ \E o \in Objects \ {None} :
              /\ task[k].queues = <<>> => o = Open("Test")
              /\ task'[k].queues = Append(task[k].queues, o)
         /\ task'[k].pc = IF Len(task'[k].queues) = 3 THEN "poll" ELSE "open"
         /\ task'[k].has = task[k].has
         /\ \A j \in Launches \ {k} : task'[j] = task[j]
         /\ UNCHANGED <<names, app, recv, data>>
  <1> DEFINE o == Open(PathNameFromId[Len(task[k].queues) + 1])
             queues == Append(task[k].queues, o)
             pc == IF Len(queues) = 3 THEN "poll" ELSE "open"
             new == [task[k] EXCEPT !.queues = queues, !.pc = pc]
  <1>1. /\ task[k].pc = "open"
        /\ task' = [task EXCEPT ![k].queues = queues, ![k].pc = pc]
        /\ UNCHANGED <<names, app, recv, data>>
    <2>1. Len(PathNameFromId) = 3
      BY DEF PathNameFromId
    <2> QED BY <2>1 DEF TaskOpen
  <1>2. task \in [Launches -> TaskFields] /\ task[k] \in TaskFields
    BY DEF Typed, TaskOK
  <1>3. task[k].queues \in Seq(Objects) /\ Len(task[k].queues) < 3
    BY <1>1, <1>2 DEF Stages, TaskStage, TaskFields
  <1>4. PathNameFromId[Len(task[k].queues) + 1] \in Names
    <2>1. Len(task[k].queues) + 1 \in {1, 2, 3}
      BY <1>3
    <2>2. \A n \in {1, 2, 3} : PathNameFromId[n] \in Names
      BY DEF PathNameFromId, Names
    <2> QED BY <2>1, <2>2
  <1>5. o \in Objects \ {None}
    BY <1>4, ObjectsApart DEF Open, Typed, NamesOK
  <1>6. task[k].queues = <<>> => o = Open("Test")
    BY DEF PathNameFromId
  <1> HIDE DEF o
  <1>7. queues \in Seq(Objects) /\ pc \in TaskStates
    BY <1>3, <1>5 DEF TaskStates
  <1> HIDE DEF queues, pc
  <1>8. task' = [task EXCEPT ![k] = new]
    BY <1>1, <1>2
  <1>9. new \in TaskFields /\ new.queues = queues /\ new.pc = pc /\ new.has = task[k].has
    BY <1>2, <1>7 DEF TaskFields
  <1> HIDE DEF new
  <1>10. task'[k] = new /\ \A j \in Launches \ {k} : task'[j] = task[j]
    BY <1>2, <1>8
  <1>11. TaskOK'
    <2>1. task' \in [Launches -> TaskFields]
      BY <1>2, <1>8, <1>9
    <2>2. \A j \in Launches : task'[j].has = task[j].has
      BY <1>9, <1>10
    <2> QED BY <2>1, <2>2 DEF Typed, TaskOK
  <1>12. Typed'
    BY <1>1, <1>11 DEF Typed, NamesOK, AppOK, RecvOK, DataOK, names, data
  <1>13. task'[k].queues = Append(task[k].queues, o)
    BY <1>9, <1>10 DEF queues
  <1>14. task'[k].pc = IF Len(task'[k].queues) = 3 THEN "poll" ELSE "open"
    BY <1>9, <1>10 DEF pc
  <1> QED BY <1>1, <1>5, <1>6, <1>9, <1>10, <1>12, <1>13, <1>14

LEMMA PollFaultsDoes ==
  ASSUME Typed, NEW k \in Launches, PollFaults(k)
  PROVE  /\ Typed' /\ task[k].pc = "poll" /\ task[k].has[Heap] = Failed
         /\ task'[k] = NoTask("fault") /\ \A j \in Launches \ {k} : task'[j] = task[j]
         /\ UNCHANGED <<names, app, recv, data>>
  <1>1. /\ task[k].pc = "poll" /\ task[k].has[Heap] = Failed
        /\ task' = [task EXCEPT ![k] = NoTask("fault")]
        /\ UNCHANGED <<names, app, recv, data>>
    BY DEF PollFaults
  <1>2. /\ TaskOK' /\ task'[k] = NoTask("fault")
        /\ \A j \in Launches \ {k} : task'[j] = task[j]
    BY <1>1, TaskEndsDoes
  <1> QED BY <1>1, <1>2 DEF Typed, NamesOK, AppOK, RecvOK, DataOK, names, data

LEMMA SendFailsDoes ==
  ASSUME Typed, NEW k \in Launches, SendFails(k)
  PROVE  /\ Typed' /\ task[k].pc = "send" /\ task[k].queues[Test] = Failed
         /\ task'[k] = NoTask("abort") /\ \A j \in Launches \ {k} : task'[j] = task[j]
         /\ UNCHANGED <<names, app, recv, data>>
  <1>1. /\ task[k].pc = "send" /\ task[k].queues[Test] = Failed
        /\ task' = [task EXCEPT ![k] = NoTask("abort")]
        /\ UNCHANGED <<names, app, recv, data>>
    BY DEF SendFails
  <1>2. /\ TaskOK' /\ task'[k] = NoTask("abort")
        /\ \A j \in Launches \ {k} : task'[j] = task[j]
    BY <1>1, TaskEndsDoes
  <1> QED BY <1>1, <1>2 DEF Typed, NamesOK, AppOK, RecvOK, DataOK, names, data

LEMMA FireDoes ==
  ASSUME Typed, Stages, NEW k \in Launches, NEW i \in Slots, Fire(k, i)
  PROVE  /\ Typed' /\ task[k].pc = "poll" /\ task[k].has[Heap] = k /\ i \in heap[k]
         /\ heap' = [heap EXCEPT ![k] = @ \ {i}]
         /\ task'[k].pc = "send" /\ task'[k].timer = i
         /\ task'[k].has = task[k].has /\ task'[k].queues = task[k].queues
         /\ \A j \in Launches \ {k} : task'[j] = task[j]
         /\ UNCHANGED <<names, app, recv, mq, asked, sent, got>>
  <1> DEFINE new == [task[k] EXCEPT !.pc = "send", !.timer = i]
  <1>1. task[k].pc = "poll" /\ task[k].has[Heap] # Failed
    BY DEF Fire
  <1>2. task[k].has[Heap] = k
    BY <1>1, StaticsFacts DEF Stages, TaskStage, TaskUp, Typed, TaskOK, HasOwn
  <1>3. /\ i \in heap[k] /\ heap' = [heap EXCEPT ![k] = @ \ {i}]
        /\ task' = [task EXCEPT ![k].pc = "send", ![k].timer = i]
        /\ UNCHANGED <<names, app, recv, mq, asked, sent, got>>
    BY <1>2 DEF Fire
  <1>4. task \in [Launches -> TaskFields] /\ task[k] \in TaskFields
    BY DEF Typed, TaskOK
  <1>5. task' = [task EXCEPT ![k] = new]
    BY <1>3, <1>4
  <1>6. /\ new \in TaskFields /\ new.pc = "send" /\ new.timer = i
        /\ new.has = task[k].has /\ new.queues = task[k].queues
    BY <1>4 DEF TaskFields, TaskStates
  <1> HIDE DEF new
  <1>7. task'[k] = new /\ \A j \in Launches \ {k} : task'[j] = task[j]
    BY <1>4, <1>5
  <1>8. TaskOK'
    <2>1. task' \in [Launches -> TaskFields]
      BY <1>4, <1>5, <1>6
    <2>2. \A j \in Launches : task'[j].has = task[j].has
      BY <1>6, <1>7
    <2> QED BY <2>1, <2>2 DEF Typed, TaskOK
  <1>9. DataOK'
    BY <1>3 DEF Typed, DataOK
  <1>10. Typed'
    BY <1>3, <1>8, <1>9 DEF Typed, NamesOK, AppOK, RecvOK, names
  <1> QED BY <1>1, <1>2, <1>3, <1>6, <1>7, <1>10

LEMMA SendDoes ==
  ASSUME Typed, Stages, NEW k \in Launches, Send(k)
  PROVE  /\ Typed' /\ task[k].pc = "send" /\ task[k].timer \in Slots
         /\ task[k].queues # <<>> /\ task[k].queues[1] \in Launches
         /\ mq' = [mq EXCEPT ![task[k].queues[1]] =
                     Append(mq[task[k].queues[1]], Serialize(FireMessage(task[k].timer)))]
         /\ sent' = [sent EXCEPT ![k] = Append(sent[k], task[k].timer)]
         /\ task'[k].pc = "poll" /\ task'[k].has = task[k].has
         /\ task'[k].queues = task[k].queues
         /\ \A j \in Launches \ {k} : task'[j] = task[j]
         /\ UNCHANGED <<names, app, recv, heap, asked, got>>
  <1> DEFINE q == task[k].queues[1]
             new == [task[k] EXCEPT !.pc = "poll"]
  <1>1. /\ task[k].pc = "send" /\ q # Failed
        /\ mq' = [mq EXCEPT ![q] = Append(mq[q], Serialize(FireMessage(task[k].timer)))]
        /\ sent' = [sent EXCEPT ![k] = Append(sent[k], task[k].timer)]
        /\ task' = [task EXCEPT ![k].pc = "poll"]
        /\ UNCHANGED <<names, app, recv, heap, asked, got>>
    BY DEF Send, Test
  <1>2. /\ task \in [Launches -> TaskFields] /\ task[k] \in TaskFields
        /\ task' = [task EXCEPT ![k] = new]
    BY <1>1 DEF Typed, TaskOK
  <1>3. /\ task[k].timer \in Slots /\ task[k].queues \in Seq(Objects)
        /\ Len(task[k].queues) = 3 /\ task[k].queues[1] # None
    <2>1. TaskStage(k)
      BY DEF Stages
    <2>2. task[k].timer \in Slots /\ Len(task[k].queues) = 3
      BY <1>1, <2>1 DEF TaskStage
    <2>3. task[k].queues \in Seq(Objects)
      BY <1>2 DEF TaskFields
    <2>4. 1 \in 1 .. Len(task[k].queues)
      BY <2>2
    <2>5. task[k].queues[1] # None
      BY <2>1, <2>4 DEF TaskStage
    <2> QED BY <2>2, <2>3, <2>5
  <1>4. q \in Launches /\ task[k].queues # <<>>
    <2>1. q \in Objects
      BY <1>3
    <2> QED BY <1>1, <1>3, <2>1 DEF Objects
  <1>5. /\ new \in TaskFields /\ new.pc = "poll" /\ new.has = task[k].has
        /\ new.queues = task[k].queues
    BY <1>2 DEF TaskFields, TaskStates
  <1> HIDE DEF new
  <1>6. task'[k] = new /\ \A j \in Launches \ {k} : task'[j] = task[j]
    BY <1>2
  <1>7. TaskOK'
    <2>1. task' \in [Launches -> TaskFields]
      BY <1>2, <1>5
    <2>2. \A j \in Launches : task'[j].has = task[j].has
      BY <1>5, <1>6
    <2> QED BY <2>1, <2>2 DEF Typed, TaskOK
  <1>8. Serialize(FireMessage(task[k].timer)) \in Buffers
    BY <1>3 DEF Buffers
  <1> HIDE DEF q
  <1>9. DataOK'
    <2>1. mq[q] \in Seq(Buffers) /\ mq \in [Launches -> Seq(Buffers)]
      BY <1>4 DEF Typed, DataOK
    <2>2. Append(mq[q], Serialize(FireMessage(task[k].timer))) \in Seq(Buffers)
      BY <1>8, <2>1
    <2>3. mq' \in [Launches -> Seq(Buffers)]
      BY <1>1, <2>1, <2>2
    <2>4. sent[k] \in Seq(Slots) /\ sent \in [Launches -> Seq(Slots)]
      BY DEF Typed, DataOK
    <2>5. sent' \in [Launches -> Seq(Slots)]
      BY <1>1, <1>3, <2>4
    <2> QED BY <1>1, <2>3, <2>5 DEF Typed, DataOK
  <1>10. Typed'
    BY <1>1, <1>7, <1>9 DEF Typed, NamesOK, AppOK, RecvOK, names
  <1> QED BY <1>1, <1>3, <1>4, <1>5, <1>6, <1>10 DEF q

\* A launch that a step leaves alone keeps its stages.
LEMMA StageKept ==
  ASSUME Stages, NEW j \in Launches, Keeps(j), program'[j] = program[j], launch' = launch
  PROVE  AppStage(j)' /\ RecvStage(j)' /\ TaskStage(j)'
  <1>1. AppStage(j)'
    BY DEF Stages, AppStage, Keeps, AppUp, Ready
  <1>2. RecvStage(j)'
    BY DEF Stages, RecvStage, Keeps
  <1>3. TaskStage(j)'
    BY DEF Stages, TaskStage, Keeps, TaskUp
  <1> QED BY <1>1, <1>2, <1>3

LEMMA InitStages == Init => Stages
  <1> SUFFICES ASSUME Init, NEW k \in Launches
               PROVE  AppStage(k) /\ RecvStage(k) /\ TaskStage(k)
    BY DEF Stages
  <1>1. /\ app[k].pc = "none" /\ app[k].has = NoStatics
        /\ recv[k].pc = "none" /\ recv[k].queue = None
        /\ task[k].pc = "none" /\ task[k].queues = <<>>
    BY NothingTyped DEF Init
  <1> QED BY <1>1 DEF AppStage, RecvStage, TaskStage, AppUp, TaskUp, Ready

LEMMA AppEndsStages ==
  ASSUME Typed, Stages, NEW k \in Launches, NEW how \in Ends, AppEnds(k, how),
         app[k].pc # "none", UNCHANGED <<task, program, launch>>
  PROVE  Stages'
  <1>1. /\ app'[k].pc = how /\ app'[k].has = NoStatics
        /\ recv'[k].pc = "end" /\ recv'[k].queue = recv[k].queue
        /\ \A j \in Launches \ {k} : app'[j] = app[j] /\ recv'[j] = recv[j]
    BY AppEndsDoes
  <1> SUFFICES ASSUME NEW j \in Launches
               PROVE  AppStage(j)' /\ RecvStage(j)' /\ TaskStage(j)'
    BY DEF Stages
  <1>2. CASE j # k
    BY <1>1, <1>2, StageKept DEF Keeps
  <1>3. CASE j = k
    <2>0. AppStage(k) /\ RecvStage(k) /\ TaskStage(k)
      BY DEF Stages
    <2>1. AppStage(k)'
      BY <1>1, <2>0 DEF AppStage, AppUp, Ready, Ends
    <2>2. RecvStage(k)'
      BY <1>1, <2>0 DEF RecvStage, Ends
    <2>3. TaskStage(k)'
      BY <1>1, <2>0 DEF TaskStage, TaskUp, Ends
    <2> QED BY <1>3, <2>1, <2>2, <2>3
  <1> QED BY <1>2, <1>3

\* Nor does the end of a TimerTask disturb the others.
LEMMA TaskEndsStages ==
  ASSUME Typed, Stages, NEW k \in Launches, NEW how \in {"abort", "fault", "killed"},
         TaskUp(k), task'[k] = NoTask(how), \A j \in Launches \ {k} : task'[j] = task[j],
         UNCHANGED <<app, recv, program, launch>>
  PROVE  Stages'
  <1> SUFFICES ASSUME NEW j \in Launches
               PROVE  AppStage(j)' /\ RecvStage(j)' /\ TaskStage(j)'
    BY DEF Stages
  <1>2. CASE j # k
    BY <1>2, StageKept DEF Keeps
  <1>3. CASE j = k
    <2>0. AppStage(k) /\ RecvStage(k) /\ TaskStage(k)
      BY DEF Stages
    <2>1. AppStage(k)' /\ RecvStage(k)'
      BY <2>0 DEF AppStage, AppUp, Ready, RecvStage
    <2>2. task'[k].pc = how /\ task'[k].queues = <<>>
      BY NothingTyped
    <2>3. task[k].pc # "none"
      BY DEF TaskUp
    <2>4. TaskStage(k)'
      BY <2>0, <2>2, <2>3 DEF TaskStage, TaskUp
    <2> QED BY <1>3, <2>1, <2>4
  <1> QED BY <1>2, <1>3

LEMMA OperatorStages ==
  ASSUME Typed, Stages, Operator
  PROVE  Stages'
  <1>1. ASSUME NEW p \in {"timers", "pool"}, Launch(p)
        PROVE  Stages'
    <2>1. /\ launch' = launch + 1 /\ launch' \in Launches
          /\ app'[launch'].pc = "load" /\ app'[launch'].has = app[launch'].has
          /\ \A j \in Launches \ {launch'} : app'[j] = app[j] /\ program'[j] = program[j]
          /\ UNCHANGED <<recv, task>>
      BY <1>1, LaunchDoes DEF data
    <2>2. launch \in Nat
      BY StartupAssumption DEF Typed, NamesOK
    <2> SUFFICES ASSUME NEW j \in Launches
                 PROVE  AppStage(j)' /\ RecvStage(j)' /\ TaskStage(j)'
      BY DEF Stages
    <2>3. j \in Nat
      BY ObjectsApart
    <2>4. AppStage(j) /\ RecvStage(j) /\ TaskStage(j)
      BY DEF Stages
    <2>5. CASE j # launch'
      <3>1. app'[j] = app[j] /\ program'[j] = program[j] /\ (j > launch' => j > launch)
        BY <2>1, <2>2, <2>3, <2>5
      <3>2. AppStage(j)'
        BY <2>4, <3>1 DEF AppStage, AppUp, Ready
      <3> QED BY <2>1, <2>4, <3>1, <3>2 DEF RecvStage, TaskStage, TaskUp
    <2>6. CASE j = launch'
      <3>1. app[j].pc = "none" /\ app[j].has = NoStatics
        BY <2>1, <2>2, <2>3, <2>4, <2>6 DEF AppStage, AppUp
      <3>2. \A p1 \in Pools : NoStatics[p1] = None
        BY StaticsFacts DEF NoStatics
      <3>3. app'[j].pc = "load" /\ app'[j].has = NoStatics
        BY <2>1, <2>6, <3>1
      <3>4. ~(j > launch')
        BY <2>3, <2>6
      <3>5. AppStage(j)'
        BY <3>2, <3>3, <3>4 DEF AppStage, AppUp, Ready
      <3>6. RecvStage(j)'
        BY <2>1, <2>4, <3>1, <3>3 DEF RecvStage
      <3>7. TaskStage(j)'
        BY <2>1, <2>4, <3>1, <3>3 DEF TaskStage, TaskUp
      <3> QED BY <3>5, <3>6, <3>7
    <2> QED BY <2>5, <2>6
  <1>2. CASE Clear
    BY <1>2, ClearDoes, StageKept DEF Stages, Keeps
  <1>3. CASE KillAll
    <2>1. /\ \A k \in Launches :
               /\ app'[k] = IF AppUp(k) THEN NoApp("killed") ELSE app[k]
               /\ task'[k] = IF TaskUp(k) THEN NoTask("killed") ELSE task[k]
               /\ recv'[k].queue = recv[k].queue
               /\ recv'[k].pc = IF AppUp(k) THEN "end" ELSE recv[k].pc
          /\ UNCHANGED <<launch, program>>
      BY <1>3, KillAllDoes
    <2> SUFFICES ASSUME NEW j \in Launches
                 PROVE  AppStage(j)' /\ RecvStage(j)' /\ TaskStage(j)'
      BY DEF Stages
    <2>2. AppStage(j) /\ RecvStage(j) /\ TaskStage(j)
      BY DEF Stages
    <2>3. \/ /\ AppUp(j) /\ app'[j].pc = "killed" /\ app'[j].has = NoStatics /\ recv'[j].pc = "end"
          \/ ~AppUp(j) /\ app'[j] = app[j] /\ recv'[j].pc = recv[j].pc
      BY <2>1, NothingTyped
    <2>4. \/ TaskUp(j) /\ task'[j].pc = "killed" /\ task'[j].queues = <<>>
          \/ ~TaskUp(j) /\ task'[j] = task[j]
      BY <2>1, NothingTyped
    <2>5. AppStage(j)'
      BY <2>1, <2>2, <2>3 DEF AppStage, AppUp, Ready
    <2>6. RecvStage(j)'
      BY <2>1, <2>2, <2>3 DEF RecvStage, AppUp
    <2>7. TaskStage(j)'
      <3>1. CASE TaskUp(j)
        <4>1. task'[j].pc = "killed" /\ task'[j].queues = <<>>
          BY <2>4, <3>1
        <4>2. app'[j].pc \notin {"none", "load", "start", "fork"}
          BY <2>2, <2>3, <3>1 DEF TaskStage, TaskUp, AppUp
        <4> QED BY <4>1, <4>2 DEF TaskStage, TaskUp
      <3>2. CASE ~TaskUp(j)
        <4>1. task'[j] = task[j]
          BY <2>4, <3>2
        <4>2. app'[j].pc \in {"none", "load", "start", "fork"} => app[j].pc \in {"none", "load", "start", "fork"}
          BY <2>3
        <4> QED BY <2>2, <4>1, <4>2 DEF TaskStage, TaskUp
      <3> QED BY <3>1, <3>2
    <2> QED BY <2>5, <2>6, <2>7
  <1>4. ASSUME NEW k \in Launches, Kill(k)
        PROVE  Stages'
    BY <1>4, KillDoes, AppEndsStages DEF Ends, AppUp, names
  <1>5. ASSUME NEW k \in Launches, KillTask(k)
        PROVE  Stages'
    BY <1>5, KillTaskDoes, TaskEndsStages DEF names
  <1> QED BY <1>1, <1>2, <1>3, <1>4, <1>5 DEF Operator

LEMMA StartsStages ==
  ASSUME Typed, Stages, NEW k \in Launches, Starts(k)
  PROVE  Stages'
  <1>0. AppStage(k) /\ RecvStage(k) /\ TaskStage(k)
    BY DEF Stages
  <1>1. ASSUME NEW s \in AllStatics, Load(k, s)
        PROVE  Stages'
    <2> DEFINE has == [app[k].has EXCEPT ![s] = Create(s, k)]
    <2>1. /\ app[k].pc = "load"
          /\ \/ app'[k] = NoApp("fault")
             \/ /\ s \in Pools \cup Statics.pool => Creatable(s)
                /\ app'[k].has = has
                /\ \/ app'[k].pc = "load"
                   \/ /\ app'[k].pc = "start"
                      /\ \A t \in Statics[program[k]] : has[t] # None
          /\ \A j \in Launches \ {k} : app'[j] = app[j]
          /\ UNCHANGED <<launch, program, recv, task>>
      BY <1>1, LoadDoes
    <2> SUFFICES ASSUME NEW j \in Launches
                 PROVE  AppStage(j)' /\ RecvStage(j)' /\ TaskStage(j)'
      BY DEF Stages
    <2>2. CASE j # k
      BY <2>1, <2>2, StageKept DEF Keeps
    <2>3. CASE app'[k] = NoApp("fault")
      <3>1. app'[k].pc = "fault" /\ app'[k].has = NoStatics
        BY <2>3, NothingTyped
      <3>2. AppStage(k)'
        BY <1>0, <2>1, <3>1 DEF AppStage, AppUp, Ready
      <3>3. RecvStage(k)' /\ TaskStage(k)'
        BY <1>0, <2>1, <3>1 DEF RecvStage, TaskStage, TaskUp
      <3> QED BY <2>2, <3>2, <3>3
    <2>4. CASE app'[k] # NoApp("fault")
      <3>1. /\ s \in Pools => Create(s, k) = k
            /\ app'[k].has = has
            /\ \/ app'[k].pc = "load"
               \/ app'[k].pc = "start" /\ \A t \in Statics[program[k]] : has[t] # None
        BY <2>1, <2>4 DEF Create
      <3>2. app[k].has \in [AllStatics -> Objects]
        BY DEF Typed, AppOK, AppFields
      <3>3. \A t \in AllStatics : has[t] = IF t = s THEN Create(s, k) ELSE app[k].has[t]
        BY <3>2
      <3> HIDE DEF has
      <3>4. \A p \in Pools : has[p] \in {None, k}
        BY <1>0, <2>1, <3>1, <3>3, StaticsFacts DEF AppStage
      <3>5. app'[k].pc = "start" /\ program[k] = "timers"
              => /\ \A t \in Statics.timers : has[t] # None
                 /\ \A p \in Pools : has[p] = k
        BY <3>1, <3>4, StaticsFacts
      <3>6. AppStage(k)'
        BY <1>0, <2>1, <3>1, <3>4, <3>5 DEF AppStage, AppUp, Ready
      <3>7. RecvStage(k)' /\ TaskStage(k)'
        BY <1>0, <2>1, <3>1 DEF RecvStage, TaskStage, TaskUp
      <3> QED BY <2>2, <3>6, <3>7
    <2> QED BY <2>3, <2>4
  <1>2. CASE PoolMain(k)
    BY <1>2, PoolMainDoes, AppEndsStages DEF Ends
  <1>3. CASE StartThread(k)
    <2>1. /\ app[k].pc = "start" /\ program[k] = "timers"
          /\ app'[k].pc = "fork" /\ app'[k].has = app[k].has
          /\ recv'[k].pc = "open" /\ recv'[k].queue = recv[k].queue
          /\ \A j \in Launches \ {k} : Keeps(j)
          /\ UNCHANGED <<launch, program, task>>
      BY <1>3, StartThreadDoes DEF names
    <2> SUFFICES ASSUME NEW j \in Launches
                 PROVE  AppStage(j)' /\ RecvStage(j)' /\ TaskStage(j)'
      BY DEF Stages
    <2>2. CASE j # k
      BY <2>1, <2>2, StageKept
    <2>3. AppStage(k)'
      BY <1>0, <2>1 DEF AppStage, AppUp, Ready
    <2>4. RecvStage(k)' /\ TaskStage(k)'
      BY <1>0, <2>1 DEF RecvStage, TaskStage, TaskUp
    <2> QED BY <2>2, <2>3, <2>4
  <1>4. CASE Fork(k)
    <2>1. /\ app[k].pc = "fork"
          /\ app'[k].pc = "main" /\ app'[k].has = app[k].has
          /\ task'[k].pc = "open" /\ task'[k].has = app[k].has
          /\ task'[k].queues = task[k].queues
          /\ \A j \in Launches \ {k} : Keeps(j)
          /\ UNCHANGED <<launch, program, recv>>
      BY <1>4, ForkDoes DEF names
    <2> SUFFICES ASSUME NEW j \in Launches
                 PROVE  AppStage(j)' /\ RecvStage(j)' /\ TaskStage(j)'
      BY DEF Stages
    <2>2. CASE j # k
      BY <2>1, <2>2, StageKept
    <2>3. AppStage(k)' /\ RecvStage(k)'
      BY <1>0, <2>1 DEF AppStage, AppUp, Ready, RecvStage
    <2>4. task[k].queues = <<>> /\ app[k].has[Heap] # None
      BY <1>0, <2>1, StaticsFacts DEF TaskStage, TaskUp, AppStage, Ready
    <2>5. TaskStage(k)'
      BY <2>1, <2>4 DEF TaskStage, TaskUp
    <2> QED BY <2>2, <2>3, <2>5
  <1>5. CASE ForkFails(k)
    BY <1>5, ForkFailsDoes, AppEndsStages DEF Ends, names
  <1> QED BY <1>1, <1>2, <1>3, <1>4, <1>5 DEF Starts

LEMMA ReceiverStages ==
  ASSUME Typed, Stages, NEW k \in Launches, Receiver(k)
  PROVE  Stages'
  <1>0. AppStage(k) /\ RecvStage(k) /\ TaskStage(k)
    BY DEF Stages
  <1>1. CASE RecvOpen(k)
    <2>1. /\ recv[k].pc = "open"
          /\ recv'[k].pc = "wait" /\ recv'[k].queue = Create("Test", k)
          /\ \A j \in Launches \ {k} : recv'[j] = recv[j]
          /\ UNCHANGED <<launch, program, app, task>>
      BY <1>1, RecvOpenDoes
    <2>2. Create("Test", k) \in {Failed, k} /\ Create("Test", k) # None
      BY ObjectsApart DEF Create
    <2> SUFFICES ASSUME NEW j \in Launches
                 PROVE  AppStage(j)' /\ RecvStage(j)' /\ TaskStage(j)'
      BY DEF Stages
    <2>3. CASE j # k
      BY <2>1, <2>3, StageKept DEF Keeps
    <2>4. AppStage(k)' /\ TaskStage(k)'
      BY <1>0, <2>1 DEF AppStage, AppUp, Ready, TaskStage, TaskUp
    <2>5. RecvStage(k)'
      BY <1>0, <2>1, <2>2 DEF RecvStage
    <2> QED BY <2>3, <2>4, <2>5
  <1>2. CASE ReceiveFails(k)
    <2>1. recv[k].pc = "wait" /\ AppEnds(k, "abort") /\ UNCHANGED <<task, program, launch>>
      BY <1>2, ReceiveFailsDoes DEF names
    <2> QED BY <1>0, <2>1, AppEndsStages DEF Ends, RecvStage
  <1>3. CASE Receive(k)
    BY <1>3, ReceiveDoes, StageKept DEF Stages, Keeps, names
  <1> QED BY <1>1, <1>2, <1>3 DEF Receiver

LEMMA TimersStages ==
  ASSUME Typed, Stages, NEW k \in Launches, Timers(k)
  PROVE  Stages'
  <1>0. AppStage(k) /\ RecvStage(k) /\ TaskStage(k)
    BY DEF Stages
  <1>1. CASE TaskOpen(k)
    <2>1. /\ task[k].pc = "open"
          /\ \E o \in Objects \ {None} : task'[k].queues = Append(task[k].queues, o)
          /\ task'[k].pc = IF Len(task'[k].queues) = 3 THEN "poll" ELSE "open"
          /\ task'[k].has = task[k].has
          /\ \A j \in Launches \ {k} : task'[j] = task[j]
          /\ UNCHANGED <<launch, program, app, recv>>
      BY <1>1, TaskOpenDoes DEF names
    <2>2. PICK o \in Objects \ {None} : task'[k].queues = Append(task[k].queues, o)
      BY <2>1
    <2>3. task[k].queues \in Seq(Objects)
      BY DEF Typed, TaskOK, TaskFields
    <2> SUFFICES ASSUME NEW j \in Launches
                 PROVE  AppStage(j)' /\ RecvStage(j)' /\ TaskStage(j)'
      BY DEF Stages
    <2>4. CASE j # k
      BY <2>1, <2>4, StageKept DEF Keeps
    <2>5. AppStage(k)' /\ RecvStage(k)'
      BY <1>0, <2>1 DEF AppStage, AppUp, Ready, RecvStage
    <2>6. /\ Len(task[k].queues) < 3 /\ task[k].has[Heap] # None
          /\ \A n \in 1 .. Len(task[k].queues) : task[k].queues[n] # None
          /\ app[k].pc \notin {"none", "load", "start", "fork"}
      BY <1>0, <2>1 DEF TaskStage, TaskUp
    <2>7. /\ Len(task'[k].queues) = Len(task[k].queues) + 1
          /\ \A n \in 1 .. Len(task'[k].queues) : task'[k].queues[n] # None
      BY <2>2, <2>3, <2>6
    <2>8. Len(task[k].queues) \in Nat
      BY <2>3
    <2>9. TaskStage(k)'
      BY <2>1, <2>6, <2>7, <2>8 DEF TaskStage, TaskUp
    <2> QED BY <2>4, <2>5, <2>9
  <1>2. CASE PollFaults(k)
    BY <1>2, PollFaultsDoes, TaskEndsStages DEF names, TaskUp
  <1>3. CASE SendFails(k)
    BY <1>3, SendFailsDoes, TaskEndsStages DEF names, TaskUp
  <1>4. CASE Send(k)
    <2>1. /\ task[k].pc = "send"
          /\ task'[k].pc = "poll" /\ task'[k].has = task[k].has
          /\ task'[k].queues = task[k].queues
          /\ \A j \in Launches \ {k} : task'[j] = task[j]
          /\ UNCHANGED <<launch, program, app, recv>>
      BY <1>4, SendDoes DEF names
    <2> SUFFICES ASSUME NEW j \in Launches
                 PROVE  AppStage(j)' /\ RecvStage(j)' /\ TaskStage(j)'
      BY DEF Stages
    <2>2. CASE j # k
      BY <2>1, <2>2, StageKept DEF Keeps
    <2>3. AppStage(k)' /\ RecvStage(k)'
      BY <1>0, <2>1 DEF AppStage, AppUp, Ready, RecvStage
    <2>4. TaskStage(k)'
      BY <1>0, <2>1 DEF TaskStage, TaskUp
    <2> QED BY <2>2, <2>3, <2>4
  <1>5. ASSUME NEW i \in Slots, Fire(k, i)
        PROVE  Stages'
    <2>1. /\ task[k].pc = "poll"
          /\ task'[k].pc = "send" /\ task'[k].timer = i
          /\ task'[k].has = task[k].has /\ task'[k].queues = task[k].queues
          /\ \A j \in Launches \ {k} : task'[j] = task[j]
          /\ UNCHANGED <<launch, program, app, recv>>
      BY <1>5, FireDoes DEF names
    <2> SUFFICES ASSUME NEW j \in Launches
                 PROVE  AppStage(j)' /\ RecvStage(j)' /\ TaskStage(j)'
      BY DEF Stages
    <2>2. CASE j # k
      BY <2>1, <2>2, StageKept DEF Keeps
    <2>3. AppStage(k)' /\ RecvStage(k)'
      BY <1>0, <2>1 DEF AppStage, AppUp, Ready, RecvStage
    <2>4. TaskStage(k)'
      BY <1>0, <2>1 DEF TaskStage, TaskUp
    <2> QED BY <2>2, <2>3, <2>4
  <1> QED BY <1>1, <1>2, <1>3, <1>4, <1>5 DEF Timers

LEMMA ScheduleStages ==
  ASSUME Typed, Stages, NEW k \in Launches, NEW i \in Slots, Schedule(k, i)
  PROVE  Stages'
  <1>1. /\ app[k].pc = "main" /\ UNCHANGED <<names, task>>
        /\ AppEnds(k, "fault") \/ UNCHANGED <<app, recv>>
    BY ScheduleDoes
  <1>2. CASE AppEnds(k, "fault")
    BY <1>1, <1>2, AppEndsStages DEF Ends, names
  <1>3. CASE UNCHANGED <<app, recv>>
    BY <1>1, <1>3, StageKept DEF Stages, Keeps, names
  <1> QED BY <1>1, <1>2, <1>3

LEMMA StepTypedStages ==
  ASSUME Typed, Stages, [Next]_vars
  PROVE  Typed' /\ Stages'
  <1>1. CASE Operator
    <2>1. Typed'
      BY <1>1, LaunchDoes, ClearDoes, KillAllDoes, KillDoes, KillTaskDoes DEF Operator
    <2> QED BY <1>1, <2>1, OperatorStages
  <1>2. ASSUME NEW k \in Launches, Starts(k)
        PROVE  Typed' /\ Stages'
    <2>1. Typed'
      BY <1>2, LoadDoes, PoolMainDoes, StartThreadDoes, ForkDoes, ForkFailsDoes DEF Starts
    <2> QED BY <1>2, <2>1, StartsStages
  <1>3. ASSUME NEW k \in Launches, Receiver(k)
        PROVE  Typed' /\ Stages'
    <2>1. Typed'
      BY <1>3, RecvOpenDoes, ReceiveFailsDoes, ReceiveDoes DEF Receiver
    <2> QED BY <1>3, <2>1, ReceiverStages
  <1>4. ASSUME NEW k \in Launches, Timers(k)
        PROVE  Typed' /\ Stages'
    <2>1. Typed'
      BY <1>4, TaskOpenDoes, PollFaultsDoes, SendFailsDoes, SendDoes, FireDoes DEF Timers
    <2> QED BY <1>4, <2>1, TimersStages
  <1>5. ASSUME NEW k \in Launches, NEW i \in Slots, Schedule(k, i)
        PROVE  Typed' /\ Stages'
    BY <1>5, ScheduleDoes, ScheduleStages
  <1>6. CASE UNCHANGED vars
    <2>1. Typed'
      BY <1>6 DEF vars, names, data, Typed, NamesOK, AppOK, RecvOK, TaskOK, DataOK
    <2>2. Stages'
      BY <1>6, StageKept DEF vars, names, Stages, Keeps
    <2> QED BY <2>1, <2>2
  <1> QED BY <1>1, <1>2, <1>3, <1>4, <1>5, <1>6 DEF Next

(***************************************************************************)
(* One launch at a time has the pools.  No two applications are past their *)
(* loading, with their receiver or TimerTask, at a time: the later one has *)
(* both pools, which the earlier one holds until the names are cleared.    *)
(***************************************************************************)

Alive(k) == Ready(k) \/ TaskUp(k)

Owners ==
  /\ \A j, k \in Launches : Alive(j) /\ Alive(k) => j = k
  /\ ~clearing => \A k \in Launches : Alive(k) => \A p \in Pools : exists[p] = k
  /\ \A k \in Launches : app[k].pc = "load" =>
       /\ ~clearing
       /\ \A s \in Statics.timers : app[k].has[s] = k => exists[s] = k
  /\ clearing => \A s \in Statics.timers : exists[s] = None

LEMMA InitOwners == Init => Owners
  <1> SUFFICES ASSUME Init PROVE Owners
    OBVIOUS
  <1>1. \A k \in Launches : app[k].pc = "none" /\ task[k].pc = "none"
    BY NothingTyped DEF Init
  <1>2. ~clearing
    BY DEF Init
  <1> QED BY <1>1, <1>2 DEF Owners, Alive, Ready, TaskUp

LEMMA OwnersKept ==
  ASSUME Owners, clearing' = clearing, \A s \in Statics.timers : exists'[s] = exists[s],
         \A k \in Launches : Alive(k)' => Alive(k),
         \A k \in Launches : app'[k].pc = "load" => app'[k] = app[k]
  PROVE  Owners'
  <1>1. \A p \in Pools : p \in Statics.timers
    BY StaticsFacts
  <1> QED BY <1>1 DEF Owners

LEMMA AppEndsOwners ==
  ASSUME Typed, Stages, Owners, NEW k \in Launches, NEW how \in Ends, AppEnds(k, how),
         \A s \in Statics.timers : exists'[s] = exists[s], UNCHANGED <<clearing, program, task>>
  PROVE  Owners'
  <1>1. app'[k].pc = how /\ \A j \in Launches \ {k} : app'[j] = app[j]
    BY AppEndsDoes
  <1>2. \A j \in Launches : Alive(j)' => Alive(j)
    BY <1>1 DEF Alive, Ready, TaskUp, Ends
  <1>3. \A j \in Launches : app'[j].pc = "load" => app'[j] = app[j]
    BY <1>1 DEF Ends
  <1> QED BY <1>2, <1>3, OwnersKept

LEMMA TimersOwners ==
  ASSUME Typed, Stages, Owners, NEW k \in Launches, Timers(k)
  PROVE  Owners'
  <1>1. /\ TaskUp(k)
        /\ \A j \in Launches \ {k} : task'[j] = task[j]
        /\ UNCHANGED <<names, app, recv>>
    <2>1. TaskUp(k)
      BY DEF Timers, TaskOpen, PollFaults, SendFails, Send, Fire, TaskUp
    <2> QED
      BY <2>1, TaskOpenDoes, PollFaultsDoes, SendFailsDoes, SendDoes, FireDoes DEF Timers, data
  <1>2. \A j \in Launches : Alive(j)' => Alive(j)
    BY <1>1 DEF Alive, Ready, TaskUp, names
  <1> QED BY <1>1, <1>2, OwnersKept DEF names

LEMMA LoadOwners ==
  ASSUME Typed, Stages, Owners, NEW k \in Launches, NEW s \in AllStatics, Load(k, s)
  PROVE  Owners'
  <1> DEFINE has == [app[k].has EXCEPT ![s] = Create(s, k)]
  <1>1. /\ app[k].pc = "load"
        /\ exists'[s] = (IF Creatable(s) THEN k ELSE exists[s])
        /\ \A n \in Names \ {s} : exists'[n] = exists[n]
        /\ \A j \in Launches \ {k} : app'[j] = app[j]
        /\ UNCHANGED <<clearing, program, task>>
    BY LoadDoes
  <1>2. \/ app'[k] = NoApp("fault")
        \/ /\ s \in Pools \cup Statics.pool => Creatable(s)
           /\ app'[k].has = has
           /\ \/ app'[k].pc = "load"
              \/ /\ app'[k].pc = "start"
                 /\ \A t \in Statics[program[k]] : has[t] # None
    BY LoadDoes
  <1>3. AppStage(k)' /\ AppStage(k)
    BY StartsStages DEF Starts, Stages
  <1>4. ~clearing
    BY <1>1 DEF Owners
  <1>5. \A n \in Names : exists[n] # None => exists'[n] = exists[n]
    BY <1>1 DEF Creatable
  <1>6. \A p \in Pools : p \in Names /\ p \in Statics.timers
    BY StaticsFacts
  <1>7. app[k].has \in [AllStatics -> Objects]
    BY DEF Typed, AppOK, AppFields
  <1>8. \A t \in AllStatics : has[t] = IF t = s THEN Create(s, k) ELSE app[k].has[t]
    BY <1>7
  <1> HIDE DEF has
  <1>9. ASSUME app'[k] # NoApp("fault"), NEW t \in Statics.timers, has[t] = k
        PROVE  exists'[t] = k
    <2>1. t \in AllStatics /\ t \in Names
      BY StaticsFacts
    <2>2. CASE t = s
      BY <1>1, <1>8, <1>9, <2>1, <2>2, ObjectsApart DEF Create
    <2>3. CASE t # s
      <3>1. exists[t] = k
        BY <1>1, <1>8, <1>9, <2>1, <2>3 DEF Owners
      <3> QED BY <1>1, <2>1, <2>3, <3>1
    <2> QED BY <2>2, <2>3
  <1>10. \A j \in Launches \ {k} : Alive(j)' <=> Alive(j)
    BY <1>1 DEF Alive, Ready, TaskUp
  <1>11. ~Alive(k)
    <2>1. TaskStage(k)
      BY DEF Stages
    <2> QED BY <1>1, <2>1 DEF Alive, Ready, TaskUp, TaskStage
  <1>12. \A j \in Launches \ {k} : Alive(j)' => \A p \in Pools : exists'[p] = j
    <2>1. \A j \in Launches : Alive(j) => \A p \in Pools : exists[p] = j
      BY <1>4 DEF Owners
    <2> QED BY <1>5, <1>6, <1>10, <2>1, ObjectsApart
  <1>13. Alive(k)' => \A p \in Pools : exists'[p] = k
    <2> SUFFICES ASSUME Alive(k)', NEW p \in Pools PROVE exists'[p] = k
      OBVIOUS
    <2>1. ~TaskUp(k)'
      BY <1>1, <1>11 DEF Alive, TaskUp
    <2>2. Ready(k)'
      BY <2>1 DEF Alive
    <2>3. app'[k].has[p] = k
      BY <1>3, <2>2 DEF AppStage
    <2>4. app'[k] # NoApp("fault")
      BY <2>2, NothingTyped DEF Ready
    <2> QED BY <1>2, <1>6, <1>9, <2>3, <2>4
  <1>14. \A i, j \in Launches : Alive(i)' /\ Alive(j)' => i = j
    <2>1. PICK p \in Pools : TRUE
      BY DEF Pools
    <2>2. \A j \in Launches : Alive(j)' => exists'[p] = j
      BY <1>12, <1>13, <2>1
    <2> QED BY <2>2
  <1>15. ASSUME NEW j \in Launches, app'[j].pc = "load", NEW t \in Statics.timers, app'[j].has[t] = j
         PROVE  exists'[t] = j
    <2>1. CASE j = k
      <3>1. app'[k] # NoApp("fault")
        BY <1>15, <2>1, NothingTyped
      <3> QED BY <1>2, <1>9, <1>15, <2>1, <3>1
    <2>2. CASE j # k
      <3>1. exists[t] = j
        BY <1>1, <1>15, <2>2 DEF Owners
      <3> QED BY <1>5, <3>1, StaticsFacts, ObjectsApart
    <2> QED BY <2>1, <2>2
  <1> QED BY <1>1, <1>4, <1>12, <1>13, <1>14, <1>15 DEF Owners

LEMMA StepOwners ==
  ASSUME Typed, Stages, Owners, [Next]_vars
  PROVE  Owners'
  <1>0. /\ \A s \in Statics.timers : s \in Names /\ s # "Test" /\ s # "timerpool"
        /\ Statics.timers \subseteq Cleared
    BY StaticsFacts
  <1>1. ASSUME NEW p \in {"timers", "pool"}, Launch(p)
        PROVE  Owners'
    <2>1. /\ launch' = launch + 1 /\ launch' \in Launches /\ ~clearing
          /\ app'[launch'].pc = "load" /\ app'[launch'].has = app[launch'].has
          /\ \A j \in Launches \ {launch'} : app'[j] = app[j] /\ program'[j] = program[j]
          /\ UNCHANGED <<exists, clearing, task>>
      BY <1>1, LaunchDoes
    <2>2. app[launch'].has = NoStatics
      <3>1. launch' > launch
        BY <2>1, StartupAssumption DEF Typed, NamesOK
      <3> QED BY <2>1, <3>1 DEF Stages, AppStage, AppUp
    <2>3. \A s \in Statics.timers : NoStatics[s] = None
      BY StaticsFacts DEF NoStatics
    <2>4. \A j \in Launches : Alive(j)' => Alive(j)
      BY <2>1 DEF Alive, Ready, TaskUp
    <2>5. \A s \in Statics.timers : app'[launch'].has[s] # launch'
      BY <2>1, <2>2, <2>3, ObjectsApart
    <2>6. \A k \in Launches : app'[k].pc = "load" =>
            \A s \in Statics.timers : app'[k].has[s] = k => exists'[s] = k
      BY <2>1, <2>5 DEF Owners
    <2> QED BY <2>1, <2>4, <2>6 DEF Owners
  <1>2. CASE Clear
    <2>1. /\ clearing' /\ \A k \in Launches : app[k].pc # "load"
          /\ \A n \in Names : exists'[n] = IF n \in Cleared THEN None ELSE exists[n]
          /\ UNCHANGED <<program, app, task>>
      BY <1>2, ClearDoes
    <2>2. \A s \in Statics.timers : exists'[s] = None
      BY <1>0, <2>1
    <2>3. \A j \in Launches : Alive(j)' => Alive(j)
      BY <2>1 DEF Alive, Ready, TaskUp
    <2> QED BY <2>1, <2>2, <2>3 DEF Owners
  <1>3. CASE KillAll
    <2>1. /\ clearing /\ ~clearing'
          /\ \A k \in Launches :
               /\ app'[k] = IF AppUp(k) THEN NoApp("killed") ELSE app[k]
               /\ task'[k] = IF TaskUp(k) THEN NoTask("killed") ELSE task[k]
      BY <1>3, KillAllDoes
    <2>2. \A k \in Launches : app'[k].pc \notin {"load", "start", "fork", "main"}
      BY <2>1, NothingTyped DEF AppUp
    <2>3. \A k \in Launches : task'[k].pc \notin {"open", "poll", "send"}
      BY <2>1, NothingTyped DEF TaskUp
    <2> QED BY <2>1, <2>2, <2>3 DEF Owners, Alive, Ready, TaskUp
  <1>4. ASSUME NEW k \in Launches, Kill(k)
        PROVE  Owners'
    BY <1>4, KillDoes, AppEndsOwners DEF Ends, names
  <1>5. ASSUME NEW k \in Launches, KillTask(k)
        PROVE  Owners'
    <2>1. /\ task'[k] = NoTask("killed") /\ \A j \in Launches \ {k} : task'[j] = task[j]
          /\ UNCHANGED <<names, app>>
      BY <1>5, KillTaskDoes
    <2>2. \A j \in Launches : Alive(j)' => Alive(j)
      BY <2>1, NothingTyped DEF Alive, Ready, TaskUp, names
    <2> QED BY <2>1, <2>2, OwnersKept DEF names
  <1>6. ASSUME NEW k \in Launches, Starts(k)
        PROVE  Owners'
    <2>1. ASSUME NEW s \in AllStatics, Load(k, s)
          PROVE  Owners'
      BY <2>1, LoadOwners
    <2>2. CASE PoolMain(k)
      BY <1>0, <2>2, PoolMainDoes, AppEndsOwners DEF Ends
    <2>3. CASE StartThread(k)
      <3>1. /\ app[k].pc = "start" /\ app'[k].pc = "fork"
            /\ \A j \in Launches \ {k} : Keeps(j)
            /\ UNCHANGED <<names, task>>
        BY <2>3, StartThreadDoes
      <3>2. \A j \in Launches : Alive(j)' => Alive(j)
        BY <3>1 DEF Alive, Ready, TaskUp, names, Keeps
      <3>3. \A j \in Launches : app'[j].pc = "load" => app'[j] = app[j]
        BY <3>1 DEF Keeps
      <3> QED BY <3>1, <3>2, <3>3, OwnersKept DEF names
    <2>4. CASE Fork(k)
      <3>1. /\ app[k].pc = "fork" /\ app'[k].pc = "main"
            /\ \A j \in Launches \ {k} : Keeps(j)
            /\ UNCHANGED <<names, recv>>
        BY <2>4, ForkDoes
      <3>2. Alive(k)
        BY <3>1 DEF Stages, AppStage, Alive, Ready
      <3>3. \A j \in Launches : Alive(j)' => Alive(j)
        BY <3>1, <3>2 DEF Alive, Ready, TaskUp, names, Keeps
      <3>4. \A j \in Launches : app'[j].pc = "load" => app'[j] = app[j]
        BY <3>1 DEF Keeps
      <3> QED BY <3>1, <3>3, <3>4, OwnersKept DEF names
    <2>5. CASE ForkFails(k)
      BY <2>5, ForkFailsDoes, AppEndsOwners DEF Ends, names
    <2> QED BY <1>6, <2>1, <2>2, <2>3, <2>4, <2>5 DEF Starts
  <1>7. ASSUME NEW k \in Launches, Receiver(k)
        PROVE  Owners'
    <2>1. CASE RecvOpen(k)
      <3>1. /\ \A n \in Names \ {"Test"} : exists'[n] = exists[n]
            /\ UNCHANGED <<clearing, program, app, task>>
        BY <2>1, RecvOpenDoes
      <3>2. \A j \in Launches : Alive(j)' => Alive(j)
        BY <3>1 DEF Alive, Ready, TaskUp
      <3> QED BY <1>0, <3>1, <3>2, OwnersKept
    <2>2. CASE ReceiveFails(k)
      BY <2>2, ReceiveFailsDoes, AppEndsOwners DEF Ends, names
    <2>3. CASE Receive(k)
      <3>1. UNCHANGED <<names, app, task>>
        BY <2>3, ReceiveDoes
      <3>2. \A j \in Launches : Alive(j)' => Alive(j)
        BY <3>1 DEF Alive, Ready, TaskUp, names
      <3> QED BY <3>1, <3>2, OwnersKept DEF names
    <2> QED BY <1>7, <2>1, <2>2, <2>3 DEF Receiver
  <1>8. ASSUME NEW k \in Launches, Timers(k)
        PROVE  Owners'
    BY <1>8, TimersOwners
  <1>9. ASSUME NEW k \in Launches, NEW i \in Slots, Schedule(k, i)
        PROVE  Owners'
    <2>1. UNCHANGED <<names, task>> /\ (AppEnds(k, "fault") \/ UNCHANGED app)
      BY <1>9, ScheduleDoes
    <2>2. CASE AppEnds(k, "fault")
      BY <2>1, <2>2, AppEndsOwners DEF Ends, names
    <2>3. CASE UNCHANGED app
      <3>1. \A j \in Launches : Alive(j)' => Alive(j)
        BY <2>1, <2>3 DEF Alive, Ready, TaskUp, names
      <3> QED BY <2>1, <2>3, <3>1, OwnersKept DEF names
    <2> QED BY <2>1, <2>2, <2>3
  <1>10. CASE UNCHANGED vars
    <2>1. \A j \in Launches : Alive(j)' => Alive(j)
      BY <1>10 DEF Alive, Ready, TaskUp, vars, names
    <2> QED BY <1>10, <2>1, OwnersKept DEF vars, names
  <1> QED
    BY <1>1, <1>2, <1>3, <1>4, <1>5, <1>6, <1>7, <1>8, <1>9, <1>10 DEF Next, Operator

(***************************************************************************)
(* What is in a queue, and what was received.  While launch k's receiver   *)
(* waits on the queue it created, only k's TimerTask puts messages in, and *)
(* only if that is the queue it opened.                                    *)
(***************************************************************************)

Buffer(i)   == Serialize(FireMessage(i))
Message(i)  == [from |-> 2, shmIndex |-> Index64(i)]
Opens(k, q) == TaskUp(k) /\ task[k].queues # <<>> /\ task[k].queues[1] = q
Gone(k)     == task[k].pc \in {"abort", "fault", "killed"}

Linked(k) ==
  /\ Len(sent[k]) = Len(got[k]) + Len(mq[k])
  /\ \A n \in 1 .. Len(mq[k]) : mq[k][n] = Buffer(sent[k][Len(got[k]) + n])

Empty(k) == got[k] = <<>> /\ mq[k] = <<>>

InOrder(k) ==
  /\ Len(got[k]) <= Len(sent[k])
  /\ \A n \in 1 .. Len(got[k]) : got[k][n] = Message(sent[k][n])

\* A queue that has a name, that a TimerTask opened or that holds something was
\* created.
Created(k) ==
  /\ exists["Test"] = k => recv[k].queue = k
  /\ \A j \in Launches : Opens(j, k) => recv[k].queue = k
  /\ recv[k].queue # k => Empty(k)

Waiting(k) ==
  recv[k].pc = "wait" /\ recv[k].queue = k =>
    /\ Opens(k, k) => Linked(k)
    /\ ~Opens(k, k) => Empty(k) \/ (Gone(k) /\ Linked(k))

Link(k) ==
  /\ InOrder(k) /\ Created(k) /\ Waiting(k)
  /\ task[k].pc \in {"none", "open"} => sent[k] = <<>>

Links == \A k \in Launches : Link(k)

LEMMA InitLinks == Init => Links
  <1> SUFFICES ASSUME Init, NEW k \in Launches PROVE Link(k)
    BY DEF Links
  <1>1. /\ \A j \in Launches : task[j].pc = "none"
        /\ recv[k].pc = "none" /\ got[k] = <<>> /\ mq[k] = <<>> /\ sent[k] = <<>>
    BY NothingTyped DEF Init
  <1>2. exists["Test"] # k
    BY StaticsFacts, ObjectsApart DEF Init
  <1>3. \A j \in Launches : ~Opens(j, k)
    BY <1>1 DEF Opens, TaskUp
  <1> QED BY <1>1, <1>2, <1>3 DEF Link, InOrder, Created, Waiting, Empty

\* A step that moves no message.
LEMMA LinksKept ==
  ASSUME Links, UNCHANGED <<mq, sent, got>>, exists'["Test"] \in {None, exists["Test"]},
         NEW k \in Launches,
         recv'[k].queue = recv[k].queue, recv'[k].pc = "wait" => recv[k].pc = "wait",
         \A j \in Launches : Opens(j, k)' => Opens(j, k),
         Opens(k, k) => Opens(k, k)' \/ Gone(k)', Gone(k) => Gone(k)',
         task'[k].pc \in {"none", "open"} => task[k].pc \in {"none", "open"}
  PROVE  Link(k)'
  <1>1. InOrder(k)'
    BY DEF Links, Link, InOrder
  <1>2. Created(k)'
    <2>1. k # None
      BY ObjectsApart
    <2> QED BY <2>1 DEF Links, Link, Created, Empty
  <1>3. Waiting(k)'
    BY DEF Links, Link, Waiting, Linked, Empty
  <1> QED BY <1>1, <1>2, <1>3 DEF Links, Link

\* One that leaves TimerTasks alone as well, and its step when it ends.
LEMMA LinksKeptByApp ==
  ASSUME Links, UNCHANGED <<mq, sent, got, task>>, exists'["Test"] \in {None, exists["Test"]},
         \A k \in Launches : /\ recv'[k].queue = recv[k].queue
                             /\ recv'[k].pc = "wait" => recv[k].pc = "wait"
  PROVE  Links'
  <1> SUFFICES ASSUME NEW k \in Launches PROVE Link(k)'
    BY DEF Links
  <1>1. \A j \in Launches : Opens(j, k)' <=> Opens(j, k)
    BY DEF Opens, TaskUp
  <1>2. Gone(k)' <=> Gone(k)
    BY DEF Gone
  <1> QED BY <1>1, <1>2, LinksKept

LEMMA TaskEndsLinks ==
  ASSUME Links, UNCHANGED <<mq, sent, got, recv, exists>>, NEW k \in Launches, TaskUp(k),
         NEW how \in {"abort", "fault", "killed"}, task'[k] = NoTask(how),
         \A j \in Launches \ {k} : task'[j] = task[j]
  PROVE  Links'
  <1> SUFFICES ASSUME NEW i \in Launches PROVE Link(i)'
    BY DEF Links
  <1>1. task'[k].pc = how
    BY NothingTyped
  <1>2. \A j \in Launches : Opens(j, i)' => Opens(j, i)
    BY <1>1 DEF Opens, TaskUp
  <1>3. Opens(i, i) => Opens(i, i)' \/ Gone(i)'
    BY <1>1 DEF Opens, TaskUp, Gone
  <1>4. Gone(i) => Gone(i)'
    BY <1>1 DEF Gone
  <1>5. task'[i].pc \in {"none", "open"} => task[i].pc \in {"none", "open"}
    BY <1>1
  <1> QED BY <1>2, <1>3, <1>4, <1>5, LinksKept

LEMMA AppEndsLinks ==
  ASSUME Typed, Links, NEW k \in Launches, NEW how \in Ends, AppEnds(k, how),
         UNCHANGED <<mq, sent, got, task>>, exists'["Test"] = exists["Test"]
  PROVE  Links'
  <1>1. /\ recv'[k].pc = "end" /\ recv'[k].queue = recv[k].queue
        /\ \A j \in Launches \ {k} : recv'[j] = recv[j]
    BY AppEndsDoes
  <1>2. \A j \in Launches : /\ recv'[j].queue = recv[j].queue
                            /\ recv'[j].pc = "wait" => recv[j].pc = "wait"
    BY <1>1
  <1> QED BY <1>2, LinksKeptByApp

LEMMA RecvOpenLinks ==
  ASSUME Typed, Stages, Links, NEW k \in Launches, RecvOpen(k)
  PROVE  Links'
  <1>1. /\ recv[k].pc = "open"
        /\ exists'["Test"] = (IF Creatable("Test") THEN k ELSE exists["Test"])
        /\ recv'[k].queue = Create("Test", k)
        /\ \A j \in Launches \ {k} : recv'[j] = recv[j]
        /\ UNCHANGED <<task, mq, sent, got>>
    BY RecvOpenDoes DEF data
  <1>2. recv[k].queue = None
    BY <1>1 DEF Stages, RecvStage
  <1>3. None # k /\ Failed # k
    BY ObjectsApart
  <1>4. \A i, j \in Launches : Opens(j, i)' <=> Opens(j, i)
    BY <1>1 DEF Opens, TaskUp
  <1>5. Empty(k) /\ \A j \in Launches : ~Opens(j, k)
    BY <1>2, <1>3 DEF Links, Link, Created
  <1> SUFFICES ASSUME NEW i \in Launches PROVE Link(i)'
    BY DEF Links
  <1>6. InOrder(i)' /\ (task'[i].pc \in {"none", "open"} => sent'[i] = <<>>)
    BY <1>1 DEF Links, Link, InOrder
  <1>7. CASE i = k
    <2>1. Empty(k)'
      BY <1>1, <1>5 DEF Empty
    <2>2. exists'["Test"] = k => recv'[k].queue = k
      <3>1. exists["Test"] # k
        BY <1>2, <1>3 DEF Links, Link, Created
      <3> QED BY <1>1, <3>1 DEF Create
    <2>3. Created(k)'
      BY <1>4, <1>5, <2>1, <2>2 DEF Created
    <2>4. Waiting(k)'
      <3>1. ~Opens(k, k)'
        BY <1>1, <1>5 DEF Opens, TaskUp
      <3> QED BY <2>1, <3>1 DEF Waiting
    <2> QED BY <1>6, <1>7, <2>3, <2>4 DEF Link
  <1>8. CASE i # k
    <2>0. recv'[i] = recv[i]
      BY <1>1, <1>8
    <2>1. Created(i)'
      <3>1. Created(i)
        BY DEF Links, Link
      <3> QED BY <1>1, <1>4, <1>8, <2>0, <3>1 DEF Created, Empty
    <2>2. Waiting(i)'
      <3>1. Waiting(i)
        BY DEF Links, Link
      <3>2. (Opens(i, i)' <=> Opens(i, i)) /\ (Gone(i)' <=> Gone(i))
        BY <1>1, <1>4 DEF Gone
      <3>3. (Linked(i)' <=> Linked(i)) /\ (Empty(i)' <=> Empty(i))
        BY <1>1 DEF Linked, Empty
      <3> QED BY <2>0, <3>1, <3>2, <3>3 DEF Waiting
    <2> QED BY <1>6, <2>1, <2>2 DEF Link
  <1> QED BY <1>7, <1>8

LEMMA TaskOpenLinks ==
  ASSUME Typed, Stages, Links, NEW k \in Launches, TaskOpen(k)
  PROVE  Links'
  <1>1. PICK o \in Objects \ {None} :
          /\ task[k].queues = <<>> => o = Open("Test")
          /\ task'[k].queues = Append(task[k].queues, o)
    BY TaskOpenDoes
  <1>2. /\ task[k].pc = "open" /\ task'[k].pc \in {"poll", "open"}
        /\ \A j \in Launches \ {k} : task'[j] = task[j]
        /\ UNCHANGED <<exists, recv, mq, sent, got>>
    BY TaskOpenDoes DEF names, data
  <1>3. task[k].queues \in Seq(Objects)
    BY DEF Typed, TaskOK, TaskFields
  <1>4. \/ task[k].queues = <<>> /\ task'[k].queues[1] = Open("Test")
        \/ task[k].queues # <<>> /\ task'[k].queues[1] = task[k].queues[1]
    <2>1. CASE task[k].queues = <<>>
      BY <1>1, <1>3, <2>1
    <2>2. CASE task[k].queues # <<>>
      <3>1. Len(task[k].queues) >= 1
        BY <1>3, <2>2
      <3> QED BY <1>1, <1>3, <2>2, <3>1
    <2> QED BY <2>1, <2>2
  <1>5. sent[k] = <<>>
    BY <1>2 DEF Links, Link
  <1> SUFFICES ASSUME NEW i \in Launches PROVE Link(i)'
    BY DEF Links
  <1>6. Link(i)
    BY DEF Links
  <1>7. InOrder(i)' /\ (task'[i].pc \in {"none", "open"} => sent'[i] = <<>>)
    BY <1>2, <1>5, <1>6 DEF Link, InOrder
  <1>8. \A j \in Launches : Opens(j, i)' => Opens(j, i) \/ (j = k /\ exists["Test"] = i)
    <2> SUFFICES ASSUME NEW j \in Launches, Opens(j, i)'
                 PROVE  Opens(j, i) \/ (j = k /\ exists["Test"] = i)
      OBVIOUS
    <2>1. CASE j # k
      BY <1>2, <2>1 DEF Opens, TaskUp
    <2>2. CASE j = k
      <3>1. task'[k].queues[1] = i
        BY <2>2 DEF Opens
      <3>2. CASE task[k].queues = <<>>
        BY <1>4, <2>2, <3>1, <3>2, ObjectsApart DEF Open
      <3>3. CASE task[k].queues # <<>>
        BY <1>2, <1>4, <2>2, <3>1, <3>3 DEF Opens, TaskUp
      <3> QED BY <3>2, <3>3
    <2> QED BY <2>1, <2>2
  <1>9. Created(i)'
    BY <1>2, <1>6, <1>8 DEF Link, Created, Empty
  <1>10. Waiting(i)'
    <2>1. (Linked(i)' <=> Linked(i)) /\ (Empty(i)' <=> Empty(i))
      BY <1>2 DEF Linked, Empty
    <2>2. CASE i # k
      <3>1. (Opens(i, i)' <=> Opens(i, i)) /\ (Gone(i)' <=> Gone(i))
        BY <1>2, <2>2 DEF Opens, Gone, TaskUp
      <3> QED BY <1>2, <1>6, <2>1, <3>1 DEF Link, Waiting
    <2>3. CASE i = k
      <3>1. ~Gone(k)
        BY <1>2 DEF Gone
      <3>2. recv[k].pc = "wait" /\ recv[k].queue = k => Linked(k) \/ Empty(k)
        BY <1>6, <2>3 DEF Link, Waiting
      <3>3. Empty(k) => Linked(k)
        BY <1>5 DEF Empty, Linked
      <3>4. Opens(k, k) => Opens(k, k)'
        <4>1. Opens(k, k) => task'[k].queues[1] = k
          BY <1>4 DEF Opens
        <4>2. task'[k].queues # <<>>
          BY <1>1, <1>3
        <4> QED BY <1>2, <4>1, <4>2 DEF Opens, TaskUp
      <3>5. recv[k].pc = "wait" /\ recv[k].queue = k /\ ~Opens(k, k) => Empty(k)
        BY <1>6, <2>3, <3>1 DEF Link, Waiting
      <3> QED BY <1>2, <2>1, <2>3, <3>2, <3>3, <3>4, <3>5 DEF Waiting
    <2> QED BY <2>2, <2>3
  <1> QED BY <1>7, <1>9, <1>10 DEF Link

LEMMA ReceiveLinks ==
  ASSUME Typed, Stages, Links, NEW k \in Launches, Receive(k)
  PROVE  Links'
  <1>1. /\ recv[k].pc = "wait" /\ recv[k].queue = k /\ mq[k] # <<>>
        /\ got' = [got EXCEPT ![k] = Append(got[k], Deserialize(Head(mq[k])))]
        /\ mq' = [mq EXCEPT ![k] = Tail(mq[k])]
        /\ UNCHANGED <<exists, recv, task, sent>>
    BY ReceiveDoes DEF names
  <1>2. /\ mq \in [Launches -> Seq(Buffers)] /\ mq[k] \in Seq(Buffers)
        /\ got \in [Launches -> Seq(Received)] /\ got[k] \in Seq(Received)
        /\ sent[k] \in Seq(Slots)
    BY DEF Typed, DataOK
  <1>3. /\ got'[k] = Append(got[k], Deserialize(Head(mq[k]))) /\ mq'[k] = Tail(mq[k])
        /\ \A j \in Launches \ {k} : got'[j] = got[j] /\ mq'[j] = mq[j]
    BY <1>1, <1>2
  <1>4. Linked(k)
    BY <1>1 DEF Links, Link, Waiting, Empty
  <1> DEFINE g == Len(got[k])
             m == Len(mq[k])
  <1>5. g \in Nat /\ m \in Nat /\ m >= 1 /\ Len(sent[k]) = g + m
    BY <1>1, <1>2, <1>4 DEF Linked
  <1>6. Head(mq[k]) = Buffer(sent[k][g + 1])
    <2>1. Head(mq[k]) = mq[k][1]
      BY <1>1, <1>2
    <2> QED BY <1>4, <1>5, <2>1 DEF Linked
  <1>7. Deserialize(Head(mq[k])) = Message(sent[k][g + 1])
    <2>1. sent[k][g + 1] \in Slots
      BY <1>2, <1>5
    <2> QED BY <1>6, <2>1, FireMessageBack DEF Buffer, Message
  <1>8. Len(got'[k]) = g + 1 /\ Len(mq'[k]) = m - 1
    BY <1>1, <1>2, <1>3
  <1>9. \A n \in 1 .. m - 1 : mq'[k][n] = mq[k][n + 1]
    BY <1>1, <1>2, <1>3
  <1>10. InOrder(k)'
    <2>1. InOrder(k)
      BY DEF Links, Link
    <2>2. got'[k][g + 1] = Message(sent[k][g + 1]) /\ \A n \in 1 .. g : got'[k][n] = got[k][n]
      BY <1>2, <1>3, <1>7
    <2>3. \A n \in 1 .. g + 1 : got'[k][n] = Message(sent[k][n])
      BY <1>5, <2>1, <2>2 DEF InOrder
    <2>4. 1 .. Len(got'[k]) = 1 .. g + 1 /\ Len(got'[k]) <= Len(sent[k])
      BY <1>5, <1>8
    <2>5. sent' = sent
      BY <1>1
    <2> HIDE DEF g
    <2> QED BY <2>3, <2>4, <2>5 DEF InOrder
  <1>11. Linked(k)'
    <2>1. \A n \in 1 .. m - 1 : mq'[k][n] = Buffer(sent[k][g + 1 + n])
      <3> SUFFICES ASSUME NEW n \in 1 .. m - 1 PROVE mq'[k][n] = Buffer(sent[k][g + 1 + n])
        OBVIOUS
      <3>1. n + 1 \in 1 .. m
        BY <1>5
      <3>2. mq[k][n + 1] = Buffer(sent[k][g + (n + 1)])
        BY <1>4, <3>1 DEF Linked
      <3> HIDE DEF g, m
      <3>0. n \in Nat /\ g \in Nat
        BY <1>5
      <3>3. g + (n + 1) = g + 1 + n
        BY <3>0
      <3>4. mq'[k][n] = mq[k][n + 1]
        BY <1>9
      <3> QED BY <3>2, <3>3, <3>4
    <2> HIDE DEF g, m
    <2>2. /\ 1 .. Len(mq'[k]) = 1 .. m - 1 /\ Len(got'[k]) = g + 1
          /\ Len(sent[k]) = Len(got'[k]) + Len(mq'[k])
      BY <1>5, <1>8
    <2>3. sent' = sent
      BY <1>1
    <2> QED BY <2>1, <2>2, <2>3 DEF Linked
  <1> HIDE DEF g, m
  <1>12. \A i, j \in Launches : Opens(j, i)' <=> Opens(j, i)
    BY <1>1 DEF Opens, TaskUp
  <1> SUFFICES ASSUME NEW i \in Launches PROVE Link(i)'
    BY DEF Links
  <1>13. Link(i)
    BY DEF Links
  <1>14. CASE i = k
    <2>1. Created(k)'
      BY <1>1, <1>12, <1>13, <1>14 DEF Link, Created
    <2>2. Waiting(k)'
      <3>1. Opens(k, k)' \/ Gone(k)'
        <4>1. Opens(k, k) \/ Gone(k)
          BY <1>1, <1>13, <1>14 DEF Link, Waiting, Empty
        <4> QED BY <1>1, <4>1 DEF Gone, Opens, TaskUp
      <3> QED BY <1>11, <3>1 DEF Waiting
    <2> QED BY <1>1, <1>10, <1>13, <1>14, <2>1, <2>2 DEF Link
  <1>15. CASE i # k
    <2>1. InOrder(i)'
      BY <1>1, <1>3, <1>13, <1>15 DEF Link, InOrder
    <2>2. (Linked(i)' <=> Linked(i)) /\ (Empty(i)' <=> Empty(i)) /\ (Gone(i)' <=> Gone(i))
      BY <1>1, <1>3, <1>15 DEF Linked, Empty, Gone
    <2>3. Created(i)'
      BY <1>1, <1>12, <1>13, <2>2 DEF Link, Created
    <2>4. Waiting(i)'
      <3>1. Opens(i, i)' <=> Opens(i, i)
        BY <1>12
      <3> QED BY <1>1, <1>13, <2>2, <3>1 DEF Link, Waiting
    <2> QED BY <1>1, <1>13, <2>1, <2>3, <2>4 DEF Link
  <1> QED BY <1>14, <1>15

LEMMA SendLinks ==
  ASSUME Typed, Stages, Owners, Links, NEW k \in Launches, Send(k)
  PROVE  Links'
  <1> DEFINE q == task[k].queues[1]
             t == task[k].timer
  <1>1. /\ task[k].pc = "send" /\ t \in Slots /\ task[k].queues # <<>> /\ q \in Launches
        /\ mq' = [mq EXCEPT ![q] = Append(mq[q], Buffer(t))]
        /\ sent' = [sent EXCEPT ![k] = Append(sent[k], t)]
        /\ task'[k].pc = "poll" /\ task'[k].queues = task[k].queues
        /\ \A j \in Launches \ {k} : task'[j] = task[j]
        /\ UNCHANGED <<exists, app, recv, got>>
    BY SendDoes DEF names, Buffer
  <1>2. Opens(k, q)
    BY <1>1 DEF Opens, TaskUp
  <1>3. Opens(k, k) => q = k
    BY DEF Opens
  <1> HIDE DEF q, t
  <1>4. /\ mq \in [Launches -> Seq(Buffers)] /\ mq[q] \in Seq(Buffers) /\ mq[k] \in Seq(Buffers)
        /\ sent \in [Launches -> Seq(Slots)] /\ sent[k] \in Seq(Slots)
        /\ got[k] \in Seq(Received)
    BY <1>1 DEF Typed, DataOK
  <1>5. /\ mq'[q] = Append(mq[q], Buffer(t)) /\ \A j \in Launches \ {q} : mq'[j] = mq[j]
        /\ sent'[k] = Append(sent[k], t) /\ \A j \in Launches \ {k} : sent'[j] = sent[j]
    BY <1>1, <1>4
  <1>6. Buffer(t) \in Buffers
    BY <1>1 DEF Buffer, Buffers
  <1>7. recv[q].queue = q
    BY <1>1, <1>2 DEF Links, Link, Created
  <1>8. recv[q].pc = "wait" => q = k
    <2> SUFFICES ASSUME recv[q].pc = "wait" PROVE q = k
      OBVIOUS
    <2>1. AppStage(q) /\ RecvStage(q)
      BY <1>1 DEF Stages
    <2>2. Alive(q)
      BY <2>1 DEF AppStage, RecvStage, Alive, Ready
    <2>3. Alive(k)
      BY <1>1 DEF Alive, TaskUp
    <2> QED BY <1>1, <2>2, <2>3 DEF Owners
  <1> SUFFICES ASSUME NEW i \in Launches PROVE Link(i)'
    BY DEF Links
  <1>9. Link(i)
    BY DEF Links
  <1>10. \A j \in Launches : Opens(j, i)' <=> Opens(j, i)
    BY <1>1 DEF Opens, TaskUp
  <1>11. Opens(i, i)' <=> Opens(i, i)
    BY <1>1 DEF Opens, TaskUp
  <1>12. (Gone(i)' <=> Gone(i)) /\ ~Gone(k)
    BY <1>1 DEF Gone
  <1>13. InOrder(i)'
    <2>1. CASE i # k
      BY <1>1, <1>5, <1>9, <2>1 DEF Link, InOrder
    <2>2. CASE i = k
      <3>1. InOrder(k)
        BY <1>9, <2>2 DEF Link
      <3>2. Len(sent'[k]) = Len(sent[k]) + 1 /\ \A n \in 1 .. Len(sent[k]) : sent'[k][n] = sent[k][n]
        BY <1>1, <1>4, <1>5
      <3>3. Len(got[k]) \in Nat /\ Len(sent[k]) \in Nat
        BY <1>4
      <3>4. \A n \in 1 .. Len(got[k]) : n \in 1 .. Len(sent[k])
        BY <3>1, <3>3 DEF InOrder
      <3> QED BY <1>1, <2>2, <3>1, <3>2, <3>3, <3>4 DEF InOrder
    <2> QED BY <2>1, <2>2
  <1>14. Created(i)'
    <2>1. recv[i].queue # i => Empty(i)'
      BY <1>1, <1>5, <1>7, <1>9 DEF Link, Created, Empty
    <2> QED BY <1>1, <1>9, <1>10, <2>1 DEF Link, Created
  <1>15. Waiting(i)'
    <2> SUFFICES ASSUME recv[i].pc = "wait", recv[i].queue = i
                 PROVE  /\ Opens(i, i) => Linked(i)'
                        /\ ~Opens(i, i) => Empty(i)' \/ (Gone(i) /\ Linked(i)')
      BY <1>1, <1>11, <1>12 DEF Waiting
    <2>1. /\ Opens(i, i) => Linked(i)
          /\ ~Opens(i, i) => Empty(i) \/ (Gone(i) /\ Linked(i))
      BY <1>9 DEF Link, Waiting
    <2>2. CASE i = q
      <3>1. i = k /\ Opens(k, k) /\ Linked(k)
        BY <1>2, <1>8, <2>1, <2>2
      <3> DEFINE g == Len(got[k])
                 m == Len(mq[k])
      <3>2. g \in Nat /\ m \in Nat /\ Len(sent[k]) = g + m
        BY <1>4, <3>1 DEF Linked
      <3>3. /\ mq'[k] = Append(mq[k], Buffer(t)) /\ Len(mq'[k]) = m + 1 /\ mq'[k][m + 1] = Buffer(t)
            /\ \A n \in 1 .. m : mq'[k][n] = mq[k][n]
        <4>1. mq'[k] = Append(mq[k], Buffer(t)) /\ mq[k] \in Seq(Buffers)
          BY <1>4, <1>5, <2>2, <3>1
        <4> QED BY <1>6, <4>1
      <3>4. /\ Len(sent'[k]) = g + m + 1 /\ sent'[k][g + m + 1] = t
            /\ \A n \in 1 .. g + m : sent'[k][n] = sent[k][n]
        <4>1. sent'[k] = Append(sent[k], t) /\ sent[k] \in Seq(Slots) /\ t \in Slots
          BY <1>1, <1>4, <1>5
        <4> HIDE DEF g, m
        <4> QED BY <3>2, <4>1
      <3>5. \A n \in 1 .. m : mq[k][n] = Buffer(sent[k][g + n])
        BY <3>1 DEF Linked
      <3> HIDE DEF g, m
      <3>6. ASSUME NEW n \in 1 .. m + 1
            PROVE  mq'[k][n] = Buffer(sent'[k][g + n])
        <4>1. CASE n = m + 1
          <5>1. g + n = g + m + 1
            BY <3>2, <4>1
          <5> QED BY <3>3, <3>4, <4>1, <5>1
        <4>2. CASE n # m + 1
          <5>1. n \in 1 .. m /\ g + n \in 1 .. g + m
            BY <3>2, <4>2
          <5> QED BY <3>3, <3>4, <3>5, <5>1
        <4> QED BY <4>1, <4>2
      <3>7. got' = got
        BY <1>1
      <3>8. Len(got[k]) = g
        BY DEF g
      <3>9. Len(sent'[k]) = g + (m + 1)
        BY <3>2, <3>4
      <3>10. Linked(k)'
        BY <3>3, <3>6, <3>7, <3>8, <3>9 DEF Linked
      <3> QED BY <3>1, <3>10
    <2>3. CASE i # q
      <3>1. Empty(i) => Empty(i)'
        BY <1>1, <1>5, <2>3 DEF Empty
      <3>2. CASE i = k
        BY <1>3, <1>12, <2>1, <2>3, <3>1, <3>2
      <3>3. CASE i # k
        <4>1. Linked(i)' <=> Linked(i)
          BY <1>1, <1>5, <2>3, <3>3 DEF Linked
        <4> QED BY <2>1, <3>1, <4>1
      <3> QED BY <3>2, <3>3
    <2> QED BY <2>2, <2>3
  <1>16. task'[i].pc \in {"none", "open"} => sent'[i] = <<>>
    BY <1>1, <1>5, <1>9 DEF Link
  <1> QED BY <1>13, <1>14, <1>15, <1>16 DEF Link

LEMMA StepLinks ==
  ASSUME Typed, Stages, Owners, Links, [Next]_vars
  PROVE  Links'
  <1>0. "Test" \in Names /\ "Test" \in Cleared /\ "Test" \notin AllStatics
    BY StaticsFacts
  <1>1. ASSUME NEW p \in {"timers", "pool"}, Launch(p)
        PROVE  Links'
    BY <1>1, LaunchDoes, LinksKeptByApp DEF data
  <1>2. CASE Clear
    <2>1. exists'["Test"] = None /\ UNCHANGED <<recv, task, data>>
      BY <1>0, <1>2, ClearDoes
    <2> QED BY <2>1, LinksKeptByApp DEF data
  <1>3. CASE KillAll
    <2>1. /\ \A k \in Launches :
               /\ task'[k] = IF TaskUp(k) THEN NoTask("killed") ELSE task[k]
               /\ recv'[k].queue = recv[k].queue
               /\ recv'[k].pc = IF AppUp(k) THEN "end" ELSE recv[k].pc
          /\ UNCHANGED <<exists, mq, sent, got>>
      BY <1>3, KillAllDoes DEF data
    <2>2. \A k \in Launches : TaskUp(k) => task'[k].pc = "killed"
      BY <2>1, NothingTyped
    <2>3. \A k \in Launches : task'[k].pc \in {"none", "open"} => task[k].pc \in {"none", "open"}
      BY <2>1, <2>2
    <2> SUFFICES ASSUME NEW i \in Launches PROVE Link(i)'
      BY DEF Links
    <2>4. \A j \in Launches : Opens(j, i)' => Opens(j, i)
      BY <2>1, <2>2 DEF Opens, TaskUp
    <2>5. (Opens(i, i) => Gone(i)') /\ (Gone(i) => Gone(i)')
      BY <2>1, <2>2 DEF Opens, Gone, TaskUp
    <2>6. recv'[i].pc = "wait" => recv[i].pc = "wait"
      BY <2>1
    <2> QED BY <2>1, <2>3, <2>4, <2>5, <2>6, LinksKept
  <1>4. ASSUME NEW k \in Launches, Kill(k)
        PROVE  Links'
    BY <1>4, KillDoes, AppEndsLinks DEF Ends, names, data
  <1>5. ASSUME NEW k \in Launches, KillTask(k)
        PROVE  Links'
    BY <1>5, KillTaskDoes, TaskEndsLinks DEF names, data, KillTask
  <1>6. ASSUME NEW k \in Launches, Starts(k)
        PROVE  Links'
    <2>1. ASSUME NEW s \in AllStatics, Load(k, s)
          PROVE  Links'
      <3>1. exists'["Test"] = exists["Test"] /\ UNCHANGED <<recv, task, data>>
        <4>1. exists' = [exists EXCEPT ![s] = IF Creatable(s) THEN k ELSE @]
          BY <2>1 DEF Load
        <4>2. exists \in [Names -> Objects \ {Failed}] /\ s # "Test"
          BY <1>0 DEF Typed, NamesOK
        <4>3. exists'["Test"] = exists["Test"]
          BY <1>0, <4>1, <4>2
        <4>4. UNCHANGED <<recv, task, data>>
          BY <2>1 DEF Load
        <4> QED BY <4>3, <4>4
      <3> QED BY <3>1, LinksKeptByApp DEF data
    <2>2. CASE PoolMain(k)
      BY <1>0, <2>2, PoolMainDoes, AppEndsLinks DEF Ends, data
    <2>3. CASE StartThread(k)
      <3>1. /\ recv'[k].pc = "open" /\ recv'[k].queue = recv[k].queue
            /\ \A j \in Launches \ {k} : recv'[j] = recv[j]
            /\ UNCHANGED <<names, task, data>>
        BY <2>3, StartThreadDoes DEF Keeps
      <3>2. \A j \in Launches : /\ recv'[j].queue = recv[j].queue
                                /\ recv'[j].pc = "wait" => recv[j].pc = "wait"
        BY <3>1
      <3> QED BY <3>1, <3>2, LinksKeptByApp DEF names, data
    <2>4. CASE Fork(k)
      <3>1. /\ app[k].pc = "fork" /\ task'[k].pc = "open" /\ task'[k].queues = task[k].queues
            /\ \A j \in Launches \ {k} : task'[j] = task[j]
            /\ UNCHANGED <<names, recv, data>>
        BY <2>4, ForkDoes DEF Keeps
      <3>2. task[k].pc = "none" /\ task[k].queues = <<>>
        BY <3>1 DEF Stages, TaskStage, TaskUp
      <3> SUFFICES ASSUME NEW i \in Launches PROVE Link(i)'
        BY DEF Links
      <3>3. \A j \in Launches : Opens(j, i)' => Opens(j, i)
        BY <3>1, <3>2 DEF Opens, TaskUp
      <3>4. Opens(i, i) => Opens(i, i)'
        BY <3>1, <3>2 DEF Opens, TaskUp
      <3>5. Gone(i) => Gone(i)'
        BY <3>1, <3>2 DEF Gone
      <3>6. task'[i].pc \in {"none", "open"} => task[i].pc \in {"none", "open"}
        BY <3>1, <3>2
      <3> QED BY <3>1, <3>3, <3>4, <3>5, <3>6, LinksKept DEF names, data
    <2>5. CASE ForkFails(k)
      BY <2>5, ForkFailsDoes, AppEndsLinks DEF Ends, names, data
    <2> QED BY <1>6, <2>1, <2>2, <2>3, <2>4, <2>5 DEF Starts
  <1>7. ASSUME NEW k \in Launches, Receiver(k)
        PROVE  Links'
    <2>1. CASE ReceiveFails(k)
      BY <2>1, ReceiveFailsDoes, AppEndsLinks DEF Ends, names, data
    <2> QED BY <1>7, <2>1, RecvOpenLinks, ReceiveLinks DEF Receiver
  <1>8. ASSUME NEW k \in Launches, Timers(k)
        PROVE  Links'
    <2>1. CASE PollFaults(k)
      BY <2>1, PollFaultsDoes, TaskEndsLinks DEF names, data, TaskUp
    <2>2. CASE SendFails(k)
      BY <2>2, SendFailsDoes, TaskEndsLinks DEF names, data, TaskUp
    <2>3. ASSUME NEW i \in Slots, Fire(k, i)
          PROVE  Links'
      <3>1. /\ task[k].pc = "poll" /\ task'[k].pc = "send" /\ task'[k].queues = task[k].queues
            /\ \A j \in Launches \ {k} : task'[j] = task[j]
            /\ UNCHANGED <<names, recv, mq, sent, got>>
        BY <2>3, FireDoes
      <3> SUFFICES ASSUME NEW l \in Launches PROVE Link(l)'
        BY DEF Links
      <3>2. \A j \in Launches : Opens(j, l)' => Opens(j, l)
        BY <3>1 DEF Opens, TaskUp
      <3>3. Opens(l, l) => Opens(l, l)'
        BY <3>1 DEF Opens, TaskUp
      <3>4. Gone(l) => Gone(l)'
        BY <3>1 DEF Gone
      <3>5. task'[l].pc \in {"none", "open"} => task[l].pc \in {"none", "open"}
        BY <3>1
      <3> QED BY <3>1, <3>2, <3>3, <3>4, <3>5, LinksKept DEF names
    <2> QED BY <1>8, <2>1, <2>2, <2>3, TaskOpenLinks, SendLinks DEF Timers
  <1>9. ASSUME NEW k \in Launches, NEW i \in Slots, Schedule(k, i)
        PROVE  Links'
    <2>1. CASE AppEnds(k, "fault") /\ UNCHANGED data
      BY <1>9, <2>1, ScheduleDoes, AppEndsLinks DEF Ends, names, data
    <2>2. CASE UNCHANGED <<recv, mq, sent, got>>
      BY <1>9, <2>2, ScheduleDoes, LinksKeptByApp DEF names
    <2> QED BY <1>9, <2>1, <2>2, ScheduleDoes
  <1>10. CASE UNCHANGED vars
    BY <1>10, LinksKeptByApp DEF vars, names, data
  <1> QED
    BY <1>1, <1>2, <1>3, <1>4, <1>5, <1>6, <1>7, <1>8, <1>9, <1>10 DEF Next, Operator

(***************************************************************************)
(* What a TimerTask fires.  A timer is in the heap of its application, on   *)
(* its way into the queue or sent: in one of these at a time.              *)
(***************************************************************************)

Firing(k) ==
  /\ heap[k] \subseteq asked[k]
  /\ \A n \in 1 .. Len(sent[k]) : sent[k][n] \in asked[k] /\ sent[k][n] \notin heap[k]
  /\ \A m, n \in 1 .. Len(sent[k]) : sent[k][m] = sent[k][n] => m = n
  /\ task[k].pc = "send" =>
       /\ task[k].timer \in asked[k] /\ task[k].timer \notin heap[k]
       /\ \A n \in 1 .. Len(sent[k]) : sent[k][n] # task[k].timer

Fires == \A k \in Launches : Firing(k)

LEMMA InitFires == Init => Fires
  <1> SUFFICES ASSUME Init, NEW k \in Launches PROVE Firing(k)
    BY DEF Fires
  <1>1. task[k].pc = "none" /\ sent[k] = <<>> /\ heap[k] = {}
    BY NothingTyped DEF Init
  <1> QED BY <1>1 DEF Firing

LEMMA FiresKept ==
  ASSUME Fires, UNCHANGED <<heap, asked, sent>>,
         \A k \in Launches : task'[k].pc = "send" => task'[k] = task[k]
  PROVE  Fires'
  BY DEF Fires, Firing

LEMMA ScheduleFires ==
  ASSUME Typed, Stages, Fires, NEW k \in Launches, NEW i \in Slots, Schedule(k, i)
  PROVE  Fires'
  <1>1. /\ app[k].pc = "main" /\ i \notin asked[k]
        /\ UNCHANGED <<names, task>>
    BY ScheduleDoes
  <1>2. CASE UNCHANGED data
    BY <1>1, <1>2, FiresKept DEF data
  <1>3. CASE /\ \A s \in Statics.timers : app[k].has[s] # Failed
             /\ heap' = [heap EXCEPT ![app[k].has[Heap]] = @ \cup {i}]
             /\ asked' = [asked EXCEPT ![k] = @ \cup {i}]
             /\ UNCHANGED <<app, recv, mq, sent, got>>
    <2>1. app[k].has[Heap] = k
      <3>1. AppStage(k) /\ Ready(k)
        BY <1>1 DEF Stages, AppStage, Ready
      <3>2. app[k].has[Heap] # None /\ app[k].has[Heap] # Failed
        BY <1>3, <3>1, StaticsFacts DEF AppStage
      <3> QED BY <3>2, StaticsFacts DEF Typed, AppOK, HasOwn
    <2>2. /\ heap'[k] = heap[k] \cup {i} /\ asked'[k] = asked[k] \cup {i}
          /\ \A j \in Launches \ {k} : heap'[j] = heap[j] /\ asked'[j] = asked[j]
          /\ UNCHANGED <<task, sent>>
      BY <1>1, <1>3, <2>1 DEF Typed, DataOK
    <2> SUFFICES ASSUME NEW j \in Launches PROVE Firing(j)'
      BY DEF Fires
    <2>3. Firing(j)
      BY DEF Fires
    <2>4. CASE j # k
      BY <2>2, <2>3, <2>4 DEF Firing
    <2>5. CASE j = k
      BY <1>1, <2>2, <2>3, <2>5 DEF Firing
    <2> QED BY <2>4, <2>5
  <1> QED BY <1>2, <1>3, ScheduleDoes

LEMMA FireFires ==
  ASSUME Typed, Stages, Fires, NEW k \in Launches, NEW i \in Slots, Fire(k, i)
  PROVE  Fires'
  <1>1. /\ i \in heap[k] /\ task'[k].timer = i
        /\ heap'[k] = heap[k] \ {i}
        /\ \A j \in Launches \ {k} : heap'[j] = heap[j] /\ task'[j] = task[j]
        /\ UNCHANGED <<asked, sent>>
    BY FireDoes DEF Typed, DataOK
  <1> SUFFICES ASSUME NEW j \in Launches PROVE Firing(j)'
    BY DEF Fires
  <1>2. Firing(j)
    BY DEF Fires
  <1>3. CASE j # k
    BY <1>1, <1>2, <1>3 DEF Firing
  <1>4. CASE j = k
    BY <1>1, <1>2, <1>4 DEF Firing
  <1> QED BY <1>3, <1>4

LEMMA SendFires ==
  ASSUME Typed, Stages, Fires, NEW k \in Launches, Send(k)
  PROVE  Fires'
  <1> DEFINE t == task[k].timer
             l == Len(sent[k])
  <1>1. /\ task[k].pc = "send" /\ t \in Slots /\ task'[k].pc = "poll"
        /\ sent' = [sent EXCEPT ![k] = Append(sent[k], t)]
        /\ \A j \in Launches \ {k} : task'[j] = task[j]
        /\ UNCHANGED <<heap, asked>>
    BY SendDoes
  <1> HIDE DEF t
  <1>2. sent \in [Launches -> Seq(Slots)] /\ sent[k] \in Seq(Slots)
    BY DEF Typed, DataOK
  <1>3. sent'[k] = Append(sent[k], t) /\ \A j \in Launches \ {k} : sent'[j] = sent[j]
    BY <1>1, <1>2
  <1>4. l \in Nat /\ Len(sent'[k]) = l + 1 /\ sent'[k][l + 1] = t
    BY <1>1, <1>2, <1>3
  <1>5. \A n \in 1 .. l : sent'[k][n] = sent[k][n]
    BY <1>1, <1>2, <1>3
  <1> SUFFICES ASSUME NEW j \in Launches PROVE Firing(j)'
    BY DEF Fires
  <1>6. Firing(j)
    BY DEF Fires
  <1>7. CASE j # k
    BY <1>1, <1>3, <1>6, <1>7 DEF Firing
  <1>8. CASE j = k
    <2>1. /\ t \in asked[k] /\ t \notin heap[k] /\ \A n \in 1 .. l : sent[k][n] # t
          /\ \A n \in 1 .. l : sent[k][n] \in asked[k] /\ sent[k][n] \notin heap[k]
          /\ \A m, n \in 1 .. l : sent[k][m] = sent[k][n] => m = n
          /\ heap[k] \subseteq asked[k]
      BY <1>1, <1>6, <1>8 DEF Firing, t
    <2> HIDE DEF l
    <2>2. \A n \in 1 .. l + 1 : n = l + 1 \/ n \in 1 .. l
      BY <1>4
    <2>3. \A n \in 1 .. l + 1 : sent'[k][n] \in asked[k] /\ sent'[k][n] \notin heap[k]
      BY <1>4, <1>5, <2>1, <2>2
    <2>4. \A m, n \in 1 .. l + 1 : sent'[k][m] = sent'[k][n] => m = n
      BY <1>4, <1>5, <2>1, <2>2
    <2> QED BY <1>1, <1>4, <1>8, <2>1, <2>3, <2>4 DEF Firing
  <1> QED BY <1>7, <1>8

LEMMA StepFires ==
  ASSUME Typed, Stages, Fires, [Next]_vars
  PROVE  Fires'
  <1>1. CASE Operator
    <2>1. ASSUME NEW p \in {"timers", "pool"}, Launch(p)
          PROVE  Fires'
      BY <2>1, LaunchDoes, FiresKept DEF data
    <2>2. CASE Clear
      BY <2>2, ClearDoes, FiresKept DEF data
    <2>3. CASE KillAll
      <3>1. /\ \A k \in Launches : task'[k] = IF TaskUp(k) THEN NoTask("killed") ELSE task[k]
            /\ UNCHANGED data
        BY <2>3, KillAllDoes
      <3>2. \A k \in Launches : task'[k].pc = "send" => task'[k] = task[k]
        BY <3>1, NothingTyped
      <3> QED BY <3>1, <3>2, FiresKept DEF data
    <2>4. ASSUME NEW k \in Launches, Kill(k)
          PROVE  Fires'
      BY <2>4, KillDoes, FiresKept DEF data
    <2>5. ASSUME NEW k \in Launches, KillTask(k)
          PROVE  Fires'
      <3>1. \A j \in Launches : task'[j].pc = "send" => task'[j] = task[j]
        BY <2>5, KillTaskDoes, NothingTyped
      <3> QED BY <2>5, <3>1, KillTaskDoes, FiresKept DEF data
    <2> QED BY <1>1, <2>1, <2>2, <2>3, <2>4, <2>5 DEF Operator
  <1>2. ASSUME NEW k \in Launches, Starts(k)
        PROVE  Fires'
    <2>1. ASSUME NEW s \in AllStatics, Load(k, s)
          PROVE  Fires'
      <3>1. UNCHANGED <<task, data>>
        BY <2>1, LoadDoes
      <3> QED BY <3>1, FiresKept DEF data
    <2>2. CASE Fork(k)
      <3>1. /\ task'[k].pc = "open" /\ \A j \in Launches \ {k} : task'[j] = task[j]
            /\ UNCHANGED data
        BY <2>2, ForkDoes DEF Keeps
      <3>2. \A j \in Launches : task'[j].pc = "send" => task'[j] = task[j]
        BY <3>1
      <3> QED BY <3>1, <3>2, FiresKept DEF data
    <2> QED
      BY <1>2, <2>1, <2>2, PoolMainDoes, StartThreadDoes, ForkFailsDoes, FiresKept DEF Starts, data
  <1>3. ASSUME NEW k \in Launches, Receiver(k)
        PROVE  Fires'
    BY <1>3, RecvOpenDoes, ReceiveFailsDoes, FiresKept DEF Receiver, Receive, data
  <1>4. ASSUME NEW k \in Launches, Timers(k)
        PROVE  Fires'
    <2>1. CASE TaskOpen(k) \/ PollFaults(k) \/ SendFails(k)
      <3>1. UNCHANGED data /\ \A j \in Launches \ {k} : task'[j] = task[j]
        BY <2>1, TaskOpenDoes, PollFaultsDoes, SendFailsDoes
      <3>2. task'[k].pc # "send"
        BY <2>1, TaskOpenDoes, PollFaultsDoes, SendFailsDoes, NothingTyped
      <3>3. \A j \in Launches : task'[j].pc = "send" => task'[j] = task[j]
        BY <3>1, <3>2
      <3> QED BY <3>1, <3>3, FiresKept DEF data
    <2> QED BY <1>4, <2>1, FireFires, SendFires DEF Timers
  <1>5. ASSUME NEW k \in Launches, NEW i \in Slots, Schedule(k, i)
        PROVE  Fires'
    BY <1>5, ScheduleFires
  <1>6. CASE UNCHANGED vars
    BY <1>6, FiresKept DEF vars, data
  <1> QED BY <1>1, <1>2, <1>3, <1>4, <1>5, <1>6 DEF Next

(***************************************************************************)
(* What a prepared launch can fail of.                                     *)
(***************************************************************************)

\* What there is after `make prep', and whose the names are that it leaves.
Settled ==
  /\ clearing \/ fresh => /\ \A s \in Statics.timers : exists[s] = None
                          /\ \A q \in Launches : exists["Test"] = q => recv[q].when = "clearing"
  /\ fresh => \A j \in Launches : ~AppUp(j) /\ ~TaskUp(j)
  /\ \A q \in Launches : exists["Test"] = q => q <= launch
  /\ \A j \in Launches : exists["pooledObject"] = j =>
       /\ program[j] = "pool" /\ j <= launch
       /\ app[j].pc = "load" => app[j].has["pooledObject"] = j
  /\ \A j \in Launches : recv[j].pc \in {"none", "open"} => recv[j].when = "none"

\* A prepared launch is alone while it loads, and gets what it asks for;
Loads(k) == app[k].pc = "load" =>
  /\ k = launch
  /\ \A j \in Launches \ {k} : ~AppUp(j) /\ ~TaskUp(j)
  /\ \A s \in Statics.timers : \/ app[k].has[s] = k
                               \/ app[k].has[s] = None /\ exists[s] = None

Has(k) == /\ Ready(k) => \A s \in Statics.timers : app[k].has[s] = k
          /\ TaskUp(k) => task[k].has[Heap] = k

\* it finds a queue only if that was created while the names were cleared;
Cleared1(k) == \E j \in 1 .. k - 1 : recv[j].when = "clearing"
Finds(k) ==
  /\ app[k].pc = "load" \/ Ready(k) =>
       \A q \in Launches \ {k} : exists["Test"] = q => q < k /\ recv[q].when = "clearing"
  /\ recv[k].queue = Failed => Cleared1(k)
  /\ recv[k].when = "early" =>
       /\ AppUp(k) \/ TaskUp(k) => exists["Test"] # None
       /\ task[k].queues # <<>> => task[k].queues[1] # Failed

\* and it fails only for a cause.
Ended(k) ==
  /\ app[k].pc = "fault" => program[k] = "pool" /\ \E j \in 1 .. k - 1 : program[j] = "pool"
  /\ app[k].pc = "abort" => IF recv[k].queue = Failed THEN Cleared1(k) ELSE task[k].pc = "none"
  /\ task[k].pc # "fault"
  /\ task[k].pc = "abort" => recv[k].when # "early"

Excused(k) == prepared[k] => Loads(k) /\ Has(k) /\ Finds(k) /\ Ended(k)
Causes     == Settled /\ \A k \in Launches : Excused(k)

LEMMA InitCauses == Init => Causes
  <1> SUFFICES ASSUME Init PROVE Causes
    OBVIOUS
  <1>1. /\ \A k \in Launches : /\ app[k].pc = "none" /\ task[k].pc = "none" /\ recv[k].pc = "none"
                               /\ recv[k].when = "none" /\ ~prepared[k]
        /\ \A n \in Names : exists[n] = None
    BY NothingTyped DEF Init
  <1>2. Settled
    <2>1. \A s \in Statics.timers : exists[s] = None
      BY <1>1, StaticsFacts
    <2>2. exists["Test"] \notin Launches /\ exists["pooledObject"] \notin Launches
      BY <1>1, StaticsFacts, ObjectsApart
    <2> QED BY <1>1, <2>1, <2>2 DEF Settled, AppUp, TaskUp
  <1> QED BY <1>1, <1>2 DEF Causes, Excused

\* A step of a TimerTask that goes on.
LEMMA TaskStepCauses ==
  ASSUME Causes, NEW k \in Launches, TaskUp(k), task'[k].pc \in {"open", "poll", "send"},
         task'[k].has = task[k].has,
         prepared[k] /\ recv[k].when = "early" /\ task'[k].queues # <<>> =>
           task'[k].queues[1] # Failed,
         \A j \in Launches \ {k} : task'[j] = task[j], UNCHANGED <<names, app, recv>>
  PROVE  Causes'
  <1>0. \A j \in Launches : TaskUp(j)' <=> TaskUp(j)
    BY DEF TaskUp
  <1>1. Settled'
    BY <1>0 DEF Causes, Settled, AppUp, TaskUp, names
  <1>2. ASSUME NEW i \in Launches, prepared[i]
        PROVE  (Loads(i) /\ Has(i) /\ Finds(i) /\ Ended(i))'
    <2>1. Loads(i) /\ Has(i) /\ Finds(i) /\ Ended(i)
      BY <1>2 DEF Causes, Excused
    <2>2. Loads(i)'
      BY <1>0, <2>1 DEF Loads, AppUp, TaskUp, names
    <2>3. Has(i)'
      BY <1>0, <2>1 DEF Has, Ready, TaskUp, names
    <2>4. Finds(i)'
      BY <1>0, <1>2, <2>1 DEF Finds, Cleared1, Ready, AppUp, TaskUp, names
    <2>5. Ended(i)'
      BY <2>1 DEF Ended, Cleared1, TaskUp, names
    <2> QED BY <2>2, <2>3, <2>4, <2>5
  <1> QED BY <1>1, <1>2 DEF Causes, Excused, names

LEMMA TaskEndsCauses ==
  ASSUME Causes, NEW k \in Launches, NEW how \in {"abort", "fault", "killed"}, TaskUp(k),
         task'[k] = NoTask(how), \A j \in Launches \ {k} : task'[j] = task[j],
         prepared[k] => how # "fault" /\ (how = "abort" => recv[k].when # "early"),
         UNCHANGED <<names, app, recv>>
  PROVE  Causes'
  <1>0. task'[k].pc = how /\ task'[k].queues = <<>>
    BY NothingTyped
  <1>1. \A j \in Launches : TaskUp(j)' => TaskUp(j) /\ j # k
    BY <1>0 DEF TaskUp
  <1>2. Settled'
    BY <1>1 DEF Causes, Settled, AppUp, names
  <1>3. ASSUME NEW i \in Launches, prepared[i]
        PROVE  (Loads(i) /\ Has(i) /\ Finds(i) /\ Ended(i))'
    <2>1. Loads(i) /\ Has(i) /\ Finds(i) /\ Ended(i)
      BY <1>3 DEF Causes, Excused
    <2>2. Loads(i)'
      BY <1>1, <2>1 DEF Loads, AppUp, names
    <2>3. Has(i)'
      BY <1>1, <2>1 DEF Has, Ready, names
    <2>4. Finds(i)'
      BY <1>0, <1>1, <2>1 DEF Finds, Cleared1, Ready, AppUp, names
    <2>5. Ended(i)'
      BY <1>0, <1>3, <2>1 DEF Ended, Cleared1, TaskUp, names
    <2> QED BY <2>2, <2>3, <2>4, <2>5
  <1> QED BY <1>2, <1>3 DEF Causes, Excused, names

\* A cause remains one.
LEMMA CauseKept ==
  ASSUME NEW k \in Launches, \A j \in Launches : recv'[j].when = recv[j].when
  PROVE  Cleared1(k)' <=> Cleared1(k)
  <1>1. \A j \in 1 .. k - 1 : j \in Launches
    BY StartupAssumption DEF Launches
  <1>2. \A j \in 1 .. k - 1 : recv'[j].when = recv[j].when
    BY <1>1
  <1> QED BY <1>2 DEF Cleared1

LEMMA AppEndsCauses ==
  ASSUME Typed, Causes, NEW k \in Launches, NEW how \in Ends, AppEnds(k, how),
         prepared[k] => /\ how # "fault"
                        /\ how = "abort" => recv[k].queue = Failed \/ task[k].pc = "none",
         \A n \in Names \ {"timerpool"} : exists'[n] = exists[n],
         UNCHANGED <<launch, fresh, clearing, program, prepared, task>>
  PROVE  Causes'
  <1>1. /\ app'[k].pc = how
        /\ recv'[k].pc = "end" /\ recv'[k].queue = recv[k].queue /\ recv'[k].when = recv[k].when
        /\ \A j \in Launches \ {k} : app'[j] = app[j] /\ recv'[j] = recv[j]
    BY AppEndsDoes
  <1>2. \A j \in Launches : AppUp(j)' => AppUp(j) /\ j # k
    BY <1>1 DEF AppUp, Ends
  <1>3. \A j \in Launches : Ready(j)' => Ready(j) /\ j # k
    BY <1>1 DEF Ready, Ends
  <1>4. \A j \in Launches : recv'[j].queue = recv[j].queue /\ recv'[j].when = recv[j].when
    BY <1>1
  <1>5. \A j \in Launches : app'[j].pc = "load" => app'[j] = app[j]
    BY <1>1 DEF Ends
  <1>6. /\ exists'["Test"] = exists["Test"] /\ exists'["pooledObject"] = exists["pooledObject"]
        /\ \A s \in Statics.timers : exists'[s] = exists[s]
    BY StaticsFacts
  <1>7. Settled'
    BY <1>1, <1>2, <1>4, <1>5, <1>6 DEF Causes, Settled, TaskUp
  <1>8. ASSUME NEW i \in Launches, prepared[i]
        PROVE  (Loads(i) /\ Has(i) /\ Finds(i) /\ Ended(i))'
    <2>1. Loads(i) /\ Has(i) /\ Finds(i) /\ Ended(i)
      BY <1>8 DEF Causes, Excused
    <2>2. Loads(i)'
      BY <1>2, <1>5, <1>6, <2>1 DEF Loads, TaskUp
    <2>3. Has(i)'
      BY <1>1, <1>3, <2>1 DEF Has, TaskUp
    <2>4. Cleared1(i)' <=> Cleared1(i)
      BY <1>4, CauseKept
    <2>5. Finds(i)'
      <3>1. recv'[i].queue = Failed => Cleared1(i)'
        BY <1>4, <2>1, <2>4 DEF Finds
      <3>2. app'[i].pc = "load" \/ Ready(i)' => app[i].pc = "load" \/ Ready(i)
        BY <1>3, <1>5
      <3>3. \A q \in Launches : recv'[q].when = recv[q].when
        BY <1>4
      <3>4. AppUp(i)' \/ TaskUp(i)' => AppUp(i) \/ TaskUp(i)
        BY <1>2 DEF TaskUp
      <3> QED BY <1>6, <2>1, <3>1, <3>2, <3>3, <3>4 DEF Finds
    <2>6. Ended(i)'
      <3>2. CASE i # k
        BY <1>1, <2>1, <2>4, <3>2 DEF Ended
      <3>3. CASE i = k
        BY <1>1, <1>8, <2>1, <2>4, <3>3 DEF Ended, Finds, Ends
      <3> QED BY <3>2, <3>3
    <2> QED BY <2>2, <2>3, <2>5, <2>6
  <1> QED BY <1>7, <1>8 DEF Causes, Excused

LEMMA LaunchCauses ==
  ASSUME Typed, Stages, Causes, NEW p \in {"timers", "pool"}, Launch(p)
  PROVE  Causes'
  <1> PICK n \in Launches : n = launch'
    BY LaunchDoes
  <1>1. /\ launch' = n /\ n = launch + 1 /\ ~clearing
        /\ app'[n].pc = "load" /\ app'[n].has = app[n].has /\ prepared'[n] = fresh
        /\ \A j \in Launches \ {n} :
             /\ app'[j] = app[j] /\ program'[j] = program[j]
             /\ prepared'[j] => prepared[j] /\ app[j].pc # "load"
        /\ UNCHANGED <<exists, clearing, recv, task>>
    BY LaunchDoes
  <1>2. ~fresh' /\ launch \in Nat /\ n > launch
    BY <1>1 DEF Launch, Typed, NamesOK
  <1>3. \A j \in Launches : j <= launch => j # n
    BY <1>1, <1>2
  <1>4. app[n].pc = "none" /\ app[n].has = NoStatics /\ recv[n].pc = "none" /\ task[n].pc = "none"
    <2>1. AppStage(n) /\ RecvStage(n) /\ TaskStage(n)
      BY <1>1 DEF Stages
    <2> QED BY <1>2, <2>1 DEF AppStage, RecvStage, TaskStage, AppUp
  <1>5. Settled
    BY DEF Causes
  <1>6. Settled'
    <2>1. \A q \in Launches : exists["Test"] = q => q <= n
      BY <1>1, <1>2, <1>5, StartupAssumption DEF Settled, Launches
    <2>2. \A j \in Launches : exists["pooledObject"] = j =>
            /\ program'[j] = "pool" /\ j <= n
            /\ app'[j].pc = "load" => app'[j].has["pooledObject"] = j
      <3> SUFFICES ASSUME NEW j \in Launches, exists["pooledObject"] = j
                   PROVE  /\ program'[j] = "pool" /\ j <= n
                          /\ app'[j].pc = "load" => app'[j].has["pooledObject"] = j
        OBVIOUS
      <3>1. /\ program[j] = "pool" /\ j <= launch
            /\ app[j].pc = "load" => app[j].has["pooledObject"] = j
        BY <1>5 DEF Settled
      <3>2. j # n
        BY <1>3, <3>1
      <3>3. j <= n
        BY <1>1, <1>2, <3>1, StartupAssumption DEF Launches
      <3> QED BY <1>1, <3>1, <3>2, <3>3
    <2>3. \A j \in Launches : recv[j].pc \in {"none", "open"} => recv[j].when = "none"
      BY <1>5 DEF Settled
    <2> QED BY <1>1, <1>2, <2>1, <2>2, <2>3 DEF Settled
  <1>7. ASSUME prepared'[n]
        PROVE  (Loads(n) /\ Has(n) /\ Finds(n) /\ Ended(n))'
    <2>1. /\ fresh /\ \A s \in Statics.timers : exists[s] = None
          /\ \A q \in Launches : exists["Test"] = q => q <= launch /\ recv[q].when = "clearing"
          /\ \A j \in Launches : ~AppUp(j) /\ ~TaskUp(j)
      BY <1>1, <1>5, <1>7 DEF Settled
    <2>2. Loads(n)'
      <3>1. \A j \in Launches \ {n} : ~AppUp(j)' /\ ~TaskUp(j)'
        BY <1>1, <2>1 DEF AppUp, TaskUp
      <3>2. \A s \in Statics.timers : app'[n].has[s] = None /\ exists'[s] = None
        BY <1>1, <1>4, <2>1, StaticsFacts DEF NoStatics
      <3> QED BY <3>1, <3>2 DEF Loads
    <2>3. Has(n)'
      BY <1>1, <1>4 DEF Has, Ready, TaskUp
    <2>4. Finds(n)'
      <3>1. recv[n].queue # Failed /\ recv[n].when = "none"
        BY <1>1, <1>4, <1>5, ObjectsApart DEF Settled, Stages, RecvStage
      <3>2. \A q \in Launches : q <= launch => q < n
        BY <1>1, <1>2, StartupAssumption DEF Launches
      <3> QED BY <1>1, <2>1, <3>1, <3>2 DEF Finds
    <2>5. Ended(n)'
      BY <1>1, <1>4 DEF Ended
    <2> QED BY <2>2, <2>3, <2>4, <2>5
  <1>8. ASSUME NEW i \in Launches \ {n}, prepared'[i]
        PROVE  (Loads(i) /\ Has(i) /\ Finds(i) /\ Ended(i))'
    <2>1. /\ Has(i) /\ Finds(i) /\ Ended(i)
          /\ app[i].pc # "load" /\ app'[i] = app[i] /\ program'[i] = program[i]
      BY <1>1, <1>8 DEF Causes, Excused
    <2>2. Loads(i)'
      BY <2>1 DEF Loads
    <2>3. Has(i)'
      BY <1>1, <2>1 DEF Has, Ready, TaskUp
    <2>4. Cleared1(i)' <=> Cleared1(i)
      BY <1>1, CauseKept
    <2>5. Finds(i)'
      <3>1. (Ready(i)' <=> Ready(i)) /\ (AppUp(i)' <=> AppUp(i)) /\ (TaskUp(i)' <=> TaskUp(i))
        BY <1>1, <2>1 DEF Ready, AppUp, TaskUp
      <3> QED BY <1>1, <2>1, <2>4, <3>1 DEF Finds
    <2>6. Ended(i)'
      <3>1. ASSUME app[i].pc = "fault"
            PROVE  program'[i] = "pool" /\ \E j \in 1 .. i - 1 : program'[j] = "pool"
        <4>1. PICK j \in 1 .. i - 1 : program[j] = "pool"
          BY <2>1, <3>1 DEF Ended
        <4>2. i <= launch
          <5>1. AppStage(i) /\ ~(i > launch)
            BY <3>1 DEF Stages, AppStage
          <5> QED BY <1>2, <5>1, StartupAssumption DEF Launches
        <4>3. j \in Launches /\ j <= launch
          BY <1>2, <4>2, StartupAssumption DEF Launches
        <4>4. program'[j] = "pool"
          BY <1>1, <1>3, <4>1, <4>3
        <4>5. program[i] = "pool"
          BY <2>1, <3>1 DEF Ended
        <4> QED BY <2>1, <4>4, <4>5
      <3> QED BY <1>1, <2>1, <2>4, <3>1 DEF Ended
    <2> QED BY <2>2, <2>3, <2>5, <2>6
  <1>9. \A i \in Launches : Excused(i)'
    BY <1>7, <1>8 DEF Excused
  <1> QED BY <1>6, <1>9 DEF Causes

LEMMA ClearCauses ==
  ASSUME Typed, Causes, Clear
  PROVE  Causes'
  <1>1. /\ \A k \in Launches : app[k].pc # "load"
        /\ \A n \in Names : exists'[n] = IF n \in Cleared THEN None ELSE exists[n]
        /\ \A k \in Launches : prepared'[k] => prepared[k] /\ ~AppUp(k) /\ ~TaskUp(k)
        /\ UNCHANGED <<launch, fresh, program, app, recv, task>>
    BY ClearDoes
  <1>2. /\ exists'["Test"] = None /\ exists'["pooledObject"] = exists["pooledObject"]
        /\ \A s \in Statics.timers : exists'[s] = None
    BY <1>1, StaticsFacts
  <1>3. Settled'
    BY <1>1, <1>2, ObjectsApart DEF Causes, Settled, AppUp, TaskUp
  <1>4. ASSUME NEW i \in Launches, prepared'[i]
        PROVE  (Loads(i) /\ Has(i) /\ Finds(i) /\ Ended(i))'
    <2>1. /\ Finds(i) /\ Ended(i) /\ ~AppUp(i) /\ ~TaskUp(i)
          /\ app'[i] = app[i] /\ task'[i] = task[i] /\ recv'[i] = recv[i]
      BY <1>1, <1>4 DEF Causes, Excused
    <2>2. ~AppUp(i)' /\ ~TaskUp(i)' /\ ~Ready(i)' /\ app'[i].pc # "load"
      BY <2>1 DEF AppUp, TaskUp, Ready
    <2>3. Cleared1(i)' <=> Cleared1(i)
      BY <1>1, CauseKept
    <2>4. Loads(i)' /\ Has(i)'
      BY <2>2 DEF Loads, Has
    <2>5. Finds(i)'
      BY <2>1, <2>2, <2>3 DEF Finds
    <2>6. Ended(i)'
      BY <1>1, <2>1, <2>3 DEF Ended
    <2> QED BY <2>4, <2>5, <2>6
  <1> QED BY <1>3, <1>4 DEF Causes, Excused

LEMMA KillAllCauses ==
  ASSUME Typed, Causes, KillAll
  PROVE  Causes'
  <1>1. /\ clearing /\ ~clearing' /\ fresh'
        /\ \A k \in Launches :
             /\ app'[k] = IF AppUp(k) THEN NoApp("killed") ELSE app[k]
             /\ task'[k] = IF TaskUp(k) THEN NoTask("killed") ELSE task[k]
             /\ recv'[k].queue = recv[k].queue /\ recv'[k].when = recv[k].when
             /\ recv'[k].pc = IF AppUp(k) THEN "end" ELSE recv[k].pc
        /\ UNCHANGED <<exists, launch, program, prepared>>
    BY KillAllDoes
  <1>2. \A k \in Launches : /\ app'[k].pc \notin {"load", "start", "fork", "main"}
                            /\ ~AppUp(k)' /\ ~TaskUp(k)' /\ ~Ready(k)'
    <2> SUFFICES ASSUME NEW k \in Launches
                 PROVE  /\ app'[k].pc \notin {"load", "start", "fork", "main"}
                        /\ ~AppUp(k)' /\ ~TaskUp(k)' /\ ~Ready(k)'
      OBVIOUS
    <2>1. app'[k].pc \notin {"load", "start", "fork", "main"}
      BY <1>1, NothingTyped DEF AppUp
    <2>2. task'[k].pc \notin {"open", "poll", "send"}
      BY <1>1, NothingTyped DEF TaskUp
    <2> QED BY <2>1, <2>2 DEF AppUp, TaskUp, Ready
  <1>3. Settled'
    BY <1>1, <1>2 DEF Causes, Settled
  <1>4. ASSUME NEW i \in Launches, prepared[i]
        PROVE  (Loads(i) /\ Has(i) /\ Finds(i) /\ Ended(i))'
    <2>1. Finds(i) /\ Ended(i)
      BY <1>4 DEF Causes, Excused
    <2>2. Cleared1(i)' <=> Cleared1(i)
      BY <1>1, CauseKept
    <2>3. Loads(i)' /\ Has(i)'
      BY <1>2 DEF Loads, Has
    <2>4. app'[i].pc = "killed" \/ app'[i] = app[i]
      BY <1>1, NothingTyped
    <2>5. \/ task'[i].pc = "killed" /\ task'[i].queues = <<>> /\ task[i].pc # "none"
          \/ task'[i] = task[i]
      BY <1>1, NothingTyped DEF TaskUp
    <2>6. Finds(i)'
      BY <1>1, <1>2, <2>1, <2>2, <2>5 DEF Finds
    <2>7. Ended(i)'
      BY <1>1, <2>1, <2>2, <2>4, <2>5 DEF Ended
    <2> QED BY <2>3, <2>6, <2>7
  <1> QED BY <1>1, <1>3, <1>4 DEF Causes, Excused

LEMMA LoadCauses ==
  ASSUME Typed, Stages, Owners, Causes, NEW k \in Launches, NEW s \in AllStatics, Load(k, s)
  PROVE  Causes'
  <1> DEFINE has == [app[k].has EXCEPT ![s] = Create(s, k)]
  <1>1. /\ app[k].pc = "load" /\ MayLoad(k, s)
        /\ exists'[s] = (IF Creatable(s) THEN k ELSE exists[s])
        /\ \A n \in Names \ {s} : exists'[n] = exists[n]
        /\ \A j \in Launches \ {k} : app'[j] = app[j]
        /\ UNCHANGED <<launch, fresh, clearing, program, prepared, recv, task>>
    BY LoadDoes
  <1>2. \/ /\ s \in Pools \cup Statics.pool /\ ~Creatable(s)
           /\ app'[k] = NoApp("fault")
        \/ /\ s \in Pools \cup Statics.pool => Creatable(s)
           /\ app'[k].has = has
           /\ \/ app'[k].pc = "load"
              \/ /\ app'[k].pc = "start"
                 /\ \A t \in Statics[program[k]] : has[t] # None
    BY LoadDoes
  <1>3. \A t \in AllStatics : has[t] = IF t = s THEN Create(s, k) ELSE app[k].has[t]
    BY DEF Typed, AppOK, AppFields
  <1> HIDE DEF has
  <1>4. /\ ~clearing /\ AppUp(k) /\ ~fresh /\ k <= launch
        /\ task[k].pc = "none" /\ recv[k].pc = "none" /\ recv[k].when = "none"
        /\ recv[k].queue = None
    <2>1. AppStage(k) /\ RecvStage(k) /\ TaskStage(k)
      BY DEF Stages
    <2>2. ~clearing /\ AppUp(k)
      BY <1>1 DEF Owners, AppUp
    <2>3. ~fresh
      BY <2>2 DEF Causes, Settled
    <2>4. k <= launch
      BY <1>1, <2>1, StartupAssumption DEF AppStage, Typed, NamesOK, Launches
    <2>5. task[k].pc = "none" /\ recv[k].pc = "none" /\ recv[k].queue = None
      BY <1>1, <2>1 DEF RecvStage, TaskStage
    <2>6. recv[k].when = "none"
      BY <2>5 DEF Causes, Settled
    <2> QED BY <2>2, <2>3, <2>4, <2>5, <2>6
  <1>5. app[k].has[s] = None /\ s \in Statics[program[k]]
    BY <1>1 DEF MayLoad
  <1>6. /\ exists'["Test"] = exists["Test"]
        /\ "pooledObject" # s => exists'["pooledObject"] = exists["pooledObject"]
    BY <1>1, StaticsFacts
  <1>7. program[k] = "timers" \/ program[k] = "pool"
    BY DEF Typed, NamesOK
  <1>8. s = "pooledObject" => program[k] = "pool"
    BY <1>5, <1>7, StaticsFacts
  <1>9. \A j \in Launches : exists["pooledObject"] = j =>
          /\ program[j] = "pool" /\ j <= launch
          /\ app[j].pc = "load" => app[j].has["pooledObject"] = j
    BY DEF Causes, Settled
  <1>10. Settled'
    <2>1. ASSUME NEW j \in Launches, exists'["pooledObject"] = j
          PROVE  /\ program[j] = "pool" /\ j <= launch
                 /\ app'[j].pc = "load" => app'[j].has["pooledObject"] = j
      <3>1. CASE exists["pooledObject"] = j
        <4>1. CASE j # k
          BY <1>1, <1>9, <3>1, <4>1
        <4>2. CASE j = k
          <5>1. app[k].has["pooledObject"] = k /\ program[k] = "pool"
            BY <1>1, <1>9, <3>1, <4>2
          <5>2. s # "pooledObject"
            BY <1>5, <5>1, ObjectsApart
          <5>3. has["pooledObject"] = k
            BY <1>3, <5>1, <5>2, StaticsFacts
          <5>4. app'[k].pc = "load" => app'[k].has = has
            BY <1>2, NothingTyped
          <5> QED BY <1>4, <4>2, <5>1, <5>3, <5>4
        <4> QED BY <4>1, <4>2
      <3>2. CASE exists["pooledObject"] # j
        <4>1. s = "pooledObject" /\ j = k /\ Creatable(s)
          BY <1>1, <1>6, <2>1, <3>2
        <4>2. app'[k].has = has
          BY <1>2, <4>1
        <4>3. has["pooledObject"] = k
          BY <1>3, <4>1 DEF Create
        <4> QED BY <1>4, <1>8, <4>1, <4>2, <4>3
      <3> QED BY <3>1, <3>2
    <2> QED BY <1>1, <1>4, <1>6, <2>1 DEF Causes, Settled
  <1>11. ASSUME prepared[k]
         PROVE  (Loads(k) /\ Has(k) /\ Finds(k) /\ Ended(k))'
    <2>1. /\ Finds(k) /\ Ended(k)
          /\ k = launch
          /\ \A j \in Launches \ {k} : ~AppUp(j) /\ ~TaskUp(j)
          /\ \A t \in Statics.timers : \/ app[k].has[t] = k
                                       \/ app[k].has[t] = None /\ exists[t] = None
      BY <1>1, <1>11 DEF Causes, Excused, Loads
    <2>2. s \in Statics.timers => Creatable(s)
      BY <1>5, <2>1, ObjectsApart DEF Creatable
    <2>3. app'[k] # NoApp("fault") =>
            \A t \in Statics.timers : \/ app'[k].has[t] = k
                                      \/ app'[k].has[t] = None /\ exists'[t] = None
      <3> SUFFICES ASSUME app'[k] # NoApp("fault"), NEW t \in Statics.timers
                   PROVE  \/ app'[k].has[t] = k
                          \/ app'[k].has[t] = None /\ exists'[t] = None
        OBVIOUS
      <3>1. app'[k].has = has /\ t \in AllStatics /\ t \in Names
        BY <1>2, StaticsFacts
      <3>2. CASE t = s
        BY <1>3, <2>2, <3>1, <3>2 DEF Create
      <3>3. CASE t # s
        BY <1>1, <1>3, <2>1, <3>1, <3>3
      <3> QED BY <3>2, <3>3
    <2>4. Loads(k)'
      <3> SUFFICES ASSUME app'[k].pc = "load" PROVE Loads(k)'
        BY DEF Loads
      <3>1. app'[k] # NoApp("fault")
        BY NothingTyped
      <3>2. \A j \in Launches \ {k} : ~AppUp(j)' /\ ~TaskUp(j)'
        BY <1>1, <2>1 DEF AppUp, TaskUp
      <3> QED BY <1>1, <2>1, <2>3, <3>1, <3>2 DEF Loads
    <2>5. Has(k)'
      <3>1. ~TaskUp(k)'
        BY <1>1, <1>4 DEF TaskUp
      <3>2. ASSUME Ready(k)', NEW t \in Statics.timers
            PROVE  app'[k].has[t] = k
        <4>1. app'[k].pc = "start" /\ program[k] = "timers" /\ app'[k] # NoApp("fault")
          BY <1>1, <1>2, <3>2, NothingTyped DEF Ready
        <4>2. app'[k].has = has /\ has[t] # None
          BY <1>2, <4>1, StaticsFacts
        <4> QED BY <2>3, <4>1, <4>2
      <3> QED BY <3>1, <3>2 DEF Has
    <2>6. Finds(k)'
      <3>1. recv'[k].queue # Failed /\ recv'[k].when = "none"
        BY <1>1, <1>4, ObjectsApart
      <3> QED BY <1>1, <1>6, <2>1, <3>1 DEF Finds
    <2>7. Ended(k)'
      <3>1. ASSUME app'[k].pc = "fault"
            PROVE  program[k] = "pool" /\ \E j \in 1 .. k - 1 : program[j] = "pool"
        <4>1. s \in Pools \cup Statics.pool /\ ~Creatable(s)
          BY <1>2, <3>1
        <4>2. s = "pooledObject"
          BY <2>2, <4>1, StaticsFacts
        <4>3. exists["pooledObject"] \in Launches
          BY <4>1, <4>2, ObjectsApart, StaticsFacts DEF Creatable, Typed, NamesOK, Objects
        <4>4. PICK j \in Launches : exists["pooledObject"] = j
          BY <4>3
        <4>5. program[j] = "pool" /\ j <= launch
          BY <1>9, <4>4
        <4>6. j # k
          BY <1>1, <1>5, <1>9, <4>2, <4>4, ObjectsApart
        <4>7. j \in 1 .. k - 1
          BY <2>1, <4>5, <4>6, StartupAssumption DEF Launches
        <4> QED BY <1>8, <4>2, <4>5, <4>7
      <3>2. app'[k].pc # "abort"
        BY <1>2, NothingTyped
      <3> QED BY <1>1, <1>4, <3>1, <3>2 DEF Ended
    <2> QED BY <2>4, <2>5, <2>6, <2>7
  <1>12. ASSUME NEW i \in Launches \ {k}, prepared[i]
         PROVE  (Loads(i) /\ Has(i) /\ Finds(i) /\ Ended(i))'
    <2>1. /\ Loads(i) /\ Has(i) /\ Finds(i) /\ Ended(i) /\ app'[i] = app[i]
      BY <1>1, <1>12 DEF Causes, Excused
    <2>2. Loads(i)'
      BY <1>4, <1>12, <2>1 DEF Loads
    <2>3. Has(i)'
      BY <1>1, <2>1 DEF Has, Ready, TaskUp
    <2>4. Cleared1(i)' <=> Cleared1(i)
      BY <1>1, CauseKept
    <2>5. (Ready(i)' <=> Ready(i)) /\ (AppUp(i)' <=> AppUp(i)) /\ (TaskUp(i)' <=> TaskUp(i))
      BY <1>1, <2>1 DEF Ready, AppUp, TaskUp
    <2>6. Finds(i)'
      BY <1>1, <1>6, <2>1, <2>4, <2>5 DEF Finds
    <2>7. Ended(i)'
      BY <1>1, <2>1, <2>4 DEF Ended
    <2> QED BY <2>2, <2>3, <2>6, <2>7
  <1>13. \A i \in Launches : Excused(i)'
    BY <1>1, <1>11, <1>12 DEF Excused
  <1> QED BY <1>10, <1>13 DEF Causes

LEMMA StartThreadCauses ==
  ASSUME Typed, Stages, Causes, NEW k \in Launches, StartThread(k)
  PROVE  Causes'
  <1>1. /\ app[k].pc = "start" /\ program[k] = "timers"
        /\ app'[k].pc = "fork" /\ app'[k].has = app[k].has
        /\ recv'[k].pc = "open" /\ recv'[k].queue = recv[k].queue /\ recv'[k].when = recv[k].when
        /\ \A j \in Launches \ {k} : app'[j] = app[j] /\ recv'[j] = recv[j]
        /\ UNCHANGED <<names, task>>
    BY StartThreadDoes DEF Keeps
  <1>2. recv[k].when = "none"
    <2>1. recv[k].pc = "none"
      BY <1>1 DEF Stages, RecvStage
    <2> QED BY <2>1 DEF Causes, Settled
  <1>3. \A j \in Launches : /\ recv'[j].queue = recv[j].queue /\ recv'[j].when = recv[j].when
                            /\ app'[j].has = app[j].has
    BY <1>1
  <1>4. \A j \in Launches : /\ (Ready(j)' <=> Ready(j)) /\ (AppUp(j)' <=> AppUp(j))
                            /\ (TaskUp(j)' <=> TaskUp(j))
                            /\ app'[j].pc \in {"load", "fault", "abort"} => app'[j] = app[j]
    BY <1>1 DEF Ready, AppUp, TaskUp, names
  <1>5. Settled'
    <2>1. \A j \in Launches : recv'[j].pc \in {"none", "open"} => recv'[j].when = "none"
      BY <1>1, <1>2 DEF Causes, Settled
    <2> QED BY <1>1, <1>3, <1>4, <2>1 DEF Causes, Settled, names
  <1>6. ASSUME NEW i \in Launches, prepared[i]
        PROVE  (Loads(i) /\ Has(i) /\ Finds(i) /\ Ended(i))'
    <2>1. Loads(i) /\ Has(i) /\ Finds(i) /\ Ended(i)
      BY <1>6 DEF Causes, Excused
    <2>2. Cleared1(i)' <=> Cleared1(i)
      BY <1>3, CauseKept
    <2>3. Loads(i)'
      BY <1>1, <1>4, <2>1 DEF Loads, names
    <2>4. Has(i)'
      BY <1>1, <1>3, <1>4, <2>1 DEF Has
    <2>5. Finds(i)'
      BY <1>1, <1>3, <1>4, <2>1, <2>2 DEF Finds, names
    <2>6. Ended(i)'
      BY <1>1, <1>3, <1>4, <2>1, <2>2 DEF Ended, names
    <2> QED BY <2>3, <2>4, <2>5, <2>6
  <1> QED BY <1>1, <1>5, <1>6 DEF Causes, Excused, names

LEMMA ForkCauses ==
  ASSUME Typed, Stages, Causes, NEW k \in Launches, Fork(k)
  PROVE  Causes'
  <1>1. /\ app[k].pc = "fork" /\ app'[k].pc = "main" /\ app'[k].has = app[k].has
        /\ task'[k].pc = "open" /\ task'[k].has = app[k].has
        /\ task'[k].queues = task[k].queues
        /\ \A j \in Launches \ {k} : app'[j] = app[j] /\ task'[j] = task[j]
        /\ UNCHANGED <<names, recv>>
    BY ForkDoes DEF Keeps
  <1>2. AppUp(k) /\ Ready(k) /\ task[k].pc = "none"
    BY <1>1 DEF Stages, AppStage, TaskStage, AppUp, Ready
  <1>3. \A j \in Launches : /\ (Ready(j)' <=> Ready(j)) /\ (AppUp(j)' <=> AppUp(j))
                            /\ app'[j].has = app[j].has
                            /\ task'[j].queues = task[j].queues
                            /\ app'[j].pc \in {"load", "fault", "abort"} => app'[j] = app[j] /\ j # k
    BY <1>1 DEF Ready, AppUp, names
  <1>4. Settled'
    <2>1. ~fresh
      BY <1>2 DEF Causes, Settled
    <2> QED BY <1>1, <1>3, <2>1 DEF Causes, Settled, names
  <1>5. ASSUME NEW i \in Launches, prepared[i]
        PROVE  (Loads(i) /\ Has(i) /\ Finds(i) /\ Ended(i))'
    <2>1. Loads(i) /\ Has(i) /\ Finds(i) /\ Ended(i)
      BY <1>5 DEF Causes, Excused
    <2>2. Cleared1(i)' <=> Cleared1(i)
      BY <1>1, CauseKept
    <2>3. Loads(i)'
      BY <1>2, <1>3, <2>1 DEF Loads
    <2>4. Has(i)'
      <3>1. CASE i = k
        BY <1>1, <1>2, <1>3, <2>1, <3>1, StaticsFacts DEF Has
      <3>2. CASE i # k
        BY <1>1, <1>3, <2>1, <3>2 DEF Has, TaskUp
      <3> QED BY <3>1, <3>2
    <2>5. Finds(i)'
      <3>1. AppUp(i)' \/ TaskUp(i)' => AppUp(i) \/ TaskUp(i)
        BY <1>1, <1>2, <1>3 DEF TaskUp
      <3> QED BY <1>1, <1>3, <2>1, <2>2, <3>1 DEF Finds, names
    <2>6. Ended(i)'
      <3>1. CASE i = k
        BY <1>1, <3>1 DEF Ended
      <3>2. CASE i # k
        BY <1>1, <1>3, <2>1, <2>2, <3>2 DEF Ended, names
      <3> QED BY <3>1, <3>2
    <2> QED BY <2>3, <2>4, <2>5, <2>6
  <1> QED BY <1>1, <1>4, <1>5 DEF Causes, Excused, names

LEMMA RecvOpenCauses ==
  ASSUME Typed, Stages, Owners, Links, Causes, NEW k \in Launches, RecvOpen(k)
  PROVE  Causes'
  <1>1. /\ recv[k].pc = "open"
        /\ exists'["Test"] = (IF Creatable("Test") THEN k ELSE exists["Test"])
        /\ \A n \in Names \ {"Test"} : exists'[n] = exists[n]
        /\ recv'[k].pc = "wait" /\ recv'[k].queue = Create("Test", k)
        /\ recv'[k].when = (IF clearing THEN "clearing"
                            ELSE IF task[k].pc \in {"none", "open"} /\ task[k].queues = <<>>
                            THEN "early" ELSE "late")
        /\ \A j \in Launches \ {k} : recv'[j] = recv[j]
        /\ UNCHANGED <<launch, fresh, clearing, program, prepared, app, task>>
    BY RecvOpenDoes
  <1>2. /\ Ready(k) /\ AppUp(k) /\ app[k].pc \in {"fork", "main"} /\ k <= launch
        /\ recv[k].queue = None
    <2>1. AppStage(k) /\ RecvStage(k)
      BY DEF Stages
    <2>2. app[k].pc \in {"fork", "main"}
      BY <1>1, <2>1 DEF RecvStage
    <2>3. k <= launch
      BY <2>1, <2>2, StartupAssumption DEF AppStage, Typed, NamesOK, Launches
    <2> QED BY <1>1, <2>1, <2>2, <2>3 DEF AppStage, RecvStage, Ready, AppUp
  <1>3. Settled /\ ~fresh /\ recv[k].when = "none"
    BY <1>1, <1>2 DEF Causes, Settled
  <1>4. /\ exists["Test"] # k
        /\ exists'["Test"] # None
        /\ exists["Test"] # None => exists'["Test"] = exists["Test"]
        /\ ~Creatable("Test") => exists["Test"] \in Launches
    <2>1. exists["Test"] # k
      BY <1>2, ObjectsApart DEF Links, Link, Created
    <2>2. exists["Test"] \in Launches \cup {None}
      BY StaticsFacts DEF Typed, NamesOK, Objects
    <2> QED BY <1>1, <2>1, <2>2, ObjectsApart DEF Creatable
  <1>5. \A s \in AllStatics : exists'[s] = exists[s]
    BY <1>1, StaticsFacts
  <1>6. \A j \in Launches : /\ (Ready(j)' <=> Ready(j)) /\ (AppUp(j)' <=> AppUp(j))
                            /\ (TaskUp(j)' <=> TaskUp(j))
    BY <1>1 DEF Ready, AppUp, TaskUp
  <1>7. Settled'
    <2>1. \A s \in Statics.timers : exists'[s] = exists[s]
      BY <1>5, StaticsFacts
    <2>2. \A q \in Launches : exists'["Test"] = q => q <= launch
      BY <1>1, <1>2, <1>3 DEF Settled
    <2>3. ASSUME clearing, NEW q \in Launches, exists'["Test"] = q
          PROVE  recv'[q].when = "clearing"
      <3>1. CASE q = k
        BY <1>1, <2>3, <3>1
      <3>2. CASE q # k
        <4>1. exists["Test"] = q
          BY <1>1, <2>3, <3>2
        <4> QED BY <1>1, <1>3, <2>3, <3>2, <4>1 DEF Settled
      <3> QED BY <3>1, <3>2
    <2>4. exists'["pooledObject"] = exists["pooledObject"]
      BY <1>1, StaticsFacts
    <2>5. \A j \in Launches : recv'[j].pc \in {"none", "open"} => recv'[j].when = "none"
      BY <1>1, <1>3 DEF Settled
    <2> QED BY <1>1, <1>3, <2>1, <2>2, <2>3, <2>4, <2>5 DEF Settled
  <1>8. ASSUME NEW i \in Launches, Cleared1(i)
        PROVE  Cleared1(i)'
    <2>1. PICK j \in 1 .. i - 1 : recv[j].when = "clearing"
      BY <1>8 DEF Cleared1
    <2>2. j \in Launches /\ j # k
      BY <1>3, <2>1, StartupAssumption DEF Launches
    <2>3. recv'[j] = recv[j]
      BY <1>1, <2>2
    <2> QED BY <2>1, <2>3 DEF Cleared1
  <1>9. ASSUME NEW i \in Launches, prepared[i]
        PROVE  (Loads(i) /\ Has(i) /\ Finds(i) /\ Ended(i))'
    <2>1. Loads(i) /\ Has(i) /\ Finds(i) /\ Ended(i)
      BY <1>9 DEF Causes, Excused
    <2>2. app[i].pc # "load"
      BY <1>2, <2>1 DEF Loads
    <2>3. Loads(i)'
      BY <1>1, <2>2 DEF Loads
    <2>4. Has(i)'
      BY <1>1, <1>6, <2>1 DEF Has
    <2>5. CASE i = k
      <3>1. \A q \in Launches \ {k} : exists["Test"] = q => q < k /\ recv[q].when = "clearing"
        BY <1>2, <2>1, <2>5 DEF Finds
      <3>2. \A q \in Launches \ {k} : exists'["Test"] = q => q < k /\ recv'[q].when = "clearing"
        BY <1>1, <3>1
      <3>3. ASSUME recv'[k].queue = Failed
            PROVE  Cleared1(k)'
        <4>1. ~Creatable("Test")
          BY <1>1, <3>3, ObjectsApart DEF Create
        <4>2. PICK q \in Launches : q = exists["Test"]
          BY <1>4, <4>1
        <4>3. q < k /\ recv[q].when = "clearing" /\ q # k
          BY <1>4, <3>1, <4>2
        <4>4. q \in 1 .. k - 1 /\ recv'[q].when = "clearing"
          BY <1>1, <4>3, StartupAssumption DEF Launches
        <4> QED BY <4>4 DEF Cleared1
      <3>4. recv'[k].when = "early" => task[k].pc \in {"none", "open"} /\ task[k].queues = <<>>
        BY <1>1
      <3>5. Finds(k)'
        BY <1>1, <1>4, <3>2, <3>3, <3>4 DEF Finds
      <3>6. Ended(k)'
        BY <1>1, <1>2, <2>1, <2>5, <3>4 DEF Ended
      <3> QED BY <2>3, <2>4, <2>5, <3>5, <3>6
    <2>6. CASE i # k
      <3>1. ~Ready(i)
        BY <1>2, <2>6 DEF Owners, Alive
      <3>2. recv'[i] = recv[i]
        BY <1>1, <2>6
      <3>3. Finds(i)'
        BY <1>1, <1>4, <1>6, <1>8, <2>1, <2>2, <3>1, <3>2 DEF Finds
      <3>4. Ended(i)'
        <4>1. recv[i].queue = Failed => Cleared1(i)'
          BY <1>8, <2>1 DEF Finds
        <4> QED BY <1>1, <2>1, <3>2, <4>1 DEF Ended
      <3> QED BY <2>3, <2>4, <3>3, <3>4
    <2> QED BY <2>5, <2>6
  <1> QED BY <1>1, <1>7, <1>9 DEF Causes, Excused

\* A step that changes no name, no process and no thread.
LEMMA CausesKept ==
  ASSUME Causes, UNCHANGED <<names, app, recv, task>>
  PROVE  Causes'
  BY DEF Causes, Settled, Excused, Loads, Has, Finds, Cleared1, Ended, Ready, AppUp, TaskUp, names

LEMMA TimersCauses ==
  ASSUME Typed, Stages, Causes, NEW k \in Launches, Timers(k)
  PROVE  Causes'
  <1>0. /\ TaskStage(k)
        /\ prepared[k] => Has(k) /\ Finds(k)
    BY DEF Stages, Causes, Excused
  <1>1. CASE TaskOpen(k)
    <2>1. /\ task[k].pc = "open"
          /\ task'[k].pc \in {"open", "poll"} /\ task'[k].has = task[k].has
          /\ \A j \in Launches \ {k} : task'[j] = task[j]
          /\ UNCHANGED <<names, app, recv>>
      BY <1>1, TaskOpenDoes
    <2>2. PICK o \in Objects : /\ task[k].queues = <<>> => o = Open("Test")
                               /\ task'[k].queues = Append(task[k].queues, o)
      BY <1>1, TaskOpenDoes
    <2>3. TaskUp(k) /\ task[k].queues \in Seq(Objects)
      BY <2>1 DEF TaskUp, Typed, TaskOK, TaskFields
    <2>4. ASSUME prepared[k], recv[k].when = "early"
          PROVE  task'[k].queues[1] # Failed
      <3>1. CASE task[k].queues = <<>>
        <4>1. exists["Test"] # None /\ exists["Test"] # Failed
          BY <1>0, <2>3, <2>4, StaticsFacts DEF Finds, Typed, NamesOK
        <4>2. o # Failed
          BY <2>2, <3>1, <4>1 DEF Open
        <4> QED BY <2>2, <2>3, <3>1, <4>2
      <3>2. CASE task[k].queues # <<>>
        <4>1. task'[k].queues[1] = task[k].queues[1]
          BY <2>2, <2>3, <3>2
        <4> QED BY <1>0, <2>4, <3>2, <4>1 DEF Finds
      <3> QED BY <3>1, <3>2
    <2> QED BY <2>1, <2>3, <2>4, TaskStepCauses
  <1>2. CASE PollFaults(k)
    <2>1. /\ task[k].pc = "poll" /\ task[k].has[Heap] = Failed
          /\ task'[k] = NoTask("fault") /\ \A j \in Launches \ {k} : task'[j] = task[j]
          /\ UNCHANGED <<names, app, recv>>
      BY <1>2, PollFaultsDoes
    <2>2. TaskUp(k) /\ ~prepared[k]
      BY <1>0, <2>1, ObjectsApart DEF Has, TaskUp
    <2> QED BY <2>1, <2>2, TaskEndsCauses
  <1>3. CASE SendFails(k)
    <2>1. /\ task[k].pc = "send" /\ task[k].queues[1] = Failed
          /\ task'[k] = NoTask("abort") /\ \A j \in Launches \ {k} : task'[j] = task[j]
          /\ UNCHANGED <<names, app, recv>>
      BY <1>3, SendFailsDoes DEF Test
    <2>2. TaskUp(k) /\ task[k].queues # <<>>
      BY <1>0, <2>1 DEF TaskStage, TaskUp
    <2>3. prepared[k] => recv[k].when # "early"
      BY <1>0, <2>1, <2>2 DEF Finds
    <2> QED BY <2>1, <2>2, <2>3, TaskEndsCauses
  <1>4. ASSUME Send(k) \/ \E i \in Slots : Fire(k, i)
        PROVE  Causes'
    <2>1. /\ TaskUp(k) /\ task'[k].pc \in {"poll", "send"} /\ task'[k].has = task[k].has
          /\ task'[k].queues = task[k].queues
          /\ \A j \in Launches \ {k} : task'[j] = task[j]
          /\ UNCHANGED <<names, app, recv>>
      BY <1>4, SendDoes, FireDoes DEF TaskUp
    <2>2. prepared[k] /\ recv[k].when = "early" /\ task'[k].queues # <<>> =>
            task'[k].queues[1] # Failed
      BY <1>0, <2>1 DEF Finds
    <2> QED BY <2>1, <2>2, TaskStepCauses
  <1> QED BY <1>1, <1>2, <1>3, <1>4 DEF Timers

\* The application dies, each time for a reason that is excused.
LEMMA DiesCauses ==
  ASSUME Typed, Stages, Causes, NEW k \in Launches,
         \/ Kill(k) \/ PoolMain(k) \/ ForkFails(k) \/ ReceiveFails(k)
         \/ app[k].pc = "main" /\ (\E s \in Statics.timers : app[k].has[s] = Failed)
              /\ AppEnds(k, "fault") /\ UNCHANGED <<names, task>>
  PROVE  Causes'
  <1>1. CASE Kill(k)
    BY <1>1, KillDoes, AppEndsCauses DEF Ends, names
  <1>2. CASE PoolMain(k)
    BY <1>2, PoolMainDoes, AppEndsCauses DEF Ends
  <1>3. CASE ForkFails(k)
    <2>1. task[k].pc = "none"
      BY <1>3, ForkFailsDoes DEF Stages, TaskStage
    <2> QED BY <1>3, <2>1, ForkFailsDoes, AppEndsCauses DEF Ends, names
  <1>4. CASE ReceiveFails(k)
    BY <1>4, ReceiveFailsDoes, AppEndsCauses DEF Ends, names
  <1>5. CASE app[k].pc = "main" /\ (\E s \in Statics.timers : app[k].has[s] = Failed)
               /\ AppEnds(k, "fault") /\ UNCHANGED <<names, task>>
    <2>1. Ready(k)
      BY <1>5 DEF Stages, AppStage, Ready
    <2>2. ~prepared[k]
      BY <1>5, <2>1, ObjectsApart DEF Causes, Excused, Has
    <2> QED BY <1>5, <2>2, AppEndsCauses DEF Ends, names
  <1> QED BY <1>1, <1>2, <1>3, <1>4, <1>5

LEMMA StepCauses ==
  ASSUME Typed, Stages, Owners, Links, Causes, [Next]_vars
  PROVE  Causes'
  <1>1. CASE Operator
    <2>1. ASSUME NEW k \in Launches, KillTask(k)
          PROVE  Causes'
      BY <2>1, KillTaskDoes, TaskEndsCauses
    <2> QED BY <1>1, <2>1, LaunchCauses, ClearCauses, KillAllCauses, DiesCauses DEF Operator
  <1>2. ASSUME NEW k \in Launches, Starts(k)
        PROVE  Causes'
    BY <1>2, LoadCauses, StartThreadCauses, ForkCauses, DiesCauses DEF Starts
  <1>3. ASSUME NEW k \in Launches, Receiver(k)
        PROVE  Causes'
    <2>1. CASE Receive(k)
      BY <2>1, ReceiveDoes, CausesKept
    <2> QED BY <1>3, <2>1, RecvOpenCauses, DiesCauses DEF Receiver
  <1>4. ASSUME NEW k \in Launches, Timers(k)
        PROVE  Causes'
    BY <1>4, TimersCauses
  <1>5. ASSUME NEW k \in Launches, NEW i \in Slots, Schedule(k, i)
        PROVE  Causes'
    <2>1. CASE UNCHANGED <<app, recv>>
      BY <1>5, <2>1, ScheduleDoes, CausesKept
    <2> QED BY <1>5, <2>1, ScheduleDoes, DiesCauses
  <1>6. CASE UNCHANGED vars
    BY <1>6, CausesKept DEF vars
  <1> QED BY <1>1, <1>2, <1>3, <1>4, <1>5, <1>6 DEF Next

(***************************************************************************)
(* The theorems.                                                           *)
(***************************************************************************)

IInv == Typed /\ Stages /\ Owners /\ Links /\ Fires /\ Causes

LEMMA InitIInv == Init => IInv
  BY InitTyped, InitStages, InitOwners, InitLinks, InitFires, InitCauses DEF IInv

LEMMA StepIInv ==
  ASSUME IInv, [Next]_vars
  PROVE  IInv'
  BY StepTypedStages, StepOwners, StepLinks, StepFires, StepCauses DEF IInv

LEMMA AlwaysIInv == Spec => []IInv
  <1>1. IInv /\ [Next]_vars => IInv'
    BY StepIInv
  <1> QED BY InitIInv, <1>1, PTL DEF Spec

\* Any sequence of launches, deaths and clearings leaves every variable with its
\* type, and no program with an object that another launch created: a name that
\* an earlier launch left behind makes creation fail.
THEOREM OwnObjects == Spec => []TypeOK
  <1>1. IInv => TypeOK
    BY TypedTypeOK DEF IInv
  <1> QED BY <1>1, AlwaysIInv, PTL

\* Whoever dies, and whenever the names are cleared, an application receives what
\* its own TimerTask sent, in that order, with every byte of each index intact.
THEOREM DeliversItsOwn == Spec => []DeliversOwn
  <1>1. IInv => DeliversOwn
    BY DEF IInv, Links, Link, InOrder, DeliversOwn, Message
  <1> QED BY <1>1, AlwaysIInv, PTL

\* A TimerTask, also one that outlives its application, sends only indexes that
\* this application scheduled, each once.
THEOREM FiresItsOwn == Spec => []FiresOwn
  <1>1. IInv => FiresOwn
    BY DEF IInv, Fires, Firing, FiresOwn
  <1> QED BY <1>1, AlwaysIInv, PTL

\* A program launched after `make prep', with nothing else launched or cleared
\* while it comes up, faults only if it is pool and pool ran before; it aborts only
\* if the fork failed or a launch whose names were being cleared left its queue;
\* its TimerTask never faults, and aborts only if it was ahead of the receiver.
THEOREM FailsOnlyForACause == Spec => []FailsForACause
  <1>1. IInv => FailsForACause
    BY DEF IInv, Causes, Excused, Ended, Cleared1, FailsForACause
  <1> QED BY <1>1, AlwaysIInv, PTL

(***************************************************************************)
(* The streams are read as they were written.                              *)
(***************************************************************************)

\* What is behind the front of a stream.
LEMMA BehindFront ==
  ASSUME NEW p \in Seq(Bytes), NEW r \in Seq(Bytes)
  PROVE  After(p \o r, Len(p)) = r
  <1>1. Len(p) \in Nat /\ Len(r) \in Nat /\ Len(p \o r) = Len(p) + Len(r)
    BY Concatenation, LenProperties
  <1>2. After(p \o r, Len(p)) = SubSeq(p \o r, Len(p) + 1, Len(p) + Len(r))
    BY <1>1 DEF After
  <1>3. CASE r = <<>>
    <2>1. Len(p) + Len(r) < Len(p) + 1
      BY <1>1, <1>3
    <2> QED BY <1>1, <1>2, <1>3, <2>1, SubSeqEmpty
  <1>4. CASE r # <<>>
    <2>1. Len(r) > 0
      BY <1>1, <1>4
    <2>2. SubSeq(p \o r, Len(p) + 1, Len(p) + Len(r)) = SubSeq(r, 1, Len(r))
      <3>1. /\ Len(p) + 1 \in Len(p) + 1 .. Len(p) + Len(r)
            /\ Len(p) + Len(r) \in Len(p) + 1 .. Len(p) + Len(r)
            /\ (Len(p) + 1) - Len(p) = 1 /\ (Len(p) + Len(r)) - Len(p) = Len(r)
        BY <1>1, <2>1
      <3>2. SubSeq(p \o r, Len(p) + 1, Len(p) + Len(r))
              = SubSeq(r, (Len(p) + 1) - Len(p), (Len(p) + Len(r)) - Len(p))
        BY <3>1, SubSeqOfConcat2
      <3> QED BY <3>1, <3>2
    <2> QED BY <1>2, <2>2, SubSeqFull
  <1> QED BY <1>3, <1>4

LEMMA ReadWord ==
  ASSUME NEW v \in UINT32, NEW r \in Seq(Bytes)
  PROVE  In32(ToBuf32(v) \o r) = [value |-> v, rest |-> r]
  <1> DEFINE w  == ToBuf32(v)
             is == w \o r
  <1>1. w \in Seq(Bytes) /\ Len(w) = 4
    BY BufferOfWord
  <1> HIDE DEF w
  <1>2. \A j \in 1 .. Len(w) : is[j] = w[j]
    BY <1>1, Concatenation
  <1>3. After(is, 4) = r
    BY <1>1, BehindFront
  <1> HIDE DEF is
  <1>4. is[1] = w[1] /\ is[1 + 1] = w[2] /\ is[1 + 2] = w[3] /\ is[1 + 3] = w[4]
    BY <1>1, <1>2
  <1>5. FromBuf32(is, 1) = v
    BY <1>4, WordBack DEF w
  <1>6. In32(is) = [value |-> v, rest |-> r]
    BY <1>3, <1>5 DEF In32
  <1> QED BY <1>6 DEF is, w

LEMMA ReadPair ==
  ASSUME NEW a \in UINT32, NEW b \in UINT32, NEW r \in Seq(Bytes)
  PROVE  In64(ToBuf32(a) \o (ToBuf32(b) \o r)) = [value |-> [msb |-> a, lsb |-> b], rest |-> r]
  <1>1. ToBuf32(b) \o r \in Seq(Bytes)
    BY BufferOfWord, Concatenation
  <1>2. /\ In32(ToBuf32(a) \o (ToBuf32(b) \o r)) = [value |-> a, rest |-> ToBuf32(b) \o r]
        /\ In32(ToBuf32(b) \o r) = [value |-> b, rest |-> r]
    BY <1>1, ReadWord
  <1> QED BY <1>2 DEF In64

\* The sign is in the bits of a word.
LEMMA SignKept ==
  ASSUME NEW w \in UINT32
  PROVE  Unsigned(Signed(w)) = w
  <1>1. Words \in Nat /\ Words \div 2 \in Nat
    BY WordsType, DivMod
  <1> QED BY <1>1 DEF Unsigned, Signed, UINT32

LEMMA ReadSigned ==
  ASSUME NEW w \in UINT32, NEW b \in UINT32, NEW r \in Seq(Bytes)
  PROVE  /\ InS32(ToBuf32(w) \o r) = [value |-> Signed(w), rest |-> r]
         /\ InS64(ToBuf32(w) \o (ToBuf32(b) \o r))
              = [value |-> [msb |-> Signed(w), lsb |-> b], rest |-> r]
  <1>1. ToBuf32(b) \o r \in Seq(Bytes)
    BY BufferOfWord, Concatenation
  <1>2. In32(ToBuf32(b) \o r) = [value |-> b, rest |-> r]
    BY ReadWord
  <1>3. ASSUME NEW t \in Seq(Bytes)
        PROVE  InS32(ToBuf32(w) \o t) = [value |-> Signed(w), rest |-> t]
    <2>1. In32(ToBuf32(w) \o t) = [value |-> w, rest |-> t]
      BY ReadWord
    <2> QED BY <2>1 DEF InS32
  <1>4. InS32(ToBuf32(w) \o (ToBuf32(b) \o r)) = [value |-> Signed(w), rest |-> ToBuf32(b) \o r]
    BY <1>1, <1>3
  <1>5. InS64(ToBuf32(w) \o (ToBuf32(b) \o r))
          = [value |-> [msb |-> Signed(w), lsb |-> b], rest |-> r]
    <2> DEFINE is == ToBuf32(w) \o (ToBuf32(b) \o r)
               m  == InS32(is)
    <2>1. m.value = Signed(w) /\ m.rest = ToBuf32(b) \o r
      BY <1>4
    <2>2. InS64(is) = [value |-> [msb |-> m.value, lsb |-> In32(m.rest).value],
                       rest |-> In32(m.rest).rest]
      BY DEF InS64
    <2> HIDE DEF m, is
    <2>3. In32(m.rest) = [value |-> b, rest |-> r]
      BY <1>2, <2>1
    <2>4. InS64(is) = [value |-> [msb |-> Signed(w), lsb |-> b], rest |-> r]
      BY <2>1, <2>2, <2>3
    <2> QED BY <2>4 DEF is
  <1> QED BY <1>3, <1>5

LEMMA ReadBytes ==
  ASSUME NEW a \in Bytes, NEW b \in Bytes, NEW c \in Bytes, NEW r \in Seq(Bytes)
  PROVE  /\ In8(<<a>> \o r) = [value |-> a, rest |-> r]
         /\ In3(<<a, b, c>> \o r) = [value |-> <<c, b, a>>, rest |-> r]
  <1> DEFINE p == <<a>>
             q == <<a, b, c>>
  <1>1. /\ p \in Seq(Bytes) /\ Len(p) = 1 /\ p[1] = a
        /\ q \in Seq(Bytes) /\ Len(q) = 3 /\ q[1] = a /\ q[2] = b /\ q[3] = c
    OBVIOUS
  <1> HIDE DEF p, q
  <1>2. After(p \o r, 1) = r /\ After(q \o r, 3) = r
    BY <1>1, BehindFront
  <1>3. (p \o r)[1] = a /\ (q \o r)[1] = a /\ (q \o r)[2] = b /\ (q \o r)[3] = c
    <2>1. /\ \A j \in 1 .. Len(p) : (p \o r)[j] = p[j]
          /\ \A j \in 1 .. Len(q) : (q \o r)[j] = q[j]
      BY <1>1, Concatenation
    <2>2. 1 \in 1 .. Len(p) /\ 1 \in 1 .. Len(q) /\ 2 \in 1 .. Len(q) /\ 3 \in 1 .. Len(q)
      BY <1>1
    <2>3. (p \o r)[1] = p[1] /\ (q \o r)[1] = q[1] /\ (q \o r)[2] = q[2] /\ (q \o r)[3] = q[3]
      BY <2>1, <2>2, Zenon
    <2> QED BY <1>1, <2>3, Zenon
  <1>4. In8(p \o r) = [value |-> a, rest |-> r]
    BY <1>2, <1>3 DEF In8
  <1>5. In3(q \o r) = [value |-> <<c, b, a>>, rest |-> r]
    BY <1>2, <1>3 DEF In3
  <1> QED BY <1>4, <1>5 DEF p, q

\* A division has one quotient and one remainder.
LEMMA Remainder ==
  ASSUME NEW q \in Nat, NEW b \in Nat \ {0}, NEW r \in 0 .. b - 1
  PROVE  (q * b + r) % b = r
  <1> DEFINE v == q * b + r
             u == v \div b
             s == v % b
  <1>1. v \in Nat
    OBVIOUS
  <1>2. u \in Nat /\ s \in 0 .. b - 1 /\ v = u * b + s
    BY <1>1, DivMod
  <1>3. q * b + r = u * b + s
    BY <1>2
  <1> HIDE DEF u, s, v
  <1>4. ASSUME u < q PROVE FALSE
    <2>1. (u + 1) * b <= q * b
      BY <1>2, <1>4, SMTT(30)
    <2>2. (u + 1) * b = u * b + b
      BY <1>2
    <2>3. u * b \in Nat /\ q * b \in Nat
      BY <1>2
    <2> QED BY <1>2, <1>3, <2>1, <2>2, <2>3
  <1>5. ASSUME q < u PROVE FALSE
    <2>1. (q + 1) * b <= u * b
      BY <1>2, <1>5, SMTT(30)
    <2>2. (q + 1) * b = q * b + b
      OBVIOUS
    <2>3. u * b \in Nat /\ q * b \in Nat
      BY <1>2
    <2> QED BY <1>2, <1>3, <2>1, <2>2, <2>3
  <1>6. u = q
    BY <1>2, <1>4, <1>5
  <1>7. s = r
    BY <1>2, <1>3, <1>6
  <1> QED BY <1>7 DEF s, v

\* The last three bytes of a word are what is left of it modulo 2^24.
LEMMA ThreeBytes ==
  ASSUME NEW v \in UINT32
  PROVE  /\ Split3(v)[1] \in Bytes /\ Split3(v)[2] \in Bytes /\ Split3(v)[3] \in Bytes
         /\ Split3(v) = <<Split3(v)[1], Split3(v)[2], Split3(v)[3]>>
         /\ Unsplit3(Split3(v)) = v % (Base * Base * Base)
  <1> DEFINE w == ToBuf32(v)
             c == Split3(v)
             b2 == Base * Base
             b3 == b2 * Base
             low == (w[2] * Base + w[3]) * Base + w[4]
  <1>1. c[1] = w[2] /\ c[2] = w[3] /\ c[3] = w[4]
    BY DEF Split3, ToBuf32
  <1>2. c = <<c[1], c[2], c[3]>>
    BY DEF Split3
  <1>3. /\ w[1] \in Bytes /\ w[2] \in Bytes /\ w[3] \in Bytes /\ w[4] \in Bytes
        /\ v = ((w[1] * Base + w[2]) * Base + w[3]) * Base + w[4]
    BY Word
  <1> HIDE DEF w, c
  <1>4. Base \in Nat \ {0}
    BY WordsType
  <1>5. /\ w[1] \in Nat /\ w[2] \in Nat /\ w[3] \in Nat /\ w[4] \in Nat
        /\ w[2] <= Base - 1 /\ w[3] <= Base - 1 /\ w[4] <= Base - 1
    BY <1>3, <1>4 DEF Bytes
  <1>6. b2 \in Nat \ {0} /\ b3 \in Nat \ {0}
    BY <1>4
  <1>7. v = w[1] * b3 + low
    BY <1>3, <1>4, <1>5
  <1>8. low \in 0 .. b3 - 1
    <2> DEFINE two == w[2] * Base + w[3]
    <2>1. w[2] * Base <= (Base - 1) * Base
      BY <1>4, <1>5, SMTT(30)
    <2>2. two \in Nat /\ two <= b2 - 1
      BY <1>4, <1>5, <2>1
    <2> HIDE DEF two, b2
    <2>3. two * Base <= (b2 - 1) * Base
      BY <1>4, <1>6, <2>2, SMTT(30)
    <2>4. (b2 - 1) * Base = b3 - Base
      BY <1>4, <1>6
    <2>5. two * Base \in Nat
      BY <1>4, <2>2
    <2>6. two * Base + w[4] \in 0 .. b3 - 1
      BY <1>4, <1>5, <1>6, <2>3, <2>4, <2>5
    <2> QED BY <2>6 DEF two
  <1> HIDE DEF low, b3
  <1>9. v % b3 = low
    BY <1>5, <1>6, <1>7, <1>8, Remainder
  <1>10. Unsplit3(c) = low
    BY <1>1 DEF Unsplit3, low
  <1> QED BY <1>1, <1>2, <1>3, <1>9, <1>10 DEF c, b3

\* A set of numbers that is not empty has a least one.
LEMMA Least ==
  ASSUME NEW S \in SUBSET Nat, S # {}
  PROVE  \E j \in S : \A k \in S : j <= k
  <1>1. \E j \in S : \A k \in S : <<k, j>> \notin OpToRel(<, Nat)
    BY NatLessThanWellFounded, WFMin
  <1>2. PICK j \in S : \A k \in S : ~(k < j)
    BY <1>1 DEF OpToRel
  <1> QED BY <1>2

\* Where the NULs of a string are.
Nuls(s) == {j \in 1 .. Len(s) : s[j] = 0}

\* Where a string with a NUL ends.
LEMMA EndOfString ==
  ASSUME NEW s, NEW k \in 1 .. Len(s), Len(s) \in Nat, s[k] = 0,
         \A j \in 1 .. k - 1 : s[j] # 0
  PROVE  UpToNul(s) = SubSeq(s, 1, k - 1)
  <1> DEFINE e == CHOOSE j \in Nuls(s) : \A i \in Nuls(s) : j <= i
  <1>1. k \in Nuls(s) /\ \A i \in Nuls(s) : i \in Nat /\ k <= i
    BY DEF Nuls
  <1>2. e \in Nuls(s) /\ \A i \in Nuls(s) : e <= i
    BY <1>1
  <1> HIDE DEF e
  <1>3. e = k
    BY <1>1, <1>2
  <1>4. UpToNul(s) = IF Nuls(s) = {} THEN s
                     ELSE SubSeq(s, 1, (CHOOSE j \in Nuls(s) : \A i \in Nuls(s) : j <= i) - 1)
    BY DEF UpToNul, Nuls
  <1> QED BY <1>1, <1>3, <1>4 DEF e

\* A string is read back as far as its first NUL, whatever the bytes behind it.
LEMMA StringBack ==
  ASSUME NEW s \in Seq(Bytes), NEW b \in [1 .. Len(s) -> Bytes],
         \A j \in DOMAIN b \cap DOMAIN Append(UpToNul(s), 0) : b[j] = Append(UpToNul(s), 0)[j]
  PROVE  b \in Seq(Bytes) /\ Len(b) = Len(s) /\ UpToNul(b) = UpToNul(s)
  <1> DEFINE copied == Append(UpToNul(s), 0)
  <1>0. Len(s) \in Nat /\ DOMAIN b = 1 .. Len(s) /\ s \in [1 .. Len(s) -> Bytes] /\ 0 \in Bytes
    BY LenProperties, WordsType DEF Bytes
  <1>1. b \in Seq(Bytes) /\ Len(b) = Len(s)
    BY <1>0
  <1>2. CASE Nuls(s) = {}
    <2>1. UpToNul(s) = s
      BY <1>2 DEF UpToNul, Nuls
    <2>2. /\ DOMAIN copied = 1 .. Len(s) + 1
          /\ \A j \in 1 .. Len(s) : copied[j] = s[j]
      BY <1>0, <2>1, AppendProperties, LenProperties
    <2>3. \A j \in 1 .. Len(s) : b[j] = s[j]
      BY <1>0, <2>2
    <2>4. b = s
      BY <1>0, <2>3
    <2> QED BY <1>1, <2>1, <2>4
  <1>3. CASE Nuls(s) # {}
    <2>1. PICK k \in Nuls(s) : \A j \in Nuls(s) : k <= j
      <3>1. Nuls(s) \in SUBSET Nat
        BY <1>0 DEF Nuls
      <3> QED BY <1>3, <3>1, Least
    <2>2. k \in 1 .. Len(s) /\ s[k] = 0 /\ \A j \in 1 .. k - 1 : s[j] # 0
      BY <1>0, <2>1 DEF Nuls
    <2> DEFINE front == SubSeq(s, 1, k - 1)
    <2>3. UpToNul(s) = front
      BY <1>0, <2>2, EndOfString
    <2>4. /\ front \in Seq(Bytes) /\ Len(front) = k - 1
          /\ \A j \in 1 .. k - 1 : front[j] = s[j]
      <3>1. \A i \in 1 .. k - 1 : s[i] \in Bytes
        BY <1>0, <2>2
      <3>2. /\ front \in Seq(Bytes) /\ Len(front) = IF 1 <= k - 1 THEN (k - 1) - 1 + 1 ELSE 0
            /\ \A i \in 1 .. (k - 1) - 1 + 1 : front[i] = s[1 + i - 1]
        BY <2>2, <3>1, SubSeqProperties
      <3> QED BY <2>2, <3>2
    <2> HIDE DEF front
    <2>5. /\ DOMAIN copied = 1 .. k /\ copied[k] = 0
          /\ \A j \in 1 .. k - 1 : copied[j] = s[j]
      <3>1. /\ copied \in Seq(Bytes) /\ Len(copied) = (k - 1) + 1
            /\ \A j \in 1 .. k - 1 : copied[j] = front[j]
            /\ copied[(k - 1) + 1] = 0
        BY <1>0, <2>3, <2>4, AppendProperties
      <3>2. (k - 1) + 1 = k /\ k \in Nat
        BY <2>2
      <3> QED BY <2>4, <3>1, <3>2, LenProperties
    <2>6. b[k] = 0 /\ \A j \in 1 .. k - 1 : b[j] = s[j] /\ b[j] # 0
      <3>1. \A j \in 1 .. k : b[j] = copied[j]
        BY <1>0, <2>2, <2>5
      <3> QED BY <2>2, <2>5, <3>1
    <2>7. UpToNul(b) = SubSeq(b, 1, k - 1)
      BY <1>0, <1>1, <2>2, <2>6, EndOfString
    <2>8. SubSeq(b, 1, k - 1) = SubSeq(s, 1, k - 1)
      <3> DEFINE f == SubSeq(b, 1, k - 1)
      <3>1. \A i \in 1 .. k - 1 : b[i] \in Bytes
        BY <1>0, <2>2
      <3>2. /\ f \in Seq(Bytes) /\ Len(f) = IF 1 <= k - 1 THEN (k - 1) - 1 + 1 ELSE 0
            /\ \A i \in 1 .. (k - 1) - 1 + 1 : f[i] = b[1 + i - 1]
        BY <2>2, <3>1, SubSeqProperties
      <3> HIDE DEF f
      <3>3. Len(f) = k - 1 /\ \A i \in 1 .. k - 1 : f[i] = b[i]
        BY <2>2, <3>2
      <3>4. Len(f) = Len(front) /\ \A i \in 1 .. Len(f) : f[i] = front[i]
        BY <2>4, <2>6, <3>3
      <3>5. f = front
        BY <2>4, <3>2, <3>4, SeqEqual
      <3> QED BY <3>5 DEF f, front
    <2> QED BY <1>1, <2>3, <2>7, <2>8 DEF front
  <1> QED BY <1>2, <1>3

\* What is appended to a stream may be put in front of what follows it.
LEMMA Shift ==
  ASSUME NEW o \in Seq(Bytes), NEW w \in Seq(Bytes), NEW t \in Seq(Bytes)
  PROVE  o \o w \in Seq(Bytes) /\ w \o t \in Seq(Bytes) /\ (o \o w) \o t = o \o (w \o t)
  BY Concatenation, ConcatAssociative

LEMMA EmptyFront ==
  ASSUME NEW w \in Seq(Bytes)
  PROVE  <<>> \o w = w
  BY ConcatEmptySeq

\* Whatever words and strings are written to a stream, they are read back from it
\* in their order, the signs, the halves, the three bytes and what is before a
\* string's NUL intact: for every value, not only for those of an instance
\* (Util.cpp:20-191, 274-296).
THEOREM StreamsAreReadBack == Spec => []StreamsReadBack
  <1>1. ASSUME NEW v \in Unsigneds, NEW s \in Signeds, NEW x \in Doubles, NEW str \in Strings,
               NEW written \in OutString(OutPadding(
                 Out3(OutS64(Out8(OutS32(Out64(Out32(<<>>, v), x), s), Split3(v)[3]),
                             [msb |-> s, lsb |-> x.lsb]), Split3(v)), 3), str)
        PROVE  LET three == Split3(v)
                   y == [msb |-> s, lsb |-> x.lsb]
                   a == In32(written)
                   b == In64(a.rest)
                   c == InS32(b.rest)
                   d == In8(c.rest)
                   e == InS64(d.rest)
                   f == In3(e.rest)
                   g == InString(InPadding(f.rest, 3), Len(str))
               IN /\ a.value = v /\ b.value = x /\ c.value = s /\ d.value = three[3]
                  /\ e.value = y /\ f.value = three
                  /\ Unsplit3(f.value) = v % (Base * Base * Base)
                  /\ g.value = UpToNul(str) /\ g.rest = <<>>
    <2>1. PICK u \in Unsigneds : s = Signed(u)
      BY DEF Signeds
    <2>2. /\ v \in UINT32 /\ u \in UINT32 /\ x.msb \in UINT32 /\ x.lsb \in UINT32
          /\ x = [msb |-> x.msb, lsb |-> x.lsb] /\ str \in Seq(Bytes)
      BY StartupAssumption DEF Doubles
    <2> DEFINE p  == Split3(v)
               z1 == <<p[3]>>
               z3 == <<p[3], p[2], p[1]>>
               pad == [j \in 1 .. 3 |-> 0]
               w1 == ToBuf32(v)
               w2 == ToBuf32(x.msb)
               w3 == ToBuf32(x.lsb)
               w4 == ToBuf32(u)
               o1 == <<>> \o w1
               o2 == o1 \o w2
               o3 == o2 \o w3
               o4 == o3 \o w4
               o5 == o4 \o z1
               o6 == o5 \o w4
               o7 == o6 \o w3
               o8 == o7 \o z3
               o9 == o8 \o pad
    <2>3. Unsigned(s) = u
      BY <2>1, <2>2, SignKept
    <2>4. p[1] \in Bytes /\ p[2] \in Bytes /\ p[3] \in Bytes /\ 0 \in Bytes
      BY <2>2, ThreeBytes, WordsType DEF Bytes
    <2>5. /\ z1 \in Seq(Bytes) /\ z3 \in Seq(Bytes)
          /\ pad \in Seq(Bytes) /\ Len(pad) = 3
          /\ w1 \in Seq(Bytes) /\ w2 \in Seq(Bytes) /\ w3 \in Seq(Bytes) /\ w4 \in Seq(Bytes)
      <3>1. z1 \in Seq(Bytes) /\ z3 \in Seq(Bytes)
        <4> HIDE DEF p
        <4> QED BY <2>4
      <3>2. pad \in Seq(Bytes) /\ Len(pad) = 3
        BY <2>4
      <3> QED BY <2>2, <3>1, <3>2, BufferOfWord
    <2>6. PICK tail \in [1 .. Len(str) -> Bytes] :
            /\ written = o9 \o tail
            /\ \A j \in DOMAIN tail \cap DOMAIN Append(UpToNul(str), 0) :
                 tail[j] = Append(UpToNul(str), 0)[j]
      <3>1. o4 \in Seq(Bytes)
        <4> HIDE DEF w1, w2, w3, w4
        <4>1. o1 \in Seq(Bytes)
          BY <2>5, Shift, EmptyFront
        <4>2. o2 \in Seq(Bytes)
          <5> HIDE DEF o1
          <5> QED BY <2>5, <4>1, Shift
        <4>3. o3 \in Seq(Bytes)
          <5> HIDE DEF o2
          <5> QED BY <2>5, <4>2, Shift
        <4> HIDE DEF o3
        <4> QED BY <2>5, <4>3, Shift
      <3>2. OutPadding(Out3(OutS64(Out8(OutS32(Out64(Out32(<<>>, v), x), s), p[3]),
                                   [msb |-> s, lsb |-> x.lsb]), p), 3) = o9
        <4>1. OutS32(Out64(Out32(<<>>, v), x), s) = o4
          BY <2>3 DEF OutS32, Out64, Out32
        <4>2. Out8(o4, p[3]) = o5
          BY <2>4, <3>1, AppendIsConcat DEF Out8
        <4>3. OutS64(o5, [msb |-> s, lsb |-> x.lsb]) = o7
          BY <2>3 DEF OutS64, OutS32, Out32
        <4> QED BY <4>1, <4>2, <4>3 DEF Out3, OutPadding
      <3> HIDE DEF o9, p
      <3> QED BY <3>2 DEF OutString, p
    <2>7. tail \in Seq(Bytes) /\ Len(tail) = Len(str) /\ UpToNul(tail) = UpToNul(str)
      BY <2>2, <2>6, StringBack
    <2> DEFINE t7 == pad \o tail
               t6 == z3 \o t7
               t5 == w3 \o t6
               t4 == w4 \o t5
               t3 == z1 \o t4
               t2 == w4 \o t3
               t1 == w3 \o t2
               t0 == w2 \o t1
    <2>8. /\ t7 \in Seq(Bytes) /\ t6 \in Seq(Bytes) /\ t5 \in Seq(Bytes)
          /\ t4 \in Seq(Bytes) /\ t3 \in Seq(Bytes) /\ t2 \in Seq(Bytes)
          /\ t1 \in Seq(Bytes) /\ t0 \in Seq(Bytes)
      <3> HIDE DEF w1, w2, w3, w4, z1, z3, pad
      <3>1. t7 \in Seq(Bytes) /\ t6 \in Seq(Bytes)
        BY <2>5, <2>7, Concatenation
      <3> HIDE DEF t6
      <3>2. t5 \in Seq(Bytes) /\ t4 \in Seq(Bytes)
        BY <2>5, <3>1, Concatenation
      <3> HIDE DEF t4
      <3>3. t3 \in Seq(Bytes) /\ t2 \in Seq(Bytes)
        BY <2>5, <3>2, Concatenation
      <3> HIDE DEF t2
      <3>4. t1 \in Seq(Bytes) /\ t0 \in Seq(Bytes)
        BY <2>5, <3>3, Concatenation
      <3> QED BY <3>1, <3>2, <3>3, <3>4
    <2>9. written = w1 \o t0
      <3> HIDE DEF w1, w2, w3, w4, z1, z3, pad
      <3>1. o1 \in Seq(Bytes) /\ o1 = w1
        BY <2>5, EmptyFront
      <3> HIDE DEF o1, o2, o3, o4, o5, o6, o7, o8, o9, t0, t1, t2, t3, t4, t5, t6, t7
      <3>2. o2 \in Seq(Bytes) /\ o2 \o t1 = o1 \o t0
        <4>1. o1 \in Seq(Bytes) /\ w2 \in Seq(Bytes) /\ t1 \in Seq(Bytes)
          BY <2>5, <2>8, <3>1
        <4>2. /\ o1 \o w2 \in Seq(Bytes)
              /\ (o1 \o w2) \o t1 = o1 \o (w2 \o t1)
          BY <4>1, Shift
        <4> QED BY <4>2 DEF o2, t0
      <3>3. o3 \in Seq(Bytes) /\ o3 \o t2 = o2 \o t1
        <4>1. o2 \in Seq(Bytes) /\ w3 \in Seq(Bytes) /\ t2 \in Seq(Bytes)
          BY <2>5, <2>8, <3>2
        <4>2. /\ o2 \o w3 \in Seq(Bytes)
              /\ (o2 \o w3) \o t2 = o2 \o (w3 \o t2)
          BY <4>1, Shift
        <4> QED BY <4>2 DEF o3, t1
      <3>4. o4 \in Seq(Bytes) /\ o4 \o t3 = o3 \o t2
        <4>1. o3 \in Seq(Bytes) /\ w4 \in Seq(Bytes) /\ t3 \in Seq(Bytes)
          BY <2>5, <2>8, <3>3
        <4>2. /\ o3 \o w4 \in Seq(Bytes)
              /\ (o3 \o w4) \o t3 = o3 \o (w4 \o t3)
          BY <4>1, Shift
        <4> QED BY <4>2 DEF o4, t2
      <3>5. o5 \in Seq(Bytes) /\ o5 \o t4 = o4 \o t3
        <4>1. o4 \in Seq(Bytes) /\ z1 \in Seq(Bytes) /\ t4 \in Seq(Bytes)
          BY <2>5, <2>8, <3>4
        <4>2. /\ o4 \o z1 \in Seq(Bytes)
              /\ (o4 \o z1) \o t4 = o4 \o (z1 \o t4)
          BY <4>1, Shift
        <4> QED BY <4>2 DEF o5, t3
      <3>6. o6 \in Seq(Bytes) /\ o6 \o t5 = o5 \o t4
        <4>1. o5 \in Seq(Bytes) /\ w4 \in Seq(Bytes) /\ t5 \in Seq(Bytes)
          BY <2>5, <2>8, <3>5
        <4>2. /\ o5 \o w4 \in Seq(Bytes)
              /\ (o5 \o w4) \o t5 = o5 \o (w4 \o t5)
          BY <4>1, Shift
        <4> QED BY <4>2 DEF o6, t4
      <3>7. o7 \in Seq(Bytes) /\ o7 \o t6 = o6 \o t5
        <4>1. o6 \in Seq(Bytes) /\ w3 \in Seq(Bytes) /\ t6 \in Seq(Bytes)
          BY <2>5, <2>8, <3>6
        <4>2. /\ o6 \o w3 \in Seq(Bytes)
              /\ (o6 \o w3) \o t6 = o6 \o (w3 \o t6)
          BY <4>1, Shift
        <4> QED BY <4>2 DEF o7, t5
      <3>8. o8 \in Seq(Bytes) /\ o8 \o t7 = o7 \o t6
        <4>1. o7 \in Seq(Bytes) /\ z3 \in Seq(Bytes) /\ t7 \in Seq(Bytes)
          BY <2>5, <2>8, <3>7
        <4>2. /\ o7 \o z3 \in Seq(Bytes)
              /\ (o7 \o z3) \o t7 = o7 \o (z3 \o t7)
          BY <4>1, Shift
        <4> QED BY <4>2 DEF o8, t6
      <3>9. o9 \o tail = o8 \o t7
        <4>1. o8 \in Seq(Bytes) /\ pad \in Seq(Bytes) /\ tail \in Seq(Bytes)
          BY <2>5, <2>7, <3>8
        <4>2. (o8 \o pad) \o tail = o8 \o (pad \o tail)
          BY <4>1, Shift
        <4> QED BY <4>2 DEF o9, t7
      <3> QED BY <2>6, <3>1, <3>2, <3>3, <3>4, <3>5, <3>6, <3>7, <3>8, <3>9
    <2>10. In32(written) = [value |-> v, rest |-> t0]
      <3> HIDE DEF t0
      <3> QED BY <2>2, <2>8, <2>9, ReadWord
    <2>11. In64(t0) = [value |-> x, rest |-> t2]
      <3> HIDE DEF t2
      <3> QED BY <2>2, <2>8, ReadPair DEF t0, t1
    <2>12. InS32(t2) = [value |-> s, rest |-> t3]
      <3> HIDE DEF t3
      <3> QED BY <2>1, <2>2, <2>8, ReadSigned DEF t2
    <2>13. In8(t3) = [value |-> p[3], rest |-> t4]
      <3> HIDE DEF t4, p
      <3> QED BY <2>4, <2>8, ReadBytes DEF t3
    <2>14. InS64(t4) = [value |-> [msb |-> s, lsb |-> x.lsb], rest |-> t6]
      <3> HIDE DEF t6
      <3> QED BY <2>1, <2>2, <2>8, ReadSigned DEF t4, t5
    <2>15. In3(t6) = [value |-> p, rest |-> t7]
      <3>1. p = <<p[1], p[2], p[3]>>
        BY <2>2, ThreeBytes
      <3>2. In3(t6) = [value |-> <<p[1], p[2], p[3]>>, rest |-> t7]
        <4> HIDE DEF t7, p
        <4> QED BY <2>4, <2>8, ReadBytes DEF t6
      <3> HIDE DEF p, t6, t7
      <3> QED BY <3>1, <3>2
    <2>16. InPadding(t7, 3) = tail
      <3> HIDE DEF pad
      <3> QED BY <2>5, <2>7, BehindFront DEF InPadding, t7
    <2>17. InString(tail, Len(str)) = [value |-> UpToNul(str), rest |-> <<>>]
      <3>1. Len(tail) \in Nat /\ SubSeq(tail, 1, Len(tail)) = tail
        BY <2>7, LenProperties, SubSeqFull
      <3>2. SubSeq(tail, Len(tail) + 1, Len(tail)) = <<>>
        BY <3>1, SubSeqEmpty
      <3> QED BY <2>7, <3>1, <3>2 DEF InString, After
    <2>18. Unsplit3(p) = v % (Base * Base * Base)
      BY <2>2, ThreeBytes
    <2> HIDE DEF t0, t1, t2, t3, t4, t5, t6, t7, p
    <2> QED
      BY <2>10, <2>11, <2>12, <2>13, <2>14, <2>15, <2>16, <2>17, <2>18 DEF p
  <1>2. StreamsReadBack
    BY <1>1 DEF StreamsReadBack
  <1> QED BY <1>2, PTL

=============================================================================
