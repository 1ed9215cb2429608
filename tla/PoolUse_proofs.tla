----------------------------- MODULE PoolUse_proofs -----------------------------
(***************************************************************************)
(* The free list of the pool, for every number of objects.  Free is the    *)
(* least closed set of objects; the proofs never walk the list, they       *)
(* compare the closed sets before and after a step.                        *)
(***************************************************************************)
EXTENDS PoolUse, FiniteSetTheorems, WellFoundedInduction, TLAPS

PoolInv == TypeOK /\ FreeListSound

USE MaxObjectsAssumption, NullIsNoObject

\* The least closed set is closed.
LEMMA FreeIsClosed ==
  ASSUME TypeOK
  PROVE  Closed(Free)
<1>1. Closed(Objects)
  BY DEF Closed, TypeOK, Objects
<1>2. firstFree \in Free \cup {MaxObjects}
  BY <1>1 DEF Closed, Free, TypeOK, Objects
<1>3. ASSUME NEW o \in Free
      PROVE  freeList[o] \in Free \cup {MaxObjects}
  <2>1. o \in Objects /\ freeList[o] \in Objects \cup {MaxObjects}
    BY <1>3 DEF Free, TypeOK, Objects
  <2>2. ASSUME NEW S \in SUBSET Objects, Closed(S), freeList[o] # MaxObjects
        PROVE  freeList[o] \in S
    BY <2>2, <1>3 DEF Free, Closed
  <2> QED
    BY <2>1, <2>2 DEF Free
<1> QED
  BY <1>2, <1>3 DEF Closed

\* A list of all objects in order: a closed set that misses one misses a least
\* one, which is neither the first nor linked to by the one before it.
LEMMA InitIsSound ==
  ASSUME Init
  PROVE  PoolInv
<1>1. TypeOK
  BY DEF Init, PoolInit, TypeOK, Objects
<1>2. ASSUME NEW S \in SUBSET Objects, Closed(S)
      PROVE  Objects \subseteq S
  <2> DEFINE Missed == Objects \ S
  <2>1. SUFFICES ASSUME Missed # {} PROVE FALSE
    OBVIOUS
  <2>2. Missed \subseteq Nat
    BY DEF Objects
  <2>3. \E m \in Missed : \A k \in Missed : <<k, m>> \notin OpToRel(<, Nat)
    <3> HIDE DEF Missed
    <3> QED
      BY <2>1, <2>2, NatLessThanWellFounded, WFMin
  <2>4. PICK m \in Missed : \A k \in Missed : ~(k < m)
    BY <2>2, <2>3 DEF OpToRel
  <2>5. m # 0
    BY <1>2 DEF Closed, Init, PoolInit, Objects
  <2>6. m - 1 \in S
    BY <2>4, <2>5 DEF Objects
  <2>7. m - 1 \in Objects /\ freeList[m - 1] = m
    BY <2>4, <2>5 DEF Init, PoolInit, Objects
  <2>8. m \in S \cup {MaxObjects}
    BY <2>6, <2>7, <1>2 DEF Closed
  <2> QED
    BY <2>4, <2>8 DEF Objects
<1>3. Free = Objects
  BY <1>2 DEF Free
<1>4. numberAllocated = Cardinality(used)
  BY FS_EmptySet DEF Init, PoolInit
<1> QED
  BY <1>1, <1>3, <1>4 DEF PoolInv, FreeListSound, Init, PoolInit, Objects

LEMMA UsedIsFinite ==
  ASSUME TypeOK
  PROVE  /\ IsFiniteSet(used) /\ Cardinality(used) \in Nat
         /\ Cardinality(used) <= MaxObjects
         /\ Cardinality(used) = MaxObjects => used = Objects
<1>1. IsFiniteSet(Objects) /\ Cardinality(Objects) = MaxObjects
  BY FS_Interval DEF Objects
<1> QED
  BY <1>1, FS_Subset, FS_CardinalityType DEF TypeOK

\* An allocation takes the first object off the list and no other.
LEMMA NewKeeps ==
  ASSUME PoolInv, NEW o \in Objects, GetFromPool(o), used' = used \cup {o},
         answer' \in Objects \cup {NULL}
  PROVE  /\ PoolInv'
         /\ Free' = Free \ {o} /\ o \in Free
<1>a. TypeOK /\ FreeListSound
  BY DEF PoolInv
<1>1. Closed(Free)
  BY <1>a, FreeIsClosed
<1>2. o = firstFree /\ o \in Free /\ o \notin used
  BY <1>1, <1>a DEF GetFromPool, Closed, FreeListSound, Objects
<1>3. used' \subseteq Objects /\ used \subseteq used' /\ numberAllocated' = Cardinality(used')
  <2>1. Cardinality(used \cup {o}) = Cardinality(used) + 1
    BY <1>a, <1>2, UsedIsFinite, FS_AddElement
  <2> QED
    BY <1>a, <2>1 DEF GetFromPool, FreeListSound, TypeOK
<1>4. TypeOK'
  <2>1. freeList' \in [Objects -> 0 .. MaxObjects] /\ firstFree' \in 0 .. MaxObjects
    BY <1>a, <1>2 DEF TypeOK, GetFromPool
  <2>2. numberAllocated' \in 0 .. MaxObjects
    BY <1>a DEF TypeOK, GetFromPool
  <2> QED
    BY <1>3, <2>1, <2>2 DEF TypeOK
<1>5. freeList' = freeList /\ firstFree' = freeList[o]
  BY <1>2 DEF GetFromPool
<1>6. Free' = Free \ {o}
  <2>1. ASSUME NEW S \in SUBSET Objects, Closed(S)'
        PROVE  Closed(S \cup {o})
    BY <2>1, <1>2, <1>5 DEF Closed
  <2>a. PICK F \in SUBSET Objects : F = Free
    BY DEF Free
  <2>2. Closed(F \ {o})'
    BY <2>a, <1>1, <1>2, <1>5, <1>a DEF Closed, FreeListSound
  <2>3. Free' \subseteq Free \ {o}
    <3>1. F \ {o} \in SUBSET Objects
      OBVIOUS
    <3>2. Free' \subseteq F \ {o}
      BY <2>2, <3>1 DEF Free, Objects
    <3> QED
      BY <3>2, <2>a
  <2>4. ASSUME NEW x \in Free \ {o}, NEW S \in SUBSET Objects, Closed(S)'
        PROVE  x \in S
    BY <2>1, <2>4 DEF Free
  <2> QED
    BY <2>3, <2>4 DEF Free, Objects
<1>7. FreeListSound'
  <2>1. Free' = (Objects \ used)'
    BY <1>6, <1>a DEF FreeListSound, Objects
  <2>2. (\A x \in Free : freeList[x] # firstFree)'
    BY <1>2, <1>5, <1>6, <1>a DEF FreeListSound
  <2>3. (\A a, b \in Free : freeList[a] = freeList[b] => a = b)'
    BY <1>5, <1>6, <1>a DEF FreeListSound
  <2> QED
    BY <1>3, <2>1, <2>2, <2>3 DEF FreeListSound
<1> QED
  BY <1>2, <1>4, <1>6, <1>7 DEF PoolInv

\* An object given back is put before the list and disturbs no link of it.
LEMMA DeleteKeeps ==
  ASSUME PoolInv, NEW o \in Objects, o \in used, RemoveFromPool(o),
         used' = used \ {o}, answer' = answer
  PROVE  /\ PoolInv'
         /\ Free' = Free \cup {o} /\ o \notin Free
<1>a. TypeOK /\ FreeListSound
  BY DEF PoolInv
<1>1. Closed(Free)
  BY <1>a, FreeIsClosed
<1>2. o \in used /\ o \notin Free
  BY <1>a DEF FreeListSound
<1>3. numberAllocated # 0 /\ Cardinality(used \ {o}) = Cardinality(used) - 1
  BY <1>a, <1>2, UsedIsFinite, FS_RemoveElement, FS_EmptySet DEF FreeListSound
<1>4. /\ freeList' = [freeList EXCEPT ![o] = firstFree]
      /\ firstFree' = o
      /\ numberAllocated' = numberAllocated - 1
      /\ used' = used \ {o} /\ answer' = answer
  BY <1>3 DEF RemoveFromPool
<1>5. TypeOK'
  BY <1>a, <1>3, <1>4 DEF TypeOK, Objects
<1>6. \A x \in Objects \ {o} : freeList'[x] = freeList[x]
  BY <1>4, <1>a DEF TypeOK
<1>7. freeList'[o] = firstFree
  BY <1>4, <1>a DEF TypeOK
<1>8. Free' = Free \cup {o}
  <2>a. PICK F \in SUBSET Objects : F = Free
    BY DEF Free
  <2>1. Closed(F \cup {o})'
    <3>1. firstFree' \in F \cup {o} \cup {MaxObjects}
      BY <1>4
    <3>2. ASSUME NEW x \in F \cup {o}
          PROVE  freeList'[x] \in F \cup {o} \cup {MaxObjects}
      BY <1>1, <1>2, <1>6, <1>7, <2>a DEF Closed
    <3> QED
      BY <3>1, <3>2 DEF Closed
  <2>2. Free' \subseteq F \cup {o}
    <3>1. F \cup {o} \in SUBSET Objects
      OBVIOUS
    <3> QED
      BY <2>1, <3>1 DEF Free, Objects
  <2>3. ASSUME NEW S \in SUBSET Objects, Closed(S)'
        PROVE  o \in S /\ F \subseteq S
    <3>1. o \in S
      BY <2>3, <1>4 DEF Closed, Objects
    <3>2. firstFree \in S \cup {MaxObjects}
      BY <2>3, <3>1, <1>7 DEF Closed
    <3>3. firstFree \in F \cup {MaxObjects}
      BY <1>1, <2>a DEF Closed
    <3>4. ASSUME NEW x \in S \cap F
          PROVE  freeList[x] \in (S \cap F) \cup {MaxObjects}
      <4>1. x # o /\ freeList'[x] = freeList[x]
        BY <1>2, <1>6, <2>a
      <4>2. freeList'[x] \in S \cup {MaxObjects}
        BY <2>3 DEF Closed
      <4>3. freeList[x] \in F \cup {MaxObjects}
        BY <1>1, <2>a DEF Closed
      <4> QED
        BY <4>1, <4>2, <4>3
    <3>5. Closed(S \cap F)
      BY <3>2, <3>3, <3>4 DEF Closed
    <3>6. S \cap F \in SUBSET Objects
      OBVIOUS
    <3> QED
      BY <2>a, <3>1, <3>5, <3>6 DEF Free
  <2>4. F \cup {o} \subseteq Free'
    BY <2>3 DEF Free, Objects
  <2> QED
    BY <2>a, <2>2, <2>4
<1>9. FreeListSound'
  <2>1. Free' = (Objects \ used)'
    BY <1>2, <1>4, <1>8, <1>a DEF FreeListSound, Objects
  <2>2. numberAllocated' = Cardinality(used')
    BY <1>3, <1>4, <1>a DEF FreeListSound
  <2>3. \A x \in Free : freeList[x] \in Free \cup {MaxObjects}
    BY <1>1 DEF Closed
  <2>4. firstFree \in Free \cup {MaxObjects}
    BY <1>1 DEF Closed
  <2>5. Free \subseteq Objects \ {o}
    BY <1>2 DEF Free
  <2>6. o # MaxObjects
    BY DEF Objects
  <2>7. \A x \in Free' : freeList'[x] # firstFree'
    BY <1>4, <1>6, <1>7, <1>8, <1>2, <2>3, <2>4, <2>5, <2>6
  <2>8. \A a, b \in Free' : freeList'[a] = freeList'[b] => a = b
    BY <1>6, <1>7, <1>8, <2>5, <1>a DEF FreeListSound
  <2> QED
    BY <2>1, <2>2, <2>7, <2>8 DEF FreeListSound
<1> QED
  BY <1>2, <1>5, <1>8, <1>9 DEF PoolInv

\* A full pool answers NULL, and then nothing is free.
LEMMA NewFailsKeeps ==
  ASSUME PoolInv, NewFails
  PROVE  PoolInv' /\ Free' = Free /\ Free = {}
<1>1. UNCHANGED <<freeList, firstFree, numberAllocated, used>> /\ answer' = NULL
  BY DEF NewFails, OutOfMemory, poolVars
<1>2. Free' = Free
  BY <1>1 DEF Free, Closed
<1>3. Free = {}
  BY UsedIsFinite DEF PoolInv, FreeListSound, NewFails, OutOfMemory
<1>4. TypeOK'
  BY <1>1 DEF PoolInv, TypeOK
<1>5. FreeListSound'
  BY <1>1, <1>2 DEF PoolInv, FreeListSound
<1> QED
  BY <1>2, <1>3, <1>4, <1>5 DEF PoolInv

LEMMA StutterKeeps ==
  ASSUME PoolInv, UNCHANGED vars
  PROVE  PoolInv' /\ Free' = Free /\ answer' = answer
<1>1. UNCHANGED <<freeList, firstFree, numberAllocated, used, answer>>
  BY DEF vars
<1>2. Free' = Free
  BY <1>1 DEF Free, Closed
<1> QED
  BY <1>1, <1>2 DEF PoolInv, TypeOK, FreeListSound

\* Every step keeps the pool's invariant.
LEMMA PoolInvariance == Spec => []PoolInv
<1>1. Init => PoolInv
  BY InitIsSound
<1>2. PoolInv /\ [Next]_vars => PoolInv'
  BY NewKeeps, DeleteKeeps, NewFailsKeeps, StutterKeeps DEF Next, New, Delete
<1> QED
  BY <1>1, <1>2, PTL DEF Spec

\* Type correctness: no link, for whatever order of new and delete, leads
\* outside the array of free-list entries.
THEOREM PoolTypeCorrect == Spec => []TypeOK
<1>1. PoolInv => TypeOK
  BY DEF PoolInv
<1> QED
  BY <1>1, PoolInvariance, PTL

\* For every number of objects the free list holds exactly the objects nobody
\* holds, each once, and the count counts the others.
THEOREM FreeListIsSound == Spec => []FreeListSound
<1>1. PoolInv => FreeListSound
  BY DEF PoolInv
<1> QED
  BY <1>1, PoolInvariance, PTL

\* The pool implements a set of free objects: what new answers was free, and
\* NULL is answered only when nothing is.
THEOREM PoolRefinement == Spec => ImplementsPoolSet
<1>1. Init => Set!Init
  <2> SUFFICES ASSUME Init PROVE Set!Init
    OBVIOUS
  <2>1. Free = Objects
    BY InitIsSound DEF PoolInv, FreeListSound, Init
  <2> QED
    BY <2>1 DEF Set!Init, Init
<1>2. PoolInv /\ [Next]_vars => [Set!Next]_Set!vars
  <2> SUFFICES ASSUME PoolInv, [Next]_vars PROVE [Set!Next]_Set!vars
    OBVIOUS
  <2>1. ASSUME NEW o \in Objects, New(o)
        PROVE  Set!Allocate(o)
    BY <2>1, NewKeeps DEF Set!Allocate, New
  <2>2. ASSUME NEW o \in Objects, Delete(o)
        PROVE  Set!Release(o)
    BY <2>2, DeleteKeeps DEF Set!Release, Delete
  <2>3. ASSUME NewFails
        PROVE  Set!Deny
    BY <2>3, NewFailsKeeps DEF Set!Deny, NewFails
  <2>4. ASSUME UNCHANGED vars
        PROVE  UNCHANGED Set!vars
    BY <2>4, StutterKeeps DEF Set!vars
  <2> QED
    BY <2>1, <2>2, <2>3, <2>4 DEF Next, Set!Next
<1> QED
  BY <1>1, <1>2, PoolInvariance, PTL DEF Spec, ImplementsPoolSet, Set!Spec

=============================================================================
