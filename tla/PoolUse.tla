-------------------------------- MODULE PoolUse --------------------------------
(***************************************************************************)
(* The pool of MemoryPool.tla used as Timer's and TestCallback's operators *)
(* new and delete use it: under a semaphore, and an object is given back   *)
(* by whoever holds it, once.                                              *)
(***************************************************************************)
EXTENDS MemoryPool, FiniteSets

CONSTANT NULL

ASSUME NullIsNoObject == NULL \notin 0 .. MaxObjects

VARIABLES
  used,    \* the objects that are held
  answer   \* what getFromPool answered last

vars == <<freeList, firstFree, numberAllocated, used, answer>>

Init == PoolInit /\ used = {} /\ answer = NULL

New(o) ==
  /\ GetFromPool(o)
  /\ used' = used \cup {o} /\ answer' = o

NewFails ==
  /\ OutOfMemory
  /\ answer' = NULL /\ UNCHANGED used

Delete(o) ==
  /\ o \in used
  /\ RemoveFromPool(o)
  /\ used' = used \ {o} /\ UNCHANGED answer

Next ==
  \/ \E o \in Objects : New(o) \/ Delete(o)
  \/ NewFails

Spec == Init /\ [][Next]_vars

-----------------------------------------------------------------------------
\* Type invariant: no link leads outside the array.
TypeOK ==
  /\ freeList \in [Objects -> 0 .. MaxObjects]
  /\ firstFree \in 0 .. MaxObjects
  /\ numberAllocated \in 0 .. MaxObjects
  /\ used \subseteq Objects
  /\ answer \in Objects \cup {NULL}

\* The free list holds the objects nobody holds, each once and in no cycle, in
\* whatever order they came back, and the count counts the others
\* (MemoryPool.cpp:64-102).
FreeListSound ==
  /\ Free = Objects \ used
  /\ numberAllocated = Cardinality(used)
  /\ \A o \in Free : freeList[o] # firstFree
  /\ \A a, b \in Free : freeList[a] = freeList[b] => a = b

Set == INSTANCE PoolSet WITH free <- Free

\* The free list and the count implement a set of free objects: new answers an
\* object nobody holds, and NULL only when every object is held
\* (MemoryPool.cpp:64-85).
ImplementsPoolSet == Set!Spec

=============================================================================
