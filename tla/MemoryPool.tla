------------------------------ MODULE MemoryPool ------------------------------
(***************************************************************************)
(* The shared-memory object pool (platform/MemoryPool.cpp): a free list    *)
(* threaded through an array of indices, and a count of allocated objects. *)
(* An object is named by its index; getIndexFromMemoryLocation and         *)
(* getMemoryLocationFromIndex are inverses on the objects of the pool.     *)
(* Callers hold a semaphore around each operation, so one is one step.     *)
(*                                                                         *)
(* An operator named Slip... is a bug somebody could write in the operator *)
(* below it; no specification uses it.                                     *)
(***************************************************************************)
EXTENDS Integers

CONSTANT MaxObjects  \* maxNumberOfObjects

ASSUME MaxObjectsAssumption == MaxObjects \in Nat \ {0}

VARIABLES
  freeList,        \* pFreeList: for a free object, the next free one
  firstFree,       \* *pFirstFree
  numberAllocated  \* *pNumberAllocated

poolVars == <<freeList, firstFree, numberAllocated>>

Objects == 0 .. MaxObjects - 1

\* A set of objects that the free list does not lead out of.
Closed(S) ==
  /\ firstFree \in S \cup {MaxObjects}
  /\ \A o \in S : freeList[o] \in S \cup {MaxObjects}

\* The objects on the free list: those in every closed set.
Free == {o \in Objects : \A S \in SUBSET Objects : Closed(S) => o \in S}

\* Starts from one.
SlipPoolInit ==
  /\ freeList = [i \in Objects |-> i + 2]
  /\ firstFree = 0
  /\ numberAllocated = 0

PoolInit ==
  /\ freeList = [i \in Objects |-> i + 1]
  /\ firstFree = 0
  /\ numberAllocated = 0

\* The free list does not move on.
SlipGetFromPool(o) ==
  /\ numberAllocated # MaxObjects
  /\ o = firstFree /\ o \in Objects
  /\ numberAllocated' = numberAllocated + 1
  /\ UNCHANGED <<freeList, firstFree>>

\* getFromPool answers object o.
GetFromPool(o) ==
  /\ numberAllocated # MaxObjects
  /\ o = firstFree /\ o \in Objects
  /\ firstFree' = freeList[o]
  /\ numberAllocated' = numberAllocated + 1
  /\ UNCHANGED freeList

\* getFromPool answers NULL.
OutOfMemory == numberAllocated = MaxObjects /\ UNCHANGED poolVars

\* The object is put first, and not linked to the others.
SlipRemoveFromPool(o) ==
  /\ numberAllocated # 0
  /\ firstFree' = o
  /\ numberAllocated' = numberAllocated - 1
  /\ UNCHANGED freeList

\* removeFromPool returns object o; a pool that counts no object ignores it.
RemoveFromPool(o) ==
  \/ /\ numberAllocated # 0
     /\ freeList' = [freeList EXCEPT ![o] = firstFree]
     /\ firstFree' = o
     /\ numberAllocated' = numberAllocated - 1
  \/ numberAllocated = 0 /\ UNCHANGED poolVars

=============================================================================
