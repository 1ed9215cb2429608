-------------------------------- MODULE PoolSet --------------------------------
(***************************************************************************)
(* What operator new and operator delete take the pool for: a set of free  *)
(* objects.  An allocation answers some free object, and NULL only when    *)
(* there is none; an object that is given back is free again.              *)
(***************************************************************************)
CONSTANTS Objects, NULL

VARIABLES free, answer

vars == <<free, answer>>

Init == free = Objects /\ answer = NULL

Allocate(o) ==
  /\ o \in free
  /\ free' = free \ {o} /\ answer' = o

Deny ==
  /\ free = {}
  /\ answer' = NULL /\ UNCHANGED free

Release(o) ==
  /\ o \notin free
  /\ free' = free \cup {o} /\ UNCHANGED answer

Next ==
  \/ \E o \in Objects : Allocate(o) \/ Release(o)
  \/ Deny

Spec == Init /\ [][Next]_vars

=============================================================================
