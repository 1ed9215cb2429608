------------------------------- MODULE TimerSet -------------------------------
(***************************************************************************)
(* What Timer.cpp and TimerTask.cpp take the heap for: a set of pending    *)
(* timers to which one call at a time adds a timer, or from which it       *)
(* removes one.  An addition takes effect; a removal either takes effect   *)
(* and answers OK, or answers ERROR and changes nothing; no call touches a *)
(* timer other than its own.                                               *)
(***************************************************************************)
CONSTANTS Timers, NoTimer

VARIABLES
  members,  \* the pending timers
  calling,  \* "none", "add", "remove": the call in flight ...
  on,       \* ... and its timer, NoTimer before the first call
  done,     \* has the call taken effect?
  answer    \* the Result of the last call

vars == <<members, calling, on, done, answer>>

Init ==
  /\ members = {}
  /\ calling = "none" /\ on = NoTimer /\ done = FALSE /\ answer = "OK"

Call(kind, t) ==
  /\ calling = "none"
  /\ t \in members <=> kind = "remove"
  /\ calling' = kind /\ on' = t /\ done' = FALSE
  /\ UNCHANGED <<members, answer>>

TakeEffect ==
  /\ calling # "none" /\ ~done
  /\ members' = IF calling = "add" THEN members \cup {on} ELSE members \ {on}
  /\ done' = TRUE
  /\ UNCHANGED <<calling, on, answer>>

Succeed ==
  /\ calling # "none" /\ done
  /\ calling' = "none" /\ answer' = "OK" /\ done' = FALSE
  /\ UNCHANGED <<members, on>>

Refuse ==
  /\ calling = "remove" /\ ~done
  /\ calling' = "none" /\ answer' = "ERROR"
  /\ UNCHANGED <<members, on, done>>

Next ==
  \/ \E kind \in {"add", "remove"}, t \in Timers : Call(kind, t)
  \/ TakeEffect \/ Succeed \/ Refuse

Spec == Init /\ [][Next]_vars

=============================================================================
