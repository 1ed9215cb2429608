----------------------------- MODULE MCTimerSystem -----------------------------
(***************************************************************************)
(* Finite instances of TimerSystem: what the application schedules, and    *)
(* which methods it calls on a timer, by what it did with it before.       *)
(***************************************************************************)
EXTENDS TimerSystem

OneShots  == {<<"OneShot", 0>>}
Periodics == {<<"Periodic", 1>>, <<"Periodic", 2>>}
Once      == {<<"Periodic", 1>>}

BothCtors == {"default", "tasks"}

\* As timerPoolTest.cpp:106-113 does: a timer is deleted unscheduled.
TestProtocol == CarefulProtocol \cup {<<"delete", "fresh">>}

\* And it is scheduled while it is pending, which enters it into the heap again.
TwiceProtocol == CarefulProtocol \cup {<<"schedule", "armed">>}

=============================================================================
