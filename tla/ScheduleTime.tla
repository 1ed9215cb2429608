----------------------------- MODULE ScheduleTime -----------------------------
(***************************************************************************)
(* The six ways to schedule a timer (platform/Timer.cpp, schedule) and the *)
(* conversions of platform/TimerUtils.cpp: from what the caller asks to    *)
(* the timer's whenToFire and timeout.  One timer object in one pool slot; *)
(* a call reads the clock up to four times, and time passes in between.    *)
(* Times are unsigned: 64 bits in the code, Width values here.             *)
(***************************************************************************)
EXTENDS Integers

CONSTANTS
  Width,       \* how many values a time has
  Start,       \* the clock at the beginning, milliseconds since the epoch
  MaxTime,     \* the bound of the clock
  Instants,    \* the absolute times callers ask for
  Durations,   \* the timeouts callers ask for
  Leftover,    \* what may be in the uninitialised `dummy` of a one-shot
  RandMax      \* rand() answers 0 .. RandMax

ASSUME ClockAssumption ==
  /\ Width \in Nat /\ Start \in Nat /\ MaxTime \in Nat
  /\ Start <= MaxTime /\ MaxTime < Width

\* Nobody asks for a time near the end of the unsigned numbers.
ASSUME TimesAssumption ==
  \A t \in Instants \cup Durations : t \in Nat /\ MaxTime + t < Width

ASSUME LeftoverAssumption == Leftover \subseteq 0 .. Width - 1

\* Nor does a draw reach the end of them.
ASSUME RandAssumption ==
  RandMax \in Nat /\ MaxTime + (MaxTime - Start) + RandMax < Width

VARIABLES
  now,          \* the clock
  first, timeout, whenToFire,   \* the fields of the object
  call          \* the schedule call under way, or the last one

vars == <<now, first, timeout, whenToFire, call>>

Words == 0 .. Width - 1
Clock == Start .. MaxTime

\* One form of schedule: how it takes its two times, and whether it draws.
Form(firstIsAbsolute, timeoutIsAbsolute, isFuzzyOneShot) ==
  [absolute |-> firstIsAbsolute, upperAbsolute |-> timeoutIsAbsolute,
   fuzzy |-> isFuzzyOneShot]

Plain == {Form(TRUE, FALSE, FALSE), Form(FALSE, FALSE, FALSE)}
Forms == Plain \cup {Form(TRUE, TRUE, TRUE), Form(FALSE, FALSE, TRUE)}

Asked(isAbsolute) == IF isAbsolute THEN Instants ELSE Durations

\* The second time: the window's end, a period, or the one-shot's `dummy`.
SecondTimes(form) ==
  IF form.fuzzy THEN Asked(form.upperAbsolute) ELSE Durations \cup Leftover

Pcs == {"new", "first", "second", "draw", "plain", "timeout", "pending", "dead"}

Calls == [pc : Pcs, form : Forms, a : Words, b : Words, x1 : Words, x2 : Words,
          read : [1 .. 4 -> Clock], drawn : BOOLEAN]

-----------------------------------------------------------------------------
\* convertTimerTimeoutToAbsoluteTimeSinceEpoch
ToAbsolute(timeoutMs) == (now + timeoutMs) % Width

\* convertAbsoluteTimeSinceEpochToRelative: the difference of two unsigned
\* numbers is never below zero.
SlipToRelative(time) == time - now
ToRelative(time) == (time - now) % Width

SlipRelative(time, isAbsolute) == ToRelative(time)
Relative(time, isAbsolute) == IF isAbsolute THEN ToRelative(time) ELSE time

\* The call goes on to pc, with the clock noted as its k-th reading.
Reads(k, pc) == [call EXCEPT !.pc = pc, !.read[k] = now]

Begun(pc, form, a, b) ==
  [pc |-> pc, form |-> form, a |-> a, b |-> b, x1 |-> 0, x2 |-> 0,
   read |-> [k \in 1 .. 4 |-> Start], drawn |-> FALSE]

NotScheduled == Begun("new", Form(FALSE, FALSE, FALSE), 0, 0)

Init ==
  /\ now = Start
  /\ first = 0 /\ timeout = 0 /\ whenToFire = 0
  /\ call = NotScheduled

\* One of the six methods, up to the reading of the clock.
Schedule(form, a, b) ==
  /\ call.pc = "new"
  /\ call' = Begun(IF form.fuzzy THEN "first" ELSE "plain", form, a, b)
  /\ UNCHANGED <<now, first, timeout, whenToFire>>

ReadFirst ==
  /\ call.pc = "first"
  /\ call' = [Reads(1, "second") EXCEPT !.x1 = Relative(call.a, call.form.absolute)]
  /\ UNCHANGED <<now, first, timeout, whenToFire>>

ReadSecond ==
  /\ call.pc = "second"
  /\ call' = [Reads(2, "draw") EXCEPT !.x2 = Relative(call.b, call.form.upperAbsolute)]
  /\ UNCHANGED <<now, first, timeout, whenToFire>>

\* "Incorrect parameters": whenToFire stays what it was, and the call goes on.
Refuse ==
  /\ call.pc = "draw" /\ call.x2 < call.x1
  /\ call' = Reads(3, "timeout")
  /\ UNCHANGED <<now, first, timeout, whenToFire>>

\* rand () % 0
DivideByZero ==
  /\ call.pc = "draw" /\ call.x2 = call.x1
  /\ call' = Reads(3, "dead")
  /\ UNCHANGED <<now, first, timeout, whenToFire>>

SlipRandomTimeout(random) == call.x1 + 1 + (random % (call.x2 - call.x1 + 1))
RandomTimeout(random) == call.x1 + 1 + (random % (call.x2 - call.x1))

Draw(random) ==
  /\ call.pc = "draw" /\ call.x1 < call.x2
  /\ whenToFire' = ToAbsolute(RandomTimeout(random))
  /\ call' = [Reads(3, "timeout") EXCEPT !.drawn = TRUE]
  /\ UNCHANGED <<now, first, timeout>>

\* The absolute time asked for is not used: the member `first` is.
FireFirst ==
  /\ call.pc = "plain" /\ call' = Reads(3, "timeout")
  /\ IF call.form.absolute
     THEN whenToFire' = first /\ first' = first
     ELSE whenToFire' = ToAbsolute(call.a) /\ first' = call.a
  /\ UNCHANGED <<now, timeout>>

\* The timeout, the addition to the heap and the post.
SetTimeout ==
  /\ call.pc = "timeout"
  /\ timeout' = Relative(call.b, call.form.upperAbsolute)
  /\ call' = Reads(4, "pending")
  /\ UNCHANGED <<now, first, whenToFire>>

\* The timer has fired or was stopped or deleted; the object, or the slot's next
\* one, is scheduled anew.  Nobody else writes `first`; the default constructor
\* resets it.
Renew(byDefault) ==
  /\ call.pc = "pending" /\ call' = NotScheduled
  /\ IF byDefault THEN first' = 0 /\ timeout' = 0
                  ELSE UNCHANGED <<first, timeout>>
  /\ UNCHANGED <<now, whenToFire>>

Tick == /\ now < MaxTime /\ now' = now + 1
        /\ UNCHANGED <<first, timeout, whenToFire, call>>

Next ==
  \/ \E form \in Forms : \E a \in Asked(form.absolute), b \in SecondTimes(form) :
       Schedule(form, a, b)
  \/ ReadFirst \/ ReadSecond \/ Refuse \/ DivideByZero
  \/ \E random \in 0 .. RandMax : Draw(random)
  \/ FireFirst \/ SetTimeout
  \/ \E byDefault \in BOOLEAN : Renew(byDefault)
  \/ Tick

Spec == Init /\ [][Next]_vars

-----------------------------------------------------------------------------
(* Properties.                                                             *)

\* Every time is a word and every reading one of the clock.
TypeOK ==
  /\ now \in Clock /\ call \in Calls
  /\ first \in Words /\ timeout \in Words /\ whenToFire \in Words

\* When an absolute window is open ended by the clock itself: the lower bound was
\* still ahead at the first reading and the upper one behind at the second.
Overtaken == /\ call.form.absolute
             /\ call.a >= call.read[1] /\ call.b < call.read[2]

\* The window asked for, on the clock.
Lower == IF call.form.absolute THEN call.a ELSE call.read[3] + call.a
Upper == IF call.form.absolute THEN call.b ELSE call.read[3] + call.b

\* By how much the clock went on between the measuring of the upper bound and the
\* setting of the firing time.
Advance == call.read[3] - call.read[2]

\* A fuzzy one-shot that was drawn never fires before its lower bound, and no later
\* after its upper one than by Advance.  The second half is about the windows whose
\* two bounds are both ahead of the clock when they are measured, or both behind;
\* for one that is overtaken in between AbsoluteIsKept shows that it fails
\* (Timer.cpp:139-154).
FuzzyWithin ==
  call.pc = "pending" /\ call.drawn /\ call.a <= call.b =>
    /\ Lower < whenToFire
    /\ ~Overtaken => whenToFire <= Upper + Advance

\* A call with its bounds in order is refused, or divides by zero, only for an
\* absolute window that has begun, or that is no wider than what the clock went
\* on between the two readings (Timer.cpp:149-153).
DrawnUnlessLate ==
  call.pc \in {"timeout", "pending", "dead"} /\ call.form.fuzzy /\ ~call.drawn
    /\ call.a < call.b =>
      /\ call.form.absolute
      /\ \/ call.a < call.read[1]
         \/ call.b - call.a <= call.read[2] - call.read[1]

\* Claimed of the absolute schedules, and not so: a timer scheduled at an absolute
\* time fires then, and one scheduled between two absolute times between them, late
\* by no more than Advance (Timer.h:34, 36, 102).
AbsoluteIsKept ==
  call.pc = "pending" /\ call.form.absolute =>
    /\ ~call.form.fuzzy => whenToFire = call.a
    /\ call.drawn /\ call.a <= call.b =>
         call.a < whenToFire /\ whenToFire <= call.b + Advance

=============================================================================
