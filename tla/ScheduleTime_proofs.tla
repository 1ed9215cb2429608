------------------------- MODULE ScheduleTime_proofs -------------------------
(***************************************************************************)
(* Proofs about ScheduleTime.tla, for every width of the times, every      *)
(* clock that stays within it and whatever the callers ask for.            *)
(***************************************************************************)
EXTENDS ScheduleTime, TLAPS

-----------------------------------------------------------------------------
(* Unsigned arithmetic.                                                    *)

LEMMA Bounds ==
  /\ Width \in Nat \ {0} /\ Start \in Nat /\ MaxTime \in Nat
  /\ Clock \subseteq Words /\ Start \in Clock /\ 0 \in Words
  /\ Instants \subseteq Words /\ Durations \subseteq Words /\ Leftover \subseteq Words
  /\ RandMax \in Nat
BY ClockAssumption, TimesAssumption, LeftoverAssumption, RandAssumption
   DEF Clock, Words

LEMMA Word == ASSUME NEW x \in Int PROVE x % Width \in Words
BY Bounds DEF Words

\* A difference of words, and a sum that is not too large, are off by one Width at
\* most.
LEMMA Wraps ==
  ASSUME NEW x \in Int, -Width <= x, x < 2 * Width
  PROVE  x % Width = IF x < 0 THEN x + Width ELSE IF x < Width THEN x ELSE x - Width
<1>1. CASE x < 0
  BY <1>1, Bounds
<1>2. CASE 0 <= x /\ x < Width
  BY <1>2, Bounds
<1>3. CASE Width <= x
  BY <1>3, Bounds
<1> QED BY <1>1, <1>2, <1>3, Bounds

LEMMA Remainder ==
  ASSUME NEW x \in Nat, NEW m \in Nat \ {0}
  PROVE  x % m \in 0 .. x /\ x % m < m
<1>1. x % m \in Nat /\ x % m < m
  OBVIOUS
<1>2. CASE x < m
  BY <1>2
<1>3. CASE m <= x
  BY <1>1, <1>3
<1> QED BY <1>1, <1>2, <1>3

-----------------------------------------------------------------------------
(* Types.                                                                  *)

LEMMA FormTypes ==
  /\ \A f \in Forms : /\ f.absolute \in BOOLEAN /\ f.upperAbsolute \in BOOLEAN
                      /\ f.fuzzy \in BOOLEAN
                      /\ f.fuzzy => f.absolute = f.upperAbsolute
  /\ \A f \in Forms : Asked(f.absolute) \subseteq Words /\ SecondTimes(f) \subseteq Words
<1>1. \A isAbsolute : Asked(isAbsolute) \subseteq Words
  BY Bounds DEF Asked
<1>2. \A f \in Forms : Asked(f.absolute) \subseteq Words /\ SecondTimes(f) \subseteq Words
  BY <1>1, Bounds DEF SecondTimes
<1>3. \A f \in Forms : /\ f.absolute \in BOOLEAN /\ f.upperAbsolute \in BOOLEAN
                       /\ f.fuzzy \in BOOLEAN
                       /\ f.fuzzy => f.absolute = f.upperAbsolute
  <2> SUFFICES ASSUME NEW f \in Forms
               PROVE  /\ f.absolute \in BOOLEAN /\ f.upperAbsolute \in BOOLEAN
                      /\ f.fuzzy \in BOOLEAN
                      /\ f.fuzzy => f.absolute = f.upperAbsolute
    OBVIOUS
  <2>1. \/ f = Form(TRUE, FALSE, FALSE) \/ f = Form(FALSE, FALSE, FALSE)
        \/ f = Form(TRUE, TRUE, TRUE) \/ f = Form(FALSE, FALSE, TRUE)
    BY DEF Forms, Plain
  <2>2. \A x, y, z \in BOOLEAN : /\ Form(x, y, z).absolute = x
                                 /\ Form(x, y, z).upperAbsolute = y
                                 /\ Form(x, y, z).fuzzy = z
    BY DEF Form
  <2> QED BY <2>1, <2>2, Zenon
<1> QED BY <1>2, <1>3

LEMMA BegunTypes ==
  ASSUME NEW pc \in Pcs, NEW form \in Forms, NEW a \in Words, NEW b \in Words
  PROVE  Begun(pc, form, a, b) \in Calls
BY Bounds DEF Begun, Calls

LEMMA NotScheduledTypes == NotScheduled \in Calls
BY BegunTypes, Bounds DEF NotScheduled, Forms, Plain, Pcs

LEMMA ReadsTypes ==
  ASSUME TypeOK, NEW k \in 1 .. 4, NEW pc \in Pcs
  PROVE  Reads(k, pc) \in Calls
BY DEF TypeOK, Reads, Calls

LEMMA RelativeTypes ==
  ASSUME TypeOK, NEW t \in Words, NEW isAbsolute \in BOOLEAN
  PROVE  Relative(t, isAbsolute) \in Words
<1>1. t - now \in Int
  BY Bounds DEF TypeOK, Words, Clock
<1> QED BY <1>1, Word DEF Relative, ToRelative

LEMMA TypeNext == TypeOK /\ [Next]_vars => TypeOK'
<1> SUFFICES ASSUME TypeOK, [Next]_vars PROVE TypeOK'
  OBVIOUS
<1>0. /\ call.form \in Forms /\ call.a \in Words /\ call.b \in Words
      /\ call.x1 \in Words /\ call.x2 \in Words
      /\ call.form.absolute \in BOOLEAN /\ call.form.upperAbsolute \in BOOLEAN
  BY FormTypes DEF TypeOK, Calls
<1>1. ASSUME NEW form \in Forms, NEW a \in Asked(form.absolute),
             NEW b \in SecondTimes(form), Schedule(form, a, b)
      PROVE  TypeOK'
  <2>1. a \in Words /\ b \in Words
    BY FormTypes
  <2> QED BY <1>1, <2>1, BegunTypes DEF Schedule, TypeOK, Pcs
<1>2. CASE ReadFirst
  <2>1. Relative(call.a, call.form.absolute) \in Words
    BY <1>0, RelativeTypes
  <2>2. Reads(1, "second") \in Calls
    BY ReadsTypes DEF Pcs
  <2> QED BY <1>2, <2>1, <2>2 DEF ReadFirst, TypeOK, Calls
<1>3. CASE ReadSecond
  <2>1. Relative(call.b, call.form.upperAbsolute) \in Words
    BY <1>0, RelativeTypes
  <2>2. Reads(2, "draw") \in Calls
    BY ReadsTypes DEF Pcs
  <2> QED BY <1>3, <2>1, <2>2 DEF ReadSecond, TypeOK, Calls
<1>4. CASE Refuse \/ DivideByZero
  <2>1. Reads(3, "timeout") \in Calls /\ Reads(3, "dead") \in Calls
    BY ReadsTypes DEF Pcs
  <2> QED BY <1>4, <2>1 DEF Refuse, DivideByZero, TypeOK
<1>5. ASSUME NEW random \in 0 .. RandMax, Draw(random) PROVE TypeOK'
  <2>1. Reads(3, "timeout") \in Calls
    BY ReadsTypes DEF Pcs
  <2>2. call' \in Calls
    BY <1>5, <2>1 DEF Draw, Calls
  <2>3. random % (call.x2 - call.x1) \in Int
    BY <1>0, <1>5, Bounds DEF Draw, Words
  <2>4. now + RandomTimeout(random) \in Int
    BY <1>0, <2>3, Bounds DEF RandomTimeout, Words, TypeOK, Clock
  <2>5. whenToFire' \in Words
    BY <1>5, <2>4, Word DEF Draw, ToAbsolute
  <2> QED BY <1>5, <2>2, <2>5 DEF Draw, TypeOK
<1>6. CASE FireFirst
  <2>1. Reads(3, "timeout") \in Calls
    BY ReadsTypes DEF Pcs
  <2>2. now + call.a \in Int
    BY <1>0, Bounds DEF TypeOK, Words, Clock
  <2> QED BY <1>0, <1>6, <2>1, <2>2, Word DEF FireFirst, ToAbsolute, TypeOK
<1>7. CASE SetTimeout
  <2>1. Reads(4, "pending") \in Calls
    BY ReadsTypes DEF Pcs
  <2> QED BY <1>0, <1>7, <2>1, RelativeTypes DEF SetTimeout, TypeOK
<1>8. ASSUME NEW byDefault \in BOOLEAN, Renew(byDefault) PROVE TypeOK'
  BY <1>8, NotScheduledTypes, Bounds DEF Renew, TypeOK
<1>9. CASE Tick
  BY <1>9, Bounds DEF Tick, TypeOK, Clock
<1>10. CASE UNCHANGED vars
  BY <1>10 DEF vars, TypeOK
<1> QED
  BY <1>1, <1>2, <1>3, <1>4, <1>5, <1>6, <1>7, <1>8, <1>9, <1>10 DEF Next

\* Every time stays a word of the width, whatever overflows (Types.h:27-37).
THEOREM TypeCorrect == Spec => []TypeOK
<1>1. Init => TypeOK
  BY NotScheduledTypes, Bounds DEF Init, TypeOK
<1> QED
  BY <1>1, TypeNext, PTL DEF Spec

-----------------------------------------------------------------------------
(* What a call knows: the bounds as it measured them, and what it drew.    *)

Measured(t, k) == IF call.form.absolute THEN (t - call.read[k]) % Width ELSE t

FirstRead  == call.read[1] <= now /\ call.x1 = Measured(call.a, 1)
SecondRead == /\ call.read[1] <= call.read[2] /\ call.read[2] <= now
              /\ call.x2 = Measured(call.b, 2)

Drawn == \E k \in 0 .. RandMax :
                        /\ call.x1 + 1 + k <= call.x2
                        /\ whenToFire = (call.read[3] + (call.x1 + 1 + k)) % Width

Decided ==
  /\ FirstRead /\ SecondRead
  /\ call.read[2] <= call.read[3]
  /\ IF call.drawn THEN Drawn ELSE call.x2 <= call.x1

WindowInv ==
  /\ MaxTime + call.a < Width
  /\ call.form.fuzzy => MaxTime + call.b < Width
  /\ call.pc \in {"first", "second", "draw"} => call.form.fuzzy
  /\ call.pc \in {"first", "second", "draw"} => ~call.drawn
  /\ call.pc = "plain" => ~call.form.fuzzy
  /\ call.drawn => call.form.fuzzy
  /\ call.pc \in {"second", "draw"} => FirstRead
  /\ call.pc = "draw" => SecondRead
  /\ call.pc \in {"timeout", "pending", "dead"} /\ call.form.fuzzy => Decided

LEMMA Fields ==
  ASSUME TypeOK
  PROVE  /\ now \in Nat /\ Start <= now /\ now <= MaxTime
         /\ call.form \in Forms
         /\ call.form.absolute \in BOOLEAN /\ call.form.fuzzy \in BOOLEAN
         /\ call.form.fuzzy => call.form.upperAbsolute = call.form.absolute
         /\ call.a \in Nat /\ call.b \in Nat /\ call.x1 \in Nat /\ call.x2 \in Nat
         /\ \A k \in 1 .. 4 : call.read[k] \in Nat /\ call.read[k] <= MaxTime
         /\ first \in Nat
<1>1. call \in Calls /\ now \in Clock /\ first \in Words
  BY DEF TypeOK
<1>2. \A k \in 1 .. 4 : call.read[k] \in Clock
  BY <1>1 DEF Calls
<1>3. call.a \in Words /\ call.b \in Words /\ call.x1 \in Words /\ call.x2 \in Words
  BY <1>1 DEF Calls
<1>4. call.form \in Forms
  BY <1>1 DEF Calls
<1> QED BY <1>1, <1>2, <1>3, <1>4, FormTypes, Bounds DEF Words, Clock

\* A reading leaves the rest of the call as it was.
LEMMA Reading ==
  ASSUME TypeOK, NEW k \in 1 .. 4, NEW pc \in Pcs, NEW c, c = Reads(k, pc)
  PROVE  /\ c.pc = pc /\ c.form = call.form /\ c.drawn = call.drawn
         /\ c.a = call.a /\ c.b = call.b /\ c.x1 = call.x1 /\ c.x2 = call.x2
         /\ c.read[k] = now /\ \A j \in 1 .. 4 \ {k} : c.read[j] = call.read[j]
BY DEF TypeOK, Reads, Calls

LEMMA Decides ==
  ASSUME TypeOK, Refuse \/ DivideByZero \/ \E random \in 0 .. RandMax : Draw(random)
  PROVE  /\ call'.pc \in {"timeout", "dead"} /\ call'.form = call.form
         /\ call'.a = call.a /\ call'.b = call.b
         /\ call'.x1 = call.x1 /\ call'.x2 = call.x2
         /\ call'.read[1] = call.read[1] /\ call'.read[2] = call.read[2]
         /\ call'.read[3] = now
         /\ now' = now /\ first' = first
         /\ Refuse \/ DivideByZero => call'.drawn = call.drawn
<1>1. CASE Refuse
  BY <1>1, Reading DEF Refuse, Pcs
<1>2. CASE DivideByZero
  BY <1>2, Reading DEF DivideByZero, Pcs
<1>3. ASSUME NEW random \in 0 .. RandMax, Draw(random)
      PROVE  /\ call'.pc = "timeout" /\ call'.form = call.form
             /\ call'.a = call.a /\ call'.b = call.b
             /\ call'.x1 = call.x1 /\ call'.x2 = call.x2
             /\ call'.read[1] = call.read[1] /\ call'.read[2] = call.read[2]
             /\ call'.read[3] = now
             /\ now' = now /\ first' = first /\ ~Refuse /\ ~DivideByZero
  <2> DEFINE c == Reads(3, "timeout")
  <2>1. c \in Calls
    BY ReadsTypes DEF Pcs
  <2>2. /\ c.pc = "timeout" /\ c.form = call.form /\ c.a = call.a /\ c.b = call.b
        /\ c.x1 = call.x1 /\ c.x2 = call.x2 /\ c.read[1] = call.read[1]
        /\ c.read[2] = call.read[2] /\ c.read[3] = now
    BY Reading DEF Pcs
  <2>3. call' = [c EXCEPT !.drawn = TRUE]
    BY <1>3 DEF Draw
  <2>4. ~Refuse /\ ~DivideByZero
    BY <1>3, Fields DEF Draw, Refuse, DivideByZero
  <2> HIDE DEF c
  <2>5. /\ call'.pc = c.pc /\ call'.form = c.form /\ call'.a = c.a /\ call'.b = c.b
        /\ call'.x1 = c.x1 /\ call'.x2 = c.x2 /\ call'.read = c.read
    BY <2>1, <2>3 DEF Calls
  <2> QED BY <1>3, <2>2, <2>4, <2>5 DEF Draw
<1> QED BY <1>1, <1>2, <1>3

LEMMA WindowNext == TypeOK /\ WindowInv /\ [Next]_vars => WindowInv'
<1> SUFFICES ASSUME TypeOK, WindowInv, [Next]_vars PROVE WindowInv'
  OBVIOUS
<1>1. ASSUME NEW form \in Forms, NEW a \in Asked(form.absolute),
             NEW b \in SecondTimes(form), Schedule(form, a, b)
      PROVE  WindowInv'
  <2>1. MaxTime + a < Width /\ (form.fuzzy => MaxTime + b < Width)
    BY TimesAssumption DEF Asked, SecondTimes
  <2>2. form.fuzzy \in BOOLEAN
    BY FormTypes
  <2> QED BY <1>1, <2>1, <2>2 DEF Schedule, Begun, WindowInv
<1>2. CASE ReadFirst
  <2>1. /\ call'.pc = "second" /\ call'.form = call.form /\ call'.read[1] = now
        /\ call'.x1 = Relative(call.a, call.form.absolute) /\ call'.drawn = call.drawn
        /\ call'.a = call.a /\ call'.b = call.b /\ now' = now
    BY <1>2 DEF ReadFirst, Reads, TypeOK, Calls
  <2>2. FirstRead'
    BY <2>1, Fields DEF FirstRead, Measured, Relative, ToRelative
  <2> QED BY <1>2, <2>1, <2>2 DEF WindowInv, ReadFirst
<1>3. CASE ReadSecond
  <2>1. /\ call'.pc = "draw" /\ call'.form = call.form /\ call'.read[2] = now
        /\ call'.x2 = Relative(call.b, call.form.upperAbsolute)
        /\ call'.x1 = call.x1 /\ call'.read[1] = call.read[1] /\ call'.drawn = call.drawn
        /\ call'.a = call.a /\ call'.b = call.b /\ now' = now
    BY <1>3 DEF ReadSecond, Reads, TypeOK, Calls
  <2>2. FirstRead' /\ SecondRead'
    BY <1>3, <2>1, Fields DEF WindowInv, ReadSecond, FirstRead, SecondRead, Measured,
                              Relative, ToRelative
  <2> QED BY <1>3, <2>1, <2>2 DEF WindowInv, ReadSecond
<1>4. ASSUME Refuse \/ DivideByZero \/ \E random \in 0 .. RandMax : Draw(random)
      PROVE  WindowInv'
  <2>1. /\ call'.pc \in {"timeout", "dead"} /\ call'.form = call.form
        /\ call'.x1 = call.x1 /\ call'.x2 = call.x2
        /\ call'.read[1] = call.read[1] /\ call'.read[2] = call.read[2]
        /\ call'.read[3] = now /\ call'.a = call.a /\ call'.b = call.b /\ now' = now
    BY <1>4, Decides
  <2>2. call.form.fuzzy /\ FirstRead /\ SecondRead /\ ~call.drawn
    BY <1>4 DEF WindowInv, Refuse, DivideByZero, Draw
  <2>3. FirstRead' /\ SecondRead' /\ (call.read[2] <= call.read[3])'
    BY <2>1, <2>2 DEF FirstRead, SecondRead, Measured
  <2>4. IF call'.drawn THEN Drawn' ELSE call'.x2 <= call'.x1
    <3>1. CASE Refuse \/ DivideByZero
      <4>1. ~call'.drawn
        BY <2>2, <3>1, Decides
      <4> QED BY <2>1, <3>1, <4>1, Fields DEF Refuse, DivideByZero
    <3>2. ASSUME NEW random \in 0 .. RandMax, Draw(random) PROVE Drawn' /\ call'.drawn
      <4> DEFINE k == random % (call.x2 - call.x1)
      <4>1. k \in 0 .. RandMax /\ call.x1 + 1 + k <= call.x2
        <5>1. call.x2 - call.x1 \in Nat \ {0} /\ random \in Nat
          BY <3>2, Fields, Bounds DEF Draw
        <5>2. k \in 0 .. random /\ k < call.x2 - call.x1
          BY <5>1, Remainder
        <5> QED BY <5>1, <5>2, Fields, Bounds
      <4>2. whenToFire' = (now + (call.x1 + 1 + k)) % Width
        BY <3>2 DEF Draw, ToAbsolute, RandomTimeout
      <4>3. call'.drawn
        BY <3>2 DEF Draw, Reads, TypeOK, Calls
      <4> HIDE DEF k
      <4> QED BY <2>1, <4>1, <4>2, <4>3 DEF Drawn
    <3> QED BY <1>4, <3>1, <3>2
  <2>5. Decided'
    BY <2>3, <2>4 DEF Decided
  <2> QED BY <2>1, <2>2, <2>5 DEF WindowInv
<1>5. CASE FireFirst
  <2>1. /\ call'.pc = "timeout" /\ call'.form = call.form /\ call'.drawn = call.drawn
        /\ call'.a = call.a /\ call'.b = call.b
    BY <1>5 DEF FireFirst, Reads, TypeOK, Calls
  <2> QED BY <1>5, <2>1 DEF WindowInv, FireFirst
<1>6. CASE SetTimeout
  <2>1. /\ call'.pc = "pending" /\ call'.form = call.form
        /\ call'.x1 = call.x1 /\ call'.x2 = call.x2 /\ call'.drawn = call.drawn
        /\ \A k \in 1 .. 3 : call'.read[k] = call.read[k]
        /\ call'.a = call.a /\ call'.b = call.b
        /\ now' = now /\ whenToFire' = whenToFire
    BY <1>6 DEF SetTimeout, Reads, TypeOK, Calls
  <2>2. Decided => Decided'
    BY <2>1 DEF Decided, FirstRead, SecondRead, Measured, Drawn
  <2> QED BY <1>6, <2>1, <2>2 DEF WindowInv, SetTimeout
<1>7. ASSUME NEW byDefault \in BOOLEAN, Renew(byDefault) PROVE WindowInv'
  BY <1>7, ClockAssumption DEF Renew, NotScheduled, Begun, Form, WindowInv
<1>8. CASE Tick
  <2>1. call' = call /\ whenToFire' = whenToFire /\ now <= now'
    BY <1>8, Fields DEF Tick
  <2>2. /\ FirstRead => FirstRead'
        /\ SecondRead => SecondRead'
        /\ Decided => Decided'
    BY <1>8, <2>1, Fields DEF Tick, Decided, FirstRead, SecondRead, Measured, Drawn
  <2> QED BY <2>1, <2>2 DEF WindowInv
<1>9. CASE UNCHANGED vars
  BY <1>9 DEF vars, WindowInv, Decided, FirstRead, SecondRead, Measured, Drawn
<1> QED
  BY <1>1, <1>2, <1>3, <1>4, <1>5, <1>6, <1>7, <1>8, <1>9 DEF Next

-----------------------------------------------------------------------------
(* What a decided call means on the clock.                                 *)

\* A measured absolute bound is ahead, or wrapped because it had passed.
LEMMA MeasuredBounds ==
  ASSUME TypeOK, WindowInv, call.form.fuzzy, NEW k \in 1 .. 4, NEW t \in {call.a, call.b}
  PROVE  Measured(t, k) =
           IF ~call.form.absolute THEN t
           ELSE IF t < call.read[k] THEN t - call.read[k] + Width ELSE t - call.read[k]
<1>1. t \in Nat /\ MaxTime + t < Width /\ call.read[k] \in Nat /\ call.read[k] <= MaxTime
  BY Fields DEF WindowInv
<1>2. /\ t - call.read[k] \in Int /\ -Width <= t - call.read[k]
      /\ t - call.read[k] < Width
  BY <1>1, Bounds
<1>3. (t - call.read[k]) % Width =
        IF t - call.read[k] < 0 THEN t - call.read[k] + Width ELSE t - call.read[k]
  BY <1>2, Wraps, Bounds
<1>4. t - call.read[k] < 0 <=> t < call.read[k]
  BY <1>1
<1>5. (t - call.read[k]) % Width =
        IF t < call.read[k] THEN t - call.read[k] + Width ELSE t - call.read[k]
  BY <1>3, <1>4
<1>6. CASE call.form.absolute
  BY <1>5, <1>6 DEF Measured
<1>7. CASE ~call.form.absolute
  BY <1>7 DEF Measured
<1> QED BY <1>6, <1>7

LEMMA WithinHolds == TypeOK /\ WindowInv => FuzzyWithin
<1> SUFFICES ASSUME TypeOK, WindowInv, call.pc = "pending", call.drawn,
                    call.a <= call.b, call.form.fuzzy
             PROVE  /\ Lower < whenToFire
                    /\ ~Overtaken => whenToFire <= Upper + Advance
  BY DEF FuzzyWithin, WindowInv
<1>1. /\ call.read[1] \in Nat /\ call.read[2] \in Nat /\ call.read[3] \in Nat
      /\ call.read[1] <= call.read[2] /\ call.read[2] <= call.read[3]
      /\ call.read[3] <= MaxTime
      /\ call.a \in Nat /\ call.b \in Nat
      /\ MaxTime + call.a < Width /\ MaxTime + call.b < Width
  BY Fields DEF WindowInv, Decided, SecondRead
<1>2. call.x1 = Measured(call.a, 1) /\ call.x2 = Measured(call.b, 2)
  BY DEF WindowInv, Decided, FirstRead, SecondRead
<1>3. PICK j \in 0 .. RandMax : /\ call.x1 + 1 + j <= call.x2
                      /\ whenToFire = (call.read[3] + (call.x1 + 1 + j)) % Width
  BY DEF WindowInv, Decided, Drawn
<1>4. CASE ~call.form.absolute
  <2>1. call.x1 = call.a /\ call.x2 = call.b
    BY <1>2, <1>4, MeasuredBounds
  <2>2. /\ call.read[3] + (call.x1 + 1 + j) \in 0 .. Width - 1
    BY <1>1, <1>3, <2>1, Bounds
  <2>3. whenToFire = call.read[3] + (call.x1 + 1 + j)
    BY <1>3, <2>2, Wraps, Bounds
  <2> QED BY <1>1, <1>3, <1>4, <2>1, <2>3 DEF Lower, Upper, Advance
<1>5. CASE call.form.absolute /\ call.a >= call.read[1] /\ ~Overtaken
  <2>1. call.x1 = call.a - call.read[1] /\ call.x2 = call.b - call.read[2]
    BY <1>1, <1>2, <1>5, MeasuredBounds DEF Overtaken
  <2>2. call.read[3] + (call.x1 + 1 + j) \in 0 .. Width - 1
    BY <1>1, <1>3, <1>5, <2>1, Bounds
  <2>3. whenToFire = call.read[3] + (call.x1 + 1 + j)
    BY <1>3, <2>2, Wraps, Bounds
  <2> QED BY <1>1, <1>3, <1>5, <2>1, <2>3 DEF Lower, Upper, Advance
<1>6. CASE call.form.absolute /\ call.a < call.read[1]
  <2>1. call.x1 = call.a - call.read[1] + Width
    BY <1>1, <1>2, <1>6, MeasuredBounds
  <2>2. call.b < call.read[2]
    <3>1. SUFFICES ASSUME call.b >= call.read[2] PROVE FALSE
      BY <1>1
    <3>2. call.x2 = call.b - call.read[2]
      BY <1>1, <1>2, <1>6, <3>1, MeasuredBounds
    <3> QED BY <1>1, <1>3, <2>1, <3>2, Bounds
  <2>3. call.x2 = call.b - call.read[2] + Width
    BY <1>2, <1>6, <2>2, MeasuredBounds
  <2> DEFINE x == call.read[3] + (call.x1 + 1 + j)
  <2>4. x \in Nat /\ Width <= x /\ x < 2 * Width
    BY <1>1, <1>3, <2>1, <2>3, Bounds
  <2>5. whenToFire = x - Width
    <3>1. whenToFire = x % Width
      BY <1>3
    <3> HIDE DEF x
    <3>2. x % Width = x - Width
      BY <2>4, Wraps, Bounds
    <3> QED BY <3>1, <3>2
  <2> QED BY <1>1, <1>3, <1>6, <2>1, <2>3, <2>5, Bounds DEF Lower, Upper, Advance
<1>7. CASE Overtaken
  <2>1. /\ call.form.absolute /\ call.a >= call.read[1]
        /\ call.b < call.read[2] /\ Start <= call.read[1]
    BY <1>7 DEF Overtaken, TypeOK, Calls, Clock
  <2>2. call.x1 = call.a - call.read[1]
    BY <1>1, <1>2, <2>1, MeasuredBounds
  <2>3. call.read[3] + (call.x1 + 1 + j) \in 0 .. Width - 1
    <3>1. call.x1 + 1 <= MaxTime - Start
      BY <1>1, <2>1, <2>2, Bounds
    <3> QED BY <1>1, <2>1, <2>2, <3>1, Bounds, RandAssumption
  <2>4. whenToFire = call.read[3] + (call.x1 + 1 + j)
    BY <1>3, <2>3, Wraps, Bounds
  <2> QED BY <1>1, <1>7, <2>1, <2>2, <2>4, Bounds DEF Lower
<1> QED BY <1>1, <1>4, <1>5, <1>6, <1>7

LEMMA DrawnHolds == TypeOK /\ WindowInv => DrawnUnlessLate
<1> SUFFICES ASSUME TypeOK, WindowInv, call.pc \in {"timeout", "pending", "dead"},
                    call.form.fuzzy, ~call.drawn, call.a < call.b
             PROVE  /\ call.form.absolute
                    /\ \/ call.a < call.read[1]
                       \/ call.b - call.a <= call.read[2] - call.read[1]
  BY DEF DrawnUnlessLate
<1>1. /\ call.read[1] \in Nat /\ call.read[2] \in Nat /\ call.read[2] <= MaxTime
      /\ call.a \in Nat /\ call.b \in Nat /\ MaxTime + call.a < Width
      /\ call.form.absolute \in BOOLEAN
  BY Fields DEF WindowInv
<1>2. /\ call.x1 = Measured(call.a, 1) /\ call.x2 = Measured(call.b, 2)
      /\ call.x2 <= call.x1
  BY DEF WindowInv, Decided, FirstRead, SecondRead
<1>3. call.form.absolute
  <2>1. SUFFICES ASSUME ~call.form.absolute PROVE FALSE
    BY <1>1
  <2>2. call.x1 = call.a /\ call.x2 = call.b
    BY <1>2, <2>1, MeasuredBounds
  <2> QED BY <1>1, <1>2, <2>2
<1>4. CASE call.a >= call.read[1]
  <2>1. call.x1 = call.a - call.read[1]
    BY <1>1, <1>2, <1>3, <1>4, MeasuredBounds
  <2>2. call.x2 = IF call.b < call.read[2] THEN call.b - call.read[2] + Width
                                           ELSE call.b - call.read[2]
    BY <1>2, <1>3, MeasuredBounds
  <2> QED BY <1>1, <1>2, <1>3, <1>4, <2>1, <2>2, Bounds
<1> QED BY <1>1, <1>3, <1>4

-----------------------------------------------------------------------------
LEMMA Invariants == Spec => [](TypeOK /\ WindowInv)
<1>1. Init => TypeOK
  BY NotScheduledTypes, Bounds DEF Init, TypeOK
<1>2. Init => WindowInv
  BY Bounds, ClockAssumption DEF Init, NotScheduled, Begun, Form, WindowInv
<1> QED
  BY <1>1, <1>2, TypeNext, WindowNext, PTL DEF Spec

\* A timer with a drawn firing time never fires before the window asked for, and
\* not later after it than by the clock's advance within the call, unless the
\* clock overtook the whole window between the two readings: then AbsoluteIsKept
\* is broken (Timer.cpp:139-154).
THEOREM DrawnInWindow == Spec => []FuzzyWithin
BY Invariants, WithinHolds, PTL

\* A window in order is refused, or divides by zero, only if it had begun or was
\* overtaken by the clock (Timer.cpp:149-153).
THEOREM RefusedWhenLate == Spec => []DrawnUnlessLate
BY Invariants, DrawnHolds, PTL

=============================================================================
