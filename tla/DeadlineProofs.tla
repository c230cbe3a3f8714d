--------------------------- MODULE DeadlineProofs ---------------------------
(***************************************************************************)
(* Proofs about Deadline, for any width, interval and set of budgets.      *)
(***************************************************************************)
EXTENDS Deadline, TLAPS

(* The timer is always due within an interval.                             *)
Clock ==
  /\ now \in Epoch .. Horizon /\ wall \in Epoch .. Horizon
  /\ now <= expiry /\ expiry <= now + Quantum

(* What nsnow() has to do with time, and DEADLINE, during a call of        *)
(* resume().                                                               *)
Stage ==
  /\ phase # "caller" \/ outcome # "none" => us \in Us
  /\ phase = "set" => DEADLINE = us /\ ~asked
  /\ phase \in {"set", "running"} => outcome = "none"
  /\ phase = "running" =>
       /\ start \in Epoch .. now /\ begun \in Epoch .. Horizon
       /\ wall = begun + (now - start) + ahead - back
       /\ IF asked THEN DEADLINE = 0 /\ pending
          ELSE DEADLINE = IF Limited(us) THEN Sum(begun, us * K) ELSE us

(* Past the deadline, a check is due before the interval is over.          *)
Due ==
  phase = "running" /\ Limited(us) /\ now >= start + us * K + back =>
    pending \/ expiry <= start + us * K + back + Quantum

(* The inductive invariant.                                                *)
IInv == TypeOK /\ Clock /\ Stage /\ Due /\ Timely

-----------------------------------------------------------------------------

(* The product and the sum that stamp() computes.                          *)
LEMMA Arithmetic ==
  ASSUME NEW u \in 0 .. Max, NEW a \in Nat
  PROVE  /\ u * K \in Nat
         /\ Sum(a, u * K) \in 0 .. Max
         /\ Sum(a, u * K) <= a + u * K
         /\ a + u * K <= Max => Sum(a, u * K) = a + u * K
<1>1. u * K \in Nat
  BY DeadlineAssumption
<1> DEFINE p == u * K
<1>2. \A b \in Nat : /\ b % (Max + 1) \in 0 .. Max
                     /\ b % (Max + 1) <= b
                     /\ b <= Max => b % (Max + 1) = b
  BY DeadlineAssumption
<1>3. a + p \in Nat
  BY <1>1
<1> HIDE DEF p
<1> QED BY <1>1, <1>2, <1>3 DEF Sum, p

(* The invariant holds initially.                                          *)
LEMMA InitIInv == Init => IInv
<1> SUFFICES ASSUME Init PROVE IInv
  OBVIOUS
<1> USE DeadlineAssumption DEF Init
<1>1. TypeOK
  <2>1. now \in Nat /\ wall \in Nat /\ expiry \in Nat /\ start \in Nat /\ begun \in Nat
    OBVIOUS
  <2>2. us \in 0 .. Max /\ DEADLINE \in 0 .. Max /\ ahead \in 0 .. Slip /\ back \in 0 .. Slip
    OBVIOUS
  <2> QED BY <2>1, <2>2 DEF TypeOK
<1>2. Clock
  BY DEF Clock
<1>3. Stage /\ Due /\ Timely
  BY DEF Stage, Due, Timely
<1> QED BY <1>1, <1>2, <1>3 DEF IInv

(* Every step preserves the invariant.                                     *)
LEMMA StepIInv == IInv /\ [Next]_vars => IInv'
<1> SUFFICES ASSUME IInv, [Next]_vars PROVE IInv'
  OBVIOUS
<1> USE DEF IInv, clocks, slice
<1>1. /\ us * K \in Nat
      /\ Sum(begun, us * K) \in 0 .. Max
      /\ Sum(begun, us * K) <= begun + us * K
      /\ Sum(wall, us * K) \in 0 .. Max
      /\ Sum(wall, us * K) <= wall + us * K
  BY Arithmetic DEF TypeOK
<1>2. ASSUME NEW u \in Us, Resume(u) PROVE IInv'
  <2>1. TypeOK' /\ Clock'
    BY <1>2, DeadlineAssumption DEF Resume, TypeOK, Clock
  <2>2. Stage' /\ Due' /\ Timely'
    BY <1>2 DEF Resume, Stage, Due, Timely
  <2> QED BY <2>1, <2>2
<1>3. CASE stamp
  <2>1. DEADLINE' = IF Limited(us) THEN Sum(wall, us * K) ELSE us
    BY <1>3 DEF stamp, Stamped, Stage
  <2>2. TypeOK' /\ Clock'
    BY <1>1, <1>3, <2>1, DeadlineAssumption DEF stamp, TypeOK, Clock
  <2>3. Stage'
    BY <1>3, <2>1 DEF stamp, TypeOK, Clock, Stage, Limited
  <2>4. Due' /\ Timely'
    BY <1>1, <1>3, DeadlineAssumption DEF stamp, TypeOK, Clock, Due, Timely, Limited
  <2> QED BY <2>2, <2>3, <2>4
<1>4. CASE StampPanics
  BY <1>4 DEF StampPanics, TypeOK, Clock, Stage, Due, Timely
<1>5. CASE pause
  BY <1>5, DeadlineAssumption DEF pause, TypeOK, Clock, Stage, Due, Timely, Limited
<1>6. CASE preempt
  <2>1. CASE wall >= DEADLINE
    BY <1>6, <2>1 DEF preempt, TypeOK, Clock, Stage, Due, Timely
  <2>2. CASE ~(wall >= DEADLINE)
    <3>1. TypeOK' /\ Clock' /\ Timely'
      BY <1>6, <2>2 DEF preempt, TypeOK, Clock, Timely, Limited
    <3>2. ~asked
      BY <1>6, <2>2 DEF preempt, TypeOK, Stage
    <3>3. Stage'
      BY <1>6, <2>2, <3>2 DEF preempt, Stage, Limited, Sum
    <3>4. Due'
      BY <1>1, <1>6, <2>2, <3>2 DEF preempt, TypeOK, Stage, Due, Limited
    <3> QED BY <3>1, <3>3, <3>4
  <2> QED BY <2>1, <2>2
<1>7. CASE Finish
  BY <1>7 DEF Finish, TypeOK, Clock, Stage, Due, Timely
<1>8. CASE Tick
  <2>1. TypeOK' /\ Clock'
    BY <1>8, DeadlineAssumption DEF Tick, TypeOK, Clock
  <2>2. Stage' /\ Due' /\ Timely'
    BY <1>8 DEF Tick, Stage, Due, Timely, Limited, Sum
  <2> QED BY <2>1, <2>2
<1>9. CASE Advance
  <2>1. TypeOK' /\ Clock'
    BY <1>9, DeadlineAssumption DEF Advance, TypeOK, Clock
  <2>2. Stage'
    BY <1>9 DEF Advance, TypeOK, Clock, Stage, Limited, Sum
  <2>3. Due' /\ Timely'
    BY <1>1, <1>9, DeadlineAssumption
    DEF Advance, TypeOK, Clock, Stage, Due, Timely, Limited
  <2> QED BY <2>1, <2>2, <2>3
<1>10. ASSUME NEW d \in 1 .. Slip, SetAhead(d) PROVE IInv'
  <2>1. TypeOK' /\ Clock'
    BY <1>10, DeadlineAssumption DEF SetAhead, TypeOK, Clock
  <2>2. Stage'
    BY <1>10 DEF SetAhead, TypeOK, Clock, Stage, Limited, Sum
  <2>3. Due' /\ Timely'
    BY <1>1, <1>10 DEF SetAhead, TypeOK, Due, Timely, Limited
  <2> QED BY <2>1, <2>2, <2>3
<1>11. ASSUME NEW d \in 1 .. Slip, SetBack(d) PROVE IInv'
  <2>1. TypeOK' /\ Clock'
    BY <1>11, DeadlineAssumption DEF SetBack, TypeOK, Clock
  <2>2. Stage'
    BY <1>11 DEF SetBack, TypeOK, Clock, Stage, Limited, Sum
  <2>3. Due' /\ Timely'
    BY <1>1, <1>11, DeadlineAssumption DEF SetBack, TypeOK, Due, Timely, Limited
  <2> QED BY <2>1, <2>2, <2>3
<1>12. CASE UNCHANGED vars
  BY <1>12 DEF vars, TypeOK, Clock, Stage, Due, Timely, Limited, Sum
<1> QED
  BY <1>2, <1>3, <1>4, <1>5, <1>6, <1>7, <1>8, <1>9, <1>10, <1>11, <1>12 DEF Next

(* Hence the invariant always holds.                                       *)
LEMMA Inductive == Spec => []IInv
<1> QED BY InitIInv, StepIInv, PTL DEF Spec

(* Every variable keeps its type; in particular DEADLINE stays a u64.      *)
THEOREM TypeCorrect == Spec => []TypeOK
<1>1. IInv => TypeOK
  BY DEF IInv
<1> QED BY <1>1, Inductive, PTL

(* Whatever the budget, a function runs past it for at most one interval   *)
(* of the timer, and as long as the wall clock was set back.               *)
THEOREM PreemptsInTime == Spec => []Timely
<1>1. IInv => Timely
  BY DEF IInv
<1> QED BY <1>1, Inductive, PTL

(* preempt() neither cuts a slice short nor takes a timeout for a yield.   *)
Ends == NeverEarly /\ YieldedTruthful

(* Every step keeps Ends.                                                  *)
LEMMA StepEnds ==
  ASSUME IInv, Ends, [Next]_vars
  PROVE  Ends'
<1> USE DEF Ends, InWidth, clocks, slice
<1>1. us * K \in Nat
  BY Arithmetic DEF IInv, TypeOK
<1>2. CASE preempt
  <2>1. CASE wall >= DEADLINE /\ ~asked
    <3>1. /\ start \in Epoch .. now /\ begun \in Epoch .. Horizon
          /\ now \in Epoch .. Horizon /\ wall \in Epoch .. Horizon
          /\ wall = begun + (now - start) + ahead - back
          /\ ahead \in Nat /\ back \in Nat
      BY <1>2, DeadlineAssumption DEF preempt, IInv, TypeOK, Stage, Clock
    <3>2. UNCHANGED <<now, wall, us, start, begun, ahead, back, asked>>
      BY <1>2 DEF preempt
    <3>3. ASSUME Limited(us), InWidth PROVE DEADLINE = begun + us * K
      BY <1>1, <1>2, <2>1, <3>1, <3>3, Arithmetic, DeadlineAssumption
      DEF preempt, IInv, TypeOK, Stage
    <3>4. ASSUME ~Limited(us) PROVE DEADLINE = us /\ us # 0 /\ us # Max
      <4>1. DEADLINE = us
        BY <1>2, <2>1, <3>4 DEF preempt, IInv, Stage
      <4>2. us # 0
        BY <3>4, DeadlineAssumption DEF Limited
      <4> QED BY <2>1, <3>1, <4>1, <4>2, DeadlineAssumption
    <3>5. NeverEarly'
      BY <1>1, <2>1, <3>1, <3>2, <3>3, <3>4, DeadlineAssumption
      DEF NeverEarly, Limited
    <3>6. YieldedTruthful'
      BY <1>1, <1>2, <2>1, <3>1, <3>2, <3>3, <3>4, DeadlineAssumption
      DEF preempt, YieldedTruthful, Limited
    <3> QED BY <3>5, <3>6
  <2>2. CASE wall >= DEADLINE /\ asked
    BY <1>2, <2>2 DEF preempt, IInv, Stage, NeverEarly, YieldedTruthful
  <2>3. CASE ~(wall >= DEADLINE)
    BY <1>2, <2>3 DEF preempt, NeverEarly, YieldedTruthful, Limited
  <2> QED BY <2>1, <2>2, <2>3
<1>3. ASSUME NEW u \in Us, Resume(u) PROVE Ends'
  BY <1>3 DEF Resume, NeverEarly, YieldedTruthful
<1>4. CASE stamp
  BY <1>4 DEF stamp, IInv, Stage, NeverEarly, YieldedTruthful
<1>5. CASE StampPanics \/ Finish \/ Tick \/ UNCHANGED vars
  BY <1>5
  DEF StampPanics, Finish, Tick, vars, NeverEarly, YieldedTruthful, Limited
<1>6. CASE pause
  BY <1>6 DEF pause, IInv, Stage, NeverEarly, YieldedTruthful
<1>7. CASE Advance
  BY <1>1, <1>7 DEF Advance, IInv, TypeOK, NeverEarly, YieldedTruthful, Limited
<1>8. ASSUME NEW d \in 1 .. Slip, SetAhead(d) \/ SetBack(d) PROVE Ends'
  BY <1>8
  DEF SetAhead, SetBack, IInv, Stage, NeverEarly, YieldedTruthful, Limited
<1> QED BY <1>2, <1>3, <1>4, <1>5, <1>6, <1>7, <1>8 DEF Next

(* Ends always holds.                                                      *)
LEMMA AlwaysEnds == Spec => []Ends
<1>1. Init => Ends
  BY DEF Init, Ends, NeverEarly, YieldedTruthful
<1>2. IInv /\ Ends /\ [Next]_vars => Ends'
  BY StepEnds
<1> QED BY <1>1, <1>2, Inductive, PTL DEF Spec

(* A function that did not yield is not preempted before it has had its    *)
(* budget on the wall clock, if the deadline fits the width, and never if  *)
(* the budget is max_value().                                              *)
THEOREM NotEarly == Spec => []NeverEarly
<1>1. Ends => NeverEarly
  BY DEF Ends
<1> QED BY <1>1, AlwaysEnds, PTL

(* If the deadline fits the width, yielded() is TRUE exactly of functions  *)
(* that called pause().                                                    *)
THEOREM YieldsTruthfully == Spec => []YieldedTruthful
<1>1. Ends => YieldedTruthful
  BY DEF Ends
<1> QED BY <1>1, AlwaysEnds, PTL

-----------------------------------------------------------------------------
(* The numbers implement the promise of module TimeSlice.                  *)

(* The budgets that callers pass do not reach the end of what a u64 can    *)
(* count, unless checked_mul() finds them unlimited.                       *)
FitsWidth == \A u \in Us : Limited(u) => Horizon + u * K <= Max

Class(u) == IF u = 0 THEN "zero" ELSE IF u = Max THEN "max" ELSE "us"
slicePhase == CASE phase = "set" -> "set"
                [] phase = "running" -> "on"
                [] OTHER -> IF outcome = "none" THEN "off" ELSE "over"
sliceCause == IF phase = "running"
                THEN IF asked THEN "asked"
                     ELSE IF wall >= DEADLINE THEN "expired" ELSE "none"
                ELSE CASE outcome = "yielded" -> "asked"
                       [] outcome = "preempted" -> "expired"
                       [] OTHER -> outcome

Slice == INSTANCE TimeSlice WITH
  phase <- slicePhase, budget <- Class(us), cause <- sliceCause

(* The budget that is in force, and DEADLINE after stamp().                *)
LEMMA Budgets ==
  ASSUME FitsWidth, IInv
  PROVE  /\ Class(us) \in {"zero", "us", "max"}
         /\ phase \in {"set", "running"} /\ Limited(us) =>
              /\ us * K \in Nat
              /\ \A w \in Epoch .. Horizon : Sum(w, us * K) = w + us * K
         /\ phase = "running" /\ ~asked => DEADLINE > 0
         /\ phase = "running" /\ ~asked /\ us = Max => wall < DEADLINE
<1>1. us * K \in Nat /\ us \in 0 .. Max /\ Max > 1 /\ Max * K > Max
  BY Arithmetic, DeadlineAssumption DEF IInv, TypeOK
<1>2. ASSUME phase \in {"set", "running"}, Limited(us), NEW w \in Epoch .. Horizon
      PROVE  Sum(w, us * K) = w + us * K
  <2>1. Horizon + us * K <= Max
    BY <1>2 DEF FitsWidth, IInv, Stage
  <2> QED BY <1>1, <1>2, <2>1, Arithmetic, DeadlineAssumption
<1>3. ASSUME phase = "running", ~asked PROVE DEADLINE > 0 /\ (us = Max => wall < DEADLINE)
  <2>1. DEADLINE = IF Limited(us) THEN begun + us * K ELSE us
    BY <1>2, <1>3 DEF IInv, Stage
  <2>2. begun \in Epoch .. Horizon /\ wall \in Epoch .. Horizon
    BY <1>3 DEF IInv, Stage, Clock
  <2>3. ~Limited(us) => us # 0
    BY DeadlineAssumption DEF Limited
  <2>4. us = Max => ~Limited(us)
    BY <1>1 DEF Limited
  <2> QED BY <1>1, <2>1, <2>2, <2>3, <2>4, DeadlineAssumption
<1> QED BY <1>1, <1>2, <1>3 DEF Class

(* What the mapping makes of each stage of the call.                       *)
SetView == slicePhase = "set" /\ sliceCause = "none"
OnView(why) == slicePhase = "on" /\ sliceCause = why
OverView(why) == slicePhase = "over" /\ sliceCause = why

(* Every step is a step of the slice, or changes nothing there.            *)
LEMMA StepSlice ==
  ASSUME FitsWidth, IInv, [Next]_vars
  PROVE  Slice!Next \/ UNCHANGED Slice!vars
<1> USE DEF clocks, slice
<1>1. /\ phase \in {"caller", "set", "running", "panicked"}
      /\ outcome \in {"none", "returned", "yielded", "preempted"}
      /\ phase \in {"set", "running"} => outcome = "none"
  BY DEF IInv, TypeOK, Stage
<1>a. phase = "running" => OnView(IF asked THEN "asked"
                                  ELSE IF wall >= DEADLINE THEN "expired" ELSE "none")
  BY DEF OnView, slicePhase, sliceCause
<1>b. phase' = "running" => OnView(IF asked THEN "asked"
                                   ELSE IF wall >= DEADLINE THEN "expired" ELSE "none")'
  BY DEF OnView, slicePhase, sliceCause
<1>c. us' = us => Class(us)' = Class(us)
  BY DEF Class
<1>2. ASSUME NEW u \in Us, Resume(u) PROVE Slice!Next
  <2>1. slicePhase \in {"off", "over"}
    BY <1>1, <1>2 DEF Resume, slicePhase
  <2>2. SetView'
    BY <1>2 DEF Resume, SetView, slicePhase, sliceCause
  <2>3. Class(us)' = Class(u) /\ Class(u) \in {"zero", "us", "max"}
    BY <1>2 DEF Resume, Class
  <2> QED BY <2>1, <2>2, <2>3 DEF Slice!Next, Slice!Set, SetView
<1>3. CASE stamp
  <2>1. DEADLINE' = IF Limited(us) THEN wall + us * K ELSE us
    BY <1>3, Budgets DEF stamp, Stamped, IInv, Stage, Clock
  <2>2. wall' = wall /\ us' = us /\ ~asked' /\ phase' = "running"
    BY <1>3 DEF stamp, IInv, Stage
  <2>3. us = 0 => wall' >= DEADLINE'
    BY <2>1, <2>2, DeadlineAssumption DEF Limited, IInv, TypeOK
  <2>4. us = Max => ~(wall' >= DEADLINE') /\ us # 0
    BY <2>1, <2>2, DeadlineAssumption DEF Limited, IInv, TypeOK, Clock
  <2>5. slicePhase = "set"
    BY <1>3 DEF stamp, slicePhase
  <2>6. OnView(IF wall >= DEADLINE THEN "expired" ELSE "none")'
    BY <1>b, <2>2 DEF OnView
  <2>7. sliceCause' \in CASE Class(us) = "zero" -> {"expired"}
                          [] Class(us) = "us" -> {"none", "expired"}
                          [] OTHER -> {"none"}
    BY <2>3, <2>4, <2>6 DEF Class, OnView
  <2> QED BY <1>c, <2>2, <2>5, <2>6, <2>7 DEF Slice!Stamp, Slice!Next, OnView
<1>4. CASE StampPanics
  <2>1. us \in Us /\ DEADLINE = us
    BY <1>4 DEF StampPanics, IInv, Stage
  <2>2. Horizon + us * K <= Max
    BY <1>4, <2>1 DEF StampPanics, FitsWidth
  <2>3. us * K \in Nat /\ wall \in Epoch .. Horizon
    BY Arithmetic DEF IInv, TypeOK, Clock
  <2> QED BY <1>4, <2>1, <2>2, <2>3, DeadlineAssumption DEF StampPanics
<1>5. CASE pause
  <2>1. slicePhase = "on" /\ OnView("asked")' /\ us' = us
    BY <1>a, <1>b, <1>5 DEF pause, OnView
  <2> QED BY <1>c, <2>1 DEF Slice!Pause, Slice!Next, OnView
<1>6. CASE preempt
  <2>1. CASE wall >= DEADLINE
    <3>1. outcome' = IF asked THEN "yielded" ELSE "preempted"
      BY <1>6, <2>1, Budgets, DeadlineAssumption DEF preempt, IInv, Stage
    <3>2. OnView(IF asked THEN "asked" ELSE "expired")
      BY <1>a, <1>6, <2>1 DEF preempt
    <3>3. OverView(IF asked THEN "asked" ELSE "expired")' /\ asked' = asked /\ us' = us
      BY <1>6, <2>1, <3>1 DEF preempt, OverView, slicePhase, sliceCause
    <3> QED BY <1>c, <3>2, <3>3 DEF Slice!Preempt, Slice!Next, OnView, OverView
  <2>2. CASE ~(wall >= DEADLINE)
    BY <1>6, <2>2 DEF preempt, Slice!vars, slicePhase, sliceCause, Class
  <2> QED BY <2>1, <2>2
<1>7. CASE Finish
  <2>1. slicePhase = "on" /\ sliceCause # "asked" /\ us' = us
    BY <1>a, <1>7 DEF Finish, OnView
  <2>2. OverView("returned")'
    BY <1>7 DEF Finish, OverView, slicePhase, sliceCause
  <2> QED BY <1>c, <2>1, <2>2 DEF Slice!Return, Slice!Next, OverView
<1>8. CASE Tick \/ UNCHANGED vars
  BY <1>8 DEF Tick, vars, Slice!vars, slicePhase, sliceCause, Class
<1>9. ASSUME UNCHANGED <<phase, us, DEADLINE, asked, outcome>>
      PROVE  Slice!Clock \/ UNCHANGED Slice!vars
  <2>1. CASE phase = "running" /\ ~asked /\ us # Max
    <3>1. Class(us) # "max"
      BY <2>1 DEF Class
    <3>2. /\ slicePhase = "on" /\ slicePhase' = "on"
          /\ sliceCause \in {"none", "expired"} /\ sliceCause' \in {"none", "expired"}
      BY <1>a, <1>b, <1>9, <2>1 DEF OnView
    <3> QED BY <1>c, <1>9, <3>1, <3>2 DEF Slice!Clock
  <2>2. CASE phase # "running" \/ asked
    BY <1>1, <1>9, <2>2 DEF Slice!vars, slicePhase, sliceCause, Class
  <2>3. CASE phase = "running" /\ ~asked /\ us = Max
    <3>1. wall \in Epoch .. Horizon /\ wall' \in Epoch .. Horizon
      BY StepIInv DEF IInv, Clock
    <3>2. DEADLINE = Max
      BY <2>3, Budgets, DeadlineAssumption DEF IInv, Stage, Limited
    <3> QED BY <1>9, <2>3, <3>1, <3>2, DeadlineAssumption
        DEF Slice!vars, slicePhase, sliceCause, Class
  <2> QED BY <2>1, <2>2, <2>3
<1>10. ASSUME NEW d \in 1 .. Slip, SetAhead(d) \/ SetBack(d)
       PROVE  Slice!Next \/ UNCHANGED Slice!vars
  BY <1>9, <1>10, Zenon DEF SetAhead, SetBack, Slice!Next
<1>11. CASE Advance
  BY <1>9, <1>11, Zenon DEF Advance, Slice!Next
<1> QED
  BY <1>2, <1>3, <1>4, <1>5, <1>6, <1>7, <1>8, <1>10, <1>11, Zenon DEF Next

(* As long as deadlines fit their width, the arithmetic of stamp() and the *)
(* comparison in preempt() keep the promise of module TimeSlice, wherever  *)
(* the wall clock is set: a slice is cut only after pause() or when the    *)
(* clock is past its deadline, never if the budget is max_value(), and the *)
(* caller learns which of the two it was.  (How the deadline relates to    *)
(* the budget is the subject of NotEarly and PreemptsInTime.)              *)
THEOREM ImplementsTimeSlice ==
  ASSUME FitsWidth
  PROVE  Spec => Slice!Spec
<1>1. Init => Slice!Init
  <2> SUFFICES ASSUME Init PROVE Slice!Init
    OBVIOUS
  <2>1. slicePhase = "off" /\ sliceCause = "none"
    BY DEF Init, slicePhase, sliceCause
  <2>2. Class(us) = "zero"
    BY DEF Init, Class
  <2> QED BY <2>1, <2>2 DEF Slice!Init
<1>2. IInv /\ [Next]_vars => [Slice!Next]_Slice!vars
  BY StepSlice
<1> QED BY <1>1, <1>2, Inductive, PTL DEF Spec, Slice!Spec
=============================================================================
