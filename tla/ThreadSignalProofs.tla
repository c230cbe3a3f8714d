------------------------- MODULE ThreadSignalProofs -------------------------
(***************************************************************************)
(* Proofs about module ThreadSignal, for any number of threads and signals.*)
(***************************************************************************)
EXTENDS ThreadSignal, TLAPS

(* Each signal that was built is in the pool or has one owner.             *)
Owned ==
  /\ free \subseteq 1 .. built
  /\ \A t \in Thread :
       signal[t] # None =>
         /\ signal[t] \in (1 .. built) \ free
         /\ \A u \in Thread \ {t} : signal[u] # signal[t]
  /\ \A s \in 1 .. built : s \in free \/ \E t \in Thread : signal[t] = s

(* Whatever can still tick or is pending has a handler.                    *)
Handled == stray \cup pending \subseteq handled

(* What a thread has, by its stage.                                        *)
Local(t) ==
  /\ timer[t] # None => timer[t] = signal[t] /\ pc[t] \in {"caller", "in", "delete"}
  /\ pc[t] \in {"ended", "refused"} => signal[t] = None
  /\ pc[t] \notin {"ended", "refused", "caller"} => signal[t] # None
  /\ pc[t] # "action" /\ signal[t] # None => signal[t] \in handled
  /\ pc[t] \in Teardown \cup {"timer", "caller"} /\ signal[t] # None =>
       signal[t] \in mask[t]
  /\ pc[t] = "in" => signal[t] \in callMask[t]

IInv == TypeOK /\ Owned /\ Handled /\ \A t \in Thread : Local(t)

(* Initially.                                                              *)
LEMMA InitIInv == Init => IInv
<1> SUFFICES ASSUME Init PROVE IInv
  OBVIOUS
<1> USE SignalAssumption DEF Init
<1>1. TypeOK
  BY DEF TypeOK, Signal
<1>2. Owned /\ Handled
  BY DEF Owned, Handled
<1>3. ASSUME NEW t \in Thread PROVE Local(t)
  BY DEF Local, Teardown
<1> QED BY <1>1, <1>2, <1>3 DEF IInv

(* AssignSignal.                                                           *)
LEMMA AssignSignalStep == ASSUME IInv, NEW t \in Thread, AssignSignal(t) PROVE IInv'
<1> USE SignalAssumption DEF IInv, AssignSignal, Goto, kernelVars
<1> DEFINE Given(s) ==
             /\ signal' = [signal EXCEPT ![t] = s]
             /\ s \notin 1 .. built \/ s \in free
             /\ built' \in 0 .. Limit
             /\ free' = free \ {s}
             /\ 1 .. built' = (1 .. built) \cup {s}
<1>1. PICK s \in Signal : Given(s)
  <2>1. ASSUME Build(t) PROVE built + 1 \in Signal /\ Given(built + 1)
    <3>1. /\ built \in 0 .. Limit /\ built' = built + 1 /\ built < Limit /\ Limit \in Nat
          /\ free = {} /\ free' = free
          /\ signal' = [signal EXCEPT ![t] = built + 1]
      BY <2>1 DEF Build, CanBuild, TypeOK
    <3>2. built + 1 \in Signal /\ built + 1 \notin 1 .. built /\ built' \in 0 .. Limit
      BY <3>1 DEF Signal
    <3>3. 1 .. built' = (1 .. built) \cup {built + 1}
      BY <3>1
    <3> QED BY <3>1, <3>2, <3>3
  <2>2. ASSUME NEW s \in free, Pop(t, s) PROVE s \in Signal /\ Given(s)
    BY <2>2 DEF Pop, TypeOK, Owned
  <2> QED BY <2>1, <2>2
<1> USE <1>1
<1>2. TypeOK'
  BY DEF TypeOK
<1>3. s # None /\ signal[t] = None /\ timer[t] = None
  BY DEF Unassigned, Local, Signal
<1>4. \A u \in Thread : signal[u] # s
  BY <1>3 DEF Owned
<1>5. Owned'
  BY <1>3, <1>4, SMTT(30) DEF TypeOK, Owned
<1>6. Handled'
  BY DEF Handled
<1>7. ASSUME NEW u \in Thread PROVE Local(u)'
  BY <1>3 DEF TypeOK, Local, Teardown
<1> QED BY <1>2, <1>5, <1>6, <1>7

(* NoSignalLeft.                                                           *)
LEMMA NoSignalLeftStep == ASSUME IInv, NEW t \in Thread, NoSignalLeft(t) PROVE IInv'
<1> USE SignalAssumption DEF IInv, NoSignalLeft, Unassigned, Goto, poolVars, kernelVars
<1>1. TypeOK'
  BY DEF TypeOK, Signal, Teardown
<1>2. Owned'
  BY DEF TypeOK, Signal, Owned, Local
<1>3. Handled'
  BY DEF TypeOK, Handled, Local, Teardown
<1>4. ASSUME NEW u \in Thread PROVE Local(u)'
  BY DEF TypeOK, Signal, Teardown, Owned, Local
<1> QED BY <1>1, <1>2, <1>3, <1>4

(* Register.                                                               *)
LEMMA RegisterStep == ASSUME IInv, NEW t \in Thread, Register(t) PROVE IInv'
<1> USE SignalAssumption DEF IInv, Register, Goto, poolVars, kernelVars
<1>1. TypeOK'
  BY ZenonT(60) DEF TypeOK, Signal, Teardown, Local
<1>2. Owned'
  BY DEF TypeOK, Signal, Owned, Local
<1>3. Handled'
  BY DEF TypeOK, Handled, Local, Teardown
<1>4. ASSUME NEW u \in Thread PROVE Local(u)'
  BY DEF TypeOK, Signal, Teardown, Owned, Local
<1> QED BY <1>1, <1>2, <1>3, <1>4

(* Block.                                                                  *)
LEMMA BlockStep == ASSUME IInv, NEW t \in Thread, Block(t) PROVE IInv'
<1> USE SignalAssumption DEF IInv, Block, Goto, poolVars, kernelVars
<1>1. TypeOK'
  BY DEF TypeOK, Signal, Teardown, Local
<1>2. Owned'
  BY DEF TypeOK, Signal, Owned, Local
<1>3. Handled'
  BY DEF TypeOK, Handled, Local, Teardown
<1>4. ASSUME NEW u \in Thread PROVE Local(u)'
  BY DEF TypeOK, Signal, Teardown, Owned, Local
<1> QED BY <1>1, <1>2, <1>3, <1>4

(* StartTimer.                                                             *)
LEMMA StartTimerStep == ASSUME IInv, NEW t \in Thread, StartTimer(t) PROVE IInv'
<1> USE SignalAssumption DEF IInv, StartTimer, Goto, poolVars, kernelVars
<1>1. TypeOK'
  BY DEF TypeOK, Signal, Teardown
<1>2. Owned'
  BY DEF TypeOK, Signal, Owned, Local
<1>3. Handled'
  BY DEF TypeOK, Handled, Local, Teardown
<1>4. ASSUME NEW u \in Thread PROVE Local(u)'
  BY DEF TypeOK, Signal, Teardown, Owned, Local
<1> QED BY <1>1, <1>2, <1>3, <1>4

(* NewFails.                                                               *)
LEMMA NewFailsStep == ASSUME IInv, NEW t \in Thread, NewFails(t) PROVE IInv'
<1> USE SignalAssumption DEF IInv, NewFails, poolVars, kernelVars
<1>1. TypeOK'
  BY DEF TypeOK, Signal, Teardown
<1>2. Owned'
  BY DEF TypeOK, Signal, Owned, Local
<1>3. Handled'
  BY DEF TypeOK, Handled, Local, Teardown
<1>4. ASSUME NEW u \in Thread PROVE Local(u)'
  BY DEF TypeOK, Signal, Teardown, Owned, Local
<1> QED BY <1>1, <1>2, <1>3, <1>4

(* Enter.                                                                  *)
LEMMA EnterStep == ASSUME IInv, NEW t \in Thread, Enter(t) PROVE IInv'
<1> USE SignalAssumption DEF IInv, Enter, Goto, poolVars, kernelVars
<1>1. TypeOK'
  BY DEF TypeOK, Signal, Teardown
<1>2. Owned'
  BY DEF TypeOK, Signal, Owned, Local
<1>3. Handled'
  BY DEF TypeOK, Handled, Local, Teardown
<1>4. ASSUME NEW u \in Thread PROVE Local(u)'
  BY DEF TypeOK, Signal, Teardown, Owned, Local
<1> QED BY <1>1, <1>2, <1>3, <1>4

(* Leave.                                                                  *)
LEMMA LeaveStep == ASSUME IInv, NEW t \in Thread, Leave(t) PROVE IInv'
<1> USE SignalAssumption DEF IInv, Leave, Goto, poolVars, kernelVars
<1>1. TypeOK'
  BY DEF TypeOK, Signal, Teardown
<1>2. Owned'
  BY DEF TypeOK, Signal, Owned, Local
<1>3. Handled'
  BY DEF TypeOK, Handled, Local, Teardown
<1>4. ASSUME NEW u \in Thread PROVE Local(u)'
  BY DEF TypeOK, Signal, Teardown, Owned, Local
<1> QED BY <1>1, <1>2, <1>3, <1>4

(* ThreadEnds.                                                             *)
LEMMA ThreadEndsStep == ASSUME IInv, NEW t \in Thread, ThreadEnds(t) PROVE IInv'
<1> USE SignalAssumption DEF IInv, ThreadEnds, Goto, poolVars, kernelVars
<1>1. TypeOK'
  BY DEF TypeOK, Signal, Teardown
<1>2. Owned'
  BY DEF TypeOK, Signal, Owned, Local
<1>3. Handled'
  BY DEF TypeOK, Handled, Local, Teardown
<1>4. ASSUME NEW u \in Thread PROVE Local(u)'
  BY DEF TypeOK, Signal, Teardown, Owned, Local
<1> QED BY <1>1, <1>2, <1>3, <1>4

(* EndsUnassigned.                                                         *)
LEMMA EndsUnassignedStep == ASSUME IInv, NEW t \in Thread, EndsUnassigned(t) PROVE IInv'
<1> USE SignalAssumption DEF IInv, EndsUnassigned, Unassigned, Goto, poolVars, kernelVars
<1>1. TypeOK'
  BY DEF TypeOK, Signal, Teardown
<1>2. Owned'
  BY DEF TypeOK, Signal, Owned, Local
<1>3. Handled'
  BY DEF TypeOK, Handled, Local, Teardown
<1>4. ASSUME NEW u \in Thread PROVE Local(u)'
  BY DEF TypeOK, Signal, Teardown, Owned, Local
<1> QED BY <1>1, <1>2, <1>3, <1>4

(* DeleteTimer.                                                            *)
LEMMA DeleteTimerStep == ASSUME IInv, NEW t \in Thread, DeleteTimer(t) PROVE IInv'
<1> USE SignalAssumption DEF IInv, DeleteTimer, Goto, poolVars, kernelVars
<1>1. TypeOK'
  BY DEF TypeOK, Signal, Teardown
<1>2. Owned'
  BY DEF TypeOK, Signal, Owned, Local
<1>3. Handled'
  BY DEF TypeOK, Handled, Local, Teardown
<1>4. ASSUME NEW u \in Thread PROVE Local(u)'
  BY DEF TypeOK, Signal, Teardown, Owned, Local
<1> QED BY <1>1, <1>2, <1>3, <1>4

(* DeleteFails.                                                            *)
LEMMA DeleteFailsStep == ASSUME IInv, NEW t \in Thread, DeleteFails(t) PROVE IInv'
<1> USE SignalAssumption DEF IInv, DeleteFails, Goto, poolVars, kernelVars
<1>1. TypeOK'
  BY ZenonT(60) DEF TypeOK, Signal, Teardown, Local
<1>2. Owned'
  BY DEF TypeOK, Signal, Owned, Local
<1>3. Handled'
  BY DEF TypeOK, Handled, Local, Teardown
<1>4. ASSUME NEW u \in Thread PROVE Local(u)'
  BY DEF TypeOK, Signal, Teardown, Owned, Local
<1> QED BY <1>1, <1>2, <1>3, <1>4

(* Unregister.                                                             *)
LEMMA UnregisterStep == ASSUME IInv, NEW t \in Thread, Unregister(t) PROVE IInv'
<1> USE SignalAssumption DEF IInv, Unregister, Goto, poolVars, kernelVars
<1>1. TypeOK'
  BY DEF TypeOK, Signal, Teardown
<1>2. Owned'
  BY DEF TypeOK, Signal, Owned, Local
<1>3. Handled'
  BY DEF TypeOK, Handled, Local, Teardown
<1>4. ASSUME NEW u \in Thread PROVE Local(u)'
  BY DEF TypeOK, Signal, Teardown, Owned, Local
<1> QED BY <1>1, <1>2, <1>3, <1>4

(* ReturnSignal.                                                           *)
LEMMA ReturnSignalStep == ASSUME IInv, NEW t \in Thread, ReturnSignal(t) PROVE IInv'
<1> USE SignalAssumption DEF IInv, ReturnSignal, Goto, poolVars, kernelVars
<1>1. TypeOK'
  BY ZenonT(60) DEF TypeOK, Signal, Teardown, Local
<1>2. Owned'
  BY ZenonT(60) DEF TypeOK, Signal, Owned, Local
<1>3. Handled'
  BY DEF TypeOK, Handled, Local, Teardown
<1>4. ASSUME NEW u \in Thread PROVE Local(u)'
  BY DEF TypeOK, Signal, Teardown, Owned, Local
<1> QED BY <1>1, <1>2, <1>3, <1>4

(* Spawn.                                                                  *)
LEMMA SpawnStep == ASSUME IInv, NEW t \in Thread, NEW parent \in Thread, Spawn(t, parent) PROVE IInv'
<1> USE SignalAssumption DEF IInv, Spawn, Goto, poolVars, kernelVars
<1>1. TypeOK'
  BY DEF TypeOK, Signal, Teardown
<1>2. Owned'
  BY DEF TypeOK, Signal, Owned, Local
<1>3. Handled'
  BY DEF TypeOK, Handled, Local, Teardown
<1>4. ASSUME NEW u \in Thread PROVE Local(u)'
  BY DEF TypeOK, Signal, Teardown, Owned, Local
<1> QED BY <1>1, <1>2, <1>3, <1>4

(* Tick.                                                                   *)
LEMMA TickStep == ASSUME IInv, NEW s \in Signal, Tick(s) PROVE IInv'
<1> USE SignalAssumption DEF IInv, Tick, poolVars, kernelVars
<1>1. TypeOK'
  BY DEF TypeOK, Signal, Teardown
<1>2. Owned'
  BY DEF TypeOK, Signal, Owned, Local
<1>3. Handled'
  BY DEF TypeOK, Handled, Local, Teardown, Signal
<1>4. ASSUME NEW u \in Thread PROVE Local(u)'
  BY DEF TypeOK, Signal, Teardown, Owned, Local
<1> QED BY <1>1, <1>2, <1>3, <1>4

(* PreemptIrrelevant.                                                      *)
LEMMA PreemptIrrelevantStep == ASSUME IInv, NEW t \in Thread, NEW s \in Signal, PreemptIrrelevant(t, s) PROVE IInv'
<1> USE SignalAssumption DEF IInv, PreemptIrrelevant, Delivery, Relevant, poolVars, kernelVars
<1>1. TypeOK'
  BY DEF TypeOK, Signal, Teardown
<1>2. Owned'
  BY DEF TypeOK, Signal, Owned, Local
<1>3. Handled'
  BY DEF TypeOK, Handled, Local, Teardown
<1>4. ASSUME NEW u \in Thread PROVE Local(u)'
  BY DEF TypeOK, Signal, Teardown, Owned, Local
<1> QED BY <1>1, <1>2, <1>3, <1>4

(* PreemptNotYet.                                                          *)
LEMMA PreemptNotYetStep == ASSUME IInv, NEW t \in Thread, NEW s \in Signal, PreemptNotYet(t, s) PROVE IInv'
<1> USE SignalAssumption DEF IInv, PreemptNotYet, Delivery, Relevant, poolVars, kernelVars
<1>1. TypeOK'
  BY DEF TypeOK, Signal, Teardown
<1>2. Owned'
  BY DEF TypeOK, Signal, Owned, Local
<1>3. Handled'
  BY DEF TypeOK, Handled, Local, Teardown
<1>4. ASSUME NEW u \in Thread PROVE Local(u)'
  BY DEF TypeOK, Signal, Teardown, Owned, Local
<1> QED BY <1>1, <1>2, <1>3, <1>4

(* PreemptPause.                                                           *)
LEMMA PreemptPauseStep == ASSUME IInv, NEW t \in Thread, NEW s \in Signal, PreemptPause(t, s) PROVE IInv'
<1> USE SignalAssumption DEF IInv, PreemptPause, Delivery, Relevant, poolVars, kernelVars
<1>1. TypeOK'
  BY DEF TypeOK, Signal, Teardown
<1>2. Owned'
  BY DEF TypeOK, Signal, Owned, Local
<1>3. Handled'
  BY DEF TypeOK, Handled, Local, Teardown
<1>4. ASSUME NEW u \in Thread PROVE Local(u)'
  BY DEF TypeOK, Signal, Teardown, Owned, Local
<1> QED BY <1>1, <1>2, <1>3, <1>4

(* Every step preserves the invariant.                                     *)
LEMMA NextIInv == IInv /\ [Next]_vars => IInv'
<1> SUFFICES ASSUME IInv, [Next]_vars PROVE IInv'
  OBVIOUS
<1>1. CASE UNCHANGED vars
  BY <1>1 DEF IInv, TypeOK, Owned, Handled, Local, vars, poolVars, kernelVars
<1>2. ASSUME NEW t \in Thread, Setup(t) PROVE IInv'
  BY <1>2, AssignSignalStep, NoSignalLeftStep, RegisterStep, BlockStep,
     StartTimerStep, NewFailsStep
  DEF Setup
<1>3. ASSUME NEW t \in Thread, Call(t) \/ End(t) PROVE IInv'
  BY <1>3, EnterStep, LeaveStep, ThreadEndsStep, EndsUnassignedStep,
     DeleteTimerStep, DeleteFailsStep, UnregisterStep, ReturnSignalStep
  DEF Call, End
<1>4. ASSUME NEW t \in Thread, NEW parent \in Thread, Spawn(t, parent) PROVE IInv'
  BY <1>4, SpawnStep
<1>5. ASSUME NEW s \in Signal, Tick(s) PROVE IInv'
  BY <1>5, TickStep
<1>6. ASSUME NEW t \in Thread, NEW s \in Signal, Deliver(t, s) PROVE IInv'
  BY <1>6, PreemptIrrelevantStep, PreemptNotYetStep, PreemptPauseStep
  DEF Deliver
<1> QED BY <1>1, <1>2, <1>3, <1>4, <1>5, <1>6 DEF Next

(* The invariant holds throughout.                                         *)
THEOREM AlwaysIInv == Spec => []IInv
BY InitIInv, NextIInv, PTL DEF Spec

-----------------------------------------------------------------------------
(* The types are right; in particular no signal past the end of the        *)
(* NOTIFICATION_SIGNALS is built.                                          *)
THEOREM TypeCorrect == Spec => []TypeOK
BY AlwaysIInv, PTL DEF IInv

(* No tick kills the process.                                              *)
THEOREM ProcessNeverKilled == Spec => []NeverKilled
<1>1. IInv => NeverKilled
  BY DEF IInv, Handled, NeverKilled
<1> QED BY <1>1, AlwaysIInv, PTL

(* A ticking timer has an owner with exclusive use of its signal.          *)
THEOREM TimersAreOwned == Spec => []TimerOwned
<1>1. IInv => TimerOwned
  BY DEF IInv, TypeOK, Owned, Local, TimerOwned
<1> QED BY <1>1, AlwaysIInv, PTL

(* No thread handles its own tick while it is being destroyed.             *)
THEOREM AlwaysShielded == Spec => []ShieldedToTheEnd
<1>1. IInv => ShieldedToTheEnd
  BY DEF IInv, Local, Teardown, ShieldedToTheEnd
<1> QED BY <1>1, AlwaysIInv, PTL

(* A thread is refused a signal only if all are in use.                    *)
THEOREM RefusalsJustified == Spec => RefusedOnlyIfExhausted
<1> DEFINE Stage == {"ended", "caller", "action", "mask", "timer", "in"} \cup Teardown
<1> DEFINE Justified ==
      \A t \in Thread :
        pc[t] # "refused" /\ pc'[t] = "refused" =>
          \A s \in Signal : \E u \in Thread : signal[u] = s /\ pc[u] # "ended"
<1>1. ASSUME IInv, Next PROVE Justified
  <2> SUFFICES ASSUME NEW t \in Thread, pc[t] # "refused", pc'[t] = "refused"
               PROVE  \A s \in Signal : \E u \in Thread : signal[u] = s /\ pc[u] # "ended"
    OBVIOUS
  <2>1. free = {} /\ ~CanBuild
    <3>1. PICK u \in Thread : NoSignalLeft(u) \/ (pc' = pc)
                              \/ \E w \in Stage : pc' = [pc EXCEPT ![u] = w]
      BY <1>1 DEF Next, Setup, Call, End, Deliver, AssignSignal, Register, Block,
        StartTimer, NewFails, Enter, Leave, ThreadEnds, EndsUnassigned, DeleteTimer,
        DeleteFails, Unregister, ReturnSignal, Spawn, Tick, PreemptIrrelevant,
        PreemptNotYet, PreemptPause, Goto, Teardown
    <3>2. NoSignalLeft(u)
      BY <1>1, <3>1 DEF IInv, TypeOK, Teardown
    <3> QED BY <3>2, SMTT(30) DEF NoSignalLeft
  <2>2. built = Limit
    BY <1>1, <2>1, SignalAssumption DEF IInv, TypeOK, CanBuild
  <2>3. \A s \in Signal : \E u \in Thread : signal[u] = s
    BY <1>1, <2>1, <2>2 DEF IInv, Owned, Signal
  <2>4. \A u \in Thread : signal[u] \in Signal => pc[u] # "ended"
    BY <1>1, SignalAssumption DEF IInv, Local, Signal
  <2> QED BY <2>3, <2>4
<1>2. IInv /\ [Next]_vars => [Justified]_vars
  BY <1>1
<1> QED BY <1>2, AlwaysIInv, PTL DEF Spec, RefusedOnlyIfExhausted

-----------------------------------------------------------------------------
(* SIGNALS as module Allocator sees it.                                    *)

(* Who holds a signal.                                                     *)
HolderRight ==
  \A s \in Signal :
    /\ \A t \in Thread : signal[t] = s => holder[s] = t
    /\ (\A t \in Thread : signal[t] # s) => holder[s] = Nobody

(* The holder mapping says so.                                             *)
LEMMA HolderIs == IInv => HolderRight
<1> SUFFICES ASSUME IInv, NEW s \in Signal PROVE HolderRight!(s)
  BY DEF HolderRight
<1>1. ASSUME NEW t \in Thread, signal[t] = s PROVE holder[s] = t
  <2>1. \A u \in Thread : signal[u] = s => u = t
    BY <1>1, SignalAssumption DEF IInv, Owned, Signal
  <2>2. (CHOOSE u \in Thread : signal[u] = s) = t
    BY <1>1, <2>1
  <2> QED BY <1>1, <2>2 DEF holder
<1>2. ASSUME \A t \in Thread : signal[t] # s PROVE holder[s] = Nobody
  BY <1>2 DEF holder
<1> QED BY <1>1, <1>2

(* Assigning a signal to a thread, or taking it back, changes its holder   *)
(* and no other.                                                           *)
LEMMA OnlyHolder ==
  ASSUME HolderRight, HolderRight', NEW s \in Signal,
         \A r \in Signal \ {s}, t \in Thread : signal'[t] = r <=> signal[t] = r
  PROVE  holder' = [holder EXCEPT ![s] = holder'[s]]
<1>1. ASSUME NEW r \in Signal \ {s} PROVE holder'[r] = holder[r]
  <2>1. ASSUME NEW t \in Thread, signal[t] = r PROVE holder'[r] = holder[r]
    <3>1. signal'[t] = r
      BY <2>1
    <3> QED BY <2>1, <3>1 DEF HolderRight
  <2>2. ASSUME \A t \in Thread : signal[t] # r PROVE holder'[r] = holder[r]
    BY <2>2 DEF HolderRight
  <2> QED BY <2>1, <2>2
<1>2. holder = [r \in Signal |-> holder[r]] /\ holder' = [r \in Signal |-> holder'[r]]
  BY DEF holder, Signal
<1> HIDE DEF holder
<1> QED BY <1>1, <1>2

(* assign_signal() is an Acquire or a Make.                                *)
LEMMA AssignAlloc ==
  ASSUME IInv, HolderRight, HolderRight', NEW t \in Thread, AssignSignal(t)
  PROVE  SIGNALS!Next
<1> USE SignalAssumption DEF AssignSignal, Unassigned
<1>1. ASSUME Build(t) PROVE SIGNALS!Next
  <2>1. built + 1 \in Signal /\ built \in Nat /\ free = {}
    BY <1>1 DEF Build, CanBuild, IInv, TypeOK, Signal
  <2>2. signal'[t] = built + 1 /\ \A r \in Signal \ {built + 1}, u \in Thread :
                                    signal'[u] = r <=> signal[u] = r
    BY <1>1 DEF Build, IInv, TypeOK, Signal
  <2>3. holder' = [holder EXCEPT ![built + 1] = t]
    <3>1. holder'[built + 1] = t
      BY <2>1, <2>2, ZenonT(60) DEF HolderRight
    <3> QED BY <2>1, <2>2, <3>1, OnlyHolder, Zenon
  <2>4. \A s \in 1 .. built : holder[s] \in Thread
    BY <2>1 DEF IInv, TypeOK, Owned, HolderRight, Signal
  <2>5. SIGNALS!Make(t, built + 1)
    BY <1>1, <2>1, <2>3, <2>4 DEF SIGNALS!Make, Build
  <2> QED BY <2>1, <2>5 DEF SIGNALS!Next
<1>2. ASSUME NEW s \in free, Pop(t, s) PROVE SIGNALS!Next
  <2>1. s \in Signal /\ s \in 1 .. built
    BY SMTT(30) DEF IInv, TypeOK, Owned
  <2>2. \A u \in Thread : signal[u] # s
    BY <2>1 DEF IInv, Owned, Signal
  <2>3. signal'[t] = s /\ \A r \in Signal \ {s}, u \in Thread :
                            signal'[u] = r <=> signal[u] = r
    BY <1>2 DEF Pop, IInv, TypeOK, Signal
  <2>4. holder' = [holder EXCEPT ![s] = t] /\ holder[s] = Nobody
    <3>1. holder'[s] = t /\ holder[s] = Nobody
      BY <2>1, <2>2, <2>3, Zenon DEF HolderRight
    <3> QED BY <2>1, <2>3, <3>1, OnlyHolder, Zenon
  <2>5. SIGNALS!Acquire(t, s)
    BY <1>2, <2>1, <2>4 DEF SIGNALS!Acquire, Pop
  <2> QED BY <2>1, <2>5 DEF SIGNALS!Next
<1> QED BY <1>1, <1>2

(* The drop of the PreemptionSignal's field is a Release.                  *)
LEMMA ReturnAlloc ==
  ASSUME IInv, HolderRight, HolderRight', NEW t \in Thread, ReturnSignal(t)
  PROVE  SIGNALS!Next
<1> USE SignalAssumption DEF ReturnSignal
<1> DEFINE s == signal[t]
<1>1. s \in Signal /\ s \in 1 .. built
  BY DEF IInv, TypeOK, Owned, Local, Goto
<1>2. \A u \in Thread : signal'[u] # s
  BY <1>1 DEF IInv, TypeOK, Owned, Signal
<1>3. \A r \in Signal \ {s}, u \in Thread : signal'[u] = r <=> signal[u] = r
  BY DEF IInv, TypeOK, Signal
<1>4. holder[s] = t /\ holder'[s] = Nobody
  BY <1>1, <1>2, Zenon DEF HolderRight
<1> HIDE DEF s
<1>5. holder' = [holder EXCEPT ![s] = Nobody]
  BY <1>1, <1>3, <1>4, OnlyHolder, Zenon
<1>6. SIGNALS!Release(t, s)
  BY <1>1, <1>4, <1>5 DEF SIGNALS!Release
<1> QED BY <1>1, <1>6 DEF SIGNALS!Next

(* No other step changes who holds a signal.                               *)
LEMMA StepAlloc ==
  ASSUME IInv, HolderRight, HolderRight', [Next]_vars
  PROVE  [SIGNALS!Next]_SIGNALS!vars
<1>1. \/ \E t \in Thread : AssignSignal(t) \/ ReturnSignal(t)
      \/ UNCHANGED <<signal, built>>
  BY DEF Next, vars, poolVars, Setup, Call, End, Deliver, NoSignalLeft, Register,
    Block, StartTimer, NewFails, Enter, Leave, ThreadEnds, EndsUnassigned,
    DeleteTimer, DeleteFails, Unregister, Spawn, Tick, PreemptIrrelevant,
    PreemptNotYet, PreemptPause
<1>2. CASE UNCHANGED <<signal, built>>
  BY <1>2 DEF SIGNALS!vars, holder
<1> QED BY <1>1, <1>2, AssignAlloc, ReturnAlloc, SMTT(30)

(* Threads that come and go use SIGNALS as the clients of an allocator.    *)
THEOREM ImplementsAllocator == Spec => AllocSpec
<1>1. Init => SIGNALS!Init
  BY SignalAssumption DEF Init, SIGNALS!Init, SIGNALS!InitWith, holder, Signal
<1> QED
  BY <1>1, StepAlloc, HolderIs, AlwaysIInv, PTL DEF Spec, AllocSpec, SIGNALS!Spec
=============================================================================
