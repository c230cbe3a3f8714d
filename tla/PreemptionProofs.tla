-------------------------- MODULE PreemptionProofs --------------------------
(***************************************************************************)
(* Theorems about Preemption, for any number of threads and slots and for  *)
(* any way of moving preemptible functions between threads.                *)
(***************************************************************************)
EXTENDS PreemptionInv

(* The invariant holds initially, and every step preserves it.             *)

(* The invariant holds initially.                                          *)
LEMMA InitIInv == Init => IInv
<1> SUFFICES ASSUME Init PROVE IInv
  OBVIOUS
<1> USE DEF Init
<1>1. TypeOK
  BY Zenon DEF TypeOK, Task, Default, Locations, Budget, Deadline
<1>2. Exclusive /\ Threads
  BY Zenon DEF Exclusive, Threads, ThreadInv
<1>3. Slots
  BY Zenon DEF Slots, Parked, Default
<1>4. Stages
  BY ConstantsDistinct, Zenon DEF Stages
<1> QED BY <1>1, <1>2, <1>3, <1>4, Zenon DEF IInv

(* Every step of the system preserves the invariant.                       *)
LEMMA StepIInv == IInv /\ [Next]_vars => IInv'
<1> SUFFICES ASSUME IInv, [Next]_vars PROVE IInv'
  OBVIOUS
<1>1. CASE UNCHANGED vars
  <2> USE <1>1 DEF vars, lingerVars, tlsVars, stackVars, threadVars,
        kernelVars, ghostVars
  <2>1. TypeOK' /\ Exclusive' /\ Threads' /\ Slots'
    BY SMTT(30) DEF IInv, TypeOK, Exclusive, Threads, ThreadInv, Slots, Idle, Parked,
         StackInv
  <2>2. Stages'
    BY SMTT(30) DEF IInv, Stages, StageInv, SetupInv, Parked, SwitchInv, InInv, BackInv,
         StackInv
  <2> QED BY <2>1, <2>2, Zenon DEF IInv
<1>2. ASSUME NEW t \in Thread, NEW c \in Cont, Caller(t, c) PROVE IInv'
  BY <1>2, LaunchStep, ResumeStep, DropLingerStep, Zenon DEF Caller
<1>3. ASSUME NEW t \in Thread, NEW c \in Cont, Function(t, c) PROVE IInv'
  BY <1>3, CallSharedStep, CallPauseStep, FinishStep, Zenon DEF Function
<1>4. ASSUME NEW t \in Thread, NEW c \in Cont, Proceed(t, c) PROVE IInv'
  BY <1>4, SetupThreadStep, BootstrapStep, SwitchStep, SwitchBackStep, ScheduleStep,
     ReturnSharedStep, ResumePreemptionStep, DeferPreemptionStep, DisableGroupStep,
     DisableBlockStep, DisableBorrowStep, DisableReplaceStep, DisableStoreStep, Zenon
  DEF Proceed
<1>5. ASSUME NEW t \in Thread, NEW s \in Thread, Preempt(t, s) PROVE IInv'
  BY <1>5, PreemptPanicStep, PreemptIrrelevantStep, PreemptDeferStep,
     PreemptNotYetStep, PreemptPauseStep, Zenon
  DEF Preempt
<1> QED BY <1>1, <1>2, <1>3, <1>4, <1>5, TickStep, ExpireStep, Zenon DEF Next, Step

(* Hence the invariant always holds.                                       *)
LEMMA Inductive == Spec => []IInv
<1> QED BY InitIInv, StepIInv, PTL DEF Spec

-----------------------------------------------------------------------------
(* What follows from it.                                                   *)

(* Every variable keeps its type.                                          *)
THEOREM TypeCorrect == Spec => []TypeOK
<1>1. IInv => TypeOK
  BY Zenon DEF IInv
<1> QED BY <1>1, Inductive, PTL

(* The caller and resume() itself are never preempted: outside a           *)
(* preemptible function the thread's signal is masked.                     *)
THEOREM CallerIsShielded == Spec => []CallerShielded
<1>1. IInv => CallerShielded
  BY Zenon DEF IInv, Threads, ThreadInv, CallerShielded
<1> QED BY <1>1, Inductive, PTL

(* preempt() never unfurls a missing checkpoint nor compares the clock     *)
(* with a DEADLINE that is not a point in time.                            *)
THEOREM HandlerIsSafe == Spec => []HandlerSafe
<1>1. IInv => HandlerSafe
  <2> SUFFICES ASSUME IInv, NEW t \in Thread, t \notin mask[t], Relevant(t, t),
                      is_preemptible(t)
               PROVE  /\ TASK[fs[t]].checkpoint
                      /\ ~TASK[fs[t]].errno
                      /\ DEADLINE[fs[t]] # "us"
                      /\ DEADLINE[fs[t]] = "zero" => asked[fs[t]]
    BY Zenon DEF HandlerSafe
  <2>1. PICK c \in Cont : fs[t] = c
    BY Zenon DEF IInv, TypeOK, Relevant
  <2>2. ThreadInv(t) /\ StageInv(t, c)
    BY <2>1, Installed, Zenon
  <2>3. pc[t] = "in"
    BY <2>2, Zenon DEF ThreadInv, is_preemptible
  <2> QED BY <2>1, <2>2, <2>3, ConstantsDistinct, Zenon
      DEF StageInv, InInv, is_preemptible, Paused
<1> QED BY <1>1, Inductive, PTL

(* A deferred preemption always has its signal masked.                     *)
THEOREM DeferredIsMasked == Spec => []DeferredMasked
<1>1. IInv => DeferredMasked
  <2> SUFFICES ASSUME IInv, NEW t \in Thread, fs[t] # None, DEFERRED[fs[t]]
               PROVE  t \in mask[t]
    BY Zenon DEF DeferredMasked
  <2>1. PICK c \in Cont : fs[t] = c
    BY Zenon DEF IInv, TypeOK
  <2>2. TypeOK /\ ThreadInv(t) /\ StageInv(t, c)
    BY <2>1, Installed, Zenon
  <2> QED BY <2>1, <2>2, Zenon
      DEF TypeOK, ThreadInv, StageInv, SetupInv, Parked, SwitchInv, InInv,
          BackInv
<1> QED BY <1>1, Inductive, PTL

(* A preemptible function never runs with its own signal masked.           *)
THEOREM NoPreemptionLost == Spec => []NoLostPreemption
<1>1. IInv => NoLostPreemption
  <2> SUFFICES ASSUME IInv, NEW t \in Thread, pc[t] = "in", at[fs[t]] = "fun"
               PROVE  t \notin mask[t] /\ SIGNAL[fs[t]] = t
    BY Zenon DEF NoLostPreemption
  <2>1. PICK c \in Cont : fs[t] = c
    BY Zenon DEF IInv, TypeOK, Threads, ThreadInv
  <2> QED BY <2>1, InFunction, Zenon DEF InInv
<1> QED BY <1>1, Inductive, PTL

(* No SIGNAL refers to a thread that is not executing under its TCB.       *)
THEOREM NoSignalDangles == Spec => []NoDanglingSignal
<1>1. IInv => NoDanglingSignal
  <2> SUFFICES ASSUME IInv, NEW c \in Cont, SIGNAL[c] # None
               PROVE  fs[SIGNAL[c]] = c
    BY Zenon DEF NoDanglingSignal
  <2>1. ~Idle(c)
    BY Zenon DEF IInv, Slots, Parked
  <2>2. PICK t \in Thread : fs[t] = c
    BY <2>1, Zenon DEF Idle
  <2>3. TypeOK /\ ThreadInv(t) /\ StageInv(t, c)
    BY <2>2, Installed, Zenon
  <2>4. SIGNAL[c] = t
    BY <2>2, <2>3, ConstantsDistinct, Zenon
    DEF TypeOK, ThreadInv, StageInv, SetupInv, Parked, SwitchInv, InInv, BackInv
  <2> QED BY <2>2, <2>4, Zenon
<1> QED BY <1>1, Inductive, PTL

(* A function that has called pause() executes nothing more of itself.     *)
THEOREM PauseAlwaysSwitches == Spec => []PauseSwitches
<1>1. IInv => PauseSwitches
  <2> SUFFICES ASSUME IInv, NEW t \in Thread, pc[t] = "in", at[fs[t]] = "fun",
                      asked[fs[t]]
               PROVE  t \in pend[t] \ mask[t]
    BY Zenon DEF PauseSwitches
  <2>1. PICK c \in Cont : fs[t] = c
    BY Zenon DEF IInv, TypeOK, Threads, ThreadInv
  <2> QED BY <2>1, InFunction, Zenon DEF InInv
<1> QED BY <1>1, Inductive, PTL

(* A virtual TCB that is not installed has clean thread-local variables.   *)
THEOREM TlsIsClean == Spec => []CleanTls
<1>1. IInv => CleanTls
  BY Zenon DEF IInv, Slots, Parked, CleanTls
<1> QED BY <1>1, Inductive, PTL

(* Dropping a Continuation reinitialises its libset exactly when needed.   *)
THEOREM RenewsExactly == Spec => []RenewExactly
<1>1. IInv => RenewExactly
  BY Zenon DEF IInv, Slots, Parked, RenewExactly
<1> QED BY <1>1, Inductive, PTL

-----------------------------------------------------------------------------
(* Refinement: each step is a step of the interface, or changes nothing a  *)
(* caller can see.                                                         *)

(* A step that leaves the mapped variables alone changes nothing there.    *)
LEMMA Invisible ==
  ASSUME UNCHANGED <<linger, functional, task, fs, asked>>
  PROVE  UNCHANGED Api!vars
BY Zenon DEF Api!vars, apiState, apiOutcome, apiYielded

(* Launch is a step of the interface, or changes nothing there.            *)
LEMMA LaunchApi ==
  ASSUME IInv, NEW t \in Thread, NEW c \in Cont, NEW u \in Us, Launch(t, c, u)
  PROVE  Api!Launch(t, c)
<1> USE DEF Launch, lingerVars, tlsVars, stackVars, threadVars, kernelVars,
      ghostVars
<1>1. TypeOK /\ ThreadInv(t) /\ Idle(c) /\ Parked(c) /\ fs[t] = None
  BY Calling, Zenon
<1>2. fs' \in {fs, [fs EXCEPT ![t] = c]}
  OBVIOUS
<1>3. apiState[c] = "none" /\ apiState' = [apiState EXCEPT ![c] = "fresh"]
  BY <1>1, Zenon DEF TypeOK, apiState, Default
<1>4. UNCHANGED <<apiOutcome, apiYielded, asked>>
  BY <1>1, SMTT(30) DEF TypeOK, Parked, apiOutcome, apiYielded, Default
<1> QED BY <1>1, <1>2, <1>3, <1>4, Zenon DEF Api!Launch

(* Resume is a step of the interface, or changes nothing there.            *)
LEMMA ResumeApi ==
  ASSUME IInv, NEW t \in Thread, NEW c \in Cont, NEW u \in Us, Resume(t, c, u)
  PROVE  Api!Start(t, c)
<1> USE DEF Resume, lingerVars, tlsVars, stackVars, threadVars, kernelVars,
      ghostVars
<1>1. TypeOK /\ ThreadInv(t) /\ Idle(c) /\ Parked(c) /\ fs[t] = None
  BY Calling, Zenon
<1>2. apiState[c] \in {"fresh", "paused"}
  BY Zenon DEF apiState
<1>3. UNCHANGED <<apiState, apiOutcome, apiYielded>>
  BY Zenon DEF apiState, apiOutcome, apiYielded
<1> QED BY <1>1, <1>2, <1>3, Zenon DEF Api!Start, Api!Idle, Idle

(* DropLinger is a step of the interface, or changes nothing there.        *)
LEMMA DropLingerApi ==
  ASSUME IInv, NEW t \in Thread, NEW c \in Cont, DropLinger(t, c)
  PROVE  Api!Cancel(c)
<1> USE DEF DropLinger, lingerVars, tlsVars, stackVars, threadVars, kernelVars,
      ghostVars
<1>1. TypeOK /\ ThreadInv(t) /\ Idle(c) /\ Parked(c) /\ fs[t] = None
  BY Calling, Zenon
<1>2. apiState[c] # "none" /\ apiState' = [apiState EXCEPT ![c] = "none"]
  BY <1>1, Zenon DEF TypeOK, apiState
<1>3. apiOutcome' = [apiOutcome EXCEPT ![c] = "none"]
  BY <1>1, Zenon DEF TypeOK, apiOutcome
<1>4. apiYielded' = [apiYielded EXCEPT ![c] = FALSE]
  BY <1>1, Zenon DEF TypeOK, apiYielded
<1> QED BY <1>1, <1>2, <1>3, <1>4, Zenon DEF Api!Cancel, Api!Idle, Idle

(* CallPause is a step of the interface, or changes nothing there.         *)
LEMMA CallPauseApi ==
  ASSUME IInv, NEW t \in Thread, NEW c \in Cont, CallPause(t, c)
  PROVE  Api!Ask(t, c)
<1> USE DEF CallPause, Running, Quiet, lingerVars, tlsVars, stackVars,
      threadVars, kernelVars, ghostVars
<1>1. TypeOK /\ InInv(t, c)
  BY InFunction, Zenon
<1>2. ~asked[c] /\ apiOutcome[c] = "none"
  BY <1>1, Zenon DEF InInv, StackInv, After, apiOutcome
<1>3. UNCHANGED <<apiState, apiOutcome, apiYielded>>
  BY Zenon DEF apiState, apiOutcome, apiYielded
<1> QED BY <1>2, <1>3, Zenon DEF Api!Ask

(* Finish is a step of the interface, or changes nothing there.            *)
LEMMA FinishApi ==
  ASSUME IInv, NEW t \in Thread, NEW c \in Cont, NEW r \in {"Ok", "Err"},
         Finish(t, c, r)
  PROVE  Api!Return(t, c)
<1> USE DEF Finish, Running, Quiet, lingerVars, tlsVars, stackVars, threadVars,
      kernelVars, ghostVars
<1>1. TypeOK /\ InInv(t, c)
  BY InFunction, Zenon
<1>2. ~asked[c] /\ apiOutcome[c] = "none"
  BY <1>1, Zenon DEF InInv, StackInv, After, apiOutcome
<1>3. apiOutcome' = [apiOutcome EXCEPT ![c] = r]
  BY <1>1, Zenon DEF TypeOK, apiOutcome
<1>4. UNCHANGED <<apiState, apiYielded>>
  BY Zenon DEF apiState, apiYielded
<1> QED BY <1>2, <1>3, <1>4, Zenon DEF Api!Return

(* SwitchBack is a step of the interface, or changes nothing there.        *)
LEMMA SwitchBackApi ==
  ASSUME IInv, NEW t \in Thread, NEW c \in Cont, SwitchBack(t, c)
  PROVE  Api!Pause(t, c) \/ Api!Complete(t, c)
<1> USE DEF SwitchBack, Resuming, lingerVars, tlsVars, stackVars, threadVars,
      kernelVars, ghostVars
<1>1. TypeOK /\ linger[c] = "Continuation" /\ BackInv(t, c)
  BY Installed, Zenon DEF StageInv
<1>2. CASE TASK[c].errno
  <2>1. task' = [task EXCEPT ![c] = TASK[c]] /\ UNCHANGED <<linger, functional>>
    BY <1>2, Zenon
  <2>2. apiState' = [apiState EXCEPT ![c] = "paused"]
    BY <1>1, <1>2, <2>1, Zenon DEF TypeOK, apiState
  <2>3. apiYielded' = [apiYielded EXCEPT ![c] = asked[c]]
    BY <1>1, <1>2, <2>1, Zenon DEF TypeOK, Task, BackInv, apiYielded
  <2>4. UNCHANGED apiOutcome
    BY <2>1, Zenon DEF apiOutcome
  <2> QED BY <2>2, <2>3, <2>4, Zenon DEF Api!Pause
<1>3. CASE ~TASK[c].errno
  <2>1. ~asked[c] /\ apiOutcome[c] = functional[c] /\ functional[c] \in {"Ok", "Err"}
    BY <1>1, <1>3, Zenon DEF BackInv, apiOutcome
  <2>2. apiState' = [apiState EXCEPT ![c] =
                       IF apiOutcome[c] = "Ok" THEN "completion" ELSE "poison"]
    <3>1. /\ \A d \in Cont \ {c} : linger'[d] = linger[d] /\ task'[d] = task[d]
          /\ linger'[c] = IF functional[c] = "Ok" THEN "Completion" ELSE "Poison"
      BY <1>1, <1>3, SMTT(30) DEF TypeOK
    <3>2. \A d \in Cont \ {c} : apiState'[d] = apiState[d]
      BY ONLY <3>1, Zenon DEF apiState
    <3>3. apiState'[c] = IF apiOutcome[c] = "Ok" THEN "completion" ELSE "poison"
      BY ONLY <2>1, <3>1, c \in Cont, Zenon DEF apiState
    <3>4. /\ apiState = [d \in Cont |-> apiState[d]]
          /\ apiState' = [d \in Cont |-> apiState'[d]]
      BY ONLY TRUE, Zenon DEF apiState
    <3> QED BY ONLY <3>2, <3>3, <3>4, c \in Cont, Zenon
  <2>3. apiOutcome' = [apiOutcome EXCEPT ![c] = "none"]
    BY <1>1, <1>3, Zenon DEF TypeOK, apiOutcome
  <2>4. apiYielded' = [apiYielded EXCEPT ![c] = FALSE]
    BY <1>1, <1>3, ZenonT(30) DEF TypeOK, apiYielded
  <2> QED BY <2>1, <2>2, <2>3, <2>4, Zenon DEF Api!Complete
<1> QED BY <1>2, <1>3, Zenon

(* Filling and taking the checkpoint of a task is invisible.               *)
LEMMA CheckpointInvisible ==
  ASSUME TypeOK, NEW c \in Cont, NEW b \in BOOLEAN,
         task' = [task EXCEPT ![c].checkpoint = b],
         UNCHANGED <<linger, functional, fs, asked>>
  PROVE  UNCHANGED Api!vars
<1>1. \A d \in Cont : task'[d].errno = task[d].errno /\ task'[d].yielded = task[d].yielded
  BY SMTT(30) DEF TypeOK, Task
<1>2. UNCHANGED <<apiState, apiOutcome, apiYielded>>
  BY <1>1, Zenon DEF apiState, apiOutcome, apiYielded
<1> QED BY <1>2, Zenon DEF Api!vars

(* Proceed is a step of the interface, or changes nothing there.           *)
LEMMA ProceedApi ==
  ASSUME IInv, NEW t \in Thread, NEW c \in Cont, Proceed(t, c)
  PROVE  Api!Pause(t, c) \/ Api!Complete(t, c) \/ UNCHANGED Api!vars
<1> USE DEF lingerVars, tlsVars, stackVars, threadVars, kernelVars, ghostVars
<1>1. CASE SwitchBack(t, c)
  BY <1>1, SwitchBackApi, Zenon
<1>2. CASE Bootstrap(t, c)
  <2>1. CASE task[c].errno
    BY <1>2, <2>1, Invisible, Zenon DEF Bootstrap
  <2>2. CASE ~task[c].errno
    BY <1>2, <2>2, CheckpointInvisible, Zenon DEF Bootstrap, IInv
  <2> QED BY <2>1, <2>2, Zenon
<1>3. CASE Switch(t, c)
  BY <1>3, CheckpointInvisible, Zenon DEF Switch, IInv
<1>4. CASE SetupThread(t, c) \/ Schedule(t, c) \/ ReturnShared(t, c)
           \/ ResumePreemption(t, c) \/ DeferPreemption(t, c)
  BY <1>4, Invisible, Zenon
  DEF SetupThread, Schedule, ReturnShared, ResumePreemption, DeferPreemption
<1>5. CASE DisableGroup(t, c) \/ DisableBlock(t, c) \/ DisableBorrow(t, c)
           \/ DisableReplace(t, c) \/ DisableStore(t, c)
  BY <1>5, Invisible, Zenon
  DEF DisableGroup, DisableBlock, DisableBorrow, DisableReplace, DisableStore
<1> QED BY <1>1, <1>2, <1>3, <1>4, <1>5, Zenon DEF Proceed

(* Every step is a step of the interface, or changes nothing there.        *)
LEMMA StepApi == IInv /\ [Next]_vars => [Api!Next]_Api!vars
<1> SUFFICES ASSUME IInv, [Next]_vars PROVE Api!Next \/ UNCHANGED Api!vars
  OBVIOUS
<1> USE DEF lingerVars, tlsVars, stackVars, threadVars, kernelVars, ghostVars
<1>1. CASE UNCHANGED vars
  BY <1>1, Invisible, Zenon DEF vars
<1>2. ASSUME NEW t \in Thread, NEW c \in Cont, Caller(t, c)
      PROVE  Api!Next
  BY <1>2, LaunchApi, ResumeApi, DropLingerApi, Zenon DEF Caller, Api!Next
<1>3. ASSUME NEW t \in Thread, NEW c \in Cont, Function(t, c)
      PROVE  Api!Next \/ UNCHANGED Api!vars
  <2>1. CASE CallShared(t, c)
    BY <2>1, Invisible, Zenon DEF CallShared
  <2> QED BY <1>3, <2>1, CallPauseApi, FinishApi, Zenon DEF Function, Api!Next
<1>4. ASSUME NEW t \in Thread, NEW c \in Cont, Proceed(t, c)
      PROVE  Api!Next \/ UNCHANGED Api!vars
  BY <1>4, ProceedApi, Zenon DEF Api!Next
<1>5. ASSUME NEW t \in Thread, NEW s \in Thread, Preempt(t, s)
      PROVE  UNCHANGED Api!vars
  BY <1>5, Invisible, Zenon
  DEF Preempt, PreemptPanic, PreemptIrrelevant, PreemptDefer, PreemptNotYet,
      PreemptPause
<1>6. ASSUME NEW t \in Thread, Tick(t) PROVE UNCHANGED Api!vars
  BY <1>6, Invisible, Zenon DEF Tick
<1>7. ASSUME NEW c \in Cont, Expire(c) PROVE UNCHANGED Api!vars
  BY <1>7, Invisible, Zenon DEF Expire
<1> QED BY <1>1, <1>2, <1>3, <1>4, <1>5, <1>6, <1>7, Zenon DEF Next, Step

(* Initial states are initial states of the interface.                     *)
LEMMA InitApi == Init => Api!Init
<1> SUFFICES ASSUME Init PROVE Api!Init
  OBVIOUS
<1>1. apiState = [c \in Cont |-> "none"]
  BY Zenon DEF Init, apiState
<1>2. apiOutcome = [c \in Cont |-> "none"]
  BY Zenon DEF Init, apiOutcome
<1>3. apiYielded = [c \in Cont |-> FALSE]
  BY Zenon DEF Init, apiYielded
<1> QED BY <1>1, <1>2, <1>3, Zenon DEF Init, Api!Init

(* Signals, masks and thread-local variables together keep the promises of *)
(* module Linger: a function runs on one thread at a time, is called once, *)
(* reports its own outcome and says truthfully whether it yielded.         *)
THEOREM ImplementsApi == Spec => ApiSpec
<1> QED BY Inductive, InitApi, StepApi, PTL DEF Spec, ApiSpec, Api!Spec

-----------------------------------------------------------------------------
(* A thread's own signal cannot interrupt the replacement of SIGNAL unless *)
(* the function has moved from the thread that launched it.                *)

(* disable_preemption() has masked the local of schedule() by the time     *)
(* that it replaces SIGNAL, and no signal handler unmasks it.              *)
HomeInv ==
  \A t \in Thread, c \in Cont :
    fs[t] = c /\ pc[t] = "in" /\ at[c] \in {"replace", "replacing"} =>
      signal[c] \in mask[t]

(* Caller preserves HomeInv.                                               *)
LEMMA CallerHome ==
  ASSUME IInv, HomeInv, NEW t \in Thread, NEW c \in Cont, Caller(t, c)
  PROVE  HomeInv'
<1> USE ConstantsDistinct DEF lingerVars, tlsVars, stackVars, threadVars,
      kernelVars, ghostVars
<1>1. TypeOK /\ (pc[t] = "caller" => fs[t] = None)
  BY Zenon DEF IInv, Threads, ThreadInv
<1>2. ASSUME NEW u \in Us, Launch(t, c, u) PROVE HomeInv'
  <2>1. CASE u = "zero"
    BY <1>1, <1>2, <2>1, Zenon DEF TypeOK, HomeInv, Launch
  <2>2. CASE u # "zero"
    <3>1. /\ \A v \in Thread \ {t} : fs'[v] = fs[v] /\ pc'[v] = pc[v]
          /\ fs'[t] = c /\ pc'[t] = "setup"
          /\ UNCHANGED <<at, signal, mask>>
      BY <1>1, <1>2, <2>2, SMTT(30) DEF TypeOK, Launch
    <3> QED BY <3>1, Zenon DEF HomeInv
  <2> QED BY <2>1, <2>2, Zenon
<1>3. ASSUME NEW u \in Us, Resume(t, c, u) PROVE HomeInv'
  BY <1>1, <1>3, Zenon DEF TypeOK, HomeInv, Resume
<1>4. ASSUME DropLinger(t, c) PROVE HomeInv'
  BY <1>1, <1>4, Zenon DEF TypeOK, HomeInv, DropLinger, Idle
<1> QED BY <1>2, <1>3, <1>4, Zenon DEF Caller

(* Proceed and Function preserve HomeInv.                                  *)
LEMMA RunHome ==
  ASSUME IInv, HomeInv, NEW t \in Thread, NEW c \in Cont,
         Proceed(t, c) \/ Function(t, c)
  PROVE  HomeInv'
<1> USE ConstantsDistinct DEF lingerVars, tlsVars, stackVars, threadVars,
      kernelVars, ghostVars, Resuming, Running
<1>1. TypeOK /\ Exclusive
  BY Zenon DEF IInv
<1>2. CASE SetupThread(t, c)
  BY <1>1, <1>2, Zenon DEF TypeOK, Exclusive, HomeInv, SetupThread
<1>3. CASE Bootstrap(t, c)
  BY <1>1, <1>3, ZenonT(30) DEF TypeOK, Exclusive, HomeInv, Bootstrap
<1>4. CASE Switch(t, c)
  <2>1. at[c] \notin {"replace", "replacing"}
    BY <1>4, Installed, Zenon DEF Switch, StageInv, SwitchInv, Paused
  <2>2. \A u \in Thread \ {t} : mask'[u] = mask[u] /\ pc'[u] = pc[u] /\ fs[u] # c
    BY <1>1, <1>4, SMTT(30) DEF TypeOK, Exclusive, Switch
  <2>3. UNCHANGED <<fs, signal, at>>
    BY <1>4, Zenon DEF Switch
  <2> QED BY <1>4, <2>1, <2>2, <2>3, Zenon DEF HomeInv, Switch
<1>5. CASE SwitchBack(t, c)
  BY <1>1, <1>5, SMTT(30) DEF TypeOK, Exclusive, HomeInv, SwitchBack
<1>6. CASE Schedule(t, c)
  BY <1>1, <1>6, InFunction, SMTT(30) DEF TypeOK, Exclusive, HomeInv, Schedule, Unblock,
       InInv
<1>7. CASE ReturnShared(t, c)
  BY <1>1, <1>7, Zenon DEF TypeOK, Exclusive, HomeInv, ReturnShared
<1>8. CASE ResumePreemption(t, c)
  BY <1>1, <1>8, SMTT(30) DEF TypeOK, Exclusive, HomeInv, ResumePreemption
<1>9. CASE DeferPreemption(t, c)
  BY <1>1, <1>9, ZenonT(30) DEF TypeOK, Exclusive, HomeInv, DeferPreemption
<1>10. CASE DisableGroup(t, c)
  BY <1>1, <1>10, Zenon DEF TypeOK, Exclusive, HomeInv, DisableGroup
<1>11. CASE DisableBlock(t, c)
  BY <1>1, <1>11, ZenonT(30) DEF TypeOK, Exclusive, HomeInv, DisableBlock, DisableMask
<1>12. CASE DisableBorrow(t, c)
  BY <1>1, <1>12, Zenon DEF TypeOK, Exclusive, HomeInv, DisableBorrow
<1>13. CASE DisableReplace(t, c)
  BY <1>1, <1>13, Zenon DEF TypeOK, Exclusive, HomeInv, DisableReplace
<1>14. CASE DisableStore(t, c)
  BY <1>1, <1>14, ZenonT(30) DEF TypeOK, Exclusive, HomeInv, DisableStore
<1>15. CASE CallShared(t, c)
  BY <1>1, <1>15, Zenon DEF TypeOK, Exclusive, HomeInv, CallShared
<1>16. CASE CallPause(t, c)
  BY <1>1, <1>16, Zenon DEF TypeOK, Exclusive, HomeInv, CallPause
<1>17. ASSUME NEW r \in {"Ok", "Err"}, Finish(t, c, r) PROVE HomeInv'
  BY <1>1, <1>17, Zenon DEF TypeOK, Exclusive, HomeInv, Finish
<1> QED
  BY <1>2, <1>3, <1>4, <1>5, <1>6, <1>7, <1>8, <1>9, <1>10, <1>11, <1>12, <1>13,
     <1>14, <1>15, <1>16, <1>17, Zenon
  DEF Proceed, Function

(* Preempt preserves HomeInv.                                              *)
LEMMA PreemptHome ==
  ASSUME IInv, HomeInv, NEW t \in Thread, NEW s \in Thread, Preempt(t, s)
  PROVE  HomeInv'
<1> USE ConstantsDistinct DEF lingerVars, tlsVars, stackVars, threadVars,
      kernelVars, ghostVars
<1>1. TypeOK
  BY Zenon DEF IInv
<1>2. CASE PreemptPanic(t, s)
  BY <1>1, <1>2, Zenon DEF TypeOK, HomeInv, PreemptPanic
<1>3. CASE PreemptIrrelevant(t, s)
  BY <1>1, <1>3, Zenon DEF TypeOK, HomeInv, PreemptIrrelevant
<1>4. CASE PreemptDefer(t, s)
  BY <1>1, <1>4, Zenon DEF TypeOK, HomeInv, PreemptDefer, DeferMask
<1>5. CASE PreemptNotYet(t, s)
  BY <1>1, <1>5, Zenon DEF TypeOK, HomeInv, PreemptNotYet
<1>6. CASE PreemptPause(t, s)
  BY <1>1, <1>6, Zenon DEF TypeOK, HomeInv, PreemptPause
<1> QED BY <1>2, <1>3, <1>4, <1>5, <1>6, Zenon DEF Preempt

(* Every step preserves HomeInv.                                           *)
LEMMA StepHome == IInv /\ HomeInv /\ [Next]_vars => HomeInv'
<1> SUFFICES ASSUME IInv, HomeInv, [Next]_vars PROVE HomeInv'
  OBVIOUS
<1> USE DEF lingerVars, tlsVars, stackVars, threadVars, kernelVars, ghostVars
<1>1. CASE UNCHANGED vars
  BY <1>1, Zenon DEF vars, HomeInv
<1>2. ASSUME NEW t \in Thread, Tick(t) PROVE HomeInv'
  BY <1>2, Zenon DEF Tick, HomeInv
<1>3. ASSUME NEW c \in Cont, Expire(c) PROVE HomeInv'
  BY <1>3, Zenon DEF Expire, HomeInv
<1> QED BY <1>1, <1>2, <1>3, CallerHome, RunHome, PreemptHome, Zenon DEF Next, Step

(* Every place where SIGNAL is replaced.                                   *)
LEMMA HomeExcludes == IInv /\ HomeInv => HomeSignalExcluded
<1> SUFFICES ASSUME IInv, HomeInv, NEW t \in Thread, Replacing(t),
                    pc[t] = "in" => signal[fs[t]] = t
             PROVE  t \in mask[t]
  BY Zenon DEF HomeSignalExcluded
<1>1. CASE pc[t] = "replacing"
  BY <1>1, Zenon DEF IInv, Threads, ThreadInv
<1>2. CASE pc[t] = "in" /\ at[fs[t]] = "replacing"
  <2>1. PICK c \in Cont : fs[t] = c
    BY <1>2, Zenon DEF IInv, TypeOK, Threads, ThreadInv
  <2> QED BY <1>2, <2>1, Zenon DEF HomeInv
<1> QED BY <1>1, <1>2, Zenon DEF Replacing

(* disable_preemption() and thread_setup() write SIGNAL only while the     *)
(* thread's own signal is masked, if the function is on the thread that    *)
(* launched it.                                                            *)
THEOREM HomeSignalIsExcluded == Spec => []HomeSignalExcluded
<1>1. Init => HomeInv
  BY ConstantsDistinct, Zenon DEF Init, HomeInv
<1> QED BY <1>1, HomeExcludes, StepHome, Inductive, PTL DEF Spec

-----------------------------------------------------------------------------
(* When the process can die of a panic in the handler, and why it cannot   *)
(* if no function moves.                                                   *)

(* Nothing but the panic of preempt() ends the process.                    *)
LEMMA OnlyPanicAborts ==
  ASSUME [Next]_vars, ~aborted, aborted'
  PROVE  \E t, s \in Thread : PreemptPanic(t, s)
<1> USE DEF kernelVars
<1>1. ASSUME NEW t \in Thread, NEW c \in Cont, Caller(t, c) PROVE aborted' = aborted
  BY <1>1, Zenon DEF Caller, Launch, Resume, DropLinger
<1>2. ASSUME NEW t \in Thread, NEW c \in Cont, Proceed(t, c) PROVE aborted' = aborted
  BY <1>2, Zenon
  DEF Proceed, SetupThread, Bootstrap, Switch, SwitchBack, Schedule, ReturnShared,
      ResumePreemption, DeferPreemption, DisableGroup, DisableBlock, DisableBorrow,
      DisableReplace, DisableStore
<1>3. ASSUME NEW t \in Thread, NEW c \in Cont, Function(t, c) PROVE aborted' = aborted
  BY <1>3, Zenon DEF Function, CallShared, CallPause, Finish
<1>4. ASSUME NEW t \in Thread, NEW s \in Thread, Preempt(t, s), ~PreemptPanic(t, s)
      PROVE  aborted' = aborted
  BY <1>4, Zenon
  DEF Preempt, PreemptIrrelevant, PreemptDefer, PreemptNotYet, PreemptPause
<1>5. ASSUME NEW t \in Thread, Tick(t) PROVE aborted' = aborted
  BY <1>5, Zenon DEF Tick
<1>6. ASSUME NEW c \in Cont, Expire(c) PROVE aborted' = aborted
  BY <1>6, Zenon DEF Expire
<1>7. ~UNCHANGED vars
  BY Zenon DEF vars
<1> QED BY <1>1, <1>2, <1>3, <1>4, <1>5, <1>6, <1>7, Zenon DEF Next, Step

(* preempt() finds SIGNAL borrowed on two occasions only: a signal meant   *)
(* for another thread arrives while this one replaces SIGNAL, or           *)
(* disable_preemption() has masked the signal of the thread that the       *)
(* function was launched on.                                               *)
THEOREM AbortsOnlySo == Spec => AbortCause
<1>1. Init => HomeInv
  BY ConstantsDistinct, Zenon DEF Init, HomeInv
<1>2. ASSUME IInv, HomeInv, [Next]_vars, ~aborted, aborted'
      PROVE  \E t, s \in Thread :
               /\ Deliver(t, s) /\ Replacing(t)
               /\ s # t \/ (pc[t] = "in" /\ signal[fs[t]] # t)
  <2>1. PICK t \in Thread, s \in Thread : PreemptPanic(t, s)
    BY <1>2, OnlyPanicAborts, Zenon
  <2>2. Deliver(t, s) /\ Replacing(t)
    BY <2>1, Zenon DEF PreemptPanic
  <2>3. s = t => pc[t] = "in" /\ signal[fs[t]] # t
    BY <1>2, <2>2, HomeExcludes, Zenon DEF Deliver, HomeSignalExcluded
  <2> QED BY <2>2, <2>3, Zenon
<1> QED BY <1>1, <1>2, StepHome, Inductive, PTL DEF Spec, AbortCause

(* Every function stays with the thread that launched it.                  *)
Pinned ==
  \A t, u \in Thread, c \in Cont :
    <<t, c>> \in May /\ <<u, c>> \in May => t = u

(* A function runs, and has been called by schedule(), only on threads     *)
(* that ever hold its Linger.                                              *)
MayInv ==
  \A c \in Cont :
    /\ \A t \in Thread : fs[t] = c => <<t, c>> \in May
    /\ signal[c] \in Thread => <<signal[c], c>> \in May

(* Every step preserves MayInv.                                            *)
LEMMA StepMay == IInv /\ MayInv /\ [Next]_vars => MayInv'
<1> SUFFICES ASSUME IInv, MayInv, [Next]_vars PROVE MayInv'
  OBVIOUS
<1> USE DEF lingerVars, tlsVars, stackVars, threadVars, kernelVars, ghostVars
<1>1. TypeOK
  BY Zenon DEF IInv
<1>2. CASE UNCHANGED <<fs, signal>>
  BY <1>2, Zenon DEF MayInv
<1>3. ASSUME NEW t \in Thread, NEW c \in Cont, <<t, c>> \in May,
             fs' = [fs EXCEPT ![t] = c], UNCHANGED signal
      PROVE  MayInv'
  BY <1>1, <1>3, Zenon DEF TypeOK, MayInv
<1>4. ASSUME NEW c \in Cont, signal' = [signal EXCEPT ![c] = None], UNCHANGED fs
      PROVE  MayInv'
  BY <1>1, <1>4, ConstantsDistinct, Zenon DEF TypeOK, MayInv
<1>5. ASSUME NEW t \in Thread, NEW c \in Cont, Caller(t, c) PROVE MayInv'
  BY <1>2, <1>3, <1>4, <1>5, Zenon DEF Caller, Launch, Resume, DropLinger
<1>6. ASSUME NEW t \in Thread, NEW c \in Cont, Schedule(t, c) PROVE MayInv'
  <2>1. fs[t] = c /\ pc[t] = "in" /\ at[c] = "schedule"
    BY <1>6, Zenon DEF Schedule, Running
  <2>2. SIGNAL[c] = t
    BY <2>1, InFunction, SMTT(30) DEF InInv
  <2>3. signal' = [signal EXCEPT ![c] = t] /\ UNCHANGED fs
    BY <1>6, <2>2, Zenon DEF Schedule, Unblock
  <2> QED BY <1>1, <2>1, <2>3, Zenon DEF TypeOK, MayInv
<1>7. ASSUME NEW t \in Thread, NEW c \in Cont, SwitchBack(t, c) PROVE MayInv'
  <2>1. fs' = [fs EXCEPT ![t] = None] /\ UNCHANGED signal
    BY <1>7, Zenon DEF SwitchBack
  <2> QED BY <1>1, <2>1, ConstantsDistinct, Zenon DEF TypeOK, MayInv
<1>8. ASSUME NEW t \in Thread, NEW c \in Cont, Proceed(t, c) PROVE MayInv'
  BY <1>2, <1>4, <1>6, <1>7, <1>8, Zenon
  DEF Proceed, SetupThread, Bootstrap, Switch, ReturnShared, ResumePreemption,
      DeferPreemption, DisableGroup, DisableBlock, DisableBorrow,
      DisableReplace, DisableStore
<1>9. ASSUME NEW t \in Thread, NEW c \in Cont, Function(t, c) PROVE MayInv'
  BY <1>2, <1>9, Zenon DEF Function, CallShared, CallPause, Finish
<1>10. ASSUME NEW t \in Thread, NEW s \in Thread, Preempt(t, s) PROVE MayInv'
  BY <1>2, <1>10, Zenon
  DEF Preempt, PreemptPanic, PreemptIrrelevant, PreemptDefer, PreemptNotYet,
      PreemptPause
<1>11. ASSUME NEW t \in Thread, Tick(t) PROVE MayInv'
  BY <1>2, <1>11, Zenon DEF Tick
<1>12. ASSUME NEW c \in Cont, Expire(c) PROVE MayInv'
  BY <1>2, <1>12, Zenon DEF Expire
<1>13. CASE UNCHANGED vars
  BY <1>2, <1>13, Zenon DEF vars
<1> QED BY <1>5, <1>8, <1>9, <1>10, <1>11, <1>12, <1>13, Zenon DEF Next, Step

(* The initial state satisfies both invariants.                            *)
LEMMA InitHomeMay == Init => HomeInv /\ MayInv
BY ConstantsDistinct, SMTT(30) DEF Init, HomeInv, MayInv

(* A function that stays where it was launched, and is replacing SIGNAL,   *)
(* has the thread's own signal masked.                                     *)
LEMMA PinnedExcludes ==
  ASSUME Pinned, IInv, HomeInv, MayInv
  PROVE  OwnSignalExcluded
<1> SUFFICES ASSUME NEW t \in Thread, Replacing(t) PROVE t \in mask[t]
  BY Zenon DEF OwnSignalExcluded
<1>1. pc[t] = "in" => signal[fs[t]] = t
  <2> SUFFICES ASSUME pc[t] = "in" PROVE signal[fs[t]] = t
    OBVIOUS
  <2>1. PICK c \in Cont : fs[t] = c
    BY Zenon DEF IInv, TypeOK, Threads, ThreadInv
  <2>2. at[c] = "replacing"
    BY <2>1, Zenon DEF Replacing
  <2>3. signal[c] \in Thread
    BY <2>1, <2>2, InFunction, Zenon DEF InInv, StackInv
  <2> QED BY <2>1, <2>3, Zenon DEF Pinned, MayInv
<1> QED BY <1>1, HomeExcludes, Zenon DEF HomeSignalExcluded

(* If no preemptible function ever moves to another thread, SIGNAL is      *)
(* written only while the thread's own signal is masked: moving a function *)
(* is the one way to break what OwnSignalExcluded says.                    *)
THEOREM PinnedSignalExcluded ==
  ASSUME Pinned
  PROVE  Spec => []OwnSignalExcluded
<1>1. IInv /\ HomeInv /\ MayInv => OwnSignalExcluded
  BY PinnedExcludes, Zenon
<1> QED BY <1>1, InitHomeMay, StepHome, StepMay, Inductive, PTL DEF Spec

(* The process dies only when some thread that replaces SIGNAL is          *)
(* interrupted by the signal of another thread.                            *)
ForeignAborts ==
  [][~aborted /\ aborted' =>
       \E t, s \in Thread :
         Deliver(t, s) /\ Replacing(t) /\ s # t /\ s \in procPend]_vars

(* If no function moves, only a timer signal that the kernel delivered to  *)
(* the wrong thread can make preempt() panic.                              *)
THEOREM PinnedAborts ==
  ASSUME Pinned
  PROVE  Spec => ForeignAborts
<1>1. ASSUME IInv, HomeInv, MayInv, [Next]_vars, ~aborted, aborted'
      PROVE  \E t, s \in Thread :
               Deliver(t, s) /\ Replacing(t) /\ s # t /\ s \in procPend
  <2>1. PICK t \in Thread, s \in Thread : PreemptPanic(t, s)
    BY <1>1, OnlyPanicAborts, Zenon
  <2>2. /\ Deliver(t, s) /\ Replacing(t)
        /\ s \notin mask[t] /\ (s \in procPend \/ s \in pend[t])
    BY <2>1, Zenon DEF PreemptPanic, Deliver
  <2>3. s # t
    BY <1>1, <2>2, PinnedExcludes, Zenon DEF OwnSignalExcluded
  <2>4. pend[t] \subseteq {t}
    BY <1>1, Zenon DEF IInv, Threads, ThreadInv
  <2> QED BY <2>2, <2>3, <2>4, Zenon
<1> QED BY <1>1, InitHomeMay, StepHome, StepMay, Inductive, PTL
    DEF Spec, ForeignAborts

(* The handler never panics.                                               *)
NeverAborts == ~aborted

(* A program whose preemptible functions all run on one thread never dies  *)
(* of a signal that interrupts the replacement of SIGNAL.                  *)
THEOREM OneThreadNeverAborts ==
  ASSUME \A t, u \in Thread : t = u
  PROVE  Spec => []NeverAborts
<1>1. Init => NeverAborts
  BY Zenon DEF Init, NeverAborts
<1>2. ASSUME NeverAborts,
             [~aborted /\ aborted' =>
                \E t, s \in Thread :
                  Deliver(t, s) /\ Replacing(t) /\ s # t /\ s \in procPend]_vars
      PROVE  NeverAborts'
  BY <1>2, Zenon DEF NeverAborts, vars, kernelVars
<1>3. Pinned
  BY Zenon DEF Pinned
<1>4. Spec => ForeignAborts
  BY <1>3, PinnedAborts, Zenon
<1> QED BY <1>1, <1>2, <1>4, PTL DEF Spec, ForeignAborts

-----------------------------------------------------------------------------
(* How control leaves a preemptible function.                              *)

(* Only the return of schedule() and preempt() end a time slice.           *)
LEMMA LeaveSteps ==
  ASSUME IInv, [Next]_vars, NEW t \in Thread, pc[t] = "in", pc'[t] # "in"
  PROVE  \/ \E c \in Cont : DisableStore(t, c)
         \/ \E s \in Thread : PreemptPause(t, s)
<1> USE DEF lingerVars, tlsVars, stackVars, threadVars, kernelVars, ghostVars
<1>1. pc \in [Thread -> {"caller", "setup", "replacing", "switch", "in", "back"}]
  BY Zenon DEF IInv, TypeOK
<1>2. ASSUME NEW u \in Thread, NEW where, pc' = [pc EXCEPT ![u] = where]
      PROVE  u = t
  BY <1>1, <1>2, Zenon
<1>3. ~UNCHANGED pc
  BY Zenon
<1>4. ASSUME NEW u \in Thread, NEW c \in Cont, Caller(u, c) PROVE FALSE
  BY <1>2, <1>3, <1>4, Zenon DEF Caller, Launch, Resume, DropLinger
<1>5. ASSUME NEW u \in Thread, NEW c \in Cont, SwitchBack(u, c) \/ Bootstrap(u, c)
               \/ SetupThread(u, c) \/ Switch(u, c)
      PROVE FALSE
  <2>1. pc[u] # "in" /\ \E where : pc' = [pc EXCEPT ![u] = where]
    BY <1>5, Zenon DEF SwitchBack, Bootstrap, SetupThread, Switch, Resuming
  <2> QED BY <1>2, <2>1, Zenon
<1>6. ASSUME NEW u \in Thread, NEW c \in Cont, Proceed(u, c)
      PROVE  DisableStore(t, c)
  <2>1. DisableStore(u, c)
    BY <1>3, <1>5, <1>6, Zenon
    DEF Proceed, Schedule, ReturnShared, ResumePreemption, DeferPreemption,
        DisableGroup, DisableBlock, DisableBorrow, DisableReplace
  <2>2. u = t
    BY <1>2, <2>1, Zenon DEF DisableStore
  <2> QED BY <2>1, <2>2, Zenon
<1>7. ASSUME NEW u \in Thread, NEW c \in Cont, Function(u, c) PROVE FALSE
  BY <1>3, <1>7, Zenon DEF Function, CallShared, CallPause, Finish
<1>8. ASSUME NEW u \in Thread, NEW s \in Thread, Preempt(u, s)
      PROVE  PreemptPause(t, s)
  <2>1. PreemptPause(u, s)
    BY <1>3, <1>8, Zenon
    DEF Preempt, PreemptPanic, PreemptIrrelevant, PreemptDefer, PreemptNotYet
  <2>2. u = t
    BY <1>2, <2>1, Zenon DEF PreemptPause
  <2> QED BY <2>1, <2>2, Zenon
<1>9. ASSUME NEW u \in Thread, Tick(u) PROVE FALSE
  BY <1>3, <1>9, Zenon DEF Tick
<1>10. ASSUME NEW c \in Cont, Expire(c) PROVE FALSE
  BY <1>3, <1>10, Zenon DEF Expire
<1>11. ~UNCHANGED vars
  BY <1>3, Zenon DEF vars
<1> QED BY <1>4, <1>6, <1>7, <1>8, <1>9, <1>10, <1>11, Zenon DEF Next, Step

(* preempt() never switches away from a function in the middle of a call   *)
(* into a nonpreemptible library, of pause(), of schedule() before fun()   *)
(* or of disable_preemption(), whatever signals arrive there.              *)
THEOREM NonpreemptibleIsAtomic == Spec => NonpreemptibleAtomic
<1>1. ASSUME IInv, [Next]_vars
      PROVE  \A t \in Thread : pc[t] = "in" /\ pc'[t] # "in" =>
               at[fs[t]] \in {"fun", "resume_preemption", "returned", "store"}
  <2> SUFFICES ASSUME NEW t \in Thread, pc[t] = "in", pc'[t] # "in"
               PROVE  at[fs[t]] \in {"fun", "resume_preemption", "returned", "store"}
    OBVIOUS
  <2>1. ASSUME NEW c \in Cont, DisableStore(t, c) PROVE at[fs[t]] = "store"
    BY <2>1, Zenon DEF DisableStore, Running
  <2>2. ASSUME NEW s \in Thread, PreemptPause(t, s) PROVE at[fs[t]] \in Paused
    <3>1. PICK c \in Cont : fs[t] = c
      <4>1. fs[t] # None
        BY <2>2, Zenon DEF PreemptPause, Relevant
      <4> QED BY <1>1, <4>1, Zenon DEF IInv, TypeOK
    <3>2. group[t] # Shared
      BY <2>2, Zenon DEF PreemptPause, is_preemptible
    <3> QED BY <1>1, <3>1, <3>2, InFunction, Zenon DEF InInv
  <2> QED BY <1>1, <2>1, <2>2, LeaveSteps, Zenon DEF Paused
<1> QED BY <1>1, Inductive, PTL DEF Spec, NonpreemptibleAtomic

-----------------------------------------------------------------------------
(* Time budgets.                                                           *)

(* What becomes of a budget in stamp() and as time passes.                 *)
Stamped(u) == CASE u = "zero" -> {"past"}
                [] u = "us" -> {"future", "past"}
                [] OTHER -> {"max"}

(* DEADLINE stems from the budget of the resume() in progress: it is that  *)
(* budget until stamp() makes it a point in time, and pause() may replace  *)
(* it by 0.                                                                *)
SliceInv(t, c) ==
  /\ pc[t] = "switch" => DEADLINE[c] = us[t]
  /\ pc[t] = "in" =>
       DEADLINE[c] \in IF at[c] = "schedule" THEN {us[t]}
                                            ELSE Stamped(us[t]) \cup {"zero"}
  /\ pc[t] = "back" /\ us[t] = "max" /\ TASK[c].errno => TASK[c].yielded
DeadlineInv == \A t \in Thread, c \in Cont : fs[t] = c => SliceInv(t, c)

(* A step of thread t on slot c, seen from other threads and slots.        *)
Apart(t, c) ==
  /\ \A d \in Cont \ {c} :
       TASK'[d] = TASK[d] /\ DEADLINE'[d] = DEADLINE[d] /\ at'[d] = at[d]
  /\ \A u \in Thread \ {t} : pc'[u] = pc[u] /\ us'[u] = us[u] /\ fs'[u] = fs[u]

(* A call of the interface changes nothing for other threads and slots.    *)
LEMMA CallerApart ==
  ASSUME TypeOK, NEW t \in Thread, NEW c \in Cont, Caller(t, c)
  PROVE  Apart(t, c) /\ (fs'[t] = fs[t] \/ (fs'[t] = c /\ pc'[t] = "setup"))
<1> USE DEF lingerVars, tlsVars, stackVars, threadVars, Apart
<1>1. ASSUME NEW u \in Us, Launch(t, c, u)
      PROVE  Apart(t, c) /\ (fs'[t] = fs[t] \/ (fs'[t] = c /\ pc'[t] = "setup"))
  <2>1. UNCHANGED <<tlsVars, stackVars>>
    BY <1>1, Zenon DEF Launch
  <2>2. CASE u = "zero"
    BY <1>1, <2>1, <2>2, Zenon DEF Launch
  <2>3. CASE u # "zero"
    BY <1>1, <2>1, <2>3, ZenonT(30) DEF Launch, TypeOK
  <2> QED BY <2>2, <2>3, Zenon
<1>2. ASSUME NEW u \in Us, Resume(t, c, u)
      PROVE  Apart(t, c) /\ fs'[t] = c /\ pc'[t] = "setup"
  BY <1>2, Zenon DEF Resume, TypeOK
<1>3. CASE DropLinger(t, c)
  <2>1. at' = [at EXCEPT ![c] = "none"] /\ UNCHANGED <<tlsVars, threadVars>>
    BY <1>3, Zenon DEF DropLinger
  <2> QED BY <2>1, Zenon DEF TypeOK
<1> QED BY <1>1, <1>2, <1>3, Zenon DEF Caller

(* Nor do the steps of resume() and of the function.                       *)
LEMMA RunApart ==
  ASSUME TypeOK, NEW t \in Thread, NEW c \in Cont, Proceed(t, c) \/ Function(t, c)
  PROVE  Apart(t, c)
<1> USE DEF lingerVars, tlsVars, stackVars, threadVars, TypeOK, Apart
<1>1. CASE SetupThread(t, c)
  BY <1>1, Zenon DEF SetupThread
<1>2. CASE Bootstrap(t, c)
  BY <1>2, Zenon DEF Bootstrap
<1>3. CASE Switch(t, c)
  BY <1>3, ZenonT(30) DEF Switch
<1>4. CASE SwitchBack(t, c)
  BY <1>4, Zenon DEF SwitchBack
<1>5. CASE Schedule(t, c)
  BY <1>5, Zenon DEF Schedule
<1>6. CASE ReturnShared(t, c) \/ ResumePreemption(t, c) \/ DeferPreemption(t, c)
  BY <1>6, Zenon DEF ReturnShared, ResumePreemption, DeferPreemption
<1>7. CASE DisableGroup(t, c) \/ DisableBlock(t, c) \/ DisableBorrow(t, c)
           \/ DisableReplace(t, c)
  BY <1>7, ZenonT(30) DEF DisableGroup, DisableBlock, DisableBorrow, DisableReplace
<1>8. CASE DisableStore(t, c)
  BY <1>8, Zenon DEF DisableStore
<1>9. CASE CallShared(t, c) \/ CallPause(t, c)
  BY <1>9, ZenonT(30) DEF CallShared, CallPause
<1>10. ASSUME NEW r \in {"Ok", "Err"}, Finish(t, c, r) PROVE Apart(t, c)
  BY <1>10, Zenon DEF Finish
<1> QED BY <1>1, <1>2, <1>3, <1>4, <1>5, <1>6, <1>7, <1>8, <1>9, <1>10, Zenon
    DEF Proceed, Function

(* So it is enough to look at t and c after the step.                      *)
LEMMA DeadlineLocal ==
  ASSUME IInv, DeadlineInv, NEW t \in Thread, NEW c \in Cont, Apart(t, c),
         fs[t] = c \/ (fs[t] = None /\ Idle(c)), fs'[t] \in {c, None},
         fs'[t] = c => SliceInv(t, c)'
  PROVE  DeadlineInv'
<1> SUFFICES ASSUME NEW u \in Thread, NEW d \in Cont, fs'[u] = d
             PROVE  SliceInv(u, d)'
  BY Zenon DEF DeadlineInv
<1>1. CASE u = t
  BY <1>1, ConstantsDistinct, Zenon
<1>2. CASE u # t
  <2>1. fs[u] = d /\ d # c
    BY <1>2, ConstantsDistinct, Zenon DEF Apart, Idle, IInv, Exclusive
  <2>2. SliceInv(u, d)
    BY <2>1, Zenon DEF DeadlineInv
  <2> QED BY <1>2, <2>1, <2>2, Zenon DEF SliceInv, Apart
<1> QED BY <1>1, <1>2, Zenon

(* Proceed preserves DeadlineInv.                                          *)
LEMMA ProceedDeadline ==
  ASSUME IInv, DeadlineInv, NEW t \in Thread, NEW c \in Cont,
         Proceed(t, c) \/ Function(t, c)
  PROVE  DeadlineInv'
<1> USE DEF lingerVars, tlsVars, stackVars, threadVars, Resuming, Running
<1>1. TypeOK /\ Apart(t, c)
  BY RunApart, Zenon DEF IInv
<1>2. fs[t] = c
  BY Zenon
  DEF Proceed, Function, SetupThread, Bootstrap, Switch, SwitchBack, Schedule,
      ReturnShared, ResumePreemption, DeferPreemption, DisableGroup, DisableBlock,
      DisableBorrow, DisableReplace, DisableStore, CallShared, CallPause, Finish
<1>3. SliceInv(t, c) /\ StageInv(t, c)
  BY <1>2, Installed, Zenon DEF DeadlineInv
<1>4. CASE fs' = fs /\ pc' = pc /\ us' = us /\ at[c] # "schedule" /\ at'[c] # "schedule"
           /\ pc[t] = "in" /\ (DEADLINE'[c] = DEADLINE[c] \/ DEADLINE'[c] = "zero")
  <2>1. SliceInv(t, c)'
    BY <1>3, <1>4, Zenon DEF SliceInv
  <2> QED BY <1>1, <1>2, <1>4, <2>1, DeadlineLocal, Zenon
<1>5. CASE SetupThread(t, c)
  <2>1. pc'[t] = "replacing" /\ fs'[t] = c
    BY <1>1, <1>2, <1>5, Zenon DEF SetupThread, TypeOK
  <2>2. SliceInv(t, c)'
    BY <2>1, Zenon DEF SliceInv
  <2> QED BY <1>1, <1>2, <2>1, <2>2, DeadlineLocal, Zenon
<1>6. CASE Bootstrap(t, c)
  <2>1. pc'[t] = "switch" /\ fs'[t] = c /\ DEADLINE'[c] = us[t] /\ us' = us
    BY <1>1, <1>2, <1>6, Zenon DEF Bootstrap, TypeOK
  <2>2. SliceInv(t, c)'
    BY <2>1, Zenon DEF SliceInv
  <2> QED BY <1>1, <1>2, <2>1, <2>2, DeadlineLocal, Zenon
<1>7. CASE Switch(t, c)
  <2>1. pc[t] = "switch" /\ pc'[t] = "in" /\ fs'[t] = c /\ us' = us /\ at' = at
    BY <1>1, <1>2, <1>7, Zenon DEF Switch, TypeOK
  <2>2. DEADLINE[c] = us[t] /\ us[t] \in Budget
    BY <1>1, <1>3, <2>1, Zenon DEF SliceInv, TypeOK
  <2>3. CASE task[c].errno
    <3>1. DEADLINE'[c] = stamp(us[t]) /\ at[c] # "schedule"
      BY <1>1, <1>3, <1>7, <2>1, <2>2, <2>3, SMTT(30)
      DEF Switch, TypeOK, StageInv, SwitchInv, Paused
    <3>2. SliceInv(t, c)'
      BY <2>1, <2>2, <3>1, Zenon DEF SliceInv, stamp, Stamped, Budget
    <3> QED BY <1>1, <1>2, <2>1, <3>2, DeadlineLocal, Zenon
  <2>4. CASE ~task[c].errno
    <3>1. DEADLINE'[c] = us[t] /\ at[c] = "schedule"
      BY <1>1, <1>3, <1>7, <2>1, <2>2, <2>4, Zenon DEF Switch, StageInv, SwitchInv
    <3>2. SliceInv(t, c)'
      BY <2>1, <3>1, Zenon DEF SliceInv
    <3> QED BY <1>1, <1>2, <2>1, <3>2, DeadlineLocal, Zenon
  <2> QED BY <2>3, <2>4, Zenon
<1>8. CASE SwitchBack(t, c)
  <2>1. fs'[t] = None
    BY <1>1, <1>8, Zenon DEF SwitchBack, TypeOK
  <2> QED BY <1>1, <1>2, <2>1, DeadlineLocal, ConstantsDistinct, Zenon
<1>9. CASE Schedule(t, c)
  <2>1. /\ pc[t] = "in" /\ pc'[t] = "in" /\ fs'[t] = c /\ us' = us
        /\ at[c] = "schedule" /\ at'[c] = "fun" /\ DEADLINE'[c] = stamp(DEADLINE[c])
    BY <1>1, <1>2, <1>9, Zenon DEF Schedule, TypeOK
  <2>2. DEADLINE[c] = us[t] /\ us[t] \in Budget
    BY <1>1, <1>3, <2>1, Zenon DEF SliceInv, TypeOK
  <2>3. SliceInv(t, c)'
    BY <2>1, <2>2, Zenon DEF SliceInv, stamp, Stamped, Budget
  <2> QED BY <1>1, <1>2, <2>1, <2>3, DeadlineLocal, Zenon
<1>10. CASE DisableStore(t, c)
  <2>1. pc[t] = "in" /\ pc'[t] = "back" /\ fs'[t] = c /\ TASK' = TASK
    BY <1>1, <1>2, <1>10, Zenon DEF DisableStore, TypeOK
  <2>2. SliceInv(t, c)'
    BY <1>3, <2>1, Zenon DEF SliceInv, StageInv, InInv
  <2> QED BY <1>1, <1>2, <2>1, <2>2, DeadlineLocal, Zenon
<1>11. CASE ReturnShared(t, c) \/ ResumePreemption(t, c) \/ DeferPreemption(t, c)
  BY <1>1, <1>4, <1>11, Zenon DEF ReturnShared, ResumePreemption, DeferPreemption, TypeOK
<1>12. CASE DisableGroup(t, c) \/ DisableBlock(t, c) \/ DisableBorrow(t, c)
            \/ DisableReplace(t, c)
  BY <1>1, <1>4, <1>12, Zenon
  DEF DisableGroup, DisableBlock, DisableBorrow, DisableReplace, TypeOK
<1>13. CASE CallShared(t, c) \/ CallPause(t, c)
  BY <1>1, <1>4, <1>13, ZenonT(30) DEF CallShared, CallPause, TypeOK
<1>14. ASSUME NEW r \in {"Ok", "Err"}, Finish(t, c, r) PROVE DeadlineInv'
  BY <1>1, <1>4, <1>14, Zenon DEF Finish, TypeOK
<1> QED BY <1>5, <1>6, <1>7, <1>8, <1>9, <1>10, <1>11, <1>12, <1>13, <1>14, Zenon
    DEF Proceed, Function

(* preempt() preserves DeadlineInv: unless it pauses the function, it      *)
(* leaves alone everything that DeadlineInv is about.                      *)
LEMMA PreemptDeadline ==
  ASSUME IInv, DeadlineInv, NEW t \in Thread, NEW s \in Thread, Preempt(t, s)
  PROVE  DeadlineInv'
<1> USE DEF lingerVars, tlsVars, stackVars, threadVars
<1>1. CASE PreemptPause(t, s)
  <2>1. PICK c \in Cont : fs[t] = c
    BY <1>1, RelevantRunning, Zenon DEF PreemptPause
  <2>2. TypeOK /\ pc[t] = "in" /\ InInv(t, c)
    BY <1>1, <2>1, RelevantRunning, Zenon DEF PreemptPause
  <2>3. /\ TASK'[c].yielded <=> DEADLINE[c] = "zero"
        /\ \A d \in Cont \ {c} : TASK'[d] = TASK[d]
    BY <1>1, <2>1, <2>2, PauseTask, Zenon
  <2>4. pc'[t] = "back" /\ UNCHANGED <<DEADLINE, at, us, fs>>
    BY <1>1, <2>2, Zenon DEF PreemptPause, TypeOK
  <2>5. Apart(t, c)
    BY <1>1, <2>2, <2>3, <2>4, Zenon DEF PreemptPause, TypeOK, Apart
  <2>6. us[t] = "max" => TASK'[c].yielded
    <3>1. at[c] # "schedule" /\ Expired(DEADLINE[c])
      BY <1>1, <2>1, <2>2, ConstantsDistinct, Zenon
      DEF PreemptPause, is_preemptible, InInv, Paused
    <3>2. SliceInv(t, c)
      BY <2>1, Zenon DEF DeadlineInv
    <3> QED BY <2>2, <2>3, <3>1, <3>2, Zenon DEF SliceInv, Stamped, Expired
  <2>7. SliceInv(t, c)'
    BY <2>4, <2>6, Zenon DEF SliceInv
  <2> QED BY <2>1, <2>4, <2>5, <2>7, DeadlineLocal, Zenon
<1>2. CASE UNCHANGED <<TASK, DEADLINE, at, pc, us, fs>>
  BY <1>2, ZenonT(30) DEF DeadlineInv, SliceInv
<1> QED BY <1>1, <1>2, Zenon
    DEF Preempt, PreemptPanic, PreemptIrrelevant, PreemptDefer, PreemptNotYet

(* The clock, too, preserves DeadlineInv.                                  *)
LEMMA ExpireDeadline ==
  ASSUME IInv, DeadlineInv, NEW c \in Cont, Expire(c)
  PROVE  DeadlineInv'
<1> SUFFICES ASSUME NEW t \in Thread, NEW d \in Cont, fs'[t] = d
             PROVE  SliceInv(t, d)'
  BY Zenon DEF DeadlineInv
<1> USE DEF Expire, lingerVars, stackVars, threadVars
<1>1. TypeOK /\ SliceInv(t, d)
  BY Zenon DEF DeadlineInv, IInv
<1>2. CASE d # c
  <2>1. DEADLINE'[d] = DEADLINE[d]
    BY <1>1, <1>2, Zenon DEF TypeOK
  <2> QED BY <1>1, <2>1, Zenon DEF SliceInv
<1>3. CASE d = c
  <2>1. DEADLINE[d] = "future" /\ DEADLINE'[d] = "past" /\ us[t] \in Budget
    BY <1>1, <1>3, Zenon DEF TypeOK
  <2>2. \/ us[t] = "us" /\ pc[t] # "switch" /\ at[d] # "schedule"
        \/ pc[t] \notin {"switch", "in"}
    BY <1>1, <2>1, Zenon DEF SliceInv, Stamped, Budget
  <2> QED BY <1>1, <2>1, <2>2, SMTT(30) DEF SliceInv, Stamped
<1> QED BY <1>2, <1>3, Zenon

(* Every step preserves DeadlineInv.                                       *)
LEMMA StepDeadline == IInv /\ DeadlineInv /\ [Next]_vars => DeadlineInv'
<1> SUFFICES ASSUME IInv, DeadlineInv, [Next]_vars PROVE DeadlineInv'
  OBVIOUS
<1> USE DEF lingerVars, tlsVars, stackVars, threadVars
<1>1. CASE UNCHANGED <<TASK, DEADLINE, at, pc, us, fs>>
  BY <1>1, Zenon DEF DeadlineInv, SliceInv
<1>2. ASSUME NEW t \in Thread, NEW c \in Cont, Caller(t, c) PROVE DeadlineInv'
  <2>1. pc[t] = "caller" /\ (linger[c] # "Continuation" \/ Idle(c))
    BY <1>2, Zenon DEF Caller, Launch, Resume, DropLinger
  <2>2. TypeOK /\ Idle(c) /\ fs[t] = None
    BY <2>1, Calling, Zenon
  <2>3. Apart(t, c) /\ (fs'[t] = fs[t] \/ (fs'[t] = c /\ pc'[t] = "setup"))
    BY <1>2, <2>2, CallerApart, Zenon
  <2>4. fs'[t] = c => SliceInv(t, c)'
    BY <2>2, <2>3, ConstantsDistinct, Zenon DEF SliceInv
  <2> QED BY <2>2, <2>3, <2>4, DeadlineLocal, Zenon
<1>3. ASSUME NEW t \in Thread, Tick(t) PROVE DeadlineInv'
  BY <1>1, <1>3, Zenon DEF Tick
<1>4. CASE UNCHANGED vars
  BY <1>1, <1>4, Zenon DEF vars
<1> QED BY <1>2, <1>3, <1>4, ProceedDeadline, PreemptDeadline, ExpireDeadline, Zenon
    DEF Next, Step

(* Hence DeadlineInv always holds.                                         *)
LEMMA AlwaysDeadline == Spec => []DeadlineInv
<1>1. Init => DeadlineInv
  BY ConstantsDistinct, SMTT(30) DEF Init, DeadlineInv
<1> QED BY <1>1, StepDeadline, Inductive, PTL DEF Spec

(* A resume() whose budget is max_value() comes back only because the      *)
(* function returned or called pause().                                    *)
UnlimitedSlices ==
  \A t \in Thread : pc[t] = "back" /\ us[t] = "max" /\ TASK[fs[t]].errno =>
    TASK[fs[t]].yielded

(* preempt() never times out a function whose budget is unlimited, whatever*)
(* signals it gets and whatever budgets its earlier slices had.            *)
THEOREM UnlimitedNeverTimesOut == Spec => []UnlimitedSlices
<1>1. IInv /\ DeadlineInv => UnlimitedSlices
  <2> SUFFICES ASSUME IInv, DeadlineInv, NEW t \in Thread, pc[t] = "back",
                      us[t] = "max", TASK[fs[t]].errno
               PROVE  TASK[fs[t]].yielded
    BY Zenon DEF UnlimitedSlices
  <2>1. PICK c \in Cont : fs[t] = c
    BY Zenon DEF IInv, TypeOK, Threads, ThreadInv
  <2> QED BY <2>1, Zenon DEF DeadlineInv, SliceInv
<1> QED BY <1>1, Inductive, AlwaysDeadline, PTL

-----------------------------------------------------------------------------
(* The five values of DEADLINE keep the promise of module TimeSlice.       *)

(* The time slice of slot c, as far as the thread that runs it has come.   *)
Holder(c) == CHOOSE t \in Thread : fs[t] = c
slicePhase(c) ==
  IF Idle(c) THEN "off"
  ELSE CASE pc[Holder(c)] = "switch" -> "set"
         [] pc[Holder(c)] = "in" -> IF at[c] = "schedule" THEN "set" ELSE "on"
         [] pc[Holder(c)] = "back" -> "over"
         [] OTHER -> "off"
sliceBudget(c) == IF slicePhase(c) = "off" THEN "zero" ELSE us[Holder(c)]

(* Why preempt() would end it now, and why it has ended.                   *)
Why(d) == CASE d = "zero" -> "asked" [] d = "past" -> "expired" [] OTHER -> "none"
Ended(k) == IF k.errno THEN IF k.yielded THEN "asked" ELSE "expired" ELSE "returned"
sliceCause(c) == CASE slicePhase(c) = "on" -> Why(DEADLINE[c])
                   [] slicePhase(c) = "over" -> Ended(TASK[c])
                   [] OTHER -> "none"

Slice(c) == INSTANCE TimeSlice WITH
  phase <- slicePhase(c), budget <- sliceBudget(c), cause <- sliceCause(c)

(* What the mapping makes of each stage of resume().                       *)
View(c, p, b, y) == slicePhase(c) = p /\ sliceBudget(c) = b /\ sliceCause(c) = y
Viewed(t, c) ==
  /\ pc[t] \in {"setup", "replacing"} => View(c, "off", "zero", "none")
  /\ pc[t] = "switch" => View(c, "set", us[t], "none")
  /\ pc[t] = "in" => IF at[c] = "schedule" THEN View(c, "set", us[t], "none")
                      ELSE View(c, "on", us[t], Why(DEADLINE[c]))
  /\ pc[t] = "back" => View(c, "over", us[t], Ended(TASK[c]))
Views ==
  \A c \in Cont :
    /\ Idle(c) => View(c, "off", "zero", "none")
    /\ \A t \in Thread : fs[t] = c => Viewed(t, c)

(* It makes the same of every state.                                       *)
LEMMA Viewing == Exclusive => Views
<1> SUFFICES ASSUME Exclusive, NEW c \in Cont
             PROVE  /\ Idle(c) => View(c, "off", "zero", "none")
                    /\ \A t \in Thread : fs[t] = c => Viewed(t, c)
  BY Zenon DEF Views
<1>1. ASSUME Idle(c) PROVE View(c, "off", "zero", "none")
  BY <1>1, Zenon DEF View, slicePhase, sliceBudget, sliceCause
<1>2. ASSUME NEW t \in Thread, fs[t] = c PROVE Viewed(t, c)
  <2>1. ~Idle(c) /\ Holder(c) = t
    BY <1>2, ConstantsDistinct, Zenon DEF Idle, Holder, Exclusive
  <2>2. CASE pc[t] \in {"setup", "replacing"}
    BY <2>1, <2>2, Zenon DEF Viewed, View, slicePhase, sliceBudget, sliceCause
  <2>3. CASE pc[t] = "switch"
    BY <2>1, <2>3, Zenon DEF Viewed, View, slicePhase, sliceBudget, sliceCause
  <2>4. CASE pc[t] = "in"
    BY <2>1, <2>4, Zenon DEF Viewed, View, slicePhase, sliceBudget, sliceCause
  <2>5. CASE pc[t] = "back"
    BY <2>1, <2>5, Zenon DEF Viewed, View, slicePhase, sliceBudget, sliceCause
  <2> QED BY <2>2, <2>3, <2>4, <2>5, Zenon DEF Viewed
<1> QED BY <1>1, <1>2, Zenon

(* In particular after a step.                                             *)
LEMMA ViewingNext == (Exclusive => Views)'
BY Viewing, PTL

(* A slot that a step does not touch looks the same after it.              *)
LEMMA SameView ==
  ASSUME IInv, IInv', NEW c \in Cont,
         \A t \in Thread : (fs[t] = c \/ fs'[t] = c) =>
           UNCHANGED <<fs[t], pc[t], us[t]>>,
         UNCHANGED <<at[c], DEADLINE[c], TASK[c]>>
  PROVE  UNCHANGED Slice(c)!vars
<1>1. Views /\ Views'
  BY Viewing, ViewingNext, Zenon DEF IInv
<1>2. CASE Idle(c)
  <2>1. Idle(c)'
    BY <1>2, Zenon DEF Idle
  <2> QED BY <1>1, <1>2, <2>1, Zenon DEF Views, View, Slice!vars
<1>3. CASE ~Idle(c)
  <2>1. PICK t \in Thread : fs[t] = c
    BY <1>3, Zenon DEF Idle
  <2>2. Viewed(t, c) /\ Viewed(t, c)' /\ fs'[t] = c /\ pc'[t] = pc[t] /\ us'[t] = us[t]
    BY <1>1, <2>1, Zenon DEF Views
  <2>3. pc[t] \in {"setup", "replacing", "switch", "in", "back"}
    BY <2>1, ConstantsDistinct, SMTT(30) DEF IInv, TypeOK, Threads, ThreadInv
  <2> QED BY <2>2, <2>3, ZenonT(30) DEF Viewed, View, Slice!vars
<1> QED BY <1>2, <1>3, Zenon

(* The caller's steps change nothing in any slice.                         *)
LEMMA CallerSlice ==
  ASSUME IInv, IInv', NEW c \in Cont, NEW t \in Thread, NEW d \in Cont, Caller(t, d)
  PROVE  UNCHANGED Slice(c)!vars
<1>1. pc[t] = "caller" /\ (linger[d] # "Continuation" \/ Idle(d))
  BY Zenon DEF Caller, Launch, Resume, DropLinger
<1>2. TypeOK /\ Idle(d) /\ fs[t] = None
  BY <1>1, Calling, Zenon
<1>3. Apart(t, d) /\ (fs'[t] = fs[t] \/ (fs'[t] = d /\ pc'[t] = "setup"))
  BY <1>2, CallerApart, Zenon
<1>4. CASE c # d
  <2>1. fs[t] # c /\ fs'[t] # c
    BY <1>2, <1>3, <1>4, ConstantsDistinct, Zenon
  <2>2. \A u \in Thread : (fs[u] = c \/ fs'[u] = c) => UNCHANGED <<fs[u], pc[u], us[u]>>
    BY <1>3, <2>1, Zenon DEF Apart
  <2>3. UNCHANGED <<at[c], DEADLINE[c], TASK[c]>>
    BY <1>3, <1>4, Zenon DEF Apart
  <2> QED BY <2>2, <2>3, SameView, Zenon
<1>5. CASE c = d
  <2>1. Views /\ Views'
    BY Viewing, ViewingNext, Zenon DEF IInv
  <2>2. View(c, "off", "zero", "none")
    BY <1>2, <1>5, <2>1, Zenon DEF Views
  <2>3. View(c, "off", "zero", "none")'
    <3>1. CASE fs'[t] = fs[t]
      <4>1. Idle(c)'
        BY <1>2, <1>3, <1>5, <3>1, Zenon DEF Idle, Apart
      <4> QED BY <2>1, <4>1, Zenon DEF Views
    <3>2. CASE fs'[t] = c /\ pc'[t] = "setup"
      BY <2>1, <3>2, Zenon DEF Views, Viewed
    <3> QED BY <1>3, <1>5, <3>1, <3>2, Zenon
  <2> QED BY <2>2, <2>3, Zenon DEF View, Slice!vars
<1> QED BY <1>4, <1>5, Zenon

(* The steps of resume() and of the function, for the slice that they are  *)
(* part of.                                                                *)
LEMMA OwnSlice ==
  ASSUME IInv, IInv', DeadlineInv, NEW c \in Cont, NEW t \in Thread,
         Proceed(t, c) \/ Function(t, c)
  PROVE  Slice(c)!Next \/ UNCHANGED Slice(c)!vars
<1> USE DEF lingerVars, tlsVars, stackVars, threadVars, Resuming, Running
<1>1. TypeOK /\ Apart(t, c)
  BY RunApart, Zenon DEF IInv
<1>2. fs[t] = c
  BY Zenon
  DEF Proceed, Function, SetupThread, Bootstrap, Switch, SwitchBack, Schedule,
      ReturnShared, ResumePreemption, DeferPreemption, DisableGroup, DisableBlock,
      DisableBorrow, DisableReplace, DisableStore, CallShared, CallPause, Finish
<1>3. SliceInv(t, c) /\ StageInv(t, c) /\ Viewed(t, c) /\ us[t] \in Budget
  BY <1>1, <1>2, Installed, Viewing, Zenon DEF DeadlineInv, IInv, Views, TypeOK
<1>4. (fs'[t] = c => Viewed(t, c)') /\ (Idle(c)' => View(c, "off", "zero", "none")')
  BY ViewingNext, Zenon DEF IInv, Views
<1>5. CASE fs'[t] = c /\ pc[t] = "in" /\ pc'[t] = "in" /\ at[c] # "schedule"
           /\ at'[c] # "schedule" /\ DEADLINE'[c] = DEADLINE[c] /\ us' = us
  BY <1>3, <1>4, <1>5, Zenon DEF Viewed, View, Slice!vars
<1>6. CASE SetupThread(t, c)
  <2>1. pc[t] = "setup" /\ pc'[t] = "replacing" /\ fs'[t] = c
    BY <1>1, <1>2, <1>6, Zenon DEF SetupThread, TypeOK
  <2> QED BY <1>3, <1>4, <2>1, Zenon DEF Viewed, View, Slice!vars
<1>7. CASE Bootstrap(t, c)
  <2>1. /\ pc[t] = "replacing" /\ pc'[t] = "switch" /\ fs'[t] = c /\ us' = us
    BY <1>1, <1>2, <1>7, Zenon DEF Bootstrap, TypeOK
  <2>2. View(c, "off", "zero", "none") /\ View(c, "set", us[t], "none")'
    BY <1>3, <1>4, <2>1, Zenon DEF Viewed, View
  <2>3. Slice(c)!Set(us[t])
    BY <2>1, <2>2, Zenon DEF Slice!Set, View
  <2> QED BY <1>3, <2>3, Zenon DEF Slice!Next, Budget
<1>8. CASE Switch(t, c) /\ ~task[c].errno
  <2>1. pc[t] = "switch" /\ pc'[t] = "in" /\ fs'[t] = c /\ us' = us /\ at' = at
    BY <1>1, <1>2, <1>8, Zenon DEF Switch, TypeOK
  <2>2. at'[c] = "schedule"
    BY <1>3, <1>8, <2>1, Zenon DEF StageInv, SwitchInv
  <2> QED BY <1>3, <1>4, <2>1, <2>2, Zenon DEF Viewed, View, Slice!vars
<1>9. CASE (Switch(t, c) /\ task[c].errno) \/ Schedule(t, c)
  <2>1. /\ View(c, "set", us[t], "none") /\ DEADLINE[c] = us[t]
        /\ pc'[t] = "in" /\ fs'[t] = c /\ us' = us
        /\ at'[c] # "schedule" /\ DEADLINE'[c] = stamp(us[t])
    <3>1. CASE Switch(t, c) /\ task[c].errno
      <4>1. pc[t] = "switch" /\ pc'[t] = "in" /\ fs'[t] = c /\ us' = us /\ at' = at
        BY <1>1, <1>2, <3>1, Zenon DEF Switch, TypeOK
      <4>2. at[c] # "schedule" /\ View(c, "set", us[t], "none") /\ DEADLINE[c] = us[t]
        BY <1>3, <3>1, <4>1, Zenon DEF StageInv, SwitchInv, Paused, Viewed, SliceInv
      <4>3. DEADLINE'[c] = stamp(DEADLINE[c])
        BY <1>1, <3>1, Zenon DEF Switch, TypeOK
      <4> QED BY <4>1, <4>2, <4>3, Zenon
    <3>2. CASE Schedule(t, c)
      <4>1. /\ pc[t] = "in" /\ at[c] = "schedule" /\ pc' = pc /\ fs' = fs /\ us' = us
            /\ at'[c] = "fun" /\ DEADLINE'[c] = stamp(DEADLINE[c])
        BY <1>1, <3>2, Zenon DEF Schedule, TypeOK
      <4>2. View(c, "set", us[t], "none") /\ DEADLINE[c] = us[t]
        BY <1>3, <4>1, Zenon DEF Viewed, SliceInv
      <4> QED BY <1>2, <4>1, <4>2, Zenon
    <3> QED BY <1>9, <3>1, <3>2, Zenon
  <2>2. View(c, "on", us[t], Why(stamp(us[t])))'
    BY <1>4, <2>1, Zenon DEF Viewed, View, Why, stamp
  <2>3. Why(stamp(us[t])) \in CASE us[t] = "zero" -> {"expired"}
                                [] us[t] = "us" -> {"none", "expired"}
                                [] OTHER -> {"none"}
    BY <1>3, Zenon DEF Why, stamp, Budget
  <2>4. Slice(c)!Stamp
    BY <2>1, <2>2, <2>3, Zenon DEF Slice!Stamp, View
  <2> QED BY <2>4, Zenon DEF Slice!Next
<1>10. CASE CallPause(t, c)
  <2>1. /\ pc[t] = "in" /\ at[c] = "fun" /\ pc' = pc /\ fs' = fs /\ us' = us
        /\ at'[c] = "pause" /\ DEADLINE'[c] = "zero"
    BY <1>1, <1>10, Zenon DEF CallPause, TypeOK
  <2>2. View(c, "on", us[t], Why(DEADLINE[c])) /\ View(c, "on", us[t], "asked")'
    BY <1>2, <1>3, <1>4, <2>1, Zenon DEF Viewed, View, Why
  <2>3. Slice(c)!Pause
    BY <2>1, <2>2, Zenon DEF Slice!Pause, View
  <2> QED BY <2>3, Zenon DEF Slice!Next
<1>11. CASE DisableStore(t, c)
  <2>1. /\ pc[t] = "in" /\ at[c] = "store" /\ pc'[t] = "back" /\ fs'[t] = c /\ us' = us
        /\ TASK' = TASK
    BY <1>1, <1>2, <1>11, Zenon DEF DisableStore, TypeOK
  <2>2. DEADLINE[c] # "zero" /\ ~TASK[c].errno
    BY <1>3, <2>1, Zenon DEF StageInv, InInv
  <2>3. View(c, "on", us[t], Why(DEADLINE[c])) /\ Why(DEADLINE[c]) # "asked"
    BY <1>3, <2>1, <2>2, Zenon DEF Viewed, View, Why
  <2>4. View(c, "over", us[t], "returned")'
    BY <1>4, <2>1, <2>2, Zenon DEF Viewed, View, Ended
  <2>5. Slice(c)!Return
    BY <2>1, <2>3, <2>4, Zenon DEF Slice!Return, View
  <2> QED BY <2>5, Zenon DEF Slice!Next
<1>12. CASE SwitchBack(t, c)
  <2>1. pc[t] = "back" /\ fs'[t] = None
    BY <1>1, <1>12, Zenon DEF SwitchBack, TypeOK
  <2>2. Idle(c)'
    <3>1. \A u \in Thread : fs[u] = c => u = t
      BY <1>2, ConstantsDistinct, Zenon DEF IInv, Exclusive
    <3> QED BY <1>1, <2>1, <3>1, ConstantsDistinct, Zenon DEF Idle, Apart
  <2>3. View(c, "over", us[t], Ended(TASK[c])) /\ View(c, "off", "zero", "none")'
    BY <1>3, <1>4, <2>1, <2>2, Zenon DEF Viewed
  <2>4. Slice(c)!Leave
    BY <2>3, Zenon DEF Slice!Leave, View
  <2> QED BY <2>4, Zenon DEF Slice!Next
<1>13. CASE ReturnShared(t, c) \/ ResumePreemption(t, c) \/ DeferPreemption(t, c)
            \/ CallShared(t, c)
  BY <1>1, <1>2, <1>5, <1>13, Zenon
  DEF ReturnShared, ResumePreemption, DeferPreemption, CallShared, TypeOK
<1>14. CASE DisableGroup(t, c) \/ DisableBlock(t, c) \/ DisableBorrow(t, c)
            \/ DisableReplace(t, c)
  BY <1>1, <1>2, <1>5, <1>14, Zenon
  DEF DisableGroup, DisableBlock, DisableBorrow, DisableReplace, TypeOK
<1>15. ASSUME NEW r \in {"Ok", "Err"}, Finish(t, c, r)
       PROVE  Slice(c)!Next \/ UNCHANGED Slice(c)!vars
  <2>1. /\ pc[t] = "in" /\ at[c] = "fun" /\ at'[c] = "returned"
        /\ UNCHANGED <<fs, pc, us, DEADLINE>>
    BY <1>1, <1>15, Zenon DEF Finish, TypeOK
  <2> QED BY <1>2, <1>5, <2>1, Zenon
<1> QED BY <1>6, <1>7, <1>8, <1>9, <1>10, <1>11, <1>12, <1>13, <1>14, <1>15, Zenon
    DEF Proceed, Function

(* The same steps, for another slice.                                      *)
LEMMA OtherSlice ==
  ASSUME IInv, IInv', NEW c \in Cont, NEW t \in Thread, NEW d \in Cont \ {c},
         Proceed(t, d) \/ Function(t, d)
  PROVE  UNCHANGED Slice(c)!vars
<1> USE DEF lingerVars, tlsVars, stackVars, threadVars, Resuming, Running
<1>1. TypeOK /\ Apart(t, d)
  BY RunApart, Zenon DEF IInv
<1>2. fs[t] = d
  BY Zenon
  DEF Proceed, Function, SetupThread, Bootstrap, Switch, SwitchBack, Schedule,
      ReturnShared, ResumePreemption, DeferPreemption, DisableGroup, DisableBlock,
      DisableBorrow, DisableReplace, DisableStore, CallShared, CallPause, Finish
<1>3. fs' = fs \/ fs'[t] = None
  <2>1. CASE SwitchBack(t, d)
    BY <1>1, <2>1, Zenon DEF SwitchBack, TypeOK
  <2>2. CASE ~SwitchBack(t, d)
    BY <2>2, Zenon
    DEF Proceed, Function, SetupThread, Bootstrap, Switch, Schedule, ReturnShared,
        ResumePreemption, DeferPreemption, DisableGroup, DisableBlock, DisableBorrow,
        DisableReplace, DisableStore, CallShared, CallPause, Finish
  <2> QED BY <2>1, <2>2, Zenon
<1>4. fs[t] # c /\ fs'[t] # c
  BY <1>2, <1>3, ConstantsDistinct, Zenon
<1>5. \A u \in Thread : (fs[u] = c \/ fs'[u] = c) => UNCHANGED <<fs[u], pc[u], us[u]>>
  BY <1>1, <1>4, Zenon DEF Apart
<1>6. UNCHANGED <<at[c], DEADLINE[c], TASK[c]>>
  BY <1>1, Zenon DEF Apart
<1> QED BY <1>5, <1>6, SameView, Zenon

(* preempt() ends a slice that it has cause to end, or leaves it alone.    *)
LEMMA PreemptSlice ==
  ASSUME IInv, IInv', DeadlineInv, NEW c \in Cont, NEW t \in Thread, NEW s \in Thread,
         Preempt(t, s)
  PROVE  Slice(c)!Preempt \/ UNCHANGED Slice(c)!vars
<1> USE DEF lingerVars, tlsVars, stackVars, threadVars
<1>1. CASE PreemptPause(t, s)
  <2>1. PICK d \in Cont : fs[t] = d
    BY <1>1, RelevantRunning, Zenon DEF PreemptPause
  <2>2. TypeOK /\ pc[t] = "in" /\ InInv(t, d)
    BY <1>1, <2>1, RelevantRunning, Zenon DEF PreemptPause
  <2>3. /\ TASK'[d].yielded <=> DEADLINE[d] = "zero"
        /\ TASK'[d].errno
        /\ \A e \in Cont \ {d} : TASK'[e] = TASK[e]
    BY <1>1, <2>1, <2>2, PauseTask, Zenon
  <2>4. /\ pc'[t] = "back" /\ UNCHANGED <<DEADLINE, at, us, fs>>
        /\ \A u \in Thread \ {t} : pc'[u] = pc[u]
    BY <1>1, <2>2, Zenon DEF PreemptPause, TypeOK
  <2>5. CASE c # d
    <3>1. \A u \in Thread : (fs[u] = c \/ fs'[u] = c) => UNCHANGED <<fs[u], pc[u], us[u]>>
      BY <2>1, <2>4, <2>5, Zenon
    <3>2. UNCHANGED <<at[c], DEADLINE[c], TASK[c]>>
      BY <2>3, <2>4, <2>5, Zenon
    <3> QED BY <3>1, <3>2, SameView, Zenon
  <2>6. CASE c = d
    <3>1. at[c] # "schedule" /\ Expired(DEADLINE[c])
      BY <1>1, <2>1, <2>2, <2>6, ConstantsDistinct, Zenon
      DEF PreemptPause, is_preemptible, InInv, Paused
    <3>2. SliceInv(t, c) /\ us[t] \in Budget /\ Viewed(t, c) /\ Viewed(t, c)'
      BY <2>1, <2>2, <2>4, <2>6, Viewing, ViewingNext, Zenon
      DEF DeadlineInv, IInv, Views, TypeOK
    <3>3. DEADLINE[c] \in {"zero", "past"}
      BY <2>2, <3>1, <3>2, Zenon DEF SliceInv, Stamped, Budget, Expired
    <3>4. View(c, "on", us[t], Why(DEADLINE[c])) /\ Why(DEADLINE[c]) # "none"
      BY <2>2, <3>1, <3>2, <3>3, Zenon DEF Viewed, View, Why
    <3>5. Ended(TASK'[c]) = Why(DEADLINE[c])
      BY <2>3, <2>6, <3>3, Zenon DEF Ended, Why
    <3>6. View(c, "over", us[t], Why(DEADLINE[c]))'
      BY <2>4, <3>2, <3>5, Zenon DEF Viewed, View
    <3>7. Slice(c)!Preempt
      BY <2>4, <3>4, <3>6, Zenon DEF Slice!Preempt, View
    <3> QED BY <3>7, Zenon
  <2> QED BY <2>5, <2>6, Zenon
<1>2. CASE UNCHANGED <<TASK, DEADLINE, at, pc, us, fs>>
  BY <1>2, SameView, Zenon
<1> QED BY <1>1, <1>2, Zenon
    DEF Preempt, PreemptPanic, PreemptIrrelevant, PreemptDefer, PreemptNotYet

(* The clock passes the deadline of a slice that has one.                  *)
LEMMA ExpireSlice ==
  ASSUME IInv, IInv', DeadlineInv, NEW c \in Cont, NEW d \in Cont, Expire(d)
  PROVE  Slice(c)!Clock \/ UNCHANGED Slice(c)!vars
<1> USE DEF Expire, lingerVars, stackVars, threadVars
<1>1. /\ UNCHANGED <<TASK, at, pc, us, fs>>
      /\ DEADLINE[d] = "future" /\ DEADLINE'[d] = "past"
      /\ \A e \in Cont \ {d} : DEADLINE'[e] = DEADLINE[e]
  BY Zenon DEF IInv, TypeOK
<1>2. CASE c # d
  BY <1>1, <1>2, SameView, Zenon
<1>3. CASE c = d
  <2>1. Views /\ Views'
    BY Viewing, ViewingNext, Zenon DEF IInv
  <2>2. CASE Idle(c)
    <3>1. Idle(c)'
      BY <1>1, <2>2, Zenon DEF Idle
    <3> QED BY <2>1, <2>2, <3>1, Zenon DEF Views, View, Slice!vars
  <2>3. CASE ~Idle(c)
    <3>1. PICK t \in Thread : fs[t] = c
      BY <2>3, Zenon DEF Idle
    <3>2. /\ SliceInv(t, c) /\ StageInv(t, c) /\ us[t] \in Budget
          /\ Viewed(t, c) /\ Viewed(t, c)'
      BY <1>1, <2>1, <3>1, Installed, Zenon DEF DeadlineInv, IInv, TypeOK, Views
    <3>3. CASE pc[t] = "in" /\ at[c] # "schedule"
      <4>1. us[t] = "us"
        BY <1>1, <1>3, <3>2, <3>3, Zenon DEF SliceInv, Stamped, Budget
      <4>2. View(c, "on", "us", "none") /\ View(c, "on", "us", "expired")'
        BY <1>1, <1>3, <3>2, <3>3, <4>1, Zenon DEF Viewed, View, Why
      <4> QED BY <4>2, Zenon DEF Slice!Clock, View
    <3>4. CASE pc[t] = "in" /\ at[c] = "schedule"
      BY <1>1, <3>2, <3>4, Zenon DEF Viewed, View, Slice!vars
    <3>5. CASE pc[t] # "in"
      <4>1. pc[t] \in {"setup", "replacing", "switch", "back"}
        BY <3>1, <3>5, ConstantsDistinct, SMTT(30) DEF IInv, TypeOK, Threads, ThreadInv
      <4> QED BY <1>1, <3>2, <4>1, Zenon DEF Viewed, View, Slice!vars
    <3> QED BY <3>3, <3>4, <3>5, Zenon
  <2> QED BY <2>2, <2>3, Zenon
<1> QED BY <1>2, <1>3, Zenon

(* Every step of the system is one step of each slice, or none.            *)
LEMMA StepSlice ==
  ASSUME IInv, IInv', DeadlineInv, [Next]_vars, NEW c \in Cont
  PROVE  Slice(c)!Next \/ UNCHANGED Slice(c)!vars
<1> USE DEF lingerVars, tlsVars, stackVars, threadVars
<1>1. ASSUME NEW t \in Thread, NEW d \in Cont, Caller(t, d)
      PROVE  UNCHANGED Slice(c)!vars
  BY <1>1, CallerSlice, Zenon
<1>2. ASSUME NEW t \in Thread, NEW d \in Cont, Proceed(t, d) \/ Function(t, d)
      PROVE  Slice(c)!Next \/ UNCHANGED Slice(c)!vars
  <2>1. CASE d = c
    BY <1>2, <2>1, OwnSlice, Zenon
  <2>2. CASE d # c
    <3>1. d \in Cont \ {c}
      BY <2>2, Zenon
    <3> QED BY <1>2, <3>1, OtherSlice, Zenon
  <2> QED BY <2>1, <2>2, Zenon
<1>3. ASSUME NEW t \in Thread, NEW s \in Thread, Preempt(t, s)
      PROVE  Slice(c)!Next \/ UNCHANGED Slice(c)!vars
  BY <1>3, PreemptSlice, Zenon DEF Slice!Next
<1>4. ASSUME NEW d \in Cont, Expire(d)
      PROVE  Slice(c)!Next \/ UNCHANGED Slice(c)!vars
  BY <1>4, ExpireSlice, Zenon DEF Slice!Next
<1>5. CASE UNCHANGED <<TASK, DEADLINE, at, pc, us, fs>>
  BY <1>5, SameView, Zenon
<1>6. ASSUME NEW t \in Thread, Tick(t)
      PROVE  Slice(c)!Next \/ UNCHANGED Slice(c)!vars
  BY <1>5, <1>6, Zenon DEF Tick
<1>7. CASE UNCHANGED vars
  BY <1>5, <1>7, Zenon DEF vars
<1> QED BY <1>1, <1>2, <1>3, <1>4, <1>6, <1>7, Zenon DEF Next, Step

(* The library keeps the promise of a time budget to every preemptible     *)
(* function, whatever the threads and the signals do: resume() only finds  *)
(* it timed out once its budget has passed, only finds it yielded after a  *)
(* pause() in this very slice, and a function that returns after pause()   *)
(* was called has been preempted first.                                    *)
THEOREM ImplementsTimeSlice == ASSUME NEW c \in Cont PROVE Spec => Slice(c)!Spec
<1>1. Init => Slice(c)!Init
  <2> SUFFICES ASSUME Init PROVE Slice(c)!Init
    OBVIOUS
  <2>1. Idle(c)
    BY ConstantsDistinct, Zenon DEF Init, Idle
  <2> QED BY <2>1, Zenon DEF slicePhase, sliceBudget, sliceCause, Slice!Init
<1>2. IInv /\ IInv' /\ DeadlineInv /\ [Next]_vars => [Slice(c)!Next]_(Slice(c)!vars)
  BY StepSlice, Zenon
<1> QED BY <1>1, <1>2, Inductive, AlwaysDeadline, PTL DEF Spec, Slice!Spec
=============================================================================
