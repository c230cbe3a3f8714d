--------------------------- MODULE PreemptionInv ----------------------------
(***************************************************************************)
(* The inductive invariant of Preemption, for any number of threads and    *)
(* slots and for any way of moving preemptible functions between threads,  *)
(* and the proof that each step preserves it.                              *)
(***************************************************************************)
EXTENDS Preemption, TLAPS

(* Where a function can be when it is paused: in its own libset.           *)
Paused == {"fun", "resume_preemption", "returned"}

(* Where schedule() is after fun() has returned.                           *)
After == {"returned", "mask", "replace", "replacing", "store"}

(* What the closure and schedule()'s local hold agrees with how far the    *)
(* function has come.                                                      *)
StackInv(c) ==
  /\ functional[c] \in (IF at[c] \in After THEN {"Ok", "Err"} ELSE {"Function"})
  /\ at[c] \notin {"none", "schedule"} => signal[c] \in Thread

(* The Linger, the stack and the TLS of a slot no function runs on.        *)
Parked(c) ==
  /\ TASK[c] = Default
  /\ ~BOOTSTRAP[c]
  /\ SIGNAL[c] = None
  /\ ~DEFERRED[c]
  /\ dirty[c] <=> linger[c] = "Continuation" /\ task[c].errno
  /\ linger[c] = "Continuation" => StackInv(c)
  /\ dirty[c] => at[c] \in Paused
  /\ ~dirty[c] => at[c] = "none"
  /\ linger[c] # "Continuation" => functional[c] = "Empty"
  /\ linger[c] = "none" => ~asked[c]

SetupInv(t, c) == Parked(c) /\ ~asked[c]

SwitchInv(t, c) ==
  /\ TASK[c] = Default
  /\ SIGNAL[c] = t
  /\ ~DEFERRED[c]
  /\ ~asked[c]
  /\ StackInv(c)
  /\ BOOTSTRAP[c] <=> ~task[c].errno
  /\ dirty[c] <=> task[c].errno
  /\ at[c] \in (IF task[c].errno THEN Paused ELSE {"schedule"})
  /\ DEADLINE[c] \in Budget

(* Masking, deferral and the deadline while the function has control.      *)
InInv(t, c) ==
  /\ TASK[c].checkpoint
  /\ ~TASK[c].errno
  /\ t \in callMask[t]
  /\ at[c] # "none"
  /\ StackInv(c)
  /\ BOOTSTRAP[c] <=> at[c] = "schedule"
  /\ dirty[c] <=> at[c] # "schedule"
  /\ SIGNAL[c] = IF at[c] = "store" THEN None ELSE t
  /\ group[t] = IF at[c] \in Paused THEN c ELSE Shared
  /\ DEFERRED[c] => t \in mask[t]
  /\ at[c] = "schedule" => t \in mask[t] /\ ~DEFERRED[c] /\ ~asked[c] /\ DEADLINE[c] \in Budget
  /\ at[c] \in {"fun", "returned"} => t \notin mask[t]
  /\ at[c] \in {"nonpreemptible", "pause", "resume_preemption", "mask"} =>
       (t \in mask[t] => DEFERRED[c])
  /\ at[c] # "schedule" =>
       /\ DEADLINE[c] # "us"
       /\ DEADLINE[c] = "zero" <=> asked[c]
  /\ asked[c] =>
       \/ at[c] = "pause"
       \/ at[c] \in {"nonpreemptible", "resume_preemption"} /\ DEFERRED[c]
       \/ at[c] = "fun" /\ t \in pend[t]

BackInv(t, c) ==
  /\ ~BOOTSTRAP[c]
  /\ SIGNAL[c] = None
  /\ ~DEFERRED[c]
  /\ dirty[c] <=> TASK[c].errno
  /\ IF TASK[c].errno
       THEN /\ StackInv(c)
            /\ at[c] \in Paused
            /\ TASK[c].yielded <=> asked[c]
       ELSE /\ functional[c] \in {"Ok", "Err"}
            /\ at[c] = "none"
            /\ ~asked[c]

(* What holds of thread t and the slot c that is installed on it.          *)
StageInv(t, c) ==
  /\ linger[c] = "Continuation"
  /\ pc[t] \in {"setup", "replacing"} => SetupInv(t, c)
  /\ pc[t] = "switch" => SwitchInv(t, c)
  /\ pc[t] = "in" => InInv(t, c)
  /\ pc[t] = "back" => BackInv(t, c)

ThreadInv(t) ==
  /\ fs[t] = None <=> pc[t] = "caller"
  /\ pc[t] # "in" => group[t] = Shared /\ (signaler[t] => t \in mask[t])
  /\ pc[t] \notin {"caller", "setup"} => signaler[t]
  /\ pend[t] \subseteq {t}

Exclusive == \A t, u \in Thread : fs[t] = fs[u] /\ fs[t] # None => t = u
Threads == \A t \in Thread : ThreadInv(t)
Slots == \A c \in Cont : Idle(c) => Parked(c)
Stages == \A t \in Thread, c \in Cont : fs[t] = c => StageInv(t, c)

(* The inductive invariant.                                                *)
IInv == TypeOK /\ Exclusive /\ Threads /\ Slots /\ Stages

(* A step of thread t on slot c touches no other thread and no other slot. *)
Frame(t, c) ==
  /\ \A d \in Cont \ {c} :
       /\ linger'[d] = linger[d]
       /\ functional'[d] = functional[d]
       /\ task'[d] = task[d]
       /\ TASK'[d] = TASK[d]
       /\ BOOTSTRAP'[d] = BOOTSTRAP[d]
       /\ DEADLINE'[d] = DEADLINE[d]
       /\ SIGNAL'[d] = SIGNAL[d]
       /\ DEFERRED'[d] = DEFERRED[d]
       /\ at'[d] = at[d]
       /\ signal'[d] = signal[d]
       /\ asked'[d] = asked[d]
       /\ dirty'[d] = dirty[d]
  /\ \A u \in Thread \ {t} :
       /\ pc'[u] = pc[u]
       /\ fs'[u] = fs[u]
       /\ group'[u] = group[u]
       /\ mask'[u] = mask[u]
       /\ callMask'[u] = callMask[u]
       /\ signaler'[u] = signaler[u]
       /\ pend'[u] = pend[u]

(* It is therefore enough to look at t and c after the step.               *)
LEMMA Local ==
  ASSUME IInv, TypeOK', NEW t \in Thread, NEW c \in Cont, Frame(t, c),
         fs[t] = c \/ (fs[t] = None /\ Idle(c)),
         fs'[t] \in {c, None},
         ThreadInv(t)',
         fs'[t] = c => StageInv(t, c)',
         fs'[t] = None => Parked(c)'
  PROVE  IInv'
<1> USE ConstantsDistinct
<1>1. \A u \in Thread \ {t} : fs[u] # c /\ fs'[u] = fs[u]
  BY SMTT(30) DEF IInv, Exclusive, Idle, Frame
<1>2. Exclusive'
  BY <1>1, Zenon DEF IInv, Exclusive
<1>3. Threads'
  <2> SUFFICES ASSUME NEW u \in Thread, u # t PROVE ThreadInv(u)'
    BY Zenon DEF Threads
  <2>1. ThreadInv(u)
    BY Zenon DEF IInv, Threads
  <2> QED BY <2>1, Zenon DEF ThreadInv, Frame
<1>4. Slots'
  <2> SUFFICES ASSUME NEW d \in Cont, Idle(d)', d # c PROVE Parked(d)'
    BY Zenon DEF Slots, Idle
  <2>1. Idle(d)
    BY <1>1, Zenon DEF Idle
  <2>2. Parked(d)
    BY <2>1, Zenon DEF IInv, Slots
  <2> QED BY <2>2, ZenonT(60) DEF Parked, StackInv, Frame
<1>5. Stages'
  <2> SUFFICES ASSUME NEW u \in Thread, NEW d \in Cont, fs'[u] = d, u # t
               PROVE  StageInv(u, d)'
    BY Zenon DEF Stages
  <2>1. fs[u] = d /\ d # c
    BY <1>1, Zenon
  <2>2. StageInv(u, d)
    BY <2>1, ZenonT(60) DEF IInv, Stages
  <2>3. Parked(d) => Parked(d)'
    BY <2>1, ZenonT(30) DEF Parked, StackInv, Frame
  <2>4. StackInv(d) => StackInv(d)'
    BY <2>1, Zenon DEF StackInv, Frame
  <2> QED
    BY <2>1, <2>2, <2>3, <2>4, SMTT(30)
    DEF StageInv, SetupInv, SwitchInv, InInv, BackInv, Frame
<1> QED BY <1>2, <1>3, <1>4, <1>5, Zenon DEF IInv

(* The same for a step after which t still runs c's function.              *)
LEMMA LocalIn ==
  ASSUME IInv, TypeOK', NEW t \in Thread, NEW c \in Cont, Frame(t, c),
         fs[t] = c, fs'[t] = c, pc'[t] = "in", linger'[c] = "Continuation",
         signaler'[t], pend'[t] \subseteq {t}, InInv(t, c)'
  PROVE  IInv'
<1>1. ThreadInv(t)'
  BY ConstantsDistinct, Zenon DEF ThreadInv
<1>2. StageInv(t, c)'
  BY Zenon DEF StageInv
<1> QED BY <1>1, <1>2, Local, ConstantsDistinct, Zenon

(* Updates of masks and of tasks keep their types.                         *)
LEMMA MaskType ==
  ASSUME NEW f \in [Thread -> SUBSET Thread], NEW t \in Thread, NEW s \in Thread
  PROVE  /\ [f EXCEPT ![t] = @ \cup {s}] \in [Thread -> SUBSET Thread]
         /\ [f EXCEPT ![t] = @ \ {s}] \in [Thread -> SUBSET Thread]
<1>1. f[t] \cup {s} \in SUBSET Thread /\ f[t] \ {s} \in SUBSET Thread
  OBVIOUS
<1> QED BY <1>1, Zenon

(* The same for the fields of a Task.                                      *)
LEMMA TaskType ==
  ASSUME NEW f \in [Cont -> Task], NEW c \in Cont, NEW b \in BOOLEAN
  PROVE  /\ [f EXCEPT ![c].checkpoint = b] \in [Cont -> Task]
         /\ [f EXCEPT ![c].errno = b] \in [Cont -> Task]
<1>1. [f[c] EXCEPT !.checkpoint = b] \in Task /\ [f[c] EXCEPT !.errno = b] \in Task
  BY Zenon DEF Task
<1> QED BY <1>1, Zenon

(* What t knows when it calls in, has c installed, or runs c's function.   *)
LEMMA Calling ==
  ASSUME IInv, NEW t \in Thread, NEW c \in Cont, pc[t] = "caller",
         linger[c] # "Continuation" \/ Idle(c)
  PROVE  TypeOK /\ ThreadInv(t) /\ Idle(c) /\ Parked(c) /\ fs[t] = None
<1>1. TypeOK /\ ThreadInv(t)
  BY Zenon DEF IInv, Threads
<1>2. Idle(c)
  BY Zenon DEF IInv, Stages, StageInv, Idle
<1> QED BY <1>1, <1>2, Zenon DEF IInv, Slots, ThreadInv

(* The thread has c installed.                                             *)
LEMMA Installed ==
  ASSUME IInv, NEW t \in Thread, NEW c \in Cont, fs[t] = c
  PROVE  TypeOK /\ ThreadInv(t) /\ StageInv(t, c)
BY Zenon DEF IInv, Threads, Stages

(* The thread runs c's function.                                           *)
LEMMA InFunction ==
  ASSUME IInv, NEW t \in Thread, NEW c \in Cont, fs[t] = c, pc[t] = "in"
  PROVE  /\ TypeOK /\ InInv(t, c) /\ linger[c] = "Continuation"
         /\ signaler[t] /\ pend[t] \subseteq {t}
BY Installed, Zenon DEF ThreadInv, StageInv

(* Schedule preserves the invariant.                                       *)
LEMMA ScheduleStep ==
  ASSUME IInv, NEW t \in Thread, NEW c \in Cont, Schedule(t, c)
  PROVE  IInv'
<1> USE DEF Kick, Unblock, Schedule, Running, Quiet, lingerVars, tlsVars,
      stackVars, threadVars, kernelVars, ghostVars
<1>1. /\ TypeOK /\ InInv(t, c) /\ linger[c] = "Continuation"
      /\ signaler[t] /\ pend[t] \subseteq {t}
  BY InFunction, Zenon
<1>2. TypeOK'
  BY <1>1, ZenonT(30)
  DEF TypeOK, InInv, StackInv, After, Task, Default, Locations, Budget,
      Deadline, stamp
<1>3. Frame(t, c)
  BY <1>1, ZenonT(30) DEF TypeOK, Frame
<1>4. InInv(t, c)'
  BY <1>1, ConstantsDistinct, SMTT(30)
  DEF TypeOK, InInv, StackInv, Paused, After, Task, Default, Locations, Budget,
      Deadline, stamp
<1>5. /\ fs[t] = c /\ fs'[t] = c /\ pc'[t] = "in" /\ linger'[c] = "Continuation"
      /\ signaler'[t] /\ pend'[t] \subseteq {t}
  BY <1>1, Zenon DEF TypeOK, InInv
<1> QED BY <1>2, <1>3, <1>4, <1>5, LocalIn, Zenon

(* CallShared preserves the invariant.                                     *)
LEMMA CallSharedStep ==
  ASSUME IInv, NEW t \in Thread, NEW c \in Cont, CallShared(t, c)
  PROVE  IInv'
<1> USE DEF CallShared, Running, Quiet, lingerVars, tlsVars, stackVars,
      threadVars, kernelVars, ghostVars
<1>1. /\ TypeOK /\ InInv(t, c) /\ linger[c] = "Continuation"
      /\ signaler[t] /\ pend[t] \subseteq {t}
  BY InFunction, Zenon
<1>2. TypeOK'
  BY <1>1, Zenon
  DEF TypeOK, InInv, StackInv, After, Task, Default, Locations, Budget,
      Deadline, stamp
<1>3. Frame(t, c)
  BY <1>1, Zenon DEF TypeOK, Frame
<1>4. InInv(t, c)'
  BY <1>1, ConstantsDistinct, ZenonT(30)
  DEF TypeOK, InInv, StackInv, Paused, After, Task, Default, Locations, Budget,
      Deadline, stamp
<1>5. /\ fs[t] = c /\ fs'[t] = c /\ pc'[t] = "in" /\ linger'[c] = "Continuation"
      /\ signaler'[t] /\ pend'[t] \subseteq {t}
  BY <1>1, Zenon DEF TypeOK, InInv
<1> QED BY <1>2, <1>3, <1>4, <1>5, LocalIn, Zenon

(* ReturnShared preserves the invariant.                                   *)
LEMMA ReturnSharedStep ==
  ASSUME IInv, NEW t \in Thread, NEW c \in Cont, ReturnShared(t, c)
  PROVE  IInv'
<1> USE DEF ReturnShared, Running, Quiet, lingerVars, tlsVars, stackVars,
      threadVars, kernelVars, ghostVars
<1>1. /\ TypeOK /\ InInv(t, c) /\ linger[c] = "Continuation"
      /\ signaler[t] /\ pend[t] \subseteq {t}
  BY InFunction, Zenon
<1>2. TypeOK'
  BY <1>1, Zenon
  DEF TypeOK, InInv, StackInv, After, Task, Default, Locations, Budget,
      Deadline, stamp
<1>3. Frame(t, c)
  BY <1>1, Zenon DEF TypeOK, Frame
<1>4. InInv(t, c)'
  BY <1>1, ConstantsDistinct, ZenonT(30)
  DEF TypeOK, InInv, StackInv, Paused, After, Task, Default, Locations, Budget,
      Deadline, stamp
<1>5. /\ fs[t] = c /\ fs'[t] = c /\ pc'[t] = "in" /\ linger'[c] = "Continuation"
      /\ signaler'[t] /\ pend'[t] \subseteq {t}
  BY <1>1, Zenon DEF TypeOK, InInv
<1> QED BY <1>2, <1>3, <1>4, <1>5, LocalIn, Zenon

(* ResumePreemption preserves the invariant.                               *)
LEMMA ResumePreemptionStep ==
  ASSUME IInv, NEW t \in Thread, NEW c \in Cont, ResumePreemption(t, c)
  PROVE  IInv'
<1> USE DEF Kick, ResumePreemption, Running, Quiet, lingerVars, tlsVars,
      stackVars, threadVars, kernelVars, ghostVars
<1>1. /\ TypeOK /\ InInv(t, c) /\ linger[c] = "Continuation"
      /\ signaler[t] /\ pend[t] \subseteq {t}
  BY InFunction, Zenon
<1>2. TypeOK'
  <2>1. SIGNAL[c] = t
    BY <1>1, Zenon DEF InInv
  <2>2. CASE DEFERRED[c]
    <3>1. /\ pend' = [pend EXCEPT ![t] = @ \cup {t}]
          /\ mask' = [mask EXCEPT ![t] = @ \ {t}]
      BY <2>1, <2>2, Zenon
    <3>2. pend' \in [Thread -> SUBSET Thread] /\ mask' \in [Thread -> SUBSET Thread]
      BY ONLY <1>1, <3>1, t \in Thread, MaskType, Zenon DEF TypeOK
    <3>3. DEFERRED' \in [Cont -> BOOLEAN] /\ at' \in [Cont -> Locations]
      BY <1>1, Zenon DEF TypeOK, Locations
    <3> QED BY <1>1, <3>2, <3>3, Zenon DEF TypeOK
  <2>3. CASE ~DEFERRED[c]
    BY <1>1, <2>3, Zenon DEF TypeOK, Locations
  <2> QED BY <2>2, <2>3, Zenon
<1>3. Frame(t, c)
  BY <1>1, ZenonT(30) DEF TypeOK, Frame
<1>4. InInv(t, c)'
  <2>1. CASE DEFERRED[c]
    BY <1>1, ConstantsDistinct, <2>1, SMTT(30)
    DEF TypeOK, InInv, StackInv, Paused, After, Task, Default, Locations,
        Budget, Deadline, stamp
  <2>2. CASE ~DEFERRED[c]
    BY <1>1, ConstantsDistinct, <2>2, Zenon
    DEF TypeOK, InInv, StackInv, Paused, After, Task, Default, Locations,
        Budget, Deadline, stamp
  <2> QED BY <2>1, <2>2, Zenon
<1>5. /\ fs[t] = c /\ fs'[t] = c /\ pc'[t] = "in" /\ linger'[c] = "Continuation"
      /\ signaler'[t] /\ pend'[t] \subseteq {t}
  BY <1>1, SMTT(30) DEF TypeOK, InInv
<1> QED BY <1>2, <1>3, <1>4, <1>5, LocalIn, Zenon

(* CallPause preserves the invariant.                                      *)
LEMMA CallPauseStep ==
  ASSUME IInv, NEW t \in Thread, NEW c \in Cont, CallPause(t, c)
  PROVE  IInv'
<1> USE DEF CallPause, Running, Quiet, lingerVars, tlsVars, stackVars,
      threadVars, kernelVars, ghostVars
<1>1. /\ TypeOK /\ InInv(t, c) /\ linger[c] = "Continuation"
      /\ signaler[t] /\ pend[t] \subseteq {t}
  BY InFunction, Zenon
<1>2. TypeOK'
  BY <1>1, Zenon
  DEF TypeOK, InInv, StackInv, After, Task, Default, Locations, Budget,
      Deadline, stamp
<1>3. Frame(t, c)
  BY <1>1, ZenonT(30) DEF TypeOK, Frame
<1>4. InInv(t, c)'
  BY <1>1, ConstantsDistinct, ZenonT(30)
  DEF TypeOK, InInv, StackInv, Paused, After, Task, Default, Locations, Budget,
      Deadline, stamp
<1>5. /\ fs[t] = c /\ fs'[t] = c /\ pc'[t] = "in" /\ linger'[c] = "Continuation"
      /\ signaler'[t] /\ pend'[t] \subseteq {t}
  BY <1>1, Zenon DEF TypeOK, InInv
<1> QED BY <1>2, <1>3, <1>4, <1>5, LocalIn, Zenon

(* DeferPreemption preserves the invariant.                                *)
LEMMA DeferPreemptionStep ==
  ASSUME IInv, NEW t \in Thread, NEW c \in Cont, DeferPreemption(t, c)
  PROVE  IInv'
<1> USE DEF DeferMask, DeferPreemption, Running, Quiet, lingerVars, tlsVars,
      stackVars, threadVars, kernelVars, ghostVars
<1>1. /\ TypeOK /\ InInv(t, c) /\ linger[c] = "Continuation"
      /\ signaler[t] /\ pend[t] \subseteq {t}
  BY InFunction, Zenon
<1>2. TypeOK'
  BY <1>1, SMTT(30)
  DEF TypeOK, InInv, StackInv, After, Task, Default, Locations, Budget,
      Deadline, stamp
<1>3. Frame(t, c)
  BY <1>1, Zenon DEF TypeOK, Frame
<1>4. InInv(t, c)'
  BY <1>1, ConstantsDistinct, ZenonT(30)
  DEF TypeOK, InInv, StackInv, Paused, After, Task, Default, Locations, Budget,
      Deadline, stamp
<1>5. /\ fs[t] = c /\ fs'[t] = c /\ pc'[t] = "in" /\ linger'[c] = "Continuation"
      /\ signaler'[t] /\ pend'[t] \subseteq {t}
  BY <1>1, Zenon DEF TypeOK, InInv
<1> QED BY <1>2, <1>3, <1>4, <1>5, LocalIn, Zenon

(* DisableGroup preserves the invariant.                                   *)
LEMMA DisableGroupStep ==
  ASSUME IInv, NEW t \in Thread, NEW c \in Cont, DisableGroup(t, c)
  PROVE  IInv'
<1> USE DEF DisableGroup, Running, Quiet, lingerVars, tlsVars, stackVars,
      threadVars, kernelVars, ghostVars
<1>1. /\ TypeOK /\ InInv(t, c) /\ linger[c] = "Continuation"
      /\ signaler[t] /\ pend[t] \subseteq {t}
  BY InFunction, Zenon
<1>2. TypeOK'
  BY <1>1, Zenon
  DEF TypeOK, InInv, StackInv, After, Task, Default, Locations, Budget,
      Deadline, stamp
<1>3. Frame(t, c)
  BY <1>1, Zenon DEF TypeOK, Frame
<1>4. InInv(t, c)'
  BY <1>1, ConstantsDistinct, ZenonT(30)
  DEF TypeOK, InInv, StackInv, Paused, After, Task, Default, Locations, Budget,
      Deadline, stamp
<1>5. /\ fs[t] = c /\ fs'[t] = c /\ pc'[t] = "in" /\ linger'[c] = "Continuation"
      /\ signaler'[t] /\ pend'[t] \subseteq {t}
  BY <1>1, Zenon DEF TypeOK, InInv
<1> QED BY <1>2, <1>3, <1>4, <1>5, LocalIn, Zenon

(* DisableBlock preserves the invariant.                                   *)
LEMMA DisableBlockStep ==
  ASSUME IInv, NEW t \in Thread, NEW c \in Cont, DisableBlock(t, c)
  PROVE  IInv'
<1> USE DEF DisableMask, DisableBlock, Running, Quiet, lingerVars, tlsVars,
      stackVars, threadVars, kernelVars, ghostVars
<1>1. /\ TypeOK /\ InInv(t, c) /\ linger[c] = "Continuation"
      /\ signaler[t] /\ pend[t] \subseteq {t}
  BY InFunction, Zenon
<1>2. TypeOK'
  BY <1>1, SMTT(30)
  DEF TypeOK, InInv, StackInv, After, Task, Default, Locations, Budget,
      Deadline, stamp
<1>3. Frame(t, c)
  BY <1>1, Zenon DEF TypeOK, Frame
<1>4. InInv(t, c)'
  BY <1>1, ConstantsDistinct, ZenonT(60)
  DEF TypeOK, InInv, StackInv, Paused, After, Task, Default, Locations, Budget,
      Deadline, stamp
<1>5. /\ fs[t] = c /\ fs'[t] = c /\ pc'[t] = "in" /\ linger'[c] = "Continuation"
      /\ signaler'[t] /\ pend'[t] \subseteq {t}
  BY <1>1, Zenon DEF TypeOK, InInv
<1> QED BY <1>2, <1>3, <1>4, <1>5, LocalIn, Zenon

(* DisableBorrow preserves the invariant.                                  *)
LEMMA DisableBorrowStep ==
  ASSUME IInv, NEW t \in Thread, NEW c \in Cont, DisableBorrow(t, c)
  PROVE  IInv'
<1> USE DEF DisableBorrow, Running, Quiet, lingerVars, tlsVars, stackVars,
      threadVars, kernelVars, ghostVars
<1>1. /\ TypeOK /\ InInv(t, c) /\ linger[c] = "Continuation"
      /\ signaler[t] /\ pend[t] \subseteq {t}
  BY InFunction, Zenon
<1>2. TypeOK'
  BY <1>1, Zenon
  DEF TypeOK, InInv, StackInv, After, Task, Default, Locations, Budget,
      Deadline, stamp
<1>3. Frame(t, c)
  BY <1>1, Zenon DEF TypeOK, Frame
<1>4. InInv(t, c)'
  BY <1>1, ConstantsDistinct, Zenon
  DEF TypeOK, InInv, StackInv, Paused, After, Task, Default, Locations, Budget,
      Deadline, stamp
<1>5. /\ fs[t] = c /\ fs'[t] = c /\ pc'[t] = "in" /\ linger'[c] = "Continuation"
      /\ signaler'[t] /\ pend'[t] \subseteq {t}
  BY <1>1, Zenon DEF TypeOK, InInv
<1> QED BY <1>2, <1>3, <1>4, <1>5, LocalIn, Zenon

(* DisableReplace preserves the invariant.                                 *)
LEMMA DisableReplaceStep ==
  ASSUME IInv, NEW t \in Thread, NEW c \in Cont, DisableReplace(t, c)
  PROVE  IInv'
<1> USE DEF DisableReplace, Running, Quiet, lingerVars, tlsVars, stackVars,
      threadVars, kernelVars, ghostVars
<1>1. /\ TypeOK /\ InInv(t, c) /\ linger[c] = "Continuation"
      /\ signaler[t] /\ pend[t] \subseteq {t}
  BY InFunction, Zenon
<1>2. TypeOK'
  BY <1>1, Zenon
  DEF TypeOK, InInv, StackInv, After, Task, Default, Locations, Budget,
      Deadline, stamp
<1>3. Frame(t, c)
  BY <1>1, Zenon DEF TypeOK, Frame
<1>4. InInv(t, c)'
  BY <1>1, ConstantsDistinct, Zenon
  DEF TypeOK, InInv, StackInv, Paused, After, Task, Default, Locations, Budget,
      Deadline, stamp
<1>5. /\ fs[t] = c /\ fs'[t] = c /\ pc'[t] = "in" /\ linger'[c] = "Continuation"
      /\ signaler'[t] /\ pend'[t] \subseteq {t}
  BY <1>1, Zenon DEF TypeOK, InInv
<1> QED BY <1>2, <1>3, <1>4, <1>5, LocalIn, Zenon

(* Finish preserves the invariant.                                         *)
LEMMA FinishStep ==
  ASSUME IInv, NEW t \in Thread, NEW c \in Cont, NEW r \in {"Ok", "Err"}, Finish(t, c, r)
  PROVE  IInv'
<1> USE DEF Finish, Running, Quiet, lingerVars, tlsVars, stackVars, threadVars,
      kernelVars, ghostVars
<1>1. /\ TypeOK /\ InInv(t, c) /\ linger[c] = "Continuation"
      /\ signaler[t] /\ pend[t] \subseteq {t}
  BY InFunction, Zenon
<1>2. TypeOK'
  BY <1>1, Zenon
  DEF TypeOK, InInv, StackInv, After, Task, Default, Locations, Budget,
      Deadline, stamp
<1>3. Frame(t, c)
  BY <1>1, Zenon DEF TypeOK, Frame
<1>4. InInv(t, c)'
  BY <1>1, ConstantsDistinct, Zenon
  DEF TypeOK, InInv, StackInv, Paused, After, Task, Default, Locations, Budget,
      Deadline, stamp
<1>5. /\ fs[t] = c /\ fs'[t] = c /\ pc'[t] = "in" /\ linger'[c] = "Continuation"
      /\ signaler'[t] /\ pend'[t] \subseteq {t}
  BY <1>1, Zenon DEF TypeOK, InInv
<1> QED BY <1>2, <1>3, <1>4, <1>5, LocalIn, Zenon

-----------------------------------------------------------------------------
(* The steps of the caller and of resume(), time, and the signal handler.  *)

(* Launch preserves the invariant.                                         *)
LEMMA LaunchStep ==
  ASSUME IInv, NEW t \in Thread, NEW c \in Cont, NEW u \in Us, Launch(t, c, u)
  PROVE  IInv'
<1> USE DEF Launch, lingerVars, tlsVars, stackVars, threadVars, kernelVars,
      ghostVars
<1>1. TypeOK /\ ThreadInv(t) /\ Idle(c) /\ Parked(c) /\ fs[t] = None
  BY Calling, Zenon
<1>2. TypeOK'
  <2>1. task' \in [Cont -> Task]
    BY <1>1, Zenon DEF TypeOK, Task, Default
  <2>2. u \in Budget
    BY ConstantsDistinct, Zenon
  <2>3. CASE u = "zero"
    BY <1>1, <2>1, <2>3, Zenon DEF TypeOK
  <2>4. CASE u # "zero"
    <3>1. /\ us' = [us EXCEPT ![t] = u]
          /\ fs' = [fs EXCEPT ![t] = c]
          /\ pc' = [pc EXCEPT ![t] = "setup"]
      BY <2>4, Zenon
    <3>2. us' \in [Thread -> Budget] /\ fs' \in [Thread -> Cont \cup {None}]
      BY ONLY <1>1, <2>2, <3>1, c \in Cont, t \in Thread, Zenon DEF TypeOK
    <3>3. pc' \in [Thread -> {"caller", "setup", "replacing", "switch", "in", "back"}]
      BY ONLY <1>1, <3>1, t \in Thread, Zenon DEF TypeOK
    <3> QED BY <1>1, <2>1, <3>2, <3>3, Zenon DEF TypeOK
  <2> QED BY <2>3, <2>4, Zenon
<1>3. Frame(t, c)
  <2>1. CASE u = "zero"
    BY <1>1, <2>1, Zenon
    DEF TypeOK, Frame
  <2>2. CASE u # "zero"
    BY <1>1, <2>2, ZenonT(30)
    DEF TypeOK, Frame
  <2> QED BY <2>1, <2>2, Zenon
<1>4. ThreadInv(t)'
  <2>1. CASE u = "zero"
    BY <1>1, ConstantsDistinct, <2>1, Zenon
    DEF TypeOK, ThreadInv, Parked
  <2>2. CASE u # "zero"
    BY <1>1, ConstantsDistinct, <2>2, SMTT(30)
    DEF TypeOK, ThreadInv, Parked
  <2> QED BY <2>1, <2>2, Zenon
<1>5. fs'[t] \in {c, None}
  <2>1. CASE u = "zero"
    BY <1>1, <2>1, Zenon
    DEF TypeOK
  <2>2. CASE u # "zero"
    BY <1>1, <2>2, Zenon
    DEF TypeOK
  <2> QED BY <2>1, <2>2, Zenon
<1>6. Parked(c)' /\ ~asked'[c] /\ linger'[c] = "Continuation"
  <2>1. ~task'[c].errno
    BY <1>1, Zenon DEF TypeOK, Default
  <2>2. TASK'[c] = Default /\ ~BOOTSTRAP'[c] /\ SIGNAL'[c] = None /\ ~DEFERRED'[c]
    BY <1>1, Zenon DEF TypeOK, Parked
  <2>3. linger'[c] = "Continuation" /\ functional'[c] = "Function" /\ ~asked'[c]
    BY <1>1, Zenon DEF TypeOK
  <2>4. ~dirty'[c] /\ at'[c] = "none"
    BY <1>1, Zenon DEF TypeOK, Parked
  <2> QED BY <2>1, <2>2, <2>3, <2>4, SMTT(30) DEF Parked, StackInv, After
<1>7. fs'[t] = c => StageInv(t, c)'
  <2>1. fs'[t] = c => pc'[t] = "setup"
    BY <1>1, ConstantsDistinct, SMTT(30) DEF TypeOK
  <2> QED BY <1>6, <2>1, Zenon DEF StageInv, SetupInv
<1> QED BY <1>1, <1>2, <1>3, <1>4, <1>5, <1>6, <1>7, Local, Zenon

(* Resume preserves the invariant.                                         *)
LEMMA ResumeStep ==
  ASSUME IInv, NEW t \in Thread, NEW c \in Cont, NEW u \in Us, Resume(t, c, u)
  PROVE  IInv'
<1> USE DEF Resume, lingerVars, tlsVars, stackVars, threadVars, kernelVars,
      ghostVars
<1>1. TypeOK /\ ThreadInv(t) /\ Idle(c) /\ Parked(c) /\ fs[t] = None
  BY Calling, Zenon
<1>2. TypeOK'
  BY <1>1, ConstantsDistinct, Zenon
  DEF TypeOK, Parked, Task, Default, Locations, Budget, Deadline, stamp
<1>3. Frame(t, c)
  BY <1>1, Zenon
  DEF TypeOK, Frame
<1>4. ThreadInv(t)'
  BY <1>1, ConstantsDistinct, Zenon
  DEF TypeOK, ThreadInv, Parked
<1>5. fs'[t] \in {c, None}
  BY <1>1, Zenon
  DEF TypeOK
<1>6. fs'[t] = c => StageInv(t, c)'
  BY <1>1, ConstantsDistinct, ZenonT(30)
  DEF TypeOK, ThreadInv, StageInv, Parked, SetupInv, StackInv, Paused, After,
      Task, Default, Locations, Budget, Deadline, stamp
<1>7. fs'[t] = None => Parked(c)'
  BY <1>1, ConstantsDistinct, Zenon
  DEF TypeOK, ThreadInv, StageInv, Parked, SetupInv, StackInv, Paused, After,
      Task, Default, Locations, Budget, Deadline, stamp
<1> QED BY <1>1, <1>2, <1>3, <1>4, <1>5, <1>6, <1>7, Local, Zenon

(* DropLinger preserves the invariant.                                     *)
LEMMA DropLingerStep ==
  ASSUME IInv, NEW t \in Thread, NEW c \in Cont, DropLinger(t, c)
  PROVE  IInv'
<1> USE DEF Renews, DropLinger, lingerVars, tlsVars, stackVars, threadVars,
      kernelVars, ghostVars
<1>1. TypeOK /\ ThreadInv(t) /\ Idle(c) /\ Parked(c) /\ fs[t] = None
  BY Calling, Zenon
<1>2. TypeOK'
  BY <1>1, ConstantsDistinct, Zenon
  DEF TypeOK, Parked, Task, Default, Locations, Budget, Deadline, stamp
<1>3. Frame(t, c)
  BY <1>1, ZenonT(60)
  DEF TypeOK, Frame
<1>4. ThreadInv(t)'
  BY <1>1, ConstantsDistinct, Zenon
  DEF TypeOK, ThreadInv, Parked
<1>5. fs'[t] \in {c, None}
  BY <1>1, Zenon
  DEF TypeOK
<1>6. fs'[t] = c => StageInv(t, c)'
  BY <1>1, ConstantsDistinct, SMTT(30)
  DEF TypeOK, ThreadInv, StageInv, Parked, SetupInv, StackInv, Paused, After,
      Task, Default, Locations, Budget, Deadline, stamp
<1>7. fs'[t] = None => Parked(c)'
  BY <1>1, ConstantsDistinct, ZenonT(60)
  DEF TypeOK, ThreadInv, StageInv, Parked, SetupInv, StackInv, Paused, After,
      Task, Default, Locations, Budget, Deadline, stamp
<1> QED BY <1>1, <1>2, <1>3, <1>4, <1>5, <1>6, <1>7, Local, Zenon

(* SetupThread preserves the invariant.                                    *)
LEMMA SetupThreadStep ==
  ASSUME IInv, NEW t \in Thread, NEW c \in Cont, SetupThread(t, c)
  PROVE  IInv'
<1> USE DEF SetupMask, SetupThread, Resuming, lingerVars, tlsVars, stackVars,
      threadVars, kernelVars, ghostVars
<1>1. TypeOK /\ ThreadInv(t) /\ linger[c] = "Continuation" /\ SetupInv(t, c)
  BY Installed, Zenon DEF StageInv
<1>2. TypeOK'
  <2>1. CASE signaler[t]
    BY <1>1, ConstantsDistinct, <2>1, Zenon
    DEF TypeOK, SetupInv, Task, Default, Locations, Budget, Deadline, stamp
  <2>2. CASE ~signaler[t]
    BY <1>1, ConstantsDistinct, <2>2, SMTT(30)
    DEF TypeOK, SetupInv, Task, Default, Locations, Budget, Deadline, stamp
  <2> QED BY <2>1, <2>2, Zenon
<1>3. Frame(t, c)
  <2>1. CASE signaler[t]
    BY <1>1, <2>1, ZenonT(30)
    DEF TypeOK, Frame
  <2>2. CASE ~signaler[t]
    BY <1>1, <2>2, Zenon
    DEF TypeOK, Frame
  <2> QED BY <2>1, <2>2, Zenon
<1>4. ThreadInv(t)'
  <2>1. CASE signaler[t]
    BY <1>1, ConstantsDistinct, <2>1, Zenon
    DEF TypeOK, ThreadInv, SetupInv
  <2>2. CASE ~signaler[t]
    BY <1>1, ConstantsDistinct, <2>2, Zenon
    DEF TypeOK, ThreadInv, SetupInv
  <2> QED BY <2>1, <2>2, Zenon
<1>5. fs'[t] \in {c, None}
  <2>1. CASE signaler[t]
    BY <1>1, <2>1, Zenon
    DEF TypeOK
  <2>2. CASE ~signaler[t]
    BY <1>1, <2>2, Zenon
    DEF TypeOK
  <2> QED BY <2>1, <2>2, Zenon
<1>6. fs'[t] = c => StageInv(t, c)'
  <2>1. CASE signaler[t]
    BY <1>1, ConstantsDistinct, <2>1, ZenonT(60)
    DEF TypeOK, ThreadInv, StageInv, Parked, SetupInv, StackInv, Paused, After,
        Task, Default, Locations, Budget, Deadline, stamp
  <2>2. CASE ~signaler[t]
    BY <1>1, ConstantsDistinct, <2>2, ZenonT(30)
    DEF TypeOK, ThreadInv, StageInv, Parked, SetupInv, StackInv, Paused, After,
        Task, Default, Locations, Budget, Deadline, stamp
  <2> QED BY <2>1, <2>2, Zenon
<1>7. fs'[t] = None => Parked(c)'
  <2>1. CASE signaler[t]
    BY <1>1, ConstantsDistinct, <2>1, Zenon
    DEF TypeOK, ThreadInv, StageInv, Parked, SetupInv, StackInv, Paused, After,
        Task, Default, Locations, Budget, Deadline, stamp
  <2>2. CASE ~signaler[t]
    BY <1>1, ConstantsDistinct, <2>2, Zenon
    DEF TypeOK, ThreadInv, StageInv, Parked, SetupInv, StackInv, Paused, After,
        Task, Default, Locations, Budget, Deadline, stamp
  <2> QED BY <2>1, <2>2, Zenon
<1> QED BY <1>1, <1>2, <1>3, <1>4, <1>5, <1>6, <1>7, Local, Zenon

(* Bootstrap preserves the invariant.                                      *)
LEMMA BootstrapStep ==
  ASSUME IInv, NEW t \in Thread, NEW c \in Cont, Bootstrap(t, c)
  PROVE  IInv'
<1> USE DEF Bootstrap, Resuming, lingerVars, tlsVars, stackVars, threadVars,
      kernelVars, ghostVars
<1>1. TypeOK /\ ThreadInv(t) /\ linger[c] = "Continuation" /\ SetupInv(t, c)
  BY Installed, Zenon DEF StageInv
<1>2. TypeOK'
  <2>1. task' \in [Cont -> Task]
    <3>1. CASE task[c].errno
      BY <1>1, <3>1, Zenon DEF TypeOK
    <3>2. CASE ~task[c].errno
      <4>1. task' = [task EXCEPT ![c].checkpoint = TRUE]
        BY <3>2, Zenon
      <4> QED BY ONLY <1>1, <4>1, c \in Cont, TaskType, Zenon DEF TypeOK
    <3> QED BY <3>1, <3>2, Zenon
  <2>2. SIGNAL' \in [Cont -> Thread \cup {None}] /\ DEADLINE' \in [Cont -> Deadline]
    BY <1>1, Zenon DEF TypeOK, Deadline
  <2>3. BOOTSTRAP' \in [Cont -> BOOLEAN] /\ at' \in [Cont -> Locations]
    BY <1>1, ZenonT(30) DEF TypeOK, Locations
  <2> QED BY <1>1, <2>1, <2>2, <2>3, Zenon DEF TypeOK
<1>3. Frame(t, c)
  <2>1. CASE task[c].errno
    BY <1>1, <2>1, ZenonT(30)
    DEF TypeOK, Frame
  <2>2. CASE ~task[c].errno
    BY <1>1, <2>2, SMTT(30)
    DEF TypeOK, Frame
  <2> QED BY <2>1, <2>2, Zenon
<1>4. ThreadInv(t)'
  <2>1. CASE task[c].errno
    BY <1>1, ConstantsDistinct, <2>1, Zenon
    DEF TypeOK, ThreadInv, SetupInv, Parked
  <2>2. CASE ~task[c].errno
    BY <1>1, ConstantsDistinct, <2>2, Zenon
    DEF TypeOK, ThreadInv, SetupInv, Parked
  <2> QED BY <2>1, <2>2, Zenon
<1>5. fs'[t] \in {c, None}
  <2>1. CASE task[c].errno
    BY <1>1, <2>1, Zenon
    DEF TypeOK
  <2>2. CASE ~task[c].errno
    BY <1>1, <2>2, Zenon
    DEF TypeOK
  <2> QED BY <2>1, <2>2, Zenon
<1>6. fs'[t] = c => StageInv(t, c)'
  <2>1. CASE task[c].errno
    BY <1>1, ConstantsDistinct, <2>1, ZenonT(60)
    DEF TypeOK, ThreadInv, StageInv, Parked, SetupInv, SwitchInv, StackInv,
        Paused, After, Task, Default, Locations, Budget, Deadline, stamp
  <2>2. CASE ~task[c].errno
    BY <1>1, ConstantsDistinct, <2>2, SMTT(30)
    DEF TypeOK, ThreadInv, StageInv, Parked, SetupInv, SwitchInv, StackInv,
        Paused, After, Task, Default, Locations, Budget, Deadline, stamp
  <2> QED BY <2>1, <2>2, Zenon
<1>7. fs'[t] = None => Parked(c)'
  <2>1. CASE task[c].errno
    BY <1>1, ConstantsDistinct, <2>1, Zenon
    DEF TypeOK, ThreadInv, StageInv, Parked, SetupInv, SwitchInv, StackInv,
        Paused, After, Task, Default, Locations, Budget, Deadline, stamp
  <2>2. CASE ~task[c].errno
    BY <1>1, ConstantsDistinct, <2>2, Zenon
    DEF TypeOK, ThreadInv, StageInv, Parked, SetupInv, SwitchInv, StackInv,
        Paused, After, Task, Default, Locations, Budget, Deadline, stamp
  <2> QED BY <2>1, <2>2, Zenon
<1> QED BY <1>1, <1>2, <1>3, <1>4, <1>5, <1>6, <1>7, Local, Zenon

(* Switch preserves the invariant.                                         *)
LEMMA SwitchStep ==
  ASSUME IInv, NEW t \in Thread, NEW c \in Cont, Switch(t, c)
  PROVE  IInv'
<1> USE DEF ResumeMask, Switch, Resuming, lingerVars, tlsVars, stackVars,
      threadVars, kernelVars, ghostVars
<1>1. TypeOK /\ ThreadInv(t) /\ linger[c] = "Continuation" /\ SwitchInv(t, c)
  BY Installed, Zenon DEF StageInv
<1>2. TypeOK'
  <2>1. SIGNAL[c] = t
    BY <1>1, Zenon DEF SwitchInv
  <2>2. mask' \in [Thread -> SUBSET Thread]
    <3>1. CASE task[c].errno
      <4>1. mask' = [mask EXCEPT ![t] = @ \ {t}]
        BY <2>1, <3>1, Zenon
      <4> QED BY ONLY <1>1, <4>1, t \in Thread, MaskType, Zenon DEF TypeOK
    <3>2. CASE ~task[c].errno
      BY <1>1, <3>2, Zenon DEF TypeOK
    <3> QED BY <3>1, <3>2, Zenon
  <2>3. DEADLINE' \in [Cont -> Deadline] /\ group' \in [Thread -> Cont \cup {Shared}]
    <3>1. stamp(DEADLINE[c]) \in Deadline
      BY <1>1, Zenon DEF TypeOK, Deadline, Budget, stamp
    <3>2. CASE task[c].errno
      <4>1. /\ DEADLINE' = [DEADLINE EXCEPT ![c] = stamp(DEADLINE[c])]
            /\ group' = [group EXCEPT ![t] = c]
        BY <3>2, Zenon
      <4> QED BY ONLY <1>1, <3>1, <4>1, c \in Cont, t \in Thread, Zenon DEF TypeOK
    <3>3. CASE ~task[c].errno
      BY <1>1, <3>3, Zenon DEF TypeOK
    <3> QED BY <3>2, <3>3, Zenon
  <2>4. task' \in [Cont -> Task] /\ TASK' \in [Cont -> Task]
    BY <1>1, TaskType, Zenon DEF TypeOK
  <2> QED BY <1>1, <2>2, <2>3, <2>4, Zenon DEF TypeOK
<1>3. Frame(t, c)
  <2>1. CASE task[c].errno
    BY <1>1, <2>1, SMTT(30)
    DEF TypeOK, Frame
  <2>2. CASE ~task[c].errno
    BY <1>1, <2>2, Zenon
    DEF TypeOK, Frame
  <2> QED BY <2>1, <2>2, Zenon
<1>4. ThreadInv(t)'
  <2>1. CASE task[c].errno
    BY <1>1, ConstantsDistinct, <2>1, Zenon
    DEF TypeOK, ThreadInv, SwitchInv
  <2>2. CASE ~task[c].errno
    BY <1>1, ConstantsDistinct, <2>2, Zenon
    DEF TypeOK, ThreadInv, SwitchInv
  <2> QED BY <2>1, <2>2, Zenon
<1>5. fs'[t] \in {c, None}
  <2>1. CASE task[c].errno
    BY <1>1, <2>1, Zenon
    DEF TypeOK
  <2>2. CASE ~task[c].errno
    BY <1>1, <2>2, Zenon
    DEF TypeOK
  <2> QED BY <2>1, <2>2, Zenon
<1>6. fs'[t] = c => StageInv(t, c)'
  <2>1. CASE task[c].errno
    BY <1>1, ConstantsDistinct, <2>1, SMTT(30)
    DEF TypeOK, ThreadInv, StageInv, SwitchInv, InInv, StackInv, Paused, After,
        Task, Default, Locations, Budget, Deadline, stamp
  <2>2. CASE ~task[c].errno
    BY <1>1, ConstantsDistinct, <2>2, SMTT(30)
    DEF TypeOK, ThreadInv, StageInv, SwitchInv, InInv, StackInv, Paused, After,
        Task, Default, Locations, Budget, Deadline, stamp
  <2> QED BY <2>1, <2>2, Zenon
<1>7. fs'[t] = None => Parked(c)'
  <2>1. CASE task[c].errno
    BY <1>1, ConstantsDistinct, <2>1, Zenon
    DEF TypeOK, ThreadInv, StageInv, SwitchInv, InInv, StackInv, Paused, After,
        Task, Default, Locations, Budget, Deadline, stamp
  <2>2. CASE ~task[c].errno
    BY <1>1, ConstantsDistinct, <2>2, Zenon
    DEF TypeOK, ThreadInv, StageInv, SwitchInv, InInv, StackInv, Paused, After,
        Task, Default, Locations, Budget, Deadline, stamp
  <2> QED BY <2>1, <2>2, Zenon
<1> QED BY <1>1, <1>2, <1>3, <1>4, <1>5, <1>6, <1>7, Local, Zenon

(* SwitchBack preserves the invariant.                                     *)
LEMMA SwitchBackStep ==
  ASSUME IInv, NEW t \in Thread, NEW c \in Cont, SwitchBack(t, c)
  PROVE  IInv'
<1> USE DEF SwitchBack, Resuming, lingerVars, tlsVars, stackVars, threadVars,
      kernelVars, ghostVars
<1>1. TypeOK /\ ThreadInv(t) /\ linger[c] = "Continuation" /\ BackInv(t, c)
  BY Installed, Zenon DEF StageInv
<1>2. TypeOK'
  <2>1. task' \in [Cont -> Task]
    <3>1. CASE TASK[c].errno
      BY <1>1, <3>1, SMTT(30) DEF TypeOK
    <3>2. CASE ~TASK[c].errno
      <4>1. task' = [task EXCEPT ![c].errno = FALSE]
        BY <3>2, Zenon
      <4> QED BY ONLY <1>1, <4>1, c \in Cont, TaskType, Zenon DEF TypeOK
    <3> QED BY <3>1, <3>2, Zenon
  <2>2. TASK' \in [Cont -> Task]
    BY <1>1, Zenon DEF TypeOK, Task, Default
  <2>3. /\ linger' \in [Cont -> {"none", "Continuation", "Completion", "Poison"}]
        /\ functional' \in [Cont -> {"Function", "Ok", "Err", "Empty"}]
    BY <1>1, ZenonT(30) DEF TypeOK
  <2> QED BY <1>1, <2>1, <2>2, <2>3, Zenon DEF TypeOK, Budget
<1>3. Frame(t, c)
  <2>1. CASE TASK[c].errno
    BY <1>1, <2>1, SMTT(30)
    DEF TypeOK, Frame
  <2>2. CASE ~TASK[c].errno
    BY <1>1, <2>2, SMTT(30)
    DEF TypeOK, Frame
  <2> QED BY <2>1, <2>2, Zenon
<1>4. ThreadInv(t)'
  <2>1. CASE TASK[c].errno
    BY <1>1, ConstantsDistinct, <2>1, Zenon
    DEF TypeOK, ThreadInv, BackInv
  <2>2. CASE ~TASK[c].errno
    BY <1>1, ConstantsDistinct, <2>2, Zenon
    DEF TypeOK, ThreadInv, BackInv
  <2> QED BY <2>1, <2>2, Zenon
<1>5. fs'[t] \in {c, None}
  <2>1. CASE TASK[c].errno
    BY <1>1, <2>1, Zenon
    DEF TypeOK
  <2>2. CASE ~TASK[c].errno
    BY <1>1, <2>2, Zenon
    DEF TypeOK
  <2> QED BY <2>1, <2>2, Zenon
<1>6. fs'[t] = c => StageInv(t, c)'
  <2>1. CASE TASK[c].errno
    BY <1>1, ConstantsDistinct, <2>1, ZenonT(30)
    DEF TypeOK, ThreadInv, StageInv, BackInv, Parked, StackInv, Paused, After,
        Task, Default, Locations, Budget, Deadline, stamp
  <2>2. CASE ~TASK[c].errno
    BY <1>1, ConstantsDistinct, <2>2, ZenonT(60)
    DEF TypeOK, ThreadInv, StageInv, BackInv, Parked, StackInv, Paused, After,
        Task, Default, Locations, Budget, Deadline, stamp
  <2> QED BY <2>1, <2>2, Zenon
<1>7. fs'[t] = None => Parked(c)'
  <2>1. CASE TASK[c].errno
    BY <1>1, ConstantsDistinct, <2>1, SMTT(30)
    DEF TypeOK, ThreadInv, StageInv, BackInv, Parked, StackInv, Paused, After,
        Task, Default, Locations, Budget, Deadline, stamp
  <2>2. CASE ~TASK[c].errno
    BY <1>1, ConstantsDistinct, <2>2, SMTT(30)
    DEF TypeOK, ThreadInv, StageInv, BackInv, Parked, StackInv, Paused, After,
        Task, Default, Locations, Budget, Deadline, stamp
  <2> QED BY <2>1, <2>2, Zenon
<1> QED BY <1>1, <1>2, <1>3, <1>4, <1>5, <1>6, <1>7, Local, Zenon

(* DisableStore preserves the invariant.                                   *)
LEMMA DisableStoreStep ==
  ASSUME IInv, NEW t \in Thread, NEW c \in Cont, DisableStore(t, c)
  PROVE  IInv'
<1> USE DEF DisableStore, Running, Quiet, lingerVars, tlsVars, stackVars,
      threadVars, kernelVars, ghostVars
<1>1. TypeOK /\ ThreadInv(t) /\ linger[c] = "Continuation" /\ InInv(t, c)
  BY Installed, Zenon DEF StageInv, Running
<1>2. TypeOK'
  BY <1>1, ConstantsDistinct, Zenon
  DEF TypeOK, InInv, Task, Default, Locations, Budget, Deadline, stamp
<1>3. Frame(t, c)
  BY <1>1, ZenonT(30)
  DEF TypeOK, Frame
<1>4. ThreadInv(t)'
  <2>1. pc'[t] = "back" /\ fs'[t] = c /\ signaler'[t] /\ group'[t] = Shared
    BY <1>1, Zenon DEF TypeOK, ThreadInv, InInv, Paused
  <2>2. t \in mask'[t] /\ pend'[t] \subseteq {t}
    BY <1>1, Zenon DEF TypeOK, ThreadInv, InInv
  <2> QED BY <2>1, <2>2, ConstantsDistinct, Zenon DEF ThreadInv
<1>5. fs'[t] \in {c, None}
  BY <1>1, Zenon
  DEF TypeOK
<1>6. fs'[t] = c => StageInv(t, c)'
  BY <1>1, ConstantsDistinct, ZenonT(30)
  DEF TypeOK, ThreadInv, StageInv, InInv, BackInv, StackInv, Paused, After,
      Task, Default, Locations, Budget, Deadline, stamp
<1>7. fs'[t] = None => Parked(c)'
  BY <1>1, ConstantsDistinct, Zenon
  DEF TypeOK, ThreadInv, StageInv, InInv, BackInv, StackInv, Paused, After,
      Task, Default, Locations, Budget, Deadline, stamp
<1> QED BY <1>1, <1>2, <1>3, <1>4, <1>5, <1>6, <1>7, Local, Zenon

(* What delivery does to the pending signals.                              *)
LEMMA DeliverType ==
  ASSUME TypeOK, NEW t \in Thread, NEW s \in Thread, Deliver(t, s)
  PROVE  /\ pend' \in [Thread -> SUBSET Thread]
         /\ procPend' \in SUBSET Thread
         /\ \A u \in Thread \ {t} : pend'[u] = pend[u]
         /\ pend'[t] \subseteq pend[t]
         /\ s # t /\ t \in pend[t] => t \in pend'[t]
<1>1. CASE s \in procPend /\ procPend' = procPend \ {s} /\ UNCHANGED pend
  BY <1>1, Zenon DEF TypeOK
<1>2. CASE s \in pend[t] /\ pend' = [pend EXCEPT ![t] = @ \ {s}] /\ UNCHANGED procPend
  BY <1>2, Zenon DEF TypeOK
<1> QED BY <1>1, <1>2, Zenon DEF Deliver

(* Only a running function finds a delivered signal relevant.              *)
LEMMA RelevantRunning ==
  ASSUME IInv, NEW t \in Thread, NEW s \in Thread, Deliver(t, s), Relevant(t, s)
  PROVE  /\ fs[t] \in Cont /\ pc[t] = "in" /\ s = t
         /\ TypeOK /\ InInv(t, fs[t]) /\ linger[fs[t]] = "Continuation"
         /\ signaler[t] /\ pend[t] \subseteq {t}
<1>1. fs[t] \in Cont
  BY Zenon DEF IInv, TypeOK, Relevant
<1>2. TypeOK /\ ThreadInv(t) /\ StageInv(t, fs[t])
  BY <1>1, Installed, Zenon
<1>3. SIGNAL[fs[t]] \in Thread /\ SIGNAL[fs[t]] # None
  BY ConstantsDistinct, Zenon DEF Relevant
<1>4. pc[t] = "in"
  BY <1>1, <1>2, <1>3, Zenon DEF TypeOK, ThreadInv, StageInv, SetupInv, Parked,
       SwitchInv,
       BackInv, Deliver, Relevant
<1>5. InInv(t, fs[t])
  BY <1>2, <1>4, Zenon DEF StageInv
<1>6. s = t
  BY <1>3, <1>5, Zenon DEF InInv, Relevant
<1> QED BY <1>1, <1>2, <1>4, <1>5, <1>6, Zenon DEF ThreadInv, StageInv

(* PreemptDefer preserves the invariant.                                   *)
LEMMA PreemptDeferStep ==
  ASSUME IInv, NEW t \in Thread, NEW s \in Thread, PreemptDefer(t, s)
  PROVE  IInv'
<1> USE DEF DeferMask, PreemptDefer, lingerVars, tlsVars, stackVars,
      threadVars, kernelVars, ghostVars
<1>1. PICK c \in Cont : fs[t] = c
  BY RelevantRunning, Zenon
<1>2. /\ pc[t] = "in" /\ s = t
      /\ TypeOK /\ InInv(t, c) /\ linger[c] = "Continuation"
      /\ signaler[t] /\ pend[t] \subseteq {t}
  BY <1>1, RelevantRunning, Zenon
<1>3. /\ pend' \in [Thread -> SUBSET Thread] /\ procPend' \in SUBSET Thread
      /\ \A u \in Thread \ {t} : pend'[u] = pend[u]
      /\ pend'[t] \subseteq pend[t]
  BY <1>1, <1>2, DeliverType, Zenon
<1>4. TypeOK'
  BY <1>1, <1>2, <1>3, SMTT(30) DEF TypeOK
<1>5. Frame(t, c)
  BY <1>1, <1>2, <1>3, ZenonT(30) DEF TypeOK, Frame
<1>6. at[c] \notin Paused /\ at[c] # "schedule"
  BY <1>1, <1>2, ConstantsDistinct, Zenon DEF InInv, is_preemptible, Deliver
<1>7. InInv(t, c)'
  BY <1>1, <1>2, <1>6, Zenon DEF TypeOK, InInv, StackInv, Paused
<1> QED BY <1>1, <1>2, <1>3, <1>4, <1>5, <1>7, LocalIn, Zenon DEF TypeOK

(* PreemptNotYet preserves the invariant.                                  *)
LEMMA PreemptNotYetStep ==
  ASSUME IInv, NEW t \in Thread, NEW s \in Thread, PreemptNotYet(t, s)
  PROVE  IInv'
<1> USE DEF PreemptNotYet, lingerVars, tlsVars, stackVars, threadVars,
      kernelVars, ghostVars
<1>1. PICK c \in Cont : fs[t] = c
  BY RelevantRunning, Zenon
<1>2. /\ pc[t] = "in" /\ s = t
      /\ TypeOK /\ InInv(t, c) /\ linger[c] = "Continuation"
      /\ signaler[t] /\ pend[t] \subseteq {t}
  BY <1>1, RelevantRunning, Zenon
<1>3. /\ pend' \in [Thread -> SUBSET Thread] /\ procPend' \in SUBSET Thread
      /\ \A u \in Thread \ {t} : pend'[u] = pend[u]
      /\ pend'[t] \subseteq pend[t]
  BY <1>1, <1>2, DeliverType, Zenon
<1>4. TypeOK'
  BY <1>1, <1>2, <1>3, Zenon DEF TypeOK
<1>5. Frame(t, c)
  BY <1>1, <1>2, <1>3, Zenon DEF TypeOK, Frame
<1>6. DEADLINE[c] # "zero" /\ at[c] \in Paused
  BY <1>1, <1>2, ConstantsDistinct, Zenon DEF InInv, Expired, is_preemptible
<1>7. InInv(t, c)'
  BY <1>1, <1>2, <1>6, Zenon DEF InInv, StackInv, Paused
<1> QED BY <1>1, <1>2, <1>3, <1>4, <1>5, <1>7, LocalIn, Zenon

(* What the handler leaves in TASK when it pauses a function.              *)
LEMMA PauseTask ==
  ASSUME TypeOK, NEW t \in Thread, NEW s \in Thread, PreemptPause(t, s),
         NEW c \in Cont, fs[t] = c
  PROVE  /\ TASK'[c].yielded <=> DEADLINE[c] = "zero"
         /\ TASK'[c].errno
         /\ TASK' \in [Cont -> Task]
         /\ \A d \in Cont \ {c} : TASK'[d] = TASK[d]
<1> DEFINE zero == DEADLINE[c] = "zero"
           new == [TASK[c] EXCEPT !.yielded = zero, !.errno = TRUE]
<1>1. TASK' = [TASK EXCEPT ![c] = new] /\ zero \in BOOLEAN
  BY Zenon DEF PreemptPause, Yielded
<1>2. TASK[c] \in Task
  BY Zenon DEF TypeOK
<1> HIDE DEF zero
<1>3. (new.yielded <=> zero) /\ new.errno /\ new \in Task
  BY <1>1, <1>2, Zenon DEF Task
<1> HIDE DEF new
<1>4. /\ TASK'[c] = new /\ TASK' \in [Cont -> Task]
      /\ \A d \in Cont \ {c} : TASK'[d] = TASK[d]
  BY ONLY TypeOK, <1>1, <1>3, c \in Cont, Zenon DEF TypeOK
<1> QED BY ONLY <1>3, <1>4, Zenon DEF zero

(* PreemptPause preserves the invariant.                                   *)
LEMMA PreemptPauseStep ==
  ASSUME IInv, NEW t \in Thread, NEW s \in Thread, PreemptPause(t, s)
  PROVE  IInv'
<1> USE DEF Yielded, PreemptPause, lingerVars, tlsVars, stackVars, threadVars,
      kernelVars, ghostVars
<1>1. PICK c \in Cont : fs[t] = c
  BY RelevantRunning, Zenon
<1>2. /\ pc[t] = "in" /\ s = t
      /\ TypeOK /\ InInv(t, c) /\ linger[c] = "Continuation"
      /\ signaler[t] /\ pend[t] \subseteq {t}
  BY <1>1, RelevantRunning, Zenon
<1>3. /\ pend' \in [Thread -> SUBSET Thread] /\ procPend' \in SUBSET Thread
      /\ \A u \in Thread \ {t} : pend'[u] = pend[u]
      /\ pend'[t] \subseteq pend[t]
  BY <1>1, <1>2, DeliverType, Zenon
<1>4. /\ TASK'[c].yielded <=> DEADLINE[c] = "zero"
      /\ TASK'[c].errno
      /\ TASK' \in [Cont -> Task]
      /\ \A d \in Cont \ {c} : TASK'[d] = TASK[d]
  BY <1>1, <1>2, PauseTask, Zenon
<1>5. TypeOK'
  <2>1. mask' \in [Thread -> SUBSET Thread] /\ callMask' \in [Thread -> SUBSET Thread]
    BY <1>1, <1>2, SMTT(30) DEF TypeOK
  <2>2. SIGNAL' \in [Cont -> Thread \cup {None}] /\ DEFERRED' \in [Cont -> BOOLEAN]
    BY <1>1, <1>2, Zenon DEF TypeOK
  <2> QED BY <1>1, <1>2, <1>3, <1>4, <2>1, <2>2, Zenon DEF TypeOK
<1>6. Frame(t, c)
  BY <1>1, <1>2, <1>3, <1>4, SMTT(30) DEF TypeOK, Frame
<1>7. pc'[t] = "back" /\ fs'[t] = c /\ t \in mask'[t] /\ group'[t] = Shared
  BY <1>1, <1>2, Zenon DEF TypeOK
<1>8. ThreadInv(t)'
  BY <1>1, <1>2, <1>3, <1>7, ConstantsDistinct, Zenon DEF ThreadInv
<1>9. at[c] \in Paused
  BY <1>1, <1>2, ConstantsDistinct, Zenon DEF InInv, is_preemptible
<1>10. SIGNAL'[c] = None /\ ~DEFERRED'[c]
  BY <1>1, <1>2, Zenon DEF TypeOK
<1>11. BackInv(t, c)'
  BY <1>1, <1>2, <1>4, <1>9, <1>10, Zenon DEF InInv, BackInv, StackInv, Paused
<1>12. StageInv(t, c)'
  BY <1>1, <1>2, <1>7, <1>11, Zenon DEF StageInv
<1> QED BY <1>1, <1>2, <1>5, <1>6, <1>7, <1>8, <1>12, Local, ConstantsDistinct, Zenon

(* PreemptPanic preserves the invariant.                                   *)
LEMMA PreemptPanicStep ==
  ASSUME IInv, NEW t \in Thread, NEW s \in Thread, PreemptPanic(t, s)
  PROVE  IInv'
<1> USE DEF PreemptPanic, lingerVars, tlsVars, stackVars, threadVars,
      kernelVars, ghostVars
<1>1. PICK c \in Cont : fs[t] = c
  BY Zenon DEF IInv, TypeOK, Threads, ThreadInv, Replacing
<1>2. TypeOK /\ ThreadInv(t) /\ StageInv(t, c)
  BY <1>1, Installed, Zenon
<1>3. /\ pend' \in [Thread -> SUBSET Thread] /\ procPend' \in SUBSET Thread
      /\ \A u \in Thread \ {t} : pend'[u] = pend[u]
      /\ pend'[t] \subseteq pend[t]
  BY <1>2, DeliverType, Zenon
<1>4. TypeOK'
  BY <1>2, <1>3, Zenon DEF TypeOK
<1>5. Frame(t, c)
  BY <1>3, Zenon DEF Frame
<1>6. ThreadInv(t)'
  BY <1>2, <1>3, Zenon DEF ThreadInv
<1>7. pc[t] = "in" => at[c] = "replacing"
  BY <1>1, Zenon DEF Replacing
<1>8. StageInv(t, c)'
  BY <1>2, <1>7, Zenon DEF StageInv, SetupInv, Parked, SwitchInv, InInv, BackInv,
       StackInv
<1> QED BY <1>1, <1>4, <1>5, <1>6, <1>8, Local, ConstantsDistinct, Zenon

(* PreemptIrrelevant preserves the invariant.                              *)
LEMMA PreemptIrrelevantStep ==
  ASSUME IInv, NEW t \in Thread, NEW s \in Thread, PreemptIrrelevant(t, s)
  PROVE  IInv'
<1> USE DEF PreemptIrrelevant, lingerVars, tlsVars, stackVars, threadVars,
      kernelVars, ghostVars
<1>1. TypeOK /\ ThreadInv(t)
  BY Zenon DEF IInv, Threads
<1>2. /\ pend' \in [Thread -> SUBSET Thread] /\ procPend' \in SUBSET Thread
      /\ \A u \in Thread \ {t} : pend'[u] = pend[u]
      /\ pend'[t] \subseteq pend[t]
      /\ s # t /\ t \in pend[t] => t \in pend'[t]
  BY <1>1, DeliverType, Zenon
<1>3. /\ mask' \in [Thread -> SUBSET Thread]
      /\ \A u \in Thread \ {t} : mask'[u] = mask[u]
      /\ mask'[t] = mask[t] \cup {s}
  BY <1>1, Zenon DEF TypeOK
<1>4. TypeOK'
  BY <1>1, <1>2, <1>3, Zenon DEF TypeOK
<1>5. ThreadInv(t)'
  BY <1>1, <1>2, <1>3, Zenon DEF ThreadInv
<1>6. CASE fs[t] = None
  <2>1. Exclusive' /\ Threads'
    BY <1>2, <1>3, <1>5, SMTT(30) DEF IInv, Exclusive, Threads, ThreadInv
  <2>2. Slots'
    BY Zenon DEF IInv, Slots, Idle, Parked, StackInv
  <2>3. ASSUME NEW u \in Thread, NEW c \in Cont, fs'[u] = c
        PROVE  StageInv(u, c)'
    <3>1. u # t /\ StageInv(u, c)
      BY <1>6, <2>3, ConstantsDistinct, Zenon DEF IInv, Stages
    <3> QED BY <1>2, <1>3, <3>1, Zenon
        DEF StageInv, SetupInv, Parked, SwitchInv, InInv, BackInv, StackInv
  <2> QED BY <1>4, <2>1, <2>2, <2>3, Zenon DEF IInv, Stages
<1>7. ASSUME NEW c \in Cont, fs[t] = c
      PROVE  IInv'
  <2>1. StageInv(t, c)
    BY <1>7, Installed, Zenon
  <2>2. Frame(t, c)
    BY <1>2, <1>3, Zenon DEF Frame
  <2>3. pc[t] = "in" => s # t \/ at[c] = "store"
    BY <1>7, <2>1, ConstantsDistinct, Zenon DEF StageInv, InInv, Relevant
  <2>4. InInv(t, c) /\ pc[t] = "in" => InInv(t, c)'
    <3> SUFFICES ASSUME InInv(t, c), pc[t] = "in" PROVE InInv(t, c)'
      OBVIOUS
    <3>1. CASE s # t
      BY <1>2, <1>3, <3>1, Zenon DEF InInv, StackInv
    <3>2. CASE at[c] = "store"
      BY <1>2, <1>3, <3>2, Zenon DEF InInv, StackInv
    <3> QED BY <2>3, <3>1, <3>2, Zenon
  <2>5. StageInv(t, c)'
    BY <2>1, <2>4, Zenon DEF StageInv, SetupInv, Parked, SwitchInv, BackInv, StackInv
  <2> QED BY <1>4, <1>5, <1>7, <2>2, <2>5, Local, ConstantsDistinct, Zenon
<1> QED BY <1>1, <1>6, <1>7, Zenon DEF TypeOK

(* Tick preserves the invariant.                                           *)
LEMMA TickStep ==
  ASSUME IInv, NEW t \in Thread, Tick(t)
  PROVE  IInv'
<1> USE DEF Tick, lingerVars, tlsVars, stackVars, threadVars, kernelVars,
      ghostVars
<1>1. TypeOK'
  BY ZenonT(30) DEF IInv, TypeOK
<1>2. Exclusive' /\ Threads' /\ Slots'
  BY SMTT(60) DEF IInv, Exclusive, Threads, ThreadInv, Slots, Idle, Parked, StackInv
<1>3. ASSUME NEW u \in Thread, NEW d \in Cont, fs'[u] = d
      PROVE  StageInv(u, d)'
  <2>1. StageInv(u, d)
    BY <1>3, Zenon DEF IInv, Stages
  <2> QED BY <2>1, ZenonT(30)
      DEF StageInv, SetupInv, Parked, SwitchInv, InInv, BackInv, StackInv
<1> QED BY <1>1, <1>2, <1>3, Zenon DEF IInv, Stages

(* Expire preserves the invariant.                                         *)
LEMMA ExpireStep ==
  ASSUME IInv, NEW c \in Cont, Expire(c)
  PROVE  IInv'
<1> USE DEF Expire, lingerVars, tlsVars, stackVars, threadVars, kernelVars,
      ghostVars
<1>1. TypeOK'
  BY Zenon DEF IInv, TypeOK, Deadline
<1>2. Exclusive' /\ Threads' /\ Slots'
  BY ZenonT(30) DEF IInv, Exclusive, Threads, ThreadInv, Slots, Idle, Parked, StackInv
<1>3. ASSUME NEW t \in Thread, NEW d \in Cont, fs'[t] = d
      PROVE  StageInv(t, d)'
  <2>1. StageInv(t, d) /\ TypeOK
    BY <1>3, Zenon DEF IInv, Stages
  <2>2. \/ DEADLINE'[d] = DEADLINE[d]
        \/ DEADLINE[d] = "future" /\ DEADLINE'[d] = "past"
    BY <2>1, Zenon DEF TypeOK
  <2> QED BY <2>1, <2>2, Zenon
      DEF StageInv, SetupInv, Parked, SwitchInv, InInv, BackInv, StackInv,
          Budget
<1> QED BY <1>1, <1>2, <1>3, Zenon DEF IInv, Stages
=============================================================================
