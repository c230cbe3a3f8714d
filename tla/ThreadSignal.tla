---------------------------- MODULE ThreadSignal ----------------------------
(***************************************************************************)
(* The life of a thread's preemption signal: assign_signal() and the pool  *)
(* behind it, PreemptionSignal::new(), the ticks of the POSIX timer, and   *)
(* PreemptionSignal::drop() at the end of the thread, after which another  *)
(* thread may get the same signal while ticks of the old timer are still   *)
(* pending.  The timers notify the process, so that the kernel delivers a  *)
(* tick to any thread that does not mask it.                               *)
(*                                                                         *)
(* Preemption models what happens while a thread has its signal; here a    *)
(* preemptible function is only entered and left.                          *)
(***************************************************************************)
EXTENDS Integers

CONSTANTS
  Thread,  \* kernel threads; one that has ended may be created again
  Limit,   \* the number of NOTIFICATION_SIGNALS
  None

VARIABLES
  pc,        \* pc[t]: what thread t is doing
  signal,    \* signal[t]: the signal in SIGNALER, or in new() or drop()
  timer,     \* timer[t]: the signal that the thread's POSIX timer sends
  mask,      \* mask[t]: signal mask
  callMask,  \* callMask[t]: mask at the call site of a preemptible function
  free,      \* the signals that have been returned to SIGNALS
  built,     \* how many of the signals SIGNALS has built
  handled,   \* the signals whose disposition is preempt()
  pending,   \* the signals pending for the process
  stray,     \* the signals of the timers that could not be deleted
  fate       \* is the process running, or has it aborted?

poolVars == <<free, built>>
kernelVars == <<handled, pending, stray, fate>>
vars == <<pc, signal, timer, mask, callMask, poolVars, kernelVars>>

Nobody == "nobody"
ASSUME SignalAssumption ==
  /\ Limit \in Nat \ {0}
  /\ None \notin 1 .. Limit
  /\ Nobody \notin Thread

Signal == 1 .. Limit
Teardown == {"delete", "unregister", "return"}

TypeOK ==
  /\ pc \in [Thread -> {"ended", "caller", "refused", "action", "mask", "timer", "in"}
                         \cup Teardown]
  /\ signal \in [Thread -> Signal \cup {None}]
  /\ timer \in [Thread -> Signal \cup {None}]
  /\ mask \in [Thread -> SUBSET Signal]
  /\ callMask \in [Thread -> SUBSET Signal]
  /\ free \subseteq Signal
  /\ built \in 0 .. Limit
  /\ handled \subseteq Signal
  /\ pending \subseteq Signal
  /\ stray \subseteq Signal
  /\ fate \in {"running", "aborted"}

(* The process starts with one thread.                                     *)
Init ==
  /\ \E main \in Thread :
       pc = [t \in Thread |-> IF t = main THEN "caller" ELSE "ended"]
  /\ signal = [t \in Thread |-> None]
  /\ timer = [t \in Thread |-> None]
  /\ mask = [t \in Thread |-> {}]
  /\ callMask = [t \in Thread |-> {}]
  /\ free = {}
  /\ built = 0
  /\ handled = {}
  /\ pending = {}
  /\ stray = {}
  /\ fate = "running"

-----------------------------------------------------------------------------
(* Thread t goes from one stage to the next.                               *)
Goto(t, from, to) ==
  /\ fate = "running"
  /\ pc[t] = from
  /\ pc' = [pc EXCEPT ![t] = to]

(* Plausible mistakes: a function left without restoring the mask, a       *)
(* sigaction() that does reset the disposition, a timer that is not        *)
(* deleted, a signal that stays in the pool, and a builder that gives one  *)
(* signal too few.                                                         *)
LeaveUnmasked(t) ==
  /\ Goto(t, "in", "caller")
  /\ UNCHANGED <<signal, timer, mask, callMask, poolVars, kernelVars>>
Reset(t) ==
  /\ Goto(t, "unregister", "return")
  /\ handled' = handled \ {signal[t]}
  /\ UNCHANGED <<signal, timer, mask, callMask, poolVars, pending, stray, fate>>
Undeleted(t) ==
  /\ Goto(t, "delete", "unregister")
  /\ UNCHANGED <<signal, timer, mask, callMask, poolVars, kernelVars>>
Copied(t, s) ==
  /\ s \in free
  /\ signal' = [signal EXCEPT ![t] = s]
  /\ UNCHANGED poolVars
OneTooFew == free = {} /\ built < Limit - 1

(* The pool gives a signal that was returned before it builds another;     *)
(* NOTIFICATION_SIGNALS.get() is None past the end of the array.           *)
Pop(t, s) ==
  /\ s \in free
  /\ free' = free \ {s}
  /\ signal' = [signal EXCEPT ![t] = s]
  /\ UNCHANGED built
CanBuild == free = {} /\ built < Limit
Build(t) ==
  /\ CanBuild
  /\ built' = built + 1
  /\ signal' = [signal EXCEPT ![t] = built + 1]
  /\ UNCHANGED free

(* resume() on a thread whose SIGNALER is None: PreemptionSignal::new()    *)
(* starts with assign_signal(), and panics if there is no signal left.     *)
Unassigned(t) == pc[t] \in {"caller", "refused"} /\ signal[t] = None
AssignSignal(t) ==
  /\ Unassigned(t)
  /\ Goto(t, pc[t], "action")
  /\ Build(t) \/ \E s \in free : Pop(t, s)
  /\ UNCHANGED <<timer, mask, callMask, kernelVars>>
NoSignalLeft(t) ==
  /\ Unassigned(t)
  /\ free = {} /\ ~CanBuild
  /\ Goto(t, pc[t], "refused")
  /\ UNCHANGED <<signal, timer, mask, callMask, poolVars, kernelVars>>

(* sigaction(signal, &sa)                                                  *)
Register(t) ==
  /\ Goto(t, "action", "mask")
  /\ handled' = handled \cup {signal[t]}
  /\ UNCHANGED <<signal, timer, mask, callMask, poolVars, pending, stray, fate>>

(* mask(Operation::Block, signal)                                          *)
Block(t) ==
  /\ Goto(t, "mask", "timer")
  /\ mask' = [mask EXCEPT ![t] = @ \cup {signal[t]}]
  /\ UNCHANGED <<signal, timer, callMask, poolVars, kernelVars>>

(* timer_create(), timer_settime(), and SIGNALER is filled.                *)
StartTimer(t) ==
  /\ Goto(t, "timer", "caller")
  /\ timer' = [timer EXCEPT ![t] = signal[t]]
  /\ UNCHANGED <<signal, mask, callMask, poolVars, kernelVars>>

(* One of these four system calls fails: resume() aborts the process.      *)
NewFails(t) ==
  /\ fate = "running"
  /\ pc[t] \in {"action", "mask", "timer"}
  /\ fate' = "aborted"
  /\ UNCHANGED <<pc, signal, timer, mask, callMask, poolVars, handled, pending, stray>>

-----------------------------------------------------------------------------
(* resume() installs a TCB, sets its SIGNAL, switches to the function's    *)
(* stack and unmasks the thread's signal; switching back restores the      *)
(* call site's mask.                                                       *)
Enter(t) ==
  /\ signal[t] # None
  /\ Goto(t, "caller", "in")
  /\ callMask' = [callMask EXCEPT ![t] = mask[t]]
  /\ mask' = [mask EXCEPT ![t] = @ \ {signal[t]}]
  /\ UNCHANGED <<signal, timer, poolVars, kernelVars>>
Leave(t) ==
  /\ Goto(t, "in", "caller")
  /\ mask' = [mask EXCEPT ![t] = callMask[t]]
  /\ callMask' = [callMask EXCEPT ![t] = {}]
  /\ UNCHANGED <<signal, timer, poolVars, kernelVars>>

-----------------------------------------------------------------------------
(* The end of a thread drops its SIGNALER, if it has been filled.          *)
ThreadEnds(t) ==
  /\ pc[t] \in {"caller", "refused"}
  /\ signal[t] # None
  /\ Goto(t, pc[t], "delete")
  /\ UNCHANGED <<signal, timer, mask, callMask, poolVars, kernelVars>>
EndsUnassigned(t) ==
  /\ Unassigned(t)
  /\ Goto(t, pc[t], "ended")
  /\ mask' = [mask EXCEPT ![t] = {}]
  /\ UNCHANGED <<signal, timer, callMask, poolVars, kernelVars>>

(* timer_delete(); an error is only printed, and the timer keeps ticking.  *)
DeleteTimer(t) ==
  /\ Goto(t, "delete", "unregister")
  /\ timer' = [timer EXCEPT ![t] = None]
  /\ UNCHANGED <<signal, mask, callMask, poolVars, kernelVars>>
DeleteFails(t) ==
  /\ Goto(t, "delete", "unregister")
  /\ timer' = [timer EXCEPT ![t] = None]
  /\ stray' = stray \cup {signal[t]}
  /\ UNCHANGED <<signal, mask, callMask, poolVars, handled, pending, fate>>

(* sigaction(signal, &()): () is Actionable as None, so that the system    *)
(* call gets no new action and leaves the disposition as it is.            *)
Unregister(t) ==
  /\ Goto(t, "unregister", "return")
  /\ UNCHANGED <<signal, timer, mask, callMask, poolVars, kernelVars>>

(* The fields of the PreemptionSignal are dropped after its drop().        *)
ReturnSignal(t) ==
  /\ Goto(t, "return", "ended")
  /\ free' = free \cup {signal[t]}
  /\ signal' = [signal EXCEPT ![t] = None]
  /\ mask' = [mask EXCEPT ![t] = {}]
  /\ UNCHANGED <<timer, callMask, built, kernelVars>>

-----------------------------------------------------------------------------
(* The operating system.                                                   *)

(* A new thread inherits the signal mask of the one that creates it.       *)
Spawn(t, parent) ==
  /\ pc[parent] \in {"caller", "in"}
  /\ Goto(t, "ended", "caller")
  /\ mask' = [mask EXCEPT ![t] = mask[parent]]
  /\ UNCHANGED <<signal, timer, callMask, poolVars, kernelVars>>

Tick(s) ==
  /\ fate = "running"
  /\ s \in stray \/ \E t \in Thread : timer[t] = s
  /\ pending' = pending \cup {s}
  /\ UNCHANGED <<pc, signal, timer, mask, callMask, poolVars, handled, stray, fate>>

(* The process-directed signal s is delivered to a thread t.               *)
Delivery(t, s) ==
  /\ fate = "running"
  /\ pc[t] # "ended"
  /\ s \in pending \ mask[t]
  /\ pending' = pending \ {s}

(* thread_signal() is Ok(s): only a virtual TCB has its SIGNAL set.        *)
Relevant(t, s) == pc[t] = "in" /\ signal[t] = s

(* preempt(): an irrelevant signal is masked in the interrupted context;   *)
(* a relevant one ends the time slice or not.                              *)
PreemptIrrelevant(t, s) ==
  /\ Delivery(t, s)
  /\ s \in handled /\ ~Relevant(t, s)
  /\ mask' = [mask EXCEPT ![t] = @ \cup {s}]
  /\ UNCHANGED <<pc, signal, timer, callMask, poolVars, handled, stray, fate>>
PreemptNotYet(t, s) ==
  /\ Delivery(t, s)
  /\ s \in handled /\ Relevant(t, s)
  /\ UNCHANGED <<pc, signal, timer, mask, callMask, poolVars, handled, stray, fate>>
PreemptPause(t, s) ==
  /\ Delivery(t, s)
  /\ s \in handled /\ Relevant(t, s)
  /\ pc' = [pc EXCEPT ![t] = "caller"]
  /\ mask' = [mask EXCEPT ![t] = callMask[t] \cup {s}]
  /\ callMask' = [callMask EXCEPT ![t] = {}]
  /\ UNCHANGED <<signal, timer, poolVars, handled, stray, fate>>

-----------------------------------------------------------------------------
Setup(t) ==
  \/ AssignSignal(t) \/ NoSignalLeft(t)
  \/ Register(t) \/ Block(t) \/ StartTimer(t) \/ NewFails(t)
Call(t) == Enter(t) \/ Leave(t)
End(t) ==
  \/ ThreadEnds(t) \/ EndsUnassigned(t)
  \/ DeleteTimer(t) \/ DeleteFails(t) \/ Unregister(t) \/ ReturnSignal(t)
Deliver(t, s) ==
  \/ PreemptIrrelevant(t, s) \/ PreemptNotYet(t, s) \/ PreemptPause(t, s)

Next ==
  \/ \E t \in Thread : Setup(t) \/ Call(t) \/ End(t)
  \/ \E t, parent \in Thread : Spawn(t, parent)
  \/ \E s \in Signal : Tick(s)
  \/ \E t \in Thread, s \in Signal : Deliver(t, s)

Spec == Init /\ [][Next]_vars

-----------------------------------------------------------------------------
(* A signal that a thread can be given has a handler, so that a tick never *)
(* meets the default action, which would kill the process: not when it is  *)
(* raised before the owner has masked it, nor when it is still pending     *)
(* after its owner has ended and its timer is gone, nor when the next      *)
(* owner is only being set up.                                             *)
NeverKilled ==
  \A t \in Thread : pc[t] # "ended" => pending \ mask[t] \subseteq handled

(* A timer that ticks belongs to a thread that has not ended and sends the *)
(* signal of that thread, which no other thread has and the pool cannot    *)
(* give away: drop() deletes the timer before it lets go of the signal.    *)
(* The exception is a timer that timer_delete() failed for: it outlives    *)
(* its thread (stray), and its ticks then reach the signal's next owner.   *)
TimerOwned ==
  \A t \in Thread :
    timer[t] # None =>
      /\ pc[t] # "ended"
      /\ timer[t] = signal[t]
      /\ timer[t] \notin free
      /\ \A u \in Thread \ {t} : signal[u] # timer[t]

(* Once its timer ticks, a thread that executes no preemptible function    *)
(* masks its own signal, to the very end: no tick of its own is handled    *)
(* while the thread-local SIGNALER is being destroyed.                     *)
ShieldedToTheEnd ==
  \A t \in Thread :
    pc[t] \in Teardown \/ (pc[t] = "caller" /\ signal[t] # None) =>
      signal[t] \in mask[t]

(* assign_signal() fails only if each of the NOTIFICATION_SIGNALS is held  *)
(* by a thread that has not ended: ended threads give theirs back.         *)
RefusedOnlyIfExhausted ==
  [][\A t \in Thread :
       pc[t] # "refused" /\ pc'[t] = "refused" =>
         \A s \in Signal : \E u \in Thread : signal[u] = s /\ pc[u] # "ended"]_vars

(* Threads that come and go use SIGNALS as the clients of a pool.          *)
holder ==
  [s \in Signal |-> IF \E t \in Thread : signal[t] = s
                    THEN CHOOSE t \in Thread : signal[t] = s
                    ELSE Nobody]
SIGNALS == INSTANCE Allocator WITH
  Client <- Thread, Value <- Signal, Lost <- "lost", made <- 1 .. built
AllocSpec == SIGNALS!Spec
=============================================================================
