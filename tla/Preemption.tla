----------------------------- MODULE Preemption -----------------------------
(***************************************************************************)
(* How libinger starts, preempts, resumes and cancels preemptible          *)
(* functions: launch(), resume(), pause(), the preempt() signal handler    *)
(* and the drop of a Continuation in src/linger.rs, together with the      *)
(* enabling, disabling and deferring of preemption in src/preemption.rs.   *)
(*                                                                         *)
(* A slot c of Cont stands for a libset, a virtual TCB and an execution    *)
(* stack that are used together; its thread-local variables live as long   *)
(* as the slot.  Each kernel thread has one preemption signal, and the     *)
(* signal is identified with the thread.  A step of the model is the code  *)
(* between two points where a signal handler can make a difference.        *)
(***************************************************************************)
CONSTANTS
  Thread,  \* kernel threads, and the preemption signal assigned to each
  Cont,    \* slots for preemptible functions
  May,     \* the pairs <<t, c>> such that thread t ever holds the Linger c
  Us,      \* the time budgets that callers pass
  None,    \* Option::None, for a slot or a thread
  Shared   \* Group::SHARED, the libset of nonpreemptible code

VARIABLES
  (* Owned by whoever holds the Linger. *)
  linger,      \* linger[c]: variant of the Linger enum, or "none"
  functional,  \* functional[c]: Function, Ok/Err (a Return), or Empty
  task,        \* task[c]: the Continuation's stateful field
  (* Thread-local variables of each virtual TCB. *)
  TASK, BOOTSTRAP, DEADLINE, SIGNAL, DEFERRED,
  (* The execution stack of each preemptible function. *)
  at,          \* at[c]: where the function's stack is executing
  signal,      \* signal[c]: the local of that name in schedule()
  (* Kernel threads. *)
  pc,          \* pc[t]: where resume() is on the thread's main stack
  us,          \* us[t]: argument of the resume() call
  fs,          \* fs[t]: the virtual TCB that is installed, or None
  group,       \* group[t]: current libset
  mask,        \* mask[t]: signal mask
  callMask,    \* callMask[t]: mask in the checkpoint of the call site
  signaler,    \* signaler[t]: has SIGNALER been filled (timer is ticking)?
  pend,        \* pend[t]: signals pending for the thread (pthread_kill())
  procPend,    \* signals pending for the process (the timers send these)
  aborted,     \* the process died of a panic inside the signal handler
  (* History, read by properties only. *)
  asked,       \* asked[c]: has it called pause() in this time slice?
  dirty        \* dirty[c]: is there an unfinished call in the libset?

lingerVars == <<linger, functional, task>>
tlsVars == <<TASK, BOOTSTRAP, DEADLINE, SIGNAL, DEFERRED>>
stackVars == <<at, signal>>
threadVars == <<pc, us, fs, group, mask, callMask, signaler>>
kernelVars == <<pend, procPend, aborted>>
ghostVars == <<asked, dirty>>
vars == <<lingerVars, tlsVars, stackVars, threadVars, kernelVars, ghostVars>>

Task == [errno : BOOLEAN, checkpoint : BOOLEAN, yielded : BOOLEAN]
Default == [errno |-> FALSE, checkpoint |-> FALSE, yielded |-> FALSE]

(* A time budget as passed by the caller: zero, finite, unlimited.         *)
Budget == {"zero", "us", "max"}
(* DEADLINE before stamp() holds a budget; after it a point in time.       *)
Deadline == Budget \cup {"future", "past"}

ASSUME ConstantsDistinct ==
  /\ None \notin Cont \cup Thread
  /\ Shared \notin Cont
  /\ Us \subseteq Budget

Locations ==
  {"none", "schedule", "fun", "nonpreemptible", "pause", "resume_preemption",
   "returned", "mask", "replace", "replacing", "store"}

TypeOK ==
  /\ linger \in [Cont -> {"none", "Continuation", "Completion", "Poison"}]
  /\ functional \in [Cont -> {"Function", "Ok", "Err", "Empty"}]
  /\ task \in [Cont -> Task]
  /\ TASK \in [Cont -> Task]
  /\ BOOTSTRAP \in [Cont -> BOOLEAN]
  /\ DEADLINE \in [Cont -> Deadline]
  /\ SIGNAL \in [Cont -> Thread \cup {None}]
  /\ DEFERRED \in [Cont -> BOOLEAN]
  /\ at \in [Cont -> Locations]
  /\ signal \in [Cont -> Thread \cup {None}]
  /\ pc \in [Thread -> {"caller", "setup", "replacing", "switch", "in", "back"}]
  /\ us \in [Thread -> Budget]
  /\ fs \in [Thread -> Cont \cup {None}]
  /\ group \in [Thread -> Cont \cup {Shared}]
  /\ mask \in [Thread -> SUBSET Thread]
  /\ callMask \in [Thread -> SUBSET Thread]
  /\ signaler \in [Thread -> BOOLEAN]
  /\ pend \in [Thread -> SUBSET Thread]
  /\ procPend \in SUBSET Thread
  /\ aborted \in BOOLEAN
  /\ asked \in [Cont -> BOOLEAN]
  /\ dirty \in [Cont -> BOOLEAN]

Init ==
  /\ linger = [c \in Cont |-> "none"]
  /\ functional = [c \in Cont |-> "Empty"]
  /\ task = [c \in Cont |-> Default]
  /\ TASK = [c \in Cont |-> Default]
  /\ BOOTSTRAP = [c \in Cont |-> FALSE]
  /\ DEADLINE = [c \in Cont |-> "zero"]
  /\ SIGNAL = [c \in Cont |-> None]
  /\ DEFERRED = [c \in Cont |-> FALSE]
  /\ at = [c \in Cont |-> "none"]
  /\ signal = [c \in Cont |-> None]
  /\ pc = [t \in Thread |-> "caller"]
  /\ us = [t \in Thread |-> "zero"]
  /\ fs = [t \in Thread |-> None]
  /\ group = [t \in Thread |-> Shared]
  /\ mask = [t \in Thread |-> {}]
  /\ callMask = [t \in Thread |-> {}]
  /\ signaler = [t \in Thread |-> FALSE]
  /\ pend = [t \in Thread |-> {}]
  /\ procPend = {}
  /\ aborted = FALSE
  /\ asked = [c \in Cont |-> FALSE]
  /\ dirty = [c \in Cont |-> FALSE]

-----------------------------------------------------------------------------
(* What the code asks of its state.                                        *)

Idle(c) == \A t \in Thread : fs[t] # c

(* No signal is about to interrupt thread t: pthread_kill() to oneself is  *)
(* delivered before the next instruction if the signal is not masked.      *)
Quiet(t) == pend[t] \subseteq mask[t]

(* Thread t executes resume() on its main stack / function c on c's stack. *)
Resuming(t, c, where) == pc[t] = where /\ fs[t] = c /\ Quiet(t)
Running(t, c, where) == pc[t] = "in" /\ fs[t] = c /\ at[c] = where /\ Quiet(t)

(* (Variant with a plausible mistake: no libset is exempt.)                *)
AnyLibset(t) == TRUE

is_preemptible(t) == group[t] # Shared

(* Variants of the operators below with a plausible mistake, to show that  *)
(* the properties notice it: stamp() forgotten, a mask left as it is, a    *)
(* pause() without its pthread_kill(), a timeout taken for a yield, a drop *)
(* that never renews.                                                      *)
Unstamped(d) == d
SetupUnmasked(t) == mask[t]
StillMasked(t, c) == mask[t]
DeferUnmasked(t, s) == mask[t]
NoKick(t, c) == pend[t]
YieldedLate(c) == DEADLINE[c] \in {"zero", "past"}
NeverRenews(c) == FALSE

(* stamp(): a budget becomes a point in time; max_value() stays unlimited. *)
stamp(d) == CASE d = "zero" -> "past"
              [] d = "us" -> "future"
              [] OTHER -> d

(* (Variant: only a function that has paused is preempted.)                *)
NeverExpires(d) == d = "zero"

(* nsnow() >= deadline, for any value DEADLINE can have.                   *)
Expired(d) == d \in {"zero", "us", "past"}

(* The signal masks that the code computes for thread t: once its signal   *)
(* has been created, on resuming c, in defer_preemption() of signal s, and *)
(* in disable_preemption() at the end of schedule(), which passes its own  *)
(* local rather than call thread_signal().                                 *)
SetupMask(t) == IF signaler[t] THEN mask[t] ELSE mask[t] \cup {t}
ResumeMask(t, c) == mask[t] \ {SIGNAL[c]}
DeferMask(t, s) == mask[t] \cup {s}
DisableMask(t, c) == mask[t] \cup {signal[c]}

(* enable_preemption(Some(group)) returns the signal that it unmasked.     *)
Unblock(c) == SIGNAL[c]

(* pthread_kill(pthread_self(), signal), while the signal is masked.       *)
Kick(t, c) == pend[t] \cup {SIGNAL[c]}

(* Did the function yield, as opposed to being preempted?                  *)
Yielded(c) == DEADLINE[c] = "zero"

(* Does the drop of the Linger reinitialise the libset?                    *)
Renews(c) == linger[c] = "Continuation" /\ task[c].errno

(* Where in a RefCell::replace() of SIGNAL the cell is mutably borrowed.   *)
Replacing(t) ==
  \/ pc[t] = "replacing"
  \/ pc[t] = "in" /\ at[fs[t]] = "replacing"

(* thread_signal() = Ok(s) on thread t, under the TCB that is installed.   *)
Relevant(t, s) == fs[t] # None /\ SIGNAL[fs[t]] = s

-----------------------------------------------------------------------------
(* The caller, and resume() on the main stack.                             *)

(* launch(fun, us): the closure and its Continuation, then, unless the     *)
(* budget is 0, the start of resume() as far as the TCB's install().       *)
Launch(t, c, u) ==
  /\ <<t, c>> \in May
  /\ pc[t] = "caller"
  /\ linger[c] = "none"
  /\ linger' = [linger EXCEPT ![c] = "Continuation"]
  /\ functional' = [functional EXCEPT ![c] = "Function"]
  /\ task' = [task EXCEPT ![c] = Default]
  /\ IF u = "zero"
       THEN UNCHANGED <<pc, us, fs>>
       ELSE /\ pc' = [pc EXCEPT ![t] = "setup"]
            /\ us' = [us EXCEPT ![t] = u]
            /\ fs' = [fs EXCEPT ![t] = c]
  /\ asked' = [asked EXCEPT ![c] = FALSE]
  /\ UNCHANGED <<tlsVars, stackVars, group, mask, callMask, signaler,
                 kernelVars, dirty>>

(* resume(fun, us) of a Continuation: tls.take() and install().            *)
Resume(t, c, u) ==
  /\ <<t, c>> \in May
  /\ pc[t] = "caller"
  /\ Idle(c)
  /\ linger[c] = "Continuation"
  /\ pc' = [pc EXCEPT ![t] = "setup"]
  /\ us' = [us EXCEPT ![t] = u]
  /\ fs' = [fs EXCEPT ![t] = c]
  /\ asked' = [asked EXCEPT ![c] = FALSE]
  /\ UNCHANGED <<lingerVars, tlsVars, stackVars, group, mask, callMask,
                 signaler, kernelVars, dirty>>

(* thread_setup(): PreemptionSignal::new() on the thread's first call      *)
(* (handler, mask, timer), then SIGNAL's replace() has begun.              *)
SetupThread(t, c) ==
  /\ Resuming(t, c, "setup")
  /\ signaler' = [signaler EXCEPT ![t] = TRUE]
  /\ mask' = [mask EXCEPT ![t] = SetupMask(t)]
  /\ pc' = [pc EXCEPT ![t] = "replacing"]
  /\ UNCHANGED <<lingerVars, tlsVars, stackVars, us, fs, group, callMask,
                 kernelVars, ghostVars>>

(* SIGNAL is filled.  A function that never ran gets a stack and is left   *)
(* in BOOTSTRAP for schedule(); DEADLINE is set to the raw budget.         *)
Bootstrap(t, c) ==
  /\ Resuming(t, c, "replacing")
  /\ SIGNAL' = [SIGNAL EXCEPT ![c] = t]
  /\ IF task[c].errno
       THEN UNCHANGED <<task, BOOTSTRAP, at>>
       ELSE /\ task' = [task EXCEPT ![c].checkpoint = TRUE]
            /\ BOOTSTRAP' = [BOOTSTRAP EXCEPT ![c] = TRUE]
            /\ at' = [at EXCEPT ![c] = "schedule"]
  /\ DEADLINE' = [DEADLINE EXCEPT ![c] = us[t]]
  /\ pc' = [pc EXCEPT ![t] = "switch"]
  /\ UNCHANGED <<linger, functional, TASK, DEFERRED, signal, us, fs, group,
                 mask, callMask, signaler, kernelVars, ghostVars>>

(* switch_stack() up to sigsetcontext().  The call site becomes TASK's     *)
(* checkpoint.  A paused function is entered with preemption enabled: its  *)
(* signal is unmasked by sigsetcontext() itself.                           *)
Switch(t, c) ==
  /\ Resuming(t, c, "switch")
  /\ task' = [task EXCEPT ![c].checkpoint = FALSE]
  /\ TASK' = [TASK EXCEPT ![c].checkpoint = TRUE]
  /\ callMask' = [callMask EXCEPT ![t] = mask[t]]
  /\ IF task[c].errno
       THEN /\ mask' = [mask EXCEPT ![t] = ResumeMask(t, c)]
            /\ DEADLINE' = [DEADLINE EXCEPT ![c] = stamp(@)]
            /\ group' = [group EXCEPT ![t] = c]
       ELSE UNCHANGED <<mask, DEADLINE, group>>
  /\ pc' = [pc EXCEPT ![t] = "in"]
  /\ UNCHANGED <<linger, functional, BOOTSTRAP, SIGNAL, DEFERRED, stackVars,
                 us, fs, signaler, kernelVars, ghostVars>>

(* The rest of switch_stack() and of resume() once control is back.        *)
SwitchBack(t, c) ==
  /\ Resuming(t, c, "back")
  /\ TASK' = [TASK EXCEPT ![c] = Default]
  /\ IF TASK[c].errno
       THEN /\ task' = [task EXCEPT ![c] = TASK[c]]
            /\ UNCHANGED <<linger, functional>>
       ELSE /\ task' = [task EXCEPT ![c].errno = FALSE]
            /\ functional' = [functional EXCEPT ![c] = "Empty"]
            /\ linger' = [linger EXCEPT ![c] =
                 IF functional[c] = "Ok" THEN "Completion" ELSE "Poison"]
  /\ pc' = [pc EXCEPT ![t] = "caller"]
  /\ us' = [us EXCEPT ![t] = "zero"]
  /\ fs' = [fs EXCEPT ![t] = None]
  /\ UNCHANGED <<BOOTSTRAP, DEADLINE, SIGNAL, DEFERRED, stackVars, group, mask,
                 callMask, signaler, kernelVars, ghostVars>>

(* Drop of a Linger.  A Continuation that was started (errno is Some) has  *)
(* its libset reinitialised and its stack abandoned.                       *)
DropLinger(t, c) ==
  /\ <<t, c>> \in May
  /\ pc[t] = "caller"
  /\ Idle(c)
  /\ linger[c] # "none"
  /\ linger' = [linger EXCEPT ![c] = "none"]
  /\ functional' = [functional EXCEPT ![c] = "Empty"]
  /\ task' = [task EXCEPT ![c] = Default]
  /\ dirty' = [dirty EXCEPT ![c] = @ /\ ~Renews(c)]
  /\ at' = [at EXCEPT ![c] = "none"]
  /\ signal' = [signal EXCEPT ![c] = None]
  /\ asked' = [asked EXCEPT ![c] = FALSE]
  /\ UNCHANGED <<tlsVars, threadVars, kernelVars>>

-----------------------------------------------------------------------------
(* The preemptible function, on its own stack.                             *)

(* schedule() up to the call of fun(): enable_preemption(Some(group)).     *)
Schedule(t, c) ==
  /\ Running(t, c, "schedule")
  /\ BOOTSTRAP[c]
  /\ BOOTSTRAP' = [BOOTSTRAP EXCEPT ![c] = FALSE]
  /\ DEADLINE' = [DEADLINE EXCEPT ![c] = stamp(@)]
  /\ group' = [group EXCEPT ![t] = c]
  /\ DEFERRED' = [DEFERRED EXCEPT ![c] = FALSE]
  /\ pend' = [pend EXCEPT ![t] = IF DEFERRED[c] THEN Kick(t, c) ELSE @]
  /\ mask' = [mask EXCEPT ![t] = @ \ {SIGNAL[c]}]
  /\ signal' = [signal EXCEPT ![c] = Unblock(c)]
  /\ at' = [at EXCEPT ![c] = "fun"]
  /\ dirty' = [dirty EXCEPT ![c] = TRUE]
  /\ UNCHANGED <<lingerVars, TASK, SIGNAL, pc, us, fs, callMask, signaler,
                 procPend, aborted, asked>>

(* The function calls into a library of the shared libset ...              *)
CallShared(t, c) ==
  /\ Running(t, c, "fun")
  /\ group' = [group EXCEPT ![t] = Shared]
  /\ at' = [at EXCEPT ![c] = "nonpreemptible"]
  /\ UNCHANGED <<lingerVars, tlsVars, signal, pc, us, fs, mask, callMask,
                 signaler, kernelVars, ghostVars>>

(* ... and libgotcha switches back to its libset when the call returns,    *)
(* then runs the resume_preemption() hook.                                 *)
ReturnShared(t, c) ==
  /\ Running(t, c, "nonpreemptible")
  /\ group' = [group EXCEPT ![t] = c]
  /\ at' = [at EXCEPT ![c] = "resume_preemption"]
  /\ UNCHANGED <<lingerVars, tlsVars, signal, pc, us, fs, mask, callMask,
                 signaler, kernelVars, ghostVars>>

(* enable_preemption(None): raise and unmask a signal that was deferred.   *)
ResumePreemption(t, c) ==
  /\ Running(t, c, "resume_preemption")
  /\ DEFERRED' = [DEFERRED EXCEPT ![c] = FALSE]
  /\ IF DEFERRED[c]
       THEN /\ pend' = [pend EXCEPT ![t] = Kick(t, c)]
            /\ mask' = [mask EXCEPT ![t] = @ \ {SIGNAL[c]}]
       ELSE UNCHANGED <<pend, mask>>
  /\ at' = [at EXCEPT ![c] = "fun"]
  /\ UNCHANGED <<lingerVars, TASK, BOOTSTRAP, DEADLINE, SIGNAL, signal, pc, us,
                 fs, group, callMask, signaler, procPend, aborted, ghostVars>>

(* pause(): libinger is itself in the shared libset.  First the deadline ..*)
CallPause(t, c) ==
  /\ Running(t, c, "fun")
  /\ group' = [group EXCEPT ![t] = Shared]
  /\ DEADLINE' = [DEADLINE EXCEPT ![c] = "zero"]
  /\ at' = [at EXCEPT ![c] = "pause"]
  /\ asked' = [asked EXCEPT ![c] = TRUE]
  /\ UNCHANGED <<lingerVars, TASK, BOOTSTRAP, SIGNAL, DEFERRED, signal, pc, us,
                 fs, mask, callMask, signaler, kernelVars, dirty>>

(* ... then defer_preemption(None), after which the call is about to       *)
(* return like that of any nonpreemptible function.                        *)
DeferPreemption(t, c) ==
  /\ Running(t, c, "pause")
  /\ mask' = [mask EXCEPT ![t] = DeferMask(t, SIGNAL[c])]
  /\ DEFERRED' = [DEFERRED EXCEPT ![c] = TRUE]
  /\ at' = [at EXCEPT ![c] = "nonpreemptible"]
  /\ UNCHANGED <<lingerVars, TASK, BOOTSTRAP, DEADLINE, SIGNAL, signal, pc, us,
                 fs, group, callMask, signaler, kernelVars, ghostVars>>

(* The closure built by launch() stores what the function returned, or     *)
(* the panic that it caught.                                               *)
Finish(t, c, r) ==
  /\ Running(t, c, "fun")
  /\ functional[c] = "Function"
  /\ functional' = [functional EXCEPT ![c] = r]
  /\ at' = [at EXCEPT ![c] = "returned"]
  /\ UNCHANGED <<linger, task, tlsVars, signal, threadVars, kernelVars,
                 ghostVars>>

(* disable_preemption(signal), one step per statement: group_thread_set!() *)
DisableGroup(t, c) ==
  /\ Running(t, c, "returned")
  /\ group' = [group EXCEPT ![t] = Shared]
  /\ at' = [at EXCEPT ![c] = "mask"]
  /\ UNCHANGED <<lingerVars, tlsVars, signal, pc, us, fs, mask, callMask,
                 signaler, kernelVars, ghostVars>>

(* mask(Operation::Block, signal), with schedule()'s local                 *)
DisableBlock(t, c) ==
  /\ Running(t, c, "mask")
  /\ mask' = [mask EXCEPT ![t] = DisableMask(t, c)]
  /\ at' = [at EXCEPT ![c] = "replace"]
  /\ UNCHANGED <<lingerVars, tlsVars, signal, pc, us, fs, group, callMask,
                 signaler, kernelVars, ghostVars>>

(* SIGNAL's replace(None) begins, with a mutable borrow of the cell ...    *)
DisableBorrow(t, c) ==
  /\ Running(t, c, "replace")
  /\ at' = [at EXCEPT ![c] = "replacing"]
  /\ UNCHANGED <<lingerVars, tlsVars, signal, threadVars, kernelVars, ghostVars>>

(* (Variant: SIGNAL is left behind.)                                       *)
LeaveSignal(t, c) ==
  /\ Running(t, c, "replacing")
  /\ at' = [at EXCEPT ![c] = "store"]
  /\ UNCHANGED <<lingerVars, tlsVars, signal, threadVars, kernelVars, ghostVars>>

(* ... and ends.                                                           *)
DisableReplace(t, c) ==
  /\ Running(t, c, "replacing")
  /\ SIGNAL' = [SIGNAL EXCEPT ![c] = None]
  /\ at' = [at EXCEPT ![c] = "store"]
  /\ UNCHANGED <<lingerVars, TASK, BOOTSTRAP, DEADLINE, DEFERRED, signal,
                 threadVars, kernelVars, ghostVars>>

(* (Variant: DEFERRED is left as it is.)                                   *)
LeaveDeferred(t, c) ==
  /\ Running(t, c, "store")
  /\ mask' = [mask EXCEPT ![t] = callMask[t]]
  /\ callMask' = [callMask EXCEPT ![t] = {}]
  /\ at' = [at EXCEPT ![c] = "none"]
  /\ signal' = [signal EXCEPT ![c] = None]
  /\ pc' = [pc EXCEPT ![t] = "back"]
  /\ dirty' = [dirty EXCEPT ![c] = FALSE]
  /\ UNCHANGED <<lingerVars, tlsVars, us, fs, group, signaler, kernelVars, asked>>

(* DEFERRED's store(false); schedule() returns and the context's link      *)
(* restores the call site with the mask it had.                            *)
DisableStore(t, c) ==
  /\ Running(t, c, "store")
  /\ DEFERRED' = [DEFERRED EXCEPT ![c] = FALSE]
  /\ mask' = [mask EXCEPT ![t] = callMask[t]]
  /\ callMask' = [callMask EXCEPT ![t] = {}]
  /\ at' = [at EXCEPT ![c] = "none"]
  /\ signal' = [signal EXCEPT ![c] = None]
  /\ pc' = [pc EXCEPT ![t] = "back"]
  /\ dirty' = [dirty EXCEPT ![c] = FALSE]
  /\ UNCHANGED <<lingerVars, TASK, BOOTSTRAP, DEADLINE, SIGNAL, us, fs, group,
                 signaler, kernelVars, asked>>

-----------------------------------------------------------------------------
(* Time, timers and signals.                                               *)

(* The clock passes the deadline of function c.                            *)
Expire(c) ==
  /\ DEADLINE[c] = "future"
  /\ DEADLINE' = [DEADLINE EXCEPT ![c] = "past"]
  /\ UNCHANGED <<lingerVars, TASK, BOOTSTRAP, SIGNAL, DEFERRED, stackVars,
                 threadVars, kernelVars, ghostVars>>

(* Thread t's interval timer fires: SIGEV_SIGNAL, so any thread may get it *)
Tick(t) ==
  /\ signaler[t]
  /\ t \notin procPend
  /\ procPend' = procPend \cup {t}
  /\ UNCHANGED <<lingerVars, tlsVars, stackVars, threadVars, pend, aborted,
                 ghostVars>>

(* The kernel delivers signal s to thread t, which does not mask it.       *)
Deliver(t, s) ==
  /\ s \notin mask[t]
  /\ \/ /\ s \in procPend
        /\ procPend' = procPend \ {s}
        /\ UNCHANGED pend
     \/ /\ s \in pend[t]
        /\ pend' = [pend EXCEPT ![t] = @ \ {s}]
        /\ UNCHANGED procPend

(* preempt(), one action per path.  thread_signal() borrows SIGNAL: if the *)
(* interrupted code is replacing it, the handler panics and the process    *)
(* aborts.                                                                 *)
PreemptPanic(t, s) ==
  /\ Deliver(t, s)
  /\ Replacing(t)
  /\ aborted' = TRUE
  /\ UNCHANGED <<lingerVars, tlsVars, stackVars, threadVars, ghostVars>>

(* The signal belongs to another thread, or preemption is not set up here. *)
PreemptIrrelevant(t, s) ==
  /\ Deliver(t, s)
  /\ ~Replacing(t)
  /\ ~Relevant(t, s)
  /\ mask' = [mask EXCEPT ![t] = @ \cup {s}]
  /\ UNCHANGED <<lingerVars, tlsVars, stackVars, pc, us, fs, group, callMask,
                 signaler, aborted, ghostVars>>

(* Nonpreemptible code is running: defer_preemption((uc_sigmask, no)).     *)
PreemptDefer(t, s) ==
  /\ Deliver(t, s)
  /\ ~Replacing(t)
  /\ Relevant(t, s)
  /\ ~is_preemptible(t)
  /\ mask' = [mask EXCEPT ![t] = DeferMask(t, s)]
  /\ DEFERRED' = [DEFERRED EXCEPT ![fs[t]] = TRUE]
  /\ UNCHANGED <<lingerVars, TASK, BOOTSTRAP, DEADLINE, SIGNAL, stackVars, pc,
                 us, fs, group, callMask, signaler, aborted, ghostVars>>

(* There is time left.                                                     *)
PreemptNotYet(t, s) ==
  /\ Deliver(t, s)
  /\ ~Replacing(t)
  /\ Relevant(t, s)
  /\ is_preemptible(t)
  /\ ~Expired(DEADLINE[fs[t]])
  /\ UNCHANGED <<lingerVars, tlsVars, stackVars, threadVars, aborted, ghostVars>>

(* It is time to pause: TASK's checkpoint is swapped with the interrupted  *)
(* context, errno is saved, and disable_preemption(None) runs, so that the *)
(* handler returns to the call site with the signal masked.                *)
PreemptPause(t, s) ==
  /\ Deliver(t, s)
  /\ ~Replacing(t)
  /\ Relevant(t, s)
  /\ is_preemptible(t)
  /\ Expired(DEADLINE[fs[t]])
  /\ TASK' = [TASK EXCEPT ![fs[t]].yielded = Yielded(fs[t]),
                          ![fs[t]].errno = TRUE]
  /\ mask' = [mask EXCEPT ![t] = callMask[t] \cup {s}]
  /\ callMask' = [callMask EXCEPT ![t] = {}]
  /\ group' = [group EXCEPT ![t] = Shared]
  /\ SIGNAL' = [SIGNAL EXCEPT ![fs[t]] = None]
  /\ DEFERRED' = [DEFERRED EXCEPT ![fs[t]] = FALSE]
  /\ pc' = [pc EXCEPT ![t] = "back"]
  /\ UNCHANGED <<lingerVars, BOOTSTRAP, DEADLINE, stackVars, us, fs, signaler,
                 aborted, ghostVars>>

-----------------------------------------------------------------------------

Preempt(t, s) ==
  \/ PreemptPanic(t, s)
  \/ PreemptIrrelevant(t, s)
  \/ PreemptDefer(t, s)
  \/ PreemptNotYet(t, s)
  \/ PreemptPause(t, s)

(* What thread t does of its own accord once resume() has been called,     *)
(* apart from the choices of the preemptible function.                     *)
Proceed(t, c) ==
  \/ SetupThread(t, c)
  \/ Bootstrap(t, c)
  \/ Switch(t, c)
  \/ SwitchBack(t, c)
  \/ Schedule(t, c)
  \/ ReturnShared(t, c)
  \/ ResumePreemption(t, c)
  \/ DeferPreemption(t, c)
  \/ DisableGroup(t, c)
  \/ DisableBlock(t, c)
  \/ DisableBorrow(t, c)
  \/ DisableReplace(t, c)
  \/ DisableStore(t, c)

Function(t, c) ==
  \/ CallShared(t, c)
  \/ CallPause(t, c)
  \/ \E r \in {"Ok", "Err"} : Finish(t, c, r)

Caller(t, c) ==
  \/ \E u \in Us : Launch(t, c, u) \/ Resume(t, c, u)
  \/ DropLinger(t, c)

Step ==
  \/ \E t \in Thread, c \in Cont : Caller(t, c) \/ Proceed(t, c) \/ Function(t, c)
  \/ \E t \in Thread, s \in Thread : Preempt(t, s)
  \/ \E t \in Thread : Tick(t)
  \/ \E c \in Cont : Expire(c)

Next ==
  \/ ~aborted /\ Step
  \/ aborted /\ UNCHANGED vars

Spec == Init /\ [][Next]_vars

(* Fairness.  A thread inside resume() is scheduled and the nonpreemptible *)
(* calls of its function return; timers keep ticking; the clock advances.  *)
(* A thread's own signal is delivered if it stays pending and unmasked,    *)
(* which it need not do when other threads can take it: the timers send it *)
(* to the process.  Nothing is assumed of the function itself.             *)
FairSpec ==
  /\ Spec
  /\ \A t \in Thread, c \in Cont : WF_vars(~aborted /\ Proceed(t, c))
  /\ \A t \in Thread : WF_vars(~aborted /\ Tick(t))
  /\ \A c \in Cont : WF_vars(~aborted /\ Expire(c))
  /\ \A t \in Thread : WF_vars(~aborted /\ Preempt(t, t))

-----------------------------------------------------------------------------
(* Properties.                                                             *)

(* Outside a preemptible function a thread is in the shared libset and its *)
(* preemption signal is masked: neither the caller nor resume() itself is  *)
(* ever taken for a preemptible function, however the last slice ended.    *)
CallerShielded ==
  \A t \in Thread : pc[t] # "in" =>
    /\ group[t] = Shared
    /\ signaler[t] => t \in mask[t]

(* Whenever preempt() can take the path that pauses, there is a checkpoint *)
(* to unfurl(), and DEADLINE has been through stamp() (or is the 0 that    *)
(* pause() stored), so it is compared with the clock as a point in time.   *)
HandlerSafe ==
  \A t \in Thread :
    t \notin mask[t] /\ Relevant(t, t) /\ is_preemptible(t) =>
      /\ TASK[fs[t]].checkpoint
      /\ ~TASK[fs[t]].errno
      /\ DEADLINE[fs[t]] # "us"
      /\ DEADLINE[fs[t]] = "zero" => asked[fs[t]]

(* While DEFERRED is set the thread's signal is masked, which is why       *)
(* enable_preemption() may call thread_signal(), and why it must unmask.   *)
DeferredMasked ==
  \A t \in Thread : fs[t] # None /\ DEFERRED[fs[t]] => t \in mask[t]

(* A preemptible function never runs its own code with its signal masked:  *)
(* no path through deferral, pause() or resume() loses preemption.         *)
NoLostPreemption ==
  \A t \in Thread : pc[t] = "in" /\ at[fs[t]] = "fun" =>
    /\ t \notin mask[t]
    /\ SIGNAL[fs[t]] = t

(* SIGNAL only ever refers to the thread on which its TCB is installed:    *)
(* RealThreadId is an unbounded reference into that thread's storage, so   *)
(* it must not be left behind in the TCB of a paused function.             *)
NoDanglingSignal ==
  \A c \in Cont : SIGNAL[c] # None => fs[SIGNAL[c]] = c

(* Once pause() has returned to the preemptible function, the signal that  *)
(* switches away from it is deliverable: it does not execute a step more.  *)
PauseSwitches ==
  \A t \in Thread : pc[t] = "in" /\ at[fs[t]] = "fun" /\ asked[fs[t]] =>
    t \in pend[t] \ mask[t]

(* A slot that is not in use has clean thread-local variables, as the      *)
(* debug assertions of resume(), switch_stack() and schedule() require of  *)
(* the next function that inherits its virtual TCB.                        *)
CleanTls ==
  \A c \in Cont : Idle(c) =>
    /\ TASK[c] = Default
    /\ ~BOOTSTRAP[c]
    /\ SIGNAL[c] = None
    /\ ~DEFERRED[c]

(* The saved errno tells a Continuation's drop exactly whether the libset  *)
(* holds an unfinished call and must be reinitialised, and no other Linger *)
(* leaves one behind.                                                      *)
RenewExactly ==
  \A c \in Cont : Idle(c) =>
    (dirty[c] <=> linger[c] = "Continuation" /\ task[c].errno)

(* SIGNAL is written only while the thread's own signal is masked, so that *)
(* the handler cannot find the cell mutably borrowed.                      *)
OwnSignalExcluded ==
  \A t \in Thread : Replacing(t) => t \in mask[t]

(* At least it is so unless the function that disables preemption has been *)
(* moved since schedule() called it: then the local is still the signal of *)
(* the thread that launched it.                                            *)
HomeSignalExcluded ==
  \A t \in Thread :
    Replacing(t) /\ (pc[t] = "in" => signal[fs[t]] = t) => t \in mask[t]

(* preempt() finds SIGNAL borrowed, and so ends the process, on just two   *)
(* occasions: the kernel has delivered the signal of another thread while  *)
(* this one replaces SIGNAL, or disable_preemption() has masked the signal *)
(* of the thread that the function was launched on, not of the one that it *)
(* has since moved to.                                                     *)
AbortCause ==
  [][~aborted /\ aborted' =>
       \E t, s \in Thread :
         /\ Deliver(t, s) /\ Replacing(t)
         /\ s # t \/ (pc[t] = "in" /\ signal[fs[t]] # t)]_vars

(* A call into the shared libset is never cut short, nor is pause(), nor   *)
(* schedule() before fun(), nor disable_preemption(), whatever signals     *)
(* arrive there: control leaves a function only in code of its own libset  *)
(* or when schedule() returns.                                             *)
NonpreemptibleAtomic ==
  [][\A t \in Thread : pc[t] = "in" /\ pc'[t] # "in" =>
       at[fs[t]] \in {"fun", "resume_preemption", "returned", "store"}]_vars

(* resume() with a budget of 0 runs nothing of the preemptible function.   *)
ZeroBudgetRunsNothing ==
  \A t \in Thread : pc[t] = "in" /\ at[fs[t]] = "fun" => us[t] # "zero"

(* A function with a finite budget, or one that has called pause(), stops  *)
(* running on its thread, however it uses pause() and nonpreemptible code. *)
(* This is so for programs that call libinger on a single thread: another  *)
(* one could take the signals meant for this one, time and again.          *)
BudgetEnforced ==
  \A t \in Thread, c \in Cont :
    (fs[t] = c /\ (us[t] # "max" \/ asked[c])) ~> (fs[t] # c \/ aborted)

-----------------------------------------------------------------------------
(* The promise that all this keeps.                                        *)

apiState == [c \in Cont |->
  CASE linger[c] = "none" -> "none"
    [] linger[c] = "Completion" -> "completion"
    [] linger[c] = "Poison" -> "poison"
    [] OTHER -> IF task[c].errno THEN "paused" ELSE "fresh"]

apiOutcome == [c \in Cont |->
  IF functional[c] \in {"Ok", "Err"} THEN functional[c] ELSE "none"]

apiYielded == [c \in Cont |-> linger[c] = "Continuation" /\ task[c].yielded]

Api == INSTANCE Linger WITH
  state <- apiState, runner <- fs, outcome <- apiOutcome, yielded <- apiYielded

(* libinger implements the interface of module Linger.                     *)
ApiSpec == Api!Spec
=============================================================================
