------------------------------ MODULE Deadline ------------------------------
(***************************************************************************)
(* The arithmetic of time budgets: stamp(), pause() and the comparison in  *)
(* preempt() (src/linger.rs), and the interval timer that PreemptionSignal *)
(* starts (src/preemption.rs), on one thread, with the width of u64.       *)
(* Preemption abstracts DEADLINE to five values; here it is a number.  The *)
(* function calls no nonpreemptible code, and an unmasked signal is        *)
(* delivered at once.                                                      *)
(*                                                                         *)
(* nsnow() is the wall clock, which may be set ahead or back at any time;  *)
(* the timer's interval is relative, and so keeps to the time that passes. *)
(***************************************************************************)
EXTENDS Integers

CONSTANTS
  K,        \* nanoseconds in a microsecond
  Max,      \* u64::max_value()
  Quantum,  \* interval of the timer, in nanoseconds
  Epoch,    \* time at which the timer is started
  Horizon,  \* last instant considered
  Slip,     \* how far the clock is set in either direction during a slice
  Us        \* the budgets that callers pass

ASSUME DeadlineAssumption ==
  /\ K \in Nat \ {0, 1} /\ Max \in Nat
  /\ Quantum \in Nat \ {0} /\ Epoch \in Nat \ {0}
  /\ Horizon \in Epoch .. Max - 1 /\ Slip \in Nat
  /\ Us \subseteq 0 .. Max

VARIABLES
  now,       \* the time that has passed
  wall,      \* nsnow()
  expiry,    \* when the timer expires next
  pending,   \* is the preemption signal pending?
  phase,     \* "caller", "set", "running", or "panicked"
  us,        \* argument of resume()
  DEADLINE,
  start,     \* history: time of the last stamp() ...
  begun,     \* history: ... and what nsnow() returned to it
  ahead,     \* history: how far the clock has been set ahead in this slice
  back,      \* history: how far it has been set back
  asked,     \* history: has the function called pause() in this slice?
  outcome    \* history: how the last slice ended

clocks == <<now, wall>>
slice == <<start, begun, ahead, back>>
vars == <<clocks, expiry, pending, phase, us, DEADLINE, slice, asked, outcome>>

TypeOK ==
  /\ now \in Nat /\ wall \in Nat
  /\ expiry \in Nat
  /\ pending \in BOOLEAN
  /\ phase \in {"caller", "set", "running", "panicked"}
  /\ us \in 0 .. Max
  /\ DEADLINE \in 0 .. Max
  /\ start \in Nat /\ begun \in Nat /\ ahead \in 0 .. Slip /\ back \in 0 .. Slip
  /\ asked \in BOOLEAN
  /\ outcome \in {"none", "returned", "yielded", "preempted"}

Init ==
  /\ now = Epoch /\ wall = Epoch
  /\ expiry = Epoch + Quantum
  /\ pending = FALSE
  /\ phase = "caller"
  /\ us = 0
  /\ DEADLINE = 0
  /\ start = 0 /\ begun = 0 /\ ahead = 0 /\ back = 0
  /\ asked = FALSE
  /\ outcome = "none"

-----------------------------------------------------------------------------

(* checked_mul(1_000)                                                      *)
Limited(u) == u * K <= Max

(* u64 addition in a build without overflow checks.                        *)
Sum(a, b) == (a + b) % (Max + 1)

(* (Variants with a plausible mistake: the conversion to nanoseconds is    *)
(* forgotten, an interval is added.)                                       *)
Unconverted(u) == Sum(wall, u)
Late(u) == IF Limited(u) THEN Sum(wall, u * K + Quantum) ELSE u

(* DEADLINE after stamp().                                                 *)
Stamped(u) == IF Limited(u) THEN Sum(wall, u * K) ELSE u

(* resume(): the signal is masked, the budget is stored.                   *)
Resume(u) ==
  /\ phase = "caller"
  /\ phase' = "set"
  /\ us' = u
  /\ DEADLINE' = u
  /\ asked' = FALSE
  /\ outcome' = "none"
  /\ UNCHANGED <<clocks, expiry, pending, slice>>

(* stamp(), after which the signal is unmasked.                            *)
stamp ==
  /\ phase = "set"
  /\ phase' = "running"
  /\ DEADLINE' = Stamped(DEADLINE)
  /\ start' = now /\ begun' = wall /\ ahead' = 0 /\ back' = 0
  /\ UNCHANGED <<clocks, expiry, pending, us, asked, outcome>>

(* Its addition panics in a build with overflow checks.                    *)
StampPanics ==
  /\ phase = "set"
  /\ Limited(DEADLINE)
  /\ wall + DEADLINE * K > Max
  /\ phase' = "panicked"
  /\ UNCHANGED <<clocks, expiry, pending, us, DEADLINE, slice, asked, outcome>>

(* (Variant: pause() leaves the deadline as it is.)                        *)
pauseUntimed ==
  /\ phase = "running"
  /\ ~asked
  /\ pending' = TRUE
  /\ asked' = TRUE
  /\ UNCHANGED <<clocks, expiry, phase, us, DEADLINE, slice, outcome>>

(* pause(): the signal is raised when the call returns.                    *)
pause ==
  /\ phase = "running"
  /\ ~asked
  /\ DEADLINE' = 0
  /\ pending' = TRUE
  /\ asked' = TRUE
  /\ UNCHANGED <<clocks, expiry, phase, us, slice, outcome>>

(* preempt()                                                               *)
preempt ==
  /\ phase = "running"
  /\ pending
  /\ pending' = FALSE
  /\ IF wall >= DEADLINE
       THEN /\ phase' = "caller"
            /\ outcome' = IF DEADLINE = 0 THEN "yielded" ELSE "preempted"
       ELSE UNCHANGED <<phase, outcome>>
  /\ UNCHANGED <<clocks, expiry, us, DEADLINE, slice, asked>>

(* The function returns.                                                   *)
Finish ==
  /\ phase = "running"
  /\ ~asked
  /\ phase' = "caller"
  /\ outcome' = "returned"
  /\ UNCHANGED <<clocks, expiry, pending, us, DEADLINE, slice, asked>>

(* The timer expires; it is periodic, and signals do not queue.            *)
Tick ==
  /\ now = expiry
  /\ expiry' = expiry + Quantum
  /\ pending' = TRUE
  /\ UNCHANGED <<clocks, phase, us, DEADLINE, slice, asked, outcome>>

(* Time passes, on both clocks.                                            *)
Advance ==
  /\ now < Horizon /\ wall < Horizon
  /\ now < expiry
  /\ ~(phase = "running" /\ pending)
  /\ now' = now + 1
  /\ wall' = wall + 1
  /\ UNCHANGED <<expiry, pending, phase, us, DEADLINE, slice, asked, outcome>>

(* The wall clock is set, by d; a relative timer is not affected.          *)
SetAhead(d) ==
  /\ wall + d <= Horizon
  /\ wall' = wall + d
  /\ IF phase = "running"
       THEN ahead + d <= Slip /\ ahead' = ahead + d
       ELSE UNCHANGED ahead
  /\ UNCHANGED <<now, expiry, pending, phase, us, DEADLINE, start, begun, back,
                 asked, outcome>>
SetBack(d) ==
  /\ wall - d >= Epoch
  /\ wall' = wall - d
  /\ IF phase = "running"
       THEN back + d <= Slip /\ back' = back + d
       ELSE UNCHANGED back
  /\ UNCHANGED <<now, expiry, pending, phase, us, DEADLINE, start, begun, ahead,
                 asked, outcome>>

Next ==
  \/ \E u \in Us : Resume(u)
  \/ stamp
  \/ StampPanics
  \/ pause
  \/ preempt
  \/ Finish
  \/ Tick
  \/ Advance
  \/ \E d \in 1 .. Slip : SetAhead(d) \/ SetBack(d)

Spec == Init /\ [][Next]_vars

-----------------------------------------------------------------------------

(* Did the sum in stamp() fit its width?                                   *)
InWidth == Limited(us) => begun + us * K <= Max

(* A function that did not yield is not preempted before it has had its    *)
(* budget, as far as the wall clock can tell: it loses no more than what   *)
(* the clock was set ahead on balance.  If the budget is max_value(), it   *)
(* is never preempted.  Nothing is said of two kinds of budget that can    *)
(* fail to be honoured: one whose sum in stamp() wraps around, and one     *)
(* between Max \div K and Max, which checked_mul() refuses and stamp()     *)
(* leaves in DEADLINE, in microseconds, as if it were a time.              *)
NeverEarly ==
  outcome = "preempted" /\ InWidth /\ (Limited(us) \/ us = Max) =>
    now + ahead - back >= start + us * K

(* Past its budget a function runs for at most one interval of the timer,  *)
(* and as long as the clock was set back, even if the sum in stamp() wraps *)
(* around.                                                                 *)
Timely ==
  phase = "running" /\ Limited(us) => now <= start + us * K + back + Quantum

(* yielded() tells a function that called pause() from one whose time was  *)
(* up, even when the two coincide, and wherever the clock is set, unless   *)
(* the sum in stamp() wraps around: to exactly 0, it looks like a pause(). *)
YieldedTruthful ==
  /\ outcome = "yielded" /\ InWidth => asked
  /\ outcome = "preempted" => ~asked
=============================================================================
