-------------------------- MODULE PreemptiveFuture --------------------------
(***************************************************************************)
(* src/future.rs: a preemptible function as a Future.  The function built  *)
(* by poll_fns() loops: take a closure from the channel, call it, call the *)
(* user's fun(), and pause() unless that is Ready.  poll() sends the next  *)
(* closure, resume()s the function and, if it timed out, wakes the task.   *)
(* The executor and the user's fun() are the environment: the executor     *)
(* polls when it was woken, and a fun() that is going to return Pending    *)
(* has left the waker with whatever it waits for.  A timer can cut a slice *)
(* anywhere, so each of these calls is a step of its own.                  *)
(***************************************************************************)
EXTENDS Naturals, Sequences

CONSTANT
  Polls  \* how often the executor polls

ASSUME FutureAssumption == Polls \in Nat

VARIABLES
  limited,     \* can the budget run out, i.e. is us not max_value()?
  fun,         \* self.fun: is it Some?
  pc,          \* where poll() is: "executor", "send", "resume", or "check"
  n,           \* number of the poll() call; its closure is called n as well
  chan,        \* closures in the channel
  at,          \* where the function is; see Location
  prep,        \* the closure that the function took last
  yielded,     \* fun.yielded()
  woken,       \* has the waker been called since the last poll()?
  registered,  \* will something outside call the waker?
  readies      \* history: how often poll() returned Ready

vars ==
  <<limited, fun, pc, n, chan, at, prep, yielded, woken, registered, readies>>

(* About to call recv(), the closure, or fun(); in fun(); in fun() or past *)
(* it, with the waker registered and pause() to come; returned.            *)
Location == {"recv", "prep", "call", "fun", "waiting", "done"}

TypeOK ==
  /\ limited \in BOOLEAN
  /\ fun \in BOOLEAN
  /\ pc \in {"executor", "send", "resume", "check"}
  /\ n \in 0 .. Polls
  /\ chan \in Seq(1 .. Polls) /\ Len(chan) <= 1
  /\ at \in Location
  /\ prep \in 0 .. Polls
  /\ yielded \in BOOLEAN
  /\ woken \in BOOLEAN
  /\ registered \in BOOLEAN
  /\ readies \in Nat

(* poll_fns() launches the function with budget 0.                         *)
Init ==
  /\ limited \in BOOLEAN
  /\ fun = TRUE
  /\ pc = "executor"
  /\ n = 0
  /\ chan = <<>>
  /\ at = "recv"
  /\ prep = 0
  /\ yielded = FALSE
  /\ woken = TRUE
  /\ registered = FALSE
  /\ readies = 0

-----------------------------------------------------------------------------

(* (Variants with a plausible mistake: a channel with room for two, a      *)
(* wakeup after a yield instead of a timeout.)                             *)
FullAtTwo == Len(chan) >= 2
WakesYielded == yielded

(* sync_channel(1)                                                         *)
Full == Len(chan) >= 1

(* Does poll() wake the task itself?                                       *)
timeout == ~yielded

(* (Variant: self.fun is borrowed rather than taken.)                      *)
PollBorrows ==
  /\ pc = "executor"
  /\ woken
  /\ n < Polls
  /\ n' = n + 1
  /\ woken' = FALSE
  /\ pc' = IF fun THEN "send" ELSE pc
  /\ UNCHANGED <<limited, fun, chan, at, prep, yielded, registered, readies>>

(* poll() is called; it takes self.fun, or returns Pending if that is None *)
Poll ==
  /\ pc = "executor"
  /\ woken
  /\ n < Polls
  /\ n' = n + 1
  /\ woken' = FALSE
  /\ fun' = FALSE
  /\ pc' = IF fun THEN "send" ELSE pc
  /\ UNCHANGED <<limited, chan, at, prep, yielded, registered, readies>>

(* send(), which blocks while the channel is full                          *)
Send ==
  /\ pc = "send"
  /\ ~Full
  /\ chan' = Append(chan, n)
  /\ pc' = "resume"
  /\ UNCHANGED <<limited, fun, n, at, prep, yielded, woken, registered,
                 readies>>

(* resume() fails: Ready(Err), and the function is dropped.                *)
ResumeFails ==
  /\ pc = "resume"
  /\ pc' = "executor"
  /\ readies' = readies + 1
  /\ UNCHANGED <<limited, fun, n, chan, at, prep, yielded, woken, registered>>

(* (Variant: the closure stays in the channel.)                            *)
RecvPeeks ==
  /\ pc = "resume"
  /\ at = "recv"
  /\ chan # <<>>
  /\ prep' = Head(chan)
  /\ at' = "prep"
  /\ UNCHANGED <<limited, fun, pc, n, chan, yielded, woken, registered,
                 readies>>

(* The function calls recv(), ...                                          *)
Recv ==
  /\ pc = "resume"
  /\ at = "recv"
  /\ chan # <<>>
  /\ prep' = Head(chan)
  /\ chan' = Tail(chan)
  /\ at' = "prep"
  /\ UNCHANGED <<limited, fun, pc, n, yielded, woken, registered, readies>>

(* ... the closure that it gets, ...                                       *)
Prep ==
  /\ pc = "resume"
  /\ at = "prep"
  /\ at' = "call"
  /\ UNCHANGED <<limited, fun, pc, n, chan, prep, yielded, woken, registered,
                 readies>>

(* ... and fun().                                                          *)
Call ==
  /\ pc = "resume"
  /\ at = "call"
  /\ at' = "fun"
  /\ UNCHANGED <<limited, fun, pc, n, chan, prep, yielded, woken, registered,
                 readies>>

(* fun() finds that it has to wait, and leaves the waker.                  *)
Register ==
  /\ pc = "resume"
  /\ at = "fun"
  /\ at' = "waiting"
  /\ registered' = TRUE
  /\ UNCHANGED <<limited, fun, pc, n, chan, prep, yielded, woken, readies>>

(* fun() returns Pending, and the function calls pause().                  *)
Pending ==
  /\ pc = "resume"
  /\ at = "waiting"
  /\ at' = "recv"
  /\ yielded' = TRUE
  /\ pc' = "check"
  /\ UNCHANGED <<limited, fun, n, chan, prep, woken, registered, readies>>

(* fun() returns Ready, and so does the function: resume() finds it        *)
(* complete.                                                               *)
Ready ==
  /\ pc = "resume"
  /\ at \in {"fun", "waiting"}
  /\ at' = "done"
  /\ pc' = "check"
  /\ UNCHANGED <<limited, fun, n, chan, prep, yielded, woken, registered,
                 readies>>

(* The closure or fun() panics: resume() unwinds through poll().           *)
Panic ==
  /\ pc = "resume"
  /\ at \in {"prep", "fun", "waiting"}
  /\ pc' = "executor"
  /\ UNCHANGED <<limited, fun, n, chan, at, prep, yielded, woken, registered,
                 readies>>

(* The budget runs out, wherever the function is.                          *)
Timeout ==
  /\ limited
  /\ pc = "resume"
  /\ yielded' = FALSE
  /\ pc' = "check"
  /\ UNCHANGED <<limited, fun, n, chan, at, prep, woken, registered, readies>>

(* The rest of poll(), after resume().                                     *)
Check ==
  /\ pc = "check"
  /\ pc' = "executor"
  /\ IF at = "done"
       THEN /\ readies' = readies + 1
            /\ UNCHANGED <<fun, woken>>
       ELSE /\ fun' = TRUE
            /\ woken' = (woken \/ timeout)
            /\ UNCHANGED readies
  /\ UNCHANGED <<limited, n, chan, at, prep, yielded, registered>>

(* What fun() was waiting for has happened.                                *)
Wake ==
  /\ registered
  /\ registered' = FALSE
  /\ woken' = TRUE
  /\ UNCHANGED <<limited, fun, pc, n, chan, at, prep, yielded, readies>>

(* The executor may poll a task that nobody woke.                          *)
Spurious ==
  /\ pc = "executor"
  /\ ~woken
  /\ woken' = TRUE
  /\ UNCHANGED <<limited, fun, pc, n, chan, at, prep, yielded, registered,
                 readies>>

Proceed ==
  \/ Send
  \/ Recv \/ Prep \/ Call \/ Register \/ Pending \/ Ready \/ Timeout
  \/ Check

Next == Poll \/ Proceed \/ ResumeFails \/ Panic \/ Wake \/ Spurious

Spec == Init /\ [][Next]_vars

(* The thread that polls keeps running, and fun() returns or is preempted. *)
FairSpec == Spec /\ WF_vars(Proceed)

-----------------------------------------------------------------------------

(* A task that got Pending and still has work to do will be polled again:  *)
(* it has been woken, or fun() has arranged for it.  There is one way out: *)
(* a slice was cut after fun() had left the waker, which was then called,  *)
(* and the next poll() did nothing but pause().  That poll()'s closure is  *)
(* still in the channel, so it takes a limited budget to get there.        *)
NoLostWakeup ==
  pc = "executor" /\ fun =>
    woken \/ registered \/ (limited /\ at = "recv" /\ chan = <<n>>)

(* fun() is called after the closure of the very poll() that runs it, or,  *)
(* if a slice was cut between the two, that of the poll() before.  Then    *)
(* the channel is full, so the closure is never further behind than that.  *)
PrepFresh ==
  [][at = "call" /\ at' = "fun" =>
       prep = n \/ (limited /\ prep = n - 1 /\ chan = <<n>>)]_vars

(* poll() returns Ready at most once.                                      *)
ReadyOnce == readies <= 1

(* poll() returns, as long as the budget is unlimited: the function has    *)
(* always come back to recv() when the next closure is sent.               *)
UnlimitedReturns == (pc = "send" /\ ~limited) ~> pc = "executor"

(* poll() returns: a function that timed out is ready to run again.        *)
PollReturns == pc = "send" ~> pc = "executor"
=============================================================================
