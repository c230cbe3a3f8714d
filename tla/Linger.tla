------------------------------- MODULE Linger -------------------------------
(***************************************************************************)
(* What the libinger interface promises its caller, without signals,       *)
(* masks, libsets or thread-local storage.  A preemptible function is      *)
(* created by launch(), runs on the kernel thread that called launch() or  *)
(* resume(), hands control back to that thread when it times out or calls  *)
(* pause(), and is called at most once: its one outcome becomes the        *)
(* Completion or, for a panic, the Poison that the caller observes.        *)
(***************************************************************************)
CONSTANTS
  Thread,  \* kernel threads
  Cont,    \* slots for preemptible functions
  None     \* no preemptible function

VARIABLES
  state,    \* what the Linger of each slot is
  runner,   \* the preemptible function each thread is executing
  outcome,  \* what the closure returned, until the caller is given it
  asked,    \* has the function called pause() in this time slice?
  yielded   \* what yielded() reports for a paused function

vars == <<state, runner, outcome, asked, yielded>>

Idle(c) == \A t \in Thread : runner[t] # c

Init ==
  /\ state = [c \in Cont |-> "none"]
  /\ runner = [t \in Thread |-> None]
  /\ outcome = [c \in Cont |-> "none"]
  /\ asked = [c \in Cont |-> FALSE]
  /\ yielded = [c \in Cont |-> FALSE]

(* launch(): with budget 0 the function is only created, otherwise it is   *)
(* also started.                                                           *)
Launch(t, c) ==
  /\ runner[t] = None
  /\ state[c] = "none"
  /\ state' = [state EXCEPT ![c] = "fresh"]
  /\ runner' \in {runner, [runner EXCEPT ![t] = c]}
  /\ UNCHANGED <<outcome, asked, yielded>>

(* resume() of a function that has not completed.                          *)
Start(t, c) ==
  /\ runner[t] = None
  /\ Idle(c)
  /\ state[c] \in {"fresh", "paused"}
  /\ runner' = [runner EXCEPT ![t] = c]
  /\ asked' = [asked EXCEPT ![c] = FALSE]
  /\ UNCHANGED <<state, outcome, yielded>>

(* The function calls pause(); from here it does nothing until resumed.    *)
Ask(t, c) ==
  /\ runner[t] = c
  /\ ~asked[c]
  /\ outcome[c] = "none"
  /\ asked' = [asked EXCEPT ![c] = TRUE]
  /\ UNCHANGED <<state, runner, outcome, yielded>>

(* The closure returns, or panics, for the first and only time.            *)
Return(t, c) ==
  /\ runner[t] = c
  /\ ~asked[c]
  /\ outcome[c] = "none"
  /\ \E r \in {"Ok", "Err"} : outcome' = [outcome EXCEPT ![c] = r]
  /\ UNCHANGED <<state, runner, asked, yielded>>

(* Control returns to the caller, which still holds a Continuation.        *)
Pause(t, c) ==
  /\ runner[t] = c
  /\ runner' = [runner EXCEPT ![t] = None]
  /\ state' = [state EXCEPT ![c] = "paused"]
  /\ yielded' = [yielded EXCEPT ![c] = asked[c]]
  /\ UNCHANGED <<outcome, asked>>

(* Control returns to the caller, which is given the outcome.              *)
Complete(t, c) ==
  /\ runner[t] = c
  /\ ~asked[c]
  /\ outcome[c] # "none"
  /\ runner' = [runner EXCEPT ![t] = None]
  /\ state' = [state EXCEPT ![c] =
                 IF outcome[c] = "Ok" THEN "completion" ELSE "poison"]
  /\ outcome' = [outcome EXCEPT ![c] = "none"]
  /\ yielded' = [yielded EXCEPT ![c] = FALSE]
  /\ UNCHANGED asked

(* The caller drops the Linger; for a paused function this is cancellation.*)
Cancel(c) ==
  /\ Idle(c)
  /\ state[c] # "none"
  /\ state' = [state EXCEPT ![c] = "none"]
  /\ outcome' = [outcome EXCEPT ![c] = "none"]
  /\ asked' = [asked EXCEPT ![c] = FALSE]
  /\ yielded' = [yielded EXCEPT ![c] = FALSE]
  /\ UNCHANGED runner

Next ==
  \/ \E t \in Thread, c \in Cont :
       \/ Launch(t, c)
       \/ Start(t, c)
       \/ Ask(t, c)
       \/ Return(t, c)
       \/ Pause(t, c)
       \/ Complete(t, c)
  \/ \E c \in Cont : Cancel(c)

Spec == Init /\ [][Next]_vars
=============================================================================
