----------------------------- MODULE TimeSlice ------------------------------
(***************************************************************************)
(* What a time budget promises, for one preemptible function: a slice ends *)
(* because the function returned, because it called pause(), or because a  *)
(* budget that is not max_value() has passed; and resume() can tell which. *)
(* Both Preemption, where DEADLINE has five values, and Deadline, where it *)
(* is a number, implement this.                                            *)
(***************************************************************************)
VARIABLES
  phase,   \* "off", "set" (before stamp()), "on", or "over"
  budget,  \* argument of resume(): "zero", "us", or "max"
  cause    \* why the slice may end now or, when it is over, why it did

vars == <<phase, budget, cause>>

Init ==
  /\ phase = "off"
  /\ budget = "zero"
  /\ cause = "none"

(* resume() stores the budget.                                             *)
Set(u) ==
  /\ phase \in {"off", "over"}
  /\ phase' = "set"
  /\ budget' = u
  /\ cause' = "none"

(* stamp(): a budget of 0 has passed at once.                              *)
Stamp ==
  /\ phase = "set"
  /\ phase' = "on"
  /\ cause' \in CASE budget = "zero" -> {"expired"}
                  [] budget = "us" -> {"none", "expired"}
                  [] OTHER -> {"none"}
  /\ UNCHANGED budget

(* The clock passes the deadline, or is set back before it.                *)
Clock ==
  /\ phase = "on"
  /\ budget # "max"
  /\ cause \in {"none", "expired"}
  /\ cause' \in {"none", "expired"}
  /\ UNCHANGED <<phase, budget>>

(* pause()                                                                 *)
Pause ==
  /\ phase = "on"
  /\ cause' = "asked"
  /\ UNCHANGED <<phase, budget>>

(* preempt()                                                               *)
Preempt ==
  /\ phase = "on"
  /\ cause # "none"
  /\ phase' = "over"
  /\ UNCHANGED <<budget, cause>>

(* The function returns; after pause() it has no occasion to.              *)
Return ==
  /\ phase = "on"
  /\ cause # "asked"
  /\ phase' = "over"
  /\ cause' = "returned"
  /\ UNCHANGED budget

(* resume() returns to its caller.                                         *)
Leave ==
  /\ phase = "over"
  /\ phase' = "off"
  /\ budget' = "zero"
  /\ cause' = "none"

Next ==
  \/ \E u \in {"zero", "us", "max"} : Set(u)
  \/ Stamp \/ Clock \/ Pause \/ Preempt \/ Return \/ Leave

Spec == Init /\ [][Next]_vars
=============================================================================
