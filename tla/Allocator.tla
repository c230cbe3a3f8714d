----------------------------- MODULE Allocator ------------------------------
(***************************************************************************)
(* What a pool of reusable values promises: a value is made at most once,  *)
(* has at most one holder at a time, can be acquired again once released,  *)
(* and is made only when there is no free one.  Which free value is        *)
(* acquired is left open.                                                  *)
(***************************************************************************)
CONSTANTS
  Client,  \* threads, or other parties, that use the pool
  Value,   \* values that can be made
  Nobody,  \* holder of a value that is free
  Lost     \* holder of a value that could not be returned

VARIABLES
  made,    \* values in existence
  holder   \* holder[v]: who holds v

vars == <<made, holder>>

(* The values in vs are made beforehand.                                   *)
InitWith(vs) ==
  /\ made = vs
  /\ holder = [v \in Value |-> Nobody]

Init == InitWith({})

Acquire(p, v) ==
  /\ v \in made
  /\ holder[v] = Nobody
  /\ holder' = [holder EXCEPT ![v] = p]
  /\ UNCHANGED made

Make(p, v) ==
  /\ v \notin made
  /\ \A w \in made : holder[w] # Nobody
  /\ made' = made \cup {v}
  /\ holder' = [holder EXCEPT ![v] = p]

Release(p, v) ==
  /\ v \in made
  /\ holder[v] = p
  /\ \E h \in {Nobody, Lost} : holder' = [holder EXCEPT ![v] = h]
  /\ UNCHANGED made

Next ==
  \E p \in Client, v \in Value : Acquire(p, v) \/ Make(p, v) \/ Release(p, v)

Spec == Init /\ [][Next]_vars
SpecWith(vs) == InitWith(vs) /\ [][Next]_vars
=============================================================================
