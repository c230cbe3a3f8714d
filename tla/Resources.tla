----------------------------- MODULE Resources ------------------------------
(***************************************************************************)
(* What a preemptible function holds while it exists: a libset from        *)
(* src/groups.rs, a virtual TCB from src/localstores.rs, and, once it has  *)
(* started, an execution stack from src/stacks.rs.  launch() and resume()  *)
(* acquire them, and the drop of the Continuation gives them back, field   *)
(* by field, while other threads do the same.  Each of the three pools is  *)
(* abstracted to what module Allocator promises.  The stack and TCB pools  *)
(* start with Limit values each.                                           *)
(***************************************************************************)
EXTENDS Naturals, FiniteSets

CONSTANTS
  Thread,  \* kernel threads
  Cont,    \* Lingers
  Limit,   \* Group::limit()
  None     \* Option::None

ASSUME ResourcesAssumption ==
  /\ Limit \in Nat
  /\ IsFiniteSet(Thread) /\ Thread # {} /\ \A t \in Thread : t \notin Nat
  /\ None \notin Nat /\ None \notin Cont

VARIABLES
  freeGroup, freeTls, freeStack,  \* what is in each pool
  nGroup, nTls, nStack,           \* how many values each pool has built
  missing,   \* TCB slots whose Option is None
  lost,      \* history: slots whose TCB an error or a panic has emptied
  dirty,     \* libsets that contain an unfinished call
  unrenewed, \* history: libsets that a failing renew() left so
  state,     \* state[c]: "none", "fresh" (errno is None), or "paused" (Some)
  group, tls, stack,              \* what Linger c holds, or None
  pc,        \* pc[t]: where launch(), resume() or drop is
  cur,       \* cur[t]: the Linger that it is about, or None
  launching, \* launching[t]: is resume() called by launch()?
  panicked   \* has resume() found that the TCB is missing?

pools == <<freeGroup, freeTls, freeStack, nGroup, nTls, nStack>>
fields == <<group, tls, stack>>
threads == <<pc, cur, launching>>
slots == <<missing, lost>>
renewal == <<dirty, unrenewed>>
vars == <<pools, slots, renewal, state, fields, threads, panicked>>

(* Ids that can come into existence: every thread may be dropping a TCB.   *)
Id == 1 .. Limit + Cardinality(Thread)

TypeOK ==
  /\ freeGroup \in SUBSET (1 .. Limit) /\ nGroup \in 0 .. Limit
  /\ freeTls \in SUBSET Id /\ nTls \in Limit .. Limit + Cardinality(Thread)
  /\ freeStack \in SUBSET Id /\ nStack \in Limit .. Limit + Cardinality(Thread)
  /\ missing \in SUBSET Id /\ lost \in SUBSET Id
  /\ dirty \in SUBSET (1 .. Limit) /\ unrenewed \in SUBSET (1 .. Limit)
  /\ state \in [Cont -> {"none", "fresh", "paused"}]
  /\ group \in [Cont -> (1 .. Limit) \cup {None}]
  /\ tls \in [Cont -> Id \cup {None}]
  /\ stack \in [Cont -> Id \cup {None}]
  /\ pc \in [Thread -> {"caller", "localstore", "take", "install", "stack",
                        "switch", "run", "drop", "dropStack", "dropGroup",
                        "dropTls"}]
  /\ cur \in [Thread -> Cont \cup {None}]
  /\ launching \in [Thread -> BOOLEAN]
  /\ panicked \in BOOLEAN

Init ==
  /\ freeGroup = {} /\ nGroup = 0
  /\ freeTls = 1 .. Limit /\ nTls = Limit
  /\ freeStack = 1 .. Limit /\ nStack = Limit
  /\ missing = {} /\ lost = {}
  /\ dirty = {} /\ unrenewed = {}
  /\ state = [c \in Cont |-> "none"]
  /\ group = [c \in Cont |-> None]
  /\ tls = [c \in Cont |-> None]
  /\ stack = [c \in Cont |-> None]
  /\ pc = [t \in Thread |-> "caller"]
  /\ cur = [t \in Thread |-> None]
  /\ launching = [t \in Thread |-> FALSE]
  /\ panicked = FALSE

-----------------------------------------------------------------------------

(* What try_into() can return from a pool with these free values, of which *)
(* n have been built: a free value or, if there is none, a new one.        *)
Offered(free, n) == IF free = {} THEN {n + 1} ELSE free
Built(free, n) == IF free = {} THEN n + 1 ELSE n

(* (Variant with a plausible mistake: the value stays in the pool.)        *)
TakenNot(free, v) == free

(* GotchaGroup::new() makes no more than Limit libsets.                    *)
GroupAvailable == freeGroup # {} \/ nGroup < Limit

Taken(free, v) == free \ {v}

Untouched(c) == \A t \in Thread : cur[t] # c

At(t, where) == pc[t] = where
Goto(t, where) == pc' = [pc EXCEPT ![t] = where]
Return(t) ==
  /\ Goto(t, "caller")
  /\ cur' = [cur EXCEPT ![t] = None]
  /\ launching' = [launching EXCEPT ![t] = FALSE]

(* launch(): assign_group(), which panics when no libset is left.          *)
AssignGroup(t, c) ==
  /\ At(t, "caller")
  /\ state[c] = "none" /\ Untouched(c)
  /\ GroupAvailable
  /\ \E g \in Offered(freeGroup, nGroup) :
       /\ group' = [group EXCEPT ![c] = g]
       /\ freeGroup' = Taken(freeGroup, g)
  /\ nGroup' = Built(freeGroup, nGroup)
  /\ Goto(t, "localstore")
  /\ cur' = [cur EXCEPT ![t] = c]
  /\ UNCHANGED <<freeTls, freeStack, nTls, nStack, slots, renewal, state, tls,
                 stack, launching, panicked>>

(* launch(): alloc_localstore(), then resume() unless the budget is 0.     *)
AllocLocalstore(t) ==
  /\ At(t, "localstore")
  /\ \E s \in Offered(freeTls, nTls) :
       /\ tls' = [tls EXCEPT ![cur[t]] = s]
       /\ freeTls' = Taken(freeTls, s)
  /\ nTls' = Built(freeTls, nTls)
  /\ state' = [state EXCEPT ![cur[t]] = "fresh"]
  /\ \/ Return(t)
     \/ /\ Goto(t, "take")
        /\ launching' = [launching EXCEPT ![t] = TRUE]
        /\ UNCHANGED cur
  /\ UNCHANGED <<freeGroup, freeStack, nGroup, nStack, slots, renewal, group,
                 stack, panicked>>

(* The caller calls resume() on a Continuation.                            *)
Resume(t, c) ==
  /\ At(t, "caller")
  /\ state[c] # "none" /\ Untouched(c)
  /\ Goto(t, "take")
  /\ cur' = [cur EXCEPT ![t] = c]
  /\ UNCHANGED <<pools, slots, renewal, state, fields, launching, panicked>>

(* resume() returns an error or panics: launch() drops the Linger that it  *)
(* has made, another caller keeps it.                                      *)
Give(t) ==
  IF launching[t]
    THEN Goto(t, "drop") /\ UNCHANGED <<cur, launching>>
    ELSE Return(t)

(* continuation.tls.take(): the Option in the slot is None until replaced. *)
TakeTls(t) ==
  /\ At(t, "take")
  /\ IF tls[cur[t]] \in missing
       THEN /\ panicked' = TRUE
            /\ Give(t)
            /\ UNCHANGED missing
       ELSE /\ missing' = missing \cup {tls[cur[t]]}
            /\ Goto(t, "install")
            /\ UNCHANGED <<cur, launching, panicked>>
  /\ UNCHANGED <<pools, lost, renewal, state, fields>>

(* install(), then either a first or a later time slice.                   *)
Install(t) ==
  /\ At(t, "install")
  /\ Goto(t, IF state[cur[t]] = "fresh" THEN "stack" ELSE "switch")
  /\ UNCHANGED <<pools, slots, renewal, state, fields, cur, launching, panicked>>

(* install() fails, or setup_thread() panics for want of a signal: the TCB *)
(* is dropped.                                                             *)
InstallFails(t) ==
  /\ At(t, "install")
  /\ lost' = lost \cup {tls[cur[t]]}
  /\ Give(t)
  /\ UNCHANGED <<pools, missing, renewal, state, fields, panicked>>

(* setup_stack(): alloc_stack() and makecontext().                         *)
SetupStack(t) ==
  /\ At(t, "stack")
  /\ \E s \in Offered(freeStack, nStack) :
       /\ stack' = [stack EXCEPT ![cur[t]] = s]
       /\ freeStack' = Taken(freeStack, s)
  /\ nStack' = Built(freeStack, nStack)
  /\ Goto(t, "switch")
  /\ UNCHANGED <<freeGroup, freeTls, nGroup, nTls, slots, renewal, state, group,
                 tls, cur, launching, panicked>>

(* (Variant: the stack is forgotten.)                                      *)
LeakStack(c) ==
  /\ stack' = [stack EXCEPT ![c] = None]
  /\ UNCHANGED <<freeGroup, freeTls, freeStack, nGroup, nTls, nStack>>
  /\ UNCHANGED <<group, tls>>

(* The drop of a context returns its stack, if there is one.               *)
ReleaseStack(c) ==
  /\ freeStack' = freeStack \cup ({stack[c]} \ {None})
  /\ stack' = [stack EXCEPT ![c] = None]
  /\ UNCHANGED <<freeGroup, freeTls, nGroup, nTls, nStack, group, tls>>

(* makecontext() or restorecontext() fails: the context is dropped with    *)
(* its stack, and the guard of the TCB deallocates that.                   *)
SwitchFails(t) ==
  /\ At(t, "switch")
  /\ ReleaseStack(cur[t])
  /\ lost' = lost \cup {tls[cur[t]]}
  /\ Give(t)
  /\ UNCHANGED <<missing, renewal, state, panicked>>

(* switch_stack() enters the function.                                     *)
Run(t) ==
  /\ At(t, "switch")
  /\ Goto(t, "run")
  /\ dirty' = dirty \cup {group[cur[t]]}
  /\ UNCHANGED <<pools, slots, unrenewed, state, fields, cur, launching, panicked>>

(* The function is paused, and its TCB uninstalled and put back.           *)
Pause(t) ==
  /\ At(t, "run")
  /\ state' = [state EXCEPT ![cur[t]] = "paused"]
  /\ missing' = missing \ {tls[cur[t]]}
  /\ Return(t)
  /\ UNCHANGED <<pools, lost, renewal, fields, panicked>>

(* A call in libset g has ended; one that was abandoned in it has not.     *)
Ended(g) == dirty \ ({g} \ unrenewed)

(* (Variant: the TCB is not put back when the function has finished.)      *)
FinishLosing(t) ==
  /\ At(t, "run")
  /\ state' = [state EXCEPT ![cur[t]] = "fresh"]
  /\ dirty' = Ended(group[cur[t]])
  /\ ReleaseStack(cur[t])
  /\ Goto(t, "drop")
  /\ UNCHANGED <<slots, unrenewed, cur, launching, panicked>>

(* The function finishes: its context, left in TASK, is dropped with the   *)
(* stack; errno is None; the TCB is put back; and the Continuation is      *)
(* replaced by a Completion or Poison, and so dropped.                     *)
Finish(t) ==
  /\ At(t, "run")
  /\ state' = [state EXCEPT ![cur[t]] = "fresh"]
  /\ dirty' = Ended(group[cur[t]])
  /\ missing' = missing \ {tls[cur[t]]}
  /\ ReleaseStack(cur[t])
  /\ Goto(t, "drop")
  /\ UNCHANGED <<lost, unrenewed, cur, launching, panicked>>

(* The mask cannot be changed for a paused function.  switch_stack() runs  *)
(* it all the same, and returns the error once the function has paused or  *)
(* finished again: TASK is dropped with the context and the stack, by the  *)
(* guard of the TCB that deallocates that, and errno remains Some.         *)
MaskFails(t) ==
  /\ At(t, "run") /\ state[cur[t]] = "paused"
  /\ dirty' \in {dirty, Ended(group[cur[t]])}
  /\ ReleaseStack(cur[t])
  /\ lost' = lost \cup {tls[cur[t]]}
  /\ Give(t)
  /\ UNCHANGED <<missing, unrenewed, state, panicked>>

(* uninstall() panics once the function has paused or finished: nothing is *)
(* put back into the slot, and a result is not retrieved.                  *)
UninstallFails(t) ==
  /\ At(t, "run")
  /\ \/ /\ state' = [state EXCEPT ![cur[t]] = "paused"]
        /\ UNCHANGED <<pools, fields, dirty>>
     \/ /\ state' = [state EXCEPT ![cur[t]] = "fresh"]
        /\ dirty' = Ended(group[cur[t]])
        /\ ReleaseStack(cur[t])
  /\ lost' = lost \cup {tls[cur[t]]}
  /\ Give(t)
  /\ UNCHANGED <<missing, unrenewed, panicked>>

(* The caller drops a Continuation.                                        *)
Cancel(t, c) ==
  /\ At(t, "caller")
  /\ state[c] # "none" /\ Untouched(c)
  /\ Goto(t, "drop")
  /\ cur' = [cur EXCEPT ![t] = c]
  /\ UNCHANGED <<pools, slots, renewal, state, fields, launching, panicked>>

(* (Variant: the libset of a paused function is left as it is.)            *)
DropUnrenewed(t) ==
  /\ At(t, "drop")
  /\ Goto(t, "dropStack")
  /\ UNCHANGED <<pools, slots, renewal, state, fields, cur, launching, panicked>>

(* Continuation::drop(): group.renew() if errno is Some.                   *)
Drop(t) ==
  /\ At(t, "drop")
  /\ IF state[cur[t]] = "paused"
       THEN /\ dirty' = dirty \ {group[cur[t]]}
            /\ unrenewed' = unrenewed \ {group[cur[t]]}
       ELSE UNCHANGED renewal
  /\ Goto(t, "dropStack")
  /\ UNCHANGED <<pools, slots, state, fields, cur, launching, panicked>>

(* renew() fails: assert!() panics, and the unwinding drops the fields.    *)
RenewFails(t) ==
  /\ At(t, "drop") /\ state[cur[t]] = "paused"
  /\ unrenewed' = unrenewed \cup ({group[cur[t]]} \cap dirty)
  /\ Goto(t, "dropStack")
  /\ UNCHANGED <<pools, slots, dirty, state, fields, cur, launching, panicked>>

(* Then its fields in order: stateful, ...                                 *)
DropStateful(t) ==
  /\ At(t, "dropStack")
  /\ ReleaseStack(cur[t])
  /\ Goto(t, "dropGroup")
  /\ UNCHANGED <<slots, renewal, state, cur, launching, panicked>>

(* ... group, ...                                                          *)
DropGroup(t) ==
  /\ At(t, "dropGroup")
  /\ freeGroup' = freeGroup \cup {group[cur[t]]}
  /\ group' = [group EXCEPT ![cur[t]] = None]
  /\ Goto(t, "dropTls")
  /\ UNCHANGED <<freeTls, freeStack, nGroup, nTls, nStack, slots, renewal, state,
                 tls, stack, cur, launching, panicked>>

(* (Variant: ... and tls is forgotten.)                                    *)
LeakTls(t) ==
  /\ At(t, "dropTls")
  /\ tls' = [tls EXCEPT ![cur[t]] = None]
  /\ state' = [state EXCEPT ![cur[t]] = "none"]
  /\ Return(t)
  /\ UNCHANGED <<pools, slots, renewal, group, stack, panicked>>

(* ... and tls.                                                            *)
DropTls(t) ==
  /\ At(t, "dropTls")
  /\ freeTls' = freeTls \cup {tls[cur[t]]}
  /\ tls' = [tls EXCEPT ![cur[t]] = None]
  /\ state' = [state EXCEPT ![cur[t]] = "none"]
  /\ Return(t)
  /\ UNCHANGED <<freeGroup, freeStack, nGroup, nTls, nStack, slots, renewal,
                 group, stack, panicked>>

(* The steps of a call on Linger c, and of the call in progress.           *)
Begin(t, c) == AssignGroup(t, c) \/ Resume(t, c) \/ Cancel(t, c)
Fail(t) ==
  \/ InstallFails(t) \/ SwitchFails(t) \/ MaskFails(t) \/ UninstallFails(t)
  \/ RenewFails(t)
Proceed(t) ==
  \/ AllocLocalstore(t) \/ TakeTls(t) \/ Install(t) \/ SetupStack(t) \/ Run(t)
  \/ Pause(t) \/ Finish(t)
  \/ Drop(t) \/ DropStateful(t) \/ DropGroup(t) \/ DropTls(t)

Next ==
  \/ \E t \in Thread, c \in Cont : Begin(t, c)
  \/ \E t \in Thread : Proceed(t) \/ Fail(t)

Spec == Init /\ [][Next]_vars

-----------------------------------------------------------------------------

(* A libset that another launch() can get contains an unfinished call if,  *)
(* and only if, renew() failed in Continuation::drop() and has not since   *)
(* succeeded for it: no other way in which functions end, or in which      *)
(* calls of resume() fail or panic, leaves one behind.  (The failure does  *)
(* not keep the libset out of the pool.)                                   *)
Renewed ==
  /\ \A g \in freeGroup : g \in dirty <=> g \in unrenewed
  /\ \A c \in Cont : state[c] = "none" =>
       (group[c] \in dirty <=> group[c] \in unrenewed)

(* The preallocated stacks are enough: a function's stack goes back to the *)
(* pool before its libset does, so there is one for every libset in use.   *)
StacksSuffice == nStack = Limit

(* The TCB goes back last, so a launch() on another thread can get the     *)
(* libset first and find the TCB pool empty.  It grows by no more than one *)
(* for each other thread.                                                  *)
TcbsBounded == nTls < Limit + Cardinality(Thread)

(* No two functions ever hold the same libset, TCB slot or stack.          *)
Separate ==
  \A b, c \in Cont : b # c =>
    /\ group[b] = group[c] => group[b] = None
    /\ tls[b] = tls[c] => tls[b] = None
    /\ stack[b] = stack[c] => stack[b] = None

(* A TCB is back in its slot whenever it is not installed, unless an error *)
(* or a panic of resume() has lost it; only then can a later one find it   *)
(* missing.                                                                *)
TcbsAccounted ==
  /\ missing = lost \cup {tls[cur[t]] : t \in
       {u \in Thread : pc[u] \in {"install", "stack", "switch", "run"}}}
  /\ panicked => lost # {}

(* resume() finds a TCB in the slot: expect("libinger: continuation with   *)
(* missing TCB") does not panic.                                           *)
TcbPresent == ~panicked
=============================================================================
