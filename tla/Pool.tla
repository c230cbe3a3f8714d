-------------------------------- MODULE Pool --------------------------------
(***************************************************************************)
(* src/reusable.rs: a pool whose values return to it when their Reusable   *)
(* handle is dropped.  libinger keeps its libsets, virtual TCBs, execution *)
(* stacks and preemption signals in such pools, each behind a Mutex and    *)
(* set up inside a Once.  The lock is held during a whole                  *)
(* pop().or_else(builder) and a whole push(), so these are single steps;   *)
(* a builder that panics poisons it.                                       *)
(***************************************************************************)
EXTENDS Naturals, Sequences, FiniteSets

CONSTANTS
  Client,  \* threads
  Limit,   \* how many values the builder is able to make
  Count,   \* argument of prealloc(), 0 for a pool that does not call it
  Nobody,  \* not a thread
  Lost     \* not a thread

ASSUME PoolAssumption ==
  /\ Limit \in Nat
  /\ Count \in 0 .. Limit
  /\ {Nobody, Lost} \cap Client = {}
  /\ Nobody # Lost

VARIABLES
  once,       \* the thread whose call_once() sets up the pool
  phase,      \* of the setup: "filling", "emptying", then "open"; or "failed"
  swap,       \* handles in the list of prealloc(), oldest first
  allocated,  \* the vector of free values
  held,       \* held[p]: values in the other Reusable handles of thread p
  built,      \* how many values the builder has made
  poisoned,   \* is the Mutex poisoned?
  gone,       \* history: values dropped after that
  peak        \* history: most values ever in use at the same time

vars == <<once, phase, swap, allocated, held, built, poisoned, gone, peak>>

Value == 1 .. Limit

Elements(s) == {s[i] : i \in 1 .. Len(s)}
Injective(s) == \A i, j \in 1 .. Len(s) : s[i] = s[j] => i = j

Free == Elements(allocated)
InUse == {v \in Value : v \in Elements(swap) \/ \E p \in Client : v \in held[p]}

TypeOK ==
  /\ once \in Client
  /\ phase \in {"filling", "emptying", "open", "failed"}
  /\ swap \in Seq(Value)
  /\ allocated \in Seq(Value)
  /\ held \in [Client -> SUBSET Value]
  /\ built \in 0 .. Limit
  /\ poisoned \in BOOLEAN
  /\ gone \subseteq Value

Init ==
  /\ once \in Client
  /\ phase = "filling"
  /\ swap = <<>>
  /\ allocated = <<>>
  /\ held = [p \in Client |-> {}]
  /\ built = 0
  /\ poisoned = FALSE
  /\ gone = {}
  /\ peak = 0

(* (Variants with a plausible mistake: pop() takes the wrong end, push()   *)
(* is forgotten.)                                                          *)
First == allocated[1]
PushNothing(v) == allocated

(* The value that pop() takes, and the vector without it.                  *)
Last == allocated[Len(allocated)]
Pop == SubSeq(allocated, 1, Len(allocated) - 1)

Push(v) == Append(allocated, v)

Peak == LET n == Cardinality(InUse) + 1 IN IF n > peak THEN n ELSE peak

(* prealloc(): count times try_into(), keeping the handles in a list.      *)
Fill ==
  /\ phase = "filling"
  /\ built < Count
  /\ swap' = Append(swap, built + 1)
  /\ built' = built + 1
  /\ peak' = Peak
  /\ UNCHANGED <<once, phase, allocated, held, poisoned, gone>>

(* The builder panics in there.  If the list is still empty, the Once is   *)
(* poisoned, so that every later call panics; if not, the drop of the list *)
(* panics too, and the process aborts.  Either way nobody gets a value.    *)
PreallocPanics ==
  /\ phase = "filling"
  /\ built < Count
  /\ phase' = "failed"
  /\ poisoned' = TRUE
  /\ UNCHANGED <<once, swap, allocated, held, built, gone, peak>>

(* Then the list is consumed from its front, dropping the handles.         *)
Empty ==
  /\ phase \in {"filling", "emptying"}
  /\ built = Count
  /\ IF swap = <<>>
       THEN /\ phase' = "open"
            /\ UNCHANGED <<swap, allocated>>
       ELSE /\ phase' = "emptying"
            /\ allocated' = Push(Head(swap))
            /\ swap' = Tail(swap)
  /\ UNCHANGED <<once, held, built, poisoned, gone, peak>>

(* try_from() reuses the value that was freed last, ...                    *)
Reuse(p) ==
  /\ phase = "open"
  /\ ~poisoned
  /\ allocated # <<>>
  /\ held' = [held EXCEPT ![p] = @ \cup {Last}]
  /\ allocated' = Pop
  /\ peak' = Peak
  /\ UNCHANGED <<once, phase, swap, built, poisoned, gone>>

(* (Variant: a builder that is called even if there are free values.)      *)
BuildAnyway(p) ==
  /\ phase = "open"
  /\ ~poisoned
  /\ built < Limit
  /\ held' = [held EXCEPT ![p] = @ \cup {built + 1}]
  /\ built' = built + 1
  /\ peak' = Peak
  /\ UNCHANGED <<once, phase, swap, allocated, poisoned, gone>>

(* ... or has one built if it can be, ...                                  *)
Build(p) ==
  /\ phase = "open"
  /\ ~poisoned
  /\ allocated = <<>>
  /\ built < Limit
  /\ held' = [held EXCEPT ![p] = @ \cup {built + 1}]
  /\ built' = built + 1
  /\ peak' = Peak
  /\ UNCHANGED <<once, phase, swap, allocated, poisoned, gone>>

(* ... or panics in the builder, while it holds the lock.                  *)
BuilderPanics ==
  /\ phase = "open"
  /\ ~poisoned
  /\ allocated = <<>>
  /\ poisoned' = TRUE
  /\ UNCHANGED <<once, phase, swap, allocated, held, built, gone, peak>>

(* Drop of a handle.  If the lock is poisoned it panics, and the value,    *)
(* which has been taken out of the handle by then, is gone.                *)
DropReusable(p, v) ==
  /\ phase = "open"
  /\ v \in held[p]
  /\ held' = [held EXCEPT ![p] = @ \ {v}]
  /\ allocated' = IF poisoned THEN allocated ELSE Push(v)
  /\ gone' = IF poisoned THEN gone \cup {v} ELSE gone
  /\ UNCHANGED <<once, phase, swap, built, poisoned, peak>>

Next ==
  \/ Fill
  \/ Empty
  \/ PreallocPanics \/ BuilderPanics
  \/ \E p \in Client :
       \/ Reuse(p)
       \/ Build(p)
       \/ \E v \in Value : DropReusable(p, v)

Spec == Init /\ [][Next]_vars

-----------------------------------------------------------------------------

(* A value is in one place only: free, or in one handle of one thread, so  *)
(* that two preemptible functions never share a libset, a TCB or a stack,  *)
(* nor two threads a preemption signal.                                    *)
Exclusive ==
  /\ Injective(allocated)
  /\ Injective(swap)
  /\ Free \cap InUse = {}
  /\ \A p, q \in Client : p # q => held[p] \cap held[q] = {}

(* A value is lost only if it is dropped after a builder has panicked: the *)
(* panic itself loses none, and those in handles stay there until then.    *)
NothingLost ==
  /\ gone # {} => poisoned
  /\ Free \cup InUse \cup gone = 1 .. built

(* The pool never builds more values than were in use at the same time:    *)
(* this is what keeps the preallocated pools from growing.                 *)
HighWater == built = peak

holder == [v \in Value |->
  IF v \in Elements(swap) THEN once
  ELSE IF \E p \in Client : v \in held[p] THEN CHOOSE p \in Client : v \in held[p]
  ELSE IF v \in Free \/ v > built THEN Nobody
  ELSE Lost]

Alloc == INSTANCE Allocator WITH made <- 1 .. built

(* The pool implements module Allocator.                                   *)
AllocSpec == Alloc!Spec
=============================================================================
