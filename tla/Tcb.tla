--------------------------------- MODULE Tcb --------------------------------
(***************************************************************************)
(* Virtual thread-control blocks (src/tcb.rs).  resume() takes a block out *)
(* of its slot and installs it in the FS register of the kernel thread, so *)
(* that a preemptible function has thread-local variables of its own       *)
(* wherever it runs; uninstall() gives the block back.  A block that is    *)
(* dropped instead is installed once more, to run its destructors, and     *)
(* deallocated.  arch_prctl() may fail.                                    *)
(***************************************************************************)
EXTENDS Naturals

CONSTANTS
  Thread,  \* kernel threads; each stands for its real control block, too
  Tcb,     \* the blocks that _dl_allocate_tls() can return
  None

VARIABLES
  pc,       \* pc[t]: where thread t is in install(), uninstall() or a drop()
  dropping, \* dropping[t]: install_unguarded() was called by drop()
  this,     \* this[t]: the block that thread t is working with
  parent,   \* parent[t]: the block to reinstall
  fs,       \* fs[t]: the FS register
  kernel,   \* kernel[b]: the thread whose KERNEL_THREAD and POINTER_GUARD b has
  where,    \* where[b]: who has the block
  ran,      \* ran[b]: how often __call_tls_dtors() ran while b was installed
  stranded, \* history: threads that could not reinstall a parent
  aborted

callVars == <<pc, dropping, this, parent>>
blockVars == <<kernel, where, ran>>
vars == <<callVars, fs, blockVars, stranded, aborted>>

ASSUME TcbAssumption == Thread \cap Tcb = {} /\ None \notin Thread \cup Tcb

Block == Thread \cup Tcb
Stages == {"caller", "current", "set", "ctype", "guard", "replace",
           "dtors", "reinstall", "deallocate"}

TypeOK ==
  /\ pc \in [Thread -> Stages]
  /\ dropping \in [Thread -> BOOLEAN]
  /\ this \in [Thread -> Tcb \cup {None}]
  /\ parent \in [Thread -> Block \cup {None}]
  /\ fs \in [Thread -> Block]
  /\ kernel \in [Block -> Thread \cup {None}]
  /\ where \in [Tcb -> {"unallocated", "slot", "call", "leaked", "deallocated"}]
  /\ ran \in [Block -> Nat]
  /\ stranded \subseteq Thread
  /\ aborted \in BOOLEAN

Init ==
  /\ pc = [t \in Thread |-> "caller"]
  /\ dropping = [t \in Thread |-> FALSE]
  /\ this = [t \in Thread |-> None]
  /\ parent = [t \in Thread |-> None]
  /\ fs = [t \in Thread |-> t]
  /\ kernel = [b \in Block |-> IF b \in Thread THEN b ELSE None]
  /\ where = [b \in Tcb |-> "unallocated"]
  /\ ran = [b \in Block |-> 0]
  /\ stranded = {}
  /\ aborted = FALSE

-----------------------------------------------------------------------------
Goto(t, from, to) ==
  /\ ~aborted
  /\ pc[t] = from
  /\ pc' = [pc EXCEPT ![t] = to]

(* The block leaves the call for good.                                     *)
Dispose(t, place) ==
  /\ this' = [this EXCEPT ![t] = None]
  /\ parent' = [parent EXCEPT ![t] = None]
  /\ dropping' = [dropping EXCEPT ![t] = FALSE]
  /\ where' = [where EXCEPT ![this[t]] = place]

(* Plausible mistakes: the fields copied only into a new block, a block    *)
(* put back into its slot but left in FS, one deallocated before the       *)
(* parent is back in FS, destructors left out.                             *)
CopiedOnce(t) ==
  kernel' = [kernel EXCEPT ![this[t]] = IF @ = None THEN kernel[fs[t]] ELSE @]
NotRestored(t) == UNCHANGED fs
TooEarly(t) ==
  /\ Goto(t, "reinstall", "deallocate")
  /\ where' = [where EXCEPT ![this[t]] = "deallocated"]
  /\ UNCHANGED <<dropping, this, parent, fs, kernel, ran, stranded, aborted>>
NoDtors(t) ==
  /\ Goto(t, "dtors", "reinstall")
  /\ UNCHANGED <<dropping, this, parent, fs, blockVars, stranded, aborted>>

-----------------------------------------------------------------------------
(* ThreadControlBlock::new()                                               *)
New(b) ==
  /\ ~aborted
  /\ where[b] = "unallocated"
  /\ where' = [where EXCEPT ![b] = "slot"]
  /\ UNCHANGED <<callVars, fs, kernel, ran, stranded, aborted>>

(* resume() takes the block out of its slot and calls install().           *)
Install(t, b) ==
  /\ where[b] = "slot"
  /\ Goto(t, "caller", "current")
  /\ this' = [this EXCEPT ![t] = b]
  /\ where' = [where EXCEPT ![b] = "call"]
  /\ UNCHANGED <<dropping, parent, fs, kernel, ran, stranded, aborted>>

(* install_unguarded(): current(), and the copy of the fields that belong  *)
(* to the kernel thread ...                                                *)
CopyFields(t) == kernel' = [kernel EXCEPT ![this[t]] = kernel[fs[t]]]
Current(t) ==
  /\ Goto(t, "current", "set")
  /\ parent' = [parent EXCEPT ![t] = fs[t]]
  /\ CopyFields(t)
  /\ UNCHANGED <<dropping, this, fs, where, ran, stranded, aborted>>

(* ... arch_prctl_set(SetOp::Fs) ...                                       *)
SetFs(t) ==
  /\ Goto(t, "set", "ctype")
  /\ fs' = [fs EXCEPT ![t] = this[t]]
  /\ UNCHANGED <<dropping, this, parent, blockVars, stranded, aborted>>

(* ... and __ctype_init() for libinger's libc and the function's, whose    *)
(* tables are not modelled; the latter may be missing.  Then install()     *)
(* returns a guard, and drop() drops one.                                  *)
CtypeInit(t) ==
  /\ Goto(t, "ctype", IF dropping[t] THEN "dtors" ELSE "guard")
  /\ UNCHANGED <<dropping, this, parent, fs, blockVars, stranded, aborted>>
CtypeMissing(t) ==
  /\ ~aborted
  /\ pc[t] = "ctype" /\ ~dropping[t]
  /\ aborted' = TRUE
  /\ UNCHANGED <<callVars, fs, blockVars, stranded>>

(* One of the system calls fails.  install() returns the error and drops   *)
(* the block, which tries once more; drop() then leaks the block.          *)
InstallFails(t) ==
  /\ pc[t] \in {"current", "set"} /\ ~dropping[t]
  /\ Goto(t, pc[t], "current")
  /\ dropping' = [dropping EXCEPT ![t] = TRUE]
  /\ parent' = [parent EXCEPT ![t] = None]
  /\ UNCHANGED <<this, fs, blockVars, stranded, aborted>>
DropFails(t) ==
  /\ pc[t] \in {"current", "set"} /\ dropping[t]
  /\ Goto(t, pc[t], "caller")
  /\ Dispose(t, "leaked")
  /\ UNCHANGED <<fs, kernel, ran, stranded, aborted>>

-----------------------------------------------------------------------------
(* A guard reinstalls its parent when it is dropped.                       *)
Restore(t) == fs' = [fs EXCEPT ![t] = parent[t]]

(* uninstall() takes the block out of the guard, and resume() then puts it *)
(* back into its slot.                                                     *)
Uninstall(t) ==
  /\ Goto(t, "guard", "replace")
  /\ Restore(t)
  /\ UNCHANGED <<dropping, this, parent, blockVars, stranded, aborted>>
Replace(t) ==
  /\ Goto(t, "replace", "caller")
  /\ Dispose(t, "slot")
  /\ UNCHANGED <<fs, kernel, ran, stranded, aborted>>

(* resume() returns an error or unwinds: the guard is dropped with the     *)
(* block in it.                                                            *)
DropGuard(t) ==
  /\ Goto(t, "guard", "dtors")
  /\ UNCHANGED <<dropping, this, parent, fs, blockVars, stranded, aborted>>
CallTlsDtors(t) ==
  /\ Goto(t, "dtors", "reinstall")
  /\ ran' = [ran EXCEPT ![fs[t]] = @ + 1]
  /\ UNCHANGED <<dropping, this, parent, fs, kernel, where, stranded, aborted>>
Reinstall(t) ==
  /\ Goto(t, "reinstall", "deallocate")
  /\ Restore(t)
  /\ UNCHANGED <<dropping, this, parent, blockVars, stranded, aborted>>
Deallocate(t) ==
  /\ Goto(t, "deallocate", "caller")
  /\ Dispose(t, "deallocated")
  /\ UNCHANGED <<fs, kernel, ran, stranded, aborted>>

(* parent.install_unguarded(None).unwrap() panics, and unwinds to the      *)
(* caller with the block still in FS.  Nobody has the block any more: it   *)
(* was the result of uninstall(), which the panic overtakes, or a local    *)
(* variable of the guard's drop().                                         *)
RestoreFails(t) ==
  /\ pc[t] \in {"guard", "reinstall"}
  /\ Goto(t, pc[t], "caller")
  /\ Dispose(t, "leaked")
  /\ stranded' = stranded \cup {t}
  /\ UNCHANGED <<fs, kernel, ran, aborted>>

(* If resume() was unwinding already, the second panic aborts.             *)
RestoreAborts(t) ==
  /\ ~aborted
  /\ pc[t] = "reinstall" /\ ~dropping[t]
  /\ aborted' = TRUE
  /\ UNCHANGED <<callVars, fs, blockVars, stranded>>

-----------------------------------------------------------------------------
Step(t) ==
  \/ Current(t) \/ SetFs(t) \/ CtypeInit(t) \/ CtypeMissing(t)
  \/ InstallFails(t) \/ DropFails(t)
  \/ Uninstall(t) \/ Replace(t)
  \/ DropGuard(t) \/ CallTlsDtors(t) \/ Reinstall(t) \/ Deallocate(t)
  \/ RestoreFails(t) \/ RestoreAborts(t)

Next ==
  \/ \E b \in Tcb : New(b)
  \/ \E t \in Thread, b \in Tcb : Install(t, b)
  \/ \E t \in Thread : Step(t)

Spec == Init /\ [][Next]_vars

-----------------------------------------------------------------------------
(* Whenever a block is in the FS register of a thread, its KERNEL_THREAD   *)
(* is that thread, also if the function last ran on another one.           *)
OwnIdentity == \A t \in Thread : kernel[fs[t]] = t

(* Outside resume() and drop() a thread has its real control block, unless *)
(* the unwrap() in a guard's drop() has panicked on it.  Then it is left   *)
(* with the virtual block of that call, which nobody can be given again,   *)
(* and gets that one back from every later call that does not panic.       *)
RestoredOutside ==
  \A t \in Thread : pc[t] = "caller" =>
    IF t \in stranded
      THEN fs[t] \in Tcb /\ where[fs[t]] = "leaked"
      ELSE fs[t] = t

(* A virtual block in an FS register is the one that this thread, and no   *)
(* other, has taken out of its slot, or the one that it is stranded with;  *)
(* in particular it is not deallocated.                                    *)
InstalledOnce ==
  \A t \in Thread :
    fs[t] \in Tcb =>
      /\ \/ this[t] = fs[t] /\ where[fs[t]] = "call"
         \/ t \in stranded /\ where[fs[t]] = "leaked"
      /\ \A u \in Thread \ {t} : fs[u] # fs[t] /\ this[u] # fs[t]

(* The destructors of a block run once, before it is deallocated and after *)
(* the last function that used it; those of a real control block are left  *)
(* to its thread, also where a guard's parent is a virtual block.          *)
DestroyedOnce ==
  /\ \A t \in Thread : ran[t] = 0
  /\ \A b \in Tcb :
       /\ ran[b] <= 1
       /\ where[b] = "deallocated" => ran[b] = 1
       /\ where[b] = "slot" => ran[b] = 0
=============================================================================
