----------------------------- MODULE TcbProofs ------------------------------
(***************************************************************************)
(* Proofs about module Tcb, for any number of threads and blocks.          *)
(***************************************************************************)
EXTENDS Tcb, TLAPS

(* No two threads work with the same block.                                *)
Unique ==
  \A t, u \in Thread : t # u /\ this[t] # None => this[t] # this[u]

(* What a block is like, by where it is.                                   *)
Blocks ==
  /\ \A t \in Thread : kernel[t] = t /\ ran[t] = 0
  /\ \A b \in Tcb :
       /\ ran[b] \in {0, 1}
       /\ where[b] = "deallocated" => ran[b] = 1
       /\ where[b] \in {"unallocated", "slot"} => ran[b] = 0

(* What a thread has, by its stage: the block from Install on, the parent  *)
(* and the copied fields from Current on, and the block in FS from SetFs   *)
(* to the guard's drop.                                                    *)
InFs == {"ctype", "guard", "dtors", "reinstall"}
Local(t) ==
  /\ pc[t] = "caller" => this[t] = None /\ ~dropping[t]
  /\ pc[t] # "caller" => this[t] \in Tcb /\ where[this[t]] = "call"
  /\ pc[t] \notin {"caller", "current"} => kernel[this[t]] = t
  /\ pc[t] \in {"set", "replace", "deallocate"} => parent[t] = fs[t]
  /\ pc[t] \in InFs => fs[t] = this[t]
  /\ pc[t] \in {"current", "set", "ctype", "guard", "replace", "dtors"} =>
       ran[this[t]] = 0
  /\ pc[t] \in {"reinstall", "deallocate"} => ran[this[t]] = 1

(* The block that a thread has in FS outside the calls: its real one, or   *)
(* the one that it is stranded with.  That two threads have different ones *)
(* follows from the identity that each block carries.                      *)
Home(t) == IF pc[t] \in InFs THEN parent[t] ELSE fs[t]
AtHome(t) ==
  IF t \in stranded
    THEN Home(t) \in Tcb /\ where[Home(t)] = "leaked" /\ kernel[Home(t)] = t
    ELSE Home(t) = t

IInv ==
  TypeOK /\ Unique /\ Blocks /\ \A t \in Thread : Local(t) /\ AtHome(t)

(* Initially.                                                              *)
LEMMA InitIInv == Init => IInv
<1> SUFFICES ASSUME Init PROVE IInv
  OBVIOUS
<1>1. TypeOK
  BY TcbAssumption DEF Init, TypeOK, Block, Stages
<1>2. Unique /\ Blocks
  BY TcbAssumption DEF Init, Unique, Blocks, Block
<1>3. ASSUME NEW t \in Thread PROVE Local(t) /\ AtHome(t)
  BY DEF Init, Local, AtHome, Home, InFs
<1> QED BY <1>1, <1>2, <1>3 DEF IInv

(* Every step preserves the invariant, for each conjunct.                  *)
(* New.                                                                    *)
LEMMA NewStep == ASSUME IInv, NEW b \in Tcb, New(b) PROVE IInv'
<1> USE TcbAssumption DEF IInv, New, callVars, blockVars
<1>1. TypeOK'
  BY DEF TypeOK, Block, Stages, Local, InFs
<1>2. Unique'
  BY DEF TypeOK, Unique, Local
<1>3. Blocks'
  BY DEF TypeOK, Block, Stages, Blocks, Local, InFs
<1>4. ASSUME NEW u \in Thread PROVE Local(u)'
  BY DEF TypeOK, Block, Stages, Unique, Blocks, Local, AtHome, Home, InFs
<1>5. ASSUME NEW u \in Thread PROVE AtHome(u)'
  BY DEF TypeOK, Block, Stages, Unique, Blocks, Local, AtHome, Home, InFs
<1> QED BY <1>1, <1>2, <1>3, <1>4, <1>5

(* Install.                                                                *)
LEMMA InstallStep == ASSUME IInv, NEW t \in Thread, NEW b \in Tcb, Install(t, b) PROVE IInv'
<1> USE TcbAssumption DEF IInv, Install, Goto, callVars, blockVars
<1>1. TypeOK'
  BY DEF TypeOK, Block, Stages, Local, InFs
<1>2. Unique'
  BY DEF TypeOK, Unique, Local
<1>3. Blocks'
  BY DEF TypeOK, Block, Stages, Blocks, Local, InFs
<1>4. ASSUME NEW u \in Thread PROVE Local(u)'
  BY DEF TypeOK, Block, Stages, Unique, Blocks, Local, AtHome, Home, InFs
<1>5. ASSUME NEW u \in Thread PROVE AtHome(u)'
  BY DEF TypeOK, Block, Stages, Unique, Blocks, Local, AtHome, Home, InFs
<1> QED BY <1>1, <1>2, <1>3, <1>4, <1>5

(* Current.                                                                *)
LEMMA CurrentStep == ASSUME IInv, NEW t \in Thread, Current(t) PROVE IInv'
<1> USE TcbAssumption DEF IInv, Current, Goto, CopyFields, callVars, blockVars
<1>1. TypeOK'
  BY DEF TypeOK, Block, Stages, Local, InFs
<1>2. Unique'
  BY DEF TypeOK, Unique, Local
<1>3. Blocks'
  BY DEF TypeOK, Block, Stages, Blocks, Local, InFs
<1>4. ASSUME NEW u \in Thread PROVE Local(u)'
  BY DEF TypeOK, Block, Stages, Unique, Blocks, Local, AtHome, Home, InFs
<1>5. ASSUME NEW u \in Thread PROVE AtHome(u)'
  BY DEF TypeOK, Block, Stages, Unique, Blocks, Local, AtHome, Home, InFs
<1> QED BY <1>1, <1>2, <1>3, <1>4, <1>5

(* SetFs.                                                                  *)
LEMMA SetFsStep == ASSUME IInv, NEW t \in Thread, SetFs(t) PROVE IInv'
<1> USE TcbAssumption DEF IInv, SetFs, Goto, callVars, blockVars
<1>1. TypeOK'
  BY DEF TypeOK, Block, Stages, Local, InFs
<1>2. Unique'
  BY DEF TypeOK, Unique, Local
<1>3. Blocks'
  BY DEF TypeOK, Block, Stages, Blocks, Local, InFs
<1>4. ASSUME NEW u \in Thread PROVE Local(u)'
  BY DEF TypeOK, Block, Stages, Unique, Blocks, Local, AtHome, Home, InFs
<1>5. ASSUME NEW u \in Thread PROVE AtHome(u)'
  BY DEF TypeOK, Block, Stages, Unique, Blocks, Local, AtHome, Home, InFs
<1> QED BY <1>1, <1>2, <1>3, <1>4, <1>5

(* CtypeInit.                                                              *)
LEMMA CtypeInitStep == ASSUME IInv, NEW t \in Thread, CtypeInit(t) PROVE IInv'
<1> USE TcbAssumption DEF IInv, CtypeInit, Goto, callVars, blockVars
<1>1. TypeOK'
  BY DEF TypeOK, Block, Stages, Local, InFs
<1>2. Unique'
  BY DEF TypeOK, Unique, Local
<1>3. Blocks'
  BY DEF TypeOK, Block, Stages, Blocks, Local, InFs
<1>4. ASSUME NEW u \in Thread PROVE Local(u)'
  BY DEF TypeOK, Block, Stages, Unique, Blocks, Local, AtHome, Home, InFs
<1>5. ASSUME NEW u \in Thread PROVE AtHome(u)'
  BY DEF TypeOK, Block, Stages, Unique, Blocks, Local, AtHome, Home, InFs
<1> QED BY <1>1, <1>2, <1>3, <1>4, <1>5

(* CtypeMissing.                                                           *)
LEMMA CtypeMissingStep == ASSUME IInv, NEW t \in Thread, CtypeMissing(t) PROVE IInv'
<1> USE TcbAssumption DEF IInv, CtypeMissing, callVars, blockVars
<1>1. TypeOK'
  BY DEF TypeOK, Block, Stages, Local, InFs
<1>2. Unique'
  BY DEF TypeOK, Unique, Local
<1>3. Blocks'
  BY DEF TypeOK, Block, Stages, Blocks, Local, InFs
<1>4. ASSUME NEW u \in Thread PROVE Local(u)'
  BY DEF TypeOK, Block, Stages, Unique, Blocks, Local, AtHome, Home, InFs
<1>5. ASSUME NEW u \in Thread PROVE AtHome(u)'
  BY DEF TypeOK, Block, Stages, Unique, Blocks, Local, AtHome, Home, InFs
<1> QED BY <1>1, <1>2, <1>3, <1>4, <1>5

(* InstallFails.                                                           *)
LEMMA InstallFailsStep == ASSUME IInv, NEW t \in Thread, InstallFails(t) PROVE IInv'
<1> USE TcbAssumption DEF IInv, InstallFails, Goto, callVars, blockVars
<1>1. TypeOK'
  BY DEF TypeOK, Block, Stages, Local, InFs
<1>2. Unique'
  BY DEF TypeOK, Unique, Local
<1>3. Blocks'
  BY DEF TypeOK, Block, Stages, Blocks, Local, InFs
<1>4. ASSUME NEW u \in Thread PROVE Local(u)'
  BY DEF TypeOK, Block, Stages, Unique, Blocks, Local, AtHome, Home, InFs
<1>5. ASSUME NEW u \in Thread PROVE AtHome(u)'
  BY DEF TypeOK, Block, Stages, Unique, Blocks, Local, AtHome, Home, InFs
<1> QED BY <1>1, <1>2, <1>3, <1>4, <1>5

(* DropFails.                                                              *)
LEMMA DropFailsStep == ASSUME IInv, NEW t \in Thread, DropFails(t) PROVE IInv'
<1> USE TcbAssumption DEF IInv, DropFails, Goto, Dispose, callVars, blockVars
<1>1. TypeOK'
  BY DEF TypeOK, Block, Stages, Local, InFs
<1>2. Unique'
  BY DEF TypeOK, Unique, Local
<1>3. Blocks'
  BY DEF TypeOK, Block, Stages, Blocks, Local, InFs
<1>4. ASSUME NEW u \in Thread PROVE Local(u)'
  BY DEF TypeOK, Block, Stages, Unique, Blocks, Local, AtHome, Home, InFs
<1>5. ASSUME NEW u \in Thread PROVE AtHome(u)'
  BY DEF TypeOK, Block, Stages, Unique, Blocks, Local, AtHome, Home, InFs
<1> QED BY <1>1, <1>2, <1>3, <1>4, <1>5

(* Uninstall.                                                              *)
LEMMA UninstallStep == ASSUME IInv, NEW t \in Thread, Uninstall(t) PROVE IInv'
<1> USE TcbAssumption DEF IInv, Uninstall, Goto, Restore, callVars, blockVars
<1>1. TypeOK'
  BY DEF TypeOK, Block, Stages, Local, AtHome, Home, InFs
<1>2. Unique'
  BY DEF TypeOK, Unique, Local
<1>3. Blocks'
  BY DEF TypeOK, Block, Stages, Blocks, Local, InFs
<1>4. ASSUME NEW u \in Thread PROVE Local(u)'
  BY DEF TypeOK, Block, Stages, Unique, Blocks, Local, AtHome, Home, InFs
<1>5. ASSUME NEW u \in Thread PROVE AtHome(u)'
  BY DEF TypeOK, Block, Stages, Unique, Blocks, Local, AtHome, Home, InFs
<1> QED BY <1>1, <1>2, <1>3, <1>4, <1>5

(* Replace.                                                                *)
LEMMA ReplaceStep == ASSUME IInv, NEW t \in Thread, Replace(t) PROVE IInv'
<1> USE TcbAssumption DEF IInv, Replace, Goto, Dispose, callVars, blockVars
<1>1. TypeOK'
  BY DEF TypeOK, Block, Stages, Local, InFs
<1>2. Unique'
  BY DEF TypeOK, Unique, Local
<1>3. Blocks'
  BY DEF TypeOK, Block, Stages, Blocks, Local, InFs
<1>4. ASSUME NEW u \in Thread PROVE Local(u)'
  BY DEF TypeOK, Block, Stages, Unique, Blocks, Local, AtHome, Home, InFs
<1>5. ASSUME NEW u \in Thread PROVE AtHome(u)'
  BY DEF TypeOK, Block, Stages, Unique, Blocks, Local, AtHome, Home, InFs
<1> QED BY <1>1, <1>2, <1>3, <1>4, <1>5

(* DropGuard.                                                              *)
LEMMA DropGuardStep == ASSUME IInv, NEW t \in Thread, DropGuard(t) PROVE IInv'
<1> USE TcbAssumption DEF IInv, DropGuard, Goto, callVars, blockVars
<1>1. TypeOK'
  BY DEF TypeOK, Block, Stages, Local, InFs
<1>2. Unique'
  BY DEF TypeOK, Unique, Local
<1>3. Blocks'
  BY DEF TypeOK, Block, Stages, Blocks, Local, InFs
<1>4. ASSUME NEW u \in Thread PROVE Local(u)'
  BY DEF TypeOK, Block, Stages, Unique, Blocks, Local, AtHome, Home, InFs
<1>5. ASSUME NEW u \in Thread PROVE AtHome(u)'
  BY DEF TypeOK, Block, Stages, Unique, Blocks, Local, AtHome, Home, InFs
<1> QED BY <1>1, <1>2, <1>3, <1>4, <1>5

(* CallTlsDtors.                                                           *)
LEMMA CallTlsDtorsStep == ASSUME IInv, NEW t \in Thread, CallTlsDtors(t) PROVE IInv'
<1> USE TcbAssumption DEF IInv, CallTlsDtors, Goto, callVars, blockVars
<1>1. TypeOK'
  BY DEF TypeOK, Block, Stages, Local, InFs
<1>2. Unique'
  BY DEF TypeOK, Unique, Local
<1>3. Blocks'
  BY DEF TypeOK, Block, Stages, Blocks, Local, InFs
<1>4. ASSUME NEW u \in Thread PROVE Local(u)'
  BY DEF TypeOK, Block, Stages, Unique, Blocks, Local, AtHome, Home, InFs
<1>5. ASSUME NEW u \in Thread PROVE AtHome(u)'
  BY DEF TypeOK, Block, Stages, Unique, Blocks, Local, AtHome, Home, InFs
<1> QED BY <1>1, <1>2, <1>3, <1>4, <1>5

(* Reinstall.                                                              *)
LEMMA ReinstallStep == ASSUME IInv, NEW t \in Thread, Reinstall(t) PROVE IInv'
<1> USE TcbAssumption DEF IInv, Reinstall, Goto, Restore, callVars, blockVars
<1>1. TypeOK'
  BY DEF TypeOK, Block, Stages, Local, AtHome, Home, InFs
<1>2. Unique'
  BY DEF TypeOK, Unique, Local
<1>3. Blocks'
  BY DEF TypeOK, Block, Stages, Blocks, Local, InFs
<1>4. ASSUME NEW u \in Thread PROVE Local(u)'
  BY DEF TypeOK, Block, Stages, Unique, Blocks, Local, AtHome, Home, InFs
<1>5. ASSUME NEW u \in Thread PROVE AtHome(u)'
  BY DEF TypeOK, Block, Stages, Unique, Blocks, Local, AtHome, Home, InFs
<1> QED BY <1>1, <1>2, <1>3, <1>4, <1>5

(* Deallocate.                                                             *)
LEMMA DeallocateStep == ASSUME IInv, NEW t \in Thread, Deallocate(t) PROVE IInv'
<1> USE TcbAssumption DEF IInv, Deallocate, Goto, Dispose, callVars, blockVars
<1>1. TypeOK'
  BY DEF TypeOK, Block, Stages, Local, InFs
<1>2. Unique'
  BY DEF TypeOK, Unique, Local
<1>3. Blocks'
  BY DEF TypeOK, Block, Stages, Blocks, Local, InFs
<1>4. ASSUME NEW u \in Thread PROVE Local(u)'
  BY DEF TypeOK, Block, Stages, Unique, Blocks, Local, AtHome, Home, InFs
<1>5. ASSUME NEW u \in Thread PROVE AtHome(u)'
  BY DEF TypeOK, Block, Stages, Unique, Blocks, Local, AtHome, Home, InFs
<1> QED BY <1>1, <1>2, <1>3, <1>4, <1>5

(* RestoreFails.                                                           *)
LEMMA RestoreFailsStep == ASSUME IInv, NEW t \in Thread, RestoreFails(t) PROVE IInv'
<1> USE TcbAssumption DEF IInv, RestoreFails, Goto, Dispose, callVars, blockVars
<1>1. TypeOK'
  BY DEF TypeOK, Block, Stages, Local, InFs
<1>2. Unique'
  BY DEF TypeOK, Unique, Local
<1>3. Blocks'
  BY DEF TypeOK, Block, Stages, Blocks, Local, InFs
<1>4. ASSUME NEW u \in Thread PROVE Local(u)'
  BY DEF TypeOK, Block, Stages, Unique, Blocks, Local, AtHome, Home, InFs
<1>5. ASSUME NEW u \in Thread PROVE AtHome(u)'
  BY DEF TypeOK, Block, Stages, Unique, Blocks, Local, AtHome, Home, InFs
<1> QED BY <1>1, <1>2, <1>3, <1>4, <1>5

(* RestoreAborts.                                                          *)
LEMMA RestoreAbortsStep == ASSUME IInv, NEW t \in Thread, RestoreAborts(t) PROVE IInv'
<1> USE TcbAssumption DEF IInv, RestoreAborts, callVars, blockVars
<1>1. TypeOK'
  BY DEF TypeOK, Block, Stages, Local, InFs
<1>2. Unique'
  BY DEF TypeOK, Unique, Local
<1>3. Blocks'
  BY DEF TypeOK, Block, Stages, Blocks, Local, InFs
<1>4. ASSUME NEW u \in Thread PROVE Local(u)'
  BY DEF TypeOK, Block, Stages, Unique, Blocks, Local, AtHome, Home, InFs
<1>5. ASSUME NEW u \in Thread PROVE AtHome(u)'
  BY DEF TypeOK, Block, Stages, Unique, Blocks, Local, AtHome, Home, InFs
<1> QED BY <1>1, <1>2, <1>3, <1>4, <1>5

(* Every step preserves the invariant.                                     *)
LEMMA NextIInv == IInv /\ [Next]_vars => IInv'
<1> SUFFICES ASSUME IInv, [Next]_vars PROVE IInv'
  OBVIOUS
<1>1. CASE UNCHANGED vars
  BY <1>1 DEF IInv, TypeOK, Unique, Blocks, Local, AtHome, Home, vars, callVars, blockVars
<1>2. ASSUME NEW b \in Tcb, New(b) PROVE IInv'
  BY <1>2, NewStep
<1>3. ASSUME NEW t \in Thread, NEW b \in Tcb, Install(t, b) PROVE IInv'
  BY <1>3, InstallStep
<1>4. ASSUME NEW t \in Thread, Step(t) PROVE IInv'
  BY <1>4, CurrentStep, SetFsStep, CtypeInitStep, CtypeMissingStep,
     InstallFailsStep, DropFailsStep, UninstallStep, ReplaceStep, DropGuardStep,
     CallTlsDtorsStep, ReinstallStep, DeallocateStep, RestoreFailsStep, RestoreAbortsStep
  DEF Step
<1> QED BY <1>1, <1>2, <1>3, <1>4 DEF Next

(* The invariant holds throughout.                                         *)
THEOREM AlwaysIInv == Spec => []IInv
BY InitIInv, NextIInv, PTL DEF Spec

(* The types are right.                                                    *)
THEOREM TypeCorrect == Spec => []TypeOK
BY AlwaysIInv, PTL DEF IInv

(* A block in an FS register has the identity of the thread it is on.      *)
THEOREM BlocksHaveOwnIdentity == Spec => []OwnIdentity
<1>1. IInv => OwnIdentity
  <2> SUFFICES ASSUME IInv, NEW t \in Thread PROVE kernel[fs[t]] = t
    BY DEF OwnIdentity
  <2>1. CASE pc[t] \in InFs
    BY <2>1 DEF IInv, Local, InFs
  <2>2. CASE pc[t] \notin InFs
    BY <2>2 DEF IInv, Blocks, AtHome, Home
  <2> QED BY <2>1, <2>2
<1> QED BY <1>1, AlwaysIInv, PTL

(* A thread leaves resume() and drop() with its real control block, unless *)
(* it is stranded with a virtual one, which then is its own for good.      *)
THEOREM AlwaysRestored == Spec => []RestoredOutside
<1>1. IInv => RestoredOutside
  BY DEF IInv, AtHome, Home, InFs, RestoredOutside
<1> QED BY <1>1, AlwaysIInv, PTL

(* A virtual block is in one FS register at most, and belongs there.       *)
THEOREM NeverInstalledTwice == Spec => []InstalledOnce
<1>1. IInv => InstalledOnce
  <2> SUFFICES ASSUME IInv, NEW t \in Thread, fs[t] \in Tcb
               PROVE  /\ \/ this[t] = fs[t] /\ where[fs[t]] = "call"
                         \/ t \in stranded /\ where[fs[t]] = "leaked"
                      /\ \A u \in Thread \ {t} : fs[u] # fs[t] /\ this[u] # fs[t]
    BY DEF InstalledOnce
  <2>1. \A u \in Thread : kernel[fs[u]] = u
    BY DEF IInv, Local, InFs, Blocks, AtHome, Home
  <2>2. CASE pc[t] \in InFs
    <3>1. this[t] = fs[t] /\ where[fs[t]] = "call"
      BY <2>2 DEF IInv, Local, InFs
    <3>2. \A u \in Thread \ {t} : this[u] # fs[t]
      BY <3>1, TcbAssumption DEF IInv, Unique
    <3> QED BY <2>1, <3>1, <3>2
  <2>3. CASE pc[t] \notin InFs
    <3>1. t \in stranded /\ where[fs[t]] = "leaked"
      BY <2>3, TcbAssumption DEF IInv, AtHome, Home
    <3>2. \A u \in Thread : this[u] # fs[t]
      BY <3>1, TcbAssumption DEF IInv, Local
    <3> QED BY <2>1, <3>1, <3>2
  <2> QED BY <2>2, <2>3
<1> QED BY <1>1, AlwaysIInv, PTL

(* Destructors run exactly once in the life of a block.                    *)
THEOREM NeverDestroyedTwice == Spec => []DestroyedOnce
<1>1. IInv => DestroyedOnce
  BY DEF IInv, Blocks, DestroyedOnce
<1> QED BY <1>1, AlwaysIInv, PTL
=============================================================================
