----------------------------- MODULE CInterface -----------------------------
(***************************************************************************)
(* The C interface of src/ffi.rs next to callers in Rust.  A C program has *)
(* no destructors and no error returns: a linger_t is plain memory with a  *)
(* flag is_complete that tells whether it still owns anything, and a call  *)
(* that fails or panics aborts the process.                                *)
(***************************************************************************)
EXTENDS Resources

CONSTANT C  \* the Lingers that are the continuation of a C program's linger_t

VARIABLES
  is_complete,  \* is_complete[c]: the flag, or None before launch() returns
  aborted

cVars == <<vars, is_complete, aborted>>

ASSUME CAssumption == C \subseteq Cont /\ None \notin BOOLEAN

CInit == Init /\ is_complete = [c \in C |-> None] /\ aborted = FALSE

(* (Variant: a flag that only launch() sets.)                              *)
StaleFlag(t) ==
  IF pc'[t] = "caller" /\ is_complete[cur[t]] = None
    THEN [is_complete EXCEPT ![cur[t]] = state'[cur[t]] = "none"]
    ELSE is_complete

(* launch() and resume() end with is_complete = is_completion(), cancel()  *)
(* with is_complete = true.                                                *)
Flag(t) ==
  IF pc'[t] = "caller"
    THEN [is_complete EXCEPT ![cur[t]] = state'[cur[t]] = "none"]
    ELSE is_complete

(* A caller in Rust.                                                       *)
Rust(t) ==
  /\ \/ \E c \in Cont \ C : Begin(t, c)
     \/ cur[t] \notin C /\ (Proceed(t) \/ Fail(t))
  /\ UNCHANGED <<is_complete, aborted>>

(* launch(), resume() or cancel() is called from C.                        *)
CallFromC(t, c) ==
  /\ Begin(t, c)
  /\ UNCHANGED <<is_complete, aborted>>

(* The call proceeds, and returns in the end.                              *)
Panics(t) == At(t, "take") /\ tls[cur[t]] \in missing
WorkForC(t) ==
  /\ cur[t] \in C /\ ~Panics(t)
  /\ Proceed(t)
  /\ is_complete' = Flag(t)
  /\ UNCHANGED aborted

(* launch(), resume() or cancel() returns an error or panics, the function *)
(* itself panics, or launch() finds no libset: the flag is not set.        *)
ErrorInC(t) ==
  /\ \/ cur[t] \in C /\ (Fail(t) \/ Finish(t))
     \/ cur[t] \in C /\ Panics(t) /\ TakeTls(t)
     \/ At(t, "caller") /\ ~GroupAvailable /\ UNCHANGED vars
  /\ aborted' = TRUE
  /\ UNCHANGED is_complete

CNext ==
  \/ /\ ~aborted
     /\ \/ \E t \in Thread : Rust(t) \/ WorkForC(t) \/ ErrorInC(t)
        \/ \E t \in Thread, c \in C : CallFromC(t, c)
  \/ aborted /\ UNCHANGED cVars

CSpec == CInit /\ [][CNext]_cVars

-----------------------------------------------------------------------------
(* Between calls, a linger_t with is_complete set owns nothing, so that    *)
(* the C program may forget it or launch() into it again, and one with     *)
(* is_complete clear is a Continuation that holds its libset and its TCB.  *)
FlagTruthful ==
  \A c \in C :
    Untouched(c) =>
      /\ is_complete[c] = TRUE =>
           state[c] = "none" /\ group[c] = None /\ tls[c] = None /\ stack[c] = None
      /\ is_complete[c] = FALSE =>
           state[c] # "none" /\ group[c] # None /\ tls[c] # None
      /\ is_complete[c] = None => state[c] = "none"
=============================================================================
