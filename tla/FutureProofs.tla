---------------------------- MODULE FutureProofs ----------------------------
(***************************************************************************)
(* Proofs about PreemptiveFuture, for any number of polls.                 *)
(***************************************************************************)
EXTENDS PreemptiveFuture, TLAPS

(* Wakeups that are owed, or the one way to lose them; who owns the Linger.*)
Owed == woken \/ registered
Behind == limited /\ at = "recv" /\ chan = <<n>>
Stage ==
  /\ pc = "executor" /\ fun => Owed \/ Behind
  /\ pc = "check" /\ at # "done" /\ yielded => Owed \/ Behind
  /\ pc = "resume" /\ at = "waiting" => Owed \/ chan = <<n>>
  /\ pc # "executor" => ~fun /\ n >= 1 /\ readies = 0
  /\ fun => readies = 0

(* The closures of the last two polls: the later one is in the channel, or *)
(* the function has taken it already, or the function has not come back to *)
(* recv() since it took the earlier one.                                   *)
Taken(last) ==
  /\ chan \in {<<>>, <<last>>}
  /\ at \in {"prep", "call", "fun", "waiting"} =>
       prep = IF chan = <<>> THEN last ELSE last - 1
Lag ==
  /\ pc \in {"resume", "check"} \/ fun => Taken(n)
  /\ pc = "send" => Taken(n - 1)

(* With an unlimited budget, the function gives up control only where it   *)
(* has taken the closure that it was sent: one closure, one slice.         *)
InStep ==
  ~limited =>
    /\ pc = "executor" /\ fun => at = "recv" /\ chan = <<>>
    /\ pc = "send" => at = "recv" /\ chan = <<>>
    /\ pc = "resume" /\ at = "recv" => chan = <<n>>
    /\ pc = "resume" /\ at # "recv" => chan = <<>>
    /\ pc = "check" /\ at # "done" => at = "recv" /\ chan = <<>>

(* The inductive invariant.                                                *)
IInv == TypeOK /\ ReadyOnce /\ Stage /\ Lag /\ InStep

(* The invariant holds initially.                                          *)
LEMMA InitIInv == Init => IInv
<1> SUFFICES ASSUME Init PROVE IInv
  OBVIOUS
<1>1. chan \in Seq(1 .. Polls) /\ Len(chan) <= 1
  BY DEF Init
<1>2. n \in 0 .. Polls /\ prep \in 0 .. Polls /\ readies \in Nat /\ readies = 0
  BY FutureAssumption DEF Init
<1>3. TypeOK
  BY <1>1, <1>2 DEF Init, TypeOK, Location
<1>4. ReadyOnce /\ Stage /\ Lag /\ InStep
  BY <1>2 DEF Init, ReadyOnce, Stage, Lag, Taken, InStep, Owed
<1> QED BY <1>3, <1>4 DEF IInv

(* Sending and receiving on the channel.                                   *)
LEMMA Channel ==
  ASSUME TypeOK
  PROVE  /\ ~Full => chan = <<>>
         /\ n >= 1 => <<n>> \in Seq(1 .. Polls) /\ Len(<<n>>) = 1
         /\ Append(<<>>, n) = <<n>>
         /\ Head(<<n>>) = n /\ Tail(<<n>>) = <<>>
BY FutureAssumption DEF TypeOK, Full

(* Every step preserves the invariant.                                     *)
LEMMA StepIInv == IInv /\ [Next]_vars => IInv'
<1> SUFFICES ASSUME IInv, [Next]_vars PROVE IInv'
  OBVIOUS
<1> USE FutureAssumption
    DEF IInv, TypeOK, Location, ReadyOnce, Stage, Lag, Taken, InStep, Owed, Behind
<1>1. CASE Poll
  <2>1. n' = n + 1 /\ n' \in 0 .. Polls /\ n' >= 1 /\ n = n' - 1
    BY <1>1 DEF Poll
  <2>2. ~fun' /\ ~woken' /\ pc' \in {"executor", "send"} /\ (pc' = "send" => fun)
    BY <1>1 DEF Poll
  <2>3. UNCHANGED <<limited, chan, at, prep, yielded, registered, readies>>
    BY <1>1 DEF Poll
  <2>4. fun' \in BOOLEAN /\ woken' \in BOOLEAN
    BY <1>1, Zenon DEF Poll
  <2>5. TypeOK'
    BY <2>1, <2>2, <2>3, <2>4
  <2>6. ReadyOnce' /\ Stage' /\ InStep'
    BY <2>1, <2>2, <2>3, <1>1 DEF Poll
  <2>7. Lag'
    BY <2>1, <2>2, <2>3, <1>1 DEF Poll
  <2> QED BY <2>5, <2>6, <2>7
<1>2. CASE Send
  <2>1. chan = <<>> /\ chan' = <<n>> /\ chan' \in Seq(1 .. Polls) /\ Len(chan') = 1
    BY <1>2, Channel DEF Send
  <2>2. <<n>> # <<>>
    OBVIOUS
  <2> QED BY <1>2, <2>1, <2>2 DEF Send
<1>3. CASE ResumeFails
  BY <1>3 DEF ResumeFails
<1>4. CASE Recv
  <2>1. chan = <<n>> /\ prep' = n /\ chan' = <<>>
    BY <1>4, Channel DEF Recv
  <2> QED BY <1>4, <2>1 DEF Recv
<1>5. CASE Prep
  BY <1>5 DEF Prep
<1>6. CASE Call
  BY <1>6 DEF Call
<1>7. CASE Register
  BY <1>7 DEF Register
<1>8. CASE Pending
  <2>1. <<n>> # <<>>
    OBVIOUS
  <2> QED BY <1>8, <2>1 DEF Pending
<1>9. CASE Ready
  BY <1>9 DEF Ready
<1>10. CASE Panic
  BY <1>10 DEF Panic
<1>11. CASE Timeout
  BY <1>11 DEF Timeout
<1>12. CASE Check
  <2>1. CASE at = "done"
    BY <1>12, <2>1 DEF Check, timeout
  <2>2. CASE at # "done"
    BY <1>12, <2>2 DEF Check, timeout
  <2> QED BY <2>1, <2>2
<1>13. CASE Wake
  BY <1>13 DEF Wake
<1>14. CASE Spurious
  BY <1>14 DEF Spurious
<1>15. CASE UNCHANGED vars
  BY <1>15 DEF vars
<1> QED
  BY <1>1, <1>2, <1>3, <1>4, <1>5, <1>6, <1>7, <1>8, <1>9, <1>10, <1>11,
     <1>12, <1>13, <1>14, <1>15
  DEF Next, Proceed

(* Hence the invariant always holds.                                       *)
LEMMA Inductive == Spec => []IInv
<1> QED BY InitIInv, StepIInv, PTL DEF Spec

(* Every variable keeps its type; in particular the channel never holds    *)
(* more than the one closure that it has room for.                         *)
THEOREM TypeCorrect == Spec => []TypeOK
<1>1. IInv => TypeOK
  BY DEF IInv
<1> QED BY <1>1, Inductive, PTL

(* poll() leaves a task with work to do without a wakeup to come only when *)
(* a cut slice has put the function one closure behind; never with an      *)
(* unlimited budget.                                                       *)
THEOREM NoWakeupLost == Spec => []NoLostWakeup
<1>1. IInv => NoLostWakeup
  BY DEF IInv, Stage, Owed, Behind, NoLostWakeup
<1> QED BY <1>1, Inductive, PTL

(* poll() returns Ready at most once, on any path.                         *)
THEOREM ReadyAtMostOnce == Spec => []ReadyOnce
<1>1. IInv => ReadyOnce
  BY DEF IInv
<1> QED BY <1>1, Inductive, PTL

(* The closure that precedes a call of fun() is that of the running poll() *)
(* or, with a limited budget, that of the one before.                      *)
THEOREM PrepIsFresh == Spec => PrepFresh
<1>1. IInv /\ [Next]_vars =>
        [at = "call" /\ at' = "fun" =>
           prep = n \/ (limited /\ prep = n - 1 /\ chan = <<n>>)]_vars
  <2> SUFFICES ASSUME IInv, Next, at = "call", at' = "fun"
               PROVE  prep = n \/ (limited /\ prep = n - 1 /\ chan = <<n>>)
    OBVIOUS
  <2>1. Call
    BY DEF Next, Poll, Proceed, Send, Recv, Prep, Register, Pending, Ready, Timeout,
           Check, ResumeFails, Panic, Wake, Spurious
  <2>2. pc = "resume" /\ Taken(n)
    BY <2>1 DEF Call, IInv, Lag
  <2>3. <<n>> # <<>>
    OBVIOUS
  <2> QED BY <2>2, <2>3 DEF Taken, IInv, InStep, TypeOK
<1> QED BY <1>1, Inductive, PTL DEF Spec, PrepFresh

(* The send() in poll() never blocks a caller whose budget is unlimited.   *)
UnlimitedNeverBlocks == pc = "send" /\ ~limited => ~Full

(* Once that send() blocks, it does for good: nothing but this poll() can  *)
(* run the function, which alone empties the channel.                      *)
BlockedForGood == [][pc = "send" /\ Full => pc' = "send" /\ Full']_vars

(* With an unlimited budget, send() finds room in the channel at once: the *)
(* step that UnlimitedReturns waits for is always possible.                *)
THEOREM UnlimitedSends == Spec => []UnlimitedNeverBlocks
<1>1. IInv => UnlimitedNeverBlocks
  BY DEF IInv, InStep, UnlimitedNeverBlocks, Full
<1> QED BY <1>1, Inductive, PTL

(* A poll() that blocks in send() after a timeout never returns, whatever  *)
(* the executor, the user's fun() and its wakeups do.                      *)
THEOREM BlocksForGood == Spec => BlockedForGood
<1>1. [Next]_vars => [pc = "send" /\ Full => pc' = "send" /\ Full']_vars
  BY DEF Next, Poll, Proceed, Send, Recv, Prep, Call, Register, Pending, Ready,
         Timeout, Check, ResumeFails, Panic, Wake, Spurious, Full
<1> QED BY <1>1, PTL DEF Spec, BlockedForGood
=============================================================================
