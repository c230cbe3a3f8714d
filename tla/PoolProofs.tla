----------------------------- MODULE PoolProofs -----------------------------
(***************************************************************************)
(* Proofs about Pool, for any number of threads and values.                *)
(***************************************************************************)
EXTENDS Pool, FiniteSetTheorems, TLAPS

(* What is free or in use has been built.                                  *)
Bounded ==
  /\ Elements(swap) \cup Free \subseteq 1 .. built
  /\ \A p \in Client : held[p] \subseteq 1 .. built

(* prealloc() runs before anyone else can use the pool.                    *)
Setup ==
  /\ phase = "open" => swap = <<>>
  /\ phase # "open" => \A p \in Client : held[p] = {}
  /\ phase \in {"filling", "emptying"} => ~poisoned
  /\ phase = "filling" => allocated = <<>>

(* The inductive invariant.                                                *)
IInv == TypeOK /\ Exclusive /\ Bounded /\ Setup

-----------------------------------------------------------------------------
(* The operations on sequences.                                            *)

(* push() of a value that is not in the vector.                            *)
LEMMA AppendElements ==
  ASSUME NEW s \in Seq(Value), NEW v \in Value
  PROVE  /\ Append(s, v) \in Seq(Value)
         /\ Elements(Append(s, v)) = Elements(s) \cup {v}
         /\ Injective(s) /\ v \notin Elements(s) => Injective(Append(s, v))
BY DEF Elements, Injective

(* pop() of the last value.                                                *)
LEMMA PopElements ==
  ASSUME NEW s \in Seq(Value), s # <<>>, Injective(s)
  PROVE  LET t == SubSeq(s, 1, Len(s) - 1) IN
         /\ s[Len(s)] \in Elements(s)
         /\ t \in Seq(Value)
         /\ Elements(t) = Elements(s) \ {s[Len(s)]}
         /\ Injective(t)
<1> DEFINE t == SubSeq(s, 1, Len(s) - 1)
<1>1. Len(s) \in Nat /\ Len(s) > 0
  OBVIOUS
<1>2. /\ t \in Seq(Value) /\ Len(t) = Len(s) - 1
      /\ \A i \in 1 .. Len(t) : t[i] = s[i]
  BY <1>1, SMTT(30)
<1> HIDE DEF t
<1>3. s[Len(s)] \in Elements(s)
  BY <1>1 DEF Elements
<1>4. Elements(t) = Elements(s) \ {s[Len(s)]}
  BY <1>1, <1>2 DEF Elements, Injective
<1>5. Injective(t)
  BY <1>1, <1>2 DEF Injective
<1> QED BY <1>2, <1>3, <1>4, <1>5 DEF t

(* Taking the first handle off prealloc()'s list.                          *)
LEMMA TailElements ==
  ASSUME NEW s \in Seq(Value), s # <<>>, Injective(s)
  PROVE  /\ Head(s) \in Elements(s)
         /\ Head(s) \in Value
         /\ Tail(s) \in Seq(Value)
         /\ Elements(Tail(s)) = Elements(s) \ {Head(s)}
         /\ Injective(Tail(s))
<1>1. Len(s) \in Nat /\ Len(s) > 0 /\ Head(s) = s[1]
  OBVIOUS
<1>2. /\ Tail(s) \in Seq(Value) /\ Len(Tail(s)) = Len(s) - 1
      /\ \A i \in 1 .. Len(Tail(s)) : Tail(s)[i] = s[i + 1]
  BY <1>1
<1>3. Head(s) \in Elements(s) /\ Head(s) \in Value
  BY <1>1 DEF Elements
<1>4. Elements(Tail(s)) \subseteq Elements(s) \ {Head(s)}
  BY <1>1, <1>2 DEF Elements, Injective
<1>5. ASSUME NEW v \in Elements(s) \ {Head(s)} PROVE v \in Elements(Tail(s))
  <2>1. PICK i \in 1 .. Len(s) : v = s[i]
    BY DEF Elements
  <2>2. i # 1
    BY <1>1, <2>1
  <2>3. i - 1 \in 1 .. Len(Tail(s)) /\ Tail(s)[i - 1] = s[i]
    BY <1>1, <1>2, <2>2
  <2> QED BY <2>1, <2>3 DEF Elements
<1>6. Injective(Tail(s))
  BY <1>1, <1>2 DEF Injective
<1> QED BY <1>2, <1>3, <1>4, <1>5, <1>6

-----------------------------------------------------------------------------
(* The invariant is inductive.                                             *)

(* Exclusive, said of members.                                             *)
LEMMA ExclusiveMembers ==
  ASSUME TypeOK
  PROVE  Exclusive <=>
           /\ Injective(allocated)
           /\ Injective(swap)
           /\ \A v \in Free : v \notin Elements(swap) /\ \A p \in Client : v \notin held[p]
           /\ \A p, q \in Client : p # q => \A v \in held[p] : v \notin held[q]
<1>1. Free \subseteq Value
  BY DEF TypeOK, Free, Elements
<1>2. (Free \cap InUse = {}) <=>
      (\A v \in Free : v \notin Elements(swap) /\ (\A p \in Client : v \notin held[p]))
  BY <1>1 DEF InUse
<1>3. ASSUME NEW p \in Client, NEW q \in Client
      PROVE  (held[p] \cap held[q] = {}) <=> (\A v \in held[p] : v \notin held[q])
  OBVIOUS
<1> QED BY <1>2, <1>3 DEF Exclusive

(* The invariant holds initially.                                          *)
LEMMA InitIInv == Init => IInv
<1> SUFFICES ASSUME Init PROVE IInv
  OBVIOUS
<1> USE PoolAssumption DEF Init
<1>1. Elements(swap) = {} /\ Free = {} /\ Injective(swap) /\ Injective(allocated)
  BY DEF Elements, Free, Injective
<1>2. TypeOK
  <2>1. swap \in Seq(Value) /\ allocated \in Seq(Value)
    BY ONLY Init DEF Init
  <2>2. held \in [Client -> SUBSET Value]
    BY ONLY Init DEF Init
  <2>3. built \in 0 .. Limit
    OBVIOUS
  <2> QED BY <2>1, <2>2, <2>3, Zenon DEF TypeOK
<1>3. Bounded /\ Setup
  BY <1>1 DEF Bounded, Setup
<1>4. Exclusive
  BY <1>1, <1>2, ExclusiveMembers
<1> QED BY <1>2, <1>3, <1>4 DEF IInv

(* Fill preserves the invariant.                                           *)
LEMMA FillStep == IInv /\ Fill => IInv'
<1> SUFFICES ASSUME IInv, Fill PROVE IInv'
  OBVIOUS
<1>1. built + 1 \in Value /\ built \in Nat /\ built' = built + 1 /\ built' \in 0 .. Limit
  BY PoolAssumption DEF IInv, TypeOK, Fill, Value
<1>2. built + 1 \notin Elements(swap)
  BY <1>1 DEF IInv, Bounded
<1>3. /\ swap' \in Seq(Value)
      /\ Elements(swap)' = Elements(swap) \cup {built + 1}
      /\ Injective(swap')
  BY <1>1, <1>2, AppendElements DEF IInv, TypeOK, Exclusive, Fill
<1>4. TypeOK'
  BY <1>1, <1>3 DEF IInv, TypeOK, Fill
<1>5. allocated = <<>> /\ Free' = {} /\ \A p \in Client : held'[p] = {}
  BY DEF IInv, Setup, Fill, Free, Elements
<1>6. Exclusive'
  BY <1>3, <1>5 DEF IInv, Exclusive, InUse, Fill
<1>7. Bounded'
  BY <1>1, <1>3, <1>5 DEF IInv, Bounded
<1>8. Setup'
  BY DEF IInv, Setup, Fill
<1> QED BY <1>4, <1>6, <1>7, <1>8 DEF IInv

(* Empty preserves the invariant.                                          *)
LEMMA EmptyStep == IInv /\ Empty => IInv'
<1> SUFFICES ASSUME IInv, Empty PROVE IInv'
  OBVIOUS
<1>1. CASE swap = <<>>
  BY <1>1 DEF IInv, TypeOK, Exclusive, Bounded, Setup, Empty, Free, InUse
<1>2. CASE swap # <<>>
  <2>1. /\ Head(swap) \in Elements(swap) /\ Head(swap) \in Value
        /\ swap' \in Seq(Value)
        /\ Elements(swap)' = Elements(swap) \ {Head(swap)}
        /\ Injective(swap')
    BY <1>2, TailElements, Zenon DEF IInv, TypeOK, Exclusive, Empty
  <2>2. Head(swap) \notin Free
    BY <2>1, ExclusiveMembers DEF IInv
  <2>3. /\ allocated' \in Seq(Value)
        /\ Free' = Free \cup {Head(swap)}
        /\ Injective(allocated')
    BY <1>2, <2>1, <2>2, AppendElements, ZenonT(60) DEF IInv, TypeOK, Exclusive, Empty,
         Push, Free
  <2>4. /\ UNCHANGED <<once, held, built, poisoned, gone>>
        /\ phase' = "emptying" /\ phase \in {"filling", "emptying"}
    BY <1>2 DEF Empty
  <2>5. TypeOK'
    BY <2>1, <2>3, <2>4 DEF IInv, TypeOK
  <2>6. Exclusive'
    <3>1. \A p \in Client : held'[p] = {}
      BY <2>4 DEF IInv, Setup
    <3>2. InUse' = Elements(swap)'
      BY <2>1, <3>1 DEF InUse, Elements
    <3>3. Free' \cap InUse' = {}
      BY <2>1, <2>3, <3>2, ExclusiveMembers DEF IInv
    <3> QED BY <2>1, <2>3, <3>1, <3>3 DEF Exclusive
  <2>7. Bounded' /\ Setup'
    BY <2>1, <2>3, <2>4 DEF IInv, Bounded, Setup
  <2> QED BY <2>5, <2>6, <2>7 DEF IInv
<1> QED BY <1>1, <1>2

(* Reuse preserves the invariant.                                          *)
LEMMA ReuseStep == ASSUME IInv, NEW p \in Client, Reuse(p) PROVE IInv'
<1> USE DEF Reuse
<1>1. /\ Last \in Free
      /\ allocated' \in Seq(Value)
      /\ Free' = Free \ {Last}
      /\ Injective(allocated')
  BY PopElements DEF IInv, TypeOK, Exclusive, Pop, Last, Free
<1>2. Last \in Value
  BY <1>1 DEF IInv, TypeOK, Free, Elements
<1>3. /\ held' \in [Client -> SUBSET Value]
      /\ held'[p] = held[p] \cup {Last}
      /\ \A q \in Client \ {p} : held'[q] = held[q]
  BY <1>2 DEF IInv, TypeOK
<1>4. TypeOK'
  BY <1>1, <1>3 DEF IInv, TypeOK
<1>5. Exclusive'
  BY <1>1, <1>3, ExclusiveMembers DEF IInv, Exclusive, InUse
<1>6. Bounded' /\ Setup'
  BY <1>1, <1>3 DEF IInv, Bounded, Setup
<1> QED BY <1>4, <1>5, <1>6 DEF IInv

(* Build preserves the invariant.                                          *)
LEMMA BuildStep == ASSUME IInv, NEW p \in Client, Build(p) PROVE IInv'
<1> USE DEF Build
<1>1. built + 1 \in Value /\ built \in Nat /\ built' \in 0 .. Limit
  BY PoolAssumption DEF IInv, TypeOK, Value
<1>2. /\ held' \in [Client -> SUBSET Value]
      /\ held'[p] = held[p] \cup {built + 1}
      /\ \A q \in Client \ {p} : held'[q] = held[q]
  BY <1>1 DEF IInv, TypeOK
<1>3. Free = {} /\ Free' = {}
  BY DEF Free, Elements
<1>4. \A q \in Client : built + 1 \notin held[q]
  BY <1>1 DEF IInv, Bounded
<1>5. TypeOK'
  BY <1>1, <1>2 DEF IInv, TypeOK
<1>6. Exclusive'
  BY <1>2, <1>3, <1>4 DEF IInv, Exclusive, InUse
<1>7. Bounded' /\ Setup'
  BY <1>1, <1>2, <1>3 DEF IInv, Bounded, Setup
<1> QED BY <1>5, <1>6, <1>7 DEF IInv

(* DropReusable preserves the invariant.                                   *)
LEMMA DropReusableStep ==
  ASSUME IInv, NEW p \in Client, NEW v \in Value, DropReusable(p, v)
  PROVE  IInv'
<1> USE DEF DropReusable
<1>1. /\ held' \in [Client -> SUBSET Value]
      /\ held'[p] = held[p] \ {v}
      /\ \A q \in Client \ {p} : held'[q] = held[q] /\ v \notin held[q]
  BY DEF IInv, TypeOK, Exclusive
<1>2. v \notin Free /\ swap = <<>> /\ v \in 1 .. built
  BY DEF IInv, Exclusive, InUse, Setup, Bounded
<1>3. /\ allocated' \in Seq(Value)
      /\ Free' \subseteq Free \cup {v}
      /\ Injective(allocated')
  <2>1. CASE poisoned
    BY <2>1 DEF IInv, TypeOK, Exclusive, Free
  <2>2. CASE ~poisoned
    BY <1>2, <2>2, AppendElements DEF IInv, TypeOK, Exclusive, Push, Free
  <2> QED BY <2>1, <2>2
<1>4. TypeOK'
  BY <1>1, <1>3 DEF IInv, TypeOK
<1>5. Elements(swap)' = Elements(swap) /\ Elements(swap) = {}
  BY <1>2 DEF Elements
<1>6. Exclusive'
  BY <1>1, <1>2, <1>3, <1>5 DEF IInv, Exclusive, InUse
<1>7. Bounded' /\ Setup'
  BY <1>1, <1>2, <1>3, <1>5 DEF IInv, Bounded, Setup
<1> QED BY <1>4, <1>6, <1>7 DEF IInv

(* Every step of the system preserves the invariant.                       *)
LEMMA StepIInv == IInv /\ [Next]_vars => IInv'
<1> SUFFICES ASSUME IInv, [Next]_vars PROVE IInv'
  OBVIOUS
<1>1. CASE UNCHANGED vars
  BY <1>1 DEF vars, IInv, TypeOK, Exclusive, Bounded, Setup, Free, InUse
<1>2. CASE PreallocPanics \/ BuilderPanics
  BY <1>2 DEF PreallocPanics, BuilderPanics, IInv, TypeOK, Exclusive, Bounded, Setup, Free,
       InUse
<1> QED
  BY <1>1, <1>2, FillStep, EmptyStep, ReuseStep, BuildStep, DropReusableStep
       DEF Next

(* Hence the invariant always holds.                                       *)
LEMMA Inductive == Spec => []IInv
<1> QED BY InitIInv, StepIInv, PTL DEF Spec

(* Every variable keeps its type; in particular the builder is never asked *)
(* for more values than it has.                                            *)
THEOREM TypeCorrect == Spec => []TypeOK
<1>1. IInv => TypeOK
  BY DEF IInv
<1> QED BY <1>1, Inductive, PTL

(* No value of a pool is ever in two handles, or free while in a handle.   *)
THEOREM ExclusiveOwnership == Spec => []Exclusive
<1>1. IInv => Exclusive
  BY DEF IInv
<1> QED BY <1>1, Inductive, PTL

-----------------------------------------------------------------------------
(* Nothing is lost, and nothing is built too early.                        *)
Ledger == NothingLost /\ HighWater

(* How many values are in use.                                             *)
LEMMA CountInUse ==
  ASSUME IInv, Ledger, ~poisoned
  PROVE  /\ Free = {} => Peak = built + 1
         /\ Free # {} => Peak = built
<1>1. built \in Nat /\ peak = built
  BY PoolAssumption DEF IInv, TypeOK, Ledger, HighWater
<1>2. /\ IsFiniteSet(1 .. built) /\ Cardinality(1 .. built) = built
  BY <1>1, FS_Interval
<1>3. ASSUME Free = {} PROVE Peak = built + 1
  <2>1. InUse = 1 .. built
    BY <1>3 DEF Ledger, NothingLost
  <2> QED BY <1>1, <1>2, <2>1 DEF Peak
<1>4. ASSUME Free # {} PROVE Peak = built
  <2>1. PICK v \in Free : TRUE
    BY <1>4
  <2>2. v \in 1 .. built /\ v \notin InUse
    BY <2>1 DEF IInv, Bounded, Exclusive
  <2>3. InUse \subseteq (1 .. built) \ {v}
    BY <2>2 DEF Ledger, NothingLost
  <2>4. /\ IsFiniteSet((1 .. built) \ {v})
        /\ Cardinality((1 .. built) \ {v}) = built - 1
    BY <1>2, <2>2, FS_RemoveElement, Zenon
  <2>5. Cardinality(InUse) \in Nat /\ Cardinality(InUse) <= built - 1
    <3>1. /\ IsFiniteSet(InUse)
          /\ Cardinality(InUse) <= Cardinality((1 .. built) \ {v})
      BY <2>3, <2>4, FS_Subset, Zenon
    <3> QED BY <2>4, <3>1, FS_CardinalityType
  <2> QED BY <1>1, <2>5 DEF Peak
<1> QED BY <1>3, <1>4

(* Every step keeps the ledger.                                            *)
LEMMA StepLedger == IInv /\ Ledger /\ [Next]_vars => Ledger'
<1> SUFFICES ASSUME IInv, Ledger, [Next]_vars PROVE Ledger'
  OBVIOUS
<1>1. built \in 0 .. Limit /\ Limit \in Nat /\ TypeOK
  BY PoolAssumption DEF IInv, TypeOK
<1>2. CASE Fill
  <2>1. built + 1 \in Value /\ built + 1 \notin Elements(swap) /\ ~poisoned
    BY <1>1, <1>2, PoolAssumption DEF IInv, Bounded, Setup, Fill, Value
  <2>2. Elements(swap)' = Elements(swap) \cup {built + 1}
    BY <1>1, <1>2, <2>1, AppendElements DEF TypeOK, Fill
  <2>3. Free = {} /\ Free' = {}
    BY <1>2 DEF IInv, Setup, Fill, Free, Elements
  <2>4. InUse' = InUse \cup {built + 1}
    BY <1>2, <2>1, <2>2 DEF InUse, Fill
  <2>5. InUse = 1 .. built /\ gone = {} /\ gone' = {}
    BY <1>2, <2>1, <2>3 DEF Ledger, NothingLost, Fill
  <2>6. NothingLost'
    BY <1>1, <1>2, <2>3, <2>4, <2>5 DEF NothingLost, Fill
  <2> QED BY <1>2, <2>1, <2>3, <2>6, CountInUse DEF Ledger, HighWater, Fill
<1>3. CASE Empty
  <2>1. UNCHANGED <<held, built, poisoned, gone, peak>>
    BY <1>3 DEF Empty
  <2>2. Free' \cup InUse' = Free \cup InUse
    <3>1. CASE swap = <<>>
      BY <1>3, <2>1, <3>1 DEF Empty, Free, InUse
    <3>2. CASE swap # <<>>
      <4>1. /\ Head(swap) \in Elements(swap) /\ Head(swap) \in Value
            /\ Elements(swap)' = Elements(swap) \ {Head(swap)}
        BY <1>1, <1>3, <3>2, TailElements, Zenon DEF IInv, TypeOK, Exclusive, Empty
      <4>2. Free' = Free \cup {Head(swap)}
        BY <1>1, <1>3, <3>2, <4>1, AppendElements, Zenon DEF TypeOK, Empty, Push, Free
      <4> QED BY <2>1, <4>1, <4>2 DEF InUse
    <3> QED BY <3>1, <3>2
  <2> QED BY <2>1, <2>2 DEF Ledger, NothingLost, HighWater
<1>4. ASSUME NEW p \in Client, Reuse(p) PROVE Ledger'
  <2>1. Last \in Free /\ Free' = Free \ {Last}
    BY <1>1, <1>4, PopElements DEF IInv, TypeOK, Exclusive, Reuse, Pop, Last, Free
  <2>2. Last \in Value
    BY <1>1, <2>1 DEF TypeOK, Free, Elements
  <2>3. InUse' = InUse \cup {Last}
    BY <1>1, <1>4, <2>2 DEF TypeOK, InUse, Reuse
  <2> QED BY <1>4, <2>1, <2>3, CountInUse DEF Ledger, NothingLost, HighWater, Reuse
<1>5. ASSUME NEW p \in Client, Build(p) PROVE Ledger'
  <2>1. built + 1 \in Value /\ Free = {} /\ Free' = {}
    BY <1>1, <1>5 DEF Build, Value, Free, Elements
  <2>2. InUse' = InUse \cup {built + 1}
    BY <1>1, <1>5, <2>1 DEF TypeOK, InUse, Build
  <2>3. InUse = 1 .. built /\ ~poisoned /\ gone = {} /\ gone' = {}
    BY <1>5, <2>1 DEF Ledger, NothingLost, Build
  <2>4. NothingLost'
    BY <1>1, <1>5, <2>1, <2>2, <2>3 DEF NothingLost, Build
  <2> QED BY <1>5, <2>1, <2>3, <2>4, CountInUse DEF Ledger, HighWater, Build
<1>6. ASSUME NEW p \in Client, NEW v \in Value, DropReusable(p, v) PROVE Ledger'
  <2>1. InUse' \cup {v} = InUse
    BY <1>1, <1>6 DEF TypeOK, InUse, DropReusable
  <2>2. CASE poisoned
    <3>1. Free' = Free
      BY <1>6, <2>2 DEF DropReusable, Free
    <3> QED BY <1>6, <2>1, <2>2, <3>1 DEF Ledger, NothingLost, HighWater, DropReusable
  <2>3. CASE ~poisoned
    <3>1. Free' = Free \cup {v}
      BY <1>1, <1>6, <2>3, AppendElements DEF TypeOK, DropReusable, Push, Free
    <3> QED BY <1>6, <2>1, <2>3, <3>1 DEF Ledger, NothingLost, HighWater, DropReusable
  <2> QED BY <2>2, <2>3
<1>7. CASE PreallocPanics \/ BuilderPanics \/ UNCHANGED vars
  BY <1>7 DEF PreallocPanics, BuilderPanics, vars, Ledger, NothingLost, HighWater, Free, InUse
<1> QED BY <1>2, <1>3, <1>4, <1>5, <1>6, <1>7 DEF Next

(* The ledger is right at all times.                                       *)
LEMMA AlwaysLedger == Spec => []Ledger
<1>1. Init => Ledger
  <2> SUFFICES ASSUME Init PROVE Ledger
    OBVIOUS
  <2>1. Free = {} /\ InUse = {}
    BY DEF Init, Free, InUse, Elements
  <2> QED BY <2>1 DEF Init, Ledger, NothingLost, HighWater
<1> QED BY <1>1, StepLedger, Inductive, PTL DEF Spec

(* Every value that was built is free or in use, unless it was dropped     *)
(* after a builder had panicked.                                           *)
THEOREM NothingIsLost == Spec => []NothingLost
<1>1. Ledger => NothingLost
  BY DEF Ledger
<1> QED BY <1>1, AlwaysLedger, PTL

(* A pool builds exactly as many values as were ever in use at once.       *)
THEOREM BuildsOnDemand == Spec => []HighWater
<1>1. Ledger => HighWater
  BY DEF Ledger
<1> QED BY <1>1, AlwaysLedger, PTL

-----------------------------------------------------------------------------
(* The pool as module Allocator sees it.                                   *)

(* Who holds a value.                                                      *)
HolderRight ==
  \A v \in Value :
    /\ v \in Elements(swap) => holder[v] = once
    /\ \A p \in Client :
         v \in held[p] /\ v \notin Elements(swap) => holder[v] = p
    /\ v \notin InUse =>
         holder[v] = IF v \in Free \/ v > built THEN Nobody ELSE Lost

(* The holder mapping says so.                                             *)
LEMMA HolderIs == IInv => HolderRight
<1> SUFFICES ASSUME IInv, NEW v \in Value
             PROVE  HolderRight!(v)
  BY DEF HolderRight
<1>1. ASSUME v \in Elements(swap) PROVE holder[v] = once
  BY <1>1 DEF holder
<1>2. ASSUME NEW p \in Client, v \in held[p], v \notin Elements(swap) PROVE holder[v] = p
  <2>1. \A q \in Client : v \in held[q] => q = p
    BY <1>2 DEF IInv, Exclusive
  <2>2. (CHOOSE q \in Client : v \in held[q]) = p
    BY <1>2, <2>1
  <2> QED BY <1>2, <2>2 DEF holder
<1>3. ASSUME v \notin InUse
      PROVE  holder[v] = IF v \in Free \/ v > built THEN Nobody ELSE Lost
  BY <1>3 DEF holder, InUse
<1> QED BY <1>1, <1>2, <1>3

(* What is true of the steps that concern one value v.                     *)
Only(v) ==
  /\ v \in Value
  /\ once' = once
  /\ \A w \in Value \ {v} :
       /\ w \in Elements(swap)' <=> w \in Elements(swap)
       /\ \A p \in Client : w \in held'[p] <=> w \in held[p]
       /\ w \in Free' <=> w \in Free
       /\ w > built' <=> w > built

(* Such a step changes the holder of v only.                               *)
LEMMA OnlyHolder ==
  ASSUME HolderRight, HolderRight', NEW v, Only(v)
  PROVE  holder' = [holder EXCEPT ![v] = holder'[v]]
<1>1. ASSUME NEW w \in Value \ {v} PROVE holder'[w] = holder[w]
  <2>1. CASE w \in Elements(swap)
    BY <2>1 DEF HolderRight, Only
  <2>2. ASSUME NEW p \in Client, w \in held[p], w \notin Elements(swap)
        PROVE  holder'[w] = holder[w]
    <3>1. holder[w] = p
      BY <2>2 DEF HolderRight
    <3>2. w \in held'[p] /\ w \notin Elements(swap)'
      BY <2>2 DEF Only
    <3> QED BY <3>1, <3>2 DEF HolderRight
  <2>3. CASE w \notin InUse
    <3>1. w \notin InUse'
      BY <2>3 DEF InUse, Only
    <3> QED BY <2>3, <3>1 DEF HolderRight, Only
  <2> QED BY <2>1, <2>2, <2>3 DEF InUse
<1>2. holder = [w \in Value |-> holder[w]] /\ holder' = [w \in Value |-> holder'[w]]
  BY DEF holder
<1> HIDE DEF holder
<1> QED BY <1>1, <1>2

(* Each step is a step of an allocator, or changes nothing there.          *)
LEMMA StepAlloc ==
  ASSUME IInv, IInv', Ledger, HolderRight, HolderRight', [Next]_vars
  PROVE  [Alloc!Next]_Alloc!vars
<1> USE DEF Value
<1>1. built \in 0 .. Limit /\ Limit \in Nat /\ TypeOK /\ once \in Client
  BY PoolAssumption DEF IInv, TypeOK
<1>2. \A v \in InUse : holder[v] \in Client
  BY <1>1 DEF HolderRight, InUse
<1>3. CASE Fill
  <2>1. built + 1 \in Value /\ built + 1 \notin Elements(swap) /\ ~poisoned
    BY <1>1, <1>3, PoolAssumption DEF IInv, Bounded, Setup, Fill
  <2>2. Elements(swap)' = Elements(swap) \cup {built + 1}
    BY <1>1, <1>3, <2>1, AppendElements, SMTT(30) DEF TypeOK, Fill
  <2>3. Free = {} /\ Free' = {}
    BY <1>3 DEF IInv, Setup, Fill, Free, Elements
  <2>4. InUse = 1 .. built
    BY <2>1, <2>3 DEF Ledger, NothingLost
  <2>5. Only(built + 1)
    BY <1>1, <1>3, <2>1, <2>2, <2>3 DEF Only, Fill
  <2>6. holder'[built + 1] = once
    BY <1>3, <2>1, <2>2 DEF HolderRight, Fill
  <2>7. holder' = [holder EXCEPT ![built + 1] = once]
    BY <2>5, <2>6, OnlyHolder
  <2>8. Alloc!Make(once, built + 1)
    BY <1>1, <1>2, <1>3, <2>4, <2>7, PoolAssumption DEF Alloc!Make, Fill
  <2> QED BY <1>1, <2>1, <2>8 DEF Alloc!Next
<1>4. CASE Empty
  <2>1. CASE swap = <<>>
    BY <1>4, <2>1 DEF Empty, Alloc!vars, holder, Free
  <2>2. CASE swap # <<>>
    <3> DEFINE h == Head(swap)
    <3>1. /\ h \in Elements(swap) /\ h \in Value /\ h \in 1 .. built
          /\ Elements(swap)' = Elements(swap) \ {h}
      BY <1>1, <1>4, <2>2, TailElements, Zenon DEF IInv, TypeOK, Exclusive, Bounded, Empty
    <3>2. Free' = Free \cup {h}
      BY <1>1, <1>4, <2>2, <3>1, AppendElements, Zenon DEF TypeOK, Empty, Push, Free
    <3>3. \A p \in Client : held'[p] = {}
      BY <1>4 DEF IInv, Setup, Empty
    <3>4. Only(h)
      BY <1>4, <3>1, <3>2 DEF Only, Empty
    <3>5. holder[h] = once
      BY <3>1 DEF HolderRight
    <3>6. h \notin InUse' /\ h \in Free'
      BY <3>1, <3>2, <3>3 DEF InUse
    <3>7. holder'[h] = Nobody
      BY <3>1, <3>6 DEF HolderRight
    <3> HIDE DEF h
    <3>8. holder' = [holder EXCEPT ![h] = Nobody]
      BY <3>4, <3>7, OnlyHolder
    <3>9. Alloc!Release(once, h)
      BY <1>4, <3>1, <3>5, <3>8 DEF Alloc!Release, Empty
    <3> QED BY <1>1, <3>1, <3>9 DEF Alloc!Next
  <2> QED BY <2>1, <2>2
<1>5. ASSUME NEW p \in Client, Reuse(p) PROVE Alloc!Next
  <2>1. Last \in Free /\ Free' = Free \ {Last}
    BY <1>1, <1>5, PopElements, SMTT(30) DEF IInv, TypeOK, Exclusive, Reuse, Pop, Last, Free
  <2>2. Last \in Value /\ Last \in 1 .. built /\ Last \notin InUse
    BY <1>1, <2>1 DEF IInv, Bounded, Exclusive
  <2>3. swap = <<>> /\ swap' = <<>> /\ Elements(swap) = {} /\ Elements(swap)' = {}
    BY <1>5 DEF IInv, Setup, Reuse, Elements
  <2>4. Only(Last)
    BY <1>1, <1>5, <2>1, <2>2, <2>3 DEF Only, Reuse, TypeOK
  <2>5. holder[Last] = Nobody
    BY <2>1, <2>2 DEF HolderRight
  <2>6. Last \in held'[p]
    BY <1>1, <1>5 DEF Reuse, TypeOK
  <2>7. holder'[Last] = p
    BY <2>2, <2>3, <2>6 DEF HolderRight
  <2> HIDE DEF Last
  <2>8. holder' = [holder EXCEPT ![Last] = p]
    BY <2>4, <2>7, OnlyHolder
  <2>9. Alloc!Acquire(p, Last)
    BY <1>5, <2>2, <2>5, <2>8 DEF Alloc!Acquire, Reuse
  <2> QED BY <2>2, <2>9 DEF Alloc!Next
<1>6. ASSUME NEW p \in Client, Build(p) PROVE Alloc!Next
  <2>1. built + 1 \in Value /\ Free = {} /\ Free' = {}
    BY <1>1, <1>6 DEF Build, Free, Elements
  <2>2. InUse = 1 .. built
    BY <1>6, <2>1 DEF Ledger, NothingLost, Build
  <2>3. swap = <<>> /\ swap' = <<>> /\ Elements(swap) = {} /\ Elements(swap)' = {}
    BY <1>6 DEF IInv, Setup, Build, Elements
  <2>4. Only(built + 1)
    BY <1>1, <1>6, <2>1, <2>3 DEF Only, Build, TypeOK
  <2>5. built + 1 \in held'[p]
    BY <1>1, <1>6 DEF Build, TypeOK
  <2>6. holder' = [holder EXCEPT ![built + 1] = p]
    BY <2>1, <2>3, <2>4, <2>5, OnlyHolder, SMTT(30) DEF HolderRight
  <2>7. Alloc!Make(p, built + 1)
    BY <1>1, <1>2, <1>6, <2>2, <2>6, PoolAssumption, SMTT(30) DEF Alloc!Make, Build
  <2> QED BY <2>1, <2>7 DEF Alloc!Next
<1>7. ASSUME NEW p \in Client, NEW v \in Value, DropReusable(p, v) PROVE Alloc!Next
  <2>1. swap = <<>> /\ swap' = <<>> /\ Elements(swap) = {} /\ Elements(swap)' = {}
    BY <1>7 DEF IInv, Setup, DropReusable, Elements
  <2>2. v \in 1 .. built /\ v \notin Free
    BY <1>7, SMTT(30) DEF IInv, Bounded, Exclusive, InUse, DropReusable
  <2>3. \A q \in Client : v \notin held'[q]
    BY <1>1, <1>7 DEF IInv, Exclusive, DropReusable, TypeOK
  <2>4. Free' = IF poisoned THEN Free ELSE Free \cup {v}
    BY <1>1, <1>7, AppendElements, Zenon DEF TypeOK, DropReusable, Push, Free
  <2>5. Only(v)
    BY <1>1, <1>7, <2>1, <2>4 DEF Only, DropReusable, TypeOK
  <2>6. holder[v] = p
    BY <1>7, <2>1 DEF HolderRight, DropReusable
  <2>7. v \notin InUse' /\ built' = built
    BY <1>7, <2>1, <2>3 DEF InUse, DropReusable
  <2>8. holder'[v] \in {Nobody, Lost}
    BY <2>7 DEF HolderRight
  <2>9. Alloc!Release(p, v)
    BY <2>2, <2>5, <2>6, <2>7, <2>8, OnlyHolder DEF Alloc!Release
  <2> QED BY <2>9 DEF Alloc!Next
<1>8. CASE PreallocPanics \/ BuilderPanics \/ UNCHANGED vars
  BY <1>8, Zenon DEF PreallocPanics, BuilderPanics, vars, Alloc!vars, holder, Free
<1> QED BY <1>3, <1>4, <1>5, <1>6, <1>7, <1>8 DEF Next

(* A pool keeps the promises of module Allocator, for any number of        *)
(* threads and values.                                                     *)
THEOREM ImplementsAllocator == Spec => AllocSpec
<1>1. Init => Alloc!Init
  <2> SUFFICES ASSUME Init PROVE Alloc!Init
    OBVIOUS
  <2>1. Free = {} /\ Elements(swap) = {} /\ built = 0
    BY DEF Init, Free, Elements
  <2>2. holder = [v \in Value |-> Nobody]
    BY <2>1 DEF holder, Init, Value
  <2> QED BY <2>1, <2>2 DEF Alloc!Init, Alloc!InitWith
<1> QED
  BY <1>1, StepAlloc, HolderIs, AlwaysLedger, Inductive, PTL
  DEF Spec, AllocSpec, Alloc!Spec
=============================================================================
