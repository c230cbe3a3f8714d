-------------------------- MODULE ResourcesProofs ---------------------------
(***************************************************************************)
(* Proofs about modules Resources and CInterface, for any numbers of       *)
(* threads, Lingers and libsets.                                           *)
(***************************************************************************)
EXTENDS CInterface, FiniteSetTheorems, TLAPS

(* The n values of a pool are divided between its free ones and the        *)
(* Lingers' fields.                                                        *)
Divided(field, free, n) ==
  /\ n \in Nat
  /\ free \subseteq 1 .. n
  /\ field \in [Cont -> (1 .. n) \cup {None}]
  /\ \A c \in Cont :
       field[c] # None =>
         field[c] \notin free /\ \A b \in Cont \ {c} : field[b] # field[c]
  /\ \A v \in 1 .. n : v \in free \/ \E c \in Cont : field[c] = v

(* try_into() keeps it so, ...                                             *)
LEMMA Acquired ==
  ASSUME NEW field, NEW free, NEW n, Divided(field, free, n),
         NEW c \in Cont, field[c] = None, NEW v \in Offered(free, n)
  PROVE  /\ Divided([field EXCEPT ![c] = v], Taken(free, v), Built(free, n))
         /\ v \in 1 .. Built(free, n) /\ v # None
         /\ free # {} => Built(free, n) = n
         /\ \A b \in Cont : field[b] # v
<1> USE ResourcesAssumption
<1>1. CASE free = {}
  <2>1. v = n + 1 /\ Built(free, n) = n + 1 /\ Taken(free, v) = {} /\ n \in Nat
    BY <1>1, Zenon DEF Offered, Built, Taken, Divided
  <2>2. 1 .. n + 1 = (1 .. n) \cup {n + 1} /\ n + 1 \notin 1 .. n /\ n + 1 \in Nat
    BY <2>1, SMTT(30)
  <2>3. \A b \in Cont : field[b] # v
    BY <2>1, <2>2, ZenonT(30) DEF Divided
  <2>4. Divided([field EXCEPT ![c] = n + 1], {}, n + 1)
    BY <1>1, <2>1, <2>2, <2>3, SMTT(30) DEF Divided
  <2> QED BY <1>1, <2>1, <2>2, <2>3, <2>4, Zenon
<1>2. CASE free # {}
  <2>1. v \in free /\ Built(free, n) = n /\ Taken(free, v) = free \ {v}
    BY <1>2, Zenon DEF Offered, Built, Taken
  <2>2. v \in 1 .. n /\ v # None /\ \A b \in Cont : field[b] # v
    BY <2>1, SMTT(30) DEF Divided
  <2>3. Divided([field EXCEPT ![c] = v], free \ {v}, n)
    BY <2>1, <2>2, SMTT(30) DEF Divided
  <2> QED BY <1>2, <2>1, <2>2, <2>3, Zenon
<1> QED BY <1>1, <1>2, Zenon

(* ... and so does the drop of a field.                                    *)
LEMMA Released ==
  ASSUME NEW field, NEW free, NEW n, Divided(field, free, n), NEW c \in Cont
  PROVE  Divided([field EXCEPT ![c] = None], free \cup ({field[c]} \ {None}), n)
BY ResourcesAssumption, ZenonT(30) DEF Divided

-----------------------------------------------------------------------------
(* The inductive invariant: control, pools, libsets, TCB slots, and what a *)
(* Linger holds while no thread works with it and at each stage of a call. *)
Stage == {"caller", "localstore", "take", "install", "stack", "switch", "run",
          "drop", "dropStack", "dropGroup", "dropTls"}
Installed == {"install", "stack", "switch", "run"}

Types ==
  /\ state \in [Cont -> {"none", "fresh", "paused"}]
  /\ pc \in [Thread -> Stage]
  /\ cur \in [Thread -> Cont \cup {None}]
  /\ launching \in [Thread -> BOOLEAN]
  /\ panicked \in BOOLEAN

Calls ==
  /\ \A t \in Thread : pc[t] = "caller" <=> cur[t] = None
  /\ \A t, u \in Thread : t # u /\ cur[t] # None => cur[t] # cur[u]

Pools ==
  /\ Divided(group, freeGroup, nGroup) /\ nGroup <= Limit
  /\ Divided(tls, freeTls, nTls) /\ Limit <= nTls /\ TcbsBounded
  /\ Divided(stack, freeStack, nStack) /\ StacksSuffice

(* Libset g contains an unfinished call that no failure of renew() left.   *)
Unclean(g) == g \in dirty /\ g \notin unrenewed
Libsets ==
  /\ dirty \subseteq 1 .. nGroup /\ unrenewed \subseteq dirty
  /\ \A g \in freeGroup : ~Unclean(g)

Slots ==
  /\ lost \subseteq 1 .. nTls
  /\ \A s : s \in missing <=>
       s \in lost \/ \E t \in Thread : pc[t] \in Installed /\ s = tls[cur[t]]
  /\ \A t \in Thread : pc[t] \in Installed => tls[cur[t]] \notin lost
  /\ panicked => lost # {}

Vacant(c) == state[c] = "none" /\ group[c] = None /\ tls[c] = None /\ stack[c] = None
Owns(c) == state[c] # "none" /\ group[c] # None /\ tls[c] # None
Whole(c) ==
  Owns(c) /\ (state[c] = "fresh" => stack[c] = None /\ ~Unclean(group[c]))

(* What Linger c holds at stage p of a call, or between calls.             *)
Holds(p, c) ==
  /\ p = "caller" => Vacant(c) \/ Whole(c)
  /\ p = "localstore" =>
       /\ state[c] = "none" /\ tls[c] = None /\ stack[c] = None
       /\ group[c] # None /\ ~Unclean(group[c])
  /\ p \in {"take", "install", "stack", "drop"} => Whole(c)
  /\ p = "stack" => state[c] = "fresh"
  /\ p = "switch" => Owns(c) /\ (state[c] = "fresh" => ~Unclean(group[c]))
  /\ p = "run" => Owns(c)
  /\ p \in {"dropStack", "dropGroup"} => Owns(c) /\ ~Unclean(group[c])
  /\ p = "dropGroup" => stack[c] = None
  /\ p = "dropTls" =>
       state[c] # "none" /\ tls[c] # None /\ group[c] = None /\ stack[c] = None

Held ==
  /\ \A t \in Thread : cur[t] # None => Holds(pc[t], cur[t])
  /\ \A c \in Cont : Untouched(c) => Holds("caller", c)

IInv == Types /\ Calls /\ Pools /\ Libsets /\ Slots /\ Held

(* Initially.                                                              *)
LEMMA InitIInv == Init => IInv
<1> SUFFICES ASSUME Init PROVE IInv
  OBVIOUS
<1> USE ResourcesAssumption
<1>1. Types /\ Calls
  BY Zenon DEF Init, Types, Calls, Stage
<1>2. Limit < Limit + Cardinality(Thread)
  <2>1. Cardinality(Thread) \in Nat /\ Cardinality(Thread) # 0
    BY FS_CardinalityType, FS_EmptySet, Zenon
  <2> QED BY <2>1, SMTT(30)
<1>3. Divided(group, freeGroup, nGroup) /\ nGroup <= Limit
  BY SMTT(30) DEF Init, Divided
<1>4. Divided(tls, freeTls, nTls) /\ Limit <= nTls /\ TcbsBounded
  BY <1>2, SMTT(30) DEF Init, Divided, TcbsBounded
<1>5. Divided(stack, freeStack, nStack) /\ StacksSuffice
  BY Zenon DEF Init, Divided, StacksSuffice
<1>6. Libsets /\ Slots
  BY Zenon DEF Init, Libsets, Slots, Installed
<1>7. Held
  BY Zenon DEF Init, Held, Holds, Vacant
<1> QED BY <1>1, <1>3, <1>4, <1>5, <1>6, <1>7, Zenon DEF IInv, Pools

(* What the fields of the Lingers are.                                     *)
Fields ==
  /\ group \in [Cont -> (1 .. nGroup) \cup {None}]
  /\ tls \in [Cont -> (1 .. nTls) \cup {None}]
  /\ stack \in [Cont -> (1 .. nStack) \cup {None}]
  /\ \A c \in Cont : group[c] # None =>
       group[c] \notin freeGroup /\ \A b \in Cont \ {c} : group[b] # group[c]
  /\ \A c \in Cont : tls[c] # None => \A b \in Cont \ {c} : tls[b] # tls[c]
  /\ nGroup \in Nat /\ nTls \in Nat /\ nStack \in Nat
  /\ None \notin 1 .. nGroup /\ None \notin 1 .. nTls /\ None \notin 1 .. nStack

(* The pools say so.                                                       *)
LEMMA PoolsFields == Pools => Fields
BY ResourcesAssumption, SMTT(30) DEF Pools, Divided, Fields

-----------------------------------------------------------------------------
(* Counting.                                                               *)

(* A Linger with a stack has a libset; one with a TCB slot does, too, but  *)
(* for the last step of its drop.                                          *)
LEMMA HasGroup ==
  ASSUME IInv, NEW c \in Cont, group[c] = None
  PROVE  /\ stack[c] = None
         /\ tls[c] # None => \E t \in Thread : cur[t] = c /\ pc[t] = "dropTls"
<1>1. CASE Untouched(c)
  BY <1>1, Zenon DEF IInv, Held, Holds, Vacant, Whole, Owns
<1>2. ASSUME NEW t \in Thread, cur[t] = c
      PROVE  stack[c] = None /\ pc[t] = "dropTls"
  BY <1>2, ResourcesAssumption, Zenon DEF IInv, Types, Calls, Stage, Held, Holds, Whole, Owns
<1> QED BY <1>1, <1>2, Zenon DEF Untouched

(* setup_stack() finds a stack in the pool.                                *)
LEMMA StackLeft ==
  ASSUME IInv, NEW t \in Thread, pc[t] = "stack" PROVE freeStack # {}
<1> USE ResourcesAssumption
<1> SUFFICES ASSUME freeStack = {} PROVE FALSE
  OBVIOUS
<1> DEFINE c == cur[t]
           h == [s \in 1 .. Limit |-> CHOOSE b \in Cont : stack[b] = s]
           f == [s \in 1 .. Limit |-> group[h[s]]]
           T == (1 .. Limit) \ {group[c]}
<1>1. c \in Cont /\ group[c] # None /\ stack[c] = None
  BY Zenon DEF IInv, Types, Calls, Held, Holds, Whole, Owns
<1>2. Fields /\ nStack = Limit /\ nGroup <= Limit
  BY PoolsFields, Zenon DEF IInv, Pools, StacksSuffice
<1>3. \A s \in 1 .. Limit : h[s] \in Cont /\ stack[h[s]] = s
  <2>1. \A s \in 1 .. Limit : \E b \in Cont : stack[b] = s
    BY <1>2, Zenon DEF IInv, Pools, Divided
  <2> QED BY <2>1, Zenon
<1> HIDE DEF h
<1>4. \A s \in 1 .. Limit : h[s] # c /\ group[h[s]] # None
  BY <1>1, <1>3, HasGroup, SMTT(30)
<1>5. f \in [1 .. Limit -> T]
  BY <1>1, <1>2, <1>3, <1>4, SMTT(30) DEF Fields
<1>6. group[c] \in 1 .. Limit
  BY <1>1, <1>2, SMTT(30) DEF Fields
<1>7. IsFiniteSet(1 .. Limit) /\ Cardinality(1 .. Limit) = Limit
  BY FS_Interval, SMTT(30)
<1>8. IsFiniteSet(T) /\ Cardinality(T) = Limit - 1
  BY <1>6, <1>7, FS_RemoveElement, Zenon
<1>9. PICK r, s \in 1 .. Limit : r # s /\ f[r] = f[s]
  <2> HIDE DEF f, T
  <2> QED BY <1>5, <1>7, <1>8, FS_PigeonHole, SMTT(30)
<1>10. group[h[r]] = group[h[s]] /\ h[r] # h[s]
  BY <1>3, <1>9, Zenon
<1> QED BY <1>2, <1>3, <1>4, <1>10, Zenon DEF Fields

(* alloc_localstore() makes a TCB only if, for each one beyond Limit, a    *)
(* thread is about to give one back.                                       *)
LEMMA TcbRoom ==
  ASSUME IInv, NEW t \in Thread, pc[t] = "localstore", freeTls = {}
  PROVE  nTls + 1 < Limit + Cardinality(Thread)
<1> USE ResourcesAssumption
<1> DEFINE c == cur[t]
           h == [s \in 1 .. nTls |-> CHOOSE b \in Cont : tls[b] = s]
           f == [s \in 1 .. nTls |->
                   IF group[h[s]] # None
                     THEN group[h[s]]
                     ELSE CHOOSE u \in Thread : cur[u] = h[s]]
           S == (1 .. Limit) \ {group[c]}
           T == Thread \ {t}
<1>1. c \in Cont /\ group[c] # None /\ tls[c] = None
  BY Zenon DEF IInv, Types, Calls, Held, Holds
<1>2. Fields /\ nGroup <= Limit
  BY PoolsFields, Zenon DEF IInv, Pools
<1>3. \A s \in 1 .. nTls : h[s] \in Cont /\ tls[h[s]] = s
  <2>1. \A s \in 1 .. nTls : \E b \in Cont : tls[b] = s
    BY Zenon DEF IInv, Pools, Divided
  <2> QED BY <2>1, Zenon
<1> HIDE DEF h
<1>4. ASSUME NEW s \in 1 .. nTls, group[h[s]] # None
      PROVE  f[s] = group[h[s]] /\ f[s] \in S
  <2>1. h[s] # c /\ h[s] \in Cont
    BY <1>1, <1>2, <1>3, Zenon DEF Fields
  <2> QED BY <1>1, <1>2, <1>4, <2>1, SMTT(30) DEF Fields
<1>5. ASSUME NEW s \in 1 .. nTls, group[h[s]] = None
      PROVE  f[s] \in T /\ cur[f[s]] = h[s]
  <2>1. tls[h[s]] # None
    BY <1>2, <1>3, Zenon DEF Fields
  <2>2. PICK u \in Thread : cur[u] = h[s] /\ pc[u] = "dropTls"
    BY <1>3, <1>5, <2>1, HasGroup, Zenon
  <2>3. f[s] = CHOOSE v \in Thread : cur[v] = h[s]
    BY <1>5, Zenon
  <2>4. f[s] \in Thread /\ cur[f[s]] = h[s]
    <3> HIDE DEF f
    <3> QED BY <2>2, <2>3, Zenon
  <2>5. f[s] # t
    <3>1. h[s] # c
      BY <1>1, <1>5, Zenon
    <3> HIDE DEF f
    <3> QED BY <2>4, <3>1, Zenon
  <2> QED BY <2>4, <2>5, Zenon
<1>6. IsFiniteSet(S) /\ Cardinality(S) = Limit - 1 /\ Limit \in Nat
  <2>1. group[c] \in 1 .. Limit
    BY <1>1, <1>2, SMTT(30) DEF Fields
  <2>2. IsFiniteSet(1 .. Limit) /\ Cardinality(1 .. Limit) = Limit
    BY FS_Interval, SMTT(30)
  <2> QED BY <2>1, <2>2, FS_RemoveElement, Zenon
<1>7. /\ IsFiniteSet(T) /\ Cardinality(T) = Cardinality(Thread) - 1
      /\ Cardinality(Thread) \in Nat
  BY FS_RemoveElement, FS_CardinalityType, Zenon
<1>8. IsFiniteSet(1 .. nTls) /\ Cardinality(1 .. nTls) = nTls /\ nTls \in Nat
  BY <1>2, FS_Interval, SMTT(30) DEF Fields
<1>9. S \cap T = {}
  OBVIOUS
<1>10. f \in [1 .. nTls -> S \cup T]
  <2>1. \A s \in 1 .. nTls : f[s] \in S \cup T
    <3> HIDE DEF f, S, T
    <3> QED BY <1>4, <1>5, Zenon
  <2>2. f = [s \in 1 .. nTls |-> f[s]]
    OBVIOUS
  <2> HIDE DEF f, S, T
  <2> QED BY <2>1, <2>2, Zenon
<1>11. ASSUME NEW r \in 1 .. nTls, NEW s \in 1 .. nTls, r # s PROVE f[r] # f[s]
  <2>1. h[r] # h[s] /\ h[r] \in Cont /\ h[s] \in Cont
    BY <1>3, <1>11, Zenon
  <2>2. CASE group[h[r]] # None /\ group[h[s]] # None
    <3>1. f[r] = group[h[r]] /\ f[s] = group[h[s]]
      BY <2>2, Zenon
    <3> HIDE DEF f
    <3> QED BY <1>2, <2>1, <2>2, <3>1, Zenon DEF Fields
  <2> HIDE DEF f, S, T
  <2>3. CASE group[h[r]] = None /\ group[h[s]] = None
    BY <1>5, <2>1, <2>3, Zenon
  <2>4. CASE (group[h[r]] = None) # (group[h[s]] = None)
    BY <1>4, <1>5, <1>9, <2>4, Zenon
  <2> QED BY <2>2, <2>3, <2>4, Zenon
<1> HIDE DEF f, S, T
<1>12. IsFiniteSet(S \cup T) /\ Cardinality(S \cup T) = Cardinality(S) + Cardinality(T)
  <2>1. Cardinality(S \cap T) = 0
    BY <1>9, FS_EmptySet, Zenon
  <2>2. Cardinality(S \cup T) = Cardinality(S) + Cardinality(T) - Cardinality(S \cap T)
    BY <1>6, <1>7, FS_Union, Zenon
  <2>3. IsFiniteSet(S \cup T)
    BY <1>6, <1>7, FS_Union, Zenon
  <2> QED BY <1>6, <1>7, <2>1, <2>2, <2>3, SMTT(30)
<1>13. ~(Cardinality(S \cup T) < nTls)
  <2> SUFFICES ASSUME Cardinality(S \cup T) < nTls PROVE FALSE
    OBVIOUS
  <2>1. \E r, s \in 1 .. nTls : r # s /\ f[r] = f[s]
    BY <1>8, <1>10, <1>12, FS_PigeonHole, SMTT(30)
  <2> QED BY <1>11, <2>1, Zenon
<1> QED BY <1>6, <1>7, <1>8, <1>12, <1>13, SMTT(30)

-----------------------------------------------------------------------------
(* A step of thread t concerns one Linger c and takes the call to stage p. *)
Moves(t, c, p) ==
  /\ cur[t] = c \/ (cur[t] = None /\ Untouched(c))
  /\ pc'[t] = p
  /\ cur'[t] = IF p = "caller" THEN None ELSE c
  /\ \A u \in Thread \ {t} : pc'[u] = pc[u] /\ cur'[u] = cur[u]
  /\ \A b \in Cont \ {c} :
       /\ state'[b] = state[b] /\ group'[b] = group[b]
       /\ tls'[b] = tls[b] /\ stack'[b] = stack[b]
       /\ Unclean(group[b])' => Unclean(group[b])

(* The control state stays consistent.                                     *)
LEMMA MovesCalls ==
  ASSUME IInv, NEW t \in Thread, NEW c \in Cont, NEW p, Moves(t, c, p)
  PROVE  Calls'
<1>1. \A u \in Thread \ {t} : cur[u] # c
  BY ResourcesAssumption, SMTT(30) DEF IInv, Calls, Moves, Untouched
<1>2. ASSUME NEW u \in Thread PROVE pc'[u] = "caller" <=> cur'[u] = None
  BY ResourcesAssumption, SMTT(30) DEF IInv, Calls, Moves
<1>3. ASSUME NEW r \in Thread, NEW u \in Thread, r # u, cur'[r] # None
      PROVE  cur'[r] # cur'[u]
  BY <1>1, <1>3, SMTT(30) DEF IInv, Calls, Moves
<1> QED BY <1>2, <1>3, Zenon DEF Calls

(* Only c has to be looked at.                                             *)
LEMMA MovesHeld ==
  ASSUME IInv, NEW t \in Thread, NEW c \in Cont, NEW p, Moves(t, c, p), Holds(p, c)'
  PROVE  Held'
<1>1. ASSUME NEW b \in Cont, b # c, NEW q, Holds(q, b) PROVE Holds(q, b)'
  BY <1>1, Zenon DEF Moves, Holds, Vacant, Whole, Owns
<1>2. ASSUME NEW u \in Thread, cur'[u] # None PROVE Holds(pc[u], cur[u])'
  <2>1. CASE u = t
    <3>1. pc'[u] = p /\ cur'[u] = c
      BY <1>2, <2>1, Zenon DEF Moves
    <3> QED BY <3>1, Zenon DEF Holds, Vacant, Whole, Owns
  <2>2. CASE u # t
    <3>1. pc'[u] = pc[u] /\ cur'[u] = cur[u]
      BY <2>2, Zenon DEF Moves
    <3>2. PICK b \in Cont, q \in Stage : b = cur[u] /\ q = pc[u]
      BY <1>2, <3>1, Zenon DEF IInv, Types
    <3>3. b # c /\ Holds(q, b)
      BY <1>2, <2>2, <3>1, <3>2, ZenonT(30) DEF IInv, Calls, Held, Moves, Untouched
    <3>4. Holds(q, b)'
      BY <1>1, <3>3, Zenon
    <3>5. pc'[u] = q /\ cur'[u] = b
      BY <3>1, <3>2, Zenon
    <3> HIDE <3>1, <3>2
    <3> QED BY <3>4, <3>5, Zenon DEF Holds, Vacant, Whole, Owns
  <2> QED BY <2>1, <2>2, Zenon
<1>3. ASSUME NEW b \in Cont, Untouched(b)' PROVE Holds("caller", b)'
  <2>1. CASE b = c
    <3>1. p = "caller"
      BY <1>3, <2>1, Zenon DEF Moves, Untouched
    <3> QED BY <2>1, <3>1, Zenon
  <2>2. CASE b # c
    <3>1. Untouched(b)
      BY <1>3, <2>2, ResourcesAssumption, Zenon DEF Moves, Untouched
    <3> QED BY <1>1, <2>2, <3>1, Zenon DEF IInv, Held
  <2> QED BY <2>1, <2>2, Zenon
<1> QED BY <1>2, <1>3, Zenon DEF Held

(* TCB slots, when t neither takes a TCB nor puts one back.                *)
LEMMA MovesSlots ==
  ASSUME IInv, NEW t \in Thread, NEW c \in Cont, NEW p, Moves(t, c, p),
         UNCHANGED <<missing, lost>>, panicked' => lost # {},
         1 .. nTls \subseteq 1 .. nTls',
         p \in Installed <=> pc[t] \in Installed,
         p \in Installed => tls' = tls
  PROVE  Slots'
<1>1. "caller" \notin Installed
  BY Zenon DEF Installed
<1>2. ASSUME NEW u \in Thread
      PROVE  /\ pc'[u] \in Installed <=> pc[u] \in Installed
             /\ pc[u] \in Installed => tls'[cur'[u]] = tls[cur[u]]
  <2>1. CASE u = t
    <3>1. pc'[t] = p
      BY Zenon DEF Moves
    <3>2. ASSUME p \in Installed PROVE cur'[t] = c /\ cur[t] = c
      BY <1>1, <3>2, Zenon DEF Moves, IInv, Calls
    <3> QED BY <2>1, <3>1, <3>2, Zenon
  <2>2. CASE u # t
    <3>1. ASSUME pc[u] \in Installed PROVE cur[u] \in Cont \ {c}
      BY <1>1, <2>2, <3>1, SMTT(30) DEF Moves, IInv, Types, Calls, Untouched
    <3> QED BY <2>2, <3>1, Zenon DEF Moves
  <2> QED BY <2>1, <2>2, Zenon
<1>3. /\ lost \subseteq 1 .. nTls
      /\ \A s : s \in missing <=>
           s \in lost \/ \E u \in Thread : pc[u] \in Installed /\ s = tls[cur[u]]
      /\ \A u \in Thread : pc[u] \in Installed => tls[cur[u]] \notin lost
  BY Zenon DEF IInv, Slots
<1> QED BY <1>2, <1>3, ZenonT(60) DEF Slots

(* TCB slots, when t takes its TCB, puts it back or loses it.              *)
LEMMA SlotMoves ==
  ASSUME IInv, NEW t \in Thread, NEW c \in Cont, NEW p, Moves(t, c, p),
         cur[t] = c, tls[c] # None, UNCHANGED <<tls, nTls, panicked>>,
         \/ /\ pc[t] \notin Installed /\ p \in Installed /\ tls[c] \notin missing
            /\ lost' = lost /\ missing' = missing \cup {tls[c]}
         \/ /\ pc[t] \in Installed /\ p \notin Installed
            /\ \/ lost' = lost /\ missing' = missing \ {tls[c]}
               \/ lost' = lost \cup {tls[c]} /\ missing' = missing
  PROVE  Slots'
<1> DEFINE Out(s) == \E u \in Thread \ {t} : pc[u] \in Installed /\ s = tls[cur[u]]
<1>1. Fields
  BY PoolsFields, Zenon DEF IInv
<1>2. ASSUME NEW u \in Thread \ {t}
      PROVE  /\ pc'[u] = pc[u] /\ tls'[cur'[u]] = tls[cur[u]]
             /\ pc[u] \in Installed => tls[cur[u]] # tls[c]
  <2>1. ASSUME pc[u] \in Installed PROVE cur[u] \in Cont \ {c}
    BY <2>1, Zenon DEF IInv, Types, Calls, Installed
  <2> QED BY <1>1, <2>1, Zenon DEF Moves, Fields
<1>3. pc'[t] = p /\ (p \in Installed => tls'[cur'[t]] = tls[c])
  BY Zenon DEF Moves, Installed
<1>4. /\ lost \subseteq 1 .. nTls
      /\ \A s : s \in missing <=>
           s \in lost \/ \E u \in Thread : pc[u] \in Installed /\ s = tls[cur[u]]
      /\ \A u \in Thread : pc[u] \in Installed => tls[cur[u]] \notin lost
      /\ panicked => lost # {}
  BY Zenon DEF IInv, Slots
<1>5. ~Out(tls[c])
  BY <1>2, Zenon
<1>6. ASSUME NEW s
      PROVE  (\E u \in Thread : pc[u] \in Installed /\ s = tls[cur[u]])
               <=> (pc[t] \in Installed /\ s = tls[c]) \/ Out(s)
  OBVIOUS
<1>7. ASSUME NEW s
      PROVE  (\E u \in Thread : pc'[u] \in Installed /\ s = tls'[cur'[u]])
               <=> (p \in Installed /\ s = tls[c]) \/ Out(s)
  BY <1>2, <1>3, Zenon
<1>8. lost' \subseteq 1 .. nTls' /\ (panicked' => lost' # {})
  <2>1. tls[c] \in 1 .. nTls
    BY <1>1, Zenon DEF Fields
  <2> QED BY <1>4, <2>1, Zenon
<1>9. \A u \in Thread : pc'[u] \in Installed => tls'[cur'[u]] \notin lost'
  BY <1>2, <1>3, <1>4, Zenon
<1>10. ASSUME NEW s
       PROVE  s \in missing' <=>
                s \in lost' \/ \E u \in Thread : pc'[u] \in Installed /\ s = tls'[cur'[u]]
  <2>1. s \in missing <=> s \in lost \/ (pc[t] \in Installed /\ s = tls[c]) \/ Out(s)
    BY <1>4, <1>6, Zenon
  <2>2. pc[t] \in Installed => tls[c] \notin lost
    BY <1>4, Zenon
  <2> HIDE DEF Out
  <2> QED BY <1>5, <1>7, <2>1, <2>2, Zenon
<1> QED BY <1>8, <1>9, <1>10, Zenon DEF Slots

(* At stage p of a call the thread works with some Linger that is as far.  *)
LEMMA Current ==
  ASSUME IInv, NEW t \in Thread, NEW p \in Stage \ {"caller"}, pc[t] = p
  PROVE  \E c \in Cont : cur[t] = c /\ Holds(p, c)
BY Zenon DEF IInv, Types, Calls, Held

(* The pools, unless a step changes them.                                  *)
LEMMA SamePools == ASSUME Pools, UNCHANGED pools, UNCHANGED fields PROVE Pools'
BY Zenon DEF Pools, TcbsBounded, StacksSuffice, pools, fields

(* The stack goes back to its pool.                                        *)
LEMMA StackReleased ==
  ASSUME Pools, NEW c \in Cont, ReleaseStack(c) PROVE Pools'
<1>1. Divided(stack', freeStack', nStack')
  BY Released, Zenon DEF Pools, ReleaseStack
<1> QED BY <1>1, Zenon DEF Pools, TcbsBounded, StacksSuffice, ReleaseStack

(* A failed call returns or, in launch(), goes on to drop the Linger.      *)
LEMMA Gives ==
  ASSUME IInv, NEW t \in Thread, Give(t),
         state' \in [Cont -> {"none", "fresh", "paused"}], panicked' \in BOOLEAN
  PROVE  /\ Types'
         /\ \E p \in {"caller", "drop"} :
              /\ pc'[t] = p
              /\ cur'[t] = IF p = "caller" THEN None ELSE cur[t]
         /\ \A u \in Thread \ {t} : pc'[u] = pc[u] /\ cur'[u] = cur[u]
<1>1. CASE launching[t]
  <2>1. pc' = [pc EXCEPT ![t] = "drop"] /\ UNCHANGED <<cur, launching>>
    BY <1>1, Zenon DEF Give, Goto
  <2> QED BY <2>1, Zenon DEF IInv, Types, Stage
<1>2. CASE ~launching[t]
  <2>1. /\ pc' = [pc EXCEPT ![t] = "caller"]
        /\ cur' = [cur EXCEPT ![t] = None]
        /\ launching' = [launching EXCEPT ![t] = FALSE]
    BY <1>2, Zenon DEF Give, Return, Goto
  <2>2. launching' \in [Thread -> BOOLEAN]
    BY <2>1, Zenon DEF IInv, Types
  <2>3. pc' \in [Thread -> Stage] /\ cur' \in [Thread -> Cont \cup {None}]
    BY <2>1, Zenon DEF IInv, Types, Stage
  <2> QED BY <2>1, <2>2, <2>3, Zenon DEF IInv, Types
<1> QED BY <1>1, <1>2, Zenon

-----------------------------------------------------------------------------
(* launch() gets a libset.                                                 *)
LEMMA AssignGroupStep ==
  ASSUME IInv, NEW t \in Thread, NEW c \in Cont, AssignGroup(t, c) PROVE IInv'
<1> USE DEF AssignGroup, At, Goto, slots, renewal, Unclean
<1>1. PICK g \in Offered(freeGroup, nGroup) :
        group' = [group EXCEPT ![c] = g] /\ freeGroup' = Taken(freeGroup, g)
  BY Zenon
<1>2. Vacant(c) /\ cur[t] = None
  BY Zenon DEF IInv, Calls, Held, Holds, Whole, Owns
<1>3. Fields /\ Divided(group, freeGroup, nGroup) /\ nGroup <= Limit
  BY PoolsFields, Zenon DEF IInv, Pools
<1>4. /\ Divided(group', freeGroup', nGroup')
      /\ g \in 1 .. nGroup' /\ g # None
      /\ freeGroup # {} => nGroup' = nGroup
      /\ \A b \in Cont : group[b] # g
  <2>1. nGroup' = Built(freeGroup, nGroup) /\ group[c] = None
    BY <1>2, Zenon DEF Vacant
  <2> HIDE DEF AssignGroup
  <2> QED BY <1>1, <1>3, <2>1, Acquired, ZenonT(30)
<1>5. nGroup' <= Limit /\ ~Unclean(g) /\ 1 .. nGroup \subseteq 1 .. nGroup'
  <2>1. CASE freeGroup = {}
    <3>1. g = nGroup + 1 /\ nGroup' = nGroup + 1 /\ nGroup < Limit /\ nGroup \in Nat
      BY <1>3, <2>1, Zenon DEF Offered, Built, GroupAvailable, Fields
    <3>2. dirty \subseteq 1 .. nGroup
      BY Zenon DEF IInv, Libsets
    <3> HIDE DEF AssignGroup
    <3> QED BY <3>1, <3>2, ResourcesAssumption, SMTT(30)
  <2>2. CASE freeGroup # {}
    BY <1>3, <1>4, <2>2, Zenon DEF Offered, IInv, Libsets
  <2> QED BY <2>1, <2>2, Zenon
<1>6. Moves(t, c, "localstore") /\ Types'
  BY <1>1, <1>2, <1>3, Zenon DEF Moves, IInv, Types, Stage, Fields
<1>7. Pools'
  BY <1>4, <1>5, Zenon DEF IInv, Pools, TcbsBounded, StacksSuffice
<1>8. Libsets'
  BY <1>1, <1>5, Zenon DEF IInv, Libsets, Taken
<1>9. Slots'
  <2>1. /\ UNCHANGED <<missing, lost, panicked, nTls, tls>>
        /\ "localstore" \notin Installed /\ pc[t] \notin Installed
        /\ panicked => lost # {}
    BY Zenon DEF Installed, IInv, Slots
  <2> HIDE DEF AssignGroup
  <2> QED BY <1>6, <2>1, MovesSlots, Zenon
<1>10. Holds("localstore", c)'
  BY <1>1, <1>2, <1>3, <1>4, <1>5, Zenon DEF Holds, Vacant, Fields, IInv, Types
<1> HIDE DEF AssignGroup
<1> QED BY <1>6, <1>7, <1>8, <1>9, <1>10, MovesCalls, MovesHeld, Zenon DEF IInv

(* launch() gets a TCB.                                                    *)
LEMMA AllocLocalstoreStep ==
  ASSUME IInv, NEW t \in Thread, AllocLocalstore(t) PROVE IInv'
<1> USE DEF AllocLocalstore, At, Goto, slots, renewal, Unclean
<1>1. PICK c \in Cont : cur[t] = c /\ Holds("localstore", c)
  BY Current, Zenon DEF Stage
<1>2. PICK s \in Offered(freeTls, nTls) :
        tls' = [tls EXCEPT ![c] = s] /\ freeTls' = Taken(freeTls, s)
  BY <1>1, Zenon
<1>3. Fields /\ Divided(tls, freeTls, nTls) /\ Limit <= nTls /\ TcbsBounded
  BY PoolsFields, Zenon DEF IInv, Pools
<1>4. /\ Divided(tls', freeTls', nTls')
      /\ s # None
      /\ freeTls # {} => nTls' = nTls
  <2>1. nTls' = Built(freeTls, nTls) /\ tls[c] = None
    BY <1>1, Zenon DEF Holds
  <2> HIDE DEF AllocLocalstore
  <2> QED BY <1>2, <1>3, <2>1, Acquired, Zenon
<1>5. Limit <= nTls' /\ nTls' < Limit + Cardinality(Thread) /\ 1 .. nTls \subseteq 1 .. nTls'
  <2>1. CASE freeTls = {}
    <3>1. nTls' = nTls + 1 /\ nTls \in Nat
      BY <1>3, <2>1, Zenon DEF Built, Fields
    <3>2. nTls + 1 < Limit + Cardinality(Thread)
      BY <2>1, TcbRoom, Zenon
    <3> HIDE DEF AllocLocalstore
    <3> QED BY <1>3, <3>1, <3>2, ResourcesAssumption, SMTT(30)
  <2>2. CASE freeTls # {}
    BY <1>3, <1>4, <2>2, Zenon DEF TcbsBounded
  <2> QED BY <2>1, <2>2, Zenon
<1>6. Types' /\ \E p \in {"caller", "take"} : Moves(t, c, p)
  <2>1. /\ state' = [state EXCEPT ![c] = "fresh"]
        /\ UNCHANGED <<group, stack, dirty, unrenewed, panicked>>
    BY <1>1, Zenon
  <2>2. \A b \in Cont \ {c} : state'[b] = state[b] /\ tls'[b] = tls[b]
    BY <1>2, <1>3, <2>1, ZenonT(30) DEF IInv, Types, Fields
  <2>3. CASE Return(t)
    <3>1. /\ pc' = [pc EXCEPT ![t] = "caller"]
          /\ cur' = [cur EXCEPT ![t] = None]
          /\ launching' = [launching EXCEPT ![t] = FALSE]
      BY <2>3, Zenon DEF Return
    <3> HIDE DEF AllocLocalstore
    <3>2. launching' \in [Thread -> BOOLEAN]
      BY <3>1, Zenon DEF IInv, Types
    <3>3. Types'
      BY <2>1, <3>1, <3>2, Zenon DEF IInv, Types, Stage
    <3>4. Moves(t, c, "caller")
      BY <1>1, <2>1, <2>2, <3>1, Zenon DEF Moves, IInv, Types, Unclean
    <3> QED BY <3>3, <3>4, Zenon
  <2>4. CASE pc' = [pc EXCEPT ![t] = "take"] /\ UNCHANGED cur
             /\ launching' = [launching EXCEPT ![t] = TRUE]
    <3> HIDE DEF AllocLocalstore
    <3>1. launching' \in [Thread -> BOOLEAN]
      BY <2>4, Zenon DEF IInv, Types
    <3>2. Types'
      BY <2>1, <2>4, <3>1, Zenon DEF IInv, Types, Stage
    <3>3. Moves(t, c, "take")
      BY <1>1, <2>1, <2>2, <2>4, Zenon DEF Moves, IInv, Types, Unclean
    <3> QED BY <3>2, <3>3, Zenon
  <2> QED BY <2>3, <2>4, Zenon
<1>7. Pools'
  BY <1>4, <1>5, Zenon DEF IInv, Pools, TcbsBounded, StacksSuffice
<1>8. Libsets'
  BY Zenon DEF IInv, Libsets
<1>9. ASSUME NEW p \in {"caller", "take"}, Moves(t, c, p) PROVE Slots' /\ Held'
  <2>1. /\ UNCHANGED <<missing, lost, panicked>>
        /\ p \notin Installed /\ pc[t] \notin Installed
        /\ panicked => lost # {}
    BY Zenon DEF Installed, IInv, Slots
  <2>2. Holds(p, c)'
    BY <1>1, <1>2, <1>3, <1>4, Zenon DEF Holds, Whole, Owns, Fields, IInv, Types
  <2> HIDE DEF AllocLocalstore
  <2> QED BY <1>5, <1>9, <2>1, <2>2, MovesSlots, MovesHeld, Zenon
<1> HIDE DEF AllocLocalstore
<1> QED BY <1>6, <1>7, <1>8, <1>9, MovesCalls, Zenon DEF IInv

(* The caller resumes a Continuation.                                      *)
LEMMA ResumeStep ==
  ASSUME IInv, NEW t \in Thread, NEW c \in Cont, Resume(t, c) PROVE IInv'
<1> USE DEF Resume, At, Goto, slots, renewal, Unclean, fields
<1>1. Whole(c) /\ cur[t] = None
  BY Zenon DEF IInv, Calls, Held, Holds, Vacant
<1>2. Fields
  BY PoolsFields, Zenon DEF IInv
<1>3. Pools'
  BY SamePools, Zenon DEF IInv
<1>4. Moves(t, c, "take") /\ Types'
  BY <1>1, Zenon DEF Moves, IInv, Types, Stage, fields
<1>5. Libsets'
  BY Zenon DEF IInv, Libsets, pools
<1>6. Slots'
  <2>1. /\ UNCHANGED <<missing, lost, panicked, nTls>> /\ (panicked => lost # {})
        /\ "take" \in Installed <=> pc[t] \in Installed
        /\ "take" \in Installed => tls' = tls
    BY Zenon DEF Installed, IInv, Slots, pools, fields
  <2> HIDE DEF Resume
  <2> QED BY <1>4, <2>1, MovesSlots, Zenon
<1>7. Holds("take", c)'
  BY <1>1, <1>2, Zenon DEF Holds, Vacant, Whole, Owns, IInv, Types, Fields
<1> HIDE DEF Resume
<1> QED BY <1>3, <1>4, <1>5, <1>6, <1>7, MovesCalls, MovesHeld, Zenon DEF IInv

(* The caller drops a Continuation.                                        *)
LEMMA CancelStep ==
  ASSUME IInv, NEW t \in Thread, NEW c \in Cont, Cancel(t, c) PROVE IInv'
<1> USE DEF Cancel, At, Goto, slots, renewal, Unclean, fields
<1>1. Whole(c) /\ cur[t] = None
  BY Zenon DEF IInv, Calls, Held, Holds, Vacant
<1>2. Fields
  BY PoolsFields, Zenon DEF IInv
<1>3. Pools'
  BY SamePools, Zenon DEF IInv
<1>4. Moves(t, c, "drop") /\ Types'
  BY <1>1, Zenon DEF Moves, IInv, Types, Stage, fields
<1>5. Libsets'
  BY Zenon DEF IInv, Libsets, pools
<1>6. Slots'
  <2>1. /\ UNCHANGED <<missing, lost, panicked, nTls>> /\ (panicked => lost # {})
        /\ "drop" \in Installed <=> pc[t] \in Installed
        /\ "drop" \in Installed => tls' = tls
    BY Zenon DEF Installed, IInv, Slots, pools, fields
  <2> HIDE DEF Cancel
  <2> QED BY <1>4, <2>1, MovesSlots, Zenon
<1>7. Holds("drop", c)'
  BY <1>1, <1>2, Zenon DEF Holds, Vacant, Whole, Owns, IInv, Types, Fields
<1> HIDE DEF Cancel
<1> QED BY <1>3, <1>4, <1>5, <1>6, <1>7, MovesCalls, MovesHeld, Zenon DEF IInv

(* resume() takes the TCB out of its slot, or panics.                      *)
LEMMA TakeTlsStep ==
  ASSUME IInv, NEW t \in Thread, TakeTls(t) PROVE IInv'
<1> USE DEF TakeTls, At, Goto, renewal, Unclean
<1>1. PICK c \in Cont : cur[t] = c /\ Holds("take", c)
  BY Current, Zenon DEF Stage
<1>2. Pools' /\ Libsets'
  BY SamePools, Zenon DEF IInv, Libsets, pools
<1>3. tls[c] # None /\ UNCHANGED <<state, group, tls, stack, dirty, unrenewed, lost, nTls>>
  BY <1>1, Zenon DEF Holds, Whole, Owns, fields, pools
<1>4. CASE tls[c] \in missing
  <2>1. Give(t) /\ panicked' = TRUE /\ missing' = missing
    BY <1>1, <1>4, Zenon
  <2>2. Types' /\ \E p \in {"caller", "drop"} : Moves(t, c, p)
    BY <1>1, <1>3, <2>1, Gives, Zenon DEF Moves, IInv, Types
  <2>3. PICK p \in {"caller", "drop"} : Moves(t, c, p)
    BY <2>2, Zenon
  <2>4. lost # {}
    <3>1. tls[c] \notin lost => \E u \in Thread \ {t} : pc[u] \in Installed /\ tls[c] = tls[cur[u]]
      BY <1>4, Zenon DEF IInv, Slots, Installed
    <3>2. ASSUME NEW u \in Thread \ {t}, pc[u] \in Installed PROVE tls[c] # tls[cur[u]]
      <4>1. cur[u] \in Cont \ {c}
        BY <1>1, <3>2, ResourcesAssumption, Zenon DEF IInv, Types, Calls, Installed
      <4> QED BY <1>3, <4>1, PoolsFields, Zenon DEF IInv, Fields
    <3> QED BY <3>1, <3>2, Zenon
  <2>5. p \notin Installed /\ pc[t] \notin Installed
    BY Zenon DEF Installed
  <2>6. Slots'
    <3> HIDE DEF TakeTls
    <3> QED BY <1>3, <2>1, <2>3, <2>4, <2>5, MovesSlots, Zenon
  <2>7. Holds(p, c)'
    BY <1>1, <1>3, Zenon DEF Holds, Whole, Owns
  <2> HIDE DEF TakeTls
  <2> QED BY <1>2, <2>2, <2>3, <2>6, <2>7, MovesCalls, MovesHeld, Zenon DEF IInv
<1>5. CASE tls[c] \notin missing
  <2>1. /\ missing' = missing \cup {tls[c]}
        /\ pc' = [pc EXCEPT ![t] = "install"] /\ UNCHANGED <<cur, launching, panicked>>
    BY <1>1, <1>5, Zenon
  <2>2. Types' /\ Moves(t, c, "install")
    BY <1>1, <1>3, <2>1, Zenon DEF Moves, IInv, Types, Stage
  <2>3. pc[t] \notin Installed /\ "install" \in Installed
    BY Zenon DEF Installed
  <2>4. Holds("install", c)'
    BY <1>1, <1>3, Zenon DEF Holds, Whole, Owns
  <2> HIDE DEF TakeTls
  <2>5. Slots'
    BY <1>1, <1>3, <1>5, <2>1, <2>2, <2>3, SlotMoves, Zenon
  <2> QED BY <1>2, <2>2, <2>4, <2>5, MovesCalls, MovesHeld, Zenon DEF IInv
<1> QED BY <1>4, <1>5, Zenon

(* install() succeeds.                                                     *)
LEMMA InstallStep ==
  ASSUME IInv, NEW t \in Thread, Install(t) PROVE IInv'
<1> USE DEF Install, At, Goto, slots, renewal, Unclean
<1>1. PICK c \in Cont : cur[t] = c /\ Holds("install", c)
  BY Current, Zenon DEF Stage
<1>2. Pools' /\ Libsets'
  BY SamePools, Zenon DEF IInv, Libsets, pools
<1>3. PICK p \in {"stack", "switch"} :
        p = (IF state[c] = "fresh" THEN "stack" ELSE "switch") /\ pc' = [pc EXCEPT ![t] = p]
  BY <1>1, Zenon
<1>4. Types' /\ Moves(t, c, p)
  BY <1>1, <1>3, ZenonT(60) DEF Moves, IInv, Types, Stage, fields
<1>5. /\ UNCHANGED <<missing, lost, panicked, nTls, tls>> /\ (panicked => lost # {})
      /\ p \in Installed /\ pc[t] \in Installed
  BY Zenon DEF Installed, IInv, Slots, pools, fields
<1>6. Holds(p, c)'
  BY <1>1, <1>3, Zenon DEF Holds, Whole, Owns, fields
<1> HIDE DEF Install
<1>7. Slots'
  BY <1>4, <1>5, MovesSlots, Zenon
<1> QED BY <1>2, <1>4, <1>6, <1>7, MovesCalls, MovesHeld, Zenon DEF IInv

(* install() fails.                                                        *)
LEMMA InstallFailsStep ==
  ASSUME IInv, NEW t \in Thread, InstallFails(t) PROVE IInv'
<1> USE DEF InstallFails, At, renewal, Unclean
<1>1. PICK c \in Cont : cur[t] = c /\ Holds("install", c)
  BY Current, Zenon DEF Stage
<1>2. Pools' /\ Libsets'
  BY SamePools, Zenon DEF IInv, Libsets, pools
<1>3. /\ tls[c] # None /\ lost' = lost \cup {tls[c]} /\ Give(t)
      /\ UNCHANGED <<state, group, tls, dirty, unrenewed, missing, nTls, panicked>>
  BY <1>1, Zenon DEF Holds, Whole, Owns, fields, pools, ReleaseStack
<1>4. \A b \in Cont \ {c} : stack'[b] = stack[b]
  BY <1>1, PoolsFields, Zenon DEF IInv, Fields, fields, ReleaseStack
<1>5. stack' = stack
  BY <1>1, PoolsFields, Zenon DEF IInv, Fields, Holds, Whole, Owns, fields, ReleaseStack
<1>6. pc[t] \in Installed /\ panicked \in BOOLEAN
  BY Zenon DEF IInv, Types, Installed
<1> HIDE DEF InstallFails
<1>7. Types' /\ \E p \in {"caller", "drop"} : Moves(t, c, p)
  BY <1>1, <1>3, <1>4, <1>6, Gives, Zenon DEF Moves, IInv, Types, Unclean
<1>8. PICK p \in {"caller", "drop"} : Moves(t, c, p)
  BY <1>7, Zenon
<1>9. p \notin Installed
  BY Zenon DEF Installed
<1>10. Slots'
  BY <1>1, <1>3, <1>6, <1>8, <1>9, SlotMoves, Zenon
<1>11. Holds(p, c)'
  BY <1>1, <1>3, <1>5, Zenon DEF Holds, Whole, Owns, Unclean
<1> QED BY <1>2, <1>7, <1>8, <1>10, <1>11, MovesCalls, MovesHeld, Zenon DEF IInv

(* The first time slice gets a stack.                                      *)
LEMMA SetupStackStep ==
  ASSUME IInv, NEW t \in Thread, SetupStack(t) PROVE IInv'
<1> USE DEF SetupStack, At, Goto, slots, renewal, Unclean
<1>1. PICK c \in Cont : cur[t] = c /\ Holds("stack", c)
  BY Current, Zenon DEF Stage
<1>2. PICK s \in Offered(freeStack, nStack) :
        stack' = [stack EXCEPT ![c] = s] /\ freeStack' = Taken(freeStack, s)
  BY <1>1, Zenon
<1>3. Divided(stack', freeStack', nStack') /\ nStack' = nStack
  <2>1. Divided(stack, freeStack, nStack) /\ freeStack # {} /\ stack[c] = None
    BY <1>1, StackLeft, Zenon DEF IInv, Pools, Holds, Whole
  <2>2. nStack' = Built(freeStack, nStack)
    OBVIOUS
  <2> HIDE DEF SetupStack
  <2> QED BY <1>2, <2>1, <2>2, Acquired, Zenon
<1>4. Pools' /\ Libsets'
  BY <1>3, Zenon DEF IInv, Pools, TcbsBounded, StacksSuffice, Libsets
<1>5. Types' /\ Moves(t, c, "switch")
  BY <1>1, <1>2, PoolsFields, ZenonT(30) DEF Moves, IInv, Types, Stage, Fields
<1>6. /\ UNCHANGED <<missing, lost, panicked, nTls, tls>> /\ (panicked => lost # {})
      /\ "switch" \in Installed /\ pc[t] \in Installed
  BY Zenon DEF Installed, IInv, Slots
<1>7. Holds("switch", c)'
  BY <1>1, Zenon DEF Holds, Whole, Owns
<1> HIDE DEF SetupStack
<1>8. Slots'
  BY <1>5, <1>6, MovesSlots, Zenon
<1> QED BY <1>4, <1>5, <1>7, <1>8, MovesCalls, MovesHeld, Zenon DEF IInv

(* The switch of stacks fails.                                             *)
LEMMA SwitchFailsStep ==
  ASSUME IInv, NEW t \in Thread, SwitchFails(t) PROVE IInv'
<1> USE DEF SwitchFails, At, renewal, Unclean
<1>1. PICK c \in Cont : cur[t] = c /\ Holds("switch", c)
  BY Current, Zenon DEF Stage
<1>2. Pools' /\ Libsets'
  BY <1>1, StackReleased, Zenon DEF IInv, Libsets, ReleaseStack
<1>3. /\ tls[c] # None /\ lost' = lost \cup {tls[c]} /\ Give(t)
      /\ UNCHANGED <<state, group, tls, dirty, unrenewed, missing, nTls, panicked>>
  BY <1>1, Zenon DEF Holds, Whole, Owns, fields, pools, ReleaseStack
<1>4. \A b \in Cont \ {c} : stack'[b] = stack[b]
  BY <1>1, PoolsFields, Zenon DEF IInv, Fields, fields, ReleaseStack
<1>5. stack'[c] = None
  BY <1>1, PoolsFields, Zenon DEF IInv, Fields, Holds, Whole, Owns, fields, ReleaseStack
<1>6. pc[t] \in Installed /\ panicked \in BOOLEAN
  BY Zenon DEF IInv, Types, Installed
<1> HIDE DEF SwitchFails
<1>7. Types' /\ \E p \in {"caller", "drop"} : Moves(t, c, p)
  BY <1>1, <1>3, <1>4, <1>6, Gives, Zenon DEF Moves, IInv, Types, Unclean
<1>8. PICK p \in {"caller", "drop"} : Moves(t, c, p)
  BY <1>7, Zenon
<1>9. p \notin Installed
  BY Zenon DEF Installed
<1>10. Slots'
  BY <1>1, <1>3, <1>6, <1>8, <1>9, SlotMoves, Zenon
<1>11. Holds(p, c)'
  BY <1>1, <1>3, <1>5, Zenon DEF Holds, Whole, Owns, Unclean
<1> QED BY <1>2, <1>7, <1>8, <1>10, <1>11, MovesCalls, MovesHeld, Zenon DEF IInv

(* The function is entered.                                                *)
LEMMA RunStep ==
  ASSUME IInv, NEW t \in Thread, Run(t) PROVE IInv'
<1> USE DEF Run, At, Goto, slots, renewal, Unclean
<1>1. PICK c \in Cont : cur[t] = c /\ Holds("switch", c)
  BY Current, Zenon DEF Stage
<1>2. Pools' /\ Fields
  BY SamePools, PoolsFields, Zenon DEF IInv
<1>3. Libsets'
  <2>1. group[c] \in 1 .. nGroup /\ group[c] \notin freeGroup
    BY <1>1, <1>2, Zenon DEF Fields, Holds, Owns
  <2> QED BY <1>1, <2>1, Zenon DEF IInv, Libsets, pools
<1>4. Types' /\ Moves(t, c, "run")
  <2>1. \A b \in Cont \ {c} : group[b] # group[c]
    BY <1>1, <1>2, Zenon DEF Fields, Holds, Owns
  <2> QED BY <1>1, <2>1, Zenon DEF Moves, IInv, Types, Stage, fields
<1>5. /\ UNCHANGED <<missing, lost, panicked, nTls, tls>> /\ (panicked => lost # {})
      /\ "run" \in Installed /\ pc[t] \in Installed
  BY Zenon DEF Installed, IInv, Slots, pools, fields
<1>6. Holds("run", c)'
  BY <1>1, Zenon DEF Holds, Owns, fields
<1> HIDE DEF Run
<1>7. Slots'
  BY <1>4, <1>5, MovesSlots, Zenon
<1> QED BY <1>2, <1>3, <1>4, <1>6, <1>7, MovesCalls, MovesHeld, Zenon DEF IInv

(* The function is paused.                                                 *)
LEMMA PauseStep ==
  ASSUME IInv, NEW t \in Thread, Pause(t) PROVE IInv'
<1> USE DEF Pause, At, Goto, Return, renewal, Unclean
<1>1. PICK c \in Cont : cur[t] = c /\ Holds("run", c)
  BY Current, Zenon DEF Stage
<1>2. Pools' /\ Libsets'
  BY SamePools, Zenon DEF IInv, Libsets, pools
<1>3. launching' \in [Thread -> BOOLEAN]
  BY Zenon DEF IInv, Types
<1>4. Types' /\ Moves(t, c, "caller")
  BY <1>1, <1>3, Zenon DEF Moves, IInv, Types, Stage, fields
<1>5. /\ UNCHANGED <<lost, panicked, nTls, tls>> /\ missing' = missing \ {tls[c]}
      /\ tls[c] # None /\ "caller" \notin Installed /\ pc[t] \in Installed
  BY <1>1, Zenon DEF Installed, Holds, Owns, pools, fields
<1>6. Holds("caller", c)'
  BY <1>1, Zenon DEF Holds, Whole, Owns, IInv, Types, fields
<1> HIDE DEF Pause
<1>7. Slots'
  BY <1>1, <1>4, <1>5, SlotMoves, Zenon
<1> QED BY <1>2, <1>4, <1>6, <1>7, MovesCalls, MovesHeld, Zenon DEF IInv

(* The function finishes.                                                  *)
LEMMA FinishStep ==
  ASSUME IInv, NEW t \in Thread, Finish(t) PROVE IInv'
<1> USE DEF Finish, At, Goto, Ended, Unclean
<1>1. PICK c \in Cont : cur[t] = c /\ Holds("run", c)
  BY Current, Zenon DEF Stage
<1>2. Pools' /\ Libsets'
  BY <1>1, StackReleased, Zenon DEF IInv, Libsets, ReleaseStack
<1>3. Types' /\ Moves(t, c, "drop")
  BY <1>1, PoolsFields, ZenonT(30) DEF Moves, IInv, Types, Stage, Fields, ReleaseStack
<1>4. /\ UNCHANGED <<lost, panicked, nTls, tls>> /\ missing' = missing \ {tls[c]}
      /\ tls[c] # None /\ "drop" \notin Installed /\ pc[t] \in Installed
  BY <1>1, Zenon DEF Installed, Holds, Owns, ReleaseStack
<1>5. Holds("drop", c)'
  BY <1>1, PoolsFields, Zenon DEF Holds, Whole, Owns, IInv, Types, Fields, ReleaseStack
<1> HIDE DEF Finish
<1>6. Slots'
  BY <1>1, <1>3, <1>4, SlotMoves, Zenon
<1> QED BY <1>2, <1>3, <1>5, <1>6, MovesCalls, MovesHeld, Zenon DEF IInv

(* The function has run, but the mask could not be set.                    *)
LEMMA MaskFailsStep ==
  ASSUME IInv, NEW t \in Thread, MaskFails(t) PROVE IInv'
<1> USE DEF MaskFails, At
<1>1. PICK c \in Cont : cur[t] = c /\ Holds("run", c)
  BY Current, Zenon DEF Stage
<1>2. Pools'
  BY <1>1, StackReleased, Zenon DEF IInv
<1>3. /\ tls[c] # None /\ lost' = lost \cup {tls[c]} /\ Give(t) /\ Owns(c) /\ state[c] = "paused"
      /\ UNCHANGED <<state, group, tls, unrenewed, missing, nTls, panicked>>
  BY <1>1, Zenon DEF Holds, Owns, ReleaseStack
<1>4. \A b \in Cont \ {c} : stack'[b] = stack[b]
  BY <1>1, PoolsFields, Zenon DEF IInv, Fields, ReleaseStack
<1>5. Libsets' /\ \A h : Unclean(h)' => Unclean(h)
  <2>1. dirty' \in {dirty, Ended(group[c])} /\ UNCHANGED <<unrenewed, nGroup, freeGroup>>
    BY <1>1, Zenon DEF ReleaseStack
  <2> HIDE DEF MaskFails
  <2> QED BY <2>1, Zenon DEF IInv, Libsets, Unclean, Ended
<1>6. pc[t] \in Installed /\ panicked \in BOOLEAN
  BY Zenon DEF IInv, Types, Installed
<1> HIDE DEF MaskFails
<1>7. Types' /\ \E p \in {"caller", "drop"} : Moves(t, c, p)
  BY <1>1, <1>3, <1>4, <1>5, <1>6, Gives, Zenon DEF Moves, IInv, Types
<1>8. PICK p \in {"caller", "drop"} : Moves(t, c, p)
  BY <1>7, Zenon
<1>9. p \notin Installed
  BY Zenon DEF Installed
<1>10. Slots'
  BY <1>1, <1>3, <1>6, <1>8, <1>9, SlotMoves, Zenon
<1>11. Holds(p, c)'
  BY <1>1, <1>3, Zenon DEF Holds, Whole, Owns
<1> QED BY <1>2, <1>5, <1>7, <1>8, <1>10, <1>11, MovesCalls, MovesHeld, Zenon DEF IInv

(* The function has run, but its TCB could not be uninstalled.             *)
LEMMA UninstallFailsStep ==
  ASSUME IInv, NEW t \in Thread, UninstallFails(t) PROVE IInv'
<1> USE DEF UninstallFails, At
<1>1. PICK c \in Cont : cur[t] = c /\ Holds("run", c)
  BY Current, Zenon DEF Stage
<1>2. Pools'
  BY <1>1, StackReleased, SamePools, Zenon DEF IInv
<1>3. /\ tls[c] # None /\ lost' = lost \cup {tls[c]} /\ Give(t) /\ Owns(c)
      /\ UNCHANGED <<group, tls, unrenewed, missing, nTls, panicked>>
  BY <1>1, Zenon DEF Holds, Owns, ReleaseStack, pools, fields
<1>4. \A b \in Cont \ {c} : stack'[b] = stack[b]
  BY <1>1, PoolsFields, Zenon DEF IInv, Fields, ReleaseStack, fields
<1>5. /\ Libsets' /\ (\A h : Unclean(h)' => Unclean(h))
      /\ dirty' = Ended(group[c]) => ~Unclean(group[c])'
  <2>1. dirty' \in {dirty, Ended(group[c])} /\ UNCHANGED <<unrenewed, nGroup, freeGroup>>
    BY <1>1, Zenon DEF ReleaseStack, pools
  <2> HIDE DEF UninstallFails
  <2> QED BY <1>3, <2>1, Zenon DEF IInv, Libsets, Unclean, Ended
<1>6. pc[t] \in Installed /\ panicked \in BOOLEAN
  BY Zenon DEF IInv, Types, Installed
<1>12. /\ state' \in [Cont -> {"none", "fresh", "paused"}]
       /\ \A b \in Cont \ {c} : state'[b] = state[b]
       /\ \/ state'[c] = "paused"
          \/ state'[c] = "fresh" /\ stack'[c] = None /\ dirty' = Ended(group[c])
  BY <1>1, PoolsFields, ZenonT(30) DEF IInv, Types, Fields, ReleaseStack
<1> HIDE DEF UninstallFails
<1>7. Types' /\ \E p \in {"caller", "drop"} : Moves(t, c, p)
  BY <1>1, <1>3, <1>4, <1>5, <1>6, <1>12, Gives, Zenon DEF Moves
<1>8. PICK p \in {"caller", "drop"} : Moves(t, c, p)
  BY <1>7, Zenon
<1>9. p \notin Installed
  BY Zenon DEF Installed
<1>10. Slots'
  BY <1>1, <1>3, <1>6, <1>8, <1>9, SlotMoves, Zenon
<1>11. Holds(p, c)'
  <2>1. ~Unclean(group[c])' \/ state'[c] = "paused"
    BY <1>5, <1>12, Zenon
  <2>2. Whole(c)'
    BY <1>3, <1>12, <2>1, Zenon DEF Whole, Owns, Unclean
  <2> QED BY <2>2, Zenon DEF Holds
<1> QED BY <1>2, <1>5, <1>7, <1>8, <1>10, <1>11, MovesCalls, MovesHeld, Zenon DEF IInv

(* The libset of a paused function is renewed, ...                         *)
LEMMA DropStep ==
  ASSUME IInv, NEW t \in Thread, Drop(t) PROVE IInv'
<1> USE DEF Drop, At, Goto, slots, renewal, Unclean, fields
<1>1. PICK c \in Cont : cur[t] = c /\ Holds("drop", c)
  BY Current, Zenon DEF Stage
<1>2. Pools' /\ Libsets'
  BY SamePools, Zenon DEF IInv, Libsets, pools
<1>3. Types' /\ Moves(t, c, "dropStack")
  BY <1>1, PoolsFields, ZenonT(30) DEF Moves, IInv, Types, Stage, Fields
<1>4. /\ UNCHANGED <<missing, lost, panicked, nTls>> /\ (panicked => lost # {})
      /\ "dropStack" \notin Installed /\ pc[t] \notin Installed
  BY Zenon DEF Installed, IInv, Slots, pools
<1>5. Holds("dropStack", c)'
  BY <1>1, PoolsFields, Zenon DEF Holds, Vacant, Whole, Owns, IInv, Types, Fields
<1> HIDE DEF Drop
<1>6. Slots'
  BY <1>3, <1>4, MovesSlots, Zenon
<1> QED BY <1>2, <1>3, <1>5, <1>6, MovesCalls, MovesHeld, Zenon DEF IInv

(* ... or cannot be.                                                       *)
LEMMA RenewFailsStep ==
  ASSUME IInv, NEW t \in Thread, RenewFails(t) PROVE IInv'
<1> USE DEF RenewFails, At, Goto, slots, fields, Unclean
<1>1. PICK c \in Cont : cur[t] = c /\ Holds("drop", c)
  BY Current, Zenon DEF Stage
<1>2. Pools' /\ Libsets'
  BY SamePools, Zenon DEF IInv, Libsets, pools
<1>3. Types' /\ Moves(t, c, "dropStack")
  BY <1>1, PoolsFields, ZenonT(30) DEF Moves, IInv, Types, Stage, Fields
<1>4. /\ UNCHANGED <<missing, lost, panicked, nTls>> /\ (panicked => lost # {})
      /\ "dropStack" \notin Installed /\ pc[t] \notin Installed
  BY Zenon DEF Installed, IInv, Slots, pools
<1>5. Holds("dropStack", c)'
  BY <1>1, PoolsFields, Zenon DEF Holds, Vacant, Whole, Owns, IInv, Types, Fields
<1> HIDE DEF RenewFails
<1>6. Slots'
  BY <1>3, <1>4, MovesSlots, Zenon
<1> QED BY <1>2, <1>3, <1>5, <1>6, MovesCalls, MovesHeld, Zenon DEF IInv

(* The fields of the Continuation are dropped: its stack, ...              *)
LEMMA DropStatefulStep ==
  ASSUME IInv, NEW t \in Thread, DropStateful(t) PROVE IInv'
<1> USE DEF DropStateful, At, Goto, slots, renewal, Unclean, ReleaseStack
<1>1. PICK c \in Cont : cur[t] = c /\ Holds("dropStack", c)
  BY Current, Zenon DEF Stage
<1>2. Pools' /\ Libsets'
  BY <1>1, StackReleased, Zenon DEF IInv, Libsets, ReleaseStack
<1>3. Types' /\ Moves(t, c, "dropGroup")
  BY <1>1, PoolsFields, ZenonT(30) DEF Moves, IInv, Types, Stage, Fields
<1>4. /\ UNCHANGED <<missing, lost, panicked, nTls>> /\ (panicked => lost # {})
      /\ "dropGroup" \notin Installed /\ pc[t] \notin Installed
  BY Zenon DEF Installed, IInv, Slots, pools
<1>5. Holds("dropGroup", c)'
  BY <1>1, PoolsFields, Zenon DEF Holds, Vacant, Whole, Owns, IInv, Types, Fields
<1> HIDE DEF DropStateful
<1>6. Slots'
  BY <1>3, <1>4, MovesSlots, Zenon
<1> QED BY <1>2, <1>3, <1>5, <1>6, MovesCalls, MovesHeld, Zenon DEF IInv

(* ... its libset, ...                                                     *)
LEMMA DropGroupStep ==
  ASSUME IInv, NEW t \in Thread, DropGroup(t) PROVE IInv'
<1> USE DEF DropGroup, At, Goto, slots, renewal, Unclean
<1>1. PICK c \in Cont : cur[t] = c /\ Holds("dropGroup", c)
  BY Current, Zenon DEF Stage
<1>2. Pools' /\ Libsets'
  <2>1. group[c] # None /\ ~Unclean(group[c])
    BY <1>1, Zenon DEF Holds, Owns
  <2>2. Divided(group', freeGroup', nGroup')
    <3>1. /\ freeGroup' = freeGroup \cup ({group[c]} \ {None})
          /\ group' = [group EXCEPT ![c] = None] /\ nGroup' = nGroup
          /\ Divided(group, freeGroup, nGroup)
      BY <1>1, <2>1, Zenon DEF IInv, Pools
    <3> HIDE DEF DropGroup
    <3> QED BY <3>1, Released, Zenon
  <2>3. Pools'
    BY <2>2, Zenon DEF IInv, Pools, TcbsBounded, StacksSuffice
  <2> QED BY <1>1, <2>1, <2>3, Zenon DEF IInv, Libsets
<1>3. Types' /\ Moves(t, c, "dropTls")
  BY <1>1, PoolsFields, ZenonT(30) DEF Moves, IInv, Types, Stage, Fields
<1>4. /\ UNCHANGED <<missing, lost, panicked, nTls>> /\ (panicked => lost # {})
      /\ "dropTls" \notin Installed /\ pc[t] \notin Installed
  BY Zenon DEF Installed, IInv, Slots, pools
<1>5. Holds("dropTls", c)'
  BY <1>1, PoolsFields, Zenon DEF Holds, Vacant, Whole, Owns, IInv, Types, Fields
<1> HIDE DEF DropGroup
<1>6. Slots'
  BY <1>3, <1>4, MovesSlots, Zenon
<1> QED BY <1>2, <1>3, <1>5, <1>6, MovesCalls, MovesHeld, Zenon DEF IInv

(* ... and its TCB.                                                        *)
LEMMA DropTlsStep ==
  ASSUME IInv, NEW t \in Thread, DropTls(t) PROVE IInv'
<1> USE DEF DropTls, At, Goto, slots, renewal, Unclean, Return
<1>1. PICK c \in Cont : cur[t] = c /\ Holds("dropTls", c)
  BY Current, Zenon DEF Stage
<1>2. Pools' /\ Libsets'
  <2>1. tls[c] # None
    BY <1>1, Zenon DEF Holds
  <2>2. Divided(tls', freeTls', nTls')
    <3>1. /\ freeTls' = freeTls \cup ({tls[c]} \ {None})
          /\ tls' = [tls EXCEPT ![c] = None] /\ nTls' = nTls
          /\ Divided(tls, freeTls, nTls)
      BY <1>1, <2>1, Zenon DEF IInv, Pools
    <3> HIDE DEF DropTls
    <3> QED BY <3>1, Released, Zenon
  <2> QED BY <2>2, Zenon DEF IInv, Pools, TcbsBounded, StacksSuffice, Libsets
<1>7. launching' \in [Thread -> BOOLEAN]
  BY Zenon DEF IInv, Types
<1>3. Types' /\ Moves(t, c, "caller")
  BY <1>1, <1>7, PoolsFields, Zenon DEF Moves, IInv, Types, Stage, Fields
<1>4. /\ UNCHANGED <<missing, lost, panicked, nTls>> /\ (panicked => lost # {})
      /\ "caller" \notin Installed /\ pc[t] \notin Installed
  BY Zenon DEF Installed, IInv, Slots, pools
<1>5. Holds("caller", c)'
  BY <1>1, PoolsFields, Zenon DEF Holds, Vacant, Whole, Owns, IInv, Types, Fields
<1> HIDE DEF DropTls
<1>6. Slots'
  BY <1>3, <1>4, MovesSlots, Zenon
<1> QED BY <1>2, <1>3, <1>5, <1>6, MovesCalls, MovesHeld, Zenon DEF IInv

(* Every step preserves the invariant.                                     *)
LEMMA NextIInv == IInv /\ [Next]_vars => IInv'
<1> SUFFICES ASSUME IInv, [Next]_vars PROVE IInv'
  OBVIOUS
<1>1. CASE UNCHANGED vars
  <2> USE <1>1 DEF vars, pools, slots, renewal, Unclean, fields, threads
  <2>1. Types' /\ Calls' /\ Libsets'
    BY Zenon DEF IInv, Types, Calls, Libsets
  <2>2. Pools'
    BY Zenon DEF IInv, Pools, TcbsBounded, StacksSuffice
  <2>3. Slots'
    BY ZenonT(60) DEF IInv, Slots
  <2>4. Held'
    <3>1. ASSUME NEW t \in Thread, cur'[t] # None PROVE Holds(pc[t], cur[t])'
      <4>1. Holds(pc[t], cur[t])
        BY <3>1, Zenon DEF IInv, Held
      <4> QED BY <4>1, Zenon DEF Holds, Vacant, Whole, Owns
    <3>2. ASSUME NEW c \in Cont, Untouched(c)' PROVE Holds("caller", c)'
      <4>1. Holds("caller", c)
        BY <3>2, Zenon DEF IInv, Held, Untouched
      <4> QED BY <4>1, Zenon DEF Holds, Vacant, Whole, Owns
    <3> QED BY <3>1, <3>2, ZenonT(60) DEF Held
  <2> QED BY <2>1, <2>2, <2>3, <2>4, Zenon DEF IInv
<1>2. ASSUME NEW t \in Thread, NEW c \in Cont, Begin(t, c) PROVE IInv'
  BY <1>2, AssignGroupStep, ResumeStep, CancelStep, Zenon DEF Begin
<1>3. ASSUME NEW t \in Thread, Proceed(t) PROVE IInv'
  BY <1>3, AllocLocalstoreStep, TakeTlsStep, InstallStep, SetupStackStep, RunStep,
     PauseStep, FinishStep, DropStep, DropStatefulStep, DropGroupStep, DropTlsStep, Zenon
  DEF Proceed
<1>4. ASSUME NEW t \in Thread, Fail(t) PROVE IInv'
  BY <1>4, InstallFailsStep, SwitchFailsStep, MaskFailsStep, UninstallFailsStep, RenewFailsStep,
     Zenon DEF Fail
<1> QED BY <1>1, <1>2, <1>3, <1>4, Zenon DEF Next

(* The invariant holds throughout.                                         *)
THEOREM AlwaysIInv == Spec => []IInv
BY InitIInv, NextIInv, PTL DEF Spec

-----------------------------------------------------------------------------
(* The steps of a C program are steps of callers in general, but for the   *)
(* abort of the process: what is proved of Spec holds with it.             *)
LEMMA CNextNext == CNext => [Next]_vars
<1> SUFFICES ASSUME CNext PROVE [Next]_vars
  OBVIOUS
<1>1. ASSUME NEW t \in Thread, Rust(t) PROVE Next
  BY <1>1, Zenon DEF Rust, Next
<1>2. ASSUME NEW t \in Thread, WorkForC(t) PROVE Next
  BY <1>2, Zenon DEF WorkForC, Next
<1>3. ASSUME NEW t \in Thread, ErrorInC(t) PROVE [Next]_vars
  BY <1>3, Zenon DEF ErrorInC, Next, Proceed
<1>4. ASSUME NEW t \in Thread, NEW c \in C, CallFromC(t, c) PROVE Next
  BY <1>4, CAssumption, Zenon DEF CallFromC, Next
<1>5. CASE UNCHANGED cVars
  BY <1>5, Zenon DEF cVars
<1> QED BY <1>1, <1>2, <1>3, <1>4, <1>5, Zenon DEF CNext

(* The C interface uses launch(), resume() and drop as a caller in Rust    *)
(* could.                                                                  *)
THEOREM CallersInC == CSpec => Spec
<1>1. [CNext]_cVars => [Next]_vars
  BY CNextNext, Zenon DEF cVars
<1> QED BY <1>1, PTL DEF CSpec, CInit, Spec

(* A launch() gets a libset with an unfinished call in it only if renew()  *)
(* failed when the function that had it was dropped.                       *)
THEOREM LibsetsRenewed == CSpec => []Renewed
<1>1. IInv => Renewed
  <2> SUFFICES ASSUME IInv, NEW c \in Cont, state[c] = "none" PROVE ~Unclean(group[c])
    BY Zenon DEF IInv, Libsets, Renewed, Unclean
  <2>1. ~Unclean(None)
    BY PoolsFields, Zenon DEF IInv, Libsets, Fields, Unclean
  <2>2. CASE Untouched(c)
    BY <2>1, <2>2, Zenon DEF IInv, Held, Holds, Vacant, Whole, Owns
  <2>3. ASSUME NEW t \in Thread, cur[t] = c PROVE ~Unclean(group[c])
    BY <2>1, <2>3, ResourcesAssumption, Zenon
    DEF IInv, Types, Calls, Stage, Held, Holds, Whole, Owns
  <2> QED BY <2>2, <2>3, Zenon DEF Untouched
<1> QED BY <1>1, AlwaysIInv, CallersInC, PTL

(* The preallocated stacks are enough.                                     *)
THEOREM NoStackIsAdded == CSpec => []StacksSuffice
<1>1. IInv => StacksSuffice
  BY Zenon DEF IInv, Pools
<1> QED BY <1>1, AlwaysIInv, CallersInC, PTL

(* The pool of TCBs grows by less than one for each thread.                *)
THEOREM FewTcbsAreAdded == CSpec => []TcbsBounded
<1>1. IInv => TcbsBounded
  BY Zenon DEF IInv, Pools
<1> QED BY <1>1, AlwaysIInv, CallersInC, PTL

(* No two functions share a libset, a TCB slot or a stack.                 *)
THEOREM NothingIsShared == CSpec => []Separate
<1>1. IInv => Separate
  BY Zenon DEF IInv, Pools, Divided, Separate
<1> QED BY <1>1, AlwaysIInv, CallersInC, PTL

(* A TCB is missing from its slot only if installed or lost to an error.   *)
THEOREM TcbsAreAccountedFor == CSpec => []TcbsAccounted
<1>1. IInv => TcbsAccounted
  BY SMTT(30) DEF IInv, Slots, Installed, TcbsAccounted
<1> QED BY <1>1, AlwaysIInv, CallersInC, PTL

(* The types are right, and the ids are within their bounds.               *)
THEOREM TypeCorrect == CSpec => []TypeOK
<1>1. IInv => TypeOK
  <2> SUFFICES ASSUME IInv PROVE TypeOK
    OBVIOUS
  <2> DEFINE N == Limit + Cardinality(Thread)
  <2>1. /\ Limit \in Nat /\ N \in Nat /\ nGroup \in 0 .. Limit
        /\ nTls \in Limit .. N /\ nStack \in Limit .. N
    <3>1. Cardinality(Thread) \in Nat /\ Limit \in Nat
      BY ResourcesAssumption, FS_CardinalityType, Zenon
    <3>2. nGroup \in Nat /\ nTls \in Nat /\ nStack = Limit
      BY Zenon DEF IInv, Pools, Divided, StacksSuffice
    <3>3. nGroup <= Limit /\ Limit <= nTls /\ nTls < N
      BY Zenon DEF IInv, Pools, TcbsBounded
    <3> QED BY <3>1, <3>2, <3>3, SMTT(30)
  <2>2. 1 .. nGroup \subseteq 1 .. Limit /\ 1 .. nTls \subseteq Id /\ 1 .. nStack \subseteq Id
    <3> HIDE DEF N
    <3>1. Id = 1 .. N
      BY Zenon DEF Id, N
    <3> QED BY <2>1, <3>1, SMTT(30)
  <2>3. /\ freeGroup \subseteq 1 .. Limit /\ freeTls \subseteq Id /\ freeStack \subseteq Id
        /\ group \in [Cont -> (1 .. Limit) \cup {None}]
        /\ tls \in [Cont -> Id \cup {None}]
        /\ stack \in [Cont -> Id \cup {None}]
    BY <2>2, Zenon DEF IInv, Pools, Divided
  <2>4. dirty \subseteq 1 .. Limit /\ unrenewed \subseteq 1 .. Limit /\ lost \subseteq Id
    BY <2>2, Zenon DEF IInv, Libsets, Slots
  <2>5. missing \subseteq Id
    <3>1. \A t \in Thread : pc[t] \in Installed => tls[cur[t]] \in Id
      BY <2>3, ResourcesAssumption, ZenonT(30)
      DEF IInv, Types, Calls, Installed, Held, Holds, Whole, Owns
    <3> QED BY <2>4, <3>1, ZenonT(60) DEF IInv, Slots
  <2> QED BY <2>1, <2>3, <2>4, <2>5, Zenon DEF IInv, Types, Stage, TypeOK
<1> QED BY <1>1, AlwaysIInv, CallersInC, PTL

-----------------------------------------------------------------------------
(* The flag of a linger_t: right while no call is in progress, and clear   *)
(* while resume() or cancel() is.                                          *)
FlagOK ==
  /\ is_complete \in [C -> BOOLEAN \cup {None}]
  /\ \A c \in C : Untouched(c) => (is_complete[c] = FALSE <=> state[c] # "none")
  /\ \A t \in Thread :
       cur[t] \in C /\ pc[t] # "localstore" /\ ~launching[t] =>
         is_complete[cur[t]] = FALSE

(* A step of thread t concerns the Linger c only, ...                      *)
Concerns(t, c) ==
  /\ \A b \in Cont \ {c} : state'[b] = state[b]
  /\ \A u \in Thread \ {t} :
       cur'[u] = cur[u] /\ pc'[u] = pc[u] /\ launching'[u] = launching[u]

(* ... and ends the call or goes on with it.                               *)
Ends(t) == pc'[t] = "caller" /\ cur'[t] = None
GoesOn(t) ==
  /\ pc'[t] # "caller" /\ cur'[t] = cur[t]
  /\ launching'[t] \/ (launching'[t] = launching[t] /\ pc[t] # "localstore")

(* The steps of a call in progress.                                        *)
LEMMA ProceedConcerns ==
  ASSUME IInv, NEW t \in Thread, Proceed(t)
  PROVE  cur[t] \in Cont /\ Concerns(t, cur[t]) /\ (Ends(t) \/ GoesOn(t))
<1> USE DEF IInv, Types, Calls, At, Goto, Concerns, Ends, GoesOn
<1>1. CASE AllocLocalstore(t)
  BY <1>1, Zenon DEF AllocLocalstore, Return
<1>2. CASE TakeTls(t)
  BY <1>2, Zenon DEF TakeTls, Give, Return
<1>3. CASE Install(t) \/ SetupStack(t) \/ Run(t)
  BY <1>3, Zenon DEF Install, SetupStack, Run
<1>4. CASE Pause(t) \/ DropTls(t)
  BY <1>4, Zenon DEF Pause, DropTls, Return
<1>5. CASE Finish(t) \/ Drop(t) \/ DropStateful(t) \/ DropGroup(t)
  BY <1>5, Zenon DEF Finish, Drop, DropStateful, DropGroup
<1> QED BY <1>1, <1>2, <1>3, <1>4, <1>5, Zenon DEF Proceed

(* The steps that end in an error or a panic.                              *)
LEMMA FailConcerns ==
  ASSUME IInv, NEW t \in Thread, Fail(t) \/ Finish(t) \/ (Panics(t) /\ TakeTls(t))
  PROVE  /\ cur[t] \in Cont /\ pc[t] # "localstore" /\ state'[cur[t]] # "none"
         /\ Concerns(t, cur[t])
         /\ (Ends(t) /\ ~launching[t]) \/ GoesOn(t)
<1> USE DEF IInv, Types, Calls, Held, Holds, Whole, Owns, At, Goto, Concerns, Ends, GoesOn
<1>1. CASE InstallFails(t) \/ SwitchFails(t)
  BY <1>1, ZenonT(30) DEF InstallFails, SwitchFails, Give, Return
<1>6. ASSUME pc[t] = "run", cur[t] \in Cont, Give(t), state'[cur[t]] # "none",
             \A b \in Cont \ {cur[t]} : state'[b] = state[b]
      PROVE  /\ Concerns(t, cur[t])
             /\ (Ends(t) /\ ~launching[t]) \/ GoesOn(t)
  <2> HIDE DEF Held, Holds, Whole, Owns, Calls
  <2>1. CASE launching[t]
    BY <1>6, <2>1, Zenon DEF Give
  <2>2. CASE ~launching[t]
    BY <1>6, <2>2, Zenon DEF Give, Return
  <2> QED BY <2>1, <2>2
<1>2. CASE MaskFails(t)
  <2>1. pc[t] = "run" /\ Give(t) /\ state' = state /\ state[cur[t]] = "paused"
    BY <1>2, Zenon DEF MaskFails
  <2>2. cur[t] \in Cont
    BY <2>1, Zenon
  <2> HIDE DEF IInv
  <2> QED BY <2>1, <2>2, <1>6, Zenon
<1>5. CASE UninstallFails(t)
  <2>1. /\ pc[t] = "run" /\ Give(t)
        /\ \/ state' = [state EXCEPT ![cur[t]] = "paused"]
           \/ state' = [state EXCEPT ![cur[t]] = "fresh"]
    BY <1>5, Zenon DEF UninstallFails
  <2>2. cur[t] \in Cont
    BY <2>1, Zenon
  <2>3. state'[cur[t]] # "none" /\ \A b \in Cont \ {cur[t]} : state'[b] = state[b]
    BY <2>1, <2>2, Zenon
  <2> HIDE DEF IInv
  <2> QED BY <2>1, <2>2, <2>3, <1>6, Zenon
<1>3. CASE RenewFails(t) \/ Finish(t)
  BY <1>3, ZenonT(30) DEF RenewFails, Finish
<1>4. CASE Panics(t) /\ TakeTls(t)
  BY <1>4, ZenonT(30) DEF Panics, TakeTls, Give, Return
<1> QED BY <1>1, <1>2, <1>3, <1>4, <1>5, Zenon DEF Fail

(* What failures leave alone.                                              *)
LEMMA FailKeeps ==
  ASSUME NEW t \in Thread, Fail(t)
  PROVE  UNCHANGED <<group, tls, nGroup, nTls, nStack, panicked>>
BY Zenon DEF Fail, InstallFails, SwitchFails, MaskFails, UninstallFails, RenewFails,
  ReleaseStack, pools, fields

(* The first step of a call.                                               *)
LEMMA BeginConcerns ==
  ASSUME IInv, NEW t \in Thread, NEW c \in Cont, Begin(t, c)
  PROVE  /\ cur[t] = None /\ cur'[t] = c /\ state' = state /\ Untouched(c)
         /\ Concerns(t, c)
         /\ pc'[t] # "localstore" => state[c] # "none"
BY Zenon DEF IInv, Types, Calls, At, Goto, Concerns, Begin, AssignGroup, Resume, Cancel

(* Initially.                                                              *)
LEMMA InitFlag == CInit => FlagOK
BY CAssumption, ResourcesAssumption, ZenonT(30) DEF CInit, Init, FlagOK

(* Each step leaves the flag right.                                        *)
LEMMA NextFlag == IInv /\ FlagOK /\ [CNext]_cVars => FlagOK'
<1> SUFFICES ASSUME IInv, FlagOK, [CNext]_cVars PROVE FlagOK'
  OBVIOUS
<1> USE ResourcesAssumption, CAssumption
<1>1. \A t, u \in Thread : t # u /\ cur[t] # None => cur[t] # cur[u]
  BY Zenon DEF IInv, Calls
<1>2. ASSUME NEW t \in Thread, NEW c \in Cont, Begin(t, c), UNCHANGED is_complete
      PROVE  FlagOK'
  <2>1. /\ cur[t] = None /\ cur'[t] = c /\ state' = state /\ Untouched(c)
        /\ Concerns(t, c)
        /\ pc'[t] # "localstore" => state[c] # "none"
    BY <1>2, BeginConcerns, Zenon
  <2>2. \A b \in C : Untouched(b)' => Untouched(b)
    BY <2>1, SMTT(30) DEF Untouched, Concerns
  <2>3. \A b \in C : Untouched(b)' => (is_complete'[b] = FALSE <=> state'[b] # "none")
    BY <1>2, <2>1, <2>2, Zenon DEF FlagOK
  <2>4. ASSUME NEW u \in Thread, cur'[u] \in C, pc'[u] # "localstore", ~launching'[u]
        PROVE  is_complete'[cur'[u]] = FALSE
    <3>1. CASE u = t
      BY <1>2, <2>1, <2>4, <3>1, ZenonT(60) DEF FlagOK
    <3>2. CASE u # t
      BY <1>2, <2>1, <2>4, <3>2, SMTT(30) DEF FlagOK, Concerns
    <3> QED BY <3>1, <3>2, Zenon
  <2> QED BY <1>2, <2>3, <2>4, Zenon DEF FlagOK
<1>3. ASSUME NEW t \in Thread, cur[t] \in Cont, Concerns(t, cur[t]), Ends(t) \/ GoesOn(t),
             is_complete' \in [C -> BOOLEAN \cup {None}],
             \A b \in C \ {cur[t]} : is_complete'[b] = is_complete[b],
             GoesOn(t) => is_complete' = is_complete,
             cur[t] \in C /\ Ends(t) =>
               (is_complete'[cur[t]] = FALSE <=> state'[cur[t]] # "none")
      PROVE  FlagOK'
  <2>1. ASSUME NEW b \in C, Untouched(b)'
        PROVE  is_complete'[b] = FALSE <=> state'[b] # "none"
    <3>1. CASE b = cur[t]
      BY <1>3, <2>1, <3>1, Zenon DEF Untouched, GoesOn
    <3>2. CASE b # cur[t]
      <4>1. Untouched(b)
        BY <1>3, <2>1, <3>2, Zenon DEF Untouched, Concerns
      <4> QED BY <1>3, <3>2, <4>1, ZenonT(30) DEF FlagOK, Concerns
    <3> QED BY <3>1, <3>2, Zenon
  <2>2. ASSUME NEW u \in Thread, cur'[u] \in C, pc'[u] # "localstore", ~launching'[u]
        PROVE  is_complete'[cur'[u]] = FALSE
    <3>1. CASE u = t
      BY <1>3, <2>2, <3>1, Zenon DEF FlagOK, Ends, GoesOn
    <3>2. CASE u # t
      <4>1. cur'[u] = cur[u] /\ cur[u] # cur[t]
        BY <1>1, <1>3, <3>2, Zenon DEF Concerns
      <4> QED BY <1>3, <2>2, <3>2, <4>1, SMTT(30) DEF FlagOK, Concerns
    <3> QED BY <3>1, <3>2, Zenon
  <2> QED BY <1>3, <2>1, <2>2, Zenon DEF FlagOK
<1>4. ASSUME NEW t \in Thread, Rust(t) PROVE FlagOK'
  <2>1. CASE \E c \in Cont \ C : Begin(t, c)
    BY <1>2, <1>4, <2>1, Zenon DEF Rust
  <2>2. CASE cur[t] \notin C /\ (Proceed(t) \/ Fail(t))
    <3>1. cur[t] \in Cont /\ Concerns(t, cur[t]) /\ (Ends(t) \/ GoesOn(t))
      BY <2>2, ProceedConcerns, FailConcerns, Zenon
    <3> QED BY <1>3, <1>4, <2>2, <3>1, Zenon DEF Rust, FlagOK
  <2> QED BY <1>4, <2>1, <2>2, Zenon DEF Rust
<1>5. ASSUME NEW t \in Thread, WorkForC(t) PROVE FlagOK'
  <2>1. cur[t] \in C /\ Concerns(t, cur[t]) /\ (Ends(t) \/ GoesOn(t))
    BY <1>5, ProceedConcerns, Zenon DEF WorkForC
  <2>2. CASE pc'[t] = "caller"
    <3>1. is_complete' = [is_complete EXCEPT ![cur[t]] = (state'[cur[t]] = "none")]
      BY <1>5, <2>2, Zenon DEF WorkForC, Flag
    <3>2. is_complete'[cur[t]] = (state'[cur[t]] = "none")
      BY <2>1, <3>1, Zenon DEF FlagOK
    <3>3. is_complete' \in [C -> BOOLEAN \cup {None}]
      BY <2>1, <3>1, Zenon DEF FlagOK
    <3>4. \A b \in C \ {cur[t]} : is_complete'[b] = is_complete[b]
      BY <3>1, Zenon DEF FlagOK
    <3>5. ~GoesOn(t)
      BY <2>2, Zenon DEF GoesOn
    <3> QED BY <1>3, <2>1, <3>2, <3>3, <3>4, <3>5, Zenon
  <2>3. CASE pc'[t] # "caller"
    <3>1. is_complete' = is_complete /\ ~Ends(t)
      BY <1>5, <2>3, Zenon DEF WorkForC, Flag, Ends
    <3> QED BY <1>3, <2>1, <3>1, Zenon DEF FlagOK
  <2> QED BY <2>2, <2>3, Zenon
<1>6. ASSUME NEW t \in Thread, ErrorInC(t) PROVE FlagOK'
  <2>1. CASE UNCHANGED vars
    BY <1>6, <2>1, Zenon DEF ErrorInC, FlagOK, Untouched, vars, threads
  <2>2. CASE cur[t] \in C /\ (Fail(t) \/ Finish(t) \/ (Panics(t) /\ TakeTls(t)))
    <3>1. /\ pc[t] # "localstore" /\ state'[cur[t]] # "none" /\ Concerns(t, cur[t])
          /\ (Ends(t) /\ ~launching[t]) \/ GoesOn(t)
      BY <2>2, FailConcerns, Zenon
    <3>2. is_complete' = is_complete
      BY <1>6, Zenon DEF ErrorInC
    <3>3. Ends(t) => is_complete[cur[t]] = FALSE
      BY <2>2, <3>1, Zenon DEF FlagOK, Ends, GoesOn
    <3> QED BY <1>3, <2>2, <3>1, <3>2, <3>3, Zenon DEF FlagOK
  <2> QED BY <1>6, <2>1, <2>2, Zenon DEF ErrorInC
<1>7. ASSUME NEW t \in Thread, NEW c \in C, CallFromC(t, c) PROVE FlagOK'
  BY <1>2, <1>7, Zenon DEF CallFromC
<1>8. CASE UNCHANGED cVars
  BY <1>8, Zenon DEF cVars, FlagOK, Untouched, vars, threads
<1> QED BY <1>4, <1>5, <1>6, <1>7, <1>8, Zenon DEF CNext

(* The flag is right for every linger_t between calls.                     *)
THEOREM FlagIsTruthful == CSpec => []FlagTruthful
<1>1. IInv /\ FlagOK => FlagTruthful
  <2> SUFFICES ASSUME IInv, FlagOK, NEW c \in C, Untouched(c)
               PROVE  /\ is_complete[c] = TRUE => Vacant(c)
                      /\ is_complete[c] = FALSE => Owns(c)
                      /\ is_complete[c] = None => state[c] = "none"
    BY Zenon DEF FlagTruthful, Vacant, Owns
  <2>1. Vacant(c) \/ Whole(c)
    BY CAssumption, Zenon DEF IInv, Held, Holds
  <2>2. is_complete[c] = FALSE <=> state[c] # "none"
    BY Zenon DEF FlagOK
  <2>3. is_complete[c] = None => is_complete[c] # FALSE
    BY CAssumption, Zenon
  <2> QED BY <2>1, <2>2, <2>3, Zenon DEF Vacant, Whole, Owns
<1>2. CSpec => []FlagOK
  <2>1. CSpec => []IInv
    BY AlwaysIInv, CallersInC, PTL
  <2> QED BY <2>1, InitFlag, NextFlag, PTL DEF CSpec
<1> QED BY <1>1, <1>2, AlwaysIInv, CallersInC, PTL

-----------------------------------------------------------------------------
(* Each pool is an allocator whose clients are the Lingers.                *)

(* Which Linger's field holds a value.                                     *)
HolderIn(values, field) ==
  [v \in values |-> IF \E c \in Cont : field[c] = v
                      THEN CHOOSE c \in Cont : field[c] = v
                      ELSE None]

GROUPS == INSTANCE Allocator WITH
  Client <- Cont, Value <- 1 .. Limit, Nobody <- None, Lost <- None,
  made <- 1 .. nGroup, holder <- HolderIn(1 .. Limit, group)
TCBS == INSTANCE Allocator WITH
  Client <- Cont, Value <- Id, Nobody <- None, Lost <- None,
  made <- 1 .. nTls, holder <- HolderIn(Id, tls)
STACKS == INSTANCE Allocator WITH
  Client <- Cont, Value <- Id, Nobody <- None, Lost <- None,
  made <- 1 .. nStack, holder <- HolderIn(Id, stack)

(* A value has the holder that the fields say it has, ...                  *)
HolderRight(values, field) ==
  \A v \in values :
    /\ \A c \in Cont : field[c] = v => HolderIn(values, field)[v] = c
    /\ (\A c \in Cont : field[c] # v) => HolderIn(values, field)[v] = None

(* ... as no two fields hold the same one.                                 *)
LEMMA HolderIs ==
  ASSUME NEW field, NEW free, NEW n, Divided(field, free, n),
         NEW values, None \notin values
  PROVE  HolderRight(values, field)
<1>1. ASSUME NEW v \in values, NEW c \in Cont, field[c] = v
      PROVE  HolderIn(values, field)[v] = c
  <2>1. \A b \in Cont : field[b] = v => b = c
    BY <1>1, Zenon DEF Divided
  <2>2. (CHOOSE b \in Cont : field[b] = v) = c
    BY <1>1, <2>1, Zenon
  <2> QED BY <1>1, <2>2, Zenon DEF HolderIn
<1>2. ASSUME NEW v \in values, \A c \in Cont : field[c] # v
      PROVE  HolderIn(values, field)[v] = None
  BY <1>2, Zenon DEF HolderIn
<1> QED BY <1>1, <1>2, Zenon DEF HolderRight

(* Two states of the fields differ in who has value w, at most.            *)
DifferOn(w, values, field, field2) ==
  \A v \in values \ {w}, c \in Cont : field2[c] = v <=> field[c] = v

(* Then the holder of w is all that changes.                               *)
LEMMA OneHolder ==
  ASSUME NEW values, NEW field, HolderRight(values, field),
         NEW field2, HolderRight(values, field2), NEW w \in values,
         DifferOn(w, values, field, field2)
  PROVE  HolderIn(values, field2) =
           [HolderIn(values, field) EXCEPT ![w] = HolderIn(values, field2)[w]]
<1> DEFINE h == HolderIn(values, field)
           k == HolderIn(values, field2)
<1>1. ASSUME NEW v \in values \ {w} PROVE k[v] = h[v]
  <2>1. ASSUME NEW c \in Cont, field[c] = v PROVE k[v] = h[v]
    <3>1. field2[c] = v
      BY <2>1, Zenon DEF DifferOn
    <3>2. h[v] = c
      BY <2>1, Zenon DEF HolderRight
    <3>3. k[v] = c
      BY <3>1, Zenon DEF HolderRight
    <3> QED BY <3>2, <3>3, Zenon
  <2>2. ASSUME \A c \in Cont : field[c] # v PROVE k[v] = h[v]
    <3>1. h[v] = None
      BY <2>2, Zenon DEF HolderRight
    <3>2. k[v] = None
      BY <2>2, Zenon DEF HolderRight, DifferOn
    <3> QED BY <3>1, <3>2, Zenon
  <2> QED BY <2>1, <2>2, Zenon
<1>2. h = [v \in values |-> h[v]] /\ k = [v \in values |-> k[v]]
  BY Zenon DEF HolderIn
<1> HIDE DEF h, k
<1>3. k = [h EXCEPT ![w] = k[w]]
  BY <1>1, <1>2, Zenon
<1> QED BY <1>3, Zenon DEF h, k

(* Field c gets value w: a free one, or a new one if none is free.         *)
Gains(values, field, free, n, c, w) ==
  /\ HolderIn(values, [field EXCEPT ![c] = w]) = [HolderIn(values, field) EXCEPT ![w] = c]
  /\ HolderIn(values, field)[w] = None
  /\ IF free = {}
       THEN /\ w \notin 1 .. n
            /\ 1 .. Built(free, n) = (1 .. n) \cup {w}
            /\ \A v \in 1 .. n : HolderIn(values, field)[v] # None
       ELSE w \in 1 .. n /\ Built(free, n) = n

(* This is what try_into() does, ...                                       *)
LEMMA AcquiredBy ==
  ASSUME NEW field, NEW free, NEW n, Divided(field, free, n),
         NEW c \in Cont, field[c] = None, NEW w \in Offered(free, n),
         NEW values, None \notin values, 1 .. n \subseteq values, w \in values
  PROVE  Gains(values, field, free, n, c, w)
<1> DEFINE field2 == [field EXCEPT ![c] = w]
<1>1. /\ Divided(field2, Taken(free, w), Built(free, n))
      /\ \A b \in Cont : field[b] # w
  BY Acquired, Zenon
<1>2. field2[c] = w /\ \A b \in Cont \ {c} : field2[b] = field[b]
  BY Zenon DEF Divided
<1> HIDE DEF field2
<1>3. HolderRight(values, field) /\ HolderRight(values, field2)
  <2>1. HolderRight(values, field)
    BY HolderIs, Zenon
  <2>2. HolderRight(values, field2)
    BY <1>1, HolderIs, Zenon
  <2> QED BY <2>1, <2>2, Zenon
<1>4. /\ HolderIn(values, field2) = [HolderIn(values, field) EXCEPT ![w] = c]
      /\ HolderIn(values, field)[w] = None
  <2>1. HolderIn(values, field)[w] = None /\ HolderIn(values, field2)[w] = c
    BY <1>1, <1>2, <1>3, Zenon DEF HolderRight
  <2>2. DifferOn(w, values, field, field2)
    BY <1>1, <1>2, Zenon DEF DifferOn
  <2>3. HolderIn(values, field2) =
          [HolderIn(values, field) EXCEPT ![w] = HolderIn(values, field2)[w]]
    BY <1>3, <2>2, OneHolder, SMTT(30)
  <2> QED BY <2>1, <2>3, Zenon
<1>5. ASSUME free = {}
      PROVE  w \notin 1 .. n /\ 1 .. Built(free, n) = (1 .. n) \cup {w}
  BY <1>5, SMTT(30) DEF Offered, Built, Divided
<1>6. ASSUME free = {}, NEW v \in 1 .. n
      PROVE  HolderIn(values, field)[v] # None
  <2>1. PICK b \in Cont : field[b] = v
    BY <1>6, Zenon DEF Divided
  <2>2. HolderIn(values, field)[v] = b
    BY <1>3, <1>6, <2>1, Zenon DEF HolderRight
  <2> QED BY <2>2, ResourcesAssumption, Zenon
<1>7. ASSUME free # {} PROVE w \in 1 .. n /\ Built(free, n) = n
  BY <1>7, Zenon DEF Offered, Built, Divided
<1> QED BY <1>4, <1>5, <1>6, <1>7, Zenon DEF field2, Gains

(* ... and a drop takes it back.                                           *)
LEMMA ReleasedBy ==
  ASSUME NEW field, NEW free, NEW n, Divided(field, free, n),
         NEW c \in Cont, field[c] # None,
         NEW values, None \notin values, field[c] \in values
  PROVE  /\ HolderIn(values, [field EXCEPT ![c] = None]) =
              [HolderIn(values, field) EXCEPT ![field[c]] = None]
         /\ HolderIn(values, field)[field[c]] = c
         /\ field[c] \in 1 .. n
<1> DEFINE field2 == [field EXCEPT ![c] = None]
           free2 == free \cup ({field[c]} \ {None})
           w == field[c]
<1>1. Divided(field2, free2, n)
  BY Released, Zenon
<1>2. /\ field2[c] = None /\ \A b \in Cont \ {c} : field2[b] = field[b] /\ field[b] # w
      /\ w \in 1 .. n
  BY Zenon DEF Divided
<1> HIDE DEF field2, free2
<1>3. HolderRight(values, field) /\ HolderRight(values, field2)
  <2>1. HolderRight(values, field)
    BY HolderIs, Zenon
  <2>2. HolderRight(values, field2)
    BY <1>1, HolderIs, Zenon
  <2> QED BY <2>1, <2>2, Zenon
<1>4. /\ HolderIn(values, field2) = [HolderIn(values, field) EXCEPT ![w] = None]
      /\ HolderIn(values, field)[w] = c
  <2>1. HolderIn(values, field)[w] = c
    BY <1>3, Zenon DEF HolderRight
  <2>2. \A b \in Cont : field2[b] # w
    BY <1>2, Zenon
  <2>3. HolderIn(values, field2)[w] = None
    BY <1>3, <2>2, Zenon DEF HolderRight
  <2>4. DifferOn(w, values, field, field2)
    BY <1>2, Zenon DEF DifferOn
  <2>5. w \in values
    BY Zenon
  <2> HIDE DEF w
  <2>6. HolderIn(values, field2) =
          [HolderIn(values, field) EXCEPT ![w] = HolderIn(values, field2)[w]]
    BY <1>3, <2>4, <2>5, OneHolder, SMTT(30)
  <2> QED BY <2>1, <2>3, <2>6, Zenon
<1> QED BY <1>2, <1>4, Zenon DEF field2

(* assign_group() and the drop of the field group.                       *)
LEMMA GroupsStep ==
  ASSUME IInv, IInv', [Next]_vars PROVE [GROUPS!Next]_(GROUPS!vars)
<1>1. Divided(group, freeGroup, nGroup) /\ nGroup' \in Nat /\ 1 .. nGroup' \subseteq 1 .. Limit
      /\ 1 .. nGroup \subseteq 1 .. Limit /\ None \notin 1 .. Limit
  <2>1. Pools /\ Pools' /\ Limit \in Nat /\ Cardinality(Thread) \in Nat
    BY ResourcesAssumption, FS_CardinalityType, Zenon DEF IInv
  <2>2. Divided(group, freeGroup, nGroup) /\ nGroup \in Nat /\ nGroup' \in Nat
    BY <2>1, Zenon DEF Pools, Divided
  <2> QED BY <2>1, <2>2, ResourcesAssumption, SMTT(30) DEF Pools, Divided
<1>2. ASSUME NEW t \in Thread, NEW d \in Cont, AssignGroup(t, d) PROVE GROUPS!Next
  <2>1. PICK c \in Cont : c = d /\ group[c] = None
    BY <1>2, Zenon DEF AssignGroup, IInv, Held, Holds, Vacant, Whole, Owns
  <2>2. PICK v \in Offered(freeGroup, nGroup) : group' = [group EXCEPT ![c] = v]
    BY <1>2, <2>1, Zenon DEF AssignGroup
  <2>3. nGroup' = Built(freeGroup, nGroup)
    BY <1>2, Zenon DEF AssignGroup
  <2>4. v \in 1 .. Built(freeGroup, nGroup)
    BY <1>1, <2>1, Acquired, Zenon
  <2>5. v \in 1 .. Limit
    BY <1>1, <2>3, <2>4, Zenon
  <2>6. Gains(1 .. Limit, group, freeGroup, nGroup, c, v)
    BY <1>1, <2>1, <2>5, AcquiredBy, Zenon
  <2>7. GROUPS!Make(c, v) \/ GROUPS!Acquire(c, v)
    BY <2>2, <2>3, <2>6, Zenon DEF Gains, GROUPS!Make, GROUPS!Acquire
  <2> QED BY <2>5, <2>7, Zenon DEF GROUPS!Next
<1>3. ASSUME NEW c \in Cont, group[c] # None, group' = [group EXCEPT ![c] = None], nGroup' = nGroup
      PROVE  GROUPS!Next
  <2>1. group[c] \in 1 .. Limit
    BY <1>1, <1>3, Zenon DEF Divided
  <2>2. /\ HolderIn(1 .. Limit, group') = [HolderIn(1 .. Limit, group) EXCEPT ![group[c]] = None]
        /\ HolderIn(1 .. Limit, group)[group[c]] = c
        /\ group[c] \in 1 .. nGroup
    BY <1>1, <1>3, <2>1, ReleasedBy, Zenon
  <2>3. GROUPS!Release(c, group[c])
    BY <1>3, <2>2, Zenon DEF GROUPS!Release
  <2> QED BY <2>1, <2>3, Zenon DEF GROUPS!Next
<1>4. ASSUME NEW t \in Thread, DropGroup(t) PROVE GROUPS!Next
  <2>1. PICK c \in Cont : cur[t] = c /\ Holds("dropGroup", c)
    BY <1>4, Current, Zenon DEF DropGroup, At, Stage
  <2> QED BY <1>3, <1>4, <2>1, Zenon DEF DropGroup, Holds, Owns
<1>5. CASE UNCHANGED <<group, nGroup>>
  BY <1>5, Zenon DEF GROUPS!vars
<1> QED BY <1>2, <1>4, <1>5, FailKeeps, ZenonT(30)
    DEF Next, vars, pools, fields, Begin, Proceed, AssignGroup, Resume, Cancel,
        AllocLocalstore, TakeTls, Install, SetupStack, Run, Pause, Finish, Drop,
        DropStateful, DropGroup, DropTls, ReleaseStack

(* alloc_localstore() and the drop of the field tls.                     *)
LEMMA TcbsStep ==
  ASSUME IInv, IInv', [Next]_vars PROVE [TCBS!Next]_(TCBS!vars)
<1>1. Divided(tls, freeTls, nTls) /\ nTls' \in Nat /\ 1 .. nTls' \subseteq Id
      /\ 1 .. nTls \subseteq Id /\ None \notin Id
  <2>1. Pools /\ Pools' /\ Limit \in Nat /\ Cardinality(Thread) \in Nat
    BY ResourcesAssumption, FS_CardinalityType, Zenon DEF IInv
  <2>2. Divided(tls, freeTls, nTls) /\ nTls \in Nat /\ nTls' \in Nat
    BY <2>1, Zenon DEF Pools, Divided
  <2> QED BY <2>1, <2>2, ResourcesAssumption, SMTT(30) DEF Pools, Id, TcbsBounded
<1>2. ASSUME NEW t \in Thread, AllocLocalstore(t) PROVE TCBS!Next
  <2>a. PICK c \in Cont : cur[t] = c /\ Holds("localstore", c)
    BY <1>2, Current, Zenon DEF AllocLocalstore, At, Stage
  <2>1. cur[t] = c /\ tls[c] = None
    BY <2>a, Zenon DEF Holds
  <2>2. PICK v \in Offered(freeTls, nTls) : tls' = [tls EXCEPT ![c] = v]
    BY <1>2, <2>1, Zenon DEF AllocLocalstore
  <2>3. nTls' = Built(freeTls, nTls)
    BY <1>2, Zenon DEF AllocLocalstore
  <2>4. v \in 1 .. Built(freeTls, nTls)
    BY <1>1, <2>1, Acquired, Zenon
  <2>5. v \in Id
    BY <1>1, <2>3, <2>4, Zenon
  <2>6. Gains(Id, tls, freeTls, nTls, c, v)
    BY <1>1, <2>1, <2>5, AcquiredBy, Zenon
  <2>7. TCBS!Make(c, v) \/ TCBS!Acquire(c, v)
    BY <2>2, <2>3, <2>6, Zenon DEF Gains, TCBS!Make, TCBS!Acquire
  <2> QED BY <2>5, <2>7, Zenon DEF TCBS!Next
<1>3. ASSUME NEW c \in Cont, tls[c] # None, tls' = [tls EXCEPT ![c] = None], nTls' = nTls
      PROVE  TCBS!Next
  <2>1. tls[c] \in Id
    BY <1>1, <1>3, Zenon DEF Divided
  <2>2. /\ HolderIn(Id, tls') = [HolderIn(Id, tls) EXCEPT ![tls[c]] = None]
        /\ HolderIn(Id, tls)[tls[c]] = c
        /\ tls[c] \in 1 .. nTls
    BY <1>1, <1>3, <2>1, ReleasedBy, Zenon
  <2>3. TCBS!Release(c, tls[c])
    BY <1>3, <2>2, Zenon DEF TCBS!Release
  <2> QED BY <2>1, <2>3, Zenon DEF TCBS!Next
<1>4. ASSUME NEW t \in Thread, DropTls(t) PROVE TCBS!Next
  <2>1. PICK c \in Cont : cur[t] = c /\ Holds("dropTls", c)
    BY <1>4, Current, Zenon DEF DropTls, At, Stage
  <2> QED BY <1>3, <1>4, <2>1, Zenon DEF DropTls, Holds, Owns
<1>5. CASE UNCHANGED <<tls, nTls>>
  BY <1>5, Zenon DEF TCBS!vars
<1> QED BY <1>2, <1>4, <1>5, FailKeeps, ZenonT(30)
    DEF Next, vars, pools, fields, Begin, Proceed, AssignGroup, Resume, Cancel,
        AllocLocalstore, TakeTls, Install, SetupStack, Run, Pause, Finish, Drop,
        DropStateful, DropGroup, DropTls, ReleaseStack

(* setup_stack() and the drops of a context.                             *)
LEMMA StacksStep ==
  ASSUME IInv, IInv', [Next]_vars PROVE [STACKS!Next]_(STACKS!vars)
<1>1. Divided(stack, freeStack, nStack) /\ nStack' \in Nat /\ 1 .. nStack' \subseteq Id
      /\ 1 .. nStack \subseteq Id /\ None \notin Id
  <2>1. Pools /\ Pools' /\ Limit \in Nat /\ Cardinality(Thread) \in Nat
    BY ResourcesAssumption, FS_CardinalityType, Zenon DEF IInv
  <2>2. Divided(stack, freeStack, nStack) /\ nStack \in Nat /\ nStack' \in Nat
    BY <2>1, Zenon DEF Pools, Divided
  <2> QED BY <2>1, <2>2, ResourcesAssumption, SMTT(30) DEF Pools, Id, StacksSuffice
<1>2. ASSUME NEW t \in Thread, SetupStack(t) PROVE STACKS!Next
  <2>a. PICK c \in Cont : cur[t] = c /\ Holds("stack", c)
    BY <1>2, Current, Zenon DEF SetupStack, At, Stage
  <2>1. cur[t] = c /\ stack[c] = None
    BY <2>a, Zenon DEF Holds, Whole
  <2>2. PICK v \in Offered(freeStack, nStack) : stack' = [stack EXCEPT ![c] = v]
    BY <1>2, <2>1, Zenon DEF SetupStack
  <2>3. nStack' = Built(freeStack, nStack)
    BY <1>2, Zenon DEF SetupStack
  <2>4. v \in 1 .. Built(freeStack, nStack)
    BY <1>1, <2>1, Acquired, Zenon
  <2>5. v \in Id
    BY <1>1, <2>3, <2>4, Zenon
  <2>6. Gains(Id, stack, freeStack, nStack, c, v)
    BY <1>1, <2>1, <2>5, AcquiredBy, Zenon
  <2>7. STACKS!Make(c, v) \/ STACKS!Acquire(c, v)
    BY <2>2, <2>3, <2>6, Zenon DEF Gains, STACKS!Make, STACKS!Acquire
  <2> QED BY <2>5, <2>7, Zenon DEF STACKS!Next
<1>3. ASSUME NEW c \in Cont, stack[c] # None, stack' = [stack EXCEPT ![c] = None], nStack' = nStack
      PROVE  STACKS!Next
  <2>1. stack[c] \in Id
    BY <1>1, <1>3, Zenon DEF Divided
  <2>2. /\ HolderIn(Id, stack') = [HolderIn(Id, stack) EXCEPT ![stack[c]] = None]
        /\ HolderIn(Id, stack)[stack[c]] = c
        /\ stack[c] \in 1 .. nStack
    BY <1>1, <1>3, <2>1, ReleasedBy, Zenon
  <2>3. STACKS!Release(c, stack[c])
    BY <1>3, <2>2, Zenon DEF STACKS!Release
  <2> QED BY <2>1, <2>3, Zenon DEF STACKS!Next
<1>5. CASE UNCHANGED <<stack, nStack>>
  BY <1>5, Zenon DEF STACKS!vars
<1>6. ASSUME NEW c \in Cont, ReleaseStack(c) PROVE [STACKS!Next]_(STACKS!vars)
  <2>1. stack' = [stack EXCEPT ![c] = None] /\ nStack' = nStack
    BY <1>6, Zenon DEF ReleaseStack
  <2>2. CASE stack[c] = None
    <3>1. stack' = stack
      BY <1>1, <2>1, <2>2, Zenon DEF Divided
    <3> QED BY <1>5, <2>1, <3>1, Zenon
  <2> QED BY <1>3, <2>1, <2>2, Zenon
<1>4. ASSUME NEW t \in Thread, Finish(t) \/ DropStateful(t) PROVE [STACKS!Next]_(STACKS!vars)
  <2>1. PICK c \in Cont : cur[t] = c
    BY <1>4, Zenon DEF IInv, Types, Calls, Finish, DropStateful, At
  <2> QED BY <1>4, <1>6, <2>1, Zenon DEF Finish, DropStateful
<1>7. ASSUME NEW t \in Thread, Fail(t) PROVE [STACKS!Next]_(STACKS!vars)
  <2>1. PICK c \in Cont : cur[t] = c
    BY <1>7, FailConcerns, Zenon
  <2>2. ReleaseStack(c) \/ UNCHANGED <<stack, nStack>>
    BY <1>7, <2>1, Zenon
    DEF Fail, InstallFails, SwitchFails, MaskFails, UninstallFails, RenewFails, pools, fields
  <2> QED BY <1>5, <1>6, <2>2, Zenon
<1> QED BY <1>2, <1>4, <1>5, <1>7, ZenonT(30)
    DEF Next, vars, pools, fields, Begin, Proceed, AssignGroup, Resume, Cancel,
        AllocLocalstore, TakeTls, Install, SetupStack, Run, Pause, Finish, Drop,
        DropStateful, DropGroup, DropTls

(* The libsets, TCBs and stacks of Lingers are allocated from the pools as *)
(* module Allocator says: whichever functions are launched, resumed, fail, *)
(* finish and are dropped on whichever threads, a libset is built only if  *)
(* none is free, and what is built is held by one Linger or free.  The TCB *)
(* and stack pools start with Limit values (prealloc()).                   *)
THEOREM ImplementsAllocators ==
  Spec => GROUPS!Spec /\ TCBS!SpecWith(1 .. Limit) /\ STACKS!SpecWith(1 .. Limit)
<1>1. Init => GROUPS!Init /\ TCBS!InitWith(1 .. Limit) /\ STACKS!InitWith(1 .. Limit)
  <2> SUFFICES ASSUME Init
               PROVE  GROUPS!Init /\ TCBS!InitWith(1 .. Limit) /\ STACKS!InitWith(1 .. Limit)
    OBVIOUS
  <2>1. ASSUME NEW values, None \notin values
        PROVE  HolderIn(values, [c \in Cont |-> None]) = [v \in values |-> None]
    BY <2>1, Zenon DEF HolderIn
  <2>2. None \notin 1 .. Limit /\ None \notin Id /\ 1 .. 0 = {}
    BY ResourcesAssumption, FS_CardinalityType, SMTT(30) DEF Id
  <2> QED BY <2>1, <2>2, Zenon
      DEF Init, GROUPS!Init, GROUPS!InitWith, TCBS!InitWith, STACKS!InitWith
<1>2. IInv /\ IInv' /\ [Next]_vars =>
        [GROUPS!Next]_(GROUPS!vars) /\ [TCBS!Next]_(TCBS!vars) /\ [STACKS!Next]_(STACKS!vars)
  BY GroupsStep, TcbsStep, StacksStep, Zenon
<1> QED BY <1>1, <1>2, AlwaysIInv, PTL
    DEF Spec, GROUPS!Spec, TCBS!SpecWith, STACKS!SpecWith

-----------------------------------------------------------------------------
(* A function that is entered has a stack.                                 *)

(* Linger c at stage p of a call, or between calls: a paused function only *)
(* lacks its stack if its TCB is lost, too.                                *)
Kept(p, c) ==
  /\ p \in {"caller", "take", "install", "drop", "dropStack"} /\ state[c] = "paused" =>
       stack[c] # None \/ tls[c] \in lost
  /\ p \in {"switch", "run"} => stack[c] # None
StackKept ==
  /\ \A t \in Thread : cur[t] # None => Kept(pc[t], cur[t])
  /\ \A c \in Cont : Untouched(c) => Kept("caller", c)

(* Only the Linger that a step concerns has to be looked at.               *)
LEMMA KeptMoves ==
  ASSUME IInv, StackKept, NEW t \in Thread, NEW c \in Cont, Concerns(t, c),
         cur[t] = c \/ (cur[t] = None /\ Untouched(c)),
         \A b \in Cont \ {c} : tls'[b] = tls[b] /\ stack'[b] = stack[b],
         lost \subseteq lost',
         cur'[t] = c \/ (cur'[t] = None /\ pc'[t] = "caller"), Kept(pc[t], c)'
  PROVE  StackKept'
<1>1. ASSUME NEW b \in Cont \ {c}, NEW q, Kept(q, b) PROVE Kept(q, b)'
  BY <1>1, Zenon DEF Concerns, Kept
<1>2. ASSUME NEW u \in Thread, cur'[u] # None PROVE Kept(pc[u], cur[u])'
  <2>1. CASE u = t
    BY <1>2, <2>1, Zenon DEF Kept
  <2>2. CASE u # t
    <3>1. pc'[u] = pc[u] /\ cur'[u] = cur[u]
      BY <2>2, Zenon DEF Concerns
    <3>2. PICK b \in Cont, q \in Stage : b = cur[u] /\ q = pc[u]
      BY <1>2, <3>1, Zenon DEF IInv, Types
    <3>3. b \in Cont \ {c} /\ Kept(q, b)
      BY <1>2, <2>2, <3>1, <3>2, ZenonT(30) DEF IInv, Calls, StackKept, Untouched
    <3>4. Kept(q, b)'
      BY <1>1, <3>3, Zenon
    <3> QED BY <3>1, <3>2, <3>4, Zenon DEF Kept
  <2> QED BY <2>1, <2>2, Zenon
<1>3. ASSUME NEW b \in Cont, Untouched(b)' PROVE Kept("caller", b)'
  <2>1. CASE b = c
    BY <1>3, <2>1, Zenon DEF Untouched, Kept
  <2>2. CASE b # c
    <3>1. Untouched(b)
      BY <1>3, <2>2, ResourcesAssumption, Zenon DEF Concerns, Untouched
    <3> QED BY <1>1, <2>2, <3>1, Zenon DEF StackKept
  <2> QED BY <2>1, <2>2, Zenon
<1> QED BY <1>2, <1>3, Zenon DEF StackKept

(* The steps of a call in progress.                                        *)
LEMMA ProceedKept ==
  ASSUME IInv, IInv', StackKept, NEW t \in Thread, Proceed(t) \/ Fail(t)
  PROVE  StackKept'
<1> USE DEF At, Goto
<1>1. PICK c \in Cont : cur[t] = c
  BY ProceedConcerns, FailConcerns, Zenon
<1>2. /\ Concerns(t, c)
      /\ \/ pc'[t] = "caller" /\ cur'[t] = None
         \/ pc'[t] # "caller" /\ cur'[t] = c
  BY <1>1, ProceedConcerns, FailConcerns, Zenon DEF Ends, GoesOn
<1>3. Fields /\ Kept(pc[t], c) /\ Holds(pc[t], c)
  BY <1>1, PoolsFields, ResourcesAssumption, Zenon DEF IInv, StackKept, Held
<1>4. ASSUME UNCHANGED <<stack, lost>>,
             \A b \in Cont \ {c} : tls'[b] = tls[b],
             Kept(pc[t], c)'
      PROVE  StackKept'
  BY <1>1, <1>2, <1>4, KeptMoves, Zenon
<1>5. CASE AllocLocalstore(t)
  <2>1. /\ state'[c] = "fresh" /\ UNCHANGED <<stack, lost>>
        /\ pc'[t] \in {"caller", "take"}
    BY <1>1, <1>5, Zenon DEF AllocLocalstore, Return, slots, IInv, Types
  <2>3. \A b \in Cont \ {c} : tls'[b] = tls[b]
    BY <1>1, <1>3, <1>5, Zenon DEF AllocLocalstore, Fields
  <2>2. Kept(pc[t], c)'
    BY <2>1, Zenon DEF Kept
  <2> QED BY <1>4, <2>1, <2>2, <2>3, Zenon
<1>6. CASE TakeTls(t)
  <2>1. /\ pc[t] = "take" /\ UNCHANGED <<state, stack, tls, lost>>
        /\ pc'[t] \in {"caller", "drop", "install"}
    BY <1>6, Zenon DEF TakeTls, Give, Return, fields, IInv, Types
  <2>2. Kept(pc[t], c)'
    BY <1>3, <2>1, Zenon DEF Kept
  <2> QED BY <1>4, <2>1, <2>2, Zenon
<1>7. CASE Install(t)
  <2>1. /\ pc[t] = "install" /\ UNCHANGED <<state, stack, tls, lost>>
        /\ pc'[t] = IF state[c] = "fresh" THEN "stack" ELSE "switch"
    BY <1>1, <1>7, Zenon DEF Install, fields, slots, IInv, Types
  <2>2. tls[c] \notin lost /\ state[c] \in {"fresh", "paused"}
    BY <1>1, <1>3, <2>1, Zenon DEF IInv, Types, Slots, Installed, Holds, Whole, Owns
  <2>3. Kept(pc[t], c)'
    BY <1>3, <2>1, <2>2, Zenon DEF Kept
  <2> QED BY <1>4, <2>1, <2>3, Zenon
<1>8. CASE SetupStack(t)
  <2>1. /\ UNCHANGED <<state, tls, lost>> /\ pc'[t] = "switch"
        /\ \A b \in Cont \ {c} : stack'[b] = stack[b]
    BY <1>1, <1>3, <1>8, Zenon DEF SetupStack, slots, IInv, Types, Fields
  <2>2. stack'[c] # None
    <3>1. PICK s \in Offered(freeStack, nStack) : stack' = [stack EXCEPT ![c] = s]
      BY <1>1, <1>8, Zenon DEF SetupStack
    <3>2. stack[c] = None /\ Divided(stack, freeStack, nStack)
      BY <1>3, <1>8, Zenon DEF SetupStack, Holds, Whole, IInv, Pools
    <3>3. s # None
      BY <3>2, Acquired, Zenon
    <3> QED BY <1>3, <3>1, <3>3, Zenon DEF Fields
  <2>3. Kept(pc[t], c)'
    BY <2>1, <2>2, Zenon DEF Kept
  <2> QED BY <1>1, <1>2, <2>1, <2>3, KeptMoves, Zenon
<1>9. CASE Run(t) \/ Pause(t)
  <2>1. /\ pc[t] \in {"switch", "run"} /\ UNCHANGED <<stack, tls, lost>>
        /\ pc'[t] \in {"run", "caller"}
    BY <1>9, Zenon DEF Run, Pause, Return, fields, slots, IInv, Types
  <2>2. Kept(pc[t], c)'
    BY <1>3, <2>1, Zenon DEF Kept
  <2> QED BY <1>4, <2>1, <2>2, Zenon
<1>10. CASE Drop(t) \/ RenewFails(t)
  <2>1. /\ pc[t] = "drop" /\ UNCHANGED <<state, stack, tls, lost>>
        /\ pc'[t] = "dropStack"
    BY <1>10, Zenon DEF Drop, RenewFails, fields, slots, IInv, Types
  <2>2. Kept(pc[t], c)'
    BY <1>3, <2>1, Zenon DEF Kept
  <2> QED BY <1>4, <2>1, <2>2, Zenon
<1>11. CASE Finish(t) \/ DropStateful(t)
  <2>1. /\ UNCHANGED <<tls, lost>>
        /\ \/ pc'[t] = "drop" /\ state'[c] = "fresh"
           \/ pc'[t] = "dropGroup"
        /\ \A b \in Cont \ {c} : stack'[b] = stack[b]
    <3>1. CASE Finish(t)
      BY <1>1, <1>3, <3>1, Zenon DEF Finish, ReleaseStack, slots, IInv, Types, Fields
    <3>2. CASE DropStateful(t)
      BY <1>1, <1>3, <3>2, Zenon DEF DropStateful, ReleaseStack, slots, IInv, Types, Fields
    <3> QED BY <1>11, <3>1, <3>2, Zenon
  <2>2. Kept(pc[t], c)'
    BY <2>1, Zenon DEF Kept
  <2> QED BY <1>1, <1>2, <2>1, <2>2, KeptMoves, Zenon
<1>12. CASE DropGroup(t) \/ DropTls(t)
  <2>1. /\ UNCHANGED <<stack, lost>>
        /\ \/ pc'[t] = "dropTls"
           \/ pc'[t] = "caller" /\ state'[c] = "none"
        /\ \A b \in Cont \ {c} : tls'[b] = tls[b]
    <3>1. CASE DropGroup(t)
      BY <3>1, Zenon DEF DropGroup, slots, IInv, Types
    <3>2. CASE DropTls(t)
      BY <1>1, <1>3, <3>2, Zenon DEF DropTls, Return, slots, IInv, Types, Fields
    <3> QED BY <1>12, <3>1, <3>2, Zenon
  <2>2. Kept(pc[t], c)'
    BY <2>1, Zenon DEF Kept
  <2> QED BY <1>4, <2>1, <2>2, Zenon
<1>13. CASE Fail(t) /\ ~RenewFails(t)
  <2>1. tls' = tls /\ lost' = lost \cup {tls[c]} /\ pc'[t] \in {"caller", "drop"}
    BY <1>1, <1>13, FailKeeps, Zenon
    DEF Fail, InstallFails, SwitchFails, MaskFails, UninstallFails, Give, Return, IInv, Types
  <2>3. \A b \in Cont \ {c} : stack'[b] = stack[b]
    <3>1. ReleaseStack(c) \/ UNCHANGED stack
      BY <1>1, <1>13, Zenon
      DEF Fail, InstallFails, SwitchFails, MaskFails, UninstallFails, fields
    <3> QED BY <1>3, <3>1, Zenon DEF ReleaseStack, Fields
  <2>2. Kept(pc[t], c)'
    BY <2>1, Zenon DEF Kept
  <2> QED BY <1>1, <1>2, <2>1, <2>2, <2>3, KeptMoves, Zenon
<1> QED BY <1>5, <1>6, <1>7, <1>8, <1>9, <1>10, <1>11, <1>12, <1>13, Zenon DEF Proceed

(* Every step preserves StackKept.                                         *)
LEMMA NextKept == IInv /\ IInv' /\ StackKept /\ [Next]_vars => StackKept'
<1> SUFFICES ASSUME IInv, IInv', StackKept, [Next]_vars PROVE StackKept'
  OBVIOUS
<1>1. ASSUME NEW t \in Thread, NEW c \in Cont, Begin(t, c) PROVE StackKept'
  <2>1. /\ cur[t] = None /\ cur'[t] = c /\ Untouched(c) /\ Concerns(t, c) /\ state' = state
    BY <1>1, BeginConcerns, Zenon
  <2>2. /\ UNCHANGED <<stack, tls, lost>>
        /\ pc'[t] \in {"localstore", "take", "drop"}
    BY <1>1, Zenon DEF Begin, AssignGroup, Resume, Cancel, Goto, fields, slots, IInv, Types
  <2>3. Kept("caller", c)
    BY <2>1, Zenon DEF StackKept
  <2>4. Kept(pc[t], c)'
    BY <2>1, <2>2, <2>3, Zenon DEF Kept
  <2> QED BY <2>1, <2>2, <2>4, KeptMoves, Zenon
<1>2. ASSUME NEW t \in Thread, Proceed(t) \/ Fail(t) PROVE StackKept'
  BY <1>2, ProceedKept, Zenon
<1>3. CASE UNCHANGED vars
  <2> USE <1>3 DEF vars, slots, renewal, Unclean, fields, threads
  <2>1. ASSUME NEW t \in Thread, cur'[t] # None PROVE Kept(pc[t], cur[t])'
    <3>1. Kept(pc[t], cur[t])
      BY <2>1, Zenon DEF StackKept
    <3> QED BY <3>1, Zenon DEF Kept
  <2>2. ASSUME NEW c \in Cont, Untouched(c)' PROVE Kept("caller", c)'
    <3>1. Kept("caller", c)
      BY <2>2, Zenon DEF StackKept, Untouched
    <3> QED BY <3>1, Zenon DEF Kept
  <2> QED BY <2>1, <2>2, Zenon DEF StackKept
<1> QED BY <1>1, <1>2, <1>3, Zenon DEF Next

(* Functions that run do so on stacks of their own; and a paused function  *)
(* has its stack, unless an error return of resume() has dropped that with *)
(* the TCB, whose absence the next resume() notices before it switches.    *)
OwnStack ==
  /\ \A t \in Thread : pc[t] \in {"switch", "run"} =>
       /\ stack[cur[t]] # None /\ stack[cur[t]] \notin freeStack
       /\ \A u \in Thread \ {t} : pc[u] \in {"switch", "run"} =>
            stack[cur[u]] # stack[cur[t]]
  /\ \A c \in Cont : state[c] = "paused" /\ Untouched(c) =>
       stack[c] # None \/ tls[c] \in missing

(* switch_stack() never enters a function that has lost its stack, however *)
(* often resume() has failed, and never one whose stack is free or is used *)
(* by another thread.                                                      *)
THEOREM RunsOnOwnStack == Spec => []OwnStack
<1>1. Init => StackKept
  BY Zenon DEF Init, StackKept, Kept
<1>2. Spec => []StackKept
  BY <1>1, NextKept, AlwaysIInv, PTL DEF Spec
<1>3. IInv /\ StackKept => OwnStack
  <2> SUFFICES ASSUME IInv, StackKept PROVE OwnStack
    OBVIOUS
  <2>1. ASSUME NEW t \in Thread, pc[t] \in {"switch", "run"}
        PROVE  /\ cur[t] \in Cont /\ stack[cur[t]] # None
               /\ stack[cur[t]] \notin freeStack
    <3>1. cur[t] \in Cont
      BY <2>1, Zenon DEF IInv, Types, Calls
    <3>2. stack[cur[t]] # None
      BY <2>1, <3>1, ResourcesAssumption, Zenon DEF StackKept, Kept
    <3> QED BY <3>1, <3>2, Zenon DEF IInv, Pools, Divided
  <2>2. ASSUME NEW t \in Thread, NEW u \in Thread \ {t},
               pc[t] \in {"switch", "run"}, pc[u] \in {"switch", "run"}
        PROVE  stack[cur[u]] # stack[cur[t]]
    <3>1. cur[t] \in Cont /\ cur[u] \in Cont /\ stack[cur[t]] # None
      BY <2>1, <2>2, Zenon
    <3>2. cur[u] # cur[t]
      BY <2>2, <3>1, ResourcesAssumption, Zenon DEF IInv, Calls
    <3> QED BY <3>1, <3>2, Zenon DEF IInv, Pools, Divided
  <2>3. ASSUME NEW c \in Cont, state[c] = "paused", Untouched(c)
        PROVE  stack[c] # None \/ tls[c] \in missing
    <3>1. Kept("caller", c)
      BY <2>3, Zenon DEF StackKept
    <3> QED BY <2>3, <3>1, Zenon DEF Kept, IInv, Slots
  <2> QED BY <2>1, <2>2, <2>3, Zenon DEF OwnStack
<1> QED BY <1>2, <1>3, AlwaysIInv, PTL

-----------------------------------------------------------------------------
(* Programs in C only.                                                     *)

(* While the process has not aborted, no TCB has been lost.                *)
NoneLost == (~aborted => lost = {}) /\ ~panicked

(* resume() only misses a TCB that has been lost: no other thread can have *)
(* installed it.                                                           *)
LEMMA PanicsLost ==
  ASSUME IInv, NEW t \in Thread, Panics(t) PROVE lost # {}
<1> SUFFICES ASSUME lost = {} PROVE FALSE
  OBVIOUS
<1>1. PICK c \in Cont : cur[t] = c /\ Holds("take", c)
  BY Current, Zenon DEF Panics, At, Stage
<1>2. PICK u \in Thread : pc[u] \in Installed /\ tls[c] = tls[cur[u]]
  BY <1>1, Zenon DEF Panics, IInv, Slots
<1>3. pc[t] = "take" /\ u # t /\ tls[c] # None
  BY <1>1, <1>2, Zenon DEF Panics, At, Installed, Holds, Whole, Owns
<1>4. cur[u] \in Cont /\ cur[u] # c
  BY <1>1, <1>2, <1>3, ResourcesAssumption, Zenon DEF IInv, Types, Calls, Installed
<1>5. Fields
  BY PoolsFields, Zenon DEF IInv
<1> QED BY <1>2, <1>3, <1>4, <1>5, Zenon DEF Fields

(* Every step of a C program preserves this.                               *)
LEMMA NextNoneLost ==
  ASSUME C = Cont PROVE IInv /\ NoneLost /\ [CNext]_cVars => NoneLost'
<1> SUFFICES ASSUME IInv, NoneLost, [CNext]_cVars PROVE NoneLost'
  OBVIOUS
<1>1. ASSUME NEW t \in Thread, NEW c \in Cont, Begin(t, c) PROVE UNCHANGED <<lost, panicked>>
  BY <1>1, Zenon DEF Begin, AssignGroup, Resume, Cancel, slots
<1>2. ASSUME NEW t \in Thread, Proceed(t), ~Panics(t) PROVE UNCHANGED <<lost, panicked>>
  BY <1>2, Zenon
  DEF Proceed, Panics, AllocLocalstore, TakeTls, Install, SetupStack, Run, Pause, Finish,
      Drop, DropStateful, DropGroup, DropTls, slots
<1>3. ASSUME ~aborted, NEW t \in Thread, Rust(t) PROVE NoneLost'
  <2>1. ASSUME Proceed(t) \/ Fail(t) PROVE cur[t] \in C
    BY <2>1, ProceedConcerns, FailConcerns, Zenon
  <2> QED BY <1>3, <2>1, Zenon DEF Rust
<1>4. ASSUME ~aborted, NEW t \in Thread, WorkForC(t) PROVE NoneLost'
  BY <1>2, <1>4, Zenon DEF WorkForC, NoneLost
<1>5. ASSUME ~aborted, NEW t \in Thread, ErrorInC(t) PROVE NoneLost'
  <2>1. aborted' = TRUE /\ ~Panics(t)
    BY <1>5, PanicsLost, Zenon DEF ErrorInC, NoneLost
  <2>2. panicked' = panicked
    BY <1>5, <2>1, FailKeeps, Zenon DEF ErrorInC, Finish, vars
  <2> QED BY <2>1, <2>2, Zenon DEF NoneLost
<1>6. ASSUME ~aborted, NEW t \in Thread, NEW c \in C, CallFromC(t, c) PROVE NoneLost'
  BY <1>1, <1>6, Zenon DEF CallFromC, NoneLost
<1>7. CASE UNCHANGED cVars
  BY <1>7, Zenon DEF cVars, vars, slots, NoneLost
<1> QED BY <1>3, <1>4, <1>5, <1>6, <1>7, Zenon DEF CNext

(* If every Linger is that of a linger_t, resume()'s expect() never finds  *)
(* the TCB missing: a call that would lose one aborts the process instead. *)
(* It takes a caller in Rust, who keeps a Linger whose resume() has        *)
(* returned an error, to get there.                                        *)
THEOREM TcbPresentInC == ASSUME C = Cont PROVE CSpec => []TcbPresent
<1>1. CInit => NoneLost
  BY Zenon DEF CInit, Init, NoneLost
<1>2. NoneLost => TcbPresent
  BY Zenon DEF NoneLost, TcbPresent
<1>3. CSpec => []IInv
  BY AlwaysIInv, CallersInC, PTL
<1> QED BY <1>1, <1>2, <1>3, NextNoneLost, PTL DEF CSpec
=============================================================================
