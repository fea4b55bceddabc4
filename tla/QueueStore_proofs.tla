------------------------- MODULE QueueStore_proofs --------------------------
(***************************************************************************)
(* The in-memory queue store for every set of messages, every capacity,    *)
(* overflow policy and size of a claim: its slots are accounted for, it    *)
(* claims in FIFO order, and it implements the contract of ChannelStore.   *)
(*                                                                         *)
(* The invariant says where a message is. Each is in one place (OnePlace), *)
(* a lease has an epoch of its own (OwnEpoch), what was never claimed is   *)
(* due and in the order of its Enqueue (InLine).                           *)
(***************************************************************************)
EXTENDS QueueStore, FiniteSetTheorems, TLAPS

Entries == [msg : Msgs, due : BOOLEAN]

Appending == {m \in Msgs : call[m] = "append"}

Buffered(m) == \E p \in DOMAIN ready : ready[p].msg = m
IsLeased(m) == \E l \in inflight : l.msg = m

(* A message that was let in and not settled is in the FIFO or leased,     *)
(* once; any other is in neither.                                          *)
OnePlace ==
  /\ \A p, q \in DOMAIN ready : ready[p].msg = ready[q].msg => p = q
  /\ \A k, l \in inflight : k.msg = l.msg => k = l
  /\ \A m \in Msgs : ~(Buffered(m) /\ IsLeased(m))
  /\ \A m \in Msgs : Buffered(m) \/ IsLeased(m) <=> call[m] = "in" /\ settled[m] = "no"
  /\ \A m \in Msgs : settled[m] # "no" => call[m] = "in"

(* The leases of one epoch are one lease, and later ones have later epochs.*)
OwnEpoch ==
  /\ \A k, l \in inflight : k.epoch = l.epoch => k = l
  /\ \A l \in inflight : l.epoch <= epoch

(* order has every message that was appended, once. *)
Appended ==
  /\ \A i, j \in DOMAIN order : order[i] = order[j] => i = j
  /\ \A m \in Msgs : (\E i \in DOMAIN order : order[i] = m) <=> call[m] \in {"in", "evicted"}

(* A lease, a settle and a delay come after a claim, which comes after the *)
(* append.                                                                 *)
ClaimedFirst ==
  /\ \A l \in inflight : l.msg \in claimed
  /\ \A p \in DOMAIN ready : ~ready[p].due => ready[p].msg \in claimed
  /\ \A m \in Msgs : settled[m] # "no" => m \in claimed
  /\ \A m \in claimed : call[m] \in {"in", "evicted"}

(* What was never claimed is buffered in the order of its Enqueue. *)
InLine ==
  \A i, j \in DOMAIN order : \A p, q \in DOMAIN ready :
    /\ i < j /\ order[i] = ready[p].msg /\ order[j] = ready[q].msg
    /\ order[i] \notin claimed /\ order[j] \notin claimed
    => p < q

Counted ==
  /\ IsFiniteSet(inflight) /\ IsFiniteSet(Appending)
  /\ sem = Len(ready) + Cardinality(inflight) + releasing + Cardinality(Appending)

IndInv == /\ TypeOK /\ Counted /\ OnePlace /\ OwnEpoch /\ Appended /\ ClaimedFirst /\ InLine /\ FIFO

-----------------------------------------------------------------------------
(* Sets of positions.                                                      *)

Ascending(f, n) == \A k, l \in 1..n : k < l => f[k] < f[l]

(* The positions and the entries of a sequence. *)
LEMMA SeqElements ==
  ASSUME NEW R, NEW s \in Seq(R)
  PROVE  Len(s) \in Nat /\ DOMAIN s = 1..Len(s) /\ \A p \in DOMAIN s : s[p] \in R
  OBVIOUS

(* A function on the first n positions is a sequence of length n. *)
LEMMA SeqOf ==
  ASSUME NEW R, NEW n \in Nat, NEW s \in [1..n -> R]
  PROVE  s \in Seq(R) /\ Len(s) = n /\ DOMAIN s = 1..n
  OBVIOUS

(* A set of positions of the FIFO is finite. *)
LEMMA FinitePositions ==
  ASSUME NEW n \in Nat, NEW S \in SUBSET (1..n)
  PROVE  IsFiniteSet(S) /\ Cardinality(S) \in Nat
<1>1. IsFiniteSet(1..n)
  BY FS_Interval
<1>2. IsFiniteSet(S)
  BY <1>1, FS_Subset, Zenon
<1> QED
  BY <1>2, FS_CardinalityType

(* The positions that a claim leaves, counted. *)
LEMMA CountTheRest ==
  ASSUME NEW n \in Nat, NEW S \in SUBSET (1..n)
  PROVE  Cardinality((1..n) \ S) = n - Cardinality(S)
<1>1. IsFiniteSet(1..n) /\ Cardinality(1..n) = n
  BY FS_Interval
<1>2. (1..n) \cap S = S
  BY Zenon
<1>3. Cardinality((1..n) \ S) = Cardinality(1..n) - Cardinality((1..n) \cap S)
  BY <1>1, FS_Difference, Zenon
<1> QED
  BY <1>1, <1>2, <1>3, Zenon

(* The positions up to n can be put in order: by induction on n, as the    *)
(* least n without it. *)
LEMMA Orderable ==
  ASSUME NEW n \in Nat, NEW S \in SUBSET (1..n)
  PROVE  \E f \in [1..Cardinality(S) -> S] : Ascending(f, Cardinality(S))
<1> DEFINE Good(T) == \E f \in [1..Cardinality(T) -> T] : Ascending(f, Cardinality(T))
           Bad == {m \in Nat : \E T \in SUBSET (1..m) : ~Good(T)}
           R == OpToRel(<, Nat)
<1> SUFFICES Bad = {}
  BY Zenon
<1> SUFFICES ASSUME Bad # {} PROVE FALSE
  BY Zenon
<1>1. IsWellFoundedOn(R, Nat)
  BY NatLessThanWellFounded, Zenon
<1>2. PICK m \in Bad : \A k \in Bad : <<k, m>> \notin R
  <2> HIDE DEF R
  <2>1. Bad \subseteq Nat
    BY Zenon
  <2> HIDE DEF Bad
  <2> QED
    BY <1>1, <2>1, WFMin, Zenon
<1>3. m \in Nat /\ \A k \in Nat : k < m => k \notin Bad
  <2> HIDE DEF Good
  <2> QED
    BY <1>2, Zenon DEF OpToRel
<1>4. PICK T \in SUBSET (1..m) : ~Good(T)
  BY <1>2, Zenon
<1> HIDE DEF Bad
<1>5. IsFiniteSet(T) /\ Cardinality(T) \in Nat
  BY <1>3, FinitePositions, Zenon
<1>6. m # 0
  <2>1. SUFFICES ASSUME m = 0 PROVE Good(T)
    BY <1>4
  <2>2. T = {}
    BY <2>1
  <2>3. <<>> \in [1..0 -> {}] /\ Ascending(<<>>, 0)
    BY DEF Ascending
  <2> QED
    BY <2>2, <2>3, FS_EmptySet, Zenon
<1>7. m - 1 \in Nat /\ \A U \in SUBSET (1..(m - 1)) : Good(U)
  <2>1. m - 1 \in Nat /\ m - 1 \notin Bad
    BY <1>3, <1>6
  <2> HIDE DEF Good
  <2> QED
    BY <2>1 DEF Bad
<1>8. CASE m \notin T
  <2>1. T \in SUBSET (1..(m - 1))
    BY <1>3, <1>6, <1>8
  <2> QED
    BY <1>4, <1>7, <2>1
<1>9. CASE m \in T
  <2> DEFINE U == T \ {m}
             c == Cardinality(U)
  <2>1. U \in SUBSET (1..(m - 1))
    BY <1>3, <1>6
  <2>2. c \in Nat /\ Cardinality(T) = c + 1
    <3>1. IsFiniteSet(U) /\ c = Cardinality(T) - 1
      BY <1>5, <1>9, FS_RemoveElement
    <3>2. c \in Nat
      BY <3>1, FS_CardinalityType
    <3> QED
      BY <1>5, <3>1, <3>2
  <2>3. PICK f \in [1..c -> U] : Ascending(f, c)
    BY <1>7, <2>1, Zenon
  <2> DEFINE g == [k \in 1..(c + 1) |-> IF k = c + 1 THEN m ELSE f[k]]
  <2> HIDE DEF c
  <2>4. g \in [1..(c + 1) -> T]
    BY <1>9, <2>2, <2>3
  <2>5. \A k \in 1..c : g[k] = f[k] /\ f[k] < m /\ f[k] \in Nat
    <3>1. \A k \in 1..c : k \in 1..(c + 1) /\ k # c + 1
      BY <2>2
    <3>2. \A k \in 1..c : f[k] \in 1..(m - 1)
      BY <2>1, <2>3
    <3> QED
      BY <1>3, <3>1, <3>2
  <2>6. Ascending(g, c + 1)
    <3>1. g[c + 1] = m /\ \A k, l \in 1..(c + 1) : k < l => k \in 1..c /\ (l = c + 1 \/ l \in 1..c)
      BY <2>2
    <3> QED
      BY <2>2, <2>3, <2>5, <3>1 DEF Ascending
  <2> HIDE DEF g
  <2> QED
    BY <1>4, <2>2, <2>4, <2>6
<1> QED
  BY <1>8, <1>9

(* InOrder lists a set of positions completely, in ascending order. *)
LEMMA InOrderLists ==
  ASSUME NEW n \in Nat, NEW S \in SUBSET (1..n)
  PROVE  /\ IsFiniteSet(S) /\ Cardinality(S) \in Nat
         /\ InOrder(S) \in [1..Cardinality(S) -> S]
         /\ Ascending(InOrder(S), Cardinality(S))
         /\ \A s \in S : \E k \in 1..Cardinality(S) : InOrder(S)[k] = s
<1> DEFINE c == Cardinality(S)
           f == InOrder(S)
<1>1. IsFiniteSet(S) /\ c \in Nat
  BY FinitePositions
<1>2. f \in [1..c -> S] /\ Ascending(f, c)
  BY Orderable, Zenon DEF InOrder, Ascending
<1> HIDE DEF c, f
<1>3. f \in Injection(1..c, S)
  <2>1. \A k, l \in 1..c : f[k] = f[l] => k = l
    <3>1. \A k \in 1..c : f[k] \in Int
      <4>1. S \subseteq Int
        OBVIOUS
      <4> QED
        BY <1>2, <4>1, Zenon
    <3> QED
      BY <1>1, <1>2, <3>1 DEF Ascending
  <2> QED
    BY <1>2, <2>1 DEF Injection, IsInjective
<1>4. Cardinality(1..c) = c
  BY <1>1, FS_Interval
<1>5. f \in Surjection(1..c, S)
  BY <1>1, <1>3, <1>4, FS_Injection DEF c
<1> QED
  BY <1>1, <1>2, <1>5 DEF c, f, Surjection

-----------------------------------------------------------------------------
(* Nothing is in the store. *)
LEMMA IndInit == Init => IndInv
<1> SUFFICES ASSUME Init PROVE IndInv
  OBVIOUS
<1>1. TypeOK
  BY QueueStoreAssumption DEF QueueStoreAssumption, Init, TypeOK
<1>2. Counted
  <2>1. Appending = {} /\ inflight = {} /\ Len(ready) = 0 /\ releasing = 0 /\ sem = 0
    BY DEF Init, Appending
  <2> QED
    BY <2>1, FS_EmptySet DEF Counted
<1>3. OnePlace /\ OwnEpoch /\ Appended /\ ClaimedFirst /\ InLine /\ FIFO
  BY DEF Init, OnePlace, Buffered, IsLeased, OwnEpoch, Appended, ClaimedFirst, InLine, FIFO
<1> QED
  BY <1>1, <1>2, <1>3 DEF IndInv

(* What the counts are. *)
LEMMA Counts ==
  ASSUME IndInv
  PROVE  /\ Cardinality(inflight) \in Nat /\ Cardinality(Appending) \in Nat
         /\ sem = Len(ready) + Cardinality(inflight) + releasing + Cardinality(Appending)
         /\ Len(ready) \in Nat /\ DOMAIN ready = 1..Len(ready)
  BY FS_CardinalityType DEF IndInv, TypeOK, Counted

(* Before a message is let in it is nowhere. *)
LEMMA Outside ==
  ASSUME IndInv, NEW m \in Msgs, call[m] \in {"new", "append", "shed"}
  PROVE  /\ ~Buffered(m) /\ ~IsLeased(m) /\ settled[m] = "no"
         /\ \A i \in DOMAIN order : order[i] # m
  BY DEF IndInv, OnePlace, Appended

(* An Enqueue that has not appended yet changes only where it is. *)
LEMMA CallStep ==
  ASSUME IndInv, NEW m \in Msgs, call[m] \in {"new", "append", "shed"},
         NEW to \in {"append", "shed", "refused"}, call' = [call EXCEPT ![m] = to],
         UNCHANGED <<ready, inflight, epoch, settled, order, claimed>>
  PROVE  OnePlace' /\ OwnEpoch' /\ Appended' /\ ClaimedFirst' /\ InLine' /\ FIFO'
<1>1. \A n \in Msgs : /\ call'[n] = "in" <=> call[n] = "in"
                      /\ call'[n] \in {"in", "evicted"} <=> call[n] \in {"in", "evicted"}
                      /\ call'[n] = "evicted" <=> call[n] = "evicted"
  BY DEF IndInv, TypeOK
<1>2. OnePlace' /\ OwnEpoch' /\ ClaimedFirst' /\ InLine'
  BY <1>1 DEF IndInv, OnePlace, Buffered, IsLeased, OwnEpoch, ClaimedFirst, InLine
<1>3. Appended' /\ FIFO'
  BY <1>1 DEF IndInv, TypeOK, Appended, FIFO
<1> QED
  BY <1>2, <1>3

(* Enqueue takes a slot of the semaphore. *)
LEMMA TakeSlotStep ==
  ASSUME IndInv, NEW m \in Msgs, TakeSlot(m)
  PROVE  IndInv'
<1>1. TypeOK'
  BY QueueStoreAssumption DEF QueueStoreAssumption, IndInv, TypeOK, TakeSlot
<1>2. Counted'
  <2>1. Appending' = Appending \cup {m} /\ m \notin Appending
    BY DEF TakeSlot, Appending, IndInv, TypeOK
  <2>2. IsFiniteSet(Appending') /\ Cardinality(Appending') = Cardinality(Appending) + 1
    BY <2>1, FS_AddElement DEF IndInv, Counted
  <2> QED
    BY <2>2, Counts DEF TakeSlot, IndInv, TypeOK, Counted
<1>3. OnePlace' /\ OwnEpoch' /\ Appended' /\ ClaimedFirst' /\ InLine' /\ FIFO'
  BY CallStep, Zenon DEF TakeSlot
<1> QED
  BY <1>1, <1>2, <1>3, Zenon DEF IndInv

(* Enqueue finds the store full: it is turned away, or has to shed. *)
LEMMA NoSlotStep ==
  ASSUME IndInv, NEW m \in Msgs, NoSlot(m)
  PROVE  IndInv'
<1>1. TypeOK'
  BY DEF IndInv, TypeOK, NoSlot
<1>2. Counted'
  <2>1. Appending' = Appending
    BY DEF NoSlot, Appending, IndInv, TypeOK
  <2> QED
    BY <2>1 DEF NoSlot, IndInv, Counted
<1>3. OnePlace' /\ OwnEpoch' /\ Appended' /\ ClaimedFirst' /\ InLine' /\ FIFO'
  BY CallStep DEF NoSlot
<1> QED
  BY <1>1, <1>2, <1>3, Zenon DEF IndInv

(* A newcomer goes to the end of the FIFO and of order. *)
LEMMA AppendStep ==
  ASSUME IndInv, NEW m \in Msgs, Append1(m)
  PROVE  IndInv'
<1>1. /\ call[m] = "append" /\ call' = [call EXCEPT ![m] = "in"]
      /\ ready' = Append(ready, [msg |-> m, due |-> TRUE]) /\ order' = Append(order, m)
      /\ UNCHANGED <<overflow, sem, inflight, epoch, held, releasing, settled, claimed>>
  BY DEF Append1, Entry
<1>2. TypeOK'
  BY <1>1 DEF IndInv, TypeOK
<1>3. /\ Len(ready') = Len(ready) + 1 /\ Len(ready) \in Nat
      /\ \A p \in DOMAIN ready : p \in DOMAIN ready' /\ ready'[p] = ready[p] /\ p < Len(ready')
      /\ ready'[Len(ready')] = [msg |-> m, due |-> TRUE] /\ Len(ready') \in DOMAIN ready'
      /\ \A p \in DOMAIN ready' : p \in DOMAIN ready \/ p = Len(ready')
  BY <1>1 DEF IndInv, TypeOK
<1>4. /\ Len(order') = Len(order) + 1 /\ Len(order) \in Nat
      /\ \A i \in DOMAIN order : i \in DOMAIN order' /\ order'[i] = order[i] /\ i < Len(order')
      /\ order'[Len(order')] = m /\ Len(order') \in DOMAIN order'
      /\ \A i \in DOMAIN order' : i \in DOMAIN order \/ i = Len(order')
  BY <1>1 DEF IndInv, TypeOK
<1>5. /\ ~Buffered(m) /\ ~IsLeased(m) /\ settled[m] = "no" /\ \A i \in DOMAIN order : order[i] # m
  BY <1>1, Outside
<1>6. Counted'
  <2>1. Appending' = Appending \ {m} /\ m \in Appending
    BY <1>1 DEF Appending, IndInv, TypeOK
  <2>2. IsFiniteSet(Appending') /\ Cardinality(Appending') = Cardinality(Appending) - 1
    BY <2>1, FS_RemoveElement DEF IndInv, Counted
  <2>3. /\ UNCHANGED <<sem, inflight, releasing>> /\ releasing \in Nat /\ IsFiniteSet(inflight)
        /\ Len(ready') = Len(ready) + 1
    BY <1>1, <1>3 DEF IndInv, TypeOK, Counted
  <2> QED
    BY <2>2, <2>3, Counts DEF Counted
<1>7. OnePlace'
  <2>1. \A n \in Msgs : Buffered(n)' <=> Buffered(n) \/ n = m
    BY <1>3 DEF Buffered
  <2>2. \A n \in Msgs : IsLeased(n)' <=> IsLeased(n)
    BY <1>1 DEF IsLeased
  <2>3. \A p, q \in DOMAIN ready' : ready'[p].msg = ready'[q].msg => p = q
    BY <1>3, <1>5 DEF IndInv, OnePlace, Buffered
  <2>4. \A n \in Msgs : call'[n] = IF n = m THEN "in" ELSE call[n]
    BY <1>1 DEF IndInv, TypeOK
  <2> QED
    BY <1>1, <1>5, <2>1, <2>2, <2>3, <2>4 DEF IndInv, OnePlace
<1>8. Appended'
  BY <1>1, <1>4, <1>5 DEF IndInv, TypeOK, Appended
<1>9. OwnEpoch' /\ ClaimedFirst'
  BY <1>1, <1>3 DEF IndInv, OwnEpoch, ClaimedFirst
<1>10. InLine'
  BY <1>1, <1>3, <1>4, <1>5 DEF IndInv, InLine, Buffered
<1>11. FIFO'
  <2>1. m \notin claimed
    BY <1>1 DEF IndInv, TypeOK, ClaimedFirst
  <2> QED
    BY <1>1, <1>4, <2>1 DEF IndInv, TypeOK, FIFO
<1> QED
  BY <1>2, <1>6, <1>7, <1>8, <1>9, <1>10, <1>11, Zenon DEF IndInv

(* The head of the FIFO makes room for a newcomer, or the newcomer goes. *)
LEMMA EvictStep ==
  ASSUME IndInv, NEW m \in Msgs, Shed(m), overflow = "dropOldest", ready # <<>>
  PROVE  IndInv'
<1> DEFINE v == ready[1].msg
<1>1. /\ call[m] = "shed" /\ call' = [call EXCEPT ![v] = "evicted", ![m] = "in"]
      /\ ready' = Append(Tail(ready), [msg |-> m, due |-> TRUE]) /\ order' = Append(order, m)
      /\ UNCHANGED <<overflow, sem, inflight, epoch, held, releasing, settled, claimed>>
  BY DEF Shed, Entry
<1>2. v \in Msgs /\ 1 \in DOMAIN ready /\ Len(ready) \in Nat \ {0}
  <2>1. ready \in Seq(Entries)
    BY DEF IndInv, TypeOK, Entries
  <2>2. Len(ready) \in Nat /\ DOMAIN ready = 1..Len(ready) /\ Len(ready) # 0
    BY <2>1
  <2>3. 1 \in DOMAIN ready
    BY <2>2
  <2>4. \A p \in DOMAIN ready : ready[p] \in Entries
    BY <2>1, SeqElements
  <2> QED
    BY <2>2, <2>3, <2>4 DEF Entries
<1>3. TypeOK'
  BY <1>1, <1>2 DEF IndInv, TypeOK
<1>4. /\ Len(ready') = Len(ready)
      /\ \A p \in DOMAIN ready' : p = Len(ready) \/ (p + 1 \in DOMAIN ready /\ ready'[p] = ready[p + 1] /\ p < Len(ready))
      /\ ready'[Len(ready)] = [msg |-> m, due |-> TRUE]
      /\ Len(ready) \in DOMAIN ready' /\ DOMAIN ready' = 1..Len(ready) /\ DOMAIN ready = 1..Len(ready)
  BY <1>1, <1>2 DEF IndInv, TypeOK
<1>5. /\ Len(order') = Len(order) + 1 /\ Len(order) \in Nat
      /\ \A i \in DOMAIN order : i \in DOMAIN order' /\ order'[i] = order[i] /\ i < Len(order')
      /\ order'[Len(order')] = m /\ Len(order') \in DOMAIN order'
      /\ \A i \in DOMAIN order' : i \in DOMAIN order \/ i = Len(order')
  BY <1>1 DEF IndInv, TypeOK
<1>6. ~Buffered(m) /\ ~IsLeased(m) /\ settled[m] = "no" /\ \A i \in DOMAIN order : order[i] # m
  BY <1>1, Outside
<1>7. call[m] = "shed" /\ Buffered(v) /\ call[v] = "in" /\ ~IsLeased(v) /\ settled[v] = "no" /\ v # m
  BY <1>1, <1>2, <1>6 DEF IndInv, OnePlace, Buffered
<1>8. \A n \in Msgs : call'[n] = IF n = m THEN "in" ELSE IF n = v THEN "evicted" ELSE call[n]
  BY <1>1, <1>2 DEF IndInv, TypeOK
<1> HIDE DEF v
<1>9. Counted'
  <2>1. Appending' = Appending
    BY <1>7, <1>8 DEF Appending
  <2> QED
    BY <1>1, <1>4, <2>1 DEF IndInv, Counted
<1>10. OnePlace'
  <2>1. \A n \in Msgs : Buffered(n)' <=> n = m \/ (Buffered(n) /\ n # v)
    <3>1. ASSUME NEW n \in Msgs, Buffered(n)' PROVE n = m \/ (Buffered(n) /\ n # v)
      <4>1. PICK p \in DOMAIN ready' : ready'[p].msg = n
        BY <3>1 DEF Buffered
      <4>2. CASE p = Len(ready)
        BY <1>4, <4>1, <4>2
      <4>3. CASE p + 1 \in DOMAIN ready /\ ready'[p] = ready[p + 1]
        <5>1. p + 1 # 1
          BY <1>4
        <5> QED
          BY <1>2, <4>1, <4>3, <5>1 DEF v, Buffered, IndInv, OnePlace
      <4> QED
        BY <1>4, <4>2, <4>3
    <3>2. ASSUME NEW n \in Msgs, Buffered(n), n # v PROVE Buffered(n)'
      <4>1. PICK p \in DOMAIN ready : ready[p].msg = n
        BY <3>2 DEF Buffered
      <4>2. p # 1 /\ p \in 1..Len(ready)
        BY <1>4, <3>2, <4>1 DEF v
      <4>3. p - 1 \in DOMAIN ready' /\ p - 1 # Len(ready) /\ (p - 1) + 1 = p
        BY <1>2, <1>4, <4>2
      <4>4. ready'[p - 1].msg = n
        BY <1>4, <4>1, <4>3
      <4> QED
        BY <4>3, <4>4 DEF Buffered
    <3>3. Buffered(m)'
      BY <1>4 DEF Buffered
    <3> QED
      BY <3>1, <3>2, <3>3
  <2>2. \A n \in Msgs : IsLeased(n)' <=> IsLeased(n)
    BY <1>1 DEF IsLeased
  <2>3. ASSUME NEW p \in DOMAIN ready', NEW q \in DOMAIN ready', ready'[p].msg = ready'[q].msg
        PROVE  p = q
    <3>1. \A k \in DOMAIN ready' : k # Len(ready) => ready'[k].msg # m
      BY <1>4, <1>6 DEF Buffered
    <3>2. p \in Int /\ q \in Int
      BY <1>2, <1>4
    <3>3. CASE p # Len(ready) /\ q # Len(ready)
      <4>1. p + 1 \in DOMAIN ready /\ q + 1 \in DOMAIN ready /\ ready[p + 1].msg = ready[q + 1].msg
        BY <1>4, <2>3, <3>3
      <4>2. p + 1 = q + 1
        BY <4>1 DEF IndInv, OnePlace
      <4> QED
        BY <3>2, <4>2
    <3> QED
      BY <1>4, <2>3, <3>1, <3>3
  <2>4. \A k, l \in inflight' : k.msg = l.msg => k = l
    BY <1>1 DEF IndInv, OnePlace
  <2>5. \A n \in Msgs : /\ ~(Buffered(n)' /\ IsLeased(n)')
                        /\ Buffered(n)' \/ IsLeased(n)' <=> call'[n] = "in" /\ settled'[n] = "no"
                        /\ settled'[n] # "no" => call'[n] = "in"
    <3>1. settled' = settled
      BY <1>1
    <3> QED
      BY <1>6, <1>7, <1>8, <2>1, <2>2, <3>1 DEF IndInv, OnePlace
  <2> QED
    BY <2>3, <2>4, <2>5 DEF OnePlace
<1>11. Appended'
  BY <1>1, <1>5, <1>6, <1>7, <1>8, SMTT(30) DEF IndInv, TypeOK, Appended
<1>12. OwnEpoch' /\ ClaimedFirst'
  <2>1. UNCHANGED <<inflight, epoch, settled, claimed>> /\ claimed \subseteq Msgs
    BY <1>1, SMTT(30) DEF IndInv, TypeOK
  <2>2. \A p \in DOMAIN ready' : ~ready'[p].due => ready'[p].msg \in claimed
    BY <1>4 DEF IndInv, ClaimedFirst
  <2>3. \A n \in claimed : call'[n] \in {"in", "evicted"}
    BY <1>8, <2>1 DEF IndInv, ClaimedFirst
  <2> QED
    BY <2>1, <2>2, <2>3 DEF IndInv, OwnEpoch, ClaimedFirst
<1>13. InLine'
  <2> SUFFICES ASSUME NEW i \in DOMAIN order', NEW j \in DOMAIN order',
                      NEW p \in DOMAIN ready', NEW q \in DOMAIN ready',
                      i < j, order'[i] = ready'[p].msg, order'[j] = ready'[q].msg,
                      order'[i] \notin claimed, order'[j] \notin claimed
               PROVE  p < q
    BY <1>1, ZenonT(30) DEF InLine
  <2>1. i \in DOMAIN order /\ order'[i] = order[i] /\ order[i] # m
    BY <1>5, <1>6 DEF IndInv, TypeOK
  <2>2. p + 1 \in DOMAIN ready /\ ready'[p] = ready[p + 1] /\ p < Len(ready)
    <3>1. p # Len(ready)
      <4>1. ready'[Len(ready)].msg = m
        BY <1>4
      <4> QED
        BY <2>1, <4>1, Zenon
    <3> QED
      BY <1>4, <3>1
  <2>3. CASE q = Len(ready)
    BY <2>2, <2>3
  <2>4. CASE q + 1 \in DOMAIN ready /\ ready'[q] = ready[q + 1] /\ q < Len(ready)
    <3>1. j \in DOMAIN order /\ order'[j] = order[j]
      BY <1>5, <1>6, <2>4 DEF Buffered
    <3>2. p + 1 < q + 1
      BY <2>1, <2>2, <2>4, <3>1, Zenon DEF IndInv, InLine
    <3> QED
      BY <1>2, <1>4, <3>2
  <2> QED
    BY <1>4, <2>3, <2>4
<1>14. FIFO'
  <2>1. m \notin claimed
    BY <1>1 DEF IndInv, TypeOK, ClaimedFirst
  <2> QED
    BY <1>1, <1>5, <1>6, <1>8, <2>1 DEF IndInv, TypeOK, FIFO
<1> QED
  BY <1>3, <1>9, <1>10, <1>11, <1>12, <1>13, <1>14, Zenon DEF IndInv

(* A full store drops the oldest entry, or the new one if none is left. *)
LEMMA ShedStep ==
  ASSUME IndInv, NEW m \in Msgs, Shed(m)
  PROVE  IndInv'
<1>1. CASE ~(overflow = "dropOldest" /\ ready # <<>>)
  <2>1. /\ call[m] = "shed" /\ call' = [call EXCEPT ![m] = "refused"]
        /\ UNCHANGED <<overflow, sem, ready, inflight, epoch, held, releasing, settled, order, claimed>>
    BY <1>1 DEF Shed
  <2>2. TypeOK'
    BY <2>1 DEF IndInv, TypeOK
  <2>3. Counted'
    <3>1. Appending' = Appending
      BY <2>1 DEF Appending, IndInv, TypeOK
    <3> QED
      BY <2>1, <3>1 DEF IndInv, Counted
  <2>4. OnePlace' /\ OwnEpoch' /\ Appended' /\ ClaimedFirst' /\ InLine' /\ FIFO'
    BY <2>1, CallStep, Zenon
  <2> QED
    BY <2>2, <2>3, <2>4, Zenon DEF IndInv
<1> QED
  BY <1>1, EvictStep

(* A settle takes the lease of its epoch out, if it is still there. *)
LEMMA TakeOutStep ==
  ASSUME IndInv, NEW e \in held, NEW how \in {"acked", "dropped"}, TakeOut(e, how)
  PROVE  IndInv'
<1>1. /\ inflight' = inflight \ Lease(e) /\ Lease(e) \subseteq inflight
      /\ \A m \in Msgs : settled'[m] = IF m \in Leased(e) THEN how ELSE settled[m]
      /\ releasing' = releasing + Cardinality(Lease(e))
      /\ UNCHANGED <<overflow, call, sem, ready, epoch, held, order, claimed>>
  BY DEF TakeOut, Lease
<1>2. IsFiniteSet(inflight') /\ IsFiniteSet(Lease(e)) /\ Cardinality(Lease(e)) \in Nat
      /\ Cardinality(inflight') = Cardinality(inflight) - Cardinality(Lease(e))
  <2>1. IsFiniteSet(inflight) /\ inflight \cap Lease(e) = Lease(e)
    BY <1>1 DEF IndInv, Counted
  <2>2. IsFiniteSet(Lease(e))
    BY <1>1, <2>1, FS_Subset
  <2>3. Cardinality(Lease(e)) \in Nat
    BY <2>2, FS_CardinalityType
  <2> QED
    BY <1>1, <2>1, <2>2, <2>3, FS_Difference, Zenon
<1>3. TypeOK'
  <2>1. settled' \in [Msgs -> {"no", "acked", "dropped"}]
    BY DEF TakeOut, IndInv, TypeOK
  <2> QED
    BY <1>1, <1>2, <2>1 DEF IndInv, TypeOK
<1>4. Counted'
  <2>1. Appending' = Appending
    BY <1>1 DEF Appending
  <2>2. releasing \in Nat
    BY DEF IndInv, TypeOK
  <2> QED
    BY <1>1, <1>2, <2>1, <2>2, Counts DEF IndInv, Counted
<1>5. \A m \in Msgs : /\ m \in Leased(e) => IsLeased(m)
                      /\ IsLeased(m)' <=> IsLeased(m) /\ m \notin Leased(e)
                      /\ Buffered(m)' <=> Buffered(m)
  <2>1. \A m \in Msgs : m \in Leased(e) => IsLeased(m)
    BY DEF Leased, Lease, IsLeased
  <2>2. \A m \in Msgs : IsLeased(m)' <=> IsLeased(m) /\ m \notin Leased(e)
    BY <1>1 DEF Leased, IsLeased, IndInv, OnePlace
  <2>3. \A m \in Msgs : Buffered(m)' <=> Buffered(m)
    BY <1>1 DEF Buffered
  <2> QED
    BY <2>1, <2>2, <2>3
<1>6. OnePlace'
  <2>1. \A p, q \in DOMAIN ready' : ready'[p].msg = ready'[q].msg => p = q
    BY <1>1 DEF IndInv, OnePlace
  <2>2. \A k, l \in inflight' : k.msg = l.msg => k = l
    BY <1>1 DEF IndInv, OnePlace
  <2>3. \A m \in Msgs : /\ ~(Buffered(m)' /\ IsLeased(m)')
                        /\ Buffered(m)' \/ IsLeased(m)' <=> call'[m] = "in" /\ settled'[m] = "no"
                        /\ settled'[m] # "no" => call'[m] = "in"
    BY <1>1, <1>5 DEF IndInv, OnePlace
  <2> QED
    BY <2>1, <2>2, <2>3 DEF OnePlace
<1>7. OwnEpoch' /\ Appended' /\ InLine' /\ FIFO'
  BY <1>1, SMTT(30) DEF IndInv, OwnEpoch, Appended, InLine, FIFO
<1>8. ClaimedFirst'
  <2>1. \A m \in Msgs : m \in Leased(e) => m \in claimed
    BY <1>5 DEF IndInv, ClaimedFirst, IsLeased
  <2> QED
    BY <1>1, <2>1 DEF IndInv, ClaimedFirst
<1> QED
  BY <1>3, <1>4, <1>6, <1>7, <1>8, Zenon DEF IndInv

(* A requeue moves a lease to the end of the FIFO. *)
LEMMA RequeueStep ==
  ASSUME IndInv, NEW e \in held, NEW due \in BOOLEAN, Requeue(e, due)
  PROVE  IndInv'
<1>1. PICK l \in inflight : /\ inflight' = inflight \ {l}
                            /\ ready' = Append(ready, [msg |-> l.msg, due |-> due])
                            /\ UNCHANGED <<overflow, call, sem, epoch, held, releasing, settled, order, claimed>>
  BY DEF Requeue, Lease
<1> DEFINE m == l.msg
<1>2. m \in Msgs /\ m \in claimed /\ IsLeased(m) /\ ~Buffered(m)
  BY DEF IndInv, TypeOK, ClaimedFirst, OnePlace, IsLeased
<1>3. TypeOK'
  BY <1>1, <1>2 DEF IndInv, TypeOK
<1>4. /\ Len(ready') = Len(ready) + 1 /\ Len(ready) \in Nat
      /\ \A p \in DOMAIN ready : p \in DOMAIN ready' /\ ready'[p] = ready[p] /\ p < Len(ready')
      /\ ready'[Len(ready')].msg = m /\ Len(ready') \in DOMAIN ready'
      /\ \A p \in DOMAIN ready' : p \in DOMAIN ready \/ p = Len(ready')
  BY <1>1, <1>2 DEF IndInv, TypeOK
<1> HIDE DEF m
<1>5. Counted'
  <2>1. IsFiniteSet(inflight') /\ Cardinality(inflight') = Cardinality(inflight) - 1
    BY <1>1, FS_RemoveElement DEF IndInv, Counted
  <2>2. /\ UNCHANGED <<sem, call, releasing, Appending>> /\ releasing \in Nat
        /\ Len(ready') = Len(ready) + 1 /\ IsFiniteSet(Appending)
    BY <1>1, <1>4 DEF IndInv, TypeOK, Counted, Appending
  <2> QED
    BY <2>1, <2>2, Counts DEF Counted
<1>6. \A n \in Msgs : /\ Buffered(n)' <=> Buffered(n) \/ n = m
                      /\ IsLeased(n)' <=> IsLeased(n) /\ n # m
  <2>1. \A n \in Msgs : Buffered(n)' <=> Buffered(n) \/ n = m
    BY <1>4 DEF Buffered
  <2>2. \A n \in Msgs : IsLeased(n)' <=> IsLeased(n) /\ n # m
    BY <1>1 DEF IsLeased, IndInv, OnePlace, m
  <2> QED
    BY <2>1, <2>2
<1>7. OnePlace'
  <2>1. \A p, q \in DOMAIN ready' : ready'[p].msg = ready'[q].msg => p = q
    BY <1>2, <1>4 DEF IndInv, OnePlace, Buffered
  <2>2. \A k, n \in inflight' : k.msg = n.msg => k = n
    BY <1>1 DEF IndInv, OnePlace
  <2>3. \A n \in Msgs : /\ ~(Buffered(n)' /\ IsLeased(n)')
                        /\ Buffered(n)' \/ IsLeased(n)' <=> call'[n] = "in" /\ settled'[n] = "no"
                        /\ settled'[n] # "no" => call'[n] = "in"
    <3>1. UNCHANGED <<call, settled>>
      BY <1>1
    <3> QED
      BY <1>2, <1>6, <3>1 DEF IndInv, OnePlace
  <2> QED
    BY <2>1, <2>2, <2>3 DEF OnePlace
<1>8. OwnEpoch' /\ Appended' /\ FIFO'
  BY <1>1 DEF IndInv, OwnEpoch, Appended, FIFO
<1>9. ClaimedFirst' /\ InLine'
  <2>1. UNCHANGED <<call, settled, order, claimed>> /\ inflight' \subseteq inflight
    BY <1>1
  <2> QED
    BY <1>2, <1>4, <2>1 DEF IndInv, ClaimedFirst, InLine
<1> QED
  BY <1>3, <1>5, <1>7, <1>8, <1>9, Zenon DEF IndInv

(* The steps that move no message. *)
LEMMA FreeSlotStep ==
  ASSUME IndInv, FreeSlot
  PROVE  IndInv'
<1>1. TypeOK'
  BY QueueStoreAssumption DEF QueueStoreAssumption, IndInv, TypeOK, FreeSlot
<1>2. Counted'
  <2>1. /\ UNCHANGED <<ready, inflight, Appending>> /\ releasing \in Nat
        /\ sem' = sem - 1 /\ releasing' = releasing - 1
    BY DEF FreeSlot, Appending, IndInv, TypeOK
  <2> QED
    BY <2>1, Counts DEF IndInv, Counted
<1>3. OnePlace' /\ OwnEpoch' /\ Appended' /\ ClaimedFirst' /\ InLine' /\ FIFO'
  BY DEF FreeSlot, IndInv, OnePlace, Buffered, IsLeased, OwnEpoch, Appended, ClaimedFirst, InLine, FIFO
<1> QED
  BY <1>1, <1>2, <1>3, Zenon DEF IndInv

(* The delay of a requeued entry passes. *)
LEMMA MatureStep ==
  ASSUME IndInv, NEW i \in DOMAIN ready, Mature(i)
  PROVE  IndInv'
<1>1. UNCHANGED <<overflow, call, sem, inflight, epoch, held, releasing, settled, order, claimed>>
  BY DEF Mature
<1>2. /\ Len(ready') = Len(ready) /\ DOMAIN ready' = DOMAIN ready
      /\ \A p \in DOMAIN ready : ready'[p].msg = ready[p].msg /\ (ready[p].due => ready'[p].due)
  BY DEF Mature, IndInv, TypeOK
<1>3. TypeOK'
  <2>1. ready \in Seq(Entries)
    BY DEF IndInv, TypeOK, Entries
  <2>2. ready \in [1..Len(ready) -> Entries] /\ Len(ready) \in Nat
    BY <2>1, SeqElements
  <2>3. ready' \in [1..Len(ready) -> Entries]
    BY <2>2, Zenon DEF Mature, Entries
  <2>4. ready' \in Seq(Entries)
    BY <2>2, <2>3, SeqOf
  <2> QED
    BY <1>1, <2>4 DEF IndInv, TypeOK, Entries
<1>4. Counted'
  BY <1>1, <1>2 DEF IndInv, Counted, Appending
<1>5. OnePlace' /\ OwnEpoch' /\ Appended' /\ ClaimedFirst' /\ InLine' /\ FIFO'
  BY <1>1, <1>2 DEF IndInv, OnePlace, Buffered, IsLeased, OwnEpoch, Appended, ClaimedFirst, InLine, FIFO
<1> QED
  BY <1>3, <1>4, <1>5, Zenon DEF IndInv

(* A holder that forgets its delivery changes nothing in the store. *)
LEMMA StutterStep ==
  ASSUME IndInv, UNCHANGED vars \/ (\E e \in held : Forget(e))
  PROVE  IndInv'
<1>1. /\ UNCHANGED <<overflow, call, sem, ready, inflight, epoch, releasing, settled, order, claimed>>
      /\ held' \subseteq held
  BY DEF vars, Forget
<1>2. TypeOK' /\ Counted'
  BY <1>1, SMTT(30) DEF IndInv, TypeOK, Counted, Appending
<1>3. OnePlace' /\ OwnEpoch' /\ Appended' /\ ClaimedFirst' /\ InLine' /\ FIFO'
  BY <1>1 DEF IndInv, OnePlace, Buffered, IsLeased, OwnEpoch, Appended, ClaimedFirst, InLine, FIFO
<1> QED
  BY <1>2, <1>3, Zenon DEF IndInv

-----------------------------------------------------------------------------
(* The number of positions up to one of them counts them. *)
LEMMA RankCounts ==
  ASSUME NEW n \in Nat, NEW T \in SUBSET (1..n), NEW i \in T
  PROVE  /\ Cardinality({j \in T : j <= i}) \in 1..Cardinality(T)
         /\ \A k \in T : i < k => Cardinality({j \in T : j <= i}) < Cardinality({j \in T : j <= k})
<1> DEFINE Upto(k) == {j \in T : j <= k}
<1>1. \A k \in T : /\ IsFiniteSet(Upto(k)) /\ Cardinality(Upto(k)) \in Nat
                   /\ IsFiniteSet(T) /\ Cardinality(T) \in Nat
  BY FinitePositions
<1>2. Cardinality(Upto(i)) <= Cardinality(T)
  BY <1>1, FS_Subset
<1>3. Cardinality(Upto(i)) # 0
  <2>1. i \in Upto(i)
    OBVIOUS
  <2> QED
    BY <1>1, <2>1, FS_EmptySet
<1>4. ASSUME NEW k \in T, i < k
      PROVE  Cardinality(Upto(i)) < Cardinality(Upto(k))
  <2>1. Upto(i) \in SUBSET Upto(k)
    <3>1. T \subseteq Int
      OBVIOUS
    <3>2. \A j \in T : j <= i => j <= k
      BY <1>4, <3>1
    <3> QED
      BY <3>2, Zenon
  <2>2. k \in Upto(k) /\ k \notin Upto(i)
    BY <1>4
  <2>3. Upto(i) # Upto(k)
    BY <2>2
  <2> HIDE DEF Upto
  <2>4. Cardinality(Upto(i)) <= Cardinality(Upto(k)) /\ Cardinality(Upto(i)) # Cardinality(Upto(k))
    BY <1>1, <2>1, <2>3, FS_Subset
  <2> QED
    BY <1>1, <2>4
<1> QED
  BY <1>1, <1>2, <1>3, <1>4

(* A claim takes an entry only with all those due before it. *)
LEMMA TakenFirst ==
  ASSUME IndInv, NEW max \in Nat
  PROVE  /\ Taken(max) \subseteq Due /\ Due \subseteq 1..Len(ready)
         /\ \A p \in Due, q \in Taken(max) : p < q => p \in Taken(max)
<1>1. Due \subseteq 1..Len(ready) /\ Len(ready) \in Nat
  BY Counts DEF Due
<1>2. ASSUME NEW p \in Due, NEW q \in Taken(max), p < q PROVE p \in Taken(max)
  <2>1. q \in Due /\ Cardinality({j \in Due : j <= q}) <= max
    BY DEF Taken
  <2> DEFINE a == Cardinality({j \in Due : j <= p})
             b == Cardinality({j \in Due : j <= q})
  <2>2. a < b /\ a \in Int /\ b \in Int
    <3>1. Due \in SUBSET (1..Len(ready))
      BY <1>1
    <3>2. \A i \in Due : Cardinality({j \in Due : j <= i}) \in 1..Cardinality(Due)
      BY <1>1, <3>1, RankCounts, Zenon
    <3>3. a < b
      BY <1>1, <1>2, <2>1, <3>1, RankCounts, Zenon
    <3> QED
      BY <2>1, <3>2, <3>3
  <2> HIDE DEF a, b
  <2>3. a <= max
    BY <2>1, <2>2 DEF b
  <2> QED
    BY <2>3 DEF Taken, a
<1> QED
  BY <1>1, <1>2 DEF Taken

(* What a claim does to the FIFO and to the leases. *)
LEMMA ClaimMoves ==
  ASSUME IndInv, NEW max \in Nat, Claim(max)
  PROVE  \E kept \in [1..Len(ready') -> DOMAIN ready \ Taken(max)] :
           /\ ready' \in Seq(Entries)
           /\ Ascending(kept, Len(ready'))
           /\ \A p \in DOMAIN ready \ Taken(max) : \E k \in 1..Len(ready') : kept[k] = p
           /\ \A k \in 1..Len(ready') : ready'[k] = ready[kept[k]]
           /\ IsFiniteSet(Taken(max)) /\ Cardinality(Taken(max)) \in Nat
           /\ Len(ready') = Len(ready) - Cardinality(Taken(max))
<1> DEFINE taken == Taken(max)
           rest == DOMAIN ready \ taken
           kept == InOrder(rest)
           c == Cardinality(rest)
<1>1. taken \in SUBSET (1..Len(ready)) /\ rest \in SUBSET (1..Len(ready)) /\ DOMAIN ready = 1..Len(ready)
      /\ Len(ready) \in Nat
  BY TakenFirst, Counts
<1>2. IsFiniteSet(taken) /\ Cardinality(taken) \in Nat
  BY <1>1, FinitePositions, Zenon
<1>3. c = Len(ready) - Cardinality(taken) /\ c \in Nat
  <2>1. rest = (1..Len(ready)) \ taken
    BY <1>1
  <2>2. c \in Nat
    BY <1>1, FinitePositions, Zenon
  <2> QED
    BY <1>1, <2>1, <2>2, CountTheRest
<1>4. /\ kept \in [1..c -> rest] /\ Ascending(kept, c)
      /\ \A s \in rest : \E k \in 1..c : kept[k] = s
  BY <1>1, InOrderLists, Zenon
<1>5. ready' = [k \in DOMAIN kept |-> ready[kept[k]]]
  BY DEF Claim
<1> HIDE DEF kept, c
<1>6. ready' = [k \in 1..c |-> ready[kept[k]]]
  BY <1>4, <1>5
<1>7. \A p \in rest : ready[p] \in Entries
  <2>1. ready \in Seq(Entries)
    BY DEF IndInv, TypeOK, Entries
  <2> QED
    BY <2>1, SeqElements
<1>8. ready' \in Seq(Entries) /\ Len(ready') = c
  <2>1. ready' \in [1..c -> Entries]
    BY <1>4, <1>6, <1>7
  <2> QED
    BY <1>3, <2>1, SeqOf
<1> QED
  BY <1>2, <1>3, <1>4, <1>6, <1>8, Zenon

(* The entries of the FIFO are messages. *)
LEMMA ReadyMsgs ==
  ASSUME IndInv
  PROVE  \A p \in DOMAIN ready : ready[p].msg \in Msgs
<1>1. ready \in Seq(Entries)
  BY DEF IndInv, TypeOK, Entries
<1>2. \A p \in DOMAIN ready : ready[p] \in Entries
  BY <1>1, SeqElements
<1> QED
  BY <1>2 DEF Entries

(* The new leases: one per entry, with the epochs after the last. *)
LEMMA ClaimLeases ==
  ASSUME IndInv, NEW max \in Nat, Claim(max)
  PROVE  \E new \in SUBSET [epoch : (epoch + 1)..epoch', msg : Msgs] :
           /\ inflight' = inflight \cup new
           /\ \A k, l \in new : k.epoch = l.epoch \/ k.msg = l.msg => k = l
           /\ \A l \in new : \E i \in Taken(max) : l.msg = ready[i].msg
           /\ \A i \in Taken(max) : \E l \in new : l.msg = ready[i].msg
           /\ IsFiniteSet(new) /\ Cardinality(new) = Cardinality(Taken(max))
           /\ epoch' = epoch + Cardinality(Taken(max))
<1> DEFINE taken == Taken(max)
           Rank(i) == Cardinality({j \in taken : j <= i})
           g == [i \in taken |-> [epoch |-> epoch + Rank(i), msg |-> ready[i].msg]]
           new == {g[i] : i \in taken}
<1>1. taken \in SUBSET (1..Len(ready)) /\ Len(ready) \in Nat /\ taken \subseteq DOMAIN ready
  BY TakenFirst, Counts
<1>2. IsFiniteSet(taken) /\ Cardinality(taken) \in Nat
  BY <1>1, FinitePositions, Zenon
<1>3. /\ \A i \in taken : Rank(i) \in 1..Cardinality(taken)
      /\ \A i, k \in taken : i < k => Rank(i) < Rank(k)
  BY <1>1, RankCounts, ZenonT(30)
<1>4. epoch' = epoch + Cardinality(taken) /\ epoch \in Nat
  BY DEF Claim, IndInv, TypeOK
<1>5. inflight' = inflight \cup {[epoch |-> epoch + Rank(i), msg |-> ready[i].msg] : i \in taken}
  BY DEF Claim
<1>6. inflight' = inflight \cup new
  <2> HIDE DEF Rank, taken
  <2> QED
    BY <1>5
<1>7. \A i \in taken : ready[i].msg \in Msgs
  BY <1>1, ReadyMsgs
<1> HIDE DEF Rank, taken
<1>8. \A i, k \in taken : Rank(i) = Rank(k) => i = k
  <2>1. \A i, k \in taken : i \in Int /\ k \in Int /\ Rank(i) \in Int /\ Rank(k) \in Int
    BY <1>1, <1>2, <1>3
  <2> QED
    BY <1>3, <2>1
<1>9. \A i \in taken : g[i] \in [epoch : (epoch + 1)..epoch', msg : Msgs]
  <2>1. \A i \in taken : epoch + Rank(i) \in (epoch + 1)..epoch'
    BY <1>2, <1>3, <1>4
  <2> QED
    BY <1>7, <2>1
<1>10. \A i, k \in taken : g[i].epoch = g[k].epoch \/ g[i].msg = g[k].msg => i = k
  <2>1. \A i, k \in taken : ready[i].msg = ready[k].msg => i = k
    BY <1>1 DEF IndInv, OnePlace
  <2>2. \A i, k \in taken : epoch + Rank(i) = epoch + Rank(k) => i = k
    <3>1. \A i \in taken : Rank(i) \in Int
      BY <1>2, <1>3
    <3> QED
      BY <1>4, <1>8, <3>1
  <2> QED
    BY <2>1, <2>2
<1>11. IsFiniteSet(new) /\ Cardinality(new) = Cardinality(taken)
  <2>1. g \in Surjection(taken, new)
    BY DEF Surjection
  <2>2. g \in Injection(taken, new)
    <3>1. \A i, k \in taken : g[i] = g[k] => i = k
      BY <1>10
    <3>2. g \in [taken -> new]
      OBVIOUS
    <3> HIDE DEF g
    <3> QED
      BY <3>1, <3>2 DEF Injection, IsInjective
  <2> HIDE DEF g, new
  <2> QED
    BY <1>2, <2>1, <2>2, FS_Surjection
<1>12. \A i \in taken : g[i].msg = ready[i].msg
  OBVIOUS
<1> HIDE DEF g
<1>13. new \in SUBSET [epoch : (epoch + 1)..epoch', msg : Msgs]
  BY <1>9
<1>14. \A k, l \in new : k.epoch = l.epoch \/ k.msg = l.msg => k = l
  BY <1>10
<1>15. /\ \A l \in new : \E i \in taken : l.msg = ready[i].msg
       /\ \A i \in taken : \E l \in new : l.msg = ready[i].msg
  BY <1>12
<1> HIDE DEF new
<1> QED
  BY <1>4, <1>6, <1>11, <1>13, <1>14, <1>15 DEF taken

(* A claim leases the first entries that are due, in their order. *)
LEMMA ClaimStep ==
  ASSUME IndInv, NEW max \in Nat, Claim(max)
  PROVE  IndInv'
<1> DEFINE taken == Taken(max)
           c == Cardinality(taken)
           n == Len(ready')
<1>1. PICK kept \in [1..n -> DOMAIN ready \ taken] :
        /\ ready' \in Seq(Entries)
        /\ Ascending(kept, n)
        /\ \A p \in DOMAIN ready \ taken : \E k \in 1..n : kept[k] = p
        /\ \A k \in 1..n : ready'[k] = ready[kept[k]]
        /\ IsFiniteSet(taken) /\ c \in Nat
        /\ n = Len(ready) - c
  BY ClaimMoves, SMTT(30)
<1>2. PICK new \in SUBSET [epoch : (epoch + 1)..epoch', msg : Msgs] :
        /\ inflight' = inflight \cup new
        /\ \A k, l \in new : k.epoch = l.epoch \/ k.msg = l.msg => k = l
        /\ \A l \in new : \E i \in taken : l.msg = ready[i].msg
        /\ \A i \in taken : \E l \in new : l.msg = ready[i].msg
        /\ IsFiniteSet(new) /\ Cardinality(new) = c
        /\ epoch' = epoch + c
  BY ClaimLeases, SMTT(30)
<1>3. /\ epoch' <= MaxEpoch /\ held' = held \cup (epoch + 1)..epoch'
      /\ claimed' = claimed \cup {ready[i].msg : i \in taken}
      /\ UNCHANGED <<overflow, call, sem, releasing, settled, order>>
  BY SMTT(30) DEF Claim
<1>4. /\ taken \subseteq DOMAIN ready /\ taken \subseteq Due
      /\ \A p \in Due, q \in taken : p < q => p \in taken
      /\ DOMAIN ready = 1..Len(ready) /\ n \in Nat /\ DOMAIN ready' = 1..n
  BY <1>1, TakenFirst, Counts, SeqElements
<1>5. \A p \in DOMAIN ready : ready[p].msg \in Msgs
  BY ReadyMsgs, SMTT(30)
<1>6. epoch \in Nat /\ epoch' \in Nat /\ epoch' >= epoch /\ c \in Nat
  BY <1>1, <1>2, SMTT(30) DEF IndInv, TypeOK
<1> HIDE DEF taken, c, n
<1>7. TypeOK'
  <2>1. inflight' \in SUBSET [epoch : 1..MaxEpoch, msg : Msgs]
    <3>1. \A k \in (epoch + 1)..epoch' : k \in 1..MaxEpoch
      BY <1>3, <1>6, QueueStoreAssumption DEF QueueStoreAssumption
    <3>2. \A l \in new : l \in [epoch : 1..MaxEpoch, msg : Msgs]
      BY <1>2, <3>1
    <3> QED
      BY <1>2, <3>2 DEF IndInv, TypeOK
  <2>2. epoch' \in 0..MaxEpoch /\ held' \in SUBSET (1..MaxEpoch)
    BY <1>3, <1>6, QueueStoreAssumption, SMTT(30) DEF QueueStoreAssumption, IndInv, TypeOK
  <2>3. claimed' \in SUBSET Msgs
    BY <1>3, <1>4, <1>5 DEF IndInv, TypeOK
  <2> QED
    BY <1>1, <1>3, <2>1, <2>2, <2>3, SMTT(30) DEF IndInv, TypeOK, Entries
<1>8. Counted'
  <2>1. inflight \cap new = {}
    <3>1. \A l \in new : l.epoch > epoch
      BY <1>2, <1>6
    <3> QED
      BY <3>1, <1>6 DEF IndInv, OwnEpoch, TypeOK
  <2>2. IsFiniteSet(inflight') /\ Cardinality(inflight') = Cardinality(inflight) + c
    <3>1. IsFiniteSet(inflight) /\ Cardinality(inflight) \in Nat
      BY Counts DEF IndInv, Counted
    <3>2. Cardinality(inflight \cap new) = 0
      BY <2>1, FS_EmptySet, Zenon
    <3>3. /\ IsFiniteSet(inflight \cup new)
          /\ Cardinality(inflight \cup new) =
               Cardinality(inflight) + Cardinality(new) - Cardinality(inflight \cap new)
      BY <1>2, <3>1, FS_Union, Zenon
    <3>4. inflight' = inflight \cup new /\ Cardinality(new) = c
      BY <1>2
    <3> QED
      BY <1>6, <3>1, <3>2, <3>3, <3>4, SMTT(30)
  <2>3. UNCHANGED <<sem, releasing, Appending>> /\ releasing \in Nat /\ IsFiniteSet(Appending)
    BY <1>3 DEF Appending, IndInv, TypeOK, Counted
  <2>4. Len(ready') = Len(ready) - c
    BY <1>1, SMTT(30) DEF n
  <2> QED
    BY <1>6, <2>2, <2>3, <2>4, Counts, SMTT(30) DEF Counted
<1> DEFINE M == {ready[i].msg : i \in taken}
<1>9. \A m \in Msgs : /\ m \in M => Buffered(m)
                      /\ Buffered(m)' <=> Buffered(m) /\ m \notin M
                      /\ IsLeased(m)' <=> IsLeased(m) \/ m \in M
  <2>1. \A m \in Msgs : m \in M => Buffered(m)
    BY <1>4 DEF Buffered
  <2>2. \A m \in Msgs : Buffered(m)' => Buffered(m) /\ m \notin M
    <3>1. \A k \in 1..n : kept[k] \in DOMAIN ready /\ kept[k] \notin taken /\ ready'[k] = ready[kept[k]]
      BY <1>1, Zenon
    <3>2. ASSUME NEW k \in 1..n PROVE ready[kept[k]].msg \notin M
      <4>1. kept[k] \in DOMAIN ready /\ kept[k] \notin taken
        BY <3>1
      <4>2. \A i \in taken : ready[kept[k]].msg = ready[i].msg => kept[k] = i
        BY <1>4, <4>1 DEF IndInv, OnePlace
      <4> QED
        BY <4>1, <4>2
    <3>3. SUFFICES ASSUME NEW m \in Msgs, NEW k \in DOMAIN ready', ready'[k].msg = m
                   PROVE  Buffered(m) /\ m \notin M
      BY DEF Buffered
    <3>4. k \in 1..n
      BY <1>4
    <3>5. kept[k] \in DOMAIN ready /\ ready[kept[k]].msg = m /\ m \notin M
      BY <3>1, <3>2, <3>3, <3>4, SMTT(30)
    <3> QED
      BY <3>5 DEF Buffered
  <2>3. ASSUME NEW m \in Msgs, Buffered(m), m \notin M PROVE Buffered(m)'
    <3>1. PICK p \in DOMAIN ready : ready[p].msg = m
      BY <2>3 DEF Buffered
    <3>2. p \in DOMAIN ready \ taken
      BY <2>3, <3>1
    <3>3. PICK k \in 1..n : kept[k] = p
      BY <1>1, <3>2
    <3> QED
      BY <1>1, <1>4, <3>1, <3>3, Zenon DEF Buffered
  <2>4. \A m \in Msgs : IsLeased(m)' <=> IsLeased(m) \/ m \in M
    BY <1>2 DEF IsLeased
  <2> QED
    BY <2>1, <2>2, <2>3, <2>4
<1>10. claimed' = claimed \cup M
  BY <1>3
<1> HIDE DEF M
<1>11. \A k, l \in 1..n : k \in Int /\ l \in Int /\ kept[k] \in DOMAIN ready /\ (kept[k] < kept[l] => k < l)
  <2>1. \A k \in 1..n : kept[k] \in Int /\ kept[k] \in DOMAIN ready
    <3>1. \A k \in 1..n : kept[k] \in DOMAIN ready
      BY <1>1, Zenon
    <3>2. DOMAIN ready \subseteq Int
      BY <1>4
    <3> QED
      BY <3>1, <3>2, Zenon
  <2> QED
    BY <1>1, <1>4, <2>1 DEF Ascending
<1>12. OnePlace'
  <2>1. ASSUME NEW p \in DOMAIN ready', NEW q \in DOMAIN ready', ready'[p].msg = ready'[q].msg
        PROVE  p = q
    <3>1. p \in 1..n /\ q \in 1..n /\ kept[p] = kept[q]
      <4>1. p \in 1..n /\ q \in 1..n
        BY <1>4, SMTT(30)
      <4>2. /\ kept[p] \in DOMAIN ready /\ kept[q] \in DOMAIN ready
            /\ ready'[p] = ready[kept[p]] /\ ready'[q] = ready[kept[q]]
        BY <1>1, <1>11, <4>1, ZenonT(30)
      <4>3. ready[kept[p]].msg = ready[kept[q]].msg
        BY <2>1, <4>2
      <4> QED
        BY <4>1, <4>2, <4>3 DEF IndInv, OnePlace
    <3>2. ~(p < q) /\ ~(q < p)
      <4>1. kept[p] \in Int /\ kept[q] \in Int
        BY <1>4, <1>11, <3>1
      <4> QED
        BY <1>1, <3>1, <4>1 DEF Ascending
    <3> QED
      BY <1>11, <3>1, <3>2
  <2>2. ASSUME NEW k \in inflight', NEW l \in inflight', k.msg = l.msg PROVE k = l
    <3>1. \A a \in new, b \in inflight : a.msg # b.msg
      <4>1. \A a \in new : a.msg \in Msgs /\ a.msg \in M
        BY <1>2 DEF M
      <4> QED
        BY <1>9, <4>1 DEF IndInv, OnePlace, IsLeased
    <3> QED
      BY <1>2, <2>2, <3>1, SMTT(30) DEF IndInv, OnePlace
  <2>3. \A m \in Msgs : /\ ~(Buffered(m)' /\ IsLeased(m)')
                        /\ Buffered(m)' \/ IsLeased(m)' <=> call'[m] = "in" /\ settled'[m] = "no"
                        /\ settled'[m] # "no" => call'[m] = "in"
    <3>1. UNCHANGED <<call, settled>>
      BY <1>3
    <3> QED
      BY <1>9, <3>1 DEF IndInv, OnePlace
  <2> QED
    BY <2>1, <2>2, <2>3 DEF OnePlace
<1>13. OwnEpoch'
  <2>1. \A l \in inflight : l.epoch \in Int /\ l.epoch <= epoch
    BY DEF IndInv, TypeOK, OwnEpoch
  <2>2. \A l \in new : l.epoch \in Int /\ l.epoch > epoch /\ l.epoch <= epoch'
    BY <1>2, <1>6
  <2>3. \A k \in new, l \in inflight : k.epoch # l.epoch
    BY <1>6, <2>1, <2>2
  <2>4. \A k, l \in inflight' : k.epoch = l.epoch => k = l
    BY <1>2, <2>3 DEF IndInv, OwnEpoch
  <2>5. \A l \in inflight' : l.epoch <= epoch'
    BY <1>2, <1>6, <2>1, <2>2
  <2> QED
    BY <2>4, <2>5 DEF OwnEpoch
<1>14. Appended'
  BY <1>3 DEF IndInv, Appended
<1>15. ClaimedFirst'
  <2>1. \A l \in inflight' : l.msg \in claimed'
    <3>1. \A l \in new : l.msg \in M
      BY <1>2 DEF M
    <3> QED
      BY <1>2, <1>10, <3>1 DEF IndInv, ClaimedFirst
  <2>2. \A p \in DOMAIN ready' : ~ready'[p].due => ready'[p].msg \in claimed'
    BY <1>1, <1>4, <1>10, <1>11, SMTT(30) DEF IndInv, ClaimedFirst
  <2>3. \A m \in M : m \in Msgs /\ call[m] \in {"in", "evicted"}
    <3>1. \A m \in M : m \in Msgs
      BY <1>4, <1>5 DEF M
    <3> QED
      BY <1>9, <3>1 DEF IndInv, OnePlace
  <2> QED
    BY <1>3, <1>10, <2>1, <2>2, <2>3, SMTT(30) DEF IndInv, ClaimedFirst
<1>16. InLine'
  <2>1. order' = order
    BY <1>3
  <2>2. SUFFICES ASSUME NEW i \in DOMAIN order, NEW j \in DOMAIN order,
                      NEW p \in DOMAIN ready', NEW q \in DOMAIN ready',
                      i < j, order[i] = ready'[p].msg, order[j] = ready'[q].msg,
                      order[i] \notin claimed', order[j] \notin claimed'
               PROVE  p < q
    BY <2>1 DEF InLine
  <2>3. /\ p \in 1..n /\ q \in 1..n /\ kept[p] \in DOMAIN ready /\ kept[q] \in DOMAIN ready
        /\ order[i] = ready[kept[p]].msg /\ order[j] = ready[kept[q]].msg
    BY <1>1, <1>4, <1>11, <2>2, Zenon
  <2>4. order[i] \notin claimed /\ order[j] \notin claimed
    BY <1>10, <2>2
  <2>5. kept[p] < kept[q]
    BY <2>2, <2>3, <2>4 DEF IndInv, InLine
  <2> QED
    BY <1>11, <2>3, <2>5, SMTT(30)
<1>17. FIFO'
  <2> SUFFICES ASSUME NEW i \in DOMAIN order, NEW j \in DOMAIN order, i < j, order[j] \in claimed',
                      call[order[i]] # "evicted", order[i] \notin claimed
               PROVE  order[i] \in M
    BY <1>3, <1>10 DEF FIFO
  <2>1. order[i] \in Msgs /\ order[j] \in Msgs
    BY SeqElements DEF IndInv, TypeOK
  <2>2. order[j] \in M /\ order[j] \notin claimed
    BY <1>10 DEF IndInv, FIFO
  <2>3. PICK q \in taken : order[j] = ready[q].msg
    BY <2>2, SMTT(30) DEF M
  <2>4. PICK p \in DOMAIN ready : order[i] = ready[p].msg
    <3>1. call[order[i]] = "in" /\ settled[order[i]] = "no"
      BY <2>1, SMTT(30) DEF IndInv, TypeOK, Appended, ClaimedFirst
    <3>2. ~IsLeased(order[i])
      BY DEF IndInv, ClaimedFirst, IsLeased
    <3> QED
      BY <2>1, <3>1, <3>2, SMTT(30) DEF IndInv, OnePlace, Buffered
  <2>5. p < q
    BY <1>4, <2>2, <2>3, <2>4 DEF IndInv, InLine
  <2>6. p \in Due
    BY <2>4 DEF IndInv, ClaimedFirst, Due
  <2>7. p \in taken
    BY <1>4, <2>5, <2>6
  <2> QED
    BY <2>4, <2>7 DEF M
<1> QED
  BY <1>7, <1>8, <1>12, <1>13, <1>14, <1>15, <1>16, <1>17, ZenonT(30) DEF IndInv

-----------------------------------------------------------------------------
(* Every step keeps the invariant. *)
LEMMA IndNext == IndInv /\ [Next]_vars => IndInv'
<1> SUFFICES ASSUME IndInv, [Next]_vars PROVE IndInv'
  OBVIOUS
<1>1. ASSUME NEW max \in 1..MaxClaim, Claim(max) PROVE IndInv'
  <2>1. max \in Nat
    BY QueueStoreAssumption DEF QueueStoreAssumption
  <2> QED
    BY <1>1, <2>1, ClaimStep
<1>2. ASSUME NEW e \in held, Ack(e) \/ NackDrop(e) PROVE IndInv'
  BY <1>2, TakeOutStep DEF Ack, NackDrop
<1> QED
  BY <1>1, <1>2, TakeSlotStep, NoSlotStep, AppendStep, ShedStep, RequeueStep, FreeSlotStep,
     MatureStep, StutterStep DEF Next, Quiet

(* Every reachable state satisfies the invariant. *)
LEMMA Invariance == Spec => []IndInv
<1> QED
  BY IndInit, IndNext, PTL DEF Spec

(* Every variable keeps its type. *)
THEOREM TypeCorrect == Spec => []TypeOK
<1>1. IndInv => TypeOK
  BY DEF IndInv
<1> QED
  BY <1>1, Invariance, PTL

(* For any capacity and any number of producers and settles under way,     *)
(* every slot of the semaphore is that of a buffered entry, a lease, an    *)
(* Enqueue about to append or a settle about to free it.                   *)
THEOREM SlotsCorrect == Spec => []SlotsAccounted
<1>1. IndInv => SlotsAccounted
  BY DEF IndInv, Counted, SlotsAccounted, Appending
<1> QED
  BY <1>1, Invariance, PTL

(* Whatever overflows, is requeued or delayed meanwhile, a message is      *)
(* first claimed after all that Enqueue appended before it.                *)
THEOREM FIFOCorrect == Spec => []FIFO
<1>1. IndInv => FIFO
  BY DEF IndInv
<1> QED
  BY <1>1, Invariance, PTL

-----------------------------------------------------------------------------
(* Refinement. Each step of the store is one of the contract, or nothing   *)
(* the contract sees.                                                      *)

(* What Place says of a message. *)
LEMMA PlaceIs ==
  ASSUME IndInv, NEW m \in Msgs
  PROVE  /\ Place[m] = "outside" <=> call[m] \in {"new", "append", "shed"}
         /\ Place[m] = "buffered" <=> Buffered(m)
         /\ Place[m] = "leased" <=> IsLeased(m)
         /\ Place[m] = "acked" <=> call[m] = "in" /\ settled[m] = "acked"
         /\ Place[m] = "dropped" <=>
              call[m] \in {"refused", "evicted"} \/ (call[m] = "in" /\ settled[m] = "dropped")
         /\ Place[m] \in {"outside", "buffered", "leased", "acked", "dropped"}
<1>1. call[m] \in {"new", "append", "shed", "in", "refused", "evicted"}
      /\ settled[m] \in {"no", "acked", "dropped"}
  BY DEF IndInv, TypeOK
<1>2. /\ ~(Buffered(m) /\ IsLeased(m))
      /\ Buffered(m) \/ IsLeased(m) <=> call[m] = "in" /\ settled[m] = "no"
      /\ settled[m] # "no" => call[m] = "in"
  BY DEF IndInv, OnePlace
<1>3. Place[m] = IF call[m] \in {"new", "append", "shed"} THEN "outside"
                 ELSE IF call[m] \in {"refused", "evicted"} \/ settled[m] = "dropped" THEN "dropped"
                 ELSE IF settled[m] = "acked" THEN "acked"
                 ELSE IF IsLeased(m) THEN "leased" ELSE "buffered"
  BY DEF Place, IsLeased
<1> QED
  BY <1>1, <1>2, <1>3

(* The store as the contract sees it is never over its capacity. *)
LEMMA InsideFits ==
  ASSUME IndInv
  PROVE  /\ IsFiniteSet(Contract!Inside)
         /\ Cardinality(Contract!Inside) <= Len(ready) + Cardinality(inflight)
<1> DEFINE B == {m \in Msgs : Buffered(m)}
           L == {m \in Msgs : IsLeased(m)}
<1>1. Contract!Inside = B \cup L
  BY PlaceIs DEF Contract!Inside
<1>2. IsFiniteSet(B) /\ Cardinality(B) \in Nat /\ Cardinality(B) <= Len(ready)
  <2> DEFINE f == [p \in 1..Len(ready) |-> ready[p].msg]
  <2>1. f \in Surjection(1..Len(ready), B)
    <3>1. \A p \in 1..Len(ready) : f[p] \in B
      BY ReadyMsgs, Counts DEF Buffered
    <3>2. \A m \in B : \E p \in 1..Len(ready) : f[p] = m
      BY Counts DEF Buffered
    <3>3. f \in [1..Len(ready) -> B]
      BY <3>1
    <3> HIDE DEF f
    <3> QED
      BY <3>2, <3>3 DEF Surjection
  <2>2. Len(ready) \in Nat
    BY Counts
  <2>3. IsFiniteSet(1..Len(ready)) /\ Cardinality(1..Len(ready)) = Len(ready)
    <3> DEFINE n == Len(ready)
    <3>1. n \in Nat
      BY <2>2
    <3> HIDE DEF n
    <3>2. IsFiniteSet(1..n) /\ Cardinality(1..n) = n
      BY <3>1, FS_Interval
    <3> QED
      BY <3>2 DEF n
  <2> HIDE DEF f, B
  <2>4. IsFiniteSet(B) /\ Cardinality(B) <= Cardinality(1..Len(ready))
    BY <2>1, <2>3, FS_Surjection
  <2> QED
    BY <2>3, <2>4, FS_CardinalityType
<1>3. IsFiniteSet(L) /\ Cardinality(L) \in Nat /\ Cardinality(L) <= Cardinality(inflight)
  <2> DEFINE f == [l \in inflight |-> l.msg]
  <2>1. f \in Surjection(inflight, L)
    <3>1. \A l \in inflight : f[l] \in L
      BY DEF IsLeased, IndInv, TypeOK
    <3>2. \A m \in L : \E l \in inflight : f[l] = m
      BY DEF IsLeased
    <3>3. f \in [inflight -> L]
      BY <3>1
    <3> HIDE DEF f
    <3> QED
      BY <3>2, <3>3 DEF Surjection
  <2>2. IsFiniteSet(inflight)
    BY DEF IndInv, Counted
  <2> HIDE DEF f, L
  <2>3. IsFiniteSet(L) /\ Cardinality(L) <= Cardinality(inflight)
    BY <2>1, <2>2, FS_Surjection
  <2> QED
    BY <2>3, FS_CardinalityType
<1>4. /\ IsFiniteSet(B \cup L) /\ Cardinality(B \cap L) \in Nat
      /\ Cardinality(B \cup L) = Cardinality(B) + Cardinality(L) - Cardinality(B \cap L)
  <2> HIDE DEF B, L
  <2>1. /\ IsFiniteSet(B \cup L)
        /\ Cardinality(B \cup L) = Cardinality(B) + Cardinality(L) - Cardinality(B \cap L)
    BY <1>2, <1>3, FS_Union
  <2>2. IsFiniteSet(B \cap L)
    BY <1>2, FS_Intersection, Zenon
  <2> QED
    BY <2>1, <2>2, FS_CardinalityType
<1> HIDE DEF B, L
<1> QED
  BY <1>1, <1>2, <1>3, <1>4, Counts, SMTT(30)

(* The places after a step, and a step that moves one message. *)
LEMMA PlaceNext ==
  \A m \in Msgs :
    Place'[m] = IF call'[m] \in {"new", "append", "shed"} THEN "outside"
                ELSE IF call'[m] \in {"refused", "evicted"} \/ settled'[m] = "dropped" THEN "dropped"
                ELSE IF settled'[m] = "acked" THEN "acked"
                ELSE IF \E l \in inflight' : l.msg = m THEN "leased" ELSE "buffered"
  BY DEF Place

(* The places before a step. *)
LEMMA PlaceNow ==
  \A m \in Msgs :
    Place[m] = IF call[m] \in {"new", "append", "shed"} THEN "outside"
               ELSE IF call[m] \in {"refused", "evicted"} \/ settled[m] = "dropped" THEN "dropped"
               ELSE IF settled[m] = "acked" THEN "acked"
               ELSE IF \E l \in inflight : l.msg = m THEN "leased" ELSE "buffered"
  BY DEF Place

(* Where no message moves the contract sees nothing. *)
LEMMA SamePlaces ==
  ASSUME \A m \in Msgs : Place'[m] = Place[m]
  PROVE  Place' = Place
  BY DEF Place

(* A message whose call, settle and leases do not change stays. *)
LEMMA SameHere ==
  ASSUME NEW m \in Msgs, call'[m] = call[m], settled'[m] = settled[m], inflight' = inflight
  PROVE  Place'[m] = Place[m]
  BY PlaceNext, PlaceNow

(* So does one that another call of Enqueue leaves alone. *)
LEMMA UnmovedStays ==
  ASSUME UNCHANGED <<inflight, settled>>, NEW m \in Msgs, call'[m] = call[m]
  PROVE  Place'[m] = Place[m]
  BY PlaceNext, PlaceNow

(* A step that moves one message, as the contract writes it. *)
LEMMA OneMoves ==
  ASSUME NEW m \in Msgs, NEW v, Place'[m] = v, \A n \in Msgs : n # m => Place'[n] = Place[n]
  PROVE  Place' = [Place EXCEPT ![m] = v]
<1> DEFINE f == [Place EXCEPT ![m] = v]
<1>1. f = [n \in Msgs |-> IF n = m THEN v ELSE Place[n]]
  BY Zenon DEF Place
<1>2. Place' = [n \in Msgs |-> Place'[n]]
  BY DEF Place
<1> HIDE DEF f
<1>3. \A n \in Msgs : Place'[n] = IF n = m THEN v ELSE Place[n]
  OBVIOUS
<1>4. [n \in Msgs |-> Place'[n]] = [n \in Msgs |-> IF n = m THEN v ELSE Place[n]]
  BY <1>3
<1> QED
  BY <1>1, <1>2, <1>4 DEF f

(* Enqueue appends to a store that has room: the slot it took is not yet   *)
(* counted by an entry or a lease.                                         *)
LEMMA AppendRefines ==
  ASSUME IndInv, NEW m \in Msgs, Append1(m)
  PROVE  Contract!Enqueue(m)
<1>1. call[m] = "append" /\ call' = [call EXCEPT ![m] = "in"] /\ UNCHANGED <<inflight, settled>>
  BY DEF Append1
<1>2. Place[m] = "outside" /\ settled[m] = "no" /\ ~IsLeased(m)
  BY <1>1, PlaceNow, Outside
<1>3. \A n \in Msgs : call'[n] = IF n = m THEN "in" ELSE call[n]
  BY <1>1 DEF IndInv, TypeOK
<1>4. Place'[m] = "buffered" /\ \A n \in Msgs : n # m => Place'[n] = Place[n]
  BY <1>1, <1>2, <1>3, PlaceNext, PlaceNow DEF IsLeased
<1>5. Cardinality(Contract!Inside) < Capacity
  <2>1. Cardinality(Appending) # 0
    <3>1. m \in Appending /\ IsFiniteSet(Appending)
      BY <1>1 DEF Appending, IndInv, Counted
    <3> QED
      BY <3>1, FS_EmptySet
  <2>2. /\ Cardinality(Contract!Inside) <= Len(ready) + Cardinality(inflight)
        /\ Cardinality(Contract!Inside) \in Nat
    BY InsideFits, FS_CardinalityType
  <2>3. sem \in 0..Capacity /\ releasing \in Nat /\ Capacity \in Nat
    BY QueueStoreAssumption DEF QueueStoreAssumption, IndInv, TypeOK
  <2> QED
    BY <2>1, <2>2, <2>3, Counts
<1>6. Contract!Cardinality(Contract!Inside) = Cardinality(Contract!Inside)
  BY Zenon DEF Contract!Cardinality, Cardinality
<1>7. Place' = [Place EXCEPT ![m] = "buffered"]
  BY <1>4, OneMoves
<1> QED
  BY <1>2, <1>5, <1>6, <1>7 DEF Contract!Enqueue

(* An Enqueue that gives up. *)
LEMMA RefusalRefines ==
  ASSUME IndInv, NEW m \in Msgs, call[m] \in {"new", "shed"}, call' = [call EXCEPT ![m] = "refused"],
         UNCHANGED <<inflight, settled>>
  PROVE  Contract!TurnAway(m)
<1>1. Place[m] = "outside"
  BY PlaceNow
<1>2. \A n \in Msgs : call'[n] = IF n = m THEN "refused" ELSE call[n]
  BY DEF IndInv, TypeOK
<1>3. Place'[m] = "dropped" /\ \A n \in Msgs : n # m => Place'[n] = Place[n]
  BY <1>2, PlaceNext, PlaceNow
<1>4. Place' = [Place EXCEPT ![m] = "dropped"]
  BY <1>3, OneMoves
<1> QED
  BY <1>1, <1>4 DEF Contract!TurnAway

(* An Enqueue that goes on is still outside. *)
LEMMA ProgressStutters ==
  ASSUME IndInv, NEW m \in Msgs, call[m] = "new", NEW to \in {"append", "shed"},
         call' = [call EXCEPT ![m] = to], UNCHANGED <<inflight, settled>>
  PROVE  UNCHANGED Place
<1>1. \A n \in Msgs : call'[n] = IF n = m THEN to ELSE call[n]
  BY DEF IndInv, TypeOK
<1>2. \A n \in Msgs : Place'[n] = Place[n]
  BY <1>1, PlaceNext, PlaceNow
<1> QED
  BY <1>2, SamePlaces

(* The victim of dropOldest is buffered, not leased. *)
LEMMA EvictRefines ==
  ASSUME IndInv, NEW m \in Msgs, Shed(m), overflow = "dropOldest", ready # <<>>
  PROVE  \E v \in Msgs : Contract!Evict(v, m)
<1> DEFINE v == ready[1].msg
<1>1. /\ call[m] = "shed" /\ call' = [call EXCEPT ![v] = "evicted", ![m] = "in"]
      /\ UNCHANGED <<inflight, settled>>
  BY DEF Shed
<1>2. 1 \in DOMAIN ready
  BY Counts DEF IndInv, TypeOK
<1>3. v \in Msgs /\ Buffered(v)
  BY <1>2, ReadyMsgs DEF Buffered
<1> HIDE DEF v
<1>4. Place[v] = "buffered" /\ ~IsLeased(v) /\ settled[v] = "no" /\ call[v] = "in"
  BY <1>3, PlaceIs DEF IndInv, OnePlace
<1>5. Place[m] = "outside" /\ ~IsLeased(m) /\ settled[m] = "no" /\ v # m
  BY <1>1, <1>4, PlaceNow, Outside
<1>6. \A n \in Msgs : call'[n] = IF n = m THEN "in" ELSE IF n = v THEN "evicted" ELSE call[n]
  BY <1>1, <1>3 DEF IndInv, TypeOK
<1>7. /\ Place'[m] = "buffered" /\ Place'[v] = "dropped"
      /\ \A n \in Msgs : n # m /\ n # v => Place'[n] = Place[n]
  <2>1. Place'[m] = "buffered"
    <3>1. call'[m] = "in" /\ settled'[m] = "no" /\ ~(\E l \in inflight' : l.msg = m)
      BY <1>1, <1>5, <1>6, Zenon DEF IsLeased
    <3> QED
      BY <3>1, PlaceNext
  <2>2. Place'[v] = "dropped"
    BY <1>3, <1>5, <1>6, PlaceNext
  <2>3. ASSUME NEW n \in Msgs, n # m, n # v PROVE Place'[n] = Place[n]
    <3>1. call'[n] = call[n]
      BY <1>6, <2>3
    <3> QED
      BY <1>1, <3>1, UnmovedStays, Zenon
  <2> QED
    BY <2>1, <2>2, <2>3
<1>8. Place' = [Place EXCEPT ![v] = "dropped", ![m] = "buffered"]
  <2>1. [Place EXCEPT ![v] = "dropped", ![m] = "buffered"]
          = [n \in Msgs |-> IF n = m THEN "buffered" ELSE IF n = v THEN "dropped" ELSE Place[n]]
    BY <1>3, Zenon DEF Place
  <2>2. \A n \in Msgs : Place'[n] = IF n = m THEN "buffered" ELSE IF n = v THEN "dropped" ELSE Place[n]
    BY <1>7
  <2>3. Place' = [n \in Msgs |-> Place'[n]]
    BY DEF Place
  <2>4. [n \in Msgs |-> Place'[n]]
          = [n \in Msgs |-> IF n = m THEN "buffered" ELSE IF n = v THEN "dropped" ELSE Place[n]]
    BY <2>2
  <2> QED
    BY <2>1, <2>3, <2>4
<1> QED
  BY <1>3, <1>4, <1>5, <1>8, ZenonT(30) DEF Contract!Evict

(* The messages of the entries a claim takes become leased. *)
LEMMA ClaimRefines ==
  ASSUME IndInv, NEW max \in Nat, Claim(max)
  PROVE  \E S \in SUBSET Msgs : Contract!Claim(S)
<1> DEFINE S == {ready[i].msg : i \in Taken(max)}
<1>1. PICK new : /\ inflight' = inflight \cup new
                 /\ \A l \in new : \E i \in Taken(max) : l.msg = ready[i].msg
                 /\ \A i \in Taken(max) : \E l \in new : l.msg = ready[i].msg
  BY ClaimLeases, Zenon
<1>2. UNCHANGED <<call, settled>>
  BY DEF Claim
<1>3. \A m \in S : m \in Msgs /\ Buffered(m)
  <2>1. Taken(max) \subseteq DOMAIN ready
    BY TakenFirst, Counts
  <2> QED
    BY <2>1, ReadyMsgs DEF Buffered
<1>4. \A m \in S : Place[m] = "buffered" /\ call[m] = "in" /\ settled[m] = "no"
  BY <1>3, PlaceIs DEF IndInv, OnePlace
<1>5. \A m : (\E l \in inflight' : l.msg = m) <=> (\E l \in inflight : l.msg = m) \/ m \in S
  BY <1>1
<1> HIDE DEF S
<1>6. ASSUME NEW m \in Msgs PROVE Place'[m] = IF m \in S THEN "leased" ELSE Place[m]
  <2>1. CASE m \in S
    <3>1. call'[m] = "in" /\ settled'[m] = "no" /\ \E l \in inflight' : l.msg = m
      BY <1>2, <1>4, <1>5, <2>1
    <3> QED
      BY <2>1, <3>1, PlaceNext
  <2>2. CASE m \notin S
    <3>1. /\ call'[m] = call[m] /\ settled'[m] = settled[m]
          /\ (\E l \in inflight' : l.msg = m) <=> (\E l \in inflight : l.msg = m)
      BY <1>2, <1>5, <2>2
    <3> QED
      BY <2>2, <3>1, PlaceNext, PlaceNow
  <2> QED
    BY <2>1, <2>2
<1>7. Place' = [m \in Msgs |-> IF m \in S THEN "leased" ELSE Place[m]]
  <2>1. Place' = [m \in Msgs |-> Place'[m]]
    BY DEF Place
  <2> QED
    BY <1>6, <2>1
<1>8. S \in SUBSET Msgs
  BY <1>3
<1> QED
  BY <1>4, <1>7, <1>8 DEF Contract!Claim

(* An Ack or a drop settles the one message of a live lease; a late one    *)
(* finds no lease and does nothing.                                        *)
LEMMA TakeOutRefines ==
  ASSUME IndInv, NEW e \in held, NEW how \in {"acked", "dropped"}, TakeOut(e, how)
  PROVE  (\E m \in Msgs : Contract!Settle(m, how)) \/ UNCHANGED Place
<1>1. /\ inflight' = inflight \ Lease(e) /\ UNCHANGED call
      /\ \A m \in Msgs : settled'[m] = IF m \in Leased(e) THEN how ELSE settled[m]
  BY DEF TakeOut
<1>2. CASE Lease(e) = {}
  <2>1. Leased(e) = {}
    BY <1>2 DEF Leased
  <2>2. inflight' = inflight
    BY <1>1, <1>2
  <2>3. ASSUME NEW m \in Msgs PROVE Place'[m] = Place[m]
    <3>1. call'[m] = call[m] /\ settled'[m] = settled[m]
      BY <1>1, <2>1
    <3> QED
      BY <2>2, <3>1, SameHere
  <2> QED
    BY <2>3, SamePlaces
<1>3. CASE Lease(e) # {}
  <2>1. PICK k \in inflight : k \in Lease(e)
    BY <1>3 DEF Lease
  <2> DEFINE m == k.msg
  <2>2. Lease(e) = {k}
    BY <2>1 DEF Lease, IndInv, OwnEpoch
  <2>3. m \in Msgs /\ Leased(e) = {m} /\ IsLeased(m)
    BY <2>1, <2>2 DEF Leased, IsLeased, IndInv, TypeOK
  <2>4. \A n \in Msgs : n # m => ((\E l \in inflight' : l.msg = n) <=> (\E l \in inflight : l.msg = n))
    <3>1. \A l : l \in inflight' <=> l \in inflight /\ l # k
      BY <1>1, <2>2
    <3> QED
      BY <3>1
  <2> HIDE DEF m
  <2>5. Place[m] = "leased" /\ call[m] = "in"
    BY <2>3, PlaceIs, Zenon DEF IndInv, OnePlace
  <2>6. Place'[m] = how
    <3>1. call'[m] = "in" /\ settled'[m] = how
      BY <1>1, <2>3, <2>5
    <3> QED
      BY <2>3, <3>1, PlaceNext
  <2>7. ASSUME NEW n \in Msgs, n # m PROVE Place'[n] = Place[n]
    <3>1. call'[n] = call[n] /\ settled'[n] = settled[n]
      BY <1>1, <2>3, <2>7
    <3> QED
      BY <2>4, <2>7, <3>1, PlaceNext, PlaceNow
  <2>8. Place' = [Place EXCEPT ![m] = how]
    BY <2>3, <2>6, <2>7, OneMoves
  <2> QED
    BY <2>3, <2>5, <2>8, Zenon DEF Contract!Settle
<1> QED
  BY <1>2, <1>3

(* A requeue moves the message of a lease back to the buffer. *)
LEMMA RequeueRefines ==
  ASSUME IndInv, NEW e \in held, NEW due \in BOOLEAN, Requeue(e, due)
  PROVE  \E m \in Msgs : Contract!Settle(m, "buffered")
<1>1. PICK k \in inflight : inflight' = inflight \ {k} /\ UNCHANGED <<call, settled>>
  BY DEF Requeue, Lease
<1> DEFINE m == k.msg
<1>2. m \in Msgs /\ IsLeased(m)
  BY DEF IsLeased, IndInv, TypeOK
<1>3. ~\E l \in inflight' : l.msg = m
  BY <1>1 DEF IndInv, OnePlace
<1>4. \A n \in Msgs : n # m => ((\E l \in inflight' : l.msg = n) <=> (\E l \in inflight : l.msg = n))
  BY <1>1
<1> HIDE DEF m
<1>5. Place[m] = "leased" /\ call[m] = "in" /\ settled[m] = "no"
  BY <1>2, PlaceIs DEF IndInv, OnePlace
<1>6. Place'[m] = "buffered"
  <2>1. call'[m] = "in" /\ settled'[m] = "no"
    BY <1>1, <1>5
  <2> QED
    BY <1>2, <1>3, <2>1, PlaceNext
<1>7. ASSUME NEW n \in Msgs, n # m PROVE Place'[n] = Place[n]
  <2>1. call'[n] = call[n] /\ settled'[n] = settled[n]
    BY <1>1
  <2> QED
    BY <1>4, <1>7, <2>1, PlaceNext, PlaceNow
<1>8. Place' = [Place EXCEPT ![m] = "buffered"]
  BY <1>2, <1>6, <1>7, OneMoves
<1> QED
  BY <1>2, <1>5, <1>8, Zenon DEF Contract!Settle

(* Every step is a step of the contract or invisible to it. *)
LEMMA StepRefines ==
  ASSUME IndInv, [Next]_vars
  PROVE  (Contract!Next \/ UNCHANGED Place) /\ UNCHANGED overflow
<1>1. ASSUME UNCHANGED <<call, inflight, settled>> PROVE UNCHANGED Place
  BY <1>1 DEF Place
<1>2. ASSUME NEW m \in Msgs, TakeSlot(m)
      PROVE  UNCHANGED Place /\ UNCHANGED overflow
  BY <1>2, ProgressStutters, Zenon DEF TakeSlot
<1>3. ASSUME NEW m \in Msgs, NoSlot(m)
      PROVE  (Contract!TurnAway(m) \/ UNCHANGED Place) /\ UNCHANGED overflow
  <2>1. CASE overflow = "block"
    BY <1>3, <2>1, RefusalRefines DEF NoSlot
  <2>2. CASE overflow # "block"
    BY <1>3, <2>2, ProgressStutters DEF NoSlot
  <2> QED
    BY <2>1, <2>2
<1>4. ASSUME NEW m \in Msgs, Append1(m)
      PROVE  Contract!Enqueue(m) /\ UNCHANGED overflow
  BY <1>4, AppendRefines, Zenon DEF Append1
<1>5. ASSUME NEW m \in Msgs, Shed(m)
      PROVE  (Contract!TurnAway(m) \/ \E v \in Msgs : Contract!Evict(v, m)) /\ UNCHANGED overflow
  <2>1. CASE overflow = "dropOldest" /\ ready # <<>>
    <3>1. UNCHANGED overflow
      BY <1>5 DEF Shed
    <3> QED
      BY <1>5, <2>1, <3>1, EvictRefines
  <2>2. CASE ~(overflow = "dropOldest" /\ ready # <<>>)
    <3>1. /\ call[m] = "shed" /\ call' = [call EXCEPT ![m] = "refused"]
          /\ UNCHANGED <<inflight, settled>> /\ UNCHANGED overflow
      BY <1>5, <2>2 DEF Shed
    <3> QED
      BY <3>1, RefusalRefines, Zenon
  <2> QED
    BY <2>1, <2>2
<1>6. ASSUME NEW max \in 1..MaxClaim, Claim(max)
      PROVE  (\E S \in SUBSET Msgs : Contract!Claim(S)) /\ UNCHANGED overflow
  <2>1. max \in Nat
    BY QueueStoreAssumption DEF QueueStoreAssumption
  <2>2. UNCHANGED overflow
    BY <1>6 DEF Claim
  <2> QED
    BY <1>6, <2>1, <2>2, ClaimRefines
<1>7. ASSUME NEW e \in held, Ack(e) \/ NackDrop(e)
      PROVE  /\ \/ \E m \in Msgs, to \in {"acked", "buffered", "dropped"} : Contract!Settle(m, to)
                \/ UNCHANGED Place
             /\ UNCHANGED overflow
  <2>1. PICK how \in {"acked", "dropped"} : TakeOut(e, how)
    BY <1>7 DEF Ack, NackDrop
  <2>2. UNCHANGED overflow
    BY <2>1 DEF TakeOut
  <2>3. (\E m \in Msgs : Contract!Settle(m, how)) \/ UNCHANGED Place
    BY <2>1, TakeOutRefines
  <2> QED
    BY <2>2, <2>3
<1>8. ASSUME NEW e \in held, NEW due \in BOOLEAN, Requeue(e, due)
      PROVE  /\ \E m \in Msgs, to \in {"acked", "buffered", "dropped"} : Contract!Settle(m, to)
             /\ UNCHANGED overflow
  <2>1. UNCHANGED overflow
    BY <1>8 DEF Requeue
  <2>2. \E m \in Msgs : Contract!Settle(m, "buffered")
    BY <1>8, RequeueRefines
  <2> QED
    BY <2>1, <2>2
<1>9. ASSUME FreeSlot \/ (\E i \in DOMAIN ready : Mature(i)) \/ (\E e \in held : Forget(e))
             \/ Quiet \/ UNCHANGED vars
      PROVE  UNCHANGED Place /\ UNCHANGED overflow
  <2>1. UNCHANGED <<call, inflight, settled>> /\ UNCHANGED overflow
    BY <1>9 DEF FreeSlot, Mature, Forget, Quiet, vars
  <2> QED
    BY <1>1, <2>1
<1> QED
  BY <1>2, <1>3, <1>4, <1>5, <1>6, <1>7, <1>8, <1>9, ZenonT(30) DEF Next, Contract!Next

(* The empty store is the initial state of the contract. *)
LEMMA InitRefines ==
  ASSUME Init
  PROVE  Contract!Init
  BY DEF Init, Contract!Init, Place

(* The store keeps the contract of a bounded channel store: every run of   *)
(* QueueStore, seen through where it has each message, is one of the       *)
(* contract. Its interleavings of the semaphore with the lock, its epochs  *)
(* and its late settles add nothing a caller could see.                    *)
THEOREM Refines == Spec => Implements
<1>1. IndInv /\ [Next]_vars
      => [Contract!Next /\ UNCHANGED (overflow = "dropOldest")]_<<Place, overflow = "dropOldest">>
  BY StepRefines
<1> QED
  BY <1>1, InitRefines, Invariance, PTL DEF Spec, Implements, Contract!Spec
=============================================================================
