----------------------------- MODULE QueueStore -----------------------------
(***************************************************************************)
(* memory.QueueStore, the in-memory buffer behind channel.QueueChannel: a  *)
(* FIFO with leases, bounded by a semaphore that is not under the mutex.   *)
(* Enqueue takes a slot before it appends, a settle removes the claim      *)
(* before it gives the slot back, and the overflow policy acts between the *)
(* failed attempt to take a slot and the lock.                             *)
(*                                                                         *)
(* A delivery's Ack and Nack are closures over an epoch, the fence: the    *)
(* holder may call them late, more than once, both, or never (Forget).     *)
(* Time is only visible through whether a requeued entry is due.           *)
(***************************************************************************)
EXTENDS Integers, Sequences, FiniteSets, TLC

CONSTANTS
  Msgs,      \* the messages producers enqueue, one Enqueue call each
  Capacity,  \* WithCapacity
  Overflows, \* the overflow policies to consider
  MaxClaim,  \* the largest max a poller asks for
  MaxEpoch   \* bound on the leases handed out

(* Which message is which makes no difference: for TLC. *)
Symmetry == Permutations(Msgs)

ASSUME QueueStoreAssumption ==
  /\ Capacity \in Nat \ {0}
  /\ Overflows \subseteq {"block", "dropNewest", "dropOldest", "reject"}
  /\ MaxClaim \in Nat \ {0}
  /\ MaxEpoch \in Nat

VARIABLES
  overflow,   \* WithOverflow, fixed when the store is made
  call,       \* where the Enqueue call of each message is, or what it returned
  sem,        \* slots taken
  ready,      \* the FIFO of entries [msg, due]
  inflight,   \* leases [epoch, msg]
  epoch,      \* the last epoch given out
  held,       \* epochs whose delivery someone may still settle
  releasing,  \* settles that have removed their claim and not yet freed the slot
  settled,    \* what a settle made of each message it took out
  order,      \* messages in the order Enqueue appended them
  claimed     \* messages that have been claimed at least once

vars == <<overflow, call, sem, ready, inflight, epoch, held, releasing, settled, order, claimed>>

Init ==
  /\ overflow \in Overflows
  /\ call = [m \in Msgs |-> "new"]
  /\ sem = 0
  /\ ready = <<>>
  /\ inflight = {}
  /\ epoch = 0
  /\ held = {}
  /\ releasing = 0
  /\ settled = [m \in Msgs |-> "no"]
  /\ order = <<>>
  /\ claimed = {}

Entry(m) == [msg |-> m, due |-> TRUE]

-----------------------------------------------------------------------------
(* Enqueue.                                                                *)

(* A slot is free. *)
TakeSlot(m) ==
  /\ call[m] = "new"
  /\ sem < Capacity
  /\ sem' = sem + 1
  /\ call' = [call EXCEPT ![m] = "append"]
  /\ UNCHANGED <<overflow, ready, inflight, epoch, held, releasing, settled, order, claimed>>

(* No slot is free: a blocking Enqueue waits until one is or its context   *)
(* is done, the others go on to shed.                                      *)
NoSlot(m) ==
  /\ call[m] = "new"
  /\ IF overflow = "block" THEN call' = [call EXCEPT ![m] = "refused"]
     ELSE sem >= Capacity /\ call' = [call EXCEPT ![m] = "shed"]
  /\ UNCHANGED <<overflow, sem, ready, inflight, epoch, held, releasing, settled, order, claimed>>

Append1(m) ==
  /\ call[m] = "append"
  /\ ready' = Append(ready, Entry(m))
  /\ order' = Append(order, m)
  /\ call' = [call EXCEPT ![m] = "in"]
  /\ UNCHANGED <<overflow, sem, inflight, epoch, held, releasing, settled, claimed>>

(* Slip: every policy but block evicts the head. *)
ShedAnyPolicy(m) ==
  /\ call[m] = "shed"
  /\ IF ready # <<>>
     THEN /\ ready' = Append(Tail(ready), Entry(m))
          /\ order' = Append(order, m)
          /\ call' = [call EXCEPT ![Head(ready).msg] = "evicted", ![m] = "in"]
     ELSE /\ call' = [call EXCEPT ![m] = "refused"]
          /\ UNCHANGED <<ready, order>>
  /\ UNCHANGED <<overflow, sem, inflight, epoch, held, releasing, settled, claimed>>

(* shed: dropOldest puts the newcomer in the place of the head of the      *)
(* FIFO, if there is one; otherwise the newcomer is dropped.               *)
Shed(m) ==
  /\ call[m] = "shed"
  /\ IF overflow = "dropOldest" /\ ready # <<>>
     THEN /\ ready' = Append(Tail(ready), Entry(m))
          /\ order' = Append(order, m)
          /\ call' = [call EXCEPT ![Head(ready).msg] = "evicted", ![m] = "in"]
     ELSE /\ call' = [call EXCEPT ![m] = "refused"]
          /\ UNCHANGED <<ready, order>>
  /\ UNCHANGED <<overflow, sem, inflight, epoch, held, releasing, settled, claimed>>

-----------------------------------------------------------------------------
(* Claim and settle.                                                       *)

Due == {i \in DOMAIN ready : ready[i].due}

(* Slip: the claim takes the newest entries first. *)
TakenFromTail(max) == {i \in Due : Cardinality({j \in Due : j >= i}) <= max}

(* The first max entries that are due. *)
Taken(max) == {i \in Due : Cardinality({j \in Due : j <= i}) <= max}

(* The members of a set of positions, in their order. *)
InOrder(S) ==
  CHOOSE f \in [1..Cardinality(S) -> S] :
    \A k, l \in 1..Cardinality(S) : k < l => f[k] < f[l]

(* Claim: every taken entry gets an epoch of its own, the rest stays in    *)
(* its order.                                                              *)
Claim(max) ==
  LET taken == Taken(max)
      kept == InOrder(DOMAIN ready \ taken)
      Rank(i) == Cardinality({j \in taken : j <= i})
  IN /\ taken # {}
     /\ epoch + Cardinality(taken) <= MaxEpoch
     /\ epoch' = epoch + Cardinality(taken)
     /\ inflight' = inflight \cup {[epoch |-> epoch + Rank(i), msg |-> ready[i].msg] : i \in taken}
     /\ held' = held \cup (epoch + 1)..epoch'
     /\ ready' = [k \in DOMAIN kept |-> ready[kept[k]]]
     /\ claimed' = claimed \cup {ready[i].msg : i \in taken}
     /\ UNCHANGED <<overflow, call, sem, releasing, settled, order>>

(* The lease of an epoch, if it has not been settled: at most one. *)
Lease(e) == {l \in inflight : l.epoch = e}
Leased(e) == {l.msg : l \in Lease(e)}

(* Slip: the slot is given back even if the claim was settled before. *)
TakeOutUnfenced(e, how) ==
  /\ e \in held
  /\ inflight' = inflight \ Lease(e)
  /\ settled' = [m \in Msgs |-> IF m \in Leased(e) THEN how ELSE settled[m]]
  /\ releasing' = releasing + 1
  /\ UNCHANGED <<overflow, call, sem, ready, epoch, held, order, claimed>>

(* The claim is removed under the lock; the slot is freed after the unlock,*)
(* only if there was a claim to remove.                                    *)
TakeOut(e, how) ==
  /\ e \in held
  /\ inflight' = inflight \ Lease(e)
  /\ settled' = [m \in Msgs |-> IF m \in Leased(e) THEN how ELSE settled[m]]
  /\ releasing' = releasing + Cardinality(Lease(e))
  /\ UNCHANGED <<overflow, call, sem, ready, epoch, held, order, claimed>>

Ack(e) == TakeOut(e, "acked")

(* Nack without requeue is a genuine drop. *)
NackDrop(e) == TakeOut(e, "dropped")

(* Nack with requeue: to the tail, due at once or later. It keeps its slot.*)
Requeue(e, due) ==
  /\ e \in held
  /\ \E l \in Lease(e) :
       /\ inflight' = inflight \ {l}
       /\ ready' = Append(ready, [msg |-> l.msg, due |-> due])
  /\ UNCHANGED <<overflow, call, sem, epoch, held, releasing, settled, order, claimed>>

(* The receive from the semaphore after the unlock. *)
FreeSlot ==
  /\ releasing > 0
  /\ sem > 0
  /\ releasing' = releasing - 1
  /\ sem' = sem - 1
  /\ UNCHANGED <<overflow, call, ready, inflight, epoch, held, settled, order, claimed>>

-----------------------------------------------------------------------------
(* The delay of a requeued entry has passed. *)
Mature(i) ==
  /\ i \in DOMAIN ready \ Due
  /\ ready' = [ready EXCEPT ![i].due = TRUE]
  /\ UNCHANGED <<overflow, call, sem, inflight, epoch, held, releasing, settled, order, claimed>>

(* A holder lets go of a delivery for good, settled or not. *)
Forget(e) ==
  /\ e \in held
  /\ held' = held \ {e}
  /\ UNCHANGED <<overflow, call, sem, ready, inflight, epoch, releasing, settled, order, claimed>>

(* Nothing left to do in a bounded instance. *)
Quiet ==
  /\ \A m \in Msgs : call[m] \notin {"new", "append", "shed"}
  /\ held = {} /\ releasing = 0
  /\ UNCHANGED vars

Next ==
  \/ \E m \in Msgs : TakeSlot(m) \/ NoSlot(m) \/ Append1(m) \/ Shed(m)
  \/ \E max \in 1..MaxClaim : Claim(max)
  \/ \E e \in held : \/ Ack(e) \/ NackDrop(e) \/ Forget(e)
                     \/ \E due \in BOOLEAN : Requeue(e, due)
  \/ FreeSlot
  \/ \E i \in DOMAIN ready : Mature(i)
  \/ Quiet

Spec == Init /\ [][Next]_vars

(* The steps the store takes by itself happen, time passes, and a poller   *)
(* claims what is due. Nobody has to settle a delivery it has let go of.   *)
FairSpec ==
  /\ Spec
  /\ WF_vars(FreeSlot)
  /\ WF_vars(\E max \in 1..MaxClaim : Claim(max))
  /\ WF_vars(\E i \in DOMAIN ready : Mature(i))
  /\ \A m \in Msgs : WF_vars(Append1(m) \/ Shed(m))

-----------------------------------------------------------------------------
(* Properties.                                                             *)

(* Every variable keeps its type. *)
TypeOK ==
  /\ overflow \in Overflows
  /\ call \in [Msgs -> {"new", "append", "shed", "in", "refused", "evicted"}]
  /\ sem \in 0..Capacity
  /\ ready \in Seq([msg : Msgs, due : BOOLEAN])
  /\ inflight \in SUBSET [epoch : 1..MaxEpoch, msg : Msgs]
  /\ epoch \in 0..MaxEpoch
  /\ held \in SUBSET (1..MaxEpoch)
  /\ releasing \in Nat
  /\ settled \in [Msgs -> {"no", "acked", "dropped"}]
  /\ order \in Seq(Msgs)
  /\ claimed \in SUBSET Msgs

(* Every slot is accounted for, in every interleaving of the semaphore     *)
(* with the mutex: by a buffered entry, a lease, an Enqueue about to       *)
(* append or a settle about to free it. So a settle never blocks on the    *)
(* semaphore, and no capacity leaks.                                       *)
SlotsAccounted ==
  sem = Len(ready) + Cardinality(inflight) + releasing
          + Cardinality({m \in Msgs : call[m] = "append"})

(* Claim leases in FIFO order: a message is first claimed only after every *)
(* message that Enqueue appended before it and no overflow has evicted.    *)
FIFO ==
  \A i, j \in DOMAIN order :
    i < j /\ order[j] \in claimed => order[i] \in claimed \/ call[order[i]] = "evicted"

(* The refinement mapping. *)
Place ==
  [m \in Msgs |->
     IF call[m] \in {"new", "append", "shed"} THEN "outside"
     ELSE IF call[m] \in {"refused", "evicted"} \/ settled[m] = "dropped" THEN "dropped"
     ELSE IF settled[m] = "acked" THEN "acked"
     ELSE IF \E l \in inflight : l.msg = m THEN "leased" ELSE "buffered"]

Contract == INSTANCE ChannelStore WITH place <- Place, evicts <- (overflow = "dropOldest")

(* The store keeps the contract of a bounded channel store. *)
Implements == Contract!Spec
=============================================================================
