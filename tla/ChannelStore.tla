---------------------------- MODULE ChannelStore ----------------------------
(***************************************************************************)
(* What a bounded channel store promises to a queue channel: the contract  *)
(* of msgin.ChannelStore as the in-memory store keeps it. A message that   *)
(* was taken in leaves only through a settle by the holder of its lease,   *)
(* or as the victim of an overflow policy that drops; and there are never  *)
(* more than Capacity messages inside.                                     *)
(***************************************************************************)
EXTENDS Integers, FiniteSets

CONSTANTS Msgs, Capacity

VARIABLES
  place,  \* where the store has each message
  evicts  \* the overflow policy drops buffered messages; it never changes

Inside == {m \in Msgs : place[m] \in {"buffered", "leased"}}

Init ==
  /\ place = [m \in Msgs |-> "outside"]
  /\ evicts \in BOOLEAN

Enqueue(m) ==
  /\ place[m] = "outside"
  /\ Cardinality(Inside) < Capacity
  /\ place' = [place EXCEPT ![m] = "buffered"]

(* A full store drops a buffered message in favour of a new one. *)
Evict(old, new) ==
  /\ evicts
  /\ place[old] = "buffered"
  /\ place[new] = "outside"
  /\ place' = [place EXCEPT ![old] = "dropped", ![new] = "buffered"]

(* A new message is turned away. *)
TurnAway(m) ==
  /\ place[m] = "outside"
  /\ place' = [place EXCEPT ![m] = "dropped"]

Claim(S) ==
  /\ \A m \in S : place[m] = "buffered"
  /\ place' = [m \in Msgs |-> IF m \in S THEN "leased" ELSE place[m]]

Settle(m, to) ==
  /\ place[m] = "leased"
  /\ place' = [place EXCEPT ![m] = to]

Next ==
  \/ \E m \in Msgs : Enqueue(m) \/ TurnAway(m)
  \/ \E m, n \in Msgs : Evict(m, n)
  \/ \E S \in SUBSET Msgs : Claim(S)
  \/ \E m \in Msgs, to \in {"acked", "buffered", "dropped"} : Settle(m, to)

Spec == Init /\ [][Next /\ UNCHANGED evicts]_<<place, evicts>>
=============================================================================
