-------------------------- MODULE MemoryGroupStore --------------------------
(***************************************************************************)
(* memory.GroupStore. Every method holds the mutex and is one step. A      *)
(* group's members are the claimed prefix and the live rest of one slice   *)
(* in the code; here they are told apart by their stamp, as nothing        *)
(* depends on the order of arrival, and the set of seen ids is the set of  *)
(* the members. A lease has no owner in the code and never lapses.         *)
(***************************************************************************)
EXTENDS GroupTables

maxGroupsCeiling == 2^20

NewGroupStore(maxGroups, maxGroupMembers) ==
  IF maxGroups \in 1..maxGroupsCeiling /\ maxGroupMembers \in 1..maxGroupsCeiling
  THEN "nil" ELSE "ErrInvalidCapacity"

Groups(db) == {k \in Keys : db.group[k] # NoGroup}

(* Add refuses a group too many without a snapshot, and a member too many  *)
(* with one; nothing drains a group that is not leased.                    *)
Add(db, k, m, maxMembers) ==
  LET isNew == k \notin Groups(db)
      row == IF isNew THEN NewGroup ELSE db.group[k]
      live == Where(db, k, {Null})
  IN IF isNew /\ Cardinality(Groups(db)) >= MaxGroups
     THEN [db |-> db, err |-> "noGroup", live |-> {}]
     ELSE IF m \in Rows(db, k)
     THEN [db |-> db, err |-> "nil", live |-> live]
     ELSE IF Cardinality(Rows(db, k)) >= maxMembers
     THEN [db |-> db, err |-> IF Leased(row) THEN "full" ELSE "fullPermanent", live |-> live]
     ELSE [db |-> Stamp([db EXCEPT !.group[k] = row], k, {m}, Null), err |-> "nil",
           live |-> live \cup {m}]

ClaimGroup(db, k, by) ==
  LET e == db.group[k].epoch + 1
  IN IF k \notin Groups(db) \/ Leased(db.group[k]) THEN [db |-> db, claim |-> Nil]
     ELSE [db |-> Stamp([db EXCEPT !.group[k].epoch = e, !.group[k].by = by], k, Rows(db, k), e),
           claim |-> [epoch |-> e, members |-> Rows(db, k)]]

(* A settle or an abandon with another epoch than the lease's is a no-op. *)
Current(db, k, e) == Leased(db.group[k]) /\ db.group[k].epoch = e

(* Slip: the settle deletes the group with what arrived during the lease. *)
SettleDropsResidual(db, k, by, e) ==
  IF ~Current(db, k, e) THEN db
  ELSE Stamp([db EXCEPT !.group[k] = NoGroup], k, Msgs, Absent)

(* What arrived during the lease stays as a group that is new to expiry;   *)
(* without it the group is gone.                                           *)
SettleGroup(db, k, by, e) ==
  LET residual == Where(db, k, {Null})
      row == [Unlocked(db.group[k]) EXCEPT !.old = FALSE]
  IN IF ~Current(db, k, e) THEN db
     ELSE Stamp([db EXCEPT !.group[k] = IF residual = {} THEN NoGroup ELSE row],
                k, Where(db, k, {e}), Absent)

AbandonGroup(db, k, by, e) ==
  IF ~Current(db, k, e) THEN db
  ELSE Stamp([db EXCEPT !.group[k] = Unlocked(@)], k, Where(db, k, {e}), Null)

(* The groups created before the cutoff that are not leased. *)
Expired(db, beforeSet) ==
  {k \in Groups(db) : db.group[k].old /\ ~Leased(db.group[k])}
=============================================================================
