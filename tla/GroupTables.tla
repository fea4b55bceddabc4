---------------------------- MODULE GroupTables -----------------------------
(***************************************************************************)
(* What a MessageGroupStore holds: the group rows and the member rows of   *)
(* the SQL stores, and, in the same shape, the map of the memory store.    *)
(* The value is called db; every operator of the store modules takes one   *)
(* and returns the next, so that one transaction is one step.              *)
(*                                                                         *)
(* Times are kept as what the queries ask of them: whether the lease is    *)
(* older than its time to live, and whether the group was created before   *)
(* the cutoff of the last sweep.                                           *)
(***************************************************************************)
EXTENDS Integers, Sequences, FiniteSets

CONSTANTS
  Keys,             \* correlation keys
  Msgs,             \* messages, each with an id of its own
  MaxGroups,        \* WithMaxGroups of the memory store
  NoOwner           \* a locked_by that is NULL

ASSUME GroupTablesAssumption ==
  /\ IsFiniteSet(Keys) /\ IsFiniteSet(Msgs)
  /\ MaxGroups \in Nat \ {0}

(* claimed_epoch of a member row: the row is not there, NULL (the member   *)
(* is live), or the epoch of the claim that covers it, which is above 0.   *)
Absent == -1
Null == 0

NewGroup == [epoch |-> 0, by |-> NoOwner, lapsed |-> FALSE, old |-> FALSE]
NoGroup == [NewGroup EXCEPT !.epoch = -1]

EmptyDB ==
  [tables |-> {},
   group |-> [k \in Keys |-> NoGroup],
   member |-> [k \in Keys |-> [m \in Msgs |-> Absent]]]

maxGroupMembersCeiling == 2^20
UnboundedGroupMembers == -1

(* No limit, or a limit that makes sense; any other fails for ever. *)
ValidateMaxMembers(maxMembers) ==
  IF maxMembers = UnboundedGroupMembers \/ maxMembers \in 1..maxGroupMembersCeiling
  THEN "nil" ELSE "ErrInvalidCapacity"

Exceeds(n, maxMembers) == maxMembers # UnboundedGroupMembers /\ n > maxMembers

(* The rows of key k whose claimed_epoch is in C. *)
Where(db, k, C) == {m \in Msgs : db.member[k][m] \in C}

Rows(db, k) == {m \in Msgs : db.member[k][m] # Absent}

(* UPDATE (or DELETE, by setting Absent) of the member rows S of key k. *)
Stamp(db, k, S, c) ==
  [db EXCEPT !.member[k] = [m \in Msgs |-> IF m \in S THEN c ELSE @[m]]]

Leased(row) == row.by # NoOwner

(* The lease is cleared. *)
Unlocked(row) == [row EXCEPT !.by = NoOwner, !.lapsed = FALSE]

(* What the next statement of a DDL (CREATE ... IF NOT EXISTS each) leaves, *)
(* if one is left.                                                         *)
Executed(db, ddl) ==
  LET missing == {n \in DOMAIN ddl : ddl[n] \notin db.tables}
  IN {[db EXCEPT !.tables = @ \cup {ddl[n]}] : n \in {n \in missing : \A x \in missing : n <= x}}

(* No claim: ClaimGroup returned nil. *)
Nil == [epoch |-> -1, members |-> {}]
=============================================================================
