---------------------------- MODULE MessageTable ----------------------------
(***************************************************************************)
(* What the message table and the inbox table of the SQL adapter hold. The *)
(* value is called db; every operator of the dialect modules takes one and *)
(* returns the next, so that one statement (or one transaction that runs   *)
(* to its end) is one step. A row of an open transaction carries the       *)
(* session that holds it.                                                  *)
(*                                                                         *)
(* Times are kept as what the queries ask of them: the rows in the order   *)
(* of visible_after with the number of them that are due, whether a lease  *)
(* is older than its time to live, and whether a mark is older than the    *)
(* retention of the purge.                                                 *)
(***************************************************************************)
EXTENDS Integers, Sequences, FiniteSets

CONSTANTS
  Msgs,        \* messages, each with a row id and a msg_id of its own
  Sessions,    \* who may hold a lease, a row or a mark
  Nobody,      \* a NULL locked_by, a row no open transaction holds
  MaxEpoch     \* bound: lease_epoch and delivery_count are not counted above it

ASSUME MessageTableAssumption ==
  /\ Nobody \notin Sessions
  /\ Sessions \cap {"none", "fresh", "aged"} = {}
  /\ MaxEpoch \in Nat \ {0}

NewRow == [by |-> Nobody, lapsed |-> FALSE, epoch |-> 0, count |-> 0, held |-> Nobody]
NoRow == [NewRow EXCEPT !.epoch = -1]

(* A mark of the inbox table: none, held by the open transaction of a      *)
(* session, committed, committed before the retention of the purge.        *)
Marks == Sessions \cup {"none", "fresh", "aged"}

NoTable ==
  [table |-> FALSE, order |-> <<>>, due |-> 0, row |-> [m \in Msgs |-> NoRow],
   inbox |-> "absent", mark |-> [m \in Msgs |-> "none"]]

Up(n) == IF n < MaxEpoch THEN n + 1 ELSE n

Leased(row) == row.by # Nobody
Unlocked(row) == [row EXCEPT !.by = Nobody, !.lapsed = FALSE]

(* The rows with visible_after <= now, the oldest first. *)
DueRows(db) == SubSeq(db.order, 1, db.due)

Due(db, m) == \E i \in 1..db.due : db.order[i] = m

Stored(db) == {m \in Msgs : db.row[m] # NoRow}

Without(s, m) == SelectSeq(s, LAMBDA x : x # m)
DueOthers(db, m) == Len(Without(DueRows(db), m))
Others(db, m) == Len(Without(db.order, m))

(* The row of m with its visible_after behind i of the others, due or not. *)
PlaceAt(db, m, i, isDue) ==
  [db EXCEPT !.order = SubSeq(Without(@, m), 1, i) \o <<m>>
                         \o SubSeq(Without(@, m), i + 1, Others(db, m)),
             !.due = IF isDue THEN DueOthers(db, m) + 1 ELSE DueOthers(db, m)]

(* visible_after = now + delay: behind all rows that are due, or, with a   *)
(* delay, behind all rows there are. The delays are taken to be alike.     *)
Place(db, m, delayed) ==
  IF delayed THEN PlaceAt(db, m, Others(db, m), FALSE)
  ELSE PlaceAt(db, m, DueOthers(db, m), TRUE)

(* ORDER BY visible_after LIMIT limit *)
Ahead(db, x, m) ==
  \E j \in DOMAIN db.order : db.order[j] = m /\ \E i \in 1..(j - 1) : db.order[i] = x

FirstOf(db, S, limit) ==
  {m \in S : Cardinality({x \in S : Ahead(db, x, m)}) < limit}

(* SET locked_by, locked_at, lease_epoch + 1, delivery_count + 1 *)
CountedUp(row) == [row EXCEPT !.epoch = Up(@), !.count = Up(@)]
LeasedTo(row, by) == [CountedUp(row) EXCEPT !.by = by, !.lapsed = FALSE]
Lease(db, S, by) ==
  [db EXCEPT !.row = [m \in Msgs |-> IF m \in S THEN LeasedTo(db.row[m], by) ELSE db.row[m]]]

(* FOR UPDATE in a transaction of by that stays open *)
HeldBy(row, by) == [row EXCEPT !.held = by]
Hold(db, S, by) ==
  [db EXCEPT !.row = [m \in Msgs |-> IF m \in S THEN HeldBy(db.row[m], by) ELSE db.row[m]]]

ClaimedRow(m, row) == [id |-> m, epoch |-> row.epoch, count |-> row.count, due |-> {}]

(* A row of the lock strategy: its count goes up in the transaction that   *)
(* stays open, which knows the rows that were due when it began.           *)
LockedRow(db, m) ==
  [ClaimedRow(m, db.row[m]) EXCEPT !.count = Up(@), !.due = {x \in Stored(db) \ {m} : Due(db, x)}]

Put(db, m, row) == [db EXCEPT !.row[m] = row]

Delete(db, m) ==
  [Put(db, m, NoRow) EXCEPT
     !.order = Without(@, m),
     !.due = DueOthers(db, m)]
=============================================================================
