------------------------ MODULE PostgresGroupDialect ------------------------
(***************************************************************************)
(* The group dialect of PostgreSQL. Each operation is one transaction that *)
(* locks the group row first, so that the operations on a key are serial   *)
(* and each leads from one value of db to the next.                        *)
(***************************************************************************)
EXTENDS GroupTables

(* An error rolls the transaction back. *)
pgRunInTx(db, tx, err) == IF err = "nil" THEN tx ELSE db

pgCountMembers(db, k) == Cardinality(Rows(db, k))

pgSelectMembers(db, k, claimedWhere) == Where(db, k, claimedWhere)

(* A refusal is worth retrying while a live lease drains the group. *)
groupOverflow(leaseLive) == IF leaseLive THEN "full" ELSE "fullPermanent"

withoutMember(members, m) == members \ {m}

(* The upsert returns the row it inserted or found and locked; the insert  *)
(* of the member returns a row only if it was not there.                   *)
AddMember(db, k, m, maxMembers) ==
  LET upserted == IF db.group[k] = NoGroup THEN NewGroup ELSE db.group[k]
      leaseLive == Leased(upserted) /\ ~upserted.lapsed
      inserted == m \notin Rows(db, k)
      locked == [db EXCEPT !.group[k] = upserted]
      tx == IF inserted THEN Stamp(locked, k, {m}, Null) ELSE locked
      overflow == inserted /\ Exceeds(pgCountMembers(tx, k), maxMembers)
      err == IF overflow THEN groupOverflow(leaseLive) ELSE "nil"
      members == pgSelectMembers(tx, k, {Null})
      invalid == ValidateMaxMembers(maxMembers)
  IN IF invalid # "nil" THEN [db |-> db, err |-> invalid, live |-> {}]
     ELSE [db |-> pgRunInTx(db, tx, err), err |-> err,
           live |-> IF overflow THEN withoutMember(members, m) ELSE members]

(* UPDATE ... RETURNING takes the lease and bumps the fence if the group   *)
(* is free or its lease has lapsed; the members of a lapsed claim are      *)
(* taken over with the live ones.                                          *)
ClaimGroup(db, k, by) ==
  LET row == db.group[k]
      e == row.epoch + 1
      free == row # NoGroup /\ (~Leased(row) \/ row.lapsed)
      leased == [db EXCEPT !.group[k] = [@ EXCEPT !.epoch = e, !.by = by, !.lapsed = FALSE]]
      tx == Stamp(leased, k, Where(db, k, 0..(e - 1)), e)
  IN IF free THEN [db |-> tx, claim |-> [epoch |-> e, members |-> pgSelectMembers(tx, k, {e})]]
     ELSE [db |-> db, claim |-> Nil]

pgLockGroup(db, k) == db.group[k] # NoGroup

(* The fence of the statements that touch the group row. *)
Fenced(db, k, by, e) == db.group[k].by = by /\ db.group[k].epoch = e

(* The members go by the epoch alone; the group row goes, or its lease is  *)
(* cleared for a residual, by the whole fence.                             *)
SettleGroup(db, k, by, e) ==
  LET tx == Stamp(db, k, Where(db, k, {e}), Absent)
      row == IF pgCountMembers(tx, k) > 0
             THEN [Unlocked(tx.group[k]) EXCEPT !.old = FALSE]
             ELSE NoGroup
  IN IF ~pgLockGroup(db, k) THEN db
     ELSE IF Fenced(tx, k, by, e) THEN [tx EXCEPT !.group[k] = row] ELSE tx

AbandonGroup(db, k, by, e) ==
  LET tx == Stamp(db, k, Where(db, k, {e}), Null)
  IN IF ~pgLockGroup(db, k) THEN db
     ELSE IF Fenced(tx, k, by, e) THEN [tx EXCEPT !.group[k] = Unlocked(@)] ELSE tx

(* Groups whose lease has lapsed, of any age, and unleased groups created  *)
(* before the cutoff if there is one.                                      *)
ExpiredGroups(db, beforeSet) ==
  {k \in Keys : LET row == db.group[k]
                IN \/ Leased(row) /\ row.lapsed
                   \/ beforeSet /\ row # NoGroup /\ ~Leased(row) /\ row.old}

(* The tables in the order they are made; an index changes no answer. *)
groupDDL == <<"group", "member">>

EnsureGroupSchema(db) == Executed(db, groupDDL)

(* The group table stands for both. *)
SchemaExists(db) == "group" \in db.tables
=============================================================================
