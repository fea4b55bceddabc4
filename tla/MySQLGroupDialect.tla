------------------------- MODULE MySQLGroupDialect --------------------------
(***************************************************************************)
(* The group dialect of MySQL: no RETURNING, so what a statement did is    *)
(* read back under the row lock it took, or from the affected rows.        *)
(***************************************************************************)
EXTENDS GroupTables

mysqlRunInTx(db, tx, err) == IF err = "nil" THEN tx ELSE db

mysqlCountMembers(db, k) == Cardinality(Rows(db, k))

mysqlSelectMembers(db, k, claimedWhere) == Where(db, k, claimedWhere)

groupOverflow(leaseLive) == IF leaseLive THEN "full" ELSE "fullPermanent"

withoutMember(members, m) == members \ {m}

(* INSERT ... ON DUPLICATE KEY UPDATE locks the row it finds, SELECT reads *)
(* it, INSERT IGNORE reports whether it inserted the member.               *)
AddMember(db, k, m, maxMembers) ==
  LET t1 == IF db.group[k] = NoGroup THEN [db EXCEPT !.group[k] = NewGroup] ELSE db
      leaseLive == Leased(t1.group[k]) /\ ~t1.group[k].lapsed
      inserted == IF m \in Rows(t1, k) THEN 0 ELSE 1
      t2 == Stamp(t1, k, IF inserted > 0 THEN {m} ELSE {}, Null)
      err == IF inserted > 0 /\ Exceeds(mysqlCountMembers(t2, k), maxMembers)
             THEN groupOverflow(leaseLive) ELSE "nil"
      members == mysqlSelectMembers(t2, k, {Null})
      invalid == ValidateMaxMembers(maxMembers)
  IN IF invalid # "nil" THEN [db |-> db, err |-> invalid, live |-> {}]
     ELSE [db |-> mysqlRunInTx(db, t2, err), err |-> err,
           live |-> IF err = "nil" THEN members ELSE withoutMember(members, m)]

(* UPDATE, then SELECT of the epoch it left. *)
ClaimGroup(db, k, by) ==
  LET affected == db.group[k] # NoGroup /\ (db.group[k].by = NoOwner \/ db.group[k].lapsed)
      t1 == [db EXCEPT !.group[k] = [@ EXCEPT !.epoch = @ + 1, !.by = by, !.lapsed = FALSE]]
      newEpoch == t1.group[k].epoch
      t2 == Stamp(t1, k, {m \in Rows(t1, k) : t1.member[k][m] = Null \/ t1.member[k][m] < newEpoch},
                  newEpoch)
  IN IF ~affected THEN [db |-> db, claim |-> Nil]
     ELSE [db |-> t2,
           claim |-> [epoch |-> newEpoch, members |-> mysqlSelectMembers(t2, k, {newEpoch})]]

mysqlLockGroup(db, k) == db.group[k] # NoGroup

SettleGroup(db, k, by, e) ==
  LET t1 == Stamp(db, k, Where(db, k, {e}), Absent)
      hit == t1.group[k].by = by /\ t1.group[k].epoch = e
      t2 == IF mysqlCountMembers(t1, k) > 0
            THEN [t1 EXCEPT !.group[k] = [Unlocked(@) EXCEPT !.old = FALSE]]
            ELSE [t1 EXCEPT !.group[k] = NoGroup]
  IN IF ~mysqlLockGroup(db, k) THEN db ELSE IF hit THEN t2 ELSE t1

AbandonGroup(db, k, by, e) ==
  LET t1 == Stamp(db, k, Where(db, k, {e}), Null)
      hit == t1.group[k].by = by /\ t1.group[k].epoch = e
  IN IF ~mysqlLockGroup(db, k) THEN db
     ELSE IF hit THEN [t1 EXCEPT !.group[k] = Unlocked(@)] ELSE t1

ExpiredGroups(db, beforeSet) ==
  {k \in Keys : /\ db.group[k] # NoGroup
                /\ \/ db.group[k].by # NoOwner /\ db.group[k].lapsed
                   \/ beforeSet /\ db.group[k].by = NoOwner /\ db.group[k].old}

(* The tables in the order they are made; an index changes no answer. *)
groupDDL == <<"group", "member">>

EnsureGroupSchema(db) == Executed(db, groupDDL)

(* The group table stands for both. *)
SchemaExists(db) == "group" \in db.tables
=============================================================================
