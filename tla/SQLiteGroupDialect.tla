------------------------- MODULE SQLiteGroupDialect -------------------------
(***************************************************************************)
(* The group dialect of SQLite. withImmediateConn runs an operation on a   *)
(* connection of its own under BEGIN IMMEDIATE, which locks the database:  *)
(* the operations are serial without row locks.                            *)
(***************************************************************************)
EXTENDS GroupTables

(* COMMIT, or ROLLBACK after an error; a connection whose ROLLBACK fails   *)
(* is discarded, which rolls back too.                                     *)
withImmediateConn(db, tx, err) == IF err = "nil" THEN tx ELSE db

sqliteCountMembers(db, k) == Cardinality(Rows(db, k))

sqliteSelectMembers(db, k, claimedWhere) == Where(db, k, claimedWhere)

groupOverflow(leaseLive) == IF leaseLive THEN "full" ELSE "fullPermanent"

withoutMember(members, m) == members \ {m}

AddMember(db, k, m, maxMembers) ==
  LET t1 == [db EXCEPT !.group[k] = IF @ = NoGroup THEN NewGroup ELSE @]
      leaseLive == t1.group[k].by # NoOwner /\ ~t1.group[k].lapsed
      t2 == [t1 EXCEPT !.member[k][m] = IF @ = Absent THEN Null ELSE @]
      inserted == t2.member # t1.member
      n == sqliteCountMembers(t2, k)
      err == IF inserted /\ Exceeds(n, maxMembers) THEN groupOverflow(leaseLive) ELSE "nil"
      members == sqliteSelectMembers(t2, k, {Null})
      invalid == ValidateMaxMembers(maxMembers)
  IN IF invalid # "nil" THEN [db |-> db, err |-> invalid, live |-> {}]
     ELSE [db |-> withImmediateConn(db, t2, err), err |-> err,
           live |-> IF err # "nil" THEN withoutMember(members, m) ELSE members]

(* Slip: a claim stamps the live members only and leaves those of a lapsed *)
(* claim behind.                                                           *)
ClaimLiveOnly(db, k, by) ==
  LET affected == db.group[k] # NoGroup /\ (~Leased(db.group[k]) \/ db.group[k].lapsed)
      e == db.group[k].epoch + 1
      t1 == [db EXCEPT !.group[k].epoch = e, !.group[k].by = by, !.group[k].lapsed = FALSE]
      t2 == Stamp(t1, k, Where(t1, k, {Null}), e)
  IN IF affected
     THEN [db |-> t2, claim |-> [epoch |-> e, members |-> sqliteSelectMembers(t2, k, {e})]]
     ELSE [db |-> db, claim |-> Nil]

ClaimGroup(db, k, by) ==
  LET affected == db.group[k] # NoGroup /\ (~Leased(db.group[k]) \/ db.group[k].lapsed)
      e == db.group[k].epoch + 1
      t1 == [db EXCEPT !.group[k].epoch = e, !.group[k].by = by, !.group[k].lapsed = FALSE]
      t2 == Stamp(t1, k, {m \in Msgs : t1.member[k][m] \in Null..(e - 1)}, e)
  IN IF affected
     THEN [db |-> t2, claim |-> [epoch |-> e, members |-> sqliteSelectMembers(t2, k, {e})]]
     ELSE [db |-> db, claim |-> Nil]

sqliteGroupExists(db, k) == db.group[k] # NoGroup

SettleGroup(db, k, by, e) ==
  LET t1 == Stamp(db, k, Where(db, k, {e}), Absent)
      remaining == sqliteCountMembers(t1, k)
      hit == t1.group[k].by = by /\ t1.group[k].epoch = e
  IN IF ~sqliteGroupExists(db, k) THEN db
     ELSE IF ~hit THEN t1
     ELSE [t1 EXCEPT !.group[k] = IF remaining > 0 THEN [Unlocked(@) EXCEPT !.old = FALSE]
                                  ELSE NoGroup]

AbandonGroup(db, k, by, e) ==
  LET t1 == Stamp(db, k, Where(db, k, {e}), Null)
      hit == t1.group[k].by = by /\ t1.group[k].epoch = e
  IN IF ~sqliteGroupExists(db, k) THEN db
     ELSE [t1 EXCEPT !.group[k] = IF hit THEN Unlocked(@) ELSE @]

ExpiredGroups(db, beforeSet) ==
  {k \in Keys : sqliteGroupExists(db, k) /\
     IF Leased(db.group[k]) THEN db.group[k].lapsed ELSE beforeSet /\ db.group[k].old}

(* The tables in the order they are made; an index changes no answer. *)
groupDDL == <<"group", "member">>

EnsureGroupSchema(db) == Executed(db, groupDDL)

(* The group table stands for both. *)
SchemaExists(db) == "group" \in db.tables
=============================================================================
