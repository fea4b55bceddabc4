---------------------------- MODULE CronDialects ----------------------------
(***************************************************************************)
(* The lease table of the elector and the fired table of the locker, and   *)
(* what the statements of the dialects do to them. Times are those of the  *)
(* database server. A statement is one step; what MySQL needs several for  *)
(* is several operators here.                                              *)
(***************************************************************************)
EXTENDS Integers, Sequences

CONSTANTS
  Fires,     \* fire times of the schedule that a claim is kept for
  Nobody     \* the holder of a lease that does not exist

NoLease == [holder |-> Nobody, expires |-> -1]
Unclaimed == -1

EmptyDB == [tables |-> {}, lease |-> NoLease, fired |-> [f \in Fires |-> Unclaimed]]

(* expires_at < now *)
Expired(db, now) == db.lease.expires < now

LeaseUntil(me, t) == [holder |-> me, expires |-> t]

-----------------------------------------------------------------------------
(* Schema: the statements of the DDL of each table, all IF NOT EXISTS. The *)
(* fired table has its key on (scope, fire_ts) and an index for the purge, *)
(* which MySQL makes in one statement.                                     *)

postgresLockerDDL == <<"fired", "claimed_idx">>
mysqlLockerDDL == <<"fired">>
sqliteLockerDDL == <<"fired", "claimed_idx">>

postgresElectorDDL == <<"lease">>
mysqlElectorDDL == <<"lease">>
sqliteElectorDDL == <<"lease">>

(* The first statement of a DDL that has yet to take effect. *)
Executed(db, ddl) ==
  LET missing == {n \in DOMAIN ddl : ddl[n] \notin db.tables}
  IN {[db EXCEPT !.tables = @ \cup {ddl[n]}] : n \in {n \in missing : \A x \in missing : n <= x}}

(* What the next statement of an EnsureSchema leaves, if one is left. *)
postgresEnsureFiredSchema(db) == Executed(db, postgresLockerDDL)
mysqlEnsureFiredSchema(db) == Executed(db, mysqlLockerDDL)
sqliteEnsureFiredSchema(db) == Executed(db, sqliteLockerDDL)

postgresEnsureLeaseSchema(db) == Executed(db, postgresElectorDDL)
mysqlEnsureLeaseSchema(db) == Executed(db, mysqlElectorDDL)
sqliteEnsureLeaseSchema(db) == Executed(db, sqliteElectorDDL)

-----------------------------------------------------------------------------
(* Locker: INSERT ... ON CONFLICT DO NOTHING RETURNING. *)

postgresClaimFire(db, f, now) ==
  [won |-> db.fired[f] = Unclaimed,
   db |-> [db EXCEPT !.fired[f] = IF @ = Unclaimed THEN now ELSE @]]

sqliteClaimFire(db, f, now) ==
  IF db.fired[f] = Unclaimed
  THEN [won |-> TRUE, db |-> [db EXCEPT !.fired[f] = now]]
  ELSE [won |-> FALSE, db |-> db]

(* INSERT IGNORE: whether it affected one row. *)
mysqlClaimFire(db, f, now) ==
  [won |-> db.fired[f] = Unclaimed,
   db |-> [db EXCEPT !.fired[f] = IF @ = Unclaimed THEN now ELSE @]]

(* DELETE ... WHERE claimed_at < now - retention. *)
postgresPurgeFired(db, retention, now) ==
  [db EXCEPT !.fired = [f \in Fires |-> IF @[f] < now - retention THEN Unclaimed ELSE @[f]]]

(* claimed_at < DATE_SUB(now, retention) *)
mysqlPurgeFired(db, retention, now) ==
  LET cutoff == now - retention
  IN [db EXCEPT !.fired = [f \in Fires |-> IF @[f] < cutoff THEN Unclaimed ELSE @[f]]]

sqlitePurgeFired(db, retention, now) ==
  LET rows == {f \in Fires : db.fired[f] < now - retention}
  IN [db EXCEPT !.fired = [f \in Fires |-> IF f \in rows THEN Unclaimed ELSE @[f]]]

-----------------------------------------------------------------------------
(* Elector: an upsert whose update needs the holder or an expired lease. *)

postgresAcquireOrRenew(db, me, ttl, now) ==
  IF db.lease = NoLease \/ db.lease.holder = me \/ Expired(db, now)
  THEN [won |-> TRUE, db |-> [db EXCEPT !.lease = LeaseUntil(me, now + ttl)]]
  ELSE [won |-> FALSE, db |-> db]

sqliteAcquireOrRenew(db, me, ttl, now) ==
  LET inserted == db.lease = NoLease
      updated == db.lease.holder = me \/ Expired(db, now)
      new == [db EXCEPT !.lease = LeaseUntil(me, now + ttl)]
  IN [won |-> inserted \/ updated, db |-> IF inserted \/ updated THEN new ELSE db]

(* UPDATE: the rows affected are those it really changed. *)
mysqlRenew(db, me, ttl, now) ==
  LET matches == db.lease # NoLease /\ (db.lease.holder = me \/ Expired(db, now))
      new == [db EXCEPT !.lease = LeaseUntil(me, now + ttl)]
  IN [won |-> matches /\ new # db, db |-> IF matches THEN new ELSE db]

(* SELECT holder, expires_at < now, for a row that is there. *)
mysqlHeld(db, me, now) == db.lease.holder = me /\ ~Expired(db, now)

(* INSERT IGNORE *)
mysqlAcquire(db, me, ttl, now) ==
  [won |-> db.lease = NoLease,
   db |-> IF db.lease = NoLease THEN [db EXCEPT !.lease = LeaseUntil(me, now + ttl)] ELSE db]
=============================================================================
