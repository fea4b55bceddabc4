---------------------------- MODULE MySQLDialect ----------------------------
(***************************************************************************)
(* The message, lock and inbox dialects of MySQL and MariaDB.              *)
(***************************************************************************)
EXTENDS MessageTable

(* The ids the SELECT locked, and the rows as they will be after the       *)
(* UPDATE, counted up by the scan.                                         *)
mysqlScanClaim(db, ids) ==
  {ClaimedRow(m, CountedUp(db.row[m])) : m \in ids}

mysqlClaimInTx(db, limit, by) ==
  LET free == {m \in Stored(db) : /\ Due(db, m) /\ db.row[m].held = Nobody
                                  /\ ~Leased(db.row[m]) \/ db.row[m].lapsed}
      ids == FirstOf(db, free, limit)
  IN IF ids = {} THEN [db |-> db, rows |-> {}]
     ELSE [db |-> Lease(db, ids, by), rows |-> mysqlScanClaim(db, ids)]

(* SELECT ... FOR UPDATE SKIP LOCKED and UPDATE in one transaction. *)
MySQLClaim(db, limit, by) == mysqlClaimInTx(db, limit, by)

MySQLAck(db, m, by, epoch) ==
  IF db.row[m].by = by /\ db.row[m].epoch = epoch
  THEN [db |-> Delete(db, m), applied |-> TRUE]
  ELSE [db |-> db, applied |-> FALSE]

MySQLNack(db, m, by, epoch, delayed) ==
  IF db.row[m].by = by /\ db.row[m].epoch = epoch
  THEN [db |-> Place(Put(db, m, Unlocked(db.row[m])), m, delayed), applied |-> TRUE]
  ELSE [db |-> db, applied |-> FALSE]

MySQLInsert(db, m, delayed, held) ==
  IF db.table THEN [db |-> Place(Put(db, m, [NewRow EXCEPT !.held = held]), m, delayed), err |-> FALSE]
  ELSE [db |-> db, err |-> TRUE]

(* CREATE TABLE IF NOT EXISTS; the defaults of its columns are NewRow's. *)
mysqlCreateTable(db) == [db EXCEPT !.table = TRUE]

mysqlDDL(db) == mysqlCreateTable(db)

MySQLEnsureSchema(db) == mysqlDDL(db)

MySQLClaimLock(db, by) ==
  LET free == {m \in Stored(db) : Due(db, m) /\ db.row[m].held = Nobody /\ ~Leased(db.row[m])}
      ids == FirstOf(db, free, 1)
  IN [db |-> Hold(db, ids, by), rows |-> {LockedRow(db, m) : m \in ids}]

MySQLAckLock(db, m) == Delete(db, m)

(* UTC_TIMESTAMP is the time of the statement. *)
MySQLNackLock(db, lr, delayed) ==
  LET row == [Unlocked(db.row[lr.id]) EXCEPT !.count = lr.count, !.held = Nobody]
  IN {Place(Put(db, lr.id, row), lr.id, delayed)}

MySQLSchemaExists(db, table) == IF table = "inbox" THEN db.inbox # "absent" ELSE db.table

(* INSERT IGNORE waits for the transaction that holds the same key, and    *)
(* conflicts only if there is a key; a mark it did not insert is confirmed *)
(* by a locking read.                                                      *)
MySQLInsertInboxIfAbsent(db, m, by) ==
  LET conflict == db.inbox = "unique" /\ db.mark[m] # "none"
  IN [waits |-> db.inbox = "unique" /\ db.mark[m] \in Sessions \ {by},
      err |-> db.inbox = "absent",
      already |-> conflict,
      db |-> IF conflict THEN db ELSE [db EXCEPT !.mark[m] = by]]

MySQLPurgeInbox(db) == [db EXCEPT !.mark = [m \in Msgs |-> IF @[m] = "aged" THEN "none" ELSE @[m]]]

(* CREATE TABLE IF NOT EXISTS leaves a table without the key as it is. *)
mysqlCreateInboxTable(db) == [db EXCEPT !.inbox = IF @ = "absent" THEN "unique" ELSE @]

mysqlInboxDDL(db) == mysqlCreateInboxTable(db)

MySQLEnsureInboxSchema(db) == mysqlInboxDDL(db)

MySQLMsgIDUniqueIndexExists(db) == db.inbox = "unique"
=============================================================================
