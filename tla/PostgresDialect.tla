-------------------------- MODULE PostgresDialect ---------------------------
(***************************************************************************)
(* The message, lock and inbox dialects of PostgreSQL.                     *)
(***************************************************************************)
EXTENDS MessageTable

(* One UPDATE of the oldest rows that are due, that no open transaction    *)
(* holds (SKIP LOCKED) and that have no lease or a lapsed one.             *)
PostgresClaim(db, limit, by) ==
  LET free == {m \in Stored(db) : /\ Due(db, m) /\ db.row[m].held = Nobody
                                  /\ ~Leased(db.row[m]) \/ db.row[m].lapsed}
      ids == FirstOf(db, free, limit)
      new == Lease(db, ids, by)
  IN [db |-> new, rows |-> {ClaimedRow(m, new.row[m]) : m \in ids}]

PostgresAck(db, m, by, epoch) ==
  IF db.row[m].by = by /\ db.row[m].epoch = epoch
  THEN [db |-> Delete(db, m), applied |-> TRUE]
  ELSE [db |-> db, applied |-> FALSE]

PostgresNack(db, m, by, epoch, delayed) ==
  IF db.row[m].by = by /\ db.row[m].epoch = epoch
  THEN [db |-> Place(Put(db, m, Unlocked(db.row[m])), m, delayed), applied |-> TRUE]
  ELSE [db |-> db, applied |-> FALSE]

(* held is the transaction of the Querier, Nobody for the pool. *)
PostgresInsert(db, m, delayed, held) ==
  IF db.table THEN [db |-> Place(Put(db, m, [NewRow EXCEPT !.held = held]), m, delayed), err |-> FALSE]
  ELSE [db |-> db, err |-> TRUE]

(* CREATE TABLE IF NOT EXISTS; the defaults of its columns are NewRow's. *)
postgresCreateTable(db) == [db EXCEPT !.table = TRUE]

(* An index changes no answer. *)
postgresCreateIndex(db) == db

postgresDDL(db) == postgresCreateIndex(postgresCreateTable(db))

PostgresEnsureSchema(db) == postgresDDL(db)

(* The oldest due row without a lease and without a holder. *)
PostgresClaimLock(db, by) ==
  LET free == {m \in Stored(db) : Due(db, m) /\ db.row[m].held = Nobody /\ ~Leased(db.row[m])}
      ids == FirstOf(db, free, 1)
  IN [db |-> Hold(db, ids, by), rows |-> {LockedRow(db, m) : m \in ids}]

PostgresAckLock(db, m) == Delete(db, m)

(* now() is the start of the transaction: rows that came due since then    *)
(* may be behind the row, and if some did the delay may have passed too.   *)
PostgresNackLock(db, lr, delayed) ==
  LET m == lr.id
      row == [Unlocked(db.row[m]) EXCEPT !.count = lr.count, !.held = Nobody]
      new == Put(db, m, row)
      before == Cardinality({x \in lr.due : Due(db, x)})
      since == DueOthers(db, m) > before
  IN {Place(new, m, delayed)}
     \cup {PlaceAt(new, m, i, TRUE) : i \in IF since THEN before..DueOthers(db, m) ELSE {}}

PostgresSchemaExists(db, table) == IF table = "inbox" THEN db.inbox # "absent" ELSE db.table

(* A conflicting insert waits for the transaction that holds the mark.     *)
(* ON CONFLICT needs the constraint; RETURNING has no row iff there was a  *)
(* conflict.                                                               *)
PostgresInsertInboxIfAbsent(db, m, by) ==
  [waits |-> db.mark[m] \in Sessions \ {by},
   err |-> db.inbox # "unique",
   already |-> db.mark[m] # "none",
   db |-> IF db.mark[m] = "none" THEN [db EXCEPT !.mark[m] = by] ELSE db]

PostgresPurgeInbox(db) == [db EXCEPT !.mark = [m \in Msgs |-> IF @[m] = "aged" THEN "none" ELSE @[m]]]

(* CREATE TABLE IF NOT EXISTS leaves a table without the key as it is. *)
postgresCreateInboxTable(db) == [db EXCEPT !.inbox = IF @ = "absent" THEN "unique" ELSE @]

postgresCreateInboxIndex(db) == db

postgresInboxDDL(db) == postgresCreateInboxIndex(postgresCreateInboxTable(db))

PostgresEnsureInboxSchema(db) == postgresInboxDDL(db)

PostgresMsgIDUniqueIndexExists(db) == db.inbox = "unique"
=============================================================================
