--------------------------- MODULE SQLiteDialect ----------------------------
(***************************************************************************)
(* The message and inbox dialects of SQLite. There is one writer at a      *)
(* time, so no row is locked and no lock strategy exists.                  *)
(***************************************************************************)
EXTENDS MessageTable

SQLiteClaim(db, limit, by) ==
  LET free == {m \in Stored(db) : Due(db, m) /\ (~Leased(db.row[m]) \/ db.row[m].lapsed)}
      ids == FirstOf(db, free, limit)
      new == Lease(db, ids, by)
  IN [db |-> new, rows |-> {ClaimedRow(m, new.row[m]) : m \in ids}]

SQLiteAck(db, m, by, epoch) ==
  IF db.row[m].by = by /\ db.row[m].epoch = epoch
  THEN [db |-> Delete(db, m), applied |-> TRUE]
  ELSE [db |-> db, applied |-> FALSE]

SQLiteNack(db, m, by, epoch, delayed) ==
  IF db.row[m].by = by /\ db.row[m].epoch = epoch
  THEN [db |-> Place(Put(db, m, Unlocked(db.row[m])), m, delayed), applied |-> TRUE]
  ELSE [db |-> db, applied |-> FALSE]

SQLiteInsert(db, m, delayed, held) ==
  IF db.table THEN [db |-> Place(Put(db, m, [NewRow EXCEPT !.held = held]), m, delayed), err |-> FALSE]
  ELSE [db |-> db, err |-> TRUE]

(* CREATE TABLE IF NOT EXISTS; the defaults of its columns are NewRow's. *)
sqliteCreateTable(db) == [db EXCEPT !.table = TRUE]

(* An index changes no answer. *)
sqliteCreateIndex(db) == db

sqliteDDL(db) == sqliteCreateIndex(sqliteCreateTable(db))

SQLiteEnsureSchema(db) == sqliteDDL(db)

SQLiteSchemaExists(db, table) == IF table = "inbox" THEN db.inbox # "absent" ELSE db.table

(* Slip: the answer of RETURNING is read the wrong way round. *)
SQLiteInsertInboxInverted(db, m, by) ==
  [waits |-> \E x \in Msgs : db.mark[x] \in Sessions \ {by},
   err |-> db.inbox # "unique",
   already |-> db.mark[m] = "none",
   db |-> IF db.mark[m] = "none" THEN [db EXCEPT !.mark[m] = by] ELSE db]

(* The write waits for any other writer. *)
SQLiteInsertInboxIfAbsent(db, m, by) ==
  [waits |-> \E x \in Msgs : db.mark[x] \in Sessions \ {by},
   err |-> db.inbox # "unique",
   already |-> db.mark[m] # "none",
   db |-> IF db.mark[m] = "none" THEN [db EXCEPT !.mark[m] = by] ELSE db]

SQLitePurgeInbox(db) == [db EXCEPT !.mark = [m \in Msgs |-> IF @[m] = "aged" THEN "none" ELSE @[m]]]

(* CREATE TABLE IF NOT EXISTS leaves a table without the key as it is. *)
sqliteCreateInboxTable(db) == [db EXCEPT !.inbox = IF @ = "absent" THEN "unique" ELSE @]

sqliteCreateInboxIndex(db) == db

sqliteInboxDDL(db) == sqliteCreateInboxIndex(sqliteCreateInboxTable(db))

SQLiteEnsureInboxSchema(db) == sqliteInboxDDL(db)

SQLiteMsgIDUniqueIndexExists(db) == db.inbox = "unique"
=============================================================================
