--------------------------- MODULE SQLGroupStore ----------------------------
(***************************************************************************)
(* sql.GroupStore over one of the three group dialects. Its methods pass   *)
(* the locked_by of the store, which all goroutines of a process share,    *)
(* and what the dialect returns.                                           *)
(***************************************************************************)
EXTENDS GroupTables, Framing

Postgres == INSTANCE PostgresGroupDialect
MySQL == INSTANCE MySQLGroupDialect
SQLite == INSTANCE SQLiteGroupDialect

SQLEngines == {"postgres", "mysql", "sqlite"}

(* What the constructor refuses. *)
newGroupBase(o) ==
  CASE ~o.db -> "ErrNilAdapter"
    [] o.table # "identifier" -> "ErrInvalidTableName"
    [] o.dialect \notin SQLEngines -> "ErrNilDialect"
    [] OTHER -> "nil"

NewGroupStore(o) ==
  CASE newGroupBase(o) # "nil" -> newGroupBase(o)
    [] o.leaseTTL <= 0 -> "ErrInvalidLeaseTTL"
    [] o.members \notin 1..maxGroupMembersCeiling -> "ErrInvalidCapacity"
    [] OTHER -> "nil"

EnsureSchema(engine, db) ==
  CASE engine = "postgres" -> Postgres!EnsureGroupSchema(db)
    [] engine = "mysql" -> MySQL!EnsureGroupSchema(db)
    [] engine = "sqlite" -> SQLite!EnsureGroupSchema(db)

SchemaExists(engine, db) ==
  CASE engine = "postgres" -> Postgres!SchemaExists(db)
    [] engine = "mysql" -> MySQL!SchemaExists(db)
    [] engine = "sqlite" -> SQLite!SchemaExists(db)

Ready(engine, db) == IF SchemaExists(engine, db) THEN "nil" ELSE "ErrSchemaNotReady"

(* The headers of a member as the store gives them back. *)
decodeGroupRows(headers) == DecodeHeaders(EncodeHeaders(headers))

(* A refusal carries the live members too, so that a complete group can    *)
(* still be released.                                                      *)
Add(engine, db, k, m, maxMembers) ==
  CASE engine = "postgres" -> Postgres!AddMember(db, k, m, maxMembers)
    [] engine = "mysql" -> MySQL!AddMember(db, k, m, maxMembers)
    [] engine = "sqlite" -> SQLite!AddMember(db, k, m, maxMembers)

ClaimGroup(engine, db, k, lockedBy) ==
  CASE engine = "postgres" -> Postgres!ClaimGroup(db, k, lockedBy)
    [] engine = "mysql" -> MySQL!ClaimGroup(db, k, lockedBy)
    [] engine = "sqlite" -> SQLite!ClaimGroup(db, k, lockedBy)

(* Whether the fence matched is not passed on. *)
SettleGroup(engine, db, k, lockedBy, epoch) ==
  CASE engine = "postgres" -> Postgres!SettleGroup(db, k, lockedBy, epoch)
    [] engine = "mysql" -> MySQL!SettleGroup(db, k, lockedBy, epoch)
    [] engine = "sqlite" -> SQLite!SettleGroup(db, k, lockedBy, epoch)

AbandonGroup(engine, db, k, lockedBy, epoch) ==
  CASE engine = "postgres" -> Postgres!AbandonGroup(db, k, lockedBy, epoch)
    [] engine = "mysql" -> MySQL!AbandonGroup(db, k, lockedBy, epoch)
    [] engine = "sqlite" -> SQLite!AbandonGroup(db, k, lockedBy, epoch)

Expired(engine, db, beforeSet) ==
  CASE engine = "postgres" -> Postgres!ExpiredGroups(db, beforeSet)
    [] engine = "mysql" -> MySQL!ExpiredGroups(db, beforeSet)
    [] engine = "sqlite" -> SQLite!ExpiredGroups(db, beforeSet)
=============================================================================
