---------------------------- MODULE SQLDelivery -----------------------------
(***************************************************************************)
(* The SQL adapter end to end: an application that changes its data and    *)
(* sends a message through the outbound adapter, the message table, the    *)
(* polling sources of several processes under either lock strategy, and    *)
(* handlers that guard their effect with the inbox deduper.                *)
(*                                                                         *)
(* A process may die at any step, a statement may fail before or after it  *)
(* took effect, a lease may lapse while its holder still works, and marks  *)
(* may be purged. A corrupt message is a row whose headers do not decode.  *)
(***************************************************************************)
EXTENDS PostgresDialect, MySQLDialect, SQLiteDialect, Framing

CONSTANTS
  Workers,      \* processes that poll, each with a locked_by of its own
  Sender,       \* the session of the sending application
  Corrupt,      \* messages whose headers do not decode
  Engines,      \* engines to consider
  MaxFaults     \* bound: failures, deaths, lapses under a live holder, aged marks

ASSUME SQLDeliveryAssumption ==
  /\ Workers \subseteq Sessions /\ Sender \in Sessions \ Workers
  /\ Corrupt \subseteq Msgs
  /\ Engines \subseteq {"postgres", "mysql"}
  /\ MaxFaults \in Nat

VARIABLES
  engine,    \* the engine, never changed
  strategy,  \* StrategyLease or StrategyLockForUpdate, never changed
  resolver,  \* "none", or what WithTransactionResolver is strict about; never changed
  db,        \* the tables
  sender,    \* where the application is with each message
  changed,   \* messages whose change of the application's data is committed
  up,        \* processes that passed Ready
  pc,        \* where each process is
  job,       \* the row each process works on
  effect,    \* messages whose handler effect is committed
  gone,      \* messages whose row an Ack deleted
  twice,     \* some effect was committed a second time
  forgot,    \* messages whose mark was purged
  faults

vars == <<engine, strategy, resolver, db, sender, changed, up, pc, job, effect, gone,
          twice, forgot, faults>>
options == <<engine, strategy, resolver>>

-----------------------------------------------------------------------------
(* What the constructors take and refuse. *)

Arguments ==
  [db : BOOLEAN, table : {"identifier", "other"}, dialect : Engines \cup {"nil", "sqlite"},
   strategy : {"lease", "lock", "other"}, leaseTTL : {"unset", "zero", "set"},
   resolver : {"none", "nil", "strict", "opportunistic"}]

ValidateIdent(table) == table = "identifier"

newAdapterBase(o) ==
  CASE ~o.db -> "ErrNilAdapter"
    [] ~ValidateIdent(o.table) -> "ErrInvalidTableName"
    [] o.dialect = "nil" -> "ErrNilDialect"
    [] OTHER -> "nil"

NewOutboundAdapter(o) == IF o.resolver = "nil" THEN "ErrNilResolver" ELSE newAdapterBase(o)

(* The dialect of SQLite has no lock strategy. *)
NewPollingSource(o) ==
  CASE newAdapterBase(o) # "nil" -> newAdapterBase(o)
    [] o.strategy \notin {"lease", "lock"} -> "ErrInvalidStrategy"
    [] o.strategy = "lock" /\ o.dialect = "sqlite" -> "ErrLockStrategyUnsupported"
    [] o.leaseTTL = "zero" -> "ErrInvalidLeaseTTL"
    [] OTHER -> "nil"

(* Both halves over one table. *)
NewQueueStore(o) ==
  IF NewOutboundAdapter(o) # "nil" THEN NewOutboundAdapter(o) ELSE NewPollingSource(o)

NewInboxDeduper(o) == newAdapterBase(o)

-----------------------------------------------------------------------------

NoJob == [id |-> Nobody, epoch |-> 0, count |-> 0, due |-> {}]

Fault == faults < MaxFaults /\ faults' = faults + 1

(* The headers a row has, and whether they decode. *)
Sent == [k \in {"timestamp", "delivery-count"} |->
           IF k = "timestamp" THEN [kind |-> "time", v |-> 1] ELSE [kind |-> "int", v |-> 0]]
RowHeaders(m) == IF m \in Corrupt THEN NoHeaders ELSE EncodeHeaders(Sent)
Decodes(m) == DecodeHeaders(RowHeaders(m)) # NoHeaders

Orders(S) ==
  {o \in [1..Cardinality(S) -> S] : \A i, j \in DOMAIN o : o[i] = o[j] => i = j}

(* A table of an older deployment may hold a corrupt row that was claimed  *)
(* many times, and its inbox table may lack the key.                       *)
Deployed(inbox, order) ==
  [table |-> TRUE, order |-> order, due |-> 0, inbox |-> inbox,
   row |-> [m \in Msgs |-> IF m \in Corrupt
                           THEN [NewRow EXCEPT !.epoch = MaxEpoch, !.count = MaxEpoch]
                           ELSE NoRow],
   mark |-> [m \in Msgs |-> "none"]]

Init ==
  /\ \E o \in Arguments :
       /\ NewQueueStore(o) = "nil" /\ NewInboxDeduper(o) = "nil"
       /\ engine = o.dialect /\ engine \in Engines
       /\ strategy = o.strategy /\ resolver = o.resolver
  /\ \/ db = NoTable
     \/ \E inbox \in {"absent", "plain", "unique"}, order \in Orders(Corrupt) :
          db = Deployed(inbox, order)
  /\ sender = [m \in Msgs \ Corrupt |-> "todo"]
  /\ up = [w \in Workers |-> FALSE]
  /\ pc = [w \in Workers |-> "idle"]
  /\ job = [w \in Workers |-> NoJob]
  /\ changed = {} /\ effect = {} /\ gone = {} /\ forgot = {}
  /\ twice = FALSE
  /\ faults = 0

-----------------------------------------------------------------------------
(* The dialect of the engine. *)

Claim(d, w) ==
  IF engine = "mysql" THEN MySQLClaim(d, 1, w) ELSE PostgresClaim(d, 1, w)
ClaimLock(d, w) ==
  IF engine = "mysql" THEN MySQLClaimLock(d, w) ELSE PostgresClaimLock(d, w)
AckRow(d, m, by, e) ==
  IF engine = "mysql" THEN MySQLAck(d, m, by, e) ELSE PostgresAck(d, m, by, e)
NackRow(d, m, by, e, delayed) ==
  IF engine = "mysql" THEN MySQLNack(d, m, by, e, delayed) ELSE PostgresNack(d, m, by, e, delayed)
AckLock(d, m) ==
  IF engine = "mysql" THEN MySQLAckLock(d, m) ELSE PostgresAckLock(d, m)
NackLock(d, lr, delayed) ==
  IF engine = "mysql" THEN MySQLNackLock(d, lr, delayed) ELSE PostgresNackLock(d, lr, delayed)
Insert(d, m, delayed, held) ==
  IF engine = "mysql" THEN MySQLInsert(d, m, delayed, held) ELSE PostgresInsert(d, m, delayed, held)
SchemaExists(d, table) ==
  IF engine = "mysql" THEN MySQLSchemaExists(d, table) ELSE PostgresSchemaExists(d, table)
InsertInboxIfAbsent(d, m, w) ==
  IF engine = "mysql" THEN MySQLInsertInboxIfAbsent(d, m, w) ELSE PostgresInsertInboxIfAbsent(d, m, w)

(* What a transaction leaves when its connection ends without a commit. *)
RolledBack(d, s) ==
  [d EXCEPT !.row = [m \in Msgs |-> IF d.row[m].held = s THEN HeldBy(d.row[m], Nobody) ELSE d.row[m]],
            !.mark = [m \in Msgs |-> IF d.mark[m] = s THEN "none" ELSE d.mark[m]]]

-----------------------------------------------------------------------------
(* Schema: msgin runs no DDL of its own; an operator calls EnsureSchema.   *)

EnsureSchema ==
  /\ ~db.table
  /\ db' = IF engine = "mysql" THEN MySQLEnsureSchema(db) ELSE PostgresEnsureSchema(db)
  /\ UNCHANGED <<options, sender, changed, up, pc, job, effect, gone, twice, forgot, faults>>

EnsureInboxSchema ==
  /\ db.inbox = "absent"
  /\ db' = IF engine = "mysql" THEN MySQLEnsureInboxSchema(db) ELSE PostgresEnsureInboxSchema(db)
  /\ UNCHANGED <<options, sender, changed, up, pc, job, effect, gone, twice, forgot, faults>>

Ready == SchemaExists(db, "messages")

(* Slip: the boot check of the inbox stops at the table. *)
InboxReadyIfExists == SchemaExists(db, "inbox")

InboxReady ==
  /\ SchemaExists(db, "inbox")
  /\ IF engine = "mysql" THEN MySQLMsgIDUniqueIndexExists(db) ELSE PostgresMsgIDUniqueIndexExists(db)

Boot(w) ==
  /\ ~up[w]
  /\ Ready /\ InboxReady
  /\ up' = [up EXCEPT ![w] = TRUE]
  /\ UNCHANGED <<options, db, sender, changed, pc, job, effect, gone, twice, forgot, faults>>

-----------------------------------------------------------------------------
(* The sending application: it changes its data in a transaction and sends *)
(* the message; its context carries the transaction or does not.           *)

(* Slip: a strict resolver without a transaction falls back to the pool. *)
resolveOrPool(hasTx) == IF resolver # "none" /\ hasTx THEN "tx" ELSE "pool"

(* The Querier of the insert: the pool, the shared transaction, or an      *)
(* error.                                                                  *)
resolveQuerier(hasTx) ==
  IF resolver = "none" THEN "pool"
  ELSE IF hasTx THEN "tx"
  ELSE IF resolver = "strict" THEN "ErrNoSharedTransaction"
  ELSE "pool"

SendAfter(m, hasTx, delayed) ==
  LET q == resolveQuerier(hasTx)
      r == Insert(db, m, delayed, IF q = "tx" THEN Sender ELSE Nobody)
  IN /\ sender[m] = "todo"
     /\ IF q = "ErrNoSharedTransaction" \/ r.err
        THEN sender' = [sender EXCEPT ![m] = "failed"] /\ UNCHANGED db
        ELSE sender' = [sender EXCEPT ![m] = "sent"] /\ db' = r.db
     /\ UNCHANGED <<options, changed, up, pc, job, effect, gone, twice, forgot, faults>>

(* Producer.SendAfter: what does not encode is not sent, and a delay below *)
(* zero is none.                                                           *)
ProducerSendAfter(m, hasTx, delay) ==
  \/ SendAfter(m, hasTx, delay > 0)
  \/ /\ sender[m] = "todo"
     /\ sender' = [sender EXCEPT ![m] = "failed"]
     /\ UNCHANGED <<options, db, changed, up, pc, job, effect, gone, twice, forgot, faults>>

(* SendAt: the time that is left. *)
SendAt(m, hasTx, at, now) == ProducerSendAfter(m, hasTx, at - now)

(* The commit publishes the row of the transaction with the change. *)
Commit(m) ==
  /\ sender[m] = "sent"
  /\ sender' = [sender EXCEPT ![m] = "done"]
  /\ changed' = changed \cup {m}
  /\ db' = IF db.row[m].held = Sender THEN [db EXCEPT !.row[m].held = Nobody] ELSE db
  /\ UNCHANGED <<options, up, pc, job, effect, gone, twice, forgot, faults>>

(* A failed send is rolled back; so is the work of an application that     *)
(* dies or gives up.                                                       *)
Rollback(m) ==
  /\ \/ sender[m] = "failed" /\ UNCHANGED faults
     \/ sender[m] = "sent" /\ Fault
  /\ sender' = [sender EXCEPT ![m] = "undone"]
  /\ db' = IF db.row[m].held = Sender THEN Delete(db, m) ELSE db
  /\ UNCHANGED <<options, changed, up, pc, job, effect, gone, twice, forgot>>

-----------------------------------------------------------------------------
(* The polling source. A corrupt row is put back with a penalty; if that   *)
(* fails its lease is left to lapse, or its transaction is rolled back.    *)

pollLease(w) ==
  LET r == Claim(db, w)
  IN /\ strategy = "lease"
     /\ \E row \in r.rows :
          IF ~Decodes(row.id)
          THEN /\ \/ db' = NackRow(r.db, row.id, w, row.epoch, TRUE).db /\ UNCHANGED faults
                  \/ db' = r.db /\ Fault
               /\ UNCHANGED <<pc, job>>
          ELSE /\ db' = r.db
               /\ pc' = [pc EXCEPT ![w] = "handle"]
               /\ job' = [job EXCEPT ![w] = row]
               /\ UNCHANGED faults

pollLock(w) ==
  LET r == ClaimLock(db, w)
  IN /\ strategy = "lock"
     /\ \E row \in r.rows :
          IF ~Decodes(row.id)
          THEN /\ \/ db' \in NackLock(r.db, row, TRUE) /\ UNCHANGED faults
                  \/ db' = RolledBack(r.db, w) /\ Fault
               /\ UNCHANGED <<pc, job>>
          ELSE /\ db' = r.db
               /\ pc' = [pc EXCEPT ![w] = "handle"]
               /\ job' = [job EXCEPT ![w] = row]
               /\ UNCHANGED faults

Poll(w) ==
  /\ up[w] /\ pc[w] = "idle"
  /\ pollLease(w) \/ pollLock(w)
  /\ UNCHANGED <<options, sender, changed, up, effect, gone, twice, forgot>>

(* The rows of a claim that took effect are lost on the way back. *)
PollFailed(w) ==
  /\ up[w] /\ pc[w] = "idle"
  /\ strategy = "lease"
  /\ Claim(db, w).rows # {}
  /\ db' = Claim(db, w).db
  /\ Fault
  /\ UNCHANGED <<options, sender, changed, up, pc, job, effect, gone, twice, forgot>>

Idle(w) ==
  /\ pc' = [pc EXCEPT ![w] = "idle"]
  /\ job' = [job EXCEPT ![w] = NoJob]

(* A stale lease is reported and nothing else. *)
ackClosure(w) ==
  LET m == job[w].id
      r == AckRow(db, m, w, job[w].epoch)
  IN /\ strategy = "lease"
     /\ \/ db' = r.db /\ gone' = (IF r.applied THEN gone \cup {m} ELSE gone) /\ UNCHANGED faults
        \/ UNCHANGED <<db, gone>> /\ Fault

(* Slip: the transaction of a failed statement is left open. *)
ackLockLeaks(w) ==
  /\ strategy = "lock"
  /\ \/ db' = AckLock(db, job[w].id) /\ gone' = gone \cup {job[w].id} /\ UNCHANGED faults
     \/ UNCHANGED <<db, gone>> /\ Fault

(* SettleLockTx: an error rolls the transaction back. *)
ackLockClosure(w) ==
  /\ strategy = "lock"
  /\ \/ db' = AckLock(db, job[w].id) /\ gone' = gone \cup {job[w].id} /\ UNCHANGED faults
     \/ db' = RolledBack(db, w) /\ UNCHANGED gone /\ Fault

Ack(w) ==
  /\ pc[w] = "ack"
  /\ ackClosure(w) \/ ackLockClosure(w)
  /\ Idle(w)
  /\ UNCHANGED <<options, sender, changed, up, effect, twice, forgot>>

nackClosure(w, delayed) ==
  /\ strategy = "lease"
  /\ \/ db' = NackRow(db, job[w].id, w, job[w].epoch, delayed).db /\ UNCHANGED faults
     \/ UNCHANGED db /\ Fault

nackLockClosure(w, delayed) ==
  /\ strategy = "lock"
  /\ \/ db' \in NackLock(db, job[w], delayed) /\ UNCHANGED faults
     \/ db' = RolledBack(db, w) /\ Fault

Nack(w) ==
  /\ pc[w] = "nack"
  /\ \E delayed \in BOOLEAN : nackClosure(w, delayed) \/ nackLockClosure(w, delayed)
  /\ Idle(w)
  /\ UNCHANGED <<options, sender, changed, up, effect, gone, twice, forgot>>

-----------------------------------------------------------------------------
(* The handler: a business transaction that marks the message and, the     *)
(* first time, has its effect.                                             *)

(* Slip: the mark is committed at once and not with the effect. *)
MarkInPool(w) ==
  LET m == job[w].id
      r == InsertInboxIfAbsent(db, m, w)
  IN /\ pc[w] = "handle"
     /\ ~r.waits
     /\ db' = IF db.mark[m] = "none" THEN [db EXCEPT !.mark[m] = "fresh"] ELSE db
     /\ pc' = [pc EXCEPT ![w] = IF r.already THEN "ack" ELSE "effect"]
     /\ UNCHANGED <<options, sender, changed, up, job, effect, gone, twice, forgot, faults>>

MarkProcessed(w) ==
  LET r == InsertInboxIfAbsent(db, job[w].id, w)
  IN /\ pc[w] = "handle"
     /\ ~r.waits
     /\ db' = IF r.err THEN db ELSE r.db
     /\ pc' = [pc EXCEPT ![w] = IF r.err THEN "nack" ELSE IF r.already THEN "ack" ELSE "effect"]
     /\ UNCHANGED <<options, sender, changed, up, job, effect, gone, twice, forgot, faults>>

(* The answer of the commit may be lost. *)
CommitEffect(w) ==
  LET m == job[w].id
  IN /\ pc[w] = "effect"
     /\ db' = [db EXCEPT !.mark[m] = "fresh"]
     /\ effect' = effect \cup {m}
     /\ twice' = (twice \/ m \in effect \ forgot)
     /\ \/ pc' = [pc EXCEPT ![w] = "ack"] /\ UNCHANGED faults
        \/ pc' = [pc EXCEPT ![w] = "nack"] /\ Fault
     /\ UNCHANGED <<options, sender, changed, up, job, gone, forgot>>

HandlerFails(w) ==
  /\ pc[w] = "effect"
  /\ Fault
  /\ db' = [db EXCEPT !.mark[job[w].id] = "none"]
  /\ pc' = [pc EXCEPT ![w] = "nack"]
  /\ UNCHANGED <<options, sender, changed, up, job, effect, gone, twice, forgot>>

-----------------------------------------------------------------------------
(* The process dies: its transactions are rolled back, its lease stays. *)
Crash(w) ==
  /\ pc[w] # "idle"
  /\ Fault
  /\ db' = RolledBack(db, w)
  /\ up' = [up EXCEPT ![w] = FALSE]
  /\ Idle(w)
  /\ UNCHANGED <<options, sender, changed, effect, gone, twice, forgot>>

Working(m) == \E w \in Workers : job[w].id = m /\ job[w].epoch = db.row[m].epoch

(* The lease of m grows older than its time to live. *)
Lapse(m) ==
  /\ Leased(db.row[m]) /\ ~db.row[m].lapsed
  /\ IF Working(m) THEN Fault ELSE UNCHANGED faults
  /\ db' = [db EXCEPT !.row[m].lapsed = TRUE]
  /\ UNCHANGED <<options, sender, changed, up, pc, job, effect, gone, twice, forgot>>

Orphaned(m) == ~Working(m) /\ Lapse(m)

(* The next visible_after comes. *)
Tick ==
  /\ db.due < Len(db.order)
  /\ db' = [db EXCEPT !.due = @ + 1]
  /\ UNCHANGED <<options, sender, changed, up, pc, job, effect, gone, twice, forgot, faults>>

Age(m) ==
  /\ db.mark[m] = "fresh"
  /\ Fault
  /\ db' = [db EXCEPT !.mark[m] = "aged"]
  /\ UNCHANGED <<options, sender, changed, up, pc, job, effect, gone, twice, forgot>>

Purge ==
  /\ \E m \in Msgs : db.mark[m] = "aged"
  /\ db' = IF engine = "mysql" THEN MySQLPurgeInbox(db) ELSE PostgresPurgeInbox(db)
  /\ forgot' = forgot \cup {m \in Msgs : db.mark[m] = "aged"}
  /\ UNCHANGED <<options, sender, changed, up, pc, job, effect, gone, twice, faults>>

-----------------------------------------------------------------------------
Work(w) == Boot(w) \/ Poll(w) \/ MarkProcessed(w) \/ CommitEffect(w) \/ Ack(w) \/ Nack(w)

Next ==
  \/ EnsureSchema \/ EnsureInboxSchema
  \/ \E m \in Msgs \ Corrupt :
       \/ \E hasTx \in BOOLEAN, at \in 0..2 : SendAt(m, hasTx, at, 1)
       \/ Commit(m) \/ Rollback(m)
  \/ \E w \in Workers : Work(w) \/ PollFailed(w) \/ HandlerFails(w) \/ Crash(w)
  \/ \E m \in Msgs : Lapse(m) \/ Age(m)
  \/ Tick \/ Purge

Spec == Init /\ [][Next]_vars

(* The processes run, an operator applies the schema, and time passes.     *)
FairSpec ==
  /\ Spec
  /\ WF_vars(EnsureSchema) /\ WF_vars(EnsureInboxSchema)
  /\ \A w \in Workers : WF_vars(Work(w))
  /\ \A m \in Msgs : WF_vars(Orphaned(m))
  /\ WF_vars(Tick)

-----------------------------------------------------------------------------
Published(m) == (db.row[m] # NoRow /\ db.row[m].held # Sender) \/ m \in gone

(* A row leaves the table only after the effect of its handler committed:  *)
(* a crash, a failed statement or a stale lease redelivers and never       *)
(* drops.                                                                  *)
GoneHadEffect == gone \subseteq effect

(* The handler's effect is committed at most once, however often its row   *)
(* is redelivered, as long as the mark of the message was not purged.      *)
EffectOnce == ~twice

(* With a strict resolver a message is published exactly when the change   *)
(* it tells of is committed (transactional outbox).                        *)
OutboxAtomic == resolver = "strict" => \A m \in Msgs \ Corrupt : Published(m) <=> m \in changed

(* The dialects agree on what every statement does: the claim, the fenced  *)
(* settlements, the lock strategy of PostgreSQL and MySQL (whose delays    *)
(* start at the statement and not at the transaction), and the inbox.      *)
DialectsAgree ==
  \A w \in Workers :
    /\ MySQLClaim(db, 1, w) = PostgresClaim(db, 1, w)
    /\ MySQLClaimLock(db, w) = PostgresClaimLock(db, w)
    /\ (\A m \in Msgs : db.row[m].held = Nobody) => SQLiteClaim(db, 1, w) = PostgresClaim(db, 1, w)
    /\ job[w] # NoJob =>
         LET m == job[w].id
             e == job[w].epoch
         IN /\ MySQLAck(db, m, w, e) = PostgresAck(db, m, w, e)
            /\ SQLiteAck(db, m, w, e) = PostgresAck(db, m, w, e)
            /\ \A d \in BOOLEAN :
                 /\ MySQLNack(db, m, w, e, d) = PostgresNack(db, m, w, e, d)
                 /\ SQLiteNack(db, m, w, e, d) = PostgresNack(db, m, w, e, d)
                 /\ strategy = "lock" => MySQLNackLock(db, job[w], d) \subseteq PostgresNackLock(db, job[w], d)
            /\ LET p == PostgresInsertInboxIfAbsent(db, m, w)
                   s == SQLiteInsertInboxIfAbsent(db, m, w)
               IN /\ db.inbox = "unique" => MySQLInsertInboxIfAbsent(db, m, w) = p
                  /\ ~s.waits => s = p

(* Every published message leaves the table: no crash, lost answer or      *)
(* lapsed lease strands its row, and a row that never decodes does not     *)
(* keep the others from being claimed. The inbox must have its key.        *)
Delivered ==
  \A m \in Msgs \ Corrupt : (Published(m) /\ db.inbox # "plain") ~> (m \in gone)
=============================================================================
