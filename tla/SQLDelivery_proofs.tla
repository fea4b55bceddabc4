------------------------- MODULE SQLDelivery_proofs -------------------------
(***************************************************************************)
(* Proofs about the SQL adapter, for any set of messages, processes and    *)
(* sessions and any bound on failures: a row leaves the table only after   *)
(* its effect (GoneHadEffect), the inbox lets no effect happen twice       *)
(* (EffectOnce), the strict outbox is atomic (OutboxAtomic), and the       *)
(* dialects do the same to every table that is reached (DialectsAgree).    *)
(*                                                                         *)
(* The statements come first: each dialect does what LeaseClaim, LockClaim,*)
(* Fenced, Returned, Inserted and Back say, so the steps of the system are *)
(* proved once and for both engines. A statement of a process other than   *)
(* the deleting Ack is a RowMove of every row: it neither makes a row nor  *)
(* deletes one, and takes or lets go of none that another session holds.   *)
(* IndInv is what those moves keep: who holds a mark (Guarded), who holds  *)
(* a row (Holding), and what the table has of a message at each point of   *)
(* its sender (Outbox).                                                    *)
(***************************************************************************)
EXTENDS SQLDelivery, TLAPS

-----------------------------------------------------------------------------
(* The tables as a record.                                                 *)

IsDb(d) ==
  d = [table |-> d.table, order |-> d.order, due |-> d.due, row |-> d.row,
       inbox |-> d.inbox, mark |-> d.mark]

(* A statement on the message table: it leaves the inbox alone. *)
OnRows(d, e, rows) ==
  IsDb(e) /\ e.row = rows /\ e.mark = d.mark /\ e.inbox = d.inbox

(* A statement on the inbox table. *)
OnMarks(d, e, marks) ==
  IsDb(e) /\ e.row = d.row /\ e.mark = marks /\ e.inbox = d.inbox

(* Writing the rows is a statement on the message table. *)
LEMMA RowsWritten ==
  ASSUME NEW d, IsDb(d), NEW x
  PROVE  OnRows(d, [d EXCEPT !.row = x], x)
BY DEF IsDb, OnRows

(* Writing the marks is a statement on the inbox. *)
LEMMA MarksWritten ==
  ASSUME NEW d, IsDb(d), NEW x
  PROVE  OnMarks(d, [d EXCEPT !.mark = x], x)
BY DEF IsDb, OnMarks

(* Where a row stands in the order of visible_after does not change it. *)
LEMMA Reordered ==
  ASSUME NEW d, IsDb(d), NEW o, NEW n
  PROVE  OnRows(d, [d EXCEPT !.order = o, !.due = n], d.row)
<1>1. PICK e : e = [d EXCEPT !.order = o]
  BY Zenon
<1>2. OnRows(d, e, d.row)
  BY <1>1 DEF IsDb, OnRows
<1>3. PICK f : f = [e EXCEPT !.due = n]
  BY Zenon
<1>4. OnRows(e, f, e.row)
  BY <1>2, <1>3 DEF IsDb, OnRows
<1>5. f = [d EXCEPT !.order = o, !.due = n]
  BY Zenon, <1>1, <1>3
<1> QED
  BY Zenon, <1>2, <1>4, <1>5 DEF OnRows

(* Placing a row changes no row. *)
LEMMA PlaceKeeps ==
  ASSUME NEW d, IsDb(d), NEW m
  PROVE  /\ \A i, isDue : OnRows(d, PlaceAt(d, m, i, isDue), d.row)
         /\ \A delayed : OnRows(d, Place(d, m, delayed), d.row)
<1>1. \A i, isDue : OnRows(d, PlaceAt(d, m, i, isDue), d.row)
  BY Zenon, Reordered DEF PlaceAt
<1> QED
  BY Zenon, <1>1 DEF Place

(* Writing one row. *)
LEMMA PutRow ==
  ASSUME NEW d, IsDb(d), NEW m, NEW x
  PROVE  OnRows(d, Put(d, m, x), [d.row EXCEPT ![m] = x])
BY DEF Put, IsDb, OnRows

(* Deleting one row. *)
LEMMA DeleteRow ==
  ASSUME NEW d, IsDb(d), NEW m
  PROVE  OnRows(d, Delete(d, m), [d.row EXCEPT ![m] = NoRow])
<1>1. PICK e : e = Put(d, m, NoRow)
  BY Zenon
<1>2. OnRows(d, e, [d.row EXCEPT ![m] = NoRow])
  BY Zenon, <1>1, PutRow
<1>3. IsDb(e)
  BY Zenon, <1>2 DEF OnRows
<1>4. \A o, n : OnRows(e, [e EXCEPT !.order = o, !.due = n], e.row)
  BY Zenon, <1>3, Reordered
<1>5. OnRows(e, [e EXCEPT !.order = Without(e.order, m), !.due = DueOthers(d, m)], e.row)
  BY Zenon, <1>4
<1>6. OnRows(e, Delete(d, m), e.row)
  BY Zenon, <1>1, <1>5 DEF Delete
<1> QED
  BY Zenon, <1>2, <1>6 DEF OnRows

(* A row that is written and placed. *)
LEMMA PutAndPlaced ==
  ASSUME NEW d, IsDb(d), NEW m, NEW x
  PROVE  /\ \A i, isDue : OnRows(d, PlaceAt(Put(d, m, x), m, i, isDue), [d.row EXCEPT ![m] = x])
         /\ \A delayed : OnRows(d, Place(Put(d, m, x), m, delayed), [d.row EXCEPT ![m] = x])
<1>1. PICK e : e = Put(d, m, x)
  BY Zenon
<1>2. OnRows(d, e, [d.row EXCEPT ![m] = x])
  BY Zenon, <1>1, PutRow
<1>3. IsDb(e)
  BY Zenon, <1>2 DEF OnRows
<1>4. /\ \A i, isDue : OnRows(e, PlaceAt(e, m, i, isDue), e.row)
      /\ \A delayed : OnRows(e, Place(e, m, delayed), e.row)
  BY Zenon, <1>3, PlaceKeeps
<1>5. ASSUME NEW f, OnRows(e, f, e.row) PROVE OnRows(d, f, [d.row EXCEPT ![m] = x])
  BY Zenon, <1>2, <1>5 DEF OnRows
<1> QED
  BY Zenon, <1>1, <1>4, <1>5

-----------------------------------------------------------------------------
(* What the statements of the dialects do, the same in each of them.       *)

Free(d) == {m \in Stored(d) : /\ Due(d, m) /\ d.row[m].held = Nobody
                              /\ ~Leased(d.row[m]) \/ d.row[m].lapsed}
Unheld(d) == {m \in Stored(d) : Due(d, m) /\ d.row[m].held = Nobody /\ ~Leased(d.row[m])}

LeaseClaim(d, by) ==
  [db |-> Lease(d, FirstOf(d, Free(d), 1), by),
   rows |-> {ClaimedRow(m, Lease(d, FirstOf(d, Free(d), 1), by).row[m]) : m \in FirstOf(d, Free(d), 1)}]
LockClaim(d, by) ==
  [db |-> Hold(d, FirstOf(d, Unheld(d), 1), by),
   rows |-> {LockedRow(d, m) : m \in FirstOf(d, Unheld(d), 1)}]
Fenced(d, m, by, epoch, to) ==
  IF d.row[m].by = by /\ d.row[m].epoch = epoch
  THEN [db |-> to, applied |-> TRUE] ELSE [db |-> d, applied |-> FALSE]
Returned(d, m, delayed) == Place(Put(d, m, Unlocked(d.row[m])), m, delayed)
Inserted(d, m, delayed, held) ==
  IF d.table THEN [db |-> Place(Put(d, m, [NewRow EXCEPT !.held = held]), m, delayed), err |-> FALSE]
  ELSE [db |-> d, err |-> TRUE]
Back(d, lr) == [Unlocked(d.row[lr.id]) EXCEPT !.count = lr.count, !.held = Nobody]

(* The statements of PostgreSQL. *)
LEMMA PostgresStatements ==
  ASSUME NEW d, NEW m, NEW by, NEW e
  PROVE  /\ PostgresClaim(d, 1, by) = LeaseClaim(d, by)
         /\ PostgresClaimLock(d, by) = LockClaim(d, by)
         /\ PostgresAck(d, m, by, e) = Fenced(d, m, by, e, Delete(d, m))
         /\ \A delayed : PostgresNack(d, m, by, e, delayed) =
                            Fenced(d, m, by, e, Returned(d, m, delayed))
         /\ PostgresAckLock(d, m) = Delete(d, m)
         /\ \A delayed, held : PostgresInsert(d, m, delayed, held) = Inserted(d, m, delayed, held)
<1>1. PostgresClaim(d, 1, by) = LeaseClaim(d, by)
  BY Zenon DEF PostgresClaim, LeaseClaim, Free
<1>2. PostgresClaimLock(d, by) = LockClaim(d, by)
  BY Zenon DEF PostgresClaimLock, LockClaim, Unheld
<1>3. PostgresAck(d, m, by, e) = Fenced(d, m, by, e, Delete(d, m))
  BY Zenon DEF PostgresAck, Fenced
<1>4. \A delayed : PostgresNack(d, m, by, e, delayed) =
                     Fenced(d, m, by, e, Returned(d, m, delayed))
  BY Zenon DEF PostgresNack, Fenced, Returned
<1>5. PostgresAckLock(d, m) = Delete(d, m)
  BY Zenon DEF PostgresAckLock
<1>6. \A delayed, held : PostgresInsert(d, m, delayed, held) = Inserted(d, m, delayed, held)
  BY Zenon DEF PostgresInsert, Inserted
<1> QED
  BY Zenon, <1>1, <1>2, <1>3, <1>4, <1>5, <1>6

(* A row of the message table: it has never been inserted or its epoch is  *)
(* a number.                                                               *)
RowType ==
  [by : Sessions \cup {Nobody}, lapsed : BOOLEAN, epoch : Int, count : Int,
   held : Sessions \cup {Nobody}]

Tabled(d) == IsDb(d) /\ d.row \in [Msgs -> RowType] /\ d.mark \in [Msgs -> Marks]

(* What a lease writes. *)
LEMMA LeaseRows ==
  ASSUME NEW d, Tabled(d), NEW S, NEW by
  PROVE  /\ OnRows(d, Lease(d, S, by),
              [m \in Msgs |-> IF m \in S THEN LeasedTo(d.row[m], by) ELSE d.row[m]])
         /\ \A m \in S \cap Msgs :
              ClaimedRow(m, Lease(d, S, by).row[m]) = ClaimedRow(m, CountedUp(d.row[m]))
<1> DEFINE R == [m \in Msgs |-> IF m \in S THEN LeasedTo(d.row[m], by) ELSE d.row[m]]
<1>1. OnRows(d, [d EXCEPT !.row = R], R)
  BY Zenon, RowsWritten DEF Tabled
<1>2. Lease(d, S, by) = [d EXCEPT !.row = R]
  BY Zenon DEF Lease
<1>3. Lease(d, S, by).row = R
  BY Zenon, <1>1, <1>2 DEF OnRows
<1>4. ASSUME NEW m \in S \cap Msgs
      PROVE  ClaimedRow(m, Lease(d, S, by).row[m]) = ClaimedRow(m, CountedUp(d.row[m]))
  <2>1. Lease(d, S, by).row[m] = LeasedTo(d.row[m], by)
    BY Zenon, <1>3
  <2>2. d.row[m] \in RowType
    BY DEF Tabled
  <2>3. /\ LeasedTo(d.row[m], by).epoch = CountedUp(d.row[m]).epoch
        /\ LeasedTo(d.row[m], by).count = CountedUp(d.row[m]).count
    BY <2>2 DEF RowType, LeasedTo, CountedUp
  <2> QED
    BY Zenon, <2>1, <2>3 DEF ClaimedRow
<1> QED
  BY Zenon, <1>1, <1>2, <1>4

(* A lease on no row changes nothing. *)
LEMMA LeaseNone ==
  ASSUME NEW d, Tabled(d), NEW by
  PROVE  Lease(d, {}, by) = d
<1>1. Lease(d, {}, by) = [d EXCEPT !.row = [m \in Msgs |-> @[m]]]
  BY DEF Lease
<1>2. [m \in Msgs |-> d.row[m]] = d.row
  BY DEF Tabled
<1>3. [d EXCEPT !.row = d.row] = d
  BY DEF Tabled, IsDb
<1> QED
  BY <1>1, <1>2, <1>3

(* MySQL: the claim is a SELECT and an UPDATE in one transaction, and      *)
(* counts up what it scanned.                                              *)
LEMMA MySQLStatements ==
  ASSUME NEW d, Tabled(d), NEW m, NEW by, NEW e
  PROVE  /\ MySQLClaim(d, 1, by) = LeaseClaim(d, by)
         /\ MySQLClaimLock(d, by) = LockClaim(d, by)
         /\ MySQLAck(d, m, by, e) = Fenced(d, m, by, e, Delete(d, m))
         /\ \A delayed : MySQLNack(d, m, by, e, delayed) =
                            Fenced(d, m, by, e, Returned(d, m, delayed))
         /\ MySQLAckLock(d, m) = Delete(d, m)
         /\ \A delayed, held : MySQLInsert(d, m, delayed, held) = Inserted(d, m, delayed, held)
<1>1. MySQLClaim(d, 1, by) = LeaseClaim(d, by)
  <2> DEFINE ids == FirstOf(d, Free(d), 1)
             scan == {ClaimedRow(x, CountedUp(d.row[x])) : x \in ids}
  <2>1. MySQLClaim(d, 1, by) =
          IF ids = {} THEN [db |-> d, rows |-> {}] ELSE [db |-> Lease(d, ids, by), rows |-> scan]
    BY Zenon DEF MySQLClaim, mysqlClaimInTx, mysqlScanClaim, Free
  <2>2. ids \subseteq Msgs
    BY Zenon DEF FirstOf, Free, Stored
  <2>3. scan = {ClaimedRow(x, Lease(d, ids, by).row[x]) : x \in ids}
    <3>1. \A x \in ids :
            ClaimedRow(x, Lease(d, ids, by).row[x]) = ClaimedRow(x, CountedUp(d.row[x]))
      BY Zenon, <2>2, LeaseRows
    <3> HIDE DEF ids
    <3> QED
      BY Zenon, <3>1
  <2>4. LeaseClaim(d, by) = [db |-> Lease(d, ids, by), rows |-> scan]
    BY Zenon, <2>3 DEF LeaseClaim
  <2>5. ids = {} => Lease(d, ids, by) = d /\ scan = {}
    BY Zenon, LeaseNone
  <2> HIDE DEF ids, scan
  <2> QED
    BY Zenon, <2>1, <2>4, <2>5
<1>2. MySQLClaimLock(d, by) = LockClaim(d, by)
  BY Zenon DEF MySQLClaimLock, LockClaim, Unheld
<1>3. MySQLAck(d, m, by, e) = Fenced(d, m, by, e, Delete(d, m))
  BY Zenon DEF MySQLAck, Fenced
<1>4. \A delayed : MySQLNack(d, m, by, e, delayed) =
                     Fenced(d, m, by, e, Returned(d, m, delayed))
  BY Zenon DEF MySQLNack, Fenced, Returned
<1>5. MySQLAckLock(d, m) = Delete(d, m)
  BY Zenon DEF MySQLAckLock
<1>6. \A delayed, held : MySQLInsert(d, m, delayed, held) = Inserted(d, m, delayed, held)
  BY Zenon DEF MySQLInsert, Inserted
<1> QED
  BY Zenon, <1>1, <1>2, <1>3, <1>4, <1>5, <1>6

(* SQLite has no row locks: its claim is that of the others when no        *)
(* transaction holds a row.                                                *)
LEMMA SQLiteStatements ==
  ASSUME NEW d, NEW m, NEW by, NEW e
  PROVE  /\ (\A x \in Msgs : d.row[x].held = Nobody) => SQLiteClaim(d, 1, by) = LeaseClaim(d, by)
         /\ SQLiteAck(d, m, by, e) = Fenced(d, m, by, e, Delete(d, m))
         /\ \A delayed : SQLiteNack(d, m, by, e, delayed) =
                            Fenced(d, m, by, e, Returned(d, m, delayed))
<1>1. ASSUME \A x \in Msgs : d.row[x].held = Nobody
      PROVE  SQLiteClaim(d, 1, by) = LeaseClaim(d, by)
  <2>1. Free(d) = {x \in Stored(d) : Due(d, x) /\ (~Leased(d.row[x]) \/ d.row[x].lapsed)}
    BY Zenon, <1>1 DEF Free, Stored
  <2> QED
    BY Zenon, <2>1 DEF SQLiteClaim, LeaseClaim
<1>2. SQLiteAck(d, m, by, e) = Fenced(d, m, by, e, Delete(d, m))
  BY Zenon DEF SQLiteAck, Fenced
<1>3. \A delayed : SQLiteNack(d, m, by, e, delayed) =
                     Fenced(d, m, by, e, Returned(d, m, delayed))
  BY Zenon DEF SQLiteNack, Fenced, Returned
<1> QED
  BY Zenon, <1>1, <1>2, <1>3

(* The Nack of the lock strategy: MySQL puts the row where PostgreSQL may. *)
LEMMA NackLocks ==
  ASSUME NEW d, NEW lr, NEW delayed
  PROVE  /\ MySQLNackLock(d, lr, delayed) \subseteq PostgresNackLock(d, lr, delayed)
         /\ \A e \in PostgresNackLock(d, lr, delayed) :
              \/ e = Place(Put(d, lr.id, Back(d, lr)), lr.id, delayed)
              \/ \E i : e = PlaceAt(Put(d, lr.id, Back(d, lr)), lr.id, i, TRUE)
<1> DEFINE new == Put(d, lr.id, Back(d, lr))
<1>1. MySQLNackLock(d, lr, delayed) = {Place(new, lr.id, delayed)}
  BY Zenon DEF MySQLNackLock, Back
<1>2. Place(new, lr.id, delayed) \in PostgresNackLock(d, lr, delayed)
  BY Zenon DEF PostgresNackLock, Back
<1>3. ASSUME NEW e \in PostgresNackLock(d, lr, delayed)
      PROVE  \/ e = Place(new, lr.id, delayed)
             \/ \E i : e = PlaceAt(new, lr.id, i, TRUE)
  BY Zenon DEF PostgresNackLock, Back
<1> QED
  BY Zenon, <1>1, <1>2, <1>3

(* The statements the adapter runs, whatever the engine. *)
LEMMA Statements ==
  ASSUME NEW d, Tabled(d), NEW m, NEW w, NEW e
  PROVE  /\ Claim(d, w) = LeaseClaim(d, w)
         /\ ClaimLock(d, w) = LockClaim(d, w)
         /\ AckRow(d, m, w, e) = Fenced(d, m, w, e, Delete(d, m))
         /\ \A delayed : NackRow(d, m, w, e, delayed) = Fenced(d, m, w, e, Returned(d, m, delayed))
         /\ AckLock(d, m) = Delete(d, m)
         /\ \A delayed, held : Insert(d, m, delayed, held) = Inserted(d, m, delayed, held)
<1>1. CASE engine = "mysql"
  BY Zenon, <1>1, MySQLStatements DEF Claim, ClaimLock, AckRow, NackRow, AckLock, Insert
<1>2. CASE engine # "mysql"
  BY Zenon, <1>2, PostgresStatements DEF Claim, ClaimLock, AckRow, NackRow, AckLock, Insert
<1> QED
  BY Zenon, <1>1, <1>2

(* A row given back under the lock strategy. *)
LEMMA NackLockOf ==
  ASSUME NEW d, Tabled(d), NEW lr, NEW delayed, NEW e \in NackLock(d, lr, delayed)
  PROVE  OnRows(d, e, [d.row EXCEPT ![lr.id] = Back(d, lr)])
<1>1. e \in PostgresNackLock(d, lr, delayed)
  BY Zenon, NackLocks DEF NackLock
<1>2. \/ e = Place(Put(d, lr.id, Back(d, lr)), lr.id, delayed)
      \/ \E i : e = PlaceAt(Put(d, lr.id, Back(d, lr)), lr.id, i, TRUE)
  BY Zenon, <1>1, NackLocks
<1>3. /\ \A i, isDue : OnRows(d, PlaceAt(Put(d, lr.id, Back(d, lr)), lr.id, i, isDue),
                              [d.row EXCEPT ![lr.id] = Back(d, lr)])
      /\ \A b : OnRows(d, Place(Put(d, lr.id, Back(d, lr)), lr.id, b),
                       [d.row EXCEPT ![lr.id] = Back(d, lr)])
  BY Zenon, PutAndPlaced DEF Tabled
<1> QED
  BY Zenon, <1>2, <1>3

(* Marking a message, on an inbox table that has its key. *)
LEMMA MarkOf ==
  ASSUME NEW d, Tabled(d), d.inbox = "unique", NEW m, NEW w
  PROVE  LET r == InsertInboxIfAbsent(d, m, w)
         IN /\ r.waits <=> d.mark[m] \in Sessions \ {w}
            /\ ~r.err
            /\ r.already <=> d.mark[m] # "none"
            /\ d.mark[m] = "none" => OnMarks(d, r.db, [d.mark EXCEPT ![m] = w])
            /\ d.mark[m] # "none" => r.db = d
<1> DEFINE r == InsertInboxIfAbsent(d, m, w)
           put == [d EXCEPT !.mark[m] = w]
<1>1. OnMarks(d, put, [d.mark EXCEPT ![m] = w])
  BY Zenon, MarksWritten DEF Tabled
<1>2. \/ r = [waits |-> d.mark[m] \in Sessions \ {w}, err |-> d.inbox # "unique",
              already |-> d.mark[m] # "none", db |-> IF d.mark[m] = "none" THEN put ELSE d]
      \/ r = [waits |-> d.inbox = "unique" /\ d.mark[m] \in Sessions \ {w},
              err |-> d.inbox = "absent",
              already |-> d.inbox = "unique" /\ d.mark[m] # "none",
              db |-> IF d.inbox = "unique" /\ d.mark[m] # "none" THEN d ELSE put]
  BY Zenon DEF InsertInboxIfAbsent, PostgresInsertInboxIfAbsent, MySQLInsertInboxIfAbsent
<1> HIDE DEF r, put
<1>3. /\ r.waits <=> d.mark[m] \in Sessions \ {w}
      /\ ~r.err
      /\ r.already <=> d.mark[m] # "none"
      /\ r.db = IF d.mark[m] = "none" THEN put ELSE d
  <2>1. CASE r = [waits |-> d.mark[m] \in Sessions \ {w}, err |-> d.inbox # "unique",
              already |-> d.mark[m] # "none", db |-> IF d.mark[m] = "none" THEN put ELSE d]
    BY Zenon, <2>1
  <2>2. CASE r = [waits |-> d.inbox = "unique" /\ d.mark[m] \in Sessions \ {w},
              err |-> d.inbox = "absent",
              already |-> d.inbox = "unique" /\ d.mark[m] # "none",
              db |-> IF d.inbox = "unique" /\ d.mark[m] # "none" THEN d ELSE put]
    BY Zenon, <2>2
  <2> QED
    BY Zenon, <1>2, <2>1, <2>2
<1> QED
  BY Zenon, <1>1, <1>3 DEF r

(* The purge forgets the aged marks. *)
LEMMA PurgeOf ==
  ASSUME NEW d, Tabled(d), NEW e,
         e = IF engine = "mysql" THEN MySQLPurgeInbox(d) ELSE PostgresPurgeInbox(d)
  PROVE  OnMarks(d, e, [m \in Msgs |-> IF d.mark[m] = "aged" THEN "none" ELSE d.mark[m]])
BY Zenon, MarksWritten DEF Tabled, MySQLPurgeInbox, PostgresPurgeInbox

-----------------------------------------------------------------------------
(* The inductive invariant.                                                *)

(* The variables have the types the statements need. *)
Typed ==
  /\ Tabled(db)
  /\ db.inbox \in {"absent", "plain", "unique"}
  /\ sender \in [Msgs \ Corrupt -> {"todo", "failed", "sent", "done", "undone"}]
  /\ up \in [Workers -> BOOLEAN]
  /\ pc \in [Workers -> {"idle", "handle", "effect", "ack", "nack"}]
  /\ job = [w \in Workers |-> job[w]]
  /\ twice \in BOOLEAN

(* A row that is not there is NoRow and nothing else, and a leased row is  *)
(* not one of the open transaction of the sender.                          *)
Sound(row) ==
  /\ row \in RowType
  /\ row = NoRow \/ row.epoch >= 0
  /\ row.by # Nobody => row.held # Sender

RowsSound == \A m \in Msgs : Sound(db.row[m])

(* A process that works is up, on an inbox with its key. *)
Serving ==
  \A w \in Workers :
    /\ up[w] => db.inbox = "unique"
    /\ pc[w] # "idle" => up[w] /\ job[w].id \in Msgs /\ job[w].count \in Int

(* The mark of a message is held by the one process whose transaction is   *)
(* about to commit the effect; committed marks and effects go together, up *)
(* to what was purged; and a message is acked for its effect only.         *)
Guarded ==
  /\ \A w \in Workers : pc[w] = "effect" => db.mark[job[w].id] = w
  /\ \A m \in Msgs, s \in Sessions :
       db.mark[m] = s => s \in Workers /\ pc[s] = "effect" /\ job[s].id = m
  /\ \A m \in Msgs : db.mark[m] \in {"fresh", "aged"} => m \in effect
  /\ \A m \in Msgs : m \in effect \ forgot => db.mark[m] \in {"fresh", "aged"}
  /\ \A w \in Workers : pc[w] = "ack" => job[w].id \in effect

(* The row a process works on under the lock strategy is its own. *)
Holding ==
  strategy = "lock" => \A w \in Workers : pc[w] # "idle" => db.row[job[w].id].held = w

(* What the table holds of a message at each point of its sender. *)
Outbox ==
  \A m \in Msgs \ Corrupt :
    /\ sender[m] \in {"todo", "failed"} => db.row[m] = NoRow
    /\ resolver = "strict" =>
         /\ sender[m] \in {"todo", "failed", "undone"} =>
              db.row[m] = NoRow /\ m \notin gone /\ m \notin changed
         /\ sender[m] = "sent" =>
              db.row[m].held = Sender /\ m \notin gone /\ m \notin changed
         /\ sender[m] = "done" =>
              m \in changed /\ (m \in gone \/ (db.row[m] # NoRow /\ db.row[m].held # Sender))

IndInv ==
  /\ Typed /\ RowsSound /\ Serving /\ Guarded /\ Holding /\ Outbox
  /\ EffectOnce /\ GoneHadEffect

-----------------------------------------------------------------------------
(* What a process may do to a row of the table.                            *)

(* The row stays, or stays away; only a row nobody or the process itself   *)
(* holds is taken or let go.                                               *)
RowMove(x, y, w) ==
  /\ Sound(y)
  /\ y = NoRow <=> x = NoRow
  /\ y.held = x.held \/ {x.held, y.held} \subseteq {Nobody, w}

(* The sessions are distinct from each other and from Nobody. *)
LEMMA WorkerIs ==
  ASSUME NEW w \in Workers
  PROVE  w \in Sessions /\ w # Sender /\ w # Nobody /\ w \notin {"none", "fresh", "aged"}
BY MessageTableAssumption, SQLDeliveryAssumption DEF MessageTableAssumption, SQLDeliveryAssumption

(* The sender is a session. *)
LEMMA SenderIs == Sender \in Sessions /\ Sender # Nobody
BY MessageTableAssumption, SQLDeliveryAssumption DEF MessageTableAssumption, SQLDeliveryAssumption

(* The fields of a row that is not there. *)
LEMMA NoRowIs ==
  /\ Sound(NoRow)
  /\ NoRow.epoch = -1 /\ NoRow.by = Nobody /\ NoRow.held = Nobody
<1>1. NewRow \in RowType /\ NewRow.by = Nobody /\ NewRow.held = Nobody
  BY DEF NewRow, RowType
<1>2. PICK x : x = NoRow
  BY Zenon
<1>3. x = [NewRow EXCEPT !.epoch = -1]
  BY Zenon, <1>2 DEF NoRow
<1>4. x \in RowType /\ x.epoch = -1 /\ x.by = Nobody /\ x.held = Nobody
  BY <1>1, <1>3 DEF RowType
<1> QED
  BY Zenon, <1>2, <1>4 DEF Sound

(* A row that has been inserted. *)
LEMMA Inserts ==
  ASSUME NEW h \in Sessions \cup {Nobody}
  PROVE  LET x == [NewRow EXCEPT !.held = h]
         IN Sound(x) /\ x # NoRow /\ x.held = h
<1>1. /\ NewRow \in RowType /\ NewRow.by = Nobody /\ NewRow.held = Nobody
      /\ NewRow.epoch = 0
  BY DEF NewRow, RowType
<1>2. PICK x : x = [NewRow EXCEPT !.held = h]
  BY Zenon
<1>3. x \in RowType /\ x.epoch = 0 /\ x.by = Nobody /\ x.held = h
  BY <1>1, <1>2 DEF RowType
<1>4. Sound(x) /\ x # NoRow /\ x.held = h
  BY <1>3, NoRowIs DEF Sound
<1> QED
  BY Zenon, <1>2, <1>4

(* A bounded counter does not go down. *)
LEMMA CountsUp ==
  ASSUME NEW n \in Int
  PROVE  Up(n) \in Int /\ (n >= 0 => Up(n) >= 0)
BY MessageTableAssumption DEF Up, MessageTableAssumption

(* The writes of the statements as moves. *)
LEMMA LeaseMoves ==
  ASSUME NEW w \in Workers, NEW x, Sound(x), x # NoRow, x.held = Nobody
  PROVE  RowMove(x, LeasedTo(x, w), w)
<1>1. x \in RowType /\ x.epoch >= 0
  BY DEF Sound
<1>2. Up(x.epoch) \in Int /\ Up(x.count) \in Int /\ Up(x.epoch) >= 0
  BY <1>1, CountsUp DEF RowType
<1>3. CountedUp(x) \in RowType /\ CountedUp(x).epoch = Up(x.epoch) /\ CountedUp(x).held = x.held
  BY Zenon, <1>1, <1>2 DEF CountedUp, RowType
<1>4. /\ LeasedTo(x, w) \in RowType /\ LeasedTo(x, w).epoch = Up(x.epoch)
      /\ LeasedTo(x, w).held = Nobody
  BY Zenon, <1>3, WorkerIs DEF LeasedTo, RowType
<1> QED
  BY <1>2, <1>4, NoRowIs, SenderIs DEF RowMove, Sound

(* Taking a row and letting it go. *)
LEMMA HoldMoves ==
  ASSUME NEW w \in Workers, NEW x, Sound(x), x # NoRow, x.held \in {Nobody, w},
         NEW h \in {Nobody, w}
  PROVE  RowMove(x, HeldBy(x, h), w) /\ HeldBy(x, h).held = h
<1>1. x \in RowType /\ x.epoch >= 0
  BY DEF Sound
<1>2. HeldBy(x, h) \in RowType /\ HeldBy(x, h).epoch = x.epoch /\ HeldBy(x, h).held = h
  BY <1>1, WorkerIs DEF HeldBy, RowType
<1> QED
  BY <1>1, <1>2, NoRowIs, SenderIs, WorkerIs DEF RowMove, Sound

(* The lease of a row is given up. *)
LEMMA UnlockMoves ==
  ASSUME NEW w \in Workers, NEW x, Sound(x), x # NoRow
  PROVE  RowMove(x, Unlocked(x), w)
<1>1. x \in RowType /\ x.epoch >= 0
  BY DEF Sound
<1>2. /\ Unlocked(x) \in RowType /\ Unlocked(x).epoch = x.epoch /\ Unlocked(x).held = x.held
      /\ Unlocked(x).by = Nobody
  BY Zenon, <1>1 DEF Unlocked, RowType
<1> QED
  BY <1>1, <1>2, NoRowIs DEF RowMove, Sound

(* A held row is given back. *)
LEMMA BackMoves ==
  ASSUME NEW w \in Workers, NEW x, Sound(x), x # NoRow, x.held = w, NEW n \in Int
  PROVE  RowMove(x, [Unlocked(x) EXCEPT !.count = n, !.held = Nobody], w)
<1>1. x \in RowType /\ x.epoch >= 0
  BY DEF Sound
<1>2. PICK y : y = Unlocked(x)
  BY Zenon
<1>3. y \in RowType /\ y.epoch = x.epoch /\ y.by = Nobody
  BY Zenon, <1>1, <1>2 DEF Unlocked, RowType
<1>4. PICK z : z = [y EXCEPT !.count = n, !.held = Nobody]
  BY Zenon
<1>5. z \in RowType /\ z.epoch = x.epoch /\ z.held = Nobody /\ z.by = Nobody
  BY Zenon, <1>3, <1>4 DEF RowType
<1>6. RowMove(x, z, w)
  BY <1>1, <1>5, NoRowIs, WorkerIs DEF RowMove, Sound
<1> QED
  BY Zenon, <1>2, <1>4, <1>6

(* The lease of a row lapses. *)
LEMMA LapseMoves ==
  ASSUME NEW w, NEW x, Sound(x), x # NoRow
  PROVE  RowMove(x, [x EXCEPT !.lapsed = TRUE], w)
<1>1. x \in RowType /\ x.epoch >= 0
  BY DEF Sound
<1>2. PICK y : y = [x EXCEPT !.lapsed = TRUE]
  BY Zenon
<1>3. y \in RowType /\ y.epoch = x.epoch /\ y.held = x.held /\ y.by = x.by
  BY Zenon, <1>1, <1>2 DEF RowType
<1>4. RowMove(x, y, w)
  BY <1>1, <1>3, NoRowIs DEF RowMove, Sound
<1> QED
  BY Zenon, <1>2, <1>4

(* A row nobody touches. *)
LEMMA StaysPut ==
  ASSUME NEW w, NEW x, Sound(x)
  PROVE  RowMove(x, x, w)
BY DEF RowMove

(* The table after moves of a process: the rows are sound, the sender's    *)
(* view is the same and the rows of the other processes are still theirs.  *)
LEMMA Moved ==
  ASSUME RowsSound, Outbox, NEW w, w # Sender,
         db'.row \in [Msgs -> RowType],
         \A m \in Msgs : RowMove(db.row[m], db'.row[m], w),
         UNCHANGED <<resolver, sender, changed, gone>>
  PROVE  /\ RowsSound' /\ Outbox'
         /\ \A m \in Msgs, v \in Workers \ {w} : db.row[m].held = v => db'.row[m].held = v
<1>1. RowsSound'
  BY DEF RowsSound, RowMove
<1>2. \A m \in Msgs : db'.row[m].held = Sender <=> db.row[m].held = Sender
  BY SenderIs, WorkerIs DEF RowMove
<1>3. Outbox'
  BY <1>2, SQLDeliveryAssumption DEF Outbox, RowMove
<1>4. \A m \in Msgs, v \in Workers \ {w} : db.row[m].held = v => db'.row[m].held = v
  BY WorkerIs DEF RowMove
<1> QED
  BY <1>1, <1>3, <1>4

(* Marks and effects are untouched by a step that neither marks nor        *)
(* commits; it may move processes between the other points.                *)
LEMMA GuardedFrame ==
  ASSUME Guarded, db'.mark = db.mark, UNCHANGED <<effect, forgot>>,
         \A v \in Workers : /\ pc'[v] = "effect" <=> pc[v] = "effect"
                            /\ pc'[v] = "ack" => pc[v] = "ack"
                            /\ pc'[v] \in {"effect", "ack"} => job'[v] = job[v]
  PROVE  Guarded'
BY DEF Guarded

-----------------------------------------------------------------------------
(* The initial states.                                                     *)

(* A table of an older deployment is sound. *)
LEMMA DeployedSound ==
  ASSUME NEW inbox, NEW order, NEW d, d = Deployed(inbox, order)
  PROVE  /\ IsDb(d) /\ d.inbox = inbox /\ d.mark = [m \in Msgs |-> "none"]
         /\ d.row \in [Msgs -> RowType]
         /\ \A m \in Msgs : Sound(d.row[m]) /\ (m \notin Corrupt => d.row[m] = NoRow)
<1> DEFINE old == [NewRow EXCEPT !.epoch = MaxEpoch, !.count = MaxEpoch]
           rows == [m \in Msgs |-> IF m \in Corrupt THEN old ELSE NoRow]
<1>2. /\ IsDb(d) /\ d.inbox = inbox /\ d.mark = [m \in Msgs |-> "none"]
      /\ d.row = rows
  BY Zenon DEF Deployed, IsDb
<1>3. Sound(old)
  <2>1. NewRow \in RowType /\ NewRow.by = Nobody
    BY DEF NewRow, RowType
  <2>2. MaxEpoch \in Nat
    BY MessageTableAssumption DEF MessageTableAssumption
  <2>3. PICK y, x : y = [NewRow EXCEPT !.epoch = MaxEpoch] /\ x = [y EXCEPT !.count = MaxEpoch]
    BY Zenon
  <2>4. y \in RowType /\ y.epoch = MaxEpoch /\ y.by = Nobody
    BY <2>1, <2>2, <2>3 DEF RowType
  <2>5. x \in RowType /\ x.epoch = MaxEpoch /\ x.by = Nobody
    BY Zenon, <2>2, <2>3, <2>4 DEF RowType
  <2>6. x = old
    BY Zenon, <2>3
  <2>7. Sound(x)
    BY <2>2, <2>5 DEF Sound
  <2> QED
    BY Zenon, <2>6, <2>7
<1> HIDE DEF old
<1>4. \A m \in Msgs : Sound(rows[m]) /\ (m \notin Corrupt => rows[m] = NoRow)
  BY Zenon, <1>3, NoRowIs
<1>5. rows \in [Msgs -> RowType]
  BY Zenon, <1>4 DEF Sound
<1> QED
  BY Zenon, <1>2, <1>4, <1>5

(* The invariant holds at the start, on a fresh or an older schema. *)
LEMMA IndInit == Init => IndInv
<1> SUFFICES ASSUME Init PROVE IndInv
  OBVIOUS
<1>1. /\ IsDb(db) /\ db.mark = [m \in Msgs |-> "none"] /\ db.row \in [Msgs -> RowType]
      /\ \A m \in Msgs : Sound(db.row[m]) /\ (m \notin Corrupt => db.row[m] = NoRow)
      /\ db.inbox \in {"absent", "plain", "unique"}
  <2>1. CASE db = NoTable
    <3>1. /\ IsDb(NoTable) /\ NoTable.row = [m \in Msgs |-> NoRow] /\ NoTable.inbox = "absent"
          /\ NoTable.mark = [m \in Msgs |-> "none"]
      BY Zenon DEF NoTable, IsDb
    <3>2. [m \in Msgs |-> NoRow] \in [Msgs -> RowType]
      BY Zenon, NoRowIs DEF Sound
    <3> QED
      BY Zenon, <2>1, <3>1, <3>2, NoRowIs
  <2>2. ASSUME NEW inbox \in {"absent", "plain", "unique"}, NEW order, db = Deployed(inbox, order)
        PROVE  /\ IsDb(db) /\ db.mark = [m \in Msgs |-> "none"] /\ db.row \in [Msgs -> RowType]
               /\ \A m \in Msgs : Sound(db.row[m]) /\ (m \notin Corrupt => db.row[m] = NoRow)
               /\ db.inbox \in {"absent", "plain", "unique"}
    <3>1. /\ IsDb(db) /\ db.inbox = inbox /\ db.mark = [m \in Msgs |-> "none"]
          /\ db.row \in [Msgs -> RowType]
          /\ \A m \in Msgs : Sound(db.row[m]) /\ (m \notin Corrupt => db.row[m] = NoRow)
      BY <2>2, DeployedSound
    <3> QED
      BY Zenon, <3>1
  <2> QED
    BY Zenon, <2>1, <2>2 DEF Init
<1>2. Typed
  <2>1. db.mark \in [Msgs -> Marks]
    BY Zenon, <1>1 DEF Marks
  <2>2. /\ sender \in [Msgs \ Corrupt -> {"todo", "failed", "sent", "done", "undone"}]
        /\ up \in [Workers -> BOOLEAN]
        /\ pc \in [Workers -> {"idle", "handle", "effect", "ack", "nack"}]
        /\ job = [w \in Workers |-> job[w]]
        /\ twice \in BOOLEAN
    BY Zenon DEF Init
  <2> QED
    BY Zenon, <1>1, <2>1, <2>2 DEF Typed, Tabled
<1>3. RowsSound
  BY Zenon, <1>1 DEF RowsSound
<1>4. Serving /\ Holding
  BY Zenon DEF Init, Serving, Holding
<1>5. Guarded
  <2>1. \A m \in Msgs : db.mark[m] \notin Sessions /\ db.mark[m] \notin {"fresh", "aged"}
    BY <1>1, MessageTableAssumption DEF MessageTableAssumption
  <2> QED
    BY <2>1 DEF Init, Guarded
<1>6. Outbox
  BY Zenon, <1>1 DEF Init, Outbox
<1>7. EffectOnce /\ GoneHadEffect
  BY Zenon DEF Init, EffectOnce, GoneHadEffect
<1> QED
  BY Zenon, <1>2, <1>3, <1>4, <1>5, <1>6, <1>7 DEF IndInv

-----------------------------------------------------------------------------
(* The statements as moves of a process.                                   *)

Moves(d, e, w) ==
  /\ Tabled(e) /\ e.mark = d.mark /\ e.inbox = d.inbox
  /\ \A m \in Msgs : RowMove(d.row[m], e.row[m], w)

SoundDb(d) == Tabled(d) /\ \A m \in Msgs : Sound(d.row[m])

(* Rows that are sound are rows of the table. *)
LEMMA MovesOf ==
  ASSUME NEW d, SoundDb(d), NEW w, NEW f, NEW e, OnRows(d, e, [m \in Msgs |-> f[m]]),
         \A m \in Msgs : RowMove(d.row[m], f[m], w)
  PROVE  Moves(d, e, w) /\ SoundDb(e)
<1>1. \A m \in Msgs : e.row[m] = f[m] /\ Sound(f[m])
  BY Zenon DEF OnRows, RowMove
<1>2. e.row \in [Msgs -> RowType]
  BY Zenon, <1>1 DEF OnRows, Sound
<1>3. Tabled(e)
  BY Zenon, <1>2 DEF Tabled, SoundDb, OnRows
<1> QED
  BY Zenon, <1>1, <1>3 DEF Moves, SoundDb, OnRows

(* One row is written. *)
LEMMA OneMoves ==
  ASSUME NEW d, SoundDb(d), NEW w, NEW m \in Msgs, NEW x, NEW e,
         OnRows(d, e, [d.row EXCEPT ![m] = x]), RowMove(d.row[m], x, w)
  PROVE  Moves(d, e, w) /\ SoundDb(e) /\ e.row[m] = x
<1> DEFINE f == [d.row EXCEPT ![m] = x]
<1>1. d.row \in [Msgs -> RowType]
  BY Zenon DEF SoundDb, Tabled
<1>2. /\ f = [y \in Msgs |-> f[y]] /\ f[m] = x
      /\ \A y \in Msgs \ {m} : f[y] = d.row[y]
  BY <1>1
<1> HIDE DEF f
<1>3. \A y \in Msgs : RowMove(d.row[y], f[y], w)
  BY Zenon, <1>2, StaysPut DEF SoundDb
<1>4. OnRows(d, e, [y \in Msgs |-> f[y]])
  BY Zenon, <1>2 DEF f
<1>5. e.row = f
  BY Zenon DEF OnRows, f
<1> QED
  BY Zenon, <1>2, <1>3, <1>4, <1>5, MovesOf

(* Two statements of one process. *)
LEMMA MovesTwice ==
  ASSUME NEW d, NEW e, NEW f, NEW w, Moves(d, e, w), Moves(e, f, w)
  PROVE  Moves(d, f, w)
<1>1. \A m \in Msgs : RowMove(d.row[m], f.row[m], w)
  BY DEF Moves, RowMove
<1> QED
  BY Zenon, <1>1 DEF Moves

(* No statement at all. *)
LEMMA MovesNone ==
  ASSUME NEW d, SoundDb(d), NEW w
  PROVE  Moves(d, d, w)
BY Zenon, StaysPut DEF Moves, SoundDb

(* What the statements answer, field by field. *)
LEMMA Answers ==
  ASSUME NEW d, NEW by
  PROVE  /\ LeaseClaim(d, by).db = Lease(d, FirstOf(d, Free(d), 1), by)
         /\ LeaseClaim(d, by).rows =
              {ClaimedRow(m, Lease(d, FirstOf(d, Free(d), 1), by).row[m]) : m \in FirstOf(d, Free(d), 1)}
         /\ LockClaim(d, by).db = Hold(d, FirstOf(d, Unheld(d), 1), by)
         /\ LockClaim(d, by).rows = {LockedRow(d, m) : m \in FirstOf(d, Unheld(d), 1)}
BY Zenon DEF LeaseClaim, LockClaim

(* What a fenced statement answers. *)
LEMMA FencedAnswers ==
  ASSUME NEW d, NEW m, NEW by, NEW epoch, NEW to
  PROVE  /\ d.row[m].by = by /\ d.row[m].epoch = epoch =>
              Fenced(d, m, by, epoch, to).db = to /\ Fenced(d, m, by, epoch, to).applied
         /\ ~(d.row[m].by = by /\ d.row[m].epoch = epoch) =>
              Fenced(d, m, by, epoch, to).db = d /\ ~Fenced(d, m, by, epoch, to).applied
<1>1. CASE d.row[m].by = by /\ d.row[m].epoch = epoch
  <2>1. Fenced(d, m, by, epoch, to) = [db |-> to, applied |-> TRUE]
    BY Zenon, <1>1 DEF Fenced
  <2>2. Fenced(d, m, by, epoch, to).db = to
    BY <2>1
  <2>3. Fenced(d, m, by, epoch, to).applied = TRUE
    BY <2>1
  <2> QED
    BY Zenon, <1>1, <2>2, <2>3
<1>2. CASE ~(d.row[m].by = by /\ d.row[m].epoch = epoch)
  <2>1. Fenced(d, m, by, epoch, to) = [db |-> d, applied |-> FALSE]
    BY Zenon, <1>2 DEF Fenced
  <2>2. Fenced(d, m, by, epoch, to).db = d
    BY <2>1
  <2>3. Fenced(d, m, by, epoch, to).applied = FALSE
    BY <2>1
  <2> QED
    BY Zenon, <1>2, <2>2, <2>3
<1> QED
  BY Zenon, <1>1, <1>2

(* A claim leases rows that are there and that no transaction holds. *)
LEMMA Claimed ==
  ASSUME NEW d, SoundDb(d), NEW w \in Workers
  PROVE  /\ Moves(d, Claim(d, w).db, w) /\ SoundDb(Claim(d, w).db)
         /\ \A row \in Claim(d, w).rows : row.id \in Msgs /\ row.count \in Int
<1> DEFINE ids == FirstOf(d, Free(d), 1)
<1>2. \A m \in ids : m \in Msgs /\ d.row[m] # NoRow /\ d.row[m].held = Nobody
  BY Zenon DEF FirstOf, Free, Stored
<1>3. /\ Claim(d, w).db = Lease(d, ids, w)
      /\ Claim(d, w).rows = {ClaimedRow(m, Lease(d, ids, w).row[m]) : m \in ids}
  <2>1. Claim(d, w) = LeaseClaim(d, w)
    BY Zenon, Statements DEF SoundDb
  <2> QED
    BY Zenon, <2>1, Answers
<1> HIDE DEF ids
<1> DEFINE f == [m \in Msgs |-> IF m \in ids THEN LeasedTo(d.row[m], w) ELSE d.row[m]]
<1>4. OnRows(d, Lease(d, ids, w), f)
  BY Zenon, LeaseRows DEF SoundDb
<1>5. \A m \in Msgs : RowMove(d.row[m], f[m], w)
  BY Zenon, <1>2, LeaseMoves, StaysPut DEF SoundDb
<1>6. f = [m \in Msgs |-> f[m]]
  BY Zenon
<1> HIDE DEF f
<1>7. Moves(d, Lease(d, ids, w), w) /\ SoundDb(Lease(d, ids, w))
  BY Zenon, <1>4, <1>5, <1>6, MovesOf
<1>8. \A m \in ids : ClaimedRow(m, Lease(d, ids, w).row[m]).id = m
                     /\ ClaimedRow(m, Lease(d, ids, w).row[m]).count = Lease(d, ids, w).row[m].count
  BY DEF ClaimedRow
<1>9. \A m \in Msgs : Lease(d, ids, w).row[m].count \in Int
  <2>1. \A m \in Msgs : Lease(d, ids, w).row[m] \in RowType
    BY Zenon, <1>7 DEF SoundDb, Sound
  <2> QED
    BY <2>1 DEF RowType
<1>10. ASSUME NEW row \in Claim(d, w).rows PROVE row.id \in Msgs /\ row.count \in Int
  <2>1. PICK m \in ids : row = ClaimedRow(m, Lease(d, ids, w).row[m])
    BY Zenon, <1>3
  <2> QED
    BY Zenon, <1>2, <1>8, <1>9, <2>1
<1> QED
  BY Zenon, <1>3, <1>7, <1>10

(* Under the lock strategy it holds them. *)
LEMMA ClaimedLock ==
  ASSUME NEW d, SoundDb(d), NEW w \in Workers
  PROVE  /\ Moves(d, ClaimLock(d, w).db, w) /\ SoundDb(ClaimLock(d, w).db)
         /\ \A row \in ClaimLock(d, w).rows :
              row.id \in Msgs /\ row.count \in Int /\ ClaimLock(d, w).db.row[row.id].held = w
<1>1. PICK ids : ids = FirstOf(d, Unheld(d), 1)
  BY Zenon
<1>2. \A m \in ids : m \in Msgs /\ d.row[m] # NoRow /\ d.row[m].held = Nobody
  BY Zenon, <1>1 DEF FirstOf, Unheld, Stored
<1>3. /\ ClaimLock(d, w).db = Hold(d, ids, w)
      /\ ClaimLock(d, w).rows = {LockedRow(d, m) : m \in ids}
  <2>1. ClaimLock(d, w) = LockClaim(d, w)
    BY Zenon, Statements DEF SoundDb
  <2> QED
    BY Zenon, <1>1, <2>1, Answers
<1> DEFINE f == [m \in Msgs |-> IF m \in ids THEN HeldBy(d.row[m], w) ELSE d.row[m]]
<1>4. OnRows(d, Hold(d, ids, w), f)
  BY Zenon, RowsWritten DEF SoundDb, Tabled, Hold
<1>5. \A m \in Msgs : RowMove(d.row[m], f[m], w) /\ (m \in ids => f[m].held = w)
  BY Zenon, <1>2, HoldMoves, StaysPut DEF SoundDb
<1>6. f = [m \in Msgs |-> f[m]]
  BY Zenon
<1> HIDE DEF f
<1>7. Moves(d, Hold(d, ids, w), w) /\ SoundDb(Hold(d, ids, w)) /\ Hold(d, ids, w).row = f
  BY Zenon, <1>4, <1>5, <1>6, MovesOf DEF OnRows
<1>8. \A m \in ids : LockedRow(d, m).id = m /\ LockedRow(d, m).count = Up(d.row[m].count)
  BY DEF LockedRow, ClaimedRow
<1>9. \A m \in Msgs : Up(d.row[m].count) \in Int
  BY CountsUp DEF SoundDb, Tabled, RowType
<1>10. ASSUME NEW row \in ClaimLock(d, w).rows
       PROVE  row.id \in Msgs /\ row.count \in Int /\ ClaimLock(d, w).db.row[row.id].held = w
  <2>1. PICK m \in ids : row = LockedRow(d, m)
    BY Zenon, <1>3
  <2>2. row.id = m /\ row.count \in Int /\ m \in Msgs
    BY Zenon, <1>2, <1>8, <1>9, <2>1
  <2>3. ClaimLock(d, w).db.row[m].held = w
    BY Zenon, <1>3, <1>5, <1>7, <2>2
  <2> QED
    BY Zenon, <2>2, <2>3
<1> QED
  BY Zenon, <1>3, <1>7, <1>10

(* A fenced Nack writes only a row its holder leased. *)
LEMMA Nacked ==
  ASSUME NEW d, SoundDb(d), NEW w \in Workers, NEW m \in Msgs, NEW epoch, NEW delayed
  PROVE  Moves(d, NackRow(d, m, w, epoch, delayed).db, w)
<1> DEFINE F == Fenced(d, m, w, epoch, Returned(d, m, delayed))
<1>1. NackRow(d, m, w, epoch, delayed) = F
  BY Zenon, Statements DEF SoundDb
<1>a. /\ d.row[m].by = w /\ d.row[m].epoch = epoch => F.db = Returned(d, m, delayed)
      /\ ~(d.row[m].by = w /\ d.row[m].epoch = epoch) => F.db = d
  BY FencedAnswers
<1> HIDE DEF F
<1>2. CASE d.row[m].by = w /\ d.row[m].epoch = epoch
  <2>1. NackRow(d, m, w, epoch, delayed).db = Returned(d, m, delayed)
    BY Zenon, <1>1, <1>2, <1>a
  <2>2. OnRows(d, Returned(d, m, delayed), [d.row EXCEPT ![m] = Unlocked(d.row[m])])
    BY Zenon, PutAndPlaced DEF Returned, SoundDb, Tabled
  <2>3. d.row[m] # NoRow
    BY Zenon, <1>2, NoRowIs, WorkerIs
  <2>4. RowMove(d.row[m], Unlocked(d.row[m]), w)
    BY Zenon, <2>3, UnlockMoves DEF SoundDb
  <2>5. Moves(d, Returned(d, m, delayed), w)
    BY Zenon, <2>2, <2>4, OneMoves
  <2> QED
    BY Zenon, <2>1, <2>5
<1>3. CASE ~(d.row[m].by = w /\ d.row[m].epoch = epoch)
  <2>1. NackRow(d, m, w, epoch, delayed).db = d
    BY Zenon, <1>1, <1>3, <1>a
  <2> QED
    BY Zenon, <2>1, MovesNone
<1> QED
  BY Zenon, <1>2, <1>3

(* The Nack of the lock strategy as moves. *)
LEMMA NackedLock ==
  ASSUME NEW d, SoundDb(d), NEW w \in Workers, NEW lr, lr.id \in Msgs, lr.count \in Int,
         d.row[lr.id].held = w, NEW delayed, NEW e \in NackLock(d, lr, delayed)
  PROVE  Moves(d, e, w)
<1>1. OnRows(d, e, [d.row EXCEPT ![lr.id] = Back(d, lr)])
  BY Zenon, NackLockOf DEF SoundDb
<1>2. d.row[lr.id] # NoRow
  BY Zenon, NoRowIs, WorkerIs
<1>3. RowMove(d.row[lr.id], Back(d, lr), w)
  BY Zenon, <1>2, BackMoves DEF SoundDb, Back
<1> QED
  BY Zenon, <1>1, <1>3, OneMoves

(* A rollback lets go of the rows and of the marks of its session. *)
LEMMA Rolled ==
  ASSUME NEW d, SoundDb(d), NEW w \in Workers
  PROVE  LET e == RolledBack(d, w)
         IN /\ IsDb(e) /\ e.inbox = d.inbox /\ e.row \in [Msgs -> RowType]
            /\ e.mark = [m \in Msgs |-> IF d.mark[m] = w THEN "none" ELSE d.mark[m]]
            /\ \A m \in Msgs : RowMove(d.row[m], e.row[m], w)
<1> DEFINE f == [m \in Msgs |-> IF d.row[m].held = w THEN HeldBy(d.row[m], Nobody) ELSE d.row[m]]
           g == [m \in Msgs |-> IF d.mark[m] = w THEN "none" ELSE d.mark[m]]
<1>1. PICK e1 : e1 = [d EXCEPT !.row = f]
  BY Zenon
<1>2. OnRows(d, e1, f)
  BY Zenon, <1>1, RowsWritten DEF SoundDb, Tabled
<1>3. PICK e : e = [e1 EXCEPT !.mark = g]
  BY Zenon
<1>4. OnMarks(e1, e, g)
  BY Zenon, <1>2, <1>3, MarksWritten DEF OnRows
<1>5. e = RolledBack(d, w)
  BY Zenon, <1>1, <1>3 DEF RolledBack
<1>6. \A m \in Msgs : RowMove(d.row[m], f[m], w)
  <2> SUFFICES ASSUME NEW m \in Msgs PROVE RowMove(d.row[m], f[m], w)
    BY Zenon
  <2>1. CASE d.row[m].held = w
    BY Zenon, <2>1, HoldMoves, NoRowIs, WorkerIs DEF SoundDb
  <2>2. CASE d.row[m].held # w
    BY Zenon, <2>2, StaysPut DEF SoundDb
  <2> QED
    BY Zenon, <2>1, <2>2
<1>7. f \in [Msgs -> RowType]
  <2>1. \A m \in Msgs : f[m] \in RowType
    BY Zenon, <1>6 DEF RowMove, Sound
  <2> QED
    BY Zenon, <2>1
<1> HIDE DEF f, g
<1>8. IsDb(e) /\ e.inbox = d.inbox /\ e.row = f /\ e.mark = g
  BY Zenon, <1>2, <1>4 DEF OnRows, OnMarks
<1> QED
  BY Zenon, <1>5, <1>6, <1>7, <1>8 DEF g

(* Without a mark of its own, a session rolls back rows only. *)
LEMMA RolledMoves ==
  ASSUME NEW d, SoundDb(d), NEW w \in Workers, \A m \in Msgs : d.mark[m] # w
  PROVE  Moves(d, RolledBack(d, w), w)
<1>1. PICK e : e = RolledBack(d, w)
  BY Zenon
<1>2. /\ IsDb(e) /\ e.inbox = d.inbox /\ e.row \in [Msgs -> RowType]
      /\ e.mark = [m \in Msgs |-> IF d.mark[m] = w THEN "none" ELSE d.mark[m]]
      /\ \A m \in Msgs : RowMove(d.row[m], e.row[m], w)
  BY Zenon, <1>1, Rolled
<1>3. d.mark \in [Msgs -> Marks]
  BY Zenon DEF SoundDb, Tabled
<1>4. e.mark = d.mark
  BY <1>2, <1>3
<1>5. Moves(d, e, w)
  BY Zenon, <1>2, <1>3, <1>4 DEF Moves, Tabled
<1> QED
  BY Zenon, <1>1, <1>5

-----------------------------------------------------------------------------
(* The steps of the system, one lemma for each action.                     *)

(* The tables of a state that satisfies the invariant. *)
LEMMA TablesSound == IndInv => SoundDb(db)
BY Zenon DEF IndInv, Typed, RowsSound, SoundDb

(* A step that leaves the rows, the marks and the processes alone. *)
LEMMA SameTables ==
  ASSUME IndInv, IsDb(db'), db'.row = db.row, db'.mark = db.mark,
         db'.inbox = db.inbox \/ (db.inbox = "absent" /\ db'.inbox = "unique"),
         UNCHANGED <<options, sender, changed, up, pc, job, effect, gone, twice, forgot>>
  PROVE  IndInv'
<1> USE DEF options
<1>1. Typed' /\ RowsSound'
  BY DEF IndInv, Typed, Tabled, RowsSound
<1>2. Serving' /\ Guarded' /\ Holding' /\ Outbox'
  BY DEF IndInv, Serving, Guarded, Holding, Outbox
<1>3. EffectOnce' /\ GoneHadEffect'
  BY DEF IndInv, EffectOnce, GoneHadEffect
<1> QED
  BY Zenon, <1>1, <1>2, <1>3 DEF IndInv

(* The schema comes into being and time passes: no row and no mark moves. *)
LEMMA SchemaStep ==
  ASSUME IndInv, EnsureSchema \/ EnsureInboxSchema \/ Tick
  PROVE  IndInv'
<1>0. IsDb(db) /\ db.inbox \in {"absent", "plain", "unique"}
  BY Zenon DEF IndInv, Typed, Tabled
<1>1. CASE EnsureSchema
  <2>1. db' = [db EXCEPT !.table = TRUE]
    BY Zenon, <1>1 DEF EnsureSchema, MySQLEnsureSchema, mysqlDDL, mysqlCreateTable,
       PostgresEnsureSchema, postgresDDL, postgresCreateTable, postgresCreateIndex
  <2>2. IsDb(db') /\ db'.row = db.row /\ db'.mark = db.mark /\ db'.inbox = db.inbox
    BY <1>0, <2>1, Zenon DEF IsDb
  <2> QED
    BY Zenon, <1>1, <2>2, SameTables DEF EnsureSchema
<1>2. CASE EnsureInboxSchema
  <2>1. db.inbox = "absent" /\ db' = [db EXCEPT !.inbox = "unique"]
    BY Zenon, <1>2 DEF EnsureInboxSchema, MySQLEnsureInboxSchema, mysqlInboxDDL,
       mysqlCreateInboxTable, PostgresEnsureInboxSchema, postgresInboxDDL,
       postgresCreateInboxTable, postgresCreateInboxIndex
  <2>2. IsDb(db') /\ db'.row = db.row /\ db'.mark = db.mark /\ db'.inbox = "unique"
    BY <1>0, <2>1 DEF IsDb
  <2> QED
    BY Zenon, <1>2, <2>1, <2>2, SameTables DEF EnsureInboxSchema
<1>3. CASE Tick
  <2>1. PICK n : db' = [db EXCEPT !.due = n]
    BY Zenon, <1>3 DEF Tick
  <2>2. IsDb(db') /\ db'.row = db.row /\ db'.mark = db.mark /\ db'.inbox = db.inbox
    BY <1>0, <2>1 DEF IsDb
  <2> QED
    BY Zenon, <1>3, <2>2, SameTables DEF Tick
<1> QED
  BY Zenon, <1>1, <1>2, <1>3

(* A process starts to serve only on an inbox table with its key. *)
LEMMA BootStep ==
  ASSUME IndInv, NEW w \in Workers, Boot(w)
  PROVE  IndInv'
<1>1. db.inbox = "unique"
  BY Zenon DEF Boot, InboxReady, MySQLMsgIDUniqueIndexExists, PostgresMsgIDUniqueIndexExists
<1> USE DEF Boot, options
<1>2. Typed'
  BY DEF IndInv, Typed, Tabled
<1>3. Serving'
  BY <1>1 DEF IndInv, Serving, Typed
<1>4. RowsSound' /\ Guarded' /\ Holding' /\ Outbox' /\ EffectOnce' /\ GoneHadEffect'
  BY DEF IndInv, RowsSound, Guarded, Holding, Outbox, EffectOnce, GoneHadEffect
<1> QED
  BY Zenon, <1>2, <1>3, <1>4 DEF IndInv

(* A process moves rows and goes on to another point of its loop; marks    *)
(* and effects stay. Poll, PollFailed and Nack are such steps.             *)
LEMMA MovesKeep ==
  ASSUME IndInv, NEW w \in Workers, Moves(db, db', w),
         UNCHANGED <<options, sender, changed, up, effect, gone, twice, forgot>>,
         pc[w] \in {"idle", "nack", "ack"},
         \/ UNCHANGED <<pc, job>>
         \/ \E row : /\ pc' = [pc EXCEPT ![w] = "handle"] /\ job' = [job EXCEPT ![w] = row]
                     /\ up[w] /\ row.id \in Msgs /\ row.count \in Int
                     /\ strategy = "lock" => db'.row[row.id].held = w
         \/ Idle(w),
         UNCHANGED <<pc, job>> => pc[w] = "idle"
  PROVE  IndInv'
<1> USE DEF options
<1>0. /\ pc \in [Workers -> {"idle", "handle", "effect", "ack", "nack"}]
      /\ job = [v \in Workers |-> job[v]]
  BY Zenon DEF IndInv, Typed
<1>1. /\ pc' \in [Workers -> {"idle", "handle", "effect", "ack", "nack"}]
      /\ job' = [v \in Workers |-> job'[v]]
      /\ \A v \in Workers \ {w} : pc'[v] = pc[v] /\ job'[v] = job[v]
      /\ pc'[w] \in {"idle", "handle"}
      /\ pc'[w] # "idle" => /\ up[w] /\ job'[w].id \in Msgs /\ job'[w].count \in Int
                            /\ strategy = "lock" => db'.row[job'[w].id].held = w
  BY <1>0 DEF Idle
<1>2. /\ RowsSound' /\ Outbox'
      /\ \A m \in Msgs, v \in Workers \ {w} : db.row[m].held = v => db'.row[m].held = v
  BY WorkerIs, Moved DEF IndInv, Moves, Tabled
<1>3. Typed'
  BY Zenon, <1>1 DEF IndInv, Typed, Moves
<1>4. Serving'
  BY <1>1 DEF IndInv, Serving, Moves
<1>5. Guarded'
  BY <1>1, GuardedFrame DEF IndInv, Moves
<1>6. Holding'
  BY <1>1, <1>2 DEF IndInv, Holding, Serving
<1>7. EffectOnce' /\ GoneHadEffect'
  BY Zenon DEF IndInv, EffectOnce, GoneHadEffect
<1> QED
  BY Zenon, <1>2, <1>3, <1>4, <1>5, <1>6, <1>7 DEF IndInv

(* A poll leases or holds rows that are there; a row that does not decode  *)
(* goes back.                                                              *)
LEMMA PollStep ==
  ASSUME IndInv, NEW w \in Workers, Poll(w) \/ PollFailed(w)
  PROVE  IndInv'
<1>0. SoundDb(db) /\ pc[w] = "idle" /\ up[w]
  BY Zenon, TablesSound DEF Poll, PollFailed
<1>1. UNCHANGED <<options, sender, changed, up, effect, gone, twice, forgot>>
  BY Zenon DEF Poll, PollFailed
<1>2. CASE PollFailed(w)
  <2>1. Moves(db, db', w)
    BY Zenon, <1>0, <1>2, Claimed DEF PollFailed
  <2> QED
    BY Zenon, <1>0, <1>1, <1>2, <2>1, MovesKeep DEF PollFailed
<1>3. CASE pollLease(w)
  <2>1. PICK e : e = Claim(db, w).db
    BY Zenon
  <2>2. Moves(db, e, w) /\ SoundDb(e)
    BY Zenon, <1>0, <2>1, Claimed
  <2>3. PICK row \in Claim(db, w).rows :
          \/ UNCHANGED <<pc, job>> /\ (db' = e \/ db' = NackRow(e, row.id, w, row.epoch, TRUE).db)
          \/ db' = e /\ pc' = [pc EXCEPT ![w] = "handle"] /\ job' = [job EXCEPT ![w] = row]
    BY Zenon, <1>3, <2>1 DEF pollLease
  <2>4. row.id \in Msgs /\ row.count \in Int
    BY Zenon, <1>0, Claimed
  <2>5. Moves(db, db', w)
    <3>1. Moves(e, NackRow(e, row.id, w, row.epoch, TRUE).db, w)
      BY Zenon, <2>2, <2>4, Nacked
    <3>2. Moves(db, NackRow(e, row.id, w, row.epoch, TRUE).db, w)
      BY Zenon, <2>2, <3>1, MovesTwice
    <3> QED
      BY Zenon, <2>2, <2>3, <3>2
  <2>6. strategy # "lock"
    BY <1>3 DEF pollLease
  <2> QED
    BY Zenon, <1>0, <1>1, <2>3, <2>4, <2>5, <2>6, MovesKeep
<1>4. CASE pollLock(w)
  <2>1. PICK e : e = ClaimLock(db, w).db
    BY Zenon
  <2>2. Moves(db, e, w) /\ SoundDb(e)
    BY Zenon, <1>0, <2>1, ClaimedLock
  <2>3. PICK row \in ClaimLock(db, w).rows :
          \/ UNCHANGED <<pc, job>> /\ (db' \in NackLock(e, row, TRUE) \/ db' = RolledBack(e, w))
          \/ db' = e /\ pc' = [pc EXCEPT ![w] = "handle"] /\ job' = [job EXCEPT ![w] = row]
    BY Zenon, <1>4, <2>1 DEF pollLock
  <2>4. row.id \in Msgs /\ row.count \in Int /\ e.row[row.id].held = w
    BY Zenon, <1>0, <2>1, ClaimedLock
  <2>5. Moves(db, db', w)
    <3>1. CASE db' = e
      BY Zenon, <2>2, <3>1
    <3>2. CASE db' \in NackLock(e, row, TRUE)
      <4>1. Moves(e, db', w)
        BY Zenon, <2>2, <2>4, <3>2, NackedLock
      <4> QED
        BY Zenon, <2>2, <4>1, MovesTwice
    <3>3. CASE db' = RolledBack(e, w)
      <4>1. \A m \in Msgs : e.mark[m] # w
        BY <1>0, <2>2, WorkerIs DEF IndInv, Guarded, Moves
      <4>2. Moves(e, RolledBack(e, w), w)
        BY Zenon, <2>2, <4>1, RolledMoves
      <4>3. Moves(db, RolledBack(e, w), w)
        BY Zenon, <2>2, <4>2, MovesTwice
      <4> QED
        BY Zenon, <3>3, <4>3
    <3> QED
      BY Zenon, <2>3, <3>1, <3>2, <3>3
  <2> QED
    BY Zenon, <1>0, <1>1, <2>3, <2>4, <2>5, MovesKeep
<1> QED
  BY Zenon, <1>2, <1>3, <1>4 DEF Poll

(* A Nack gives the row back, to whoever holds it or has leased it. *)
LEMMA NackStep ==
  ASSUME IndInv, NEW w \in Workers, Nack(w)
  PROVE  IndInv'
<1>0. /\ SoundDb(db) /\ pc[w] = "nack"
      /\ job[w].id \in Msgs /\ job[w].count \in Int
      /\ strategy = "lock" => db.row[job[w].id].held = w
  BY TablesSound DEF Nack, IndInv, Serving, Holding
<1>1. Idle(w) /\ UNCHANGED <<options, sender, changed, up, effect, gone, twice, forgot>>
  BY Zenon DEF Nack
<1>2. PICK delayed \in BOOLEAN : nackClosure(w, delayed) \/ nackLockClosure(w, delayed)
  BY Zenon DEF Nack
<1>3. Moves(db, db', w)
  <2>1. CASE nackClosure(w, delayed)
    <3>1. Moves(db, NackRow(db, job[w].id, w, job[w].epoch, delayed).db, w)
      BY Zenon, <1>0, Nacked
    <3> QED
      BY Zenon, <1>0, <2>1, <3>1, MovesNone DEF nackClosure
  <2>2. CASE nackLockClosure(w, delayed)
    <3>1. CASE db' \in NackLock(db, job[w], delayed)
      BY <1>0, <2>2, <3>1, NackedLock DEF nackLockClosure
    <3>2. CASE db' = RolledBack(db, w)
      <4>1. \A m \in Msgs : db.mark[m] # w
        BY <1>0, WorkerIs DEF IndInv, Guarded
      <4> QED
        BY Zenon, <1>0, <3>2, <4>1, RolledMoves
    <3> QED
      BY Zenon, <2>2, <3>1, <3>2 DEF nackLockClosure
  <2> QED
    BY Zenon, <1>2, <2>1, <2>2
<1>4. ~UNCHANGED <<pc, job>>
  BY <1>0, <1>1 DEF Idle, IndInv, Typed
<1> QED
  BY Zenon, <1>0, <1>1, <1>3, <1>4, MovesKeep

(* A lease grows old. *)
LEMMA LapseStep ==
  ASSUME IndInv, NEW m \in Msgs, Lapse(m)
  PROVE  IndInv'
<1> USE DEF options
<1>0. SoundDb(db) /\ db.row \in [Msgs -> RowType]
  BY TablesSound DEF IndInv, Typed, Tabled
<1>1. db.row[m] # NoRow
  BY Zenon, NoRowIs DEF Lapse, Leased
<1>2. OnRows(db, db', [db.row EXCEPT ![m] = [db.row[m] EXCEPT !.lapsed = TRUE]])
  <2>1. db' = [db EXCEPT !.row = [db.row EXCEPT ![m] = [db.row[m] EXCEPT !.lapsed = TRUE]]]
    BY Zenon DEF Lapse
  <2> QED
    BY Zenon, <1>0, <2>1, RowsWritten DEF SoundDb, Tabled
<1>3. RowMove(db.row[m], [db.row[m] EXCEPT !.lapsed = TRUE], Nobody)
  BY Zenon, <1>0, <1>1, LapseMoves DEF SoundDb
<1>4. Moves(db, db', Nobody)
  BY Zenon, <1>0, <1>2, <1>3, OneMoves
<1>u. UNCHANGED <<options, sender, changed, up, pc, job, effect, gone, twice, forgot>>
  BY Zenon DEF Lapse
<1>5. /\ RowsSound' /\ Outbox'
      /\ \A x \in Msgs, v \in Workers \ {Nobody} : db.row[x].held = v => db'.row[x].held = v
  BY <1>4, <1>u, SenderIs, Moved DEF IndInv, Moves, Tabled
<1>6. Typed' /\ Serving'
  BY Zenon, <1>4, <1>u DEF IndInv, Typed, Serving, Moves
<1>7. Guarded'
  BY <1>4, <1>u, GuardedFrame DEF IndInv, Moves
<1>8. Holding'
  BY <1>5, <1>u, WorkerIs DEF IndInv, Holding, Serving
<1>9. EffectOnce' /\ GoneHadEffect'
  BY Zenon, <1>u DEF IndInv, EffectOnce, GoneHadEffect
<1> QED
  BY Zenon, <1>5, <1>6, <1>7, <1>8, <1>9 DEF IndInv

(* An acked row is one its holder leased or holds, so no row of the open   *)
(* transaction of the sender; and its message had its effect.              *)
LEMMA AckStep ==
  ASSUME IndInv, NEW w \in Workers, Ack(w)
  PROVE  IndInv'
<1> USE DEF options
<1>0. /\ SoundDb(db) /\ pc[w] = "ack" /\ job[w].id \in Msgs /\ job[w].id \in effect
      /\ strategy = "lock" => db.row[job[w].id].held = w
  BY TablesSound DEF Ack, IndInv, Serving, Holding, Guarded
<1>1. Idle(w) /\ UNCHANGED <<options, sender, changed, up, effect, twice, forgot>>
  BY Zenon DEF Ack
<1>2. PICK m \in Msgs : m = job[w].id
  BY Zenon, <1>0
<1>3. \/ UNCHANGED gone /\ Moves(db, db', w)
      \/ /\ gone' = gone \cup {m} /\ OnRows(db, db', [db.row EXCEPT ![m] = NoRow])
         /\ db.row[m] # NoRow /\ db.row[m].held # Sender
         /\ strategy = "lock" => db.row[m].held = w
  <2>1. CASE ackClosure(w)
    <3>1. PICK r : r = AckRow(db, m, w, job[w].epoch)
      BY Zenon
    <3>2. r = Fenced(db, m, w, job[w].epoch, Delete(db, m))
      BY Zenon, <1>0, <3>1, Statements DEF SoundDb
    <3>3. \/ db' = r.db /\ gone' = (IF r.applied THEN gone \cup {m} ELSE gone)
          \/ UNCHANGED <<db, gone>>
      BY Zenon, <1>2, <2>1, <3>1 DEF ackClosure
    <3>4. CASE UNCHANGED <<db, gone>>
      BY Zenon, <1>0, <3>4, MovesNone
    <3>5. CASE /\ db.row[m].by = w /\ db.row[m].epoch = job[w].epoch
               /\ db' = r.db /\ gone' = (IF r.applied THEN gone \cup {m} ELSE gone)
      <4>1. db' = Delete(db, m) /\ gone' = gone \cup {m}
        BY <3>2, <3>5, FencedAnswers
      <4>2. db.row[m] # NoRow /\ db.row[m].held # Sender
        BY Zenon, <1>0, <3>5, NoRowIs, WorkerIs DEF SoundDb, Sound
      <4>3. OnRows(db, db', [db.row EXCEPT ![m] = NoRow])
        BY Zenon, <1>0, <4>1, DeleteRow DEF SoundDb, Tabled
      <4> QED
        BY Zenon, <1>0, <1>2, <4>1, <4>2, <4>3
    <3>6. CASE /\ ~(db.row[m].by = w /\ db.row[m].epoch = job[w].epoch)
               /\ db' = r.db /\ gone' = (IF r.applied THEN gone \cup {m} ELSE gone)
      <4>1. db' = db /\ gone' = gone
        BY <3>2, <3>6, FencedAnswers
      <4> QED
        BY Zenon, <1>0, <4>1, MovesNone
    <3> QED
      BY Zenon, <3>3, <3>4, <3>5, <3>6
  <2>2. CASE ackLockClosure(w)
    <3>1. CASE db' = AckLock(db, m) /\ gone' = gone \cup {m}
      <4>1. db' = Delete(db, m)
        BY Zenon, <1>0, <3>1, Statements DEF SoundDb
      <4>2. OnRows(db, db', [db.row EXCEPT ![m] = NoRow])
        BY Zenon, <1>0, <4>1, DeleteRow DEF SoundDb, Tabled
      <4>3. db.row[m].held = w
        BY Zenon, <1>0, <1>2, <2>2 DEF ackLockClosure
      <4> QED
        BY Zenon, <3>1, <4>2, <4>3, NoRowIs, WorkerIs
    <3>2. CASE db' = RolledBack(db, w) /\ UNCHANGED gone
      <4>1. \A x \in Msgs : db.mark[x] # w
        BY <1>0, WorkerIs DEF IndInv, Guarded
      <4> QED
        BY Zenon, <1>0, <3>2, <4>1, RolledMoves
    <3> QED
      BY Zenon, <1>2, <2>2, <3>1, <3>2 DEF ackLockClosure
  <2> QED
    BY Zenon, <2>1, <2>2 DEF Ack
<1>4. /\ pc' \in [Workers -> {"idle", "handle", "effect", "ack", "nack"}]
      /\ job' = [v \in Workers |-> job'[v]]
      /\ pc'[w] = "idle"
      /\ \A v \in Workers \ {w} : pc'[v] = pc[v] /\ job'[v] = job[v]
  BY <1>1 DEF Idle, IndInv, Typed
<1>5. CASE UNCHANGED gone /\ Moves(db, db', w)
  <2>1. ~UNCHANGED <<pc, job>>
    BY <1>0, <1>4
  <2> QED
    BY Zenon, <1>0, <1>1, <1>5, <2>1, MovesKeep
<1>6. CASE /\ gone' = gone \cup {m} /\ OnRows(db, db', [db.row EXCEPT ![m] = NoRow])
           /\ db.row[m] # NoRow /\ db.row[m].held # Sender
           /\ strategy = "lock" => db.row[m].held = w
  <2>0. db.row \in [Msgs -> RowType] /\ db.mark \in [Msgs -> Marks]
    BY Zenon, <1>0 DEF SoundDb, Tabled
  <2>1. /\ IsDb(db') /\ db'.mark = db.mark /\ db'.inbox = db.inbox
        /\ db'.row \in [Msgs -> RowType] /\ db'.row[m] = NoRow
        /\ \A x \in Msgs \ {m} : db'.row[x] = db.row[x]
    BY <1>6, <2>0, NoRowIs DEF OnRows, Sound
  <2>2. Typed'
    BY Zenon, <1>1, <1>4, <2>0, <2>1 DEF IndInv, Typed, Tabled
  <2>3. RowsSound'
    BY Zenon, <2>1, NoRowIs DEF IndInv, RowsSound
  <2>4. Serving'
    BY <1>1, <1>4, <2>1 DEF IndInv, Serving
  <2>5. Guarded'
    BY <1>0, <1>1, <1>4, <2>1, GuardedFrame DEF IndInv
  <2>6. Holding'
    BY <1>1, <1>4, <1>6, <2>1 DEF IndInv, Holding, Serving
  <2>7. Outbox'
    BY <1>1, <1>6, <2>1, SQLDeliveryAssumption DEF IndInv, Outbox, Typed, SQLDeliveryAssumption
  <2>8. EffectOnce' /\ GoneHadEffect'
    BY <1>0, <1>1, <1>2, <1>6 DEF IndInv, EffectOnce, GoneHadEffect
  <2> QED
    BY Zenon, <2>2, <2>3, <2>4, <2>5, <2>6, <2>7, <2>8 DEF IndInv
<1> QED
  BY Zenon, <1>3, <1>5, <1>6

(* A step on the inbox: the rows stay, and a process that goes on works on *)
(* the row it had.                                                         *)
LEMMA MarksKeep ==
  ASSUME IndInv, NEW marks \in [Msgs -> Marks], OnMarks(db, db', marks),
         UNCHANGED <<options, sender, changed, up, job, gone>>,
         pc' \in [Workers -> {"idle", "handle", "effect", "ack", "nack"}],
         \A v \in Workers : pc'[v] # "idle" => pc[v] # "idle",
         twice' \in BOOLEAN
  PROVE  Typed' /\ RowsSound' /\ Serving' /\ Holding' /\ Outbox'
<1> USE DEF options
<1>1. IsDb(db') /\ db'.row = db.row /\ db'.mark = marks /\ db'.inbox = db.inbox
  BY Zenon DEF OnMarks
<1>2. Typed'
  BY <1>1 DEF IndInv, Typed, Tabled
<1>3. RowsSound' /\ Outbox'
  BY <1>1 DEF IndInv, RowsSound, Outbox
<1>4. Serving' /\ Holding'
  BY <1>1 DEF IndInv, Serving, Holding
<1> QED
  BY Zenon, <1>2, <1>3, <1>4

(* A message is marked by the process that will have its effect; one that  *)
(* is marked for good had it.                                              *)
LEMMA MarkStep ==
  ASSUME IndInv, NEW w \in Workers, MarkProcessed(w)
  PROVE  IndInv'
<1> USE DEF options
<1>0. /\ SoundDb(db) /\ pc[w] = "handle" /\ db.inbox = "unique"
      /\ pc \in [Workers -> {"idle", "handle", "effect", "ack", "nack"}]
      /\ db.mark \in [Msgs -> Marks]
  BY TablesSound DEF MarkProcessed, IndInv, Serving, Typed, Tabled
<1>1. PICK m \in Msgs : m = job[w].id
  BY <1>0 DEF IndInv, Serving
<1>2. PICK r : r = InsertInboxIfAbsent(db, m, w)
  BY Zenon
<1>3. /\ r.waits <=> db.mark[m] \in Sessions \ {w}
      /\ ~r.err
      /\ r.already <=> db.mark[m] # "none"
      /\ db.mark[m] = "none" => OnMarks(db, r.db, [db.mark EXCEPT ![m] = w])
      /\ db.mark[m] # "none" => r.db = db
  BY <1>0, <1>2, MarkOf DEF SoundDb
<1>4. /\ ~r.waits
      /\ db' = r.db
      /\ pc' = [pc EXCEPT ![w] = IF r.already THEN "ack" ELSE "effect"]
      /\ UNCHANGED <<options, sender, changed, up, job, effect, gone, twice, forgot>>
  BY <1>1, <1>2, <1>3 DEF MarkProcessed
<1>5. CASE db.mark[m] = "none"
  <2>1. OnMarks(db, db', [db.mark EXCEPT ![m] = w]) /\ pc' = [pc EXCEPT ![w] = "effect"]
    BY Zenon, <1>3, <1>4, <1>5
  <2>2. [db.mark EXCEPT ![m] = w] \in [Msgs -> Marks]
    BY <1>0, WorkerIs DEF Marks
  <2>3. Typed' /\ RowsSound' /\ Serving' /\ Holding' /\ Outbox'
    BY <1>0, <1>4, <2>1, <2>2, MarksKeep DEF IndInv, Typed
  <2>4. /\ db'.mark[m] = w /\ \A x \in Msgs \ {m} : db'.mark[x] = db.mark[x]
        /\ pc'[w] = "effect" /\ \A v \in Workers \ {w} : pc'[v] = pc[v]
    BY <1>0, <2>1, SMTT(30) DEF OnMarks
  <2>5. Guarded'
    BY <1>0, <1>1, <1>4, <1>5, <2>4, WorkerIs DEF IndInv, Guarded, Serving
  <2>6. EffectOnce' /\ GoneHadEffect'
    BY Zenon, <1>4 DEF IndInv, EffectOnce, GoneHadEffect
  <2> QED
    BY Zenon, <2>3, <2>5, <2>6 DEF IndInv
<1>6. CASE db.mark[m] # "none"
  <2>1. db' = db /\ pc' = [pc EXCEPT ![w] = "ack"]
    BY Zenon, <1>3, <1>4, <1>6
  <2>2. m \in effect
    BY <1>0, <1>3, <1>4, <1>6, WorkerIs DEF IndInv, Guarded, Marks
  <2>3. OnMarks(db, db', db.mark)
    BY Zenon, <1>0, <2>1 DEF OnMarks, SoundDb, Tabled
  <2>4. Typed' /\ RowsSound' /\ Serving' /\ Holding' /\ Outbox'
    BY <1>0, <1>4, <2>1, <2>3, MarksKeep DEF IndInv, Typed
  <2>5. pc'[w] = "ack" /\ \A v \in Workers \ {w} : pc'[v] = pc[v]
    BY <1>0, <2>1
  <2>6. Guarded'
    BY <1>0, <1>1, <1>4, <2>1, <2>2, <2>5 DEF IndInv, Guarded
  <2>7. EffectOnce' /\ GoneHadEffect'
    BY Zenon, <1>4 DEF IndInv, EffectOnce, GoneHadEffect
  <2> QED
    BY Zenon, <2>4, <2>6, <2>7 DEF IndInv
<1> QED
  BY Zenon, <1>5, <1>6

(* The commit of an effect finds the mark of its own transaction, so no    *)
(* committed one: the effect is the first, up to what was purged.          *)
LEMMA CommitStep ==
  ASSUME IndInv, NEW w \in Workers, CommitEffect(w)
  PROVE  IndInv'
<1> USE DEF options
<1>0. /\ Tabled(db) /\ pc[w] = "effect" /\ db.mark \in [Msgs -> Marks]
      /\ pc \in [Workers -> {"idle", "handle", "effect", "ack", "nack"}]
  BY Zenon DEF CommitEffect, IndInv, Typed, Tabled
<1>1. PICK m \in Msgs : m = job[w].id
  BY <1>0 DEF IndInv, Serving
<1>2. /\ db' = [db EXCEPT !.mark[m] = "fresh"]
      /\ effect' = effect \cup {m} /\ twice' = (twice \/ m \in effect \ forgot)
      /\ pc' = [pc EXCEPT ![w] = "ack"] \/ pc' = [pc EXCEPT ![w] = "nack"]
      /\ UNCHANGED <<options, sender, changed, up, job, gone, forgot>>
  BY Zenon, <1>1 DEF CommitEffect
<1>3. db.mark[m] = w /\ m \notin effect \ forgot
  BY <1>0, <1>1, WorkerIs DEF IndInv, Guarded
<1>4. OnMarks(db, db', [db.mark EXCEPT ![m] = "fresh"])
  BY Zenon, <1>0, <1>2, MarksWritten DEF Tabled
<1>5. [db.mark EXCEPT ![m] = "fresh"] \in [Msgs -> Marks]
  BY <1>0 DEF Marks
<1>6. twice' = FALSE
  BY Zenon, <1>2, <1>3 DEF IndInv, EffectOnce
<1>7. /\ pc' \in [Workers -> {"idle", "handle", "effect", "ack", "nack"}]
      /\ pc'[w] \in {"ack", "nack"} /\ \A v \in Workers \ {w} : pc'[v] = pc[v]
  BY <1>0, <1>2
<1>8. Typed' /\ RowsSound' /\ Serving' /\ Holding' /\ Outbox'
  BY <1>0, <1>2, <1>4, <1>5, <1>6, <1>7, MarksKeep
<1>9. db'.mark[m] = "fresh" /\ \A x \in Msgs \ {m} : db'.mark[x] = db.mark[x]
  BY <1>0, <1>4 DEF OnMarks
<1>10. Guarded'
  <2>1. \A v \in Workers : pc'[v] = "effect" => db'.mark[job'[v].id] = v
    BY <1>1, <1>2, <1>3, <1>7, <1>9 DEF IndInv, Guarded, Serving
  <2>2. \A x \in Msgs, s \in Sessions :
          db'.mark[x] = s => s \in Workers /\ pc'[s] = "effect" /\ job'[s].id = x
    BY <1>1, <1>2, <1>7, <1>9, MessageTableAssumption DEF IndInv, Guarded, MessageTableAssumption
  <2>3. /\ \A x \in Msgs : db'.mark[x] \in {"fresh", "aged"} => x \in effect'
        /\ \A x \in Msgs : x \in effect' \ forgot' => db'.mark[x] \in {"fresh", "aged"}
        /\ \A v \in Workers : pc'[v] = "ack" => job'[v].id \in effect'
    BY <1>1, <1>2, <1>7, <1>9 DEF IndInv, Guarded
  <2> QED
    BY Zenon, <2>1, <2>2, <2>3 DEF Guarded
<1>11. EffectOnce' /\ GoneHadEffect'
  BY Zenon, <1>2, <1>6 DEF IndInv, EffectOnce, GoneHadEffect
<1> QED
  BY Zenon, <1>8, <1>10, <1>11 DEF IndInv

(* A handler that fails takes its mark back. *)
LEMMA HandlerFailsStep ==
  ASSUME IndInv, NEW w \in Workers, HandlerFails(w)
  PROVE  IndInv'
<1> USE DEF options
<1>0. /\ Tabled(db) /\ pc[w] = "effect" /\ db.mark \in [Msgs -> Marks]
      /\ pc \in [Workers -> {"idle", "handle", "effect", "ack", "nack"}]
  BY Zenon DEF HandlerFails, IndInv, Typed, Tabled
<1>1. PICK m \in Msgs : m = job[w].id
  BY <1>0 DEF IndInv, Serving
<1>2. /\ db' = [db EXCEPT !.mark[m] = "none"]
      /\ pc' = [pc EXCEPT ![w] = "nack"]
      /\ UNCHANGED <<options, sender, changed, up, job, effect, gone, twice, forgot>>
  BY Zenon, <1>1 DEF HandlerFails
<1>3. db.mark[m] = w
  BY <1>0, <1>1 DEF IndInv, Guarded
<1>4. OnMarks(db, db', [db.mark EXCEPT ![m] = "none"])
  BY Zenon, <1>0, <1>2, MarksWritten DEF Tabled
<1>5. [db.mark EXCEPT ![m] = "none"] \in [Msgs -> Marks]
  BY <1>0 DEF Marks
<1>6. /\ pc' \in [Workers -> {"idle", "handle", "effect", "ack", "nack"}]
      /\ pc'[w] = "nack" /\ \A v \in Workers \ {w} : pc'[v] = pc[v]
  BY <1>0, <1>2
<1>7. Typed' /\ RowsSound' /\ Serving' /\ Holding' /\ Outbox'
  BY <1>0, <1>2, <1>4, <1>5, <1>6, MarksKeep DEF IndInv, Typed
<1>8. db'.mark[m] = "none" /\ \A x \in Msgs \ {m} : db'.mark[x] = db.mark[x]
  BY <1>0, <1>4 DEF OnMarks
<1>9. Guarded'
  <2>1. \A v \in Workers : pc'[v] = "effect" => db'.mark[job'[v].id] = v
    BY <1>1, <1>2, <1>3, <1>6, <1>8 DEF IndInv, Guarded, Serving
  <2>2. \A x \in Msgs, s \in Sessions :
          db'.mark[x] = s => s \in Workers /\ pc'[s] = "effect" /\ job'[s].id = x
    BY <1>1, <1>2, <1>6, <1>8, MessageTableAssumption DEF IndInv, Guarded, MessageTableAssumption
  <2>3. /\ \A x \in Msgs : db'.mark[x] \in {"fresh", "aged"} => x \in effect'
        /\ \A x \in Msgs : x \in effect' \ forgot' => db'.mark[x] \in {"fresh", "aged"}
        /\ \A v \in Workers : pc'[v] = "ack" => job'[v].id \in effect'
    BY <1>1, <1>2, <1>3, <1>6, <1>8, WorkerIs DEF IndInv, Guarded
  <2> QED
    BY Zenon, <2>1, <2>2, <2>3 DEF Guarded
<1>10. EffectOnce' /\ GoneHadEffect'
  BY Zenon, <1>2 DEF IndInv, EffectOnce, GoneHadEffect
<1> QED
  BY Zenon, <1>7, <1>9, <1>10 DEF IndInv

(* A process that dies loses the mark it had not committed. *)
LEMMA CrashStep ==
  ASSUME IndInv, NEW w \in Workers, Crash(w)
  PROVE  IndInv'
<1> USE DEF options
<1>0. /\ SoundDb(db) /\ db.mark \in [Msgs -> Marks] /\ job = [v \in Workers |-> job[v]]
      /\ pc \in [Workers -> {"idle", "handle", "effect", "ack", "nack"}]
      /\ up \in [Workers -> BOOLEAN]
  BY Zenon, TablesSound DEF IndInv, Typed, Tabled
<1>1. /\ db' = RolledBack(db, w)
      /\ up' = [up EXCEPT ![w] = FALSE] /\ Idle(w)
      /\ UNCHANGED <<options, sender, changed, effect, gone, twice, forgot>>
  BY Zenon DEF Crash
<1>2. /\ IsDb(db') /\ db'.inbox = db.inbox /\ db'.row \in [Msgs -> RowType]
      /\ db'.mark = [m \in Msgs |-> IF db.mark[m] = w THEN "none" ELSE db.mark[m]]
      /\ \A m \in Msgs : RowMove(db.row[m], db'.row[m], w)
  BY Zenon, <1>0, <1>1, Rolled
<1>3. /\ pc' \in [Workers -> {"idle", "handle", "effect", "ack", "nack"}]
      /\ job' = [v \in Workers |-> job'[v]]
      /\ pc'[w] = "idle" /\ ~up'[w] /\ up' \in [Workers -> BOOLEAN]
      /\ \A v \in Workers \ {w} : pc'[v] = pc[v] /\ job'[v] = job[v] /\ up'[v] = up[v]
  BY <1>0, <1>1 DEF Idle
<1>4. /\ RowsSound' /\ Outbox'
      /\ \A m \in Msgs, v \in Workers \ {w} : db.row[m].held = v => db'.row[m].held = v
  BY <1>1, <1>2, WorkerIs, Moved DEF IndInv
<1>5. /\ db'.mark \in [Msgs -> Marks]
      /\ \A m \in Msgs : db'.mark[m] = IF db.mark[m] = w THEN "none" ELSE db.mark[m]
  BY <1>0, <1>2 DEF Marks
<1>6. Typed'
  BY Zenon, <1>1, <1>2, <1>3, <1>5 DEF IndInv, Typed, Tabled
<1>7. Serving' /\ Holding'
  BY <1>1, <1>2, <1>3, <1>4 DEF IndInv, Serving, Holding
<1>8. Guarded'
  <2>1. \A v \in Workers : pc'[v] = "effect" => db'.mark[job'[v].id] = v
    BY <1>3, <1>5 DEF IndInv, Guarded, Serving
  <2>2. \A x \in Msgs, s \in Sessions :
          db'.mark[x] = s => s \in Workers /\ pc'[s] = "effect" /\ job'[s].id = x
    BY <1>3, <1>5, MessageTableAssumption DEF IndInv, Guarded, MessageTableAssumption
  <2>3. /\ \A x \in Msgs : db'.mark[x] \in {"fresh", "aged"} => x \in effect'
        /\ \A x \in Msgs : x \in effect' \ forgot' => db'.mark[x] \in {"fresh", "aged"}
        /\ \A v \in Workers : pc'[v] = "ack" => job'[v].id \in effect'
    BY <1>1, <1>3, <1>5, WorkerIs DEF IndInv, Guarded
  <2> QED
    BY Zenon, <2>1, <2>2, <2>3 DEF Guarded
<1>9. EffectOnce' /\ GoneHadEffect'
  BY Zenon, <1>1 DEF IndInv, EffectOnce, GoneHadEffect
<1> QED
  BY Zenon, <1>4, <1>6, <1>7, <1>8, <1>9 DEF IndInv

(* Marks grow old, and old ones are forgotten; nothing else happens to     *)
(* them but by their processes.                                            *)
LEMMA MarksAge ==
  ASSUME IndInv, NEW marks \in [Msgs -> Marks], OnMarks(db, db', marks),
         UNCHANGED <<options, sender, changed, up, pc, job, effect, gone, twice>>,
         forgot \subseteq forgot',
         \A x \in Msgs : \/ marks[x] = db.mark[x]
                         \/ db.mark[x] = "fresh" /\ marks[x] = "aged"
                         \/ db.mark[x] = "aged" /\ marks[x] = "none" /\ x \in forgot'
  PROVE  IndInv'
<1> USE DEF options
<1>1. Typed' /\ RowsSound' /\ Serving' /\ Holding' /\ Outbox'
  BY MarksKeep DEF IndInv, Typed
<1>2. db'.mark = marks
  BY Zenon DEF OnMarks
<1>3. Guarded'
  <2>1. \A v \in Workers : pc'[v] = "effect" => db'.mark[job'[v].id] = v
    BY <1>2, WorkerIs DEF IndInv, Guarded, Serving
  <2>2. \A x \in Msgs, s \in Sessions :
          db'.mark[x] = s => s \in Workers /\ pc'[s] = "effect" /\ job'[s].id = x
    BY <1>2, MessageTableAssumption DEF IndInv, Guarded, MessageTableAssumption
  <2>3. /\ \A x \in Msgs : db'.mark[x] \in {"fresh", "aged"} => x \in effect'
        /\ \A x \in Msgs : x \in effect' \ forgot' => db'.mark[x] \in {"fresh", "aged"}
        /\ \A v \in Workers : pc'[v] = "ack" => job'[v].id \in effect'
    BY <1>2 DEF IndInv, Guarded
  <2> QED
    BY Zenon, <2>1, <2>2, <2>3 DEF Guarded
<1>4. EffectOnce' /\ GoneHadEffect'
  BY Zenon DEF IndInv, EffectOnce, GoneHadEffect
<1> QED
  BY Zenon, <1>1, <1>3, <1>4 DEF IndInv

(* A mark passes the retention of the purge. *)
LEMMA AgeStep ==
  ASSUME IndInv, NEW m \in Msgs, Age(m)
  PROVE  IndInv'
<1>0. Tabled(db) /\ db.mark \in [Msgs -> Marks]
  BY Zenon DEF IndInv, Typed, Tabled
<1>1. db' = [db EXCEPT !.mark[m] = "aged"] /\ db.mark[m] = "fresh" /\ forgot' = forgot
  BY Zenon DEF Age
<1>2. PICK marks : marks = [db.mark EXCEPT ![m] = "aged"]
  BY Zenon
<1>3. OnMarks(db, db', marks)
  BY Zenon, <1>0, <1>1, <1>2, MarksWritten DEF Tabled
<1>4. marks \in [Msgs -> Marks] /\ \A x \in Msgs : marks[x] = IF x = m THEN "aged" ELSE db.mark[x]
  BY <1>0, <1>2, SMTT(30) DEF Marks
<1> QED
  BY <1>1, <1>3, <1>4, MarksAge DEF Age

(* The purge forgets the aged marks. *)
LEMMA PurgeStep ==
  ASSUME IndInv, Purge
  PROVE  IndInv'
<1>0. Tabled(db) /\ db.mark \in [Msgs -> Marks]
  BY Zenon DEF IndInv, Typed, Tabled
<1>1. PICK marks : marks = [x \in Msgs |-> IF db.mark[x] = "aged" THEN "none" ELSE db.mark[x]]
  BY Zenon
<1>2. OnMarks(db, db', marks)
  BY Zenon, <1>0, <1>1, PurgeOf DEF Purge
<1>3. /\ marks \in [Msgs -> Marks]
      /\ \A x \in Msgs : marks[x] = IF db.mark[x] = "aged" THEN "none" ELSE db.mark[x]
  BY <1>0, <1>1 DEF Marks
<1>4. /\ forgot' = forgot \cup {x \in Msgs : db.mark[x] = "aged"}
      /\ UNCHANGED <<options, sender, changed, up, pc, job, effect, gone, twice>>
  BY Zenon DEF Purge
<1> QED
  BY <1>2, <1>3, <1>4, MarksAge

-----------------------------------------------------------------------------
(* The steps of the sender.                                                *)

(* The sender writes the row of a message that no process holds, and what  *)
(* it leaves is what the outbox promises of that message.                  *)
LEMMA SenderKeeps ==
  ASSUME IndInv, NEW m \in Msgs \ Corrupt, NEW x, Sound(x),
         OnRows(db, db', [db.row EXCEPT ![m] = x]),
         x = db.row[m] \/ db.row[m].held \notin Workers,
         NEW st \in {"todo", "failed", "sent", "done", "undone"},
         sender' = [sender EXCEPT ![m] = st],
         UNCHANGED <<options, up, pc, job, effect, gone, twice, forgot>>,
         changed' = IF st = "done" THEN changed \cup {m} ELSE changed,
         st \in {"todo", "failed"} => x = NoRow,
         resolver = "strict" =>
           /\ sender[m] # "done" /\ (st # "done" => m \notin gone)
           /\ st \in {"todo", "failed", "undone"} => x = NoRow
           /\ st = "sent" => x.held = Sender
           /\ st = "done" => x # NoRow /\ x.held # Sender
  PROVE  IndInv'
<1> USE DEF options
<1>0. /\ db.row \in [Msgs -> RowType] /\ m \in Msgs
      /\ sender \in [Msgs \ Corrupt -> {"todo", "failed", "sent", "done", "undone"}]
  BY Zenon DEF IndInv, Typed, Tabled
<1>1. /\ IsDb(db') /\ db'.mark = db.mark /\ db'.inbox = db.inbox
      /\ db'.row \in [Msgs -> RowType] /\ db'.row[m] = x
      /\ \A y \in Msgs \ {m} : db'.row[y] = db.row[y]
  BY <1>0 DEF OnRows, Sound
<1>2. /\ sender' \in [Msgs \ Corrupt -> {"todo", "failed", "sent", "done", "undone"}]
      /\ sender'[m] = st /\ \A y \in (Msgs \ Corrupt) \ {m} : sender'[y] = sender[y]
  BY <1>0
<1>3. Typed'
  BY Zenon, <1>1, <1>2 DEF IndInv, Typed, Tabled
<1>4. RowsSound'
  BY Zenon, <1>1 DEF IndInv, RowsSound
<1>5. Serving'
  BY <1>1 DEF IndInv, Serving
<1>6. Guarded'
  BY <1>1, GuardedFrame, SMTT(30) DEF IndInv
<1>7. Holding'
  BY <1>0, <1>1 DEF IndInv, Holding, Serving
<1>8. Outbox'
  <2> SUFFICES ASSUME NEW y \in Msgs \ Corrupt
               PROVE  /\ sender'[y] \in {"todo", "failed"} => db'.row[y] = NoRow
                      /\ resolver = "strict" =>
                         /\ sender'[y] \in {"todo", "failed", "undone"} =>
                              db'.row[y] = NoRow /\ y \notin gone /\ y \notin changed'
                         /\ sender'[y] = "sent" =>
                              db'.row[y].held = Sender /\ y \notin gone /\ y \notin changed'
                         /\ sender'[y] = "done" =>
                              /\ y \in changed'
                              /\ y \in gone \/ (db'.row[y] # NoRow /\ db'.row[y].held # Sender)
    BY Zenon DEF Outbox
  <2>1. CASE y = m
    <3>1. resolver = "strict" => m \notin changed
      BY <1>0 DEF IndInv, Outbox
    <3> QED
      BY <1>1, <1>2, <2>1, <3>1, SMTT(30)
  <2>2. CASE y # m
    <3>1. /\ sender'[y] = sender[y] /\ db'.row[y] = db.row[y]
          /\ y \in changed' <=> y \in changed
      BY <1>1, <1>2, <2>2
    <3> QED
      BY Zenon, <3>1 DEF IndInv, Outbox
  <2> QED
    BY Zenon, <2>1, <2>2
<1>9. EffectOnce' /\ GoneHadEffect'
  BY Zenon DEF IndInv, EffectOnce, GoneHadEffect
<1> QED
  BY Zenon, <1>3, <1>4, <1>5, <1>6, <1>7, <1>8, <1>9 DEF IndInv

(* A step of the sender that leaves the row as it is. *)
LEMMA RowKept ==
  ASSUME IndInv, NEW m \in Msgs, db' = db
  PROVE  OnRows(db, db', [db.row EXCEPT ![m] = db.row[m]]) /\ Sound(db.row[m])
<1>1. IsDb(db) /\ db.row \in [Msgs -> RowType] /\ Sound(db.row[m])
  BY Zenon DEF IndInv, Typed, Tabled, RowsSound
<1>2. [db.row EXCEPT ![m] = db.row[m]] = db.row
  BY <1>1
<1> QED
  BY Zenon, <1>1, <1>2 DEF OnRows

(* A send inserts the row in the transaction of the sender whenever the    *)
(* resolver is strict, and fails without writing otherwise.                *)
LEMMA SendStep ==
  ASSUME IndInv, NEW m \in Msgs \ Corrupt, NEW hasTx \in BOOLEAN, NEW at, NEW now,
         SendAt(m, hasTx, at, now)
  PROVE  IndInv'
<1>0. /\ sender[m] = "todo" /\ m \in Msgs
      /\ UNCHANGED <<options, changed, up, pc, job, effect, gone, twice, forgot>>
  BY Zenon DEF SendAt, ProducerSendAfter, SendAfter
<1>1. /\ db.row[m] = NoRow
      /\ resolver = "strict" => m \notin gone
  BY <1>0 DEF IndInv, Outbox
<1>2. CASE UNCHANGED db /\ sender' = [sender EXCEPT ![m] = "failed"]
  <2>1. OnRows(db, db', [db.row EXCEPT ![m] = db.row[m]]) /\ Sound(db.row[m])
    BY Zenon, <1>0, <1>2, RowKept
  <2> QED
    BY <1>0, <1>1, <1>2, <2>1, SenderKeeps, Zenon
<1>3. ASSUME NEW delayed, SendAfter(m, hasTx, delayed),
             ~(UNCHANGED db /\ sender' = [sender EXCEPT ![m] = "failed"])
      PROVE  IndInv'
  <2>1. PICK h : h = IF resolveQuerier(hasTx) = "tx" THEN Sender ELSE Nobody
    BY Zenon
  <2>2. PICK r : r = Insert(db, m, delayed, h)
    BY Zenon
  <2>3. /\ sender' = [sender EXCEPT ![m] = "sent"] /\ db' = r.db /\ ~r.err
        /\ resolveQuerier(hasTx) # "ErrNoSharedTransaction"
    BY Zenon, <1>3, <2>1, <2>2 DEF SendAfter
  <2>4. resolver = "strict" => h = Sender
    BY Zenon, <2>1, <2>3 DEF resolveQuerier
  <2>5. h \in Sessions \cup {Nobody}
    BY Zenon, <2>1, SenderIs
  <2>6. PICK x : x = [NewRow EXCEPT !.held = h]
    BY Zenon
  <2>7. Sound(x) /\ x # NoRow /\ x.held = h
    BY Zenon, <2>5, <2>6, Inserts
  <2>8. Tabled(db)
    BY Zenon DEF IndInv, Typed
  <2>9. r = Inserted(db, m, delayed, h)
    BY Zenon, <2>2, <2>8, Statements
  <2>10. db' = Place(Put(db, m, x), m, delayed)
    <3>1. r = IF db.table THEN [db |-> Place(Put(db, m, x), m, delayed), err |-> FALSE]
              ELSE [db |-> db, err |-> TRUE]
      BY Zenon, <2>6, <2>9 DEF Inserted
    <3> QED
      BY Zenon, <2>3, <3>1
  <2>11. OnRows(db, db', [db.row EXCEPT ![m] = x])
    BY Zenon, <2>8, <2>10, PutAndPlaced DEF Tabled
  <2>12. db.row[m].held \notin Workers
    BY Zenon, <1>1, NoRowIs, WorkerIs
  <2> QED
    BY <1>0, <1>1, <2>3, <2>4, <2>7, <2>11, <2>12, SenderKeeps, Zenon
<1> QED
  BY Zenon, <1>2, <1>3 DEF SendAt, ProducerSendAfter

(* The commit of the sender publishes the row it holds. *)
LEMMA SenderCommits ==
  ASSUME IndInv, NEW m \in Msgs \ Corrupt, Commit(m)
  PROVE  IndInv'
<1>0. /\ sender[m] = "sent" /\ m \in Msgs
      /\ sender' = [sender EXCEPT ![m] = "done"]
      /\ changed' = changed \cup {m}
      /\ UNCHANGED <<options, up, pc, job, effect, gone, twice, forgot>>
  BY Zenon DEF Commit
<1>1. resolver = "strict" => db.row[m].held = Sender /\ m \notin gone
  BY <1>0, SMTT(30) DEF IndInv, Outbox
<1>2. CASE db.row[m].held = Sender
  <2>0. Tabled(db) /\ Sound(db.row[m])
    BY Zenon, <1>0 DEF IndInv, Typed, RowsSound
  <2>1. PICK x : x = [db.row[m] EXCEPT !.held = Nobody]
    BY Zenon
  <2>2. db.row[m] # NoRow
    BY Zenon, <1>2, NoRowIs, SenderIs
  <2>3. x \in RowType /\ x.epoch = db.row[m].epoch /\ x.by = db.row[m].by /\ x.held = Nobody
    BY <2>0, <2>1 DEF Sound, RowType
  <2>4. Sound(x) /\ x # NoRow /\ x.held = Nobody
    BY <2>0, <2>2, <2>3, NoRowIs, SenderIs DEF Sound
  <2>5. db' = [db EXCEPT !.row[m] = x]
    BY Zenon, <1>2, <2>1 DEF Commit
  <2>6. OnRows(db, db', [db.row EXCEPT ![m] = x])
    BY Zenon, <2>0, <2>5, PutRow DEF Put, Tabled
  <2>7. db.row[m].held \notin Workers
    BY Zenon, <1>2, WorkerIs
  <2> QED
    BY <1>0, <1>1, <2>4, <2>6, <2>7, SenderIs, SenderKeeps, Zenon DEF IndInv, Outbox
<1>3. CASE db.row[m].held # Sender
  <2>1. db' = db
    BY Zenon, <1>3 DEF Commit
  <2>2. OnRows(db, db', [db.row EXCEPT ![m] = db.row[m]]) /\ Sound(db.row[m])
    BY Zenon, <1>0, <2>1, RowKept
  <2> QED
    BY <1>0, <1>1, <1>3, <2>2, SenderKeeps, Zenon
<1> QED
  BY Zenon, <1>2, <1>3

(* A rollback takes the row of the open transaction with it. *)
LEMMA SenderRollsBack ==
  ASSUME IndInv, NEW m \in Msgs \ Corrupt, Rollback(m)
  PROVE  IndInv'
<1>0. /\ sender[m] \in {"failed", "sent"} /\ m \in Msgs
      /\ sender' = [sender EXCEPT ![m] = "undone"]
      /\ UNCHANGED <<options, changed, up, pc, job, effect, gone, twice, forgot>>
  BY Zenon DEF Rollback
<1>1. /\ sender[m] = "failed" => db.row[m] = NoRow
      /\ resolver = "strict" => m \notin gone /\ (db.row[m].held = Sender \/ db.row[m] = NoRow)
  BY <1>0 DEF IndInv, Outbox
<1>2. CASE db.row[m].held = Sender
  <2>1. IsDb(db)
    BY Zenon DEF IndInv, Typed, Tabled
  <2>2. OnRows(db, db', [db.row EXCEPT ![m] = NoRow])
    BY Zenon, <1>2, <2>1, DeleteRow DEF Rollback
  <2>3. db.row[m].held \notin Workers
    BY Zenon, <1>2, WorkerIs
  <2> QED
    BY <1>0, <1>1, <2>2, <2>3, NoRowIs, SenderKeeps, Zenon
<1>3. CASE db.row[m].held # Sender
  <2>1. db' = db
    BY Zenon, <1>3 DEF Rollback
  <2>2. OnRows(db, db', [db.row EXCEPT ![m] = db.row[m]]) /\ Sound(db.row[m])
    BY Zenon, <1>0, <2>1, RowKept
  <2> QED
    BY <1>0, <1>1, <1>3, <2>2, SenderKeeps, Zenon
<1> QED
  BY Zenon, <1>2, <1>3

-----------------------------------------------------------------------------
(* The theorems.                                                           *)

(* A process at rest has no job. *)
Resting == \A w \in Workers : pc[w] = "idle" => job[w] = NoJob

(* Every step keeps the invariant. *)
LEMMA IndNext == IndInv /\ [Next]_vars => IndInv'
<1> SUFFICES ASSUME IndInv, [Next]_vars PROVE IndInv'
  BY Zenon
<1>1. CASE UNCHANGED vars
  <2>1. IsDb(db)
    BY Zenon DEF IndInv, Typed, Tabled
  <2> QED
    BY Zenon, <1>1, <2>1, SameTables DEF vars, options
<1>2. ASSUME NEW w \in Workers, Work(w) \/ PollFailed(w) \/ HandlerFails(w) \/ Crash(w)
      PROVE  IndInv'
  BY Zenon, <1>2, BootStep, PollStep, MarkStep, CommitStep, AckStep, NackStep, HandlerFailsStep,
     CrashStep DEF Work
<1>3. ASSUME NEW m \in Msgs \ Corrupt,
             \/ \E hasTx \in BOOLEAN, at \in 0..2 : SendAt(m, hasTx, at, 1)
             \/ Commit(m) \/ Rollback(m)
      PROVE  IndInv'
  BY Zenon, <1>3, SendStep, SenderCommits, SenderRollsBack
<1>4. ASSUME NEW m \in Msgs, Lapse(m) \/ Age(m) PROVE IndInv'
  BY Zenon, <1>4, LapseStep, AgeStep
<1>5. CASE EnsureSchema \/ EnsureInboxSchema \/ Tick \/ Purge
  BY Zenon, <1>5, SchemaStep, PurgeStep
<1> QED
  BY Zenon, <1>1, <1>2, <1>3, <1>4, <1>5 DEF Next

(* The invariant holds throughout. *)
LEMMA Invariance == Spec => []IndInv
BY IndInit, IndNext, PTL DEF Spec

(* A process that goes idle drops its job. *)
LEMMA RestingNext == Typed /\ Resting /\ [Next]_vars => Resting'
<1> SUFFICES ASSUME Typed, Resting, [Next]_vars PROVE Resting'
  BY Zenon
<1>1. \/ UNCHANGED <<pc, job>>
      \/ \E w \in Workers : Idle(w)
      \/ \E w \in Workers, p \in {"handle", "effect", "ack", "nack"} :
           pc' = [pc EXCEPT ![w] = p] /\ job' = job
      \/ \E w \in Workers : \E row :
           pc' = [pc EXCEPT ![w] = "handle"] /\ job' = [job EXCEPT ![w] = row]
  <2>1. CASE UNCHANGED vars
    BY Zenon, <2>1 DEF vars
  <2>2. ASSUME NEW w \in Workers, Poll(w) PROVE <1>1
    BY Zenon, <2>2 DEF Poll, pollLease, pollLock
  <2>3. ASSUME NEW w \in Workers, MarkProcessed(w) PROVE <1>1
    BY Zenon, <2>3 DEF MarkProcessed
  <2>4. ASSUME NEW w \in Workers, CommitEffect(w) \/ HandlerFails(w) PROVE <1>1
    BY Zenon, <2>4 DEF CommitEffect, HandlerFails
  <2>5. ASSUME NEW w \in Workers, Ack(w) \/ Nack(w) \/ Crash(w) PROVE <1>1
    BY Zenon, <2>5 DEF Ack, Nack, Crash
  <2>6. ASSUME NEW w \in Workers, Boot(w) \/ PollFailed(w) PROVE <1>1
    BY Zenon, <2>6 DEF Boot, PollFailed
  <2>7. ASSUME NEW m \in Msgs \ Corrupt,
               \/ \E hasTx \in BOOLEAN, at \in 0..2 : SendAt(m, hasTx, at, 1)
               \/ Commit(m) \/ Rollback(m)
        PROVE  <1>1
    BY Zenon, <2>7 DEF SendAt, ProducerSendAfter, SendAfter, Commit, Rollback
  <2>8. ASSUME NEW m \in Msgs, Lapse(m) \/ Age(m) PROVE <1>1
    BY Zenon, <2>8 DEF Lapse, Age
  <2>9. CASE EnsureSchema \/ EnsureInboxSchema \/ Tick \/ Purge
    BY Zenon, <2>9 DEF EnsureSchema, EnsureInboxSchema, Tick, Purge
  <2> QED
    BY Zenon, <2>1, <2>2, <2>3, <2>4, <2>5, <2>6, <2>7, <2>8, <2>9 DEF Next, Work
<1> QED
  BY <1>1 DEF Typed, Resting, Idle

(* A process at rest has no job, throughout. *)
LEMMA Rests == Spec => []Resting
<1>1. Init => Resting
  BY DEF Init, Resting
<1>2. IndInv => Typed
  BY Zenon DEF IndInv
<1> QED
  BY <1>1, <1>2, RestingNext, Invariance, PTL DEF Spec

(* A row leaves the table only after the effect of its handler committed,  *)
(* for every number of processes and messages and any run of crashes,      *)
(* lapsed leases and failed statements.                                    *)
THEOREM GoneHadEffectCorrect == Spec => []GoneHadEffect
<1>1. IndInv => GoneHadEffect
  BY Zenon DEF IndInv
<1> QED
  BY <1>1, Invariance, PTL

(* The inbox guards the handler: no effect is committed a second time      *)
(* unless the purge forgot the mark of the message.                        *)
THEOREM EffectOnceCorrect == Spec => []EffectOnce
<1>1. IndInv => EffectOnce
  BY Zenon DEF IndInv
<1> QED
  BY <1>1, Invariance, PTL

(* With a strict resolver the message is published exactly when the change *)
(* of the application's data is committed.                                 *)
THEOREM OutboxAtomicCorrect == Spec => []OutboxAtomic
<1>1. IndInv => OutboxAtomic
  <2> SUFFICES ASSUME IndInv, resolver = "strict", NEW m \in Msgs \ Corrupt
               PROVE  Published(m) <=> m \in changed
    BY Zenon DEF OutboxAtomic
  <2>1. sender[m] \in {"todo", "failed", "sent", "done", "undone"}
    BY DEF IndInv, Typed
  <2> QED
    BY <2>1, NoRowIs DEF IndInv, Outbox, Published
<1> QED
  BY <1>1, Invariance, PTL

(* The dialects do the same to every table the system can reach. *)
THEOREM DialectsAgreeCorrect == Spec => []DialectsAgree
<1>1. IndInv /\ Resting => DialectsAgree
  <2> SUFFICES ASSUME IndInv, Resting, NEW w \in Workers
               PROVE  DialectsAgree!(w)
    BY Zenon DEF DialectsAgree
  <2>0. Tabled(db)
    BY Zenon DEF IndInv, Typed
  <2>1. /\ MySQLClaim(db, 1, w) = PostgresClaim(db, 1, w)
        /\ MySQLClaimLock(db, w) = PostgresClaimLock(db, w)
    BY Zenon, <2>0, MySQLStatements, PostgresStatements
  <2>2. (\A m \in Msgs : db.row[m].held = Nobody) => SQLiteClaim(db, 1, w) = PostgresClaim(db, 1, w)
    BY Zenon, SQLiteStatements, PostgresStatements
  <2>3. ASSUME job[w] # NoJob, NEW m, m = job[w].id, NEW e, e = job[w].epoch
        PROVE  /\ MySQLAck(db, m, w, e) = PostgresAck(db, m, w, e)
               /\ SQLiteAck(db, m, w, e) = PostgresAck(db, m, w, e)
               /\ \A d \in BOOLEAN :
                    /\ MySQLNack(db, m, w, e, d) = PostgresNack(db, m, w, e, d)
                    /\ SQLiteNack(db, m, w, e, d) = PostgresNack(db, m, w, e, d)
                    /\ MySQLNackLock(db, job[w], d) \subseteq PostgresNackLock(db, job[w], d)
               /\ db.inbox = "unique" =>
                    MySQLInsertInboxIfAbsent(db, m, w) = PostgresInsertInboxIfAbsent(db, m, w)
               /\ ~SQLiteInsertInboxIfAbsent(db, m, w).waits =>
                    SQLiteInsertInboxIfAbsent(db, m, w) = PostgresInsertInboxIfAbsent(db, m, w)
    <3>1. /\ MySQLAck(db, m, w, e) = PostgresAck(db, m, w, e)
          /\ SQLiteAck(db, m, w, e) = PostgresAck(db, m, w, e)
      <4>1. PostgresAck(db, m, w, e) = Fenced(db, m, w, e, Delete(db, m))
        BY Zenon, PostgresStatements
      <4>2. MySQLAck(db, m, w, e) = Fenced(db, m, w, e, Delete(db, m))
        BY Zenon, <2>0, MySQLStatements
      <4>3. SQLiteAck(db, m, w, e) = Fenced(db, m, w, e, Delete(db, m))
        BY Zenon, SQLiteStatements
      <4> QED
        BY Zenon, <4>1, <4>2, <4>3
    <3>2. \A d \in BOOLEAN :
            /\ MySQLNack(db, m, w, e, d) = PostgresNack(db, m, w, e, d)
            /\ SQLiteNack(db, m, w, e, d) = PostgresNack(db, m, w, e, d)
      <4>1. \A d : PostgresNack(db, m, w, e, d) = Fenced(db, m, w, e, Returned(db, m, d))
        BY Zenon, PostgresStatements
      <4>2. \A d : MySQLNack(db, m, w, e, d) = Fenced(db, m, w, e, Returned(db, m, d))
        BY Zenon, <2>0, MySQLStatements
      <4>3. \A d : SQLiteNack(db, m, w, e, d) = Fenced(db, m, w, e, Returned(db, m, d))
        BY Zenon, SQLiteStatements
      <4> QED
        BY Zenon, <4>1, <4>2, <4>3
    <3>3. \A d \in BOOLEAN : MySQLNackLock(db, job[w], d) \subseteq PostgresNackLock(db, job[w], d)
      BY Zenon, NackLocks
    <3>4. db.inbox = "unique" =>
            MySQLInsertInboxIfAbsent(db, m, w) = PostgresInsertInboxIfAbsent(db, m, w)
      BY DEF MySQLInsertInboxIfAbsent, PostgresInsertInboxIfAbsent
    <3>5. m \in Msgs
      BY <2>3 DEF Resting, IndInv, Serving
    <3>6. ~SQLiteInsertInboxIfAbsent(db, m, w).waits =>
            SQLiteInsertInboxIfAbsent(db, m, w) = PostgresInsertInboxIfAbsent(db, m, w)
      <4>1. PICK a, b : /\ a = (\E x \in Msgs : db.mark[x] \in Sessions \ {w})
                        /\ b = (db.mark[m] \in Sessions \ {w})
        BY Zenon
      <4>2. PICK err, already, new :
              /\ err = (db.inbox # "unique") /\ already = (db.mark[m] # "none")
              /\ new = IF db.mark[m] = "none" THEN [db EXCEPT !.mark[m] = w] ELSE db
        BY Zenon
      <4>3. SQLiteInsertInboxIfAbsent(db, m, w) =
              [waits |-> a, err |-> err, already |-> already, db |-> new]
        BY Zenon, <4>1, <4>2 DEF SQLiteInsertInboxIfAbsent
      <4>4. PostgresInsertInboxIfAbsent(db, m, w) =
              [waits |-> b, err |-> err, already |-> already, db |-> new]
        BY Zenon, <4>1, <4>2 DEF PostgresInsertInboxIfAbsent
      <4>5. /\ (\E x \in Msgs : db.mark[x] \in Sessions \ {w}) \in BOOLEAN
            /\ (db.mark[m] \in Sessions \ {w}) \in BOOLEAN
        BY SMT
      <4>6. ~a => a = b
        <5>1. a \in BOOLEAN /\ b \in BOOLEAN
          BY Zenon, <4>1, <4>5
        <5>2. b => a
          BY Zenon, <3>5, <4>1
        <5> QED
          BY <5>1, <5>2
      <4>7. SQLiteInsertInboxIfAbsent(db, m, w).waits = a
        BY <4>3
      <4> QED
        BY Zenon, <4>3, <4>4, <4>6, <4>7
    <3> QED
      BY Zenon, <3>1, <3>2, <3>3, <3>4, <3>6
  <2> QED
    BY Zenon, <2>1, <2>2, <2>3
<1> QED
  BY <1>1, Invariance, Rests, PTL
=============================================================================
