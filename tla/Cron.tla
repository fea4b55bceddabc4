-------------------------------- MODULE Cron --------------------------------
(***************************************************************************)
(* Instances of one cron source, each with a clock of its own, that share  *)
(* a database to agree on who emits a fire: an elector (a lease renewed at *)
(* every fire) or a locker (a claim per fire).                             *)
(*                                                                         *)
(* now is the clock of the database; an instance's clock is ahead of it by *)
(* its skew. An instance may come to its fire late by up to MaxLag, may be *)
(* held up at the emit for as long as the consumer likes, and may die.     *)
(***************************************************************************)
EXTENDS CronDialects, FiniteSets, FiniteSetsExt, TLC

CONSTANTS
  Instances,
  Engines,    \* engines to consider
  Windows,    \* lease times to live and retentions to consider
  Period,     \* the period of an @every schedule
  MaxSkew,    \* bound on how far a clock is ahead of the database
  MaxLag,     \* bound on how late an instance asks its coordinator
  MaxNow,     \* bound on the time
  MaxFaults   \* bound on deaths and failed statements

ASSUME CronAssumption ==
  /\ Engines \subseteq {"postgres", "mysql", "sqlite"}
  /\ Windows \subseteq Int
  /\ Fires \subseteq Nat /\ IsFiniteSet(Fires)
  /\ Period \in Nat \ {0}
  /\ MaxSkew \in Nat /\ MaxLag \in Nat /\ MaxNow \in Nat /\ MaxFaults \in Nat
  /\ Nobody \notin Instances

VARIABLES
  engine, coordinator, every, window, skew,  \* options, never changed
  now,      \* the clock of the database
  db,       \* the lease table and the fired table
  pc,       \* where each instance is in Stream
  next,     \* its next fire
  fire,     \* the fire it is busy with
  emitted,  \* the fires that were emitted
  leader,   \* the last winner under an elector, and when it won
  twice,    \* some fire was emitted by two instances
  split,    \* an instance won while the lease of another had not expired
  faults

options == <<engine, coordinator, every, window, skew>>
vars == <<options, now, db, pc, next, fire, emitted, leader, twice, split, faults>>

Never == MaxNow + MaxSkew + Period + 1

Clock(i) == now + skew[i]

(* schedule.Next: strictly after t. An @every schedule counts from t. *)
NextFire(t) ==
  IF every THEN t + Period
  ELSE LET later == {f \in Fires : f > t} IN IF later = {} THEN Never ELSE Min(later)

(* An elector or a locker, not both, and no locker for an @every schedule, *)
(* whose fire times differ from instance to instance.                      *)
wireGate(elector, locker, isEvery) ==
  IF elector /\ locker THEN "ErrConflictingCoordinator"
  ELSE IF locker /\ isEvery THEN "ErrLockerRequiresGridSchedule"
  ELSE IF elector THEN "elector"
  ELSE IF locker THEN "locker"
  ELSE "none"

(* What the constructors refuse: no database, no dialect, a table whose    *)
(* name is no identifier, a lease that does not last.                      *)
validateIdent(table) == table = "identifier"

NewSQLLocker(o) ==
  CASE ~o.db -> "ErrNilAdapter"
    [] ~o.dialect -> "ErrNilDialect"
    [] ~validateIdent(o.table) -> "ErrInvalidTableName"
    [] OTHER -> "nil"

NewSQLElector(o) ==
  CASE NewSQLLocker(o) # "nil" -> NewSQLLocker(o)
    [] o.window <= 0 -> "ErrInvalidLeaseTTL"
    [] OTHER -> "nil"

Arguments ==
  [db : BOOLEAN, dialect : BOOLEAN, table : {"identifier", "other"}, window : Windows]

Init ==
  /\ engine \in Engines
  /\ every \in BOOLEAN
  /\ coordinator \in {wireGate(e, l, every) : e, l \in BOOLEAN} \cap {"elector", "locker", "none"}
  /\ \E o \in Arguments :
       /\ window = o.window
       /\ coordinator = "elector" => NewSQLElector(o) = "nil"
       /\ coordinator = "locker" => NewSQLLocker(o) = "nil"
  /\ skew \in [Instances -> 0..MaxSkew]
  /\ now = 0
  /\ db = EmptyDB
  /\ pc = [i \in Instances |-> "down"]
  /\ next = [i \in Instances |-> Never]
  /\ fire = [i \in Instances |-> Never]
  /\ emitted = {}
  /\ leader = [by |-> Nobody, at |-> 0]
  /\ twice = FALSE /\ split = FALSE
  /\ faults = 0

-----------------------------------------------------------------------------
Goto(i, label) == pc' = [pc EXCEPT ![i] = label]
Fault == faults < MaxFaults /\ faults' = faults + 1

EnsureFiredSchema ==
  CASE engine = "postgres" -> postgresEnsureFiredSchema(db)
    [] engine = "mysql" -> mysqlEnsureFiredSchema(db)
    [] engine = "sqlite" -> sqliteEnsureFiredSchema(db)

EnsureLeaseSchema ==
  CASE engine = "postgres" -> postgresEnsureLeaseSchema(db)
    [] engine = "mysql" -> mysqlEnsureLeaseSchema(db)
    [] engine = "sqlite" -> sqliteEnsureLeaseSchema(db)

(* An operator applies the schema of the coordinator, a statement at a     *)
(* time, before the instances run or beside them.                          *)
EnsureSchema ==
  /\ coordinator # "none"
  /\ db' \in IF coordinator = "locker" THEN EnsureFiredSchema ELSE EnsureLeaseSchema
  /\ UNCHANGED <<options, now, pc, next, fire, emitted, leader, twice, split, faults>>

Start(i) ==
  /\ pc[i] = "down"
  /\ next' = [next EXCEPT ![i] = NextFire(Clock(i))]
  /\ Goto(i, "wait")
  /\ UNCHANGED <<options, now, db, fire, emitted, leader, twice, split, faults>>

(* The fires that passed while the emit was held up are skipped. *)
Coalesce(t, clock) ==
  IF t > clock THEN t
  ELSE IF every THEN CHOOSE n \in (clock + 1)..(clock + Period) : (n - t) % Period = 0
  ELSE NextFire(clock)

(* Back to the head of the loop. *)
Loop(i) ==
  /\ next' = [next EXCEPT ![i] = Coalesce(@, Clock(i))]
  /\ fire' = [fire EXCEPT ![i] = Never]
  /\ Goto(i, "wait")

Timer(i) ==
  /\ pc[i] = "wait"
  /\ next[i] # Never /\ Clock(i) >= next[i]
  /\ fire' = [fire EXCEPT ![i] = next[i]]
  /\ next' = [next EXCEPT ![i] = NextFire(next[i])]
  /\ Goto(i, "gate")
  /\ UNCHANGED <<options, now, db, emitted, leader, twice, split, faults>>

(* The coordinator said yes. *)
Won(i) ==
  /\ Goto(i, "emit")
  /\ UNCHANGED <<next, fire>>
  /\ IF coordinator = "elector"
     THEN /\ leader' = [by |-> i, at |-> now]
          /\ split' = (split \/ (leader.by \notin {Nobody, i} /\ now <= leader.at + window))
     ELSE UNCHANGED <<leader, split>>

Lost(i) == Loop(i) /\ UNCHANGED <<leader, split>>

Verdict(i, won) == IF won THEN Won(i) ELSE Lost(i)

Step(i, label) == Goto(i, label) /\ UNCHANGED <<next, fire, leader, split>>

(* win: no gate, the claim of the locker, or the lease of the elector. *)
NoGate(i) ==
  /\ coordinator = "none"
  /\ Won(i)
  /\ UNCHANGED db

(* Slip: MySQL's verdict is read from the row and not from the insert. *)
ClaimByRow(i) ==
  LET r == CASE engine = "postgres" -> postgresClaimFire(db, fire[i], now)
             [] engine = "mysql" -> mysqlClaimFire(db, fire[i], now)
             [] engine = "sqlite" -> sqliteClaimFire(db, fire[i], now)
  IN /\ coordinator = "locker" /\ "fired" \in db.tables
     /\ db' = r.db
     /\ IF engine = "mysql" THEN Step(i, "confirm") ELSE Verdict(i, r.won)

Claim(i) ==
  LET r == CASE engine = "postgres" -> postgresClaimFire(db, fire[i], now)
             [] engine = "mysql" -> mysqlClaimFire(db, fire[i], now)
             [] engine = "sqlite" -> sqliteClaimFire(db, fire[i], now)
  IN /\ coordinator = "locker" /\ "fired" \in db.tables
     /\ db' = r.db
     /\ IF engine = "mysql" /\ ~r.won THEN Step(i, "confirm") ELSE Verdict(i, r.won)

IsLeader(i) ==
  LET r == CASE engine = "postgres" -> postgresAcquireOrRenew(db, i, window, now)
             [] engine = "mysql" -> mysqlRenew(db, i, window, now)
             [] engine = "sqlite" -> sqliteAcquireOrRenew(db, i, window, now)
  IN /\ coordinator = "elector" /\ "lease" \in db.tables
     /\ db' = r.db
     /\ IF engine = "mysql" /\ ~r.won THEN Step(i, "select") ELSE Verdict(i, r.won)

Gate(i) ==
  /\ pc[i] = "gate"
  /\ NoGate(i) \/ Claim(i) \/ IsLeader(i)
  /\ UNCHANGED <<options, now, emitted, twice, faults>>

(* The further statements of MySQL. The read that confirms a claim only    *)
(* tells a conflict from an error; the fire is not won either way.         *)
Confirm(i) ==
  /\ pc[i] = "confirm"
  /\ Lost(i)
  /\ UNCHANGED <<options, now, db, emitted, twice, faults>>

(* Slip: the row that is read decides, expired or not, whoever holds it. *)
SelectAnyLive(i) ==
  /\ pc[i] = "select"
  /\ IF db.lease = NoLease THEN Step(i, "insert") ELSE Verdict(i, ~Expired(db, now))
  /\ UNCHANGED <<options, now, db, emitted, twice, faults>>

Select(i) ==
  /\ pc[i] = "select"
  /\ IF db.lease = NoLease THEN Step(i, "insert") ELSE Verdict(i, mysqlHeld(db, i, now))
  /\ UNCHANGED <<options, now, db, emitted, twice, faults>>

InsertIgnore(i) ==
  LET r == mysqlAcquire(db, i, window, now)
  IN /\ pc[i] = "insert"
     /\ db' = r.db
     /\ IF r.won THEN Won(i) ELSE Step(i, "verify")
     /\ UNCHANGED <<options, now, emitted, twice, faults>>

Verify(i) ==
  /\ pc[i] = "verify"
  /\ Verdict(i, db.lease.holder = i)
  /\ UNCHANGED <<options, now, db, emitted, twice, faults>>

AcquireOrRenew(i) == Select(i) \/ InsertIgnore(i) \/ Verify(i)

(* A coordinator that fails skips the fire, whether or not its statement   *)
(* took effect.                                                            *)
GateFails(i) ==
  /\ pc[i] \in {"gate", "confirm", "select", "insert", "verify"}
  /\ coordinator # "none"
  /\ Fault
  /\ Lost(i)
  /\ \/ UNCHANGED db
     \/ /\ pc[i] = "gate" /\ {"fired", "lease"} \cap db.tables # {}
        /\ db' = IF coordinator = "locker" THEN postgresClaimFire(db, fire[i], now).db
                 ELSE postgresAcquireOrRenew(db, i, window, now).db
  /\ UNCHANGED <<options, now, emitted, twice>>

(* So does one without its table. *)
NoTable(i) ==
  /\ pc[i] = "gate"
  /\ coordinator # "none" /\ {"fired", "lease"} \cap db.tables = {}
  /\ Lost(i)
  /\ UNCHANGED <<options, now, db, emitted, twice, faults>>

(* out <- Delivery: when the consumer takes it. *)
Emit(i) ==
  /\ pc[i] = "emit"
  /\ emitted' = emitted \cup {fire[i]}
  /\ twice' = (twice \/ fire[i] \in emitted)
  /\ Loop(i)
  /\ UNCHANGED <<options, now, db, leader, split, faults>>

(* The context ends, or the process dies. *)
Stop(i) ==
  /\ pc[i] # "down"
  /\ Fault
  /\ Goto(i, "down")
  /\ next' = [next EXCEPT ![i] = Never]
  /\ fire' = [fire EXCEPT ![i] = Never]
  /\ UNCHANGED <<options, now, db, emitted, leader, twice, split>>

(* Slip: the sign of the retention is wrong. *)
PurgeRecent ==
  [db EXCEPT !.fired = [f \in Fires |-> IF @[f] >= now - window THEN Unclaimed ELSE @[f]]]

PurgeFired ==
  CASE engine = "postgres" -> postgresPurgeFired(db, window, now)
    [] engine = "mysql" -> mysqlPurgeFired(db, window, now)
    [] engine = "sqlite" -> sqlitePurgeFired(db, window, now)

(* A retention of nothing is refused. *)
Purge ==
  /\ coordinator = "locker" /\ window > 0
  /\ db' = PurgeFired
  /\ db' # db
  /\ UNCHANGED <<options, now, pc, next, fire, emitted, leader, twice, split, faults>>

(* How late an instance is with the fire it must ask its coordinator for. *)
Lag(i) ==
  CASE pc[i] = "wait" -> Clock(i) - next[i]
    [] pc[i] \in {"gate", "confirm", "select", "insert", "verify"} -> Clock(i) - fire[i]
    [] OTHER -> -1

Tick ==
  /\ now < MaxNow
  /\ \A i \in Instances : Lag(i) < MaxLag
  /\ now' = now + 1
  /\ UNCHANGED <<options, db, pc, next, fire, emitted, leader, twice, split, faults>>

Next ==
  \/ \E i \in Instances :
       \/ Start(i) \/ Timer(i) \/ Gate(i) \/ Confirm(i) \/ AcquireOrRenew(i)
       \/ GateFails(i) \/ NoTable(i) \/ Emit(i) \/ Stop(i)
  \/ Purge \/ EnsureSchema
  \/ Tick

Spec == Init /\ [][Next]_vars

(* No instance is special, for TLC. *)
Symmetry == Permutations(Instances)

-----------------------------------------------------------------------------
(* Every variable keeps its type. *)
TypeOK ==
  /\ engine \in Engines
  /\ coordinator \in {"elector", "locker", "none"}
  /\ every \in BOOLEAN
  /\ window \in Windows
  /\ skew \in [Instances -> 0..MaxSkew]
  /\ now \in 0..MaxNow
  /\ db \in [tables : SUBSET {"fired", "claimed_idx", "lease"},
            lease : [holder : Instances \cup {Nobody}, expires : Int],
            fired : [Fires -> Int]]
  /\ pc \in [Instances -> {"down", "wait", "gate", "confirm", "select", "insert", "verify", "emit"}]
  /\ next \in [Instances -> Int]
  /\ fire \in [Instances -> Int]
  /\ emitted \in SUBSET Int
  /\ leader \in [by : Instances \cup {Nobody}, at : Int]
  /\ twice \in BOOLEAN
  /\ split \in BOOLEAN
  /\ faults \in Nat

(* How far apart two instances may ask for the same fire. *)
Spread == MaxSkew + MaxLag

(* A lease is exclusive: between two wins of different instances the lease *)
(* of the first expired, in whatever order the statements of MySQL's       *)
(* three-step election interleave.                                         *)
OneLeader == ~split

(* A fire of a shared schedule is emitted by one instance, if the lease or *)
(* the retention of the claims lasts at least as long as two instances may *)
(* be apart. A shorter lease expires between the two, and both emit.       *)
SingleFire == (coordinator # "none" /\ ~every /\ window >= Spread) => ~twice

(* A fire some instance claimed is emitted or still on its way: without a  *)
(* failure the locker lets no fire pass unemitted.                         *)
ClaimIsEmitted ==
  (coordinator = "locker" /\ faults = 0) =>
    \A f \in Fires : db.fired[f] # Unclaimed =>
      f \in emitted \/ \E i \in Instances : pc[i] = "emit" /\ fire[i] = f
=============================================================================
