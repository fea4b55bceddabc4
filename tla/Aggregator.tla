----------------------------- MODULE Aggregator -----------------------------
(***************************************************************************)
(* routing.Aggregator over a MessageGroupStore: the memory store, or the   *)
(* SQL store that several processes share. Concurrent calls of Handle,     *)
(* each for one delivery of a consumer, and the reaper that Run drives.    *)
(* Between two calls of the store anything may happen.                     *)
(*                                                                         *)
(* The release strategy is WithCompletionSize, the default one, which goes *)
(* by the sequence-size header, or an expression; that any strategy may    *)
(* fail is a fault of the environment, as is a failing aggregation or      *)
(* send, a message that its source delivers again and, over SQL, a failing *)
(* call of the store, a process that crashes and a holder slower than its  *)
(* lease.                                                                  *)
(***************************************************************************)
EXTENDS GroupTables

CONSTANTS
  Engines,         \* the stores to choose from
  Cases,           \* names of options and messages
  Case(_),         \* what each is: the release and the correlation strategy, the size
                   \* of a group and WithMaxGroupMembers, the sequence-size header,
                   \* what the correlation of each message goes by, and whether
                   \* there may be, or not be, a WithGroupTimeout over SQL
  Handlers,        \* goroutines that call Handle
  Reapers,         \* the goroutine of Run
  Owner(_),        \* the process of each of them, whose store has one locked_by
  MaxFaults,       \* bound on the faults of the environment
  NoKey, NoMsg

Actors == Handlers \cup Reapers

Processes == {Owner(a) : a \in Actors}

Memory == INSTANCE MemoryGroupStore
SQL == INSTANCE SQLGroupStore
Expr == INSTANCE Expressions

completionSizeCeiling == 65536

(* What NewAggregator refuses. *)
NewAggregator(o) ==
  CASE o.strategy = "expression" /\ ~Expr!compileGroup([static |-> "bool"]) -> "ErrInvalidExpression"
    [] o.strategy = "size" /\ o.size \notin 1..completionSizeCeiling -> "ErrInvalidCapacity"
    [] ~o.output -> "ErrNilOutput"
    [] o.timeout > 0 /\ ~o.expired -> "ErrExpiryChannelRequired"
    [] OTHER -> "nil"

ASSUME AggregatorAssumption ==
  /\ Engines \subseteq {"memory"} \cup SQL!SQLEngines
  /\ \A c \in Cases : LET l == Case(c) IN
       /\ l.size <= l.members  \* the pairing the options ask for
       /\ NewAggregator([strategy |-> l.strategy, size |-> l.size, output |-> TRUE,
                         timeout |-> 1, expired |-> TRUE]) = "nil"
       /\ Memory!NewGroupStore(MaxGroups, l.members) = "nil"
       /\ \A e \in Engines \ {"memory"} :
            SQL!NewGroupStore([db |-> TRUE, table |-> "identifier", dialect |-> e,
                               leaseTTL |-> 1, members |-> l.members]) = "nil"
  /\ IsFiniteSet(Reapers) /\ Cardinality(Reapers) <= 1
  /\ Handlers \cap Reapers = {}
  /\ MaxFaults \in Nat
  /\ NoKey \notin Keys /\ NoMsg \notin Msgs /\ NoOwner \notin Processes

VARIABLES
  db,       \* what the store holds
  engine,   \* which store it is; it never changes
  chosen,   \* the name of the options and messages; nor does it
  timed,    \* whether there is a WithGroupTimeout; nor does it
  key,      \* the correlation key of each message; nor does it
  status,   \* what the source knows of each message
  pc,       \* where each actor is
  msg,      \* the message a handler has
  res,      \* what Handle returns when it gets there
  claim,    \* the claim an actor holds
  phase,    \* whether that is the main release or the drain of a residual
  todo,     \* the groups the sweep has yet to look at
  faults,   \* faults so far
  stored,   \* messages some Add has stored
  stuck,    \* messages refused by a group that nothing drains
  reused,   \* whether a claim was given a fence that a slow holder still has
  sent,     \* messages that were sent on, to either channel
  twice     \* whether one was sent on again though nothing had failed

config == <<engine, chosen, timed, key>>
actorVars == <<pc, msg, res, claim, phase, todo>>
ghostVars == <<stored, stuck, reused, sent, twice>>
vars == <<db, config, status, actorVars, faults, ghostVars>>

limits == Case(chosen)

(* defaultCorrelate: the correlation-id header, if it is a string. *)
defaultCorrelate(h) ==
  IF h.kind = "string" /\ h.v # NoKey THEN h ELSE Expr!Invalid("ErrNoCorrelation")

(* The group of message m: its key, or why it has none. *)
Correlate(m) ==
  IF limits.correlate = "default" THEN defaultCorrelate(limits.ids[m])
  ELSE Expr!Correlation(TRUE, [static |-> "any", result |-> limits.ids[m]], NoKey)

(* IsPermanent, of the errors a correlation has. *)
Permanent(h) == h.v \in {"ErrNoCorrelation", "ErrPayloadType"}

(* The store's methods. *)
StoreAdd(k, m) ==
  IF engine = "memory" THEN Memory!Add(db, k, m, limits.members)
  ELSE SQL!Add(engine, db, k, m, limits.members)

StoreClaim(a, k) ==
  IF engine = "memory" THEN Memory!ClaimGroup(db, k, Owner(a))
  ELSE SQL!ClaimGroup(engine, db, k, Owner(a))

StoreSettle(a) ==
  IF engine = "memory" THEN Memory!SettleGroup(db, claim[a].key, Owner(a), claim[a].epoch)
  ELSE SQL!SettleGroup(engine, db, claim[a].key, Owner(a), claim[a].epoch)

StoreAbandon(a) ==
  IF engine = "memory" THEN Memory!AbandonGroup(db, claim[a].key, Owner(a), claim[a].epoch)
  ELSE SQL!AbandonGroup(engine, db, claim[a].key, Owner(a), claim[a].epoch)

StoreExpired(tables) ==
  IF engine = "memory" THEN Memory!Expired(tables, timed) ELSE SQL!Expired(engine, tables, timed)

Groups == {k \in Keys : db.group[k] # NoGroup}

(* Where an actor waits for work: the reaper for the next group of its     *)
(* sweep, or the next tick.                                                *)
Start(a) == IF a \in Reapers THEN "sweep" ELSE "idle"

(* Where it goes when a release is over. *)
Over(a) == IF a \in Reapers THEN "sweep" ELSE "return"

NoClaim == [key |-> NoKey, epoch |-> 0, members |-> {}]

Init ==
  /\ db = EmptyDB
  /\ engine \in Engines
  /\ chosen \in Cases
  /\ timed \in IF engine = "memory" THEN {TRUE} ELSE limits.timed
  /\ key = [m \in Msgs |-> IF Correlate(m).kind = "error" THEN NoKey ELSE Correlate(m).v]
  /\ status = [m \in Msgs |-> "ready"]
  /\ pc = [a \in Actors |-> Start(a)]
  /\ msg = [a \in Actors |-> NoMsg]
  /\ res = [a \in Actors |-> "ack"]
  /\ claim = [a \in Actors |-> NoClaim]
  /\ phase = [a \in Actors |-> "main"]
  /\ todo = {}
  /\ faults = 0
  /\ stored = {}
  /\ stuck = {}
  /\ reused = FALSE
  /\ sent = {}
  /\ twice = FALSE

(* The sequence-size headers of the members of S, as the store returns     *)
(* them: all alike.                                                        *)
SizeHeaders(S) ==
  LET set == [k \in {"sequence-size"} |-> [kind |-> limits.header, v |-> limits.size]]
      got == IF engine = "memory" THEN set ELSE SQL!decodeGroupRows(set)
  IN [i \in 1..Cardinality(S) |-> got["sequence-size"]]

firstHeader(headers) == headers[1]

asInt(h) == [n |-> h.v, ok |-> h.kind \in {"int", "int64", "float64"}]

defaultRelease(headers) ==
  /\ headers # <<>>
  /\ asInt(firstHeader(headers)).ok /\ Len(headers) >= asInt(firstHeader(headers)).n

WithCompletionSize(headers) == Len(headers) >= limits.size

Complete(S) ==
  CASE limits.strategy = "size" -> WithCompletionSize(SizeHeaders(S))
    [] limits.strategy = "default" -> defaultRelease(SizeHeaders(S))
    [] limits.strategy = "expression" -> Expr!Release(SizeHeaders(S))

Goto(a, label) == pc' = [pc EXCEPT ![a] = label]

Fault == faults < MaxFaults /\ faults' = faults + 1

(* The messages of S are sent on. *)
Sent(S) ==
  /\ sent' = sent \cup S
  /\ twice' = (twice \/ (faults = 0 /\ S \cap sent # {}))

-----------------------------------------------------------------------------
(* Handle.                                                                 *)

(* A message comes in, or once more while it is handled or after its Ack.  *)
(* The process has called Ready at startup.                                *)
Deliver(h, m) ==
  /\ pc[h] = "idle"
  /\ engine # "memory" => SQL!Ready(engine, db) = "nil"
  /\ \/ status[m] = "ready" /\ UNCHANGED faults
     \/ status[m] \in {"busy", "acked"} /\ Fault
  /\ status' = [status EXCEPT ![m] = "busy"]
  /\ msg' = [msg EXCEPT ![h] = m]
  /\ Goto(h, "add")
  /\ UNCHANGED <<db, config, res, claim, phase, todo, ghostVars>>

(* The refusal of a group that drains: worth another try. *)
overflowRetryable == "nack"

(* A refusal of the whole group comes without a snapshot of it. *)
isNilGroup(r) == r.err = "noGroup"

(* A message without a key, which no Add has seen. *)
Uncorrelated(h) ==
  /\ pc[h] = "add" /\ key[msg[h]] = NoKey
  /\ res' = [res EXCEPT ![h] = IF Permanent(Correlate(msg[h])) THEN "reject" ELSE "nack"]
  /\ Goto(h, "return")
  /\ UNCHANGED <<db, config, status, msg, claim, phase, todo, faults, ghostVars>>

(* The store as Add finds it. *)
Stored == engine = "memory" \/ db.tables = {"group", "member"}

(* Ready has passed without the member table: the call fails, and the      *)
(* message is tried again.                                                 *)
NoTables(h) ==
  /\ pc[h] = "add" /\ key[msg[h]] # NoKey
  /\ ~Stored
  /\ res' = [res EXCEPT ![h] = "nack"]
  /\ Goto(h, "return")
  /\ UNCHANGED <<db, config, status, msg, claim, phase, todo, faults, ghostVars>>

(* An operator applies the schema, before the processes run or beside them. *)
EnsureSchema ==
  /\ engine # "memory"
  /\ db' \in SQL!EnsureSchema(engine, db)
  /\ UNCHANGED <<config, status, actorVars, faults, ghostVars>>

(* The release strategy has looked at the live members. If it says yes the *)
(* group is claimed, also when the group was full: the member is refused,  *)
(* not the release. A call for a stored member ends in an Ack, one for a   *)
(* refused member in an error that makes the source deliver it again,      *)
(* unless nothing drains the group.                                        *)
Added(h, r) ==
  LET ready == Complete(r.live)
  IN /\ res' = [res EXCEPT ![h] =
                  CASE r.err = "nil" -> "ack"
                    [] r.err = "fullPermanent" /\ ~ready -> "reject"
                    [] OTHER -> overflowRetryable]
     /\ stuck' = IF r.err = "fullPermanent" /\ db.group[key[msg[h]]].lapsed
                 THEN stuck \cup {msg[h]} ELSE stuck
     /\ Goto(h, IF ready THEN "claim" ELSE "return")
     /\ UNCHANGED faults

(* The strategy failed: its error, permanent or not, is returned, for a    *)
(* refused member joined with the refusal.                                 *)
StrategyFailed(h, r) ==
  /\ ~isNilGroup(r) /\ (r.err = "nil" \/ r.live # {})
  /\ Fault
  /\ \E x \in {"nack", "reject"} :
       res' = [res EXCEPT ![h] = IF r.err = "fullPermanent" THEN "reject" ELSE x]
  /\ stuck' = IF r.err = "nil" THEN stuck ELSE stuck \cup {msg[h]}
  /\ Goto(h, "return")

HandleAdd(h) ==
  LET m == msg[h]
      r == StoreAdd(key[m], m)
  IN /\ pc[h] = "add" /\ key[m] # NoKey
     /\ Stored
     /\ db' = r.db
     /\ stored' = IF r.err = "nil" THEN stored \cup {m} ELSE stored
     /\ Added(h, r) \/ StrategyFailed(h, r)
     /\ UNCHANGED <<config, status, msg, claim, phase, todo, reused, sent, twice>>

(* ClaimGroup for actor a. *)
Claimed(a, k) == StoreClaim(a, k).claim

Claimable(a, k) == Claimed(a, k) # Nil

Holding(a) == claim[a] # NoClaim /\ pc[a] # "drain"

Take(a, k) ==
  LET c == Claimed(a, k)
  IN /\ db' = StoreClaim(a, k).db
     /\ claim' = [claim EXCEPT ![a] = [key |-> k, epoch |-> c.epoch, members |-> c.members]]
     /\ reused' = (reused \/ \E b \in Actors \ {a} :
          Holding(b) /\ claim[b].key = k /\ claim[b].epoch = c.epoch)

(* What the claim covers is released without another look at the strategy; *)
(* nil ends the call.                                                      *)
HandleClaim(h) ==
  LET k == key[msg[h]]
  IN /\ pc[h] = "claim"
     /\ IF Claimable(h, k) THEN Take(h, k) /\ Goto(h, "send")
        ELSE UNCHANGED <<db, claim, reused>> /\ Goto(h, "return")
     /\ UNCHANGED <<config, status, msg, res, phase, todo, faults, stored, stuck, sent, twice>>

(* The call returns and the consumer settles. *)
Return(h) ==
  LET m == msg[h]
  IN /\ h \in Handlers
     /\ pc[h] = "return"
     /\ status' = [status EXCEPT ![m] =
          CASE res[h] = "ack" -> "acked"
            [] res[h] = "reject" -> "rejected"
            [] OTHER -> IF @ = "busy" THEN "ready" ELSE @]
     /\ Goto(h, "idle")
     /\ msg' = [msg EXCEPT ![h] = NoMsg]
     /\ res' = [res EXCEPT ![h] = "ack"]
     /\ UNCHANGED <<db, config, claim, phase, todo, faults, ghostVars>>

-----------------------------------------------------------------------------
(* release and releaseOnce, for a handler or the reaper.                   *)

Send(a) ==
  /\ pc[a] = "send"
  /\ Sent(claim[a].members)
  /\ Goto(a, "settle")
  /\ UNCHANGED <<db, config, status, msg, res, claim, phase, todo, faults, stored, stuck, reused>>

(* What a failed main release makes of the call: its own error, permanent  *)
(* or not, if the member was stored, and always a transient one if it was  *)
(* refused. The error of a drain is not reported, a panic in it is, as a   *)
(* transient error; the reaper ignores what it is told, and its panics are *)
(* left out, for they end the process.                                     *)
Failure(a) ==
  IF a \in Reapers THEN {res[a]}
  ELSE IF phase[a] = "drain" THEN {res[a], "nack"}
  ELSE IF res[a] = "ack" THEN {"nack", "reject"} ELSE {"nack"}

(* The aggregation or the send failed or panicked, the send perhaps after  *)
(* it had its effect.                                                      *)
SendFailed(a) ==
  /\ pc[a] = "send"
  /\ Fault
  /\ UNCHANGED <<sent, twice>> \/ Sent(claim[a].members)
  /\ \E r \in Failure(a) : res' = [res EXCEPT ![a] = r]
  /\ Goto(a, "abandon")
  /\ UNCHANGED <<db, config, status, msg, claim, phase, todo, stored, stuck, reused>>

(* Slip: the deferred abandon runs before the settle, which then misses    *)
(* the fence.                                                              *)
SettleAfterAbandon(a) ==
  /\ pc[a] = "settle"
  /\ db' = StoreAbandon(a)
  /\ Goto(a, "drain")
  /\ UNCHANGED <<config, status, msg, res, claim, phase, todo, faults, ghostVars>>

Settle(a) ==
  /\ pc[a] = "settle"
  /\ db' = StoreSettle(a)
  /\ Goto(a, "drain")
  /\ UNCHANGED <<config, status, msg, res, claim, phase, todo, faults, ghostVars>>

(* The claim is over: it was settled or abandoned, or never taken. *)
Done(a) ==
  /\ claim' = [claim EXCEPT ![a] = NoClaim]
  /\ phase' = [phase EXCEPT ![a] = "main"]
  /\ Goto(a, Over(a))


(* The deferred abandon, or that of an incomplete group. *)
Abandon(a) ==
  /\ pc[a] = "abandon"
  /\ db' = StoreAbandon(a)
  /\ Done(a)
  /\ UNCHANGED <<config, status, msg, res, todo, faults, ghostVars>>

(* The drain claims the residual, releases it if it is complete and        *)
(* abandons it if it is not or the strategy fails.                         *)
Drain(a) ==
  LET k == claim[a].key
  IN /\ pc[a] = "drain"
     /\ IF Claimable(a, k)
        THEN /\ Take(a, k)
             /\ phase' = [phase EXCEPT ![a] = "drain"]
             /\ \/ Goto(a, IF Complete(Claimed(a, k).members) THEN "send" ELSE "abandon")
                   /\ UNCHANGED faults
                \/ Goto(a, "abandon") /\ Fault
        ELSE Done(a) /\ UNCHANGED <<db, reused, faults>>
     /\ UNCHANGED <<config, status, msg, res, todo, stored, stuck, sent, twice>>

(* A call of the SQL store fails, perhaps after its commit: the add and    *)
(* the claim end the call with an error (that of a drain is not reported), *)
(* a settle is followed by the deferred abandon, and an abandon that fails *)
(* leaves the group leased until the lease lapses.                         *)
StoreError(a) ==
  LET m == msg[a]
      r == StoreAdd(key[m], m)
  IN /\ engine # "memory"
     /\ Fault
     /\ \/ /\ pc[a] = "add" /\ key[m] # NoKey /\ Stored
           /\ \/ UNCHANGED <<db, stored>>
              \/ r.err = "nil" /\ db' = r.db /\ stored' = stored \cup {m}
           /\ res' = [res EXCEPT ![a] = "nack"] /\ Done(a)
        \/ /\ pc[a] \in {"claim", "drain"}
           /\ LET k == IF pc[a] = "claim" THEN key[m] ELSE claim[a].key
              IN db' \in {db, StoreClaim(a, k).db}
           /\ res' = [res EXCEPT ![a] = IF pc[a] = "claim" THEN "nack" ELSE @] /\ Done(a)
           /\ UNCHANGED stored
        \/ /\ pc[a] = "settle"
           /\ db' \in {db, StoreSettle(a)}
           /\ \E x \in Failure(a) : res' = [res EXCEPT ![a] = x]
           /\ Goto(a, "abandon") /\ UNCHANGED <<claim, phase, stored>>
        \/ /\ pc[a] \in {"abandon", "settleExpired"}
           /\ UNCHANGED <<db, res, stored>> /\ Done(a)
     /\ UNCHANGED <<config, status, msg, todo, stuck, reused, sent, twice>>

-----------------------------------------------------------------------------
(* The reaper.                                                             *)

(* A tick: the groups of aged have become older than the timeout, and      *)
(* Expired lists what is old or, over SQL, has a lapsed lease.             *)
Tick(a, aged) ==
  /\ a \in Reapers
  /\ pc[a] = "sweep"
  /\ todo = {}
  /\ db' = [db EXCEPT !.group = [k \in Keys |-> [@[k] EXCEPT !.old = @ \/ k \in aged]]]
  /\ todo' = StoreExpired(db')
  /\ UNCHANGED <<config, status, pc, msg, res, claim, phase, faults, ghostVars>>


(* reapGroup: what is complete is released, what is old is expired, and    *)
(* what has formed anew since the scan, or has no timeout, is abandoned.   *)
Reap(a, k) ==
  /\ a \in Reapers
  /\ pc[a] = "sweep"
  /\ k \in todo
  /\ todo' = todo \ {k}
  /\ IF Claimable(a, k)
     THEN LET late == IF timed /\ db.group[k].old THEN "expire" ELSE "abandon"
          IN /\ Take(a, k)
             /\ \/ Goto(a, IF Complete(Claimed(a, k).members) THEN "send" ELSE late)
                   /\ UNCHANGED faults
                \/ Goto(a, late) /\ Fault
     ELSE UNCHANGED <<db, claim, pc, reused, faults>>
  /\ UNCHANGED <<config, status, msg, res, phase, stored, stuck, sent, twice>>

(* The members go to the expired channel one by one. *)
Expire(a) ==
  /\ pc[a] = "expire"
  /\ Sent(claim[a].members)
  /\ Goto(a, "settleExpired")
  /\ UNCHANGED <<db, config, status, msg, res, claim, phase, todo, faults, stored, stuck, reused>>

ExpireFailed(a) ==
  /\ pc[a] = "expire"
  /\ Fault
  /\ \E S \in SUBSET claim[a].members : Sent(S)
  /\ Goto(a, "abandon")
  /\ UNCHANGED <<db, config, status, msg, res, claim, phase, todo, stored, stuck, reused>>

SettleExpired(a) ==
  /\ pc[a] = "settleExpired"
  /\ db' = StoreSettle(a)
  /\ Done(a)
  /\ UNCHANGED <<config, status, msg, res, todo, faults, ghostVars>>

-----------------------------------------------------------------------------
(* Time and crashes, over SQL.                                             *)

(* The row is leased to actor a under its claim. *)
Current(a) ==
  LET row == db.group[claim[a].key]
  IN Holding(a) /\ row.by = Owner(a) /\ row.epoch = claim[a].epoch

(* A lease gets older than its time to live: nobody renews it. That is a   *)
(* fault of its holder, if it still has one.                               *)
Lapse(k) ==
  /\ engine # "memory"
  /\ Leased(db.group[k]) /\ ~db.group[k].lapsed
  /\ IF \E a \in Actors : Current(a) /\ claim[a].key = k THEN Fault ELSE UNCHANGED faults
  /\ db' = [db EXCEPT !.group[k].lapsed = TRUE]
  /\ UNCHANGED <<config, status, actorVars, ghostVars>>

(* A process stops and starts again: its store has the locked_by of        *)
(* WithGroupLockedBy again, and its calls never end, so that their         *)
(* messages are delivered anew.                                            *)
Crash(p) ==
  LET dead == {a \in Actors : Owner(a) = p}
  IN /\ engine # "memory"
     /\ \E a \in dead : pc[a] # Start(a)
     /\ Fault
     /\ pc' = [a \in Actors |-> IF a \in dead THEN Start(a) ELSE pc[a]]
     /\ msg' = [a \in Actors |-> IF a \in dead THEN NoMsg ELSE msg[a]]
     /\ res' = [a \in Actors |-> IF a \in dead THEN "ack" ELSE res[a]]
     /\ claim' = [a \in Actors |-> IF a \in dead THEN NoClaim ELSE claim[a]]
     /\ phase' = [a \in Actors |-> IF a \in dead THEN "main" ELSE phase[a]]
     /\ todo' = IF dead \cap Reapers # {} THEN {} ELSE todo
     /\ status' = [m \in Msgs |-> IF status[m] = "busy" /\ \E a \in dead : msg[a] = m
                                  THEN "ready" ELSE status[m]]
     /\ UNCHANGED <<db, config, ghostVars>>

-----------------------------------------------------------------------------
Release(a) == Send(a) \/ Settle(a) \/ Abandon(a) \/ Drain(a)

HandlerStep(h) ==
  \/ Uncorrelated(h) \/ NoTables(h) \/ HandleAdd(h) \/ HandleClaim(h)
  \/ Release(h) \/ Return(h)

ReaperStep(a) ==
  \/ \E k \in Keys : Reap(a, k)
  \/ Release(a) \/ Expire(a) \/ SettleExpired(a)

Next ==
  \/ \E h \in Handlers : HandlerStep(h) \/ \E m \in Msgs : Deliver(h, m)
  \/ \E a \in Reapers : ReaperStep(a) \/ ExpireFailed(a) \/ \E aged \in SUBSET Groups : Tick(a, aged)
  \/ \E a \in Actors : SendFailed(a) \/ StoreError(a)
  \/ EnsureSchema
  \/ \E k \in Keys : Lapse(k)
  \/ \E p \in Processes : Crash(p)

Spec == Init /\ [][Next]_vars

(* Goroutines run, and what may fail need not: an actor whose call or      *)
(* sweep has begun always has a step to take, so it takes one or comes to  *)
(* its end. The ticker ticks, a group that is there for enough ticks is    *)
(* older than the timeout, and so is a lease than its time to live.        *)
(* Nothing need be delivered.                                              *)
Fairness ==
  /\ \A h \in Handlers : []<>(pc[h] = "idle") \/ []<><<HandlerStep(h)>>_vars
  /\ \A a \in Reapers :
       /\ []<>(pc[a] = "sweep" /\ todo = {}) \/ []<><<ReaperStep(a)>>_vars
       /\ \A k \in Keys : SF_vars(\E aged \in SUBSET Groups : k \in aged /\ Tick(a, aged))
  /\ \A k \in Keys : WF_vars(Lapse(k))

FairSpec == Spec /\ Fairness

-----------------------------------------------------------------------------
(* Properties.                                                             *)


Held(m) == key[m] # NoKey /\ m \in Rows(db, key[m])

(* releaseOnce: "at-least-once, never loss". What a call acknowledged was  *)
(* stored, and what was stored is in the store or has been sent on, across *)
(* crashes, lapsed leases and failing calls, unless a fence was reused.    *)
(* Nor is a member that no Add has stored settled for good on account of   *)
(* the other members' release: only a failing strategy, or a full group    *)
(* that no live lease drains, rejects it, or that it has no group at all.  *)
NoLoss ==
  /\ \A m \in Msgs : status[m] = "acked" => m \in stored
  /\ \A m \in Msgs : status[m] = "rejected" => m \in stored \cup stuck \/ key[m] = NoKey
  /\ ~reused => \A m \in stored : Held(m) \/ m \in sent

(* sql.GroupStore: a crash or a lapsed lease means "a duplicate emit,      *)
(* never a loss". What a call acknowledged is in the store, was sent on,   *)
(* or is about to be by one who has it in a claim.                         *)
NeverALoss ==
  \A m \in Msgs : status[m] = "acked" =>
    Held(m) \/ m \in sent \/ \E a \in Actors : Holding(a) /\ m \in claim[a].members

(* TestAggregator_NStress: "every member appears exactly once across all   *)
(* sinks combined". As long as nothing fails and nothing is redelivered no *)
(* interleaving of handlers, drains and reaper sends a member on twice.    *)
OnceWithoutFaults ==
  ~twice

(* GroupDialect is one contract: in every state that is reached, each of   *)
(* the three dialects answers every call alike and leaves the same tables. *)
DialectsAgree ==
  \A e \in {"mysql", "sqlite"}, k \in Keys :
    engine # "memory" =>
    /\ \A m \in Msgs :
         SQL!Add(e, db, k, m, limits.members) = SQL!Add("postgres", db, k, m, limits.members)
    /\ SQL!Expired(e, db, timed) = SQL!Expired("postgres", db, timed)
    /\ \A p \in Processes :
         /\ SQL!ClaimGroup(e, db, k, p) = SQL!ClaimGroup("postgres", db, k, p)
         /\ \A n \in 1..2 :
              /\ SQL!SettleGroup(e, db, k, p, n) = SQL!SettleGroup("postgres", db, k, p, n)
              /\ SQL!AbandonGroup(e, db, k, p, n) = SQL!AbandonGroup("postgres", db, k, p, n)

(* What has to end: with a timeout that m is in the store at all, without  *)
(* one that a claim covers it.                                             *)
Waiting(m) == Held(m) /\ (timed \/ db.member[key[m]][m] > Null)

=============================================================================
