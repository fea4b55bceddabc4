---------------------------- MODULE Cron_proofs -----------------------------
(***************************************************************************)
(* The safety properties of Cron, for every set of instances, every grid   *)
(* of fires, every lease time or retention and every bound on skew, lag,   *)
(* time and faults.                                                        *)
(*                                                                         *)
(* Whatever the engine and however many statements it needs, an instance   *)
(* that asks its coordinator wins, loses or asks on (Wins, Loses, AsksOn), *)
(* and only a win or a failed statement changes the table. The invariant   *)
(* is about these three: when an instance may ask for a fire (OnTime), who *)
(* holds the lease and since when (LeaseInv, LeaderInv), and why nobody    *)
(* can win a fire again that is taken (TakenInv).                          *)
(***************************************************************************)
EXTENDS Cron, WellFoundedInduction, TLAPS

Asking == {"gate", "confirm", "select", "insert", "verify"}

(* The instance takes a lease that nobody else holds. *)
Acquires(i) ==
  /\ db.lease.holder \in {Nobody, i} \/ db.lease.expires < now
  /\ db' = [db EXCEPT !.lease = LeaseUntil(i, now + window)]

(* The instance is the first to claim its fire. *)
Claims(i) ==
  /\ db.fired[fire[i]] = Unclaimed
  /\ db' = [db EXCEPT !.fired[fire[i]] = now]

Wins(i) ==
  /\ pc[i] \in Asking
  /\ coordinator = "elector" => Acquires(i)
  /\ coordinator = "locker" => Claims(i)
  /\ coordinator = "none" => UNCHANGED db
  /\ Won(i)
  /\ UNCHANGED <<options, now, emitted, twice, faults>>

Loses(i) ==
  /\ pc[i] \in Asking
  /\ \/ UNCHANGED <<db, faults>>
     \/ /\ UNCHANGED db \/ (coordinator = "elector" /\ Acquires(i)) \/ (coordinator = "locker" /\ Claims(i))
        /\ faults' = faults + 1
  /\ Lost(i)
  /\ UNCHANGED <<options, now, emitted, twice>>

(* Only MySQL needs a further statement: none that reads its own lease. *)
AsksOn(i) ==
  /\ pc[i] \in Asking
  /\ \/ coordinator = "locker" /\ Step(i, "confirm")
     \/ /\ coordinator = "elector" /\ db.lease.holder # i
        /\ \E label \in {"select", "insert", "verify"} : Step(i, label)
  /\ UNCHANGED <<options, now, db, emitted, twice, faults>>

-----------------------------------------------------------------------------
(* What the constructors let through. *)
Configured ==
  /\ coordinator = "elector" => window > 0
  /\ coordinator = "locker" => ~every

(* An instance asks for a fire that has come by its clock, at most MaxLag  *)
(* late, and on a grid for one of the grid.                                *)
OnTime ==
  \A i \in Instances :
    /\ ~every => next[i] \in Fires \cup {Never}
    /\ pc[i] = "wait" => Clock(i) - next[i] <= MaxLag
    /\ pc[i] \in Asking => Clock(i) - fire[i] <= MaxLag
    /\ pc[i] \in Asking \cup {"emit"} =>
         Clock(i) >= fire[i] /\ (~every => fire[i] \in Fires)
    /\ pc[i] = "confirm" => coordinator = "locker"
    /\ pc[i] \in {"select", "insert", "verify"} => coordinator = "elector"

(* The holder took its lease at expires - window, and asks again only      *)
(* later: so a renewal always changes the row, and what MySQL reads after  *)
(* a renewal that did not is the lease of another.                         *)
LeaseInv ==
  coordinator = "elector" =>
    /\ db.lease.expires <= now + window
    /\ \A i \in Instances : db.lease.holder = i =>
         /\ pc[i] \notin {"select", "insert", "verify"}
         /\ pc[i] = "gate" => now > db.lease.expires - window
         /\ pc[i] = "wait" => next[i] > db.lease.expires - window + skew[i]

(* The lease is that of the last winner, until the time it won has passed. *)
LeaderInv ==
  /\ coordinator = "elector" /\ leader.by # Nobody =>
       \/ leader.at + window < now
       \/ db.lease.holder = leader.by /\ db.lease.expires >= leader.at + window
  /\ ~split

(* The fires that were emitted or are about to be. *)
Taken == emitted \cup {fire[i] : i \in {i \in Instances : pc[i] = "emit"}}

(* The instance will not ask for fire f or an earlier one. *)
Past(i, f) ==
  /\ Clock(i) >= f
  /\ pc[i] = "wait" => next[i] > f
  /\ pc[i] \in Asking => fire[i] > f

(* As long as someone may still ask for a taken fire, its claim is kept or *)
(* the lease is held by an instance that has it behind itself.             *)
TakenIsKept ==
  \A f \in Taken : f \in Fires /\ (now <= f + MaxLag =>
    /\ coordinator = "locker" => db.fired[f] # Unclaimed
    /\ coordinator = "elector" =>
         db.lease.expires >= f + MaxLag /\ \E i \in Instances : db.lease.holder = i /\ Past(i, f))

(* A claim is at most the skew older than its fire. *)
ClaimsAreRecent ==
  coordinator = "locker" =>
    \A f \in Fires : db.fired[f] # Unclaimed => db.fired[f] >= f - MaxSkew

OneEmitter ==
  \A i \in Instances : pc[i] = "emit" =>
    /\ fire[i] \notin emitted
    /\ \A j \in Instances : pc[j] = "emit" /\ fire[j] = fire[i] => j = i

Shared == ~every /\ coordinator \in {"elector", "locker"} /\ window >= Spread

TakenInv == Shared => TakenIsKept /\ ClaimsAreRecent /\ OneEmitter /\ ~twice

IndInv == TypeOK /\ Configured /\ OnTime /\ LeaseInv /\ LeaderInv /\ TakenInv /\ ClaimIsEmitted

-----------------------------------------------------------------------------
(* Arithmetic of the schedule.                                             *)

(* A set of numbers has a least element. *)
LEMMA LeastNat ==
  ASSUME NEW S \in SUBSET Nat, S # {}
  PROVE  Min(S) \in S /\ \A y \in S : Min(S) <= y
<1> DEFINE R == OpToRel(<, Nat)
<1>1. IsWellFoundedOn(R, Nat)
  BY NatLessThanWellFounded, Zenon
<1>2. PICK x \in S : \A y \in S : <<y, x>> \notin R
  <2> HIDE DEF R
  <2> QED
    BY <1>1, WFMin, Zenon
<1>3. \A y \in S : ~(y < x)
  BY <1>2, Zenon DEF OpToRel
<1>4. \A y \in S : x <= y
  BY <1>3
<1> QED
  BY <1>4, Zenon DEF Min

(* One of any Period successive times is on the grid of t. *)
LEMMA OnGrid ==
  ASSUME NEW t \in Int, NEW clock \in Int
  PROVE  \E n \in (clock + 1)..(clock + Period) : (n - t) % Period = 0
<1> DEFINE k == (clock - t) \div Period
           n == t + Period * (k + 1)
<1>0. Period \in Nat \ {0}
  BY CronAssumption DEF CronAssumption
<1>1. k \in Int /\ clock - t = Period * k + ((clock - t) % Period)
      /\ (clock - t) % Period \in 0..(Period - 1)
  BY <1>0
<1>2. n \in (clock + 1)..(clock + Period)
  BY <1>0, <1>1
<1>3. (Period * (k + 1)) % Period = 0
  <2> DEFINE x == Period * (k + 1)
  <2>1. x \in Int
    BY <1>0, <1>1
  <2>2. x = Period * (x \div Period) + (x % Period) /\ x % Period \in 0..(Period - 1) /\ x \div Period \in Int
    <3> HIDE DEF x
    <3> QED
      BY <1>0, <2>1
  <2> QED
    BY <1>0, <1>1, <2>2
<1> QED
  BY <1>0, <1>1, <1>2, <1>3

(* schedule.Next is later than any time of a clock. *)
LEMMA NextIsLater ==
  ASSUME every \in BOOLEAN, NEW t \in Int, t <= MaxNow + MaxSkew
  PROVE  /\ NextFire(t) \in Int /\ NextFire(t) > t
         /\ ~every => NextFire(t) \in Fires \cup {Never}
<1> DEFINE later == {f \in Fires : f > t}
<1>1. CASE every
  BY <1>1, CronAssumption DEF CronAssumption, NextFire
<1>2. CASE ~every /\ later = {}
  BY <1>2, CronAssumption DEF CronAssumption, NextFire, Never
<1>3. CASE ~every /\ later # {}
  <2>1. later \in SUBSET Nat
    BY CronAssumption, Zenon DEF CronAssumption
  <2>2. Min(later) \in later
    BY <1>3, <2>1, LeastNat
  <2>3. NextFire(t) = Min(later)
    BY <1>3, Zenon DEF NextFire
  <2> QED
    BY <1>3, <2>1, <2>2, <2>3
<1> QED
  BY <1>1, <1>2, <1>3

(* The loop goes on with a fire that is later than the clock. *)
LEMMA CoalesceIsLater ==
  ASSUME every \in BOOLEAN, NEW t \in Int, NEW clock \in Int, clock <= MaxNow + MaxSkew,
         ~every => t \in Fires \cup {Never}
  PROVE  /\ Coalesce(t, clock) \in Int /\ Coalesce(t, clock) > clock
         /\ ~every => Coalesce(t, clock) \in Fires \cup {Never}
<1>1. CASE t > clock
  BY <1>1 DEF Coalesce
<1>2. CASE ~(t > clock) /\ every
  <2> DEFINE due(n) == (n - t) % Period = 0
             c == CHOOSE n \in (clock + 1)..(clock + Period) : due(n)
  <2>1. c \in (clock + 1)..(clock + Period)
    BY OnGrid, Zenon
  <2> QED
    BY <1>2, <2>1, CronAssumption DEF CronAssumption, Coalesce
<1>3. CASE ~(t > clock) /\ ~every
  BY <1>3, NextIsLater DEF Coalesce
<1> QED
  BY <1>1, <1>2, <1>3

-----------------------------------------------------------------------------
(* Nothing has happened yet. *)
LEMMA IndInit == Init => IndInv
<1> SUFFICES ASSUME Init PROVE IndInv
  OBVIOUS
<1>0. every \in BOOLEAN
  BY DEF Init
<1> USE CronAssumption DEF CronAssumption
<1>1. window \in Windows /\ Configured
  BY DEF Init, Configured, Arguments, NewSQLElector, wireGate
<1>2. TypeOK
  <2>1. /\ engine \in Engines /\ coordinator \in {"elector", "locker", "none"}
        /\ skew \in [Instances -> 0..MaxSkew] /\ now \in 0..MaxNow
        /\ pc \in [Instances -> {"down", "wait", "gate", "confirm", "select", "insert", "verify", "emit"}]
        /\ next \in [Instances -> Int] /\ fire \in [Instances -> Int]
        /\ emitted \in SUBSET Int /\ faults \in Nat
        /\ leader \in [by : Instances \cup {Nobody}, at : Int]
    BY DEF Init, Never
  <2>2. db \in [tables : SUBSET {"fired", "claimed_idx", "lease"},
               lease : [holder : Instances \cup {Nobody}, expires : Int],
               fired : [Fires -> Int]]
    BY DEF Init, EmptyDB, NoLease, Unclaimed
  <2>3. twice \in BOOLEAN /\ split \in BOOLEAN
    BY Zenon DEF Init
  <2> QED
    BY <1>0, <1>1, <2>1, <2>2, <2>3 DEF TypeOK
<1>3. OnTime
  BY DEF Init, OnTime, Asking
<1>4. LeaseInv /\ LeaderInv
  <2>1. now = 0 /\ db.lease.expires = -1 /\ db.lease.holder = Nobody
    BY DEF Init, EmptyDB, NoLease
  <2>2. LeaseInv
    BY <1>1, <2>1 DEF LeaseInv, Configured
  <2>3. leader.by = Nobody /\ ~split
    BY DEF Init
  <2> QED
    BY <2>2, <2>3 DEF LeaderInv
<1>5. TakenInv /\ ClaimIsEmitted
  BY DEF Init, TakenInv, TakenIsKept, ClaimsAreRecent, OneEmitter, Taken, ClaimIsEmitted, EmptyDB
<1> QED
  BY <1>1, <1>2, <1>3, <1>4, <1>5, Zenon DEF IndInv

-----------------------------------------------------------------------------
(* The statements of every engine, seen from the outside.                  *)

(* A claim succeeds where there is none, in every dialect; MySQL looks     *)
(* again when it was not the first.                                        *)
LEMMA ClaimCases ==
  ASSUME IndInv, NEW i \in Instances, pc[i] = "gate", Claim(i)
  PROVE  \/ Claims(i) /\ Won(i)
         \/ UNCHANGED db /\ Lost(i)
         \/ UNCHANGED db /\ Step(i, "confirm")
<1> DEFINE f == fire[i]
<1>1. coordinator = "locker" /\ engine \in {"postgres", "mysql", "sqlite"} /\ f \in Fires
  BY CronAssumption DEF IndInv, TypeOK, CronAssumption, Claim, Configured, OnTime, Asking
<1>2. CASE db.fired[f] = Unclaimed
  <2>1. Claims(i) /\ Won(i)
    BY <1>1, <1>2, Zenon DEF Claim, Claims, Verdict, postgresClaimFire, mysqlClaimFire, sqliteClaimFire
  <2> QED
    BY <2>1
<1>3. CASE db.fired[f] # Unclaimed
  <2>1. [db EXCEPT !.fired[f] = IF @ = Unclaimed THEN now ELSE @] = db
    BY <1>1, <1>3 DEF IndInv, TypeOK
  <2>2. UNCHANGED db
    BY <1>1, <1>3, <2>1 DEF Claim, postgresClaimFire, mysqlClaimFire, sqliteClaimFire
  <2>3. Lost(i) \/ Step(i, "confirm")
    BY <1>1, <1>3, Zenon DEF Claim, Verdict, postgresClaimFire, mysqlClaimFire, sqliteClaimFire
  <2> QED
    BY <2>2, <2>3
<1> QED
  BY <1>2, <1>3

(* An election is won where the lease is free, one's own or expired; a     *)
(* renewal of MySQL that changes nothing found the lease of another.       *)
LEMMA LeaderCases ==
  ASSUME IndInv, NEW i \in Instances, pc[i] = "gate", IsLeader(i)
  PROVE  \/ Acquires(i) /\ Won(i)
         \/ UNCHANGED db /\ Lost(i)
         \/ UNCHANGED db /\ Step(i, "select") /\ db.lease.holder # i
<1>1. coordinator = "elector" /\ engine \in {"postgres", "mysql", "sqlite"}
  BY CronAssumption DEF IndInv, TypeOK, CronAssumption, IsLeader
<1> DEFINE new == [db EXCEPT !.lease = LeaseUntil(i, now + window)]
           free == db.lease = NoLease \/ db.lease.holder = i \/ Expired(db, now)
<1>2. free => db.lease.holder \in {Nobody, i} \/ db.lease.expires < now
  BY DEF NoLease, Expired
<1>3. db.lease.holder = i => new # db /\ db.lease # NoLease
  BY <1>1, CronAssumption DEF CronAssumption, IndInv, TypeOK, LeaseInv, LeaseUntil, NoLease
<1>4. CASE engine = "postgres"
  BY <1>1, <1>2, <1>4 DEF IsLeader, Verdict, postgresAcquireOrRenew, Acquires
<1>5. CASE engine = "sqlite"
  BY <1>1, <1>2, <1>5, Zenon DEF IsLeader, Verdict, sqliteAcquireOrRenew, Acquires
<1>6. CASE engine = "mysql"
  <2>1. CASE mysqlRenew(db, i, window, now).won
    BY <1>1, <1>2, <1>6, <2>1, Zenon DEF IsLeader, Verdict, mysqlRenew, Acquires
  <2>2. CASE ~mysqlRenew(db, i, window, now).won
    <3>1. UNCHANGED db /\ Step(i, "select")
      BY <1>1, <1>6, <2>2, Zenon DEF IsLeader, Verdict, mysqlRenew
    <3>2. db.lease.holder # i
      BY <1>3, <2>2, Zenon DEF mysqlRenew
    <3> QED
      BY <3>1, <3>2
  <2> QED
    BY <2>1, <2>2
<1> QED
  BY <1>1, <1>4, <1>5, <1>6

(* A failed statement may have had the effect of one that succeeds. *)
LEMMA FailedEffect ==
  ASSUME IndInv, NEW i \in Instances, GateFails(i)
  PROVE  Loses(i)
<1>1. pc[i] \in Asking /\ faults' = faults + 1 /\ coordinator \in {"locker", "elector"}
  BY DEF GateFails, Fault, Asking, IndInv, TypeOK
<1>2. \/ UNCHANGED db
      \/ coordinator = "elector" /\ Acquires(i)
      \/ coordinator = "locker" /\ Claims(i)
  <2>1. CASE UNCHANGED db
    BY <2>1
  <2>2. CASE db' = postgresAcquireOrRenew(db, i, window, now).db /\ coordinator = "elector"
    BY <2>2 DEF postgresAcquireOrRenew, Acquires, NoLease, Expired
  <2>3. CASE db' = postgresClaimFire(db, fire[i], now).db /\ coordinator = "locker"
    <3>1. fire[i] \in Fires
      BY <1>1, <2>3 DEF IndInv, Configured, OnTime
    <3>2. CASE db.fired[fire[i]] = Unclaimed
      BY <2>3, <3>2 DEF postgresClaimFire, Claims
    <3>3. CASE db.fired[fire[i]] # Unclaimed
      BY <2>3, <3>1, <3>3 DEF postgresClaimFire, IndInv, TypeOK
    <3> QED
      BY <2>3, <3>2, <3>3
  <2> QED
    BY <1>1, <2>1, <2>2, <2>3 DEF GateFails
<1> QED
  BY <1>1, <1>2 DEF GateFails, Loses

(* Whatever is asked, the answer is one of three. *)
LEMMA AskCases ==
  ASSUME IndInv, NEW i \in Instances,
         Gate(i) \/ Confirm(i) \/ AcquireOrRenew(i) \/ GateFails(i) \/ NoTable(i)
  PROVE  Wins(i) \/ Loses(i) \/ AsksOn(i)
<1> USE DEF Asking
<1>1. CASE Gate(i) /\ NoGate(i)
  BY <1>1 DEF Gate, NoGate, Wins
<1>2. CASE Gate(i) /\ Claim(i)
  <2>1. coordinator = "locker"
    BY <1>2 DEF Claim
  <2>2. \/ Claims(i) /\ Won(i)
        \/ UNCHANGED db /\ Lost(i)
        \/ UNCHANGED db /\ Step(i, "confirm")
    BY <1>2, ClaimCases DEF Gate
  <2> QED
    BY <1>2, <2>1, <2>2 DEF Gate, Wins, Loses, AsksOn
<1>3. CASE Gate(i) /\ IsLeader(i)
  <2>1. coordinator = "elector"
    BY <1>3 DEF IsLeader
  <2>2. \/ Acquires(i) /\ Won(i)
        \/ UNCHANGED db /\ Lost(i)
        \/ UNCHANGED db /\ Step(i, "select") /\ db.lease.holder # i
    BY <1>3, LeaderCases DEF Gate
  <2> QED
    BY <1>3, <2>1, <2>2 DEF Gate, Wins, Loses, AsksOn
<1>4. CASE Confirm(i) \/ NoTable(i)
  BY <1>4 DEF Confirm, NoTable, Loses
<1>5. CASE AcquireOrRenew(i)
  <2>1. coordinator = "elector" /\ db.lease.holder # i
    BY <1>5 DEF AcquireOrRenew, Select, InsertIgnore, Verify, IndInv, OnTime, LeaseInv
  <2>2. CASE Select(i)
    BY <2>1, <2>2 DEF Select, Verdict, mysqlHeld, Loses, AsksOn
  <2>3. CASE InsertIgnore(i) /\ db.lease = NoLease
    <3>1. db.lease.holder = Nobody
      BY <2>3 DEF NoLease
    <3>2. Acquires(i) /\ Won(i)
      BY <2>3, <3>1, Zenon DEF InsertIgnore, mysqlAcquire, Acquires
    <3> QED
      BY <2>1, <2>3, <3>2 DEF InsertIgnore, Wins
  <2>4. CASE InsertIgnore(i) /\ db.lease # NoLease
    BY <2>1, <2>4, Zenon DEF InsertIgnore, mysqlAcquire, AsksOn
  <2>5. CASE Verify(i)
    BY <2>1, <2>5 DEF Verify, Verdict, Loses
  <2> QED
    BY <1>5, <2>2, <2>3, <2>4, <2>5 DEF AcquireOrRenew
<1> QED
  BY <1>1, <1>2, <1>3, <1>4, <1>5, FailedEffect DEF Gate

-----------------------------------------------------------------------------
(* Back at the head of the loop an instance waits for a later fire. *)
LEMMA LoopStep ==
  ASSUME IndInv, NEW i \in Instances, Loop(i)
  PROVE  /\ pc' = [pc EXCEPT ![i] = "wait"]
         /\ fire' = [fire EXCEPT ![i] = Never]
         /\ next' \in [Instances -> Int]
         /\ \A j \in Instances \ {i} : next'[j] = next[j]
         /\ next'[i] > Clock(i)
         /\ ~every => next'[i] \in Fires \cup {Never}
<1>1. /\ every \in BOOLEAN /\ next[i] \in Int /\ Clock(i) \in Int /\ Clock(i) <= MaxNow + MaxSkew
      /\ ~every => next[i] \in Fires \cup {Never}
  BY CronAssumption DEF CronAssumption, IndInv, TypeOK, OnTime, Clock
<1> DEFINE c == Coalesce(next[i], Clock(i))
<1>2. c \in Int /\ c > Clock(i) /\ (~every => c \in Fires \cup {Never})
  BY <1>1, CoalesceIsLater
<1>3. next' = [next EXCEPT ![i] = c]
  BY DEF Loop
<1> HIDE DEF c
<1> QED
  BY <1>2, <1>3 DEF IndInv, TypeOK, Loop, Goto

(* Fires are times. *)
LEMMA TakenInt ==
  ASSUME IndInv
  PROVE  Taken \subseteq Int
<1>1. emitted \in SUBSET Int /\ \A j \in Instances : fire[j] \in Int
  BY DEF IndInv, TypeOK
<1> QED
  BY <1>1, Zenon DEF Taken

(* What is taken stays so while nobody touches the lease and the claims,   *)
(* nobody gets a fire before itself again, and time passes.                *)
LEMMA TakenStays ==
  ASSUME IndInv, UNCHANGED options, now' \in {now, now + 1},
         db'.lease = db.lease, db'.fired = db.fired, Taken' = Taken,
         \A j \in Instances : \A f \in Int : Past(j, f) => Past(j, f)',
         Shared => OneEmitter' /\ ~twice'
  PROVE  TakenInv'
<1> SUFFICES ASSUME Shared PROVE TakenInv'
  BY DEF TakenInv, Shared, options, Spread
<1>1. TakenIsKept /\ ClaimsAreRecent
  BY DEF IndInv, TakenInv
<1>2. ClaimsAreRecent'
  BY <1>1 DEF ClaimsAreRecent, options
<1>3. TakenIsKept'
  <2> SUFFICES ASSUME NEW f \in Taken
               PROVE  f \in Fires /\ (now <= f + MaxLag =>
                        /\ coordinator = "locker" => db.fired[f] # Unclaimed
                        /\ coordinator = "elector" =>
                             /\ db.lease.expires >= f + MaxLag
                             /\ \E i \in Instances : db.lease.holder = i /\ Past(i, f))'
    BY DEF TakenIsKept
  <2>1. f \in Fires /\ f \in Int /\ (now' <= f + MaxLag => now <= f + MaxLag)
    BY <1>1, TakenInt, CronAssumption DEF CronAssumption, TakenIsKept, IndInv, TypeOK
  <2> QED
    BY <1>1, <2>1 DEF TakenIsKept, options
<1> QED
  BY <1>2, <1>3 DEF TakenInv

(* Whoever gets the lease while a fire is taken that is still asked for    *)
(* had it before, and has that fire behind itself.                         *)
LEMMA RenewsWhileTaken ==
  ASSUME IndInv, Shared, coordinator = "elector", NEW i \in Instances, Acquires(i),
         NEW f \in Taken, now <= f + MaxLag
  PROVE  f \in Fires /\ Past(i, f) /\ now + window >= f + MaxLag
<1>1. /\ f \in Fires /\ f \in Int /\ db.lease.expires >= f + MaxLag
      /\ \E j \in Instances : db.lease.holder = j /\ Past(j, f)
  BY TakenInt DEF IndInv, TakenInv, TakenIsKept
<1>2. /\ db.lease.holder = i /\ db.lease.expires <= now + window
      /\ db.lease.expires \in Int /\ now \in Int /\ window \in Int /\ MaxLag \in Int
  BY <1>1, CronAssumption DEF CronAssumption, IndInv, TypeOK, LeaseInv, Acquires
<1> QED
  BY <1>1, <1>2

(* A claim is new and hides no other. *)
LEMMA ClaimsOnTop ==
  ASSUME IndInv, Shared, coordinator = "locker", NEW i \in Instances, Claims(i), pc[i] \in Asking,
         UNCHANGED <<options, now>>
  PROVE  /\ fire[i] \in Fires /\ fire[i] \notin Taken
         /\ \A f \in Fires : db'.fired[f] = IF f = fire[i] THEN now ELSE db.fired[f]
         /\ now # Unclaimed
         /\ ClaimsAreRecent'
<1> USE CronAssumption DEF CronAssumption
<1>1. /\ fire[i] \in Fires /\ fire[i] \in Int /\ now \in Int /\ now # Unclaimed
      /\ now <= fire[i] + MaxLag /\ now >= fire[i] - MaxSkew
  BY DEF IndInv, TypeOK, OnTime, Clock, Shared, Unclaimed
<1>2. \A f \in Fires : db'.fired[f] = IF f = fire[i] THEN now ELSE db.fired[f]
  BY DEF Claims, IndInv, TypeOK
<1>3. fire[i] \notin Taken
  BY <1>1 DEF Claims, IndInv, TakenInv, TakenIsKept
<1>4. ClaimsAreRecent'
  BY <1>1, <1>2, Zenon DEF ClaimsAreRecent, IndInv, TakenInv, options
<1> QED
  BY <1>1, <1>2, <1>3, <1>4

(* An instance that starts waits for a later fire. *)
LEMMA StartStep ==
  ASSUME IndInv, NEW i \in Instances, Start(i)
  PROVE  IndInv'
<1> DEFINE n == NextFire(Clock(i))
<1>1. every \in BOOLEAN /\ Clock(i) \in Int /\ Clock(i) <= MaxNow + MaxSkew
  BY CronAssumption DEF CronAssumption, IndInv, TypeOK, Clock
<1>2. n \in Int /\ n > Clock(i) /\ (~every => n \in Fires \cup {Never})
  BY <1>1, NextIsLater
<1>3. /\ next' = [next EXCEPT ![i] = n]
      /\ pc' = [pc EXCEPT ![i] = "wait"]
      /\ UNCHANGED <<options, now, db, fire, emitted, leader, twice, split, faults>>
      /\ pc[i] = "down"
  BY DEF Start, Goto
<1> HIDE DEF n
<1>4. TypeOK' /\ Configured' /\ OnTime'
  BY <1>2, <1>3, CronAssumption
     DEF CronAssumption, IndInv, TypeOK, Configured, OnTime, Clock, options, Asking, Never
<1>5. LeaseInv' /\ LeaderInv'
  BY <1>2, <1>3, CronAssumption
     DEF CronAssumption, IndInv, TypeOK, LeaseInv, LeaderInv, Clock, options
<1>6. TakenInv'
  <2>1. Taken' = Taken
    BY <1>2, <1>3 DEF Taken, IndInv, TypeOK, Asking
  <2>2. \A j \in Instances : \A f \in Int : Past(j, f) => Past(j, f)'
    BY <1>2, <1>3 DEF Past, Clock, options, IndInv, TypeOK, Asking
  <2>3. Shared => OneEmitter' /\ ~twice'
    BY <1>2, <1>3 DEF OneEmitter, IndInv, TakenInv, TypeOK, Asking
  <2> QED
    BY <1>3, <2>1, <2>2, <2>3, TakenStays
<1>7. ClaimIsEmitted'
  BY <1>3 DEF IndInv, TypeOK, ClaimIsEmitted, options
<1> QED
  BY <1>4, <1>5, <1>6, <1>7, Zenon DEF IndInv

(* The timer rings for the fire that was waited for. *)
LEMMA TimerStep ==
  ASSUME IndInv, NEW i \in Instances, Timer(i)
  PROVE  IndInv'
<1> DEFINE n == NextFire(next[i])
<1>1. /\ pc[i] = "wait" /\ next[i] # Never /\ Clock(i) >= next[i]
      /\ every \in BOOLEAN /\ next[i] \in Int /\ Clock(i) <= MaxNow + MaxSkew
  BY CronAssumption DEF CronAssumption, IndInv, TypeOK, Clock, Timer
<1>2. n \in Int /\ n > next[i] /\ (~every => n \in Fires \cup {Never})
  <2>1. next[i] <= MaxNow + MaxSkew
    BY <1>1, CronAssumption DEF CronAssumption, IndInv, TypeOK, Clock
  <2> QED
    BY <1>1, <2>1, NextIsLater
<1>3. /\ next' = [next EXCEPT ![i] = n]
      /\ fire' = [fire EXCEPT ![i] = next[i]]
      /\ pc' = [pc EXCEPT ![i] = "gate"]
      /\ UNCHANGED <<options, now, db, emitted, leader, twice, split, faults>>
  BY DEF Timer, Goto
<1> HIDE DEF n
<1>4. TypeOK' /\ Configured' /\ OnTime'
  BY <1>1, <1>2, <1>3, CronAssumption
     DEF CronAssumption, IndInv, TypeOK, Configured, OnTime, Clock, options, Asking, Never
<1>5. LeaseInv' /\ LeaderInv'
  BY <1>1, <1>2, <1>3, CronAssumption
     DEF CronAssumption, IndInv, TypeOK, LeaseInv, LeaderInv, Clock, options
<1>6. TakenInv'
  <2>1. Taken' = Taken
    BY <1>1, <1>2, <1>3 DEF Taken, IndInv, TypeOK, Asking
  <2>2. \A j \in Instances : \A f \in Int : Past(j, f) => Past(j, f)'
    BY <1>1, <1>2, <1>3 DEF Past, Clock, options, IndInv, TypeOK, Asking
  <2>3. Shared => OneEmitter' /\ ~twice'
    BY <1>1, <1>2, <1>3 DEF OneEmitter, IndInv, TakenInv, TypeOK, Asking
  <2> QED
    BY <1>3, <2>1, <2>2, <2>3, TakenStays
<1>7. ClaimIsEmitted'
  BY <1>1, <1>3 DEF IndInv, TypeOK, ClaimIsEmitted, options
<1> QED
  BY <1>4, <1>5, <1>6, <1>7, Zenon DEF IndInv

(* Whoever wins an election holds the lease from now on, and no other      *)
(* lease was valid.                                                        *)
LEMMA WinsStep ==
  ASSUME IndInv, NEW i \in Instances, Wins(i)
  PROVE  IndInv'
<1> USE CronAssumption DEF CronAssumption
<1>1. /\ pc' = [pc EXCEPT ![i] = "emit"]
      /\ UNCHANGED <<options, now, next, fire, emitted, twice, faults>>
      /\ pc[i] \in Asking
  BY DEF Wins, Won, Goto
<1>2. TypeOK'
  <2>1. db' \in [tables : SUBSET {"fired", "claimed_idx", "lease"},
                lease : [holder : Instances \cup {Nobody}, expires : Int],
                fired : [Fires -> Int]]
    BY DEF IndInv, TypeOK, Wins, Acquires, Claims, LeaseUntil
  <2>2. leader' \in [by : Instances \cup {Nobody}, at : Int]
    BY DEF IndInv, TypeOK, Wins, Won
  <2>3. split' \in BOOLEAN
    BY Zenon DEF IndInv, TypeOK, Wins, Won
  <2> QED
    BY <1>1, <2>1, <2>2, <2>3 DEF IndInv, TypeOK, options
<1>3. Configured' /\ OnTime'
  BY <1>1 DEF IndInv, TypeOK, Configured, OnTime, Clock, options, Asking
<1>4. LeaseInv'
  BY <1>1 DEF IndInv, TypeOK, LeaseInv, Configured, Wins, Acquires, LeaseUntil, Clock, options, Asking
<1>5. LeaderInv'
  BY <1>1 DEF IndInv, TypeOK, LeaderInv, Configured, Wins, Won, Acquires, LeaseUntil, options
<1>6. TakenInv'
  <2> SUFFICES ASSUME Shared PROVE TakenInv'
    BY <1>1 DEF TakenInv, Shared, options, Spread
  <2> DEFINE f == fire[i]
  <2>1. /\ f \in Fires /\ f \in Int /\ now <= f + MaxLag /\ now + window >= f + MaxLag
        /\ Past(i, f)'
    BY <1>1 DEF IndInv, TypeOK, OnTime, Past, Shared, Spread, Clock, options, Asking
  <2>2. Taken' = Taken \cup {f}
    BY <1>1 DEF Taken, IndInv, TypeOK, Asking
  <2>3. ASSUME coordinator = "locker"
        PROVE  f \notin Taken /\ TakenIsKept' /\ ClaimsAreRecent'
    <3>1. /\ f \notin Taken /\ now # Unclaimed /\ ClaimsAreRecent'
          /\ \A g \in Fires : db'.fired[g] = IF g = f THEN now ELSE db.fired[g]
      BY <1>1, <2>3, ClaimsOnTop DEF Wins
    <3>2. TakenIsKept'
      <4>1. \A g \in Taken : g \in Fires /\ (now <= g + MaxLag => db.fired[g] # Unclaimed)
        BY <2>3 DEF IndInv, TakenInv, TakenIsKept
      <4>2. \A g \in Taken' : g \in Fires /\ (now <= g + MaxLag => db'.fired[g] # Unclaimed)
        BY <2>1, <2>2, <3>1, <4>1, Zenon
      <4> QED
        BY <1>1, <2>3, <4>2 DEF TakenIsKept, options
    <3> QED
      BY <3>1, <3>2
  <2>4. ASSUME coordinator = "elector"
        PROVE  f \notin Taken /\ TakenIsKept' /\ ClaimsAreRecent'
    <3>1. Acquires(i) /\ db'.lease.holder = i /\ db'.lease.expires = now + window
      BY <2>4 DEF Wins, Acquires, LeaseUntil, IndInv, TypeOK
    <3>2. ASSUME NEW g \in Taken, now <= g + MaxLag
          PROVE  g \in Fires /\ now + window >= g + MaxLag /\ Past(i, g) /\ Past(i, g)'
      <4>1. g \in Fires /\ now + window >= g + MaxLag /\ Past(i, g) /\ g \in Int
        BY <2>4, <3>1, <3>2, TakenInt, RenewsWhileTaken
      <4> QED
        BY <1>1, <4>1 DEF Past, Clock, options, Asking, IndInv, TypeOK
    <3>3. f \notin Taken
      BY <1>1, <2>1, <3>2 DEF Past, IndInv, TypeOK
    <3>4. ClaimsAreRecent'
      BY <1>1, <2>4 DEF ClaimsAreRecent, options
    <3>5. TakenIsKept'
      <4>1. \A g \in Taken : g \in Fires
        BY DEF IndInv, TakenInv, TakenIsKept
      <4> QED
        BY <1>1, <2>1, <2>2, <2>4, <3>1, <3>2, <4>1 DEF TakenIsKept, options
    <3> QED
      BY <3>3, <3>4, <3>5
  <2>5. f \notin Taken /\ TakenIsKept' /\ ClaimsAreRecent'
    BY <2>3, <2>4 DEF Shared
  <2>6. OneEmitter' /\ ~twice'
    BY <1>1, <2>5 DEF OneEmitter, Taken, IndInv, TakenInv, TypeOK, Asking
  <2> QED
    BY <2>5, <2>6 DEF TakenInv
<1>7. ClaimIsEmitted'
  BY <1>1 DEF IndInv, TypeOK, ClaimIsEmitted, Wins, Claims, options
<1> QED
  BY <1>2, <1>3, <1>4, <1>5, <1>6, <1>7, Zenon DEF IndInv

(* Whoever loses has left the table as it was, or failed at a statement    *)
(* that changed it: then the lease is its own, or the fire has a claim     *)
(* that nobody emits.                                                      *)
LEMMA LosesStep ==
  ASSUME IndInv, NEW i \in Instances, Loses(i)
  PROVE  IndInv'
<1> USE CronAssumption DEF CronAssumption
<1>1. /\ UNCHANGED <<options, now, emitted, leader, twice, split>>
      /\ pc[i] \in Asking /\ Loop(i)
      /\ faults' \in {faults, faults + 1}
  BY DEF Loses, Lost
<1>2. /\ pc' = [pc EXCEPT ![i] = "wait"]
      /\ fire' = [fire EXCEPT ![i] = Never]
      /\ next' \in [Instances -> Int]
      /\ \A j \in Instances \ {i} : next'[j] = next[j]
      /\ next'[i] > Clock(i)
      /\ ~every => next'[i] \in Fires \cup {Never}
  BY <1>1, LoopStep
<1>3. \/ UNCHANGED db
      \/ coordinator = "elector" /\ Acquires(i) /\ faults' = faults + 1
      \/ coordinator = "locker" /\ Claims(i) /\ faults' = faults + 1
  BY DEF Loses
<1>4. TypeOK'
  <2>1. db' \in [tables : SUBSET {"fired", "claimed_idx", "lease"},
                lease : [holder : Instances \cup {Nobody}, expires : Int],
                fired : [Fires -> Int]]
    BY <1>3 DEF IndInv, TypeOK, Acquires, Claims, LeaseUntil
  <2> QED
    BY <1>1, <1>2, <2>1 DEF IndInv, TypeOK, options, Never
<1>5. Configured' /\ OnTime'
  BY <1>1, <1>2 DEF IndInv, TypeOK, Configured, OnTime, Clock, options, Asking
<1>6. LeaseInv'
  <2>1. CASE UNCHANGED db
    BY <1>1, <1>2, <2>1 DEF IndInv, TypeOK, LeaseInv, Clock, options
  <2>2. CASE coordinator = "elector" /\ Acquires(i)
    BY <1>1, <1>2, <2>2 DEF IndInv, TypeOK, LeaseInv, Configured, Acquires, LeaseUntil, Clock, options
  <2>3. CASE coordinator = "locker"
    BY <1>1, <2>3 DEF LeaseInv, options
  <2> QED
    BY <1>3, <2>1, <2>2, <2>3
<1>7. LeaderInv'
  <2>1. CASE coordinator = "elector" /\ Acquires(i)
    BY <1>1, <2>1 DEF IndInv, TypeOK, LeaseInv, LeaderInv, Configured, Acquires, LeaseUntil, options
  <2>2. CASE UNCHANGED db \/ coordinator = "locker"
    BY <1>1, <2>2 DEF IndInv, LeaderInv, options
  <2> QED
    BY <1>3, <2>1, <2>2
<1>8. TakenInv'
  <2>1. Taken' = Taken
    BY <1>1, <1>2 DEF Taken, IndInv, TypeOK, Asking
  <2>2. \A j \in Instances : \A f \in Int : Past(j, f) => Past(j, f)'
    BY <1>1, <1>2 DEF Past, Clock, options, IndInv, TypeOK, Asking
  <2>3. Shared => OneEmitter' /\ ~twice'
    BY <1>1, <1>2 DEF OneEmitter, IndInv, TakenInv, TypeOK, Asking
  <2>4. CASE UNCHANGED db
    BY <1>1, <2>1, <2>2, <2>3, <2>4, TakenStays
  <2>5. CASE coordinator = "locker" /\ Claims(i) /\ Shared
    <3>1. /\ now # Unclaimed /\ ClaimsAreRecent'
          /\ \A g \in Fires : db'.fired[g] = IF g = fire[i] THEN now ELSE db.fired[g]
      BY <1>1, <2>5, ClaimsOnTop, SMTT(30)
    <3>2. TakenIsKept'
      <4>1. TakenIsKept
        BY <2>5 DEF IndInv, TakenInv
      <4> QED
        BY <1>1, <2>1, <2>5, <3>1, <4>1, ZenonT(30) DEF TakenIsKept, options
    <3> QED
      BY <2>3, <2>5, <3>1, <3>2 DEF TakenInv
  <2>6. CASE coordinator = "elector" /\ Acquires(i) /\ Shared
    <3>1. db'.lease.holder = i /\ db'.lease.expires = now + window
      BY <2>6 DEF Acquires, LeaseUntil, IndInv, TypeOK
    <3>2. ASSUME NEW g \in Taken, now <= g + MaxLag
          PROVE  g \in Fires /\ now + window >= g + MaxLag /\ Past(i, g)'
      BY <2>2, <2>6, <3>2, TakenInt, RenewsWhileTaken
    <3>3. TakenIsKept'
      <4>1. \A g \in Taken : g \in Fires
        BY <2>6 DEF IndInv, TakenInv, TakenIsKept
      <4> QED
        BY <1>1, <2>1, <2>6, <3>1, <3>2, <4>1 DEF TakenIsKept, options
    <3>4. ClaimsAreRecent'
      BY <1>1, <2>6 DEF ClaimsAreRecent, options
    <3> QED
      BY <2>3, <2>6, <3>3, <3>4 DEF TakenInv
  <2>7. CASE ~Shared
    BY <1>1, <2>7 DEF TakenInv, Shared, options, Spread
  <2> QED
    BY <1>3, <2>4, <2>5, <2>6, <2>7
<1>9. ClaimIsEmitted'
  BY <1>1, <1>2, <1>3 DEF IndInv, TypeOK, ClaimIsEmitted, options, Asking
<1> QED
  BY <1>4, <1>5, <1>6, <1>7, <1>8, <1>9, Zenon DEF IndInv

(* MySQL's next statement. *)
LEMMA AsksOnStep ==
  ASSUME IndInv, NEW i \in Instances, AsksOn(i)
  PROVE  IndInv'
<1> USE CronAssumption DEF CronAssumption
<1>1. PICK label \in {"confirm", "select", "insert", "verify"} :
        /\ pc' = [pc EXCEPT ![i] = label]
        /\ label = "confirm" => coordinator = "locker"
        /\ label # "confirm" => coordinator = "elector" /\ db.lease.holder # i
  BY DEF AsksOn, Step, Goto
<1>2. /\ UNCHANGED <<options, now, db, next, fire, emitted, leader, twice, split, faults>>
      /\ pc[i] \in Asking
  BY SMTT(30) DEF AsksOn, Step
<1>3. TypeOK' /\ Configured' /\ OnTime'
  BY <1>1, <1>2 DEF IndInv, TypeOK, Configured, OnTime, Clock, options, Asking
<1>4. LeaseInv' /\ LeaderInv'
  BY <1>1, <1>2 DEF IndInv, TypeOK, LeaseInv, LeaderInv, options, Asking
<1>5. TakenInv'
  <2>1. Taken' = Taken
    BY <1>1, <1>2 DEF Taken, IndInv, TypeOK, Asking
  <2>2. \A j \in Instances : \A f \in Int : Past(j, f) => Past(j, f)'
    BY <1>1, <1>2 DEF Past, Clock, options, IndInv, TypeOK, Asking
  <2>3. Shared => OneEmitter' /\ ~twice'
    BY <1>1, <1>2 DEF OneEmitter, IndInv, TakenInv, TypeOK, Asking
  <2> QED
    BY <1>2, <2>1, <2>2, <2>3, TakenStays
<1>6. ClaimIsEmitted'
  BY <1>1, <1>2 DEF IndInv, TypeOK, ClaimIsEmitted, options, Asking
<1> QED
  BY <1>3, <1>4, <1>5, <1>6, Zenon DEF IndInv

(* The winner emits its fire, which nobody has emitted before. *)
LEMMA EmitStep ==
  ASSUME IndInv, NEW i \in Instances, Emit(i)
  PROVE  IndInv'
<1> USE CronAssumption DEF CronAssumption
<1>1. /\ UNCHANGED <<options, now, db, leader, split, faults>>
      /\ pc[i] = "emit" /\ Loop(i)
      /\ emitted' = emitted \cup {fire[i]}
  BY DEF Emit
<1>2. /\ pc' = [pc EXCEPT ![i] = "wait"]
      /\ fire' = [fire EXCEPT ![i] = Never]
      /\ next' \in [Instances -> Int]
      /\ \A j \in Instances \ {i} : next'[j] = next[j]
      /\ next'[i] > Clock(i)
      /\ ~every => next'[i] \in Fires \cup {Never}
  BY <1>1, LoopStep
<1>3. TypeOK'
  <2>1. twice' \in BOOLEAN
    BY Zenon DEF IndInv, TypeOK, Emit
  <2>2. fire[i] \in Int /\ emitted \in SUBSET Int
    BY DEF IndInv, TypeOK
  <2>3. emitted' \in SUBSET Int
    BY <1>1, <2>2, Zenon
  <2>4. fire' \in [Instances -> Int]
    BY <1>2 DEF IndInv, TypeOK, Never
  <2> QED
    BY <1>1, <1>2, <2>1, <2>3, <2>4 DEF IndInv, TypeOK, options
<1>4. Configured' /\ OnTime'
  BY <1>1, <1>2 DEF IndInv, TypeOK, Configured, OnTime, Clock, options, Asking
<1>5. LeaseInv' /\ LeaderInv'
  BY <1>1, <1>2, SMTT(30) DEF IndInv, TypeOK, LeaseInv, LeaderInv, Clock, options
<1>6. TakenInv'
  <2>1. Taken' = Taken
    <3>1. \A j \in Instances \ {i} : pc'[j] = pc[j] /\ fire'[j] = fire[j]
      BY <1>2 DEF IndInv, TypeOK
    <3>2. pc'[i] # "emit"
      BY <1>2, SMTT(30) DEF IndInv, TypeOK
    <3>3. Taken' \subseteq Taken
      BY <1>1, <3>1, <3>2, SMTT(30) DEF Taken
    <3>4. Taken \subseteq Taken'
      BY <1>1, <3>1 DEF Taken
    <3> QED
      BY <3>3, <3>4, Zenon
  <2>2. \A j \in Instances : \A f \in Int : Past(j, f) => Past(j, f)'
    BY <1>1, <1>2, SMTT(30) DEF Past, Clock, options, Asking, IndInv, TypeOK
  <2>3. Shared => ~twice'
    BY <1>1, ZenonT(30) DEF IndInv, TakenInv, OneEmitter, Emit
  <2>4. Shared => OneEmitter'
    BY <1>1, <1>2 DEF IndInv, TypeOK, TakenInv, OneEmitter
  <2> QED
    BY <1>1, <2>1, <2>2, <2>3, <2>4, TakenStays, Zenon
<1>7. ClaimIsEmitted'
  BY <1>1, <1>2 DEF IndInv, TypeOK, ClaimIsEmitted, options
<1> QED
  BY <1>3, <1>4, <1>5, <1>6, <1>7, ZenonT(30) DEF IndInv

(* An instance that is gone asks for nothing. *)
LEMMA StopStep ==
  ASSUME IndInv, NEW i \in Instances, Stop(i)
  PROVE  IndInv'
<1> USE CronAssumption DEF CronAssumption
<1>1. /\ pc' = [pc EXCEPT ![i] = "down"]
      /\ next' = [next EXCEPT ![i] = Never]
      /\ fire' = [fire EXCEPT ![i] = Never]
      /\ UNCHANGED <<options, now, db, emitted, leader, twice, split>>
      /\ faults' = faults + 1
  BY DEF Stop, Goto, Fault
<1>2. TypeOK' /\ Configured' /\ OnTime'
  BY <1>1 DEF IndInv, TypeOK, Configured, OnTime, Clock, options, Asking, Never
<1>3. LeaseInv' /\ LeaderInv' /\ ClaimIsEmitted'
  BY <1>1 DEF IndInv, TypeOK, LeaseInv, LeaderInv, ClaimIsEmitted, Clock, options
<1>4. TakenInv'
  <2> SUFFICES ASSUME Shared PROVE TakenInv'
    BY <1>1 DEF TakenInv, Shared, options, Spread
  <2>1. Taken' \subseteq Taken
    BY <1>1 DEF Taken, IndInv, TypeOK
  <2>2. \A j \in Instances : \A f \in Int : Past(j, f) => Past(j, f)'
    BY <1>1, SMTT(30) DEF Past, Clock, options, IndInv, TypeOK, Asking
  <2>3. TakenIsKept'
    <3>1. TakenIsKept
      BY DEF IndInv, TakenInv
    <3> QED
      BY <1>1, <2>1, <2>2, <3>1, TakenInt, Zenon DEF TakenIsKept, options
  <2>4. ClaimsAreRecent' /\ OneEmitter' /\ ~twice'
    BY <1>1 DEF IndInv, TypeOK, TakenInv, ClaimsAreRecent, OneEmitter, options
  <2> QED
    BY <2>3, <2>4 DEF TakenInv
<1> QED
  BY <1>2, <1>3, <1>4, Zenon DEF IndInv

(* Purging removes only claims of fires that nobody will ask for again. *)
LEMMA PurgeStep ==
  ASSUME IndInv, Purge
  PROVE  IndInv'
<1> USE CronAssumption DEF CronAssumption
<1>1. /\ UNCHANGED <<options, now, pc, next, fire, emitted, leader, twice, split, faults>>
      /\ coordinator = "locker" /\ window > 0 /\ engine \in {"postgres", "mysql", "sqlite"}
  BY DEF Purge, IndInv, TypeOK
<1>2. db' = [db EXCEPT !.fired = [f \in Fires |->
                                    IF db.fired[f] < now - window THEN Unclaimed ELSE db.fired[f]]]
  BY <1>1 DEF Purge, PurgeFired, postgresPurgeFired, mysqlPurgeFired, sqlitePurgeFired, IndInv, TypeOK
<1>3. TypeOK' /\ Configured' /\ OnTime'
  BY <1>1, <1>2 DEF IndInv, TypeOK, Configured, OnTime, Clock, options, Unclaimed
<1>4. LeaseInv' /\ LeaderInv' /\ ClaimIsEmitted'
  BY <1>1, <1>2 DEF IndInv, TypeOK, LeaseInv, LeaderInv, ClaimIsEmitted, options
<1>5. TakenInv'
  <2> SUFFICES ASSUME Shared PROVE TakenInv'
    BY <1>1 DEF TakenInv, Shared, options, Spread
  <2>1. TakenIsKept /\ ClaimsAreRecent /\ OneEmitter /\ ~twice
    BY DEF IndInv, TakenInv
  <2>2. \A f \in Fires : db'.fired[f] = IF db.fired[f] < now - window THEN Unclaimed ELSE db.fired[f]
    BY <1>2 DEF IndInv, TypeOK
  <2>3. ASSUME NEW f \in Taken
        PROVE  f \in Fires /\ (now <= f + MaxLag => db'.fired[f] # Unclaimed)
    <3>1. f \in Fires /\ f \in Int /\ (now <= f + MaxLag => db.fired[f] # Unclaimed /\ db.fired[f] >= f - MaxSkew)
      BY <1>1, <2>1, TakenInt, SMTT(30) DEF TakenIsKept, ClaimsAreRecent
    <3> QED
      BY <2>2, <3>1 DEF Shared, Spread, IndInv, TypeOK
  <2>4. TakenIsKept'
    BY <1>1, <2>3 DEF TakenIsKept, Taken, options
  <2>5. ClaimsAreRecent'
    BY <1>1, <2>1, <2>2 DEF ClaimsAreRecent, options
  <2>6. OneEmitter' /\ ~twice'
    BY <1>1, <2>1 DEF OneEmitter
  <2> QED
    BY <2>4, <2>5, <2>6 DEF TakenInv
<1> QED
  BY <1>3, <1>4, <1>5, Zenon DEF IndInv

(* The schema gets its next table or index. *)
LEMMA EnsureSchemaStep ==
  ASSUME IndInv, EnsureSchema
  PROVE  IndInv'
<1> USE CronAssumption DEF CronAssumption
<1>1. UNCHANGED <<options, now, pc, next, fire, emitted, leader, twice, split, faults>>
  BY DEF EnsureSchema
<1>2. PICK t \in {"fired", "claimed_idx", "lease"} : db' = [db EXCEPT !.tables = @ \cup {t}]
  BY DEF EnsureSchema, EnsureFiredSchema, EnsureLeaseSchema, IndInv, TypeOK, Executed,
         postgresEnsureFiredSchema, mysqlEnsureFiredSchema, sqliteEnsureFiredSchema,
         postgresEnsureLeaseSchema, mysqlEnsureLeaseSchema, sqliteEnsureLeaseSchema,
         postgresLockerDDL, mysqlLockerDDL, sqliteLockerDDL,
         postgresElectorDDL, mysqlElectorDDL, sqliteElectorDDL
<1>3. TypeOK' /\ Configured' /\ OnTime'
  BY <1>1, <1>2 DEF IndInv, TypeOK, Configured, OnTime, Clock, options
<1>4. LeaseInv' /\ LeaderInv' /\ ClaimIsEmitted'
  BY <1>1, <1>2 DEF IndInv, TypeOK, LeaseInv, LeaderInv, ClaimIsEmitted, options
<1>5. TakenInv'
  <2>1. Taken' = Taken /\ \A j \in Instances : \A f \in Int : Past(j, f) => Past(j, f)'
    BY <1>1 DEF Taken, Past, Clock, options
  <2>2. Shared => OneEmitter' /\ ~twice'
    BY <1>1 DEF OneEmitter, IndInv, TakenInv
  <2>3. db'.lease = db.lease /\ db'.fired = db.fired
    BY <1>2 DEF IndInv, TypeOK
  <2> QED
    BY <1>1, <2>1, <2>2, <2>3, TakenStays
<1> QED
  BY <1>3, <1>4, <1>5, Zenon DEF IndInv

(* Time passes only while nobody is later than MaxLag. *)
LEMMA TickStep ==
  ASSUME IndInv, Tick
  PROVE  IndInv'
<1> USE CronAssumption DEF CronAssumption
<1>1. /\ UNCHANGED <<options, db, pc, next, fire, emitted, leader, twice, split, faults>>
      /\ now' = now + 1 /\ now' \in 0..MaxNow
  BY DEF Tick, IndInv, TypeOK
<1>2. \A i \in Instances : /\ Clock(i)' = Clock(i) + 1 /\ Clock(i) \in Int
                           /\ pc[i] = "wait" => Clock(i) - next[i] < MaxLag
                           /\ pc[i] \in Asking => Clock(i) - fire[i] < MaxLag
  BY <1>1 DEF Tick, Lag, Clock, Asking, options, IndInv, TypeOK
<1>3. TypeOK' /\ Configured'
  BY <1>1, SMTT(30) DEF IndInv, TypeOK, Configured, options
<1>4. OnTime'
  BY <1>1, <1>2, SMTT(30) DEF IndInv, TypeOK, OnTime, options, Asking
<1>5. LeaseInv' /\ LeaderInv' /\ ClaimIsEmitted'
  BY <1>1, <1>2 DEF IndInv, TypeOK, LeaseInv, LeaderInv, ClaimIsEmitted, options
<1>6. TakenInv'
  <2>1. Taken' = Taken
    BY <1>1 DEF Taken
  <2>2. \A j \in Instances : \A f \in Int : Past(j, f) => Past(j, f)'
    BY <1>1, <1>2 DEF Past
  <2>3. Shared => OneEmitter' /\ ~twice'
    BY <1>1 DEF OneEmitter, IndInv, TakenInv
  <2> QED
    BY <1>1, <2>1, <2>2, <2>3, TakenStays, SMTT(30)
<1> QED
  BY <1>3, <1>4, <1>5, <1>6, Zenon DEF IndInv

(* Every step keeps the invariant. *)
LEMMA IndNext == IndInv /\ [Next]_vars => IndInv'
<1> SUFFICES ASSUME IndInv, [Next]_vars PROVE IndInv'
  OBVIOUS
<1>1. ASSUME NEW i \in Instances,
             Gate(i) \/ Confirm(i) \/ AcquireOrRenew(i) \/ GateFails(i) \/ NoTable(i)
      PROVE  IndInv'
  BY <1>1, AskCases, WinsStep, LosesStep, AsksOnStep
<1>2. CASE UNCHANGED vars
  <2>1. TypeOK' /\ Configured' /\ OnTime'
    BY <1>2, SMTT(30) DEF vars, options, IndInv, TypeOK, Configured, OnTime, Clock
  <2>2. LeaseInv' /\ LeaderInv' /\ ClaimIsEmitted'
    BY <1>2, SMTT(30) DEF vars, options, IndInv, LeaseInv, LeaderInv, ClaimIsEmitted
  <2>3. TakenInv'
    BY <1>2 DEF vars, options, IndInv, TakenInv, Shared, TakenIsKept, ClaimsAreRecent, OneEmitter, Taken, Past, Clock, Spread
  <2> QED
    BY <2>1, <2>2, <2>3, ZenonT(30) DEF IndInv
<1> QED
  BY <1>1, <1>2, StartStep, TimerStep, EmitStep, StopStep, PurgeStep, EnsureSchemaStep, TickStep
     DEF Next

(* Every reachable state satisfies the invariant. *)
LEMMA Invariance == Spec => []IndInv
<1> QED
  BY IndInit, IndNext, PTL DEF Spec

(* Every variable keeps its type. *)
THEOREM TypeCorrect == Spec => []TypeOK
<1>1. IndInv => TypeOK
  BY DEF IndInv
<1> QED
  BY <1>1, Invariance, PTL

(* A lease is exclusive, for any instances, clocks and lease time: between *)
(* two wins of different instances the lease of the first expired, in      *)
(* whatever order the three statements of MySQL's AcquireOrRenew and the   *)
(* failures of statements interleave.                                      *)
THEOREM LeaseIsExclusive == Spec => []OneLeader
<1>1. IndInv => OneLeader
  BY DEF IndInv, LeaderInv, OneLeader
<1> QED
  BY <1>1, Invariance, PTL

(* A fire of a shared schedule is emitted once, for any skew, lag, lease   *)
(* time or retention with window >= MaxSkew + MaxLag, crashes between the  *)
(* verdict of IsLeader or Claim and the emit included.                     *)
THEOREM FireIsSingle == Spec => []SingleFire
<1>1. IndInv => SingleFire
  BY DEF IndInv, TypeOK, TakenInv, Shared, SingleFire
<1> QED
  BY <1>1, Invariance, PTL

(* Without a failure every fire that some instance claimed from the locker *)
(* has been emitted or is at the emit of its claimant.                     *)
THEOREM NoClaimIsForgotten == Spec => []ClaimIsEmitted
<1>1. IndInv => ClaimIsEmitted
  BY DEF IndInv
<1> QED
  BY <1>1, Invariance, PTL
=============================================================================
