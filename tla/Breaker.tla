------------------------------- MODULE Breaker -------------------------------
(***************************************************************************)
(* resilience.NewCircuitBreaker and the two places where the consumer uses *)
(* it: workers ask TryProbe before a dispatch and Record its outcome, and  *)
(* the ingress goroutine parks in admitBreaker while the breaker is open.  *)
(*                                                                         *)
(* Each method holds the breaker's mutex and is one step. The cooldown     *)
(* timer fires on a goroutine of its own, which then waits for the mutex,  *)
(* so firing and running toHalfOpen are two steps. The wake channel is     *)
(* identified by what a holder can tell: whether the channel it captured   *)
(* is still the current one or has been closed.                            *)
(*                                                                         *)
(* A consumer takes any CircuitBreaker. The plug-in in force is the        *)
(* default one, or a wrapper of it that hides its ProbeGate or some of     *)
(* whose methods panic whenever they are called, without an effect.        *)
(***************************************************************************)
EXTENDS Integers, FiniteSets

CONSTANTS
  Workers,    \* goroutines that dispatch, of all consumers sharing the breaker
  Ingresses,  \* their ingress goroutines
  Threshold,  \* WithBreakerThreshold
  Plugins     \* the breakers considered: a ProbeGate or not, and what panics

Methods == {"Allow", "TryProbe", "Record", "HalfOpen"}

ASSUME BreakerAssumption ==
  /\ IsFiniteSet(Workers)
  /\ Threshold \in Nat \ {0}
  /\ Plugins \subseteq [probeGate : BOOLEAN, panics : SUBSET Methods]

VARIABLES
  plugin,         \* the breaker in force, which never changes
  state,          \* closed, open or halfOpen
  fails,          \* consecutive failures, saturating at Threshold
  probeInFlight,  \* the half-open probe is taken
  timer,          \* the cooldown timer
  fired,          \* toHalfOpen calls that wait for the mutex
  dispatch,       \* per worker: no dispatch, one admitted since the last change
                  \* of state, or one admitted before it (a straggler)
  ingress,        \* where each ingress goroutine is in admitBreaker
  wake            \* the wake channel it has captured

timerVars == <<timer, fired>>
ingressVars == <<ingress, wake>>
vars == <<plugin, state, fails, probeInFlight, timerVars, dispatch, ingressVars>>

Init ==
  /\ plugin \in Plugins
  /\ state = "closed"
  /\ fails = 0
  /\ probeInFlight = FALSE
  /\ timer = "idle"
  /\ fired = 0
  /\ dispatch = [w \in Workers |-> "none"]
  /\ ingress = [i \in Ingresses |-> "check"]
  /\ wake = [i \in Ingresses |-> "none"]

-----------------------------------------------------------------------------
(* A method that panics fails open: what it would have held back goes on. *)
Panics(method) == method \in plugin.panics

safeAllow == Panics("Allow") \/ state # "open"

safeTryProbe ==
  Panics("TryProbe") \/ state = "closed" \/ (state = "halfOpen" /\ ~probeInFlight)

(* The dispatch gate is TryProbe if the breaker has it, else Allow. *)
dispatchAllowed == IF plugin.probeGate THEN safeTryProbe ELSE safeAllow

(* The wake channel, or none. *)
safeHalfOpen == IF Panics("HalfOpen") THEN "none" ELSE "current"

(* Whether the dispatch gate takes the slot of the half-open probe. *)
Gated == plugin.probeGate /\ ~Panics("TryProbe")

(* Slip: the probe slot is not taken. *)
TryProbeTakesNoSlot(w) ==
  /\ dispatch[w] = "none"
  /\ dispatchAllowed
  /\ dispatch' = [dispatch EXCEPT ![w] = "current"]
  /\ UNCHANGED <<plugin, state, fails, probeInFlight, timerVars, ingressVars>>

(* The gate lets the worker dispatch; TryProbe takes the slot. *)
TryProbe(w) ==
  /\ dispatch[w] = "none"
  /\ dispatchAllowed
  /\ probeInFlight' = (Gated /\ state = "halfOpen")
  /\ dispatch' = [dispatch EXCEPT ![w] = "current"]
  /\ UNCHANGED <<plugin, state, fails, timerVars, ingressVars>>

(* It does not: the delivery is Nacked, nothing is recorded. *)
Denied(w) ==
  /\ dispatch[w] = "none"
  /\ ~dispatchAllowed
  /\ UNCHANGED vars

(* Worker w is done; if the state changes, dispatches still running become *)
(* stragglers of the state before.                                         *)
Settle(w, changed) ==
  dispatch' = [v \in Workers |->
     IF v = w THEN "none"
     ELSE IF changed /\ dispatch[v] = "current" THEN "straggler" ELSE dispatch[v]]

(* Record(true), of the probe or of a straggler. *)
RecordSuccess(w) ==
  /\ dispatch[w] # "none"
  /\ ~Panics("Record")
  /\ fails' = 0
  /\ state' = IF state = "halfOpen" THEN "closed" ELSE state
  /\ probeInFlight' = (probeInFlight /\ state # "halfOpen")
  /\ Settle(w, state = "halfOpen")
  /\ UNCHANGED <<plugin, timerVars, ingressVars>>

(* openLocked: the old timer is stopped and a new one armed. A toHalfOpen  *)
(* that already fired is not stopped by that.                              *)
OpenLocked ==
  /\ state' = "open"
  /\ timer' = "running"

(* Record(false): trips the breaker at the threshold, and from half-open   *)
(* always. In the open state it only counts.                               *)
RecordFailure(w) ==
  /\ dispatch[w] # "none"
  /\ ~Panics("Record")
  /\ fails' = IF fails < Threshold THEN fails + 1 ELSE fails
  /\ probeInFlight' = (probeInFlight /\ state # "halfOpen")
  /\ IF (state = "closed" /\ fails' >= Threshold) \/ state = "halfOpen"
     THEN OpenLocked /\ Settle(w, TRUE)
     ELSE UNCHANGED <<state, timer>> /\ Settle(w, FALSE)
  /\ UNCHANGED <<plugin, fired, ingressVars>>

(* safeRecord swallows the panic: the outcome is not counted. *)
RecordPanics(w) ==
  /\ dispatch[w] # "none"
  /\ Panics("Record")
  /\ Settle(w, FALSE)
  /\ UNCHANGED <<plugin, state, fails, probeInFlight, timerVars, ingressVars>>

(* The cooldown is over: the timer's goroutine starts. *)
TimerFires ==
  /\ timer = "running"
  /\ timer' = "idle"
  /\ fired' = fired + 1
  /\ UNCHANGED <<plugin, state, fails, probeInFlight, dispatch, ingressVars>>

(* Slip: every ingress goroutine is woken by a send it has to receive,     *)
(* instead of by the close of the channel.                                 *)
ToHalfOpenSends ==
  /\ fired > 0
  /\ \A i \in Ingresses : wake[i] = "current"
  /\ fired' = fired - 1
  /\ state' = "halfOpen"
  /\ probeInFlight' = FALSE
  /\ dispatch' = [v \in Workers |->
       IF dispatch[v] = "current" THEN "straggler" ELSE dispatch[v]]
  /\ wake' = [i \in Ingresses |-> "closed"]
  /\ UNCHANGED <<plugin, fails, timer, ingress>>

(* toHalfOpen on that goroutine: it closes the wake channel and mints the  *)
(* next one, unless the breaker is not open any more.                      *)
ToHalfOpen ==
  /\ fired > 0
  /\ fired' = fired - 1
  /\ IF state = "open"
     THEN /\ state' = "halfOpen"
          /\ probeInFlight' = FALSE
          /\ dispatch' = [v \in Workers |->
               IF dispatch[v] = "current" THEN "straggler" ELSE dispatch[v]]
          /\ wake' = [i \in Ingresses |-> IF wake[i] = "current" THEN "closed" ELSE wake[i]]
     ELSE UNCHANGED <<state, probeInFlight, dispatch, wake>>
  /\ UNCHANGED <<plugin, fails, timer, ingress>>

-----------------------------------------------------------------------------
(* admitBreaker. An admitted ingress comes back with its next delivery.    *)

Check(i) ==
  /\ ingress[i] = "check"
  /\ ~safeAllow
  /\ ingress' = [ingress EXCEPT ![i] = "subscribe"]
  /\ UNCHANGED <<plugin, state, fails, probeInFlight, timerVars, dispatch, wake>>

(* The wake channel is captured; a HalfOpen that panics has none, and the  *)
(* delivery is admitted rather than parked on nothing.                     *)
Subscribe(i) ==
  /\ ingress[i] = "subscribe"
  /\ wake' = [wake EXCEPT ![i] = safeHalfOpen]
  /\ ingress' = [ingress EXCEPT ![i] = IF safeHalfOpen = "none" THEN "check" ELSE "recheck"]
  /\ UNCHANGED <<plugin, state, fails, probeInFlight, timerVars, dispatch>>

(* Slip: the ingress parks on what the first Allow said. *)
ParkUnchecked(i) ==
  /\ ingress[i] = "recheck"
  /\ ingress' = [ingress EXCEPT ![i] = "parked"]
  /\ UNCHANGED <<plugin, state, fails, probeInFlight, timerVars, dispatch, wake>>

Recheck(i) ==
  /\ ingress[i] = "recheck"
  /\ IF ~safeAllow
     THEN ingress' = [ingress EXCEPT ![i] = "parked"] /\ UNCHANGED wake
     ELSE /\ ingress' = [ingress EXCEPT ![i] = "check"]
          /\ wake' = [wake EXCEPT ![i] = "none"]
  /\ UNCHANGED <<plugin, state, fails, probeInFlight, timerVars, dispatch>>

(* The captured channel is closed: around the loop again. *)
Wake(i) ==
  /\ ingress[i] = "parked"
  /\ wake[i] = "closed"
  /\ ingress' = [ingress EXCEPT ![i] = "check"]
  /\ wake' = [wake EXCEPT ![i] = "none"]
  /\ UNCHANGED <<plugin, state, fails, probeInFlight, timerVars, dispatch>>

(* The context of the consumer is done: the ingress goroutine leaves. *)
Leave(i) ==
  /\ ingress[i] = "parked"
  /\ ingress' = [ingress EXCEPT ![i] = "left"]
  /\ wake' = [wake EXCEPT ![i] = "none"]
  /\ UNCHANGED <<plugin, state, fails, probeInFlight, timerVars, dispatch>>

Record(w) == RecordSuccess(w) \/ RecordFailure(w) \/ RecordPanics(w)

Next ==
  \/ \E w \in Workers : TryProbe(w) \/ Denied(w) \/ Record(w)
  \/ TimerFires \/ ToHalfOpen
  \/ \E i \in Ingresses : Check(i) \/ Subscribe(i) \/ Recheck(i) \/ Wake(i) \/ Leave(i)

Spec == Init /\ [][Next]_vars

(* Timers fire and their goroutines get the mutex, ingress goroutines run, *)
(* and a dispatch ends: WithHandlerTimeout or the drain cut it.            *)
Fairness ==
  /\ WF_vars(TimerFires)
  /\ WF_vars(ToHalfOpen)
  /\ \A i \in Ingresses : WF_vars(Subscribe(i) \/ Recheck(i) \/ Wake(i))
  /\ \A w \in Workers : WF_vars(Record(w))

FairSpec == Spec /\ Fairness

-----------------------------------------------------------------------------
(* Properties.                                                             *)

(* Every variable keeps its type. *)
TypeOK ==
  /\ plugin \in Plugins
  /\ state \in {"closed", "open", "halfOpen"}
  /\ fails \in 0..Threshold
  /\ probeInFlight \in BOOLEAN
  /\ timer \in {"idle", "running"}
  /\ fired \in Nat
  /\ dispatch \in [Workers -> {"none", "current", "straggler"}]
  /\ ingress \in [Ingresses -> {"check", "subscribe", "recheck", "parked", "left"}]
  /\ wake \in [Ingresses -> {"none", "current", "closed"}]

(* An open breaker has exactly one cooldown under way, as a running timer  *)
(* or as a toHalfOpen waiting for the mutex; in any other state there is   *)
(* none. So no open breaker is left without a way out, and no timer of an  *)
(* earlier cycle cuts a later cooldown short.                              *)
OneCooldown ==
  \/ state = "open" /\ timer = "running" /\ fired = 0
  \/ state = "open" /\ timer = "idle" /\ fired = 1
  \/ state # "open" /\ timer = "idle" /\ fired = 0

(* A closed breaker is below the threshold: the failures that opened it    *)
(* never count again after it has closed.                                  *)
ClosedBelowThreshold == state = "closed" => fails < Threshold

(* toHalfOpen: "probeInFlight true => state half-open", and the flag is    *)
(* set exactly while the one dispatch admitted by this half-open cycle is  *)
(* running, whatever stragglers of earlier cycles still run. Without a     *)
(* TryProbe that works there is no such limit.                             *)
OneProbePerCycle ==
  /\ probeInFlight => state = "halfOpen"
  /\ Gated /\ state = "halfOpen" =>
       Cardinality({w \in Workers : dispatch[w] = "current"}) = (IF probeInFlight THEN 1 ELSE 0)

(* admitBreaker's park is "missed-wakeup-free": whoever is parked waits    *)
(* for a breaker that is open, on the channel that the end of this open    *)
(* cycle will close, or on one already closed.                             *)
NoMissedWakeup ==
  \A i \in Ingresses : ingress[i] = "parked" =>
     wake[i] = "closed" \/ (wake[i] = "current" /\ state = "open")

(* Record: a straggler's success "must NOT re-close an open breaker": an   *)
(* open breaker only becomes half-open, and only through its cooldown.     *)
OpenEndsByCooldown ==
  [][state = "open" /\ state' # "open" => state' = "halfOpen" /\ fired' < fired]_vars

(* The breaker holds nobody back for ever: it never denies every dispatch  *)
(* from some time on, and an ingress goroutine that it parked gets on. A   *)
(* breaker that panics is no reason for a wedge either.                    *)
NoWedge ==
  /\ []<>dispatchAllowed
  /\ \A i \in Ingresses : ingress[i] = "parked" ~> ingress[i] # "parked"
=============================================================================
