--------------------------- MODULE Breaker_proofs ---------------------------
(***************************************************************************)
(* The safety properties of Breaker, for every number of workers and       *)
(* ingress goroutines, every threshold and every plug-in.                  *)
(*                                                                         *)
(* The invariant is OneCooldown (which gives the timer its meaning), the   *)
(* set of dispatches admitted by the current half-open cycle, said without *)
(* a count (ProbeInv), what an ingress goroutine has captured when it      *)
(* parks (WakeInv), and that a breaker whose Record panics never opens     *)
(* (PanicInv), so that no probe slot is taken which nobody gives back.     *)
(***************************************************************************)
EXTENDS Breaker, FiniteSetTheorems, TLAPS

(* In the half-open state the probe flag is the one dispatch of this       *)
(* cycle; if TryProbe does not gate the dispatches it is never set.        *)
ProbeInv ==
  /\ probeInFlight => Gated /\ state = "halfOpen"
  /\ Gated /\ state = "halfOpen" /\ ~probeInFlight => \A w \in Workers : dispatch[w] # "current"
  /\ probeInFlight => \E w \in Workers : \A v \in Workers : dispatch[v] = "current" <=> v = w

(* Whoever re-checks or parks has captured a wake channel. *)
WakeInv ==
  /\ \A i \in Ingresses : ingress[i] \in {"recheck", "parked"} => wake[i] # "none"
  /\ NoMissedWakeup

(* A breaker that nothing is recorded on stays closed. *)
PanicInv == Panics("Record") => state = "closed"

IndInv == TypeOK /\ OneCooldown /\ ClosedBelowThreshold /\ ProbeInv /\ WakeInv /\ PanicInv

-----------------------------------------------------------------------------
(* A new breaker is closed, with no timer and nobody waiting. *)
LEMMA IndInit == Init => IndInv
<1> SUFFICES ASSUME Init PROVE IndInv
  OBVIOUS
<1>1. TypeOK /\ OneCooldown /\ ClosedBelowThreshold /\ PanicInv
  <2>1. probeInFlight \in BOOLEAN
    BY Zenon DEF Init
  <2> QED
    BY <2>1, BreakerAssumption
       DEF Init, TypeOK, OneCooldown, ClosedBelowThreshold, PanicInv, Panics, BreakerAssumption
<1>2. ProbeInv /\ WakeInv
  BY DEF Init, ProbeInv, WakeInv, NoMissedWakeup
<1> QED
  BY <1>1, <1>2 DEF IndInv

(* A dispatch is admitted by a closed breaker, or as the only one of its   *)
(* half-open cycle.                                                        *)
LEMMA TryProbeStep ==
  ASSUME IndInv, NEW w \in Workers, TryProbe(w)
  PROVE  IndInv'
<1> USE DEF TryProbe, dispatchAllowed, Gated, Panics, timerVars, ingressVars
<1>1. TypeOK' /\ OneCooldown' /\ ClosedBelowThreshold' /\ PanicInv'
  BY DEF IndInv, TypeOK, OneCooldown, ClosedBelowThreshold, PanicInv, Panics
<1>2. ProbeInv'
  <2>1. CASE Gated
    BY <2>1, Zenon DEF IndInv, TypeOK, ProbeInv, safeTryProbe
  <2>2. CASE ~Gated
    BY <2>2, Zenon DEF ProbeInv
  <2> QED
    BY <2>1, <2>2
<1>3. WakeInv'
  BY DEF IndInv, WakeInv, NoMissedWakeup
<1> QED
  BY <1>1, <1>2, <1>3 DEF IndInv

(* A success ends a half-open cycle: what it admitted becomes a straggler. *)
LEMMA RecordSuccessStep ==
  ASSUME IndInv, NEW w \in Workers, RecordSuccess(w)
  PROVE  IndInv'
<1> USE DEF RecordSuccess, Settle, timerVars, ingressVars
<1>1. TypeOK' /\ OneCooldown' /\ ClosedBelowThreshold' /\ PanicInv'
  BY BreakerAssumption
     DEF IndInv, TypeOK, OneCooldown, ClosedBelowThreshold, PanicInv, Panics, BreakerAssumption
<1>2. ProbeInv'
  BY Zenon DEF IndInv, TypeOK, ProbeInv, Gated, Panics
<1>3. WakeInv'
  BY DEF IndInv, TypeOK, WakeInv, NoMissedWakeup
<1> QED
  BY <1>1, <1>2, <1>3 DEF IndInv

(* A failure arms the cooldown exactly when it opens the breaker. *)
LEMMA RecordFailureStep ==
  ASSUME IndInv, NEW w \in Workers, RecordFailure(w)
  PROVE  IndInv'
<1> USE DEF RecordFailure, OpenLocked, Settle, timerVars, ingressVars
<1>1. TypeOK'
  BY BreakerAssumption DEF IndInv, TypeOK, BreakerAssumption
<1>2. OneCooldown' /\ ClosedBelowThreshold' /\ PanicInv'
  BY BreakerAssumption
     DEF IndInv, TypeOK, OneCooldown, ClosedBelowThreshold, PanicInv, Panics, BreakerAssumption
<1>3. ProbeInv'
  BY Zenon DEF IndInv, TypeOK, ProbeInv, Gated, Panics
<1>4. WakeInv'
  BY DEF IndInv, TypeOK, WakeInv, NoMissedWakeup
<1> QED
  BY <1>1, <1>2, <1>3, <1>4 DEF IndInv

(* A panic of Record ends a dispatch. If TryProbe gates it, the slot it    *)
(* holds is not given back, but the breaker never opened then.             *)
LEMMA RecordPanicsStep ==
  ASSUME IndInv, NEW w \in Workers, RecordPanics(w)
  PROVE  IndInv'
<1> USE DEF RecordPanics, Settle, timerVars, ingressVars
<1>1. TypeOK' /\ OneCooldown' /\ ClosedBelowThreshold' /\ PanicInv'
  BY DEF IndInv, TypeOK, OneCooldown, ClosedBelowThreshold, PanicInv, Panics
<1>2. state = "closed" /\ ~probeInFlight
  BY DEF IndInv, ProbeInv, PanicInv
<1>3. ProbeInv'
  BY <1>2 DEF ProbeInv, Gated, Panics
<1>4. WakeInv'
  BY DEF IndInv, WakeInv, NoMissedWakeup
<1> QED
  BY <1>1, <1>3, <1>4 DEF IndInv

(* The timer hands the one cooldown over to the goroutine it starts. *)
LEMMA TimerFiresStep ==
  ASSUME IndInv, TimerFires
  PROVE  IndInv'
<1> USE DEF TimerFires, ingressVars
<1>1. TypeOK' /\ OneCooldown' /\ ClosedBelowThreshold' /\ PanicInv'
  BY DEF IndInv, TypeOK, OneCooldown, ClosedBelowThreshold, PanicInv, Panics
<1>2. ProbeInv' /\ WakeInv'
  BY DEF IndInv, ProbeInv, Gated, Panics, WakeInv, NoMissedWakeup
<1> QED
  BY <1>1, <1>2 DEF IndInv

(* toHalfOpen finds an open breaker, and every captured channel closed. *)
LEMMA ToHalfOpenStep ==
  ASSUME IndInv, ToHalfOpen
  PROVE  IndInv'
<1> USE DEF ToHalfOpen
<1>0. state = "open" /\ fired = 1 /\ timer = "idle"
  BY DEF IndInv, TypeOK, OneCooldown
<1>1. TypeOK'
  <2>1. probeInFlight' \in BOOLEAN
    BY <1>0, Zenon
  <2> QED
    BY <1>0, <2>1 DEF IndInv, TypeOK
<1>2. OneCooldown' /\ ClosedBelowThreshold' /\ PanicInv'
  BY <1>0 DEF IndInv, OneCooldown, ClosedBelowThreshold, PanicInv, Panics
<1>3. ProbeInv'
  BY <1>0 DEF IndInv, TypeOK, ProbeInv, Gated, Panics
<1>4. WakeInv'
  BY <1>0 DEF IndInv, TypeOK, WakeInv, NoMissedWakeup
<1> QED
  BY <1>1, <1>2, <1>3, <1>4 DEF IndInv

(* The ingress goroutine changes nothing but its own state, and parks only *)
(* on a channel it captured while, at the re-check, the breaker was open.  *)
LEMMA IngressStep ==
  ASSUME IndInv, NEW i \in Ingresses,
         Check(i) \/ Subscribe(i) \/ Recheck(i) \/ Wake(i) \/ Leave(i)
  PROVE  IndInv'
<1> USE DEF Check, Subscribe, Recheck, safeAllow, safeHalfOpen, Panics, Wake, Leave, timerVars
<1>1. TypeOK' /\ OneCooldown' /\ ClosedBelowThreshold' /\ PanicInv' /\ ProbeInv'
  BY DEF IndInv, TypeOK, OneCooldown, ClosedBelowThreshold, PanicInv, ProbeInv, Gated
<1>2. WakeInv'
  BY DEF IndInv, TypeOK, WakeInv, NoMissedWakeup
<1> QED
  BY <1>1, <1>2 DEF IndInv

(* Every step preserves the inductive invariant. *)
LEMMA IndNext == IndInv /\ [Next]_vars => IndInv'
<1> SUFFICES ASSUME IndInv, [Next]_vars PROVE IndInv'
  OBVIOUS
<1>1. CASE UNCHANGED vars
  BY <1>1 DEF vars, timerVars, ingressVars, IndInv, TypeOK, OneCooldown, ClosedBelowThreshold,
              PanicInv, Panics, ProbeInv, Gated, WakeInv, NoMissedWakeup
<1>2. CASE Next
  BY <1>1, <1>2, TryProbeStep, RecordSuccessStep, RecordFailureStep, TimerFiresStep,
     RecordPanicsStep, ToHalfOpenStep, IngressStep DEF Next, Record, Denied
<1> QED
  BY <1>1, <1>2

(* The inductive invariant holds in every reachable state. *)
LEMMA Inductive == Spec => []IndInv
BY IndInit, IndNext, PTL DEF Spec

-----------------------------------------------------------------------------
(* Exactly the open breaker has a cooldown under way, and only one. *)
THEOREM CooldownCorrect == Spec => []OneCooldown
<1>1. IndInv => OneCooldown
  BY DEF IndInv
<1> QED
  BY <1>1, Inductive, PTL

(* A closed breaker has fewer consecutive failures than its threshold. *)
THEOREM ThresholdCorrect == Spec => []ClosedBelowThreshold
<1>1. IndInv => ClosedBelowThreshold
  BY DEF IndInv
<1> QED
  BY <1>1, Inductive, PTL

(* A half-open cycle admits one dispatch, and the flag says whether it is  *)
(* running.                                                                *)
THEOREM ProbeCorrect == Spec => []OneProbePerCycle
<1>1. IndInv => OneProbePerCycle
  <2> DEFINE Probes == {w \in Workers : dispatch[w] = "current"}
  <2> SUFFICES ASSUME IndInv
               PROVE  OneProbePerCycle
    OBVIOUS
  <2>1. ASSUME Gated, state = "halfOpen", ~probeInFlight PROVE Cardinality(Probes) = 0
    <3>1. Probes = {}
      BY <2>1 DEF IndInv, ProbeInv
    <3> QED
      BY <3>1, FS_EmptySet
  <2>2. ASSUME probeInFlight PROVE Cardinality(Probes) = 1
    <3>1. PICK w \in Workers : \A v \in Workers : dispatch[v] = "current" <=> v = w
      BY <2>2 DEF IndInv, ProbeInv
    <3>2. Probes = {w}
      BY <3>1
    <3> QED
      BY <3>2, FS_Singleton, SMTT(30)
  <2>3. probeInFlight \in BOOLEAN /\ (probeInFlight => state = "halfOpen")
    BY DEF IndInv, TypeOK, ProbeInv, Gated, Panics
  <2> QED
    BY <2>1, <2>2, <2>3 DEF OneProbePerCycle
<1> QED
  BY <1>1, Inductive, PTL

(* Nobody parks on a wake channel that no transition will close. *)
THEOREM WakeupCorrect == Spec => []NoMissedWakeup
<1>1. IndInv => NoMissedWakeup
  BY DEF IndInv, WakeInv
<1> QED
  BY <1>1, Inductive, PTL

(* Only its cooldown takes a breaker out of the open state, whatever the   *)
(* stragglers record.                                                      *)
THEOREM OpenCorrect == Spec => OpenEndsByCooldown
<1>1. IndInv /\ [Next]_vars =>
        [state = "open" /\ state' # "open" => state' = "halfOpen" /\ fired' < fired]_vars
  <2> SUFFICES ASSUME IndInv, Next, state = "open", state' # "open"
               PROVE  state' = "halfOpen" /\ fired' < fired
    BY DEF vars
  <2>1. ToHalfOpen
    BY Zenon DEF Next, TryProbe, Denied, Record, RecordSuccess, RecordFailure, RecordPanics,
       TimerFires, Check, Subscribe, Recheck, Wake, Leave, vars
  <2> QED
    BY <2>1 DEF ToHalfOpen, IndInv, TypeOK
<1> QED
  BY <1>1, Inductive, PTL DEF Spec, OpenEndsByCooldown
=============================================================================
