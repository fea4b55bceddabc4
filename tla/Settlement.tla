----------------------------- MODULE Settlement -----------------------------
(***************************************************************************)
(* The settlement switch of endpoint.Consumer: what dispatch does with a   *)
(* delivery once its handler (or its decode) has an outcome, and the       *)
(* attempt tracker it consults. Ack, Nack and the sends to the two sinks   *)
(* are calls to adapters that may fail, also after having had their        *)
(* effect. The source is any at-least-once source: a delivery that is not  *)
(* settled comes back, even while the first one is still being handled.    *)
(*                                                                         *)
(* Counters saturate at Cap: dispatch only compares them with MaxAttempts. *)
(***************************************************************************)
EXTENDS EndpointConfig, FiniteSets

(* What a consumer can be set up with: RetryPolicy.DeadLetter,             *)
(* WithInvalidMessageSink, a source whose deliveries carry the             *)
(* msgin.delivery-count header, one with a dead-letter queue of its own    *)
(* (NativeReliability.NativeDeadLetter), one that hands over live values,  *)
(* WithPayloadCodec and WithMaxPayloadBytes.                               *)
Options == {"deadLetter", "invalidSink", "nativeCount", "nativeDLQ", "liveValue", "codec", "byteCap"}

(* What a message can hold: a live value of the handler's type, or bytes,  *)
(* which may be over the byte cap, or not decode, or make the codec panic. *)
Payloads == {"value", "bytes", "long", "garbled", "panics"}

(* What a handler can do: return nil, an error of its own that is marked   *)
(* permanent, one that stands for a payload too large, or any other, or    *)
(* panic.                                                                  *)
Results == {"nil", "permanent", "ErrPayloadTooLarge", "error", "panic"}

CONSTANTS
  Msgs,           \* the message ids of the source
  Workers,        \* the goroutines of the pool
  MaxAttempts,    \* RetryPolicy.MaxAttempts, 0 for no limit
  Setups,         \* the sets of options considered
  NoMsg           \* what an idle worker holds

ASSUME SettlementAssumption ==
  /\ MaxAttempts \in Nat
  /\ Setups \subseteq SUBSET Options
  /\ NoMsg \notin Msgs

(* The consumer that is set up; a constructor that fails gives none. *)
Constructed(opts) ==
  NewConsumer([kind |-> "poll", live |-> "liveValue" \in opts], TRUE,
              [maxAttempts |-> MaxAttempts, sink |-> "deadLetter" \in opts],
              [Unset EXCEPT !.concurrency = {Cardinality(Workers)},
                            !.codecSet = "codec" \in opts]) = "nil"

VARIABLES
  conf,       \* the options in force and what each message holds, which never change
  src,        \* what the source knows of each message
  deliveries, \* how often it was delivered, where the source counts that
  stopped,    \* the shutdown deadline passed: drainCtx and settleCtx are done
  tracker,    \* the attempt tracker's count, 0 for an absent entry
  wpc,        \* where each worker is in dispatch
  work,       \* the message it dispatches
  header,     \* the delivery count that delivery carries
  failed,     \* how often a handler failed transiently on the message
  record      \* where each message has been put on record, and how

workerVars == <<wpc, work, header>>
vars == <<conf, src, deliveries, stopped, tracker, workerVars, failed, record>>

HasDeadLetter  == "deadLetter" \in conf.opts
HasInvalidSink == "invalidSink" \in conf.opts
NativeCount    == "nativeCount" \in conf.opts
NativeDLQ      == "nativeDLQ" \in conf.opts
LiveValue      == "liveValue" \in conf.opts
ByteCap        == "byteCap" \in conf.opts

Cap == MaxAttempts + 1
Bump(n) == IF n < Cap THEN n + 1 ELSE n

(* How the fate of a message can be accounted for: a handler succeeded,    *)
(* the dead-letter sink took it after its last attempt, the sink for       *)
(* invalid messages (or its stand-in) took it, the source's own            *)
(* dead-letter queue took it, or it was an invalid message with no sink to *)
(* go to or refused by its sink.                                           *)
Records == {"handled", "deadLetter", "invalidSink", "native", "noSink", "refused"}

Init ==
  /\ conf \in [opts : {opts \in Setups : Constructed(opts)}, payload : [Msgs -> Payloads]]
  /\ src = [m \in Msgs |-> "ready"]
  /\ deliveries = [m \in Msgs |-> 0]
  /\ stopped = FALSE
  /\ tracker = [m \in Msgs |-> 0]
  /\ wpc = [w \in Workers |-> "idle"]
  /\ work = [w \in Workers |-> NoMsg]
  /\ header = [w \in Workers |-> 0]
  /\ failed = [m \in Msgs |-> 0]
  /\ record = {}

-----------------------------------------------------------------------------
Goto(w, s) == wpc' = [wpc EXCEPT ![w] = s]

Idle(w) ==
  /\ Goto(w, "idle")
  /\ work' = [work EXCEPT ![w] = NoMsg]
  /\ header' = [header EXCEPT ![w] = 0]

Stay(w, s) == Goto(w, s) /\ UNCHANGED <<work, header>>

(* A delivery reaches a worker before the shutdown deadline. *)
Deliver(w, m) ==
  /\ wpc[w] = "idle"
  /\ ~stopped
  /\ src[m] = "ready"
  /\ src' = [src EXCEPT ![m] = "claimed"]
  /\ deliveries' = IF NativeCount THEN [deliveries EXCEPT ![m] = Bump(@)] ELSE deliveries
  /\ Goto(w, "handle")
  /\ work' = [work EXCEPT ![w] = m]
  /\ header' = [header EXCEPT ![w] = deliveries'[m]]
  /\ UNCHANGED <<conf, stopped, tracker, failed, record>>

(* process Nacks without a dispatch: the deadline has passed or the        *)
(* breaker does not allow it.                                              *)
Refuse(w) ==
  /\ wpc[w] = "handle"
  /\ Stay(w, "nack")
  /\ UNCHANGED <<conf, src, deliveries, stopped, tracker, failed, record>>

(* The handler returned nil. *)
Succeed(w) ==
  /\ wpc[w] = "handle"
  /\ record' = record \cup {<<work[w], "handled">>}
  /\ Stay(w, "ack")
  /\ UNCHANGED <<conf, src, deliveries, stopped, tracker, failed>>

(* invalidTarget: the invalid-message sink, else the dead-letter sink, but *)
(* never that one for a payload over the byte cap.                         *)
InvalidTarget(tooLarge) == HasInvalidSink \/ (~tooLarge /\ HasDeadLetter)

(* The decode failed or the handler's error is permanent: divertTerminal.  *)
(* With no sink the discard is the terminal event.                         *)
Invalid(w, tooLarge) ==
  /\ wpc[w] = "handle"
  /\ IF InvalidTarget(tooLarge)
     THEN Stay(w, "sendInvalid") /\ UNCHANGED record
     ELSE Stay(w, "ack") /\ record' = record \cup {<<work[w], "noSink">>}
  /\ UNCHANGED <<conf, src, deliveries, stopped, tracker, failed>>

(* The one send of divertTerminal. A failure under a live context discards *)
(* the message; one after the deadline says nothing about the sink, and    *)
(* the message is Nacked.                                                  *)
SendInvalid(w) ==
  /\ wpc[w] = "sendInvalid"
  /\ \/ /\ record' = record \cup {<<work[w], "invalidSink">>}
        /\ Stay(w, "ack")
     \/ /\ stopped
        /\ Stay(w, "nack")
        /\ record' \in {record, record \cup {<<work[w], "invalidSink">>}}
     \/ /\ ~stopped
        /\ record' = record \cup {<<work[w], "refused">>}
        /\ Stay(w, "ack")
  /\ UNCHANGED <<conf, src, deliveries, stopped, tracker, failed>>

(* Slip: the budget is compared before this failure is counted. *)
ExhaustedEarly(n) == MaxAttempts > 0 /\ n + 1 >= MaxAttempts /\ ~NativeDLQ

(* Slip: only the failure that meets the budget exactly is diverted. *)
ExhaustedOnce(n) == MaxAttempts > 0 /\ n = MaxAttempts /\ ~NativeDLQ

(* The budget is finite and spent, and the source has no dead-letter       *)
(* queue of its own.                                                       *)
Exhausted(n) == MaxAttempts > 0 /\ n >= MaxAttempts /\ ~NativeDLQ

(* The tracker's count with this failure. *)
observe(m) == Bump(tracker[m])

(* Any other error, a panic included, is transient: attempts counts it,    *)
(* natively or in the tracker, and the message is retried or, once the     *)
(* budget is spent, sent to the dead-letter sink.                          *)
Fail(w) ==
  LET m == work[w]
      n == IF NativeCount THEN header[w] ELSE observe(m)
  IN /\ wpc[w] = "handle"
     /\ failed' = [failed EXCEPT ![m] = Bump(@)]
     /\ tracker' = IF NativeCount THEN tracker ELSE [tracker EXCEPT ![m] = n]
     /\ Stay(w, IF Exhausted(n) THEN "sendDead" ELSE "nack")
     /\ UNCHANGED <<conf, src, deliveries, stopped, record>>

(* Slip: the message is settled whether or not the sink took it. *)
SendDeadIgnoresError(w) ==
  /\ wpc[w] = "sendDead"
  /\ record' \in {record, record \cup {<<work[w], "deadLetter">>}}
  /\ Stay(w, "ack")
  /\ UNCHANGED <<conf, src, deliveries, stopped, tracker, failed>>

(* divert: only a message the dead-letter sink took is Acked. A send that  *)
(* fails, with or without effect, is retried through a Nack.               *)
SendDead(w) ==
  /\ wpc[w] = "sendDead"
  /\ \/ /\ record' = record \cup {<<work[w], "deadLetter">>}
        /\ Stay(w, "ack")
     \/ /\ record' \in {record, record \cup {<<work[w], "deadLetter">>}}
        /\ Stay(w, "nack")
  /\ UNCHANGED <<conf, src, deliveries, stopped, tracker, failed>>

(* The source took the Ack: the message is settled, the tracker entry goes.*)
AckOk(w) ==
  /\ wpc[w] = "ack"
  /\ src' = [src EXCEPT ![work[w]] = "gone"]
  /\ Stay(w, "evict")
  /\ UNCHANGED <<conf, deliveries, stopped, tracker, failed, record>>

(* The Ack returned an error, before or after its effect: no eviction. *)
AckFailed(w) ==
  /\ wpc[w] = "ack"
  /\ src' \in {src, [src EXCEPT ![work[w]] = "gone"]}
  /\ Idle(w)
  /\ UNCHANGED <<conf, deliveries, stopped, tracker, failed, record>>

Evict(w) ==
  /\ wpc[w] = "evict"
  /\ tracker' = [tracker EXCEPT ![work[w]] = 0]
  /\ Idle(w)
  /\ UNCHANGED <<conf, src, deliveries, stopped, failed, record>>

(* A Nack with requeue makes the message ready again, or fails and leaves  *)
(* it claimed. A source with a dead-letter queue may put it there instead. *)
Nack(w) ==
  LET m == work[w]
  IN /\ wpc[w] = "nack"
     /\ \/ /\ src' \in {src, IF src[m] = "claimed" THEN [src EXCEPT ![m] = "ready"] ELSE src}
           /\ UNCHANGED record
        \/ /\ NativeDLQ
           /\ src[m] = "claimed"
           /\ src' = [src EXCEPT ![m] = "gone"]
           /\ record' = record \cup {<<m, "native">>}
     /\ Idle(w)
     /\ UNCHANGED <<conf, deliveries, stopped, tracker, failed>>

-----------------------------------------------------------------------------
(* A delivery that was not settled in time comes back. *)
Redeliver(m) ==
  /\ src[m] = "claimed"
  /\ src' = [src EXCEPT ![m] = "ready"]
  /\ UNCHANGED <<conf, deliveries, stopped, tracker, workerVars, failed, record>>

(* The sweep reclaims an entry that was idle for the TTL. The TTL is far   *)
(* longer than any redelivery takes (WithAttemptTTL), so such a message is *)
(* no longer delivered.                                                    *)
Sweep(m) ==
  /\ tracker[m] > 0
  /\ src[m] = "gone"
  /\ tracker' = [tracker EXCEPT ![m] = 0]
  /\ UNCHANGED <<conf, src, deliveries, stopped, workerVars, failed, record>>

(* The shutdown deadline passes: drainWorkers cancels both contexts. *)
Stop ==
  /\ ~stopped
  /\ stopped' = TRUE
  /\ UNCHANGED <<conf, src, deliveries, tracker, workerVars, failed, record>>

Finished ==
  /\ stopped \/ \A m \in Msgs : src[m] = "gone"
  /\ \A w \in Workers : wpc[w] = "idle"
  /\ UNCHANGED vars

(* An error of the codec, or its panic. *)
safeDecode(p) == IF p \in {"garbled", "panics"} THEN "ErrPayloadDecode" ELSE "nil"

(* A live value is passed on as it is; anything else has to be bytes. *)
decode(p) ==
  CASE LiveValue -> IF p = "value" THEN "nil" ELSE "ErrPayloadType"
    [] ~LiveValue /\ p = "value" -> "ErrPayloadType"
    [] ~LiveValue /\ ByteCap /\ p = "long" -> "ErrPayloadTooLarge"
    [] OTHER -> safeDecode(p)

safeHandle(r) == IF r = "panic" THEN "ErrHandlerPanic" ELSE r

IsPermanent(err) ==
  err \in {"permanent", "ErrPayloadType", "ErrPayloadDecode", "ErrPayloadTooLarge"}

(* What the decode, and then the handler, makes of a delivery. *)
Outcome(w) ==
  LET unread == decode(conf.payload[work[w]])
  IN /\ wpc[w] = "handle"
     /\ \/ unread # "nil" /\ Invalid(w, unread = "ErrPayloadTooLarge")
        \/ /\ unread = "nil"
           /\ \E r \in Results :
                LET err == safeHandle(r)
                IN \/ err = "nil" /\ Succeed(w)
                   \/ IsPermanent(err) /\ Invalid(w, err = "ErrPayloadTooLarge")
                   \/ err # "nil" /\ ~IsPermanent(err) /\ Fail(w)

Dispatch(w) ==
  \/ Refuse(w) \/ Outcome(w)
  \/ SendInvalid(w) \/ SendDead(w)
  \/ AckOk(w) \/ AckFailed(w) \/ Evict(w) \/ Nack(w)

Next ==
  \/ \E w \in Workers : Dispatch(w) \/ \E m \in Msgs : Deliver(w, m)
  \/ \E m \in Msgs : Redeliver(m) \/ Sweep(m)
  \/ Stop
  \/ Finished

Spec == Init /\ [][Next]_vars

(* Workers take their steps; the source delivers what is ready and brings  *)
(* back what nobody settled; and a call that is repeated time and again    *)
(* does not fail, or get refused by the breaker, every time.               *)
Fairness ==
  /\ \A w \in Workers :
       /\ WF_vars(Dispatch(w))
       /\ SF_vars(Outcome(w))
       /\ SF_vars(SendDead(w) /\ wpc'[w] = "ack")
       /\ SF_vars(AckOk(w))
  /\ \A m \in Msgs :
       /\ SF_vars(\E w \in Workers : Deliver(w, m))
       /\ WF_vars(Redeliver(m))
       /\ WF_vars(Sweep(m))

FairSpec == Spec /\ Fairness

-----------------------------------------------------------------------------
(* Properties.                                                             *)

(* Every variable keeps its type. *)
TypeOK ==
  /\ conf \in [opts : SUBSET Options, payload : [Msgs -> Payloads]]
  /\ src \in [Msgs -> {"ready", "claimed", "gone"}]
  /\ deliveries \in [Msgs -> 0..Cap]
  /\ stopped \in BOOLEAN
  /\ tracker \in [Msgs -> 0..Cap]
  /\ wpc \in [Workers -> {"idle", "handle", "sendInvalid", "sendDead", "ack", "evict", "nack"}]
  /\ work \in [Workers -> Msgs \cup {NoMsg}]
  /\ header \in [Workers -> 0..Cap]
  /\ failed \in [Msgs -> 0..Cap]
  /\ record \in SUBSET (Msgs \X Records)

(* NF-3, no message loss: a message leaves the source only when it was     *)
(* handled, is in a sink or the source's own dead-letter queue, or was     *)
(* invalid and had no sink or was refused by a sink that was really asked. *)
NoLoss == \A m \in Msgs : src[m] = "gone" => \E how \in Records : <<m, how>> \in record

(* NF-2: while a message can still be delivered, the tracker knows every   *)
(* failure it ever had, so its budget cannot restart.                      *)
CountSurvives ==
  ~NativeCount => \A m \in Msgs : src[m] # "gone" => tracker[m] = failed[m]

(* Nobody is sent to the dead-letter sink before the budget is spent: the  *)
(* tracker counts failures, the native header counts deliveries.           *)
DeadLetterAfterBudget ==
  \A m \in Msgs : <<m, "deadLetter">> \in record =>
     IF NativeCount THEN deliveries[m] >= MaxAttempts ELSE failed[m] >= MaxAttempts

(* A message whose handler keeps failing does not stay for ever: with a    *)
(* finite budget every message comes to be settled, unless shutdown comes  *)
(* or dead-lettering is left to the source, and its entry in the tracker   *)
(* goes with it, also when an Ack that took effect reported an error. What *)
(* is settled and what is stopped stays so.                                *)
EveryMessageLeaves ==
  \A m \in Msgs :
    []<>(/\ NativeDLQ \/ src[m] = "gone" \/ stopped
         /\ src[m] = "gone" => tracker[m] = 0)
=============================================================================
