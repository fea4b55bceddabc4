--------------------------- MODULE StreamConsumer ---------------------------
(***************************************************************************)
(* The push path of endpoint.Consumer over the in-memory broker            *)
(* (adapter/memory): Stream feeds the ingress goroutine through an         *)
(* unbuffered channel, ingest admits a delivery through the governors and  *)
(* the credit gate, workers process it, and a Nack with requeue sends the  *)
(* message back into the very broker the consumer reads from.              *)
(*                                                                         *)
(* A message carries no data: what matters is where it is. The rate        *)
(* limiter is a token bucket, or one that panics, or there is none; the    *)
(* breaker is a step that may take arbitrarily long, and module Breaker    *)
(* models it. A handler ends in Ack or in Nack.                            *)
(***************************************************************************)
EXTENDS EndpointConfig, TokenBucket, Sequences, FiniteSets

CONSTANTS
  Msgs,         \* the messages publishers send to the broker
  Workers,      \* the goroutines of the pool (WithConcurrency)
  MaxInFlight,  \* the credits of the gate (WithMaxInFlight)
  Setups,       \* what the broker and the consumer are given: a buffer (WithBuffer), an
                \* overflow policy, block or shed, and a rate limiter or none
  NoMsg         \* what an idle goroutine holds

ASSUME StreamAssumption ==
  /\ IsFiniteSet(Msgs)
  /\ IsFiniteSet(Workers)
  /\ MaxInFlight \in Nat \ {0}
  /\ \A c \in Setups : c.buffer \in Int /\ c.overflow \in {"block", "shed"}
  /\ NoMsg \notin Msgs

maxBufferCeiling == 2^20

WithBuffer(n) == IF n \in 0..maxBufferCeiling THEN "nil" ELSE "ErrInvalidCapacity"

(* memory.New: the first fault of its options fails every Send and Stream. *)
New(nilOption, n) == IF nilOption THEN "ErrNilFunc" ELSE WithBuffer(n)

(* The constructors refuse nothing. *)
Constructed(c) ==
  /\ New(FALSE, c.buffer) = "nil"
  /\ c.limiter.set => NewTokenBucket(c.limiter, FALSE) = "nil"
  /\ NewConsumer([kind |-> "stream", live |-> TRUE], TRUE, [maxAttempts |-> 0, sink |-> FALSE],
                 [Unset EXCEPT !.concurrency = {Cardinality(Workers)},
                               !.maxInFlight = {MaxInFlight}]) = "nil"

VARIABLES
  conf,      \* the buffer, the overflow policy and the limiter, which never change
  fate,      \* what became of each message
  ch,        \* the broker's channel
  ctxDone,   \* the context given to Run is cancelled
  run,       \* where the drain of Run is
  stream,    \* where Broker.Stream is (it runs on the goroutine of Run)
  cur,       \* the message Stream is passing on
  ingest,    \* where the ingress goroutine is
  item,      \* the delivery it is admitting
  earned,    \* what a refill of the bucket would come to now
  tokens,    \* credits taken from the gate
  wrapped,   \* messages whose once-only release has not fired
  workerCh,  \* wrapped messages buffered for the workers
  wpc,       \* where each worker is
  work       \* the message each worker holds

brokerVars == <<ch, stream, cur>>
ingestVars == <<ingest, item>>
gateVars   == <<tokens, wrapped>>
workerVars == <<wpc, work>>
vars == <<conf, fate, ctxDone, run, brokerVars, ingestVars, earned, gateVars, workerCh, workerVars>>

BufCap == conf.buffer
Shed == conf.overflow = "shed"

DrainCancelled  == run \in {"cut", "expired"}

SettleCancelled == run = "expired"

(* Run buffers the channel to the workers to the capacity of the gate. *)
WorkerChCap == MaxInFlight

-----------------------------------------------------------------------------
Init ==
  /\ conf \in {c \in Setups : Constructed(c)}
  /\ fate = [m \in Msgs |-> "unsent"]
  /\ ch = <<>>
  /\ ctxDone = FALSE
  /\ run = "serve"
  /\ stream = "recv"
  /\ cur = NoMsg
  /\ ingest = "read"
  /\ item = NoMsg
  /\ earned = IF conf.limiter.set THEN conf.limiter.burst * Interval(conf.limiter) ELSE 0
  /\ tokens = 0
  /\ wrapped = {}
  /\ workerCh = {}
  /\ wpc = [w \in Workers |-> "idle"]
  /\ work = [w \in Workers |-> NoMsg]

-----------------------------------------------------------------------------
(* The broker.                                                             *)

(* A Send completes: into the buffer, or, unbuffered, straight into the    *)
(* hands of a Stream that is waiting to receive.                           *)
BrokerSend(m) ==
  \/ /\ Len(ch) < BufCap
     /\ ch' = Append(ch, m)
     /\ UNCHANGED <<stream, cur>>
  \/ /\ BufCap = 0
     /\ stream = "recv"
     /\ stream' = "emit"
     /\ cur' = m
     /\ UNCHANGED ch

Publish(m) ==
  /\ fate[m] = "unsent"
  /\ BrokerSend(m)
  /\ fate' = [fate EXCEPT ![m] = "flow"]
  /\ UNCHANGED <<conf, earned, ctxDone, run, ingestVars, gateVars, workerCh, workerVars>>

Receive ==
  /\ stream = "recv"
  /\ ch # <<>>
  /\ cur' = Head(ch)
  /\ ch' = Tail(ch)
  /\ stream' = "emit"
  /\ UNCHANGED <<conf, earned, fate, ctxDone, run, ingestVars, gateVars, workerCh, workerVars>>

(* Stream passes the delivery to an ingress goroutine that is reading. *)
Emit ==
  /\ stream = "emit"
  /\ ingest = "read"
  /\ ingest' = IF conf.limiter.set THEN "limit" ELSE "pace"
  /\ item' = cur
  /\ stream' = "recv"
  /\ cur' = NoMsg
  /\ UNCHANGED <<conf, earned, fate, ch, ctxDone, run, gateVars, workerCh, workerVars>>

(* Stream returns when its context is done, letting go of a message it has *)
(* taken off the channel and not passed on. Run closes rawCh and drains.   *)
StreamReturns ==
  /\ stream \in {"recv", "emit"}
  /\ ctxDone
  /\ stream' = "done"
  /\ cur' = NoMsg
  /\ fate' = [m \in Msgs |-> IF m = cur THEN "lost" ELSE fate[m]]
  /\ run' = "drain"
  /\ UNCHANGED <<conf, earned, ch, ctxDone, ingestVars, gateVars, workerCh, workerVars>>

-----------------------------------------------------------------------------
(* The ingress goroutine.                                                  *)

(* The token bucket: a whole token lets the delivery pass, and without one *)
(* Wait sleeps until there should be one and looks again.                  *)
Wait ==
  /\ ingest = "limit"
  /\ ~conf.limiter.panics
  /\ IF earned >= Interval(conf.limiter)
     THEN ingest' = "pace" /\ earned' = earned - Interval(conf.limiter)
     ELSE ingest' = "asleep" /\ UNCHANGED earned
  /\ UNCHANGED <<conf, fate, ctxDone, run, brokerVars, item, gateVars, workerCh, workerVars>>

(* A limiter that panics lets everything pass. *)
safeLimiterWait ==
  /\ ingest = "limit"
  /\ conf.limiter.panics
  /\ ingest' = "pace"
  /\ UNCHANGED <<conf, earned, fate, ctxDone, run, brokerVars, item, gateVars, workerCh, workerVars>>

TimerFires ==
  /\ ingest = "asleep"
  /\ earned >= Interval(conf.limiter)
  /\ ingest' = "limit"
  /\ UNCHANGED <<conf, earned, fate, ctxDone, run, brokerVars, item, gateVars, workerCh, workerVars>>

(* The breaker is not open. *)
Paced ==
  /\ ingest = "pace"
  /\ ingest' = "gate"
  /\ UNCHANGED <<conf, earned, fate, ctxDone, run, brokerVars, item, gateVars, workerCh, workerVars>>

(* A credit was free: the delivery is wrapped around it. *)
Admit ==
  /\ ingest = "gate"
  /\ tokens < MaxInFlight
  /\ tokens' = tokens + 1
  /\ wrapped' = wrapped \cup {item}
  /\ ingest' = "hand"
  /\ UNCHANGED <<conf, earned, fate, ctxDone, run, brokerVars, item, workerCh, workerVars>>

(* Slip: a shed delivery is Nacked for requeue. *)
ShedRequeues ==
  /\ ingest = "gate"
  /\ Shed
  /\ tokens >= MaxInFlight
  /\ ingest' = "giveup"
  /\ UNCHANGED <<conf, earned, fate, ctxDone, run, brokerVars, item, gateVars, workerCh, workerVars>>

(* No credit is free and the policy sheds: Nack without requeue, which the *)
(* broker answers by forgetting the message.                               *)
ShedNewest ==
  /\ ingest = "gate"
  /\ Shed
  /\ tokens >= MaxInFlight
  /\ fate' = [fate EXCEPT ![item] = "shed"]
  /\ ingest' = "read"
  /\ item' = NoMsg
  /\ UNCHANGED <<conf, earned, ctxDone, run, brokerVars, gateVars, workerCh, workerVars>>

HandOff ==
  /\ ingest = "hand"
  /\ Cardinality(workerCh) < WorkerChCap
  /\ workerCh' = workerCh \cup {item}
  /\ ingest' = "read"
  /\ item' = NoMsg
  /\ UNCHANGED <<conf, earned, fate, ctxDone, run, brokerVars, gateVars, workerVars>>

(* The release of a managed delivery gives the credit back once. *)
Release(m) ==
  /\ tokens' = IF m \in wrapped THEN tokens - 1 ELSE tokens
  /\ wrapped' = wrapped \ {m}

(* Slip: the delivery is dropped instead of Nacked. *)
AdmitForgets ==
  /\ ctxDone
  /\ ingest \in {"asleep", "pace", "hand"} \/ (ingest = "gate" /\ ~Shed)
  /\ Release(item)
  /\ ingest' = "done"
  /\ item' = NoMsg
  /\ UNCHANGED <<conf, earned, fate, ctxDone, run, brokerVars, workerCh, workerVars>>

(* The context is done while admit waits (governors, a blocking acquire or *)
(* the hand-off): the delivery is Nacked for requeue. If it was wrapped,   *)
(* its credit goes back first.                                             *)
AdmitCancelled ==
  /\ ctxDone
  /\ ingest \in {"asleep", "pace", "hand"} \/ (ingest = "gate" /\ ~Shed)
  /\ Release(item)
  /\ ingest' = "giveup"
  /\ UNCHANGED <<conf, earned, fate, ctxDone, run, brokerVars, item, workerCh, workerVars>>

(* That Nack sends the message back to the broker, or is cut off by the    *)
(* end of the drain, and ingest returns: workerCh is closed.               *)
GiveUp ==
  /\ ingest = "giveup"
  /\ \/ BrokerSend(item) /\ UNCHANGED fate
     \/ /\ SettleCancelled
        /\ fate' = [fate EXCEPT ![item] = "lost"]
        /\ UNCHANGED brokerVars
  /\ ingest' = "done"
  /\ item' = NoMsg
  /\ UNCHANGED <<conf, earned, ctxDone, run, gateVars, workerCh, workerVars>>

(* ingest ends when it sees the context done or rawCh closed. *)
IngestReturns ==
  /\ ingest = "read"
  /\ ctxDone \/ stream = "done"
  /\ ingest' = "done"
  /\ UNCHANGED <<conf, earned, fate, ctxDone, run, brokerVars, item, gateVars, workerCh, workerVars>>

-----------------------------------------------------------------------------
(* The workers.                                                            *)

Take(w, m) ==
  /\ wpc[w] = "idle"
  /\ m \in workerCh
  /\ workerCh' = workerCh \ {m}
  /\ work' = [work EXCEPT ![w] = m]
  /\ \E s \in IF DrainCancelled THEN {"nack"} ELSE {"handle", "nack"} :
        wpc' = [wpc EXCEPT ![w] = s]
  /\ UNCHANGED <<conf, earned, fate, ctxDone, run, brokerVars, ingestVars, gateVars>>

Handled(w) ==
  /\ wpc[w] = "handle"
  /\ \E s \in {"ack", "nack"} : wpc' = [wpc EXCEPT ![w] = s]
  /\ UNCHANGED <<conf, earned, fate, ctxDone, run, brokerVars, ingestVars, gateVars, workerCh, work>>

(* The release that process deferred runs after the settle, and does       *)
(* nothing once the settle has released.                                   *)

(* The broker's Ack does nothing and cannot fail: only the credit moves. *)
Ack(w) ==
  /\ wpc[w] = "ack"
  /\ Release(work[w])
  /\ fate' = [fate EXCEPT ![work[w]] = "acked"]
  /\ wpc' = [wpc EXCEPT ![w] = "idle"]
  /\ work' = [work EXCEPT ![w] = NoMsg]
  /\ UNCHANGED <<conf, earned, ctxDone, run, brokerVars, ingestVars, workerCh>>

(* The wrapped Nack releases the credit before it re-enters the broker. *)
NackReleases(w) ==
  /\ wpc[w] = "nack"
  /\ Release(work[w])
  /\ wpc' = [wpc EXCEPT ![w] = "requeue"]
  /\ UNCHANGED <<conf, earned, fate, ctxDone, run, brokerVars, ingestVars, workerCh, work>>

Requeue(w) ==
  /\ wpc[w] = "requeue"
  /\ BrokerSend(work[w])
  /\ Release(work[w])
  /\ wpc' = [wpc EXCEPT ![w] = "idle"]
  /\ work' = [work EXCEPT ![w] = NoMsg]
  /\ UNCHANGED <<conf, earned, fate, ctxDone, run, ingestVars, workerCh>>

(* The settle context was cancelled before the broker took the message. *)
RequeueAborted(w) ==
  /\ wpc[w] = "requeue"
  /\ SettleCancelled
  /\ fate' = [fate EXCEPT ![work[w]] = "lost"]
  /\ Release(work[w])
  /\ wpc' = [wpc EXCEPT ![w] = "idle"]
  /\ work' = [work EXCEPT ![w] = NoMsg]
  /\ UNCHANGED <<conf, earned, ctxDone, run, brokerVars, ingestVars, workerCh>>

Exit(w) ==
  /\ wpc[w] = "idle"
  /\ ingest = "done"
  /\ workerCh = {}
  /\ wpc' = [wpc EXCEPT ![w] = "exited"]
  /\ UNCHANGED <<conf, earned, fate, ctxDone, run, brokerVars, ingestVars, gateVars, workerCh, work>>

-----------------------------------------------------------------------------
(* Run and its environment.                                                *)

Cancel ==
  /\ ~ctxDone
  /\ ctxDone' = TRUE
  /\ UNCHANGED <<conf, earned, fate, run, brokerVars, ingestVars, gateVars, workerCh, workerVars>>

(* The shutdown timeout expired: cancelDrain, then cancelSettle. *)
CutDrain ==
  /\ run = "drain"
  /\ run' = "cut"
  /\ UNCHANGED <<conf, earned, fate, ctxDone, brokerVars, ingestVars, gateVars, workerCh, workerVars>>

(* Slip: the expiry cancels the drain context and forgets the settle one.  *)
SettleNotCut ==
  /\ run = "cut"
  /\ UNCHANGED vars

CutSettle ==
  /\ run = "cut"
  /\ run' = "expired"
  /\ UNCHANGED <<conf, earned, fate, ctxDone, brokerVars, ingestVars, gateVars, workerCh, workerVars>>

(* The pool and the ingress goroutine have joined. *)
Return ==
  /\ run \in {"drain", "expired"}
  /\ \A w \in Workers : wpc[w] = "exited"
  /\ ingest = "done"
  /\ run' = "returned"
  /\ UNCHANGED <<conf, earned, fate, ctxDone, brokerVars, ingestVars, gateVars, workerCh, workerVars>>

(* The clock of the bucket. *)
Tick ==
  /\ conf.limiter.set /\ ~conf.limiter.panics
  /\ earned < conf.limiter.burst * Interval(conf.limiter)
  /\ earned' = refill(conf.limiter, earned, 1)
  /\ UNCHANGED <<conf, fate, ctxDone, run, brokerVars, ingestVars, gateVars, workerCh, workerVars>>

Finished == run = "returned" /\ UNCHANGED vars

(* The end of the input of a bounded instance: every message is settled.   *)
Idle == (\A m \in Msgs : fate[m] \in {"acked", "shed"}) /\ UNCHANGED vars

StreamStep == Receive \/ Emit \/ StreamReturns
IngestStep ==
  \/ Wait \/ safeLimiterWait \/ TimerFires \/ Paced
  \/ Admit \/ ShedNewest \/ HandOff \/ AdmitCancelled \/ GiveUp \/ IngestReturns
WorkerStep(w) ==
  \/ \E m \in Msgs : Take(w, m)
  \/ Handled(w) \/ Ack(w) \/ NackReleases(w) \/ Requeue(w) \/ RequeueAborted(w) \/ Exit(w)
RunStep == CutDrain \/ CutSettle \/ Return

Next ==
  \/ \E m \in Msgs : Publish(m)
  \/ StreamStep
  \/ IngestStep
  \/ \E w \in Workers : WorkerStep(w)
  \/ RunStep
  \/ Cancel
  \/ Tick
  \/ Finished
  \/ Idle

Spec == Init /\ [][Next]_vars

(* The goroutines run, time passes, the breaker closes in the end, and a   *)
(* select with a context arm takes it when it is ready time and again. A   *)
(* handler may block until the drain has cancelled its context.            *)
Fairness ==
  /\ WF_vars(RunStep)
  /\ WF_vars(Receive \/ Emit)
  /\ SF_vars(StreamReturns)
  /\ WF_vars(IngestStep) /\ WF_vars(Tick)
  /\ \A w \in Workers :
       /\ WF_vars(WorkerStep(w) /\ wpc[w] # "handle")
       /\ WF_vars(SettleCancelled /\ Handled(w))

FairSpec == Spec /\ Fairness

(* Handlers that return by themselves, and a channel that serves its       *)
(* waiting senders in order, so one that is ready time and again is served.*)
Healthy == \A w \in Workers : WF_vars(Handled(w)) /\ SF_vars(Requeue(w))

-----------------------------------------------------------------------------
(* Properties.                                                             *)

(* Every variable keeps its type. *)
TypeOK ==
  /\ conf \in {c \in Setups : Constructed(c)}
  /\ fate \in [Msgs -> {"unsent", "flow", "acked", "shed", "lost"}]
  /\ ch \in Seq(Msgs) /\ Len(ch) <= BufCap
  /\ ctxDone \in BOOLEAN
  /\ run \in {"serve", "drain", "cut", "expired", "returned"}
  /\ stream \in {"recv", "emit", "done"}
  /\ cur \in Msgs \cup {NoMsg}
  /\ ingest \in {"read", "limit", "asleep", "pace", "gate", "hand", "giveup", "done"}
  /\ item \in Msgs \cup {NoMsg}
  /\ earned \in Nat
  /\ tokens \in Nat
  /\ wrapped \in SUBSET Msgs
  /\ workerCh \in SUBSET Msgs
  /\ wpc \in [Workers -> {"idle", "handle", "ack", "nack", "requeue", "exited"}]
  /\ work \in [Workers -> Msgs \cup {NoMsg}]

(* The places where the consumer and the broker keep message m. *)
Places(m) ==
  {<<"ch", i>> : i \in {i \in DOMAIN ch : ch[i] = m}}
    \cup (IF cur = m THEN {<<"stream", 0>>} ELSE {})
    \cup (IF item = m THEN {<<"ingest", 0>>} ELSE {})
    \cup (IF m \in workerCh THEN {<<"workerCh", 0>>} ELSE {})
    \cup {<<"work", w>> : w \in {w \in Workers : work[w] = m}}

(* A message under way is in exactly one place, and one that is settled,   *)
(* dropped or not yet sent is nowhere: the requeue neither duplicates a    *)
(* message nor loses one on the way back. The at-most-once broker loses    *)
(* one only when the consumer is being shut down.                          *)
Conserved ==
  \A m \in Msgs :
    /\ Cardinality(Places(m)) = (IF fate[m] = "flow" THEN 1 ELSE 0)
    /\ fate[m] = "lost" => ctxDone

(* Once its context is cancelled Run returns, even if handlers block until *)
(* their context ends and the broker never takes another message.          *)
ShutdownCompletes == ctxDone ~> (run = "returned")

(* The backlog does not fill every place there is for a message: the       *)
(* workers, workerCh, ingest, Stream and the broker's buffer.              *)
Fits == Cardinality(Msgs) < Cardinality(Workers) + MaxInFlight + 2 + BufCap

(* Run, on the buffer of workerCh: it "keeps the source always drainable - *)
(* exactly what a requeue's synchronous re-injection needs to complete     *)
(* without a cycle". If handlers return, a worker that re-enqueues a       *)
(* message gets done, as long as the backlog fits: with a longer one,      *)
(* ingest waits for a credit, Stream for ingest and the workers for both.  *)
RequeueCompletes ==
  (Healthy /\ Fits) => \A w \in Workers : wpc[w] = "requeue" ~> wpc[w] # "requeue"
=============================================================================
