---------------------------- MODULE PollConsumer ----------------------------
(***************************************************************************)
(* The pull path of endpoint.Consumer: the poll loop that takes credits    *)
(* before it fetches, the credit gate, the channel to the workers, the     *)
(* release-first settlement of every delivery, and the bounded drain that  *)
(* Run performs when its context is cancelled.                             *)
(*                                                                         *)
(* A row of the polled source is its own delivery: a source that leases a  *)
(* row does not hand it out again before the consumer has let go of it.    *)
(* The settlement switch (which of Ack and Nack a handler outcome leads    *)
(* to) is the subject of module Settlement; here a handler ends in either. *)
(* The channel to the workers is a set: nothing stated here depends on the *)
(* order in which buffered rows are taken.                                 *)
(***************************************************************************)
EXTENDS Integers, FiniteSets

CONSTANTS
  Rows,           \* the rows of the polled source
  Workers,        \* the goroutines of the pool (WithConcurrency)
  MaxInFlight,    \* the credits of the gate (WithMaxInFlight)
  PollMaxBatch,   \* rows asked for by one poll (WithPollMaxBatch)
  MaxExcess,      \* rows a misbehaving source may return beyond the request
  NoRow           \* what an idle worker holds

ASSUME PollAssumption ==
  /\ IsFiniteSet(Rows)
  /\ IsFiniteSet(Workers) /\ Workers # {}
  /\ MaxInFlight \in Nat \ {0}
  /\ PollMaxBatch \in Nat \ {0}
  /\ MaxExcess \in Nat
  /\ NoRow \notin Rows

VARIABLES
  table,     \* what the source knows of each row
  ctxDone,   \* the context given to Run is cancelled
  run,       \* where the goroutine of Run is
  tokens,    \* credits taken from the gate
  loop,      \* where pollLoop is
  held,      \* credits pollLoop holds that no wrapped row carries yet
  batch,     \* fetched rows still to be handed to a worker
  excess,    \* fetched rows beyond the credits, still to be Nacked
  dropped,   \* the row the shutdown arm of the hand-off is Nacking, if any
  wrapped,   \* rows whose once-only release has not fired
  workerCh,  \* wrapped rows buffered for the workers
  wpc,       \* where each worker is
  work       \* the row each worker holds

gateVars   == <<tokens, wrapped>>
loopVars   == <<loop, held, batch, excess, dropped>>
workerVars == <<wpc, work>>
vars == <<table, ctxDone, run, gateVars, loopVars, workerCh, workerVars>>

-----------------------------------------------------------------------------
(* The contexts of Run: drainWorkers cancels the drain context and then    *)
(* the settle context when the shutdown timeout expires.                   *)

DrainCancelled  == run \in {"cut", "expired"}

SettleCancelled == run = "expired"

(* Slip: the buffer leaves no room for the row being handed over. *)
WorkerChOneShort == MaxInFlight - 1

(* Run buffers the channel to the workers to the capacity of the gate. *)
WorkerChCap == MaxInFlight

(* What a settle leaves in the source. A settle that fails (an error, a    *)
(* panic or a cancelled context) leaves the row claimed, marked "failed".  *)
AckOutcome  == {"gone", "failed"}
NackOutcome == {"ready", "failed"}

Ready == {r \in Rows : table[r] = "ready"}

(* Rows some part of the consumer still has to settle. *)
InHand == batch \cup excess \cup workerCh \cup ({dropped} \ {NoRow})
            \cup ({work[w] : w \in Workers} \ {NoRow})

-----------------------------------------------------------------------------
Init ==
  /\ table = [r \in Rows |-> "ready"]
  /\ ctxDone = FALSE
  /\ run = "serve"
  /\ tokens = 0
  /\ loop = "acquire"
  /\ held = 0
  /\ batch = {}
  /\ excess = {}
  /\ dropped = NoRow
  /\ wrapped = {}
  /\ workerCh = {}
  /\ wpc = [w \in Workers |-> "idle"]
  /\ work = [w \in Workers |-> NoRow]

-----------------------------------------------------------------------------
(* The poll loop.                                                          *)

(* gate.acquire took a credit. *)
Acquire ==
  /\ loop = "acquire"
  /\ tokens < MaxInFlight
  /\ tokens' = tokens + 1
  /\ held' = 1
  /\ loop' = "topup"
  /\ UNCHANGED <<table, ctxDone, run, batch, excess, dropped, wrapped,
                 workerCh, workerVars>>

(* One more credit without waiting, while the batch has room for it. *)
TopUp ==
  /\ loop = "topup"
  /\ held < PollMaxBatch
  /\ tokens < MaxInFlight
  /\ tokens' = tokens + 1
  /\ held' = held + 1
  /\ UNCHANGED <<table, ctxDone, run, loop, batch, excess, dropped, wrapped,
                 workerCh, workerVars>>

ToppedUp ==
  /\ loop = "topup"
  /\ held >= PollMaxBatch \/ tokens >= MaxInFlight
  /\ loop' = "poll"
  /\ UNCHANGED <<table, ctxDone, run, held, batch, excess, dropped, gateVars,
                 workerCh, workerVars>>

(* Poll failed or panicked: all held credits go back, then a backoff. *)
PollFailed ==
  /\ loop = "poll"
  /\ tokens' = tokens - held
  /\ held' = 0
  /\ loop' = "sleep"
  /\ UNCHANGED <<table, ctxDone, run, batch, excess, dropped, wrapped,
                 workerCh, workerVars>>

(* Slip: a short batch does not give the surplus credits back. *)
PolledKeepsSurplus(keep, over) ==
  /\ loop = "poll"
  /\ Cardinality(keep) <= held
  /\ over # {} => Cardinality(keep) = held
  /\ table' = [r \in Rows |-> IF r \in keep \cup over THEN "claimed" ELSE table[r]]
  /\ batch' = keep
  /\ excess' = over
  /\ held' = Cardinality(keep)
  /\ loop' = IF over # {} THEN "clamp" ELSE IF keep # {} THEN "hand" ELSE "sleep"
  /\ UNCHANGED <<ctxDone, run, tokens, dropped, wrapped, workerCh, workerVars>>

(* Poll returned the rows of keep and over. Only a full batch can have an  *)
(* excess, which clampExcess Nacks; the surplus credits go back at once.   *)
Polled(keep, over) ==
  /\ loop = "poll"
  /\ Cardinality(keep) <= held
  /\ over # {} => Cardinality(keep) = held
  /\ table' = [r \in Rows |-> IF r \in keep \cup over THEN "claimed" ELSE table[r]]
  /\ batch' = keep
  /\ excess' = over
  /\ tokens' = tokens - (held - Cardinality(keep))
  /\ held' = Cardinality(keep)
  /\ loop' = IF over # {} THEN "clamp" ELSE IF keep # {} THEN "hand" ELSE "sleep"
  /\ UNCHANGED <<ctxDone, run, dropped, wrapped, workerCh, workerVars>>

(* Slip: the excess is cut from the batch and not Nacked. *)
ClampOnlyCuts(r) ==
  /\ loop = "clamp"
  /\ r \in excess
  /\ excess' = excess \ {r}
  /\ loop' = IF excess = {r} THEN "hand" ELSE "clamp"
  /\ UNCHANGED <<table, ctxDone, run, held, batch, dropped, gateVars, workerCh, workerVars>>

(* clampExcess: an excess row is Nacked unwrapped, it holds no credit. *)
ClampExcess(r) ==
  /\ loop = "clamp"
  /\ r \in excess
  /\ \E s \in NackOutcome : table' = [table EXCEPT ![r] = s]
  /\ excess' = excess \ {r}
  /\ loop' = IF excess = {r} THEN "hand" ELSE "clamp"
  /\ UNCHANGED <<ctxDone, run, held, batch, dropped, gateVars, workerCh, workerVars>>

(* A row is wrapped around one held credit and sent to the workers. *)
HandOff(r) ==
  /\ loop = "hand"
  /\ r \in batch
  /\ Cardinality(workerCh) < WorkerChCap
  /\ wrapped' = wrapped \cup {r}
  /\ held' = held - 1
  /\ workerCh' = workerCh \cup {r}
  /\ batch' = batch \ {r}
  /\ loop' = IF batch = {r} THEN "acquire" ELSE "hand"
  /\ UNCHANGED <<table, ctxDone, run, tokens, excess, dropped, workerVars>>

(* The shutdown arm of the hand-off: the wrapped Nack gives the credit of  *)
(* this row back before it reaches the source.                             *)
HandOffCancelled(r) ==
  /\ loop = "hand"
  /\ ctxDone
  /\ r \in batch
  /\ tokens' = tokens - 1
  /\ held' = held - 1
  /\ dropped' = r
  /\ batch' = batch \ {r}
  /\ loop' = "giveup"
  /\ UNCHANGED <<table, ctxDone, run, excess, wrapped, workerCh, workerVars>>

(* ... and when that Nack has returned, the credits of the rows behind it  *)
(* go back and the loop ends. Those rows themselves are not settled.       *)
GiveUp ==
  /\ loop = "giveup"
  /\ \E s \in NackOutcome : table' = [table EXCEPT ![dropped] = s]
  /\ tokens' = tokens - held
  /\ held' = 0
  /\ dropped' = NoRow
  /\ batch' = {}
  /\ loop' = "done"
  /\ UNCHANGED <<ctxDone, run, excess, wrapped, workerCh, workerVars>>

(* sleepCtx after an empty or a failed poll ran to its end. *)
Awake ==
  /\ loop = "sleep"
  /\ loop' = "acquire"
  /\ UNCHANGED <<table, ctxDone, run, held, batch, excess, dropped, gateVars,
                 workerCh, workerVars>>

(* acquire and sleepCtx return at once when the context is done. *)
LoopCancelled ==
  /\ loop \in {"acquire", "sleep"}
  /\ ctxDone
  /\ loop' = "done"
  /\ UNCHANGED <<table, ctxDone, run, held, batch, excess, dropped, gateVars,
                 workerCh, workerVars>>

-----------------------------------------------------------------------------
(* The workers.                                                            *)

(* The release of a managed delivery is a once-only function: it gives the *)
(* credit back the first time and does nothing afterwards.                 *)
Release(r) ==
  /\ tokens' = IF r \in wrapped THEN tokens - 1 ELSE tokens
  /\ wrapped' = wrapped \ {r}

(* process: after the shutdown deadline a buffered row is Nacked without   *)
(* being dispatched; before it an open breaker may refuse the dispatch.    *)
Take(w, r) ==
  /\ wpc[w] = "idle"
  /\ r \in workerCh
  /\ workerCh' = workerCh \ {r}
  /\ work' = [work EXCEPT ![w] = r]
  /\ \E s \in IF DrainCancelled THEN {"nack"} ELSE {"handle", "nack"} :
        wpc' = [wpc EXCEPT ![w] = s]
  /\ UNCHANGED <<table, ctxDone, run, gateVars, loopVars>>

(* The handler returned and the settlement switch chose Ack or Nack. *)
Handled(w) ==
  /\ wpc[w] = "handle"
  /\ \E s \in {"ack", "nack"} : wpc' = [wpc EXCEPT ![w] = s]
  /\ UNCHANGED <<table, ctxDone, run, gateVars, loopVars, workerCh, work>>

(* manage: the wrapped Ack or Nack releases the credit first ... *)
ReleaseFirst(w) ==
  /\ wpc[w] \in {"ack", "nack"}
  /\ Release(work[w])
  /\ wpc' = [wpc EXCEPT ![w] = IF wpc[w] = "ack" THEN "acking" ELSE "nacking"]
  /\ UNCHANGED <<table, ctxDone, run, loopVars, workerCh, work>>

(* ... and only then settles with the source. The release that process     *)
(* deferred runs last.                                                     *)
Settle(w) ==
  /\ wpc[w] \in {"acking", "nacking"}
  /\ \E s \in IF wpc[w] = "acking" THEN AckOutcome ELSE NackOutcome :
        table' = [table EXCEPT ![work[w]] = s]
  /\ Release(work[w])
  /\ wpc' = [wpc EXCEPT ![w] = "idle"]
  /\ work' = [work EXCEPT ![w] = NoRow]
  /\ UNCHANGED <<ctxDone, run, loopVars, workerCh>>

(* The range over workerCh ends once it is closed and empty. *)
Exit(w) ==
  /\ wpc[w] = "idle"
  /\ loop = "done"
  /\ workerCh = {}
  /\ wpc' = [wpc EXCEPT ![w] = "exited"]
  /\ UNCHANGED <<table, ctxDone, run, gateVars, loopVars, workerCh, work>>

-----------------------------------------------------------------------------
(* Run and its environment.                                                *)

Cancel ==
  /\ ~ctxDone
  /\ ctxDone' = TRUE
  /\ UNCHANGED <<table, run, gateVars, loopVars, workerCh, workerVars>>

(* Run wakes from <-ctx.Done() and starts to wait for the pool. *)
Drain ==
  /\ run = "serve"
  /\ ctxDone
  /\ run' = "drain"
  /\ UNCHANGED <<table, ctxDone, gateVars, loopVars, workerCh, workerVars>>

(* The shutdown timeout expired: cancelDrain, then cancelSettle. *)
CutDrain ==
  /\ run = "drain"
  /\ run' = "cut"
  /\ UNCHANGED <<table, ctxDone, gateVars, loopVars, workerCh, workerVars>>

(* Slip: the expiry cancels the drain context and forgets the settle one.  *)
SettleNotCut ==
  /\ run = "cut"
  /\ UNCHANGED vars

CutSettle ==
  /\ run = "cut"
  /\ run' = "expired"
  /\ UNCHANGED <<table, ctxDone, gateVars, loopVars, workerCh, workerVars>>

(* The pool has joined, and so has the poll loop: Run returns. *)
Return ==
  /\ run \in {"drain", "expired"}
  /\ \A w \in Workers : wpc[w] = "exited"
  /\ loop = "done"
  /\ run' = "returned"
  /\ UNCHANGED <<table, ctxDone, gateVars, loopVars, workerCh, workerVars>>

(* The source takes a claimed row back once its lease has lapsed and       *)
(* nobody holds it any more.                                               *)
Lapse(r) ==
  /\ table[r] = "failed" \/ (table[r] = "claimed" /\ r \notin InHand)
  /\ table' = [table EXCEPT ![r] = "ready"]
  /\ UNCHANGED <<ctxDone, run, gateVars, loopVars, workerCh, workerVars>>

Finished == run = "returned" /\ UNCHANGED vars

LoopStep ==
  \/ Acquire \/ TopUp \/ ToppedUp \/ PollFailed
  \/ \E keep \in SUBSET Ready : \E over \in SUBSET (Ready \ keep) :
        Cardinality(over) <= MaxExcess /\ Polled(keep, over)
  \/ \E r \in Rows : ClampExcess(r) \/ HandOff(r) \/ HandOffCancelled(r)
  \/ GiveUp \/ Awake \/ LoopCancelled

WorkerStep(w) ==
  \/ \E r \in Rows : Take(w, r)
  \/ Handled(w) \/ ReleaseFirst(w) \/ Settle(w) \/ Exit(w)

RunStep == Drain \/ CutDrain \/ CutSettle \/ Return

Next ==
  \/ LoopStep
  \/ \E w \in Workers : WorkerStep(w)
  \/ RunStep
  \/ Cancel
  \/ \E r \in Rows : Lapse(r)
  \/ Finished

Spec == Init /\ [][Next]_vars

(* What the Go scheduler and the contexts guarantee. A handler or a call   *)
(* to the source may block for as long as its context lives: only after    *)
(* the drain cancelled both contexts must it return. Poll honours the      *)
(* context of Run. A select with several ready arms picks one at random,   *)
(* so an arm that is ready time and again is taken: strong fairness for    *)
(* the arms that watch the context.                                        *)
Fairness ==
  /\ WF_vars(RunStep)
  /\ WF_vars(Acquire \/ TopUp \/ ToppedUp \/ \E r \in Rows : HandOff(r))
  /\ WF_vars(ctxDone /\ PollFailed)
  /\ SF_vars(LoopCancelled)
  /\ WF_vars(SettleCancelled /\ (GiveUp \/ \E r \in Rows : ClampExcess(r)))
  /\ \A w \in Workers :
       /\ WF_vars(Exit(w) \/ ReleaseFirst(w) \/ \E r \in Rows : Take(w, r))
       /\ WF_vars(SettleCancelled /\ (Handled(w) \/ Settle(w)))

FairSpec == Spec /\ Fairness

-----------------------------------------------------------------------------
(* Properties.                                                             *)

(* Every variable keeps its type. *)
TypeOK ==
  /\ table \in [Rows -> {"ready", "claimed", "failed", "gone"}]
  /\ ctxDone \in BOOLEAN
  /\ run \in {"serve", "drain", "cut", "expired", "returned"}
  /\ tokens \in Nat
  /\ loop \in {"acquire", "topup", "poll", "clamp", "hand", "giveup", "sleep", "done"}
  /\ held \in Nat
  /\ batch \in SUBSET Rows
  /\ excess \in SUBSET Rows
  /\ dropped \in Rows \cup {NoRow}
  /\ wrapped \in SUBSET Rows
  /\ workerCh \in SUBSET Rows
  /\ wpc \in [Workers -> {"idle", "handle", "ack", "nack", "acking", "nacking", "exited"}]
  /\ work \in [Workers -> Rows \cup {NoRow}]

(* Every credit taken from the gate is either held by the poll loop or     *)
(* rides with exactly one row whose release has not fired, and the gate    *)
(* never gives out more than it has. Releasing one credit too many would   *)
(* block the loop on an empty gate before it closes workerCh.              *)
CreditsAccounted ==
  /\ tokens = held + Cardinality(wrapped)
  /\ tokens <= MaxInFlight

(* workerCh has room whenever the loop hands a row over: the hand-off      *)
(* never waits for a worker, only gate.acquire makes the loop wait.        *)
HandOffNeverBlocks ==
  loop = "hand" => Cardinality(workerCh) < WorkerChCap

(* A row the source has handed out has one owner: no two workers, and no   *)
(* worker and buffer, can settle the same delivery.                        *)
SingleOwner ==
  /\ \A v, w \in Workers : v # w /\ work[v] # NoRow => work[v] # work[w]
  /\ \A w \in Workers : work[w] # NoRow =>
        work[w] \notin batch \cup excess \cup workerCh \cup {dropped}
  /\ batch \cap workerCh = {}
  /\ excess \cap (batch \cup workerCh) = {}
  /\ dropped \notin workerCh

(* Until shutdown every claimed row is on its way to a settle: the loop    *)
(* and the workers never lose track of one.                                *)
NothingForgotten ==
  ~ctxDone => \A r \in Rows : table[r] = "claimed" => r \in InHand

(* When Run returns, every credit is back and no row is left in a buffer   *)
(* or with a worker.                                                       *)
CleanReturn ==
  run = "returned" => tokens = 0 /\ InHand = {}

(* Once its context is cancelled, which is for good, Run returns, whatever *)
(* blocks.                                                                 *)
ShutdownCompletes == []<>(ctxDone => run = "returned")
=============================================================================
