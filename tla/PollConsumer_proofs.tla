------------------------ MODULE PollConsumer_proofs ------------------------
(***************************************************************************)
(* The safety invariants of PollConsumer hold for every number of rows,    *)
(* workers and credits, every batch size and every misbehaviour of the     *)
(* source that MaxExcess bounds.                                           *)
(*                                                                         *)
(* Credits alone are not inductive: a release takes one credit off only if *)
(* the row is still wrapped, a hand-off adds one only if it is not, and a  *)
(* poll hands out rows that must not be wrapped already. So the count of   *)
(* credits rests on who owns which row (Owned), and that on where the loop *)
(* is (LoopInv).                                                           *)
(***************************************************************************)
EXTENDS PollConsumer, FiniteSetTheorems, TLAPS

(* What pollLoop holds at each of its points. *)
LoopInv ==
  /\ loop \in {"topup", "poll"} => held >= 1 /\ batch = {} /\ excess = {}
  /\ loop \in {"clamp", "hand"} => held = Cardinality(batch) /\ batch # {}
  /\ loop = "hand" => excess = {}
  /\ loop = "giveup" => held = Cardinality(batch) /\ excess = {}
  /\ loop \in {"acquire", "sleep", "done"} => held = 0 /\ batch = {} /\ excess = {}
  /\ dropped # NoRow <=> loop = "giveup"

(* Every row in the consumer's hands is claimed and has one owner; the     *)
(* wrapped rows are the buffered ones and some of those workers hold.      *)
Owned ==
  /\ \A r \in batch \cup excess \cup workerCh : table[r] = "claimed"
  /\ dropped # NoRow => table[dropped] = "claimed"
  /\ \A w \in Workers : work[w] # NoRow => table[work[w]] = "claimed"
  /\ SingleOwner
  /\ dropped \notin batch \cup excess
  /\ workerCh \subseteq wrapped
  /\ \A r \in wrapped : r \in workerCh \/ \E w \in Workers : work[w] = r

(* A worker holds a row exactly while it processes one, and has exited     *)
(* only when the loop has ended and the channel is empty.                  *)
WorkerInv ==
  /\ \A w \in Workers : work[w] = NoRow <=> wpc[w] \in {"idle", "exited"}
  /\ \A w \in Workers : wpc[w] = "exited" => loop = "done" /\ workerCh = {}
  /\ run = "returned" => loop = "done" /\ \A w \in Workers : wpc[w] = "exited"

IndInv == TypeOK /\ CreditsAccounted /\ LoopInv /\ Owned /\ WorkerInv

-----------------------------------------------------------------------------
(* Facts about sets of rows: they are finite, and one row more or less     *)
(* changes their size by one.                                              *)
LEMMA RowSets ==
  \A S \in SUBSET Rows :
    /\ Cardinality(S) \in Nat
    /\ Cardinality(S) = 0 <=> S = {}
    /\ \A r : Cardinality(S \ {r}) =
         IF r \in S THEN Cardinality(S) - 1 ELSE Cardinality(S)
    /\ \A r : Cardinality(S \cup {r}) =
         IF r \in S THEN Cardinality(S) ELSE Cardinality(S) + 1
<1> TAKE S \in SUBSET Rows
<1>1. IsFiniteSet(S)
  BY PollAssumption, FS_Subset DEF PollAssumption
<1> QED
  BY Zenon, <1>1, FS_CardinalityType, FS_EmptySet, FS_AddElement, FS_RemoveElement

(* The initial state satisfies the inductive invariant. *)
LEMMA IndInit == Init => IndInv
<1> SUFFICES ASSUME Init PROVE IndInv
  OBVIOUS
<1>1. TypeOK
  BY Zenon DEF Init, TypeOK
<1>2. CreditsAccounted
  BY PollAssumption, FS_EmptySet DEF Init, CreditsAccounted, PollAssumption
<1>3. LoopInv /\ Owned /\ WorkerInv
  BY PollAssumption DEF Init, LoopInv, Owned, SingleOwner, WorkerInv, PollAssumption
<1> QED
  BY <1>1, <1>2, <1>3 DEF IndInv

(* acquire takes a credit that was free. *)
LEMMA AcquireStep ==
  ASSUME IndInv, Acquire
  PROVE  IndInv'
<1> USE DEF Acquire, gateVars, loopVars, workerVars
<1>0. TypeOK /\ CreditsAccounted /\ LoopInv /\ Owned /\ WorkerInv
  BY DEF IndInv
<1>1. TypeOK'
  BY <1>0, RowSets, PollAssumption DEF TypeOK, CreditsAccounted, LoopInv, PollAssumption
<1>2. CreditsAccounted'
  BY <1>0, RowSets, PollAssumption DEF TypeOK, CreditsAccounted, LoopInv, Owned, PollAssumption
<1>3. LoopInv'
  BY <1>0, RowSets, PollAssumption DEF TypeOK, LoopInv, PollAssumption
<1>4. Owned'
  BY <1>0, PollAssumption DEF TypeOK, LoopInv, Owned, SingleOwner, WorkerInv, PollAssumption
<1>5. WorkerInv'
  BY <1>0, PollAssumption DEF TypeOK, LoopInv, WorkerInv, PollAssumption
<1> QED
  BY <1>1, <1>2, <1>3, <1>4, <1>5 DEF IndInv

(* Topping up takes only free credits. *)
LEMMA TopUpStep ==
  ASSUME IndInv, TopUp
  PROVE  IndInv'
<1> USE DEF TopUp, gateVars, loopVars, workerVars
<1>0. TypeOK /\ CreditsAccounted /\ LoopInv /\ Owned /\ WorkerInv
  BY DEF IndInv
<1>1. TypeOK'
  BY <1>0, RowSets, PollAssumption DEF TypeOK, CreditsAccounted, LoopInv, PollAssumption
<1>2. CreditsAccounted'
  BY <1>0, RowSets, PollAssumption DEF TypeOK, CreditsAccounted, LoopInv, Owned, PollAssumption
<1>3. LoopInv'
  BY <1>0, RowSets, PollAssumption DEF TypeOK, LoopInv, PollAssumption
<1>4. Owned'
  BY <1>0, PollAssumption DEF TypeOK, LoopInv, Owned, SingleOwner, WorkerInv, PollAssumption
<1>5. WorkerInv'
  BY <1>0, PollAssumption DEF TypeOK, LoopInv, WorkerInv, PollAssumption
<1> QED
  BY <1>1, <1>2, <1>3, <1>4, <1>5 DEF IndInv

(* The loop goes to poll with at least one credit. *)
LEMMA ToppedUpStep ==
  ASSUME IndInv, ToppedUp
  PROVE  IndInv'
<1> USE DEF ToppedUp, gateVars, loopVars, workerVars
<1>0. TypeOK /\ CreditsAccounted /\ LoopInv /\ Owned /\ WorkerInv
  BY DEF IndInv
<1>1. TypeOK'
  BY <1>0, RowSets, PollAssumption DEF TypeOK, CreditsAccounted, LoopInv, PollAssumption
<1>2. CreditsAccounted'
  BY <1>0, RowSets, PollAssumption DEF TypeOK, CreditsAccounted, LoopInv, Owned, PollAssumption
<1>3. LoopInv'
  BY <1>0, RowSets, PollAssumption DEF TypeOK, LoopInv, PollAssumption
<1>4. Owned'
  BY <1>0, PollAssumption DEF TypeOK, LoopInv, Owned, SingleOwner, WorkerInv, PollAssumption
<1>5. WorkerInv'
  BY <1>0, PollAssumption DEF TypeOK, LoopInv, WorkerInv, PollAssumption
<1> QED
  BY <1>1, <1>2, <1>3, <1>4, <1>5 DEF IndInv

(* A failed poll gives back what it held. *)
LEMMA PollFailedStep ==
  ASSUME IndInv, PollFailed
  PROVE  IndInv'
<1> USE DEF PollFailed, gateVars, loopVars, workerVars
<1>0. TypeOK /\ CreditsAccounted /\ LoopInv /\ Owned /\ WorkerInv
  BY DEF IndInv
<1>1. TypeOK'
  BY <1>0, RowSets, PollAssumption DEF TypeOK, CreditsAccounted, LoopInv, PollAssumption
<1>2. CreditsAccounted'
  BY <1>0, RowSets, PollAssumption DEF TypeOK, CreditsAccounted, LoopInv, Owned, PollAssumption
<1>3. LoopInv'
  BY <1>0, RowSets, PollAssumption DEF TypeOK, LoopInv, PollAssumption
<1>4. Owned'
  BY <1>0, PollAssumption DEF TypeOK, LoopInv, Owned, SingleOwner, WorkerInv, PollAssumption
<1>5. WorkerInv'
  BY <1>0, PollAssumption DEF TypeOK, LoopInv, WorkerInv, PollAssumption
<1> QED
  BY <1>1, <1>2, <1>3, <1>4, <1>5 DEF IndInv

(* A poll keeps one credit per row it will hand over, and its rows are new. *)
LEMMA PolledStep ==
  ASSUME IndInv, NEW keep \in SUBSET Ready, NEW over \in SUBSET (Ready \ keep), Polled(keep, over)
  PROVE  IndInv'
<1> USE DEF Polled, Ready, gateVars, loopVars, workerVars
<1>0. TypeOK /\ CreditsAccounted /\ LoopInv /\ Owned /\ WorkerInv
  BY DEF IndInv
<1>1. TypeOK'
  BY <1>0, RowSets, PollAssumption DEF TypeOK, CreditsAccounted, LoopInv, PollAssumption
<1>2. CreditsAccounted'
  BY <1>0, RowSets, PollAssumption DEF TypeOK, CreditsAccounted, LoopInv, Owned, PollAssumption
<1>3. LoopInv'
  BY <1>0, RowSets, PollAssumption DEF TypeOK, LoopInv, PollAssumption
<1>4. Owned'
  BY <1>0, PollAssumption DEF TypeOK, LoopInv, Owned, SingleOwner, WorkerInv, PollAssumption
<1>5. WorkerInv'
  BY <1>0, PollAssumption DEF TypeOK, LoopInv, WorkerInv, PollAssumption
<1> QED
  BY <1>1, <1>2, <1>3, <1>4, <1>5 DEF IndInv

(* A clamped row had no other owner. *)
LEMMA ClampExcessStep ==
  ASSUME IndInv, NEW r \in Rows, ClampExcess(r)
  PROVE  IndInv'
<1> USE DEF ClampExcess, NackOutcome, gateVars, loopVars, workerVars
<1>0. TypeOK /\ CreditsAccounted /\ LoopInv /\ Owned /\ WorkerInv
  BY DEF IndInv
<1>1. TypeOK'
  BY <1>0, RowSets, PollAssumption DEF TypeOK, CreditsAccounted, LoopInv, PollAssumption
<1>2. CreditsAccounted'
  BY <1>0, RowSets, PollAssumption DEF TypeOK, CreditsAccounted, LoopInv, Owned, PollAssumption
<1>3. LoopInv'
  BY <1>0, RowSets, PollAssumption DEF TypeOK, LoopInv, PollAssumption
<1>4. Owned'
  BY <1>0, PollAssumption DEF TypeOK, LoopInv, Owned, SingleOwner, WorkerInv, PollAssumption
<1>5. WorkerInv'
  BY <1>0, PollAssumption DEF TypeOK, LoopInv, WorkerInv, PollAssumption
<1> QED
  BY <1>1, <1>2, <1>3, <1>4, <1>5 DEF IndInv

(* The credit of a row handed over moves from the loop to the row. *)
LEMMA HandOffStep ==
  ASSUME IndInv, NEW r \in Rows, HandOff(r)
  PROVE  IndInv'
<1> USE DEF HandOff, gateVars, loopVars, workerVars
<1>0. TypeOK /\ CreditsAccounted /\ LoopInv /\ Owned /\ WorkerInv
  BY DEF IndInv
<1>a. r \notin wrapped
  BY <1>0, PollAssumption DEF TypeOK, Owned, SingleOwner, PollAssumption
<1>b. /\ Cardinality(wrapped') = Cardinality(wrapped) + 1
      /\ Cardinality(batch') = Cardinality(batch) - 1
      /\ batch' = {} <=> batch = {r}
  <2>1. wrapped \in SUBSET Rows /\ batch \in SUBSET Rows
    BY <1>0 DEF TypeOK
  <2>2. Cardinality(wrapped') = Cardinality(wrapped) + 1
    BY <1>a, <2>1, RowSets
  <2>3. Cardinality(batch') = Cardinality(batch) - 1
    BY <2>1, RowSets
  <2> QED
    BY <2>2, <2>3
<1>1. TypeOK'
  BY <1>0, RowSets, <1>a, <1>b, PollAssumption DEF TypeOK, CreditsAccounted, LoopInv, PollAssumption
<1>2. CreditsAccounted'
  BY <1>0, RowSets, <1>a, <1>b, PollAssumption DEF TypeOK, CreditsAccounted, LoopInv, Owned, PollAssumption
<1>3. LoopInv'
  BY Zenon, <1>0, RowSets, <1>a, <1>b, PollAssumption DEF TypeOK, LoopInv, PollAssumption
<1>4. Owned'
  BY <1>0, PollAssumption DEF TypeOK, LoopInv, Owned, SingleOwner, WorkerInv, PollAssumption
<1>5. WorkerInv'
  BY <1>0, PollAssumption DEF TypeOK, LoopInv, WorkerInv, PollAssumption
<1> QED
  BY <1>1, <1>2, <1>3, <1>4, <1>5 DEF IndInv

(* The shutdown arm gives back one held credit. *)
LEMMA HandOffCancelledStep ==
  ASSUME IndInv, NEW r \in Rows, HandOffCancelled(r)
  PROVE  IndInv'
<1> USE DEF HandOffCancelled, gateVars, loopVars, workerVars
<1>0. TypeOK /\ CreditsAccounted /\ LoopInv /\ Owned /\ WorkerInv
  BY DEF IndInv
<1>1. TypeOK'
  BY <1>0, RowSets, PollAssumption DEF TypeOK, CreditsAccounted, LoopInv, PollAssumption
<1>2. CreditsAccounted'
  BY <1>0, RowSets, PollAssumption DEF TypeOK, CreditsAccounted, LoopInv, Owned, PollAssumption
<1>3. LoopInv'
  BY <1>0, RowSets, PollAssumption DEF TypeOK, LoopInv, PollAssumption
<1>4. Owned'
  BY <1>0, PollAssumption DEF TypeOK, LoopInv, Owned, SingleOwner, WorkerInv, PollAssumption
<1>5. WorkerInv'
  BY <1>0, PollAssumption DEF TypeOK, LoopInv, WorkerInv, PollAssumption
<1> QED
  BY <1>1, <1>2, <1>3, <1>4, <1>5 DEF IndInv

(* The loop ends without a credit. *)
LEMMA GiveUpStep ==
  ASSUME IndInv, GiveUp
  PROVE  IndInv'
<1> USE DEF GiveUp, NackOutcome, gateVars, loopVars, workerVars
<1>0. TypeOK /\ CreditsAccounted /\ LoopInv /\ Owned /\ WorkerInv
  BY DEF IndInv
<1>1. TypeOK'
  BY <1>0, RowSets, PollAssumption DEF TypeOK, CreditsAccounted, LoopInv, PollAssumption
<1>2. CreditsAccounted'
  BY <1>0, RowSets, PollAssumption DEF TypeOK, CreditsAccounted, LoopInv, Owned, PollAssumption
<1>3. LoopInv'
  BY <1>0, RowSets, PollAssumption DEF TypeOK, LoopInv, PollAssumption
<1>4. Owned'
  BY <1>0, PollAssumption DEF TypeOK, LoopInv, Owned, SingleOwner, WorkerInv, PollAssumption
<1>5. WorkerInv'
  BY <1>0, PollAssumption DEF TypeOK, LoopInv, WorkerInv, PollAssumption
<1> QED
  BY <1>1, <1>2, <1>3, <1>4, <1>5 DEF IndInv

(* Waking changes nothing but the place in the loop. *)
LEMMA AwakeStep ==
  ASSUME IndInv, Awake
  PROVE  IndInv'
<1> USE DEF Awake, gateVars, loopVars, workerVars
<1>0. TypeOK /\ CreditsAccounted /\ LoopInv /\ Owned /\ WorkerInv
  BY DEF IndInv
<1>1. TypeOK'
  BY <1>0, RowSets, PollAssumption DEF TypeOK, CreditsAccounted, LoopInv, PollAssumption
<1>2. CreditsAccounted'
  BY <1>0, RowSets, PollAssumption DEF TypeOK, CreditsAccounted, LoopInv, Owned, PollAssumption
<1>3. LoopInv'
  BY <1>0, RowSets, PollAssumption DEF TypeOK, LoopInv, PollAssumption
<1>4. Owned'
  BY <1>0, PollAssumption DEF TypeOK, LoopInv, Owned, SingleOwner, WorkerInv, PollAssumption
<1>5. WorkerInv'
  BY <1>0, PollAssumption DEF TypeOK, LoopInv, WorkerInv, PollAssumption
<1> QED
  BY <1>1, <1>2, <1>3, <1>4, <1>5 DEF IndInv

(* A cancelled loop holds no credit. *)
LEMMA LoopCancelledStep ==
  ASSUME IndInv, LoopCancelled
  PROVE  IndInv'
<1> USE DEF LoopCancelled, gateVars, loopVars, workerVars
<1>0. TypeOK /\ CreditsAccounted /\ LoopInv /\ Owned /\ WorkerInv
  BY DEF IndInv
<1>1. TypeOK'
  BY <1>0, RowSets, PollAssumption DEF TypeOK, CreditsAccounted, LoopInv, PollAssumption
<1>2. CreditsAccounted'
  BY <1>0, RowSets, PollAssumption DEF TypeOK, CreditsAccounted, LoopInv, Owned, PollAssumption
<1>3. LoopInv'
  BY <1>0, RowSets, PollAssumption DEF TypeOK, LoopInv, PollAssumption
<1>4. Owned'
  BY <1>0, PollAssumption DEF TypeOK, LoopInv, Owned, SingleOwner, WorkerInv, PollAssumption
<1>5. WorkerInv'
  BY <1>0, PollAssumption DEF TypeOK, LoopInv, WorkerInv, PollAssumption
<1> QED
  BY <1>1, <1>2, <1>3, <1>4, <1>5 DEF IndInv

(* A row moves from the buffer to the worker that takes it. *)
LEMMA TakeStep ==
  ASSUME IndInv, NEW w \in Workers, NEW r \in Rows, Take(w, r)
  PROVE  IndInv'
<1> USE DEF Take, gateVars, loopVars, workerVars
<1>0. TypeOK /\ CreditsAccounted /\ LoopInv /\ Owned /\ WorkerInv
  BY DEF IndInv
<1>1. TypeOK'
  BY <1>0, RowSets, PollAssumption DEF TypeOK, CreditsAccounted, LoopInv, PollAssumption
<1>2. CreditsAccounted'
  BY <1>0, RowSets, PollAssumption DEF TypeOK, CreditsAccounted, LoopInv, Owned, PollAssumption
<1>3. LoopInv'
  BY <1>0, RowSets, PollAssumption DEF TypeOK, LoopInv, PollAssumption
<1>4. Owned'
  BY <1>0, PollAssumption DEF TypeOK, LoopInv, Owned, SingleOwner, WorkerInv, PollAssumption
<1>5. WorkerInv'
  BY <1>0, PollAssumption DEF TypeOK, LoopInv, WorkerInv, PollAssumption
<1> QED
  BY <1>1, <1>2, <1>3, <1>4, <1>5 DEF IndInv

(* A handler that returns moves no credit. *)
LEMMA HandledStep ==
  ASSUME IndInv, NEW w \in Workers, Handled(w)
  PROVE  IndInv'
<1> USE DEF Handled, gateVars, loopVars, workerVars
<1>0. TypeOK /\ CreditsAccounted /\ LoopInv /\ Owned /\ WorkerInv
  BY DEF IndInv
<1>1. TypeOK'
  BY <1>0, RowSets, PollAssumption DEF TypeOK, CreditsAccounted, LoopInv, PollAssumption
<1>2. CreditsAccounted'
  BY <1>0, RowSets, PollAssumption DEF TypeOK, CreditsAccounted, LoopInv, Owned, PollAssumption
<1>3. LoopInv'
  BY <1>0, RowSets, PollAssumption DEF TypeOK, LoopInv, PollAssumption
<1>4. Owned'
  BY <1>0, PollAssumption DEF TypeOK, LoopInv, Owned, SingleOwner, WorkerInv, PollAssumption
<1>5. WorkerInv'
  BY <1>0, PollAssumption DEF TypeOK, LoopInv, WorkerInv, PollAssumption
<1> QED
  BY <1>1, <1>2, <1>3, <1>4, <1>5 DEF IndInv

(* The first release takes one credit off with its row. *)
LEMMA ReleaseFirstStep ==
  ASSUME IndInv, NEW w \in Workers, ReleaseFirst(w)
  PROVE  IndInv'
<1> USE DEF ReleaseFirst, Release, gateVars, loopVars, workerVars
<1>0. TypeOK /\ CreditsAccounted /\ LoopInv /\ Owned /\ WorkerInv
  BY DEF IndInv
<1>1. TypeOK'
  BY <1>0, RowSets, PollAssumption DEF TypeOK, CreditsAccounted, LoopInv, PollAssumption
<1>2. CreditsAccounted'
  BY <1>0, RowSets, PollAssumption DEF TypeOK, CreditsAccounted, LoopInv, Owned, PollAssumption
<1>3. LoopInv'
  BY <1>0, RowSets, PollAssumption DEF TypeOK, LoopInv, PollAssumption
<1>4. Owned'
  BY <1>0, PollAssumption DEF TypeOK, LoopInv, Owned, SingleOwner, WorkerInv, PollAssumption
<1>5. WorkerInv'
  BY <1>0, PollAssumption DEF TypeOK, LoopInv, WorkerInv, PollAssumption
<1> QED
  BY <1>1, <1>2, <1>3, <1>4, <1>5 DEF IndInv

(* The settled row leaves its only owner, and the deferred release adds nothing. *)
LEMMA SettleStep ==
  ASSUME IndInv, NEW w \in Workers, Settle(w)
  PROVE  IndInv'
<1> USE DEF Settle, Release, AckOutcome, NackOutcome, gateVars, loopVars, workerVars
<1>0. TypeOK /\ CreditsAccounted /\ LoopInv /\ Owned /\ WorkerInv
  BY DEF IndInv
<1>a. tokens' \in Nat
  <2>1. wrapped \in SUBSET Rows /\ tokens \in Nat /\ held \in Nat
    BY <1>0 DEF TypeOK
  <2>2. work[w] \in wrapped => Cardinality(wrapped) \in Nat \ {0}
    BY <2>1, RowSets
  <2> QED
    BY <1>0, <2>1, <2>2 DEF CreditsAccounted
<1>1. TypeOK'
  <2>1. table' \in [Rows -> {"ready", "claimed", "failed", "gone"}]
    BY Zenon, <1>0 DEF TypeOK
  <2>2. /\ wpc' \in [Workers -> {"idle", "handle", "ack", "nack", "acking", "nacking", "exited"}]
        /\ work' \in [Workers -> Rows \cup {NoRow}]
    BY <1>0 DEF TypeOK
  <2> QED
    BY <1>0, <1>a, <2>1, <2>2 DEF TypeOK
<1>2. CreditsAccounted'
  BY <1>0, RowSets, <1>a, PollAssumption DEF TypeOK, CreditsAccounted, LoopInv, Owned, PollAssumption
<1>3. LoopInv'
  BY <1>0, RowSets, <1>a, PollAssumption DEF TypeOK, LoopInv, PollAssumption
<1>4. Owned'
  BY <1>0, PollAssumption DEF TypeOK, LoopInv, Owned, SingleOwner, WorkerInv, PollAssumption
<1>5. WorkerInv'
  BY <1>0, PollAssumption DEF TypeOK, LoopInv, WorkerInv, PollAssumption
<1> QED
  BY <1>1, <1>2, <1>3, <1>4, <1>5 DEF IndInv

(* A worker exits only on a closed, empty channel. *)
LEMMA ExitStep ==
  ASSUME IndInv, NEW w \in Workers, Exit(w)
  PROVE  IndInv'
<1> USE DEF Exit, gateVars, loopVars, workerVars
<1>0. TypeOK /\ CreditsAccounted /\ LoopInv /\ Owned /\ WorkerInv
  BY DEF IndInv
<1>1. TypeOK'
  BY <1>0, RowSets, PollAssumption DEF TypeOK, CreditsAccounted, LoopInv, PollAssumption
<1>2. CreditsAccounted'
  BY <1>0, RowSets, PollAssumption DEF TypeOK, CreditsAccounted, LoopInv, Owned, PollAssumption
<1>3. LoopInv'
  BY <1>0, RowSets, PollAssumption DEF TypeOK, LoopInv, PollAssumption
<1>4. Owned'
  BY <1>0, PollAssumption DEF TypeOK, LoopInv, Owned, SingleOwner, WorkerInv, PollAssumption
<1>5. WorkerInv'
  BY <1>0, PollAssumption DEF TypeOK, LoopInv, WorkerInv, PollAssumption
<1> QED
  BY <1>1, <1>2, <1>3, <1>4, <1>5 DEF IndInv

(* The steps of Run move no credit and no row. *)
LEMMA RunStepStep ==
  ASSUME IndInv, RunStep
  PROVE  IndInv'
<1> USE DEF RunStep, Drain, CutDrain, CutSettle, Return, gateVars, loopVars, workerVars
<1>0. TypeOK /\ CreditsAccounted /\ LoopInv /\ Owned /\ WorkerInv
  BY DEF IndInv
<1>1. TypeOK'
  BY <1>0, RowSets, PollAssumption DEF TypeOK, CreditsAccounted, LoopInv, PollAssumption
<1>2. CreditsAccounted'
  BY <1>0, RowSets, PollAssumption DEF TypeOK, CreditsAccounted, LoopInv, Owned, PollAssumption
<1>3. LoopInv'
  BY <1>0, RowSets, PollAssumption DEF TypeOK, LoopInv, PollAssumption
<1>4. Owned'
  BY <1>0, PollAssumption DEF TypeOK, LoopInv, Owned, SingleOwner, WorkerInv, PollAssumption
<1>5. WorkerInv'
  BY <1>0, PollAssumption DEF TypeOK, LoopInv, WorkerInv, PollAssumption
<1> QED
  BY <1>1, <1>2, <1>3, <1>4, <1>5 DEF IndInv

(* Cancelling the context moves no credit and no row. *)
LEMMA CancelStep ==
  ASSUME IndInv, Cancel
  PROVE  IndInv'
<1> USE DEF Cancel, gateVars, loopVars, workerVars
<1>0. TypeOK /\ CreditsAccounted /\ LoopInv /\ Owned /\ WorkerInv
  BY DEF IndInv
<1>1. TypeOK'
  BY <1>0, RowSets, PollAssumption DEF TypeOK, CreditsAccounted, LoopInv, PollAssumption
<1>2. CreditsAccounted'
  BY <1>0, RowSets, PollAssumption DEF TypeOK, CreditsAccounted, LoopInv, Owned, PollAssumption
<1>3. LoopInv'
  BY <1>0, RowSets, PollAssumption DEF TypeOK, LoopInv, PollAssumption
<1>4. Owned'
  BY <1>0, PollAssumption DEF TypeOK, LoopInv, Owned, SingleOwner, WorkerInv, PollAssumption
<1>5. WorkerInv'
  BY <1>0, PollAssumption DEF TypeOK, LoopInv, WorkerInv, PollAssumption
<1> QED
  BY <1>1, <1>2, <1>3, <1>4, <1>5 DEF IndInv

(* A lease lapses only on a row nobody holds. *)
LEMMA LapseStep ==
  ASSUME IndInv, NEW r \in Rows, Lapse(r)
  PROVE  IndInv'
<1> USE DEF Lapse, InHand, gateVars, loopVars, workerVars
<1>0. TypeOK /\ CreditsAccounted /\ LoopInv /\ Owned /\ WorkerInv
  BY DEF IndInv
<1>1. TypeOK'
  BY <1>0, RowSets, PollAssumption DEF TypeOK, CreditsAccounted, LoopInv, PollAssumption
<1>2. CreditsAccounted'
  BY <1>0, RowSets, PollAssumption DEF TypeOK, CreditsAccounted, LoopInv, Owned, PollAssumption
<1>3. LoopInv'
  BY <1>0, RowSets, PollAssumption DEF TypeOK, LoopInv, PollAssumption
<1>4. Owned'
  BY <1>0, PollAssumption DEF TypeOK, LoopInv, Owned, SingleOwner, WorkerInv, PollAssumption
<1>5. WorkerInv'
  BY <1>0, PollAssumption DEF TypeOK, LoopInv, WorkerInv, PollAssumption
<1> QED
  BY <1>1, <1>2, <1>3, <1>4, <1>5 DEF IndInv

(* Every step of the consumer preserves the inductive invariant. *)
LEMMA IndNext == IndInv /\ [Next]_vars => IndInv'
<1> SUFFICES ASSUME IndInv, [Next]_vars PROVE IndInv'
  OBVIOUS
<1>1. CASE LoopStep
  BY <1>1, AcquireStep, TopUpStep, ToppedUpStep, PollFailedStep, PolledStep, ClampExcessStep,
     HandOffStep, HandOffCancelledStep, GiveUpStep, AwakeStep, LoopCancelledStep DEF LoopStep
<1>2. ASSUME NEW w \in Workers, WorkerStep(w) PROVE IndInv'
  BY <1>2, TakeStep, HandledStep, ReleaseFirstStep, SettleStep, ExitStep DEF WorkerStep
<1>3. CASE RunStep
  BY <1>3, RunStepStep
<1>4. CASE Cancel
  BY <1>4, CancelStep
<1>5. ASSUME NEW r \in Rows, Lapse(r) PROVE IndInv'
  BY <1>5, LapseStep, SMTT(30)
<1>6. CASE UNCHANGED vars
  BY <1>6 DEF IndInv, TypeOK, CreditsAccounted, LoopInv, Owned, SingleOwner, WorkerInv,
              vars, gateVars, loopVars, workerVars
<1> QED
  BY <1>1, <1>2, <1>3, <1>4, <1>5, <1>6 DEF Next, Finished

(* The inductive invariant holds in every reachable state. *)
LEMMA Inductive == Spec => []IndInv
BY IndInit, IndNext, PTL DEF Spec

-----------------------------------------------------------------------------
(* Every variable keeps its type; in particular the gate is never asked to *)
(* give back a credit nobody took.                                         *)
THEOREM TypeCorrect == Spec => []TypeOK
<1>1. IndInv => TypeOK
  BY DEF IndInv
<1> QED
  BY <1>1, Inductive, PTL

(* Every credit taken is held by the poll loop or rides with one wrapped   *)
(* row, and there are never more than MaxInFlight of them.                 *)
THEOREM CreditsCorrect == Spec => []CreditsAccounted
<1>1. IndInv => CreditsAccounted
  BY DEF IndInv
<1> QED
  BY <1>1, Inductive, PTL

(* The hand-off to the workers never waits: the buffer of workerCh is as   *)
(* large as the gate, and the row being handed over holds a credit of its  *)
(* own.                                                                    *)
THEOREM HandOffCorrect == Spec => []HandOffNeverBlocks
<1>1. IndInv => HandOffNeverBlocks
  <2> SUFFICES ASSUME IndInv, loop = "hand"
               PROVE  Cardinality(workerCh) < WorkerChCap
    BY DEF HandOffNeverBlocks
  <2>1. held \in Nat /\ held >= 1
    BY RowSets DEF IndInv, TypeOK, LoopInv
  <2>2. /\ Cardinality(workerCh) \in Nat
        /\ Cardinality(wrapped) \in Nat
        /\ Cardinality(workerCh) <= Cardinality(wrapped)
    <3>1. IsFiniteSet(wrapped) /\ workerCh \in SUBSET wrapped
      BY PollAssumption, FS_Subset DEF PollAssumption, IndInv, TypeOK, Owned
    <3> QED
      BY <3>1, FS_Subset, RowSets DEF IndInv, TypeOK
  <2> QED
    BY <2>1, <2>2, PollAssumption DEF IndInv, CreditsAccounted, WorkerChCap, PollAssumption
<1> QED
  BY <1>1, Inductive, PTL

(* No delivery is ever settled by two parties: each row in the consumer's  *)
(* hands has one owner.                                                    *)
THEOREM OwnershipCorrect == Spec => []SingleOwner
<1>1. IndInv => SingleOwner
  BY DEF IndInv, Owned
<1> QED
  BY <1>1, Inductive, PTL

(* When Run returns all credits are back and nothing is left in a buffer.  *)
THEOREM ReturnCorrect == Spec => []CleanReturn
<1>1. IndInv => CleanReturn
  <2> SUFFICES ASSUME IndInv, run = "returned"
               PROVE  tokens = 0 /\ InHand = {}
    BY DEF CleanReturn
  <2>1. /\ loop = "done" /\ workerCh = {}
        /\ \A w \in Workers : work[w] = NoRow
    BY PollAssumption DEF IndInv, WorkerInv, PollAssumption
  <2>2. batch = {} /\ excess = {} /\ dropped = NoRow /\ held = 0
    BY <2>1 DEF IndInv, LoopInv
  <2>3. wrapped = {}
    BY <2>1, PollAssumption DEF IndInv, TypeOK, Owned, PollAssumption
  <2>4. tokens = 0
    BY <2>2, <2>3, FS_EmptySet DEF IndInv, CreditsAccounted
  <2> QED
    BY <2>1, <2>2, <2>4 DEF InHand
<1> QED
  BY <1>1, Inductive, PTL

-----------------------------------------------------------------------------
(* Nothing is forgotten before shutdown. The rows behind a dropped one are *)
(* abandoned by GiveUp alone, so what has to be known besides IndInv is    *)
(* that the loop gives up only under a cancelled context.                  *)

(* The loop stops early only when the context is done. *)
GivesUpLate == loop \in {"giveup", "done"} => ctxDone

(* A claimed row has somebody who will settle it. *)
Tracked == \A r \in Rows : table[r] = "claimed" => r \in InHand

(* Membership in InHand, one place at a time. *)
LEMMA InHandMember ==
  ASSUME NEW r \in Rows
  PROVE  r \in InHand <=> \/ r \in batch \/ r \in excess \/ r \in workerCh
                         \/ r = dropped
                         \/ \E w \in Workers : work[w] = r
BY PollAssumption DEF InHand, PollAssumption

(* The same in the state after a step. *)
LEMMA InHandMemberNext ==
  ASSUME NEW r \in Rows
  PROVE  (r \in InHand)' <=> \/ r \in batch' \/ r \in excess' \/ r \in workerCh'
                            \/ r = dropped'
                            \/ \E w \in Workers : work'[w] = r
BY PollAssumption DEF InHand, PollAssumption

(* The loop stops early only under a cancelled context, which stays so. *)
LEMMA GivesUpLateNext ==
  ASSUME IndInv, GivesUpLate, [Next]_vars
  PROVE  GivesUpLate' /\ (ctxDone => ctxDone')
<1> USE DEF GivesUpLate, gateVars, loopVars, workerVars
<1>1. CASE LoopStep
  BY <1>1 DEF LoopStep, Acquire, TopUp, ToppedUp, PollFailed, Polled, ClampExcess, HandOff,
              HandOffCancelled, GiveUp, Awake, LoopCancelled
<1>2. ASSUME NEW w \in Workers, WorkerStep(w) PROVE GivesUpLate' /\ (ctxDone => ctxDone')
  BY <1>2 DEF WorkerStep, Take, Handled, ReleaseFirst, Settle, Exit
<1>3. CASE RunStep \/ Cancel
  BY <1>3 DEF RunStep, Drain, CutDrain, CutSettle, Return, Cancel
<1>4. ASSUME NEW r \in Rows, Lapse(r) PROVE GivesUpLate' /\ (ctxDone => ctxDone')
  BY <1>4 DEF Lapse
<1>5. CASE UNCHANGED vars
  BY <1>5 DEF vars
<1> QED
  BY <1>1, <1>2, <1>3, <1>4, <1>5 DEF Next, Finished

(* Every step but giving up keeps track of the claimed rows: what leaves a *)
(* place goes to another one or has been settled.                          *)
LEMMA TrackedLoop ==
  ASSUME IndInv, GivesUpLate, Tracked, LoopStep, ~ctxDone
  PROVE  Tracked'
<1> SUFFICES ASSUME NEW r \in Rows, table'[r] = "claimed"
             PROVE  \/ r \in batch' \/ r \in excess' \/ r \in workerCh'
                    \/ r = dropped'
                    \/ \E w \in Workers : work'[w] = r
  BY InHandMemberNext DEF Tracked
<1>0. TypeOK /\ LoopInv
  BY DEF IndInv
<1>t. table[r] = "claimed" =>
        \/ r \in batch \/ r \in excess \/ r \in workerCh \/ r = dropped
        \/ \E w \in Workers : work[w] = r
  BY InHandMember DEF Tracked
<1> USE DEF gateVars, loopVars, workerVars
<1>1. CASE Acquire \/ TopUp \/ ToppedUp \/ PollFailed \/ Awake \/ LoopCancelled
  BY <1>1, <1>t DEF Acquire, TopUp, ToppedUp, PollFailed, Awake, LoopCancelled
<1>2. ASSUME NEW keep \in SUBSET Ready, NEW over \in SUBSET (Ready \ keep), Polled(keep, over)
      PROVE  r \in batch' \/ r \in excess' \/ r \in workerCh' \/ r = dropped'
             \/ \E w \in Workers : work'[w] = r
  BY <1>0, <1>2, <1>t DEF Polled, LoopInv
<1>3. ASSUME NEW x \in Rows, ClampExcess(x)
      PROVE  r \in batch' \/ r \in excess' \/ r \in workerCh' \/ r = dropped'
             \/ \E w \in Workers : work'[w] = r
  <2>1. r # x /\ table'[r] = table[r]
    BY <1>0, <1>3 DEF ClampExcess, NackOutcome, TypeOK
  <2> QED
    BY <1>3, <1>t, <2>1 DEF ClampExcess
<1>4. ASSUME NEW x \in Rows, HandOff(x)
      PROVE  r \in batch' \/ r \in excess' \/ r \in workerCh' \/ r = dropped'
             \/ \E w \in Workers : work'[w] = r
  BY <1>4, <1>t DEF HandOff
<1>5. ~GiveUp /\ \A x \in Rows : ~HandOffCancelled(x)
  BY DEF GiveUp, HandOffCancelled, GivesUpLate
<1> QED
  BY <1>1, <1>2, <1>3, <1>4, <1>5 DEF LoopStep

(* A worker lets go of a row by settling it. *)
LEMMA TrackedWorker ==
  ASSUME IndInv, Tracked, NEW w \in Workers, WorkerStep(w)
  PROVE  Tracked'
<1> SUFFICES ASSUME NEW r \in Rows, table'[r] = "claimed"
             PROVE  \/ r \in batch' \/ r \in excess' \/ r \in workerCh'
                    \/ r = dropped'
                    \/ \E v \in Workers : work'[v] = r
  BY InHandMemberNext DEF Tracked
<1>0. TypeOK /\ WorkerInv
  BY DEF IndInv
<1>t. table[r] = "claimed" =>
        \/ r \in batch \/ r \in excess \/ r \in workerCh \/ r = dropped
        \/ \E v \in Workers : work[v] = r
  BY InHandMember DEF Tracked
<1> USE DEF gateVars, loopVars, workerVars
<1>1. ASSUME NEW x \in Rows, Take(w, x)
      PROVE  r \in batch' \/ r \in excess' \/ r \in workerCh' \/ r = dropped'
             \/ \E v \in Workers : work'[v] = r
  <2>1. work[w] = NoRow /\ work'[w] = x /\ r # NoRow
    BY <1>0, <1>1, PollAssumption DEF Take, WorkerInv, TypeOK, PollAssumption
  <2>2. \A v \in Workers \ {w} : work'[v] = work[v]
    BY <1>0, <1>1 DEF Take, TypeOK
  <2> QED
    BY <1>1, <1>t, <2>1, <2>2 DEF Take
<1>2. CASE Handled(w) \/ ReleaseFirst(w) \/ Exit(w)
  BY <1>2, <1>t DEF Handled, ReleaseFirst, Exit
<1>3. CASE Settle(w)
  <2>1. work[w] \in Rows
    BY <1>0, <1>3 DEF Settle, WorkerInv, TypeOK
  <2>2. r # work[w] /\ table'[r] = table[r]
    BY <1>0, <1>3, <2>1 DEF Settle, AckOutcome, NackOutcome, TypeOK
  <2>3. \A v \in Workers \ {w} : work'[v] = work[v]
    BY <1>0, <1>3 DEF Settle, TypeOK
  <2> QED
    BY <1>3, <1>t, <2>2, <2>3 DEF Settle
<1> QED
  BY <1>1, <1>2, <1>3 DEF WorkerStep

(* Until the context is cancelled every claimed row is in the hands of the *)
(* loop or of a worker: neither a clamped batch nor a hand-off nor a       *)
(* settle loses one.                                                       *)
THEOREM NothingForgottenCorrect == Spec => []NothingForgotten
<1> DEFINE Inv == GivesUpLate /\ NothingForgotten
<1>1. Init => Inv
  BY Zenon DEF Init, GivesUpLate, NothingForgotten
<1>2. IndInv /\ Inv /\ [Next]_vars => Inv'
  <2> SUFFICES ASSUME IndInv, GivesUpLate, NothingForgotten, [Next]_vars, ~ctxDone'
               PROVE  Tracked'
    BY GivesUpLateNext DEF NothingForgotten, Tracked
  <2>1. ~ctxDone /\ Tracked
    BY GivesUpLateNext DEF NothingForgotten, Tracked
  <2>2. CASE LoopStep
    BY <2>1, <2>2, TrackedLoop
  <2>3. ASSUME NEW w \in Workers, WorkerStep(w) PROVE Tracked'
    BY <2>1, <2>3, TrackedWorker
  <2>4. CASE RunStep \/ Cancel \/ UNCHANGED vars
    BY <2>1, <2>4 DEF RunStep, Drain, CutDrain, CutSettle, Return, Cancel, Tracked, InHand,
                      vars, gateVars, loopVars, workerVars
  <2>5. ASSUME NEW x \in Rows, Lapse(x) PROVE Tracked'
    <3> SUFFICES ASSUME NEW r \in Rows, table'[r] = "claimed" PROVE (r \in InHand)'
      BY DEF Tracked
    <3>1. table[r] = "claimed"
      BY <2>5, SMTT(30) DEF Lapse, IndInv, TypeOK
    <3>2. UNCHANGED InHand
      BY <2>5 DEF Lapse, InHand, loopVars, workerVars
    <3> QED
      BY <2>1, <3>1, <3>2 DEF Tracked
  <2> QED
    BY <2>2, <2>3, <2>4, <2>5 DEF Next, Finished
<1>3. Inv => NothingForgotten
  OBVIOUS
<1> QED
  BY <1>1, <1>2, <1>3, Inductive, PTL DEF Spec
=============================================================================
