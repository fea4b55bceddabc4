------------------------- MODULE Settlement_proofs -------------------------
(***************************************************************************)
(* The settlement switch, for any number of messages and workers and any   *)
(* retry policy: no message is lost, the attempt count survives, and the   *)
(* dead-letter sink gets nothing before the budget is spent.               *)
(***************************************************************************)
EXTENDS Settlement, TLAPS

(* A worker that is about to Ack has put its message on record, and one    *)
(* that is about to evict has seen the source let go of it.                *)
Justified ==
  \A w \in Workers :
     /\ wpc[w] # "idle" => work[w] \in Msgs
     /\ wpc[w] = "ack" => \E how \in Records : <<work[w], how>> \in record
     /\ wpc[w] = "evict" => src[work[w]] = "gone"

(* The counts that dispatch consults never run ahead of what they count.   *)
Counted ==
  /\ ~NativeCount => \A m \in Msgs : tracker[m] <= failed[m]
  /\ NativeCount => \A w \in Workers : wpc[w] # "idle" => header[w] <= deliveries[work[w]]

(* A worker sends to the dead-letter sink only once the budget is spent.   *)
Spent ==
  \A w \in Workers : wpc[w] = "sendDead" =>
     IF NativeCount THEN header[w] >= MaxAttempts ELSE failed[work[w]] >= MaxAttempts

IndInv == /\ TypeOK /\ Justified /\ Counted /\ Spent
          /\ NoLoss /\ CountSurvives /\ DeadLetterAfterBudget

(* What the provers need to know of the counters and the records. *)
LEMMA CapNat == Cap \in Nat /\ MaxAttempts \in Nat /\ MaxAttempts <= Cap /\ 0 \in 0..Cap
BY SettlementAssumption DEF Cap

(* A fate that is put on record is one of the known ones. *)
LEMMA AddRecord ==
  ASSUME TypeOK, NEW m \in Msgs, NEW how \in Records
  PROVE  record \cup {<<m, how>>} \in SUBSET (Msgs \X Records)
BY DEF TypeOK

(* A saturating count goes up and stays within its cap. *)
LEMMA BumpBounds ==
  ASSUME NEW n \in 0..Cap
  PROVE  Bump(n) \in 0..Cap /\ n <= Bump(n)
BY SettlementAssumption DEF Bump, Cap

(* Counting one more keeps counts in order. *)
LEMMA BumpMonotone ==
  ASSUME NEW a \in 0..Cap, NEW b \in 0..Cap, a <= b
  PROVE  Bump(a) <= Bump(b)
BY SettlementAssumption DEF Bump, Cap

-----------------------------------------------------------------------------
(* The invariant holds initially and every action keeps it.                *)

(* The invariant holds before the first delivery. *)
LEMMA IndInit == Init => IndInv
<1> SUFFICES ASSUME Init PROVE IndInv
  OBVIOUS
<1> USE CapNat, SettlementAssumption DEF Init, NativeCount
<1>1. TypeOK
  <2>1. record \in SUBSET (Msgs \X Records)
    OBVIOUS
  <2>2. stopped \in BOOLEAN
    BY Zenon
  <2>3. work \in [Workers -> Msgs \cup {NoMsg}]
    OBVIOUS
  <2> QED
    BY Zenon, <2>1, <2>2, <2>3 DEF TypeOK
<1>2. Justified
  BY DEF Justified
<1>3. Counted
  BY DEF Counted
<1>4. Spent
  BY DEF Spent
<1>5. NoLoss
  BY DEF NoLoss
<1>6. CountSurvives
  BY DEF CountSurvives
<1>7. DeadLetterAfterBudget
  BY DEF DeadLetterAfterBudget
<1> QED
  BY <1>1, <1>2, <1>3, <1>4, <1>5, <1>6, <1>7 DEF IndInv

(* A worker is given a message of the source. *)
LEMMA DeliverStep ==
  ASSUME IndInv, NEW w \in Workers, NEW m \in Msgs, Deliver(w, m)
  PROVE  IndInv'
<1> USE CapNat, BumpBounds, BumpMonotone DEF IndInv, Deliver, Goto, workerVars, NativeCount
<1>1. TypeOK'
  BY DEF TypeOK, Justified
<1>2. Justified'
  BY Zenon DEF TypeOK, Justified, Records
<1>3. Counted'
  BY DEF TypeOK, Counted, Justified
<1>4. Spent'
  BY DEF TypeOK, Spent, Counted, Justified
<1>5. NoLoss'
  BY Zenon DEF TypeOK, NoLoss, Justified, Records
<1>6. CountSurvives'
  BY DEF TypeOK, CountSurvives, Justified
<1>7. DeadLetterAfterBudget'
  BY DEF TypeOK, DeadLetterAfterBudget, Spent, Counted, Justified
<1> QED
  BY <1>1, <1>2, <1>3, <1>4, <1>5, <1>6, <1>7

(* dispatch returns a message unhandled. *)
LEMMA RefuseStep ==
  ASSUME IndInv, NEW w \in Workers, Refuse(w)
  PROVE  IndInv'
<1> USE CapNat DEF IndInv, Refuse, Stay, Goto, workerVars, NativeCount
<1>1. TypeOK'
  BY DEF TypeOK, Justified
<1>2. Justified'
  BY Zenon DEF TypeOK, Justified, Records
<1>3. Counted'
  BY DEF TypeOK, Counted, Justified
<1>4. Spent'
  BY DEF TypeOK, Spent, Counted, Justified
<1>5. NoLoss'
  BY Zenon DEF TypeOK, NoLoss, Justified, Records
<1>6. CountSurvives'
  BY DEF TypeOK, CountSurvives, Justified
<1>7. DeadLetterAfterBudget'
  BY DEF TypeOK, DeadLetterAfterBudget, Spent, Counted, Justified
<1> QED
  BY <1>1, <1>2, <1>3, <1>4, <1>5, <1>6, <1>7

(* The handler succeeds. *)
LEMMA SucceedStep ==
  ASSUME IndInv, NEW w \in Workers, Succeed(w)
  PROVE  IndInv'
<1> USE CapNat DEF IndInv, Succeed, Stay, Goto, workerVars, NativeCount
<1>0. record' \in SUBSET (Msgs \X Records)
  <2>1. work[w] \in Msgs
    BY DEF Justified
  <2>2. record' \in {record, record \cup {<<work[w], "handled">>}}
    OBVIOUS
  <2>3. {"handled"} \subseteq Records
    BY DEF Records
  <2> HIDE DEF Succeed, Stay, Goto
  <2> QED
    BY <2>1, <2>2, <2>3, AddRecord DEF TypeOK
<1>1. TypeOK'
  BY <1>0 DEF TypeOK, Justified
<1>2. Justified'
  BY Zenon DEF TypeOK, Justified, Records
<1>3. Counted'
  BY DEF TypeOK, Counted, Justified
<1>4. Spent'
  BY DEF TypeOK, Spent, Counted, Justified
<1>5. NoLoss'
  BY Zenon DEF TypeOK, NoLoss, Justified, Records
<1>6. CountSurvives'
  BY DEF TypeOK, CountSurvives, Justified
<1>7. DeadLetterAfterBudget'
  BY DEF TypeOK, DeadLetterAfterBudget, Spent, Counted, Justified
<1> QED
  BY <1>1, <1>2, <1>3, <1>4, <1>5, <1>6, <1>7

(* The payload does not decode or exceeds the cap. *)
LEMMA InvalidStep ==
  ASSUME IndInv, NEW w \in Workers, NEW tooLarge \in BOOLEAN, Invalid(w, tooLarge)
  PROVE  IndInv'
<1> USE CapNat DEF IndInv, Invalid, Stay, Goto, workerVars, NativeCount
<1>0. record' \in SUBSET (Msgs \X Records)
  <2>1. work[w] \in Msgs
    BY DEF Justified
  <2>2. record' \in {record, record \cup {<<work[w], "noSink">>}}
    OBVIOUS
  <2>3. {"noSink"} \subseteq Records
    BY DEF Records
  <2> HIDE DEF Invalid, Stay, Goto
  <2> QED
    BY <2>1, <2>2, <2>3, AddRecord DEF TypeOK
<1>1. TypeOK'
  BY <1>0 DEF TypeOK, Justified
<1>2. Justified'
  BY ZenonT(30) DEF TypeOK, Justified, Records
<1>3. Counted'
  BY DEF TypeOK, Counted, Justified
<1>4. Spent'
  BY DEF TypeOK, Spent, Counted, Justified
<1>5. NoLoss'
  BY Zenon DEF TypeOK, NoLoss, Justified, Records
<1>6. CountSurvives'
  BY DEF TypeOK, CountSurvives, Justified
<1>7. DeadLetterAfterBudget'
  BY DEF TypeOK, DeadLetterAfterBudget, Spent, Counted, Justified
<1> QED
  BY <1>1, <1>2, <1>3, <1>4, <1>5, <1>6, <1>7

(* The message goes to the sink for invalid messages. *)
LEMMA SendInvalidStep ==
  ASSUME IndInv, NEW w \in Workers, SendInvalid(w)
  PROVE  IndInv'
<1> USE CapNat DEF IndInv, SendInvalid, Stay, Goto, workerVars, NativeCount
<1>0. record' \in SUBSET (Msgs \X Records)
  <2>1. work[w] \in Msgs
    BY DEF Justified
  <2>2. record' \in {record, record \cup {<<work[w], "invalidSink">>}, record \cup {<<work[w], "refused">>}}
    OBVIOUS
  <2>3. {"invalidSink", "refused"} \subseteq Records
    BY DEF Records
  <2> HIDE DEF SendInvalid, Stay, Goto
  <2> QED
    BY <2>1, <2>2, <2>3, AddRecord DEF TypeOK
<1>1. TypeOK'
  BY <1>0 DEF TypeOK, Justified
<1>2. Justified'
  BY ZenonT(30) DEF TypeOK, Justified, Records
<1>3. Counted'
  BY DEF TypeOK, Counted, Justified
<1>4. Spent'
  BY DEF TypeOK, Spent, Counted, Justified
<1>5. NoLoss'
  BY Zenon DEF TypeOK, NoLoss, Justified, Records
<1>6. CountSurvives'
  BY DEF TypeOK, CountSurvives, Justified
<1>7. DeadLetterAfterBudget'
  BY DEF TypeOK, DeadLetterAfterBudget, Spent, Counted, Justified
<1> QED
  BY <1>1, <1>2, <1>3, <1>4, <1>5, <1>6, <1>7

(* The handler fails, and the attempt is counted. *)
LEMMA FailStep ==
  ASSUME IndInv, NEW w \in Workers, Fail(w)
  PROVE  IndInv'
<1> USE CapNat, BumpBounds, BumpMonotone DEF IndInv, Fail, observe, Exhausted, Stay, Goto, workerVars, NativeCount
<1>1. TypeOK'
  BY DEF TypeOK, Justified
<1>2. Justified'
  BY Zenon DEF TypeOK, Justified, Records
<1>3. Counted'
  BY DEF TypeOK, Counted, Justified
<1>4. Spent'
  BY DEF TypeOK, Spent, Counted, Justified
<1>5. NoLoss'
  BY Zenon DEF TypeOK, NoLoss, Justified, Records
<1>6. CountSurvives'
  BY DEF TypeOK, CountSurvives, Justified
<1>7. DeadLetterAfterBudget'
  BY DEF TypeOK, DeadLetterAfterBudget, Spent, Counted, Justified
<1> QED
  BY <1>1, <1>2, <1>3, <1>4, <1>5, <1>6, <1>7

(* The message goes to the dead-letter sink. *)
LEMMA SendDeadStep ==
  ASSUME IndInv, NEW w \in Workers, SendDead(w)
  PROVE  IndInv'
<1> USE CapNat DEF IndInv, SendDead, Stay, Goto, workerVars, NativeCount
<1>0. record' \in SUBSET (Msgs \X Records)
  <2>1. work[w] \in Msgs
    BY DEF Justified
  <2>2. record' \in {record, record \cup {<<work[w], "deadLetter">>}}
    OBVIOUS
  <2>3. {"deadLetter"} \subseteq Records
    BY DEF Records
  <2> HIDE DEF SendDead, Stay, Goto
  <2> QED
    BY <2>1, <2>2, <2>3, AddRecord DEF TypeOK
<1>1. TypeOK'
  BY <1>0 DEF TypeOK, Justified
<1>2. Justified'
  BY ZenonT(30) DEF TypeOK, Justified, Records
<1>3. Counted'
  BY DEF TypeOK, Counted, Justified
<1>4. Spent'
  BY DEF TypeOK, Spent, Counted, Justified
<1>5. NoLoss'
  BY Zenon DEF TypeOK, NoLoss, Justified, Records
<1>6. CountSurvives'
  BY DEF TypeOK, CountSurvives, Justified
<1>7. DeadLetterAfterBudget'
  BY DEF TypeOK, DeadLetterAfterBudget, Spent, Counted, Justified
<1> QED
  BY <1>1, <1>2, <1>3, <1>4, <1>5, <1>6, <1>7

(* The source takes the Ack. *)
LEMMA AckOkStep ==
  ASSUME IndInv, NEW w \in Workers, AckOk(w)
  PROVE  IndInv'
<1> USE CapNat DEF IndInv, AckOk, Stay, Goto, workerVars, NativeCount
<1>1. TypeOK'
  BY DEF TypeOK, Justified
<1>2. Justified'
  BY Zenon DEF TypeOK, Justified, Records
<1>3. Counted'
  BY DEF TypeOK, Counted, Justified
<1>4. Spent'
  BY DEF TypeOK, Spent, Counted, Justified
<1>5. NoLoss'
  BY Zenon DEF TypeOK, NoLoss, Justified, Records
<1>6. CountSurvives'
  BY DEF TypeOK, CountSurvives, Justified
<1>7. DeadLetterAfterBudget'
  BY DEF TypeOK, DeadLetterAfterBudget, Spent, Counted, Justified
<1> QED
  BY <1>1, <1>2, <1>3, <1>4, <1>5, <1>6, <1>7

(* The Ack fails, with or without its effect. *)
LEMMA AckFailedStep ==
  ASSUME IndInv, NEW w \in Workers, AckFailed(w)
  PROVE  IndInv'
<1> USE CapNat DEF IndInv, AckFailed, Idle, Goto, workerVars, NativeCount
<1>1. TypeOK'
  BY DEF TypeOK, Justified
<1>2. Justified'
  BY ZenonT(30) DEF TypeOK, Justified, Records
<1>3. Counted'
  BY DEF TypeOK, Counted, Justified
<1>4. Spent'
  BY DEF TypeOK, Spent, Counted, Justified
<1>5. NoLoss'
  <2>1. \E how \in Records : <<work[w], how>> \in record
    BY DEF Justified
  <2>2. \A m \in Msgs : src'[m] = src[m] \/ m = work[w]
    BY DEF TypeOK
  <2> QED
    BY <2>1, <2>2 DEF NoLoss
<1>6. CountSurvives'
  BY DEF TypeOK, CountSurvives, Justified
<1>7. DeadLetterAfterBudget'
  BY DEF TypeOK, DeadLetterAfterBudget, Spent, Counted, Justified
<1> QED
  BY <1>1, <1>2, <1>3, <1>4, <1>5, <1>6, <1>7

(* The tracker forgets a message that was settled. *)
LEMMA EvictStep ==
  ASSUME IndInv, NEW w \in Workers, Evict(w)
  PROVE  IndInv'
<1> USE CapNat DEF IndInv, Evict, Idle, Goto, workerVars, NativeCount
<1>1. TypeOK'
  BY DEF TypeOK, Justified
<1>2. Justified'
  BY Zenon DEF TypeOK, Justified, Records
<1>3. Counted'
  BY DEF TypeOK, Counted, Justified
<1>4. Spent'
  BY DEF TypeOK, Spent, Counted, Justified
<1>5. NoLoss'
  BY Zenon DEF TypeOK, NoLoss, Justified, Records
<1>6. CountSurvives'
  BY DEF TypeOK, CountSurvives, Justified
<1>7. DeadLetterAfterBudget'
  BY DEF TypeOK, DeadLetterAfterBudget, Spent, Counted, Justified
<1> QED
  BY <1>1, <1>2, <1>3, <1>4, <1>5, <1>6, <1>7

(* The source takes the message back, or the Nack fails. *)
LEMMA NackStep ==
  ASSUME IndInv, NEW w \in Workers, Nack(w)
  PROVE  IndInv'
<1> USE CapNat DEF IndInv, Nack, Idle, Goto, workerVars, NativeCount
<1>0. record' \in SUBSET (Msgs \X Records)
  <2>1. work[w] \in Msgs
    BY DEF Justified
  <2>2. record' \in {record, record \cup {<<work[w], "native">>}}
    OBVIOUS
  <2>3. {"native"} \subseteq Records
    BY DEF Records
  <2> HIDE DEF Nack, Idle, Goto
  <2> QED
    BY <2>1, <2>2, <2>3, AddRecord DEF TypeOK
<1>1. TypeOK'
  BY <1>0 DEF TypeOK, Justified
<1>2. Justified'
  BY ZenonT(30) DEF TypeOK, Justified, Records
<1>3. Counted'
  BY DEF TypeOK, Counted, Justified
<1>4. Spent'
  BY DEF TypeOK, Spent, Counted, Justified
<1>5. NoLoss'
  <2>1. \A m \in Msgs : src'[m] = "gone" => src[m] = "gone" \/ <<m, "native">> \in record'
    BY DEF TypeOK, Justified
  <2>2. record \subseteq record' /\ "native" \in Records
    BY DEF Records
  <2> HIDE DEF Nack
  <2> QED
    BY <2>1, <2>2 DEF NoLoss
<1>6. CountSurvives'
  BY DEF TypeOK, CountSurvives, Justified
<1>7. DeadLetterAfterBudget'
  BY DEF TypeOK, DeadLetterAfterBudget, Spent, Counted, Justified
<1> QED
  BY <1>1, <1>2, <1>3, <1>4, <1>5, <1>6, <1>7

(* The claim of a message lapses. *)
LEMMA RedeliverStep ==
  ASSUME IndInv, NEW m \in Msgs, Redeliver(m)
  PROVE  IndInv'
<1> USE CapNat DEF IndInv, Redeliver, workerVars, NativeCount
<1>1. TypeOK'
  BY DEF TypeOK, Justified
<1>2. Justified'
  BY Zenon DEF TypeOK, Justified, Records
<1>3. Counted'
  BY DEF TypeOK, Counted, Justified
<1>4. Spent'
  BY DEF TypeOK, Spent, Counted, Justified
<1>5. NoLoss'
  BY Zenon DEF TypeOK, NoLoss, Justified, Records
<1>6. CountSurvives'
  BY DEF TypeOK, CountSurvives, Justified
<1>7. DeadLetterAfterBudget'
  BY DEF TypeOK, DeadLetterAfterBudget, Spent, Counted, Justified
<1> QED
  BY <1>1, <1>2, <1>3, <1>4, <1>5, <1>6, <1>7

(* The sweep of the tracker drops an old entry. *)
LEMMA SweepStep ==
  ASSUME IndInv, NEW m \in Msgs, Sweep(m)
  PROVE  IndInv'
<1> USE CapNat DEF IndInv, Sweep, workerVars, NativeCount
<1>1. TypeOK'
  BY DEF TypeOK, Justified
<1>2. Justified'
  BY Zenon DEF TypeOK, Justified, Records
<1>3. Counted'
  BY DEF TypeOK, Counted, Justified
<1>4. Spent'
  BY DEF TypeOK, Spent, Counted, Justified
<1>5. NoLoss'
  BY Zenon DEF TypeOK, NoLoss, Justified, Records
<1>6. CountSurvives'
  BY DEF TypeOK, CountSurvives, Justified
<1>7. DeadLetterAfterBudget'
  BY DEF TypeOK, DeadLetterAfterBudget, Spent, Counted, Justified
<1> QED
  BY <1>1, <1>2, <1>3, <1>4, <1>5, <1>6, <1>7

(* The shutdown deadline passes and both contexts are cancelled. *)
LEMMA StopStep ==
  ASSUME IndInv, Stop
  PROVE  IndInv'
<1> USE CapNat DEF IndInv, Stop, workerVars, NativeCount
<1>1. TypeOK'
  BY DEF TypeOK, Justified
<1>2. Justified'
  BY Zenon DEF TypeOK, Justified, Records
<1>3. Counted'
  BY DEF TypeOK, Counted, Justified
<1>4. Spent'
  BY DEF TypeOK, Spent, Counted, Justified
<1>5. NoLoss'
  BY Zenon DEF TypeOK, NoLoss, Justified, Records
<1>6. CountSurvives'
  BY DEF TypeOK, CountSurvives, Justified
<1>7. DeadLetterAfterBudget'
  BY DEF TypeOK, DeadLetterAfterBudget, Spent, Counted, Justified
<1> QED
  BY <1>1, <1>2, <1>3, <1>4, <1>5, <1>6, <1>7

(* Whatever a delivery holds and the handler does, dispatch has three ways *)
(* to go on.                                                               *)
LEMMA OutcomeCases ==
  ASSUME NEW w \in Workers, Outcome(w)
  PROVE  Succeed(w) \/ Fail(w) \/ \E tooLarge \in BOOLEAN : Invalid(w, tooLarge)
BY Zenon DEF Outcome

(* Every step keeps the invariant. *)
LEMMA IndNext == IndInv /\ [Next]_vars => IndInv'
<1> SUFFICES ASSUME IndInv, [Next]_vars
             PROVE  IndInv'
  OBVIOUS
<1>1. CASE \E w \in Workers : Dispatch(w)
  BY <1>1, RefuseStep, SucceedStep, FailStep, InvalidStep, SendInvalidStep, SendDeadStep,
     AckOkStep, AckFailedStep, EvictStep, NackStep, OutcomeCases DEF Dispatch
<1>2. CASE \E w \in Workers, m \in Msgs : Deliver(w, m)
  BY <1>2, DeliverStep
<1>3. CASE (\E m \in Msgs : Redeliver(m) \/ Sweep(m)) \/ Stop
  BY <1>3, RedeliverStep, SweepStep, StopStep
<1>4. CASE Finished \/ UNCHANGED vars
  BY <1>4, ZenonT(30) DEF Finished, vars, NativeCount, workerVars, IndInv, TypeOK, Justified, Counted, Spent,
     NoLoss, CountSurvives, DeadLetterAfterBudget
<1> QED
  BY <1>1, <1>2, <1>3, <1>4 DEF Next

(* Every reachable state satisfies the invariant. *)
LEMMA Inductive == Spec => []IndInv
<1>1. Init => IndInv
  BY IndInit
<1>2. IndInv /\ [Next]_vars => IndInv'
  BY IndNext
<1> QED
  BY <1>1, <1>2, PTL DEF Spec

-----------------------------------------------------------------------------
(* The settlement switch keeps its types. *)
THEOREM TypeCorrect == Spec => []TypeOK
<1>1. IndInv => TypeOK
  BY DEF IndInv
<1> QED
  BY <1>1, Inductive, PTL

(* No message leaves the source unaccounted for, whatever calls to the     *)
(* source and the sinks fail and however deliveries overlap.               *)
THEOREM NoLossCorrect == Spec => []NoLoss
<1>1. IndInv => NoLoss
  BY DEF IndInv
<1> QED
  BY <1>1, Inductive, PTL

(* The tracker knows every failure of a message that can still come back:  *)
(* a failed Ack, a Nack or a late eviction does not restart its budget.    *)
THEOREM CountCorrect == Spec => []CountSurvives
<1>1. IndInv => CountSurvives
  BY DEF IndInv
<1> QED
  BY <1>1, Inductive, PTL

(* No message is dead-lettered before its budget is spent.                 *)
THEOREM BudgetCorrect == Spec => []DeadLetterAfterBudget
<1>1. IndInv => DeadLetterAfterBudget
  BY DEF IndInv
<1> QED
  BY <1>1, Inductive, PTL
=============================================================================
