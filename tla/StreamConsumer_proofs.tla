----------------------- MODULE StreamConsumer_proofs ------------------------
(***************************************************************************)
(* The push path for every set of messages, pool, gate and setup: a        *)
(* message is in one place, the gate's credits are those of the wrapped    *)
(* deliveries, and the hand-off to the workers never blocks.               *)
(*                                                                         *)
(* A goroutine holds a message exactly while it is at one of the places    *)
(* that have one (Holding), a wrapped delivery is between the gate and its *)
(* settle (Wrapped), and the drain starts only once the context is done    *)
(* (Draining).                                                             *)
(***************************************************************************)
EXTENDS StreamConsumer, FiniteSetTheorems, TLAPS

Typed ==
  /\ fate \in [Msgs -> {"unsent", "flow", "acked", "shed", "lost"}]
  /\ ch \in Seq(Msgs)
  /\ ctxDone \in BOOLEAN
  /\ cur \in Msgs \cup {NoMsg}
  /\ item \in Msgs \cup {NoMsg}
  /\ wrapped \in SUBSET Msgs
  /\ workerCh \in SUBSET Msgs
  /\ wpc \in [Workers -> {"idle", "handle", "ack", "nack", "requeue", "exited"}]
  /\ work \in [Workers -> Msgs \cup {NoMsg}]

Holding ==
  /\ cur \in Msgs <=> stream = "emit"
  /\ item \in Msgs <=> ingest \in {"limit", "asleep", "pace", "gate", "hand", "giveup"}
  /\ \A w \in Workers : work[w] \in Msgs <=> wpc[w] \in {"handle", "ack", "nack", "requeue"}

Draining ==
  /\ run # "serve" => ctxDone
  /\ \A m \in Msgs : fate[m] = "lost" => ctxDone

InCh(m) == \E i \in DOMAIN ch : ch[i] = m
Held(m) == \E w \in Workers : work[w] = m

(* A message under way is in one of five places, any other in none. *)
OneAt(m) ==
  /\ InCh(m) => cur # m /\ item # m /\ m \notin workerCh /\ ~Held(m)
  /\ cur = m => item # m /\ m \notin workerCh /\ ~Held(m)
  /\ item = m => m \notin workerCh /\ ~Held(m)
  /\ m \in workerCh => ~Held(m)
  /\ fate[m] = "flow" <=> InCh(m) \/ cur = m \/ item = m \/ m \in workerCh \/ Held(m)

(* And there it is once. *)
Once ==
  /\ \A i, j \in DOMAIN ch : ch[i] = ch[j] => i = j
  /\ \A v, w \in Workers : work[v] \in Msgs /\ work[v] = work[w] => v = w

Processing(m) == \E w \in Workers : work[w] = m /\ wpc[w] \in {"handle", "ack", "nack"}

Wrapped ==
  \A m \in Msgs : m \in wrapped <=> (ingest = "hand" /\ item = m) \/ m \in workerCh \/ Processing(m)

Credits == IsFiniteSet(wrapped) /\ tokens = Cardinality(wrapped) /\ tokens <= MaxInFlight

IndInv ==
  /\ Typed /\ Holding /\ Draining /\ Once /\ Wrapped /\ Credits
  /\ \A m \in Msgs : OneAt(m)

-----------------------------------------------------------------------------
(* What the pieces of a step do.                                           *)

(* The positions and the messages of the channel of the broker. *)
LEMMA SeqElements ==
  ASSUME NEW R, NEW s \in Seq(R)
  PROVE  Len(s) \in Nat /\ DOMAIN s = 1..Len(s) /\ \A p \in DOMAIN s : s[p] \in R
  OBVIOUS

(* A send appends to the channel. *)
LEMMA Appended ==
  ASSUME NEW R, NEW s \in Seq(R), NEW x \in R
  PROVE  /\ Append(s, x) \in Seq(R) /\ DOMAIN Append(s, x) = 1..(Len(s) + 1)
         /\ Append(s, x)[Len(s) + 1] = x
         /\ \A i \in 1..Len(s) : Append(s, x)[i] = s[i]
  OBVIOUS

(* A receive takes the first message off the channel. *)
LEMMA HeadTail ==
  ASSUME NEW R, NEW s \in Seq(R), s # <<>>
  PROVE  /\ Len(s) \in Nat \ {0} /\ Head(s) = s[1] /\ Head(s) \in R /\ Tail(s) \in Seq(R)
         /\ DOMAIN Tail(s) = 1..(Len(s) - 1)
         /\ \A i \in 1..(Len(s) - 1) : Tail(s)[i] = s[i + 1]
  OBVIOUS

(* Only message x moves. *)
Elsewhere(x) ==
  \A n \in Msgs \ {x} :
    /\ InCh(n)' <=> InCh(n)
    /\ cur' = n <=> cur = n
    /\ item' = n <=> item = n
    /\ n \in workerCh' <=> n \in workerCh
    /\ Held(n)' <=> Held(n)
    /\ fate'[n] = "flow" <=> fate[n] = "flow"

(* A step that moves message x only has to account for x. *)
LEMMA Moves ==
  ASSUME IndInv, NEW x, Elsewhere(x), x \in Msgs => OneAt(x)'
  PROVE  \A m \in Msgs : OneAt(m)'
<1>1. ASSUME NEW m \in Msgs, m # x PROVE OneAt(m)'
  <2>1. OneAt(m)
    BY DEF IndInv
  <2> QED
    BY <1>1, <2>1, Zenon DEF OneAt, Elsewhere
<1> QED
  BY <1>1

(* The broker takes message m in, into its channel or to Stream. *)
LEMMA Sent ==
  ASSUME IndInv, NEW m \in Msgs, BrokerSend(m), ~InCh(m)
  PROVE  /\ ch' \in Seq(Msgs) /\ cur' \in Msgs \cup {NoMsg}
         /\ cur' \in Msgs <=> stream' = "emit"
         /\ \A i, j \in DOMAIN ch' : ch'[i] = ch'[j] => i = j
         /\ \A n \in Msgs : n # m => (InCh(n)' <=> InCh(n)) /\ (cur' = n <=> cur = n)
         /\ cur # m => \/ InCh(m)' /\ cur' # m
                       \/ ~InCh(m)' /\ cur' = m
<1>1. ch \in Seq(Msgs) /\ cur \in Msgs \cup {NoMsg} /\ (cur \in Msgs <=> stream = "emit")
      /\ \A i, j \in DOMAIN ch : ch[i] = ch[j] => i = j
  BY DEF IndInv, Typed, Holding, Once
<1>2. Len(ch) \in Nat /\ DOMAIN ch = 1..Len(ch)
  BY <1>1, SeqElements
<1>3. CASE ch' = Append(ch, m) /\ UNCHANGED <<stream, cur>>
  <2>1. /\ ch' \in Seq(Msgs) /\ DOMAIN ch' = 1..(Len(ch) + 1)
        /\ ch'[Len(ch) + 1] = m /\ \A i \in 1..Len(ch) : ch'[i] = ch[i]
    BY <1>1, <1>3, Appended
  <2>2. \A i \in 1..Len(ch) : ch[i] # m
    BY <1>2 DEF InCh
  <2> DEFINE k == Len(ch)
  <2>3. /\ k \in Nat /\ DOMAIN ch = 1..k /\ DOMAIN ch' = 1..(k + 1) /\ ch'[k + 1] = m
        /\ \A i \in 1..k : ch'[i] = ch[i] /\ ch[i] # m
    BY <1>2, <2>1, <2>2
  <2> HIDE DEF k
  <2>4. \A i \in DOMAIN ch' : i \in 1..k \/ i = k + 1
    BY <2>3
  <2>5. \A i \in 1..k : i \in DOMAIN ch'
    BY <2>3
  <2>6. \A i, j \in DOMAIN ch' : ch'[i] = ch'[j] => i = j
    BY <1>1, <2>3, <2>4
  <2>7. ASSUME NEW n \in Msgs, n # m PROVE InCh(n)' <=> InCh(n)
    BY <2>3, <2>4, <2>5, <2>7 DEF InCh
  <2>8. InCh(m)'
    <3>1. k + 1 \in DOMAIN ch'
      BY <2>3
    <3> QED
      BY <2>3, <3>1 DEF InCh
  <2> QED
    BY <1>1, <1>3, <2>1, <2>6, <2>7, <2>8
<1>4. CASE stream = "recv" /\ stream' = "emit" /\ cur' = m /\ UNCHANGED ch
  <2>1. cur \notin Msgs
    BY <1>1, <1>4
  <2>2. \A n : InCh(n)' <=> InCh(n)
    BY <1>4 DEF InCh
  <2> QED
    BY <1>1, <1>4, <2>1, <2>2
<1> QED
  BY <1>3, <1>4 DEF BrokerSend

(* What the workers hold after worker w has taken or let go of a message. *)
LEMMA HeldAfter ==
  ASSUME IndInv, NEW w \in Workers, NEW y \in Msgs \cup {NoMsg}, work' = [work EXCEPT ![w] = y]
  PROVE  /\ work' \in [Workers -> Msgs \cup {NoMsg}]
         /\ \A v \in Workers : work'[v] = IF v = w THEN y ELSE work[v]
         /\ \A n \in Msgs : n # y /\ n # work[w] => (Held(n)' <=> Held(n))
         /\ y \in Msgs => Held(y)'
         /\ \A n \in Msgs : n = work[w] /\ n # y => ~Held(n)'
<1>1. work \in [Workers -> Msgs \cup {NoMsg}]
  BY DEF IndInv, Typed
<1>2. work' \in [Workers -> Msgs \cup {NoMsg}] /\ \A v \in Workers : work'[v] = IF v = w THEN y ELSE work[v]
  BY <1>1
<1>3. \A v \in Workers : work[w] \in Msgs /\ work[v] = work[w] => v = w
  BY DEF IndInv, Once
<1>4. ASSUME NEW n \in Msgs, n # y, n # work[w] PROVE Held(n)' <=> Held(n)
  BY <1>2, <1>4, Zenon DEF Held
<1>5. y \in Msgs => Held(y)'
  BY <1>2 DEF Held
<1>6. ASSUME NEW n \in Msgs, n = work[w], n # y PROVE ~Held(n)'
  BY <1>2, <1>3, <1>6 DEF Held
<1> QED
  BY <1>2, <1>4, <1>5, <1>6

(* A release gives a credit back if and only if the delivery has one. *)
LEMMA Released ==
  ASSUME IndInv, NEW m, Release(m)
  PROVE  Credits' /\ wrapped' = wrapped \ {m}
<1>1. IsFiniteSet(wrapped) /\ tokens = Cardinality(wrapped) /\ tokens <= MaxInFlight
      /\ Cardinality(wrapped) \in Nat
  BY FS_CardinalityType DEF IndInv, Credits
<1>2. wrapped' = wrapped \ {m} /\ tokens' = IF m \in wrapped THEN tokens - 1 ELSE tokens
  BY DEF Release
<1>3. /\ IsFiniteSet(wrapped \ {m})
      /\ Cardinality(wrapped \ {m}) = IF m \in wrapped THEN Cardinality(wrapped) - 1 ELSE Cardinality(wrapped)
  BY <1>1, FS_RemoveElement
<1> QED
  BY <1>1, <1>2, <1>3, StreamAssumption DEF StreamAssumption, Credits

(* The invariant holds before anything is sent. *)
LEMMA IndInit == Init => IndInv
<1> SUFFICES ASSUME Init PROVE IndInv
  OBVIOUS
<1>1. Typed /\ Holding /\ Draining /\ Once
  <2>1. Typed
    <3>1. fate \in [Msgs -> {"unsent", "flow", "acked", "shed", "lost"}] /\ ch \in Seq(Msgs)
      BY DEF Init
    <3>2. /\ wpc \in [Workers -> {"idle", "handle", "ack", "nack", "requeue", "exited"}]
          /\ work \in [Workers -> Msgs \cup {NoMsg}]
      BY DEF Init
    <3> QED
      BY <3>1, <3>2, Zenon DEF Init, Typed
  <2>2. Holding
    BY StreamAssumption DEF StreamAssumption, Init, Holding
  <2>3. Draining /\ Once
    BY StreamAssumption DEF StreamAssumption, Init, Draining, Once
  <2> QED
    BY <2>1, <2>2, <2>3
<1>2. Credits
  BY FS_EmptySet, StreamAssumption DEF StreamAssumption, Init, Credits
<1>3. \A m \in Msgs : ~InCh(m) /\ ~Held(m) /\ cur # m /\ item # m /\ ~Processing(m)
  BY StreamAssumption DEF StreamAssumption, Init, InCh, Held, Processing
<1>4. Wrapped /\ \A m \in Msgs : OneAt(m)
  BY <1>3 DEF Init, Wrapped, OneAt
<1> QED
  BY <1>1, <1>2, <1>4 DEF IndInv

-----------------------------------------------------------------------------
(* The steps.                                                              *)

(* Where the messages are and who holds them does not change. *)
LEMMA Untouched ==
  ASSUME IndInv, UNCHANGED <<fate, ch, cur, item, workerCh, work>>
  PROVE  (\A m \in Msgs : OneAt(m)') /\ Once'
<1>1. Once'
  BY DEF IndInv, Once
<1>2. \A m \in Msgs : OneAt(m)'
  BY DEF IndInv, OneAt, InCh, Held
<1> QED
  BY <1>1, <1>2

(* A producer sends a new message to the broker. *)
LEMMA PublishStep ==
  ASSUME IndInv, NEW m \in Msgs, Publish(m)
  PROVE  IndInv'
<1>1. /\ fate[m] = "unsent" /\ BrokerSend(m) /\ fate' = [fate EXCEPT ![m] = "flow"]
      /\ UNCHANGED <<ctxDone, run, ingest, item, tokens, wrapped, workerCh, wpc, work>>
  BY DEF Publish, ingestVars, gateVars, workerVars
<1>2. ~InCh(m) /\ cur # m /\ item # m /\ m \notin workerCh /\ ~Held(m)
  BY <1>1 DEF IndInv, OneAt
<1>3. /\ ch' \in Seq(Msgs) /\ cur' \in Msgs \cup {NoMsg}
      /\ cur' \in Msgs <=> stream' = "emit"
      /\ \A i, j \in DOMAIN ch' : ch'[i] = ch'[j] => i = j
      /\ \A n \in Msgs : n # m => (InCh(n)' <=> InCh(n)) /\ (cur' = n <=> cur = n)
      /\ \/ InCh(m)' /\ cur' # m
         \/ ~InCh(m)' /\ cur' = m
  BY <1>1, <1>2, Sent
<1>4. fate' \in [Msgs -> {"unsent", "flow", "acked", "shed", "lost"}]
      /\ \A n \in Msgs : fate'[n] = IF n = m THEN "flow" ELSE fate[n]
  BY <1>1 DEF IndInv, Typed
<1>5. Typed'
  BY <1>1, <1>3, <1>4 DEF IndInv, Typed
<1>6. Holding'
  BY <1>1, <1>3 DEF IndInv, Holding
<1>7. Draining'
  BY <1>1, <1>4 DEF IndInv, Draining
<1>8. Once'
  BY <1>1, <1>3 DEF IndInv, Once
<1>9. Wrapped' /\ Credits'
  BY <1>1 DEF IndInv, Wrapped, Credits, Processing
<1>10. \A n : Held(n)' <=> Held(n)
  BY <1>1 DEF Held
<1>11. OneAt(m)'
  BY <1>1, <1>2, <1>3, <1>4, <1>10, Zenon DEF OneAt
<1>12. Elsewhere(m)
  BY <1>1, <1>3, <1>4, <1>10 DEF Elsewhere
<1> QED
  BY <1>5, <1>6, <1>7, <1>8, <1>9, <1>11, <1>12, Moves, Zenon DEF IndInv

(* Stream takes a message from the channel. *)
LEMMA ReceiveStep ==
  ASSUME IndInv, Receive
  PROVE  IndInv'
<1> DEFINE k == Len(ch)
<1>1. /\ stream = "recv" /\ ch # <<>> /\ cur' = Head(ch) /\ ch' = Tail(ch) /\ stream' = "emit"
      /\ UNCHANGED <<fate, ctxDone, run, ingest, item, tokens, wrapped, workerCh, wpc, work>>
  BY DEF Receive, ingestVars, gateVars, workerVars
<1>2. ch \in Seq(Msgs) /\ cur \notin Msgs
      /\ \A i, j \in DOMAIN ch : ch[i] = ch[j] => i = j
  BY <1>1 DEF IndInv, Typed, Holding, Once
<1>3. PICK m \in Msgs :
        /\ k \in Nat \ {0} /\ DOMAIN ch = 1..k /\ ch[1] = m /\ cur' = m
        /\ ch' \in Seq(Msgs) /\ DOMAIN ch' = 1..(k - 1)
        /\ \A i \in 1..(k - 1) : ch'[i] = ch[i + 1]
  BY <1>1, <1>2, HeadTail, SeqElements
<1> HIDE DEF k
<1>4. 1 \in DOMAIN ch /\ \A i \in DOMAIN ch' : i + 1 \in DOMAIN ch /\ i + 1 # 1 /\ ch'[i] = ch[i + 1]
  BY <1>3
<1>5. \A i, j \in DOMAIN ch' : ch'[i] = ch'[j] => i = j
  BY <1>2, <1>3, <1>4
<1>6. ~InCh(m)'
  BY <1>2, <1>3, <1>4 DEF InCh
<1>7. ASSUME NEW n \in Msgs, n # m PROVE InCh(n)' <=> InCh(n)
  <2>1. ASSUME NEW i \in DOMAIN ch, ch[i] = n PROVE InCh(n)'
    <3>1. i - 1 \in DOMAIN ch' /\ ch'[i - 1] = ch[i]
      BY <1>3, <1>7, <2>1
    <3> QED
      BY <2>1, <3>1 DEF InCh
  <2> QED
    BY <1>4, <2>1 DEF InCh
<1>8. InCh(m)
  BY <1>3, <1>4 DEF InCh
<1>9. Typed'
  BY <1>1, <1>3 DEF IndInv, Typed
<1>10. Holding'
  BY <1>1, <1>3 DEF IndInv, Holding
<1>11. Draining'
  BY <1>1 DEF IndInv, Draining
<1>12. Once'
  BY <1>1, <1>5 DEF IndInv, Once
<1>13. Wrapped' /\ Credits'
  BY <1>1 DEF IndInv, Wrapped, Credits, Processing
<1>14. \A n : Held(n)' <=> Held(n)
  BY <1>1 DEF Held
<1>15. OneAt(m)'
  <2>1. OneAt(m)
    BY <1>3 DEF IndInv
  <2> QED
    BY <1>1, <1>3, <1>6, <1>8, <1>14, <2>1, Zenon DEF OneAt
<1>16. Elsewhere(m)
  <2>1. \A n \in Msgs : n # m => (cur' = n <=> cur = n)
    BY <1>2, <1>3
  <2> QED
    BY <1>1, <1>7, <1>14, <2>1 DEF Elsewhere
<1> QED
  BY <1>9, <1>10, <1>11, <1>12, <1>13, <1>15, <1>16, Moves, Zenon DEF IndInv

(* Stream hands its message to ingest. *)
LEMMA EmitStep ==
  ASSUME IndInv, Emit
  PROVE  IndInv'
<1>1. /\ stream = "emit" /\ ingest = "read" /\ ingest' \in {"limit", "pace"} /\ item' = cur
      /\ stream' = "recv" /\ cur' = NoMsg
      /\ UNCHANGED <<fate, ch, ctxDone, run, tokens, wrapped, workerCh, wpc, work>>
  BY DEF Emit, gateVars, workerVars
<1>2. item \notin Msgs /\ NoMsg \notin Msgs
  BY <1>1, StreamAssumption DEF StreamAssumption, IndInv, Holding
<1>3. PICK m \in Msgs : cur = m
  BY <1>1 DEF IndInv, Holding
<1>4. Typed'
  BY <1>1, <1>3 DEF IndInv, Typed
<1>5. Holding'
  BY <1>1, <1>2, <1>3 DEF IndInv, Holding
<1>6. Draining'
  BY <1>1 DEF IndInv, Draining
<1>7. Once'
  BY <1>1 DEF IndInv, Once
<1>8. Credits'
  BY <1>1 DEF IndInv, Credits
<1>9. Wrapped'
  BY <1>1 DEF IndInv, Wrapped, Processing
<1>10. \A n : (Held(n)' <=> Held(n)) /\ (InCh(n)' <=> InCh(n))
  BY <1>1 DEF Held, InCh
<1>11. Elsewhere(m)
  BY <1>1, <1>2, <1>3, <1>10 DEF Elsewhere
<1>12. OneAt(m)'
  <2>1. OneAt(m) /\ cur' # m
    BY <1>1, <1>2 DEF IndInv
  <2> QED
    BY <1>1, <1>3, <1>10, <2>1, Zenon DEF OneAt
<1> QED
  BY <1>4, <1>5, <1>6, <1>7, <1>8, <1>9, <1>11, <1>12, Moves, Zenon DEF IndInv

(* Stream sees the end of its context; what it holds is lost. *)
LEMMA StreamReturnsStep ==
  ASSUME IndInv, StreamReturns
  PROVE  IndInv'
<1>1. /\ stream' = "done" /\ cur' = NoMsg /\ ctxDone /\ run' = "drain"
      /\ fate' = [m \in Msgs |-> IF m = cur THEN "lost" ELSE fate[m]]
      /\ UNCHANGED <<ch, ctxDone, ingest, item, tokens, wrapped, workerCh, wpc, work>>
  BY DEF StreamReturns, ingestVars, gateVars, workerVars
<1>2. NoMsg \notin Msgs
  BY StreamAssumption DEF StreamAssumption
<1>3. PICK x : x = cur
  OBVIOUS
<1>4. \A n \in Msgs : fate'[n] = IF n = x THEN "lost" ELSE fate[n]
  BY <1>1, <1>3
<1>5. Typed'
  <2>1. fate' \in [Msgs -> {"unsent", "flow", "acked", "shed", "lost"}]
    BY <1>1 DEF IndInv, Typed
  <2> QED
    BY <1>1, <2>1 DEF IndInv, Typed
<1>6. Holding'
  BY <1>1, <1>2 DEF IndInv, Holding
<1>7. Draining'
  BY <1>1 DEF Draining
<1>8. Once'
  BY <1>1 DEF IndInv, Once
<1>9. Wrapped' /\ Credits'
  BY <1>1 DEF IndInv, Wrapped, Credits, Processing
<1>10. \A n : (Held(n)' <=> Held(n)) /\ (InCh(n)' <=> InCh(n))
  BY <1>1 DEF Held, InCh
<1>11. Elsewhere(x)
  BY <1>1, <1>2, <1>3, <1>4, <1>10 DEF Elsewhere
<1>12. ASSUME x \in Msgs PROVE OneAt(x)'
  <2>1. OneAt(x) /\ cur' # x /\ fate'[x] # "flow"
    BY <1>1, <1>2, <1>4, <1>12 DEF IndInv
  <2> QED
    BY <1>1, <1>3, <1>10, <2>1, Zenon DEF OneAt
<1> QED
  BY <1>5, <1>6, <1>7, <1>8, <1>9, <1>11, <1>12, Moves, Zenon DEF IndInv

(* The limiter and the breaker. *)
LEMMA GovernorStep ==
  ASSUME IndInv, ingest \in {"limit", "asleep", "pace"}, ingest' \in {"limit", "asleep", "pace", "gate"},
         UNCHANGED <<fate, ctxDone, run, ch, stream, cur, item, tokens, wrapped, workerCh, wpc, work>>
  PROVE  IndInv'
<1>1. Typed' /\ Draining'
  BY DEF IndInv, Typed, Draining
<1>2. Holding'
  BY DEF IndInv, Holding
<1>3. Wrapped' /\ Credits'
  BY DEF IndInv, Wrapped, Credits, Processing
<1> QED
  BY <1>1, <1>2, <1>3, Untouched, Zenon DEF IndInv

(* The delivery that ingest admits is not in anyone else's hands. *)
LEMMA ItemAlone ==
  ASSUME IndInv, ingest \in {"limit", "asleep", "pace", "gate", "hand", "giveup"}
  PROVE  \E x \in Msgs : /\ item = x /\ fate[x] = "flow" /\ ~InCh(x) /\ cur # x
                         /\ x \notin workerCh /\ ~Held(x) /\ ~Processing(x)
                         /\ x \in wrapped <=> ingest = "hand"
<1>1. PICK x \in Msgs : item = x
  BY DEF IndInv, Holding
<1>2. fate[x] = "flow" /\ ~InCh(x) /\ cur # x /\ x \notin workerCh /\ ~Held(x)
  BY <1>1, Zenon DEF IndInv, OneAt
<1>3. ~Processing(x)
  BY <1>2 DEF Held, Processing
<1>4. x \in wrapped <=> ingest = "hand"
  BY <1>1, <1>2, <1>3 DEF IndInv, Wrapped
<1> QED
  BY <1>1, <1>2, <1>3, <1>4

(* ingest gets a credit and wraps the delivery. *)
LEMMA AdmitStep ==
  ASSUME IndInv, Admit
  PROVE  IndInv'
<1>1. /\ ingest = "gate" /\ tokens < MaxInFlight /\ tokens' = tokens + 1
      /\ wrapped' = wrapped \cup {item} /\ ingest' = "hand"
      /\ UNCHANGED <<fate, ctxDone, run, ch, stream, cur, item, workerCh, wpc, work>>
  BY DEF Admit, brokerVars, workerVars
<1>2. PICK x \in Msgs : item = x /\ x \notin wrapped
  BY <1>1, ItemAlone
<1>3. Typed' /\ Draining'
  BY <1>1, <1>2 DEF IndInv, Typed, Draining
<1>4. Holding'
  BY <1>1 DEF IndInv, Holding
<1>5. Wrapped'
  BY <1>1, <1>2 DEF IndInv, Wrapped, Processing
<1>6. Credits'
  <2>1. IsFiniteSet(wrapped) /\ tokens = Cardinality(wrapped) /\ Cardinality(wrapped) \in Nat
    BY FS_CardinalityType DEF IndInv, Credits
  <2>2. IsFiniteSet(wrapped \cup {x}) /\ Cardinality(wrapped \cup {x}) = Cardinality(wrapped) + 1
    BY <1>2, <2>1, FS_AddElement
  <2> QED
    BY <1>1, <1>2, <2>1, <2>2, StreamAssumption DEF StreamAssumption, Credits
<1> QED
  BY <1>1, <1>3, <1>4, <1>5, <1>6, Untouched, Zenon DEF IndInv

(* ingest finds the gate full and sheds the delivery. *)
LEMMA ShedNewestStep ==
  ASSUME IndInv, ShedNewest
  PROVE  IndInv'
<1>1. /\ ingest = "gate" /\ fate' = [fate EXCEPT ![item] = "shed"] /\ ingest' = "read" /\ item' = NoMsg
      /\ UNCHANGED <<ctxDone, run, ch, stream, cur, tokens, wrapped, workerCh, wpc, work>>
  BY DEF ShedNewest, brokerVars, gateVars, workerVars
<1>2. PICK x \in Msgs : /\ item = x /\ ~InCh(x) /\ cur # x /\ x \notin workerCh /\ ~Held(x)
  BY <1>1, ItemAlone
<1>3. NoMsg \notin Msgs
  BY StreamAssumption DEF StreamAssumption
<1>4. fate' \in [Msgs -> {"unsent", "flow", "acked", "shed", "lost"}]
      /\ \A n \in Msgs : fate'[n] = IF n = x THEN "shed" ELSE fate[n]
  BY <1>1, <1>2 DEF IndInv, Typed
<1>5. Typed'
  BY <1>1, <1>4 DEF IndInv, Typed
<1>6. Holding'
  BY <1>1, <1>3 DEF IndInv, Holding
<1>7. Draining'
  BY <1>1, <1>4 DEF IndInv, Draining
<1>8. Once'
  BY <1>1 DEF IndInv, Once
<1>9. Wrapped' /\ Credits'
  BY <1>1 DEF IndInv, Wrapped, Credits, Processing
<1>10. \A n : (Held(n)' <=> Held(n)) /\ (InCh(n)' <=> InCh(n))
  BY <1>1 DEF Held, InCh
<1>11. Elsewhere(x)
  BY <1>1, <1>2, <1>3, <1>4, <1>10 DEF Elsewhere
<1>12. OneAt(x)'
  <2>1. item' # x /\ fate'[x] # "flow"
    BY <1>1, <1>3, <1>4
  <2> QED
    BY <1>1, <1>2, <1>10, <2>1, Zenon DEF OneAt
<1> QED
  BY <1>5, <1>6, <1>7, <1>8, <1>9, <1>11, <1>12, Moves, Zenon DEF IndInv

(* ingest puts the wrapped delivery into workerCh. *)
LEMMA HandOffStep ==
  ASSUME IndInv, HandOff
  PROVE  IndInv'
<1>1. /\ ingest = "hand" /\ workerCh' = workerCh \cup {item} /\ ingest' = "read" /\ item' = NoMsg
      /\ UNCHANGED <<fate, ctxDone, run, ch, stream, cur, tokens, wrapped, wpc, work>>
  BY DEF HandOff, brokerVars, gateVars, workerVars
<1>2. PICK x \in Msgs : /\ item = x /\ fate[x] = "flow" /\ ~InCh(x) /\ cur # x /\ ~Held(x)
  BY <1>1, ItemAlone
<1>3. NoMsg \notin Msgs
  BY StreamAssumption DEF StreamAssumption
<1>4. Typed' /\ Draining'
  BY <1>1, <1>2 DEF IndInv, Typed, Draining
<1>5. Holding'
  BY <1>1, <1>3 DEF IndInv, Holding
<1>6. Once'
  BY <1>1 DEF IndInv, Once
<1>7. Credits'
  BY <1>1 DEF IndInv, Credits
<1>8. Wrapped'
  BY <1>1, <1>2 DEF IndInv, Wrapped, Processing
<1>9. \A n : (Held(n)' <=> Held(n)) /\ (InCh(n)' <=> InCh(n))
  BY <1>1 DEF Held, InCh
<1>10. Elsewhere(x)
  BY <1>1, <1>2, <1>3, <1>9 DEF Elsewhere
<1>11. OneAt(x)'
  <2>1. item' # x /\ x \in workerCh'
    BY <1>1, <1>2, <1>3
  <2> QED
    BY <1>1, <1>2, <1>9, <2>1, Zenon DEF OneAt
<1> QED
  BY <1>4, <1>5, <1>6, <1>7, <1>8, <1>10, <1>11, Moves, Zenon DEF IndInv

(* ingest sees the end of the context while it waits. *)
LEMMA AdmitCancelledStep ==
  ASSUME IndInv, AdmitCancelled
  PROVE  IndInv'
<1>1. /\ ingest \in {"asleep", "pace", "gate", "hand"} /\ ingest' = "giveup" /\ Release(item)
      /\ UNCHANGED <<fate, ctxDone, run, ch, stream, cur, item, workerCh, wpc, work>>
  BY DEF AdmitCancelled, brokerVars, workerVars
<1>2. PICK x \in Msgs : item = x /\ x \notin workerCh /\ ~Processing(x)
  BY <1>1, ItemAlone
<1>3. Credits' /\ wrapped' = wrapped \ {x}
  BY <1>1, <1>2, Released
<1>4. Typed' /\ Draining'
  BY <1>1, <1>3 DEF IndInv, Typed, Draining
<1>5. Holding'
  BY <1>1 DEF IndInv, Holding
<1>6. Wrapped'
  <2>1. \A n : Processing(n)' <=> Processing(n)
    BY <1>1 DEF Processing
  <2> QED
    BY <1>1, <1>2, <1>3, <2>1 DEF IndInv, Wrapped
<1> QED
  BY <1>1, <1>3, <1>4, <1>5, <1>6, Untouched, Zenon DEF IndInv

(* ingest Nacks the delivery it gave up. *)
LEMMA GiveUpStep ==
  ASSUME IndInv, GiveUp
  PROVE  IndInv'
<1>1. /\ ingest = "giveup" /\ ingest' = "done" /\ item' = NoMsg
      /\ UNCHANGED <<ctxDone, run, tokens, wrapped, workerCh, wpc, work>>
  BY DEF GiveUp, gateVars, workerVars
<1>2. PICK x \in Msgs : /\ item = x /\ fate[x] = "flow" /\ ~InCh(x) /\ cur # x
                        /\ x \notin workerCh /\ ~Held(x)
  BY <1>1, ItemAlone
<1>3. NoMsg \notin Msgs
  BY StreamAssumption DEF StreamAssumption
<1>4. \A n : Held(n)' <=> Held(n)
  BY <1>1 DEF Held
<1>5. Wrapped' /\ Credits'
  BY <1>1 DEF IndInv, Wrapped, Credits, Processing
<1>6. item' # x /\ \A n \in Msgs : n # x => (item' = n <=> item = n)
  BY <1>1, <1>2, <1>3
<1>7. CASE BrokerSend(x) /\ UNCHANGED fate
  <2>1. /\ ch' \in Seq(Msgs) /\ cur' \in Msgs \cup {NoMsg}
        /\ cur' \in Msgs <=> stream' = "emit"
        /\ \A i, j \in DOMAIN ch' : ch'[i] = ch'[j] => i = j
        /\ \A n \in Msgs : n # x => (InCh(n)' <=> InCh(n)) /\ (cur' = n <=> cur = n)
        /\ \/ InCh(x)' /\ cur' # x
           \/ ~InCh(x)' /\ cur' = x
    BY <1>2, <1>7, Sent
  <2>2. Typed' /\ Draining'
    BY <1>1, <1>7, <2>1 DEF IndInv, Typed, Draining
  <2>3. Holding'
    BY <1>1, <1>3, <2>1 DEF IndInv, Holding
  <2>4. Once'
    BY <1>1, <2>1 DEF IndInv, Once
  <2>5. Elsewhere(x)
    BY <1>1, <1>4, <1>6, <1>7, <2>1 DEF Elsewhere
  <2>6. OneAt(x)'
    BY <1>1, <1>2, <1>4, <1>6, <1>7, <2>1, Zenon DEF OneAt
  <2> QED
    BY <1>5, <2>2, <2>3, <2>4, <2>5, <2>6, Moves, Zenon DEF IndInv
<1>8. CASE SettleCancelled /\ fate' = [fate EXCEPT ![x] = "lost"] /\ UNCHANGED <<ch, stream, cur>>
  <2>1. fate' \in [Msgs -> {"unsent", "flow", "acked", "shed", "lost"}]
        /\ \A n \in Msgs : fate'[n] = IF n = x THEN "lost" ELSE fate[n]
    BY <1>8 DEF IndInv, Typed
  <2>2. Typed'
    BY <1>1, <1>8, <2>1 DEF IndInv, Typed
  <2>3. Draining'
    BY <1>1, <1>8 DEF IndInv, Draining, SettleCancelled
  <2>4. Holding'
    BY <1>1, <1>3, <1>8 DEF IndInv, Holding
  <2>5. Once'
    BY <1>1, <1>8 DEF IndInv, Once
  <2>6. \A n : InCh(n)' <=> InCh(n)
    BY <1>8 DEF InCh
  <2>7. Elsewhere(x)
    BY <1>1, <1>4, <1>6, <1>8, <2>1, <2>6 DEF Elsewhere
  <2>8. OneAt(x)'
    <3>1. fate'[x] # "flow"
      BY <2>1
    <3> QED
      BY <1>1, <1>2, <1>4, <1>6, <1>8, <2>6, <3>1, Zenon DEF OneAt
  <2> QED
    BY <1>5, <2>2, <2>3, <2>4, <2>5, <2>7, <2>8, Moves, Zenon DEF IndInv
<1> QED
  BY <1>2, <1>7, <1>8 DEF GiveUp, brokerVars

(* ingest ends without a delivery in hand. *)
LEMMA IngestReturnsStep ==
  ASSUME IndInv, IngestReturns
  PROVE  IndInv'
<1>1. /\ ingest = "read" /\ ingest' = "done"
      /\ UNCHANGED <<fate, ctxDone, run, ch, stream, cur, item, tokens, wrapped, workerCh, wpc, work>>
  BY DEF IngestReturns, brokerVars, gateVars, workerVars
<1>2. Typed' /\ Draining'
  BY <1>1 DEF IndInv, Typed, Draining
<1>3. Holding'
  BY <1>1 DEF IndInv, Holding
<1>4. Wrapped' /\ Credits'
  BY <1>1 DEF IndInv, Wrapped, Credits, Processing
<1> QED
  BY <1>1, <1>2, <1>3, <1>4, Untouched, Zenon DEF IndInv

(* A worker takes a delivery out of workerCh. *)
LEMMA TakeStep ==
  ASSUME IndInv, NEW w \in Workers, NEW m \in Msgs, Take(w, m)
  PROVE  IndInv'
<1>1. /\ wpc[w] = "idle" /\ m \in workerCh /\ workerCh' = workerCh \ {m}
      /\ work' = [work EXCEPT ![w] = m]
      /\ UNCHANGED <<fate, ctxDone, run, ch, stream, cur, ingest, item, tokens, wrapped>>
  BY DEF Take, brokerVars, ingestVars, gateVars
<1>2. PICK s \in {"handle", "nack"} : wpc' = [wpc EXCEPT ![w] = s]
  BY Zenon DEF Take
<1>3. work[w] \notin Msgs
  BY <1>1 DEF IndInv, Holding
<1>4. /\ work' \in [Workers -> Msgs \cup {NoMsg}]
      /\ \A v \in Workers : work'[v] = IF v = w THEN m ELSE work[v]
      /\ \A n \in Msgs : n # m => (Held(n)' <=> Held(n))
      /\ Held(m)'
  BY <1>1, <1>3, HeldAfter, Zenon
<1>5. wpc' \in [Workers -> {"idle", "handle", "ack", "nack", "requeue", "exited"}]
      /\ \A v \in Workers : wpc'[v] = IF v = w THEN s ELSE wpc[v]
  BY <1>2 DEF IndInv, Typed
<1>6. ~Held(m) /\ ~InCh(m) /\ cur # m /\ item # m /\ fate[m] = "flow"
  BY <1>1, Zenon DEF IndInv, OneAt
<1>7. Typed' /\ Draining'
  BY <1>1, <1>4, <1>5 DEF IndInv, Typed, Draining
<1>8. Holding'
  BY <1>1, <1>4, <1>5 DEF IndInv, Holding
<1>9. Once'
  <2>1. \A v \in Workers : work[v] # m
    BY <1>6 DEF Held
  <2> QED
    BY <1>1, <1>4, <2>1 DEF IndInv, Once
<1>10. Credits'
  BY <1>1 DEF IndInv, Credits
<1>11. Wrapped'
  <2>1. Processing(m)'
    BY <1>4, <1>5 DEF Processing
  <2>2. ASSUME NEW n \in Msgs, n # m PROVE Processing(n)' <=> Processing(n)
    BY <1>3, <1>4, <1>5, <2>2 DEF Processing
  <2>3. m \in wrapped
    BY <1>1 DEF IndInv, Wrapped
  <2> QED
    BY <1>1, <2>1, <2>2, <2>3 DEF IndInv, Wrapped
<1>12. \A n : InCh(n)' <=> InCh(n)
  BY <1>1 DEF InCh
<1>13. Elsewhere(m)
  BY <1>1, <1>4, <1>12 DEF Elsewhere
<1>14. OneAt(m)'
  <2>1. m \notin workerCh'
    BY <1>1
  <2> QED
    BY <1>1, <1>4, <1>6, <1>12, <2>1, Zenon DEF OneAt
<1> QED
  BY <1>7, <1>8, <1>9, <1>10, <1>11, <1>13, <1>14, Moves, Zenon DEF IndInv

(* A worker between two places where it holds the same message, or none.  *)
LEMMA WorkerMoves ==
  ASSUME IndInv, NEW w \in Workers, NEW s \in {"ack", "nack", "exited"}, wpc' = [wpc EXCEPT ![w] = s],
         IF s = "exited" THEN wpc[w] = "idle" ELSE wpc[w] = "handle",
         UNCHANGED <<fate, ctxDone, run, ch, stream, cur, ingest, item, tokens, wrapped, workerCh, work>>
  PROVE  IndInv'
<1>1. wpc' \in [Workers -> {"idle", "handle", "ack", "nack", "requeue", "exited"}]
      /\ \A v \in Workers : wpc'[v] = IF v = w THEN s ELSE wpc[v]
  BY DEF IndInv, Typed
<1>2. Typed' /\ Draining'
  BY <1>1 DEF IndInv, Typed, Draining
<1>3. Holding'
  BY <1>1 DEF IndInv, Holding
<1>4. \A n \in Msgs : Processing(n)' <=> Processing(n)
  <2>1. \A v \in Workers : wpc'[v] \in {"handle", "ack", "nack"} <=> wpc[v] \in {"handle", "ack", "nack"}
    BY <1>1
  <2> QED
    BY <2>1 DEF Processing
<1>5. Wrapped' /\ Credits'
  BY <1>4 DEF IndInv, Wrapped, Credits
<1> QED
  BY <1>2, <1>3, <1>5, Untouched, Zenon DEF IndInv

(* The message a worker holds is nowhere else, and wrapped until released. *)
LEMMA WorkAlone ==
  ASSUME IndInv, NEW w \in Workers, wpc[w] \in {"handle", "ack", "nack", "requeue"}
  PROVE  \E x \in Msgs : /\ work[w] = x /\ fate[x] = "flow" /\ ~InCh(x) /\ cur # x /\ item # x
                         /\ x \notin workerCh /\ Held(x)
                         /\ \A v \in Workers : work[v] = x => v = w
<1>1. PICK x \in Msgs : work[w] = x
  BY DEF IndInv, Holding
<1>2. Held(x)
  BY <1>1 DEF Held
<1>3. fate[x] = "flow" /\ ~InCh(x) /\ cur # x /\ item # x /\ x \notin workerCh
  BY <1>2, Zenon DEF IndInv, OneAt
<1>4. \A v \in Workers : work[v] = x => v = w
  BY <1>1 DEF IndInv, Once
<1> QED
  BY <1>1, <1>2, <1>3, <1>4

(* manage gives the credit back before it calls the source. *)
LEMMA NackReleasesStep ==
  ASSUME IndInv, NEW w \in Workers, NackReleases(w)
  PROVE  IndInv'
<1>1. /\ wpc[w] = "nack" /\ Release(work[w]) /\ wpc' = [wpc EXCEPT ![w] = "requeue"]
      /\ UNCHANGED <<fate, ctxDone, run, ch, stream, cur, ingest, item, workerCh, work>>
  BY DEF NackReleases, brokerVars, ingestVars
<1>2. PICK x \in Msgs : /\ work[w] = x /\ item # x /\ x \notin workerCh
                        /\ \A v \in Workers : work[v] = x => v = w
  BY <1>1, WorkAlone
<1>3. Credits' /\ wrapped' = wrapped \ {x}
  BY <1>1, <1>2, Released
<1>4. wpc' \in [Workers -> {"idle", "handle", "ack", "nack", "requeue", "exited"}]
      /\ \A v \in Workers : wpc'[v] = IF v = w THEN "requeue" ELSE wpc[v]
  BY <1>1 DEF IndInv, Typed
<1>5. Typed' /\ Draining'
  BY <1>1, <1>3, <1>4 DEF IndInv, Typed, Draining
<1>6. Holding'
  BY <1>1, <1>4, SMTT(30) DEF IndInv, Holding
<1>7. Wrapped'
  <2>1. ~Processing(x)'
    BY <1>1, <1>2, <1>4 DEF Processing
  <2>2. ASSUME NEW n \in Msgs, n # x PROVE Processing(n)' <=> Processing(n)
    BY <1>1, <1>2, <1>4, <2>2 DEF Processing
  <2> QED
    BY <1>1, <1>2, <1>3, <2>1, <2>2 DEF IndInv, Wrapped
<1> QED
  BY <1>1, <1>3, <1>5, <1>6, <1>7, Untouched, Zenon DEF IndInv

(* A worker is done with its message: the credit is back, the message out  *)
(* of its hands.                                                           *)
LEMMA WorkerDone ==
  ASSUME IndInv, NEW w \in Workers, NEW x \in Msgs, work[w] = x,
         wpc[w] \in {"ack", "requeue"}, Release(x),
         wpc' = [wpc EXCEPT ![w] = "idle"], work' = [work EXCEPT ![w] = NoMsg],
         UNCHANGED <<ingest, item, workerCh>>
  PROVE  /\ Credits' /\ Wrapped' /\ wrapped' \in SUBSET Msgs
         /\ wpc' \in [Workers -> {"idle", "handle", "ack", "nack", "requeue", "exited"}]
         /\ work' \in [Workers -> Msgs \cup {NoMsg}]
         /\ \A v \in Workers : work'[v] \in Msgs <=> wpc'[v] \in {"handle", "ack", "nack", "requeue"}
         /\ \A u, v \in Workers : work'[u] \in Msgs /\ work'[u] = work'[v] => u = v
         /\ ~Held(x)' /\ \A n \in Msgs : n # x => (Held(n)' <=> Held(n))
<1>1. NoMsg \notin Msgs
  BY StreamAssumption DEF StreamAssumption
<1>2. /\ item # x /\ x \notin workerCh /\ \A v \in Workers : work[v] = x => v = w
  BY WorkAlone
<1>3. Credits' /\ wrapped' = wrapped \ {x}
  BY Released
<1>4. /\ work' \in [Workers -> Msgs \cup {NoMsg}]
      /\ \A v \in Workers : work'[v] = IF v = w THEN NoMsg ELSE work[v]
      /\ ~Held(x)' /\ \A n \in Msgs : n # x => (Held(n)' <=> Held(n))
  BY <1>1, HeldAfter, Zenon
<1>5. wpc' \in [Workers -> {"idle", "handle", "ack", "nack", "requeue", "exited"}]
      /\ \A v \in Workers : wpc'[v] = IF v = w THEN "idle" ELSE wpc[v]
  BY DEF IndInv, Typed
<1>6. \A v \in Workers : work'[v] \in Msgs <=> wpc'[v] \in {"handle", "ack", "nack", "requeue"}
  BY <1>1, <1>4, <1>5 DEF IndInv, Holding
<1>7. \A u, v \in Workers : work'[u] \in Msgs /\ work'[u] = work'[v] => u = v
  BY <1>1, <1>4 DEF IndInv, Once
<1>8. Wrapped'
  <2>1. ~Processing(x)'
    BY <1>1, <1>2, <1>4, <1>5 DEF Processing
  <2>2. ASSUME NEW n \in Msgs, n # x PROVE Processing(n)' <=> Processing(n)
    <3>1. ASSUME NEW v \in Workers PROVE
            work'[v] = n /\ wpc'[v] \in {"handle", "ack", "nack"}
              <=> work[v] = n /\ wpc[v] \in {"handle", "ack", "nack"}
      BY <1>1, <1>4, <1>5, <2>2, <3>1
    <3> QED
      BY <3>1, Zenon DEF Processing
  <2> QED
    BY <1>2, <1>3, <2>1, <2>2 DEF IndInv, Wrapped
<1>9. wrapped' \in SUBSET Msgs
  BY <1>3 DEF IndInv, Typed
<1> QED
  BY <1>3, <1>4, <1>5, <1>6, <1>7, <1>8, <1>9

(* A worker settles for good: an Ack, or a requeue that is cut off. *)
LEMMA SettleStep ==
  ASSUME IndInv, NEW w \in Workers, Ack(w) \/ RequeueAborted(w)
  PROVE  IndInv'
<1>1. PICK how \in {"acked", "lost"} :
        /\ wpc[w] \in {"ack", "requeue"} /\ (how = "lost" => run = "expired")
        /\ Release(work[w]) /\ fate' = [fate EXCEPT ![work[w]] = how]
        /\ wpc' = [wpc EXCEPT ![w] = "idle"] /\ work' = [work EXCEPT ![w] = NoMsg]
        /\ UNCHANGED <<ctxDone, run, ch, stream, cur, ingest, item, workerCh>>
  BY DEF Ack, RequeueAborted, SettleCancelled, brokerVars, ingestVars
<1>2. PICK x \in Msgs : /\ work[w] = x /\ ~InCh(x) /\ cur # x /\ item # x /\ x \notin workerCh
  BY <1>1, WorkAlone
<1>3. /\ Credits' /\ Wrapped' /\ wrapped' \in SUBSET Msgs
      /\ wpc' \in [Workers -> {"idle", "handle", "ack", "nack", "requeue", "exited"}]
      /\ work' \in [Workers -> Msgs \cup {NoMsg}]
      /\ \A v \in Workers : work'[v] \in Msgs <=> wpc'[v] \in {"handle", "ack", "nack", "requeue"}
      /\ \A u, v \in Workers : work'[u] \in Msgs /\ work'[u] = work'[v] => u = v
      /\ ~Held(x)' /\ \A n \in Msgs : n # x => (Held(n)' <=> Held(n))
  BY <1>1, <1>2, WorkerDone, Zenon
<1>4. fate' \in [Msgs -> {"unsent", "flow", "acked", "shed", "lost"}]
      /\ \A n \in Msgs : fate'[n] = IF n = x THEN how ELSE fate[n]
  BY <1>1, <1>2 DEF IndInv, Typed
<1>5. Typed'
  BY <1>1, <1>3, <1>4 DEF IndInv, Typed
<1>6. Holding'
  BY <1>1, <1>3 DEF IndInv, Holding
<1>7. Draining'
  BY <1>1, <1>4 DEF IndInv, Draining
<1>8. Once'
  BY <1>1, <1>3 DEF IndInv, Once
<1>9. \A n : InCh(n)' <=> InCh(n)
  BY <1>1 DEF InCh
<1>10. Elsewhere(x)
  BY <1>1, <1>3, <1>4, <1>9 DEF Elsewhere
<1>11. OneAt(x)'
  <2>1. fate'[x] # "flow"
    BY <1>4
  <2> QED
    BY <1>1, <1>2, <1>3, <1>9, <2>1, Zenon DEF OneAt
<1> QED
  BY <1>3, <1>5, <1>6, <1>7, <1>8, <1>10, <1>11, Moves, Zenon DEF IndInv

(* The broker takes the message back. *)
LEMMA RequeueStep ==
  ASSUME IndInv, NEW w \in Workers, Requeue(w)
  PROVE  IndInv'
<1>1. /\ wpc[w] = "requeue" /\ Release(work[w]) /\ BrokerSend(work[w])
      /\ wpc' = [wpc EXCEPT ![w] = "idle"] /\ work' = [work EXCEPT ![w] = NoMsg]
      /\ UNCHANGED <<fate, ctxDone, run, ingest, item, workerCh>>
  BY DEF Requeue, ingestVars
<1>2. PICK x \in Msgs : /\ work[w] = x /\ fate[x] = "flow" /\ ~InCh(x) /\ cur # x /\ item # x
                        /\ x \notin workerCh
  BY <1>1, WorkAlone
<1>3. /\ Credits' /\ Wrapped' /\ wrapped' \in SUBSET Msgs
      /\ wpc' \in [Workers -> {"idle", "handle", "ack", "nack", "requeue", "exited"}]
      /\ work' \in [Workers -> Msgs \cup {NoMsg}]
      /\ \A v \in Workers : work'[v] \in Msgs <=> wpc'[v] \in {"handle", "ack", "nack", "requeue"}
      /\ \A u, v \in Workers : work'[u] \in Msgs /\ work'[u] = work'[v] => u = v
      /\ ~Held(x)' /\ \A n \in Msgs : n # x => (Held(n)' <=> Held(n))
  BY <1>1, <1>2, WorkerDone, ZenonT(30)
<1>4. /\ ch' \in Seq(Msgs) /\ cur' \in Msgs \cup {NoMsg}
      /\ cur' \in Msgs <=> stream' = "emit"
      /\ \A i, j \in DOMAIN ch' : ch'[i] = ch'[j] => i = j
      /\ \A n \in Msgs : n # x => (InCh(n)' <=> InCh(n)) /\ (cur' = n <=> cur = n)
      /\ \/ InCh(x)' /\ cur' # x
         \/ ~InCh(x)' /\ cur' = x
  BY <1>1, <1>2, Sent, SMTT(30)
<1>5. Typed' /\ Draining'
  BY <1>1, <1>3, <1>4 DEF IndInv, Typed, Draining
<1>6. Holding'
  BY <1>1, <1>3, <1>4 DEF IndInv, Holding
<1>7. Once'
  BY <1>3, <1>4 DEF Once
<1>8. Elsewhere(x)
  BY <1>1, <1>3, <1>4 DEF Elsewhere
<1>9. OneAt(x)'
  BY <1>1, <1>2, <1>3, <1>4, Zenon DEF OneAt
<1> QED
  BY <1>3, <1>5, <1>6, <1>7, <1>8, <1>9, Moves, Zenon DEF IndInv

(* Run, its context and the clock of the limiter. *)
LEMMA RunStepKeeps ==
  ASSUME IndInv, Cancel \/ RunStep \/ Tick \/ UNCHANGED vars
  PROVE  IndInv'
<1>1. /\ UNCHANGED <<fate, ch, stream, cur, ingest, item, tokens, wrapped, workerCh, wpc, work>>
      /\ ctxDone' \in BOOLEAN /\ (ctxDone => ctxDone')
      /\ run' # "serve" => run # "serve" \/ ctxDone
  <2>1. CASE Cancel
    BY <2>1, SMTT(30) DEF Cancel, brokerVars, ingestVars, gateVars, workerVars
  <2>2. CASE RunStep
    BY <2>2, SMTT(30) DEF RunStep, CutDrain, CutSettle, Return, brokerVars, ingestVars, gateVars, workerVars,
                IndInv, Typed
  <2>3. CASE Tick
    BY <2>3 DEF Tick, brokerVars, ingestVars, gateVars, workerVars, IndInv, Typed
  <2>4. CASE UNCHANGED vars
    BY <2>4 DEF vars, brokerVars, ingestVars, gateVars, workerVars, IndInv, Typed
  <2> QED
    BY <2>1, <2>2, <2>3, <2>4
<1>2. Typed'
  BY <1>1 DEF IndInv, Typed
<1>3. Draining'
  BY <1>1 DEF IndInv, Draining
<1>4. Holding'
  BY <1>1 DEF IndInv, Holding
<1>5. Wrapped' /\ Credits'
  BY <1>1 DEF IndInv, Wrapped, Credits, Processing
<1> QED
  BY <1>1, <1>2, <1>3, <1>4, <1>5, Untouched, Zenon DEF IndInv

(* Every step keeps the invariant. *)
LEMMA IndNext == IndInv /\ [Next]_vars => IndInv'
<1> SUFFICES ASSUME IndInv, [Next]_vars PROVE IndInv'
  OBVIOUS
<1>1. ASSUME Wait \/ safeLimiterWait \/ TimerFires \/ Paced PROVE IndInv'
  <2>1. /\ ingest \in {"limit", "asleep", "pace"} /\ ingest' \in {"limit", "asleep", "pace", "gate"}
        /\ UNCHANGED <<fate, ctxDone, run, ch, stream, cur, item, tokens, wrapped, workerCh, wpc, work>>
    BY <1>1 DEF Wait, safeLimiterWait, TimerFires, Paced, brokerVars, gateVars, workerVars
  <2> QED
    BY <2>1, GovernorStep
<1>2. ASSUME IngestStep PROVE IndInv'
  BY <1>1, <1>2, AdmitStep, ShedNewestStep, HandOffStep, AdmitCancelledStep, GiveUpStep,
     IngestReturnsStep, Zenon DEF IngestStep
<1>3. ASSUME NEW w \in Workers, Handled(w) \/ Exit(w) PROVE IndInv'
  <2>1. PICK s \in {"ack", "nack", "exited"} :
          /\ wpc' = [wpc EXCEPT ![w] = s]
          /\ IF s = "exited" THEN wpc[w] = "idle" ELSE wpc[w] = "handle"
          /\ UNCHANGED <<fate, ctxDone, run, ch, stream, cur, ingest, item, tokens, wrapped, workerCh, work>>
    BY <1>3 DEF Handled, Exit, brokerVars, ingestVars, gateVars
  <2> QED
    BY <2>1, WorkerMoves, Zenon
<1>4. ASSUME NEW w \in Workers, WorkerStep(w) PROVE IndInv'
  BY <1>3, <1>4, TakeStep, SettleStep, NackReleasesStep, RequeueStep, Zenon DEF WorkerStep
<1>5. ASSUME StreamStep PROVE IndInv'
  BY <1>5, ReceiveStep, EmitStep, StreamReturnsStep, Zenon DEF StreamStep
<1>6. ASSUME Finished \/ Idle PROVE IndInv'
  BY <1>6, RunStepKeeps, Zenon DEF Finished, Idle
<1> QED
  BY <1>2, <1>4, <1>5, <1>6, PublishStep, RunStepKeeps, Zenon DEF Next

(* Every reachable state satisfies the invariant. *)
LEMMA Invariance == Spec => []IndInv
<1> QED
  BY IndInit, IndNext, PTL DEF Spec

-----------------------------------------------------------------------------
(* What follows.                                                           *)

(* A message under way has one place and any other none. *)
LEMMA PlacesCount ==
  ASSUME IndInv, NEW m \in Msgs
  PROVE  Cardinality(Places(m)) = IF fate[m] = "flow" THEN 1 ELSE 0
<1> DEFINE A == {<<"ch", i>> : i \in {i \in DOMAIN ch : ch[i] = m}}
           B == IF cur = m THEN {<<"stream", 0>>} ELSE {}
           C == IF item = m THEN {<<"ingest", 0>>} ELSE {}
           D == IF m \in workerCh THEN {<<"workerCh", 0>>} ELSE {}
           E == {<<"work", w>> : w \in {w \in Workers : work[w] = m}}
<1>1. Places(m) = A \cup B \cup C \cup D \cup E
  BY DEF Places
<1>2. OneAt(m)
  BY DEF IndInv
<1>3. /\ ~InCh(m) => A = {}
      /\ InCh(m) => \E p : A = {p}
  <2>1. ~InCh(m) => A = {}
    BY DEF InCh
  <2>2. ASSUME NEW i \in DOMAIN ch, ch[i] = m PROVE A = {<<"ch", i>>}
    BY <2>2 DEF IndInv, Once
  <2> QED
    BY <2>1, <2>2, Zenon DEF InCh
<1>4. /\ ~Held(m) => E = {}
      /\ Held(m) => \E p : E = {p}
  <2>1. ~Held(m) => E = {}
    BY DEF Held
  <2>2. ASSUME NEW w \in Workers, work[w] = m PROVE E = {<<"work", w>>}
    BY <2>2 DEF IndInv, Once
  <2> QED
    BY <2>1, <2>2, Zenon DEF Held
<1>5. /\ (cur # m => B = {}) /\ (cur = m => \E p : B = {p})
      /\ (item # m => C = {}) /\ (item = m => \E p : C = {p})
      /\ (m \notin workerCh => D = {}) /\ (m \in workerCh => \E p : D = {p})
  BY Zenon
<1> HIDE DEF A, B, C, D, E
<1>6. CASE fate[m] # "flow"
  <2>1. Places(m) = {}
    BY <1>1, <1>2, <1>3, <1>4, <1>5, <1>6 DEF OneAt
  <2> QED
    BY <1>6, <2>1, FS_EmptySet
<1>7. CASE fate[m] = "flow"
  <2>1. \E p : Places(m) = {p}
    <3>1. CASE InCh(m)
      BY <1>1, <1>2, <1>3, <1>4, <1>5, <3>1 DEF OneAt
    <3>2. CASE cur = m
      BY <1>1, <1>2, <1>3, <1>4, <1>5, <3>2, Zenon DEF OneAt
    <3>3. CASE item = m
      BY <1>1, <1>2, <1>3, <1>4, <1>5, <3>3 DEF OneAt
    <3>4. CASE m \in workerCh
      BY <1>1, <1>2, <1>3, <1>4, <1>5, <3>4 DEF OneAt
    <3>5. CASE Held(m)
      BY <1>1, <1>2, <1>3, <1>4, <1>5, <3>5 DEF OneAt
    <3> QED
      BY <1>2, <1>7, <3>1, <3>2, <3>3, <3>4, <3>5, Zenon DEF OneAt
  <2> QED
    BY <1>7, <2>1, FS_Singleton
<1> QED
  BY <1>6, <1>7

(* A message on the push path is in exactly one place, a settled or unsent *)
(* one in none, and only a shutdown loses one, for every buffer, pool,     *)
(* gate and limiter: Stream, admit, the workers and the Nack that goes     *)
(* back into the broker never copy or forget a message.                    *)
THEOREM NothingIsLost == Spec => []Conserved
<1>1. IndInv => Conserved
  BY PlacesCount DEF Conserved, IndInv, Draining
<1> QED
  BY <1>1, Invariance, PTL

(* The credits of the gate: as many are taken as deliveries are wrapped    *)
(* and not released, and never more than there are. The release that a     *)
(* worker defers after a settle gives nothing back twice.                  *)
CreditsAccounted ==
  /\ tokens = Cardinality(wrapped)
  /\ tokens <= MaxInFlight

(* The gate of the push path keeps its count of credits. *)
THEOREM CreditsCorrect == Spec => []CreditsAccounted
<1>1. IndInv => CreditsAccounted
  BY DEF CreditsAccounted, IndInv, Credits
<1> QED
  BY <1>1, Invariance, PTL

(* The hand-off to the workers never blocks: Run buffers workerCh to the   *)
(* credits of the gate, and whatever is in workerCh or about to enter has  *)
(* one of them.                                                            *)
HandOffNeverBlocks == ingest = "hand" => Cardinality(workerCh) < WorkerChCap

(* The select of ingest on workerCh never waits for room. *)
THEOREM HandOffIsFree == Spec => []HandOffNeverBlocks
<1>1. IndInv => HandOffNeverBlocks
  <2> SUFFICES ASSUME IndInv, ingest = "hand" PROVE Cardinality(workerCh) < MaxInFlight
    BY DEF HandOffNeverBlocks, WorkerChCap
  <2>1. PICK x \in Msgs : item = x /\ x \notin workerCh /\ x \in wrapped
    BY ItemAlone
  <2>2. workerCh \cup {x} \in SUBSET wrapped /\ IsFiniteSet(wrapped)
    BY <2>1 DEF IndInv, Typed, Wrapped, Credits
  <2>3. IsFiniteSet(workerCh)
    BY <2>2, FS_Subset
  <2>4. Cardinality(workerCh \cup {x}) = Cardinality(workerCh) + 1
    BY <2>1, <2>3, FS_AddElement, Zenon
  <2>5. Cardinality(workerCh \cup {x}) <= Cardinality(wrapped)
    BY <2>2, FS_Subset
  <2>6. Cardinality(workerCh) \in Nat /\ Cardinality(wrapped) \in Nat
    BY <2>2, <2>3, FS_CardinalityType
  <2>7. Cardinality(wrapped) <= MaxInFlight /\ MaxInFlight \in Nat
    BY StreamAssumption DEF StreamAssumption, IndInv, Credits
  <2> QED
    BY <2>4, <2>5, <2>6, <2>7
<1> QED
  BY <1>1, Invariance, PTL
=============================================================================
