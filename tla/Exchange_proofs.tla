-------------------------- MODULE Exchange_proofs --------------------------
(***************************************************************************)
(* The slot protocol of ChannelExchange, for any number of calls, ids and  *)
(* replies, with ids that may be used again.                               *)
(*                                                                         *)
(* The inductive invariant follows a slot through its life: registered and *)
(* empty (Registered), claimed for one reply (Claimed), full (Filled), or  *)
(* closed. Owed says that a call which is not done always finds its slot   *)
(* in one of these states: this is what makes the drain of giveUp safe.    *)
(***************************************************************************)
EXTENDS Exchange, TLAPS

Active == {"send", "wait", "giveUp", "drain"}

(* A registered slot belongs to a live call that has that id; it is empty  *)
(* and nobody has a reply for it.                                          *)
Registered ==
  \A i \in Ids : waiters[i] # None =>
     /\ id[waiters[i]] = i
     /\ pc[waiters[i]] \in {"send", "wait", "giveUp"}
     /\ slot[waiters[i]] = "empty"
     /\ \A r \in Replies : fate[r] = "claimed" => target[r] # waiters[i]

(* A claimed slot belongs to a live call, is empty and has one reply. *)
Claimed ==
  \A r \in Replies : fate[r] = "claimed" =>
     /\ target[r] \in Callers
     /\ pc[target[r]] \in Active
     /\ slot[target[r]] = "empty"
     /\ \A q \in Replies : fate[q] = "claimed" /\ target[q] = target[r] => q = r

(* A full slot belongs to a live call and holds the reply that was put in. *)
Filled ==
  \A c \in Callers :
     /\ content[c] # None <=> slot[c] = "full"
     /\ slot[c] = "full" => /\ pc[c] \in Active
                            /\ fate[content[c]] = "slot"
                            /\ target[content[c]] = c

(* A call that is not done finds its slot registered, promised a reply, or *)
(* ready; a draining one no longer finds it registered.                    *)
Owed ==
  \A c \in Callers :
     /\ pc[c] \in Active =>
          \/ pc[c] # "drain" /\ id[c] \in Ids /\ waiters[id[c]] = c
          \/ slot[c] # "empty"
          \/ \E r \in Replies : fate[r] = "claimed" /\ target[r] = c
     /\ pc[c] \in Active => id[c] \in Ids
     /\ pc[c] = "idle" => id[c] = None /\ slot[c] = "empty"

IndInv == TypeOK /\ Registered /\ Claimed /\ Filled /\ Owed

(* A reply stays with calls that have the id of the call it answers. *)
Matched ==
  /\ \A r \in Replies : fate[r] \in {"claimed", "slot"} =>
        /\ origin[r] \in Callers /\ target[r] \in Callers
        /\ id[target[r]] # None /\ id[origin[r]] = id[target[r]]
  /\ \A c \in Callers : got[c] # None =>
        /\ fate[got[c]] = "returned"
        /\ origin[got[c]] \in Callers
        /\ id[c] # None /\ id[origin[got[c]]] = id[c]

-----------------------------------------------------------------------------
(* The invariant holds initially and every action keeps it.                *)

(* The invariant holds before the first call. *)
LEMMA IndInit == Init => IndInv
BY ExchangeAssumption DEF Init, IndInv, TypeOK, Registered, Claimed, Filled, Owed, Active

(* A call registers an empty slot under its id. *)
LEMMA RegisterStep ==
  ASSUME IndInv, NEW c \in Callers, NEW i \in Ids, Register(c, i)
  PROVE  IndInv'
<1> USE ExchangeAssumption DEF IndInv, TypeOK, Register, Goto, callVars, slotVars, replyVars
<1>1. TypeOK'
  OBVIOUS
<1>2. Registered'
  BY <1>1 DEF Registered, Claimed, Filled, Owed, Active
<1>3. Claimed'
  BY <1>1 DEF Registered, Claimed, Filled, Owed, Active
<1>4. Filled'
  BY <1>1 DEF Registered, Claimed, Filled, Owed, Active
<1>5. Owed'
  BY <1>1 DEF Registered, Claimed, Filled, Owed, Active
<1> QED
  BY <1>1, <1>2, <1>3, <1>4, <1>5

(* A call is refused: no id, the exchange closed, or the id in use. *)
LEMMA RefusedStep ==
  ASSUME IndInv, NEW c \in Callers, Refused(c)
  PROVE  IndInv'
<1> USE ExchangeAssumption DEF IndInv, TypeOK, Refused, Goto, callVars, slotVars, replyVars
<1>1. TypeOK'
  OBVIOUS
<1>2. Registered'
  BY <1>1 DEF Registered, Claimed, Filled, Owed, Active
<1>3. Claimed'
  BY <1>1 DEF Registered, Claimed, Filled, Owed, Active
<1>4. Filled'
  BY <1>1 DEF Registered, Claimed, Filled, Owed, Active
<1>5. Owed'
  BY <1>1 DEF Registered, Claimed, Filled, Owed, Active
<1> QED
  BY <1>1, <1>2, <1>3, <1>4, <1>5

(* The request of a call is sent. *)
LEMMA SentStep ==
  ASSUME IndInv, NEW c \in Callers, Sent(c)
  PROVE  IndInv'
<1> USE ExchangeAssumption DEF IndInv, TypeOK, Sent, Goto, callVars, slotVars, replyVars
<1>1. TypeOK'
  OBVIOUS
<1>2. Registered'
  BY <1>1 DEF Registered, Claimed, Filled, Owed, Active
<1>3. Claimed'
  BY <1>1 DEF Registered, Claimed, Filled, Owed, Active
<1>4. Filled'
  BY <1>1 DEF Registered, Claimed, Filled, Owed, Active
<1>5. Owed'
  BY <1>1 DEF Registered, Claimed, Filled, Owed, Active
<1> QED
  BY <1>1, <1>2, <1>3, <1>4, <1>5

(* A call stops waiting: timeout, cancel, failed send or panic. *)
LEMMA AbandonStep ==
  ASSUME IndInv, NEW c \in Callers, Abandon(c)
  PROVE  IndInv'
<1> USE ExchangeAssumption DEF IndInv, TypeOK, Abandon, Goto, callVars, slotVars, replyVars
<1>1. TypeOK'
  OBVIOUS
<1>2. Registered'
  BY <1>1 DEF Registered, Claimed, Filled, Owed, Active
<1>3. Claimed'
  BY <1>1 DEF Registered, Claimed, Filled, Owed, Active
<1>4. Filled'
  BY <1>1 DEF Registered, Claimed, Filled, Owed, Active
<1>5. Owed'
  BY <1>1 DEF Registered, Claimed, Filled, Owed, Active
<1> QED
  BY <1>1, <1>2, <1>3, <1>4, <1>5

(* A call finds a reply in its slot, or the slot closed. *)
LEMMA SettledStep ==
  ASSUME IndInv, NEW c \in Callers, Settled(c)
  PROVE  IndInv'
<1> USE ExchangeAssumption DEF IndInv, TypeOK, Settled, Goto, callVars, slotVars, replyVars
<1>1. TypeOK'
  OBVIOUS
<1>2. Registered'
  BY <1>1 DEF Registered, Claimed, Filled, Owed, Active
<1>3. Claimed'
  BY <1>1 DEF Registered, Claimed, Filled, Owed, Active
<1>4. Filled'
  BY <1>1 DEF Registered, Claimed, Filled, Owed, Active
<1>5. Owed'
  BY <1>1 DEF Registered, Claimed, Filled, Owed, Active
<1> QED
  BY <1>1, <1>2, <1>3, <1>4, <1>5

(* A call that gives up takes its slot out of the registry. *)
LEMMA DeregisterStep ==
  ASSUME IndInv, NEW c \in Callers, Deregister(c)
  PROVE  IndInv'
<1> USE ExchangeAssumption DEF IndInv, TypeOK, Deregister, Goto, callVars, slotVars, replyVars
<1>1. TypeOK'
  OBVIOUS
<1>2. Registered'
  BY <1>1 DEF Registered, Claimed, Filled, Owed, Active
<1>3. Claimed'
  BY <1>1 DEF Registered, Claimed, Filled, Owed, Active
<1>4. Filled'
  BY <1>1 DEF Registered, Claimed, Filled, Owed, Active
<1>5. Owed'
  BY <1>1 DEF Registered, Claimed, Filled, Owed, Active
<1> QED
  BY <1>1, <1>2, <1>3, <1>4, <1>5

(* A call that lost its slot drains what it is owed. *)
LEMMA GiveUpStep ==
  ASSUME IndInv, NEW c \in Callers, GiveUp(c)
  PROVE  IndInv'
<1> USE ExchangeAssumption DEF IndInv, TypeOK, GiveUp, Goto, callVars, slotVars, replyVars
<1>1. TypeOK'
  OBVIOUS
<1>2. Registered'
  BY <1>1 DEF Registered, Claimed, Filled, Owed, Active
<1>3. Claimed'
  BY <1>1 DEF Registered, Claimed, Filled, Owed, Active
<1>4. Filled'
  BY <1>1 DEF Registered, Claimed, Filled, Owed, Active
<1>5. Owed'
  BY <1>1 DEF Registered, Claimed, Filled, Owed, Active
<1> QED
  BY <1>1, <1>2, <1>3, <1>4, <1>5

(* deliver takes a slot out of the registry for its reply. *)
LEMMA ClaimStep ==
  ASSUME IndInv, NEW r \in Replies, NEW c \in Callers, Claim(r, c)
  PROVE  IndInv'
<1> USE ExchangeAssumption DEF IndInv, TypeOK, Claim, Missed, callVars, slotVars, replyVars
<1>1. TypeOK'
  OBVIOUS
<1>2. Registered'
  BY <1>1 DEF Registered, Claimed, Filled, Owed, Active
<1>3. Claimed'
  BY <1>1 DEF Registered, Claimed, Filled, Owed, Active
<1>4. Filled'
  BY <1>1 DEF Registered, Claimed, Filled, Owed, Active
<1>5. Owed'
  BY <1>1 DEF Registered, Claimed, Filled, Owed, Active
<1> QED
  BY <1>1, <1>2, <1>3, <1>4, <1>5

(* deliver puts the reply into the slot, after the unlock. *)
LEMMA FillStep ==
  ASSUME IndInv, NEW r \in Replies, Fill(r)
  PROVE  IndInv'
<1> USE ExchangeAssumption DEF IndInv, TypeOK, Fill, callVars, slotVars, replyVars
<1>1. TypeOK'
  BY Zenon
<1>2. Registered'
  <2>1. \A i \in Ids : waiters[i] # None => waiters[i] # target[r]
    BY DEF Registered
  <2>2. SUFFICES ASSUME NEW i \in Ids, waiters[i] # None
                 PROVE  /\ id[waiters[i]] = i
                        /\ pc[waiters[i]] \in {"send", "wait", "giveUp"}
                        /\ slot'[waiters[i]] = "empty"
                        /\ \A q \in Replies : fate'[q] = "claimed" => target[q] # waiters[i]
    BY DEF Registered
  <2>3. slot'[waiters[i]] = slot[waiters[i]]
    BY <2>1, <2>2
  <2>4. \A q \in Replies : fate'[q] = "claimed" => fate[q] = "claimed"
    OBVIOUS
  <2> QED
    BY <2>2, <2>3, <2>4 DEF Registered
<1>3. Claimed'
  BY <1>1 DEF Registered, Claimed, Filled, Owed, Active
<1>4. Filled'
  BY <1>1 DEF Registered, Claimed, Filled, Owed, Active
<1>5. Owed'
  BY <1>1 DEF Registered, Claimed, Filled, Owed, Active
<1> QED
  BY <1>1, <1>2, <1>3, <1>4, <1>5

(* Close closes every registered slot. *)
LEMMA CloseAllStep ==
  ASSUME IndInv, CloseAll
  PROVE  IndInv'
<1> USE ExchangeAssumption DEF IndInv, TypeOK, CloseAll, callVars, slotVars, replyVars
<1>1. TypeOK'
  OBVIOUS
<1>2. Registered'
  BY <1>1 DEF Registered, Claimed, Filled, Owed, Active
<1>3. Claimed'
  BY <1>1 DEF Registered, Claimed, Filled, Owed, Active
<1>4. Filled'
  BY <1>1 DEF Registered, Claimed, Filled, Owed, Active
<1>5. Owed'
  BY <1>1 DEF Registered, Claimed, Filled, Owed, Active
<1> QED
  BY <1>1, <1>2, <1>3, <1>4, <1>5

(* Close ends the subscription to the reply channel. *)
LEMMA UnsubscribeStep ==
  ASSUME IndInv, Unsubscribe
  PROVE  IndInv'
<1> USE ExchangeAssumption DEF IndInv, TypeOK, Unsubscribe, callVars, slotVars, replyVars
<1>1. TypeOK'
  OBVIOUS
<1>2. Registered'
  BY <1>1 DEF Registered, Claimed, Filled, Owed, Active
<1>3. Claimed'
  BY <1>1 DEF Registered, Claimed, Filled, Owed, Active
<1>4. Filled'
  BY <1>1 DEF Registered, Claimed, Filled, Owed, Active
<1>5. Owed'
  BY <1>1 DEF Registered, Claimed, Filled, Owed, Active
<1> QED
  BY <1>1, <1>2, <1>3, <1>4, <1>5

(* Every step keeps the invariant. *)
LEMMA IndNext == IndInv /\ [Next]_vars => IndInv'
<1> SUFFICES ASSUME IndInv, [Next]_vars
             PROVE  IndInv'
  OBVIOUS
<1>1. CASE \E c \in Callers : CallStep(c)
  BY <1>1, RegisterStep, RefusedStep, SentStep, AbandonStep, SettledStep,
     DeregisterStep, GiveUpStep DEF CallStep
<1>2. CASE \E r \in Replies : Fill(r) \/ \E c \in Callers : Claim(r, c)
  BY <1>2, FillStep, ClaimStep
<1>3. CASE CloseAll \/ Unsubscribe
  BY <1>3, CloseAllStep, UnsubscribeStep
<1>4. CASE Quiet \/ UNCHANGED vars
  BY <1>4 DEF Quiet, vars, callVars, slotVars, replyVars, IndInv, TypeOK,
     Registered, Claimed, Filled, Owed
<1> QED
  BY <1>1, <1>2, <1>3, <1>4 DEF Next

(* Every reachable state satisfies the invariant. *)
LEMMA Inductive == Spec => []IndInv
<1>1. Init => IndInv
  BY IndInit
<1>2. IndInv /\ [Next]_vars => IndInv'
  BY IndNext
<1> QED
  BY <1>1, <1>2, PTL DEF Spec

-----------------------------------------------------------------------------
(* What follows from it.                                                   *)

(* The exchange keeps its types. *)
THEOREM TypeCorrect == Spec => []TypeOK
<1>1. IndInv => TypeOK
  BY DEF IndInv
<1> QED
  BY <1>1, Inductive, PTL

(* deliver sends into the slot it claimed without blocking and never into  *)
(* a closed one, although it sends after the unlock.                       *)
THEOREM FillCorrect == Spec => []FillIsSafe
<1>1. IndInv => FillIsSafe
  BY DEF IndInv, Claimed, FillIsSafe
<1> QED
  BY <1>1, Inductive, PTL

(* No call returns with its slot registered, full or promised a reply.     *)
THEOREM ReturnCorrect == Spec => []NothingLeftBehind
<1>1. IndInv => NothingLeftBehind
  BY ExchangeAssumption DEF IndInv, TypeOK, Registered, Claimed, Filled, Active, NothingLeftBehind
<1> QED
  BY <1>1, Inductive, PTL

(* A call that lost its slot while giving up is owed a reply or a close,   *)
(* even if its id is in use again.                                         *)
THEOREM DrainCorrect == Spec => []DrainIsOwed
<1>1. IndInv => DrainIsOwed
  BY DEF IndInv, Owed, Active, DrainIsOwed
<1> QED
  BY <1>1, Inductive, PTL

(* Matched is kept by every step from a state that satisfies IndInv. *)
LEMMA MatchedNext == IndInv /\ Matched /\ [Next]_vars => Matched'
<1> SUFFICES ASSUME IndInv, Matched, [Next]_vars
             PROVE  Matched'
  OBVIOUS
<1> USE ExchangeAssumption DEF IndInv, TypeOK, Matched, callVars, slotVars, replyVars, Goto
<1>1. ASSUME NEW c \in Callers, NEW i \in Ids, Register(c, i)
      PROVE  Matched'
  BY <1>1 DEF Owed, Register
<1>2. ASSUME NEW c \in Callers, Refused(c) \/ Sent(c) \/ Abandon(c) \/ Deregister(c)
      PROVE  Matched'
  BY <1>2 DEF Refused, Sent, Abandon, Deregister
<1>3. ASSUME NEW c \in Callers, Settled(c)
      PROVE  Matched'
  BY <1>3 DEF Filled, Settled
<1>4. ASSUME NEW c \in Callers, GiveUp(c)
      PROVE  Matched'
  BY <1>4 DEF Filled, GiveUp
<1>5. ASSUME NEW r \in Replies, NEW c \in Callers, Claim(r, c)
      PROVE  Matched'
  BY <1>5 DEF Registered, Claim, Missed
<1>6. ASSUME NEW r \in Replies, Fill(r)
      PROVE  Matched'
  BY <1>6 DEF Fill
<1>7. CASE CloseAll \/ Unsubscribe
  BY <1>7 DEF CloseAll, Unsubscribe
<1>8. CASE Quiet \/ UNCHANGED vars
  BY <1>8 DEF Quiet, vars
<1> HIDE DEF IndInv, TypeOK, Matched, callVars, slotVars, replyVars, Goto
<1> QED
  BY <1>1, <1>2, <1>3, <1>4, <1>5, <1>6, <1>7, <1>8 DEF Next, CallStep

(* No call ever returns the reply to another one's request, unless that    *)
(* one used its id.                                                        *)
THEOREM MatchCorrect == Spec => []OwnReply
<1>1. Init => Matched
  BY ExchangeAssumption DEF Init, Matched
<1>2. Matched => OwnReply
  BY DEF Matched, OwnReply
<1> QED
  BY <1>1, <1>2, Inductive, MatchedNext, PTL DEF Spec
=============================================================================
