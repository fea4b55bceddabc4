------------------------------ MODULE Exchange ------------------------------
(***************************************************************************)
(* endpoint.ChannelExchange: request and reply over two channels. A caller *)
(* registers a one-shot slot under its correlation id, sends the request   *)
(* and waits for the slot, its context or a timer; the receiver on the     *)
(* reply channel claims the slot of an id under the lock and fills it      *)
(* after the unlock; Close fails every waiter.                             *)
(*                                                                         *)
(* A caller is one call of Exchange, and names the slot that call made. A  *)
(* reply answers the request of one caller and carries its id; there may   *)
(* be none, one or several, and they may come late, also to an id that     *)
(* another caller uses by then.                                            *)
(***************************************************************************)
EXTENDS Integers, FiniteSets

CONSTANTS
  Callers,   \* calls of Exchange
  Ids,       \* correlation ids
  Replies,   \* replies the other side may send
  None       \* no caller, no id, no reply

ASSUME ExchangeAssumption == None \notin Callers \cup Ids \cup Replies

VARIABLES
  pc,       \* where each call is
  id,       \* the id it has registered
  slot,     \* its slot: empty, full or closed
  content,  \* the reply in a full slot
  got,      \* the reply the call returned, if it returned one
  waiters,  \* the registry: the caller whose slot stands under an id
  closed,   \* how far Close has come: open, closing or closed
  fate,     \* where each reply is
  origin,   \* the caller whose request it answers
  target    \* the caller whose slot the receiver has claimed for it

callVars  == <<pc, id, got>>
slotVars  == <<slot, content>>
replyVars == <<fate, origin, target>>
vars == <<callVars, slotVars, waiters, closed, replyVars>>

Init ==
  /\ pc = [c \in Callers |-> "idle"]
  /\ id = [c \in Callers |-> None]
  /\ slot = [c \in Callers |-> "empty"]
  /\ content = [c \in Callers |-> None]
  /\ got = [c \in Callers |-> None]
  /\ waiters = [i \in Ids |-> None]
  /\ closed = "open"
  /\ fate = [r \in Replies |-> "unsent"]
  /\ origin = [r \in Replies |-> None]
  /\ target = [r \in Replies |-> None]

-----------------------------------------------------------------------------
(* A call of Exchange.                                                     *)

Goto(c, s) == pc' = [pc EXCEPT ![c] = s]

(* register put a fresh slot under the id. *)
Register(c, i) ==
  /\ pc[c] = "idle"
  /\ closed = "open"
  /\ waiters[i] = None
  /\ waiters' = [waiters EXCEPT ![i] = c]
  /\ id' = [id EXCEPT ![c] = i]
  /\ Goto(c, "send")
  /\ UNCHANGED <<got, slotVars, closed, replyVars>>

(* ErrNoCorrelation, ErrGatewayClosed or ErrDuplicateCorrelation. *)
Refused(c) ==
  /\ pc[c] = "idle"
  /\ Goto(c, "done")
  /\ UNCHANGED <<id, got, slotVars, waiters, closed, replyVars>>

(* The request channel took the request. *)
Sent(c) ==
  /\ pc[c] = "send"
  /\ Goto(c, "wait")
  /\ UNCHANGED <<id, got, slotVars, waiters, closed, replyVars>>

(* Slip: a call that waits is not bounded by a timer or its context. *)
AbandonOnlySend(c) ==
  /\ pc[c] = "send"
  /\ Goto(c, "giveUp")
  /\ UNCHANGED <<id, got, slotVars, waiters, closed, replyVars>>

(* Everything that leaves with the slot unsettled: the send failed or      *)
(* panicked, the context is done or the reply timer fired.                 *)
Abandon(c) ==
  /\ pc[c] \in {"send", "wait"}
  /\ Goto(c, "giveUp")
  /\ UNCHANGED <<id, got, slotVars, waiters, closed, replyVars>>

(* The slot was ready: a reply, or closed by Close. *)
Settled(c) ==
  /\ pc[c] = "wait"
  /\ slot[c] # "empty"
  /\ got' = [got EXCEPT ![c] = content[c]]
  /\ slot' = [slot EXCEPT ![c] = IF @ = "full" THEN "empty" ELSE @]
  /\ content' = [content EXCEPT ![c] = None]
  /\ fate' = [r \in Replies |-> IF r = content[c] THEN "returned" ELSE fate[r]]
  /\ Goto(c, "done")
  /\ UNCHANGED <<id, waiters, closed, origin, target>>

(* Slip: deregister deletes whatever stands under the id. *)
DeregisterByKey(c) ==
  /\ pc[c] = "giveUp"
  /\ IF waiters[id[c]] # None
     THEN waiters' = [waiters EXCEPT ![id[c]] = None] /\ Goto(c, "done")
     ELSE UNCHANGED waiters /\ Goto(c, "drain")
  /\ UNCHANGED <<id, got, slotVars, closed, replyVars>>

(* giveUp: deregister removes our own slot, and only ours. *)
Deregister(c) ==
  /\ pc[c] = "giveUp"
  /\ IF waiters[id[c]] = c
     THEN waiters' = [waiters EXCEPT ![id[c]] = None] /\ Goto(c, "done")
     ELSE UNCHANGED waiters /\ Goto(c, "drain")
  /\ UNCHANGED <<id, got, slotVars, closed, replyVars>>

(* ... otherwise the slot was claimed or closed: wait for it, and route a  *)
(* reply that came too late to the unmatched path.                         *)
GiveUp(c) ==
  /\ pc[c] = "drain"
  /\ slot[c] # "empty"
  /\ slot' = [slot EXCEPT ![c] = IF @ = "full" THEN "empty" ELSE @]
  /\ content' = [content EXCEPT ![c] = None]
  /\ fate' = [r \in Replies |-> IF r = content[c] THEN "unmatched" ELSE fate[r]]
  /\ Goto(c, "done")
  /\ UNCHANGED <<id, got, waiters, closed, origin, target>>

-----------------------------------------------------------------------------
(* The receiver on the reply channel.                                      *)

(* What becomes of a reply nobody waits for: it is routed to the unmatched *)
(* path or, if the subscription was cancelled before it came, refused by   *)
(* the reply channel.                                                      *)
Missed == {"unmatched"} \cup (IF closed = "closed" THEN {"refused"} ELSE {})

(* Slip: deliver takes whatever slot is registered. *)
ClaimAnyWaiter(r, c) ==
  /\ fate[r] = "unsent"
  /\ pc[c] # "idle" /\ id[c] # None
  /\ origin' = [origin EXCEPT ![r] = c]
  /\ \E i \in Ids :
       /\ waiters[i] # None
       /\ target' = [target EXCEPT ![r] = waiters[i]]
       /\ waiters' = [waiters EXCEPT ![i] = None]
  /\ fate' = [fate EXCEPT ![r] = "claimed"]
  /\ UNCHANGED <<callVars, slotVars, closed>>

(* deliver: a reply to the request of c takes the slot that stands under   *)
(* its id out of the registry.                                             *)
Claim(r, c) ==
  /\ fate[r] = "unsent"
  /\ pc[c] # "idle" /\ id[c] # None
  /\ origin' = [origin EXCEPT ![r] = c]
  /\ IF waiters[id[c]] # None
     THEN /\ target' = [target EXCEPT ![r] = waiters[id[c]]]
          /\ waiters' = [waiters EXCEPT ![id[c]] = None]
          /\ fate' = [fate EXCEPT ![r] = "claimed"]
     ELSE /\ \E f \in Missed : fate' = [fate EXCEPT ![r] = f]
          /\ UNCHANGED <<target, waiters>>
  /\ UNCHANGED <<callVars, slotVars, closed>>

(* ... and sends into it after the unlock. The slot has room for one. *)
Fill(r) ==
  /\ fate[r] = "claimed"
  /\ slot[target[r]] = "empty"
  /\ slot' = [slot EXCEPT ![target[r]] = "full"]
  /\ content' = [content EXCEPT ![target[r]] = r]
  /\ fate' = [fate EXCEPT ![r] = "slot"]
  /\ UNCHANGED <<callVars, waiters, closed, origin, target>>

-----------------------------------------------------------------------------
(* Close.                                                                  *)

(* closeAll closes and removes every registered slot, in one critical      *)
(* section.                                                                *)
CloseAll ==
  /\ closed = "open"
  /\ closed' = "closing"
  /\ slot' = [c \in Callers |-> IF \E i \in Ids : waiters[i] = c THEN "closed" ELSE slot[c]]
  /\ waiters' = [i \in Ids |-> None]
  /\ UNCHANGED <<callVars, content, replyVars>>

(* The reply subscription is cancelled. *)
Unsubscribe ==
  /\ closed = "closing"
  /\ closed' = "closed"
  /\ UNCHANGED <<callVars, slotVars, waiters, replyVars>>

(* Every call has returned. *)
Quiet ==
  /\ \A c \in Callers : pc[c] = "done"
  /\ UNCHANGED vars

CallStep(c) ==
  \/ \E i \in Ids : Register(c, i)
  \/ Refused(c) \/ Sent(c) \/ Abandon(c) \/ Settled(c) \/ Deregister(c) \/ GiveUp(c)

Next ==
  \/ \E c \in Callers : CallStep(c)
  \/ \E r \in Replies : Fill(r) \/ \E c \in Callers : Claim(r, c)
  \/ CloseAll \/ Unsubscribe
  \/ Quiet

Spec == Init /\ [][Next]_vars

(* The timer of a waiting call fires, so Abandon or Settled is taken; a    *)
(* goroutine that gives up or fills a slot runs. Sends are not assumed to  *)
(* return.                                                                 *)
Fairness ==
  /\ \A c \in Callers : WF_vars(pc[c] # "idle" /\ pc[c] # "send" /\ CallStep(c))
  /\ \A r \in Replies : WF_vars(Fill(r))

FairSpec == Spec /\ Fairness

-----------------------------------------------------------------------------
(* Properties.                                                             *)

(* Every variable keeps its type. *)
TypeOK ==
  /\ pc \in [Callers -> {"idle", "send", "wait", "giveUp", "drain", "done"}]
  /\ id \in [Callers -> Ids \cup {None}]
  /\ slot \in [Callers -> {"empty", "full", "closed"}]
  /\ content \in [Callers -> Replies \cup {None}]
  /\ got \in [Callers -> Replies \cup {None}]
  /\ waiters \in [Ids -> Callers \cup {None}]
  /\ closed \in {"open", "closing", "closed"}
  /\ fate \in [Replies -> {"unsent", "claimed", "slot", "returned", "unmatched", "refused"}]
  /\ origin \in [Replies -> Callers \cup {None}]
  /\ target \in [Replies -> Callers \cup {None}]

(* deliver's send into the slot it claimed neither blocks nor panics: the  *)
(* slot is empty and open, and no other reply has been promised to it.     *)
FillIsSafe ==
  \A r \in Replies : fate[r] = "claimed" =>
     /\ slot[target[r]] = "empty"
     /\ \A q \in Replies \ {r} : fate[q] = "claimed" => target[q] # target[r]

(* A call that has returned leaves nothing behind: its slot is not in the  *)
(* registry, no reply is in it and none is on its way to it. So a reply    *)
(* that races a timeout, a cancel, a failed send or a panic is never       *)
(* dropped in silence, and no slot leaks.                                  *)
NothingLeftBehind ==
  \A c \in Callers : pc[c] = "done" =>
     /\ \A i \in Ids : waiters[i] # c
     /\ slot[c] # "full"
     /\ \A r \in Replies : fate[r] = "claimed" => target[r] # c

(* A call that gave up and lost the race for its slot does get something   *)
(* from it: somebody has promised a reply, or Close has closed it. With an *)
(* id that is used again this needs deregister to compare slots.           *)
DrainIsOwed ==
  \A c \in Callers : pc[c] = "drain" =>
     slot[c] # "empty" \/ \E r \in Replies : fate[r] = "claimed" /\ target[r] = c

(* A call whose id no other call has used, as the ids the gateways mint,   *)
(* returns the reply to its own request or none, whatever comes late.      *)
OwnReply ==
  \A c \in Callers :
     got[c] # None /\ (\A d \in Callers \ {c} : id[d] # id[c]) => origin[got[c]] = c

(* A call that waits or gives up returns.                                  *)
ExchangeReturns ==
  \A c \in Callers : pc[c] \in {"wait", "giveUp", "drain"} ~> pc[c] = "done"
=============================================================================
