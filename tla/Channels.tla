------------------------------ MODULE Channels ------------------------------
(***************************************************************************)
(* The channels of one process: a DirectChannel, and the PubSub registry   *)
(* with the publish-subscribe channel of one topic. A registry is a record *)
(* of the channel in its map (NoChan if there is none) and the subscribers *)
(* of every channel that was ever in it; an operator returns the next one, *)
(* so that what the code does under one lock is one step.                  *)
(***************************************************************************)
EXTENDS Integers, Sequences

CONSTANTS
  Subs,   \* subscribers
  Chans,  \* publish-subscribe channels
  NoSub, NoChan

ASSUME ChannelsAssumption == NoSub \notin Subs /\ NoChan \notin Chans

(* DirectChannel: its handler, or NoSub. *)
directSubscribe(handler, s) ==
  IF handler = NoSub THEN [err |-> "nil", handler |-> s]
  ELSE [err |-> "ErrChannelSubscribed", handler |-> handler]

directRelease(handler, s) == IF handler = s THEN NoSub ELSE handler

(* Send calls the handler there is. *)
directSend(handler) == IF handler = NoSub THEN "ErrNoSubscriber" ELSE "nil"

(* PublishSubscribeChannel. *)
chanSubscribe(subs, c, s, single) ==
  IF single /\ subs[c] # <<>> THEN [err |-> "ErrChannelSubscribed", subs |-> subs]
  ELSE [err |-> "nil", subs |-> [subs EXCEPT ![c] = Append(@, s)]]

chanRemove(subs, c, s) == [subs EXCEPT ![c] = SelectSeq(@, LAMBDA x : x # s)]

isEmpty(subs, c) == subs[c] = <<>>

(* PubSub. A nil option is an error of every call. *)
NewPubSub(nilOption) ==
  [topic |-> NoChan, subs |-> [c \in Chans |-> <<>>], err |-> IF nilOption THEN "ErrNilFunc" ELSE "nil"]

(* The channel to send to; a topic that nobody has subscribed to has none. *)
Publish(reg) == [err |-> reg.err, chan |-> reg.topic]

(* The lookup, or the new channel, and the subscription to it are one      *)
(* critical section.                                                       *)
Subscribe(reg, s, fresh, single) ==
  LET c == IF reg.topic = NoChan THEN fresh ELSE reg.topic
      r == chanSubscribe(reg.subs, c, s, single)
  IN IF reg.err # "nil" THEN [err |-> reg.err, chan |-> NoChan, reg |-> reg]
     ELSE [err |-> r.err, chan |-> c, reg |-> [reg EXCEPT !.topic = c, !.subs = r.subs]]

(* Cancel first leaves the channel, under its lock. *)
innerCancel(reg, s, c) == [reg EXCEPT !.subs = chanRemove(@, c, s)]

(* Slip: whoever leaves takes the topic with it. *)
DropTopic(reg, c) == IF reg.topic = c THEN [reg EXCEPT !.topic = NoChan] ELSE reg

(* Then it drops the topic, under the registry's, if that is still its     *)
(* channel and nobody is on it.                                            *)
dropEmpty(reg, c) ==
  IF reg.topic = c /\ isEmpty(reg.subs, c) THEN [reg EXCEPT !.topic = NoChan] ELSE reg
=============================================================================
