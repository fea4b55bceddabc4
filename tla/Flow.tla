-------------------------------- MODULE Flow --------------------------------
(***************************************************************************)
(* One call of a sender, end to end. A producer with a retry policy sends  *)
(* a message over the HTTP outbound adapter to another process, where      *)
(* ServeAsync hands it to a chain that ends in the channels of that        *)
(* process, with subscribers that come and go. Or a gateway asks for a     *)
(* reply, which ServeGateway gets from an exchange.                        *)
(*                                                                         *)
(* The network may lose a request or an answer and something on the way    *)
(* may answer in the server's place, so an attempt the sender gave up may  *)
(* go on in the server while it makes the next one. Time passes while an   *)
(* attempt is under way and while the sender waits.                        *)
(***************************************************************************)
EXTENDS EndpointConfig, Backoff, HTTPAdapter, Pipeline, Channels

CONSTANTS
  Scenarios,  \* what the constructors are given: a retry policy with its backoff, the
              \* options, the steps of the chain and what they make of the message
  Requests, NoRequest,  \* bound: requests in the server at a time
  Side,       \* the subscribers of the direct channel
  Headers,    \* Retry-After headers on the way
  RetryBudget,  \* WithProducerRetryBudget
  LastAttempt,  \* bound: attempts are told apart up to here
  MaxFaults     \* bound on the faults of the environment

ASSUME FlowAssumption == Side \subseteq Subs

(* What there is to run: the constructors refuse none of it. An outbound   *)
(* gateway takes what it is given.                                         *)
Accepted(c) ==
  /\ Expr!compile(c.message.transform, "any") /\ Expr!compile(c.message.parts, "any")
  /\ Expr!compile(c.message.wanted, "bool") /\ Expr!compile(c.message.route, "string")
  /\ IF c.mode = "send" THEN NewInbound(TRUE, c.http) = "nil"
     ELSE NewInboundGateway(NewChannelExchange(c.exchange) = "nil", c.http) = "nil"
  /\ CASE c.mode = "send" ->
            NewProducer(c.policy, [c.args EXCEPT !.out = NewOutbound(c.url, c.http)]) = "nil"
       [] c.mode = "gateway" -> NewGateway(NewExchange(c.url, c.http), c.args.nilOption) = "nil"
       [] c.mode = "step" -> TRUE

VARIABLES
  mode, policy, m, setup, plan,  \* the configuration, and the sends of the chain: never changed
  pc, attempt, now, wait, err, result, ctxDone, inFlight,  \* the sender
  sunk,     \* what the dead-letter sink has: how often it took the message
  reply,    \* the reply a gateway passed on
  req,      \* the requests in the server
  reg, direct,  \* the channels of the server
  sub,      \* where each subscriber is, and its channel
  owed,     \* ghost: the parts that who was subscribed from the start of the call on,
            \* and still is, has not been given
  faults

config == <<mode, policy, m, setup, plan>>
sender == <<pc, attempt, now, wait, err, result, ctxDone, inFlight, sunk, reply>>
channels == <<reg, direct, sub>>
vars == <<config, sender, req, channels, owed, faults>>

NoReq == [pc |-> "free", todo |-> <<>>, part |-> 0, chan |-> NoChan, subs |-> <<>>,
          failed |-> FALSE, status |-> 0, type |-> "", body |-> 0]

NoReply == [headers |-> <<>>, body |-> -1]

Fault == faults < MaxFaults /\ faults' = faults + 1

Init ==
  /\ \E c \in Scenarios :
       /\ Accepted(c)
       /\ mode = c.mode /\ policy = c.policy /\ m = c.outgoing
       /\ setup = [fanOut |-> c.setup.fanOut, single |-> c.setup.single,
                   exchange |-> NewExchange(c.url, c.http) = "nil",
                   follows |-> resolveClient(c.http), http |-> c.http]
       /\ plan = Chain(c.steps, c.message, c.setup)
       /\ reg = NewPubSub(c.setup.brokenPubSub)
  /\ pc = "start" /\ attempt = 1 /\ now = 0 /\ wait = 0 /\ err = Nil
  /\ result = "none" /\ ctxDone = FALSE /\ inFlight = NoRequest
  /\ sunk = 0 /\ reply = NoReply
  /\ req = [x \in Requests |-> NoReq]
  /\ direct = NoSub
  /\ sub = [s \in Subs |-> [pc |-> "out", chan |-> NoChan]]
  /\ owed = {}
  /\ faults = 0

(* What the subscribers there are have to hear of: the parts for their     *)
(* topic. Those for the direct channel are its owner's, whoever that is.   *)
Owed ==
  {<<s, i>> \in Subs \X DOMAIN plan : plan[i] = "topic" /\ s \notin Side /\ sub[s].pc = "in"}
    \cup {<<NoSub, i>> : i \in {j \in DOMAIN plan : plan[j] = "side"}}

-----------------------------------------------------------------------------
(* The sender. Producer.Send, or OutboundGateway over msghttp.Exchange.    *)

Return(r) == pc' = "done" /\ result' = r

(* What the producer sends: the payload as the codec encodes it. *)
Unboxed == [class |-> "encode", retryAfter |-> -1]
box == IF m.encodable THEN Nil ELSE Unboxed

(* A step of a nil exchange. *)
nilExchangeStep == Permanent

(* EncodeRequest: a payload that is not bytes goes nowhere. *)
EncodeRequest == IF m.encodable THEN Nil ELSE permanentEncode

Start ==
  LET e == CASE mode = "send" -> box
             [] mode = "step" /\ ~setup.exchange -> nilExchangeStep
             [] OTHER -> EncodeRequest
  IN /\ pc = "start"
     /\ IF e = Nil THEN pc' = "send" /\ owed' = Owed /\ UNCHANGED <<result, err>>
        ELSE Return("error") /\ err' = e /\ UNCHANGED owed
     /\ UNCHANGED <<config, attempt, now, wait, ctxDone, inFlight, sunk, reply, req, channels,
                    faults>>

(* client.Do: the request goes out, unless the context has ended. *)
Do(x) ==
  /\ pc = "send" /\ ~ctxDone
  /\ req[x] = NoReq
  /\ pc' = "await" /\ inFlight' = x
  /\ req' = [req EXCEPT ![x].pc = "arrived"]
  /\ UNCHANGED <<config, attempt, now, wait, err, result, ctxDone, sunk, reply, channels, owed, faults>>

(* What the loop makes of an attempt that failed: the error as it is if    *)
(* there is no policy or no point, the divert if the attempts or the       *)
(* budget are spent, and else a wait.                                      *)
Failed(e, at) ==
  /\ err' = e
  /\ now' = at
  /\ IF ~policy.set \/ e.class = "permanent"
     THEN Return("error") /\ UNCHANGED wait
     ELSE IF policy.maxAttempts > 0 /\ attempt >= policy.maxAttempts
     THEN pc' = "divert" /\ UNCHANGED <<wait, result>>
     ELSE \E d \in nextDelay(policy.backoff, attempt, e.retryAfter) :
            IF at + d > RetryBudget
            THEN pc' = "divert" /\ UNCHANGED <<wait, result>>
            ELSE pc' = "wait" /\ wait' = d /\ UNCHANGED result
  /\ UNCHANGED <<attempt, ctxDone, sunk, reply>>

(* A request nobody waits for: it may not have arrived, or it goes on. *)
Abandoned(r) ==
  CASE r.pc = "answered" -> {NoReq}
    [] r.pc = "arrived" -> {NoReq, r}
    [] OTHER -> {r}

(* The exchange has a correlation id of its own; the message that goes on  *)
(* has the one that came, or none.                                         *)
OutboundGateway(type, body) ==
  LET x == buildReply(with(m.headers, "correlation-id", "fresh"), type, body)
  IN IF "correlation-id" \in DOMAIN m.headers
     THEN [x EXCEPT !.headers = with(@, "correlation-id", m.headers["correlation-id"])]
     ELSE [x EXCEPT !.headers = without(@, "correlation-id")]

(* Only the payload is returned. *)
Request(body) == [headers |-> <<>>, body |-> body]

(* What the caller gets of a reply: its payload has to be of the type. *)
Replied(type, got) ==
  /\ Return(IF got.err = "nil" /\ mode = "gateway" /\ ~m.reads THEN "ErrPayloadType" ELSE got.err)
  /\ reply' = IF result' # "nil" THEN NoReply
              ELSE IF mode = "gateway" THEN Request(got.body) ELSE OutboundGateway(type, got.body)

(* An attempt without an answer takes some time, or hardly any. *)
Elapsed == {now, Smaller(now + 1, RetryBudget + 1)}

(* The answer of the server. The body of a reply may end early. *)
Answer ==
  LET r == req[inFlight]
      e == ClassifyResponse(r.status, [form |-> "", value |-> 0])
  IN /\ pc = "await" /\ r.pc = "answered"
     /\ inFlight' = NoRequest
     /\ req' = [req EXCEPT ![inFlight] = NoReq]
     /\ \/ /\ e.class # "nil"
           /\ Failed(e, now)
           /\ UNCHANGED faults
        \/ /\ e.class = "nil" /\ mode = "send"
           /\ Return("nil")
           /\ UNCHANGED <<attempt, now, wait, err, ctxDone, sunk, reply, faults>>
        \/ /\ e.class = "nil" /\ mode # "send"
           /\ \E arrived \in 0..r.body :
                /\ IF arrived = r.body THEN UNCHANGED faults ELSE Fault
                /\ Replied(r.type, ReadReply(r.body, arrived))
           /\ UNCHANGED <<attempt, now, wait, err, ctxDone, sunk>>
     /\ UNCHANGED <<config, channels, owed>>

(* No answer: the connection failed, or the context or the client's        *)
(* timeout ended it. The server knows nothing of it.                       *)
Lost ==
  /\ pc = "await" /\ inFlight # NoRequest
  /\ Fault
  /\ \E r \in Abandoned(req[inFlight]) : req' = [req EXCEPT ![inFlight] = r]
  /\ inFlight' = NoRequest
  /\ \E at \in Elapsed : Failed(redactTransport, at)
  /\ UNCHANGED <<config, channels, owed>>

(* Another's answer, instead of the server's. A redirect is one, unless    *)
(* the client follows it.                                                  *)
Intercepted ==
  /\ pc = "await" /\ inFlight # NoRequest
  /\ Fault
  /\ \E r \in Abandoned(req[inFlight]) : req' = [req EXCEPT ![inFlight] = r]
  /\ inFlight' = NoRequest
  /\ \E status \in {302, 404, 408, 429, 503}, h \in Headers, at \in Elapsed :
       /\ ~(status = 302 /\ setup.follows)
       /\ Failed(ClassifyResponse(status, h), at)
  /\ UNCHANGED <<config, channels, owed>>

(* client.Do on a context that has ended, while waiting or before. *)
Cancelled ==
  /\ pc \in {"send", "await"} /\ ctxDone
  /\ \/ inFlight = NoRequest /\ UNCHANGED req
     \/ /\ inFlight # NoRequest
        /\ \E r \in Abandoned(req[inFlight]) : req' = [req EXCEPT ![inFlight] = r]
  /\ inFlight' = NoRequest
  /\ Failed(redactTransport, now)
  /\ UNCHANGED <<config, channels, owed, faults>>

CtxDone ==
  /\ pc # "done" /\ ~ctxDone
  /\ Fault
  /\ ctxDone' = TRUE
  /\ UNCHANGED <<config, pc, attempt, now, wait, err, result, inFlight, sunk, reply, req, channels,
                 owed>>

WaitOver ==
  /\ pc = "wait"
  /\ pc' = "send"
  /\ now' = now + wait
  /\ attempt' = Smaller(attempt + 1, LastAttempt)
  /\ UNCHANGED <<config, wait, err, result, ctxDone, inFlight, sunk, reply, req, channels, owed, faults>>

(* Slip: the error of the wait is returned and the message forgotten. *)
WaitAborts ==
  /\ pc = "wait" /\ ctxDone
  /\ Return("error")
  /\ UNCHANGED <<config, attempt, now, wait, err, ctxDone, inFlight, sunk, reply, req, channels,
                 owed, faults>>

(* The context ends during the wait: that is the end of the message too. *)
WaitCancelled ==
  /\ pc = "wait" /\ ctxDone
  /\ pc' = "divert"
  /\ UNCHANGED <<config, attempt, now, wait, err, result, ctxDone, inFlight, sunk, reply, req,
                 channels, owed, faults>>

(* On a context of its own. A sink that fails may have taken the message.  *)
deadLetter ==
  /\ pc = "divert"
  /\ \/ /\ ~policy.sink
        /\ Return("error")
        /\ UNCHANGED <<sunk, faults>>
     \/ /\ policy.sink
        /\ Return("ErrDeadLettered")
        /\ sunk' = sunk + 1
        /\ UNCHANGED faults
     \/ /\ policy.sink
        /\ Fault
        /\ Return("sinkFailed")
        /\ sunk' \in {sunk, sunk + 1}
  /\ UNCHANGED <<config, attempt, now, wait, err, ctxDone, inFlight, reply, req, channels, owed>>

-----------------------------------------------------------------------------
(* The server. *)

(* The response, if somebody waits for it. *)
Finish(x, w) ==
  req' = [req EXCEPT ![x] = IF inFlight = x
                            THEN [NoReq EXCEPT !.pc = "answered", !.status = w.status,
                                               !.type = w.type, !.body = w.body]
                            ELSE NoReq]

Bare(status) == [status |-> status, type |-> "", body |-> 0]
Refusal(e) == Bare(errStatus(setup.http, e))

Advance(x) ==
  req' = [req EXCEPT ![x] = [@ EXCEPT !.pc = "step", !.todo = Tail(@), !.part = @ + 1,
                                      !.chan = NoChan, !.subs = <<>>]]

DecodeRequest(x) ==
  /\ req[x].pc = "arrived"
  /\ \/ /\ m.size <= maxBody(setup.http)
        /\ req' = IF mode = "send"
                  THEN [req EXCEPT ![x].pc = "step", ![x].part = 1, ![x].todo = plan]
                  ELSE [req EXCEPT ![x].pc = "exchange"]
        /\ UNCHANGED faults
     \/ /\ m.size > maxBody(setup.http)
        /\ Finish(x, Refusal("MaxBytesError"))
        /\ UNCHANGED faults
     \/ /\ Fault
        /\ Finish(x, Refusal("ErrDecodeRequest"))
  /\ UNCHANGED <<config, sender, channels, owed>>

(* The chain makes its next send, or the target's Send returns. *)
Step(x) ==
  LET r == req[x]
      send == Head(r.todo)
  IN /\ r.pc = "step"
     /\ CASE r.todo = <<>> -> Finish(x, Bare(successStatusOrDefault(setup.http)))
          [] r.todo # <<>> /\ \/ send = "error"
                              \/ send = "side" /\ directSend(direct) # "nil"
                              \/ send = "topic" /\ Publish(reg).err # "nil" ->
               Finish(x, Refusal("error"))
          [] OTHER ->
               IF send = "side"
               THEN req' = [req EXCEPT ![x].pc = "fan", ![x].subs = <<direct>>]
               ELSE IF send = "topic" /\ Publish(reg).chan # NoChan
               THEN req' = [req EXCEPT ![x].pc = "snapshot", ![x].chan = Publish(reg).chan]
               ELSE Advance(x)
     /\ UNCHANGED <<config, sender, channels, owed, faults>>

(* PublishSubscribeChannel.Send copies the subscribers, then calls them.   *)
Snapshot(x) ==
  /\ req[x].pc = "snapshot"
  /\ req' = [req EXCEPT ![x].pc = "fan", ![x].subs = reg.subs[req[x].chan]]
  /\ UNCHANGED <<config, sender, channels, owed, faults>>

(* One handler takes the part. A failure or a panic of it ends the send of *)
(* a direct channel, and is reported or forgiven by a fan-out once all the *)
(* others have been called.                                                *)
Handle(x) ==
  LET r == req[x]
      s == Head(r.subs)
      told == owed \ {<<IF r.chan = NoChan THEN NoSub ELSE s, r.part>>}
      forgiven == r.chan # NoChan /\ setup.fanOut = "bestEffort"
  IN /\ r.pc = "fan" /\ r.subs # <<>>
     /\ \/ /\ owed' = told
           /\ req' = [req EXCEPT ![x].subs = Tail(@)]
           /\ UNCHANGED faults
        \/ /\ Fault
           /\ owed' = IF forgiven THEN told ELSE owed
           /\ req' = [req EXCEPT ![x].subs = Tail(@), ![x].failed = @ \/ ~forgiven]
     /\ UNCHANGED <<config, sender, channels>>

SendReturns(x) ==
  /\ req[x].pc = "fan" /\ req[x].subs = <<>>
  /\ IF req[x].failed THEN Finish(x, Refusal("error")) ELSE Advance(x)
  /\ UNCHANGED <<config, sender, channels, owed, faults>>

(* ServeGateway: what the exchange answers, if it does not panic, and how  *)
(* that is encoded.                                                        *)
ServeGateway(x) ==
  /\ req[x].pc = "exchange"
  /\ \/ \E payload \in {"bytes", "other"}, type \in {"", "json"}, n \in 0..(MaxResponseBytes + 1) :
          LET w == EncodeResponse(payload, [k \in {"content-type"} |-> type], n)
          IN IF w.err = "nil" THEN Finish(x, w)
             ELSE Finish(x, Refusal(w.err))
     \/ \E e \in {"ErrReplyTimeout", "ErrGatewayClosed", "ErrDuplicateCorrelation"} :
          Finish(x, Refusal(e))
     \/ Finish(x, Bare(recoverHandler))
  /\ UNCHANGED <<config, sender, channels, owed, faults>>

-----------------------------------------------------------------------------
(* The subscribers of the server's channels. *)

(* A new channel is any one that nothing refers to any more. *)
Unused == {c \in Chans : /\ c # reg.topic /\ isEmpty(reg.subs, c)
                         /\ \A s \in Subs : sub[s].chan # c
                         /\ \A x \in Requests : req[x].chan # c}

SubscribeTopic(s) ==
  LET r == Subscribe(reg, s, CHOOSE c \in Unused : TRUE, setup.single)
  IN /\ "topic" \in Range(plan) /\ Unused # {}
     /\ s \notin Side /\ sub[s].pc = "out"
     /\ r.err = "nil"
     /\ reg' = r.reg
     /\ sub' = [sub EXCEPT ![s] = [pc |-> "in", chan |-> r.chan]]
     /\ UNCHANGED <<config, sender, req, direct, owed, faults>>

CancelTopic(s) ==
  /\ s \notin Side /\ sub[s].pc = "in"
  /\ reg' = innerCancel(reg, s, sub[s].chan)
  /\ sub' = [sub EXCEPT ![s].pc = "drop"]
  /\ owed' = {o \in owed : o[1] # s}
  /\ UNCHANGED <<config, sender, req, direct, faults>>

CancelDrops(s) ==
  /\ sub[s].pc = "drop"
  /\ reg' = dropEmpty(reg, sub[s].chan)
  /\ sub' = [sub EXCEPT ![s] = [pc |-> "out", chan |-> NoChan]]
  /\ UNCHANGED <<config, sender, req, direct, owed, faults>>

SubscribeDirect(s) ==
  /\ "side" \in Range(plan)
  /\ s \in Side /\ sub[s].pc = "out"
  /\ directSubscribe(direct, s).err = "nil"
  /\ direct' = directSubscribe(direct, s).handler
  /\ sub' = [sub EXCEPT ![s].pc = "in"]
  /\ UNCHANGED <<config, sender, req, reg, owed, faults>>

CancelDirect(s) ==
  /\ s \in Side /\ sub[s].pc = "in"
  /\ direct' = directRelease(direct, s)
  /\ sub' = [sub EXCEPT ![s].pc = "out"]
  /\ UNCHANGED <<config, sender, req, reg, owed, faults>>

-----------------------------------------------------------------------------
SenderStep ==
  \/ Start \/ Answer \/ WaitOver \/ deadLetter
  \/ \E x \in Requests : Do(x)

ContextStep == Cancelled \/ WaitCancelled

ServerStep(x) ==
  DecodeRequest(x) \/ Step(x) \/ Snapshot(x) \/ Handle(x) \/ SendReturns(x) \/ ServeGateway(x)

SubscriberStep(s) ==
  \/ SubscribeTopic(s) \/ CancelTopic(s) \/ CancelDrops(s)
  \/ SubscribeDirect(s) \/ CancelDirect(s)

Next ==
  \/ SenderStep \/ ContextStep \/ Lost \/ Intercepted \/ CtxDone
  \/ \E x \in Requests : ServerStep(x)
  \/ mode = "send" /\ pc # "done" /\ \E s \in Subs : SubscriberStep(s)

Spec == Init /\ [][Next]_vars

(* Everyone runs, handlers and sinks return. The network may be perfect    *)
(* and subscribers may do nothing.                                         *)
FairSpec ==
  /\ Spec
  /\ WF_vars(SenderStep) /\ WF_vars(ContextStep)
  /\ \A x \in Requests : WF_vars(ServerStep(x))

-----------------------------------------------------------------------------
(* Properties. *)

(* A Send that returns nil has been heard by everyone who was subscribed   *)
(* from its start to its end: each part the chain made of the message      *)
(* reached each of them, over whatever attempts, and nobody who subscribes *)
(* or cancels beside it takes the topic away from them. A message that was *)
(* filtered out, or has no route, was taken by the other channel's         *)
(* handler.                                                                *)
NilReachesSubscribers ==
  (result = "nil" /\ mode = "send") => owed = {} /\ "error" \notin Range(plan)

(* The producer's caller always learns where a message went. With a        *)
(* dead-letter sink a failed message is in it, once, and ErrDeadLettered   *)
(* says so, unless the error was permanent, or of the codec before any     *)
(* attempt, or the sink failed too: also when the context ends while the   *)
(* producer waits for its next attempt.                                    *)
DivertedOrTold ==
  pc = "done" =>
    /\ sunk <= 1
    /\ result = "ErrDeadLettered" => sunk = 1
    /\ sunk = 1 => result \in {"ErrDeadLettered", "sinkFailed"}
    /\ result = "error" /\ policy.set /\ policy.sink => err.class \in {"permanent", "encode"}

(* A producer that keeps failing never picks up its pace: its wait does    *)
(* not become shorter as the attempts go on and the product of its backoff *)
(* outgrows a duration, as long as that backoff has a Max and no jitter    *)
(* and no server asked for more before.                                    *)
PaceNeverPicksUp ==
  [][(pc # "wait" /\ pc' = "wait" /\ err.retryAfter < 0 /\ policy.backoff.max > 0
      /\ policy.backoff.factor = 0) => wait' >= wait]_vars

(* INV-6 of msghttp.Exchange: what it returns is the whole body, neither   *)
(* cut off at WithMaxResponseBytes nor where the connection ended. Beyond  *)
(* an outbound gateway the reply has the flow's headers as they came, its  *)
(* correlation included, an id of its own, and no more than the response's *)
(* type that describes it.                                                 *)
WholeReply ==
  [][reply' # reply =>
      LET h == reply'.headers
      IN /\ reply'.body = req[inFlight].body
         /\ mode = "step" =>
              /\ Restrict(h, DOMAIN h \ OfRequest) = Restrict(m.headers, DOMAIN m.headers \ OfRequest)
              /\ h["message-id"] # m.headers["message-id"]
              /\ DOMAIN h \cap OfRequest = {"message-id", "timestamp", "http.content-type"}
              /\ h["http.content-type"] = req[inFlight].type]_vars

(* Send returns, however often it fails and whatever its policy: without a *)
(* limit of attempts and with a backoff of zero the budget ends it.        *)
SendEnds == []<>(pc = "done")
=============================================================================
