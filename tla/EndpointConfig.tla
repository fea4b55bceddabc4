--------------------------- MODULE EndpointConfig ---------------------------
(***************************************************************************)
(* What the constructors of package endpoint refuse. An option is the set  *)
(* of the values it was given: none, or one.                               *)
(***************************************************************************)
EXTENDS Integers

concurrencyCeiling == 2^16
maxInFlightCeiling == 2^20

Given(option) == \A n \in option : n > 0

(* RetryPolicy.Validate *)
Validate(p) ==
  CASE p.maxAttempts < 0 -> "ErrInvalidMaxAttempts"
    [] p.maxAttempts > 0 /\ ~p.sink -> "ErrNoDeadLetter"
    [] OTHER -> "nil"

(* An adapter that takes live values has no codec; any other has one. *)
resolveCodec(live, codecSet) == IF live /\ codecSet THEN "ErrUnexpectedCodec" ELSE "nil"

NewProducer(p, o) ==
  CASE o.out # "nil" -> "ErrNilAdapter"
    [] o.nilOption -> "ErrNilFunc"
    [] resolveCodec(o.live, o.codecSet) # "nil" -> resolveCodec(o.live, o.codecSet)
    [] p.set /\ Validate(p) # "nil" -> Validate(p)
    [] p.set /\ p.maxAttempts = 0 /\ p.nilBackoff -> "ErrUnboundedRetry"
    [] ~Given(o.retryAfterCap) -> "ErrInvalidRetryAfterCap"
    [] ~Given(o.retryBudget) -> "ErrInvalidRetryBudget"
    [] ~Given(o.deadLetterTimeout) -> "ErrInvalidDeadLetterTimeout"
    [] OTHER -> "nil"

(* The options of a consumer, all left at their defaults. *)
Unset == [concurrency |-> {}, maxInFlight |-> {}, attemptTTL |-> {}, pollInterval |-> {},
          pollMaxBatch |-> {}, codecSet |-> FALSE, nilOption |-> FALSE]

NewConsumer(src, handler, p, o) ==
  CASE src.kind = "nil" -> "ErrNilAdapter"
    [] ~handler \/ o.nilOption -> "ErrNilFunc"
    [] ~(o.concurrency \subseteq 1..concurrencyCeiling) -> "ErrInvalidConcurrency"
    [] Validate(p) # "nil" -> Validate(p)
    [] ~(o.maxInFlight \subseteq 1..maxInFlightCeiling) -> "ErrInvalidMaxInFlight"
    [] ~Given(o.attemptTTL) -> "ErrInvalidAttemptTTL"
    [] ~Given(o.pollInterval) -> "ErrInvalidPollInterval"
    [] ~Given(o.pollMaxBatch) -> "ErrInvalidPollMaxBatch"
    [] resolveCodec(src.live, o.codecSet) # "nil" -> resolveCodec(src.live, o.codecSet)
    [] src.kind \notin {"stream", "poll"} -> "ErrUnsupportedSource"
    [] OTHER -> "nil"

NewGateway(exchange, nilOption) ==
  CASE exchange # "nil" -> "ErrNilExchange"
    [] nilOption -> "ErrNilFunc"
    [] OTHER -> "nil"

(* Whether the channel keeps to one subscriber; a panic is a no. *)
safeSingleSubscriber(answer) == answer = "yes"

(* A reply channel that can tell has to be exclusive, unless it is said to *)
(* be shared; then the exchange subscribes.                                *)
NewChannelExchange(o) ==
  CASE ~o.request \/ ~o.reply -> "ErrNilChannel"
    [] o.nilOption -> "ErrNilFunc"
    [] ~Given(o.replyTimeout) -> "ErrInvalidReplyTimeout"
    [] ~o.allowShared /\ \E answer \in o.exclusive : ~safeSingleSubscriber(answer) ->
         "ErrSharedReplyChannel"
    [] o.subscribed # "nil" -> o.subscribed
    [] OTHER -> "nil"
=============================================================================
