----------------------------- MODULE HTTPConfig -----------------------------
(***************************************************************************)
(* The options of the HTTP adapters and what the constructors refuse. An   *)
(* option is the set of the values it was given: none, or one.             *)
(***************************************************************************)
EXTENDS Integers

byteCapCeiling == 2147483647
ceiling == 2^16  \* of WithMaxConnections, WithConnectionBuffer, WithReplayBuffer

Defaults ==
  [maxBodyBytes |-> {}, successStatus |-> {}, errorStatus |-> {}, maxResponseBytes |-> {},
   eventName |-> {}, maxEventBytes |-> {}, maxConnections |-> {}, connectionBuffer |-> {},
   slowClientPolicy |-> {}, replayBuffer |-> {}, heartbeat |-> {}, writeTimeout |-> {},
   reconnectBackoff |-> {}, readTimeout |-> {}, httpClient |-> {}, followRedirects |-> FALSE]

(* A name that would end its line is none. *)
validSSEField(name) == name # "newline"

checkRange(option, max) == \A n \in option : n \in 1..max
Positive(option) == \A d \in option : d > 0

NewConfig(o) ==
  CASE ~checkRange(o.maxBodyBytes, byteCapCeiling) -> "ErrInvalidMaxBodyBytes"
    [] ~(o.successStatus \subseteq 100..599) -> "ErrInvalidStatusCode"
    [] ~checkRange(o.maxResponseBytes, byteCapCeiling) -> "ErrInvalidMaxResponseBytes"
    [] \E name \in o.eventName : ~validSSEField(name) -> "ErrInvalidEventField"
    [] ~checkRange(o.maxEventBytes, byteCapCeiling) -> "ErrInvalidMaxEventBytes"
    [] ~checkRange(o.maxConnections, ceiling) -> "ErrInvalidMaxConnections"
    [] ~checkRange(o.connectionBuffer, ceiling) -> "ErrInvalidConnectionBuffer"
    [] ~(o.slowClientPolicy \subseteq {"drop", "disconnect"}) -> "ErrInvalidSlowClientPolicy"
    [] ~checkRange(o.replayBuffer, ceiling) -> "ErrInvalidReplayBuffer"
    [] ~Positive(o.heartbeat) -> "ErrInvalidHeartbeat"
    [] ~Positive(o.writeTimeout) -> "ErrInvalidWriteTimeout"
    [] \E b \in o.reconnectBackoff : b.min <= 0 \/ b.max < b.min -> "ErrInvalidReconnectBackoff"
    [] ~Positive(o.readTimeout) -> "ErrInvalidReadTimeout"
    [] OTHER -> "nil"

validateURL(url) ==
  CASE url.blank -> "ErrEmptyURL"
    [] ~url.parses \/ url.scheme \notin {"http", "https"} \/ ~url.host -> "ErrInvalidURL"
    [] OTHER -> "nil"

ErrorOr(err, next) == IF err # "nil" THEN err ELSE next

NewOutbound(url, o) == ErrorOr(NewConfig(o), validateURL(url))
NewExchange(url, o) == ErrorOr(NewConfig(o), validateURL(url))
NewSSEClient(url, o) == ErrorOr(NewConfig(o), validateURL(url))
NewSSEServer(o) == NewConfig(o)
NewInbound(target, o) == ErrorOr(NewConfig(o), IF target THEN "nil" ELSE "ErrNilTarget")
NewInboundGateway(exchange, o) == ErrorOr(NewConfig(o), IF exchange THEN "nil" ELSE "ErrNilExchange")

OrDefault(option, default) == IF option = {} THEN default ELSE CHOOSE v \in option : TRUE

defaultMaxBodyBytes == 2^20

maxBody(o) == OrDefault(o.maxBodyBytes, defaultMaxBodyBytes)
successStatusOrDefault(o) == OrDefault(o.successStatus, 202)

(* Whether a redirect is followed: not unless the option or the client one *)
(* was given says so.                                                      *)
resolveClient(o) == o.followRedirects \/ \E c \in o.httpClient : c.checkRedirect

(* Without a client of one's own the one for a stream is a new one, which  *)
(* has no timeout.                                                         *)
resolveSSEClient(o) ==
  [follows |-> resolveClient(o),
   timeout |-> IF o.httpClient = {} THEN 0 ELSE (CHOOSE c \in o.httpClient : TRUE).timeout]
=============================================================================
